----------------------------- MODULE Contracts ------------------------------
(***************************************************************************)
(* An insurance broker's register: contracts are entered, imported from a  *)
(* spreadsheet, edited, closed and renewed by a successor; before one      *)
(* expires the hourly task tells the broker of it, once, in the digest of  *)
(* the day, then its client, once, unless the broker takes care of it.     *)
(*                                                                         *)
(* The office's requests are atomic; the task keeps the rows it read at    *)
(* its start, while the office goes on.  One client, one branch of         *)
(* insurance, one length of contract.                                      *)
(***************************************************************************)
EXTENDS Integers, Sequences, FiniteSets

CONSTANTS
    Numbers,        \* contract numbers
    GivenEffects,   \* the dates of effect that the office gives, RegisterDays + 1 for none
    RowEffects,     \* those that the rows of a spreadsheet give
    AlertDays, RemindDays, LateDays,
    MaxPolicies,    \* bound on the contracts
    RegisterDays    \* bound on the days; contracts expire within

ASSUME ContractAssumption ==
    /\ AlertDays \in Nat /\ RemindDays \in Nat /\ RemindDays <= AlertDays /\ LateDays \in Nat
    /\ GivenEffects \cup RowEffects \subseteq 0..RegisterDays \cup {RegisterDays + 1}
    /\ MaxPolicies \in Nat /\ RegisterDays \in Nat

VARIABLES
    policies,   \* the contracts, in the order of their creation
    clock,      \* the day
    digestOn,   \* the day of the last digest
    round,      \* the hourly task
    reminders,  \* per contract: reminders written down since its expiry was set
    digests     \* per contract: digests that named it since then

policyVars == <<policies, clock, digestOn, round, reminders, digests>>

NoNumber == "no number"
NoDay    == RegisterDays + 1
Days     == 0..RegisterDays
Policy   == [status : {"ACTIVE", "RENEWED", "LOST"}, number : Numbers \cup {NoNumber},
             effective : Days \cup {NoDay}, expires : Days, alerted : BOOLEAN, reminded : BOOLEAN,
             handled : BOOLEAN, from : 0..MaxPolicies]
NoRound  == [on |-> FALSE]

NewPolicy(number, effective, expires, from) ==
    [status |-> "ACTIVE", number |-> number, effective |-> effective, expires |-> expires,
     alerted |-> FALSE, reminded |-> FALSE, handled |-> FALSE, from |-> from]

Ordered(p) == p.effective # NoDay => p.effective < p.expires

PolicyInit ==
    /\ policies = <<>> /\ reminders = <<>> /\ digests = <<>>
    /\ clock = 0 /\ digestOn = NoDay /\ round = NoRound

-----------------------------------------------------------------------------
(* The office.                                                             *)

Enter(ps, p) ==
    /\ Len(ps) < MaxPolicies
    /\ policies' = Append(ps, p)
    /\ reminders' = Append(reminders, 0) /\ digests' = Append(digests, 0)

CreateContract(number, effective, expires) ==
    LET p == NewPolicy(number, effective, expires, 0) IN
    /\ Ordered(p) /\ Enter(policies, p)
    /\ UNCHANGED <<clock, digestOn, round>>

ResetReminders(p) == [p EXCEPT !.alerted = FALSE, !.reminded = FALSE, !.handled = FALSE]

\* Faulty variant: any edition starts the reminders anew.
EditedAlways(p, effective, expires) ==
    ResetReminders([p EXCEPT !.expires = expires, !.effective = IF effective = NoDay THEN @ ELSE effective])

\* A new expiry starts them anew.
Edited(p, effective, expires) ==
    LET q == [p EXCEPT !.expires = expires, !.effective = IF effective = NoDay THEN @ ELSE effective] IN
    IF expires # p.expires THEN ResetReminders(q) ELSE q

\* The contract i becomes p: counted from a new expiry on.
Put(i, p) ==
    LET anew == p.expires # policies[i].expires IN
    /\ policies' = [policies EXCEPT ![i] = p]
    /\ reminders' = [reminders EXCEPT ![i] = IF anew THEN 0 ELSE @]
    /\ digests' = [digests EXCEPT ![i] = IF anew THEN 0 ELSE @]

UpdateContract(i, effective, expires) ==
    LET p == Edited(policies[i], effective, expires) IN
    /\ Ordered(p) /\ Put(i, p)
    /\ UNCHANGED <<clock, digestOn, round>>

SetStatus(i, status) ==
    /\ policies[i].status # "RENEWED"
    /\ Put(i, [policies[i] EXCEPT !.status = status])
    /\ UNCHANGED <<clock, digestOn, round>>

RenewContract(i, expires) ==
    LET p == policies[i] IN
    /\ p.status = "ACTIVE" /\ expires > p.expires
    /\ Enter([policies EXCEPT ![i].status = "RENEWED"], NewPolicy(p.number, p.expires, expires, i))
    /\ UNCHANGED <<clock, digestOn, round>>

HandleRenewal(i) ==
    /\ policies[i].status = "ACTIVE"
    /\ Put(i, [policies[i] EXCEPT !.handled = TRUE])
    /\ UNCHANGED <<clock, digestOn, round>>

Latest(S) == CHOOSE i \in S : \A j \in S : j <= i

\* The line of the contract in force of this number, a line without number
\* that is there already, or a new contract.  As the code has it, a line that
\* the contract's own date of effect refuses has already changed it.
ImportRow(number, effective, expires) ==
    LET row     == NewPolicy(number, effective, expires, 0)
        inForce == {i \in DOMAIN policies : policies[i].status = "ACTIVE" /\ policies[i].number = number}
        same    == {i \in inForce : policies[i].expires = expires} IN
    /\ Ordered(row)
    /\ \/ /\ number # NoNumber /\ inForce # {}
          /\ LET i == Latest(inForce)
                 p == Edited(policies[i], effective, expires) IN
             Put(i, IF Ordered(p) THEN p ELSE [policies[i] EXCEPT !.expires = expires])
       \/ /\ number = NoNumber => same = {}
          /\ number # NoNumber => inForce = {}
          /\ Enter(policies, row)
    /\ UNCHANGED <<clock, digestOn, round>>

-----------------------------------------------------------------------------
(* The task.                                                               *)

DaysLeft(p, today) == p.expires - today

NeedsAttention(p, today) ==
    p.status = "ACTIVE" /\ DaysLeft(p, today) \in (-LateDays)..AlertDays /\ ~p.handled

ReminderDue(p, today) ==
    p.status = "ACTIVE" /\ ~p.reminded /\ ~p.handled /\ DaysLeft(p, today) \in 0..RemindDays

\* The contracts that the round found to be announced, and to be reminded of.
StartRound ==
    /\ ~round.on
    /\ round' = [on |-> TRUE, day |-> clock, digest |-> digestOn # clock,
                 fresh |-> {i \in DOMAIN policies : NeedsAttention(policies[i], clock) /\ ~policies[i].alerted},
                 due |-> {i \in DOMAIN policies : ReminderDue(policies[i], clock)}]
    /\ UNCHANGED <<policies, clock, digestOn, reminders, digests>>

\* The digest goes, or does not; its contracts are marked together.
Digest(sent) ==
    /\ round.on /\ round.digest
    /\ round' = [round EXCEPT !.digest = FALSE, !.fresh = {}]
    /\ IF sent /\ round.fresh # {}
       THEN /\ policies' = [i \in DOMAIN policies |->
                    [policies[i] EXCEPT !.alerted = @ \/ i \in round.fresh]]
            /\ digests' = [i \in DOMAIN digests |-> IF i \in round.fresh THEN digests[i] + 1 ELSE digests[i]]
            /\ digestOn' = round.day
       ELSE UNCHANGED <<policies, digests, digestOn>>
    /\ UNCHANGED <<clock, reminders>>

\* A channel takes the reminder, or the contract is marked "to be called";
\* or no channel takes it and the next round tries again.
RemindClient(i, taken) ==
    /\ round.on /\ ~round.digest /\ i \in round.due
    /\ round' = [round EXCEPT !.due = @ \ {i}]
    /\ IF taken
       THEN /\ policies' = [policies EXCEPT ![i].reminded = TRUE]
            /\ reminders' = [reminders EXCEPT ![i] = @ + 1]
       ELSE UNCHANGED <<policies, reminders>>
    /\ UNCHANGED <<clock, digestOn, digests>>

\* Nothing is left, or a failure of the database has ended the round.
EndRound ==
    /\ round.on /\ ~round.digest /\ round' = NoRound
    /\ UNCHANGED <<policies, clock, digestOn, reminders, digests>>

TomorrowComes ==
    /\ clock < RegisterDays /\ clock' = clock + 1
    /\ UNCHANGED <<policies, digestOn, round, reminders, digests>>

PolicyNext ==
    \/ \E n \in Numbers \cup {NoNumber}, expires \in Days :
          \/ \E effective \in GivenEffects : CreateContract(n, effective, expires)
          \/ \E effective \in RowEffects : ImportRow(n, effective, expires)
    \/ \E i \in DOMAIN policies :
          \/ \E effective \in GivenEffects, expires \in Days : UpdateContract(i, effective, expires)
          \/ \E status \in {"ACTIVE", "LOST"} : SetStatus(i, status)
          \/ \E expires \in Days : RenewContract(i, expires)
          \/ HandleRenewal(i)
          \/ \E taken \in BOOLEAN : RemindClient(i, taken)
    \/ StartRound \/ (\E sent \in BOOLEAN : Digest(sent)) \/ EndRound
    \/ TomorrowComes

PolicySpec == PolicyInit /\ [][PolicyNext]_policyVars

-----------------------------------------------------------------------------
(* Properties.                                                             *)

PolicyTypeOK ==
    /\ policies \in Seq(Policy) /\ Len(policies) <= MaxPolicies /\ clock \in Days
    /\ Len(reminders) = Len(policies) /\ Len(digests) = Len(policies)
    /\ round.on => round.fresh \cup round.due \subseteq DOMAIN policies

\* For one expiry, the client is reminded once and the broker told once,
\* however the contract is edited, closed and put back in force meanwhile.
ToldOncePerExpiry == \A i \in DOMAIN policies : reminders[i] <= 1 /\ digests[i] <= 1

\* What a successor has taken over is never in force again, so that no one is
\* reminded of both; and a successor follows one contract alone.
RenewedForGood ==
    \A i, j \in DOMAIN policies :
        policies[i].from = j => policies[j].status = "RENEWED"

\* "Une ligne refusée ne laisse rien derrière elle": no contract takes effect
\* on its expiry or after.  Not so, and checked by no run (see ImportRow).
EffectBeforeExpiry == \A i \in DOMAIN policies : Ordered(policies[i])

\* What the round and the office keep about every contract of the register.
RegisterRight == ToldOncePerExpiry /\ RenewedForGood
=============================================================================
