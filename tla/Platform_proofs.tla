--------------------------- MODULE Platform_proofs ---------------------------
(***************************************************************************)
(* What TLAPS proves of what is kept of the shops: the register of         *)
(* contracts, however many there are and whatever the office does while    *)
(* the hourly task works on the rows it has read; the errors, whoever      *)
(* groups them, handles them or purges them meanwhile; the e-mails of the  *)
(* date a shop has paid until, with the monthly reports, and the limits of *)
(* its plan, for every plan, date, length of a month and of an hour.       *)
(***************************************************************************)
EXTENDS Workers, Outreach_proofs, DataInduction, TLAPS

-----------------------------------------------------------------------------
(* The inductive invariant.                                                *)

Rounds == {NoRound} \cup [on : {TRUE}, day : Days, digest : BOOLEAN, fresh : SUBSET Nat, due : SUBSET Nat]

Register ==
    /\ policies \in Seq(Policy) /\ Len(policies) <= MaxPolicies
    /\ clock \in Days /\ digestOn \in Days \cup {NoDay} /\ round \in Rounds
    /\ round.on => round.fresh \cup round.due \subseteq DOMAIN policies

\* What is counted of the register's contracts, each from its expiry on.
Counted ==
    /\ reminders \in Seq({0, 1}) /\ Len(reminders) = Len(policies)
    /\ digests \in Seq({0, 1}) /\ Len(digests) = Len(policies)

\* The marks tell what was counted, and the round still has to do what was
\* not.
MarksTell ==
    \A i \in DOMAIN policies :
        /\ ~policies[i].reminded => reminders[i] = 0
        /\ ~policies[i].alerted => digests[i] = 0
        /\ round.on /\ i \in round.due => reminders[i] = 0
        /\ round.on /\ i \in round.fresh => digests[i] = 0

\* A successor is younger than the contract it takes over.
Successors ==
    \A i \in DOMAIN policies :
        /\ policies[i].from < i
        /\ policies[i].from # 0 => policies[policies[i].from].status = "RENEWED"

PolicyInv == Register /\ Counted /\ MarksTell /\ Successors

-----------------------------------------------------------------------------
(* The operators.                                                          *)

\* Of several contracts one is the latest.
LEMMA LatestIsOne ==
    ASSUME NEW n \in Nat, NEW S \in SUBSET (1..n), S # {}
    PROVE  Latest(S) \in S
<1> DEFINE T == {n - i : i \in S}
<1>1. T \subseteq Nat /\ T # {}
  <2>1. \A i \in S : n - i \in Nat
    <3> SUFFICES ASSUME NEW i \in S PROVE n - i \in Nat OBVIOUS
    <3>1. i \in 1..n OBVIOUS
    <3> QED BY <3>1
  <2> QED BY <2>1
<1>2. PICK m \in T : \A y \in T : ~(<<y, m>> \in OpToRel(<, Nat))
  <2> HIDE DEF T
  <2> QED BY <1>1, WFMin, NatLessThanWellFounded
<1>3. \A y \in T : ~(y < m) BY <1>1, <1>2 DEF OpToRel
<1>4. PICK k \in S : m = n - k OBVIOUS
<1>5. \A j \in S : j <= k
  <2> SUFFICES ASSUME NEW j \in S PROVE j <= k OBVIOUS
  <2>1. ~(n - j < n - k) BY <1>3, <1>4
  <2> QED BY <2>1
<1> QED BY <1>4, <1>5 DEF Latest

\* A contract edited keeps its marks unless its expiry moves.
LEMMA EditedIsPolicy ==
    ASSUME NEW p \in Policy, NEW effective \in GivenEffects \cup RowEffects, NEW expires \in Days
    PROVE  /\ Edited(p, effective, expires) \in Policy
           /\ Edited(p, effective, expires).from = p.from
           /\ Edited(p, effective, expires).status = p.status
           /\ Edited(p, effective, expires).expires = expires
           /\ expires = p.expires =>
                 /\ Edited(p, effective, expires).reminded = p.reminded
                 /\ Edited(p, effective, expires).alerted = p.alerted
<1> DEFINE q == [p EXCEPT !.expires = expires, !.effective = IF effective = NoDay THEN @ ELSE effective]
<1>1. effective \in Days \cup {NoDay} BY ContractAssumption DEF Days, NoDay
<1>2. /\ q \in Policy /\ q.from = p.from /\ q.status = p.status /\ q.expires = expires
      /\ q.reminded = p.reminded /\ q.alerted = p.alerted
  BY <1>1 DEF Policy
<1> HIDE DEF q
<1>3. LET r == ResetReminders(q) IN r \in Policy /\ r.from = q.from /\ r.status = q.status /\ r.expires = q.expires
  BY <1>2 DEF ResetReminders, Policy
<1>4. Edited(p, effective, expires) = IF expires # p.expires THEN ResetReminders(q) ELSE q BY DEF Edited, q
<1> QED BY <1>2, <1>3, <1>4

LEMMA NewPolicyIsPolicy ==
    ASSUME NEW number \in Numbers \cup {NoNumber}, NEW effective \in Days \cup {NoDay}, NEW expires \in Days,
           NEW from \in 0..MaxPolicies
    PROVE  LET p == NewPolicy(number, effective, expires, from) IN
           /\ p \in Policy /\ p.from = from /\ p.status = "ACTIVE" /\ ~p.reminded /\ ~p.alerted
BY DEF NewPolicy, Policy

LEMMA FromIsNumber == ASSUME NEW p \in Policy PROVE p.from \in Nat
<1>1. p.from \in 0..MaxPolicies /\ MaxPolicies \in Nat BY ContractAssumption DEF Policy
<1> QED BY <1>1

\* A contract that keeps its expiry keeps its marks; one that is renewed
\* stays so.
LEMMA PutKeeps ==
    ASSUME PolicyInv, NEW i \in DOMAIN policies, NEW p \in Policy, Put(i, p),
           p.from = policies[i].from, policies[i].status = "RENEWED" => p.status = "RENEWED",
           p.expires = policies[i].expires =>
              (p.reminded \/ ~policies[i].reminded) /\ (p.alerted \/ ~policies[i].alerted),
           UNCHANGED <<clock, digestOn, round>>
    PROVE  PolicyInv'
<1> DEFINE anew == p.expires # policies[i].expires
<1>1. /\ policies \in Seq(Policy) /\ reminders \in Seq({0, 1}) /\ digests \in Seq({0, 1})
      /\ Len(reminders) = Len(policies) /\ Len(digests) = Len(policies)
  BY DEF PolicyInv, Register, Counted
<1>2. DOMAIN policies = 1..Len(policies) /\ DOMAIN reminders = DOMAIN policies /\ DOMAIN digests = DOMAIN policies
  BY <1>1
<1>3. /\ policies' = [policies EXCEPT ![i] = p]
      /\ reminders' = [reminders EXCEPT ![i] = IF anew THEN 0 ELSE @]
      /\ digests' = [digests EXCEPT ![i] = IF anew THEN 0 ELSE @]
  BY DEF Put
<1>4. policies' \in Seq(Policy) /\ Len(policies') = Len(policies) /\ DOMAIN policies' = DOMAIN policies
  BY <1>1, <1>2, <1>3
<1>5. reminders' \in Seq({0, 1}) /\ Len(reminders') = Len(reminders)
  BY <1>1, <1>2, <1>3
<1>6. digests' \in Seq({0, 1}) /\ Len(digests') = Len(digests)
  BY <1>1, <1>2, <1>3
<1>7. /\ \A k \in DOMAIN policies : k # i => policies'[k] = policies[k] /\ reminders'[k] = reminders[k] /\ digests'[k] = digests[k]
      /\ policies'[i] = p
      /\ reminders'[i] = IF anew THEN 0 ELSE reminders[i]
      /\ digests'[i] = IF anew THEN 0 ELSE digests[i]
  BY <1>1, <1>2, <1>3
<1>8. Register' BY <1>4 DEF PolicyInv, Register
<1>9. Counted' BY <1>1, <1>4, <1>5, <1>6 DEF Counted
<1>10. MarksTell'
  <2> SUFFICES ASSUME NEW k \in DOMAIN policies
               PROVE  /\ ~policies'[k].reminded => reminders'[k] = 0
                      /\ ~policies'[k].alerted => digests'[k] = 0
                      /\ round.on /\ k \in round.due => reminders'[k] = 0
                      /\ round.on /\ k \in round.fresh => digests'[k] = 0
    BY <1>4 DEF MarksTell
  <2>1. /\ ~policies[k].reminded => reminders[k] = 0
        /\ ~policies[k].alerted => digests[k] = 0
        /\ round.on /\ k \in round.due => reminders[k] = 0
        /\ round.on /\ k \in round.fresh => digests[k] = 0
    BY DEF PolicyInv, MarksTell
  <2>2. CASE k # i BY <1>7, <2>1, <2>2
  <2>3. CASE k = i BY <1>7, <2>1, <2>3
  <2> QED BY <2>2, <2>3
<1>11. Successors'
  <2> SUFFICES ASSUME NEW k \in DOMAIN policies
               PROVE  /\ policies'[k].from < k
                      /\ policies'[k].from # 0 => policies'[policies'[k].from].status = "RENEWED"
    BY <1>4 DEF Successors
  <2>1. policies[k] \in Policy /\ policies[k].from \in Nat
    <3>1. policies[k] \in Policy BY <1>1, <1>2
    <3> QED BY <3>1, FromIsNumber
  <2>2. /\ policies'[k].from = policies[k].from
        /\ policies[k].from < k
        /\ policies[k].from # 0 => policies[policies[k].from].status = "RENEWED"
    BY <1>7 DEF PolicyInv, Successors
  <2>3. policies[k].from # 0 => policies[k].from \in DOMAIN policies BY <1>2, <2>1, <2>2
  <2> QED BY <1>7, <2>2, <2>3
<1> QED BY <1>8, <1>9, <1>10, <1>11 DEF PolicyInv

\* A contract enters at the end, with nothing counted of it.
LEMMA EnterKeeps ==
    ASSUME PolicyInv, NEW ps \in Seq(Policy), NEW p \in Policy, Enter(ps, p),
           Len(ps) = Len(policies),
           \A k \in DOMAIN policies :
              /\ ps[k].from = policies[k].from /\ ps[k].reminded = policies[k].reminded
              /\ ps[k].alerted = policies[k].alerted
              /\ policies[k].status = "RENEWED" => ps[k].status = "RENEWED",
           p.from # 0 => p.from \in DOMAIN policies /\ ps[p.from].status = "RENEWED",
           UNCHANGED <<clock, digestOn, round>>
    PROVE  PolicyInv'
<1> DEFINE n == Len(policies) + 1
<1>1. /\ policies \in Seq(Policy) /\ reminders \in Seq({0, 1}) /\ digests \in Seq({0, 1})
      /\ Len(reminders) = Len(policies) /\ Len(digests) = Len(policies) /\ Len(policies) \in Nat
  BY DEF PolicyInv, Register, Counted
<1>2. DOMAIN policies = 1..Len(policies) BY <1>1
<1>3. /\ Len(policies) < MaxPolicies
      /\ policies' = Append(ps, p) /\ reminders' = Append(reminders, 0) /\ digests' = Append(digests, 0)
  BY DEF Enter
<1>4. /\ policies' \in Seq(Policy) /\ Len(policies') = n /\ DOMAIN policies' = 1..n /\ policies'[n] = p
      /\ \A k \in DOMAIN policies : policies'[k] = ps[k]
  BY <1>1, <1>2, <1>3
<1>5. /\ reminders' \in Seq({0, 1}) /\ Len(reminders') = n /\ reminders'[n] = 0
      /\ \A k \in DOMAIN policies : reminders'[k] = reminders[k]
  BY <1>1, <1>2, <1>3
<1>6. /\ digests' \in Seq({0, 1}) /\ Len(digests') = n /\ digests'[n] = 0
      /\ \A k \in DOMAIN policies : digests'[k] = digests[k]
  BY <1>1, <1>2, <1>3
<1>7. \A k \in 1..n : k \in DOMAIN policies \/ k = n BY <1>1, <1>2
<1>8. n \notin DOMAIN policies /\ DOMAIN policies \subseteq 1..n BY <1>1, <1>2
<1>9. Register'
  <2>1. n <= MaxPolicies BY <1>1, <1>3, ContractAssumption
  <2>2. round.on => round.fresh \cup round.due \subseteq 1..n BY <1>8 DEF PolicyInv, Register
  <2> QED BY <1>4, <2>1, <2>2 DEF PolicyInv, Register
<1>10. Counted' BY <1>4, <1>5, <1>6 DEF Counted
<1>11. MarksTell'
  <2> SUFFICES ASSUME NEW k \in 1..n
               PROVE  /\ ~policies'[k].reminded => reminders'[k] = 0
                      /\ ~policies'[k].alerted => digests'[k] = 0
                      /\ round.on /\ k \in round.due => reminders'[k] = 0
                      /\ round.on /\ k \in round.fresh => digests'[k] = 0
    BY <1>4 DEF MarksTell
  <2>1. CASE k \in DOMAIN policies
    <3>1. /\ ~policies[k].reminded => reminders[k] = 0
          /\ ~policies[k].alerted => digests[k] = 0
          /\ round.on /\ k \in round.due => reminders[k] = 0
          /\ round.on /\ k \in round.fresh => digests[k] = 0
      BY <2>1 DEF PolicyInv, MarksTell
    <3> QED BY <1>4, <1>5, <1>6, <2>1, <3>1
  <2>2. CASE k = n
    <3> HIDE DEF n
    <3> QED BY <1>5, <1>6, <2>2
  <2> QED BY <1>7, <2>1, <2>2
<1>12. Successors'
  <2> SUFFICES ASSUME NEW k \in 1..n
               PROVE  /\ policies'[k].from < k
                      /\ policies'[k].from # 0 => policies'[policies'[k].from].status = "RENEWED"
    BY <1>4 DEF Successors
  <2>1. CASE k \in DOMAIN policies
    <3>1. policies[k] \in Policy BY <1>1, <2>1
    <3>2. policies[k].from \in Nat BY <3>1, FromIsNumber
    <3>3. /\ policies[k].from < k
          /\ policies[k].from # 0 => policies[policies[k].from].status = "RENEWED"
      BY <2>1 DEF PolicyInv, Successors
    <3>4. policies[k].from # 0 => policies[k].from \in DOMAIN policies BY <1>2, <2>1, <3>2, <3>3
    <3>5. policies'[k].from = policies[k].from BY <1>4, <2>1
    <3> QED BY <1>4, <3>3, <3>4, <3>5
  <2>2. CASE k = n
    <3>1. policies'[k] = p BY <1>4, <2>2
    <3>2. p.from \in Nat BY FromIsNumber
    <3>3. p.from < n BY <1>1, <1>2, <3>2
    <3> HIDE DEF n
    <3> QED BY <1>4, <2>2, <3>1, <3>3
  <2> QED BY <1>7, <2>1, <2>2
<1> QED BY <1>9, <1>10, <1>11, <1>12 DEF PolicyInv

-----------------------------------------------------------------------------
(* The office's requests.                                                  *)

LEMMA RowOfPolicies ==
    ASSUME PolicyInv, NEW i \in DOMAIN policies
    PROVE  policies[i] \in Policy /\ i \in 1..Len(policies) /\ Len(policies) \in Nat /\ policies \in Seq(Policy)
BY DEF PolicyInv, Register

LEMMA CreateKeeps ==
    ASSUME PolicyInv, NEW number \in Numbers \cup {NoNumber}, NEW effective \in GivenEffects, NEW expires \in Days,
           CreateContract(number, effective, expires)
    PROVE  PolicyInv'
<1> DEFINE p == NewPolicy(number, effective, expires, 0)
<1>1. effective \in Days \cup {NoDay} /\ 0 \in 0..MaxPolicies BY ContractAssumption DEF Days, NoDay
<1>2. p \in Policy /\ p.from = 0 BY <1>1, NewPolicyIsPolicy
<1>3. Enter(policies, p) /\ UNCHANGED <<clock, digestOn, round>> BY DEF CreateContract
<1>4. policies \in Seq(Policy) BY DEF PolicyInv, Register
<1> HIDE DEF p
<1> QED BY <1>2, <1>3, <1>4, EnterKeeps

LEMMA UpdateKeeps ==
    ASSUME PolicyInv, NEW i \in DOMAIN policies, NEW effective \in GivenEffects, NEW expires \in Days,
           UpdateContract(i, effective, expires)
    PROVE  PolicyInv'
<1> DEFINE p == Edited(policies[i], effective, expires)
<1>1. policies[i] \in Policy BY RowOfPolicies
<1>2. Put(i, p) /\ UNCHANGED <<clock, digestOn, round>> BY DEF UpdateContract
<1>3. /\ p \in Policy /\ p.from = policies[i].from /\ p.status = policies[i].status /\ p.expires = expires
      /\ expires = policies[i].expires => p.reminded = policies[i].reminded /\ p.alerted = policies[i].alerted
  BY <1>1, EditedIsPolicy
<1> HIDE DEF p
<1> QED BY <1>2, <1>3, PutKeeps

LEMMA SetStatusKeeps ==
    ASSUME PolicyInv, NEW i \in DOMAIN policies, NEW status \in {"ACTIVE", "LOST"}, SetStatus(i, status)
    PROVE  PolicyInv'
<1> DEFINE p == [policies[i] EXCEPT !.status = status]
<1>1. policies[i] \in Policy /\ policies[i].status # "RENEWED" BY RowOfPolicies DEF SetStatus
<1>2. /\ p \in Policy /\ p.from = policies[i].from
      /\ p.reminded = policies[i].reminded /\ p.alerted = policies[i].alerted
  BY <1>1 DEF Policy
<1>3. Put(i, p) /\ UNCHANGED <<clock, digestOn, round>> BY DEF SetStatus
<1> HIDE DEF p
<1> QED BY <1>1, <1>2, <1>3, PutKeeps

LEMMA HandleKeeps ==
    ASSUME PolicyInv, NEW i \in DOMAIN policies, HandleRenewal(i)
    PROVE  PolicyInv'
<1> DEFINE p == [policies[i] EXCEPT !.handled = TRUE]
<1>1. policies[i] \in Policy /\ policies[i].status # "RENEWED" BY RowOfPolicies DEF HandleRenewal
<1>2. /\ p \in Policy /\ p.from = policies[i].from
      /\ p.reminded = policies[i].reminded /\ p.alerted = policies[i].alerted
  BY <1>1 DEF Policy
<1>3. Put(i, p) /\ UNCHANGED <<clock, digestOn, round>> BY DEF HandleRenewal
<1> HIDE DEF p
<1> QED BY <1>1, <1>2, <1>3, PutKeeps

LEMMA RenewKeeps ==
    ASSUME PolicyInv, NEW i \in DOMAIN policies, NEW expires \in Days, RenewContract(i, expires)
    PROVE  PolicyInv'
<1> DEFINE ps == [policies EXCEPT ![i].status = "RENEWED"]
           p  == NewPolicy(policies[i].number, policies[i].expires, expires, i)
           q  == [policies[i] EXCEPT !.status = "RENEWED"]
<1>1. policies[i] \in Policy /\ i \in 1..Len(policies) /\ policies \in Seq(Policy) /\ Len(policies) \in Nat
  BY RowOfPolicies
<1>2. i \in 0..MaxPolicies
  <2>1. Len(policies) <= MaxPolicies BY DEF PolicyInv, Register
  <2> QED BY <1>1, <2>1, ContractAssumption
<1>3. policies[i].number \in Numbers \cup {NoNumber} /\ policies[i].expires \in Days \cup {NoDay}
  BY <1>1 DEF Policy
<1>4. p \in Policy /\ p.from = i BY <1>2, <1>3, NewPolicyIsPolicy
<1>5. /\ q \in Policy /\ q.from = policies[i].from /\ q.status = "RENEWED"
      /\ q.reminded = policies[i].reminded /\ q.alerted = policies[i].alerted
  BY <1>1 DEF Policy
<1>6. ps = [policies EXCEPT ![i] = q] BY <1>1
<1>7. Enter(ps, p) /\ UNCHANGED <<clock, digestOn, round>> BY DEF RenewContract
<1> HIDE DEF ps, p, q
<1>8. ps \in Seq(Policy) /\ Len(ps) = Len(policies) BY <1>1, <1>5, <1>6
<1>9. ps[i] = q /\ \A k \in DOMAIN policies : k # i => ps[k] = policies[k] BY <1>1, <1>6
<1>10. \A k \in DOMAIN policies :
          /\ ps[k].from = policies[k].from /\ ps[k].reminded = policies[k].reminded
          /\ ps[k].alerted = policies[k].alerted
          /\ policies[k].status = "RENEWED" => ps[k].status = "RENEWED"
  BY <1>5, <1>9
<1> QED BY <1>4, <1>5, <1>7, <1>8, <1>9, <1>10, EnterKeeps

LEMMA ImportKeeps ==
    ASSUME PolicyInv, NEW number \in Numbers \cup {NoNumber}, NEW effective \in RowEffects, NEW expires \in Days,
           ImportRow(number, effective, expires)
    PROVE  PolicyInv'
<1> DEFINE row     == NewPolicy(number, effective, expires, 0)
           inForce == {k \in DOMAIN policies : policies[k].status = "ACTIVE" /\ policies[k].number = number}
           i == Latest(inForce)
           p == Edited(policies[i], effective, expires)
           q == [policies[i] EXCEPT !.expires = expires]
<1>1. UNCHANGED <<clock, digestOn, round>> BY DEF ImportRow
<1>2. CASE Enter(policies, row)
  <2>1. effective \in Days \cup {NoDay} /\ 0 \in 0..MaxPolicies BY ContractAssumption DEF Days, NoDay
  <2>2. row \in Policy /\ row.from = 0 BY <2>1, NewPolicyIsPolicy
  <2>3. policies \in Seq(Policy) BY DEF PolicyInv, Register
  <2> HIDE DEF row
  <2> QED BY <1>1, <1>2, <2>2, <2>3, EnterKeeps
<1>3. CASE inForce # {} /\ Put(i, IF Ordered(p) THEN p ELSE q)
  <2>1. i \in inForce
    <3>1. inForce \subseteq 1..Len(policies) /\ Len(policies) \in Nat BY DEF PolicyInv, Register
    <3> HIDE DEF inForce
    <3> QED BY <1>3, <3>1, LatestIsOne
  <2>2. i \in DOMAIN policies /\ policies[i].status = "ACTIVE" BY <2>1
  <2> HIDE DEF i
  <2>3. policies[i] \in Policy BY <2>2, RowOfPolicies
  <2>4. /\ p \in Policy /\ p.from = policies[i].from /\ p.status = policies[i].status /\ p.expires = expires
        /\ expires = policies[i].expires => p.reminded = policies[i].reminded /\ p.alerted = policies[i].alerted
    BY <2>3, EditedIsPolicy
  <2>5. /\ q \in Policy /\ q.from = policies[i].from
        /\ q.reminded = policies[i].reminded /\ q.alerted = policies[i].alerted
    BY <2>3 DEF Policy
  <2> HIDE DEF p, q
  <2>6. Put(i, p) \/ Put(i, q) BY <1>3
  <2> QED BY <1>1, <2>2, <2>4, <2>5, <2>6, PutKeeps
<1> QED BY <1>2, <1>3 DEF ImportRow

-----------------------------------------------------------------------------
(* The task.                                                               *)

LEMMA RoundAtWork ==
    ASSUME round \in Rounds, round.on
    PROVE  round \in [on : {TRUE}, day : Days, digest : BOOLEAN, fresh : SUBSET Nat, due : SUBSET Nat]
<1>1. NoRound.on = FALSE BY DEF NoRound
<1>2. round # NoRound BY <1>1
<1> QED BY <1>2 DEF Rounds

\* The round finds what was not counted yet.
LEMMA StartRoundKeeps ==
    ASSUME PolicyInv, StartRound
    PROVE  PolicyInv'
<1> DEFINE F == {i \in DOMAIN policies : NeedsAttention(policies[i], clock) /\ ~policies[i].alerted}
           D == {i \in DOMAIN policies : ReminderDue(policies[i], clock)}
<1>1. UNCHANGED <<policies, clock, digestOn, reminders, digests>> BY DEF StartRound
<1>2. round' = [on |-> TRUE, day |-> clock, digest |-> digestOn # clock, fresh |-> F, due |-> D]
  BY DEF StartRound
<1>3. F \subseteq DOMAIN policies /\ D \subseteq DOMAIN policies /\ DOMAIN policies \subseteq Nat
  BY DEF PolicyInv, Register
<1>4. (\A i \in F : ~policies[i].alerted) /\ (\A i \in D : ~policies[i].reminded) BY DEF ReminderDue
<1> HIDE DEF F, D
<1>5. round'.on /\ round'.fresh = F /\ round'.due = D BY <1>2
<1>6. clock \in Days /\ (digestOn # clock) \in BOOLEAN BY DEF PolicyInv, Register
<1>7. round' \in Rounds BY <1>2, <1>3, <1>6 DEF Rounds
<1>8. Register' BY <1>1, <1>3, <1>5, <1>7 DEF PolicyInv, Register
<1>9. MarksTell' BY <1>1, <1>3, <1>4, <1>5 DEF PolicyInv, MarksTell
<1> QED BY <1>1, <1>8, <1>9 DEF PolicyInv, Counted, Successors

\* The digest names once what it names, and marks it.
LEMMA DigestKeeps ==
    ASSUME PolicyInv, NEW sent \in BOOLEAN, Digest(sent)
    PROVE  PolicyInv'
<1>1. /\ round.on /\ round \in Rounds /\ round.fresh \subseteq DOMAIN policies /\ round.due \subseteq DOMAIN policies
      /\ policies \in Seq(Policy) /\ digests \in Seq({0, 1}) /\ Len(digests) = Len(policies)
      /\ UNCHANGED <<clock, reminders>>
  BY DEF Digest, PolicyInv, Register, Counted
<1>2. /\ round' \in Rounds /\ round'.on = round.on /\ round'.due = round.due /\ round'.fresh = {}
  <2>1. round \in [on : {TRUE}, day : Days, digest : BOOLEAN, fresh : SUBSET Nat, due : SUBSET Nat]
    BY <1>1, RoundAtWork
  <2>2. round' = [round EXCEPT !.digest = FALSE, !.fresh = {}] BY DEF Digest
  <2> QED BY <2>1, <2>2 DEF Rounds
<1>3. CASE UNCHANGED <<policies, digests, digestOn>>
  <2>1. Register' BY <1>1, <1>2, <1>3 DEF PolicyInv, Register
  <2>2. MarksTell' BY <1>1, <1>2, <1>3 DEF PolicyInv, MarksTell
  <2> QED BY <1>1, <1>3, <2>1, <2>2 DEF PolicyInv, Counted, Successors
<1>4. CASE /\ policies' = [i \in DOMAIN policies |-> [policies[i] EXCEPT !.alerted = @ \/ i \in round.fresh]]
           /\ digests' = [i \in DOMAIN digests |-> IF i \in round.fresh THEN digests[i] + 1 ELSE digests[i]]
           /\ digestOn' = round.day
  <2>1. DOMAIN policies = 1..Len(policies) /\ DOMAIN digests = DOMAIN policies /\ Len(policies) \in Nat BY <1>1
  <2>2. ASSUME NEW i \in DOMAIN policies
        PROVE  /\ policies'[i] \in Policy /\ policies'[i].from = policies[i].from
               /\ policies'[i].status = policies[i].status /\ policies'[i].reminded = policies[i].reminded
               /\ policies'[i].alerted = (policies[i].alerted \/ i \in round.fresh)
               /\ digests'[i] \in {0, 1} /\ (i \notin round.fresh => digests'[i] = digests[i])
    <3>1. policies[i] \in Policy /\ digests[i] \in {0, 1} BY <1>1, <2>1
    <3>2. policies'[i] = [policies[i] EXCEPT !.alerted = @ \/ i \in round.fresh] BY <1>4
    <3>3. policies'[i] \in Policy BY <3>1, <3>2 DEF Policy
    <3>4. /\ policies'[i].from = policies[i].from /\ policies'[i].status = policies[i].status
          /\ policies'[i].reminded = policies[i].reminded
          /\ policies'[i].alerted = (policies[i].alerted \/ i \in round.fresh)
      BY <3>1, <3>2 DEF Policy
    <3>5. i \in round.fresh => digests[i] = 0 BY <1>1 DEF PolicyInv, MarksTell
    <3>6. digests'[i] = IF i \in round.fresh THEN digests[i] + 1 ELSE digests[i] BY <1>4, <2>1
    <3> QED BY <3>1, <3>3, <3>4, <3>5, <3>6
  <2>3. /\ policies' \in Seq(Policy) /\ DOMAIN policies' = DOMAIN policies /\ Len(policies') = Len(policies)
    <3>1. DOMAIN policies' = 1..Len(policies) BY <1>4, <2>1
    <3>2. policies' = [i \in 1..Len(policies) |-> policies'[i]] BY <1>4, <2>1
    <3>3. \A i \in 1..Len(policies) : policies'[i] \in Policy BY <2>1, <2>2
    <3> QED BY <2>1, <3>1, <3>2, <3>3
  <2>4. digests' \in Seq({0, 1}) /\ Len(digests') = Len(policies)
    <3>1. DOMAIN digests' = 1..Len(policies) BY <1>4, <2>1
    <3>2. digests' = [i \in 1..Len(policies) |-> digests'[i]] BY <1>4, <2>1
    <3>3. \A i \in 1..Len(policies) : digests'[i] \in {0, 1} BY <2>1, <2>2
    <3> QED BY <2>1, <3>1, <3>2, <3>3
  <2>5. digestOn' \in Days
    <3>1. round \in [on : {TRUE}, day : Days, digest : BOOLEAN, fresh : SUBSET Nat, due : SUBSET Nat]
      BY <1>1, RoundAtWork
    <3> QED BY <1>4, <3>1
  <2>6. Register' BY <1>1, <1>2, <2>3, <2>5 DEF PolicyInv, Register
  <2>7. Counted' BY <1>1, <2>3, <2>4 DEF PolicyInv, Counted
  <2>8. MarksTell' BY ZenonT(40), <1>1, <1>2, <2>2, <2>3 DEF PolicyInv, MarksTell
  <2>9. Successors'
    <3> SUFFICES ASSUME NEW k \in DOMAIN policies
                 PROVE  /\ policies'[k].from < k
                        /\ policies'[k].from # 0 => policies'[policies'[k].from].status = "RENEWED"
      BY <2>3 DEF Successors
    <3>1. policies[k].from \in Nat BY RowOfPolicies, FromIsNumber
    <3>2. /\ policies[k].from < k
          /\ policies[k].from # 0 => policies[policies[k].from].status = "RENEWED"
      BY DEF PolicyInv, Successors
    <3>3. policies[k].from # 0 => policies[k].from \in DOMAIN policies BY <2>1, <3>1, <3>2
    <3>4. policies'[k].from = policies[k].from BY <2>2
    <3> QED BY <2>2, <3>2, <3>3, <3>4
  <2> QED BY <2>6, <2>7, <2>8, <2>9 DEF PolicyInv
<1> QED BY <1>3, <1>4 DEF Digest

\* A reminder that a channel takes is the first since the expiry was set.
LEMMA RemindClientKeeps ==
    ASSUME PolicyInv, NEW i \in DOMAIN policies, NEW taken \in BOOLEAN, RemindClient(i, taken)
    PROVE  PolicyInv'
<1>1. /\ round.on /\ i \in round.due /\ round \in Rounds
      /\ round.fresh \subseteq DOMAIN policies /\ round.due \subseteq DOMAIN policies
      /\ policies \in Seq(Policy) /\ reminders \in Seq({0, 1}) /\ Len(reminders) = Len(policies)
      /\ UNCHANGED <<clock, digestOn, digests>>
  BY DEF RemindClient, PolicyInv, Register, Counted
<1>2. round' \in Rounds /\ round'.on = round.on /\ round'.due = round.due \ {i} /\ round'.fresh = round.fresh
  <2>1. round \in [on : {TRUE}, day : Days, digest : BOOLEAN, fresh : SUBSET Nat, due : SUBSET Nat]
    BY <1>1, RoundAtWork
  <2>2. round' = [round EXCEPT !.due = @ \ {i}] BY DEF RemindClient
  <2>3. round.due \ {i} \in SUBSET Nat BY <2>1
  <2> QED BY <2>1, <2>2, <2>3 DEF Rounds
<1>3. CASE UNCHANGED <<policies, reminders>>
  <2>1. Register' BY <1>1, <1>2, <1>3 DEF PolicyInv, Register
  <2>2. MarksTell' BY <1>1, <1>2, <1>3 DEF PolicyInv, MarksTell
  <2> QED BY <1>1, <1>3, <2>1, <2>2 DEF PolicyInv, Counted, Successors
<1>4. CASE /\ policies' = [policies EXCEPT ![i].reminded = TRUE]
           /\ reminders' = [reminders EXCEPT ![i] = @ + 1]
  <2> DEFINE p == [policies[i] EXCEPT !.reminded = TRUE]
  <2>1. DOMAIN policies = 1..Len(policies) /\ DOMAIN reminders = DOMAIN policies /\ Len(policies) \in Nat BY <1>1
  <2>2. policies[i] \in Policy /\ reminders[i] = 0 BY <1>1, RowOfPolicies DEF PolicyInv, MarksTell
  <2>3. /\ p \in Policy /\ p.from = policies[i].from /\ p.status = policies[i].status
        /\ p.alerted = policies[i].alerted /\ p.reminded
    BY <2>2 DEF Policy
  <2>4. policies' = [policies EXCEPT ![i] = p] BY <1>4
  <2>5. reminders' = [reminders EXCEPT ![i] = 1] BY <1>1, <1>4, <2>2
  <2> HIDE DEF p
  <2>6. /\ policies' \in Seq(Policy) /\ Len(policies') = Len(policies) /\ DOMAIN policies' = DOMAIN policies
        /\ policies'[i] = p /\ \A k \in DOMAIN policies : k # i => policies'[k] = policies[k]
    BY <1>1, <2>1, <2>3, <2>4
  <2>7. /\ reminders' \in Seq({0, 1}) /\ Len(reminders') = Len(policies)
        /\ reminders'[i] = 1 /\ \A k \in DOMAIN policies : k # i => reminders'[k] = reminders[k]
    BY <1>1, <2>1, <2>5
  <2>8. Register' BY <1>1, <1>2, <2>6 DEF PolicyInv, Register
  <2>9. Counted' BY <1>1, <2>6, <2>7 DEF PolicyInv, Counted
  <2>10. MarksTell' BY <1>1, <1>2, <2>3, <2>6, <2>7 DEF PolicyInv, MarksTell
  <2>11. Successors'
    <3> SUFFICES ASSUME NEW k \in DOMAIN policies
                 PROVE  /\ policies'[k].from < k
                        /\ policies'[k].from # 0 => policies'[policies'[k].from].status = "RENEWED"
      BY <2>6 DEF Successors
    <3>1. policies[k].from \in Nat BY RowOfPolicies, FromIsNumber
    <3>2. /\ policies[k].from < k
          /\ policies[k].from # 0 => policies[policies[k].from].status = "RENEWED"
      BY DEF PolicyInv, Successors
    <3>3. policies[k].from # 0 => policies[k].from \in DOMAIN policies BY <2>1, <3>1, <3>2
    <3>4. policies'[k].from = policies[k].from BY <2>3, <2>6
    <3> QED BY <2>3, <2>6, <3>2, <3>3, <3>4
  <2> QED BY <2>8, <2>9, <2>10, <2>11 DEF PolicyInv
<1> QED BY <1>3, <1>4 DEF RemindClient

LEMMA EndRoundKeeps == ASSUME PolicyInv, EndRound PROVE PolicyInv'
<1>1. round' = NoRound /\ ~round'.on /\ UNCHANGED <<policies, clock, digestOn, reminders, digests>>
  BY DEF EndRound, NoRound
<1> QED BY <1>1 DEF PolicyInv, Register, Counted, MarksTell, Successors, Rounds

LEMMA TomorrowKeeps == ASSUME PolicyInv, TomorrowComes PROVE PolicyInv'
<1>1. clock' \in Days BY ContractAssumption DEF TomorrowComes, PolicyInv, Register, Days
<1>2. UNCHANGED <<policies, digestOn, round, reminders, digests>> BY DEF TomorrowComes
<1> QED BY <1>1, <1>2 DEF PolicyInv, Register, Counted, MarksTell, Successors

-----------------------------------------------------------------------------
(* The theorems.                                                           *)

LEMMA PolicyStarts == PolicyInit => PolicyInv
BY ContractAssumption
   DEF PolicyInit, PolicyInv, Register, Counted, MarksTell, Successors, Rounds, NoRound, Days, NoDay

LEMMA PolicyStepKeeps ==
    ASSUME PolicyInv, [PolicyNext]_policyVars
    PROVE  PolicyInv'
<1>1. CASE UNCHANGED policyVars
  BY <1>1 DEF policyVars, PolicyInv, Register, Counted, MarksTell, Successors
<1>2. CASE PolicyNext
  BY <1>2, CreateKeeps, ImportKeeps, UpdateKeeps, SetStatusKeeps, RenewKeeps, HandleKeeps, RemindClientKeeps,
     StartRoundKeeps, DigestKeeps, EndRoundKeeps, TomorrowKeeps
  DEF PolicyNext
<1> QED BY <1>1, <1>2

\* The register keeps its type: the round works on contracts that are there.
THEOREM PolicyTypeCorrect == PolicySpec => []PolicyTypeOK
<1>1. PolicyInv => PolicyTypeOK BY DEF PolicyInv, Register, Counted, PolicyTypeOK
<1> QED BY <1>1, PolicyStarts, PolicyStepKeeps, PTL DEF PolicySpec

\* For every register, and whatever the office does while the hourly task
\* works: for one expiry the broker is told once and the client reminded
\* once, and a contract that a successor has taken over stays renewed.
THEOREM RegisterHolds == PolicySpec => []RegisterRight
<1>1. PolicyInv => RegisterRight
  <2> SUFFICES ASSUME PolicyInv PROVE RegisterRight OBVIOUS
  <2>1. ToldOncePerExpiry
    <3> SUFFICES ASSUME NEW i \in DOMAIN policies PROVE reminders[i] <= 1 /\ digests[i] <= 1
      BY DEF ToldOncePerExpiry
    <3>1. /\ policies \in Seq(Policy) /\ reminders \in Seq({0, 1}) /\ digests \in Seq({0, 1})
          /\ Len(reminders) = Len(policies) /\ Len(digests) = Len(policies)
      BY DEF PolicyInv, Register, Counted
    <3>2. reminders[i] \in {0, 1} /\ digests[i] \in {0, 1} BY <3>1
    <3> QED BY <3>2
  <2>2. RenewedForGood
    <3> SUFFICES ASSUME NEW i \in DOMAIN policies, NEW j \in DOMAIN policies, policies[i].from = j
                 PROVE  policies[j].status = "RENEWED"
      BY DEF RenewedForGood
    <3>1. j # 0 BY RowOfPolicies
    <3> QED BY <3>1 DEF PolicyInv, Successors
  <2> QED BY <2>1, <2>2 DEF RegisterRight
<1> QED BY <1>1, PolicyStarts, PolicyStepKeeps, PTL DEF PolicySpec


-----------------------------------------------------------------------------
(* The errors of the platform: what the sequences of events hold.          *)

LEMMA ElementIs ==
    ASSUME NEW A, NEW s \in Seq(A), NEW i \in DOMAIN s
    PROVE  s[i] \in A
OBVIOUS

LEMMA OneIs == ASSUME NEW A, NEW a \in A PROVE <<a>> \in Seq(A)
OBVIOUS

LEMMA EventsCount ==
    ASSUME NEW s \in Seq(Event), NEW e
    PROVE  /\ OfError(s, e) \in Nat /\ IsFiniteSet({i \in DOMAIN s : s[i].error = e})
           /\ OfError(s, e) > 0 <=> \E i \in DOMAIN s : s[i].error = e
<1> DEFINE S == {i \in DOMAIN s : s[i].error = e}
<1>1. DOMAIN s = 1..Len(s) /\ Len(s) \in Nat OBVIOUS
<1>2. IsFiniteSet(1..Len(s)) BY <1>1, FS_Interval
<1>3. S \subseteq 1..Len(s) BY <1>1
<1>4. IsFiniteSet(S) BY <1>2, <1>3, FS_Subset
<1>5. Cardinality(S) \in Nat /\ (Cardinality(S) = 0 <=> S = {}) BY <1>4, FS_CardinalityType, FS_EmptySet
<1>6. OfError(s, e) = Cardinality(S) BY DEF OfError
<1>7. S # {} <=> \E i \in DOMAIN s : s[i].error = e OBVIOUS
<1> HIDE DEF S
<1>8. OfError(s, e) \in Nat /\ (OfError(s, e) > 0 <=> S # {}) BY <1>5, <1>6
<1> QED BY <1>4, <1>7, <1>8 DEF S

LEMMA NoEventCounts == ASSUME NEW e PROVE OfError(<<>>, e) = 0
<1>1. {i \in DOMAIN <<>> : <<>>[i].error = e} = {} OBVIOUS
<1> QED BY <1>1, FS_EmptySet DEF OfError

LEMMA OneEventCounts ==
    ASSUME NEW v \in Event, NEW e
    PROVE  OfError(<<v>>, e) = IF v.error = e THEN 1 ELSE 0
<1> DEFINE S == {i \in DOMAIN <<v>> : <<v>>[i].error = e}
<1>1. OfError(<<v>>, e) = Cardinality(S) BY DEF OfError
<1>2. CASE v.error = e
  <2>1. S = {1} BY <1>2
  <2> QED BY <1>1, <1>2, <2>1, FS_Singleton
<1>3. CASE v.error # e
  <2>1. S = {} BY <1>3
  <2> QED BY <1>1, <1>3, <2>1, FS_EmptySet
<1> QED BY <1>2, <1>3

LEMMA EventsJoin ==
    ASSUME NEW s \in Seq(Event), NEW t \in Seq(Event), NEW e
    PROVE  OfError(s \o t, e) = OfError(s, e) + OfError(t, e)
<1> DEFINE n == Len(s)
           S == {i \in DOMAIN s : s[i].error = e}
           T == {i \in DOMAIN t : t[i].error = e}
           V == {i \in DOMAIN (s \o t) : (s \o t)[i].error = e}
           U == {i \in V : i > n}
           f == [i \in T |-> i + n]
<1>1. n \in Nat /\ Len(t) \in Nat /\ DOMAIN s = 1..n /\ DOMAIN t = 1..Len(t) OBVIOUS
<1>2. DOMAIN (s \o t) = 1..n + Len(t) OBVIOUS
<1>3. \A i \in 1..n : (s \o t)[i] = s[i] OBVIOUS
<1>4. \A i \in 1..Len(t) : (s \o t)[i + n] = t[i] OBVIOUS
<1>5. IsFiniteSet(S) /\ IsFiniteSet(T) /\ IsFiniteSet(V)
  <2>1. s \o t \in Seq(Event) OBVIOUS
  <2> QED BY <2>1, EventsCount
<1>6. V = S \cup U /\ S \cap U = {} BY <1>1, <1>2, <1>3
<1>7. f \in Bijection(T, U)
  <2>1. ASSUME NEW i \in T PROVE i + n \in U BY <1>1, <1>2, <1>4
  <2>2. ASSUME NEW i \in U PROVE i - n \in T /\ (i - n) + n = i
    <3>1. i - n \in 1..Len(t) /\ (i - n) + n = i BY <1>1, <1>2
    <3> QED BY <1>1, <1>4, <3>1
  <2>3. f \in [T -> U] BY <2>1
  <2>4. \A i, j \in T : f[i] = f[j] => i = j BY <1>1
  <2>5. \A i \in U : \E j \in T : f[j] = i BY <2>2
  <2> HIDE DEF f, T, U
  <2> QED BY <2>3, <2>4, <2>5 DEF Bijection, Injection, Surjection, IsInjective
<1>8. IsFiniteSet(U) /\ Cardinality(U) = Cardinality(T) BY <1>5, <1>7, FS_Bijection DEF ExistsBijection
<1>9. Cardinality(S \cup U) = Cardinality(S) + Cardinality(U) - Cardinality(S \cap U) BY <1>5, <1>8, FS_Union
<1>10. Cardinality(S) \in Nat /\ Cardinality(T) \in Nat BY <1>5, FS_CardinalityType
<1>11. Cardinality(V) = Cardinality(S) + Cardinality(T)
  <2>1. Cardinality(S \cap U) = 0 BY <1>6, FS_EmptySet
  <2> HIDE DEF S, T, U, V
  <2> QED BY <1>6, <1>8, <1>9, <1>10, <2>1
<1> QED BY <1>11 DEF OfError

\* What falls out of a full queue is its first event.
LEMMA FirstFalls ==
    ASSUME NEW s \in Seq(Event), s # <<>>, NEW e
    PROVE  /\ Head(s) \in Event /\ Tail(s) \in Seq(Event) /\ Len(Tail(s)) = Len(s) - 1
           /\ OfError(s, e) = OfError(<<Head(s)>>, e) + OfError(Tail(s), e)
<1>1. Head(s) \in Event /\ Tail(s) \in Seq(Event) /\ Len(Tail(s)) = Len(s) - 1 OBVIOUS
<1>2. s = <<Head(s)>> \o Tail(s) OBVIOUS
<1>3. PICK a \in Seq(Event) : a = <<Head(s)>> BY <1>1, OneIs
<1>4. PICK b \in Seq(Event) : b = Tail(s) BY <1>1
<1>5. OfError(a \o b, e) = OfError(a, e) + OfError(b, e) BY EventsJoin
<1> QED BY <1>1, <1>2, <1>3, <1>4, <1>5

-----------------------------------------------------------------------------
(* The earliest and the latest of some times.                              *)

LEMMA Earliest ==
    ASSUME NEW S \in SUBSET Nat, S # {}
    PROVE  (CHOOSE t \in S : \A u \in S : t <= u) \in S
<1>1. PICK m \in S : \A y \in S : ~(<<y, m>> \in OpToRel(<, Nat)) BY WFMin, NatLessThanWellFounded
<1>2. \A y \in S : ~(y < m) BY <1>1 DEF OpToRel
<1>3. \A y \in S : m <= y BY <1>2
<1> QED BY <1>3

LEMMA LatestIs ==
    ASSUME NEW n \in Nat, NEW S \in SUBSET ({Never} \cup 0..n), S # {}
    PROVE  LatestOf(S) \in S /\ \A u \in S : u <= LatestOf(S)
<1> DEFINE T == S \cap 0..n
<1>1. \E m \in S : \A k \in S : k <= m
  <2>1. CASE T = {}
    <3>1. S = {Never} BY <2>1
    <3> QED BY <3>1 DEF Never
  <2>2. CASE T # {}
    <3>1. PICK m \in T : \A k \in T : k <= m BY <2>2, HasGreatest
    <3>2. m \in S /\ m >= 0 OBVIOUS
    <3>3. \A k \in S : k \in T \/ k = -1 BY DEF Never
    <3> QED BY <3>1, <3>2, <3>3
  <2> QED BY <2>1, <2>2
<1> QED BY <1>1 DEF LatestOf
-----------------------------------------------------------------------------
(* The inductive invariant: the rows, and what the drains know of them.    *)

Status      == Unread \cup {"IN_PROGRESS", "RESOLVED"}
RowAt(h)    == [id : Nat, status : Status, count : Nat, lastSeen : 0..h, resolvedAt : {Never} \cup 0..h,
                alertedAt : {Never} \cup 0..h, peakAt : {Never} \cup 0..h, reopened : Nat]
EventsAt(h) == Seq([error : Errors, at : 0..h])

\* The values the variables may have.
WatchKinds ==
    /\ watchHour \in 0..WatchHorizon /\ fell \in Nat /\ hands \in 0..HandsMax /\ crossed \in BOOLEAN
    /\ queue \in [Stores -> EventsAt(watchHour)] /\ \A q \in Stores : Len(queue[q]) <= QueueMax
    /\ issue \in [Errors -> RowAt(watchHour) \cup {NoIssue}]
    /\ seenAt \in [Errors -> Seq(0..watchHour)]
    /\ captured \in [Errors -> 0..EventMax] /\ gone \in [Errors -> Nat] /\ opened \in [Errors -> Nat]

Drains ==
    /\ drain = [d \in Drainers |-> drain[d]]
    /\ \A d \in Drainers :
        /\ drain[d].at \in {"idle", "popped", "read", "alerts", "sent"}
        /\ drain[d].at \in {"popped", "read"} => drain[d].events \in EventsAt(watchHour)
    /\ drain["page"].at \notin {"alerts", "sent"}
    /\ drain["task"].at = "sent" =>
        /\ drain["task"].tell \subseteq Errors /\ drain["task"].peaks \subseteq Errors
        /\ drain["task"].when \in 0..watchHour

\* A row has the number of the openings there were before it.
Numbered == \A e \in Errors : Exists(e) => issue[e].id < opened[e]

\* What was captured and has not been counted yet, nor is gone.
HeldBy(d, e) == IF drain[d].at \in {"popped", "read"} THEN OfError(drain[d].events, e) ELSE 0
Slack(e)   == captured[e] - gone[e] - Waiting(e)

Alike(r, s) == r.count = s.count /\ r.status = s.status /\ r.lastSeen = s.lastSeen /\ r.resolvedAt = s.resolvedAt

\* What a drain read: a row that is still as it read it if nobody wrote in
\* between, and that counts no more than there is to count; or no row.
KnowsRow(r, e) ==
    \/ r = NoIssue /\ (~crossed => issue[e] = NoIssue)
    \/ /\ r \in RowAt(watchHour) /\ r.id < opened[e]
       /\ SameRow(r, issue[e]) => r.count <= Slack(e) /\ (~crossed => Alike(r, issue[e]))

DrainsKnow == \A d \in Drainers : Reading(d) => \A e \in Touched(d) : KnowsRow(drain[d].rows[e], e)

\* The occurrences kept are those of the row.
SeenBefore ==
    \A e \in Errors :
        /\ ~Exists(e) => seenAt[e] = <<>>
        /\ Exists(e) /\ ~crossed => \A k \in DOMAIN seenAt[e] : seenAt[e][k] <= issue[e].lastSeen

RowsInv == WatchKinds /\ Drains /\ Numbered /\ CountedOnce /\ DrainsKnow /\ SeenBefore /\ CameBackSince

LEMMA RowIsThere == ASSUME NEW h, NEW r \in RowAt(h) PROVE r # NoIssue
BY DEF RowAt, Status, Unread, NoIssue

LEMMA RowsLast ==
    ASSUME NEW g \in Nat, NEW h \in Nat, g <= h
    PROVE  RowAt(g) \subseteq RowAt(h) /\ EventsAt(g) \subseteq EventsAt(h) /\ Seq(0..g) \subseteq Seq(0..h)
<1>1. 0..g \subseteq 0..h OBVIOUS
<1>2. RowAt(g) \subseteq RowAt(h) BY <1>1 DEF RowAt
<1>3. [error : Errors, at : 0..g] \subseteq [error : Errors, at : 0..h] BY <1>1
<1>4. ASSUME NEW A, NEW B, A \subseteq B PROVE Seq(A) \subseteq Seq(B) BY <1>4
<1>5. Seq([error : Errors, at : 0..g]) \subseteq Seq([error : Errors, at : 0..h]) BY <1>3, <1>4
<1>6. Seq(0..g) \subseteq Seq(0..h) BY <1>1, <1>4
<1> QED BY <1>2, <1>5, <1>6 DEF EventsAt

LEMMA EventsAre ==
    ASSUME WatchKinds
    PROVE  watchHour \in Nat /\ EventsAt(watchHour) \subseteq Seq(Event)
<1>1. watchHour \in Nat /\ WatchHorizon \in Nat /\ watchHour <= WatchHorizon BY WatchAssumption DEF WatchKinds
<1>2. EventsAt(watchHour) \subseteq EventsAt(WatchHorizon) BY <1>1, RowsLast
<1>3. EventsAt(WatchHorizon) = Seq(Event) BY DEF EventsAt, Event
<1> QED BY <1>1, <1>2, <1>3

LEMMA WaitingIs ==
    ASSUME WatchKinds, Drains, NEW e \in Errors
    PROVE  /\ Waiting(e) = OfError(queue["redis"], e) + OfError(queue["page"], e) + OfError(queue["task"], e)
                           + HeldBy("page", e) + HeldBy("task", e)
           /\ \A q \in Stores : OfError(queue[q], e) \in Nat
           /\ \A d \in Drainers : HeldBy(d, e) \in Nat
           /\ Waiting(e) \in Nat /\ Slack(e) \in Int
<1>1. EventsAt(watchHour) \subseteq Seq(Event) BY EventsAre
<1>2. \A q \in Stores : queue[q] \in Seq(Event) BY <1>1 DEF WatchKinds
<1>3. \A q \in Stores : OfError(queue[q], e) \in Nat BY <1>2, EventsCount
<1>4. \A d \in Drainers : drain[d].at \in {"popped", "read"} => drain[d].events \in Seq(Event) BY <1>1 DEF Drains
<1>5. \A d \in Drainers : HeldBy(d, e) \in Nat BY <1>4, EventsCount DEF HeldBy
<1>6. "page" \in Drainers /\ "task" \in Drainers /\ {"redis", "page", "task"} = Stores BY DEF Stores, Drainers
<1>7. Waiting(e) = OfError(queue["redis"], e) + OfError(queue["page"], e) + OfError(queue["task"], e)
                   + HeldBy("page", e) + HeldBy("task", e)
  BY DEF Waiting, HeldBy
<1>8. Waiting(e) \in Nat BY <1>3, <1>5, <1>6, <1>7
<1>9. captured[e] \in Nat /\ gone[e] \in Nat BY WatchAssumption DEF WatchKinds
<1> QED BY <1>3, <1>5, <1>7, <1>8, <1>9 DEF Slack

LEMMA CountedIs ==
    ASSUME WatchKinds, Drains
    PROVE  CountedOnce <=> \A e \in Errors : Count(e) <= Slack(e) /\ (crossed \/ Count(e) = Slack(e))
<1>1. ASSUME NEW e \in Errors
      PROVE  /\ Waiting(e) + Count(e) + gone[e] <= captured[e] <=> Count(e) <= Slack(e)
             /\ Waiting(e) + Count(e) + gone[e] = captured[e] <=> Count(e) = Slack(e)
  <2>1. Waiting(e) \in Nat BY WaitingIs
  <2>2. captured[e] \in Nat /\ gone[e] \in Nat BY WatchAssumption DEF WatchKinds
  <2>3. Count(e) \in Nat
    <3>1. issue[e] \in RowAt(watchHour) \/ issue[e] = NoIssue BY DEF WatchKinds
    <3> QED BY <3>1 DEF Count, Exists, RowAt
  <2> QED BY <2>1, <2>2, <2>3 DEF Slack
<1> QED BY <1>1 DEF CountedOnce

LEMMA NextCountedIs ==
    ASSUME WatchKinds', Drains'
    PROVE  (CountedOnce <=> \A e \in Errors : Count(e) <= Slack(e) /\ (crossed \/ Count(e) = Slack(e)))'
BY CountedIs, PTL

\* A step that writes no row.
LEMMA RowsKeep ==
    ASSUME RowsInv, UNCHANGED <<issue, seenAt, opened, crossed>>, watchHour' >= watchHour, WatchKinds', Drains',
           \A e \in Errors : Slack(e)' = Slack(e),
           \A d \in Drainers : Reading(d)' => \A e \in Touched(d)' :
               \/ Reading(d) /\ e \in Touched(d) /\ (drain[d].rows[e])' = drain[d].rows[e]
               \/ (drain[d].rows[e])' = issue[e]
    PROVE  RowsInv'
<1>1. WatchKinds /\ Drains /\ watchHour \in Nat /\ watchHour' \in Nat BY DEF RowsInv, WatchKinds
<1>2. RowAt(watchHour) \subseteq RowAt(watchHour') BY <1>1, RowsLast
<1>3. \A e : Exists(e)' = Exists(e) /\ Count(e)' = Count(e) BY DEF Exists, Count
<1>4. Numbered' BY <1>3 DEF RowsInv, Numbered
<1>5. CountedOnce'
  <2>1. \A e \in Errors : Count(e) <= Slack(e) /\ (crossed \/ Count(e) = Slack(e)) BY <1>1, CountedIs DEF RowsInv
  <2>2. \A e \in Errors : Count(e)' <= Slack(e)' /\ (crossed' \/ Count(e)' = Slack(e)') BY <1>3, <2>1
  <2>3. (CountedOnce <=> \A e \in Errors : Count(e) <= Slack(e) /\ (crossed \/ Count(e) = Slack(e)))'
    BY NextCountedIs
  <2> QED BY <2>2, <2>3
<1>6. DrainsKnow'
  <2> SUFFICES ASSUME NEW d \in Drainers, Reading(d)', NEW e \in Touched(d)' PROVE KnowsRow(drain[d].rows[e], e)'
    BY DEF DrainsKnow
  <2>1. e \in Errors BY DEF Touched
  <2>2. CASE Reading(d) /\ e \in Touched(d) /\ (drain[d].rows[e])' = drain[d].rows[e]
    <3>1. KnowsRow(drain[d].rows[e], e) BY <2>2 DEF RowsInv, DrainsKnow
    <3> QED BY <1>2, <2>1, <2>2, <3>1 DEF KnowsRow
  <2>3. CASE (drain[d].rows[e])' = issue[e]
    <3>1. CASE issue[e] = NoIssue BY <2>3, <3>1 DEF KnowsRow
    <3>2. CASE issue[e] # NoIssue
      <4>1. issue[e] \in RowAt(watchHour) /\ issue[e].id < opened[e]
        BY <2>1, <3>2 DEF RowsInv, WatchKinds, Numbered, Exists
      <4>2. issue[e].count <= Slack(e)
        BY <1>1, <2>1, <3>2, CountedIs DEF RowsInv, Count, Exists
      <4> QED BY <1>2, <2>1, <2>3, <4>1, <4>2 DEF KnowsRow, Alike
    <3> QED BY <3>1, <3>2
  <2> QED BY <2>2, <2>3
<1>7. SeenBefore' /\ CameBackSince' BY <1>3 DEF RowsInv, SeenBefore, CameBackSince
<1> QED BY <1>4, <1>5, <1>6, <1>7 DEF RowsInv
-----------------------------------------------------------------------------
(* The steps that write no row.                                            *)

LEMMA NextSlackIs ==
    ASSUME NEW e
    PROVE  Slack(e)' = captured'[e] - gone'[e]
                       - (OfError(queue'["redis"], e) + OfError(queue'["page"], e) + OfError(queue'["task"], e)
                          + HeldBy("page", e)' + HeldBy("task", e)')
BY DEF Slack, Waiting, HeldBy

LEMMA CaptureKeeps ==
    ASSUME RowsInv, NEW e \in Errors, NEW where \in Stores, Capture(e, where)
    PROVE  RowsInv'
<1> DEFINE s    == queue[where]
           full == Len(s) = QueueMax
           kept == IF full THEN Tail(s) ELSE s
           v    == [error |-> e, at |-> watchHour]
           dropped(x) == IF full THEN OfError(<<Head(s)>>, x) ELSE 0
           one(x)  == IF x = e THEN 1 ELSE 0
<1>1. /\ SumFunctionOnSet(captured, Errors) < EventMax
      /\ captured' = [captured EXCEPT ![e] = @ + 1] /\ queue' = [queue EXCEPT ![where] = Append(kept, v)]
      /\ full => gone' = [x \in Errors |-> gone[x] + OfError(<<Head(s)>>, x)]
      /\ ~full => gone' = gone
      /\ UNCHANGED <<issue, seenAt, drain, watchHour, opened, crossed, fell, hands>>
  BY DEF Capture, Lose
<1>2. WatchKinds /\ Drains /\ watchHour \in Nat /\ EventsAt(watchHour) \subseteq Seq(Event) BY EventsAre DEF RowsInv
<1>3. QueueMax \in Nat /\ QueueMax > 0 /\ EventMax \in Nat BY WatchAssumption
<1>4. s \in EventsAt(watchHour) /\ s \in Seq(Event) /\ Len(s) \in Nat /\ Len(s) <= QueueMax BY <1>2 DEF WatchKinds
<1>5. v \in [error : Errors, at : 0..watchHour] /\ v \in Event /\ v.error = e
  <2>1. watchHour \in 0..watchHour /\ watchHour \in 0..WatchHorizon BY <1>2 DEF WatchKinds
  <2> QED BY <2>1 DEF Event
<1>6. kept \in EventsAt(watchHour) /\ kept \in Seq(Event) /\ Len(kept) + 1 <= QueueMax /\ Len(kept) \in Nat
  <2>1. CASE full
    <3>1. s # <<>> BY <1>3, <2>1
    <3>2. Tail(s) \in EventsAt(watchHour) /\ Len(Tail(s)) = Len(s) - 1 BY <1>4, <3>1 DEF EventsAt
    <3> QED BY <1>2, <1>3, <1>4, <2>1, <3>2
  <2>2. CASE ~full BY <1>3, <1>4, <2>2
  <2> QED BY <2>1, <2>2
<1>7. ASSUME NEW x \in Errors PROVE dropped(x) \in Nat /\ OfError(s, x) = dropped(x) + OfError(kept, x)
  <2>1. CASE full
    <3>1. s # <<>> BY <1>3, <2>1
    <3>2. Head(s) \in Event /\ OfError(s, x) = OfError(<<Head(s)>>, x) + OfError(Tail(s), x) BY <1>4, <3>1, FirstFalls
    <3>3. OfError(<<Head(s)>>, x) \in Nat BY <3>2, OneEventCounts
    <3> QED BY <2>1, <3>2, <3>3
  <2>2. CASE ~full
    <3>1. OfError(s, x) \in Nat BY <1>4, EventsCount
    <3> QED BY <2>2, <3>1
  <2> QED BY <2>1, <2>2
<1> HIDE DEF v, kept
<1>8. ASSUME NEW x \in Errors PROVE OfError(Append(kept, v), x) = OfError(kept, x) + one(x)
  <2>1. Append(kept, v) = kept \o <<v>> BY <1>5, <1>6
  <2>2. PICK a \in Seq(Event) : a = kept BY <1>6
  <2>4. PICK b \in Seq(Event) : b = <<v>> BY <1>5, OneIs
  <2>5. OfError(a \o b, x) = OfError(a, x) + OfError(b, x) BY EventsJoin
  <2>3. OfError(Append(kept, v), x) = OfError(kept, x) + OfError(<<v>>, x) BY <2>1, <2>2, <2>4, <2>5
  <2> QED BY <1>5, <2>3, OneEventCounts
<1>9. Append(kept, v) \in EventsAt(watchHour) /\ Len(Append(kept, v)) <= QueueMax BY <1>5, <1>6 DEF EventsAt
<1>10. gone' = [x \in Errors |-> gone[x] + dropped(x)] /\ gone \in [Errors -> Nat]
  <2>1. gone \in [Errors -> Nat] BY <1>2 DEF WatchKinds
  <2>2. CASE full BY <1>1, <2>1, <2>2
  <2>3. CASE ~full
    <3>1. \A x \in Errors : gone[x] + dropped(x) = gone[x] BY <2>1, <2>3
    <3> QED BY <1>1, <2>1, <2>3, <3>1
  <2> QED BY <2>2, <2>3
<1> HIDE DEF s, full, dropped
<1>11. captured[e] < EventMax
  <2>1. \A x \in Errors : captured[x] \in Nat BY <1>2, <1>3 DEF WatchKinds
  <2>2. /\ SumFunctionOnSet(captured, Errors) \in Nat /\ SumFunctionOnSet(captured, Errors \ {e}) \in Nat
        /\ SumFunctionOnSet(captured, Errors) = SumFunctionOnSet(captured, Errors \ {e}) + captured[e]
    BY <2>1, WatchAssumption, SumTakesAway
  <2> QED BY <1>1, <1>3, <2>1, <2>2
<1>12. WatchKinds'
  <2>1. captured' \in [Errors -> 0..EventMax]
    <3>1. captured \in [Errors -> 0..EventMax] /\ captured[e] + 1 \in 0..EventMax BY <1>2, <1>3, <1>11 DEF WatchKinds
    <3> QED BY <1>1, <3>1
  <2>2. gone' \in [Errors -> Nat] BY <1>7, <1>10
  <2>3. queue' \in [Stores -> EventsAt(watchHour)] /\ \A q \in Stores : Len(queue'[q]) <= QueueMax
    BY <1>1, <1>2, <1>9 DEF WatchKinds
  <2> QED BY <1>1, <1>2, <2>1, <2>2, <2>3 DEF WatchKinds
<1>13. Drains' BY <1>1, <1>2 DEF Drains
<1>14. ASSUME NEW x \in Errors PROVE Slack(x)' = Slack(x)
  <2>1. \A d \in Drainers : HeldBy(d, x)' = HeldBy(d, x) /\ HeldBy(d, x) \in Nat BY <1>1, <1>2, WaitingIs DEF HeldBy
  <2>2. captured'[x] = captured[x] + one(x) /\ captured[x] \in Nat
    <3>1. captured \in [Errors -> 0..EventMax] /\ captured[x] \in Nat BY <1>2, <1>3 DEF WatchKinds
    <3>2. captured' = [captured EXCEPT ![e] = captured[e] + 1] BY <1>1
    <3>3. CASE x = e BY <3>1, <3>2, <3>3
    <3>4. CASE x # e BY <3>1, <3>2, <3>4
    <3> QED BY <3>3, <3>4
  <2>3. /\ OfError(queue'[where], x) = OfError(queue[where], x) - dropped(x) + one(x)
        /\ \A q \in Stores \ {where} : OfError(queue'[q], x) = OfError(queue[q], x)
    <3>1. OfError(kept, x) \in Nat BY <1>6, EventsCount
    <3>2. queue'[where] = Append(kept, v) /\ \A q \in Stores \ {where} : queue'[q] = queue[q] BY <1>1, <1>2 DEF WatchKinds
    <3>3. OfError(queue[where], x) = dropped(x) + OfError(kept, x) /\ dropped(x) \in Nat BY <1>7 DEF s
    <3> QED BY <1>8, <3>1, <3>2, <3>3
  <2>4. /\ Waiting(x) = OfError(queue["redis"], x) + OfError(queue["page"], x) + OfError(queue["task"], x)
                        + HeldBy("page", x) + HeldBy("task", x)
        /\ \A q \in Stores : OfError(queue[q], x) \in Nat
    BY <1>2, WaitingIs
  <2>5. dropped(x) \in Nat BY <1>7
  <2> HIDE DEF one
  <2>6. one(x) \in Nat BY DEF one
  <2>7. where = "redis" \/ where = "page" \/ where = "task" BY DEF Stores, Drainers
  <2>8. OfError(queue'["redis"], x) + OfError(queue'["page"], x) + OfError(queue'["task"], x)
        = OfError(queue["redis"], x) + OfError(queue["page"], x) + OfError(queue["task"], x) - dropped(x) + one(x)
    BY <2>3, <2>4, <2>5, <2>6, <2>7 DEF Stores, Drainers
  <2>9. "page" \in Drainers /\ "task" \in Drainers BY DEF Drainers
  <2>10. gone'[x] = gone[x] + dropped(x) /\ gone[x] \in Nat BY <1>10
  <2>11. HeldBy("page", x)' = HeldBy("page", x) /\ HeldBy("task", x)' = HeldBy("task", x)
         /\ HeldBy("page", x) \in Nat /\ HeldBy("task", x) \in Nat
    BY <2>1, <2>9
  <2>12. Slack(x) = captured[x] - gone[x] - Waiting(x) BY DEF Slack
  <2>13. Slack(x)' = captured'[x] - gone'[x]
                     - (OfError(queue'["redis"], x) + OfError(queue'["page"], x) + OfError(queue'["task"], x)
                        + HeldBy("page", x)' + HeldBy("task", x)')
    BY NextSlackIs
  <2>14. OfError(queue["redis"], x) \in Nat /\ OfError(queue["page"], x) \in Nat /\ OfError(queue["task"], x) \in Nat
    BY <2>4 DEF Stores, Drainers
  <2> QED BY <2>2, <2>4, <2>5, <2>6, <2>8, <2>10, <2>11, <2>12, <2>13, <2>14
<1>15. \A d \in Drainers : Reading(d)' => \A x \in Touched(d)' :
           Reading(d) /\ x \in Touched(d) /\ (drain[d].rows[x])' = drain[d].rows[x]
  BY <1>1 DEF Reading, Touched
<1> QED BY <1>1, <1>2, <1>12, <1>13, <1>14, <1>15, RowsKeep

LEMMA TimePassesKeeps ==
    ASSUME RowsInv, TimePasses
    PROVE  RowsInv'
<1>1. /\ watchHour < WatchHorizon /\ watchHour' = watchHour + 1
      /\ UNCHANGED <<queue, issue, seenAt, drain, captured, gone, opened, crossed, fell, hands>>
  BY DEF TimePasses
<1>2. WatchKinds /\ Drains /\ watchHour \in Nat /\ watchHour' \in Nat /\ watchHour' >= watchHour /\ WatchHorizon \in Nat
  BY <1>1, WatchAssumption DEF RowsInv, WatchKinds
<1>3. /\ RowAt(watchHour) \subseteq RowAt(watchHour') /\ EventsAt(watchHour) \subseteq EventsAt(watchHour')
      /\ Seq(0..watchHour) \subseteq Seq(0..watchHour') /\ 0..watchHour \subseteq 0..watchHour'
  BY <1>2, RowsLast
<1>4. WatchKinds' BY <1>1, <1>2, <1>3 DEF WatchKinds
<1>5. Drains' BY <1>1, <1>2, <1>3 DEF Drains
<1>6. \A x \in Errors : Slack(x)' = Slack(x) BY <1>1 DEF Slack, Waiting
<1>7. \A d \in Drainers : Reading(d)' => \A x \in Touched(d)' :
           Reading(d) /\ x \in Touched(d) /\ (drain[d].rows[x])' = drain[d].rows[x]
  BY <1>1 DEF Reading, Touched
<1> QED BY <1>1, <1>2, <1>4, <1>5, <1>6, <1>7, RowsKeep

\* What a drain that changes hands held elsewhere, or is gone.
LEMMA OtherDrain ==
    ASSUME Drains, NEW d \in Drainers, NEW new, drain' = [drain EXCEPT ![d] = new]
    PROVE  /\ drain'[d] = new /\ \A f \in Drainers \ {d} : drain'[f] = drain[f]
           /\ drain' = [f \in Drainers |-> drain'[f]]
           /\ \A f \in Drainers \ {d}, x \in Errors : HeldBy(f, x)' = HeldBy(f, x)
<1>1. drain'[d] = new /\ (\A f \in Drainers \ {d} : drain'[f] = drain[f]) /\ drain' = [f \in Drainers |-> drain'[f]]
  BY DEF Drains
<1> QED BY <1>1 DEF HeldBy

LEMMA PopEventsKeeps ==
    ASSUME RowsInv, NEW d \in Drainers, PopEvents(d)
    PROVE  RowsInv'
<1>1. /\ WatchIdle(d)
      /\ UNCHANGED <<issue, seenAt, watchHour, captured, gone, opened, crossed, fell, hands>>
  BY DEF PopEvents
<1>2. PICK redis \in BOOLEAN :
        LET s == queue[d] \o (IF redis THEN queue["redis"] ELSE <<>>) IN
        /\ drain' = [drain EXCEPT ![d] =
               IF s # <<>> THEN [at |-> "popped", events |-> s]
               ELSE IF d = "task" THEN [at |-> "alerts"] ELSE NoDrain]
        /\ queue' = [queue EXCEPT ![d] = <<>>, !["redis"] = IF redis THEN <<>> ELSE @]
  BY DEF PopEvents
<1> DEFINE t   == IF redis THEN queue["redis"] ELSE <<>>
           s   == queue[d] \o t
           new == IF s # <<>> THEN [at |-> "popped", events |-> s]
                  ELSE IF d = "task" THEN [at |-> "alerts"] ELSE NoDrain
           EventAt == [error : Errors, at : 0..watchHour]
<1>3. WatchKinds /\ Drains /\ watchHour \in Nat /\ EventsAt(watchHour) \subseteq Seq(Event) BY EventsAre DEF RowsInv
<1>4. d \in Stores /\ d # "redis" /\ "redis" \in Stores /\ (d = "page" \/ d = "task") BY DEF Stores, Drainers
<1>5. queue[d] \in Seq(EventAt) /\ queue["redis"] \in Seq(EventAt) BY <1>3, <1>4 DEF WatchKinds, EventsAt
<1>6. t \in Seq(EventAt) /\ EventsAt(watchHour) = Seq(EventAt) BY <1>5 DEF EventsAt
<1> HIDE DEF EventAt
<1>7. s \in Seq(EventAt) BY <1>5, <1>6
<1>8. s \in EventsAt(watchHour) /\ queue[d] \in Seq(Event) /\ t \in Seq(Event) /\ <<>> \in EventsAt(watchHour)
  <2>1. <<>> \in Seq(EventAt) OBVIOUS
  <2> QED BY <1>3, <1>5, <1>6, <1>7, <2>1
<1>9. drain' = [drain EXCEPT ![d] = new] BY <1>2
<1>10. new.at \in {"idle", "popped", "alerts"} /\ (new.at = "popped" => new.events = s) /\ (new.at = "alerts" => d = "task")
       /\ (new.at # "popped" => s = <<>>)
  <2>1. CASE s # <<>> BY <2>1
  <2>2. CASE s = <<>> /\ d = "task" BY <2>2
  <2>3. CASE s = <<>> /\ d # "task" BY <2>3 DEF NoDrain
  <2> QED BY <2>1, <2>2, <2>3
<1> HIDE DEF new
<1>11. /\ queue'[d] = <<>> /\ queue'["redis"] = (IF redis THEN <<>> ELSE queue["redis"])
       /\ \A q \in Stores \ {d, "redis"} : queue'[q] = queue[q]
       /\ queue' = [q \in Stores |-> queue'[q]]
  BY <1>2, <1>3, <1>4 DEF WatchKinds
<1>12. WatchKinds'
  <2>1. \A q \in Stores : queue'[q] \in EventsAt(watchHour) /\ Len(queue'[q]) <= QueueMax
    <3>1. Len(<<>>) = 0 /\ QueueMax >= 0 BY WatchAssumption
    <3>2. \A q \in Stores : queue[q] \in EventsAt(watchHour) /\ Len(queue[q]) <= QueueMax BY <1>3 DEF WatchKinds
    <3> QED BY <1>4, <1>8, <1>11, <3>1, <3>2
  <2> QED BY <1>1, <1>3, <1>11, <2>1 DEF WatchKinds
<1>13. /\ drain'[d] = new /\ \A f \in Drainers \ {d} : drain'[f] = drain[f]
       /\ drain' = [f \in Drainers |-> drain'[f]]
       /\ \A f \in Drainers \ {d}, x \in Errors : HeldBy(f, x)' = HeldBy(f, x)
  BY <1>3, <1>9, OtherDrain
<1> HIDE DEF s, t
<1>14. Drains'
  <2>1. ASSUME NEW f \in Drainers
        PROVE  /\ drain'[f].at \in {"idle", "popped", "read", "alerts", "sent"}
               /\ drain'[f].at \in {"popped", "read"} => drain'[f].events \in EventsAt(watchHour)
    <3>1. CASE f = d BY <1>8, <1>10, <1>13, <3>1
    <3>2. CASE f # d BY <1>3, <1>13, <3>2 DEF Drains
    <3> QED BY <3>1, <3>2
  <2>2. drain'["page"].at \notin {"alerts", "sent"}
    <3>1. CASE d = "page" BY <1>10, <1>13, <3>1
    <3>2. CASE d # "page" BY <1>3, <1>13, <3>2 DEF Drains, Drainers
    <3> QED BY <3>1, <3>2
  <2>3. drain'["task"].at = "sent" => drain'["task"] = drain["task"] BY <1>4, <1>10, <1>13 DEF Drainers
  <2> QED BY <1>1, <1>3, <1>13, <2>1, <2>2, <2>3 DEF Drains
<1>15. ASSUME NEW x \in Errors PROVE Slack(x)' = Slack(x)
  <2>1. OfError(s, x) = OfError(queue[d], x) + OfError(t, x) BY <1>8, EventsJoin DEF s
  <2>2. OfError(queue["redis"], x) = OfError(queue'["redis"], x) + OfError(t, x) /\ OfError(queue'[d], x) = 0
    <3>1. OfError(<<>>, x) = 0 BY NoEventCounts
    <3>2. OfError(queue["redis"], x) \in Nat BY <1>3, <1>4, WaitingIs
    <3>3. CASE redis BY <1>11, <3>1, <3>2, <3>3 DEF t
    <3>4. CASE ~redis BY <1>11, <3>1, <3>2, <3>4 DEF t
    <3> QED BY <1>11, <3>1, <3>3, <3>4
  <2>3. HeldBy(d, x)' = OfError(s, x)
    <3>1. CASE new.at = "popped" BY <1>10, <1>13, <3>1 DEF HeldBy
    <3>2. CASE new.at # "popped"
      <4>1. OfError(s, x) = 0 BY <1>10, <3>2, NoEventCounts
      <4> QED BY <1>10, <1>13, <3>2, <4>1 DEF HeldBy
    <3> QED BY <3>1, <3>2
  <2>4. HeldBy(d, x) = 0 BY <1>1 DEF HeldBy, WatchIdle, NoDrain
  <2>5. /\ Waiting(x) = OfError(queue["redis"], x) + OfError(queue["page"], x) + OfError(queue["task"], x)
                        + HeldBy("page", x) + HeldBy("task", x)
        /\ \A q \in Stores : OfError(queue[q], x) \in Nat
        /\ \A f \in Drainers : HeldBy(f, x) \in Nat
    BY <1>3, WaitingIs
  <2>6. "page" \in Stores /\ "task" \in Stores /\ "page" \in Drainers /\ "task" \in Drainers BY DEF Stores, Drainers
  <2>7. OfError(t, x) \in Nat BY <1>8, EventsCount
  <2>8. Slack(x) = captured[x] - gone[x] - Waiting(x) BY DEF Slack
  <2>9. Slack(x)' = captured'[x] - gone'[x]
                     - (OfError(queue'["redis"], x) + OfError(queue'["page"], x) + OfError(queue'["task"], x)
                        + HeldBy("page", x)' + HeldBy("task", x)')
    BY NextSlackIs
  <2>10. captured'[x] = captured[x] /\ gone'[x] = gone[x] BY <1>1
  <2>11. OfError(queue'["redis"], x) \in Nat
    <3>1. queue'["redis"] = queue["redis"] \/ queue'["redis"] = <<>> BY <1>11
    <3> QED BY <1>4, <2>5, <3>1, NoEventCounts
  <2>12. CASE d = "page"
    <3>1. queue'["task"] = queue["task"] /\ HeldBy("task", x)' = HeldBy("task", x) BY <1>11, <1>13, <2>6, <2>12
    <3> QED BY <1>4, <2>1, <2>2, <2>3, <2>4, <2>5, <2>6, <2>7, <2>8, <2>9, <2>10, <2>11, <2>12, <3>1
  <2>13. CASE d = "task"
    <3>1. queue'["page"] = queue["page"] /\ HeldBy("page", x)' = HeldBy("page", x) BY <1>11, <1>13, <2>6, <2>13
    <3> QED BY <1>4, <2>1, <2>2, <2>3, <2>4, <2>5, <2>6, <2>7, <2>8, <2>9, <2>10, <2>11, <2>13, <3>1
  <2> QED BY <1>4, <2>12, <2>13
<1>16. \A f \in Drainers : Reading(f)' => \A x \in Touched(f)' :
           Reading(f) /\ x \in Touched(f) /\ (drain[f].rows[x])' = drain[f].rows[x]
  <2>1. ~Reading(d)' BY <1>10, <1>13 DEF Reading
  <2> QED BY <1>13, <2>1 DEF Reading, Touched
<1> QED BY <1>1, <1>3, <1>12, <1>14, <1>15, <1>16, RowsKeep

LEMMA ReadIssuesKeeps ==
    ASSUME RowsInv, NEW d \in Drainers, ReadIssues(d)
    PROVE  RowsInv'
<1> DEFINE new == [at |-> "read", events |-> drain[d].events, rows |-> [e \in Touched(d) |-> issue[e]]]
<1>1. /\ drain[d].at = "popped" /\ drain' = [drain EXCEPT ![d] = new]
      /\ UNCHANGED <<queue, issue, seenAt, watchHour, captured, gone, opened, crossed, fell, hands>>
  BY DEF ReadIssues, RowsInv, Drains
<1>2. WatchKinds /\ Drains /\ watchHour \in Nat BY EventsAre DEF RowsInv
<1>3. /\ drain'[d] = new /\ \A f \in Drainers \ {d} : drain'[f] = drain[f]
      /\ drain' = [f \in Drainers |-> drain'[f]]
      /\ \A f \in Drainers \ {d}, x \in Errors : HeldBy(f, x)' = HeldBy(f, x)
  BY <1>1, <1>2, OtherDrain
<1>4. new.at = "read" /\ new.events = drain[d].events /\ \A e \in Touched(d) : new.rows[e] = issue[e] OBVIOUS
<1> HIDE DEF new
<1>5. WatchKinds' BY <1>1, <1>2 DEF WatchKinds
<1>6. Drains' BY <1>1, <1>2, <1>3, <1>4 DEF Drains
<1>7. ASSUME NEW x \in Errors PROVE Slack(x)' = Slack(x)
  <2>1. \A f \in Drainers : HeldBy(f, x)' = HeldBy(f, x) BY <1>1, <1>3, <1>4 DEF HeldBy
  <2>2. HeldBy("page", x)' = HeldBy("page", x) /\ HeldBy("task", x)' = HeldBy("task", x) BY <2>1 DEF Drainers
  <2>3. Slack(x)' = captured'[x] - gone'[x]
                     - (OfError(queue'["redis"], x) + OfError(queue'["page"], x) + OfError(queue'["task"], x)
                        + HeldBy("page", x)' + HeldBy("task", x)')
    BY NextSlackIs
  <2>4. Waiting(x) = OfError(queue["redis"], x) + OfError(queue["page"], x) + OfError(queue["task"], x)
                     + HeldBy("page", x) + HeldBy("task", x)
    BY <1>2, WaitingIs
  <2> QED BY <1>1, <2>2, <2>3, <2>4 DEF Slack
<1>8. \A f \in Drainers : Reading(f)' => \A x \in Touched(f)' :
          \/ Reading(f) /\ x \in Touched(f) /\ (drain[f].rows[x])' = drain[f].rows[x]
          \/ (drain[f].rows[x])' = issue[x]
  <2>1. Touched(d)' = Touched(d) BY <1>3, <1>4 DEF Touched
  <2> QED BY <1>3, <1>4, <2>1 DEF Reading, Touched
<1> QED BY <1>1, <1>2, <1>5, <1>6, <1>7, <1>8, RowsKeep

\* Some events are gone: they are in no queue and in no hand any more.
LEMMA GoneIs ==
    ASSUME WatchKinds, NEW s \in EventsAt(watchHour), Lose(s)
    PROVE  /\ gone' \in [Errors -> Nat]
           /\ \A x \in Errors : gone'[x] = gone[x] + OfError(s, x) /\ OfError(s, x) \in Nat /\ gone[x] \in Nat
<1>1. s \in Seq(Event) BY EventsAre
<1>2. \A x \in Errors : OfError(s, x) \in Nat BY <1>1, EventsCount
<1> QED BY <1>2 DEF Lose, WatchKinds

LEMMA BreakDrainKeeps ==
    ASSUME RowsInv, NEW d \in Drainers, BreakDrain(d)
    PROVE  RowsInv'
<1> DEFINE s == drain[d].events
<1>1. /\ drain[d].at \in {"popped", "read"} /\ Lose(s) /\ drain' = [drain EXCEPT ![d] = NoDrain] /\ fell' = fell + 1
      /\ UNCHANGED <<queue, issue, seenAt, watchHour, captured, opened, crossed, hands>>
  BY DEF BreakDrain, Falls
<1>2. WatchKinds /\ Drains /\ watchHour \in Nat BY EventsAre DEF RowsInv
<1>3. s \in EventsAt(watchHour) BY <1>1, <1>2 DEF Drains
<1> HIDE DEF s
<1>4. /\ gone' \in [Errors -> Nat]
      /\ \A x \in Errors : gone'[x] = gone[x] + OfError(s, x) /\ OfError(s, x) \in Nat /\ gone[x] \in Nat
  BY <1>1, <1>2, <1>3, GoneIs
<1>5. /\ drain'[d] = NoDrain /\ \A f \in Drainers \ {d} : drain'[f] = drain[f]
      /\ drain' = [f \in Drainers |-> drain'[f]]
      /\ \A f \in Drainers \ {d}, x \in Errors : HeldBy(f, x)' = HeldBy(f, x)
  BY <1>1, <1>2, OtherDrain
<1>6. WatchKinds' BY <1>1, <1>2, <1>4 DEF WatchKinds
<1>7. NoDrain.at = "idle" BY DEF NoDrain
<1>8. Drains' BY <1>1, <1>2, <1>5, <1>7 DEF Drains
<1>9. ASSUME NEW x \in Errors PROVE Slack(x)' = Slack(x)
  <2>1. HeldBy(d, x) = OfError(s, x) /\ HeldBy(d, x)' = 0 BY <1>1, <1>5, <1>7 DEF HeldBy, s
  <2>2. Slack(x)' = captured'[x] - gone'[x]
                     - (OfError(queue'["redis"], x) + OfError(queue'["page"], x) + OfError(queue'["task"], x)
                        + HeldBy("page", x)' + HeldBy("task", x)')
    BY NextSlackIs
  <2>3. /\ Waiting(x) = OfError(queue["redis"], x) + OfError(queue["page"], x) + OfError(queue["task"], x)
                        + HeldBy("page", x) + HeldBy("task", x)
        /\ \A q \in Stores : OfError(queue[q], x) \in Nat
        /\ \A f \in Drainers : HeldBy(f, x) \in Nat
    BY <1>2, WaitingIs
  <2>4. "page" \in Stores /\ "task" \in Stores /\ "redis" \in Stores /\ "page" \in Drainers /\ "task" \in Drainers
    BY DEF Stores, Drainers
  <2>5. captured'[x] = captured[x] /\ captured[x] \in Nat /\ queue' = queue BY <1>1, <1>2, WatchAssumption DEF WatchKinds
  <2>6. gone'[x] = gone[x] + OfError(s, x) /\ OfError(s, x) \in Nat /\ gone[x] \in Nat BY <1>4
  <2>7. Slack(x) = captured[x] - gone[x] - Waiting(x) BY DEF Slack
  <2>8. CASE d = "page"
    <3>1. HeldBy("task", x)' = HeldBy("task", x) BY <1>5, <2>4, <2>8
    <3> QED BY <2>1, <2>2, <2>3, <2>4, <2>5, <2>6, <2>7, <2>8, <3>1
  <2>9. CASE d = "task"
    <3>1. HeldBy("page", x)' = HeldBy("page", x) BY <1>5, <2>4, <2>9
    <3> QED BY <2>1, <2>2, <2>3, <2>4, <2>5, <2>6, <2>7, <2>9, <3>1
  <2> QED BY <2>8, <2>9 DEF Drainers
<1>10. \A f \in Drainers : Reading(f)' => \A x \in Touched(f)' :
           Reading(f) /\ x \in Touched(f) /\ (drain[f].rows[x])' = drain[f].rows[x]
  <2>1. ~Reading(d)' BY <1>5, <1>7 DEF Reading
  <2> QED BY <1>5, <2>1 DEF Reading, Touched
<1> QED BY <1>1, <1>2, <1>6, <1>8, <1>9, <1>10, RowsKeep

LEMMA RestartProcessKeeps ==
    ASSUME RowsInv, NEW d \in Drainers, RestartProcess(d)
    PROVE  RowsInv'
<1> DEFINE s == queue[d]
<1>1. /\ Lose(s) /\ queue' = [queue EXCEPT ![d] = <<>>] /\ fell' = fell + 1
      /\ UNCHANGED <<issue, seenAt, drain, watchHour, captured, opened, crossed, hands>>
  BY DEF RestartProcess
<1>2. WatchKinds /\ Drains /\ watchHour \in Nat BY EventsAre DEF RowsInv
<1>3. d \in Stores /\ (d = "page" \/ d = "task") BY DEF Stores, Drainers
<1>4. s \in EventsAt(watchHour) BY <1>2, <1>3 DEF WatchKinds
<1>5. /\ gone' \in [Errors -> Nat]
      /\ \A x \in Errors : gone'[x] = gone[x] + OfError(s, x) /\ OfError(s, x) \in Nat /\ gone[x] \in Nat
  BY <1>1, <1>2, <1>4, GoneIs
<1>6. queue'[d] = <<>> /\ (\A q \in Stores \ {d} : queue'[q] = queue[q]) /\ queue' = [q \in Stores |-> queue'[q]]
  BY <1>1, <1>2, <1>3 DEF WatchKinds
<1>7. WatchKinds'
  <2>1. <<>> \in EventsAt(watchHour) /\ Len(<<>>) <= QueueMax BY WatchAssumption DEF EventsAt
  <2>2. \A q \in Stores : queue'[q] \in EventsAt(watchHour) /\ Len(queue'[q]) <= QueueMax
    BY <1>2, <1>6, <2>1 DEF WatchKinds
  <2>3. queue' \in [Stores -> EventsAt(watchHour)] BY <1>6, <2>2
  <2> QED BY <1>1, <1>2, <1>5, <2>2, <2>3 DEF WatchKinds
<1>8. Drains' BY <1>1, <1>2 DEF Drains
<1>9. ASSUME NEW x \in Errors PROVE Slack(x)' = Slack(x)
  <2>1. OfError(queue'[d], x) = 0 BY <1>6, NoEventCounts
  <2>2. Slack(x)' = captured'[x] - gone'[x]
                     - (OfError(queue'["redis"], x) + OfError(queue'["page"], x) + OfError(queue'["task"], x)
                        + HeldBy("page", x)' + HeldBy("task", x)')
    BY NextSlackIs
  <2>3. /\ Waiting(x) = OfError(queue["redis"], x) + OfError(queue["page"], x) + OfError(queue["task"], x)
                        + HeldBy("page", x) + HeldBy("task", x)
        /\ \A q \in Stores : OfError(queue[q], x) \in Nat
        /\ \A f \in Drainers : HeldBy(f, x) \in Nat
    BY <1>2, WaitingIs
  <2>4. "page" \in Stores /\ "task" \in Stores /\ "redis" \in Stores /\ "page" \in Drainers /\ "task" \in Drainers
    BY DEF Stores, Drainers
  <2>5. captured'[x] = captured[x] /\ captured[x] \in Nat BY <1>1, <1>2, WatchAssumption DEF WatchKinds
  <2>6. gone'[x] = gone[x] + OfError(s, x) /\ OfError(s, x) \in Nat /\ gone[x] \in Nat BY <1>5
  <2>7. Slack(x) = captured[x] - gone[x] - Waiting(x) BY DEF Slack
  <2>8. HeldBy("page", x)' = HeldBy("page", x) /\ HeldBy("task", x)' = HeldBy("task", x) BY <1>1 DEF HeldBy
  <2>9. CASE d = "page"
    <3>1. queue'["task"] = queue["task"] /\ queue'["redis"] = queue["redis"] BY <1>6, <2>4, <2>9
    <3> QED BY <2>1, <2>2, <2>3, <2>4, <2>5, <2>6, <2>7, <2>8, <2>9, <3>1
  <2>10. CASE d = "task"
    <3>1. queue'["page"] = queue["page"] /\ queue'["redis"] = queue["redis"] BY <1>6, <2>4, <2>10
    <3> QED BY <2>1, <2>2, <2>3, <2>4, <2>5, <2>6, <2>7, <2>8, <2>10, <3>1
  <2> QED BY <1>3, <2>9, <2>10
<1>10. \A f \in Drainers : Reading(f)' => \A x \in Touched(f)' :
           Reading(f) /\ x \in Touched(f) /\ (drain[f].rows[x])' = drain[f].rows[x]
  BY <1>1 DEF Reading, Touched
<1> QED BY <1>1, <1>2, <1>7, <1>8, <1>9, <1>10, RowsKeep

\* The task that tells, or dies, holds no event.
LEMMA TaskGoesOn ==
    ASSUME RowsInv, drain["task"].at \in {"alerts", "sent"}, NEW new, drain' = [drain EXCEPT !["task"] = new],
           new.at \in {"idle", "sent"},
           new.at = "sent" => new.tell \subseteq Errors /\ new.peaks \subseteq Errors /\ new.when \in 0..watchHour,
           fell' \in Nat, UNCHANGED <<queue, issue, seenAt, watchHour, captured, gone, opened, crossed, hands>>
    PROVE  RowsInv'
<1>1. WatchKinds /\ Drains /\ watchHour \in Nat /\ "task" \in Drainers /\ "page" \in Drainers BY EventsAre DEF RowsInv, Drainers
<1>2. /\ drain'["task"] = new /\ \A f \in Drainers \ {"task"} : drain'[f] = drain[f]
      /\ drain' = [f \in Drainers |-> drain'[f]]
      /\ \A f \in Drainers \ {"task"}, x \in Errors : HeldBy(f, x)' = HeldBy(f, x)
  BY <1>1, OtherDrain
<1>3. WatchKinds' BY <1>1 DEF WatchKinds
<1>4. Drains' BY <1>1, <1>2 DEF Drains
<1>5. ASSUME NEW x \in Errors PROVE Slack(x)' = Slack(x)
  <2>1. HeldBy("task", x)' = HeldBy("task", x) BY <1>2 DEF HeldBy
  <2>2. HeldBy("page", x)' = HeldBy("page", x) BY <1>1, <1>2
  <2>3. Slack(x)' = captured'[x] - gone'[x]
                     - (OfError(queue'["redis"], x) + OfError(queue'["page"], x) + OfError(queue'["task"], x)
                        + HeldBy("page", x)' + HeldBy("task", x)')
    BY NextSlackIs
  <2>4. Waiting(x) = OfError(queue["redis"], x) + OfError(queue["page"], x) + OfError(queue["task"], x)
                     + HeldBy("page", x) + HeldBy("task", x)
    BY <1>1, WaitingIs
  <2> QED BY <2>1, <2>2, <2>3, <2>4 DEF Slack
<1>6. \A f \in Drainers : Reading(f)' => \A x \in Touched(f)' :
          Reading(f) /\ x \in Touched(f) /\ (drain[f].rows[x])' = drain[f].rows[x]
  <2>1. ~Reading("task")' BY <1>2 DEF Reading
  <2> QED BY <1>2, <2>1 DEF Reading, Touched
<1> QED BY <1>1, <1>3, <1>4, <1>5, <1>6, RowsKeep

LEMMA SendAlertsKeeps ==
    ASSUME RowsInv, SendAlerts
    PROVE  RowsInv'
<1> DEFINE tell == IF MayTell THEN NewsToTell ELSE {}
           new  == [at |-> "sent", tell |-> tell, peaks |-> Peaks, when |-> watchHour,
                    rows |-> [e \in tell \cup Peaks |-> issue[e]]]
<1>1. /\ drain["task"].at = "alerts" /\ drain' = [drain EXCEPT !["task"] = new]
      /\ UNCHANGED <<queue, issue, seenAt, watchHour, captured, gone, opened, crossed, fell, hands>>
  BY DEF SendAlerts
<1>2. new.at = "sent" /\ new.tell \subseteq Errors /\ new.peaks \subseteq Errors /\ new.when = watchHour
  BY DEF NewsToTell, Peaks
<1>3. watchHour \in 0..watchHour /\ fell' \in Nat BY <1>1, EventsAre DEF RowsInv, WatchKinds
<1> HIDE DEF new
<1> QED BY <1>1, <1>2, <1>3, TaskGoesOn

LEMMA BreakAlertsKeeps ==
    ASSUME RowsInv, BreakAlerts
    PROVE  RowsInv'
<1>1. /\ drain["task"].at \in {"alerts", "sent"} /\ drain' = [drain EXCEPT !["task"] = NoDrain] /\ fell' = fell + 1
      /\ UNCHANGED <<queue, issue, seenAt, watchHour, captured, gone, opened, crossed, hands>>
  BY DEF BreakAlerts, Falls
<1>2. NoDrain.at = "idle" BY DEF NoDrain
<1>3. fell' \in Nat BY <1>1 DEF RowsInv, WatchKinds
<1> QED BY <1>1, <1>2, <1>3, TaskGoesOn
-----------------------------------------------------------------------------
(* The steps that write rows.                                              *)

\* What a drain has read of a row, when somebody else writes or purges it.
LEMMA StillKnows ==
    ASSUME NEW r, NEW e \in Errors, KnowsRow(r, e), UNCHANGED watchHour, crossed => crossed',
           opened[e] \in Nat, opened'[e] \in Nat, opened'[e] >= opened[e], Slack(e) \in Int, Slack(e)' \in Int,
           \/ issue'[e] = NoIssue
           \/ /\ issue[e] # NoIssue /\ issue'[e] # NoIssue /\ issue'[e].id = issue[e].id
              /\ Slack(e)' >= Slack(e) /\ (~crossed' => Alike(issue[e], issue'[e]))
           \/ issue[e] = NoIssue /\ issue'[e] # NoIssue /\ issue'[e].id = opened[e] /\ crossed'
    PROVE  KnowsRow(r, e)'
<1>1. CASE r = NoIssue /\ (~crossed => issue[e] = NoIssue) BY <1>1 DEF KnowsRow
<1>2. CASE /\ r \in RowAt(watchHour) /\ r.id < opened[e]
           /\ SameRow(r, issue[e]) => r.count <= Slack(e) /\ (~crossed => Alike(r, issue[e]))
  <2>1. r.id \in Nat /\ r.count \in Nat BY <1>2 DEF RowAt
  <2>2. r \in RowAt(watchHour') /\ r.id < opened'[e] BY <1>2, <2>1
  <2>3. ASSUME SameRow(r, issue'[e]) PROVE r.count <= Slack(e)' /\ (~crossed' => Alike(r, issue'[e]))
    <3>1. issue'[e] # NoIssue /\ issue'[e].id = r.id BY <2>3 DEF SameRow
    <3>2. issue[e] # NoIssue /\ issue'[e].id = issue[e].id
          /\ Slack(e)' >= Slack(e) /\ (~crossed' => Alike(issue[e], issue'[e]))
      BY <1>2, <2>1, <3>1
    <3>3. SameRow(r, issue[e]) BY <2>3, <3>1, <3>2 DEF SameRow
    <3>4. r.count <= Slack(e) /\ (~crossed => Alike(r, issue[e])) BY <1>2, <3>3
    <3> QED BY <2>1, <3>2, <3>4 DEF Alike
  <2> QED BY <2>2, <2>3 DEF KnowsRow
<1> QED BY <1>1, <1>2 DEF KnowsRow

LEMMA RowMarked ==
    ASSUME NEW h \in Nat, NEW r \in RowAt(h), NEW a \in {Never} \cup 0..h, NEW p \in {Never} \cup 0..h
    PROVE  LET s == [r EXCEPT !.alertedAt = a, !.peakAt = p]
           IN  s \in RowAt(h) /\ s.id = r.id /\ s.alertedAt = a /\ s.peakAt = p /\ Alike(r, s)
BY DEF RowAt, Alike

\* What the task writes of its emails: when each error was told, or its peak.
LEMMA RecordIs ==
    ASSUME WatchKinds, Drains, RecordAlerts
    PROVE  /\ Told \subseteq Errors /\ drain["task"].when \in 0..watchHour
           /\ issue' \in [Errors -> RowAt(watchHour) \cup {NoIssue}]
           /\ \A e \in Errors \ Told : issue'[e] = issue[e]
           /\ \A e \in Told :
                /\ issue[e] \in RowAt(watchHour) /\ issue'[e] \in RowAt(watchHour)
                /\ issue'[e].id = issue[e].id /\ Alike(issue[e], issue'[e])
                /\ issue'[e].alertedAt = (IF e \in drain["task"].tell THEN drain["task"].when ELSE issue[e].alertedAt)
                /\ issue'[e].peakAt = (IF e \in drain["task"].peaks THEN drain["task"].when ELSE issue[e].peakAt)
<1> DEFINE when  == drain["task"].when
           a(e)  == IF e \in drain["task"].tell THEN when ELSE issue[e].alertedAt
           p(e)  == IF e \in drain["task"].peaks THEN when ELSE issue[e].peakAt
<1>1. /\ drain["task"].at = "sent" /\ ~Erased
      /\ issue' = [e \in Errors |-> IF e \notin Told THEN issue[e]
                                    ELSE [issue[e] EXCEPT !.alertedAt = a(e), !.peakAt = p(e)]]
  <2>1. /\ drain["task"].at = "sent" /\ ~Erased
        /\ issue' = [e \in Errors |->
              IF e \notin Told THEN issue[e]
              ELSE [issue[e] EXCEPT !.alertedAt = IF e \in drain["task"].tell THEN drain["task"].when ELSE @,
                                    !.peakAt = IF e \in drain["task"].peaks THEN drain["task"].when ELSE @]]
    BY DEF RecordAlerts
  <2> QED BY <2>1, Zenon
<1>2. watchHour \in Nat /\ when \in 0..watchHour /\ Told \subseteq Errors /\ issue \in [Errors -> RowAt(watchHour) \cup {NoIssue}]
  BY <1>1, EventsAre DEF Drains, Told, WatchKinds
<1>3. ASSUME NEW e \in Told
      PROVE  /\ issue[e] \in RowAt(watchHour) /\ issue'[e] \in RowAt(watchHour)
             /\ issue'[e].id = issue[e].id /\ Alike(issue[e], issue'[e])
             /\ issue'[e].alertedAt = a(e) /\ issue'[e].peakAt = p(e)
  <2>1. issue[e] # NoIssue BY <1>1 DEF Erased, SameRow
  <2>2. issue[e] \in RowAt(watchHour) BY <1>2, <2>1
  <2>3. issue[e].alertedAt \in {Never} \cup 0..watchHour /\ issue[e].peakAt \in {Never} \cup 0..watchHour BY <2>2 DEF RowAt
  <2>4. a(e) \in {Never} \cup 0..watchHour /\ p(e) \in {Never} \cup 0..watchHour BY <1>2, <2>3
  <2>5. issue'[e] = [issue[e] EXCEPT !.alertedAt = a(e), !.peakAt = p(e)] BY <1>1, <1>2
  <2> HIDE DEF a, p
  <2>6. PICK x \in {Never} \cup 0..watchHour : x = a(e) BY <2>4
  <2>7. PICK y \in {Never} \cup 0..watchHour : y = p(e) BY <2>4
  <2> DEFINE s == [issue[e] EXCEPT !.alertedAt = x, !.peakAt = y]
  <2>8. /\ s \in RowAt(watchHour) /\ s.id = issue[e].id /\ s.alertedAt = x /\ s.peakAt = y /\ Alike(issue[e], s)
    BY <1>2, <2>2, RowMarked
  <2>9. issue'[e] = s BY <2>5, <2>6, <2>7
  <2> HIDE DEF s
  <2> QED BY <2>2, <2>6, <2>7, <2>8, <2>9
<1>4. \A e \in Errors \ Told : issue'[e] = issue[e] BY <1>1
<1>5. issue' \in [Errors -> RowAt(watchHour) \cup {NoIssue}]
  <2>1. \A e \in Errors : issue'[e] \in RowAt(watchHour) \cup {NoIssue} BY <1>2, <1>3, <1>4
  <2> QED BY <1>1, <2>1
<1> QED BY <1>2, <1>3, <1>4, <1>5

LEMMA RecordAlertsKeeps ==
    ASSUME RowsInv, RecordAlerts
    PROVE  RowsInv'
<1>1. WatchKinds /\ Drains /\ watchHour \in Nat /\ "task" \in Drainers /\ "page" \in Drainers BY EventsAre DEF RowsInv, Drains, Drainers
<1>2. /\ drain["task"].at = "sent" /\ drain' = [drain EXCEPT !["task"] = NoDrain]
      /\ UNCHANGED <<queue, seenAt, watchHour, captured, gone, opened, crossed, fell, hands>>
  BY DEF RecordAlerts
<1>3. /\ drain'["task"] = NoDrain /\ \A f \in Drainers \ {"task"} : drain'[f] = drain[f]
      /\ drain' = [f \in Drainers |-> drain'[f]]
      /\ \A f \in Drainers \ {"task"}, x \in Errors : HeldBy(f, x)' = HeldBy(f, x)
  BY <1>1, <1>2, OtherDrain
<1>4. NoDrain.at = "idle" BY DEF NoDrain
<1>5. /\ Told \subseteq Errors /\ issue' \in [Errors -> RowAt(watchHour) \cup {NoIssue}]
      /\ \A e \in Errors \ Told : issue'[e] = issue[e]
      /\ \A e \in Told : /\ issue[e] \in RowAt(watchHour) /\ issue'[e] \in RowAt(watchHour)
                         /\ issue'[e].id = issue[e].id /\ Alike(issue[e], issue'[e])
  BY <1>1, RecordIs
<1> HIDE DEF Told
<1>6. ASSUME NEW e \in Errors
      PROVE  \/ issue'[e] = NoIssue /\ issue[e] = NoIssue
             \/ /\ issue[e] # NoIssue /\ issue'[e] # NoIssue /\ issue'[e].id = issue[e].id /\ Alike(issue[e], issue'[e])
  <2>1. CASE e \in Told BY <1>5, <2>1, RowIsThere
  <2>2. CASE e \notin Told BY <1>5, <2>2 DEF Alike
  <2> QED BY <2>1, <2>2
<1>7. WatchKinds' BY <1>1, <1>2, <1>5 DEF WatchKinds
<1>8. Drains' BY <1>1, <1>2, <1>3, <1>4 DEF Drains
<1>9. Numbered' BY <1>2, <1>6 DEF RowsInv, Numbered, Exists
<1>10. ASSUME NEW x \in Errors PROVE Slack(x)' = Slack(x) /\ Slack(x) \in Int /\ Count(x)' = Count(x)
  <2>1. HeldBy("task", x)' = HeldBy("task", x) BY <1>2, <1>3, <1>4 DEF HeldBy
  <2>2. HeldBy("page", x)' = HeldBy("page", x) BY <1>1, <1>3
  <2>3. Slack(x)' = captured'[x] - gone'[x]
                     - (OfError(queue'["redis"], x) + OfError(queue'["page"], x) + OfError(queue'["task"], x)
                        + HeldBy("page", x)' + HeldBy("task", x)')
    BY NextSlackIs
  <2>4. Waiting(x) = OfError(queue["redis"], x) + OfError(queue["page"], x) + OfError(queue["task"], x)
                     + HeldBy("page", x) + HeldBy("task", x) /\ Slack(x) \in Int
    BY <1>1, WaitingIs
  <2>5. Slack(x)' = Slack(x) BY <1>2, <2>1, <2>2, <2>3, <2>4 DEF Slack
  <2>6. Count(x)' = Count(x) BY <1>6 DEF Count, Exists, Alike
  <2> QED BY <2>4, <2>5, <2>6
<1>11. CountedOnce'
  <2>1. \A e \in Errors : Count(e) <= Slack(e) /\ (crossed \/ Count(e) = Slack(e)) BY <1>1, CountedIs DEF RowsInv
  <2>2. \A e \in Errors : Count(e)' <= Slack(e)' /\ (crossed' \/ Count(e)' = Slack(e)') BY <1>2, <1>10, <2>1
  <2>3. (CountedOnce <=> \A e \in Errors : Count(e) <= Slack(e) /\ (crossed \/ Count(e) = Slack(e)))'
    BY <1>7, <1>8, NextCountedIs
  <2> QED BY <2>2, <2>3
<1>12. DrainsKnow'
  <2> SUFFICES ASSUME NEW d \in Drainers, Reading(d)', NEW e \in Touched(d)' PROVE KnowsRow(drain[d].rows[e], e)'
    BY DEF DrainsKnow
  <2>1. e \in Errors /\ d # "task" BY <1>3, <1>4 DEF Touched, Reading
  <2>2. Reading(d) /\ e \in Touched(d) /\ drain'[d].rows[e] = drain[d].rows[e] BY <1>3, <2>1 DEF Reading, Touched
  <2>3. KnowsRow(drain[d].rows[e], e) BY <2>2 DEF RowsInv, DrainsKnow
  <2> DEFINE r == drain[d].rows[e]
  <2>4. opened[e] \in Nat /\ opened'[e] = opened[e] BY <1>1, <1>2, <2>1 DEF WatchKinds
  <2>5. ASSUME NEW q, KnowsRow(q, e) PROVE KnowsRow(q, e)' BY <1>2, <1>6, <1>10, <2>1, <2>4, <2>5, StillKnows
  <2>6. PICK q : q = drain[d].rows[e] OBVIOUS
  <2>7. KnowsRow(q, e)' BY <2>3, <2>5, <2>6
  <2> QED BY <2>2, <2>6, <2>7 DEF KnowsRow
<1>13. SeenBefore' /\ CameBackSince'
  <2>1. \A e \in Errors : Exists(e)' = Exists(e) BY <1>6 DEF Exists
  <2>2. \A e \in Errors : Exists(e) => Alike(issue[e], issue'[e]) BY <1>6 DEF Exists
  <2> QED BY <1>2, <2>1, <2>2 DEF RowsInv, SeenBefore, CameBackSince, Alike
<1> QED BY <1>7, <1>8, <1>9, <1>11, <1>12, <1>13 DEF RowsInv

\* What the administrator writes of an error.
LEMMA HandleIs ==
    ASSUME WatchKinds, NEW e \in Errors, NEW st \in {"IN_PROGRESS", "RESOLVED", "NEW"}, HandleByHand(e, st)
    PROVE  /\ issue' \in [Errors -> RowAt(watchHour) \cup {NoIssue}]
           /\ \A x \in Errors \ {e} : issue'[x] = issue[x]
           /\ issue[e] \in RowAt(watchHour) /\ issue'[e] \in RowAt(watchHour)
           /\ issue'[e].id = issue[e].id /\ issue'[e].status = st /\ issue'[e].count = issue[e].count
           /\ issue'[e].lastSeen = issue[e].lastSeen /\ issue'[e].peakAt = issue[e].peakAt
           /\ issue'[e].alertedAt = (IF issue[e].alertedAt = Never THEN watchHour ELSE issue[e].alertedAt)
<1> DEFINE c0 == IF st = "RESOLVED" THEN watchHour ELSE IF st = "NEW" THEN Never ELSE issue[e].resolvedAt
           a0 == IF issue[e].alertedAt = Never THEN watchHour ELSE issue[e].alertedAt
<1>1. /\ Exists(e)
      /\ issue' = [issue EXCEPT ![e] = [issue[e] EXCEPT !.status = st, !.resolvedAt = c0, !.alertedAt = a0]]
  BY DEF HandleByHand
<1>2. watchHour \in Nat /\ issue \in [Errors -> RowAt(watchHour) \cup {NoIssue}] BY EventsAre DEF WatchKinds
<1>3. issue[e] \in RowAt(watchHour) BY <1>1, <1>2 DEF Exists
<1>4. issue[e].resolvedAt \in {Never} \cup 0..watchHour /\ issue[e].alertedAt \in {Never} \cup 0..watchHour BY <1>3 DEF RowAt
<1>5. c0 \in {Never} \cup 0..watchHour /\ a0 \in {Never} \cup 0..watchHour BY <1>2, <1>4
<1>6. a0 = IF issue[e].alertedAt = Never THEN watchHour ELSE issue[e].alertedAt OBVIOUS
<1> HIDE DEF c0, a0
<1>10. PICK c \in {Never} \cup 0..watchHour : c = c0 BY <1>5
<1>11. PICK a \in {Never} \cup 0..watchHour : a = a0 BY <1>5
<1>7. PICK w \in Status : w = st BY DEF Status, Unread
<1>12. PICK r \in RowAt(watchHour) : r = issue[e] BY <1>3
<1> DEFINE s == [r EXCEPT !.status = w, !.resolvedAt = c, !.alertedAt = a]
<1>8. /\ s \in RowAt(watchHour) /\ s.id = r.id /\ s.status = w /\ s.count = r.count
      /\ s.lastSeen = r.lastSeen /\ s.alertedAt = a /\ s.peakAt = r.peakAt
  BY <1>2 DEF RowAt
<1>9. issue' = [issue EXCEPT ![e] = s] BY <1>1, <1>7, <1>10, <1>11, <1>12
<1> HIDE DEF s
<1> QED BY <1>2, <1>3, <1>6, <1>7, <1>8, <1>9, <1>11, <1>12

LEMMA HandleByHandKeeps ==
    ASSUME RowsInv, NEW y \in Errors, NEW st \in {"IN_PROGRESS", "RESOLVED", "NEW"}, HandleByHand(y, st)
    PROVE  RowsInv'
<1>1. WatchKinds /\ Drains /\ watchHour \in Nat BY EventsAre DEF RowsInv
<1>2. /\ hands < HandsMax /\ hands' = hands + 1 /\ crossed' = (crossed \/ \E d \in Drainers : Reading(d))
      /\ UNCHANGED <<queue, seenAt, drain, watchHour, captured, gone, opened, fell>>
  BY DEF HandleByHand
<1>3. /\ issue' \in [Errors -> RowAt(watchHour) \cup {NoIssue}]
      /\ \A x \in Errors \ {y} : issue'[x] = issue[x]
      /\ issue[y] \in RowAt(watchHour) /\ issue'[y] \in RowAt(watchHour)
      /\ issue'[y].id = issue[y].id /\ issue'[y].status = st /\ issue'[y].count = issue[y].count
      /\ issue'[y].lastSeen = issue[y].lastSeen
  BY <1>1, HandleIs
<1>4. issue[y] # NoIssue /\ issue'[y] # NoIssue BY <1>3, RowIsThere
<1>5. crossed \in BOOLEAN /\ crossed' \in BOOLEAN /\ (~crossed' => ~crossed) BY <1>1, <1>2 DEF WatchKinds
<1>6. WatchKinds'
  <2>1. hands' \in 0..HandsMax BY <1>1, <1>2, WatchAssumption DEF WatchKinds
  <2> QED BY <1>1, <1>2, <1>3, <1>5, <2>1 DEF WatchKinds
<1>7. Drains' BY <1>1, <1>2 DEF Drains
<1>8. \A x \in Errors : Exists(x)' = Exists(x) BY <1>3, <1>4 DEF Exists
<1>9. ASSUME NEW x \in Errors, Exists(x)
      PROVE  issue'[x].id = issue[x].id /\ issue'[x].count = issue[x].count /\ issue'[x].lastSeen = issue[x].lastSeen
  BY <1>3
<1>10. Numbered' BY <1>2, <1>8, <1>9 DEF RowsInv, Numbered
<1>11. \A x \in Errors : Slack(x)' = Slack(x) /\ Slack(x) \in Int BY <1>1, <1>2, WaitingIs DEF Slack, Waiting
<1>12. CountedOnce'
  <2>1. \A x \in Errors : Count(x) <= Slack(x) /\ (crossed \/ Count(x) = Slack(x)) BY <1>1, CountedIs DEF RowsInv
  <2>2. \A x \in Errors : Count(x)' = Count(x) BY <1>8, <1>9 DEF Count
  <2>3. \A x \in Errors : Count(x)' <= Slack(x)' /\ (crossed' \/ Count(x)' = Slack(x)') BY <1>5, <1>11, <2>1, <2>2
  <2>4. (CountedOnce <=> \A e \in Errors : Count(e) <= Slack(e) /\ (crossed \/ Count(e) = Slack(e)))'
    BY <1>6, <1>7, NextCountedIs
  <2> QED BY <2>3, <2>4
<1>13. DrainsKnow'
  <2> SUFFICES ASSUME NEW d \in Drainers, Reading(d)', NEW x \in Touched(d)' PROVE KnowsRow(drain[d].rows[x], x)'
    BY DEF DrainsKnow
  <2>1. x \in Errors /\ Reading(d) /\ x \in Touched(d) /\ drain'[d].rows[x] = drain[d].rows[x] BY <1>2 DEF Touched, Reading
  <2>2. KnowsRow(drain[d].rows[x], x) BY <2>1 DEF RowsInv, DrainsKnow
  <2>3. crossed' BY <1>2, <2>1
  <2>4. opened[x] \in Nat /\ opened'[x] = opened[x] BY <1>1, <1>2, <2>1 DEF WatchKinds
  <2>5. issue'[x] = NoIssue \/ (issue[x] # NoIssue /\ issue'[x] # NoIssue /\ issue'[x].id = issue[x].id)
    BY <1>8, <1>9, <2>1 DEF Exists
  <2>6. PICK q : q = drain[d].rows[x] OBVIOUS
  <2>7. KnowsRow(q, x)' BY <1>2, <1>11, <2>1, <2>2, <2>3, <2>4, <2>5, <2>6, StillKnows
  <2> QED BY <2>1, <2>6, <2>7 DEF KnowsRow
<1>14. SeenBefore' BY <1>2, <1>5, <1>8, <1>9 DEF RowsInv, SeenBefore
<1>15. CameBackSince'
  <2> SUFFICES ASSUME NEW x \in Errors, Exists(x)', issue'[x].status = "REOPENED", ~crossed'
               PROVE  issue'[x].lastSeen > issue'[x].resolvedAt
    BY DEF CameBackSince
  <2>1. x # y BY <1>3
  <2> QED BY <1>3, <1>5, <1>8, <2>1 DEF RowsInv, CameBackSince
<1> QED BY <1>6, <1>7, <1>10, <1>12, <1>13, <1>14, <1>15 DEF RowsInv

LEMMA PurgeKeeps ==
    ASSUME RowsInv, Purge
    PROVE  RowsInv'
<1> DEFINE old == {e \in Errors : Exists(e) /\ issue[e].lastSeen < watchHour - Retention}
<1>1. WatchKinds /\ Drains /\ watchHour \in Nat BY EventsAre DEF RowsInv
<1>2. /\ issue' = [e \in Errors |-> IF e \in old THEN NoIssue ELSE issue[e]]
      /\ seenAt' = [e \in Errors |-> IF e \in old THEN <<>> ELSE Since(seenAt[e], watchHour - Retention)]
      /\ gone' = [e \in Errors |-> IF e \in old THEN gone[e] + issue[e].count ELSE gone[e]]
      /\ UNCHANGED <<queue, drain, watchHour, captured, opened, crossed, fell, hands>>
  BY DEF Purge
<1>3. \A e \in old : e \in Errors /\ Exists(e) OBVIOUS
<1> HIDE DEF old
<1>4. \A e \in old : issue[e].count \in Nat BY <1>1, <1>3 DEF WatchKinds, Exists, RowAt
<1>5. ASSUME NEW e \in Errors
      PROVE  /\ Since(seenAt[e], watchHour - Retention) \in Seq(0..watchHour)
             /\ \A k \in DOMAIN Since(seenAt[e], watchHour - Retention) :
                   \E i \in DOMAIN seenAt[e] : Since(seenAt[e], watchHour - Retention)[k] = seenAt[e][i]
  <2> DEFINE I == {i \in DOMAIN seenAt[e] : seenAt[e][i] >= watchHour - Retention}
  <2>1. seenAt[e] \in Seq(0..watchHour) /\ I \in SUBSET DOMAIN seenAt[e] BY <1>1 DEF WatchKinds
  <2>2. Since(seenAt[e], watchHour - Retention) = LET of == SetToSeq(I) IN [k \in DOMAIN of |-> seenAt[e][of[k]]] BY DEF Since
  <2> HIDE DEF I
  <2> QED BY <2>1, <2>2, SomeOfThem
<1>6. WatchKinds'
  <2>1. issue' \in [Errors -> RowAt(watchHour) \cup {NoIssue}] BY <1>1, <1>2 DEF WatchKinds
  <2>2. gone' \in [Errors -> Nat]
    <3>1. \A e \in Errors : gone[e] \in Nat BY <1>1 DEF WatchKinds
    <3>2. \A e \in Errors : gone'[e] \in Nat BY <1>2, <1>4, <3>1
    <3>3. gone' = [e \in Errors |-> gone'[e]] BY <1>2
    <3> QED BY <3>2, <3>3
  <2>3. seenAt' \in [Errors -> Seq(0..watchHour)]
    <3>1. ASSUME NEW e \in Errors PROVE seenAt'[e] \in Seq(0..watchHour)
      <4>1. seenAt'[e] = <<>> \/ seenAt'[e] = Since(seenAt[e], watchHour - Retention) BY <1>2
      <4>2. <<>> \in Seq(0..watchHour) OBVIOUS
      <4> QED BY <1>5, <4>1, <4>2
    <3>2. seenAt' = [e \in Errors |-> seenAt'[e]] BY <1>2
    <3> QED BY <3>1, <3>2
  <2> QED BY <1>1, <1>2, <2>1, <2>2, <2>3 DEF WatchKinds
<1>7. Drains' BY <1>1, <1>2 DEF Drains
<1>8. ASSUME NEW x \in Errors
      PROVE  /\ Slack(x) \in Int /\ Slack(x)' \in Int
             /\ x \in old => issue'[x] = NoIssue /\ Slack(x)' = Slack(x) - Count(x)
             /\ x \notin old => issue'[x] = issue[x] /\ Slack(x)' = Slack(x)
  <2>1. Slack(x) \in Int /\ Waiting(x) \in Nat /\ Waiting(x)' = Waiting(x) BY <1>1, <1>2, WaitingIs DEF Waiting
  <2>2. captured'[x] = captured[x] /\ captured[x] \in Nat /\ gone[x] \in Nat BY <1>1, <1>2, WatchAssumption DEF WatchKinds
  <2>3. Slack(x) = captured[x] - gone[x] - Waiting(x) /\ Slack(x)' = captured'[x] - gone'[x] - Waiting(x)' BY DEF Slack
  <2>4. CASE x \in old
    <3>1. gone'[x] = gone[x] + issue[x].count /\ issue[x].count \in Nat /\ Count(x) = issue[x].count /\ issue'[x] = NoIssue
      BY <1>2, <1>3, <1>4, <2>4 DEF Count
    <3> QED BY <2>1, <2>2, <2>3, <2>4, <3>1
  <2>5. CASE x \notin old
    <3>1. gone'[x] = gone[x] /\ issue'[x] = issue[x] BY <1>2, <2>5
    <3> QED BY <2>1, <2>2, <2>3, <2>5, <3>1
  <2> QED BY <2>4, <2>5
<1>9. Numbered' BY <1>2, <1>8 DEF RowsInv, Numbered, Exists
<1>10. CountedOnce'
  <2>1. \A x \in Errors : Count(x) <= Slack(x) /\ (crossed \/ Count(x) = Slack(x)) BY <1>1, CountedIs DEF RowsInv
  <2>2. ASSUME NEW x \in Errors PROVE Count(x)' <= Slack(x)' /\ (crossed' \/ Count(x)' = Slack(x)')
    <3>1. CASE x \in old
      <4>1. Count(x)' = 0 BY <1>8, <3>1 DEF Count, Exists
      <4>2. Count(x) \in Nat BY <1>3, <1>4, <3>1 DEF Count
      <4> QED BY <1>2, <1>8, <2>1, <3>1, <4>1, <4>2
    <3>2. CASE x \notin old
      <4>1. Count(x)' = Count(x) BY <1>8, <3>2 DEF Count, Exists
      <4> QED BY <1>2, <1>8, <2>1, <3>2, <4>1
    <3> QED BY <3>1, <3>2
  <2>3. (CountedOnce <=> \A e \in Errors : Count(e) <= Slack(e) /\ (crossed \/ Count(e) = Slack(e)))'
    BY <1>6, <1>7, NextCountedIs
  <2> QED BY <2>2, <2>3
<1>11. DrainsKnow'
  <2> SUFFICES ASSUME NEW d \in Drainers, Reading(d)', NEW x \in Touched(d)' PROVE KnowsRow(drain[d].rows[x], x)'
    BY DEF DrainsKnow
  <2>1. x \in Errors /\ Reading(d) /\ x \in Touched(d) /\ drain'[d].rows[x] = drain[d].rows[x] BY <1>2 DEF Touched, Reading
  <2>2. KnowsRow(drain[d].rows[x], x) BY <2>1 DEF RowsInv, DrainsKnow
  <2>3. opened[x] \in Nat /\ opened'[x] = opened[x] BY <1>1, <1>2, <2>1 DEF WatchKinds
  <2>4. \/ issue'[x] = NoIssue
        \/ /\ issue[x] # NoIssue /\ issue'[x] # NoIssue /\ issue'[x].id = issue[x].id
           /\ Slack(x)' >= Slack(x) /\ Alike(issue[x], issue'[x])
    BY <1>8, <2>1 DEF Alike
  <2>5. PICK q : q = drain[d].rows[x] OBVIOUS
  <2>6. KnowsRow(q, x)' BY <1>2, <1>8, <2>1, <2>2, <2>3, <2>4, <2>5, StillKnows
  <2> QED BY <2>1, <2>5, <2>6 DEF KnowsRow
<1>12. SeenBefore'
  <2> SUFFICES ASSUME NEW x \in Errors
               PROVE  /\ ~Exists(x)' => seenAt'[x] = <<>>
                      /\ Exists(x)' /\ ~crossed' => \A k \in DOMAIN seenAt'[x] : seenAt'[x][k] <= issue'[x].lastSeen
    BY DEF SeenBefore
  <2>1. CASE x \in old BY <1>2, <1>8, <2>1 DEF Exists
  <2>2. CASE x \notin old
    <3>1. issue'[x] = issue[x] /\ seenAt'[x] = Since(seenAt[x], watchHour - Retention) BY <1>2, <1>8, <2>2
    <3>2. ASSUME ~Exists(x) PROVE seenAt'[x] = <<>>
      <4>1. seenAt[x] = <<>> BY <3>2 DEF RowsInv, SeenBefore
      <4>2. DOMAIN seenAt'[x] = {} BY <1>5, <3>1, <4>1
      <4>3. seenAt'[x] \in Seq(0..watchHour) BY <1>5, <3>1
      <4>4. DOMAIN seenAt'[x] = 1..Len(seenAt'[x]) /\ Len(seenAt'[x]) \in Nat BY <4>3
      <4>6. 1 \notin DOMAIN seenAt'[x] BY <4>2
      <4>5. Len(seenAt'[x]) = 0 BY <4>4, <4>6
      <4> QED BY <4>3, <4>5
    <3>3. ASSUME Exists(x), ~crossed PROVE \A k \in DOMAIN seenAt'[x] : seenAt'[x][k] <= issue'[x].lastSeen
      <4>1. \A i \in DOMAIN seenAt[x] : seenAt[x][i] <= issue[x].lastSeen BY <3>3 DEF RowsInv, SeenBefore
      <4> QED BY <1>5, <3>1, <4>1
    <3> QED BY <1>2, <3>1, <3>2, <3>3 DEF Exists
  <2> QED BY <2>1, <2>2
<1>13. CameBackSince' BY <1>2, <1>8 DEF RowsInv, CameBackSince, Exists
<1> QED BY <1>6, <1>7, <1>9, <1>10, <1>11, <1>12, <1>13 DEF RowsInv
-----------------------------------------------------------------------------
(* The commit of a drain.                                                  *)

\* A new row, of the first of its times.
LEMMA NewIssueIs ==
    ASSUME NEW h \in Nat, NEW id \in Nat, NEW T \in SUBSET (0..h), T # {}
    PROVE  LET r == NewIssue(id, T)
           IN  r \in RowAt(h) /\ r.id = id /\ r.count = 0 /\ r.alertedAt = Never /\ r.peakAt = Never /\ r.status = "NEW"
<1>1. (CHOOSE t \in T : \A u \in T : t <= u) \in T BY Earliest
<1>2. PICK first \in 0..h : first = CHOOSE t \in T : \A u \in T : t <= u BY <1>1
<1>3. NewIssue(id, T) = [id |-> id, status |-> "NEW", count |-> 0, lastSeen |-> first,
                         resolvedAt |-> Never, alertedAt |-> Never, peakAt |-> Never, reopened |-> 0]
  BY <1>2 DEF NewIssue
<1> QED BY <1>3 DEF RowAt, Status, Unread

\* The row as the commit leaves it: one more row, or the one there is with
\* what was counted; told of anew if it came back; and, if it is as it was
\* read, no occurrence of it is later than its last.
Groups(g, read, now, id, T, n) ==
    /\ now = NoIssue => g.id = id /\ g.alertedAt = Never /\ g.peakAt = Never /\ g.count = n
    /\ now # NoIssue => /\ g.id = now.id /\ g.peakAt = now.peakAt
                        /\ g.alertedAt = Never \/ g.alertedAt = now.alertedAt
    /\ now # NoIssue /\ read = NoIssue => g.count = now.count + n
    /\ read # NoIssue => g.count = read.count + n
    /\ read = NoIssue \/ Alike(read, now) =>
          /\ \A t \in T : t <= g.lastSeen
          /\ now # NoIssue => g.lastSeen >= now.lastSeen
          /\ g.status = "REOPENED" =>
                \/ g.lastSeen > g.resolvedAt
                \/ now # NoIssue /\ now.status = "REOPENED" /\ g.resolvedAt = now.resolvedAt

LEMMA GroupedIs ==
    ASSUME NEW h \in Nat, NEW read \in RowAt(h) \cup {NoIssue}, NEW now \in RowAt(h) \cup {NoIssue},
           read # NoIssue => now # NoIssue, NEW id \in Nat, NEW T \in SUBSET (0..h), T # {}, NEW n \in Nat
    PROVE  Grouped(read, now, id, T, n) \in RowAt(h) /\ Groups(Grouped(read, now, id, T, n), read, now, id, T, n)
<1> DEFINE row   == IF read = NoIssue THEN (IF now = NoIssue THEN NewIssue(id, T) ELSE now) ELSE read
           under == IF now = NoIssue THEN row ELSE now
           later == IF LatestOf(T) > row.lastSeen THEN LatestOf(T) ELSE under.lastSeen
           g     == Grouped(read, now, id, T, n)
<1>1. LatestOf(T) \in T /\ \A u \in T : u <= LatestOf(T)
  <2>1. T \in SUBSET ({Never} \cup 0..h) OBVIOUS
  <2> QED BY <2>1, LatestIs
<1>2. PICK new \in RowAt(h) : /\ new = NewIssue(id, T) /\ new.id = id /\ new.count = 0 /\ new.alertedAt = Never
                              /\ new.peakAt = Never /\ new.status = "NEW"
  <2>1. LET r == NewIssue(id, T)
        IN  r \in RowAt(h) /\ r.id = id /\ r.count = 0 /\ r.alertedAt = Never /\ r.peakAt = Never /\ r.status = "NEW"
    BY NewIssueIs
  <2> QED BY <2>1
<1>3. \A r \in RowAt(h) : r # NoIssue /\ r.lastSeen \in 0..h BY RowIsThere DEF RowAt
<1>4. row \in RowAt(h) /\ under \in RowAt(h) BY <1>2, <1>3
<1>5. PICK w \in RowAt(h) : w = row BY <1>4
<1>6. PICK u \in RowAt(h) : u = under BY <1>4
<1>7. /\ now = NoIssue => u = new /\ w = new
      /\ now # NoIssue => u = now
      /\ now # NoIssue /\ read = NoIssue => w = now
      /\ read # NoIssue => w = read
  BY <1>2, <1>5, <1>6
<1>8. later \in 0..h BY <1>1, <1>3, <1>4
<1>9. PICK l \in 0..h : l = later BY <1>8
<1>10. l = IF LatestOf(T) > w.lastSeen THEN LatestOf(T) ELSE u.lastSeen BY <1>5, <1>6, <1>9
<1>11. g = IF ComesBack(w, T)
           THEN [u EXCEPT !.status = "REOPENED", !.alertedAt = Never, !.reopened = w.reopened + 1,
                          !.count = w.count + n, !.lastSeen = l]
           ELSE [u EXCEPT !.count = w.count + n, !.lastSeen = l]
  BY <1>5, <1>6, <1>9 DEF Grouped
<1> HIDE DEF row, under, later, g
<1>12. w.count \in Nat /\ w.reopened \in Nat /\ w.count + n \in Nat /\ w.reopened + 1 \in Nat BY DEF RowAt
<1>13. PICK c \in Nat : c = w.count + n BY <1>12
<1>14. PICK o \in Nat : o = w.reopened + 1 BY <1>12
<1>15. /\ g \in RowAt(h) /\ g.id = u.id /\ g.peakAt = u.peakAt /\ g.count = c /\ g.lastSeen = l /\ g.resolvedAt = u.resolvedAt
       /\ ComesBack(w, T) => g.alertedAt = Never
       /\ ~ComesBack(w, T) => g.alertedAt = u.alertedAt /\ g.status = u.status
  <2>1. CASE ComesBack(w, T)
    <3> DEFINE s == [u EXCEPT !.status = "REOPENED", !.alertedAt = Never, !.reopened = o, !.count = c, !.lastSeen = l]
    <3>1. g = s BY <1>11, <1>13, <1>14, <2>1
    <3>2. /\ s \in RowAt(h) /\ s.id = u.id /\ s.peakAt = u.peakAt /\ s.count = c /\ s.lastSeen = l
          /\ s.resolvedAt = u.resolvedAt /\ s.alertedAt = Never
      BY DEF RowAt, Status, Unread
    <3> HIDE DEF s
    <3> QED BY <2>1, <3>1, <3>2
  <2>2. CASE ~ComesBack(w, T)
    <3> DEFINE s == [u EXCEPT !.count = c, !.lastSeen = l]
    <3>1. g = s BY <1>11, <1>13, <2>2
    <3>2. /\ s \in RowAt(h) /\ s.id = u.id /\ s.peakAt = u.peakAt /\ s.count = c /\ s.lastSeen = l
          /\ s.resolvedAt = u.resolvedAt /\ s.alertedAt = u.alertedAt /\ s.status = u.status
      BY DEF RowAt
    <3> HIDE DEF s
    <3> QED BY <2>2, <3>1, <3>2
  <2> QED BY <2>1, <2>2
<1>16. u.alertedAt = Never \/ now # NoIssue BY <1>2, <1>7
<1>17. c = n \/ now # NoIssue BY <1>2, <1>7, <1>13
<1>18. ASSUME read = NoIssue \/ Alike(read, now)
       PROVE  /\ \A t \in T : t <= g.lastSeen
              /\ now # NoIssue => g.lastSeen >= now.lastSeen
              /\ g.status = "REOPENED" =>
                    \/ g.lastSeen > g.resolvedAt
                    \/ now # NoIssue /\ now.status = "REOPENED" /\ g.resolvedAt = now.resolvedAt
  <2>1. w.lastSeen = u.lastSeen /\ w.resolvedAt = u.resolvedAt
    <3>1. CASE now = NoIssue BY <1>7, <3>1
    <3>2. CASE now # NoIssue /\ read = NoIssue BY <1>7, <3>2
    <3>3. CASE now # NoIssue /\ read # NoIssue BY <1>7, <1>18, <3>3 DEF Alike
    <3> QED BY <3>1, <3>2, <3>3
  <2>2. u.lastSeen \in 0..h /\ LatestOf(T) \in 0..h BY <1>1, <1>3
  <2>3. l >= LatestOf(T) /\ l >= u.lastSeen BY <1>10, <2>1, <2>2
  <2>4. \A t \in T : t <= l BY <1>1, <2>2, <2>3
  <2>5. ASSUME g.status = "REOPENED"
        PROVE  l > u.resolvedAt \/ (now # NoIssue /\ now.status = "REOPENED" /\ u.resolvedAt = now.resolvedAt)
    <3>1. CASE ComesBack(w, T)
      <4>1. LatestOf(T) > u.resolvedAt BY <2>1, <3>1 DEF ComesBack
      <4>2. u.resolvedAt \in {Never} \cup 0..h BY DEF RowAt
      <4> QED BY <2>2, <2>3, <4>1, <4>2 DEF Never
    <3>2. CASE ~ComesBack(w, T) BY <1>2, <1>7, <1>15, <2>5, <3>2
    <3> QED BY <3>1, <3>2
  <2> QED BY <1>7, <1>15, <2>3, <2>4, <2>5
<1>19. \/ g.alertedAt = Never
       \/ now # NoIssue /\ g.alertedAt = now.alertedAt
  BY <1>2, <1>7, <1>15
<1>20. /\ now = NoIssue => g.id = id /\ g.peakAt = Never /\ g.count = n
       /\ now # NoIssue => g.id = now.id /\ g.peakAt = now.peakAt
       /\ now # NoIssue /\ read = NoIssue => g.count = now.count + n
       /\ read # NoIssue => g.count = read.count + n
  BY <1>2, <1>7, <1>13, <1>15, <1>17
<1>21. Groups(g, read, now, id, T, n) BY <1>18, <1>19, <1>20 DEF Groups
<1> QED BY <1>15, <1>21 DEF g

\* The times of the events of one error that a drain holds.
LEMMA TimesAre ==
    ASSUME NEW h \in Nat, NEW s \in EventsAt(h), s \in Seq(Event), NEW e
    PROVE  /\ TimesOf(s, e) \in SUBSET (0..h)
           /\ OfError(s, e) > 0 => TimesOf(s, e) # {}
           /\ TimesIn(s, e) \in Seq(0..h)
           /\ \A k \in DOMAIN TimesIn(s, e) : TimesIn(s, e)[k] \in TimesOf(s, e)
           /\ OfError(s, e) = 0 => TimesIn(s, e) = <<>>
<1> DEFINE I  == {i \in DOMAIN s : s[i].error = e}
           of == SetToSeq(I)
           t  == TimesIn(s, e)
<1>1. OfError(s, e) \in Nat /\ IsFiniteSet(I) /\ (OfError(s, e) > 0 <=> I # {}) BY EventsCount
<1>2. \A i \in I : s[i].at \in 0..h
  <2> DEFINE A == [error : Errors, at : 0..h]
  <2>1. s \in Seq(A) BY DEF EventsAt
  <2> HIDE DEF A
  <2>2. \A i \in DOMAIN s : s[i] \in A BY <2>1
  <2> QED BY <2>2 DEF A
<1>3. TimesOf(s, e) = {s[i].at : i \in I} BY DEF TimesOf
<1>4. of \in Seq(I) /\ Len(of) = Cardinality(I) BY <1>1, InSomeOrder
<1>5. t = [k \in DOMAIN of |-> s[of[k]].at] BY DEF TimesIn
<1>6. OfError(s, e) = Cardinality(I) BY DEF OfError
<1> HIDE DEF I, of, t
<1>7. DOMAIN of = 1..Len(of) /\ Len(of) \in Nat /\ \A k \in DOMAIN of : of[k] \in I BY <1>4
<1>8. t \in [1..Len(of) -> 0..h] BY <1>2, <1>5, <1>7
<1>9. t \in Seq(0..h) /\ Len(t) = Len(of) BY <1>7, <1>8
<1>10. \A k \in DOMAIN t : t[k] \in TimesOf(s, e) BY <1>3, <1>5, <1>7
<1>11. OfError(s, e) = 0 => t = <<>> BY <1>4, <1>6, <1>9
<1> QED BY <1>1, <1>2, <1>3, <1>9, <1>10, <1>11 DEF t

\* What the commit of a drain writes of one error.
LEMMA IngestIs ==
    ASSUME RowsInv, NEW d \in Drainers, Ingest(d), NEW e \in Errors
    PROVE  LET n == OfError(drain[d].events, e)
           IN  /\ n \in Nat /\ seenAt'[e] \in Seq(0..watchHour)
               /\ n = 0 => issue'[e] = issue[e] /\ seenAt'[e] = seenAt[e] /\ opened'[e] = opened[e]
               /\ n > 0 => /\ issue'[e] \in RowAt(watchHour)
                           /\ issue'[e].count <= Slack(e) + n
                           /\ ~crossed => /\ issue'[e].count = Slack(e) + n
                                          /\ \A k \in DOMAIN seenAt'[e] : seenAt'[e][k] <= issue'[e].lastSeen
                                          /\ issue'[e].status = "REOPENED" => issue'[e].lastSeen > issue'[e].resolvedAt
               /\ n > 0 /\ issue[e] = NoIssue =>
                     issue'[e].id = opened[e] /\ opened'[e] = opened[e] + 1 /\ issue'[e].alertedAt = Never
               /\ n > 0 /\ issue[e] # NoIssue =>
                     /\ issue'[e].id = issue[e].id /\ issue'[e].peakAt = issue[e].peakAt
                     /\ \/ issue'[e].alertedAt = Never /\ issue[e].alertedAt # Never /\ opened'[e] = opened[e] + 1
                        \/ issue'[e].alertedAt = issue[e].alertedAt /\ opened'[e] = opened[e]
                     /\ ~crossed => issue'[e].lastSeen >= issue[e].lastSeen
<1> DEFINE s == drain[d].events
           n == OfError(s, e)
           T == TimesOf(s, e)
<1>1. /\ drain[d].at = "read" /\ ~Stale(d)
      /\ issue'[e] = (IF e \in Touched(d) THEN Grouped(drain[d].rows[e], issue[e], opened[e], T, n) ELSE issue[e])
      /\ seenAt'[e] = seenAt[e] \o TimesIn(s, e)
      /\ opened'[e] = (IF Opens(e) THEN opened[e] + 1 ELSE opened[e])
      /\ e \in Touched(d) <=> n > 0
  BY DEF Ingest, Ingested, Reading, Touched
<1>2. /\ WatchKinds /\ Drains /\ CountedOnce /\ SeenBefore /\ CameBackSince
      /\ watchHour \in Nat /\ EventsAt(watchHour) \subseteq Seq(Event)
  BY EventsAre DEF RowsInv
<1>3. s \in EventsAt(watchHour) /\ s \in Seq(Event) BY <1>1, <1>2 DEF Drains
<1>4. n \in Nat BY <1>3, EventsCount
<1>5. /\ T \in SUBSET (0..watchHour) /\ (n > 0 => T # {}) /\ TimesIn(s, e) \in Seq(0..watchHour)
      /\ \A k \in DOMAIN TimesIn(s, e) : TimesIn(s, e)[k] \in T
      /\ n = 0 => TimesIn(s, e) = <<>>
  BY <1>2, <1>3, TimesAre
<1>6. seenAt[e] \in Seq(0..watchHour) /\ issue[e] \in RowAt(watchHour) \cup {NoIssue} /\ opened[e] \in Nat BY <1>2 DEF WatchKinds
<1>7. PICK times \in Seq(0..watchHour) : times = TimesIn(s, e) BY <1>5
<1>8. PICK seen \in Seq(0..watchHour) : seen = seenAt[e] BY <1>6
<1>9. seenAt'[e] = seen \o times /\ seen \o times \in Seq(0..watchHour) BY <1>1, <1>7, <1>8
<1>10. ASSUME NEW k \in DOMAIN (seen \o times)
       PROVE  (\E i \in DOMAIN seen : (seen \o times)[k] = seen[i]) \/ (\E i \in DOMAIN times : (seen \o times)[k] = times[i])
  <2>1. /\ DOMAIN seen = 1..Len(seen) /\ DOMAIN times = 1..Len(times) /\ Len(seen) \in Nat /\ Len(times) \in Nat
        /\ k \in 1..Len(seen) + Len(times)
    OBVIOUS
  <2>2. CASE k <= Len(seen)
    <3>1. (seen \o times)[k] = seen[k] BY <2>1, <2>2
    <3> QED BY <2>1, <2>2, <3>1
  <2>3. CASE k > Len(seen)
    <3>1. (seen \o times)[k] = times[k - Len(seen)] BY <2>1, <2>3
    <3>2. k - Len(seen) \in 1..Len(times) BY <2>1, <2>3
    <3> QED BY <2>1, <3>1, <3>2
  <2> QED BY <2>1, <2>2, <2>3
<1>11. CASE n = 0
  <2>1. issue'[e] = issue[e] BY <1>1, <1>4, <1>11
  <2>2. opened'[e] = opened[e] BY <1>1, <2>1 DEF Opens
  <2>3. seenAt'[e] = seenAt[e]
    <3>1. times = <<>> BY <1>5, <1>7, <1>11
    <3> QED BY <1>8, <1>9, <3>1
  <2> QED BY <1>4, <1>6, <1>11, <2>1, <2>2, <2>3
<1>12. CASE n > 0
  <2>1. PICK read : read = drain[d].rows[e] OBVIOUS
  <2>2. e \in Touched(d) /\ KnowsRow(read, e)
    <3>1. KnowsRow(drain[d].rows[e], e) BY <1>1, <1>12 DEF RowsInv, DrainsKnow, Reading
    <3> QED BY <1>1, <1>12, <2>1, <3>1
  <2>3. read # NoIssue => SameRow(read, issue[e]) BY <1>1, <2>1, <2>2 DEF Stale, Reading
  <2>4. PICK now \in RowAt(watchHour) \cup {NoIssue} : now = issue[e] BY <1>6
  <2>5. read \in RowAt(watchHour) \cup {NoIssue} /\ (read # NoIssue => now # NoIssue)
    BY <2>2, <2>3, <2>4 DEF KnowsRow, SameRow
  <2>6. read # NoIssue => now.id = read.id /\ read.count <= Slack(e) /\ (~crossed => Alike(read, now))
    BY <2>2, <2>3, <2>4 DEF KnowsRow, SameRow
  <2>7. read = NoIssue /\ ~crossed => now = NoIssue BY <2>2, <2>4, RowIsThere DEF KnowsRow
  <2> DEFINE g == Grouped(read, now, opened[e], T, n)
  <2>19. g \in RowAt(watchHour) /\ Groups(g, read, now, opened[e], T, n)
    <3>1. PICK id \in Nat : id = opened[e] BY <1>6
    <3>2. PICK m \in Nat : m = n BY <1>4
    <3>3. PICK U \in SUBSET (0..watchHour) : U = T /\ U # {} BY <1>5, <1>12
    <3> HIDE DEF n, T
    <3>4. Grouped(read, now, id, U, m) \in RowAt(watchHour) /\ Groups(Grouped(read, now, id, U, m), read, now, id, U, m)
      BY <1>2, <2>5, <3>3, GroupedIs
    <3> QED BY <3>1, <3>2, <3>3, <3>4
  <2>9. issue'[e] = g BY <1>1, <2>1, <2>2, <2>4
  <2> HIDE DEF g, n, T
  <2>8. /\ now = NoIssue => g.id = opened[e] /\ g.alertedAt = Never /\ g.peakAt = Never /\ g.count = n
        /\ now # NoIssue => /\ g.id = now.id /\ g.peakAt = now.peakAt
                            /\ g.alertedAt = Never \/ g.alertedAt = now.alertedAt
        /\ now # NoIssue /\ read = NoIssue => g.count = now.count + n
        /\ read # NoIssue => g.count = read.count + n
        /\ read = NoIssue \/ Alike(read, now) =>
              /\ \A t \in T : t <= g.lastSeen
              /\ now # NoIssue => g.lastSeen >= now.lastSeen
              /\ g.status = "REOPENED" =>
                    \/ g.lastSeen > g.resolvedAt
                    \/ now # NoIssue /\ now.status = "REOPENED" /\ g.resolvedAt = now.resolvedAt
    BY <2>19 DEF Groups
  <2>10. Count(e) <= Slack(e) /\ (crossed \/ Count(e) = Slack(e)) /\ Slack(e) \in Int BY <1>2, CountedIs, WaitingIs
  <2>11. Count(e) = (IF now = NoIssue THEN 0 ELSE now.count) BY <2>4 DEF Count, Exists
  <2>12. (now # NoIssue => now.count \in Nat) /\ (read # NoIssue => read.count \in Nat) BY <2>5 DEF RowAt
  <2>13. g.count <= Slack(e) + n /\ (~crossed => g.count = Slack(e) + n)
    <3>1. CASE now = NoIssue BY <1>4, <2>8, <2>10, <2>11, <3>1
    <3>2. CASE now # NoIssue /\ read = NoIssue BY <1>4, <2>7, <2>8, <2>10, <2>11, <2>12, <3>2
    <3>3. CASE now # NoIssue /\ read # NoIssue BY <1>4, <2>6, <2>8, <2>10, <2>11, <2>12, <3>3 DEF Alike
    <3> QED BY <3>1, <3>2, <3>3
  <2>14. g # NoIssue BY <2>19, RowIsThere
  <2>15. now = NoIssue => opened'[e] = opened[e] + 1 BY <1>1, <2>4, <2>8, <2>9, <2>14 DEF Opens
  <2>16. now # NoIssue => \/ g.alertedAt = Never /\ now.alertedAt # Never /\ opened'[e] = opened[e] + 1
                          \/ g.alertedAt = now.alertedAt /\ opened'[e] = opened[e]
    BY <1>1, <2>4, <2>8, <2>9, <2>14 DEF Opens
  <2>17. ASSUME ~crossed
         PROVE  /\ \A k \in DOMAIN seenAt'[e] : seenAt'[e][k] <= g.lastSeen
                /\ g.status = "REOPENED" => g.lastSeen > g.resolvedAt
                /\ now # NoIssue => g.lastSeen >= now.lastSeen
    <3>1. /\ \A t \in T : t <= g.lastSeen
          /\ now # NoIssue => g.lastSeen >= now.lastSeen
          /\ g.status = "REOPENED" =>
                \/ g.lastSeen > g.resolvedAt
                \/ now # NoIssue /\ now.status = "REOPENED" /\ g.resolvedAt = now.resolvedAt
      BY <2>6, <2>8, <2>17
    <3>2. now # NoIssue /\ now.status = "REOPENED" => now.lastSeen > now.resolvedAt
      BY <1>2, <2>4, <2>17 DEF CameBackSince, Exists
    <3>3. g.lastSeen \in 0..watchHour /\ g.resolvedAt \in {Never} \cup 0..watchHour BY <2>19 DEF RowAt
    <3>4. now # NoIssue => now.lastSeen \in 0..watchHour BY DEF RowAt
    <3>5. ASSUME NEW k \in DOMAIN (seen \o times) PROVE (seen \o times)[k] <= g.lastSeen
      <4>1. CASE \E i \in DOMAIN times : (seen \o times)[k] = times[i] BY <1>5, <1>7, <3>1, <4>1
      <4>2. CASE \E i \in DOMAIN seen : (seen \o times)[k] = seen[i]
        <5>1. PICK i \in DOMAIN seen : (seen \o times)[k] = seen[i] BY <4>2
        <5>2. now # NoIssue BY <1>2, <1>8, <2>4, <5>1 DEF SeenBefore, Exists
        <5>3. seen[i] <= now.lastSeen BY <1>2, <1>8, <2>4, <2>17, <5>1, <5>2 DEF SeenBefore, Exists
        <5>4. seen[i] \in 0..watchHour BY <1>8, <5>1, ElementIs
        <5> QED BY <3>1, <3>3, <3>4, <5>1, <5>2, <5>3, <5>4
      <4> QED BY <1>10, <4>1, <4>2
    <3>6. \A k \in DOMAIN seenAt'[e] : seenAt'[e][k] <= g.lastSeen BY <1>9, <3>5
    <3>7. g.status = "REOPENED" => g.lastSeen > g.resolvedAt BY <3>1, <3>2, <3>3, <3>4 DEF Never
    <3> QED BY <3>1, <3>6, <3>7
  <2>18. n \in Nat /\ n # 0 BY <1>4, <1>12 DEF n
  <2> QED BY <1>9, <2>4, <2>8, <2>9, <2>19, <2>13, <2>15, <2>16, <2>17, <2>18 DEF n
<1> QED BY <1>4, <1>11, <1>12

LEMMA IngestKeeps ==
    ASSUME RowsInv, NEW d \in Drainers, Ingest(d)
    PROVE  RowsInv'
<1> DEFINE s    == drain[d].events
           n(e) == OfError(s, e)
           new  == IF d = "task" THEN [at |-> "alerts"] ELSE NoDrain
<1>1. /\ drain[d].at = "read" /\ drain' = [drain EXCEPT ![d] = new]
      /\ issue' = [e \in Errors |-> issue'[e]] /\ seenAt' = [e \in Errors |-> seenAt'[e]]
      /\ opened' = [e \in Errors |-> opened'[e]]
      /\ crossed' = (crossed \/ \E f \in Drainers \ {d} : Reading(f))
      /\ UNCHANGED <<queue, watchHour, captured, gone, fell, hands>>
  BY DEF Ingest, Ingested, Reading
<1>2. WatchKinds /\ Drains /\ watchHour \in Nat BY EventsAre DEF RowsInv
<1>3. crossed \in BOOLEAN /\ crossed' \in BOOLEAN /\ (~crossed' => ~crossed) BY <1>1, <1>2 DEF WatchKinds
<1>4. new.at \in {"idle", "alerts"} /\ (new.at = "alerts" => d = "task") BY DEF NoDrain
<1> HIDE DEF new
<1>5. /\ drain'[d] = new /\ \A f \in Drainers \ {d} : drain'[f] = drain[f]
      /\ drain' = [f \in Drainers |-> drain'[f]]
      /\ \A f \in Drainers \ {d}, x \in Errors : HeldBy(f, x)' = HeldBy(f, x)
  BY <1>1, <1>2, OtherDrain
<1>6. ASSUME NEW e \in Errors
      PROVE  /\ n(e) \in Nat /\ seenAt'[e] \in Seq(0..watchHour)
             /\ n(e) = 0 => issue'[e] = issue[e] /\ seenAt'[e] = seenAt[e] /\ opened'[e] = opened[e]
             /\ n(e) > 0 => /\ issue'[e] \in RowAt(watchHour)
                            /\ issue'[e].count <= Slack(e) + n(e)
                            /\ ~crossed => /\ issue'[e].count = Slack(e) + n(e)
                                           /\ \A k \in DOMAIN seenAt'[e] : seenAt'[e][k] <= issue'[e].lastSeen
                                           /\ issue'[e].status = "REOPENED" => issue'[e].lastSeen > issue'[e].resolvedAt
             /\ n(e) > 0 /\ issue[e] = NoIssue => issue'[e].id = opened[e] /\ opened'[e] = opened[e] + 1
             /\ n(e) > 0 /\ issue[e] # NoIssue => /\ issue'[e].id = issue[e].id
                                                  /\ opened'[e] = opened[e] + 1 \/ opened'[e] = opened[e]
  BY IngestIs
<1> HIDE DEF n
<1>7. \A e \in Errors : issue[e] \in RowAt(watchHour) \cup {NoIssue} /\ opened[e] \in Nat BY <1>2 DEF WatchKinds
<1>8. ASSUME NEW e \in Errors PROVE opened'[e] \in Nat /\ opened'[e] >= opened[e]
  <2>1. opened'[e] = opened[e] \/ opened'[e] = opened[e] + 1 BY <1>6
  <2> QED BY <1>7, <2>1
<1>9. ASSUME NEW e \in Errors, n(e) > 0 PROVE issue'[e] # NoIssue BY <1>6, <1>9, RowIsThere
<1>10. WatchKinds'
  <2>1. \A e \in Errors : issue'[e] \in RowAt(watchHour) \cup {NoIssue}
    <3> SUFFICES ASSUME NEW e \in Errors PROVE issue'[e] \in RowAt(watchHour) \cup {NoIssue} OBVIOUS
    <3>1. CASE n(e) = 0 BY <1>6, <1>7, <3>1
    <3>2. CASE n(e) > 0 BY <1>6, <3>2
    <3> QED BY <1>6, <3>1, <3>2
  <2>2. issue' \in [Errors -> RowAt(watchHour) \cup {NoIssue}] BY <1>1, <2>1
  <2>3. \A e \in Errors : seenAt'[e] \in Seq(0..watchHour) BY <1>6
  <2>4. seenAt' \in [Errors -> Seq(0..watchHour)] BY <1>1, <2>3
  <2>5. opened' \in [Errors -> Nat] BY <1>1, <1>8
  <2> QED BY <1>1, <1>2, <1>3, <2>2, <2>4, <2>5 DEF WatchKinds
<1>11. Drains'
  <2>1. ASSUME NEW f \in Drainers
        PROVE  /\ drain'[f].at \in {"idle", "popped", "read", "alerts", "sent"}
               /\ drain'[f].at \in {"popped", "read"} => drain'[f].events \in EventsAt(watchHour)
    <3>1. CASE f = d BY <1>4, <1>5, <3>1
    <3>2. CASE f # d BY <1>2, <1>5, <3>2 DEF Drains
    <3> QED BY <3>1, <3>2
  <2>2. drain'["page"].at \notin {"alerts", "sent"}
    <3>1. CASE d = "page" BY <1>4, <1>5, <3>1
    <3>2. CASE d # "page" BY <1>2, <1>5, <3>2 DEF Drains, Drainers
    <3> QED BY <3>1, <3>2
  <2>3. drain'["task"].at = "sent" => drain'["task"] = drain["task"] BY <1>4, <1>5 DEF Drainers
  <2> QED BY <1>1, <1>2, <1>5, <2>1, <2>2, <2>3 DEF Drains
<1>12. Numbered'
  <2> SUFFICES ASSUME NEW e \in Errors, issue'[e] # NoIssue PROVE issue'[e].id < opened'[e] BY DEF Numbered, Exists
  <2>1. issue[e] # NoIssue => issue[e].id < opened[e] BY DEF RowsInv, Numbered, Exists
  <2>2. issue[e] # NoIssue => issue[e].id \in Nat BY <1>7 DEF RowAt
  <2>3. CASE n(e) = 0 BY <1>6, <2>1, <2>3
  <2>4. CASE n(e) > 0 BY <1>6, <1>7, <2>1, <2>2, <2>4
  <2> QED BY <1>6, <2>3, <2>4
<1>13. ASSUME NEW x \in Errors PROVE Slack(x)' = Slack(x) + n(x) /\ Slack(x) \in Int
  <2>1. HeldBy(d, x) = n(x) /\ HeldBy(d, x)' = 0 BY <1>1, <1>4, <1>5 DEF HeldBy, n
  <2>2. Slack(x)' = captured'[x] - gone'[x]
                     - (OfError(queue'["redis"], x) + OfError(queue'["page"], x) + OfError(queue'["task"], x)
                        + HeldBy("page", x)' + HeldBy("task", x)')
    BY NextSlackIs
  <2>3. /\ Waiting(x) = OfError(queue["redis"], x) + OfError(queue["page"], x) + OfError(queue["task"], x)
                        + HeldBy("page", x) + HeldBy("task", x)
        /\ \A q \in Stores : OfError(queue[q], x) \in Nat
        /\ \A f \in Drainers : HeldBy(f, x) \in Nat
        /\ Slack(x) \in Int
    BY <1>2, WaitingIs
  <2>4. "page" \in Stores /\ "task" \in Stores /\ "redis" \in Stores /\ "page" \in Drainers /\ "task" \in Drainers
        /\ (d = "page" \/ d = "task")
    BY DEF Stores, Drainers
  <2>5. captured'[x] = captured[x] /\ gone'[x] = gone[x] /\ queue' = queue BY <1>1
  <2>6. captured[x] \in Nat /\ gone[x] \in Nat BY <1>2, WatchAssumption DEF WatchKinds
  <2>7. Slack(x) = captured[x] - gone[x] - Waiting(x) BY DEF Slack
  <2>8. CASE d = "page"
    <3>1. HeldBy("task", x)' = HeldBy("task", x) BY <1>5, <2>4, <2>8
    <3> QED BY <2>1, <2>2, <2>3, <2>4, <2>5, <2>6, <2>7, <2>8, <3>1
  <2>9. CASE d = "task"
    <3>1. HeldBy("page", x)' = HeldBy("page", x) BY <1>5, <2>4, <2>9
    <3> QED BY <2>1, <2>2, <2>3, <2>4, <2>5, <2>6, <2>7, <2>9, <3>1
  <2> QED BY <2>4, <2>8, <2>9
<1>14. CountedOnce'
  <2>1. \A e \in Errors : Count(e) <= Slack(e) /\ (crossed \/ Count(e) = Slack(e)) BY <1>2, CountedIs DEF RowsInv
  <2>2. ASSUME NEW e \in Errors PROVE Count(e)' <= Slack(e)' /\ (crossed' \/ Count(e)' = Slack(e)')
    <3>1. CASE n(e) = 0
      <4>1. Count(e)' = Count(e) BY <1>6, <3>1 DEF Count, Exists
      <4> QED BY <1>3, <1>13, <2>1, <3>1, <4>1
    <3>2. CASE n(e) > 0
      <4>1. Count(e)' = issue'[e].count BY <1>9, <3>2 DEF Count, Exists
      <4> QED BY <1>3, <1>6, <1>13, <3>2, <4>1
    <3> QED BY <1>6, <3>1, <3>2
  <2>3. (CountedOnce <=> \A e \in Errors : Count(e) <= Slack(e) /\ (crossed \/ Count(e) = Slack(e)))'
    BY <1>10, <1>11, NextCountedIs
  <2> QED BY <2>2, <2>3
<1>15. DrainsKnow'
  <2> SUFFICES ASSUME NEW f \in Drainers, Reading(f)', NEW x \in Touched(f)' PROVE KnowsRow(drain[f].rows[x], x)'
    BY DEF DrainsKnow
  <2>1. f # d BY <1>4, <1>5 DEF Reading
  <2>2. x \in Errors /\ Reading(f) /\ x \in Touched(f) /\ drain'[f].rows[x] = drain[f].rows[x]
    BY <1>5, <2>1 DEF Touched, Reading
  <2>3. KnowsRow(drain[f].rows[x], x) BY <2>2 DEF RowsInv, DrainsKnow
  <2>4. crossed' BY <1>1, <2>1, <2>2
  <2>5. opened[x] \in Nat /\ opened'[x] \in Nat /\ opened'[x] >= opened[x] BY <1>7, <1>8, <2>2
  <2>6. Slack(x) \in Int /\ Slack(x)' \in Int /\ Slack(x)' >= Slack(x) BY <1>6, <1>13, <2>2
  <2>7. \/ issue'[x] = NoIssue
        \/ issue[x] # NoIssue /\ issue'[x] # NoIssue /\ issue'[x].id = issue[x].id
        \/ issue[x] = NoIssue /\ issue'[x] # NoIssue /\ issue'[x].id = opened[x]
    <3>1. CASE n(x) = 0 BY <1>6, <2>2, <3>1
    <3>2. CASE n(x) > 0 BY <1>6, <1>9, <2>2, <3>2
    <3> QED BY <1>6, <2>2, <3>1, <3>2
  <2>8. PICK q : q = drain[f].rows[x] OBVIOUS
  <2>9. KnowsRow(q, x)' BY <1>1, <2>2, <2>3, <2>4, <2>5, <2>6, <2>7, <2>8, StillKnows
  <2> QED BY <2>2, <2>8, <2>9 DEF KnowsRow
<1>16. SeenBefore'
  <2> SUFFICES ASSUME NEW x \in Errors
               PROVE  /\ ~Exists(x)' => seenAt'[x] = <<>>
                      /\ Exists(x)' /\ ~crossed' => \A k \in DOMAIN seenAt'[x] : seenAt'[x][k] <= issue'[x].lastSeen
    BY DEF SeenBefore
  <2>1. CASE n(x) = 0 BY <1>3, <1>6, <2>1 DEF RowsInv, SeenBefore, Exists
  <2>2. CASE n(x) > 0 BY <1>3, <1>6, <1>9, <2>2 DEF Exists
  <2> QED BY <1>6, <2>1, <2>2
<1>17. CameBackSince'
  <2> SUFFICES ASSUME NEW x \in Errors, Exists(x)', issue'[x].status = "REOPENED", ~crossed'
               PROVE  issue'[x].lastSeen > issue'[x].resolvedAt
    BY DEF CameBackSince
  <2>1. CASE n(x) = 0 BY <1>3, <1>6, <2>1 DEF RowsInv, CameBackSince, Exists
  <2>2. CASE n(x) > 0 BY <1>3, <1>6, <2>2
  <2> QED BY <1>6, <2>1, <2>2
<1> QED BY <1>10, <1>11, <1>12, <1>14, <1>15, <1>16, <1>17 DEF RowsInv

LEMMA RowsStart == ASSUME WatchInit PROVE RowsInv
<1>1. /\ queue = [q \in Stores |-> <<>>] /\ issue = [e \in Errors |-> NoIssue] /\ seenAt = [e \in Errors |-> <<>>]
      /\ drain = [d \in Drainers |-> NoDrain] /\ watchHour = 0 /\ captured = [e \in Errors |-> 0]
      /\ gone = [e \in Errors |-> 0] /\ opened = [e \in Errors |-> 0] /\ crossed = FALSE /\ fell = 0 /\ hands = 0
  BY DEF WatchInit
<1>2. NoDrain.at = "idle" BY DEF NoDrain
<1>3. \A e : Exists(e) <=> issue[e] # NoIssue BY DEF Exists
<1>4. WatchKinds
  <2>1. WatchHorizon \in Nat /\ HandsMax \in Nat /\ EventMax \in Nat /\ QueueMax \in Nat BY WatchAssumption
  <2>2. <<>> \in EventsAt(0) /\ Len(<<>>) = 0 BY DEF EventsAt
  <2>3. queue \in [Stores -> EventsAt(watchHour)] /\ \A q \in Stores : Len(queue[q]) <= QueueMax BY <1>1, <2>1, <2>2
  <2>4. seenAt \in [Errors -> Seq(0..watchHour)] BY <1>1
  <2>5. watchHour \in 0..WatchHorizon /\ fell \in Nat /\ hands \in 0..HandsMax BY <1>1, <2>1
  <2>8. crossed \in BOOLEAN BY <1>1
  <2>6. issue \in [Errors -> RowAt(watchHour) \cup {NoIssue}] BY <1>1
  <2>7. captured \in [Errors -> 0..EventMax] /\ gone \in [Errors -> Nat] /\ opened \in [Errors -> Nat] BY <1>1, <2>1
  <2> QED BY <2>3, <2>4, <2>5, <2>6, <2>7, <2>8 DEF WatchKinds
<1>5. Drains
  <2>1. \A d \in Drainers : drain[d].at = "idle" BY <1>1, <1>2
  <2>2. "page" \in Drainers /\ "task" \in Drainers BY DEF Drainers
  <2>3. drain = [d \in Drainers |-> drain[d]] BY <1>1
  <2> QED BY <2>1, <2>2, <2>3 DEF Drains
<1>6. Numbered /\ SeenBefore /\ CameBackSince BY <1>1, <1>3 DEF Numbered, SeenBefore, CameBackSince
<1>7. DrainsKnow BY <1>1, <1>2 DEF DrainsKnow, Reading
<1>8. ASSUME NEW e \in Errors PROVE Count(e) = Slack(e)
  <2>1. Count(e) = 0 BY <1>1, <1>3 DEF Count
  <2>2. OfError(<<>>, e) = 0 BY NoEventCounts
  <2>3. queue["redis"] = <<>> /\ queue["page"] = <<>> /\ queue["task"] = <<>> BY <1>1 DEF Stores, Drainers
  <2>4. HeldBy("page", e) = 0 /\ HeldBy("task", e) = 0 BY <1>1, <1>2 DEF HeldBy, Drainers
  <2>5. Waiting(e) = 0 BY <1>4, <1>5, <2>2, <2>3, <2>4, WaitingIs
  <2>6. captured[e] = 0 /\ gone[e] = 0 BY <1>1
  <2> QED BY <2>1, <2>5, <2>6 DEF Slack
<1>9. CountedOnce
  <2>1. \A e \in Errors : Slack(e) \in Int BY <1>4, <1>5, WaitingIs
  <2> QED BY <1>4, <1>5, <1>8, <2>1, CountedIs
<1> QED BY <1>4, <1>5, <1>6, <1>7, <1>9 DEF RowsInv

LEMMA RowsStand == ASSUME RowsInv, UNCHANGED watchVars PROVE RowsInv'
<1>1. UNCHANGED <<queue, issue, seenAt, drain, watchHour, captured, gone, opened, crossed, fell, hands>> BY DEF watchVars
<1>2. WatchKinds /\ Drains /\ watchHour \in Nat BY EventsAre DEF RowsInv
<1>3. WatchKinds' /\ Drains' BY <1>1, <1>2 DEF WatchKinds, Drains
<1>4. \A x \in Errors : Slack(x)' = Slack(x) BY <1>1 DEF Slack, Waiting
<1>5. \A d \in Drainers : Reading(d)' => \A x \in Touched(d)' :
           Reading(d) /\ x \in Touched(d) /\ (drain[d].rows[x])' = drain[d].rows[x]
  BY <1>1 DEF Reading, Touched
<1> QED BY <1>1, <1>2, <1>3, <1>4, <1>5, RowsKeep

LEMMA RowsStepKeeps == ASSUME RowsInv, [WatchNext]_watchVars PROVE RowsInv'
<1>1. ASSUME NEW e \in Errors, NEW q \in Stores, Capture(e, q) PROVE RowsInv' BY <1>1, CaptureKeeps
<1>2. ASSUME NEW e \in Errors, NEW st \in {"IN_PROGRESS", "RESOLVED", "NEW"}, HandleByHand(e, st) PROVE RowsInv'
  BY <1>2, HandleByHandKeeps
<1>3. ASSUME NEW d \in Drainers, PopEvents(d) \/ ReadIssues(d) \/ Ingest(d) \/ BreakDrain(d) \/ RestartProcess(d)
      PROVE  RowsInv'
  BY <1>3, PopEventsKeeps, ReadIssuesKeeps, IngestKeeps, BreakDrainKeeps, RestartProcessKeeps
<1>4. CASE SendAlerts \/ RecordAlerts \/ BreakAlerts \/ Purge \/ TimePasses
  BY <1>4, SendAlertsKeeps, RecordAlertsKeeps, BreakAlertsKeeps, PurgeKeeps, TimePassesKeeps
<1>5. CASE UNCHANGED watchVars BY <1>5, RowsStand
<1> QED BY <1>1, <1>2, <1>3, <1>4, <1>5 DEF WatchNext
-----------------------------------------------------------------------------
(* The emails: what the rows and the task remember of those that left.     *)

News  == [at : Nat, of : SUBSET Errors, opened : [Errors -> Nat]]
Peak  == [at : Nat, of : SUBSET Errors]

\* The task has sent and not committed yet.
Sending   == drain["task"].at = "sent"
Telling(e) == Sending /\ e \in drain["task"].tell
Peaking(e) == Sending /\ e \in drain["task"].peaks
LatestMail == IF Sending THEN drain["task"].when ELSE watchHour

MailKinds ==
    /\ newsSent \in Seq(News) /\ peaksSent \in Seq(Peak)
    /\ \A i \in DOMAIN newsSent : newsSent[i].at <= LatestMail /\ \A e \in Errors : newsSent[i].opened[e] <= opened[e]
    /\ \A i \in DOMAIN peaksSent : peaksSent[i].at <= LatestMail

\* How often it was told; it will be once more if nobody was told of it as it is.
TimesTold(e) == Cardinality({i \in DOMAIN newsSent : e \in newsSent[i].of})
Untold(e)    == IF Exists(e) /\ issue[e].alertedAt = Never /\ ~Telling(e) THEN 1 ELSE 0
ToldInTurn   == \A e \in Errors : TimesTold(e) + Untold(e) <= opened[e] + fell

\* An error told of, and as it was then, remembers when.
Remembered(m, e) ==
    opened[e] = m.opened[e] /\ Exists(e) =>
        issue[e].alertedAt >= m.at \/ (Telling(e) /\ drain["task"].when >= m.at)
RowsRemember == fell = 0 => \A i \in DOMAIN newsSent : \A e \in newsSent[i].of : Remembered(newsSent[i], e)

\* So does one whose peak was told of, as long as it is not time to tell of another.
PeakRemembered(m, e) ==
    \/ watchHour - m.at >= Realert
    \/ /\ Exists(e) /\ issue[e].lastSeen >= m.at - SpikeSpan
       /\ issue[e].peakAt >= m.at \/ (Peaking(e) /\ drain["task"].when >= m.at)
PeaksRemember ==
    fell = 0 /\ ~crossed => \A i \in DOMAIN peaksSent : \A e \in peaksSent[i].of : PeakRemembered(peaksSent[i], e)

MailsInv == MailKinds /\ ToldInTurn /\ RowsRemember /\ CooldownKept /\ PeaksRemember /\ PeaksSpaced

\* What a step other than the task's may do to a row, the emails being what
\* they were: purge it, write it, or open it.
Follows(e) ==
    \/ issue'[e] = NoIssue /\ opened'[e] = opened[e] /\ (issue[e] = NoIssue \/ issue[e].lastSeen < watchHour - Retention)
    \/ issue[e] = NoIssue /\ issue'[e] # NoIssue /\ opened'[e] = opened[e] + 1
    \/ /\ issue[e] # NoIssue /\ issue'[e] # NoIssue
       /\ issue'[e].peakAt = issue[e].peakAt /\ (~crossed' => issue'[e].lastSeen >= issue[e].lastSeen)
       /\ \/ /\ opened'[e] = opened[e]
             /\ issue'[e].alertedAt = issue[e].alertedAt \/ (issue[e].alertedAt = Never /\ issue'[e].alertedAt = watchHour)
          \/ opened'[e] = opened[e] + 1 /\ issue[e].alertedAt # Never /\ issue'[e].alertedAt = Never

LEMMA MailsCount ==
    ASSUME MailKinds, NEW e
    PROVE  TimesTold(e) \in Nat /\ IsFiniteSet({i \in DOMAIN newsSent : e \in newsSent[i].of})
<1> DEFINE S == {i \in DOMAIN newsSent : e \in newsSent[i].of}
<1>1. DOMAIN newsSent = 1..Len(newsSent) /\ Len(newsSent) \in Nat BY DEF MailKinds
<1>2. S \subseteq 1..Len(newsSent) BY <1>1
<1>3. IsFiniteSet(1..Len(newsSent))
  <2>1. Len(newsSent) \in Nat BY <1>1, Zenon
  <2>2. PICK n \in Nat : n = Len(newsSent) BY <2>1, Zenon
  <2>3. 1 \in Int /\ n \in Int BY <2>2
  <2>4. IsFiniteSet(1..n) BY <2>3, FS_Interval
  <2> QED BY <2>2, <2>4
<1>4. IsFiniteSet(S) BY <1>2, <1>3, FS_Subset
<1>5. Cardinality(S) \in Nat BY <1>4, FS_CardinalityType
<1> QED BY <1>4, <1>5 DEF TimesTold

\* The values a mail and a row have.
LEMMA MailsAre ==
    ASSUME RowsInv, MailKinds
    PROVE  /\ watchHour \in Nat /\ fell \in Nat /\ crossed \in BOOLEAN
           /\ LatestMail \in Nat /\ LatestMail <= watchHour /\ (Sending => drain["task"].when = LatestMail)
           /\ \A i \in DOMAIN newsSent : newsSent[i] \in News
           /\ \A i \in DOMAIN peaksSent : peaksSent[i] \in Peak
           /\ \A e \in Errors : /\ opened[e] \in Nat
                                /\ issue[e] # NoIssue => /\ issue[e].alertedAt \in {Never} \cup 0..watchHour
                                                         /\ issue[e].peakAt \in {Never} \cup 0..watchHour
                                                         /\ issue[e].lastSeen \in 0..watchHour
<1>1. WatchKinds /\ Drains /\ watchHour \in Nat BY EventsAre DEF RowsInv
<1>2. fell \in Nat /\ crossed \in BOOLEAN BY <1>1 DEF WatchKinds
<1>3. LatestMail \in Nat /\ LatestMail <= watchHour /\ (Sending => drain["task"].when = LatestMail)
  BY <1>1 DEF Drains, LatestMail, Sending
<1>4. \A i \in DOMAIN newsSent : newsSent[i] \in News BY ElementIs DEF MailKinds
<1>5. \A i \in DOMAIN peaksSent : peaksSent[i] \in Peak BY ElementIs DEF MailKinds
<1>6. ASSUME NEW e \in Errors
      PROVE  /\ opened[e] \in Nat
             /\ issue[e] # NoIssue => /\ issue[e].alertedAt \in {Never} \cup 0..watchHour
                                      /\ issue[e].peakAt \in {Never} \cup 0..watchHour
                                      /\ issue[e].lastSeen \in 0..watchHour
  <2>1. issue[e] # NoIssue => issue[e] \in RowAt(watchHour) BY <1>1 DEF WatchKinds
  <2>2. opened[e] \in Nat BY <1>1 DEF WatchKinds
  <2> QED BY <2>1, <2>2 DEF RowAt
<1> QED BY <1>1, <1>2, <1>3, <1>4, <1>5, <1>6

\* A row that is old enough to be purged has no peak to be spared.
LEMMA LongAgo ==
    ASSUME NEW a \in Nat, NEW l \in Nat, NEW w \in Nat, NEW v \in Nat, v >= w,
           NEW s \in Nat, NEW p \in Nat, NEW r \in Nat, r >= s + p, l >= a - s, l < w - r
    PROVE  v - a >= p
OBVIOUS

\* A step other than the task's.
LEMMA MailsKeep ==
    ASSUME RowsInv, MailsInv, RowsInv', UNCHANGED <<newsSent, peaksSent>>,
           watchHour' >= watchHour, fell' >= fell, crossed => crossed',
           Sending' <=> Sending, Sending => drain'["task"] = drain["task"], \A e \in Errors : Follows(e)
    PROVE  MailsInv'
<1>1. /\ watchHour \in Nat /\ fell \in Nat /\ crossed \in BOOLEAN
      /\ LatestMail \in Nat /\ LatestMail <= watchHour /\ (Sending => drain["task"].when = LatestMail)
      /\ \A i \in DOMAIN newsSent : newsSent[i] \in News
      /\ \A i \in DOMAIN peaksSent : peaksSent[i] \in Peak
      /\ \A e \in Errors : /\ opened[e] \in Nat
                           /\ issue[e] # NoIssue => /\ issue[e].alertedAt \in {Never} \cup 0..watchHour
                                                    /\ issue[e].peakAt \in {Never} \cup 0..watchHour
                                                    /\ issue[e].lastSeen \in 0..watchHour
  BY MailsAre DEF MailsInv
<1>2. /\ watchHour' \in Nat /\ fell' \in Nat /\ crossed' \in BOOLEAN
      /\ \A e \in Errors : opened'[e] \in Nat
      /\ \A e \in Errors : issue'[e] # NoIssue => issue'[e] \in RowAt(watchHour')
  <2>1. WatchKinds' BY DEF RowsInv
  <2>2. watchHour' \in Nat BY <1>1, <2>1, WatchAssumption DEF WatchKinds
  <2> QED BY <2>1, <2>2 DEF WatchKinds
<1>3. \A e \in Errors : issue'[e] # NoIssue => issue'[e].lastSeen \in Nat BY <1>2 DEF RowAt
<1>4. \A e \in Errors : opened'[e] >= opened[e] BY <1>1 DEF Follows
<1>5. \A e : (Telling(e)' <=> Telling(e)) /\ (Peaking(e)' <=> Peaking(e)) BY DEF Telling, Peaking, Sending
<1>6. MailKinds'
  <2>1. LatestMail' >= LatestMail /\ LatestMail' \in Nat
    <3>1. CASE Sending BY <1>1, <3>1 DEF LatestMail
    <3>2. CASE ~Sending BY <1>1, <1>2, <3>2 DEF LatestMail
    <3> QED BY <3>1, <3>2
  <2>2. \A i \in DOMAIN newsSent : /\ newsSent[i].at \in Nat /\ newsSent[i].at <= LatestMail
                                   /\ \A e \in Errors : newsSent[i].opened[e] \in Nat /\ newsSent[i].opened[e] <= opened[e]
    BY <1>1 DEF MailsInv, MailKinds, News
  <2>3. \A i \in DOMAIN peaksSent : peaksSent[i].at \in Nat /\ peaksSent[i].at <= LatestMail BY <1>1 DEF MailsInv, MailKinds, Peak
  <2>4. \A i \in DOMAIN newsSent : newsSent[i].at <= LatestMail' BY <1>1, <2>1, <2>2
  <2>5. \A i \in DOMAIN newsSent : \A e \in Errors : newsSent[i].opened[e] <= opened'[e] BY <1>1, <1>2, <1>4, <2>2
  <2>6. \A i \in DOMAIN peaksSent : peaksSent[i].at <= LatestMail' BY <1>1, <2>1, <2>3
  <2>7. newsSent \in Seq(News) /\ peaksSent \in Seq(Peak) BY DEF MailsInv, MailKinds
  <2> QED BY <2>4, <2>5, <2>6, <2>7 DEF MailKinds
<1>7. ToldInTurn'
  <2> SUFFICES ASSUME NEW e \in Errors PROVE TimesTold(e)' + Untold(e)' <= opened'[e] + fell' BY DEF ToldInTurn
  <2>1. TimesTold(e)' = TimesTold(e) /\ TimesTold(e) \in Nat
    <3>1. TimesTold(e)' = TimesTold(e) BY DEF TimesTold
    <3> QED BY <3>1, MailsCount DEF MailsInv
  <2>2. TimesTold(e) + Untold(e) <= opened[e] + fell BY DEF MailsInv, ToldInTurn
  <2>3. Untold(e) \in 0..1 /\ Untold(e)' \in 0..1 BY DEF Untold
  <2>4. Untold(e)' <= Untold(e) \/ opened'[e] = opened[e] + 1
    <3>1. CASE issue'[e] = NoIssue
      <4>1. Untold(e)' = 0 BY <3>1 DEF Untold, Exists
      <4> QED BY <2>3, <4>1
    <3>2. CASE issue[e] = NoIssue /\ issue'[e] # NoIssue /\ opened'[e] = opened[e] + 1 BY <3>2
    <3>3. CASE issue[e] # NoIssue /\ issue'[e] # NoIssue /\ issue'[e].alertedAt = issue[e].alertedAt
      <4>1. Untold(e)' = Untold(e) BY <1>5, <3>3 DEF Untold, Exists
      <4> QED BY <2>3, <4>1
    <3>4. CASE issue[e] # NoIssue /\ issue'[e] # NoIssue /\ issue'[e].alertedAt = watchHour
      <4>1. Untold(e)' = 0 BY <1>1, <3>4 DEF Untold, Exists, Never
      <4> QED BY <2>3, <4>1
    <3> QED BY <3>1, <3>2, <3>3, <3>4 DEF Follows
  <2>5. opened[e] \in Nat /\ opened'[e] \in Nat /\ opened'[e] >= opened[e] BY <1>1, <1>2, <1>4
  <2> QED BY <1>1, <1>2, <2>1, <2>2, <2>3, <2>4, <2>5
<1>8. RowsRemember'
  <2> SUFFICES ASSUME fell' = 0, NEW i \in DOMAIN newsSent, NEW e \in newsSent[i].of,
                      opened'[e] = newsSent[i].opened[e], issue'[e] # NoIssue
               PROVE  issue'[e].alertedAt >= newsSent[i].at \/ (Telling(e)' /\ drain'["task"].when >= newsSent[i].at)
    BY DEF RowsRemember, Remembered, Exists
  <2>1. fell = 0 BY <1>1, <1>2
  <2>2. e \in Errors /\ newsSent[i].at \in Nat /\ newsSent[i].opened[e] \in Nat /\ newsSent[i].opened[e] <= opened[e]
        /\ newsSent[i].at <= watchHour
    BY <1>1 DEF MailsInv, MailKinds, News
  <2>3. opened[e] = newsSent[i].opened[e] /\ opened'[e] = opened[e] BY <1>1, <1>2, <1>4, <2>2
  <2>4. issue[e] # NoIssue /\ (issue'[e].alertedAt = issue[e].alertedAt \/ issue'[e].alertedAt = watchHour)
    BY <1>1, <2>2, <2>3 DEF Follows
  <2>5. Remembered(newsSent[i], e) BY <2>1 DEF MailsInv, RowsRemember
  <2>6. issue[e].alertedAt >= newsSent[i].at \/ (Telling(e) /\ drain["task"].when >= newsSent[i].at)
    BY <2>3, <2>4, <2>5 DEF Remembered, Exists
  <2>7. Telling(e) => drain'["task"] = drain["task"] BY DEF Telling
  <2> QED BY <1>1, <1>5, <2>2, <2>4, <2>6, <2>7
<1>9. CooldownKept'
  <2> SUFFICES ASSUME NEW i \in DOMAIN newsSent, NEW j \in DOMAIN newsSent, i < j,
                      newsSent[j].at - newsSent[i].at < Cooldown, fell' = 0, NEW e \in newsSent[i].of
               PROVE  opened'[e] > newsSent[i].opened[e] \/ issue'[e] = NoIssue
    BY DEF CooldownKept, Exists
  <2>1. fell = 0 BY <1>1, <1>2
  <2>2. opened[e] > newsSent[i].opened[e] \/ issue[e] = NoIssue BY <2>1 DEF MailsInv, CooldownKept, Exists
  <2>3. e \in Errors /\ newsSent[i].opened[e] \in Nat /\ newsSent[i].opened[e] <= opened[e]
    BY <1>1 DEF MailsInv, MailKinds, News
  <2>4. opened[e] \in Nat /\ opened'[e] \in Nat /\ opened'[e] >= opened[e] BY <1>1, <1>2, <1>4, <2>3
  <2>5. issue[e] = NoIssue => issue'[e] = NoIssue \/ opened'[e] = opened[e] + 1 BY <2>3 DEF Follows
  <2> QED BY <2>2, <2>3, <2>4, <2>5
<1>10. PeaksRemember'
  <2> SUFFICES ASSUME fell' = 0, ~crossed', NEW i \in DOMAIN peaksSent, NEW e \in peaksSent[i].of
               PROVE  PeakRemembered(peaksSent[i], e)'
    BY DEF PeaksRemember, PeakRemembered
  <2>1. fell = 0 /\ ~crossed BY <1>1, <1>2
  <2>2. PeakRemembered(peaksSent[i], e) BY <2>1 DEF MailsInv, PeaksRemember
  <2>3. e \in Errors /\ peaksSent[i].at \in Nat BY <1>1 DEF Peak
  <2>4. Realert \in Nat /\ SpikeSpan \in Nat /\ Retention \in Nat /\ Retention >= SpikeSpan + Realert BY WatchAssumption
  <2> DEFINE a == peaksSent[i].at
  <2>5. CASE watchHour - a >= Realert
    <3>1. watchHour' - a >= Realert BY <1>1, <1>2, <2>3, <2>4, <2>5
    <3> QED BY <3>1 DEF PeakRemembered
  <2>6. CASE /\ issue[e] # NoIssue /\ issue[e].lastSeen >= a - SpikeSpan
             /\ issue[e].peakAt >= a \/ (Peaking(e) /\ drain["task"].when >= a)
    <3>1. CASE issue'[e] = NoIssue
      <4>1. issue[e].lastSeen < watchHour - Retention BY <2>3, <2>6, <3>1 DEF Follows
      <4>2. issue[e].lastSeen \in Nat BY <1>1, <2>3, <2>6
      <4>5. issue[e].lastSeen >= a - SpikeSpan BY <2>6
      <4>6. watchHour \in Nat /\ watchHour' \in Nat BY <1>1, <1>2
      <4>3. a \in Nat BY <2>3
      <4> HIDE DEF a
      <4>4. watchHour' - a >= Realert BY <2>4, <4>1, <4>2, <4>3, <4>5, <4>6, LongAgo
      <4> QED BY <4>4 DEF PeakRemembered, a
    <3>2. CASE issue'[e] # NoIssue
      <4>1. issue'[e].peakAt = issue[e].peakAt /\ issue'[e].lastSeen >= issue[e].lastSeen
        BY <2>3, <2>6, <3>2 DEF Follows
      <4>2. issue[e].lastSeen \in Nat /\ issue'[e].lastSeen \in Nat BY <1>1, <1>3, <2>3, <2>6, <3>2
      <4>3. issue'[e].lastSeen >= a - SpikeSpan BY <2>3, <2>4, <2>6, <4>1, <4>2
      <4>4. Peaking(e) => drain'["task"] = drain["task"] BY DEF Peaking
      <4>5. issue'[e].peakAt >= a \/ (Peaking(e)' /\ drain'["task"].when >= a) BY <1>5, <2>6, <4>1, <4>4
      <4> QED BY <3>2, <4>3, <4>5 DEF PeakRemembered, Exists
    <3> QED BY <3>1, <3>2
  <2> QED BY <2>2, <2>5, <2>6 DEF PeakRemembered, Exists
<1>11. PeaksSpaced' BY <1>1, <1>2 DEF MailsInv, PeaksSpaced
<1> QED BY <1>6, <1>7, <1>8, <1>9, <1>10, <1>11 DEF MailsInv

\* A step that writes no row.
LEMMA MailsStay ==
    ASSUME RowsInv, MailsInv, RowsInv', UNCHANGED <<newsSent, peaksSent, issue, opened, crossed>>,
           watchHour' >= watchHour, fell' >= fell, Sending' <=> Sending, Sending => drain'["task"] = drain["task"]
    PROVE  MailsInv'
<1>1. ASSUME NEW e \in Errors PROVE Follows(e)
  <2>1. CASE issue[e] = NoIssue BY <2>1 DEF Follows
  <2>2. CASE issue[e] # NoIssue
    <3>1. issue[e].lastSeen \in Nat BY <2>2, MailsAre DEF MailsInv
    <3> QED BY <2>2, <3>1 DEF Follows
  <2> QED BY <2>1, <2>2
<1> QED BY <1>1, MailsKeep

\* What the task has sent does not depend on a drain that grouped events.
LEMMA DrainGoesOn ==
    ASSUME Drains, NEW d \in Drainers, NEW new, drain' = [drain EXCEPT ![d] = new],
           drain[d].at # "sent", new.at # "sent"
    PROVE  (Sending' <=> Sending) /\ (Sending => drain'["task"] = drain["task"])
<1>1. drain'[d] = new /\ \A f \in Drainers \ {d} : drain'[f] = drain[f] BY OtherDrain
<1>2. "task" \in Drainers BY DEF Drainers
<1> QED BY <1>1, <1>2 DEF Sending

LEMMA CaptureTells ==
    ASSUME RowsInv, MailsInv, RowsInv', NEW e \in Errors, NEW q \in Stores, Capture(e, q)
    PROVE  MailsInv'
<1>1. watchHour \in Nat /\ fell \in Nat BY MailsAre DEF MailsInv
<1>2. UNCHANGED <<newsSent, peaksSent, issue, opened, crossed, drain, watchHour, fell>> BY DEF Capture, Unheard
<1>3. Sending' <=> Sending BY <1>2 DEF Sending
<1> QED BY <1>1, <1>2, <1>3, MailsStay

LEMMA QuietStepsTell ==
    ASSUME RowsInv, MailsInv, RowsInv', NEW d \in Drainers,
           TimePasses \/ PopEvents(d) \/ ReadIssues(d) \/ BreakDrain(d) \/ RestartProcess(d)
    PROVE  MailsInv'
<1>1. watchHour \in Nat /\ fell \in Nat /\ Drains BY MailsAre DEF MailsInv, RowsInv
<1>3. CASE TimePasses
  <2>1. UNCHANGED <<newsSent, peaksSent, issue, opened, crossed, drain, fell>> /\ watchHour' = watchHour + 1
    BY <1>3 DEF TimePasses, Unheard
  <2>2. Sending' <=> Sending BY <2>1 DEF Sending
  <2> QED BY <1>1, <2>1, <2>2, MailsStay
<1>4. CASE PopEvents(d)
  <2>1. UNCHANGED <<newsSent, peaksSent, issue, opened, crossed, watchHour, fell>> /\ WatchIdle(d) BY <1>4 DEF PopEvents, Unheard
  <2>2. PICK new : drain' = [drain EXCEPT ![d] = new] /\ new.at # "sent"
    <3>1. PICK redis \in BOOLEAN :
            LET s == queue[d] \o (IF redis THEN queue["redis"] ELSE <<>>)
            IN  drain' = [drain EXCEPT ![d] =
                    IF s # <<>> THEN [at |-> "popped", events |-> s]
                    ELSE IF d = "task" THEN [at |-> "alerts"] ELSE NoDrain]
      BY <1>4 DEF PopEvents
    <3> DEFINE s   == queue[d] \o (IF redis THEN queue["redis"] ELSE <<>>)
               new == IF s # <<>> THEN [at |-> "popped", events |-> s]
                      ELSE IF d = "task" THEN [at |-> "alerts"] ELSE NoDrain
    <3>2. drain' = [drain EXCEPT ![d] = new] BY <3>1
    <3>3. new.at # "sent"
      <4>1. CASE s # <<>> BY <4>1
      <4>2. CASE s = <<>> /\ d = "task" BY <4>2
      <4>3. CASE s = <<>> /\ d # "task" BY <4>3 DEF NoDrain
      <4> QED BY <4>1, <4>2, <4>3
    <3> HIDE DEF new
    <3> QED BY <3>2, <3>3
  <2>3. drain[d].at # "sent" BY <2>1 DEF WatchIdle, NoDrain
  <2>4. (Sending' <=> Sending) /\ (Sending => drain'["task"] = drain["task"]) BY <1>1, <2>2, <2>3, DrainGoesOn
  <2> QED BY <1>1, <2>1, <2>4, MailsStay
<1>5. CASE ReadIssues(d)
  <2> DEFINE new == [at |-> "read", events |-> drain[d].events, rows |-> [x \in Touched(d) |-> issue[x]]]
  <2>1. UNCHANGED <<newsSent, peaksSent, issue, opened, crossed, watchHour, fell>> /\ drain[d].at = "popped"
    BY <1>5 DEF ReadIssues, Unheard
  <2>2. drain' = [drain EXCEPT ![d] = new] /\ new.at # "sent" BY <1>1, <1>5 DEF ReadIssues, Drains
  <2> HIDE DEF new
  <2>3. (Sending' <=> Sending) /\ (Sending => drain'["task"] = drain["task"]) BY <1>1, <2>1, <2>2, DrainGoesOn
  <2> QED BY <1>1, <2>1, <2>3, MailsStay
<1>6. CASE BreakDrain(d)
  <2>1. /\ UNCHANGED <<newsSent, peaksSent, issue, opened, crossed, watchHour>> /\ fell' = fell + 1
        /\ drain[d].at \in {"popped", "read"} /\ drain' = [drain EXCEPT ![d] = NoDrain] /\ NoDrain.at # "sent"
    BY <1>6 DEF BreakDrain, Falls, Unheard, NoDrain
  <2>2. (Sending' <=> Sending) /\ (Sending => drain'["task"] = drain["task"]) BY <1>1, <2>1, DrainGoesOn
  <2> QED BY <1>1, <2>1, <2>2, MailsStay
<1>7. CASE RestartProcess(d)
  <2>1. UNCHANGED <<newsSent, peaksSent, issue, opened, crossed, drain, watchHour>> /\ fell' = fell + 1
    BY <1>7 DEF RestartProcess, Unheard
  <2>2. Sending' <=> Sending BY <2>1 DEF Sending
  <2> QED BY <1>1, <2>1, <2>2, MailsStay
<1> QED BY <1>3, <1>4, <1>5, <1>6, <1>7

LEMMA IngestTells ==
    ASSUME RowsInv, MailsInv, RowsInv', NEW d \in Drainers, Ingest(d)
    PROVE  MailsInv'
<1> DEFINE new == IF d = "task" THEN [at |-> "alerts"] ELSE NoDrain
<1>1. /\ drain[d].at = "read" /\ drain' = [drain EXCEPT ![d] = new]
      /\ crossed => crossed'
      /\ UNCHANGED <<newsSent, peaksSent, watchHour, fell>>
  BY DEF Ingest, Reading, Unheard
<1>2. /\ watchHour \in Nat /\ fell \in Nat /\ crossed \in BOOLEAN /\ crossed' \in BOOLEAN /\ Drains
      /\ \A e \in Errors : issue[e] # NoIssue => issue[e].lastSeen \in Nat
  <2>1. /\ watchHour \in Nat /\ fell \in Nat /\ crossed \in BOOLEAN
        /\ \A e \in Errors : issue[e] # NoIssue => issue[e].lastSeen \in 0..watchHour
    BY MailsAre DEF MailsInv
  <2>2. crossed' \in BOOLEAN BY DEF RowsInv, WatchKinds
  <2> QED BY <2>1, <2>2 DEF RowsInv
<1>3. new.at # "sent" BY DEF NoDrain
<1> HIDE DEF new
<1>4. (Sending' <=> Sending) /\ (Sending => drain'["task"] = drain["task"]) BY <1>1, <1>2, <1>3, DrainGoesOn
<1>5. ASSUME NEW e \in Errors PROVE Follows(e)
  <2> DEFINE n == OfError(drain[d].events, e)
  <2>1. /\ n \in Nat
        /\ n = 0 => issue'[e] = issue[e] /\ opened'[e] = opened[e]
        /\ n > 0 => issue'[e] \in RowAt(watchHour)
        /\ n > 0 /\ issue[e] = NoIssue => opened'[e] = opened[e] + 1
        /\ n > 0 /\ issue[e] # NoIssue =>
              /\ issue'[e].peakAt = issue[e].peakAt
              /\ \/ issue'[e].alertedAt = Never /\ issue[e].alertedAt # Never /\ opened'[e] = opened[e] + 1
                 \/ issue'[e].alertedAt = issue[e].alertedAt /\ opened'[e] = opened[e]
              /\ ~crossed => issue'[e].lastSeen >= issue[e].lastSeen
    BY IngestIs
  <2> HIDE DEF n
  <2>2. CASE n = 0
    <3>1. CASE issue[e] = NoIssue BY <2>1, <2>2, <3>1 DEF Follows
    <3>2. CASE issue[e] # NoIssue
      <4>1. issue[e].lastSeen >= issue[e].lastSeen BY <1>2, <3>2
      <4> QED BY <2>1, <2>2, <3>2, <4>1 DEF Follows
    <3> QED BY <3>1, <3>2
  <2>3. CASE n > 0
    <3>1. issue'[e] # NoIssue BY <2>1, <2>3, RowIsThere
    <3>2. CASE issue[e] = NoIssue BY <2>1, <2>3, <3>1, <3>2 DEF Follows
    <3>3. CASE issue[e] # NoIssue BY <1>1, <2>1, <2>3, <3>1, <3>3 DEF Follows
    <3> QED BY <3>2, <3>3
  <2> QED BY <2>1, <2>2, <2>3
<1> QED BY <1>1, <1>2, <1>4, <1>5, MailsKeep

LEMMA HandleTells ==
    ASSUME RowsInv, MailsInv, RowsInv', NEW y \in Errors, NEW st \in {"IN_PROGRESS", "RESOLVED", "NEW"}, HandleByHand(y, st)
    PROVE  MailsInv'
<1>1. /\ crossed => crossed'
      /\ UNCHANGED <<newsSent, peaksSent, drain, watchHour, opened, fell>>
  BY DEF HandleByHand, Unheard
<1>2. /\ watchHour \in Nat /\ fell \in Nat /\ WatchKinds
      /\ \A e \in Errors : issue[e] # NoIssue => issue[e].lastSeen \in Nat
  BY MailsAre DEF MailsInv, RowsInv
<1>3. /\ \A x \in Errors \ {y} : issue'[x] = issue[x]
      /\ issue[y] \in RowAt(watchHour) /\ issue'[y] \in RowAt(watchHour)
      /\ issue'[y].lastSeen = issue[y].lastSeen /\ issue'[y].peakAt = issue[y].peakAt
      /\ issue'[y].alertedAt = (IF issue[y].alertedAt = Never THEN watchHour ELSE issue[y].alertedAt)
  BY <1>2, HandleIs
<1>4. issue[y] # NoIssue /\ issue'[y] # NoIssue BY <1>3, RowIsThere
<1>5. ASSUME NEW e \in Errors PROVE Follows(e)
  <2>1. CASE issue[e] = NoIssue
    <3>1. issue'[e] = NoIssue BY <1>3, <1>4, <2>1
    <3> QED BY <1>1, <2>1, <3>1 DEF Follows
  <2>2. CASE issue[e] # NoIssue
    <3>1. issue[e].lastSeen >= issue[e].lastSeen BY <1>2, <2>2
    <3>2. /\ issue'[e] # NoIssue /\ issue'[e].peakAt = issue[e].peakAt /\ issue'[e].lastSeen = issue[e].lastSeen
          /\ issue'[e].alertedAt = issue[e].alertedAt \/ (issue[e].alertedAt = Never /\ issue'[e].alertedAt = watchHour)
      BY <1>3, <1>4, <2>2
    <3> QED BY <1>1, <2>2, <3>1, <3>2 DEF Follows
  <2> QED BY <2>1, <2>2
<1>6. Sending' <=> Sending BY <1>1 DEF Sending
<1> QED BY <1>1, <1>2, <1>5, <1>6, MailsKeep

LEMMA PurgeTells ==
    ASSUME RowsInv, MailsInv, RowsInv', Purge
    PROVE  MailsInv'
<1>1. UNCHANGED <<newsSent, peaksSent, drain, watchHour, opened, crossed, fell>> BY DEF Purge, Unheard
<1>2. /\ watchHour \in Nat /\ fell \in Nat
      /\ \A e \in Errors : issue[e] # NoIssue => issue[e].lastSeen \in Nat
  BY MailsAre DEF MailsInv
<1>3. ASSUME NEW e \in Errors
      PROVE  \/ issue'[e] = NoIssue /\ issue[e].lastSeen < watchHour - Retention
             \/ issue'[e] = issue[e]
  BY DEF Purge
<1>4. ASSUME NEW e \in Errors PROVE Follows(e)
  <2>1. CASE issue'[e] = NoIssue /\ issue[e].lastSeen < watchHour - Retention BY <1>1, <2>1 DEF Follows
  <2>2. CASE issue'[e] = issue[e] /\ issue[e] = NoIssue BY <1>1, <2>2 DEF Follows
  <2>3. CASE issue'[e] = issue[e] /\ issue[e] # NoIssue
    <3>1. issue[e].lastSeen >= issue[e].lastSeen BY <1>2, <2>3
    <3> QED BY <1>1, <2>3, <3>1 DEF Follows
  <2> QED BY <1>3, <2>1, <2>2, <2>3
<1>5. Sending' <=> Sending BY <1>1 DEF Sending
<1> QED BY <1>1, <1>2, <1>4, <1>5, MailsKeep
-----------------------------------------------------------------------------
(* The emails leave, and their times are committed.                        *)

LEMMA OneMore ==
    ASSUME NEW A, NEW s \in Seq(A), NEW m \in A
    PROVE  /\ Append(s, m) \in Seq(A) /\ DOMAIN Append(s, m) = 1..Len(s) + 1 /\ Len(s) \in Nat /\ DOMAIN s = 1..Len(s)
           /\ \A i \in DOMAIN Append(s, m) :
                 (i \in DOMAIN s /\ Append(s, m)[i] = s[i]) \/ (i = Len(s) + 1 /\ Append(s, m)[i] = m)
OBVIOUS

\* What the rows remember as the latest alert is as late as that of each.
LEMMA LastAlertIs ==
    ASSUME RowsInv, MailKinds
    PROVE  LastAlert \in {Never} \cup 0..watchHour /\ \A e \in Errors : issue[e] # NoIssue => issue[e].alertedAt <= LastAlert
<1> DEFINE S == {Never} \cup {issue[e].alertedAt : e \in {f \in Errors : Exists(f)}}
<1>1. watchHour \in Nat /\ \A e \in Errors : issue[e] # NoIssue => issue[e].alertedAt \in {Never} \cup 0..watchHour BY MailsAre
<1>2. S \in SUBSET ({Never} \cup 0..watchHour) /\ S # {} BY <1>1 DEF Exists
<1>3. LatestOf(S) \in S /\ \A u \in S : u <= LatestOf(S) BY <1>1, <1>2, LatestIs
<1>4. LastAlert = LatestOf(S) BY DEF LastAlert
<1>5. \A e \in Errors : issue[e] # NoIssue => issue[e].alertedAt \in S BY DEF Exists
<1> HIDE DEF S
<1> QED BY <1>2, <1>3, <1>4, <1>5

\* The emails of new errors, one more if there is somebody to tell of some.
LEMMA OneMoreTold ==
    ASSUME RowsInv, MailKinds, NEW tell \in SUBSET Errors,
           newsSent' = IF tell = {} THEN newsSent ELSE Append(newsSent, [at |-> watchHour, of |-> tell, opened |-> opened])
    PROVE  /\ newsSent' \in Seq(News)
           /\ \A i \in DOMAIN newsSent' :
                 \/ i \in DOMAIN newsSent /\ newsSent'[i] = newsSent[i]
                 \/ /\ newsSent'[i] = [at |-> watchHour, of |-> tell, opened |-> opened] /\ tell # {}
                    /\ \A j \in DOMAIN newsSent' : j <= i
           /\ \A e \in Errors : TimesTold(e)' = TimesTold(e) + (IF e \in tell THEN 1 ELSE 0) /\ TimesTold(e) \in Nat
<1> DEFINE m == [at |-> watchHour, of |-> tell, opened |-> opened]
<1>1. m \in News /\ m.of = tell
  <2>1. watchHour \in Nat BY MailsAre
  <2>2. opened \in [Errors -> Nat] BY DEF RowsInv, WatchKinds
  <2> QED BY <2>1, <2>2 DEF News
<1>2. newsSent \in Seq(News) BY DEF MailKinds
<1>3. newsSent' = IF tell = {} THEN newsSent ELSE Append(newsSent, m) OBVIOUS
<1> HIDE DEF m
<1>4. CASE tell = {}
  <2>1. newsSent' = newsSent BY <1>3, <1>4
  <2>2. ASSUME NEW e \in Errors PROVE TimesTold(e)' = TimesTold(e) /\ TimesTold(e) \in Nat
    <3>1. TimesTold(e)' = TimesTold(e) BY <2>1 DEF TimesTold
    <3> QED BY <3>1, MailsCount
  <2> QED BY <1>2, <1>4, <2>1, <2>2
<1>5. CASE tell # {}
  <2> DEFINE t == Append(newsSent, m)
  <2>1. newsSent' = t BY <1>3, <1>5
  <2>2. /\ t \in Seq(News) /\ DOMAIN t = 1..Len(newsSent) + 1 /\ Len(newsSent) \in Nat /\ DOMAIN newsSent = 1..Len(newsSent)
        /\ \A i \in DOMAIN t : (i \in DOMAIN newsSent /\ t[i] = newsSent[i]) \/ (i = Len(newsSent) + 1 /\ t[i] = m)
    BY <1>1, <1>2, OneMore
  <2> HIDE DEF t
  <2>3. ASSUME NEW e \in Errors PROVE TimesTold(e)' = TimesTold(e) + (IF e \in tell THEN 1 ELSE 0) /\ TimesTold(e) \in Nat
    <3> DEFINE S == {i \in DOMAIN newsSent : e \in newsSent[i].of}
               T == {i \in DOMAIN t : e \in t[i].of}
    <3>1. IsFiniteSet(S) /\ TimesTold(e) \in Nat /\ Cardinality(S) = TimesTold(e) BY MailsCount DEF TimesTold
    <3>2. TimesTold(e)' = Cardinality(T) BY <2>1 DEF TimesTold
    <3> HIDE DEF S, T
    <3>3. CASE e \in tell
      <4>1. T = S \cup {Len(newsSent) + 1} /\ Len(newsSent) + 1 \notin S
        <5>1. \A i \in DOMAIN newsSent : i \in DOMAIN t /\ t[i] = newsSent[i] /\ i # Len(newsSent) + 1 BY <2>2
        <5>2. Len(newsSent) + 1 \in DOMAIN t /\ t[Len(newsSent) + 1] = m BY <2>2
        <5> QED BY <1>1, <2>2, <3>3, <5>1, <5>2 DEF S, T
      <4>2. Cardinality(T) = Cardinality(S) + 1 BY <3>1, <4>1, FS_AddElement
      <4> QED BY <3>1, <3>2, <3>3, <4>2
    <3>4. CASE e \notin tell
      <4>1. T = S
        <5>1. \A i \in DOMAIN newsSent : i \in DOMAIN t /\ t[i] = newsSent[i] BY <2>2
        <5> QED BY <1>1, <2>2, <3>4, <5>1 DEF S, T
      <4> QED BY <3>1, <3>2, <3>4, <4>1
    <3> QED BY <3>3, <3>4
  <2>4. ASSUME NEW i \in DOMAIN t
        PROVE  (i \in DOMAIN newsSent /\ t[i] = newsSent[i]) \/ (t[i] = m /\ \A j \in DOMAIN t : j <= i)
    BY <2>2
  <2> QED BY <1>5, <2>1, <2>2, <2>3, <2>4 DEF m
<1> QED BY <1>4, <1>5

\* The emails of peaks, one more if there are some.
LEMMA OneMorePeak ==
    ASSUME RowsInv, MailKinds, NEW of \in SUBSET Errors,
           peaksSent' = IF of = {} THEN peaksSent ELSE Append(peaksSent, [at |-> watchHour, of |-> of])
    PROVE  /\ peaksSent' \in Seq(Peak)
           /\ \A i \in DOMAIN peaksSent' :
                 \/ i \in DOMAIN peaksSent /\ peaksSent'[i] = peaksSent[i]
                 \/ /\ peaksSent'[i] = [at |-> watchHour, of |-> of]
                    /\ \A j \in DOMAIN peaksSent' : j <= i
<1> DEFINE m == [at |-> watchHour, of |-> of]
<1>1. m \in Peak
  <2>1. watchHour \in Nat BY MailsAre
  <2> QED BY <2>1 DEF Peak
<1>2. peaksSent \in Seq(Peak) BY DEF MailKinds
<1>3. peaksSent' = IF of = {} THEN peaksSent ELSE Append(peaksSent, m) OBVIOUS
<1> HIDE DEF m
<1>4. CASE of = {} BY <1>2, <1>3, <1>4
<1>5. CASE of # {}
  <2> DEFINE t == Append(peaksSent, m)
  <2>1. peaksSent' = t BY <1>3, <1>5
  <2>2. /\ t \in Seq(Peak) /\ DOMAIN t = 1..Len(peaksSent) + 1 /\ Len(peaksSent) \in Nat /\ DOMAIN peaksSent = 1..Len(peaksSent)
        /\ \A i \in DOMAIN t : (i \in DOMAIN peaksSent /\ t[i] = peaksSent[i]) \/ (i = Len(peaksSent) + 1 /\ t[i] = m)
    BY <1>1, <1>2, OneMore
  <2> HIDE DEF t
  <2>3. ASSUME NEW i \in DOMAIN t
        PROVE  (i \in DOMAIN peaksSent /\ t[i] = peaksSent[i]) \/ (t[i] = m /\ \A j \in DOMAIN t : j <= i)
    BY <2>2
  <2> QED BY <2>1, <2>2, <2>3 DEF m
<1> QED BY <1>4, <1>5

LEMMA SendTells ==
    ASSUME RowsInv, MailsInv, SendAlerts
    PROVE  MailsInv'
<1> DEFINE tell == IF MayTell THEN NewsToTell ELSE {}
           of   == Peaks
           new  == [at |-> "sent", tell |-> tell, peaks |-> of, when |-> watchHour,
                    rows |-> [e \in tell \cup of |-> issue[e]]]
           m    == [at |-> watchHour, of |-> tell, opened |-> opened]
           p    == [at |-> watchHour, of |-> of]
<1>1. /\ drain["task"].at = "alerts" /\ drain' = [drain EXCEPT !["task"] = new]
      /\ newsSent' = (IF tell = {} THEN newsSent ELSE Append(newsSent, m))
      /\ peaksSent' = (IF of = {} THEN peaksSent ELSE Append(peaksSent, p))
      /\ UNCHANGED <<issue, seenAt, watchHour, opened, crossed, fell>>
  BY DEF SendAlerts
<1>2. Drains /\ MailKinds /\ "task" \in Drainers BY DEF RowsInv, MailsInv, Drainers
<1>3. drain'["task"] = new BY <1>1, <1>2, OtherDrain
<1>4. new.at = "sent" /\ new.tell = tell /\ new.peaks = of /\ new.when = watchHour OBVIOUS
<1>5. tell \subseteq Errors /\ of \subseteq Errors BY DEF NewsToTell, Peaks
<1>6. /\ watchHour \in Nat /\ fell \in Nat /\ crossed \in BOOLEAN
      /\ \A i \in DOMAIN newsSent : newsSent[i] \in News /\ newsSent[i].at <= watchHour
      /\ \A i \in DOMAIN peaksSent : peaksSent[i] \in Peak /\ peaksSent[i].at <= watchHour
      /\ \A e \in Errors : /\ opened[e] \in Nat
                           /\ issue[e] # NoIssue => /\ issue[e].alertedAt \in {Never} \cup 0..watchHour
                                                    /\ issue[e].peakAt \in {Never} \cup 0..watchHour
                                                    /\ issue[e].lastSeen \in 0..watchHour
  <2>1. LatestMail = watchHour BY <1>1 DEF LatestMail, Sending
  <2> QED BY <1>2, <2>1, MailsAre DEF MailKinds
<1>7. /\ newsSent' \in Seq(News)
      /\ \A i \in DOMAIN newsSent' :
            \/ i \in DOMAIN newsSent /\ newsSent'[i] = newsSent[i]
            \/ newsSent'[i] = m /\ tell # {} /\ \A j \in DOMAIN newsSent' : j <= i
      /\ \A e \in Errors : TimesTold(e)' = TimesTold(e) + (IF e \in tell THEN 1 ELSE 0) /\ TimesTold(e) \in Nat
  <2>1. PICK t \in SUBSET Errors : t = tell BY <1>5
  <2> HIDE DEF tell
  <2>2. newsSent' = (IF t = {} THEN newsSent ELSE Append(newsSent, [at |-> watchHour, of |-> t, opened |-> opened]))
    BY <1>1, <2>1
  <2> QED BY <1>2, <2>1, <2>2, OneMoreTold
<1>8. /\ peaksSent' \in Seq(Peak)
      /\ \A i \in DOMAIN peaksSent' :
            \/ i \in DOMAIN peaksSent /\ peaksSent'[i] = peaksSent[i]
            \/ peaksSent'[i] = p /\ \A j \in DOMAIN peaksSent' : j <= i
  <2>1. PICK t \in SUBSET Errors : t = of BY <1>5
  <2> HIDE DEF of
  <2>2. peaksSent' = (IF t = {} THEN peaksSent ELSE Append(peaksSent, [at |-> watchHour, of |-> t])) BY <1>1, <2>1
  <2> QED BY <1>2, <2>1, <2>2, OneMorePeak
<1>9. \A e \in tell : issue[e] # NoIssue /\ issue[e].alertedAt = Never BY DEF NewsToTell, Exists
<1>10. tell # {} => LastAlert = Never \/ watchHour - LastAlert >= Cooldown BY DEF MayTell
<1>11. ASSUME NEW e \in of
       PROVE  /\ issue[e] # NoIssue /\ (issue[e].peakAt = Never \/ watchHour - issue[e].peakAt >= Realert)
              /\ \E k \in DOMAIN seenAt[e] : seenAt[e][k] >= watchHour - SpikeSpan
  <2>1. Exists(e) /\ InLastHour(e) >= SpikeAt /\ (issue[e].peakAt = Never \/ watchHour - issue[e].peakAt >= Realert) BY DEF Peaks
  <2>2. InLastHour(e) # 0 BY <2>1, WatchAssumption
  <2>3. {i \in DOMAIN seenAt[e] : seenAt[e][i] >= watchHour - SpikeSpan} # {} BY <2>2, FS_EmptySet DEF InLastHour
  <2> QED BY <2>1, <2>3 DEF Exists
<1> HIDE DEF tell, of, new
<1>12. Sending' /\ (\A e : Telling(e)' <=> e \in tell) /\ (\A e : Peaking(e)' <=> e \in of) /\ drain'["task"].when = watchHour
       /\ ~Sending
  BY <1>1, <1>3, <1>4 DEF Sending, Telling, Peaking
<1>13. MailKinds'
  <2>1. LatestMail' = watchHour BY <1>1, <1>12 DEF LatestMail
  <2>2. ASSUME NEW i \in DOMAIN newsSent' PROVE newsSent'[i].at <= watchHour /\ \A e \in Errors : newsSent'[i].opened[e] <= opened[e]
    <3>1. CASE i \in DOMAIN newsSent /\ newsSent'[i] = newsSent[i] BY <1>2, <1>6, <3>1 DEF MailKinds
    <3>2. CASE newsSent'[i] = m BY <1>6, <3>2
    <3> QED BY <1>7, <3>1, <3>2
  <2>3. ASSUME NEW i \in DOMAIN peaksSent' PROVE peaksSent'[i].at <= watchHour BY <1>6, <1>8
  <2> QED BY <1>1, <1>7, <1>8, <2>1, <2>2, <2>3 DEF MailKinds
<1>14. ToldInTurn'
  <2> SUFFICES ASSUME NEW e \in Errors PROVE TimesTold(e)' + Untold(e)' <= opened[e] + fell BY <1>1 DEF ToldInTurn
  <2>1. TimesTold(e) + Untold(e) <= opened[e] + fell BY DEF MailsInv, ToldInTurn
  <2>2. CASE e \in tell
    <3>1. Untold(e) = 1 BY <1>9, <1>12, <2>2 DEF Untold, Telling, Exists
    <3>2. Untold(e)' = 0 BY <1>12, <2>2 DEF Untold
    <3>3. TimesTold(e)' = TimesTold(e) + 1 /\ TimesTold(e) \in Nat BY <1>7, <2>2
    <3> QED BY <1>6, <2>1, <3>1, <3>2, <3>3
  <2>3. CASE e \notin tell
    <3>1. Untold(e)' = Untold(e) BY <1>1, <1>12, <2>3 DEF Untold, Telling, Exists
    <3>2. TimesTold(e)' = TimesTold(e) BY <1>7, <2>3
    <3> QED BY <2>1, <3>1, <3>2
  <2> QED BY <2>2, <2>3
<1>15. RowsRemember'
  <2> SUFFICES ASSUME fell = 0, NEW i \in DOMAIN newsSent', NEW e \in newsSent'[i].of,
                      opened[e] = newsSent'[i].opened[e], issue[e] # NoIssue
               PROVE  issue[e].alertedAt >= newsSent'[i].at \/ (e \in tell /\ watchHour >= newsSent'[i].at)
    BY <1>1, <1>12 DEF RowsRemember, Remembered, Exists
  <2>1. CASE i \in DOMAIN newsSent /\ newsSent'[i] = newsSent[i]
    <3>1. Remembered(newsSent[i], e) BY <2>1 DEF MailsInv, RowsRemember
    <3> QED BY <1>12, <2>1, <3>1 DEF Remembered, Exists, Telling
  <2>2. CASE newsSent'[i] = m BY <1>6, <2>2
  <2> QED BY <1>7, <2>1, <2>2
<1>16. CooldownKept'
  <2> SUFFICES ASSUME NEW i \in DOMAIN newsSent', NEW j \in DOMAIN newsSent', i < j,
                      newsSent'[j].at - newsSent'[i].at < Cooldown, fell = 0, NEW e \in newsSent'[i].of
               PROVE  opened[e] > newsSent'[i].opened[e] \/ issue[e] = NoIssue
    BY <1>1 DEF CooldownKept, Exists
  <2>0. DOMAIN newsSent' \subseteq Nat BY <1>7
  <2>1. i \in DOMAIN newsSent /\ newsSent'[i] = newsSent[i] BY <1>7, <2>0
  <2>2. CASE j \in DOMAIN newsSent /\ newsSent'[j] = newsSent[j]
    BY <2>1, <2>2 DEF MailsInv, CooldownKept, Exists
  <2>3. CASE newsSent'[j] = m /\ tell # {}
    <3> SUFFICES ASSUME opened[e] <= newsSent[i].opened[e], issue[e] # NoIssue PROVE FALSE
      <4>1. e \in Errors /\ newsSent[i].opened[e] \in Nat BY <1>6, <2>1 DEF News
      <4> QED BY <1>6, <2>1, <4>1
    <3>1. e \in Errors /\ newsSent[i].at \in Nat /\ newsSent[i].opened[e] \in Nat /\ newsSent[i].opened[e] <= opened[e]
      BY <1>2, <1>6, <2>1 DEF News, MailKinds
    <3>2. opened[e] = newsSent[i].opened[e] BY <1>6, <3>1
    <3>3. Remembered(newsSent[i], e) BY <2>1 DEF MailsInv, RowsRemember
    <3>4. issue[e].alertedAt >= newsSent[i].at BY <1>12, <3>2, <3>3 DEF Remembered, Exists, Telling
    <3>5. LastAlert \in {Never} \cup 0..watchHour /\ issue[e].alertedAt <= LastAlert BY <1>2, <3>1, LastAlertIs
    <3>6. issue[e].alertedAt \in {Never} \cup 0..watchHour BY <1>6, <3>1
    <3>7. LastAlert >= newsSent[i].at /\ LastAlert # Never BY <1>6, <3>1, <3>4, <3>5, <3>6 DEF Never
    <3>8. watchHour - LastAlert >= Cooldown BY <1>10, <2>3, <3>7
    <3>9. watchHour - newsSent[i].at < Cooldown BY <2>1, <2>3
    <3>10. Cooldown \in Nat BY WatchAssumption
    <3> QED BY <1>6, <3>1, <3>5, <3>7, <3>8, <3>9, <3>10 DEF Never
  <2> QED BY <1>7, <2>2, <2>3
<1>17. PeaksRemember'
  <2> SUFFICES ASSUME fell = 0, ~crossed, NEW i \in DOMAIN peaksSent', NEW e \in peaksSent'[i].of
               PROVE  PeakRemembered(peaksSent[i], e)'
    BY <1>1 DEF PeaksRemember, PeakRemembered
  <2> DEFINE a == peaksSent'[i].at
  <2>1. CASE i \in DOMAIN peaksSent /\ peaksSent'[i] = peaksSent[i]
    <3>1. PeakRemembered(peaksSent[i], e) BY <2>1 DEF MailsInv, PeaksRemember
    <3> QED BY <1>1, <1>12, <2>1, <3>1 DEF PeakRemembered, Exists, Peaking
  <2>2. CASE peaksSent'[i] = p
    <3>1. e \in of /\ e \in Errors /\ a = watchHour BY <1>5, <2>2
    <3>2. issue[e] # NoIssue /\ \E k \in DOMAIN seenAt[e] : seenAt[e][k] >= watchHour - SpikeSpan BY <1>11, <3>1
    <3>3. PICK k \in DOMAIN seenAt[e] : seenAt[e][k] >= watchHour - SpikeSpan BY <3>2
    <3>4. seenAt[e][k] <= issue[e].lastSeen BY <3>1, <3>2 DEF RowsInv, SeenBefore, Exists
    <3>5. seenAt[e][k] \in 0..watchHour
      <4>1. seenAt[e] \in Seq(0..watchHour) BY <3>1 DEF RowsInv, WatchKinds
      <4> QED BY <4>1, ElementIs
    <3>6. issue[e].lastSeen \in Nat /\ SpikeSpan \in Nat BY <1>6, <3>1, <3>2, WatchAssumption
    <3>7. issue[e].lastSeen >= watchHour - SpikeSpan BY <1>6, <3>3, <3>4, <3>5, <3>6
    <3>8. watchHour >= watchHour BY <1>6
    <3> QED BY <1>1, <1>12, <3>1, <3>2, <3>7, <3>8 DEF PeakRemembered, Exists
  <2> QED BY <1>8, <2>1, <2>2
<1>18. PeaksSpaced'
  <2> SUFFICES ASSUME NEW i \in DOMAIN peaksSent', NEW j \in DOMAIN peaksSent', i < j, fell = 0, ~crossed,
                      NEW e \in peaksSent'[i].of, e \in peaksSent'[j].of
               PROVE  peaksSent'[j].at - peaksSent'[i].at >= Realert
    BY <1>1 DEF PeaksSpaced
  <2>0. DOMAIN peaksSent' \subseteq Nat BY <1>8
  <2>1. i \in DOMAIN peaksSent /\ peaksSent'[i] = peaksSent[i] BY <1>8, <2>0
  <2>2. CASE j \in DOMAIN peaksSent /\ peaksSent'[j] = peaksSent[j]
    <3>1. peaksSent[i].of \cap peaksSent[j].of # {} BY <2>1, <2>2
    <3> QED BY <2>1, <2>2, <3>1 DEF MailsInv, PeaksSpaced
  <2>3. CASE peaksSent'[j] = p
    <3>1. e \in of /\ e \in Errors /\ peaksSent'[j].at = watchHour BY <1>5, <2>3
    <3>2. PeakRemembered(peaksSent[i], e) BY <2>1 DEF MailsInv, PeaksRemember
    <3>3. issue[e] # NoIssue /\ (issue[e].peakAt = Never \/ watchHour - issue[e].peakAt >= Realert) BY <1>11, <3>1
    <3>4. watchHour - peaksSent[i].at >= Realert \/ issue[e].peakAt >= peaksSent[i].at
      BY <1>12, <3>2 DEF PeakRemembered, Peaking
    <3>5. peaksSent[i].at \in Nat BY <1>6, <2>1 DEF Peak
    <3>6. issue[e].peakAt \in {Never} \cup 0..watchHour /\ Realert \in Nat BY <1>6, <3>1, <3>3, WatchAssumption
    <3>7. CASE issue[e].peakAt >= peaksSent[i].at
      <4>1. issue[e].peakAt # Never BY <3>5, <3>7 DEF Never
      <4>2. watchHour - issue[e].peakAt >= Realert BY <3>3, <4>1
      <4>3. watchHour - peaksSent[i].at >= Realert BY <1>6, <3>5, <3>6, <3>7, <4>1, <4>2
      <4> QED BY <2>1, <3>1, <4>3
    <3> QED BY <2>1, <3>1, <3>4, <3>7
  <2> QED BY <1>8, <2>2, <2>3
<1> QED BY <1>13, <1>14, <1>15, <1>16, <1>17, <1>18 DEF MailsInv

LEMMA RecordTells ==
    ASSUME RowsInv, MailsInv, RecordAlerts
    PROVE  MailsInv'
<1> DEFINE when == drain["task"].when
           tell == drain["task"].tell
           of   == drain["task"].peaks
<1>1. /\ Sending /\ drain' = [drain EXCEPT !["task"] = NoDrain]
      /\ UNCHANGED <<newsSent, peaksSent, watchHour, opened, crossed, fell>>
  BY DEF RecordAlerts, Sending, Unheard
<1>2. WatchKinds /\ Drains /\ MailKinds /\ "task" \in Drainers BY DEF RowsInv, MailsInv, Drainers
<1>3. ~Sending'
  <2>1. drain'["task"] = NoDrain BY <1>1, <1>2, OtherDrain
  <2> QED BY <2>1 DEF Sending, NoDrain
<1>4. /\ watchHour \in Nat /\ fell \in Nat /\ crossed \in BOOLEAN
      /\ LatestMail \in Nat /\ LatestMail <= watchHour /\ when = LatestMail
      /\ \A i \in DOMAIN newsSent : newsSent[i] \in News /\ newsSent[i].at <= LatestMail
      /\ \A i \in DOMAIN peaksSent : peaksSent[i] \in Peak /\ peaksSent[i].at <= LatestMail
      /\ \A e \in Errors : /\ opened[e] \in Nat
                           /\ issue[e] # NoIssue => /\ issue[e].alertedAt \in {Never} \cup 0..watchHour
                                                    /\ issue[e].peakAt \in {Never} \cup 0..watchHour
                                                    /\ issue[e].lastSeen \in 0..watchHour
  BY <1>1, <1>2, MailsAre DEF MailKinds
<1>5. /\ Told = tell \cup of /\ tell \subseteq Errors /\ of \subseteq Errors
      /\ (\A e : Telling(e) <=> e \in tell) /\ (\A e : Peaking(e) <=> e \in of)
      /\ (\A e : ~Telling(e)') /\ (\A e : ~Peaking(e)')
  BY <1>1, <1>2, <1>3 DEF Told, Sending, Telling, Peaking, Drains
<1>6. ASSUME NEW e \in Errors
      PROVE  /\ issue'[e] = NoIssue <=> issue[e] = NoIssue
             /\ issue[e] # NoIssue =>
                   /\ issue'[e].lastSeen = issue[e].lastSeen
                   /\ issue'[e].alertedAt = (IF e \in tell THEN when ELSE issue[e].alertedAt)
                   /\ issue'[e].peakAt = (IF e \in of THEN when ELSE issue[e].peakAt)
  <2>1. CASE e \in Told
    <3>1. /\ issue[e] \in RowAt(watchHour) /\ issue'[e] \in RowAt(watchHour) /\ Alike(issue[e], issue'[e])
          /\ issue'[e].alertedAt = (IF e \in tell THEN when ELSE issue[e].alertedAt)
          /\ issue'[e].peakAt = (IF e \in of THEN when ELSE issue[e].peakAt)
      BY <1>2, <2>1, RecordIs
    <3>2. issue[e] # NoIssue /\ issue'[e] # NoIssue BY <3>1, RowIsThere
    <3> QED BY <3>1, <3>2 DEF Alike
  <2>2. CASE e \notin Told
    <3>1. issue'[e] = issue[e] BY <1>2, <2>2, RecordIs
    <3> QED BY <1>5, <2>2, <3>1
  <2> QED BY <2>1, <2>2
<1>7. \A e \in tell \cup of : issue[e] # NoIssue
  <2>1. \A e \in Told : issue[e] \in RowAt(watchHour) BY <1>2, RecordIs
  <2> QED BY <1>5, <2>1, RowIsThere
<1> HIDE DEF when, tell, of
<1>8. MailKinds'
  <2>1. LatestMail' = watchHour BY <1>1, <1>3 DEF LatestMail
  <2>2. \A i \in DOMAIN newsSent : newsSent[i].at <= watchHour BY <1>4 DEF News
  <2>3. \A i \in DOMAIN peaksSent : peaksSent[i].at <= watchHour BY <1>4 DEF Peak
  <2> QED BY <1>1, <1>2, <2>1, <2>2, <2>3 DEF MailKinds
<1>9. ToldInTurn'
  <2> SUFFICES ASSUME NEW e \in Errors PROVE TimesTold(e)' + Untold(e)' <= opened[e] + fell BY <1>1 DEF ToldInTurn
  <2>1. TimesTold(e) + Untold(e) <= opened[e] + fell BY DEF MailsInv, ToldInTurn
  <2>2. TimesTold(e)' = TimesTold(e) BY <1>1 DEF TimesTold
  <2>3. Untold(e)' = Untold(e)
    <3>1. CASE issue[e] = NoIssue BY <1>6, <3>1 DEF Untold, Exists
    <3>2. CASE issue[e] # NoIssue /\ e \in tell
      <4>1. issue'[e].alertedAt # Never BY <1>4, <1>6, <3>2 DEF Never
      <4> QED BY <1>5, <3>2, <4>1 DEF Untold
    <3>3. CASE issue[e] # NoIssue /\ e \notin tell BY <1>5, <1>6, <3>3 DEF Untold, Exists
    <3> QED BY <3>1, <3>2, <3>3
  <2> QED BY <2>1, <2>2, <2>3
<1>10. RowsRemember'
  <2> SUFFICES ASSUME fell = 0, NEW i \in DOMAIN newsSent, NEW e \in newsSent[i].of,
                      opened[e] = newsSent[i].opened[e], issue'[e] # NoIssue
               PROVE  issue'[e].alertedAt >= newsSent[i].at
    BY <1>1, <1>5 DEF RowsRemember, Remembered, Exists
  <2>1. e \in Errors /\ newsSent[i].at \in Nat /\ newsSent[i].at <= when BY <1>4 DEF News
  <2>2. issue[e] # NoIssue BY <1>6, <2>1
  <2>3. Remembered(newsSent[i], e) BY DEF MailsInv, RowsRemember
  <2>4. issue[e].alertedAt >= newsSent[i].at \/ e \in tell BY <1>5, <2>2, <2>3 DEF Remembered, Exists
  <2> QED BY <1>6, <2>1, <2>2, <2>4
<1>11. CooldownKept'
  <2> SUFFICES ASSUME NEW i \in DOMAIN newsSent, NEW j \in DOMAIN newsSent, i < j,
                      newsSent[j].at - newsSent[i].at < Cooldown, fell = 0, NEW e \in newsSent[i].of
               PROVE  opened[e] > newsSent[i].opened[e] \/ issue'[e] = NoIssue
    BY <1>1 DEF CooldownKept, Exists
  <2>1. e \in Errors BY <1>4 DEF News
  <2>2. opened[e] > newsSent[i].opened[e] \/ issue[e] = NoIssue BY DEF MailsInv, CooldownKept, Exists
  <2> QED BY <1>6, <2>1, <2>2
<1>12. PeaksRemember'
  <2> SUFFICES ASSUME fell = 0, ~crossed, NEW i \in DOMAIN peaksSent, NEW e \in peaksSent[i].of
               PROVE  PeakRemembered(peaksSent[i], e)'
    BY <1>1 DEF PeaksRemember, PeakRemembered
  <2>1. e \in Errors /\ peaksSent[i].at \in Nat /\ peaksSent[i].at <= when BY <1>4 DEF Peak
  <2>2. PeakRemembered(peaksSent[i], e) BY DEF MailsInv, PeaksRemember
  <2>3. CASE watchHour - peaksSent[i].at >= Realert BY <1>1, <2>3 DEF PeakRemembered
  <2>4. CASE /\ issue[e] # NoIssue /\ issue[e].lastSeen >= peaksSent[i].at - SpikeSpan
             /\ issue[e].peakAt >= peaksSent[i].at \/ e \in of
    <3>1. issue'[e] # NoIssue /\ issue'[e].lastSeen >= peaksSent[i].at - SpikeSpan BY <1>6, <2>1, <2>4
    <3>2. issue'[e].peakAt >= peaksSent[i].at BY <1>6, <2>1, <2>4
    <3> QED BY <1>1, <3>1, <3>2 DEF PeakRemembered, Exists
  <2> QED BY <1>5, <2>2, <2>3, <2>4 DEF PeakRemembered, Exists
<1>13. PeaksSpaced' BY <1>1 DEF MailsInv, PeaksSpaced
<1> QED BY <1>8, <1>9, <1>10, <1>11, <1>12, <1>13 DEF MailsInv

LEMMA BreakTells ==
    ASSUME RowsInv, MailsInv, BreakAlerts
    PROVE  MailsInv'
<1>1. /\ drain["task"].at \in {"alerts", "sent"} /\ fell' = fell + 1
      /\ drain' = [drain EXCEPT !["task"] = NoDrain]
      /\ UNCHANGED <<newsSent, peaksSent, issue, watchHour, opened, crossed>>
  BY DEF BreakAlerts, Falls, Unheard
<1>2. Drains /\ MailKinds /\ "task" \in Drainers BY DEF RowsInv, MailsInv, Drainers
<1>3. ~Sending'
  <2>1. drain'["task"] = NoDrain BY <1>1, <1>2, OtherDrain
  <2> QED BY <2>1 DEF Sending, NoDrain
<1>4. /\ watchHour \in Nat /\ fell \in Nat /\ LatestMail \in Nat /\ LatestMail <= watchHour
      /\ \A i \in DOMAIN newsSent : newsSent[i] \in News /\ newsSent[i].at <= LatestMail
      /\ \A i \in DOMAIN peaksSent : peaksSent[i] \in Peak /\ peaksSent[i].at <= LatestMail
      /\ \A e \in Errors : opened[e] \in Nat
  BY <1>2, MailsAre DEF MailKinds
<1>5. fell' # 0 BY <1>1, <1>4
<1>6. MailKinds'
  <2>1. LatestMail' = watchHour BY <1>1, <1>3 DEF LatestMail
  <2>2. \A i \in DOMAIN newsSent : newsSent[i].at <= watchHour BY <1>4 DEF News
  <2>3. \A i \in DOMAIN peaksSent : peaksSent[i].at <= watchHour BY <1>4 DEF Peak
  <2> QED BY <1>1, <1>2, <2>1, <2>2, <2>3 DEF MailKinds
<1>7. ToldInTurn'
  <2> SUFFICES ASSUME NEW e \in Errors PROVE TimesTold(e)' + Untold(e)' <= opened[e] + fell' BY <1>1 DEF ToldInTurn
  <2>1. TimesTold(e) + Untold(e) <= opened[e] + fell BY DEF MailsInv, ToldInTurn
  <2>2. TimesTold(e)' = TimesTold(e) BY <1>1 DEF TimesTold
  <2>3. TimesTold(e) \in Nat /\ opened[e] \in Nat BY <1>2, <1>4, MailsCount
  <2>4. Untold(e) \in 0..1 /\ Untold(e)' \in 0..1 BY DEF Untold
  <2> QED BY <1>1, <1>4, <2>1, <2>2, <2>3, <2>4
<1>8. RowsRemember' /\ CooldownKept' /\ PeaksRemember' /\ PeaksSpaced'
  BY <1>5 DEF RowsRemember, CooldownKept, PeaksRemember, PeaksSpaced
<1> QED BY <1>6, <1>7, <1>8 DEF MailsInv

LEMMA MailsStart == ASSUME WatchInit PROVE MailsInv
<1>1. newsSent = <<>> /\ peaksSent = <<>> /\ issue = [e \in Errors |-> NoIssue] /\ opened = [e \in Errors |-> 0] /\ fell = 0
  BY DEF WatchInit
<1>2. MailKinds
  <2>1. <<>> \in Seq(News) /\ <<>> \in Seq(Peak) OBVIOUS
  <2> QED BY <1>1, <2>1 DEF MailKinds
<1>3. ToldInTurn
  <2> SUFFICES ASSUME NEW e \in Errors PROVE TimesTold(e) + Untold(e) <= opened[e] + fell BY DEF ToldInTurn
  <2>1. {i \in DOMAIN newsSent : e \in newsSent[i].of} = {} BY <1>1
  <2>2. TimesTold(e) = 0 BY <2>1, FS_EmptySet DEF TimesTold
  <2>3. Untold(e) = 0 BY <1>1 DEF Untold, Exists
  <2>4. opened[e] = 0 BY <1>1
  <2> QED BY <1>1, <2>2, <2>3, <2>4
<1>4. RowsRemember /\ CooldownKept /\ PeaksRemember /\ PeaksSpaced
  BY <1>1 DEF RowsRemember, CooldownKept, PeaksRemember, PeaksSpaced
<1> QED BY <1>2, <1>3, <1>4 DEF MailsInv

LEMMA MailsStepKeeps ==
    ASSUME RowsInv, MailsInv, [WatchNext]_watchVars
    PROVE  MailsInv'
<1>1. RowsInv' BY RowsStepKeeps
<1>2. "redis" \in Stores /\ "page" \in Drainers BY DEF Stores, Drainers
<1>3. ASSUME NEW e \in Errors, NEW q \in Stores, Capture(e, q) PROVE MailsInv' BY <1>1, <1>3, CaptureTells
<1>4. ASSUME NEW e \in Errors, NEW st \in {"IN_PROGRESS", "RESOLVED", "NEW"}, HandleByHand(e, st) PROVE MailsInv'
  BY <1>1, <1>4, HandleTells
<1>5. watchHour \in Nat /\ fell \in Nat BY MailsAre DEF MailsInv
<1>6. ASSUME NEW d \in Drainers, Ingest(d) PROVE MailsInv' BY <1>1, <1>6, IngestTells
<1>7. ASSUME NEW d \in Drainers, TimePasses \/ PopEvents(d) \/ ReadIssues(d) \/ BreakDrain(d) \/ RestartProcess(d)
      PROVE  MailsInv'
  BY <1>1, <1>7, QuietStepsTell
<1>8. CASE SendAlerts \/ RecordAlerts \/ BreakAlerts BY <1>8, SendTells, RecordTells, BreakTells
<1>9. CASE Purge BY <1>1, <1>9, PurgeTells
<1>10. CASE UNCHANGED watchVars
  <2>1. UNCHANGED <<newsSent, peaksSent, issue, opened, crossed, drain, watchHour, fell>> BY <1>10 DEF watchVars
  <2>2. Sending' <=> Sending BY <2>1 DEF Sending
  <2> QED BY <1>1, <1>5, <2>1, <2>2, MailsStay
<1> QED BY <1>2, <1>3, <1>4, <1>6, <1>7, <1>8, <1>9, <1>10 DEF WatchNext

-----------------------------------------------------------------------------
(* The theorems on the errors.                                             *)

WatchInv == RowsInv /\ MailsInv

LEMMA WatchStays == WatchSpec => []WatchInv
<1>1. WatchInit => WatchInv BY RowsStart, MailsStart DEF WatchInv
<1>2. WatchInv /\ [WatchNext]_watchVars => WatchInv' BY RowsStepKeeps, MailsStepKeeps DEF WatchInv
<1> QED BY <1>1, <1>2, PTL DEF WatchSpec

\* The variables of the monitoring keep their types: a queue holds no more
\* than QueueMax events, and no time of a row is in the future.
THEOREM WatchTypeCorrect == WatchSpec => []WatchTypeOK
<1>1. WatchInv => WatchTypeOK
  <2> SUFFICES ASSUME RowsInv PROVE WatchTypeOK BY DEF WatchInv
  <2>1. WatchKinds /\ Drains /\ EventsAt(watchHour) \subseteq Seq(Event) BY EventsAre DEF RowsInv
  <2>2. queue \in [Stores -> Seq(Event)] /\ \A q \in Stores : Len(queue[q]) <= QueueMax BY <2>1 DEF WatchKinds
  <2>3. ASSUME NEW e \in Errors
        PROVE  /\ Exists(e) => /\ issue[e].status \in Unread \cup {"IN_PROGRESS", "RESOLVED"}
                               /\ {issue[e].resolvedAt, issue[e].alertedAt, issue[e].peakAt} \subseteq {Never} \cup 0..watchHour
                               /\ issue[e].lastSeen \in 0..watchHour
               /\ captured[e] \in 0..EventMax
    <3>1. captured[e] \in 0..EventMax BY <2>1 DEF WatchKinds
    <3>2. Exists(e) => issue[e] \in RowAt(watchHour) BY <2>1 DEF WatchKinds, Exists
    <3> QED BY <3>1, <3>2 DEF RowAt, Status
  <2>4. \A d \in Drainers : drain[d].at \in {"idle", "popped", "read", "alerts", "sent"} BY <2>1 DEF Drains
  <2>5. watchHour \in 0..WatchHorizon /\ fell \in Nat /\ hands \in 0..HandsMax BY <2>1 DEF WatchKinds
  <2> QED BY <2>2, <2>3, <2>4, <2>5 DEF WatchTypeOK
<1> QED BY <1>1, WatchStays, PTL

\* Every event is counted, waits, or is known to be gone, and none is counted
\* twice; an error said to have come back did so after its correction; nobody
\* is told twice of one appearance, nor of new errors or of one peak more
\* often than the delays allow, but for the deaths and the writes that cross.
THEOREM ErrorsToldRight == WatchSpec => []WatchRight
<1>1. WatchInv => WatchRight
  <2> SUFFICES ASSUME RowsInv, MailsInv PROVE WatchRight BY DEF WatchInv
  <2>1. CountedOnce /\ CameBackSince BY DEF RowsInv
  <2>2. CooldownKept /\ PeaksSpaced BY DEF MailsInv
  <2>3. ToldOncePerOpening
    <3> SUFFICES ASSUME NEW e \in Errors PROVE TimesTold(e) <= opened[e] + fell BY DEF ToldOncePerOpening, TimesTold
    <3>1. TimesTold(e) + Untold(e) <= opened[e] + fell BY DEF MailsInv, ToldInTurn
    <3>2. TimesTold(e) \in Nat BY MailsCount DEF MailsInv
    <3>3. opened[e] \in Nat /\ fell \in Nat BY MailsAre DEF MailsInv
    <3>4. Untold(e) \in 0..1 BY DEF Untold
    <3> QED BY <3>1, <3>2, <3>3, <3>4
  <2> QED BY <2>1, <2>2, <2>3 DEF WatchRight
<1> QED BY <1>1, WatchStays, PTL

-----------------------------------------------------------------------------
(* The e-mails of the billing: the inductive invariant.                    *)

StageNames == {"WARNING", "GRACE", "PAUSED"}
Dates      == DueDates \cup {NoDate}
AtWork     == [on : {TRUE}, read : ShopRow, day : 0..LastDay, sent : Nat]
Notice     == [stage : StageNames \cup {Nothing}, date : Dates, day : 0..LastDay, noted : BOOLEAN]

BillRows ==
    /\ calendar \in 0..LastDay /\ shop \in ShopRow
    /\ duty \in [Tasks -> {NoDuty} \cup AtWork]
    /\ notices \in Seq(Notice)
    /\ changes \in 0..Deeds /\ ended \in 0..BillingDeaths

\* What a task has sent is the last of its kind, and not written down yet;
\* nobody else writes the columns of the stage.
Underway ==
    /\ duty["billing"].on =>
          duty["billing"].read.noticeFor = shop.noticeFor /\ duty["billing"].read.stage = shop.stage
    /\ \A t \in Tasks : duty[t].on /\ duty[t].sent # 0 =>
          duty[t].sent \in DOMAIN notices /\ notices[duty[t].sent] = Mail(t) /\ Due(t)
    /\ duty["billing"].on /\ duty["billing"].sent # 0 =>
          \A k \in DOMAIN notices : k > duty["billing"].sent => notices[k].stage = Nothing

\* The shop's row tells the last e-mail of a stage that was written down.
RowTellsLast ==
    \/ \A i \in DOMAIN notices : ~ForDate(i)
    \/ \E last \in DOMAIN notices :
          /\ ForDate(last) /\ \A i \in DOMAIN notices : ForDate(i) => i <= last
          /\ notices[last].date = shop.noticeFor /\ notices[last].stage = shop.stage

BillInv == BillRows /\ Underway /\ RowTellsLast /\ StagesInOrder

\* Where one task works at a time: the row tells the last report too.
OneTask ==
    /\ \A t, u \in Tasks : duty[t].on /\ duty[u].on => t = u
    /\ \A t \in Tasks : duty[t].on =>
          /\ duty[t].read.reportAt = shop.reportAt
          /\ shop.reportAt <= duty[t].day /\ duty[t].day <= calendar
          /\ duty[t].sent # 0 => duty[t].sent = Len(notices)
    /\ shop.reportAt <= calendar
    /\ \A i \in DOMAIN notices : notices[i].noted /\ notices[i].stage \in {Nothing, "WARNING"} =>
          shop.reportAt # NoDate /\ notices[i].day <= shop.reportAt

ReportInv == BillInv /\ OneTask /\ ReportsApart

-----------------------------------------------------------------------------
(* The operators.                                                          *)

LEMMA RankIsNumber ==
    ASSUME NEW stage \in StageNames \cup {Nothing}
    PROVE  Rank(stage) \in Int
<1>1. CASE stage = Nothing BY <1>1 DEF Rank
<1>2. CASE stage # Nothing
  <2>1. \E i \in {1, 2, 3} : Stages[i] = stage BY <1>2 DEF Stages, StageNames
  <2>2. DOMAIN Stages = {1, 2, 3} BY DEF Stages
  <2> DEFINE c == CHOOSE i \in DOMAIN Stages : Stages[i] = stage
  <2>3. c \in {1, 2, 3} BY <2>1, <2>2
  <2>4. Rank(stage) = c BY <1>2 DEF Rank
  <2> HIDE DEF c
  <2> QED BY <2>3, <2>4
<1> QED BY <1>1, <1>2

\* The e-mail that is due is of a later stage than the one the row tells for
\* the date.
LEMMA DueIsLater ==
    ASSUME NEW s \in ShopRow, NEW present \in Int
    PROVE  /\ NoticeDue(s, present) \in StageNames \cup {Nothing}
           /\ NoticeDue(s, present) # Nothing /\ s.noticeFor = s.paidUntil => Rank(s.stage) < Rank(NoticeDue(s, present))
<1>1. BillingStage(s, present) \in StageNames \cup {Nothing} BY DEF BillingStage, StageNames
<1>2. s.stage \in StageNames \cup {Nothing} BY DEF ShopRow, StageNames
<1>3. Rank(s.stage) \in Int /\ Rank(BillingStage(s, present)) \in Int BY <1>1, <1>2, RankIsNumber
<1>4. NoticeDue(s, present) \in {BillingStage(s, present), Nothing} BY DEF NoticeDue
<1> QED BY <1>1, <1>3, <1>4 DEF NoticeDue

LEMMA TaskNames == Tasks = {"billing", "reports"} /\ "billing" # "reports"
BY DEF Tasks

LEMMA DutyAtWork ==
    ASSUME BillRows, NEW t \in Tasks, duty[t].on
    PROVE  duty[t] \in AtWork
<1>1. NoDuty.on = FALSE BY DEF NoDuty
<1> QED BY <1>1 DEF BillRows

LEMMA MailIsNotice ==
    ASSUME BillRows, NEW t \in Tasks, duty[t].on
    PROVE  /\ Mail(t) \in Notice /\ ~Mail(t).noted /\ Mail(t).day = duty[t].day
           /\ Mail(t).date = duty[t].read.paidUntil
           /\ t = "reports" => Mail(t).stage = Nothing
           /\ t = "billing" => Mail(t).stage = NoticeDue(duty[t].read, duty[t].day)
<1>1. duty[t] \in AtWork BY DutyAtWork
<1>2. duty[t].read \in ShopRow /\ duty[t].day \in 0..LastDay /\ duty[t].day \in Int
  <2>1. duty[t].read \in ShopRow /\ duty[t].day \in 0..LastDay BY <1>1 DEF AtWork
  <2> QED BY <2>1, BillingAssumption
<1>3. NoticeDue(duty[t].read, duty[t].day) \in StageNames \cup {Nothing} BY <1>2, DueIsLater
<1>4. duty[t].read.paidUntil \in Dates BY <1>2 DEF ShopRow, Dates
<1> QED BY <1>2, <1>3, <1>4, TaskNames DEF Mail, Notice

-----------------------------------------------------------------------------
(* The tasks and the platform.                                             *)

LEMMA StartTaskKeeps ==
    ASSUME BillInv, NEW t \in Tasks, StartTask(t)
    PROVE  BillInv'
<1> DEFINE d == [on |-> TRUE, read |-> shop, day |-> calendar, sent |-> 0]
<1>1. ~duty[t].on /\ duty' = [duty EXCEPT ![t] = d] /\ UNCHANGED <<calendar, shop, notices, changes, ended>>
  BY DEF StartTask
<1>2. d \in AtWork /\ d.on /\ d.read = shop /\ d.sent = 0 BY DEF BillInv, BillRows, AtWork
<1> HIDE DEF d
<1>3. duty' \in [Tasks -> {NoDuty} \cup AtWork] /\ duty'[t] = d /\ \A u \in Tasks : u # t => duty'[u] = duty[u]
  BY <1>1, <1>2 DEF BillInv, BillRows
<1>4. BillRows' BY <1>1, <1>3 DEF BillInv, BillRows
<1>5. Underway' BY <1>1, <1>2, <1>3, TaskNames DEF BillInv, Underway, Mail, Due
<1> QED BY <1>1, <1>4, <1>5 DEF BillInv, RowTellsLast, StagesInOrder, ForDate

\* An e-mail leaves: the last of the list, not written down yet.
LEMMA SendNoticeKeeps ==
    ASSUME BillInv, NEW t \in Tasks, SendNotice(t)
    PROVE  BillInv'
<1> DEFINE n == Len(notices) + 1
<1>1. /\ duty[t].on /\ duty[t].sent = 0 /\ Due(t) /\ notices' = Append(notices, Mail(t))
      /\ duty' = [duty EXCEPT ![t].sent = n] /\ UNCHANGED <<calendar, shop, changes, ended>>
  BY DEF SendNotice
<1>2. BillRows /\ notices \in Seq(Notice) /\ duty[t] \in AtWork /\ Len(notices) \in Nat
  BY <1>1, DutyAtWork DEF BillInv, BillRows
<1>3. PICK m : m = Mail(t) OBVIOUS
<1>4. m \in Notice /\ ~m.noted BY <1>1, <1>2, <1>3, MailIsNotice
<1>5. /\ notices' \in Seq(Notice) /\ Len(notices') = n /\ DOMAIN notices' = 1..n /\ notices'[n] = m
      /\ DOMAIN notices = 1..Len(notices) /\ n \notin DOMAIN notices /\ DOMAIN notices \subseteq DOMAIN notices'
      /\ \A i \in DOMAIN notices : notices'[i] = notices[i] /\ i < n
      /\ \A i \in DOMAIN notices' : i \in DOMAIN notices \/ i = n
      /\ n \in Nat /\ n # 0
  BY <1>1, <1>2, <1>3, <1>4
<1>6. /\ duty' \in [Tasks -> {NoDuty} \cup AtWork]
      /\ duty'[t] \in AtWork /\ duty'[t].on /\ duty'[t].read = duty[t].read /\ duty'[t].day = duty[t].day
      /\ duty'[t].sent = n
      /\ \A u \in Tasks : u # t => duty'[u] = duty[u]
  BY <1>1, <1>2, <1>5 DEF BillRows, AtWork
<1>7. BillRows' BY <1>1, <1>2, <1>5, <1>6 DEF BillRows
<1>8. Mail(t)' = Mail(t) /\ (Due(t)' <=> Due(t)) BY <1>6 DEF Mail, Due
<1>9. \A u \in Tasks : u # t => Mail(u)' = Mail(u) /\ (Due(u)' <=> Due(u)) BY <1>6 DEF Mail, Due
<1>10. Underway'
  <2>1. duty'["billing"].on => duty'["billing"].read.noticeFor = shop'.noticeFor /\ duty'["billing"].read.stage = shop'.stage
    BY <1>1, <1>6, TaskNames DEF BillInv, Underway
  <2>2. ASSUME NEW u \in Tasks, duty'[u].on, duty'[u].sent # 0
        PROVE  duty'[u].sent \in DOMAIN notices' /\ notices'[duty'[u].sent] = Mail(u)' /\ Due(u)'
    <3>1. CASE u = t BY <1>1, <1>3, <1>5, <1>6, <1>8, <3>1
    <3>2. CASE u # t BY <1>5, <1>6, <1>9, <2>2, <3>2 DEF BillInv, Underway
    <3> QED BY <3>1, <3>2
  <2>3. ASSUME duty'["billing"].on, duty'["billing"].sent # 0, NEW k \in DOMAIN notices', k > duty'["billing"].sent
        PROVE  notices'[k].stage = Nothing
    <3>1. CASE t = "billing" BY <1>2, <1>5, <1>6, <2>3, <3>1
    <3>2. CASE t # "billing"
      <4>1. m.stage = Nothing BY <1>1, <1>2, <1>3, <3>2, TaskNames, MailIsNotice
      <4>2. duty'["billing"] = duty["billing"] BY <1>6, <3>2, TaskNames
      <4> QED BY <1>5, <2>3, <4>1, <4>2 DEF BillInv, Underway
    <3> QED BY <3>1, <3>2
  <2> QED BY <2>1, <2>2, <2>3 DEF Underway
<1>11. \A i \in DOMAIN notices' : ForDate(i)' => i \in DOMAIN notices /\ ForDate(i)
  BY <1>4, <1>5 DEF ForDate
<1>12. \A i \in DOMAIN notices : ForDate(i) => ForDate(i)' BY <1>5 DEF ForDate
<1>13. RowTellsLast'
  <2>1. CASE \A i \in DOMAIN notices : ~ForDate(i) BY <1>11, <2>1 DEF RowTellsLast
  <2>2. ASSUME NEW last \in DOMAIN notices,
               ForDate(last), \A i \in DOMAIN notices : ForDate(i) => i <= last,
               notices[last].date = shop.noticeFor, notices[last].stage = shop.stage
        PROVE  RowTellsLast'
    <3>1. last \in DOMAIN notices' /\ ForDate(last)' BY <1>5, <1>12, <2>2
    <3>2. \A i \in DOMAIN notices' : ForDate(i)' => i <= last BY <1>11, <2>2
    <3>3. notices'[last].date = shop'.noticeFor /\ notices'[last].stage = shop'.stage BY <1>1, <1>5, <2>2
    <3> QED BY <3>1, <3>2, <3>3 DEF RowTellsLast
  <2> QED BY <2>1, <2>2 DEF BillInv, RowTellsLast
<1>14. StagesInOrder'
  <2> SUFFICES ASSUME NEW i \in DOMAIN notices', NEW j \in DOMAIN notices', i < j, ForDate(i)', ForDate(j)',
                      notices'[i].date = notices'[j].date,
                      \A k \in i..j : notices'[k].stage # Nothing => notices'[k].date = notices'[i].date
               PROVE  Rank(notices'[i].stage) < Rank(notices'[j].stage)
    BY DEF StagesInOrder, Rank
  <2>1. i \in DOMAIN notices /\ ForDate(i) /\ j \in DOMAIN notices /\ ForDate(j) BY <1>11
  <2>2. \A k \in i..j : k \in DOMAIN notices BY <1>2, <1>5, <2>1
  <2>3. \A k \in i..j : notices[k].stage # Nothing => notices[k].date = notices[i].date BY <1>5, <2>1, <2>2
  <2>4. notices[i].date = notices[j].date BY <1>5, <2>1
  <2>5. Rank(notices[i].stage) < Rank(notices[j].stage)
    BY <2>1, <2>3, <2>4 DEF BillInv, StagesInOrder
  <2> QED BY <1>5, <2>1, <2>5
<1> QED BY <1>7, <1>10, <1>13, <1>14 DEF BillInv

\* What the record of a task changes: the columns of its kind on the row, the
\* mark on its e-mail.
LEMMA RecordedNotice ==
    ASSUME BillInv, NEW t \in Tasks, RecordNotice(t), NEW s, s = duty[t].sent
    PROVE  /\ duty[t] \in AtWork /\ s \in DOMAIN notices /\ notices[s] = Mail(t) /\ ~notices[s].noted /\ Due(t)
           /\ shop' \in ShopRow /\ shop'.paidUntil = shop.paidUntil
           /\ t = "reports" => /\ shop'.stage = shop.stage /\ shop'.noticeFor = shop.noticeFor
                               /\ notices[s].stage = Nothing
           /\ t = "billing" => /\ shop'.stage = notices[s].stage /\ shop'.noticeFor = notices[s].date
                               /\ notices[s].stage = NoticeDue(duty[t].read, duty[t].day)
                               /\ notices[s].date = duty[t].read.paidUntil
           /\ shop'.reportAt = IF t = "reports" \/ notices[s].stage = "WARNING" THEN duty[t].day ELSE shop.reportAt
           /\ duty' \in [Tasks -> {NoDuty} \cup AtWork]
           /\ duty'[t] = NoDuty /\ \A u \in Tasks : u # t => duty'[u] = duty[u]
           /\ notices' \in Seq(Notice) /\ DOMAIN notices' = DOMAIN notices /\ Len(notices') = Len(notices)
           /\ notices'[s].noted /\ notices'[s].stage = notices[s].stage
           /\ notices'[s].date = notices[s].date /\ notices'[s].day = notices[s].day
           /\ \A k \in DOMAIN notices : k # s => notices'[k] = notices[k]
           /\ UNCHANGED <<calendar, changes, ended>>
<1>1. /\ duty[t].on /\ duty[t].sent # 0 /\ duty' = [duty EXCEPT ![t] = NoDuty]
      /\ notices' = [notices EXCEPT ![s].noted = TRUE] /\ UNCHANGED <<calendar, changes, ended>>
  BY DEF RecordNotice
<1>2. BillRows /\ notices \in Seq(Notice) /\ shop \in ShopRow BY DEF BillInv, BillRows
<1>3. s \in DOMAIN notices /\ notices[s] = Mail(t) /\ Due(t) BY <1>1 DEF BillInv, Underway
<1>4. duty[t] \in AtWork BY <1>1, <1>2, DutyAtWork
<1>5. PICK m : m = Mail(t) OBVIOUS
<1>6. /\ m \in Notice /\ ~m.noted /\ m.day = duty[t].day /\ m.date = duty[t].read.paidUntil
      /\ t = "reports" => m.stage = Nothing
      /\ t = "billing" => m.stage = NoticeDue(duty[t].read, duty[t].day)
  BY <1>1, <1>2, <1>5, MailIsNotice
<1>7. shop' = [shop EXCEPT
           !.stage     = IF t = "billing" THEN m.stage ELSE @,
           !.noticeFor = IF t = "billing" THEN m.date ELSE @,
           !.reportAt  = IF t = "reports" \/ m.stage = "WARNING" THEN m.day ELSE @]
  BY <1>5 DEF RecordNotice
<1>8. m.stage \in StageNames \cup {Nothing} /\ m.date \in DueDates \cup {NoDate} /\ m.day \in 0..LastDay
  BY <1>6 DEF Notice, Dates
<1>9. shop' \in ShopRow BY <1>2, <1>7, <1>8 DEF ShopRow, StageNames
<1>10. /\ shop'.paidUntil = shop.paidUntil
       /\ shop'.stage = IF t = "billing" THEN m.stage ELSE shop.stage
       /\ shop'.noticeFor = IF t = "billing" THEN m.date ELSE shop.noticeFor
       /\ shop'.reportAt = IF t = "reports" \/ m.stage = "WARNING" THEN m.day ELSE shop.reportAt
  BY <1>2, <1>7 DEF ShopRow
<1>11. /\ duty' \in [Tasks -> {NoDuty} \cup AtWork]
       /\ duty'[t] = NoDuty /\ \A u \in Tasks : u # t => duty'[u] = duty[u]
  BY <1>1, <1>2 DEF BillRows
<1>12. PICK n : n = [m EXCEPT !.noted = TRUE] OBVIOUS
<1>13. n \in Notice /\ n.noted /\ n.stage = m.stage /\ n.date = m.date /\ n.day = m.day
  BY <1>6, <1>12 DEF Notice
<1>14. notices' = [notices EXCEPT ![s] = n] BY <1>1, <1>2, <1>3, <1>5, <1>12
<1>15. /\ notices' \in Seq(Notice) /\ DOMAIN notices' = DOMAIN notices /\ Len(notices') = Len(notices)
       /\ notices'[s] = n /\ \A k \in DOMAIN notices : k # s => notices'[k] = notices[k]
  BY <1>2, <1>3, <1>13, <1>14
<1> QED BY ZenonT(40), <1>1, <1>3, <1>4, <1>5, <1>6, <1>9, <1>10, <1>11, <1>13, <1>15, TaskNames

\* The e-mail written down is of a later stage than the last one written down
\* for its date.
LEMMA RecordNoticeKeeps ==
    ASSUME BillInv, NEW t \in Tasks, RecordNotice(t)
    PROVE  BillInv'
<1>1. PICK s : s = duty[t].sent OBVIOUS
<1>2. /\ duty[t] \in AtWork /\ s \in DOMAIN notices /\ notices[s] = Mail(t) /\ ~notices[s].noted /\ Due(t)
      /\ shop' \in ShopRow
      /\ t = "reports" => /\ shop'.stage = shop.stage /\ shop'.noticeFor = shop.noticeFor
                          /\ notices[s].stage = Nothing
      /\ t = "billing" => /\ shop'.stage = notices[s].stage /\ shop'.noticeFor = notices[s].date
                          /\ notices[s].stage = NoticeDue(duty[t].read, duty[t].day)
                          /\ notices[s].date = duty[t].read.paidUntil
      /\ UNCHANGED <<calendar, changes, ended>>
  BY <1>1, RecordedNotice
<1>3. /\ duty' \in [Tasks -> {NoDuty} \cup AtWork]
      /\ duty'[t] = NoDuty /\ \A u \in Tasks : u # t => duty'[u] = duty[u]
  BY <1>1, RecordedNotice
<1>4. /\ notices' \in Seq(Notice) /\ DOMAIN notices' = DOMAIN notices
      /\ notices'[s].noted /\ notices'[s].stage = notices[s].stage /\ notices'[s].date = notices[s].date
      /\ \A k \in DOMAIN notices : k # s => notices'[k] = notices[k]
  BY <1>1, RecordedNotice
<1>5. notices \in Seq(Notice) /\ DOMAIN notices \subseteq Nat BY DEF BillInv, BillRows
<1>6. duty[t].on /\ duty[t].sent # 0 BY DEF RecordNotice
<1>7. BillRows' BY <1>2, <1>3, <1>4 DEF BillInv, BillRows
<1>8. NoDuty.on = FALSE BY DEF NoDuty
<1>9. \A u \in Tasks : u # t => Mail(u)' = Mail(u) /\ (Due(u)' <=> Due(u)) BY <1>3 DEF Mail, Due
\* The other task's e-mail is not this one: only one of them is of a stage.
<1>10. ASSUME NEW u \in Tasks, u # t, duty[u].on, duty[u].sent # 0 PROVE duty[u].sent # s
  <2>1. notices[duty[u].sent] = Mail(u) /\ Due(u) BY <1>10 DEF BillInv, Underway
  <2>2. BillRows BY DEF BillInv
  <2>3. CASE t = "billing"
    <3>1. u = "reports" BY <1>10, <2>3, TaskNames
    <3>2. Mail(u).stage = Nothing BY <1>10, <2>2, <3>1, MailIsNotice
    <3>3. notices[s].stage # Nothing BY <1>2, <2>3, TaskNames DEF Due
    <3> QED BY <2>1, <3>2, <3>3
  <2>4. CASE t = "reports"
    <3>1. u = "billing" BY <1>10, <2>4, TaskNames
    <3>2. Mail(u).stage = NoticeDue(duty[u].read, duty[u].day) BY <1>10, <2>2, <3>1, MailIsNotice
    <3>3. Mail(u).stage # Nothing BY <2>1, <3>1, <3>2, TaskNames DEF Due
    <3> QED BY <1>2, <2>1, <2>4, <3>3
  <2> QED BY <2>3, <2>4, TaskNames
<1>11. Underway'
  <2>1. duty'["billing"].on => duty'["billing"].read.noticeFor = shop'.noticeFor /\ duty'["billing"].read.stage = shop'.stage
    BY <1>2, <1>3, <1>8, TaskNames DEF BillInv, Underway
  <2>2. ASSUME NEW u \in Tasks, duty'[u].on, duty'[u].sent # 0
        PROVE  duty'[u].sent \in DOMAIN notices' /\ notices'[duty'[u].sent] = Mail(u)' /\ Due(u)'
    <3>1. u # t /\ duty'[u] = duty[u] BY <1>3, <1>8, <2>2
    <3>2. duty[u].sent # s BY <1>10, <2>2, <3>1
    <3>3. duty[u].sent \in DOMAIN notices /\ notices[duty[u].sent] = Mail(u) /\ Due(u)
      BY <2>2, <3>1 DEF BillInv, Underway
    <3> QED BY <1>4, <1>9, <3>1, <3>2, <3>3
  <2>3. ASSUME duty'["billing"].on, duty'["billing"].sent # 0, NEW k \in DOMAIN notices', k > duty'["billing"].sent
        PROVE  notices'[k].stage = Nothing
    <3>1. t # "billing" /\ duty'["billing"] = duty["billing"] BY <1>3, <1>8, <2>3, TaskNames
    <3>2. notices[k].stage = Nothing BY <1>4, <2>3, <3>1 DEF BillInv, Underway
    <3> QED BY <1>4, <3>2
  <2> QED BY <2>1, <2>2, <2>3 DEF Underway
<1>12. CASE t = "reports"
  <2>1. \A i \in DOMAIN notices : ForDate(i)' <=> ForDate(i) BY <1>2, <1>4, <1>12 DEF ForDate
  <2>2. \A i \in DOMAIN notices : notices'[i].stage = notices[i].stage /\ notices'[i].date = notices[i].date
    BY <1>4
  <2>3. RowTellsLast'
    <3>1. CASE \A i \in DOMAIN notices : ~ForDate(i) BY <1>4, <2>1, <3>1 DEF RowTellsLast
    <3>2. ASSUME NEW last \in DOMAIN notices,
                 ForDate(last), \A i \in DOMAIN notices : ForDate(i) => i <= last,
                 notices[last].date = shop.noticeFor, notices[last].stage = shop.stage
          PROVE  RowTellsLast'
      <4>1. last \in DOMAIN notices' /\ ForDate(last)' BY <1>4, <2>1, <3>2
      <4>2. \A i \in DOMAIN notices' : ForDate(i)' => i <= last BY <1>4, <2>1, <3>2
      <4>3. notices'[last].date = shop'.noticeFor /\ notices'[last].stage = shop'.stage
        BY <1>2, <1>12, <2>2, <3>2
      <4> QED BY <4>1, <4>2, <4>3 DEF RowTellsLast
    <3> QED BY <3>1, <3>2 DEF BillInv, RowTellsLast
  <2>4. StagesInOrder'
    <3> SUFFICES ASSUME NEW i \in DOMAIN notices', NEW j \in DOMAIN notices', i < j, ForDate(i)', ForDate(j)',
                        notices'[i].date = notices'[j].date,
                        \A k \in i..j : notices'[k].stage # Nothing => notices'[k].date = notices'[i].date
                 PROVE  Rank(notices'[i].stage) < Rank(notices'[j].stage)
      BY DEF StagesInOrder, Rank
    <3>0. i \in DOMAIN notices /\ j \in DOMAIN notices BY <1>4
    <3>1. \A k \in i..j : k \in DOMAIN notices BY <1>5, <3>0
    <3>2. \A k \in i..j : notices[k].stage # Nothing => notices[k].date = notices[i].date BY <2>2, <3>0, <3>1
    <3>3. Rank(notices[i].stage) < Rank(notices[j].stage)
      BY <2>1, <2>2, <3>0, <3>2 DEF BillInv, StagesInOrder
    <3> QED BY <2>2, <3>0, <3>3
  <2> QED BY <1>7, <1>11, <2>3, <2>4 DEF BillInv
<1>13. CASE t = "billing"
  <2>1. \A i \in DOMAIN notices : i # s => (ForDate(i)' <=> ForDate(i)) BY <1>4 DEF ForDate
  <2>2. \A i \in DOMAIN notices : notices'[i].stage = notices[i].stage /\ notices'[i].date = notices[i].date
    BY <1>4
  <2>3. notices[s].stage # Nothing BY <1>2, <1>13, TaskNames DEF Due
  <2>4. ForDate(s)' /\ ~ForDate(s) BY <1>2, <1>4, <2>3 DEF ForDate
  <2>5. \A k \in DOMAIN notices : k > s => ~ForDate(k)
    BY <1>1, <1>6, <1>13 DEF BillInv, Underway, ForDate
  <2>6. \A k \in DOMAIN notices : ForDate(k)' => k <= s
    BY <1>5, <1>2, <2>1, <2>5
  <2>7. RowTellsLast'
    BY <1>2, <1>4, <1>13, <2>2, <2>4, <2>6 DEF RowTellsLast
  <2>8. duty[t].read.noticeFor = shop.noticeFor /\ duty[t].read.stage = shop.stage
    BY <1>6, <1>13 DEF BillInv, Underway
  <2>9. shop.noticeFor = notices[s].date => Rank(shop.stage) < Rank(notices[s].stage)
    <3>1. duty[t].read \in ShopRow /\ duty[t].day \in 0..LastDay BY <1>2 DEF AtWork
    <3>2. duty[t].day \in Int BY <3>1, BillingAssumption
    <3> QED BY <1>2, <1>13, <2>3, <2>8, <3>1, <3>2, DueIsLater
  <2>10. StagesInOrder'
    <3> SUFFICES ASSUME NEW i \in DOMAIN notices', NEW j \in DOMAIN notices', i < j, ForDate(i)', ForDate(j)',
                        notices'[i].date = notices'[j].date,
                        \A k \in i..j : notices'[k].stage # Nothing => notices'[k].date = notices'[i].date
                 PROVE  Rank(notices'[i].stage) < Rank(notices'[j].stage)
      BY DEF StagesInOrder, Rank
    <3>0. i \in DOMAIN notices /\ j \in DOMAIN notices BY <1>4
    <3>1. \A k \in i..j : k \in DOMAIN notices BY <1>5, <3>0
    <3>2. \A k \in i..j : notices[k].stage # Nothing => notices[k].date = notices[i].date BY <2>2, <3>0, <3>1
    <3>3. notices[i].date = notices[j].date BY <2>2, <3>0
    <3>4. i # s /\ ForDate(i)
      <4>1. j <= s BY <2>6, <3>0
      <4> QED BY <1>2, <1>5, <2>1, <3>0, <4>1
    <3>5. CASE j # s
      <4>1. ForDate(j) BY <2>1, <3>0, <3>5
      <4>2. Rank(notices[i].stage) < Rank(notices[j].stage)
        BY <3>0, <3>2, <3>3, <3>4, <4>1 DEF BillInv, StagesInOrder
      <4> QED BY <2>2, <3>0, <4>2
    <3>6. CASE j = s
      <4>1. PICK last \in DOMAIN notices :
               /\ ForDate(last) /\ \A k \in DOMAIN notices : ForDate(k) => k <= last
               /\ notices[last].date = shop.noticeFor /\ notices[last].stage = shop.stage
        BY <3>0, <3>4 DEF BillInv, RowTellsLast
      <4>2. i <= last /\ last < s
        <5>1. i <= last BY <3>0, <3>4, <4>1
        <5>2. last # s /\ ~(last > s) BY <2>4, <2>5, <4>1
        <5> QED BY <1>2, <1>5, <5>1, <5>2
      <4>3. last \in i..j BY <1>5, <3>0, <3>6, <4>2
      <4>4. notices[last].date = notices[i].date BY <3>2, <4>1, <4>3 DEF ForDate
      <4>5. Rank(notices[last].stage) < Rank(notices[s].stage) BY <2>9, <3>3, <3>6, <4>1, <4>4
      <4>6. CASE i = last BY <2>2, <3>0, <3>6, <4>5, <4>6
      <4>7. CASE i # last
        <5>1. i < last BY <1>5, <3>0, <4>2, <4>7
        <5>2. \A k \in i..last : k \in i..j BY <1>5, <3>0, <3>6, <4>2
        <5>3. \A k \in i..last : notices[k].stage # Nothing => notices[k].date = notices[i].date BY <3>2, <5>2
        <5>4. Rank(notices[i].stage) < Rank(notices[last].stage)
          BY <3>0, <3>4, <4>1, <4>4, <5>1, <5>3 DEF BillInv, StagesInOrder
        <5>5. /\ Rank(notices[i].stage) \in Int /\ Rank(notices[last].stage) \in Int /\ Rank(notices[s].stage) \in Int
          <6>1. \A k \in DOMAIN notices : notices[k] \in Notice BY <1>5
          <6>2. \A k \in DOMAIN notices : notices[k].stage \in StageNames \cup {Nothing} BY <6>1 DEF Notice
          <6> QED BY <1>2, <3>0, <6>2, RankIsNumber
        <5>6. Rank(notices[i].stage) < Rank(notices[s].stage) BY <4>5, <5>4, <5>5
        <5> QED BY <2>2, <3>0, <3>6, <5>6
      <4> QED BY <4>6, <4>7
    <3> QED BY <3>5, <3>6
  <2> QED BY <1>7, <1>11, <2>7, <2>10 DEF BillInv
<1> QED BY <1>12, <1>13, TaskNames

\* A task that ends without a record leaves the e-mails as they are.
LEMMA TaskOverKeeps ==
    ASSUME BillInv, NEW t \in Tasks, SkipShop(t) \/ TaskDies(t)
    PROVE  BillInv'
<1>1. duty' = [duty EXCEPT ![t] = NoDuty] /\ UNCHANGED <<calendar, shop, notices, changes>>
  BY DEF SkipShop, TaskDies
<1>2. ended' \in 0..BillingDeaths
  BY BillingAssumption DEF SkipShop, TaskDies, BillInv, BillRows
<1>3. /\ duty' \in [Tasks -> {NoDuty} \cup AtWork]
      /\ duty'[t] = NoDuty /\ \A u \in Tasks : u # t => duty'[u] = duty[u]
  BY <1>1 DEF BillInv, BillRows
<1>4. NoDuty.on = FALSE BY DEF NoDuty
<1>5. BillRows' BY <1>1, <1>2, <1>3 DEF BillInv, BillRows
<1>6. Underway' BY <1>1, <1>3, <1>4, TaskNames DEF BillInv, Underway, Mail, Due
<1> QED BY <1>1, <1>5, <1>6 DEF BillInv, RowTellsLast, StagesInOrder, ForDate

\* The platform changes the date or the shop's state, or a day passes: what a
\* task read stays as it read it.
LEMMA PlatformKeeps ==
    ASSUME BillInv, (\E d \in DueDates \cup {NoDate} : SetPaidUntil(d)) \/ SetActive \/ DayPasses
    PROVE  /\ BillInv' /\ UNCHANGED <<duty, notices>> /\ shop'.reportAt = shop.reportAt
           /\ calendar <= calendar'
<1>1. UNCHANGED <<duty, notices, ended>> BY DEF SetPaidUntil, SetActive, DayPasses
<1>2. calendar \in 0..LastDay /\ LastDay \in Nat /\ Deeds \in Nat /\ changes \in 0..Deeds /\ shop \in ShopRow
  BY BillingAssumption DEF BillInv, BillRows
<1>3. calendar' \in 0..LastDay /\ calendar <= calendar' BY <1>2 DEF SetPaidUntil, SetActive, DayPasses
<1>4. changes' \in 0..Deeds BY <1>2 DEF SetPaidUntil, SetActive, DayPasses
<1>5. /\ shop' \in ShopRow /\ shop'.stage = shop.stage /\ shop'.noticeFor = shop.noticeFor
      /\ shop'.reportAt = shop.reportAt
  <2>1. ASSUME NEW d \in DueDates \cup {NoDate}, shop' = [shop EXCEPT !.paidUntil = d] PROVE shop' \in ShopRow /\ shop'.stage = shop.stage /\ shop'.noticeFor = shop.noticeFor /\ shop'.reportAt = shop.reportAt
    BY <1>2, <2>1 DEF ShopRow
  <2>2. CASE shop' = [shop EXCEPT !.active = ~@] BY <1>2, <2>2 DEF ShopRow
  <2>3. CASE UNCHANGED shop BY <1>2, <2>3
  <2> QED BY <2>1, <2>2, <2>3 DEF SetPaidUntil, SetActive, DayPasses
<1>6. BillRows' BY <1>1, <1>3, <1>4, <1>5 DEF BillInv, BillRows
<1>7. Underway' BY <1>1, <1>5 DEF BillInv, Underway, Mail, Due
<1>8. RowTellsLast' BY <1>1, <1>5 DEF BillInv, RowTellsLast, ForDate
<1> QED BY <1>1, <1>3, <1>5, <1>6, <1>7, <1>8 DEF BillInv, StagesInOrder, ForDate

LEMMA BillStarts == BillInit => ReportInv
<1> SUFFICES ASSUME BillInit PROVE ReportInv OBVIOUS
<1>1. \A t \in Tasks : duty[t] = NoDuty /\ duty[t].on = FALSE BY DEF BillInit, NoDuty
<1>2. /\ shop.stage = Nothing /\ shop.noticeFor = NoDate /\ shop.reportAt = NoDate /\ shop \in ShopRow
  BY DEF BillInit, ShopRow
<1>3. BillRows BY <1>2, BillingAssumption DEF BillInit, BillRows
<1>4. notices = <<>> /\ DOMAIN notices = {} /\ calendar = 0 BY DEF BillInit
<1>5. Underway BY <1>1, TaskNames DEF Underway
<1>6. OneTask BY <1>1, <1>2, <1>4 DEF OneTask, NoDate
<1> QED BY <1>3, <1>4, <1>5, <1>6 DEF ReportInv, BillInv, RowTellsLast, StagesInOrder, ReportsApart

LEMMA BillStepKeeps ==
    ASSUME BillInv, [BillNext]_billVars
    PROVE  BillInv'
<1>1. CASE UNCHANGED billVars
  BY <1>1 DEF billVars, BillInv, BillRows, Underway, Mail, Due, RowTellsLast, StagesInOrder, ForDate
<1>2. CASE BillNext
  BY <1>2, StartTaskKeeps, SendNoticeKeeps, RecordNoticeKeeps, TaskOverKeeps, PlatformKeeps DEF BillNext
<1> QED BY <1>1, <1>2

-----------------------------------------------------------------------------
(* The reports, where one task works at a time.                            *)

LEMMA OneAtATime ==
    ASSUME Together <= 1, NEW t \in Tasks, StartTask(t)
    PROVE  \A u \in Tasks : ~duty[u].on
<1> DEFINE S == {u \in Tasks : duty[u].on}
<1>1. IsFiniteSet(Tasks)
  <2>1. IsFiniteSet({} \cup {"billing"}) BY FS_EmptySet, FS_AddElement
  <2>2. IsFiniteSet(({} \cup {"billing"}) \cup {"reports"}) BY <2>1, FS_AddElement
  <2>3. Tasks = ({} \cup {"billing"}) \cup {"reports"} BY DEF Tasks
  <2> QED BY <2>2, <2>3
<1>2. IsFiniteSet(S) BY <1>1, FS_Subset
<1>3. Cardinality(S) \in Nat BY <1>2, FS_CardinalityType
<1>4. Cardinality(S) < Together BY DEF StartTask
<1>5. Cardinality(S) = 0 BY <1>3, <1>4, BillingAssumption
<1>6. S = {} BY <1>2, <1>5, FS_EmptySet
<1> QED BY <1>6

LEMMA ReportDates ==
    ASSUME BillInv
    PROVE  /\ calendar \in Int /\ shop.reportAt \in Int /\ ReportGap \in Int
           /\ (shop.reportAt = NoDate \/ shop.reportAt \in 0..LastDay)
           /\ notices \in Seq(Notice) /\ DOMAIN notices = 1..Len(notices) /\ Len(notices) \in Nat
           /\ \A i \in DOMAIN notices : notices[i].day \in Int
           /\ \A t \in Tasks : duty[t].on => duty[t].day \in Int /\ duty[t].read \in ShopRow
<1>1. BillRows /\ shop \in ShopRow /\ calendar \in 0..LastDay /\ notices \in Seq(Notice)
  BY DEF BillInv, BillRows
<1>2. shop.reportAt \in 0..LastDay \cup {NoDate} BY <1>1 DEF ShopRow
<1>3. shop.reportAt \in Int /\ calendar \in Int /\ ReportGap \in Int BY <1>1, <1>2, BillingAssumption DEF NoDate
<1>4. ASSUME NEW i \in DOMAIN notices PROVE notices[i].day \in Int
  <2>1. notices[i] \in Notice BY <1>1
  <2>2. notices[i].day \in 0..LastDay BY <2>1 DEF Notice
  <2> QED BY <2>2, BillingAssumption
<1>5. ASSUME NEW t \in Tasks, duty[t].on PROVE duty[t].day \in Int /\ duty[t].read \in ShopRow
  <2>1. duty[t] \in AtWork BY <1>1, <1>5, DutyAtWork
  <2>2. duty[t].day \in 0..LastDay /\ duty[t].read \in ShopRow BY <2>1 DEF AtWork
  <2> QED BY <2>2, BillingAssumption
<1> QED BY <1>1, <1>2, <1>3, <1>4, <1>5

LEMMA StartTaskApart ==
    ASSUME ReportInv, Together <= 1, NEW t \in Tasks, StartTask(t)
    PROVE  ReportInv'
<1> DEFINE d == [on |-> TRUE, read |-> shop, day |-> calendar, sent |-> 0]
<1>1. BillInv /\ BillInv' BY StartTaskKeeps DEF ReportInv
<1>2. \A u \in Tasks : ~duty[u].on BY OneAtATime
<1>3. duty' = [duty EXCEPT ![t] = d] /\ UNCHANGED <<calendar, shop, notices, changes, ended>>
  BY DEF StartTask
<1>4. d.on /\ d.read = shop /\ d.sent = 0 /\ d.day = calendar OBVIOUS
<1> HIDE DEF d
<1>5. duty'[t] = d /\ \A u \in Tasks : u # t => duty'[u] = duty[u]
  BY <1>1, <1>3 DEF BillInv, BillRows
<1>6. calendar <= calendar BY <1>1, ReportDates
<1>7. OneTask' BY <1>2, <1>3, <1>4, <1>5, <1>6 DEF ReportInv, OneTask
<1>8. ReportsApart' BY <1>3 DEF ReportInv, ReportsApart
<1> QED BY <1>1, <1>7, <1>8 DEF ReportInv

\* A report leaves: the last one written down is old enough.
LEMMA SendNoticeApart ==
    ASSUME ReportInv, NEW t \in Tasks, SendNotice(t)
    PROVE  ReportInv'
<1> DEFINE n == Len(notices) + 1
<1>1. BillInv /\ BillInv' BY SendNoticeKeeps DEF ReportInv
<1>2. /\ duty[t].on /\ duty[t].sent = 0 /\ Due(t) /\ notices' = Append(notices, Mail(t))
      /\ duty' = [duty EXCEPT ![t].sent = n] /\ UNCHANGED <<calendar, shop, changes, ended>>
  BY DEF SendNotice
<1>3. duty[t] \in AtWork /\ BillRows BY <1>1, <1>2, DutyAtWork DEF BillInv
<1>4. PICK m : m = Mail(t) OBVIOUS
<1>5. m \in Notice /\ ~m.noted /\ m.day = duty[t].day BY <1>2, <1>3, <1>4, MailIsNotice
<1>6. /\ Len(notices') = n /\ DOMAIN notices' = 1..n /\ notices'[n] = m
      /\ \A i \in DOMAIN notices : notices'[i] = notices[i]
      /\ \A i \in DOMAIN notices' : i \in DOMAIN notices \/ i = n
      /\ n \notin DOMAIN notices /\ n \in Nat
  BY <1>1, <1>2, <1>4, <1>5, ReportDates
<1>7. /\ duty'[t].on /\ duty'[t].read = duty[t].read /\ duty'[t].day = duty[t].day /\ duty'[t].sent = n
      /\ \A u \in Tasks : u # t => duty'[u] = duty[u]
  BY <1>2, <1>3 DEF BillRows, AtWork
<1>8. OneTask'
  <2>1. \A u \in Tasks : u # t => ~duty'[u].on BY <1>2, <1>7 DEF ReportInv, OneTask
  <2>2. \A i \in DOMAIN notices' : notices'[i].noted /\ notices'[i].stage \in {Nothing, "WARNING"} =>
           shop'.reportAt # NoDate /\ notices'[i].day <= shop'.reportAt
    BY <1>2, <1>5, <1>6 DEF ReportInv, OneTask
  <2>3. /\ duty'[t].read.reportAt = shop'.reportAt /\ shop'.reportAt <= duty'[t].day
        /\ duty'[t].day <= calendar' /\ duty'[t].sent = Len(notices') /\ shop'.reportAt <= calendar'
    BY <1>2, <1>6, <1>7 DEF ReportInv, OneTask
  <2> QED BY <2>1, <2>2, <2>3 DEF OneTask
<1>9. ReportsApart'
  <2> SUFFICES ASSUME NEW i \in DOMAIN notices', NEW j \in DOMAIN notices', i < j, notices'[i].noted,
                      notices'[i].stage \in {Nothing, "WARNING"}, notices'[j].stage = Nothing
               PROVE  notices'[j].day - notices'[i].day >= ReportGap
    BY DEF ReportsApart
  <2>1. i \in DOMAIN notices /\ notices'[i] = notices[i] BY <1>5, <1>6
  <2>2. CASE j \in DOMAIN notices BY <1>6, <2>1, <2>2 DEF ReportInv, ReportsApart
  <2>3. CASE j = n
    <3>1. notices'[j] = m BY <1>6, <2>3
    <3>2. t = "reports"
      <4>1. CASE t = "billing"
        <5>1. m.stage # Nothing BY <1>2, <1>3, <1>4, <4>1, MailIsNotice DEF Due
        <5> QED BY <3>1, <5>1
      <4> QED BY <4>1, TaskNames
    <3>3. MonthlyDue(duty[t].read, duty[t].day) BY <1>2, <3>2, TaskNames DEF Due
    <3>4. duty[t].read.reportAt = shop.reportAt BY <1>2 DEF ReportInv, OneTask
    <3>5. shop.reportAt # NoDate /\ notices[i].day <= shop.reportAt BY <2>1 DEF ReportInv, OneTask
    <3>6. duty[t].day - shop.reportAt >= ReportGap BY <3>3, <3>4, <3>5 DEF MonthlyDue
    <3>7. notices[i].day \in Int /\ shop.reportAt \in Int /\ duty[t].day \in Int /\ ReportGap \in Int
      BY <1>1, <1>2, <2>1, ReportDates
    <3> QED BY <1>5, <2>1, <3>1, <3>5, <3>6, <3>7
  <2> QED BY <1>6, <2>2, <2>3
<1> QED BY <1>1, <1>8, <1>9 DEF ReportInv

LEMMA RecordNoticeApart ==
    ASSUME ReportInv, NEW t \in Tasks, RecordNotice(t)
    PROVE  ReportInv'
<1>1. BillInv /\ BillInv' BY RecordNoticeKeeps DEF ReportInv
<1>2. PICK s : s = duty[t].sent OBVIOUS
<1>3. /\ s \in DOMAIN notices /\ notices[s] = Mail(t)
      /\ shop'.reportAt = IF t = "reports" \/ notices[s].stage = "WARNING" THEN duty[t].day ELSE shop.reportAt
      /\ t = "billing" => notices[s].stage = NoticeDue(duty[t].read, duty[t].day)
      /\ Due(t)
  BY <1>1, <1>2, RecordedNotice
<1>4. duty'[t] = NoDuty /\ \A u \in Tasks : u # t => duty'[u] = duty[u] BY <1>1, <1>2, RecordedNotice
<1>5. /\ DOMAIN notices' = DOMAIN notices
      /\ notices'[s].stage = notices[s].stage /\ notices'[s].day = notices[s].day
      /\ \A k \in DOMAIN notices : k # s => notices'[k] = notices[k]
      /\ calendar' = calendar
  BY <1>1, <1>2, RecordedNotice
<1>6. duty[t].on /\ duty[t].sent # 0 /\ s = Len(notices) BY <1>2 DEF RecordNotice, ReportInv, OneTask
<1>7. notices[s].day = duty[t].day BY <1>1, <1>3, <1>6, MailIsNotice DEF BillInv
<1>8. /\ calendar \in Int /\ shop.reportAt \in Int /\ duty[t].day \in Int /\ DOMAIN notices = 1..Len(notices)
      /\ Len(notices) \in Nat /\ \A i \in DOMAIN notices : notices[i].day \in Int
  BY <1>1, <1>6, ReportDates
<1>9. /\ shop.reportAt <= duty[t].day /\ duty[t].day <= calendar /\ shop.reportAt <= calendar
      /\ \A u \in Tasks : u # t => ~duty[u].on
  BY <1>6 DEF ReportInv, OneTask
<1>10. duty[t].day # NoDate
  <2>1. duty[t] \in AtWork BY <1>1, <1>6, DutyAtWork DEF BillInv
  <2>2. duty[t].day \in 0..LastDay BY <2>1 DEF AtWork
  <2> QED BY <2>2, BillingAssumption DEF NoDate
<1>11. NoDuty.on = FALSE BY DEF NoDuty
<1>12. OneTask'
  <2>1. \A u \in Tasks : ~duty'[u].on BY <1>4, <1>9, <1>11
  <2>2. shop'.reportAt <= calendar' BY <1>3, <1>5, <1>8, <1>9
  <2>3. ASSUME NEW i \in DOMAIN notices', notices'[i].noted, notices'[i].stage \in {Nothing, "WARNING"}
        PROVE  shop'.reportAt # NoDate /\ notices'[i].day <= shop'.reportAt
    <3>1. CASE i = s
      <4>1. t = "billing" => notices[s].stage # Nothing BY <1>3, TaskNames DEF Due
      <4>2. t = "reports" \/ notices[s].stage = "WARNING" BY <1>5, <2>3, <3>1, <4>1, TaskNames
      <4>3. shop'.reportAt = duty[t].day BY <1>3, <4>2
      <4>4. notices'[i].day = duty[t].day BY <1>5, <1>7, <3>1
      <4> QED BY <1>8, <1>10, <4>3, <4>4
    <3>2. CASE i # s
      <4>1. notices'[i] = notices[i] BY <1>5, <3>2
      <4>2. shop.reportAt # NoDate /\ notices[i].day <= shop.reportAt
        BY <1>5, <2>3, <4>1 DEF ReportInv, OneTask
      <4>3. notices[i].day \in Int BY <1>5, <1>8
      <4>4. shop'.reportAt # NoDate BY <1>3, <1>10, <4>2
      <4>5. shop.reportAt <= shop'.reportAt /\ shop'.reportAt \in Int BY <1>3, <1>8, <1>9
      <4> QED BY <1>8, <4>1, <4>2, <4>3, <4>4, <4>5
    <3> QED BY <3>1, <3>2
  <2> QED BY <2>1, <2>2, <2>3 DEF OneTask
<1>13. ReportsApart'
  <2> SUFFICES ASSUME NEW i \in DOMAIN notices', NEW j \in DOMAIN notices', i < j, notices'[i].noted,
                      notices'[i].stage \in {Nothing, "WARNING"}, notices'[j].stage = Nothing
               PROVE  notices'[j].day - notices'[i].day >= ReportGap
    BY DEF ReportsApart
  <2>1. i # s
    <3>1. j <= Len(notices) BY <1>5, <1>8
    <3> QED BY <1>5, <1>6, <1>8, <3>1
  <2>2. notices'[i] = notices[i] /\ notices[i].noted BY <1>5, <2>1
  <2>3. notices[j].stage = Nothing /\ notices'[j].day = notices[j].day BY <1>5
  <2> QED BY <1>5, <2>2, <2>3 DEF ReportInv, ReportsApart
<1> QED BY <1>1, <1>12, <1>13 DEF ReportInv

LEMMA TaskOverApart ==
    ASSUME ReportInv, NEW t \in Tasks, SkipShop(t) \/ TaskDies(t)
    PROVE  ReportInv'
<1>1. BillInv' BY TaskOverKeeps DEF ReportInv
<1>2. duty' = [duty EXCEPT ![t] = NoDuty] /\ UNCHANGED <<calendar, shop, notices, changes>>
  BY DEF SkipShop, TaskDies
<1>3. duty'[t] = NoDuty /\ \A u \in Tasks : u # t => duty'[u] = duty[u]
  BY <1>2 DEF ReportInv, BillInv, BillRows
<1>4. NoDuty.on = FALSE BY DEF NoDuty
<1>5. OneTask' BY <1>2, <1>3, <1>4 DEF ReportInv, OneTask
<1> QED BY <1>1, <1>2, <1>5 DEF ReportInv, ReportsApart

LEMMA PlatformApart ==
    ASSUME ReportInv, (\E d \in DueDates \cup {NoDate} : SetPaidUntil(d)) \/ SetActive \/ DayPasses
    PROVE  ReportInv'
<1>1. BillInv /\ BillInv' /\ UNCHANGED <<duty, notices>> /\ shop'.reportAt = shop.reportAt /\ calendar <= calendar'
  BY PlatformKeeps DEF ReportInv
<1>2. calendar \in Int /\ calendar' \in Int /\ shop.reportAt \in Int
  <2>1. calendar \in 0..LastDay /\ calendar' \in 0..LastDay BY <1>1 DEF BillInv, BillRows
  <2> QED BY <1>1, <2>1, BillingAssumption, ReportDates
<1>3. \A t \in Tasks : duty[t].on => duty[t].day \in Int BY <1>1, ReportDates
<1>4. OneTask' BY <1>1, <1>2, <1>3 DEF ReportInv, OneTask
<1> QED BY <1>1, <1>4 DEF ReportInv, ReportsApart

LEMMA ReportStepKeeps ==
    ASSUME ReportInv, Together <= 1, [BillNext]_billVars
    PROVE  ReportInv'
<1>1. CASE UNCHANGED billVars
  BY <1>1 DEF billVars, ReportInv, OneTask, ReportsApart, BillInv, BillRows, Underway, Mail, Due, RowTellsLast,
              StagesInOrder, ForDate
<1>2. CASE BillNext
  BY <1>2, StartTaskApart, SendNoticeApart, RecordNoticeApart, TaskOverApart, PlatformApart DEF BillNext
<1> QED BY <1>1, <1>2

\* The shop's row keeps its type, and so does the row each task has read.
THEOREM BillTypeCorrect == BillSpec => []BillTypeOK
<1>1. BillInv => BillTypeOK
  <2> SUFFICES ASSUME BillInv, NEW t \in Tasks, duty[t].on PROVE duty[t].read \in ShopRow
    BY DEF BillInv, BillRows, BillTypeOK
  <2> QED BY ReportDates
<1>2. BillInit => BillInv BY BillStarts DEF ReportInv
<1> QED BY <1>1, <1>2, BillStepKeeps, PTL DEF BillSpec

\* For a date the e-mails of the stages go in order and none twice, however
\* many tasks work together, wherever they die, and whatever the platform sets
\* meanwhile.
THEOREM StagesGoInOrder == BillSpec => []StagesInOrder
<1>1. BillInit => BillInv BY BillStarts DEF ReportInv
<1>2. BillInv => StagesInOrder BY DEF BillInv
<1> QED BY <1>1, <1>2, BillStepKeeps, PTL DEF BillSpec

\* Where one task works at a time, the shop moreover hears once of its month,
\* whichever of the two tasks sent the report.
THEOREM NoticesHold == ASSUME Together <= 1 PROVE BillSpec => []NoticesRight
<1>1. ReportInv => NoticesRight BY DEF ReportInv, BillInv, NoticesRight
<1>2. ReportInv /\ [BillNext]_billVars => ReportInv' BY ReportStepKeeps
<1> QED BY <1>1, <1>2, BillStarts, PTL DEF BillSpec

-----------------------------------------------------------------------------
(* The limits of the plan: the inductive invariant.                        *)

Levels   == {0, 80, 100}
Loaded   == [at : {"loaded"}, plan : 0..PlanCount, pauses : BOOLEAN, month : Nat, already : Levels]
Warned   == [at : {"sent"}, month : Nat, level : Levels]
Reserved == [at : {"reserved"}, month : Nat]
Warning  == [month : Nat, level : Levels, plan : 0..PlanCount, waits : BOOLEAN, advice : 0..PlanCount]

UsageRows ==
    /\ plan \in 0..PlanCount /\ pauses \in BOOLEAN /\ usageClock \in 0..UsageHorizon /\ used \in 0..UsedMax
    /\ alertMonth \in Int /\ alertLevel \in Levels
    /\ check \in [Checks -> {NoCheck} \cup Loaded \cup Warned \cup Reserved]
    /\ warnings \in Seq(Warning) /\ budgetMails \in Seq(Nat)
    /\ said \in Seq(Nat) /\ noticed \in Seq(Nat) /\ answered \in Seq(Nat)
    /\ turn \in 0..Len(said) /\ Len(said) <= SaidMax
    /\ died \in 0..UsageDeaths /\ planMoves \in 0..PlanChanges

\* No warning goes beyond the level told for the month.
UpTo(month, level) ==
    \A i \in DOMAIN warnings : warnings[i].month <= month /\ (warnings[i].month = month => warnings[i].level <= level)

\* One run at most has loaded the shop: the alert it remembers, or the one the
\* row remembers when nothing waits to be written down, is the last one sent.
AlertIsLast ==
    died > 0 \/ together \/
    /\ \A r, s \in Checks : check[r].at \in {"loaded", "sent"} /\ check[s].at \in {"loaded", "sent"} => r = s
    /\ \A r \in Checks : check[r].at = "loaded" => check[r].month <= ThisMonth /\ UpTo(check[r].month, check[r].already)
    /\ \A r \in Checks : check[r].at = "sent" => check[r].month <= ThisMonth /\ UpTo(check[r].month, check[r].level)
    /\ (\A r \in Checks : check[r].at # "sent") => UpTo(alertMonth, alertLevel)
    /\ alertMonth <= ThisMonth

\* A month reserved is told by the run that reserved it, or was told already.
Reservations ==
    /\ \A i \in DOMAIN budgetMails : budgetMails[i] \in overBudget
    /\ \A r \in Checks : check[r].at = "reserved" =>
          /\ check[r].month \in overBudget /\ \A i \in DOMAIN budgetMails : budgetMails[i] # check[r].month
          /\ \A s \in Checks : check[s].at = "reserved" /\ check[s].month = check[r].month => r = s

\* The messages not weighed yet are the last, said at this hour.
AtThisHour ==
    /\ \A k \in DOMAIN said : said[k] <= usageClock
    /\ \A k \in (Len(said) - turn + 1)..Len(said) : said[k] = usageClock
    /\ \A i \in DOMAIN noticed : noticed[i] <= usageClock
    /\ \A i \in DOMAIN answered : answered[i] <= usageClock

\* Every answer was written at the time of a message weighed, its own.
Answers(g) ==
    /\ g \in [DOMAIN answered -> 1..(Len(said) - turn)]
    /\ \A i \in DOMAIN answered : said[g[i]] = answered[i]
    /\ \A i, j \in DOMAIN answered : g[i] = g[j] => i = j
EachItsOwn == \E g : Answers(g)

UsageInv ==
    /\ UsageRows /\ AlertIsLast /\ WarningsRise /\ Reservations /\ BudgetToldOnce
    /\ AtThisHour /\ EachItsOwn /\ AnswersBounded /\ NoticesApart

-----------------------------------------------------------------------------
(* The operators.                                                          *)

LEMMA DivRises ==
    ASSUME NEW a \in Nat, NEW b \in Nat, NEW d \in Nat \ {0}, a <= b
    PROVE  a \div d \in Nat /\ a \div d <= b \div d
<1> DEFINE p == a \div d
           q == b \div d
<1>1. p \in Int /\ q \in Int /\ d * p <= a /\ b < d * q + d /\ p >= 0
  OBVIOUS
<1> HIDE DEF p, q
<1>2. ASSUME p > q PROVE FALSE
  <2>1. p >= q + 1 BY <1>1, <1>2
  <2>2. d * p >= d * (q + 1) BY <1>1, <2>1
  <2>3. d * (q + 1) = d * q + d BY <1>1
  <2> QED BY <1>1, <2>2, <2>3
<1>3. p \in Nat /\ p <= q BY <1>1, <1>2
<1> QED BY <1>3 DEF p, q

\* The plan advised is the first that covers what is used.
LEMMA AdviceIsPlan ==
    ASSUME NEW p \in 0..PlanCount, NEW n \in Nat
    PROVE  /\ Suggested(p, n) \in 0..PlanCount
           /\ Suggested(p, n) # 0 => Suggested(p, n) > p
<1> DEFINE fits == {q \in (p + 1)..PlanCount : PlanQuota[q] = 0 \/ PlanQuota[q] >= n}
<1>1. PlanCount \in Nat /\ p \in Nat /\ fits \subseteq Nat /\ \A q \in fits : q \in 0..PlanCount /\ q > p
  BY SMTT(20), UsageAssumption
<1>2. CASE p = 0 \/ fits = {} BY <1>1, <1>2 DEF Suggested
<1>3. CASE ~(p = 0 \/ fits = {})
  <2> DEFINE c == CHOOSE q \in fits : \A r \in fits : q <= r
  <2>1. Suggested(p, n) = c BY <1>3 DEF Suggested
  <2>2. \E q \in fits : \A r \in fits : q <= r
    <3> HIDE DEF fits
    <3>1. PICK m \in fits : \A y \in fits : ~(<<y, m>> \in OpToRel(<, Nat))
      BY <1>1, <1>3, WFMin, NatLessThanWellFounded
    <3>2. \A y \in fits : ~(y < m) BY <1>1, <3>1 DEF OpToRel
    <3>3. \A y \in fits : m <= y BY <1>1, <3>2
    <3> QED BY <3>3
  <2>3. c \in fits
    <3> HIDE DEF fits
    <3> QED BY <2>2
  <2> HIDE DEF c, fits
  <2> QED BY <1>1, <2>1, <2>3
<1> QED BY <1>2, <1>3

LEMMA LevelIsLevel ==
    ASSUME NEW n, NEW limit
    PROVE  LevelOf(n, limit) \in Levels
BY DEF LevelOf, Levels

LEMMA CheckKinds ==
    ASSUME UsageRows, NEW r \in Checks
    PROVE  /\ check[r].at = "idle" <=> check[r] = NoCheck
           /\ check[r].at = "loaded" <=> check[r] \in Loaded
           /\ check[r].at = "sent" <=> check[r] \in Warned
           /\ check[r].at = "reserved" <=> check[r] \in Reserved
           /\ check[r].at \in {"idle", "loaded", "sent", "reserved"}
<1>1. check[r] \in {NoCheck} \cup Loaded \cup Warned \cup Reserved BY DEF UsageRows
<1> QED BY <1>1 DEF NoCheck, Loaded, Warned, Reserved

LEMMA MonthIsNumber ==
    ASSUME UsageRows
    PROVE  ThisMonth \in Nat /\ usageClock \in Nat
<1>1. usageClock \in Nat BY UsageAssumption DEF UsageRows
<1>2. MonthLength \in Nat \ {0} BY UsageAssumption
<1> QED BY <1>1, <1>2, DivRises DEF ThisMonth

\* What the hourly run does not touch.
LEMMA PeopleUntouched ==
    ASSUME UsageInv, UNCHANGED <<usageClock, said, noticed, answered, turn>>, together => together'
    PROVE  (AtThisHour /\ EachItsOwn /\ AnswersBounded /\ NoticesApart)'
<1>1. AtThisHour' BY DEF UsageInv, AtThisHour
<1>2. EachItsOwn' BY DEF UsageInv, EachItsOwn, Answers
<1>3. AnswersBounded' BY DEF UsageInv, AnswersBounded
<1>4. NoticesApart' BY DEF UsageInv, NoticesApart
<1> QED BY <1>1, <1>2, <1>3, <1>4

-----------------------------------------------------------------------------
(* The hourly run.                                                         *)

LEMMA StartCheckKeeps ==
    ASSUME UsageInv, NEW r \in Checks, StartCheck(r)
    PROVE  UsageInv'
<1> DEFINE c == [at |-> "loaded", plan |-> plan, pauses |-> pauses, month |-> ThisMonth,
                 already |-> IF alertMonth = ThisMonth THEN alertLevel ELSE 0]
<1>1. /\ check[r] = NoCheck /\ check' = [check EXCEPT ![r] = c]
      /\ together' = (together \/ \E s \in Checks \ {r} : check[s].at = "loaded" \/ check[s].at = "sent")
      /\ UNCHANGED <<usageClock, plan, pauses, used, planMoves, alertMonth, alertLevel, warnings, overBudget,
                     budgetMails, said, noticed, answered, turn, died>>
  BY DEF StartCheck, theShop, theAlerts, theBudget, thePeople
<1>2. UsageRows /\ ThisMonth \in Nat /\ ThisMonth' = ThisMonth BY <1>1, MonthIsNumber DEF UsageInv, ThisMonth
<1>3. /\ c \in Loaded /\ c.at = "loaded" /\ c.month = ThisMonth
      /\ c.already = IF alertMonth = ThisMonth THEN alertLevel ELSE 0
  BY <1>2 DEF UsageRows, Loaded, Levels
<1> HIDE DEF c
<1>4. /\ check' \in [Checks -> {NoCheck} \cup Loaded \cup Warned \cup Reserved]
      /\ check'[r] = c /\ \A s \in Checks : s # r => check'[s] = check[s]
  BY <1>1, <1>2, <1>3 DEF UsageRows
<1>5. UsageRows' BY <1>1, <1>2, <1>4 DEF UsageRows
<1>6. Reservations' BY <1>1, <1>3, <1>4 DEF UsageInv, Reservations
<1>7. check[r].at = "idle" BY <1>1 DEF NoCheck
<1>8. ASSUME died = 0, ~together' PROVE AlertIsLast'
  <2>1. ~together /\ \A s \in Checks : s # r => check[s].at \notin {"loaded", "sent"} BY <1>1, <1>8
  <2>2. \A s \in Checks : check[s].at # "sent" BY <1>7, <2>1
  <2>3. UpTo(alertMonth, alertLevel) /\ alertMonth <= ThisMonth BY <1>8, <2>1, <2>2 DEF UsageInv, AlertIsLast
  <2>4. UpTo(ThisMonth, c.already)
    <3> SUFFICES ASSUME NEW i \in DOMAIN warnings
                 PROVE  /\ warnings[i].month <= ThisMonth
                        /\ warnings[i].month = ThisMonth => warnings[i].level <= c.already
      BY DEF UpTo
    <3>1. warnings[i].month \in Nat
      <4>1. warnings[i] \in Warning BY <1>2 DEF UsageRows
      <4> QED BY <4>1 DEF Warning
    <3>2. alertMonth \in Int BY <1>2 DEF UsageRows
    <3> QED BY <1>2, <1>3, <2>3, <3>1, <3>2 DEF UpTo
  <2>5. \A s \in Checks : check'[s].at \in {"loaded", "sent"} => s = r BY <1>4, <2>1
  <2>6. \A s \in Checks : check'[s].at # "sent" BY <1>3, <1>4, <2>2
  <2>7. ThisMonth <= ThisMonth' BY <1>2
  <2> QED BY <1>1, <1>2, <1>3, <1>4, <2>3, <2>4, <2>5, <2>6, <2>7 DEF AlertIsLast, UpTo
<1>9. AlertIsLast'
  <2>1. died' = died /\ died \in Nat BY <1>1, <1>2, UsageAssumption DEF UsageRows
  <2> QED BY <1>8, <2>1 DEF AlertIsLast
<1>10. WarningsRise' /\ BudgetToldOnce' BY <1>1 DEF UsageInv, WarningsRise, BudgetToldOnce
<1> QED BY <1>1, <1>5, <1>6, <1>9, <1>10, PeopleUntouched DEF UsageInv

\* The warning leaves, above the level the run has loaded; or nothing does.
LEMMA WarnShopKeeps ==
    ASSUME UsageInv, NEW r \in Checks, WarnShop(r)
    PROVE  UsageInv'
<1> DEFINE level == LevelOf(used, LimitOf(check[r].plan))
           w == [month |-> check[r].month, level |-> level, plan |-> check[r].plan,
                 waits |-> check[r].pauses /\ used > LimitOf(check[r].plan),
                 advice |-> Suggested(check[r].plan, used)]
           c == [at |-> "sent", month |-> check[r].month, level |-> level]
<1>1. /\ check[r].at = "loaded"
      /\ \/ /\ level > check[r].already
            /\ warnings' = Append(warnings, w) /\ check' = [check EXCEPT ![r] = c]
         \/ warnings' = warnings /\ check' = [check EXCEPT ![r] = NoCheck]
      /\ UNCHANGED <<usageClock, plan, pauses, used, planMoves, alertMonth, alertLevel, overBudget,
                     budgetMails, said, noticed, answered, turn, together, died>>
  BY DEF WarnShop, WarningDue, theShop, theBudget, thePeople
<1>2. UsageRows /\ ThisMonth' = ThisMonth /\ check[r] \in Loaded BY <1>1, CheckKinds DEF UsageInv, ThisMonth
<1>3. check[r].month \in Nat /\ check[r].already \in Levels /\ check[r].plan \in 0..PlanCount
  BY <1>2 DEF Loaded
<1>4. level \in Levels BY LevelIsLevel
<1>5. Suggested(check[r].plan, used) \in 0..PlanCount
  <2>1. used \in Nat BY <1>2, UsageAssumption DEF UsageRows
  <2> QED BY <1>3, <2>1, AdviceIsPlan
<1>6. w \in Warning /\ w.month = check[r].month /\ w.level = level
  <2>1. (check[r].pauses /\ used > LimitOf(check[r].plan)) \in BOOLEAN OBVIOUS
  <2> HIDE DEF level
  <2> QED BY <1>3, <1>4, <1>5, <2>1 DEF Warning
<1>7. c \in Warned /\ c.at = "sent" /\ c.month = check[r].month /\ c.level = level BY <1>3, <1>4 DEF Warned
<1> HIDE DEF level, w, c
<1>8. ASSUME died = 0, ~together
      PROVE  /\ \A s \in Checks : check[s].at \in {"loaded", "sent"} => s = r
             /\ check[r].month <= ThisMonth /\ UpTo(check[r].month, check[r].already)
             /\ UpTo(alertMonth, alertLevel) /\ alertMonth <= ThisMonth
  <2>1. ~(died > 0 \/ together) BY <1>8
  <2>2. AlertIsLast BY DEF UsageInv
  <2>3. \A s \in Checks : check[s].at \in {"loaded", "sent"} => s = r BY <1>1, <2>1, <2>2 DEF AlertIsLast
  <2>4. \A s \in Checks : check[s].at # "sent" BY <1>1, <2>3
  <2> QED BY <1>1, <2>1, <2>2, <2>3, <2>4 DEF AlertIsLast
<1>9. died' = died /\ died \in Nat BY <1>1, <1>2, UsageAssumption DEF UsageRows
<1>10. CASE /\ level > check[r].already
            /\ warnings' = Append(warnings, w) /\ check' = [check EXCEPT ![r] = c]
  <2> DEFINE n == Len(warnings) + 1
  <2>1. /\ warnings \in Seq(Warning) /\ warnings' \in Seq(Warning) /\ DOMAIN warnings' = 1..n
        /\ DOMAIN warnings = 1..Len(warnings) /\ Len(warnings) \in Nat /\ warnings'[n] = w
        /\ \A i \in DOMAIN warnings : warnings'[i] = warnings[i]
        /\ \A i \in DOMAIN warnings' : i \in DOMAIN warnings \/ i = n
        /\ \A i \in DOMAIN warnings : i \in Int /\ i < n
    BY <1>2, <1>6, <1>10 DEF UsageRows
  <2>2. /\ check' \in [Checks -> {NoCheck} \cup Loaded \cup Warned \cup Reserved]
        /\ check'[r] = c /\ \A s \in Checks : s # r => check'[s] = check[s]
    BY <1>2, <1>7, <1>10 DEF UsageRows
  <2>3. UsageRows' BY <1>1, <1>2, <2>1, <2>2 DEF UsageRows
  <2>4. Reservations' BY <1>1, <1>7, <2>2 DEF UsageInv, Reservations
  <2>5. \A i \in DOMAIN warnings : warnings[i].month \in Nat /\ warnings[i].level \in Levels
    <3> SUFFICES ASSUME NEW i \in DOMAIN warnings PROVE warnings[i].month \in Nat /\ warnings[i].level \in Levels
      OBVIOUS
    <3>1. warnings[i] \in Warning BY <2>1
    <3> QED BY <3>1 DEF Warning
  <2>6. ASSUME died = 0, ~together PROVE AlertIsLast' /\ WarningsRise'
    <3>1. \A i \in DOMAIN warnings : /\ warnings[i].month <= check[r].month
                                     /\ warnings[i].month = check[r].month => warnings[i].level < level
      BY <1>3, <1>4, <1>8, <1>10, <2>5, <2>6 DEF UpTo, Levels
    <3>2. \A i \in DOMAIN warnings' : /\ warnings'[i].month <= check[r].month
                                      /\ warnings'[i].month = check[r].month => warnings'[i].level <= level
      BY <1>3, <1>4, <1>6, <2>1, <2>5, <3>1 DEF Levels
    <3>4. \A s \in Checks : check'[s].at \in {"loaded", "sent"} => s = r BY <1>8, <2>2, <2>6
    <3>5. check'[r].at = "sent" BY <1>7, <2>2
    <3>6. AlertIsLast'
      <4>1. \A s \in Checks : check'[s].at = "loaded" => FALSE BY <3>4, <3>5
      <4>2. check[r].month <= ThisMonth /\ alertMonth <= ThisMonth BY <1>8, <2>6
      <4>3. \A s \in Checks : check'[s].at = "sent" => check'[s].month <= ThisMonth' /\ UpTo(check[s].month, check[s].level)'
        BY <1>2, <1>7, <2>2, <3>2, <3>4, <4>2 DEF UpTo
      <4> QED BY <1>1, <1>2, <3>4, <3>5, <4>1, <4>2, <4>3 DEF AlertIsLast
    <3>7. WarningsRise'
      <4> SUFFICES ASSUME NEW i \in DOMAIN warnings', NEW j \in DOMAIN warnings', i < j,
                          warnings'[i].month = warnings'[j].month
                   PROVE  warnings'[i].level < warnings'[j].level
        BY DEF WarningsRise
      <4>1. i \in DOMAIN warnings
        <5>1. i \in 1..n /\ j \in 1..n /\ n \in Int BY <2>1
        <5> QED BY <2>1, <5>1
      <4>2. CASE j = n BY <1>6, <2>1, <3>1, <4>1, <4>2
      <4>3. CASE j \in DOMAIN warnings
        <5>1. WarningsRise BY DEF UsageInv
        <5>2. ~(died > 0) BY <2>6
        <5> QED BY <2>1, <2>6, <4>1, <4>3, <5>1, <5>2 DEF WarningsRise
      <4> QED BY <2>1, <4>2, <4>3
    <3> QED BY <3>6, <3>7
  <2>7. AlertIsLast' /\ WarningsRise' BY <1>1, <1>9, <2>6 DEF AlertIsLast, WarningsRise
  <2>8. BudgetToldOnce' BY <1>1 DEF UsageInv, BudgetToldOnce
  <2>9. (AtThisHour /\ EachItsOwn /\ AnswersBounded /\ NoticesApart)' BY <1>1, PeopleUntouched
  <2> QED BY <2>3, <2>4, <2>7, <2>8, <2>9 DEF UsageInv
<1>11. CASE warnings' = warnings /\ check' = [check EXCEPT ![r] = NoCheck]
  <2>1. /\ check' \in [Checks -> {NoCheck} \cup Loaded \cup Warned \cup Reserved]
        /\ check'[r] = NoCheck /\ \A s \in Checks : s # r => check'[s] = check[s]
    BY <1>2, <1>11 DEF UsageRows
  <2>2. NoCheck.at = "idle" BY DEF NoCheck
  <2>3. UsageRows' BY <1>1, <1>2, <1>11, <2>1 DEF UsageRows
  <2>4. Reservations' BY <1>1, <2>1, <2>2 DEF UsageInv, Reservations
  <2>5. ASSUME died = 0, ~together PROVE AlertIsLast'
    <3>1. \A s \in Checks : check'[s].at \notin {"loaded", "sent"} BY <1>8, <2>1, <2>2, <2>5
    <3>2. UpTo(alertMonth, alertLevel) /\ alertMonth <= ThisMonth BY <1>8, <2>5
    <3> QED BY <1>1, <1>2, <1>11, <3>1, <3>2 DEF AlertIsLast, UpTo
  <2>6. AlertIsLast' BY <1>1, <1>9, <2>5 DEF AlertIsLast
  <2>7. WarningsRise' /\ BudgetToldOnce' BY <1>1, <1>11 DEF UsageInv, WarningsRise, BudgetToldOnce
  <2>8. (AtThisHour /\ EachItsOwn /\ AnswersBounded /\ NoticesApart)' BY <1>1, PeopleUntouched
  <2> QED BY <2>3, <2>4, <2>6, <2>7, <2>8 DEF UsageInv
<1> QED BY <1>1, <1>10, <1>11

\* A run that ends, whatever it was at.
LEMMA CheckOver ==
    ASSUME UsageRows, NEW r \in Checks, check' = [check EXCEPT ![r] = NoCheck]
    PROVE  /\ check' \in [Checks -> {NoCheck} \cup Loaded \cup Warned \cup Reserved]
           /\ check'[r].at = "idle" /\ \A s \in Checks : s # r => check'[s] = check[s]
BY DEF UsageRows, NoCheck

LEMMA RecordWarningKeeps ==
    ASSUME UsageInv, NEW r \in Checks, RecordWarning(r)
    PROVE  UsageInv'
<1>1. /\ check[r].at = "sent" /\ alertMonth' = check[r].month /\ alertLevel' = check[r].level
      /\ check' = [check EXCEPT ![r] = NoCheck]
      /\ UNCHANGED <<usageClock, plan, pauses, used, planMoves, warnings, overBudget, budgetMails,
                     said, noticed, answered, turn, together, died>>
  BY DEF RecordWarning, theShop, theBudget, thePeople
<1>2. UsageRows /\ ThisMonth' = ThisMonth /\ check[r] \in Warned BY <1>1, CheckKinds DEF UsageInv, ThisMonth
<1>3. check[r].month \in Int /\ check[r].level \in Levels
  <2>1. check[r].month \in Nat /\ check[r].level \in Levels BY <1>2 DEF Warned
  <2> QED BY <2>1
<1>4. /\ check' \in [Checks -> {NoCheck} \cup Loaded \cup Warned \cup Reserved]
      /\ check'[r].at = "idle" /\ \A s \in Checks : s # r => check'[s] = check[s]
  BY <1>1, <1>2, CheckOver
<1>5. UsageRows' BY <1>1, <1>2, <1>3, <1>4 DEF UsageRows
<1>6. Reservations' BY <1>1, <1>4 DEF UsageInv, Reservations
<1>7. ASSUME died = 0, ~together PROVE AlertIsLast'
  <2>1. ~(died > 0 \/ together) /\ AlertIsLast BY <1>7 DEF UsageInv
  <2>2. /\ \A s \in Checks : check[s].at \in {"loaded", "sent"} => s = r
        /\ check[r].month <= ThisMonth /\ UpTo(check[r].month, check[r].level)
    BY <1>1, <2>1 DEF AlertIsLast
  <2>3. \A s \in Checks : check'[s].at \notin {"loaded", "sent"} BY <1>4, <2>2
  <2> QED BY <1>1, <1>2, <2>2, <2>3 DEF AlertIsLast, UpTo
<1>8. AlertIsLast'
  <2>1. died' = died /\ died \in Nat BY <1>1, <1>2, UsageAssumption DEF UsageRows
  <2> QED BY <1>1, <1>7, <2>1 DEF AlertIsLast
<1>9. WarningsRise' /\ BudgetToldOnce' BY <1>1 DEF UsageInv, WarningsRise, BudgetToldOnce
<1> QED BY <1>1, <1>5, <1>6, <1>8, <1>9, PeopleUntouched DEF UsageInv

LEMMA BreakCheckKeeps ==
    ASSUME UsageInv, NEW r \in Checks, BreakCheck(r)
    PROVE  UsageInv'
<1>1. /\ died < UsageDeaths /\ died' = died + 1 /\ check' = [check EXCEPT ![r] = NoCheck]
      /\ UNCHANGED <<usageClock, plan, pauses, used, planMoves, alertMonth, alertLevel, warnings, overBudget,
                     budgetMails, said, noticed, answered, turn, together>>
  BY DEF BreakCheck, theShop, theAlerts, theBudget, thePeople
<1>2. UsageRows BY DEF UsageInv
<1>3. /\ check' \in [Checks -> {NoCheck} \cup Loaded \cup Warned \cup Reserved]
      /\ check'[r].at = "idle" /\ \A s \in Checks : s # r => check'[s] = check[s]
  BY <1>1, <1>2, CheckOver
<1>4. died' \in 0..UsageDeaths /\ died' > 0 BY SMTT(20), <1>1, <1>2, UsageAssumption DEF UsageRows
<1>5. UsageRows' BY <1>1, <1>2, <1>3, <1>4 DEF UsageRows
<1>6. Reservations' BY <1>1, <1>3 DEF UsageInv, Reservations
<1>7. AlertIsLast' /\ WarningsRise' BY <1>4 DEF AlertIsLast, WarningsRise
<1>8. BudgetToldOnce' BY <1>1 DEF UsageInv, BudgetToldOnce
<1> QED BY <1>1, <1>5, <1>6, <1>7, <1>8, PeopleUntouched DEF UsageInv

\* What the budget does not touch: no run that has loaded the shop moves.
LEMMA AlertsUntouched ==
    ASSUME UsageInv, UNCHANGED <<usageClock, alertMonth, alertLevel, warnings, died>>, together => together',
           \A s \in Checks : \/ check'[s] = check[s]
                             \/ check[s].at \notin {"loaded", "sent"} /\ check'[s].at \notin {"loaded", "sent"}
    PROVE  AlertIsLast' /\ WarningsRise'
<1>1. ThisMonth' = ThisMonth BY DEF ThisMonth
<1>2. WarningsRise' BY DEF UsageInv, WarningsRise
<1>3. ASSUME ~(died > 0), ~together' PROVE AlertIsLast'
  <2>1. AlertIsLast /\ ~(died > 0 \/ together) BY <1>3 DEF UsageInv
  <2>2. \A s \in Checks : /\ (check'[s].at = "loaded" <=> check[s].at = "loaded")
                          /\ (check'[s].at = "sent" <=> check[s].at = "sent")
                          /\ check'[s].at \in {"loaded", "sent"} => check'[s] = check[s]
    OBVIOUS
  <2>3. \A r, s \in Checks : check'[r].at \in {"loaded", "sent"} /\ check'[s].at \in {"loaded", "sent"} => r = s
    BY <2>1, <2>2 DEF AlertIsLast
  <2>4. \A r \in Checks : check'[r].at = "loaded" =>
            check'[r].month <= ThisMonth /\ UpTo(check[r].month, check[r].already) /\ check'[r] = check[r]
    BY <2>1, <2>2 DEF AlertIsLast
  <2>5. \A r \in Checks : check'[r].at = "sent" =>
            check'[r].month <= ThisMonth /\ UpTo(check[r].month, check[r].level) /\ check'[r] = check[r]
    BY <2>1, <2>2 DEF AlertIsLast
  <2>6. (\A r \in Checks : check'[r].at # "sent") => UpTo(alertMonth, alertLevel)
    BY <2>1, <2>2 DEF AlertIsLast
  <2>7. alertMonth <= ThisMonth BY <2>1 DEF AlertIsLast
  <2> QED BY <1>1, <2>3, <2>4, <2>5, <2>6, <2>7 DEF AlertIsLast, UpTo
<1>4. AlertIsLast'
  <2>1. CASE died > 0 \/ together' BY <2>1 DEF AlertIsLast
  <2>2. CASE ~(died > 0 \/ together') BY <1>3, <2>2
  <2> QED BY <2>1, <2>2
<1> QED BY <1>2, <1>4

-----------------------------------------------------------------------------
(* The budget.                                                             *)

LEMMA ReserveMonthKeeps ==
    ASSUME UsageInv, NEW r \in Checks, ReserveMonth(r)
    PROVE  UsageInv'
<1> DEFINE c == [at |-> "reserved", month |-> ThisMonth]
<1>1. /\ check[r] = NoCheck /\ ThisMonth \notin overBudget /\ overBudget' = overBudget \cup {ThisMonth}
      /\ check' = [check EXCEPT ![r] = c]
      /\ UNCHANGED <<usageClock, plan, pauses, used, planMoves, alertMonth, alertLevel, warnings,
                     budgetMails, said, noticed, answered, turn, together, died>>
  BY DEF ReserveMonth, theShop, theAlerts, thePeople
<1>2. UsageRows /\ ThisMonth \in Nat BY MonthIsNumber DEF UsageInv
<1>3. PICK m : m = ThisMonth OBVIOUS
<1>4. c \in Reserved /\ c.at = "reserved" /\ c.month = m /\ check[r].at = "idle"
  BY <1>1, <1>2, <1>3 DEF Reserved, NoCheck
<1> HIDE DEF c
<1>5. /\ check' \in [Checks -> {NoCheck} \cup Loaded \cup Warned \cup Reserved]
      /\ check'[r] = c /\ \A s \in Checks : s # r => check'[s] = check[s]
  BY <1>1, <1>2, <1>4 DEF UsageRows
<1>6. UsageRows' BY <1>1, <1>2, <1>5 DEF UsageRows
<1>7. Reservations'
  <2>1. Reservations /\ m \notin overBudget /\ overBudget' = overBudget \cup {m} BY <1>1, <1>3 DEF UsageInv
  <2>2. \A i \in DOMAIN budgetMails : budgetMails[i] \in overBudget /\ budgetMails[i] # m BY <2>1 DEF Reservations
  <2>3. \A s \in Checks : s # r /\ check[s].at = "reserved" => check[s].month \in overBudget /\ check[s].month # m
    BY <2>1 DEF Reservations
  <2>4. ASSUME NEW s \in Checks, check'[s].at = "reserved"
        PROVE  /\ check'[s].month \in overBudget' /\ \A i \in DOMAIN budgetMails : budgetMails[i] # check'[s].month
               /\ \A u \in Checks : check'[u].at = "reserved" /\ check'[u].month = check'[s].month => s = u
    <3>1. CASE s = r BY <1>4, <1>5, <2>1, <2>2, <2>3, <3>1
    <3>2. CASE s # r BY <1>4, <1>5, <2>1, <2>3, <2>4, <3>2 DEF Reservations
    <3> QED BY <3>1, <3>2
  <2> QED BY <1>1, <2>1, <2>2, <2>4 DEF Reservations
<1>8. AlertIsLast' /\ WarningsRise' BY <1>1, <1>4, <1>5, AlertsUntouched
<1>9. BudgetToldOnce' BY <1>1 DEF UsageInv, BudgetToldOnce
<1> QED BY <1>1, <1>6, <1>7, <1>8, <1>9, PeopleUntouched DEF UsageInv

LEMMA TellBudgetKeeps ==
    ASSUME UsageInv, NEW r \in Checks, TellBudget(r)
    PROVE  UsageInv'
<1>1. /\ check[r].at = "reserved" /\ budgetMails' = Append(budgetMails, check[r].month)
      /\ check' = [check EXCEPT ![r] = NoCheck]
      /\ UNCHANGED <<usageClock, plan, pauses, used, planMoves, alertMonth, alertLevel, warnings, overBudget,
                     said, noticed, answered, turn, together, died>>
  BY DEF TellBudget, theShop, theAlerts, thePeople
<1>2. UsageRows /\ check[r] \in Reserved BY <1>1, CheckKinds DEF UsageInv
<1>3. PICK m : m = check[r].month OBVIOUS
<1>4. m \in Nat BY <1>2, <1>3 DEF Reserved
<1>5. /\ check' \in [Checks -> {NoCheck} \cup Loaded \cup Warned \cup Reserved]
      /\ check'[r].at = "idle" /\ \A s \in Checks : s # r => check'[s] = check[s]
  BY <1>1, <1>2, CheckOver
<1> DEFINE n == Len(budgetMails) + 1
<1>6. /\ budgetMails' \in Seq(Nat) /\ budgetMails'[n] = m
      /\ \A i \in DOMAIN budgetMails : i # n /\ budgetMails'[i] = budgetMails[i]
      /\ \A i \in DOMAIN budgetMails' : i \in DOMAIN budgetMails \/ i = n
  <2>1. budgetMails \in Seq(Nat) /\ budgetMails' = Append(budgetMails, m) BY <1>1, <1>2, <1>3 DEF UsageRows
  <2> QED BY <1>4, <2>1
<1> HIDE DEF n
<1>7. UsageRows' BY <1>1, <1>2, <1>5, <1>6 DEF UsageRows
<1>8. Reservations /\ m \in overBudget /\ \A i \in DOMAIN budgetMails : budgetMails[i] # m /\ budgetMails[i] \in overBudget
  BY <1>1, <1>3 DEF UsageInv, Reservations
<1>9. \A s \in Checks : s # r /\ check[s].at = "reserved" => check[s].month # m
  BY <1>1, <1>3, <1>8 DEF Reservations
<1>10. BudgetToldOnce'
  <2>1. BudgetToldOnce BY DEF UsageInv
  <2> QED BY <1>6, <1>8, <2>1 DEF BudgetToldOnce
<1>11. Reservations'
  <2>1. \A i \in DOMAIN budgetMails' : budgetMails'[i] \in overBudget BY <1>6, <1>8
  <2>2. ASSUME NEW s \in Checks, check'[s].at = "reserved"
        PROVE  /\ check'[s].month \in overBudget /\ \A i \in DOMAIN budgetMails' : budgetMails'[i] # check'[s].month
               /\ \A u \in Checks : check'[u].at = "reserved" /\ check'[u].month = check'[s].month => s = u
    <3>1. s # r /\ check'[s] = check[s] /\ check[s].at = "reserved" BY <1>5, <2>2
    <3>2. check[s].month \in overBudget /\ \A i \in DOMAIN budgetMails : budgetMails[i] # check[s].month
      BY <1>8, <3>1 DEF Reservations
    <3>3. \A i \in DOMAIN budgetMails' : budgetMails'[i] # check[s].month BY <1>6, <1>9, <3>1, <3>2
    <3>4. \A u \in Checks : check'[u].at = "reserved" /\ check'[u].month = check[s].month => s = u
      BY <1>5, <1>8, <3>1 DEF Reservations
    <3> QED BY <3>1, <3>2, <3>3, <3>4
  <2> QED BY <1>1, <2>1, <2>2 DEF Reservations
<1>12. AlertIsLast' /\ WarningsRise' BY <1>1, <1>5, AlertsUntouched
<1> QED BY <1>1, <1>7, <1>10, <1>11, <1>12, PeopleUntouched DEF UsageInv

-----------------------------------------------------------------------------
(* The messages of the customer.                                           *)

\* What the hourly run keeps is not touched by the people.
LEMMA ChecksUntouched ==
    ASSUME UsageInv, UNCHANGED <<usageClock, alertMonth, alertLevel, warnings, overBudget, budgetMails, check, died>>,
           together => together'
    PROVE  (AlertIsLast /\ WarningsRise /\ Reservations /\ BudgetToldOnce)'
<1>1. AlertIsLast' /\ WarningsRise' BY AlertsUntouched
<1>2. Reservations' BY DEF UsageInv, Reservations
<1>3. BudgetToldOnce' BY DEF UsageInv, BudgetToldOnce
<1> QED BY <1>1, <1>2, <1>3

LEMMA StoreMessageKeeps ==
    ASSUME UsageInv, StoreMessage
    PROVE  UsageInv'
<1> DEFINE n == Len(said) + 1
<1>1. /\ Len(said) < SaidMax /\ said' = Append(said, usageClock) /\ turn' = turn + 1 /\ together' = (together \/ turn > 0)
      /\ UNCHANGED <<plan, pauses, used, planMoves, usageClock, alertMonth, alertLevel, warnings, overBudget,
                     budgetMails, noticed, answered, check, died>>
  BY DEF StoreMessage, theAlerts, theBudget
<1>2. UsageRows /\ usageClock \in Nat BY MonthIsNumber DEF UsageInv
<1>3. SaidMax \in Nat BY UsageAssumption
<1>4. /\ said' \in Seq(Nat) /\ Len(said') = n /\ DOMAIN said' = 1..n /\ said'[n] = usageClock
      /\ DOMAIN said = 1..Len(said) /\ Len(said) \in Nat /\ turn \in Nat /\ turn <= Len(said)
      /\ \A k \in DOMAIN said : said'[k] = said[k]
      /\ \A k \in DOMAIN said' : k \in DOMAIN said \/ k = n
  BY SMTT(20), <1>1, <1>2 DEF UsageRows
<1>5. UsageRows'
  <2>1. turn' \in 0..Len(said') /\ Len(said') <= SaidMax BY <1>1, <1>3, <1>4
  <2> QED BY <1>1, <1>2, <1>4, <2>1 DEF UsageRows
<1>6. AtThisHour'
  <2>1. AtThisHour BY DEF UsageInv
  <2>2. \A k \in DOMAIN said' : said'[k] <= usageClock BY <1>2, <1>4, <2>1 DEF AtThisHour
  <2>3. \A k \in (Len(said') - turn' + 1)..Len(said') : said'[k] = usageClock
    <3> SUFFICES ASSUME NEW k \in (Len(said') - turn' + 1)..Len(said') PROVE said'[k] = usageClock OBVIOUS
    <3>1. k \in (Len(said) - turn + 1)..n BY <1>1, <1>4
    <3>2. CASE k = n BY <1>4, <3>2
    <3>3. CASE k # n
      <4>1. k \in (Len(said) - turn + 1)..Len(said) /\ k \in DOMAIN said BY <1>4, <3>1, <3>3
      <4> QED BY <1>4, <2>1, <4>1 DEF AtThisHour
    <3> QED BY <3>2, <3>3
  <2> QED BY <1>1, <2>1, <2>2, <2>3 DEF AtThisHour
<1>7. EachItsOwn'
  <2>1. PICK g : Answers(g) BY DEF UsageInv, EachItsOwn
  <2>2. Len(said') - turn' = Len(said) - turn BY <1>1, <1>4
  <2>3. \A i \in DOMAIN answered : g[i] \in DOMAIN said
    <3> SUFFICES ASSUME NEW i \in DOMAIN answered PROVE g[i] \in DOMAIN said OBVIOUS
    <3>1. g[i] \in 1..(Len(said) - turn) BY <2>1 DEF Answers
    <3> QED BY <1>4, <3>1
  <2>4. Answers(g)' BY <1>1, <1>4, <2>1, <2>2, <2>3 DEF Answers
  <2> QED BY <2>4 DEF EachItsOwn
<1>8. AnswersBounded' /\ NoticesApart' BY <1>1 DEF UsageInv, AnswersBounded, NoticesApart
<1> QED BY <1>1, <1>5, <1>6, <1>7, <1>8, ChecksUntouched DEF UsageInv

\* When a customer has had no notice within the hour, a new one is far from all.
LEMMA NoNoticeWithin ==
    ASSUME UsageRows, ~(Within(noticed) > 0)
    PROVE  \A i \in DOMAIN noticed : usageClock - noticed[i] > HourLength
<1> DEFINE N == {i \in DOMAIN noticed : noticed[i] >= usageClock - HourLength}
<1>1. noticed \in Seq(Nat) /\ DOMAIN noticed = 1..Len(noticed) /\ Len(noticed) \in Int BY DEF UsageRows
<1>2. IsFiniteSet(N)
  <2>1. IsFiniteSet(DOMAIN noticed) BY <1>1, FS_Interval
  <2> QED BY <2>1, FS_Subset
<1>3. Cardinality(N) \in Nat BY <1>2, FS_CardinalityType
<1>4. N = {}
  <2>1. ~(Cardinality(N) > 0) BY DEF Within
  <2>2. Cardinality(N) = 0 BY <1>3, <2>1
  <2> QED BY <1>2, <2>2, FS_EmptySet
<1>5. usageClock \in Nat /\ HourLength \in Nat BY MonthIsNumber, UsageAssumption
<1>6. \A i \in DOMAIN noticed : noticed[i] \in Nat BY <1>1
<1>7. \A i \in DOMAIN noticed : ~(noticed[i] >= usageClock - HourLength) BY <1>4
<1> QED BY <1>5, <1>6, <1>7

\* The answers of an hour are at most the messages of that hour, each to one.
LEMMA AnswersAreFew ==
    ASSUME NEW S, NEW h \in [S -> DOMAIN said], UsageRows,
           \A i, j \in S : h[i] = h[j] => i = j, \A i \in S : said[h[i]] >= usageClock - HourLength
    PROVE  Cardinality(S) \in Nat /\ Cardinality(S) <= Within(said)
<1> DEFINE T == {k \in DOMAIN said : said[k] >= usageClock - HourLength}
<1>1. IsFiniteSet(T)
  <2>1. said \in Seq(Nat) /\ DOMAIN said = 1..Len(said) /\ Len(said) \in Int BY DEF UsageRows
  <2>2. IsFiniteSet(DOMAIN said) BY <2>1, FS_Interval
  <2> QED BY <2>2, FS_Subset
<1>2. h \in Injection(S, T)
  <2>1. h \in [S -> T] BY DEF T
  <2> QED BY <2>1 DEF Injection, IsInjective
<1>3. IsFiniteSet(S) /\ Cardinality(S) <= Cardinality(T)
  <2> HIDE DEF T
  <2> QED BY <1>1, <1>2, FS_Injection
<1>4. Cardinality(T) = Within(said) BY DEF Within
<1>5. Cardinality(S) \in Nat BY <1>3, FS_CardinalityType
<1> QED BY <1>3, <1>4, <1>5

\* The answer is to the oldest message not weighed, said at this hour.
LEMMA AnswerMessageKeeps ==
    ASSUME UsageInv, AnswerMessage
    PROVE  UsageInv'
<1>1. /\ turn > 0 /\ turn' = turn - 1
      /\ noticed' = IF CustomerRate = "NOTIFY" THEN Append(noticed, usageClock) ELSE noticed
      /\ answered' = IF CustomerRate = "OK" /\ ~QuotaExceeded THEN Append(answered, usageClock) ELSE answered
      /\ UNCHANGED <<plan, pauses, used, planMoves, usageClock, alertMonth, alertLevel, warnings, overBudget,
                     budgetMails, said, check, together, died>>
  BY DEF AnswerMessage, theShop, theAlerts, theBudget
<1>2. UsageRows /\ usageClock \in Nat BY MonthIsNumber DEF UsageInv
<1>3. HourLength \in Nat /\ PerHour \in Nat BY UsageAssumption
<1>4. /\ said \in Seq(Nat) /\ DOMAIN said = 1..Len(said) /\ Len(said) \in Nat /\ turn \in Nat /\ turn <= Len(said)
      /\ turn' \in 0..Len(said)
  BY <1>1, <1>2 DEF UsageRows
<1>5. PICK c \in Nat : c = usageClock BY <1>2
<1>6. /\ AtThisHour /\ \A k \in DOMAIN said : said[k] <= c
      /\ \A i \in DOMAIN noticed : noticed[i] <= c
      /\ \A i \in DOMAIN answered : answered[i] <= c
  BY <1>5 DEF UsageInv, AtThisHour
<1>7. (AlertIsLast /\ WarningsRise /\ Reservations /\ BudgetToldOnce)' BY <1>1, ChecksUntouched
<1>8. noticed' \in Seq(Nat) /\ (\A i \in DOMAIN noticed' : noticed'[i] <= c) /\ NoticesApart'
  <2>1. NoticesApart /\ noticed \in Seq(Nat) BY <1>2 DEF UsageInv, UsageRows
  <2>2. CASE CustomerRate = "NOTIFY"
    <3> DEFINE n == Len(noticed) + 1
    <3>1. /\ noticed' \in Seq(Nat) /\ noticed'[n] = c /\ DOMAIN noticed' = 1..n /\ n \in Nat
          /\ DOMAIN noticed = 1..Len(noticed) /\ \A i \in DOMAIN noticed : noticed'[i] = noticed[i]
          /\ \A i \in DOMAIN noticed' : i \in DOMAIN noticed \/ i = n
      BY <1>1, <1>5, <2>1, <2>2
    <3>2. \A i \in DOMAIN noticed : c - noticed[i] > HourLength
      <4>1. ~(Within(noticed) > 0) BY <2>2 DEF CustomerRate
      <4> QED BY <1>2, <1>5, <4>1, NoNoticeWithin
    <3>3. \A i, j \in DOMAIN noticed' : i < j => i \in DOMAIN noticed
      <4>1. \A i, j \in 1..n : i < j => i \in 1..Len(noticed) BY <3>1
      <4> QED BY <3>1, <4>1
    <3>4. ASSUME ~together PROVE \A i, j \in DOMAIN noticed' : i < j => noticed'[j] - noticed'[i] > HourLength
      <4> SUFFICES ASSUME NEW i \in DOMAIN noticed', NEW j \in DOMAIN noticed', i < j
                   PROVE  noticed'[j] - noticed'[i] > HourLength
        OBVIOUS
      <4>1. i \in DOMAIN noticed /\ noticed'[i] = noticed[i] BY <3>1, <3>3
      <4>2. CASE j = n BY <3>1, <3>2, <4>1, <4>2
      <4>3. CASE j \in DOMAIN noticed BY <2>1, <3>1, <3>4, <4>1, <4>3 DEF NoticesApart
      <4> QED BY <3>1, <4>2, <4>3
    <3>5. NoticesApart' BY <1>1, <3>4 DEF NoticesApart
    <3>6. \A i \in DOMAIN noticed' : noticed'[i] <= c BY <1>5, <1>6, <3>1
    <3> QED BY <3>1, <3>5, <3>6
  <2>3. CASE CustomerRate # "NOTIFY" BY <1>1, <1>6, <2>1, <2>3 DEF NoticesApart
  <2> QED BY <2>2, <2>3
<1>9. PICK g : Answers(g) BY DEF UsageInv, EachItsOwn
<1>10. answered \in Seq(Nat) /\ DOMAIN answered = 1..Len(answered) /\ Len(answered) \in Nat
  BY <1>2 DEF UsageRows
<1>11. /\ g \in [DOMAIN answered -> 1..(Len(said) - turn)]
       /\ \A i \in DOMAIN answered : said[g[i]] = answered[i]
       /\ \A i, j \in DOMAIN answered : g[i] = g[j] => i = j
  BY <1>9 DEF Answers
<1>12. CASE answered' = answered
  <2>1. g \in [DOMAIN answered -> 1..(Len(said) - turn')]
    <3>1. \A k \in 1..(Len(said) - turn) : k \in 1..(Len(said) - turn') BY <1>1, <1>4
    <3>2. \A i \in DOMAIN answered : g[i] \in 1..(Len(said) - turn) BY <1>11
    <3>3. \A i \in DOMAIN answered : g[i] \in 1..(Len(said) - turn') BY <3>1, <3>2
    <3> QED BY <1>11, <3>3
  <2>2. EachItsOwn'
    <3>1. Answers(g)' BY <1>1, <1>11, <1>12, <2>1 DEF Answers
    <3> QED BY <3>1 DEF EachItsOwn
  <2>3. AnswersBounded' BY <1>12 DEF UsageInv, AnswersBounded
  <2>4. AtThisHour'
    <3>1. \A k \in (Len(said) - turn' + 1)..Len(said) : k \in (Len(said) - turn + 1)..Len(said) BY <1>1, <1>4
    <3> QED BY <1>1, <1>5, <1>6, <1>8, <1>12, <3>1 DEF AtThisHour
  <2>5. UsageRows' BY <1>1, <1>2, <1>4, <1>8, <1>12 DEF UsageRows
  <2> QED BY <1>7, <1>8, <2>2, <2>3, <2>4, <2>5 DEF UsageInv
<1>13. CASE answered' = Append(answered, usageClock) /\ CustomerRate = "OK"
  <2> DEFINE n == Len(answered) + 1
             p == Len(said) - turn + 1
             h == [i \in 1..n |-> IF i \in DOMAIN answered THEN g[i] ELSE p]
  <2>1. /\ answered' \in Seq(Nat) /\ DOMAIN answered' = 1..n /\ n \in 1..n /\ n \notin DOMAIN answered /\ answered'[n] = c
        /\ \A i \in DOMAIN answered : i \in 1..n /\ answered'[i] = answered[i] /\ answered[i] \in Nat
        /\ \A i \in 1..n : i \in DOMAIN answered \/ i = n
    BY <1>5, <1>10, <1>13
  <2>2. p \in DOMAIN said /\ p = Len(said) - turn' /\ p \in Nat BY <1>1, <1>4
  <2>3. said[p] = c
    <3>1. p \in (Len(said) - turn + 1)..Len(said) BY <1>1, <1>4
    <3> QED BY <1>5, <1>6, <3>1 DEF AtThisHour
  <2>4. \A i \in DOMAIN answered : g[i] \in 1..p /\ g[i] # p
    <3> SUFFICES ASSUME NEW i \in DOMAIN answered PROVE g[i] \in 1..p /\ g[i] # p OBVIOUS
    <3>1. g[i] \in 1..(Len(said) - turn) BY <1>11
    <3> QED BY <1>4, <3>1
  <2> HIDE DEF n, p
  <2>5. \A i \in DOMAIN answered : h[i] = g[i] BY <2>1
  <2>6. h[n] = p BY <2>1
  <2>7. h \in [1..n -> 1..p] /\ \A i \in 1..n : said[h[i]] = answered'[i]
    <3>1. p \in 1..p BY <1>1, <2>2, <1>4 DEF p
    <3>2. \A i \in 1..n : h[i] \in 1..p BY <2>1, <2>4, <2>5, <2>6, <3>1
    <3>3. \A i \in 1..n : said[h[i]] = answered'[i] BY <1>11, <2>1, <2>3, <2>5, <2>6
    <3> QED BY <3>2, <3>3
  <2>8. \A i, j \in 1..n : h[i] = h[j] => i = j BY <1>11, <2>1, <2>4, <2>5, <2>6
  <2> HIDE DEF h
  <2>9. EachItsOwn'
    <3>1. PICK own : own = h OBVIOUS
    <3>2. Answers(own)' BY <1>1, <2>1, <2>2, <2>7, <2>8, <3>1 DEF Answers
    <3> QED BY <3>2 DEF EachItsOwn
  <2>10. ASSUME NEW i \in DOMAIN answered'
         PROVE  Cardinality({j \in DOMAIN answered' : answered'[j] \in (answered'[i] - HourLength)..answered'[i]}) <= PerHour
    <3> DEFINE S == {j \in DOMAIN answered' : answered'[j] \in (answered'[i] - HourLength)..answered'[i]}
    <3>1. CASE answered'[i] = c
      <4> DEFINE f == [j \in S |-> h[j]]
      <4>1. \A j \in S : j \in 1..n /\ answered'[j] >= c - HourLength BY <1>3, <2>1, <3>1
      <4>2. f \in [S -> DOMAIN said]
        <5>1. \A j \in S : h[j] \in 1..p BY <2>7, <4>1
        <5>2. \A k \in 1..p : k \in DOMAIN said BY <1>4, <2>2
        <5> HIDE DEF S
        <5> QED BY <5>1, <5>2
      <4> HIDE DEF S
      <4>3. \A j, k \in S : f[j] = f[k] => j = k BY <2>8, <4>1
      <4>4. \A j \in S : said[f[j]] >= usageClock - HourLength BY <1>5, <2>7, <4>1
      <4> HIDE DEF f
      <4>5. Cardinality(S) \in Nat /\ Cardinality(S) <= Within(said) BY <1>2, <4>2, <4>3, <4>4, AnswersAreFew
      <4>6. Within(said) <= PerHour BY <1>13 DEF CustomerRate
      <4>7. Within(said) \in Nat
        <5>1. IsFiniteSet(DOMAIN said) BY <1>4, FS_Interval
        <5>2. IsFiniteSet({k \in DOMAIN said : said[k] >= usageClock - HourLength}) BY <5>1, FS_Subset
        <5> QED BY <5>2, FS_CardinalityType DEF Within
      <4>8. Cardinality(S) <= PerHour BY <1>3, <4>5, <4>6, <4>7
      <4> QED BY <4>8 DEF S
    <3>2. CASE answered'[i] # c
      <4>1. i \in DOMAIN answered /\ answered'[i] = answered[i] /\ answered[i] < c
        <5>1. i \in DOMAIN answered /\ answered'[i] = answered[i] /\ answered[i] \in Nat BY <2>1, <3>2
        <5> QED BY <1>5, <1>6, <3>2, <5>1
      <4>2. S = {j \in DOMAIN answered : answered[j] \in (answered[i] - HourLength)..answered[i]}
        <5>1. answered'[n] \notin (answered'[i] - HourLength)..answered'[i] BY <1>3, <2>1, <4>1
        <5> QED BY <2>1, <4>1, <5>1
      <4>3. AnswersBounded BY DEF UsageInv
      <4> QED BY <4>1, <4>2, <4>3 DEF AnswersBounded
    <3> QED BY <3>1, <3>2
  <2>11. AnswersBounded' BY <2>10 DEF AnswersBounded
  <2>12. AtThisHour'
    <3>1. \A k \in (Len(said) - turn' + 1)..Len(said) : k \in (Len(said) - turn + 1)..Len(said) BY <1>1, <1>4
    <3>2. \A i \in DOMAIN answered' : answered'[i] <= c BY <1>5, <1>6, <2>1
    <3> QED BY <1>1, <1>5, <1>6, <1>8, <3>1, <3>2 DEF AtThisHour
  <2>13. UsageRows' BY <1>1, <1>2, <1>4, <1>8, <2>1 DEF UsageRows
  <2> QED BY <1>7, <1>8, <2>9, <2>11, <2>12, <2>13 DEF UsageInv
<1> QED BY <1>1, <1>12, <1>13

-----------------------------------------------------------------------------
(* The shop, the administrators and the clock.                             *)

LEMMA ShopMovesKeeps ==
    ASSUME UsageInv, BeginConversation \/ ChangePlan
    PROVE  UsageInv'
<1>1. UNCHANGED <<usageClock, alertMonth, alertLevel, warnings, overBudget, budgetMails, said, noticed, answered, turn,
                  check, together, died>>
  BY DEF BeginConversation, ChangePlan, theAlerts, theBudget, thePeople
<1>2. plan' \in 0..PlanCount /\ pauses' \in BOOLEAN /\ used' \in 0..UsedMax /\ planMoves' \in 0..PlanChanges
  <2>1. /\ plan \in 0..PlanCount /\ pauses \in BOOLEAN /\ used \in 0..UsedMax /\ planMoves \in 0..PlanChanges
        /\ UsedMax \in Nat /\ PlanChanges \in Nat
    BY UsageAssumption DEF UsageInv, UsageRows
  <2>2. CASE BeginConversation BY <2>1, <2>2 DEF BeginConversation
  <2>3. CASE ChangePlan
    <3>1. plan' \in 0..PlanCount /\ pauses' \in BOOLEAN BY <2>1, <2>3 DEF ChangePlan
    <3>2. planMoves' \in 0..PlanChanges /\ used' = used BY <2>1, <2>3 DEF ChangePlan
    <3> QED BY <2>1, <3>1, <3>2
  <2> QED BY <2>2, <2>3
<1>3. UsageRows' BY <1>1, <1>2 DEF UsageInv, UsageRows
<1> QED BY <1>1, <1>3, ChecksUntouched, PeopleUntouched DEF UsageInv

LEMMA TimeGoesOnKeeps ==
    ASSUME UsageInv, TimeGoesOn
    PROVE  UsageInv'
<1>1. /\ usageClock < UsageHorizon /\ turn = 0 /\ usageClock' = usageClock + 1
      /\ used' = IF (usageClock + 1) \div MonthLength = ThisMonth THEN used ELSE 0
      /\ UNCHANGED <<plan, pauses, planMoves, alertMonth, alertLevel, warnings, overBudget, budgetMails,
                     said, noticed, answered, turn, check, together, died>>
  BY DEF TimeGoesOn, theAlerts, theBudget, thePeople
<1>2. UsageRows /\ usageClock \in Nat /\ ThisMonth \in Nat BY MonthIsNumber DEF UsageInv
<1>3. UsageHorizon \in Nat /\ UsedMax \in Nat /\ MonthLength \in Nat \ {0} BY UsageAssumption
<1>4. ThisMonth <= ThisMonth' /\ ThisMonth' \in Nat
  <2>1. usageClock + 1 \in Nat /\ usageClock <= usageClock + 1 BY <1>2
  <2>2. usageClock \div MonthLength <= (usageClock + 1) \div MonthLength BY <1>2, <1>3, <2>1, DivRises
  <2>3. (usageClock + 1) \div MonthLength \in Nat BY <1>3, <2>1, DivRises
  <2> QED BY <1>1, <2>2, <2>3 DEF ThisMonth
<1>5. UsageRows'
  <2>1. usageClock' \in 0..UsageHorizon BY <1>1, <1>2, <1>3
  <2>2. used' \in 0..UsedMax BY <1>1, <1>2, <1>3 DEF UsageRows
  <2> QED BY <1>1, <1>2, <2>1, <2>2 DEF UsageRows
<1>6. AlertIsLast'
  <2> SUFFICES ASSUME ~(died > 0 \/ together) PROVE AlertIsLast' BY <1>1 DEF AlertIsLast
  <2>1. AlertIsLast BY DEF UsageInv
  <2>2. \A r \in Checks : check[r].at \in {"loaded", "sent"} => check[r].month \in Nat
    <3> SUFFICES ASSUME NEW r \in Checks, check[r].at \in {"loaded", "sent"} PROVE check[r].month \in Nat OBVIOUS
    <3>1. check[r] \in Loaded \cup Warned BY <1>2, CheckKinds
    <3> QED BY <3>1 DEF Loaded, Warned
  <2>3. alertMonth \in Int BY <1>2 DEF UsageRows
  <2>4. \A r \in Checks : check[r].at \in {"loaded", "sent"} => check[r].month <= ThisMonth BY <2>1 DEF AlertIsLast
  <2>5. \A r \in Checks : check[r].at \in {"loaded", "sent"} => check[r].month <= ThisMonth' BY <1>2, <1>4, <2>2, <2>4
  <2>6. alertMonth <= ThisMonth' BY <1>2, <1>4, <2>1, <2>3 DEF AlertIsLast
  <2> QED BY <1>1, <2>1, <2>5, <2>6 DEF AlertIsLast, UpTo
<1>7. WarningsRise' /\ Reservations' /\ BudgetToldOnce'
  BY <1>1 DEF UsageInv, WarningsRise, Reservations, BudgetToldOnce
<1>8. AtThisHour'
  <2>1. AtThisHour BY DEF UsageInv
  <2>2. /\ said \in Seq(Nat) /\ noticed \in Seq(Nat) /\ answered \in Seq(Nat) BY <1>2 DEF UsageRows
  <2>3. \A k \in DOMAIN said : said[k] \in Nat BY <2>2
  <2>4. \A k \in DOMAIN noticed : noticed[k] \in Nat BY <2>2
  <2>5. \A k \in DOMAIN answered : answered[k] \in Nat BY <2>2
  <2>6. \A k \in DOMAIN said : said[k] <= usageClock + 1 BY <1>2, <2>1, <2>3 DEF AtThisHour
  <2>7. \A k \in DOMAIN noticed : noticed[k] <= usageClock + 1 BY <1>2, <2>1, <2>4 DEF AtThisHour
  <2>8. \A k \in DOMAIN answered : answered[k] <= usageClock + 1 BY <1>2, <2>1, <2>5 DEF AtThisHour
  <2>9. \A k \in (Len(said) - turn + 1)..Len(said) : FALSE BY <1>1, <2>2
  <2> QED BY <1>1, <2>6, <2>7, <2>8, <2>9 DEF AtThisHour
<1>9. EachItsOwn' BY <1>1 DEF UsageInv, EachItsOwn, Answers
<1>10. AnswersBounded' /\ NoticesApart' BY <1>1 DEF UsageInv, AnswersBounded, NoticesApart
<1> QED BY <1>5, <1>6, <1>7, <1>8, <1>9, <1>10 DEF UsageInv

-----------------------------------------------------------------------------
(* The theorems.                                                           *)

LEMMA UsageStarts == UsageInit => UsageInv
<1> SUFFICES ASSUME UsageInit PROVE UsageInv OBVIOUS
<1>1. /\ plan \in 0..PlanCount /\ pauses \in BOOLEAN /\ usageClock = 0 /\ used = 0 /\ alertMonth = -1 /\ alertLevel = 0
      /\ check = [r \in Checks |-> NoCheck] /\ overBudget = {} /\ said = <<>> /\ noticed = <<>> /\ answered = <<>>
      /\ warnings = <<>> /\ budgetMails = <<>> /\ together = FALSE /\ died = 0 /\ planMoves = 0 /\ turn = 0
  BY DEF UsageInit
<1>2. /\ UsageHorizon \in Nat /\ UsedMax \in Nat /\ SaidMax \in Nat /\ UsageDeaths \in Nat /\ PlanChanges \in Nat
      /\ MonthLength \in Nat \ {0}
  BY UsageAssumption
<1>3. UsageRows BY <1>1, <1>2 DEF UsageRows, Levels
<1>4. \A r \in Checks : check[r].at = "idle" BY <1>1 DEF NoCheck
<1>5. AlertIsLast
  <2>1. ThisMonth \in Nat BY <1>3, MonthIsNumber
  <2>2. alertMonth <= ThisMonth BY <1>1, <2>1
  <2> QED BY <1>1, <1>4, <2>2 DEF AlertIsLast, UpTo
<1>6. WarningsRise /\ BudgetToldOnce /\ NoticesApart /\ AnswersBounded
  BY <1>1 DEF WarningsRise, BudgetToldOnce, NoticesApart, AnswersBounded
<1>7. Reservations BY <1>1, <1>4 DEF Reservations
<1>8. AtThisHour BY <1>1 DEF AtThisHour
<1>9. EachItsOwn
  <2> DEFINE g == [i \in {} |-> i]
  <2>1. Answers(g) BY <1>1 DEF Answers
  <2> QED BY <2>1 DEF EachItsOwn
<1> QED BY <1>3, <1>5, <1>6, <1>7, <1>8, <1>9 DEF UsageInv

LEMMA UsageStepKeeps ==
    ASSUME UsageInv, [UsageNext]_usageVars
    PROVE  UsageInv'
<1>1. CASE UNCHANGED usageVars
  <2>1. UNCHANGED <<plan, pauses, used, planMoves, usageClock, alertMonth, alertLevel, warnings, overBudget, budgetMails,
                    said, noticed, answered, turn, check, together, died>>
    BY <1>1 DEF usageVars
  <2>2. UsageRows' BY <2>1 DEF UsageInv, UsageRows
  <2> QED BY <2>1, <2>2, ChecksUntouched, PeopleUntouched DEF UsageInv
<1>2. CASE UsageNext
  BY <1>2, StartCheckKeeps, WarnShopKeeps, RecordWarningKeeps, BreakCheckKeeps, ReserveMonthKeeps, TellBudgetKeeps,
     StoreMessageKeeps, AnswerMessageKeeps, ShopMovesKeeps, TimeGoesOnKeeps DEF UsageNext
<1> QED BY <1>1, <1>2

\* Levels, months and counts stay in their ranges, and so do the runs.
THEOREM UsageTypeCorrect == UsageSpec => []UsageTypeOK
<1>1. UsageInv => UsageTypeOK
  <2> SUFFICES ASSUME UsageInv PROVE UsageTypeOK OBVIOUS
  <2>1. \A r \in Checks : check[r].at \in {"idle", "loaded", "sent", "reserved"} BY CheckKinds DEF UsageInv
  <2>2. turn \in 0..SaidMax
    <3>1. turn \in 0..Len(said) /\ Len(said) \in Nat /\ Len(said) <= SaidMax /\ SaidMax \in Nat
      BY UsageAssumption DEF UsageInv, UsageRows
    <3> QED BY <3>1
  <2> QED BY <2>1, <2>2 DEF UsageInv, UsageRows, UsageTypeOK, Levels
<1> QED BY <1>1, UsageStarts, UsageStepKeeps, PTL DEF UsageSpec

\* For any plans, any number of hourly runs, any length of the hour and of the
\* month: the warnings of a month only rise, a budget is told once, the answers
\* of an hour are bounded and the notices are an hour apart.
THEOREM QuotasHold == UsageSpec => []QuotasRight
<1>1. UsageInv => QuotasRight BY DEF UsageInv, QuotasRight
<1> QED BY <1>1, UsageStarts, UsageStepKeeps, PTL DEF UsageSpec

\* The rows and the jobs of every task that beat starts, side by side.
THEOREM WorkersTypeCorrect ==
    RemSpec /\ MailSpec /\ AlertSpec /\ BillSpec /\ PolicySpec /\ WatchSpec /\ UsageSpec => []WorkersTypeOK
<1>1. RemTypeOK /\ MailTypeOK /\ AlertTypeOK /\ BillTypeOK /\ PolicyTypeOK /\ WatchTypeOK /\ UsageTypeOK => WorkersTypeOK
  BY DEF WorkersTypeOK
<1> QED BY <1>1, RemTypeCorrect, MailTypeCorrect, AlertTypeCorrect, BillTypeCorrect, PolicyTypeCorrect,
           WatchTypeCorrect, UsageTypeCorrect, PTL
=============================================================================
