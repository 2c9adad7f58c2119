--------------------------- MODULE ProspectMailer ---------------------------
(***************************************************************************)
(* Emails that offer Bob to prospects: a campaign of up to three steps,    *)
(* sent one at a time by a task that beat starts every three minutes, up   *)
(* to a limit per 24 hours.  A prospect who clicks, answers or unsubscribes *)
(* stops it, even while an email to him is being sent; addresses that      *)
(* unsubscribed or do not exist are kept apart for ever.                   *)
(*                                                                         *)
(* A prospect stands for his address: one that was erased may be imported  *)
(* again.  A unit of time is the delay between two steps.                  *)
(***************************************************************************)
EXTENDS Integers, FiniteSets, Sequences

CONSTANTS
    Prospects, Senders,   \* Senders: tasks that may run at the same time
    Steps,                \* emails of the campaign
    DailyLimit, Day, StepDelay, FailuresBeforeInvalid,
    MailHorizon, MailDeaths, MailErasures, InboxMax   \* bounds: time, tasks that die, erasures, unread mail

ASSUME MailAssumption ==
    /\ IsFiniteSet(Prospects) /\ IsFiniteSet(Senders) /\ Senders # {}
    /\ Steps \in Nat \ {0} /\ {DailyLimit, Day, StepDelay, MailHorizon, MailDeaths, MailErasures} \subseteq Nat

VARIABLES
    today,      \* the time
    prospect,   \* [Prospects -> row]
    running,    \* the campaign is RUNNING
    emails,     \* rows of prospect_emails: [p, step, status, sent_at], a sequence
    suppressed, \* addresses never to be written to
    task,       \* [Senders -> the task: its prospect, row as loaded, step, place]
    inbox,      \* answers and returned emails not read yet
    left,       \* [Prospects -> emails that left, in order]
    late,       \* [Prospects -> how many of them after the address was suppressed]
    lost,       \* emails that left and have no record
    killed, erased

mailVars == <<today, prospect, running, emails, suppressed, task, inbox, left, late, lost, killed, erased>>

Unset == -1
ProspectRow == [status : {"NONE", "ACTIVE", "NOT_INTERESTED", "UNSUBSCRIBED", "INVALID"}, campaign : BOOLEAN,
                email_step : 0..Steps, next_email_at : Int, reacted : BOOLEAN]
NoProspect  == [status |-> "NONE", campaign |-> FALSE, email_step |-> 0, next_email_at |-> Unset, reacted |-> FALSE]
NoTask      == [p |-> {}, row |-> NoProspect, place |-> "idle"]

MailInit ==
    /\ today = 0
    /\ prospect = [p \in Prospects |-> NoProspect]
    /\ running = FALSE
    /\ emails = <<>>
    /\ suppressed = {}
    /\ task = [s \in Senders |-> NoTask]
    /\ inbox = {}
    /\ left = [p \in Prospects |-> <<>>]
    /\ late = [p \in Prospects |-> 0]
    /\ lost = 0 /\ killed = 0 /\ erased = 0

-----------------------------------------------------------------------------
RowsOf(p, statuses) == {i \in DOMAIN emails : emails[i].p = p /\ emails[i].status \in statuses}

RecordedSince(d) == {i \in DOMAIN emails : emails[i].status \in {"SENT", "BOUNCED"} /\ emails[i].sent_at >= d}
SentLastDay      == Cardinality(RecordedSince(today - Day))

Stopped(row) == row.status # "ACTIVE" \/ row.reacted

\* Faulty variant: the addresses kept apart are looked at when the campaign starts only.
CandidateByStatus(p) ==
    LET row == prospect[p] IN
    /\ row.campaign /\ ~Stopped(row) /\ row.email_step < Steps
    /\ row.email_step > 0 => row.next_email_at # Unset /\ row.next_email_at <= today

\* Who may be written to now (the hours of his country are left to chance).
Candidate(p) ==
    LET row == prospect[p] IN
    /\ row.campaign /\ ~Stopped(row) /\ row.email_step < Steps
    /\ row.email_step > 0 => row.next_email_at # Unset /\ row.next_email_at <= today
    /\ p \notin suppressed

Eligible ==
    {p \in Prospects : LET row == prospect[p] IN
        ~Stopped(row) /\ ~row.campaign /\ RowsOf(p, {"SENT", "FAILED", "BOUNCED"}) = {} /\ p \notin suppressed}

Held(p) == \E s \in Senders : task[s].p = {p}

Idle(s) == task' = [task EXCEPT ![s] = NoTask]

\* The columns that the task changed, on the row as it now is.
Written(p, old, new) == [f \in DOMAIN new |-> IF new[f] # old[f] THEN new[f] ELSE prospect[p][f]]

\* The emails of the others.
Without(p) ==
    LET kept[i \in 0..Len(emails)] ==
          IF i = 0 THEN <<>> ELSE IF emails[i].p = p THEN kept[i - 1] ELSE Append(kept[i - 1], emails[i])
    IN  kept[Len(emails)]

Record(p, step, status) == Append(emails, [p |-> p, step |-> step, status |-> status, sent_at |-> today])

-----------------------------------------------------------------------------
(* The task that sends.                                                    *)

\* send_next up to the SMTP call: under the limit, the furthest step first.
ChooseProspect(s, p) ==
    /\ task[s].place = "idle"
    /\ running
    /\ SentLastDay < DailyLimit
    /\ Candidate(p) /\ \A q \in Prospects : Candidate(q) => prospect[q].email_step <= prospect[p].email_step
    /\ task' = [task EXCEPT ![s] = [p |-> {p}, row |-> prospect[p], place |-> "sending"]]
    /\ UNCHANGED <<today, prospect, running, emails, suppressed, inbox, left, late, lost, killed, erased>>

\* Gmail took it.
Leaves(s, p) ==
    /\ task[s].place = "sending" /\ task[s].p = {p}
    /\ task' = [task EXCEPT ![s].place = "sent"]
    /\ left' = [left EXCEPT ![p] = Append(@, [step |-> task[s].row.email_step + 1, at |-> today])]
    /\ late' = [late EXCEPT ![p] = IF p \in suppressed THEN @ + 1 ELSE @]
    /\ UNCHANGED <<today, prospect, running, emails, suppressed, inbox, lost, killed, erased>>

RecordSent(s, p) ==
    /\ task[s].place = "sent" /\ task[s].p = {p}
    /\ LET old == task[s].row
           step == old.email_step + 1
           new == [old EXCEPT !.email_step = step,
                              !.next_email_at = IF step < Steps THEN today + StepDelay ELSE Unset] IN
       /\ prospect' = [prospect EXCEPT ![p] = Written(p, old, new)]
       /\ emails' = Record(p, step, "SENT")
    /\ Idle(s)
    /\ UNCHANGED <<today, running, suppressed, inbox, left, late, lost, killed, erased>>

\* _invalid: the address is kept apart.
Invalidate(p, old) ==
    /\ prospect' = [prospect EXCEPT ![p] = Written(p, old, [old EXCEPT !.status = "INVALID", !.next_email_at = Unset])]
    /\ suppressed' = suppressed \cup {p}

\* Gmail refuses the address.
Refused(s, p) ==
    /\ task[s].place = "sending" /\ task[s].p = {p}
    /\ Invalidate(p, task[s].row)
    /\ emails' = Record(p, task[s].row.email_step + 1, "BOUNCED")
    /\ Idle(s)
    /\ UNCHANGED <<today, running, inbox, left, late, lost, killed, erased>>

\* Another failure: recorded, and one too many makes the address invalid.
Fails(s, p) ==
    /\ task[s].place = "sending" /\ task[s].p = {p}
    /\ LET step == task[s].row.email_step + 1
           before == {i \in RowsOf(p, {"FAILED"}) : emails[i].step = step} IN
       /\ IF Cardinality(before) + 1 >= FailuresBeforeInvalid
          THEN Invalidate(p, task[s].row)
          ELSE UNCHANGED <<prospect, suppressed>>
       /\ emails' = Record(p, step, "FAILED")
    /\ Idle(s)
    /\ UNCHANGED <<today, running, inbox, left, late, lost, killed, erased>>

\* Wrong password: rolled back.  Or the process dies, before or after the call.
GivesUp(s) ==
    /\ task[s].place # "idle"
    /\ task[s].place = "sent" => killed < MailDeaths
    /\ killed' = IF task[s].place = "sent" THEN killed + 1 ELSE killed
    /\ lost' = IF task[s].place = "sent" THEN lost + 1 ELSE lost
    /\ Idle(s)
    /\ UNCHANGED <<today, prospect, running, emails, suppressed, inbox, left, late, erased>>

-----------------------------------------------------------------------------
(* The prospect and the inbox.                                             *)

\* unsubscribe: the link in the email, or "stop" in an answer.
Unsubscribed(p) ==
    /\ prospect' = [prospect EXCEPT ![p].status = "UNSUBSCRIBED",
                      ![p].next_email_at = IF prospect[p].status = "UNSUBSCRIBED" THEN @ ELSE Unset]
    /\ suppressed' = suppressed \cup {p}

Unsubscribe(p) ==
    /\ prospect[p].status # "NONE" /\ p \notin suppressed
    /\ Unsubscribed(p)
    /\ UNCHANGED <<today, running, emails, task, inbox, left, late, lost, killed, erased>>

\* He opens the demo, or opens an account.
Clicks(p) ==
    /\ prospect[p].status # "NONE" /\ ~prospect[p].reacted
    /\ prospect' = [prospect EXCEPT ![p].reacted = TRUE]
    /\ UNCHANGED <<today, running, emails, suppressed, task, inbox, left, late, lost, killed, erased>>

\* An email that left is answered or comes back.
Arrives(p, kind) ==
    /\ left[p] # <<>> /\ [p |-> p, kind |-> kind] \notin inbox /\ Cardinality(inbox) < InboxMax
    /\ inbox' = inbox \cup {[p |-> p, kind |-> kind]}
    /\ UNCHANGED <<today, prospect, running, emails, suppressed, task, left, late, lost, killed, erased>>

\* process_inbox: a message about a prospect who has no email on record is ignored.
ReadMessage(m) ==
    /\ m \in inbox
    /\ inbox' = inbox \ {m}
    /\ LET p == m.p
           row == prospect[p] IN
       IF row.status = "NONE" \/ row.email_step = 0
       THEN UNCHANGED <<prospect, suppressed, emails>>
       ELSE CASE m.kind = "bounce" ->
                   IF row.status = "INVALID" THEN UNCHANGED <<prospect, suppressed, emails>>
                   ELSE /\ Invalidate(p, row)
                        /\ emails' = IF RowsOf(p, {"SENT", "FAILED", "BOUNCED"}) = {} THEN emails
                                     ELSE LET last == CHOOSE i \in DOMAIN emails : emails[i].p = p
                                                /\ \A j \in DOMAIN emails : emails[j].p = p => j <= i
                                          IN [emails EXCEPT ![last].status = "BOUNCED"]
              [] m.kind = "stop" -> Unsubscribed(p) /\ UNCHANGED emails
              [] m.kind = "answer" ->
                   /\ prospect' = [prospect EXCEPT ![p].reacted = TRUE, ![p].next_email_at = Unset]
                   /\ UNCHANGED <<suppressed, emails>>
    /\ UNCHANGED <<today, running, task, left, late, lost, killed, erased>>

-----------------------------------------------------------------------------
(* The team.                                                               *)

\* Added by hand or from a file; an address is known once.
ImportProspect(p) ==
    /\ prospect[p].status = "NONE"
    /\ prospect' = [prospect EXCEPT ![p] = [NoProspect EXCEPT !.status = "ACTIVE"]]
    /\ UNCHANGED <<today, running, emails, suppressed, task, inbox, left, late, lost, killed, erased>>

\* start: whoever is eligible joins; refused if nobody is in the campaign.
StartCampaign ==
    /\ Eligible # {} \/ (~running /\ \E p \in Prospects : prospect[p].campaign)
    /\ running' = TRUE
    /\ prospect' = [p \in Prospects |->
         IF p \in Eligible THEN [prospect[p] EXCEPT !.campaign = TRUE, !.email_step = 0, !.next_email_at = Unset]
         ELSE prospect[p]]
    /\ UNCHANGED <<today, emails, suppressed, task, inbox, left, late, lost, killed, erased>>

PauseCampaign ==
    /\ running
    /\ running' = FALSE
    /\ UNCHANGED <<today, prospect, emails, suppressed, task, inbox, left, late, lost, killed, erased>>

\* change_status: any status, even back to ACTIVE.
ChangeStatus(p, status) ==
    /\ prospect[p].status \notin {"NONE", status}
    /\ prospect' = [prospect EXCEPT ![p].status = status]
    /\ UNCHANGED <<today, running, emails, suppressed, task, inbox, left, late, lost, killed, erased>>

\* Erased on request, or after a year without a reaction, with his emails; an
\* email being sent holds his row.
Erase(p) ==
    /\ prospect[p].status # "NONE" /\ ~Held(p) /\ erased < MailErasures
    /\ prospect' = [prospect EXCEPT ![p] = NoProspect]
    /\ emails' = Without(p)
    /\ lost' = lost + Cardinality(RowsOf(p, {"SENT", "BOUNCED"}))
    /\ erased' = erased + 1
    /\ UNCHANGED <<today, running, suppressed, task, inbox, left, late, killed>>

DaysPass ==
    /\ today < MailHorizon /\ \A s \in Senders : task[s] = NoTask
    /\ today' = today + 1
    /\ UNCHANGED <<prospect, running, emails, suppressed, task, inbox, left, late, lost, killed, erased>>

MailNext ==
    \/ StartCampaign \/ PauseCampaign \/ DaysPass
    \/ \E s \in Senders : \/ GivesUp(s)
                          \/ \E p \in Prospects : ChooseProspect(s, p) \/ Leaves(s, p) \/ RecordSent(s, p) \/ Refused(s, p) \/ Fails(s, p)
    \/ \E p \in Prospects : \/ Unsubscribe(p) \/ Clicks(p) \/ ImportProspect(p) \/ Erase(p)
                            \/ \E k \in {"bounce", "stop", "answer"} : Arrives(p, k)
                            \/ \E st \in {"ACTIVE", "NOT_INTERESTED"} : ChangeStatus(p, st)
    \/ \E m \in inbox : ReadMessage(m)

MailSpec == MailInit /\ [][MailNext]_mailVars

-----------------------------------------------------------------------------
(* Properties.                                                             *)

\* Rows, tasks and messages are well formed.
MailTypeOK ==
    /\ prospect \in [Prospects -> ProspectRow]
    /\ suppressed \subseteq Prospects
    /\ \A s \in Senders : task[s].place \in {"idle", "sending", "sent"} /\ task[s].row \in ProspectRow
    /\ \A i \in DOMAIN emails : emails[i].p \in Prospects /\ emails[i].step \in 1..Steps

\* An address that unsubscribed or does not exist gets no email but the one each
\* task was sending when it was put apart: not by a task that writes its row back,
\* not by a status set back to ACTIVE, not when it is imported again.
PutApartForEver == \A p \in Prospects : late[p] <= Cardinality(Senders)

\* A prospect gets each step once, in order, and the next not before its delay,
\* whatever is paused, failed, returned or set back; unless he was erased, or a
\* task died between an email and its record.
EachStepOnce ==
    lost = 0 /\ erased = 0 => \A p \in Prospects : \A i, j \in DOMAIN left[p] :
        i < j => left[p][i].step < left[p][j].step /\ left[p][j].at >= left[p][i].at + StepDelay

LeftSince(d) == UNION {{p} \X {i \in DOMAIN left[p] : left[p][i].at >= d} : p \in Prospects}

\* No more emails leave in 24 hours than the limit and one by task, but for those
\* whose record is lost.
LimitPerDay == Cardinality(LeftSince(today - Day)) <= DailyLimit + lost + Cardinality(Senders) - 1

\* What the campaign owes the prospects, and Gmail.
ProspectsSpared == PutApartForEver /\ EachStepOnce /\ LimitPerDay
=============================================================================
