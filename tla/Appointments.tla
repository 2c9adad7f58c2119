---------------------------- MODULE Appointments ----------------------------
(***************************************************************************)
(* The appointments of one shop: customers book, move and cancel through   *)
(* the agent's tools, the staff confirms, cancels and records outcomes     *)
(* from the dashboard, and a worker started every 15 minutes sends         *)
(* reminders and followups.  Each works in a database session of its own:  *)
(* it loads a row, changes its copy, and the flush writes the columns      *)
(* whose value differs from the one loaded, and no other.                  *)
(*                                                                         *)
(* Time is counted in steps; Day[s] is the step slot s starts at, and the  *)
(* step before it is when its reminder is due (the eve from 18 h on, or    *)
(* the two hours before a restaurant table).                               *)
(***************************************************************************)
EXTENDS Integers, FiniteSets

CONSTANTS
    Requests, Role,      \* who does one thing, once except the worker; [Requests -> Roles]
    Slots, Day, Offered, \* start times; [Slots -> Nat]; those within opening hours
    Clash,               \* [Slots -> SUBSET Slots]: the slots that overlap
    Capacity,            \* appointments at the same time
    Tables,              \* appointments for a restaurant table
    FollowUpDelay,       \* before a visit is followed up
    Horizon,             \* bound on the time
    MaxOpen,             \* bound on the sessions open at once
    Fragile,             \* requests whose process may die
    Nobody, NoSlot

NewRoles == {"booker", "asker"}
CustomerRoles == NewRoles \cup {"mover", "quitter"}
StaffRoles == {"confirmer", "remover", "judge"}
Roles == CustomerRoles \cup StaffRoles \cup {"worker"}

\* The appointment a request of a new role makes is known by that request.
Appts == {r \in Requests : Role[r] \in NewRoles}

ASSUME AppointmentsAssumption ==
    /\ IsFiniteSet(Requests)
    /\ Role \in [Requests -> Roles]
    /\ Tables \subseteq Appts
    /\ Offered \subseteq Slots
    /\ Day \in [Slots -> Nat]
    /\ Clash \in [Slots -> SUBSET Slots]
    /\ \A s, t \in Slots : s \in Clash[s] /\ (t \in Clash[s] <=> s \in Clash[t])
    /\ \A s, t \in Offered : t \in Clash[s] => t = s
    /\ Capacity \in Nat
    /\ FollowUpDelay \in Nat /\ Horizon \in Nat /\ MaxOpen \in Nat
    /\ Fragile \subseteq Requests
    /\ Nobody \notin Requests
    /\ NoSlot \notin Slots

VARIABLES
    now,     \* the time
    appt,    \* committed rows of appointment_requests
    agenda,  \* who holds the tenant_appointment_settings row
    lock,    \* [Appts -> who holds the row]
    pc,      \* [Requests -> where the request is]
    mine,    \* [Requests -> the appointment it works on]
    read,    \* [Requests -> its row as loaded]
    mind,    \* [Requests -> its row as the session has it now]
    list,    \* [Requests -> appointments a worker still has to look at]
    clock,   \* [Requests -> the time a worker run has noted]
    sent,    \* messages that left
    again    \* those that left more than once

rows    == <<appt, lock>>
letters == <<sent, again>>
session == <<mine, read, mind, list, clock>>
vars    == <<now, rows, agenda, pc, session, letters>>

Status   == {"NONE", "REQUESTED", "CONFIRMED", "CANCELLED"}
Outcomes == {"SOLD", "FOLLOW_UP", "NO_SHOW"}   \* NOT_INTERESTED does what SOLD does

ApptData ==
    [status : Status, at : Slots \cup {NoSlot}, made : Nat,
     staffReminded : BOOLEAN, mailReminded : BOOLEAN, whatsappReminded : BOOLEAN,
     outcome : Outcomes \cup {"none"}, outcomeAt : Nat, followedUp : BOOLEAN]

NoAppt ==
    [status |-> "NONE", at |-> NoSlot, made |-> 0,
     staffReminded |-> FALSE, mailReminded |-> FALSE, whatsappReminded |-> FALSE,
     outcome |-> "none", outcomeAt |-> 0, followedUp |-> FALSE]

Busy == {"turn", "lost", "staff", "flushed", "run", "look", "told", "chase", "chased"}
Kinds == {"confirmed", "moved", "cancelled", "staff_reminder", "mail_reminder", "whatsapp_reminder",
          "followup"}
Message == [kind : Kinds, appt : Appts, at : Slots \cup {NoSlot}]
Note(kind, r, row) == [kind |-> kind, appt |-> mine[r], at |-> row.at]
FollowUpOf(a) == [kind |-> "followup", appt |-> a, at |-> NoSlot]

Init ==
    /\ now = 0
    /\ appt = [a \in Appts |-> NoAppt]
    /\ agenda = Nobody
    /\ lock = [a \in Appts |-> Nobody]
    /\ pc = [r \in Requests |-> "idle"]
    /\ mine = [r \in Requests |-> Nobody]
    /\ read = [r \in Requests |-> NoAppt]
    /\ mind = [r \in Requests |-> NoAppt]
    /\ list = [r \in Requests |-> {}]
    /\ clock = [r \in Requests |-> 0]
    /\ sent = {}
    /\ again = {}

-----------------------------------------------------------------------------
Goto(r, label) == pc' = [pc EXCEPT ![r] = label]

Send(messages) ==
    /\ sent' = sent \cup messages
    /\ again' = again \cup (sent \cap messages)

Arrives(r, role) ==
    /\ Role[r] = role
    /\ pc[r] = "idle"
    /\ Cardinality({q \in Requests : pc[q] \in Busy}) < MaxOpen

\* What a flush leaves of a committed row.
Merge(row, old, new) ==
    [f \in DOMAIN row |-> IF new[f] # old[f] THEN new[f] ELSE row[f]]

\* r has loaded the row of a, and changed its copy into `row`.
Loads(r, a, row) ==
    /\ mine' = [mine EXCEPT ![r] = a]
    /\ read' = [read EXCEPT ![r] = appt[a]]
    /\ mind' = [mind EXCEPT ![r] = row]

\* The UPDATE of r goes through (its row is not held by another) and commits.
Commits(r) ==
    /\ lock[mine[r]] \in {Nobody, r}
    /\ appt' = [appt EXCEPT ![mine[r]] = Merge(@, read[r], mind[r])]
    /\ lock' = [lock EXCEPT ![mine[r]] = Nobody]

\* The UPDATE is flushed before the transaction ends: the row is held from now.
TakeRow(r) ==
    /\ lock[mine[r]] = Nobody
    /\ lock' = [lock EXCEPT ![mine[r]] = r]

Leave(r, label) ==
    /\ Goto(r, label)
    /\ mine' = [mine EXCEPT ![r] = Nobody]
    /\ read' = [read EXCEPT ![r] = NoAppt]
    /\ mind' = [mind EXCEPT ![r] = NoAppt]

FreeAgenda(r) == agenda' = IF agenda = r THEN Nobody ELSE agenda

-----------------------------------------------------------------------------
(* The customer's turn with the agent.                                     *)

\* Faulty variant: load_settings without FOR UPDATE.
TakeNothing(r) == UNCHANGED agenda

\* load_settings(lock=True): held until the turn commits.
TakeAgenda(r) == agenda = Nobody /\ agenda' = r

\* is_bookable: offered, not too soon, and with room for one more (an
\* appointment that is moved does not count against itself).
Taken(s, except) ==
    {b \in Appts \ except : appt[b].status = "CONFIRMED" /\ appt[b].at \in Clash[s]}
Bookable(s, except) ==
    /\ s \in Offered
    /\ Day[s] > now
    /\ Cardinality(Taken(s, except)) < Capacity

\* request_appointment with a slot: confirmed at once.
Book(r) ==
    /\ Arrives(r, "booker")
    /\ TakeAgenda(r)
    /\ \E s \in Slots :
         /\ Bookable(s, {})
         /\ Loads(r, r, [NoAppt EXCEPT !.status = "CONFIRMED", !.at = s, !.made = now])
    /\ Goto(r, "turn")
    /\ UNCHANGED <<now, rows, list, clock, letters>>

\* request_appointment without a slot: when none is free, or the customer has
\* chosen another time.
AskAppointment(r) ==
    /\ Arrives(r, "asker")
    /\ \E otherTime \in BOOLEAN : otherTime \/ \A s \in Slots : ~Bookable(s, {})
    /\ Loads(r, r, [NoAppt EXCEPT !.status = "REQUESTED", !.made = now])
    /\ Goto(r, "turn")
    /\ UNCHANGED <<now, rows, agenda, list, clock, letters>>

\* _my_appointment: one that is not cancelled, loaded before the lock.
FindMine(r) ==
    /\ Arrives(r, "mover") \/ Arrives(r, "quitter")
    /\ \E a \in Appts :
         /\ appt[a].status \in {"REQUESTED", "CONFIRMED"}
         /\ Loads(r, a, appt[a])
    /\ Goto(r, "lost")
    /\ UNCHANGED <<now, rows, agenda, list, clock, letters>>

\* Faulty variant: the reminders of the old date still count.
MoveAndKeepReminders(r) ==
    /\ pc[r] = "lost" /\ Role[r] = "mover"
    /\ TakeAgenda(r)
    /\ TakeRow(r)
    /\ \E s \in Slots :
         /\ Bookable(s, {mine[r]})
         /\ mind' = [mind EXCEPT ![r] = [@ EXCEPT !.status = "CONFIRMED", !.at = s]]
    /\ Goto(r, "turn")
    /\ UNCHANGED <<now, appt, mine, read, list, clock, letters>>

\* reschedule_my_appointment.
Move(r) ==
    /\ pc[r] = "lost" /\ Role[r] = "mover"
    /\ TakeAgenda(r)
    /\ TakeRow(r)
    /\ \E s \in Slots :
         /\ Bookable(s, {mine[r]})
         /\ mind' = [mind EXCEPT ![r] = [@ EXCEPT !.status = "CONFIRMED", !.at = s, !.staffReminded = FALSE,
                                                 !.mailReminded = FALSE, !.whatsappReminded = FALSE]]
    /\ Goto(r, "turn")
    /\ UNCHANGED <<now, appt, mine, read, list, clock, letters>>

\* cancel_my_appointment, on an explicit request.
Quit(r) ==
    /\ pc[r] = "lost" /\ Role[r] = "quitter"
    /\ TakeRow(r)
    /\ mind' = [mind EXCEPT ![r].status = "CANCELLED"]
    /\ Goto(r, "turn")
    /\ UNCHANGED <<now, appt, agenda, mine, read, list, clock, letters>>

\* The slot is gone, or the customer has not asked clearly enough.
GiveUp(r) ==
    /\ pc[r] = "lost"
    /\ Role[r] = "mover" => agenda = Nobody
    /\ Leave(r, "done")
    /\ UNCHANGED <<now, rows, agenda, list, clock, letters>>

\* Faulty variant: the date announced is the one before.
AnnouncementBefore(r) == IF Role[r] = "mover" THEN {Note("moved", r, read[r])} ELSE {}

\* What the customer is told of his turn, after the commit.
Announcement(r) ==
    CASE mind[r].status = "CANCELLED"       -> {Note("cancelled", r, mind[r])}
      [] mind[r].status = "CONFIRMED" /\ Role[r] = "mover" -> {Note("moved", r, mind[r])}
      [] mind[r].status = "CONFIRMED" /\ Role[r] # "mover" -> {Note("confirmed", r, mind[r])}
      [] OTHER -> {}

\* The webhook commits the turn; its fixed message may fail to leave.
CommitTurn(r) ==
    /\ pc[r] = "turn"
    /\ Commits(r)
    /\ Send({}) \/ Send(Announcement(r))
    /\ FreeAgenda(r)
    /\ Leave(r, "done")
    /\ UNCHANGED <<now, list, clock>>

-----------------------------------------------------------------------------
(* The staff, from the dashboard.                                          *)

\* appointment_service.confirm: a new date forgets two of the three reminders.
Confirmed(row, s) ==
    LET forget == row.status = "CONFIRMED" /\ row.at # s IN
    [row EXCEPT !.status = "CONFIRMED", !.at = s,
                !.staffReminded = IF forget THEN FALSE ELSE @,
                !.mailReminded  = IF forget THEN FALSE ELSE @]

\* Faulty variant: the status is not looked at.
ConfirmAnything(r) ==
    /\ Arrives(r, "confirmer")
    /\ \E a \in Appts, s \in Slots :
         /\ appt[a].status # "NONE"
         /\ Day[s] > now
         /\ Loads(r, a, Confirmed(appt[a], s))
    /\ Goto(r, "staff")
    /\ UNCHANGED <<now, rows, agenda, list, clock, letters>>

\* POST /confirm: refused (409) if cancelled, any date to come otherwise.
LoadToConfirm(r) ==
    /\ Arrives(r, "confirmer")
    /\ \E a \in Appts, s \in Slots :
         /\ appt[a].status \in {"REQUESTED", "CONFIRMED"}
         /\ Day[s] > now
         /\ Loads(r, a, Confirmed(appt[a], s))
    /\ Goto(r, "staff")
    /\ UNCHANGED <<now, rows, agenda, list, clock, letters>>

\* POST /cancel: refused (409) if cancelled already.
LoadToRemove(r) ==
    /\ Arrives(r, "remover")
    /\ \E a \in Appts :
         /\ appt[a].status \in {"REQUESTED", "CONFIRMED"}
         /\ Loads(r, a, [appt[a] EXCEPT !.status = "CANCELLED"])
    /\ Goto(r, "staff")
    /\ UNCHANGED <<now, rows, agenda, list, clock, letters>>

\* Faulty variant: any word is an outcome.
JudgeAnyhow(r) ==
    /\ Arrives(r, "judge")
    /\ \E a \in Appts, outcome \in Outcomes \cup {"?"} :
         /\ appt[a].status = "CONFIRMED"
         /\ Day[appt[a].at] <= now
         /\ Loads(r, a, [appt[a] EXCEPT !.outcome = outcome, !.outcomeAt = now])
    /\ Goto(r, "staff")
    /\ UNCHANGED <<now, rows, agenda, list, clock, letters>>

\* POST /outcome: a confirmed appointment that has taken place.
LoadToJudge(r) ==
    /\ Arrives(r, "judge")
    /\ \E a \in Appts, outcome \in Outcomes :
         /\ appt[a].status = "CONFIRMED"
         /\ Day[appt[a].at] <= now
         /\ Loads(r, a, [appt[a] EXCEPT !.outcome = outcome, !.outcomeAt = now])
    /\ Goto(r, "staff")
    /\ UNCHANGED <<now, rows, agenda, list, clock, letters>>

\* record_outcome follows an absence up at once, unless it has been done.
FollowUpNow(r) == mind[r].outcome = "NO_SHOW" /\ Role[r] = "judge" /\ ~mind[r].followedUp

\* What the request changed is flushed (its row is held from here on) before
\* the customer is told; a followup leaves, by one channel or as a task.
FlushStaff(r) ==
    /\ pc[r] = "staff"
    /\ TakeRow(r)
    /\ Send(IF FollowUpNow(r) THEN {FollowUpOf(mine[r])} ELSE {})
    /\ mind' = [mind EXCEPT ![r].followedUp = @ \/ FollowUpNow(r)]
    /\ Goto(r, "flushed")
    /\ UNCHANGED <<now, appt, agenda, mine, read, list, clock>>

CommitStaff(r) ==
    /\ pc[r] = "flushed"
    /\ Commits(r)
    /\ Leave(r, "done")
    /\ UNCHANGED <<now, agenda, list, clock, letters>>

-----------------------------------------------------------------------------
(* The worker (send_due_reminders), every 15 minutes.                      *)

\* The ids of the appointments to come.
StartRun(r) ==
    /\ Arrives(r, "worker")
    /\ clock' = [clock EXCEPT ![r] = now]
    /\ list' = [list EXCEPT ![r] =
                  {a \in Appts : appt[a].status = "CONFIRMED" /\ Day[appt[a].at] > now}]
    /\ Goto(r, "run")
    /\ UNCHANGED <<now, rows, agenda, mine, read, mind, letters>>

\* reminder_due: a confirmed appointment in the window before it; a table
\* only if it was made before that window.
Eve(row, time) ==
    /\ row.status = "CONFIRMED"
    /\ time = Day[row.at] - 1

DueStaff(a, row, time)    == a \notin Tables /\ Eve(row, time) /\ ~row.staffReminded
DueMail(a, row, time)     == (a \in Tables => row.made < time) /\ Eve(row, time) /\ ~row.mailReminded
DueWhatsapp(a, row, time) == (a \in Tables => row.made < time) /\ Eve(row, time) /\ ~row.whatsappReminded

\* One appointment of the list, loaded in a session of its own.
LookAt(r) ==
    /\ pc[r] = "run"
    /\ \E a \in list[r] :
         /\ list' = [list EXCEPT ![r] = @ \ {a}]
         /\ Loads(r, a, appt[a])
    /\ Goto(r, "look")
    /\ UNCHANGED <<now, rows, agenda, clock, letters>>

\* Faulty variant: sent, not marked.
RemindUnmarked(r) ==
    /\ pc[r] = "look"
    /\ Send(IF DueMail(mine[r], mind[r], clock[r]) THEN {Note("mail_reminder", r, mind[r])} ELSE {})
    /\ Goto(r, "told")
    /\ UNCHANGED <<now, rows, agenda, session>>

\* Each reminder that is due leaves or fails (no address, closed window,
\* refused); what left is marked.  A table reminded by WhatsApp gets no email.
Remind(r) ==
    LET a == mine[r]
        row == mind[r] IN
    /\ pc[r] = "look"
    /\ \E staff, whatsapp, mail \in BOOLEAN :
         /\ staff => DueStaff(a, row, clock[r])
         /\ whatsapp => DueWhatsapp(a, row, clock[r])
         /\ mail => DueMail(a, row, clock[r])
                      /\ ~(a \in Tables /\ (row.whatsappReminded \/ whatsapp))
         /\ mind' = [mind EXCEPT ![r].staffReminded = @ \/ staff, ![r].whatsappReminded = @ \/ whatsapp,
                                 ![r].mailReminded = @ \/ mail]
         /\ Send((IF staff THEN {Note("staff_reminder", r, row)} ELSE {})
                   \cup (IF whatsapp THEN {Note("whatsapp_reminder", r, row)} ELSE {})
                   \cup (IF mail THEN {Note("mail_reminder", r, row)} ELSE {}))
    /\ Goto(r, "told")
    /\ UNCHANGED <<now, rows, agenda, mine, read, list, clock>>

CommitReminder(r) ==
    /\ pc[r] = "told"
    /\ Commits(r)
    /\ Leave(r, "run")
    /\ UNCHANGED <<now, agenda, list, clock, letters>>

\* Faulty variant: only on the day.
FollowUpDueThen(row, time) ==
    /\ row.outcome = "FOLLOW_UP"
    /\ ~row.followedUp
    /\ row.outcomeAt + FollowUpDelay = time

\* The second half of the run: visits to follow up, days after.
FollowUpDue(row, time) ==
    /\ row.outcome = "FOLLOW_UP"
    /\ ~row.followedUp
    /\ row.outcomeAt + FollowUpDelay <= time

ListFollowUps(r) ==
    /\ pc[r] = "run" /\ list[r] = {}
    /\ list' = [list EXCEPT ![r] = {a \in Appts : FollowUpDue(appt[a], clock[r])}]
    /\ Goto(r, "chase")
    /\ UNCHANGED <<now, rows, agenda, mine, read, mind, clock, letters>>

\* Loaded again, and due still; then sent (or made a task) and marked.
FollowUp(r) ==
    /\ pc[r] = "chase"
    /\ \E a \in list[r] :
         /\ list' = [list EXCEPT ![r] = @ \ {a}]
         /\ IF FollowUpDue(appt[a], clock[r])
              THEN /\ Loads(r, a, [appt[a] EXCEPT !.followedUp = TRUE])
                   /\ Send({FollowUpOf(a)})
                   /\ Goto(r, "chased")
              ELSE UNCHANGED <<pc, mine, read, mind, letters>>
    /\ UNCHANGED <<now, rows, agenda, clock>>

CommitFollowUp(r) ==
    /\ pc[r] = "chased"
    /\ Commits(r)
    /\ Leave(r, "chase")
    /\ UNCHANGED <<now, agenda, list, clock, letters>>

EndRun(r) ==
    /\ pc[r] = "chase" /\ list[r] = {}
    /\ Goto(r, "idle")
    /\ UNCHANGED <<now, rows, agenda, session, letters>>

-----------------------------------------------------------------------------
Tick ==
    /\ now < Horizon
    /\ now' = now + 1
    /\ UNCHANGED <<rows, agenda, pc, session, letters>>

\* The process dies: nothing of its open transaction is kept.
Crash(r) ==
    /\ r \in Fragile /\ pc[r] \in Busy
    /\ lock' = [a \in Appts |-> IF lock[a] = r THEN Nobody ELSE lock[a]]
    /\ FreeAgenda(r)
    /\ Leave(r, IF Role[r] = "worker" THEN "idle" ELSE "done")
    /\ list' = [list EXCEPT ![r] = {}]
    /\ UNCHANGED <<now, appt, clock, letters>>

Customer(r) == Book(r) \/ AskAppointment(r) \/ FindMine(r) \/ Move(r) \/ Quit(r) \/ GiveUp(r) \/ CommitTurn(r)
Staff(r) == LoadToConfirm(r) \/ LoadToRemove(r) \/ LoadToJudge(r) \/ FlushStaff(r) \/ CommitStaff(r)
Worker(r) ==
    \/ StartRun(r) \/ LookAt(r) \/ Remind(r) \/ CommitReminder(r)
    \/ ListFollowUps(r) \/ FollowUp(r) \/ CommitFollowUp(r) \/ EndRun(r)

Next ==
    \/ \E r \in Requests : Customer(r) \/ Staff(r) \/ Worker(r) \/ Crash(r)
    \/ Tick
    \/ now = Horizon /\ UNCHANGED vars

Spec == Init /\ [][Next]_vars

\* Beat starts the worker, and a worker or a request that has begun goes on.
FairSpec ==
    /\ Spec
    /\ WF_vars(Tick)
    /\ \A r \in Requests :
         /\ WF_vars(Worker(r))
         /\ WF_vars(CommitTurn(r) \/ GiveUp(r))
         /\ WF_vars(FlushStaff(r) \/ CommitStaff(r))

-----------------------------------------------------------------------------
ApptTypeOK ==
    /\ now \in 0..Horizon
    /\ appt \in [Appts -> ApptData]
    /\ agenda \in Requests \cup {Nobody}
    /\ lock \in [Appts -> Requests \cup {Nobody}]
    /\ pc \in [Requests -> Busy \cup {"idle", "done"}]
    /\ mine \in [Requests -> Appts \cup {Nobody}]
    /\ read \in [Requests -> ApptData]
    /\ mind \in [Requests -> ApptData]
    /\ list \in [Requests -> SUBSET Appts]
    /\ clock \in [Requests -> Nat]
    /\ again \subseteq sent /\ sent \subseteq Message

\* "deux clients ne réservent jamais la dernière place en même temps": however
\* many customers book and move at once, no more than Capacity appointments
\* overlap a slot (load_settings(lock=True) and is_bookable).
NeverOverbooked ==
    \A a \in Appts : appt[a].status = "CONFIRMED" => Cardinality(Taken(appt[a].at, {})) <= Capacity

\* A cancelled appointment stays cancelled: both routes refuse it ("Ce
\* rendez-vous est annulé"), the customer's tools do not see it.
CancelledIsFinal ==
    [][\A a \in Appts : appt[a].status = "CANCELLED" => (appt[a].status)' = "CANCELLED"]_vars

\* What the agent announces is what the agenda says: a move is announced for
\* an appointment that stands at the new date (_my_appointment: "non annulé").
TrueAnnouncements ==
    \A m \in (sent' \ sent) \cup (again' \ again) :
       /\ m.kind \in {"moved", "confirmed"} =>
            (appt[m.appt])'.status = "CONFIRMED" /\ (appt[m.appt])'.at = m.at
       /\ m.kind = "cancelled" => (appt[m.appt])'.status = "CANCELLED"

\* "jamais envoyé deux fois": one reminder of each kind for one date.
RemindedOnce ==
    \A m \in again : m.kind \notin {"staff_reminder", "mail_reminder", "whatsapp_reminder"}

\* "Nouvelle date : les rappels de l'ancienne ne comptent plus": a reminder
\* marked as sent was sent for the date the appointment has.
MarkedForThisDate ==
    \A a \in Appts :
       LET reminded(kind) == \E m \in sent : m.kind = kind /\ m.appt = a /\ m.at = appt[a].at IN
       appt[a].status = "CONFIRMED" =>
          /\ appt[a].staffReminded => reminded("staff_reminder")
          /\ appt[a].mailReminded => reminded("mail_reminder")
          /\ appt[a].whatsappReminded => reminded("whatsapp_reminder")

\* "Relance, UNE seule fois": one followup per appointment, whether it is the
\* staff or the worker who sends it.
FollowedUpOnce == \A m \in again : m.kind # "followup"

\* A visitor the staff wants followed up is, days later, unless an outcome was
\* recorded again meanwhile: the worker that looks after the delay sees him.
FollowUpHappens ==
    \A a \in Appts :
       LET awaited == appt[a].outcome = "FOLLOW_UP" /\ appt[a].outcomeAt + FollowUpDelay <= Horizon IN
       awaited ~> (appt[a].followedUp \/ ~awaited)

\* One session at a time, what was sent is not sent again.
WrittenToOnce == RemindedOnce /\ FollowedUpOnce
=============================================================================
