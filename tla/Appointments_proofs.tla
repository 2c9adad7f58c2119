------------------------ MODULE Appointments_proofs ------------------------
(***************************************************************************)
(* Theorems about Appointments, for any shop and any number of customers,  *)
(* advisers and worker runs.                                               *)
(***************************************************************************)
EXTENDS Appointments, FiniteSetTheorems, TLAPS

-----------------------------------------------------------------------------
(* Rows.                                                                   *)

LEMMA MergeFields ==
    ASSUME NEW row \in ApptData, NEW old \in ApptData, NEW new \in ApptData
    PROVE  /\ Merge(row, old, new) \in ApptData
           /\ Merge(row, old, new).status = IF new.status # old.status THEN new.status ELSE row.status
           /\ Merge(row, old, new).at = IF new.at # old.at THEN new.at ELSE row.at
  BY DEF Merge, ApptData

LEMMA NoApptType == NoAppt \in ApptData
  BY DEF NoAppt, ApptData, Status

LEMMA StatusEdit ==
    ASSUME NEW row \in ApptData, NEW status \in Status
    PROVE  [row EXCEPT !.status = status] \in ApptData
  BY DEF ApptData

LEMMA NewRow ==
    ASSUME NEW status \in Status, NEW at \in Slots \cup {NoSlot}, NEW time \in Nat
    PROVE  /\ [NoAppt EXCEPT !.status = status, !.made = time] \in ApptData
           /\ [NoAppt EXCEPT !.status = status, !.at = at, !.made = time] \in ApptData
  BY NoApptType DEF ApptData

LEMMA DateEdit ==
    ASSUME NEW row \in ApptData, NEW s \in Slots
    PROVE  /\ [row EXCEPT !.status = "CONFIRMED", !.at = s, !.staffReminded = FALSE,
                          !.mailReminded = FALSE, !.whatsappReminded = FALSE] \in ApptData
           /\ Confirmed(row, s) \in ApptData
  BY DEF ApptData, Status, Confirmed

LEMMA OutcomeEdit ==
    ASSUME NEW row \in ApptData, NEW outcome \in Outcomes, NEW time \in Nat
    PROVE  [row EXCEPT !.outcome = outcome, !.outcomeAt = time] \in ApptData
  BY DEF ApptData

LEMMA FollowedUpEdit ==
    ASSUME NEW row \in ApptData, NEW mark \in BOOLEAN
    PROVE  [row EXCEPT !.followedUp = mark] \in ApptData
  BY DEF ApptData

LEMMA RemindedEdit ==
    ASSUME NEW row \in ApptData, NEW staff \in BOOLEAN, NEW whatsapp \in BOOLEAN, NEW mail \in BOOLEAN
    PROVE  [row EXCEPT !.staffReminded = staff, !.whatsappReminded = whatsapp, !.mailReminded = mail] \in ApptData
  BY DEF ApptData

LEMMA RemindedAs ==
    ASSUME mind \in [Requests -> ApptData], NEW r \in Requests,
           NEW staff \in BOOLEAN, NEW whatsapp \in BOOLEAN, NEW mail \in BOOLEAN
    PROVE  [mind EXCEPT ![r].staffReminded = @ \/ staff, ![r].whatsappReminded = @ \/ whatsapp,
                        ![r].mailReminded = @ \/ mail] \in [Requests -> ApptData]
<1>1. /\ (mind[r].staffReminded \/ staff) \in BOOLEAN
      /\ (mind[r].whatsappReminded \/ whatsapp) \in BOOLEAN
      /\ (mind[r].mailReminded \/ mail) \in BOOLEAN
  OBVIOUS
<1>2. [mind[r] EXCEPT !.staffReminded = mind[r].staffReminded \/ staff,
                      !.whatsappReminded = mind[r].whatsappReminded \/ whatsapp,
                      !.mailReminded = mind[r].mailReminded \/ mail] \in ApptData
  BY <1>1, RemindedEdit
<1> QED
  BY <1>2

LEMMA NowIsNat ==
    ASSUME ApptTypeOK
    PROVE  now \in Nat
  BY AppointmentsAssumption DEF ApptTypeOK

LEMMA NoteType ==
    ASSUME NEW r \in Requests, mine[r] \in Appts, NEW row \in ApptData, NEW kind \in Kinds
    PROVE  Note(kind, r, row) \in Message
  BY DEF Note, Message, ApptData

-----------------------------------------------------------------------------
(* Type correctness: a session that has loaded a row knows which.          *)

Holding == {"turn", "lost", "staff", "flushed", "look", "told", "chased"}

Working == \A r \in Requests : pc[r] \in Holding => mine[r] \in Appts

SessionTypeOK ==
    /\ pc \in [Requests -> Busy \cup {"idle", "done"}]
    /\ mine \in [Requests -> Appts \cup {Nobody}]
    /\ read \in [Requests -> ApptData]
    /\ mind \in [Requests -> ApptData]

LEMMA LoadsType ==
    ASSUME ApptTypeOK, Working,
           NEW r \in Requests, NEW a \in Appts, NEW row \in ApptData, NEW label \in Busy,
           Loads(r, a, row), Goto(r, label)
    PROVE  SessionTypeOK' /\ Working'
  BY DEF ApptTypeOK, Working, SessionTypeOK, Loads, Goto

LEMMA LeaveType ==
    ASSUME ApptTypeOK, Working,
           NEW r \in Requests, NEW label \in {"run", "chase", "done", "idle"}, Leave(r, label)
    PROVE  SessionTypeOK' /\ Working'
  BY NoApptType DEF ApptTypeOK, Working, SessionTypeOK, Leave, Goto, Holding, Busy

LEMMA GotoType ==
    ASSUME ApptTypeOK, Working,
           NEW r \in Requests, NEW label \in Busy \cup {"idle", "done"}, Goto(r, label),
           label \in Holding => pc[r] \in Holding,
           UNCHANGED <<mine, read>>, mind' \in [Requests -> ApptData]
    PROVE  SessionTypeOK' /\ Working'
  BY DEF ApptTypeOK, Working, SessionTypeOK, Goto

LEMMA CommitsType ==
    ASSUME ApptTypeOK, Working, NEW r \in Requests, pc[r] \in Holding, Commits(r)
    PROVE  /\ appt' \in [Appts -> ApptData]
           /\ lock' \in [Appts -> Requests \cup {Nobody}]
<1>1. mine[r] \in Appts
  BY DEF Working
<1>2. Merge(appt[mine[r]], read[r], mind[r]) \in ApptData
  BY <1>1, MergeFields DEF ApptTypeOK
<1> QED
  BY <1>1, <1>2 DEF Commits, ApptTypeOK

LEMMA SendType ==
    ASSUME ApptTypeOK, NEW messages \in SUBSET Message, Send(messages)
    PROVE  again' \subseteq sent' /\ sent' \subseteq Message
  BY DEF ApptTypeOK, Send

\* Every session works on rows of the right shape, and every message is about
\* an appointment of the shop.
LEMMA CustomerType ==
    ASSUME ApptTypeOK, Working, NEW r \in Requests, Customer(r)
    PROVE  ApptTypeOK' /\ Working'
<1> USE AppointmentsAssumption
<1>1. CASE Book(r)
  <2>1. PICK s \in Slots : Loads(r, r, [NoAppt EXCEPT !.status = "CONFIRMED", !.at = s, !.made = now])
    BY <1>1 DEF Book
  <2>2. r \in Appts
    BY <1>1 DEF Book, Arrives, Appts, NewRoles
  <2>3. [NoAppt EXCEPT !.status = "CONFIRMED", !.at = s, !.made = now] \in ApptData
    BY NowIsNat, NewRow DEF Status
  <2>4. SessionTypeOK' /\ Working'
    BY <1>1, <2>1, <2>2, <2>3, LoadsType DEF Book, Busy
  <2> QED
    BY <1>1, <2>4 DEF Book, ApptTypeOK, SessionTypeOK, TakeAgenda, rows, letters
<1>2. CASE AskAppointment(r)
  <2>1. r \in Appts
    BY <1>2 DEF AskAppointment, Arrives, Appts, NewRoles
  <2>2. [NoAppt EXCEPT !.status = "REQUESTED", !.made = now] \in ApptData
    BY NowIsNat, NewRow DEF Status
  <2>3. SessionTypeOK' /\ Working'
    BY <1>2, <2>1, <2>2, LoadsType DEF AskAppointment, Busy
  <2> QED
    BY <1>2, <2>3 DEF AskAppointment, ApptTypeOK, SessionTypeOK, rows, letters
<1>3. CASE FindMine(r)
  <2>1. PICK a \in Appts : Loads(r, a, appt[a])
    BY <1>3 DEF FindMine
  <2>2. appt[a] \in ApptData
    BY DEF ApptTypeOK
  <2>3. SessionTypeOK' /\ Working'
    BY <1>3, <2>1, <2>2, LoadsType DEF FindMine, Busy
  <2> QED
    BY <1>3, <2>3 DEF FindMine, ApptTypeOK, SessionTypeOK, rows, letters
<1>4. CASE Move(r)
  <2>1. mine[r] \in Appts
    BY <1>4 DEF Move, Working, Holding
  <2>2. mind' \in [Requests -> ApptData]
    <3>1. PICK s \in Slots :
            mind' = [mind EXCEPT ![r] = [@ EXCEPT !.status = "CONFIRMED", !.at = s, !.staffReminded = FALSE,
                                                 !.mailReminded = FALSE, !.whatsappReminded = FALSE]]
      BY <1>4 DEF Move
    <3>2. [mind[r] EXCEPT !.status = "CONFIRMED", !.at = s, !.staffReminded = FALSE,
                          !.mailReminded = FALSE, !.whatsappReminded = FALSE] \in ApptData
      BY DateEdit DEF ApptTypeOK
    <3> QED
      BY <3>1, <3>2 DEF ApptTypeOK
  <2>3. SessionTypeOK' /\ Working'
    BY <1>4, <2>2, GotoType DEF Move, Busy, Holding
  <2> QED
    BY <1>4, <2>1, <2>3 DEF Move, ApptTypeOK, SessionTypeOK, TakeAgenda, TakeRow, letters
<1>5. CASE Quit(r)
  <2>1. mine[r] \in Appts
    BY <1>5 DEF Quit, Working, Holding
  <2>2. mind' \in [Requests -> ApptData]
    <3>1. [mind[r] EXCEPT !.status = "CANCELLED"] \in ApptData
      BY StatusEdit DEF ApptTypeOK, Status
    <3> QED
      BY <1>5, <3>1 DEF Quit, ApptTypeOK
  <2>3. SessionTypeOK' /\ Working'
    BY <1>5, <2>2, GotoType DEF Quit, Busy, Holding
  <2> QED
    BY <1>5, <2>1, <2>3 DEF Quit, ApptTypeOK, SessionTypeOK, TakeRow, letters
<1>6. CASE GiveUp(r)
  <2>1. SessionTypeOK' /\ Working'
    BY <1>6, LeaveType DEF GiveUp
  <2> QED
    BY <1>6, <2>1 DEF GiveUp, ApptTypeOK, SessionTypeOK, rows, letters
<1>7. CASE CommitTurn(r)
  <2>1. pc[r] \in Holding /\ mine[r] \in Appts
    BY <1>7 DEF CommitTurn, Holding, Working
  <2>2. SessionTypeOK' /\ Working'
    BY <1>7, LeaveType DEF CommitTurn
  <2>3. appt' \in [Appts -> ApptData] /\ lock' \in [Appts -> Requests \cup {Nobody}]
    BY <1>7, <2>1, CommitsType DEF CommitTurn
  <2>4. mind[r] \in ApptData
    BY DEF ApptTypeOK
  <2>5. \A kind \in Kinds : Note(kind, r, mind[r]) \in Message
    BY <2>1, <2>4, NoteType
  <2>6. Announcement(r) \in SUBSET Message
    BY <2>5 DEF Announcement, Kinds
  <2>7. again' \subseteq sent' /\ sent' \subseteq Message
    BY <1>7, <2>6, SendType DEF CommitTurn
  <2> QED
    BY <1>7, <2>2, <2>3, <2>7 DEF CommitTurn, ApptTypeOK, SessionTypeOK, FreeAgenda
<1> QED
  BY <1>1, <1>2, <1>3, <1>4, <1>5, <1>6, <1>7 DEF Customer

LEMMA StaffType ==
    ASSUME ApptTypeOK, Working, NEW r \in Requests, Staff(r)
    PROVE  ApptTypeOK' /\ Working'
<1> USE AppointmentsAssumption
<1>1. CASE LoadToConfirm(r)
  <2>1. PICK a \in Appts, s \in Slots : Loads(r, a, Confirmed(appt[a], s))
    BY <1>1 DEF LoadToConfirm
  <2>2. Confirmed(appt[a], s) \in ApptData
    BY DateEdit DEF ApptTypeOK
  <2>3. SessionTypeOK' /\ Working'
    BY <1>1, <2>1, <2>2, LoadsType DEF LoadToConfirm, Busy
  <2> QED
    BY <1>1, <2>3 DEF LoadToConfirm, ApptTypeOK, SessionTypeOK, rows, letters
<1>2. CASE LoadToRemove(r)
  <2>1. PICK a \in Appts : Loads(r, a, [appt[a] EXCEPT !.status = "CANCELLED"])
    BY <1>2 DEF LoadToRemove
  <2>2. [appt[a] EXCEPT !.status = "CANCELLED"] \in ApptData
    BY StatusEdit DEF ApptTypeOK, Status
  <2>3. SessionTypeOK' /\ Working'
    BY <1>2, <2>1, <2>2, LoadsType DEF LoadToRemove, Busy
  <2> QED
    BY <1>2, <2>3 DEF LoadToRemove, ApptTypeOK, SessionTypeOK, rows, letters
<1>3. CASE LoadToJudge(r)
  <2>1. PICK a \in Appts, outcome \in Outcomes :
          Loads(r, a, [appt[a] EXCEPT !.outcome = outcome, !.outcomeAt = now])
    BY <1>3 DEF LoadToJudge
  <2>2. [appt[a] EXCEPT !.outcome = outcome, !.outcomeAt = now] \in ApptData
    BY NowIsNat, OutcomeEdit DEF ApptTypeOK
  <2>3. SessionTypeOK' /\ Working'
    BY <1>3, <2>1, <2>2, LoadsType DEF LoadToJudge, Busy
  <2> QED
    BY <1>3, <2>3 DEF LoadToJudge, ApptTypeOK, SessionTypeOK, rows, letters
<1>4. CASE FlushStaff(r)
  <2>1. pc[r] \in Holding /\ mine[r] \in Appts
    BY <1>4 DEF FlushStaff, Holding, Working
  <2>2. mind' \in [Requests -> ApptData]
    <3>1. (mind[r].followedUp \/ FollowUpNow(r)) \in BOOLEAN
      OBVIOUS
    <3>2. mind[r] \in ApptData
      BY DEF ApptTypeOK
    <3>3. [mind[r] EXCEPT !.followedUp = mind[r].followedUp \/ FollowUpNow(r)] \in ApptData
      BY <3>1, <3>2, FollowedUpEdit
    <3> QED
      BY <1>4, <3>3 DEF FlushStaff, ApptTypeOK
  <2>3. SessionTypeOK' /\ Working'
    BY <1>4, <2>1, <2>2, GotoType DEF FlushStaff, Busy
  <2>4. FollowUpOf(mine[r]) \in Message
    BY <2>1 DEF FollowUpOf, Message, Kinds
  <2>5. again' \subseteq sent' /\ sent' \subseteq Message
    BY <1>4, <2>4, SendType DEF FlushStaff
  <2> QED
    BY <1>4, <2>1, <2>3, <2>5 DEF FlushStaff, ApptTypeOK, SessionTypeOK, TakeRow
<1>5. CASE CommitStaff(r)
  <2>1. pc[r] \in Holding
    BY <1>5 DEF CommitStaff, Holding
  <2>2. SessionTypeOK' /\ Working'
    BY <1>5, LeaveType DEF CommitStaff
  <2>3. appt' \in [Appts -> ApptData] /\ lock' \in [Appts -> Requests \cup {Nobody}]
    BY <1>5, <2>1, CommitsType DEF CommitStaff
  <2> QED
    BY <1>5, <2>2, <2>3 DEF CommitStaff, ApptTypeOK, SessionTypeOK, letters
<1> QED
  BY <1>1, <1>2, <1>3, <1>4, <1>5 DEF Staff

LEMMA WorkerType ==
    ASSUME ApptTypeOK, Working, NEW r \in Requests, Worker(r)
    PROVE  ApptTypeOK' /\ Working'
<1> USE AppointmentsAssumption
<1>1. CASE StartRun(r)
  <2>1. SessionTypeOK' /\ Working'
    BY <1>1, GotoType DEF StartRun, Busy, Holding, ApptTypeOK
  <2>2. list' \in [Requests -> SUBSET Appts] /\ clock' \in [Requests -> Nat]
    BY <1>1, NowIsNat DEF StartRun, ApptTypeOK
  <2> QED
    BY <1>1, <2>1, <2>2 DEF StartRun, ApptTypeOK, SessionTypeOK, rows, letters
<1>2. CASE LookAt(r)
  <2>1. PICK a \in Appts : Loads(r, a, appt[a]) /\ list' = [list EXCEPT ![r] = @ \ {a}]
    BY <1>2 DEF LookAt, ApptTypeOK
  <2>2. appt[a] \in ApptData
    BY DEF ApptTypeOK
  <2>3. SessionTypeOK' /\ Working'
    BY <1>2, <2>1, <2>2, LoadsType DEF LookAt, Busy
  <2>4. list' \in [Requests -> SUBSET Appts]
    BY <2>1 DEF ApptTypeOK
  <2> QED
    BY <1>2, <2>3, <2>4 DEF LookAt, ApptTypeOK, SessionTypeOK, rows, letters
<1>3. CASE Remind(r)
  <2>1. pc[r] \in Holding /\ mine[r] \in Appts
    BY <1>3 DEF Remind, Holding, Working
  <2>2. mind[r] \in ApptData
    BY DEF ApptTypeOK
  <2>3. PICK staff \in BOOLEAN, whatsapp \in BOOLEAN, mail \in BOOLEAN :
          /\ mind' = [mind EXCEPT ![r].staffReminded = @ \/ staff, ![r].whatsappReminded = @ \/ whatsapp,
                                  ![r].mailReminded = @ \/ mail]
          /\ Send((IF staff THEN {Note("staff_reminder", r, mind[r])} ELSE {})
                    \cup (IF whatsapp THEN {Note("whatsapp_reminder", r, mind[r])} ELSE {})
                    \cup (IF mail THEN {Note("mail_reminder", r, mind[r])} ELSE {}))
    BY ZenonT(40), <1>3 DEF Remind
  <2>4. mind' \in [Requests -> ApptData]
    BY <2>2, <2>3, RemindedAs DEF ApptTypeOK
  <2>5. SessionTypeOK' /\ Working'
    BY <1>3, <2>1, <2>4, GotoType DEF Remind, Busy
  <2>6. \A kind \in Kinds : Note(kind, r, mind[r]) \in Message
    BY <2>1, <2>2, NoteType
  <2>7. again' \subseteq sent' /\ sent' \subseteq Message
    BY <2>3, <2>6, SendType DEF Kinds
  <2> QED
    BY <1>3, <2>5, <2>7 DEF Remind, ApptTypeOK, SessionTypeOK, rows
<1>4. CASE CommitReminder(r)
  <2>1. pc[r] \in Holding
    BY <1>4 DEF CommitReminder, Holding
  <2>2. SessionTypeOK' /\ Working'
    BY <1>4, LeaveType DEF CommitReminder
  <2>3. appt' \in [Appts -> ApptData] /\ lock' \in [Appts -> Requests \cup {Nobody}]
    BY <1>4, <2>1, CommitsType DEF CommitReminder
  <2> QED
    BY <1>4, <2>2, <2>3 DEF CommitReminder, ApptTypeOK, SessionTypeOK, letters
<1>5. CASE ListFollowUps(r)
  <2>1. SessionTypeOK' /\ Working'
    BY <1>5, GotoType DEF ListFollowUps, Busy, Holding, ApptTypeOK
  <2>2. list' \in [Requests -> SUBSET Appts]
    BY <1>5 DEF ListFollowUps, ApptTypeOK
  <2> QED
    BY <1>5, <2>1, <2>2 DEF ListFollowUps, ApptTypeOK, SessionTypeOK, rows, letters
<1>6. CASE FollowUp(r)
  <2>1. PICK a \in Appts :
          /\ list' = [list EXCEPT ![r] = @ \ {a}]
          /\ IF FollowUpDue(appt[a], clock[r])
               THEN /\ Loads(r, a, [appt[a] EXCEPT !.followedUp = TRUE])
                    /\ Send({FollowUpOf(a)})
                    /\ Goto(r, "chased")
               ELSE UNCHANGED <<pc, mine, read, mind, letters>>
    BY <1>6 DEF FollowUp, ApptTypeOK
  <2>2. list' \in [Requests -> SUBSET Appts]
    BY <2>1 DEF ApptTypeOK
  <2>3. CASE FollowUpDue(appt[a], clock[r])
    <3>1. [appt[a] EXCEPT !.followedUp = TRUE] \in ApptData
      BY FollowedUpEdit DEF ApptTypeOK
    <3>2. SessionTypeOK' /\ Working'
      BY <2>1, <2>3, <3>1, LoadsType DEF Busy
    <3>3. FollowUpOf(a) \in Message
      BY DEF FollowUpOf, Message, Kinds
    <3>4. again' \subseteq sent' /\ sent' \subseteq Message
      BY <2>1, <2>3, <3>3, SendType
    <3> QED
      BY <1>6, <2>2, <3>2, <3>4 DEF FollowUp, ApptTypeOK, SessionTypeOK, rows
  <2>4. CASE ~FollowUpDue(appt[a], clock[r])
    BY <1>6, <2>1, <2>2, <2>4 DEF FollowUp, ApptTypeOK, Working, rows, letters
  <2> QED
    BY <2>3, <2>4
<1>7. CASE CommitFollowUp(r)
  <2>1. pc[r] \in Holding
    BY <1>7 DEF CommitFollowUp, Holding
  <2>2. SessionTypeOK' /\ Working'
    BY <1>7, LeaveType DEF CommitFollowUp
  <2>3. appt' \in [Appts -> ApptData] /\ lock' \in [Appts -> Requests \cup {Nobody}]
    BY <1>7, <2>1, CommitsType DEF CommitFollowUp
  <2> QED
    BY <1>7, <2>2, <2>3 DEF CommitFollowUp, ApptTypeOK, SessionTypeOK, letters
<1>8. CASE EndRun(r)
  BY <1>8 DEF EndRun, Goto, ApptTypeOK, Working, Holding, rows, letters, session
<1> QED
  BY <1>1, <1>2, <1>3, <1>4, <1>5, <1>6, <1>7, <1>8 DEF Worker

LEMMA CrashType ==
    ASSUME ApptTypeOK, Working, NEW r \in Requests, Crash(r)
    PROVE  ApptTypeOK' /\ Working'
<1>1. SessionTypeOK' /\ Working'
  BY LeaveType DEF Crash
<1>2. /\ lock' \in [Appts -> Requests \cup {Nobody}]
      /\ agenda' \in Requests \cup {Nobody}
      /\ list' \in [Requests -> SUBSET Appts]
  BY DEF Crash, ApptTypeOK, FreeAgenda
<1> QED
  BY <1>1, <1>2 DEF Crash, ApptTypeOK, SessionTypeOK, letters

LEMMA TypeStep ==
    ASSUME ApptTypeOK, Working, [Next]_vars
    PROVE  ApptTypeOK' /\ Working'
<1>1. CASE Tick
  BY <1>1, AppointmentsAssumption DEF Tick, ApptTypeOK, Working, rows, session, letters
<1>2. CASE UNCHANGED vars
  BY <1>2 DEF vars, ApptTypeOK, Working, rows, session, letters
<1>3. ASSUME NEW r \in Requests, Customer(r) \/ Staff(r) \/ Worker(r) \/ Crash(r)
      PROVE  ApptTypeOK' /\ Working'
  BY <1>3, CustomerType, StaffType, WorkerType, CrashType
<1> QED
  BY <1>1, <1>2, <1>3 DEF Next

LEMMA TypeInit ==
    ASSUME Init
    PROVE  ApptTypeOK /\ Working
  BY NoApptType, AppointmentsAssumption DEF Init, ApptTypeOK, Working, Holding, Busy

\* Whatever the sessions do and whichever dies, every one of them works on
\* rows of the right shape, and no message is about anything but them.
THEOREM ApptTypeCorrect == Spec => []ApptTypeOK
<1>1. Init => ApptTypeOK /\ Working
  BY TypeInit
<1>2. ApptTypeOK /\ Working /\ [Next]_vars => ApptTypeOK' /\ Working'
  BY TypeStep
<1> QED
  BY <1>1, <1>2, PTL DEF Spec

-----------------------------------------------------------------------------
(* The last place.  What a session holds either writes no date at all, or  *)
(* writes one that was found free by the holder of the agenda.             *)

CustomersOnly == \A r \in Requests : Role[r] # "confirmer"

Dated(row) ==
    /\ row.status \in {"NONE", "REQUESTED"} => row.at = NoSlot
    /\ row.status = "CONFIRMED" => row.at \in Offered

\* A booking or a move, found to have room.
Books(r) ==
    /\ agenda = r
    /\ mind[r].status = "CONFIRMED" /\ mind[r].at \in Offered
    /\ read[r].status # "CANCELLED"
    /\ mine[r] = r \/ read[r].status # "NONE"
    /\ Cardinality(Taken(mind[r].at, {mine[r]})) < Capacity

\* A request without a date.
Asks(r) == mine[r] = r /\ mind[r].status = "REQUESTED" /\ mind[r].at = read[r].at

\* Anything else: at most a cancellation of what was there.
Keeps(r) ==
    /\ mind[r].at = read[r].at
    /\ \/ mind[r].status = read[r].status
       \/ mind[r].status = "CANCELLED" /\ read[r].status # "NONE"

\* The row has not gone back since it was read.
Since(r) ==
    /\ read[r].status # "NONE" => appt[mine[r]].status # "NONE"
    /\ read[r].status = "CONFIRMED" => appt[mine[r]].status \in {"CONFIRMED", "CANCELLED"}

SessionInv(r) ==
    /\ r \in Appts => pc[r] \in {"idle", "turn", "done"}
    /\ pc[r] \in Holding =>
         /\ Dated(read[r])
         /\ Since(r)
         /\ Keeps(r) \/ (pc[r] = "turn" /\ (Books(r) \/ Asks(r)))
    /\ pc[r] = "lost" => read[r].status \in {"REQUESTED", "CONFIRMED"}

AgendaInv ==
    /\ CustomersOnly
    /\ \A a \in Appts : Dated(appt[a]) /\ (pc[a] # "done" => appt[a].status = "NONE")
    /\ \A s \in Offered : Cardinality(Taken(s, {})) <= Capacity
    /\ \A r \in Requests : SessionInv(r)

LEMMA TakenFinite ==
    ASSUME NEW s, NEW except
    PROVE  /\ IsFiniteSet(Taken(s, except))
           /\ Cardinality(Taken(s, except)) \in Nat
<1>1. IsFiniteSet(Appts)
  BY AppointmentsAssumption, FS_Subset DEF Appts
<1>2. Taken(s, except) \in SUBSET Appts
  BY DEF Taken
<1> QED
  BY <1>1, <1>2, FS_Subset, FS_CardinalityType

LEMMA FewerTaken ==
    ASSUME NEW s, NEW except, NEW S, S \subseteq Taken(s, except)
    PROVE  Cardinality(S) <= Cardinality(Taken(s, except)) /\ Cardinality(S) \in Nat
  BY TakenFinite, FS_Subset, FS_CardinalityType

\* A step of r that writes no row.
LEMMA NoWrite ==
    ASSUME ApptTypeOK, AgendaInv, NEW r \in Requests, UNCHANGED appt, pc[r] # "done",
           \A q \in Requests \ {r} :
              pc'[q] = pc[q] /\ mine'[q] = mine[q] /\ read'[q] = read[q] /\ mind'[q] = mind[q],
           agenda' = agenda \/ agenda = Nobody \/ agenda = r,
           SessionInv(r)'
    PROVE  AgendaInv'
<1>1. \A s, e : Taken(s, e)' = Taken(s, e)
  BY DEF Taken
<1>2. \A a \in Appts : Dated(appt[a])' /\ (pc'[a] # "done" => appt'[a].status = "NONE")
  BY DEF AgendaInv, Dated, Appts
<1>3. ASSUME NEW q \in Requests \ {r}
      PROVE  SessionInv(q)'
  <2>1. Books(q) => Books(q)'
    <3>1. Taken(mind[q].at, {mine[q]})' = Taken(mind[q].at, {mine[q]})
      BY <1>1
    <3> QED
      BY <3>1, AppointmentsAssumption DEF Books
  <2>2. SessionInv(q)
    BY DEF AgendaInv
  <2> QED
    BY <2>1, <2>2 DEF SessionInv, Keeps, Asks, Since, Dated
<1> QED
  BY <1>1, <1>2, <1>3 DEF AgendaInv, CustomersOnly

\* What the commit of r leaves in the row it worked on.
LEMMA WrittenRow ==
    ASSUME ApptTypeOK, Working, AgendaInv, NEW r \in Requests, pc[r] \in Holding, Commits(r)
    PROVE  /\ mine[r] \in Appts
           /\ \A a \in Appts \ {mine[r]} : appt'[a] = appt[a]
           /\ Dated(appt'[mine[r]])
           /\ appt[mine[r]].status # "NONE" => appt'[mine[r]].status # "NONE"
           /\ appt[mine[r]].status \in {"CONFIRMED", "CANCELLED"} =>
                appt'[mine[r]].status \in {"CONFIRMED", "CANCELLED"}
           /\ mine[r] = r \/ appt[mine[r]].status # "NONE" \/ appt'[mine[r]].status = "NONE"
           /\ \/ appt'[mine[r]].status = "CONFIRMED" =>
                   appt[mine[r]].status = "CONFIRMED" /\ appt'[mine[r]].at = appt[mine[r]].at
              \/ Books(r) /\ appt'[mine[r]].at = mind[r].at
<1> DEFINE a == mine[r]
           old == appt[a]
           new == Merge(appt[a], read[r], mind[r])
<1>1. a \in Appts
  BY DEF Working
<1>2. old \in ApptData /\ read[r] \in ApptData /\ mind[r] \in ApptData
  BY <1>1 DEF ApptTypeOK
<1>3. /\ new.status = IF mind[r].status # read[r].status THEN mind[r].status ELSE old.status
      /\ new.at = IF mind[r].at # read[r].at THEN mind[r].at ELSE old.at
  BY <1>2, MergeFields
<1>4. appt' = [appt EXCEPT ![a] = new] /\ appt \in [Appts -> ApptData]
  BY DEF Commits, ApptTypeOK
<1>5. appt'[a] = new /\ \A b \in Appts \ {a} : appt'[b] = appt[b]
  BY <1>1, <1>4
<1>6. /\ Dated(old) /\ Dated(read[r]) /\ Since(r)
      /\ Keeps(r) \/ (pc[r] = "turn" /\ (Books(r) \/ Asks(r)))
  BY <1>1 DEF AgendaInv, SessionInv
<1> HIDE DEF new
<1>7. CASE Keeps(r)
  BY <1>1, <1>3, <1>5, <1>6, <1>7 DEF Keeps, Dated, Since
<1>8. CASE pc[r] = "turn" /\ Asks(r)
  <2>1. old.status = "NONE"
    BY <1>1, <1>8 DEF Asks, AgendaInv
  <2> QED
    BY <1>1, <1>3, <1>5, <1>6, <1>8, <2>1 DEF Asks, Dated, Since
<1>9. CASE Books(r)
  <2>1. NoSlot \notin Offered
    BY AppointmentsAssumption
  <2>2. CASE read[r].status = "CONFIRMED"
    BY <1>1, <1>3, <1>5, <1>6, <1>9, <2>2 DEF Books, Dated, Since
  <2>3. CASE read[r].status # "CONFIRMED"
    <3>1. read[r].status \in {"NONE", "REQUESTED"}
      BY <1>2, <1>9, <2>3 DEF Books, ApptData, Status
    <3>2. new.status = "CONFIRMED" /\ new.at = mind[r].at
      BY <1>3, <1>6, <1>9, <2>1, <3>1 DEF Books, Dated
    <3> QED
      BY <1>1, <1>5, <1>6, <1>9, <3>2 DEF Books, Dated, Since
  <2> QED
    BY <2>2, <2>3
<1> QED
  BY <1>6, <1>7, <1>8, <1>9

\* A commit of r, and the end of its session.
LEMMA WriteAndLeave ==
    ASSUME ApptTypeOK, Working, AgendaInv, NEW r \in Requests, pc[r] \in Holding, Commits(r),
           NEW label \in {"done", "run", "chase"}, Leave(r, label), r \in Appts => label = "done",
           UNCHANGED agenda \/ FreeAgenda(r)
    PROVE  AgendaInv'
<1> DEFINE a == mine[r]
<1>1. /\ a \in Appts
      /\ \A b \in Appts \ {a} : appt'[b] = appt[b]
      /\ Dated(appt'[a])
      /\ appt[a].status # "NONE" => appt'[a].status # "NONE"
      /\ appt[a].status \in {"CONFIRMED", "CANCELLED"} => appt'[a].status \in {"CONFIRMED", "CANCELLED"}
      /\ a = r \/ appt[a].status # "NONE" \/ appt'[a].status = "NONE"
      /\ \/ appt'[a].status = "CONFIRMED" => appt[a].status = "CONFIRMED" /\ appt'[a].at = appt[a].at
         \/ Books(r) /\ appt'[a].at = mind[r].at
  BY WrittenRow
<1>2. pc'[r] = label /\ \A q \in Requests \ {r} :
         pc'[q] = pc[q] /\ mine'[q] = mine[q] /\ read'[q] = read[q] /\ mind'[q] = mind[q]
  BY DEF Leave, Goto, ApptTypeOK
<1> HIDE DEF a
<1>3. \A b \in Appts : Dated(appt[b])' /\ (pc'[b] # "done" => appt'[b].status = "NONE")
  <2> SUFFICES ASSUME NEW b \in Appts
               PROVE  Dated(appt'[b]) /\ (pc'[b] # "done" => appt'[b].status = "NONE")
    BY DEF Dated
  <2>1. CASE b # a
    BY <1>1, <1>2, <2>1 DEF AgendaInv, Appts
  <2>2. CASE b = a
    BY <1>1, <1>2, <2>2 DEF AgendaInv, Appts
  <2> QED
    BY <2>1, <2>2
<1>4. CASE appt'[a].status = "CONFIRMED" => appt[a].status = "CONFIRMED" /\ appt'[a].at = appt[a].at
  <2>1. \A s, e : Taken(s, e)' \subseteq Taken(s, e)
    BY <1>1, <1>4 DEF Taken
  <2>2. \A s \in Offered : Cardinality(Taken(s, {})') <= Capacity
    BY <2>1, FewerTaken, TakenFinite, AppointmentsAssumption DEF AgendaInv
  <2>3. ASSUME NEW q \in Requests \ {r}, Books(q)
        PROVE  Books(q)'
    <3>1. agenda' = q
      BY <2>3, AppointmentsAssumption DEF Books, FreeAgenda
    <3>2. mind'[q] = mind[q] /\ mine'[q] = mine[q]
      BY <1>2
    <3>3. Taken(mind[q].at, {mine[q]})' \subseteq Taken(mind[q].at, {mine[q]})
      BY <1>1, <1>4, <3>2 DEF Taken
    <3>4. Cardinality(Taken(mind[q].at, {mine[q]})') < Capacity
      <4>1. /\ Cardinality(Taken(mind[q].at, {mine[q]})') <= Cardinality(Taken(mind[q].at, {mine[q]}))
            /\ Cardinality(Taken(mind[q].at, {mine[q]})') \in Nat
        BY <3>3, FewerTaken
      <4>2. Cardinality(Taken(mind[q].at, {mine[q]})) \in Nat
        BY TakenFinite
      <4> QED
        BY <2>3, <4>1, <4>2, AppointmentsAssumption DEF Books
    <3> QED
      BY <1>2, <2>3, <3>1, <3>4 DEF Books
  <2>4. ASSUME NEW q \in Requests \ {r}
        PROVE  SessionInv(q)'
    <3>1. SessionInv(q)
      BY DEF AgendaInv
    <3>2. pc[q] \in Holding => Since(q)'
      BY <1>1, <1>2, <3>1 DEF SessionInv, Since, Working
    <3> QED
      BY <1>2, <2>3, <3>1, <3>2 DEF SessionInv, Keeps, Asks, Dated
  <2>5. SessionInv(r)'
    BY <1>2 DEF SessionInv, Holding
  <2> QED
    BY <1>3, <2>2, <2>4, <2>5 DEF AgendaInv, CustomersOnly
<1>5. CASE Books(r) /\ appt'[a].at = mind[r].at
  <2>1. \A s \in Offered : Cardinality(Taken(s, {})') <= Capacity
    <3> SUFFICES ASSUME NEW s \in Offered
                 PROVE  Cardinality(Taken(s, {})') <= Capacity
      OBVIOUS
    <3>1. CASE s = mind[r].at
      <4>1. Taken(s, {})' \subseteq Taken(s, {a}) \cup {a}
        BY <1>1 DEF Taken
      <4>2. IsFiniteSet(Taken(s, {a})) /\ Cardinality(Taken(s, {a})) \in Nat
        BY TakenFinite
      <4>3. Cardinality(Taken(s, {a})) < Capacity
        BY <1>5, <3>1 DEF Books, a
      <4>4. /\ IsFiniteSet(Taken(s, {a}) \cup {a})
            /\ Cardinality(Taken(s, {a}) \cup {a}) <= Cardinality(Taken(s, {a})) + 1
        <5>1. a \notin Taken(s, {a})
          BY DEF Taken
        <5> DEFINE T == Taken(s, {a})
        <5> HIDE DEF T
        <5>2. /\ IsFiniteSet(T \cup {a})
              /\ Cardinality(T \cup {a}) = IF a \in T THEN Cardinality(T) ELSE Cardinality(T) + 1
          BY <4>2, FS_AddElement DEF T
        <5> QED
          BY <4>2, <5>1, <5>2 DEF T
      <4>5. /\ Cardinality(Taken(s, {})') <= Cardinality(Taken(s, {a}) \cup {a})
            /\ Cardinality(Taken(s, {})') \in Nat /\ Cardinality(Taken(s, {a}) \cup {a}) \in Nat
        BY <4>1, <4>4, FS_Subset, FS_CardinalityType
      <4> QED
        BY <4>2, <4>3, <4>4, <4>5, AppointmentsAssumption
    <3>2. CASE s # mind[r].at
      <4>1. mind[r].at \notin Clash[s]
        BY <1>5, <3>2, AppointmentsAssumption DEF Books
      <4>2. Taken(s, {})' \subseteq Taken(s, {})
        BY <1>1, <1>5, <4>1 DEF Taken
      <4> QED
        BY <4>2, FewerTaken, TakenFinite, AppointmentsAssumption DEF AgendaInv
    <3> QED
      BY <3>1, <3>2
  <2>2. ASSUME NEW q \in Requests \ {r}
        PROVE  SessionInv(q)'
    <3>1. SessionInv(q) /\ ~Books(q)
      BY <1>5 DEF AgendaInv, Books
    <3>2. pc[q] \in Holding => Since(q)'
      BY <1>1, <1>2, <3>1 DEF SessionInv, Since, Working
    <3> QED
      BY <1>2, <3>1, <3>2 DEF SessionInv, Keeps, Asks, Dated
  <2>3. SessionInv(r)'
    BY <1>2 DEF SessionInv, Holding
  <2> QED
    BY <1>3, <2>1, <2>2, <2>3 DEF AgendaInv, CustomersOnly
<1> QED
  BY <1>1, <1>4, <1>5

\* Loading a row as it is committed, and changing at most marks or a status.
LEMMA LoadStep ==
    ASSUME ApptTypeOK, AgendaInv, NEW r \in Requests, r \notin Appts, pc[r] # "done",
           NEW a \in Appts, NEW row, NEW label \in Busy, Loads(r, a, row), Goto(r, label),
           row.at = appt[a].at,
           row.status = appt[a].status \/ (row.status = "CANCELLED" /\ appt[a].status # "NONE"),
           label = "lost" => appt[a].status \in {"REQUESTED", "CONFIRMED"},
           UNCHANGED <<appt, agenda>>
    PROVE  AgendaInv'
<1>1. /\ mine'[r] = a /\ read'[r] = appt[a] /\ mind'[r] = row /\ pc'[r] = label
      /\ \A q \in Requests \ {r} :
           pc'[q] = pc[q] /\ mine'[q] = mine[q] /\ read'[q] = read[q] /\ mind'[q] = mind[q]
  BY DEF Loads, Goto, ApptTypeOK
<1>2. Dated(appt[a])
  BY DEF AgendaInv
<1>3. SessionInv(r)'
  BY <1>1, <1>2 DEF SessionInv, Keeps, Since, Dated
<1> QED
  BY <1>1, <1>3, NoWrite

\* A step of r within its session that changes marks only.
LEMMA MarkStep ==
    ASSUME ApptTypeOK, AgendaInv, NEW r \in Requests, r \notin Appts, pc[r] # "done",
           NEW label \in Busy \cup {"idle"}, Goto(r, label),
           label \in Holding => pc[r] \in Holding \ {"turn"}, label # "lost",
           UNCHANGED <<appt, agenda, mine, read>>,
           mind' = mind \/ mind' = [mind EXCEPT ![r] = mind'[r]],
           mind'[r].status = mind[r].status /\ mind'[r].at = mind[r].at
    PROVE  AgendaInv'
<1>1. \A q \in Requests \ {r} :
         pc'[q] = pc[q] /\ mine'[q] = mine[q] /\ read'[q] = read[q] /\ mind'[q] = mind[q]
  BY DEF Goto, ApptTypeOK
<1>2. SessionInv(r) /\ pc'[r] = label
  BY DEF AgendaInv, Goto, ApptTypeOK
<1>3. SessionInv(r)'
  BY <1>2 DEF SessionInv, Keeps, Since, Dated
<1> QED
  BY <1>1, <1>3, NoWrite

LEMMA RolesApart ==
    ASSUME NEW r \in Requests
    PROVE  r \in Appts <=> Role[r] \in {"booker", "asker"}
  BY DEF Appts, NewRoles

LEMMA CustomerStep ==
    ASSUME ApptTypeOK, Working, AgendaInv, NEW r \in Requests, Customer(r)
    PROVE  AgendaInv'
<1> USE AppointmentsAssumption
<1>1. CASE Book(r)
  <2>1. PICK s \in Slots : /\ Bookable(s, {})
                           /\ Loads(r, r, [NoAppt EXCEPT !.status = "CONFIRMED", !.at = s, !.made = now])
    BY <1>1 DEF Book
  <2>2. r \in Appts /\ pc[r] = "idle" /\ agenda = Nobody /\ agenda' = r
    BY <1>1, RolesApart DEF Book, Arrives, TakeAgenda
  <2>3. appt[r].status = "NONE" /\ appt[r] \in ApptData
    BY <2>2 DEF AgendaInv, ApptTypeOK
  <2>4. /\ mine'[r] = r /\ read'[r] = appt[r] /\ pc'[r] = "turn"
        /\ mind'[r].status = "CONFIRMED" /\ mind'[r].at = s
        /\ \A q \in Requests \ {r} :
             pc'[q] = pc[q] /\ mine'[q] = mine[q] /\ read'[q] = read[q] /\ mind'[q] = mind[q]
    <3> DEFINE row == [NoAppt EXCEPT !.status = "CONFIRMED", !.at = s, !.made = now]
    <3>1. row.status = "CONFIRMED" /\ row.at = s
      BY DEF NoAppt
    <3> HIDE DEF row
    <3>2. Loads(r, r, row)
      BY <2>1 DEF row
    <3>3. Goto(r, "turn")
      BY <1>1 DEF Book
    <3>4. SessionTypeOK
      BY DEF ApptTypeOK, SessionTypeOK
    <3> QED
      BY <3>1, <3>2, <3>3, <3>4 DEF Loads, Goto, SessionTypeOK
  <2>5. s \in Offered /\ Cardinality(Taken(s, {r})) < Capacity
    <3>1. Taken(s, {r}) \subseteq Taken(s, {})
      BY DEF Taken
    <3>2. Cardinality(Taken(s, {r})) <= Cardinality(Taken(s, {}))
      BY <3>1, FewerTaken
    <3> QED
      BY <2>1, <3>2, TakenFinite DEF Bookable
  <2>6. Taken(mind[r].at, {mine[r]})' = Taken(s, {r})
    BY <1>1, <2>4 DEF Book, Taken, rows
  <2>7. Books(r)'
    BY <2>2, <2>3, <2>4, <2>5, <2>6 DEF Books
  <2>8. SessionInv(r)'
    BY <2>2, <2>3, <2>4, <2>7 DEF SessionInv, Since, Dated, AgendaInv
  <2> QED
    BY <1>1, <2>2, <2>4, <2>8, NoWrite DEF Book, rows
<1>2. CASE AskAppointment(r)
  <2>1. Loads(r, r, [NoAppt EXCEPT !.status = "REQUESTED", !.made = now])
    BY <1>2 DEF AskAppointment
  <2>2. r \in Appts /\ pc[r] = "idle"
    BY <1>2, RolesApart DEF AskAppointment, Arrives
  <2>3. appt[r].status = "NONE" /\ appt[r].at = NoSlot
    BY <2>2 DEF AgendaInv, Dated
  <2>4. /\ mine'[r] = r /\ read'[r] = appt[r] /\ pc'[r] = "turn"
        /\ mind'[r].status = "REQUESTED" /\ mind'[r].at = NoSlot
        /\ \A q \in Requests \ {r} :
             pc'[q] = pc[q] /\ mine'[q] = mine[q] /\ read'[q] = read[q] /\ mind'[q] = mind[q]
    BY <1>2, <2>1 DEF AskAppointment, Loads, Goto, ApptTypeOK, NoAppt
  <2>5. SessionInv(r)'
    BY <2>2, <2>3, <2>4 DEF SessionInv, Since, Dated, Asks
  <2> QED
    BY <1>2, <2>2, <2>4, <2>5, NoWrite DEF AskAppointment, rows
<1>3. CASE FindMine(r)
  <2>1. PICK a \in Appts : appt[a].status \in {"REQUESTED", "CONFIRMED"} /\ Loads(r, a, appt[a])
    BY <1>3 DEF FindMine
  <2>2. r \notin Appts /\ pc[r] = "idle"
    BY <1>3, RolesApart DEF FindMine, Arrives
  <2> QED
    BY <1>3, <2>1, <2>2, LoadStep DEF FindMine, Busy, rows
<1>4. CASE Move(r)
  <2>1. PICK s \in Slots :
          /\ Bookable(s, {mine[r]})
          /\ mind' = [mind EXCEPT ![r] = [@ EXCEPT !.status = "CONFIRMED", !.at = s, !.staffReminded = FALSE,
                                                 !.mailReminded = FALSE, !.whatsappReminded = FALSE]]
    BY <1>4 DEF Move
  <2>2. r \notin Appts /\ pc[r] = "lost" /\ agenda = Nobody /\ agenda' = r
    BY <1>4, RolesApart DEF Move, TakeAgenda
  <2>3. mind[r] \in ApptData
    BY DEF ApptTypeOK
  <2>4. /\ pc'[r] = "turn" /\ mind'[r].status = "CONFIRMED" /\ mind'[r].at = s
        /\ UNCHANGED <<appt, mine, read>>
        /\ \A q \in Requests \ {r} : pc'[q] = pc[q] /\ mind'[q] = mind[q]
    <3> DEFINE row == [mind[r] EXCEPT !.status = "CONFIRMED", !.at = s, !.staffReminded = FALSE,
                                      !.mailReminded = FALSE, !.whatsappReminded = FALSE]
    <3>1. row.status = "CONFIRMED" /\ row.at = s
      BY <2>3 DEF ApptData
    <3>2. mind' = [mind EXCEPT ![r] = row]
      BY <2>1
    <3> HIDE DEF row
    <3>3. Goto(r, "turn") /\ UNCHANGED <<appt, mine, read>>
      BY <1>4 DEF Move
    <3>4. SessionTypeOK
      BY DEF ApptTypeOK, SessionTypeOK
    <3> QED
      BY <3>1, <3>2, <3>3, <3>4 DEF Goto, SessionTypeOK
  <2>5. s \in Offered /\ Cardinality(Taken(s, {mine[r]})) < Capacity
    BY <2>1 DEF Bookable
  <2>6. Taken(mind[r].at, {mine[r]})' = Taken(s, {mine[r]})
    BY <2>4 DEF Taken
  <2>7. /\ Dated(read[r]) /\ Since(r) /\ mine[r] \in Appts
    BY <2>2 DEF AgendaInv, SessionInv, Holding, Working
  <2>8. read[r].status \in {"REQUESTED", "CONFIRMED"}
    BY <2>2 DEF AgendaInv, SessionInv
  <2>9. Books(r)'
    BY <2>2, <2>4, <2>5, <2>6, <2>8 DEF Books
  <2>10. SessionInv(r)'
    BY <2>2, <2>4, <2>7, <2>9 DEF SessionInv, Since, Dated
  <2> QED
    BY <2>2, <2>4, <2>10, NoWrite
<1>5. CASE Quit(r)
  <2>1. r \notin Appts /\ pc[r] = "lost" /\ mind[r] \in ApptData
    BY <1>5, RolesApart DEF Quit, ApptTypeOK
  <2>2. /\ pc'[r] = "turn" /\ mind'[r].status = "CANCELLED" /\ mind'[r].at = mind[r].at
        /\ UNCHANGED <<appt, agenda, mine, read>>
        /\ \A q \in Requests \ {r} : pc'[q] = pc[q] /\ mind'[q] = mind[q]
    BY <1>5, <2>1 DEF Quit, Goto, ApptTypeOK, ApptData
  <2>3. Dated(read[r]) /\ Since(r) /\ Keeps(r)
    BY <2>1 DEF AgendaInv, SessionInv, Holding
  <2>4. read[r].status # "NONE"
    BY <2>1 DEF AgendaInv, SessionInv
  <2>5. SessionInv(r)'
    BY <2>1, <2>2, <2>3, <2>4 DEF SessionInv, Since, Dated, Keeps
  <2> QED
    BY <2>1, <2>2, <2>5, NoWrite
<1>6. CASE GiveUp(r)
  <2>1. pc[r] = "lost" /\ pc'[r] = "done" /\ UNCHANGED <<appt, agenda>>
    BY <1>6 DEF GiveUp, Leave, Goto, rows, ApptTypeOK
  <2>2. \A q \in Requests \ {r} :
           pc'[q] = pc[q] /\ mine'[q] = mine[q] /\ read'[q] = read[q] /\ mind'[q] = mind[q]
    BY <1>6 DEF GiveUp, Leave, Goto, ApptTypeOK
  <2>3. SessionInv(r)'
    BY <2>1 DEF SessionInv, Holding
  <2> QED
    BY <2>1, <2>2, <2>3, NoWrite
<1>7. CASE CommitTurn(r)
  BY <1>7, WriteAndLeave DEF CommitTurn, Holding
<1> QED
  BY <1>1, <1>2, <1>3, <1>4, <1>5, <1>6, <1>7 DEF Customer

LEMMA StaffStep ==
    ASSUME ApptTypeOK, Working, AgendaInv, NEW r \in Requests, Staff(r)
    PROVE  AgendaInv'
<1>1. CASE LoadToConfirm(r)
  BY <1>1 DEF LoadToConfirm, Arrives, AgendaInv, CustomersOnly
<1>2. CASE LoadToRemove(r)
  <2>1. PICK a \in Appts : /\ appt[a].status \in {"REQUESTED", "CONFIRMED"}
                           /\ Loads(r, a, [appt[a] EXCEPT !.status = "CANCELLED"])
    BY <1>2 DEF LoadToRemove
  <2>2. r \notin Appts /\ pc[r] = "idle"
    BY <1>2, RolesApart DEF LoadToRemove, Arrives
  <2> DEFINE row == [appt[a] EXCEPT !.status = "CANCELLED"]
  <2>3. row.status = "CANCELLED" /\ row.at = appt[a].at
    BY DEF ApptTypeOK, ApptData
  <2> HIDE DEF row
  <2>4. Loads(r, a, row)
    BY <2>1 DEF row
  <2> QED
    BY <1>2, <2>1, <2>2, <2>3, <2>4, LoadStep DEF LoadToRemove, Busy, rows
<1>3. CASE LoadToJudge(r)
  <2>1. PICK a \in Appts, outcome \in Outcomes :
          Loads(r, a, [appt[a] EXCEPT !.outcome = outcome, !.outcomeAt = now])
    BY <1>3 DEF LoadToJudge
  <2>2. r \notin Appts /\ pc[r] = "idle"
    BY <1>3, RolesApart DEF LoadToJudge, Arrives
  <2> DEFINE row == [appt[a] EXCEPT !.outcome = outcome, !.outcomeAt = now]
  <2>3. row.status = appt[a].status /\ row.at = appt[a].at
    BY DEF ApptTypeOK, ApptData
  <2> HIDE DEF row
  <2>4. Loads(r, a, row)
    BY <2>1 DEF row
  <2> QED
    BY <1>3, <2>2, <2>3, <2>4, LoadStep DEF LoadToJudge, Busy, rows
<1>4. CASE FlushStaff(r)
  <2>1. pc[r] = "staff" /\ r \notin Appts
    BY <1>4 DEF FlushStaff, AgendaInv, SessionInv
  <2> DEFINE row == [mind[r] EXCEPT !.followedUp = mind[r].followedUp \/ FollowUpNow(r)]
  <2>2. row.status = mind[r].status /\ row.at = mind[r].at
    BY DEF ApptTypeOK, ApptData
  <2>3. mind' = [mind EXCEPT ![r] = row] /\ mind'[r] = row
    BY <1>4 DEF FlushStaff, ApptTypeOK
  <2> HIDE DEF row
  <2> QED
    BY <1>4, <2>1, <2>2, <2>3, MarkStep DEF FlushStaff, Busy, Holding
<1>5. CASE CommitStaff(r)
  BY <1>5, WriteAndLeave DEF CommitStaff, Holding
<1> QED
  BY <1>1, <1>2, <1>3, <1>4, <1>5 DEF Staff

LEMMA WorkerStep ==
    ASSUME ApptTypeOK, Working, AgendaInv, NEW r \in Requests, Worker(r)
    PROVE  AgendaInv'
<1>1. CASE StartRun(r)
  <2>1. r \notin Appts /\ pc[r] = "idle"
    BY <1>1, RolesApart DEF StartRun, Arrives
  <2> QED
    BY <1>1, <2>1, MarkStep DEF StartRun, Busy, Holding, rows
<1>2. CASE LookAt(r)
  <2>1. pc[r] = "run" /\ r \notin Appts
    BY <1>2 DEF LookAt, AgendaInv, SessionInv
  <2>2. PICK a \in Appts : Loads(r, a, appt[a])
    BY <1>2 DEF LookAt, ApptTypeOK
  <2> QED
    BY <1>2, <2>1, <2>2, LoadStep DEF LookAt, Busy, rows
<1>3. CASE Remind(r)
  <2>1. pc[r] = "look" /\ r \notin Appts
    BY <1>3 DEF Remind, AgendaInv, SessionInv
  <2>2. PICK staff \in BOOLEAN, whatsapp \in BOOLEAN, mail \in BOOLEAN :
          mind' = [mind EXCEPT ![r].staffReminded = @ \/ staff, ![r].whatsappReminded = @ \/ whatsapp,
                               ![r].mailReminded = @ \/ mail]
    BY <1>3 DEF Remind
  <2>3. /\ mind'[r].status = mind[r].status /\ mind'[r].at = mind[r].at
        /\ mind' = [mind EXCEPT ![r] = mind'[r]]
    <3> DEFINE row == [mind[r] EXCEPT !.staffReminded = @ \/ staff, !.whatsappReminded = @ \/ whatsapp,
                                      !.mailReminded = @ \/ mail]
    <3>1. mind \in [Requests -> ApptData]
      BY DEF ApptTypeOK
    <3>2. row.status = mind[r].status /\ row.at = mind[r].at
      BY <3>1 DEF ApptData
    <3>3. mind' = [mind EXCEPT ![r] = row]
      BY <2>2, <3>1
    <3> HIDE DEF row
    <3> QED
      BY <3>1, <3>2, <3>3
  <2> QED
    BY <1>3, <2>1, <2>3, MarkStep DEF Remind, Busy, Holding, rows
<1>4. CASE CommitReminder(r)
  <2>1. pc[r] = "told" /\ r \notin Appts
    BY <1>4 DEF CommitReminder, AgendaInv, SessionInv
  <2> QED
    BY <1>4, <2>1, WriteAndLeave DEF CommitReminder, Holding
<1>5. CASE ListFollowUps(r)
  <2>1. pc[r] = "run" /\ r \notin Appts
    BY <1>5 DEF ListFollowUps, AgendaInv, SessionInv
  <2> QED
    BY <1>5, <2>1, MarkStep DEF ListFollowUps, Busy, Holding, rows
<1>6. CASE FollowUp(r)
  <2>1. pc[r] = "chase" /\ r \notin Appts
    BY <1>6 DEF FollowUp, AgendaInv, SessionInv
  <2>2. PICK a \in Appts :
          IF FollowUpDue(appt[a], clock[r])
            THEN /\ Loads(r, a, [appt[a] EXCEPT !.followedUp = TRUE])
                 /\ Goto(r, "chased")
            ELSE UNCHANGED <<pc, mine, read, mind>>
    BY <1>6 DEF FollowUp, ApptTypeOK
  <2>3. CASE FollowUpDue(appt[a], clock[r])
    <3> DEFINE row == [appt[a] EXCEPT !.followedUp = TRUE]
    <3>1. row.status = appt[a].status /\ row.at = appt[a].at
      BY DEF ApptTypeOK, ApptData
    <3> HIDE DEF row
    <3>2. Loads(r, a, row) /\ Goto(r, "chased")
      BY <2>2, <2>3 DEF row
    <3> QED
      BY <1>6, <2>1, <3>1, <3>2, LoadStep DEF FollowUp, Busy, rows
  <2>4. CASE ~FollowUpDue(appt[a], clock[r])
    <3>1. SessionInv(r)'
      BY <2>1, <2>2, <2>4 DEF SessionInv, Holding
    <3> QED
      BY <1>6, <2>1, <2>2, <2>4, <3>1, NoWrite DEF FollowUp, rows
  <2> QED
    BY <2>3, <2>4
<1>7. CASE CommitFollowUp(r)
  <2>1. pc[r] = "chased" /\ r \notin Appts
    BY <1>7 DEF CommitFollowUp, AgendaInv, SessionInv
  <2> QED
    BY <1>7, <2>1, WriteAndLeave DEF CommitFollowUp, Holding
<1>8. CASE EndRun(r)
  <2>1. pc[r] = "chase" /\ r \notin Appts
    BY <1>8 DEF EndRun, AgendaInv, SessionInv
  <2> QED
    BY <1>8, <2>1, MarkStep DEF EndRun, Busy, Holding, rows, session
<1> QED
  BY <1>1, <1>2, <1>3, <1>4, <1>5, <1>6, <1>7, <1>8 DEF Worker

LEMMA CrashStep ==
    ASSUME ApptTypeOK, AgendaInv, NEW r \in Requests, Crash(r)
    PROVE  AgendaInv'
<1>1. /\ pc[r] \in Busy /\ UNCHANGED appt
      /\ agenda' = agenda \/ agenda = r
      /\ pc'[r] = IF Role[r] = "worker" THEN "idle" ELSE "done"
      /\ \A q \in Requests \ {r} :
           pc'[q] = pc[q] /\ mine'[q] = mine[q] /\ read'[q] = read[q] /\ mind'[q] = mind[q]
  BY DEF Crash, FreeAgenda, Leave, Goto, ApptTypeOK
<1>2. SessionInv(r)'
  BY <1>1 DEF SessionInv, Holding
<1>3. pc[r] # "done"
  BY <1>1 DEF Busy
<1> QED
  BY <1>1, <1>2, <1>3, NoWrite

LEMMA AgendaStep ==
    ASSUME ApptTypeOK, Working, AgendaInv, [Next]_vars
    PROVE  AgendaInv'
<1>1. CASE UNCHANGED <<appt, agenda, pc, mine, read, mind>>
  BY <1>1 DEF AgendaInv, CustomersOnly, SessionInv, Keeps, Asks, Books, Since, Dated, Taken
<1>2. ASSUME NEW r \in Requests, Customer(r) \/ Staff(r) \/ Worker(r) \/ Crash(r)
      PROVE  AgendaInv'
  BY <1>2, CustomerStep, StaffStep, WorkerStep, CrashStep
<1> QED
  BY <1>1, <1>2 DEF Next, Tick, vars, rows, session

LEMMA AgendaInit ==
    ASSUME CustomersOnly, Init
    PROVE  AgendaInv
<1>1. \A s : Taken(s, {}) = {}
  BY DEF Init, Taken, NoAppt
<1>2. \A s \in Offered : Cardinality(Taken(s, {})) <= Capacity
  BY <1>1, FS_EmptySet, AppointmentsAssumption
<1> QED
  BY <1>2 DEF Init, AgendaInv, SessionInv, Holding, Dated, NoAppt

\* "deux clients ne réservent jamais la dernière place en même temps": for any
\* number of customers booking, moving and cancelling at once, of advisers
\* cancelling and judging, of worker runs and of crashes, no slot holds more
\* than Capacity appointments, as long as the staff imposes no date itself.
THEOREM LastPlaceGivenOnce == CustomersOnly /\ Spec => []NeverOverbooked
<1>1. CustomersOnly /\ Init => ApptTypeOK /\ Working /\ AgendaInv
  BY TypeInit, AgendaInit
<1>2. ApptTypeOK /\ Working /\ AgendaInv /\ [Next]_vars => ApptTypeOK' /\ Working' /\ AgendaInv'
  BY TypeStep, AgendaStep
<1>3. AgendaInv => NeverOverbooked
  BY DEF AgendaInv, NeverOverbooked, Dated
<1> QED
  BY <1>1, <1>2, <1>3, PTL DEF Spec

-----------------------------------------------------------------------------
(* One session at a time: what a step does to the row it works on.         *)

Act(r) == Customer(r) \/ Staff(r) \/ Worker(r) \/ Crash(r)

Alone == \A q, r \in Requests : pc[q] \in Busy /\ pc[r] \in Busy => q = r

SameMarks(row, old) ==
    /\ row.staffReminded = old.staffReminded
    /\ row.mailReminded = old.mailReminded
    /\ row.whatsappReminded = old.whatsappReminded
Unmarked(row) == ~ row.staffReminded /\ ~ row.mailReminded /\ ~ row.whatsappReminded

Starts(r, a) ==
    /\ mine'[r] = a /\ read'[r] = appt[a] /\ mind'[r] \in ApptData /\ appt' = appt
    /\ pc[r] \in {"idle", "run", "chase"}

BeginsNew(r) ==
    /\ Starts(r, r) /\ r \in Appts /\ pc[r] = "idle" /\ pc'[r] = "turn"
    /\ mind'[r].status \in {"REQUESTED", "CONFIRMED"} /\ Unmarked(mind'[r]) /\ ~ mind'[r].followedUp
    /\ UNCHANGED letters
BeginsOn(r, a) ==
    /\ Starts(r, a) /\ r \notin Appts /\ pc[r] = "idle" /\ pc'[r] \in {"lost", "staff"}
    /\ appt[a].status \in {"REQUESTED", "CONFIRMED"}
    /\ mind'[r].followedUp = appt[a].followedUp
    /\ \/ /\ SameMarks(mind'[r], appt[a]) /\ mind'[r].at = appt[a].at
          /\ mind'[r].status \in {appt[a].status, "CANCELLED"}
       \/ Role[r] = "confirmer" /\ \E s \in Slots : mind'[r] = Confirmed(appt[a], s)
    /\ UNCHANGED letters
LooksAgain(r, a) ==
    /\ Starts(r, a) /\ pc[r] = "run" /\ pc'[r] = "look" /\ a \in list[r] /\ mind'[r] = appt[a]
    /\ UNCHANGED letters
ChasesUp(r, a) ==
    /\ Starts(r, a) /\ pc[r] = "chase" /\ pc'[r] = "chased"
    /\ FollowUpDue(appt[a], clock[r])
    /\ mind'[r] = [appt[a] EXCEPT !.followedUp = TRUE]
    /\ Send({FollowUpOf(a)})
Edits(r, label) == mine'[r] = mine[r] /\ read'[r] = read[r] /\ mind'[r] \in ApptData /\ appt' = appt /\ pc'[r] = label
ChangesDate(r) ==
    /\ Edits(r, "turn") /\ pc[r] = "lost" /\ Role[r] = "mover"
    /\ mind'[r].status = "CONFIRMED" /\ Unmarked(mind'[r]) /\ mind'[r].followedUp = mind[r].followedUp
    /\ UNCHANGED letters
CallsOff(r) ==
    /\ Edits(r, "turn") /\ pc[r] = "lost" /\ mind'[r].status = "CANCELLED" /\ mind'[r].at = mind[r].at
    /\ SameMarks(mind'[r], mind[r]) /\ mind'[r].followedUp = mind[r].followedUp
    /\ UNCHANGED letters
Flushes(r) ==
    /\ Edits(r, "flushed") /\ pc[r] = "staff"
    /\ mind'[r].status = mind[r].status /\ mind'[r].at = mind[r].at /\ SameMarks(mind'[r], mind[r])
    /\ mind'[r].followedUp = (mind[r].followedUp \/ FollowUpNow(r))
    /\ Send(IF FollowUpNow(r) THEN {FollowUpOf(mine[r])} ELSE {})
Reminds(r, staff, whatsapp, mail) ==
    /\ Edits(r, "told") /\ pc[r] = "look"
    /\ mind'[r].status = mind[r].status /\ mind'[r].at = mind[r].at /\ mind'[r].followedUp = mind[r].followedUp
    /\ staff \/ whatsapp \/ mail => mind[r].status = "CONFIRMED"
    /\ staff => ~ mind[r].staffReminded
    /\ whatsapp => ~ mind[r].whatsappReminded
    /\ mail => ~ mind[r].mailReminded
    /\ mind'[r].staffReminded = (mind[r].staffReminded \/ staff)
    /\ mind'[r].whatsappReminded = (mind[r].whatsappReminded \/ whatsapp)
    /\ mind'[r].mailReminded = (mind[r].mailReminded \/ mail)
    /\ Send((IF staff THEN {Note("staff_reminder", r, mind[r])} ELSE {})
              \cup (IF whatsapp THEN {Note("whatsapp_reminder", r, mind[r])} ELSE {})
              \cup (IF mail THEN {Note("mail_reminder", r, mind[r])} ELSE {}))
Announcements == {"confirmed", "moved", "cancelled"}
Writes(r) ==
    /\ pc[r] \in {"turn", "flushed", "told", "chased"}
    /\ pc'[r] \in {"done", "run", "chase"} /\ (pc'[r] # "done" => Role[r] = "worker")
    /\ appt' = [appt EXCEPT ![mine[r]] = Merge(@, read[r], mind[r])]
    /\ \E messages \in SUBSET Message :
          (\A m \in messages : m.kind \in Announcements) /\ Send(messages)
Leaves(r) ==
    /\ pc'[r] \in {"done", "idle", "run", "chase"} /\ (pc'[r] # "done" => Role[r] = "worker")
    /\ pc[r] \in Holding => pc[r] = "lost" \/ r \in Fragile
    /\ appt' = appt
    /\ UNCHANGED letters

Placed(r) ==
    /\ pc[r] \in {"run", "look", "told", "chase", "chased"} => Role[r] = "worker"
    /\ pc[r] \in {"staff", "flushed"} => Role[r] \in StaffRoles
    /\ pc[r] = "lost" => Role[r] \in {"mover", "quitter"}
    /\ pc[r] = "turn" => Role[r] \in CustomerRoles

\* A step of r is one of these, and leaves r in a place of its role.
RowStep(r) ==
    \/ BeginsNew(r)
    \/ \E a \in Appts : BeginsOn(r, a) \/ LooksAgain(r, a) \/ ChasesUp(r, a)
    \/ ChangesDate(r) \/ CallsOff(r) \/ Flushes(r)
    \/ \E staff, whatsapp, mail \in BOOLEAN : Reminds(r, staff, whatsapp, mail)
    \/ Writes(r) \/ Leaves(r)

LEMMA BlankRow ==
    ASSUME NEW status \in Status, NEW at \in Slots, NEW time \in Nat
    PROVE  /\ [NoAppt EXCEPT !.status = status, !.made = time].status = status
           /\ [NoAppt EXCEPT !.status = status, !.at = at, !.made = time].status = status
           /\ Unmarked([NoAppt EXCEPT !.status = status, !.made = time])
           /\ ~ [NoAppt EXCEPT !.status = status, !.made = time].followedUp
           /\ Unmarked([NoAppt EXCEPT !.status = status, !.at = at, !.made = time])
           /\ ~ [NoAppt EXCEPT !.status = status, !.at = at, !.made = time].followedUp
  BY DEF NoAppt, Unmarked

LEMMA MovedRow ==
    ASSUME NEW old \in ApptData, NEW s \in Slots, NEW row,
           row = [old EXCEPT !.status = "CONFIRMED", !.at = s, !.staffReminded = FALSE,
                             !.mailReminded = FALSE, !.whatsappReminded = FALSE]
    PROVE  /\ row \in ApptData /\ row.status = "CONFIRMED"
           /\ Unmarked(row) /\ row.followedUp = old.followedUp
<1>1. row \in ApptData /\ row.status = "CONFIRMED"
  BY DateEdit DEF ApptData
<1>2. ~ row.staffReminded /\ ~ row.mailReminded /\ ~ row.whatsappReminded
  BY DEF ApptData
<1>3. row.followedUp = old.followedUp
  BY DEF ApptData
<1> QED
  BY <1>1, <1>2, <1>3 DEF Unmarked

LEMMA StatusRow ==
    ASSUME NEW old \in ApptData, NEW status \in Status
    PROVE  LET row == [old EXCEPT !.status = status] IN
           /\ row \in ApptData /\ row.status = status /\ row.at = old.at
           /\ SameMarks(row, old) /\ row.followedUp = old.followedUp
<1> DEFINE row == [old EXCEPT !.status = status]
<1>1. row \in ApptData
  BY StatusEdit
<1>2. row.status = status /\ row.at = old.at /\ row.followedUp = old.followedUp
  BY DEF ApptData
<1>3. SameMarks(row, old)
  BY DEF ApptData, SameMarks
<1> QED
  BY <1>1, <1>2, <1>3

LEMMA ConfirmedRow ==
    ASSUME NEW old \in ApptData, NEW s \in Slots
    PROVE  /\ Confirmed(old, s) \in ApptData
           /\ Confirmed(old, s).status = "CONFIRMED" /\ Confirmed(old, s).at = s
           /\ Confirmed(old, s).followedUp = old.followedUp
           /\ Confirmed(old, s).whatsappReminded = old.whatsappReminded
           /\ old.at = s \/ old.status # "CONFIRMED" => SameMarks(Confirmed(old, s), old)
<1>1. Confirmed(old, s) \in ApptData
  BY DateEdit
<1>2. /\ Confirmed(old, s).status = "CONFIRMED" /\ Confirmed(old, s).at = s
      /\ Confirmed(old, s).followedUp = old.followedUp
      /\ Confirmed(old, s).whatsappReminded = old.whatsappReminded
  BY DEF ApptData, Confirmed
<1>3. ASSUME old.at = s \/ old.status # "CONFIRMED"
      PROVE  SameMarks(Confirmed(old, s), old)
  BY <1>3 DEF ApptData, Confirmed, SameMarks
<1> QED
  BY <1>1, <1>2, <1>3

LEMMA RowStepCustomer ==
    ASSUME ApptTypeOK, Working, NEW r \in Requests, Placed(r), Customer(r)
    PROVE  RowStep(r) /\ Placed(r)'
<1> USE AppointmentsAssumption
<1>1. CASE Book(r)
  <2>1. PICK s \in Slots : Loads(r, r, [NoAppt EXCEPT !.status = "CONFIRMED", !.at = s, !.made = now])
    BY <1>1 DEF Book
  <2> DEFINE row == [NoAppt EXCEPT !.status = "CONFIRMED", !.at = s, !.made = now]
  <2>2. row \in ApptData /\ row.status = "CONFIRMED" /\ Unmarked(row) /\ ~ row.followedUp
    BY ZenonT(40), NowIsNat, NewRow, BlankRow DEF Status
  <2> HIDE DEF row
  <2>3. mine'[r] = r /\ read'[r] = appt[r] /\ mind'[r] = row /\ pc'[r] = "turn"
    BY <1>1, <2>1 DEF Book, Loads, Goto, ApptTypeOK, row
  <2>4. r \in Appts /\ pc[r] = "idle" /\ Role[r] = "booker" /\ appt' = appt /\ UNCHANGED letters
    BY <1>1 DEF Book, Arrives, Appts, NewRoles, rows
  <2> QED
    BY <2>2, <2>3, <2>4 DEF RowStep, BeginsNew, Starts, Placed, CustomerRoles, NewRoles
<1>2. CASE AskAppointment(r)
  <2> DEFINE row == [NoAppt EXCEPT !.status = "REQUESTED", !.made = now]
  <2>1. row \in ApptData /\ row.status = "REQUESTED" /\ Unmarked(row) /\ ~ row.followedUp
    BY NowIsNat, NewRow DEF Status, Unmarked, NoAppt
  <2>2. Loads(r, r, row)
    BY <1>2 DEF AskAppointment
  <2> HIDE DEF row
  <2>3. mine'[r] = r /\ read'[r] = appt[r] /\ mind'[r] = row /\ pc'[r] = "turn"
    BY <1>2, <2>2 DEF AskAppointment, Loads, Goto, ApptTypeOK
  <2>4. r \in Appts /\ pc[r] = "idle" /\ Role[r] = "asker" /\ appt' = appt /\ UNCHANGED letters
    BY <1>2 DEF AskAppointment, Arrives, Appts, NewRoles, rows
  <2> QED
    BY <2>1, <2>3, <2>4 DEF RowStep, BeginsNew, Starts, Placed, CustomerRoles, NewRoles
<1>3. CASE FindMine(r)
  <2>1. PICK a \in Appts : Loads(r, a, appt[a]) /\ appt[a].status \in {"REQUESTED", "CONFIRMED"}
    BY <1>3 DEF FindMine
  <2>2. mine'[r] = a /\ read'[r] = appt[a] /\ mind'[r] = appt[a] /\ pc'[r] = "lost" /\ appt[a] \in ApptData
    BY <1>3, <2>1 DEF FindMine, Loads, Goto, ApptTypeOK
  <2>3. /\ r \notin Appts /\ pc[r] = "idle" /\ Role[r] \in {"mover", "quitter"} /\ appt' = appt
        /\ UNCHANGED letters
    BY <1>3 DEF FindMine, Arrives, Appts, NewRoles, rows
  <2>4. BeginsOn(r, a)
    BY <2>1, <2>2, <2>3 DEF BeginsOn, Starts, SameMarks
  <2> QED
    BY <2>2, <2>3, <2>4 DEF RowStep, Placed
<1>4. CASE Move(r)
  <2>1. PICK s \in Slots :
          mind' = [mind EXCEPT ![r] = [@ EXCEPT !.status = "CONFIRMED", !.at = s, !.staffReminded = FALSE,
                                               !.mailReminded = FALSE, !.whatsappReminded = FALSE]]
    BY <1>4 DEF Move
  <2>2. mind[r] \in ApptData
    BY DEF ApptTypeOK
  <2>3. mind'[r] = [mind[r] EXCEPT !.status = "CONFIRMED", !.at = s, !.staffReminded = FALSE,
                                   !.mailReminded = FALSE, !.whatsappReminded = FALSE]
    BY <2>1 DEF ApptTypeOK
  <2>4. /\ mind'[r] \in ApptData /\ mind'[r].status = "CONFIRMED"
        /\ Unmarked(mind'[r]) /\ mind'[r].followedUp = mind[r].followedUp
    <3>1. \A row : row = [mind[r] EXCEPT !.status = "CONFIRMED", !.at = s, !.staffReminded = FALSE,
                                           !.mailReminded = FALSE, !.whatsappReminded = FALSE]
              => /\ row \in ApptData /\ row.status = "CONFIRMED"
                 /\ Unmarked(row) /\ row.followedUp = mind[r].followedUp
      BY ZenonT(40), <2>2, MovedRow
    <3> QED
      BY <2>3, <3>1
  <2>5. /\ pc[r] = "lost" /\ Role[r] = "mover" /\ pc'[r] = "turn" /\ mine'[r] = mine[r] /\ read'[r] = read[r]
        /\ appt' = appt /\ UNCHANGED letters
    BY <1>4 DEF Move, Goto, ApptTypeOK
  <2> QED
    BY <2>4, <2>5 DEF RowStep, ChangesDate, Edits, Placed, CustomerRoles
<1>5. CASE Quit(r)
  <2>1. mind'[r] = [mind[r] EXCEPT !.status = "CANCELLED"] /\ mind[r] \in ApptData
    BY <1>5 DEF Quit, ApptTypeOK
  <2>2. /\ mind'[r] \in ApptData /\ mind'[r].status = "CANCELLED" /\ mind'[r].at = mind[r].at
        /\ SameMarks(mind'[r], mind[r]) /\ mind'[r].followedUp = mind[r].followedUp
    BY SMTT(20), <2>1, StatusEdit DEF SameMarks, ApptData, Status
  <2>3. /\ pc[r] = "lost" /\ Role[r] = "quitter" /\ pc'[r] = "turn" /\ mine'[r] = mine[r] /\ read'[r] = read[r]
        /\ appt' = appt /\ UNCHANGED letters
    BY <1>5 DEF Quit, Goto, ApptTypeOK
  <2> QED
    BY <2>2, <2>3 DEF RowStep, CallsOff, Edits, Placed, CustomerRoles
<1>6. CASE GiveUp(r)
  BY <1>6 DEF GiveUp, Leave, Goto, ApptTypeOK, RowStep, Leaves, Placed, rows
<1>7. CASE CommitTurn(r)
  <2>1. mine[r] \in Appts /\ mind[r] \in ApptData
    BY <1>7 DEF CommitTurn, Holding, Working, ApptTypeOK
  <2>2. \A kind \in Kinds : Note(kind, r, mind[r]) \in Message /\ Note(kind, r, mind[r]).kind = kind
    BY <2>1, NoteType DEF Note
  <2>3. Announcement(r) \in SUBSET Message /\ \A m \in Announcement(r) : m.kind \in Announcements
    BY <2>2 DEF Announcement, Kinds, Announcements
  <2>4. \E messages \in SUBSET Message : (\A m \in messages : m.kind \in Announcements) /\ Send(messages)
    <3>1. CASE Send({})
      BY <3>1
    <3>2. CASE Send(Announcement(r))
      BY <2>3, <3>2
    <3> QED
      BY <1>7, <3>1, <3>2 DEF CommitTurn
  <2>5. /\ pc[r] = "turn" /\ pc'[r] = "done"
        /\ appt' = [appt EXCEPT ![mine[r]] = Merge(@, read[r], mind[r])]
    BY <1>7 DEF CommitTurn, Commits, Leave, Goto, ApptTypeOK
  <2> QED
    BY <2>4, <2>5 DEF RowStep, Writes, Placed
<1> QED
  BY <1>1, <1>2, <1>3, <1>4, <1>5, <1>6, <1>7 DEF Customer

LEMMA RowStepStaff ==
    ASSUME ApptTypeOK, Working, NEW r \in Requests, Placed(r), Staff(r)
    PROVE  RowStep(r) /\ Placed(r)'
<1> USE AppointmentsAssumption
<1>1. CASE LoadToConfirm(r)
  <2>1. PICK a \in Appts, s \in Slots :
          Loads(r, a, Confirmed(appt[a], s)) /\ appt[a].status \in {"REQUESTED", "CONFIRMED"}
    BY <1>1 DEF LoadToConfirm
  <2>2. Confirmed(appt[a], s) \in ApptData /\ Confirmed(appt[a], s).followedUp = appt[a].followedUp
    BY ConfirmedRow DEF ApptTypeOK
  <2>3. mine'[r] = a /\ read'[r] = appt[a] /\ mind'[r] = Confirmed(appt[a], s) /\ pc'[r] = "staff"
    BY <1>1, <2>1 DEF LoadToConfirm, Loads, Goto, ApptTypeOK
  <2>4. r \notin Appts /\ pc[r] = "idle" /\ Role[r] = "confirmer" /\ appt' = appt /\ UNCHANGED letters
    BY <1>1 DEF LoadToConfirm, Arrives, Appts, NewRoles, rows
  <2>5. BeginsOn(r, a)
    BY <2>1, <2>2, <2>3, <2>4 DEF BeginsOn, Starts
  <2> QED
    BY <2>3, <2>4, <2>5 DEF RowStep, Placed, StaffRoles
<1>2. CASE LoadToRemove(r)
  <2>1. PICK a \in Appts :
          /\ Loads(r, a, [appt[a] EXCEPT !.status = "CANCELLED"])
          /\ appt[a].status \in {"REQUESTED", "CONFIRMED"}
    BY <1>2 DEF LoadToRemove
  <2> DEFINE row == [appt[a] EXCEPT !.status = "CANCELLED"]
  <2>2. /\ row \in ApptData /\ row.status = "CANCELLED" /\ row.at = appt[a].at
        /\ SameMarks(row, appt[a]) /\ row.followedUp = appt[a].followedUp
    BY StatusRow DEF ApptTypeOK, Status
  <2>3. mine'[r] = a /\ read'[r] = appt[a] /\ mind'[r] = row /\ pc'[r] = "staff"
    BY <1>2, <2>1 DEF LoadToRemove, Loads, Goto, ApptTypeOK
  <2> HIDE DEF row
  <2>4. r \notin Appts /\ pc[r] = "idle" /\ Role[r] = "remover" /\ appt' = appt /\ UNCHANGED letters
    BY <1>2 DEF LoadToRemove, Arrives, Appts, NewRoles, rows
  <2>5. BeginsOn(r, a)
    BY <2>1, <2>2, <2>3, <2>4 DEF BeginsOn, Starts
  <2> QED
    BY <2>3, <2>4, <2>5 DEF RowStep, Placed, StaffRoles
<1>3. CASE LoadToJudge(r)
  <2>1. PICK a \in Appts, outcome \in Outcomes :
          /\ Loads(r, a, [appt[a] EXCEPT !.outcome = outcome, !.outcomeAt = now])
          /\ appt[a].status = "CONFIRMED"
    BY <1>3 DEF LoadToJudge
  <2> DEFINE row == [appt[a] EXCEPT !.outcome = outcome, !.outcomeAt = now]
  <2>2. /\ row \in ApptData /\ row.status = appt[a].status /\ row.at = appt[a].at
        /\ SameMarks(row, appt[a]) /\ row.followedUp = appt[a].followedUp
    <3>1. appt[a] \in ApptData /\ now \in Nat
      BY NowIsNat DEF ApptTypeOK
    <3>2. row \in ApptData
      BY <3>1, OutcomeEdit
    <3>3. row.status = appt[a].status /\ row.at = appt[a].at /\ row.followedUp = appt[a].followedUp
      BY <3>1 DEF ApptData
    <3>4. SameMarks(row, appt[a])
      BY <3>1 DEF ApptData, SameMarks
    <3> QED
      BY <3>2, <3>3, <3>4
  <2>3. mine'[r] = a /\ read'[r] = appt[a] /\ mind'[r] = row /\ pc'[r] = "staff"
    BY <1>3, <2>1 DEF LoadToJudge, Loads, Goto, ApptTypeOK
  <2> HIDE DEF row
  <2>4. r \notin Appts /\ pc[r] = "idle" /\ Role[r] = "judge" /\ appt' = appt /\ UNCHANGED letters
    BY <1>3 DEF LoadToJudge, Arrives, Appts, NewRoles, rows
  <2>5. BeginsOn(r, a)
    BY <2>1, <2>2, <2>3, <2>4 DEF BeginsOn, Starts
  <2> QED
    BY <2>3, <2>4, <2>5 DEF RowStep, Placed, StaffRoles
<1>4. CASE FlushStaff(r)
  <2>1. mind[r] \in ApptData /\ (mind[r].followedUp \/ FollowUpNow(r)) \in BOOLEAN
    BY DEF ApptTypeOK
  <2>2. mind'[r] = [mind[r] EXCEPT !.followedUp = mind[r].followedUp \/ FollowUpNow(r)]
    BY <1>4 DEF FlushStaff, ApptTypeOK
  <2>3. mind'[r] \in ApptData
    <3>1. \A mark \in BOOLEAN : [mind[r] EXCEPT !.followedUp = mark] \in ApptData
      BY <2>1, FollowedUpEdit
    <3> QED
      BY <2>1, <2>2, <3>1
  <2>4. /\ mind'[r].status = mind[r].status /\ mind'[r].at = mind[r].at /\ SameMarks(mind'[r], mind[r])
        /\ mind'[r].followedUp = (mind[r].followedUp \/ FollowUpNow(r))
    BY <2>1, <2>2 DEF ApptData, SameMarks
  <2>5. /\ pc[r] = "staff" /\ pc'[r] = "flushed" /\ mine'[r] = mine[r] /\ read'[r] = read[r] /\ appt' = appt
        /\ Send(IF FollowUpNow(r) THEN {FollowUpOf(mine[r])} ELSE {})
    BY <1>4 DEF FlushStaff, Goto, ApptTypeOK
  <2>6. Flushes(r)
    BY <2>3, <2>4, <2>5 DEF Flushes, Edits
  <2> QED
    BY <2>5, <2>6 DEF RowStep, Placed
<1>5. CASE CommitStaff(r)
  <2>1. /\ pc[r] = "flushed" /\ pc'[r] = "done"
        /\ appt' = [appt EXCEPT ![mine[r]] = Merge(@, read[r], mind[r])]
    BY <1>5 DEF CommitStaff, Commits, Leave, Goto, ApptTypeOK
  <2>2. Send({})
    BY <1>5 DEF CommitStaff, letters, Send
  <2> QED
    BY <2>1, <2>2 DEF RowStep, Writes, Placed
<1> QED
  BY <1>1, <1>2, <1>3, <1>4, <1>5 DEF Staff

LEMMA RowStepWorker ==
    ASSUME ApptTypeOK, Working, NEW r \in Requests, Placed(r), Worker(r)
    PROVE  RowStep(r) /\ Placed(r)'
<1> USE AppointmentsAssumption
<1>1. ASSUME Role[r] = "worker", pc[r] \notin Holding, pc'[r] \in {"idle", "run", "chase"},
             appt' = appt, UNCHANGED letters
      PROVE  RowStep(r) /\ Placed(r)'
  BY <1>1 DEF RowStep, Leaves, Placed
<1>2. ASSUME pc[r] \in {"told", "chased"}, pc'[r] \in {"run", "chase"}, UNCHANGED letters,
             appt' = [appt EXCEPT ![mine[r]] = Merge(@, read[r], mind[r])]
      PROVE  RowStep(r) /\ Placed(r)'
  <2>1. Send({})
    BY <1>2 DEF letters, Send
  <2> QED
    BY <1>2, <2>1 DEF RowStep, Writes, Placed
<1>3. CASE StartRun(r)
  <2>1. Role[r] = "worker" /\ pc[r] = "idle" /\ pc'[r] = "run" /\ appt' = appt /\ UNCHANGED letters
    BY <1>3 DEF StartRun, Arrives, Goto, ApptTypeOK, rows
  <2> QED
    BY <1>1, <2>1 DEF Holding
<1>4. CASE ListFollowUps(r)
  <2>1. Role[r] = "worker" /\ pc[r] = "run" /\ pc'[r] = "chase" /\ appt' = appt /\ UNCHANGED letters
    BY <1>4 DEF ListFollowUps, Goto, ApptTypeOK, rows, Placed
  <2> QED
    BY <1>1, <2>1 DEF Holding
<1>5. CASE EndRun(r)
  <2>1. Role[r] = "worker" /\ pc[r] = "chase" /\ pc'[r] = "idle" /\ appt' = appt /\ UNCHANGED letters
    BY <1>5 DEF EndRun, Goto, ApptTypeOK, rows, Placed
  <2> QED
    BY <1>1, <2>1 DEF Holding
<1>6. CASE CommitReminder(r)
  <2>1. /\ pc[r] = "told" /\ pc'[r] = "run" /\ UNCHANGED letters
        /\ appt' = [appt EXCEPT ![mine[r]] = Merge(@, read[r], mind[r])]
    BY <1>6 DEF CommitReminder, Commits, Leave, Goto, ApptTypeOK
  <2> QED
    BY <1>2, <2>1
<1>7. CASE CommitFollowUp(r)
  <2>1. /\ pc[r] = "chased" /\ pc'[r] = "chase" /\ UNCHANGED letters
        /\ appt' = [appt EXCEPT ![mine[r]] = Merge(@, read[r], mind[r])]
    BY <1>7 DEF CommitFollowUp, Commits, Leave, Goto, ApptTypeOK
  <2> QED
    BY <1>2, <2>1
<1>8. CASE LookAt(r)
  <2>1. PICK a \in list[r] : Loads(r, a, appt[a])
    BY <1>8 DEF LookAt
  <2>2. a \in Appts /\ appt[a] \in ApptData
    BY DEF ApptTypeOK
  <2>3. /\ mine'[r] = a /\ read'[r] = appt[a] /\ mind'[r] = appt[a] /\ pc[r] = "run" /\ pc'[r] = "look"
        /\ appt' = appt /\ UNCHANGED letters
    BY <1>8, <2>1 DEF LookAt, Loads, Goto, ApptTypeOK, rows
  <2>4. LooksAgain(r, a)
    BY <2>1, <2>2, <2>3 DEF LooksAgain, Starts
  <2> QED
    BY <2>2, <2>3, <2>4 DEF RowStep, Placed
<1>9. CASE Remind(r)
  <2>1. PICK staff \in BOOLEAN, whatsapp \in BOOLEAN, mail \in BOOLEAN :
          /\ staff => DueStaff(mine[r], mind[r], clock[r])
          /\ whatsapp => DueWhatsapp(mine[r], mind[r], clock[r])
          /\ mail => DueMail(mine[r], mind[r], clock[r])
          /\ mind' = [mind EXCEPT ![r].staffReminded = @ \/ staff, ![r].whatsappReminded = @ \/ whatsapp,
                                  ![r].mailReminded = @ \/ mail]
          /\ Send((IF staff THEN {Note("staff_reminder", r, mind[r])} ELSE {})
                    \cup (IF whatsapp THEN {Note("whatsapp_reminder", r, mind[r])} ELSE {})
                    \cup (IF mail THEN {Note("mail_reminder", r, mind[r])} ELSE {}))
    BY ZenonT(40), <1>9 DEF Remind
  <2>2. mind'[r] = [mind[r] EXCEPT !.staffReminded = @ \/ staff, !.whatsappReminded = @ \/ whatsapp,
                                   !.mailReminded = @ \/ mail]
    BY <2>1 DEF ApptTypeOK
  <2>3. mind[r] \in ApptData
    BY DEF ApptTypeOK
  <2>4. /\ mind'[r] \in ApptData
        /\ mind'[r].status = mind[r].status /\ mind'[r].at = mind[r].at
        /\ mind'[r].followedUp = mind[r].followedUp
        /\ mind'[r].staffReminded = (mind[r].staffReminded \/ staff)
        /\ mind'[r].whatsappReminded = (mind[r].whatsappReminded \/ whatsapp)
        /\ mind'[r].mailReminded = (mind[r].mailReminded \/ mail)
    <3>1. mind' \in [Requests -> ApptData]
      BY <2>1, RemindedAs DEF ApptTypeOK
    <3>2. /\ mind'[r].status = mind[r].status /\ mind'[r].at = mind[r].at
          /\ mind'[r].followedUp = mind[r].followedUp
      BY <2>2, <2>3 DEF ApptData
    <3>3. /\ mind'[r].staffReminded = (mind[r].staffReminded \/ staff)
          /\ mind'[r].whatsappReminded = (mind[r].whatsappReminded \/ whatsapp)
          /\ mind'[r].mailReminded = (mind[r].mailReminded \/ mail)
      BY <2>2, <2>3 DEF ApptData
    <3> QED
      BY <3>1, <3>2, <3>3
  <2>5. /\ staff \/ whatsapp \/ mail => mind[r].status = "CONFIRMED"
        /\ staff => ~ mind[r].staffReminded
        /\ whatsapp => ~ mind[r].whatsappReminded
        /\ mail => ~ mind[r].mailReminded
    BY <2>1 DEF DueStaff, DueWhatsapp, DueMail, Eve
  <2>6. pc[r] = "look" /\ pc'[r] = "told" /\ mine'[r] = mine[r] /\ read'[r] = read[r] /\ appt' = appt
    BY <1>9 DEF Remind, Goto, ApptTypeOK, rows
  <2>7. Reminds(r, staff, whatsapp, mail)
    BY <2>1, <2>4, <2>5, <2>6 DEF Reminds, Edits
  <2> QED
    BY <2>6, <2>7 DEF RowStep, Placed
<1>10. CASE FollowUp(r)
  <2>1. PICK a \in list[r] :
          IF FollowUpDue(appt[a], clock[r])
            THEN /\ Loads(r, a, [appt[a] EXCEPT !.followedUp = TRUE])
                 /\ Send({FollowUpOf(a)})
                 /\ Goto(r, "chased")
            ELSE UNCHANGED <<pc, mine, read, mind, letters>>
    BY <1>10 DEF FollowUp
  <2>2. pc[r] = "chase" /\ Role[r] = "worker" /\ appt' = appt /\ a \in Appts
    BY <1>10 DEF FollowUp, Placed, rows, ApptTypeOK
  <2>3. CASE FollowUpDue(appt[a], clock[r])
    <3>1. appt[a] \in ApptData /\ [appt[a] EXCEPT !.followedUp = TRUE] \in ApptData
      BY <2>2, FollowedUpEdit DEF ApptTypeOK
    <3>2. /\ mine'[r] = a /\ read'[r] = appt[a] /\ mind'[r] = [appt[a] EXCEPT !.followedUp = TRUE]
          /\ pc'[r] = "chased" /\ Send({FollowUpOf(a)})
      BY <2>1, <2>3 DEF Loads, Goto, ApptTypeOK
    <3>3. ChasesUp(r, a)
      BY <2>2, <2>3, <3>1, <3>2 DEF ChasesUp, Starts
    <3> QED
      BY <2>2, <3>2, <3>3 DEF RowStep, Placed
  <2>4. CASE ~ FollowUpDue(appt[a], clock[r])
    <3>1. pc'[r] = "chase" /\ UNCHANGED letters
      BY <2>1, <2>2, <2>4
    <3> QED
      BY <1>1, <2>2, <3>1 DEF Holding
  <2> QED
    BY <2>3, <2>4
<1> QED
  BY <1>3, <1>4, <1>5, <1>6, <1>7, <1>8, <1>9, <1>10 DEF Worker

LEMMA RowStepCrash ==
    ASSUME ApptTypeOK, Working, NEW r \in Requests, Placed(r), Crash(r)
    PROVE  RowStep(r) /\ Placed(r)'
<1>1. \E label \in {"idle", "done"} :
         Leave(r, label) /\ (label = "idle" => Role[r] = "worker")
  BY DEF Crash
<1>2. /\ pc'[r] \in {"idle", "done"} /\ (pc'[r] = "idle" => Role[r] = "worker")
      /\ r \in Fragile /\ appt' = appt /\ UNCHANGED letters
  BY <1>1 DEF Crash, Leave, Goto, ApptTypeOK
<1> QED
  BY <1>2 DEF RowStep, Leaves, Placed

\* Every action changes one row as one of these steps does.
LEMMA RowSteps ==
    ASSUME ApptTypeOK, Working, NEW r \in Requests, Placed(r), Act(r)
    PROVE  RowStep(r) /\ Placed(r)'
  BY RowStepCustomer, RowStepStaff, RowStepWorker, RowStepCrash DEF Act

-----------------------------------------------------------------------------
(* One session at a time: the others stay as they are.                     *)

LEMMA MergeOwn ==
    ASSUME NEW row \in ApptData, NEW new \in ApptData
    PROVE  Merge(row, row, new) = new
<1>1. DOMAIN row = DOMAIN new
  BY DEF ApptData
<1>2. Merge(row, row, new) = [f \in DOMAIN new |-> new[f]]
  BY <1>1 DEF Merge
<1>3. new = [f \in DOMAIN new |-> new[f]]
  BY DEF ApptData
<1> QED
  BY <1>2, <1>3

SamePlace(q) ==
    /\ pc'[q] = pc[q] /\ mine'[q] = mine[q] /\ read'[q] = read[q]
    /\ mind'[q] = mind[q] /\ list'[q] = list[q]

LEMMA OthersStay ==
    ASSUME ApptTypeOK, NEW r \in Requests, Act(r)
    PROVE  \A q \in Requests \ {r} : SamePlace(q)
<1> TAKE q \in Requests \ {r}
<1> USE DEF SamePlace, ApptTypeOK
<1>1. ASSUME Customer(r)
      PROVE  SamePlace(q)
  <2>1. ASSUME Book(r) PROVE SamePlace(q)
    BY <2>1 DEF Book, Loads, Goto
  <2>2. ASSUME AskAppointment(r) PROVE SamePlace(q)
    BY <2>2 DEF AskAppointment, Loads, Goto
  <2>3. ASSUME FindMine(r) PROVE SamePlace(q)
    BY <2>3 DEF FindMine, Loads, Goto
  <2>4. ASSUME Move(r) PROVE SamePlace(q)
    BY <2>4 DEF Move, Goto
  <2>5. ASSUME Quit(r) PROVE SamePlace(q)
    BY <2>5 DEF Quit, Goto
  <2>6. ASSUME GiveUp(r) PROVE SamePlace(q)
    BY <2>6 DEF GiveUp, Leave, Goto
  <2>7. ASSUME CommitTurn(r) PROVE SamePlace(q)
    BY <2>7 DEF CommitTurn, Leave, Goto
  <2> QED
    BY <1>1, <2>1, <2>2, <2>3, <2>4, <2>5, <2>6, <2>7 DEF Customer
<1>2. ASSUME Staff(r)
      PROVE  SamePlace(q)
  <2>1. ASSUME LoadToConfirm(r) PROVE SamePlace(q)
    BY <2>1 DEF LoadToConfirm, Loads, Goto
  <2>2. ASSUME LoadToRemove(r) PROVE SamePlace(q)
    BY <2>2 DEF LoadToRemove, Loads, Goto
  <2>3. ASSUME LoadToJudge(r) PROVE SamePlace(q)
    BY <2>3 DEF LoadToJudge, Loads, Goto
  <2>4. ASSUME FlushStaff(r) PROVE SamePlace(q)
    BY <2>4 DEF FlushStaff, Goto
  <2>5. ASSUME CommitStaff(r) PROVE SamePlace(q)
    BY <2>5 DEF CommitStaff, Leave, Goto
  <2> QED
    BY <1>2, <2>1, <2>2, <2>3, <2>4, <2>5 DEF Staff
<1>3. ASSUME Worker(r)
      PROVE  SamePlace(q)
  <2>1. ASSUME StartRun(r) PROVE SamePlace(q)
    BY <2>1 DEF StartRun, Goto
  <2>2. ASSUME LookAt(r) PROVE SamePlace(q)
    BY <2>2 DEF LookAt, Loads, Goto
  <2>3. ASSUME Remind(r) PROVE SamePlace(q)
    BY <2>3 DEF Remind, Goto
  <2>4. ASSUME CommitReminder(r) PROVE SamePlace(q)
    BY <2>4 DEF CommitReminder, Leave, Goto
  <2>5. ASSUME ListFollowUps(r) PROVE SamePlace(q)
    BY <2>5 DEF ListFollowUps, Goto
  <2>6. ASSUME FollowUp(r) PROVE SamePlace(q)
    BY <2>6 DEF FollowUp, Loads, Goto
  <2>7. ASSUME CommitFollowUp(r) PROVE SamePlace(q)
    BY <2>7 DEF CommitFollowUp, Leave, Goto
  <2>8. ASSUME EndRun(r) PROVE SamePlace(q)
    BY <2>8 DEF EndRun, Goto, session
  <2> QED
    BY <1>3, <2>1, <2>2, <2>3, <2>4, <2>5, <2>6, <2>7, <2>8 DEF Worker
<1>4. ASSUME Crash(r)
      PROVE  SamePlace(q)
  BY <1>4 DEF Crash, Leave, Goto
<1> QED
  BY <1>1, <1>2, <1>3, <1>4 DEF Act

\* A session is open already, or nobody's is.
LEMMA NobodyElseIsOpen ==
    ASSUME ApptTypeOK, Alone, MaxOpen <= 1, NEW r \in Requests, Act(r)
    PROVE  \A q \in Requests \ {r} : pc[q] \notin Busy
<1>1. CASE pc[r] \in Busy
  BY <1>1 DEF Alone
<1>2. CASE pc[r] \notin Busy
  <2>1. \E role \in Roles : Arrives(r, role)
    <3>1. ASSUME Customer(r) PROVE \E role \in Roles : Arrives(r, role)
      BY <1>2, <3>1 DEF Customer, Book, AskAppointment, FindMine, Move, Quit, GiveUp, CommitTurn, Busy,
                       Roles, CustomerRoles, NewRoles
    <3>2. ASSUME Staff(r) PROVE \E role \in Roles : Arrives(r, role)
      BY <1>2, <3>2 DEF Staff, LoadToConfirm, LoadToRemove, LoadToJudge, FlushStaff, CommitStaff, Busy,
                       Roles, StaffRoles
    <3>3. ASSUME Worker(r) PROVE \E role \in Roles : Arrives(r, role)
      BY <1>2, <3>3 DEF Worker, StartRun, LookAt, Remind, CommitReminder, ListFollowUps, FollowUp,
                       CommitFollowUp, EndRun, Busy, Roles
    <3> QED
      BY <1>2, <3>1, <3>2, <3>3 DEF Act, Crash
  <2> DEFINE Open == {q \in Requests : pc[q] \in Busy}
  <2>2. IsFiniteSet(Open) /\ Cardinality(Open) \in Nat
    BY AppointmentsAssumption, FS_Subset, FS_CardinalityType
  <2>3. Cardinality(Open) < MaxOpen
    BY <2>1 DEF Arrives
  <2>4. Cardinality(Open) = 0
    BY <2>2, <2>3, AppointmentsAssumption
  <2>5. Open = {}
    BY <2>2, <2>4, FS_EmptySet
  <2> QED
    BY <2>5
<1> QED
  BY <1>1, <1>2

Listed(r) == pc[r] \in {"run", "look", "told"} => \A a \in list[r] : appt[a].status # "NONE"

\* What a session has loaded is what is committed, and a cancelled row stays so.
Faithful(r) ==
    LET row == appt[mine[r]] IN
    pc[r] \in Holding =>
       /\ read[r] = row
       /\ mind[r].status # "NONE"
       /\ r \in Appts => mine[r] = r /\ pc[r] = "turn"
       /\ r \notin Appts => row.status # "NONE"
       /\ pc[r] \in {"turn", "lost", "staff", "flushed"} => row.status # "CANCELLED"
       /\ pc[r] \in {"look", "told", "chased"} => mind[r].status = row.status

Unborn(a) ==
    /\ pc[a] \in {"idle", "turn"} => appt[a].status = "NONE"
    /\ appt[a].status = "NONE" => appt[a] = NoAppt

OneByOne ==
    /\ Alone
    /\ \A r \in Requests : Placed(r) /\ Listed(r) /\ Faithful(r)
    /\ \A a \in Appts : Unborn(a)

LEMMA ListStep ==
    ASSUME ApptTypeOK, NEW r \in Requests, Act(r), pc'[r] \in {"run", "look", "told"}
    PROVE  \A a \in list'[r] :
              \/ pc[r] \in {"run", "look", "told"} /\ a \in list[r]
              \/ appt[a].status = "CONFIRMED"
<1> USE DEF ApptTypeOK
<1> SUFFICES ASSUME NEW a \in list'[r]
             PROVE  \/ pc[r] \in {"run", "look", "told"} /\ a \in list[r]
                    \/ appt[a].status = "CONFIRMED"
  OBVIOUS
<1>1. ASSUME StartRun(r)
      PROVE  appt[a].status = "CONFIRMED"
  BY <1>1 DEF StartRun
<1>2. ASSUME LookAt(r) \/ Remind(r) \/ CommitReminder(r)
      PROVE  pc[r] \in {"run", "look", "told"} /\ a \in list[r]
  BY <1>2 DEF LookAt, Remind, CommitReminder
<1>3. ~ (ListFollowUps(r) \/ EndRun(r) \/ CommitFollowUp(r))
  BY DEF ListFollowUps, EndRun, CommitFollowUp, Leave, Goto
<1>4. ~ FollowUp(r)
  BY DEF FollowUp, Goto
<1>5. ~ Customer(r)
  BY DEF Customer, Book, AskAppointment, FindMine, Move, Quit, GiveUp, CommitTurn, Leave, Goto
<1>6. ~ Staff(r)
  BY DEF Staff, LoadToConfirm, LoadToRemove, LoadToJudge, FlushStaff, CommitStaff, Leave, Goto
<1>7. ~ Crash(r)
  BY DEF Crash, Leave, Goto
<1> QED
  BY <1>1, <1>2, <1>3, <1>4, <1>5, <1>6, <1>7 DEF Act, Worker

\* A commit leaves the row as the session has it.
LEMMA WrittenAsIs ==
    ASSUME ApptTypeOK, Working, NEW r \in Requests, Faithful(r), Writes(r)
    PROVE  /\ mine[r] \in Appts /\ mind[r] \in ApptData /\ mind[r].status # "NONE"
           /\ appt' = [appt EXCEPT ![mine[r]] = mind[r]]
<1>1. pc[r] \in Holding
  BY DEF Writes, Holding
<1>2. mine[r] \in Appts /\ mind[r] \in ApptData /\ appt[mine[r]] \in ApptData
  BY <1>1 DEF Working, ApptTypeOK
<1>3. read[r] = appt[mine[r]] /\ mind[r].status # "NONE"
  BY <1>1 DEF Faithful
<1>4. Merge(appt[mine[r]], read[r], mind[r]) = mind[r]
  BY <1>2, <1>3, MergeOwn
<1> QED
  BY <1>2, <1>3, <1>4 DEF Writes

LEMMA FaithfulStep ==
    ASSUME ApptTypeOK, Working, NEW r \in Requests, Placed(r), Listed(r), Faithful(r), RowStep(r),
           \A a \in Appts : Unborn(a)
    PROVE  Faithful(r)'
<1>1. CASE BeginsNew(r)
  <2>1. appt[r].status = "NONE"
    BY <1>1 DEF BeginsNew, Unborn
  <2> QED
    BY <1>1, <2>1 DEF BeginsNew, Starts, Faithful
<1>2. ASSUME NEW a \in Appts, BeginsOn(r, a)
      PROVE  Faithful(r)'
  <2>1. mind'[r].status # "NONE"
    BY <1>2, ConfirmedRow DEF BeginsOn, ApptTypeOK
  <2> QED
    BY <1>2, <2>1 DEF BeginsOn, Starts, Faithful
<1>3. ASSUME NEW a \in Appts, LooksAgain(r, a)
      PROVE  Faithful(r)'
  <2>1. r \notin Appts
    BY <1>3 DEF LooksAgain, Placed, Appts, NewRoles
  <2>2. appt[a].status # "NONE"
    BY <1>3 DEF LooksAgain, Listed
  <2> QED
    BY <1>3, <2>1, <2>2 DEF LooksAgain, Starts, Faithful
<1>4. ASSUME NEW a \in Appts, ChasesUp(r, a), appt[a].status # "NONE"
      PROVE  Faithful(r)'
  <2>1. r \notin Appts
    BY <1>4 DEF ChasesUp, Placed, Appts, NewRoles
  <2>2. mind'[r].status = appt[a].status
    BY <1>4, FollowedUpEdit DEF ChasesUp, ApptTypeOK, ApptData
  <2> QED
    BY <1>4, <2>1, <2>2 DEF ChasesUp, Starts, Faithful
<1>11. \A a \in Appts : ChasesUp(r, a) => appt[a].status # "NONE"
  BY DEF ChasesUp, FollowUpDue, Unborn, NoAppt
<1>5. ASSUME NEW label, Edits(r, label), label \in {"turn", "flushed", "told"}, pc[r] \in {"lost", "staff", "look"},
             mind'[r].status # "NONE",
             label = "told" => pc[r] = "look" /\ mind'[r].status = mind[r].status,
             label # "told" => pc[r] # "look"
      PROVE  Faithful(r)'
  BY <1>5 DEF Edits, Faithful, Holding
<1>6. CASE ChangesDate(r)
  BY <1>5, <1>6 DEF ChangesDate
<1>7. CASE CallsOff(r)
  BY <1>5, <1>7 DEF CallsOff
<1>8. CASE Flushes(r)
  BY <1>5, <1>8 DEF Flushes, Faithful, Holding
<1>9. ASSUME NEW staff \in BOOLEAN, NEW whatsapp \in BOOLEAN, NEW mail \in BOOLEAN,
             Reminds(r, staff, whatsapp, mail)
      PROVE  Faithful(r)'
  BY <1>5, <1>9 DEF Reminds, Faithful, Holding
<1>10. CASE Writes(r) \/ Leaves(r)
  BY <1>10 DEF Writes, Leaves, Faithful, Holding
<1> QED
  BY <1>1, <1>2, <1>3, <1>4, <1>11, <1>6, <1>7, <1>8, <1>9, <1>10 DEF RowStep

LEMMA AloneStep ==
    ASSUME ApptTypeOK, Alone, MaxOpen <= 1, NEW r \in Requests, Act(r)
    PROVE  Alone'
<1>1. \A q \in Requests \ {r} : pc'[q] \notin Busy
  BY NobodyElseIsOpen, OthersStay DEF SamePlace
<1> QED
  BY <1>1 DEF Alone

LEMMA UnbornStep ==
    ASSUME ApptTypeOK, Working, NEW r \in Requests, Placed(r), Faithful(r), RowStep(r),
           \A q \in Requests \ {r} : pc[q] \notin Busy /\ pc'[q] = pc[q],
           NEW a \in Appts, Unborn(a)
    PROVE  /\ Unborn(a)'
           /\ appt[a].status # "NONE" => appt'[a].status # "NONE"
<1>1. CASE Writes(r)
  <2>1. /\ mine[r] \in Appts /\ mind[r].status # "NONE"
        /\ appt' = [appt EXCEPT ![mine[r]] = mind[r]]
    BY <1>1, WrittenAsIs
  <2>2. CASE a = mine[r]
    <3>1. appt'[a].status # "NONE"
      BY <2>1, <2>2 DEF ApptTypeOK
    <3>2. pc'[a] \notin {"idle", "turn"}
      <4>1. CASE a = r
        BY <1>1, <4>1 DEF Writes
      <4>2. CASE a # r
        <5>1. a \in Requests \ {r} /\ pc[a] \notin Busy
          BY <4>2 DEF Appts
        <5>2. r \notin Appts /\ appt[a].status # "NONE"
          BY <1>1, <2>2, <4>2 DEF Writes, Faithful, Holding
        <5> QED
          BY <5>1, <5>2 DEF Unborn, Busy
      <4> QED
        BY <4>1, <4>2
    <3> QED
      BY <3>1, <3>2 DEF Unborn
  <2>3. CASE a # mine[r]
    <3>1. appt'[a] = appt[a]
      BY <2>1, <2>3 DEF ApptTypeOK
    <3>2. a # r
      BY <1>1, <2>3 DEF Writes, Faithful, Holding
    <3>3. pc'[a] = pc[a]
      BY <3>2 DEF Appts
    <3> QED
      BY <3>1, <3>3 DEF Unborn
  <2> QED
    BY <2>2, <2>3
<1>2. CASE ~ Writes(r)
  <2>1. appt' = appt
    BY <1>2 DEF RowStep, BeginsNew, BeginsOn, LooksAgain, ChasesUp, Starts, Edits, ChangesDate, CallsOff,
                Flushes, Reminds, Leaves
  <2>2. pc'[a] \in {"idle", "turn"} => pc[a] \in {"idle", "turn"}
    <3>1. CASE a # r
      BY <3>1 DEF Appts
    <3>2. CASE a = r
      <4>1. Role[r] # "worker" /\ Role[r] \in NewRoles
        BY <3>2 DEF Appts, NewRoles
      <4>2. pc[r] \in Holding => pc[r] = "turn"
        BY <3>2 DEF Faithful
      <4> QED
        BY <1>2, <3>2, <4>1, <4>2 DEF RowStep, BeginsNew, BeginsOn, LooksAgain, ChasesUp, Starts, Edits, ChangesDate,
                CallsOff, Flushes, Reminds, Leaves, Holding
    <3> QED
      BY <3>1, <3>2
  <2> QED
    BY <2>1, <2>2 DEF Unborn
<1> QED
  BY <1>1, <1>2

\* With one session at a time, what a session has loaded stays true until it
\* ends.
LEMMA OneByOneStep ==
    ASSUME ApptTypeOK, Working, OneByOne, MaxOpen <= 1, NEW r \in Requests, Act(r)
    PROVE  OneByOne' /\ RowStep(r)
<1>1. Placed(r) /\ Listed(r) /\ Faithful(r) /\ Alone /\ \A a \in Appts : Unborn(a)
  BY DEF OneByOne
<1>2. RowStep(r) /\ Placed(r)'
  BY <1>1, RowSteps
<1>3. \A q \in Requests \ {r} : SamePlace(q) /\ pc[q] \notin Busy
  BY <1>1, OthersStay, NobodyElseIsOpen
<1>4. Alone'
  BY <1>1, AloneStep
<1>5. \A a \in Appts : Unborn(a)' /\ (appt[a].status # "NONE" => appt'[a].status # "NONE")
  BY <1>1, <1>2, <1>3, UnbornStep DEF SamePlace
<1>6. \A q \in Requests : Placed(q)'
  BY <1>2, <1>3 DEF OneByOne, Placed, SamePlace
<1>7. \A q \in Requests \ {r} : Listed(q)' /\ Faithful(q)'
  BY <1>3 DEF SamePlace, Listed, Faithful, Busy, Holding
<1>8. Listed(r)'
  <2> SUFFICES ASSUME pc'[r] \in {"run", "look", "told"}, NEW a \in list'[r]
               PROVE  appt'[a].status # "NONE"
    BY DEF Listed
  <2>1. appt[a].status # "NONE"
    BY <1>1, ListStep DEF Listed
  <2>2. a \in Appts
    <3>1. ApptTypeOK' 
      BY TypeStep DEF Next, Act
    <3> QED
      BY <3>1 DEF ApptTypeOK
  <2> QED
    BY <1>5, <2>1, <2>2
<1>9. Faithful(r)'
  BY <1>1, <1>2, FaithfulStep
<1> QED
  BY <1>2, <1>4, <1>5, <1>6, <1>7, <1>8, <1>9 DEF OneByOne

LEMMA OneByOneInit == Init => OneByOne
<1> SUFFICES ASSUME Init PROVE OneByOne
  OBVIOUS
<1>1. \A r \in Requests : pc[r] = "idle"
  BY DEF Init
<1>2. \A a \in Appts : appt[a] = NoAppt /\ appt[a].status = "NONE"
  BY DEF Init, NoAppt
<1>3. Alone
  BY <1>1 DEF Alone, Busy
<1>4. \A r \in Requests : Placed(r) /\ Listed(r) /\ Faithful(r)
  BY <1>1 DEF Placed, Listed, Faithful, Holding
<1>5. \A a \in Appts : Unborn(a)
  BY <1>2 DEF Unborn
<1> QED
  BY <1>3, <1>4, <1>5 DEF OneByOne

LEMMA StillSame ==
    ASSUME OneByOne, UNCHANGED <<appt, pc, session>>
    PROVE  OneByOne'
  BY DEF OneByOne, Alone, Placed, Listed, Faithful, Unborn, session

LEMMA ActOrNot ==
    ASSUME [Next]_vars
    PROVE  (\E r \in Requests : Act(r)) \/ UNCHANGED <<appt, pc, session, letters>>
  BY DEF Next, Act, Tick, vars, rows

LEMMA OneByOneNext ==
    ASSUME ApptTypeOK, Working, OneByOne, MaxOpen <= 1, [Next]_vars
    PROVE  OneByOne'
  BY OneByOneStep, StillSame, ActOrNot

\* A cancelled appointment stays cancelled (CancelledIsFinal) when one session
\* at a time is open: confirm, cancel and the customer's tools refuse a
\* cancelled row, and a worker gives back the status it has loaded.
THEOREM CancelledOnce ==
    ASSUME MaxOpen <= 1
    PROVE  Spec => CancelledIsFinal
<1>1. Init => ApptTypeOK /\ Working /\ OneByOne
  BY TypeInit, OneByOneInit
<1>2. ApptTypeOK /\ Working /\ OneByOne /\ [Next]_vars => ApptTypeOK' /\ Working' /\ OneByOne'
  BY TypeStep, OneByOneNext
<1>3. ApptTypeOK /\ Working /\ OneByOne /\ [Next]_vars
        => [\A a \in Appts : appt[a].status = "CANCELLED" => (appt[a].status)' = "CANCELLED"]_vars
  <2> SUFFICES ASSUME ApptTypeOK, Working, OneByOne, [Next]_vars,
                      NEW a \in Appts, appt[a].status = "CANCELLED"
               PROVE  appt'[a].status = "CANCELLED"
    OBVIOUS
  <2>1. ASSUME NEW r \in Requests, Act(r)
        PROVE  appt'[a].status = "CANCELLED"
    <3>1. RowStep(r) /\ Faithful(r)
      BY <2>1, OneByOneStep DEF OneByOne
    <3>2. CASE Writes(r)
      <4>1. mine[r] \in Appts /\ appt' = [appt EXCEPT ![mine[r]] = mind[r]]
        BY <3>1, <3>2, WrittenAsIs
      <4>2. mine[r] = a => mind[r].status = "CANCELLED"
        BY <3>1, <3>2 DEF Writes, Faithful, Holding
      <4> QED
        BY <4>1, <4>2 DEF ApptTypeOK
    <3>3. CASE ~ Writes(r)
      BY <3>1, <3>3 DEF RowStep, BeginsNew, BeginsOn, LooksAgain, ChasesUp, Starts, Edits, ChangesDate, CallsOff,
                Flushes, Reminds, Leaves
    <3> QED
      BY <3>2, <3>3
  <2> QED
    BY <2>1, ActOrNot
<1> QED
  BY <1>1, <1>2, <1>3, PTL DEF Spec, CancelledIsFinal

NewLetters == (sent' \ sent) \cup (again' \ again)

LEMMA LettersOfSend == ASSUME NEW messages, Send(messages) PROVE NewLetters \subseteq messages
  BY DEF Send, NewLetters

\* Reminders and followups announce nothing.
LEMMA OthersAnnounceNothing ==
    ASSUME NEW r \in Requests, Act(r), ~CommitTurn(r)
    PROVE  \A m \in NewLetters : m.kind \notin Announcements
<1>1. CASE UNCHANGED letters
  BY <1>1 DEF letters, NewLetters
<1>2. CASE FlushStaff(r)
  <2>1. NewLetters \subseteq {FollowUpOf(mine[r])}
    BY <1>2, LettersOfSend DEF FlushStaff
  <2> QED
    BY <2>1 DEF FollowUpOf, Announcements
<1>3. CASE Remind(r)
  <2>1. NewLetters \subseteq {Note("staff_reminder", r, mind[r]), Note("whatsapp_reminder", r, mind[r]),
                              Note("mail_reminder", r, mind[r])}
    BY <1>3, LettersOfSend DEF Remind
  <2> QED
    BY <2>1 DEF Note, Announcements
<1>4. CASE FollowUp(r)
  <2>1. UNCHANGED letters \/ \E a : NewLetters \subseteq {FollowUpOf(a)}
    BY <1>4, LettersOfSend DEF FollowUp
  <2> QED
    BY <1>1, <2>1 DEF FollowUpOf, Announcements
<1>5. Customer(r) => UNCHANGED letters
  BY DEF Customer, Book, AskAppointment, FindMine, Move, Quit, GiveUp, letters
<1>6. Staff(r) => FlushStaff(r) \/ UNCHANGED letters
  BY DEF Staff, LoadToConfirm, LoadToRemove, LoadToJudge, CommitStaff, letters
<1>7. Worker(r) => Remind(r) \/ FollowUp(r) \/ UNCHANGED letters
  BY DEF Worker, StartRun, LookAt, CommitReminder, ListFollowUps, CommitFollowUp, EndRun, letters
<1>8. Crash(r) => UNCHANGED letters
  BY DEF Crash
<1> QED
  BY <1>1, <1>2, <1>3, <1>4, <1>5, <1>6, <1>7, <1>8 DEF Act

\* What a turn announces is the row as its commit leaves it.
LEMMA AnnouncedAsCommitted ==
    ASSUME ApptTypeOK, Working, NEW r \in Requests, Faithful(r), CommitTurn(r)
    PROVE  TrueAnnouncements
<1>1. pc[r] \in Holding
  BY DEF CommitTurn, Holding
<1>2. mine[r] \in Appts /\ mind[r] \in ApptData /\ appt[mine[r]] \in ApptData
  BY <1>1 DEF Working, ApptTypeOK
<1>3. Merge(appt[mine[r]], read[r], mind[r]) = mind[r]
  BY <1>1, <1>2, MergeOwn DEF Faithful
<1>4. appt'[mine[r]] = mind[r]
  BY <1>2, <1>3 DEF CommitTurn, Commits, ApptTypeOK
<1>5. NewLetters \subseteq Announcement(r)
  BY LettersOfSend DEF CommitTurn
<1>6. ASSUME NEW m \in Announcement(r)
      PROVE  /\ m.appt = mine[r] /\ m.at = mind[r].at
             /\ m.kind \in {"moved", "confirmed"} => mind[r].status = "CONFIRMED"
             /\ m.kind = "cancelled" => mind[r].status = "CANCELLED"
  <2>1. CASE mind[r].status = "CANCELLED"
    BY <1>6, <2>1 DEF Announcement, Note
  <2>2. CASE mind[r].status = "CONFIRMED" /\ Role[r] = "mover"
    BY <1>6, <2>2 DEF Announcement, Note
  <2>3. CASE mind[r].status = "CONFIRMED" /\ Role[r] # "mover"
    BY <1>6, <2>3 DEF Announcement, Note
  <2>4. CASE mind[r].status \notin {"CANCELLED", "CONFIRMED"}
    BY <1>6, <2>4 DEF Announcement
  <2> QED
    BY <2>1, <2>2, <2>3, <2>4
<1>7. \A m \in NewLetters : appt'[m.appt] = mind[r] /\ m.at = mind[r].at
  BY <1>4, <1>5, <1>6
<1> QED
  BY <1>5, <1>6, <1>7 DEF TrueAnnouncements, NewLetters

\* What the agent announces is what the agenda says (TrueAnnouncements) when one
\* session at a time is open: nobody changes the row between the tool that wrote
\* it and the message that follows the commit.
THEOREM AnnouncedAsWritten ==
    ASSUME MaxOpen <= 1
    PROVE  Spec => [][TrueAnnouncements]_vars
<1>1. Init => ApptTypeOK /\ Working /\ OneByOne
  BY TypeInit, OneByOneInit
<1>2. ApptTypeOK /\ Working /\ OneByOne /\ [Next]_vars => ApptTypeOK' /\ Working' /\ OneByOne'
  BY TypeStep, OneByOneNext
<1>3. ApptTypeOK /\ Working /\ OneByOne /\ [Next]_vars => [TrueAnnouncements]_vars
  <2> SUFFICES ASSUME ApptTypeOK, Working, OneByOne, [Next]_vars
               PROVE  TrueAnnouncements
    OBVIOUS
  <2>1. ASSUME NEW r \in Requests, Act(r)
        PROVE  TrueAnnouncements
    <3>1. CASE CommitTurn(r)
      BY <3>1, AnnouncedAsCommitted DEF OneByOne
    <3>2. CASE ~CommitTurn(r)
      BY <2>1, <3>2, OthersAnnounceNothing DEF TrueAnnouncements, NewLetters, Announcements
    <3> QED
      BY <3>1, <3>2
  <2>2. CASE UNCHANGED letters
    BY <2>2 DEF TrueAnnouncements, letters
  <2> QED
    BY <2>1, <2>2, ActOrNot DEF letters
<1> QED
  BY <1>1, <1>2, <1>3, PTL DEF Spec

-----------------------------------------------------------------------------
(* The marks of a row are those of messages about the date it has.         *)

Told(out, kind, a, row) == [kind |-> kind, appt |-> a, at |-> row.at] \in out
Honest(out, a, row) ==
    row.status = "CONFIRMED" =>
       /\ row.staffReminded => Told(out, "staff_reminder", a, row)
       /\ row.mailReminded => Told(out, "mail_reminder", a, row)
       /\ row.whatsappReminded => Told(out, "whatsapp_reminder", a, row)

HonestInv ==
    /\ \A a \in Appts : Honest(sent, a, appt[a])
    /\ \A r \in Requests : pc[r] \in Holding => Honest(sent, mine[r], mind[r])

LEMMA SentStays ==
    ASSUME NEW r \in Requests, RowStep(r)
    PROVE  sent \subseteq sent'
  BY DEF RowStep, BeginsNew, BeginsOn, LooksAgain, ChasesUp, ChangesDate, CallsOff, Flushes, Reminds, Writes,
         Leaves, Send, letters

\* A row that differs from an honest one by its outcome, by marks just earned
\* or by being cancelled is honest.
LEMMA HonestRow ==
    ASSUME NEW out, NEW more, out \subseteq more, NEW a, NEW old, NEW row, Honest(out, a, old),
           row.at = old.at, row.status \in {old.status, "CANCELLED"},
           row.staffReminded => old.staffReminded \/ Told(more, "staff_reminder", a, row),
           row.mailReminded => old.mailReminded \/ Told(more, "mail_reminder", a, row),
           row.whatsappReminded => old.whatsappReminded \/ Told(more, "whatsapp_reminder", a, row)
    PROVE  Honest(more, a, row)
  BY DEF Honest, Told

LEMMA HonestAs ==
    ASSUME NEW out, NEW more, out \subseteq more, NEW a, NEW old, NEW row, Honest(out, a, old),
           row.at = old.at, row.status \in {old.status, "CANCELLED"}, SameMarks(row, old)
    PROVE  Honest(more, a, row)
  BY HonestRow DEF SameMarks

LEMMA HonestHolder ==
    ASSUME ApptTypeOK, Working, HonestInv, CustomersOnly,
           NEW r \in Requests, Placed(r), Faithful(r), RowStep(r), pc'[r] \in Holding
    PROVE  Honest(sent', mine'[r], mind'[r])
<1> DEFINE old == mind[r]
           row == mind'[r]
<1>1. sent \subseteq sent'
  BY SentStays
<1>2. pc[r] \in Holding => Honest(sent, mine[r], old)
  BY DEF HonestInv
<1>3. ASSUME NEW label, Edits(r, label), pc[r] \in Holding
      PROVE  mine'[r] = mine[r] /\ Honest(sent, mine[r], old)
  BY <1>2, <1>3 DEF Edits
<1>4. CASE BeginsNew(r)
  BY <1>4 DEF BeginsNew, Honest, Unmarked
<1>5. ASSUME NEW a \in Appts, BeginsOn(r, a)
      PROVE  Honest(sent', mine'[r], row)
  <2>1. mine'[r] = a /\ Honest(sent, a, appt[a])
    BY <1>5 DEF BeginsOn, Starts, HonestInv
  <2>2. SameMarks(row, appt[a]) /\ row.at = appt[a].at /\ row.status \in {appt[a].status, "CANCELLED"}
    BY <1>5 DEF BeginsOn, CustomersOnly
  <2> QED
    BY <1>1, <2>1, <2>2, HonestAs
<1>6. ASSUME NEW a \in Appts, LooksAgain(r, a)
      PROVE  Honest(sent', mine'[r], row)
  <2>1. mine'[r] = a /\ Honest(sent, a, appt[a]) /\ row = appt[a]
    BY <1>6 DEF LooksAgain, Starts, HonestInv
  <2> QED
    BY <1>1, <2>1, HonestAs DEF SameMarks
<1>7. ASSUME NEW a \in Appts, ChasesUp(r, a)
      PROVE  Honest(sent', mine'[r], row)
  <2>1. mine'[r] = a /\ Honest(sent, a, appt[a])
    BY <1>7 DEF ChasesUp, Starts, HonestInv
  <2>2. row.at = appt[a].at /\ row.status = appt[a].status
    BY <1>7 DEF ChasesUp, ApptTypeOK, ApptData
  <2>3. SameMarks(row, appt[a])
    BY <1>7 DEF ChasesUp, ApptTypeOK, ApptData, SameMarks
  <2> QED
    BY <1>1, <2>1, <2>2, <2>3, HonestAs
<1>8. CASE ChangesDate(r)
  BY <1>8 DEF ChangesDate, Honest, Unmarked
<1>9. CASE CallsOff(r)
  BY <1>9 DEF CallsOff, Honest
<1>10. CASE Flushes(r)
  <2>1. mine'[r] = mine[r] /\ Honest(sent, mine[r], old)
    BY <1>3, <1>10 DEF Flushes, Holding
  <2> QED
    BY <1>1, <1>10, <2>1, HonestAs DEF Flushes
<1>11. ASSUME NEW staff \in BOOLEAN, NEW whatsapp \in BOOLEAN, NEW mail \in BOOLEAN,
              Reminds(r, staff, whatsapp, mail)
       PROVE  Honest(sent', mine'[r], row)
  <2>1. mine'[r] = mine[r] /\ Honest(sent, mine[r], old)
    BY <1>3, <1>11 DEF Reminds, Holding
  <2>2. row.at = old.at /\ row.status = old.status
    BY <1>11 DEF Reminds
  <2>3. /\ staff => Told(sent', "staff_reminder", mine[r], row)
        /\ whatsapp => Told(sent', "whatsapp_reminder", mine[r], row)
        /\ mail => Told(sent', "mail_reminder", mine[r], row)
    BY <1>11 DEF Reminds, Send, Note, Told
  <2>4. /\ row.staffReminded => old.staffReminded \/ Told(sent', "staff_reminder", mine[r], row)
        /\ row.mailReminded => old.mailReminded \/ Told(sent', "mail_reminder", mine[r], row)
        /\ row.whatsappReminded => old.whatsappReminded \/ Told(sent', "whatsapp_reminder", mine[r], row)
    BY <1>11, <2>3 DEF Reminds
  <2> QED
    BY <1>1, <2>1, <2>2, <2>4, HonestRow
<1>12. ~ (Writes(r) \/ Leaves(r))
  BY DEF Writes, Leaves, Holding
<1> QED
  BY <1>4, <1>5, <1>6, <1>7, <1>8, <1>9, <1>10, <1>11, <1>12 DEF RowStep

LEMMA HonestStep ==
    ASSUME ApptTypeOK, Working, OneByOne, MaxOpen <= 1, CustomersOnly, HonestInv, [Next]_vars
    PROVE  HonestInv'
<1>1. ASSUME NEW r \in Requests, Act(r)
      PROVE  HonestInv'
  <2>1. RowStep(r) /\ Placed(r) /\ Faithful(r)
    BY <1>1, OneByOneStep DEF OneByOne
  <2>2. \A q \in Requests \ {r} : pc'[q] = pc[q] /\ pc[q] \notin Holding
    BY <1>1, OthersStay, NobodyElseIsOpen DEF SamePlace, OneByOne, Busy, Holding
  <2>3. ASSUME NEW a \in Appts
        PROVE  Honest(sent', a, appt'[a])
    <3>1. sent \subseteq sent' /\ Honest(sent, a, appt[a])
      BY <2>1, SentStays DEF HonestInv
    <3>2. CASE Writes(r)
      <4>1. mine[r] \in Appts /\ appt' = [appt EXCEPT ![mine[r]] = mind[r]]
        BY <2>1, <3>2, WrittenAsIs
      <4>2. Honest(sent, mine[r], mind[r])
        BY <3>2 DEF Writes, Holding, HonestInv
      <4>3. appt'[a] = IF a = mine[r] THEN mind[r] ELSE appt[a]
        BY <4>1 DEF ApptTypeOK
      <4> QED
        BY <3>1, <4>2, <4>3, HonestAs DEF SameMarks
    <3>3. CASE ~ Writes(r)
      <4>1. appt' = appt
        BY <2>1, <3>3 DEF RowStep, BeginsNew, BeginsOn, LooksAgain, ChasesUp, Starts, Edits, ChangesDate, CallsOff,
                  Flushes, Reminds, Leaves
      <4> QED
        BY <3>1, <4>1, HonestAs DEF SameMarks
    <3> QED
      BY <3>2, <3>3
  <2>4. ASSUME NEW q \in Requests, pc'[q] \in Holding
        PROVE  Honest(sent', mine'[q], mind'[q])
    <3>1. q = r
      BY <2>2, <2>4
    <3> QED
      BY <2>1, <2>4, <3>1, HonestHolder
  <2> QED
    BY <2>3, <2>4 DEF HonestInv
<1>2. CASE UNCHANGED <<appt, pc, session, letters>>
  BY <1>2 DEF HonestInv, session, letters
<1> QED
  BY <1>1, <1>2, ActOrNot

\* "Nouvelle date : les rappels de l'ancienne ne comptent plus"
\* (MarkedForThisDate), in a shop whose dates only the customers change, one
\* session at a time.  Two sessions at once break it (appt_stale_reminder).
THEOREM RemindersOfThisDate ==
    ASSUME MaxOpen <= 1, CustomersOnly
    PROVE  Spec => []MarkedForThisDate
<1>1. Init => ApptTypeOK /\ Working /\ OneByOne /\ HonestInv
  <2>1. Init => HonestInv
    BY DEF Init, HonestInv, Honest, NoAppt, Holding
  <2> QED
    BY <2>1, TypeInit, OneByOneInit
<1>2. ApptTypeOK /\ Working /\ OneByOne /\ HonestInv /\ [Next]_vars
        => ApptTypeOK' /\ Working' /\ OneByOne' /\ HonestInv'
  BY TypeStep, OneByOneNext, HonestStep
<1>3. HonestInv => MarkedForThisDate
  <2> SUFFICES ASSUME HonestInv
               PROVE  MarkedForThisDate
    OBVIOUS
  <2>1. ASSUME NEW a \in Appts, NEW kind, Told(sent, kind, a, appt[a])
        PROVE  \E m \in sent : m.kind = kind /\ m.appt = a /\ m.at = appt[a].at
    <3>1. [kind |-> kind, appt |-> a, at |-> appt[a].at] \in sent
      BY <2>1 DEF Told
    <3> QED
      BY <3>1
  <2>2. \A a \in Appts : Honest(sent, a, appt[a])
    BY DEF HonestInv
  <2> QED
    BY <2>1, <2>2 DEF Honest, MarkedForThisDate
<1> QED
  BY <1>1, <1>2, <1>3, PTL DEF Spec

-----------------------------------------------------------------------------
(* One followup.                                                           *)

SafeFollowUps == \A r \in Fragile : Role[r] \notin {"judge", "worker"}

Marks(r) ==
    LET row == appt[mine[r]] IN
    /\ pc[r] \in {"turn", "lost", "staff", "look", "told"} => mind[r].followedUp = row.followedUp
    /\ pc[r] = "flushed" /\ Role[r] # "judge" => mind[r].followedUp = row.followedUp
    /\ pc[r] \in {"flushed", "chased"} /\ row.followedUp => mind[r].followedUp

Remembered(a) ==
    FollowUpOf(a) \in sent =>
       \/ appt[a].followedUp
       \/ \E r \in Requests : pc[r] \in {"flushed", "chased"} /\ mine[r] = a /\ mind[r].followedUp

FollowUpInv ==
    /\ \A r \in Requests : Marks(r)
    /\ \A a \in Appts : Remembered(a)
    /\ \A m \in sent : m.kind = "followup" => m = FollowUpOf(m.appt)
    /\ FollowedUpOnce

LEMMA MarksStep ==
    ASSUME ApptTypeOK, Working, FollowUpInv, NEW r \in Requests, Placed(r), Faithful(r), RowStep(r),
           \A a \in Appts : Unborn(a)
    PROVE  Marks(r)'
<1>1. Marks(r)
  BY DEF FollowUpInv
<1>2. CASE BeginsNew(r)
  <2>1. ~ appt[r].followedUp
    BY <1>2 DEF BeginsNew, Unborn, NoAppt
  <2> QED
    BY <1>2, <2>1 DEF BeginsNew, Starts, Marks, ApptTypeOK, ApptData
<1>3. ASSUME NEW a \in Appts, BeginsOn(r, a)
      PROVE  Marks(r)'
  BY <1>3 DEF BeginsOn, Starts, Marks
<1>4. ASSUME NEW a \in Appts, LooksAgain(r, a)
      PROVE  Marks(r)'
  BY <1>4 DEF LooksAgain, Starts, Marks
<1>5. ASSUME NEW a \in Appts, ChasesUp(r, a)
      PROVE  Marks(r)'
  <2>1. mind'[r].followedUp
    BY <1>5 DEF ChasesUp, ApptTypeOK, ApptData
  <2> QED
    BY <1>5, <2>1 DEF ChasesUp, Starts, Marks
<1>6. CASE ChangesDate(r)
  BY <1>1, <1>6 DEF ChangesDate, Edits, Marks
<1>7. CASE CallsOff(r)
  BY <1>1, <1>7 DEF CallsOff, Edits, Marks
<1>8. CASE Flushes(r)
  <2>1. mind[r].followedUp \in BOOLEAN
    BY DEF ApptTypeOK, ApptData
  <2>2. pc[r] = "staff" /\ pc'[r] = "flushed" /\ mine'[r] = mine[r] /\ appt' = appt
    BY <1>8 DEF Flushes, Edits
  <2>3. mind'[r].followedUp = (mind[r].followedUp \/ FollowUpNow(r))
    BY <1>8 DEF Flushes
  <2>4. Role[r] # "judge" => ~ FollowUpNow(r)
    BY DEF FollowUpNow
  <2> QED
    BY <1>1, <2>1, <2>2, <2>3, <2>4 DEF Marks
<1>9. ASSUME NEW staff \in BOOLEAN, NEW whatsapp \in BOOLEAN, NEW mail \in BOOLEAN,
             Reminds(r, staff, whatsapp, mail)
      PROVE  Marks(r)'
  BY <1>1, <1>9 DEF Reminds, Edits, Marks
<1>10. CASE Writes(r) \/ Leaves(r)
  BY <1>10 DEF Writes, Leaves, Marks
<1> QED
  BY <1>2, <1>3, <1>4, <1>5, <1>6, <1>7, <1>8, <1>9, <1>10 DEF RowStep

\* The followup of a leaves in a step of r; and no other message is one.
Pursues(r, a) ==
    \/ Flushes(r) /\ FollowUpNow(r) /\ mine[r] = a
    \/ ChasesUp(r, a)
FollowUpsLeave(r, a) ==
    /\ FollowUpOf(a) \in sent' => FollowUpOf(a) \in sent \/ Pursues(r, a)
    /\ FollowUpOf(a) \in again' => FollowUpOf(a) \in again \/ (FollowUpOf(a) \in sent /\ Pursues(r, a))

LEMMA FollowUpLeaves ==
    ASSUME ApptTypeOK, Working, NEW r \in Requests, RowStep(r), NEW a \in Appts
    PROVE  FollowUpsLeave(r, a)
<1>1. FollowUpOf(a).kind = "followup" /\ FollowUpOf(a).appt = a
  BY DEF FollowUpOf
<1>2. ASSUME UNCHANGED letters
      PROVE  FollowUpsLeave(r, a)
  BY <1>2 DEF letters, FollowUpsLeave
<1>3. CASE BeginsNew(r) \/ ChangesDate(r) \/ CallsOff(r) \/ Leaves(r)
  BY <1>2, <1>3 DEF BeginsNew, ChangesDate, CallsOff, Leaves
<1>4. ASSUME NEW b \in Appts, BeginsOn(r, b) \/ LooksAgain(r, b)
      PROVE  FollowUpsLeave(r, a)
  BY <1>2, <1>4 DEF BeginsOn, LooksAgain
<1>5. CASE Flushes(r)
  <2>1. CASE FollowUpNow(r) /\ mine[r] = a
    <3>1. Pursues(r, a)
      BY <1>5, <2>1 DEF Pursues
    <3>2. Send({FollowUpOf(a)})
      BY <1>5, <2>1 DEF Flushes
    <3> QED
      BY <3>1, <3>2 DEF Send, FollowUpsLeave
  <2>2. CASE FollowUpNow(r) /\ mine[r] # a
    <3>1. Send({FollowUpOf(mine[r])})
      BY <1>5, <2>2 DEF Flushes
    <3>2. FollowUpOf(a) # FollowUpOf(mine[r])
      BY <2>2 DEF FollowUpOf
    <3> QED
      BY <3>1, <3>2 DEF Send, FollowUpsLeave
  <2>3. CASE ~ FollowUpNow(r)
    <3>1. Send({})
      BY <1>5, <2>3 DEF Flushes
    <3> QED
      BY <3>1 DEF Send, FollowUpsLeave
  <2> QED
    BY <2>1, <2>2, <2>3
<1>6. ASSUME NEW b \in Appts, ChasesUp(r, b)
      PROVE  FollowUpsLeave(r, a)
  <2>1. Send({FollowUpOf(b)})
    BY <1>6 DEF ChasesUp
  <2>2. CASE a = b
    BY <1>6, <2>1, <2>2 DEF Send, FollowUpsLeave, Pursues
  <2>3. CASE a # b
    <3>1. FollowUpOf(a) # FollowUpOf(b)
      BY <2>3 DEF FollowUpOf
    <3> QED
      BY <2>1, <3>1 DEF Send, FollowUpsLeave
  <2> QED
    BY <2>2, <2>3
<1>7. ASSUME NEW staff \in BOOLEAN, NEW whatsapp \in BOOLEAN, NEW mail \in BOOLEAN,
             Reminds(r, staff, whatsapp, mail)
      PROVE  FollowUpsLeave(r, a)
  <2>1. \A kind : Note(kind, r, mind[r]).kind = kind
    BY DEF Note
  <2>2. PICK messages :
          /\ messages = (IF staff THEN {Note("staff_reminder", r, mind[r])} ELSE {})
                \cup (IF whatsapp THEN {Note("whatsapp_reminder", r, mind[r])} ELSE {})
                \cup (IF mail THEN {Note("mail_reminder", r, mind[r])} ELSE {})
          /\ sent' = sent \cup messages
          /\ again' = again \cup (sent \cap messages)
    BY <1>7 DEF Reminds, Send
  <2>3. FollowUpOf(a) \notin messages
    BY <1>1, <2>1, <2>2
  <2> QED
    BY <2>2, <2>3 DEF FollowUpsLeave
<1>8. CASE Writes(r)
  <2>1. PICK messages \in SUBSET Message :
          /\ \A m \in messages : m.kind \in Announcements
          /\ sent' = sent \cup messages
          /\ again' = again \cup (sent \cap messages)
    BY <1>8 DEF Writes, Send
  <2>2. FollowUpOf(a) \notin messages
    BY <1>1, <2>1 DEF Announcements
  <2> QED
    BY <2>1, <2>2 DEF FollowUpsLeave
<1> QED
  BY <1>3, <1>4, <1>5, <1>6, <1>7, <1>8 DEF RowStep

LEMMA FollowUpMessage ==
    ASSUME ApptTypeOK, NEW r \in Requests, RowStep(r),
           \A m \in sent : m.kind = "followup" => m = FollowUpOf(m.appt)
    PROVE  \A m \in sent' : m.kind = "followup" => m = FollowUpOf(m.appt)
<1> DEFINE Shaped(out) == \A m \in out : m.kind = "followup" => m = FollowUpOf(m.appt)
<1>1. ASSUME NEW messages, sent' = sent \cup messages, Shaped(messages)
      PROVE  Shaped(sent')
  BY <1>1
<1>2. ASSUME UNCHANGED letters
      PROVE  Shaped(sent')
  BY <1>2 DEF letters
<1>3. CASE BeginsNew(r) \/ ChangesDate(r) \/ CallsOff(r) \/ Leaves(r)
  BY <1>2, <1>3 DEF BeginsNew, ChangesDate, CallsOff, Leaves
<1>4. ASSUME NEW b \in Appts, BeginsOn(r, b) \/ LooksAgain(r, b)
      PROVE  Shaped(sent')
  BY <1>2, <1>4 DEF BeginsOn, LooksAgain
<1>5. CASE Flushes(r)
  <2>1. sent' = sent \/ sent' = sent \cup {FollowUpOf(mine[r])}
    BY <1>5 DEF Flushes, Send
  <2> QED
    BY <2>1 DEF FollowUpOf
<1>6. ASSUME NEW b \in Appts, ChasesUp(r, b)
      PROVE  Shaped(sent')
  <2>1. sent' = sent \cup {FollowUpOf(b)}
    BY <1>6 DEF ChasesUp, Send
  <2> QED
    BY <2>1 DEF FollowUpOf
<1>7. ASSUME NEW staff \in BOOLEAN, NEW whatsapp \in BOOLEAN, NEW mail \in BOOLEAN,
             Reminds(r, staff, whatsapp, mail)
      PROVE  Shaped(sent')
  <2>1. \A kind : Note(kind, r, mind[r]).kind = kind
    BY DEF Note
  <2>2. sent' = sent \cup ((IF staff THEN {Note("staff_reminder", r, mind[r])} ELSE {})
                \cup (IF whatsapp THEN {Note("whatsapp_reminder", r, mind[r])} ELSE {})
                \cup (IF mail THEN {Note("mail_reminder", r, mind[r])} ELSE {}))
    BY <1>7 DEF Reminds, Send
  <2> QED
    BY <2>1, <2>2
<1>8. CASE Writes(r)
  <2>1. PICK messages \in SUBSET Message :
          (\A m \in messages : m.kind \in Announcements) /\ sent' = sent \cup messages
    BY <1>8 DEF Writes, Send
  <2> QED
    BY <1>1, <2>1 DEF Announcements
<1> QED
  BY <1>3, <1>4, <1>5, <1>6, <1>7, <1>8 DEF RowStep

LEMMA RememberedStep ==
    ASSUME ApptTypeOK, Working, OneByOne, MaxOpen <= 1, SafeFollowUps, FollowUpInv,
           NEW r \in Requests, Act(r), NEW a \in Appts
    PROVE  /\ Remembered(a)'
           /\ FollowUpOf(a) \notin again'
<1>1. RowStep(r) /\ Placed(r) /\ Faithful(r) /\ Marks(r) /\ Marks(r)'
  BY OneByOneStep, MarksStep DEF OneByOne, FollowUpInv
<1>2. \A q \in Requests \ {r} : pc[q] \notin Holding
  BY NobodyElseIsOpen DEF OneByOne, Busy, Holding
<1>3. FollowUpsLeave(r, a) /\ Remembered(a) /\ FollowUpOf(a) \notin again
  BY <1>1, FollowUpLeaves DEF FollowUpInv, FollowedUpOnce, FollowUpOf
<1>4. CASE Pursues(r, a)
  <2>1. pc[r] \in {"staff", "chase"} /\ ~ appt[a].followedUp
    BY <1>1, <1>4 DEF Pursues, Flushes, Edits, ChasesUp, FollowUpNow, FollowUpDue, Marks
  <2>2. FollowUpOf(a) \notin sent
    BY <1>2, <1>3, <2>1 DEF Remembered, Holding
  <2>3. pc'[r] \in {"flushed", "chased"} /\ mine'[r] = a /\ mind'[r].followedUp
    <3>1. CASE Flushes(r) /\ FollowUpNow(r) /\ mine[r] = a
      BY <3>1 DEF Flushes, Edits
    <3>2. CASE ChasesUp(r, a)
      <4>1. mind'[r].followedUp
        BY <3>2 DEF ChasesUp, ApptTypeOK, ApptData
      <4> QED
        BY <3>2, <4>1 DEF ChasesUp, Starts
    <3> QED
      BY <1>4, <3>1, <3>2 DEF Pursues
  <2> QED
    BY <1>3, <2>2, <2>3 DEF Remembered, FollowUpsLeave
<1>5. CASE ~ Pursues(r, a)
  <2>1. FollowUpOf(a) \notin again' /\ (FollowUpOf(a) \in sent' => FollowUpOf(a) \in sent)
    BY <1>3, <1>5 DEF FollowUpsLeave
  <2>2. ASSUME FollowUpOf(a) \in sent
        PROVE  appt'[a].followedUp \/ (pc'[r] \in {"flushed", "chased"} /\ mine'[r] = a /\ mind'[r].followedUp)
    <3>1. appt[a].followedUp \/ (pc[r] \in {"flushed", "chased"} /\ mine[r] = a /\ mind[r].followedUp)
      BY <1>2, <1>3, <2>2 DEF Remembered, Holding
    <3>2. CASE Writes(r)
      <4>1. mine[r] \in Appts /\ appt' = [appt EXCEPT ![mine[r]] = mind[r]]
        BY <1>1, <3>2, WrittenAsIs
      <4>2. appt'[a] = IF a = mine[r] THEN mind[r] ELSE appt[a]
        BY <4>1 DEF ApptTypeOK
      <4>3. a = mine[r] => mind[r].followedUp
        BY <1>1, <3>1, <3>2 DEF Writes, Marks
      <4> QED
        BY <3>1, <4>2, <4>3
    <3>3. CASE ~ Writes(r)
      <4>1. appt' = appt
        BY <1>1, <3>3 DEF RowStep, BeginsNew, BeginsOn, LooksAgain, ChasesUp, Starts, Edits, ChangesDate, CallsOff,
                  Flushes, Reminds, Leaves
      <4>2. ASSUME pc[r] \in {"flushed", "chased"}
            PROVE  appt[a].followedUp
        <5>1. Leaves(r)
          BY <1>1, <3>3, <4>2 DEF RowStep, BeginsNew, BeginsOn, LooksAgain, ChasesUp, Starts, Edits, ChangesDate,
                    CallsOff, Flushes, Reminds
        <5>2. r \in Fragile
          BY <4>2, <5>1 DEF Leaves, Holding
        <5>3. pc[r] = "flushed" /\ Role[r] # "judge"
          BY <1>1, <4>2, <5>2 DEF SafeFollowUps, Placed
        <5>4. mind[r].followedUp = appt[mine[r]].followedUp
          BY <1>1, <5>3 DEF Marks
        <5> QED
          BY <3>1, <5>4
      <4> QED
        BY <3>1, <4>1, <4>2
    <3> QED
      BY <3>2, <3>3
  <2> QED
    BY <2>1, <2>2 DEF Remembered
<1> QED
  BY <1>4, <1>5

LEMMA FollowUpStep ==
    ASSUME ApptTypeOK, Working, OneByOne, MaxOpen <= 1, SafeFollowUps, FollowUpInv, [Next]_vars
    PROVE  FollowUpInv'
<1>1. ASSUME NEW r \in Requests, Act(r)
      PROVE  FollowUpInv'
  <2>1. \A a \in Appts : Remembered(a)' /\ FollowUpOf(a) \notin again'
    BY <1>1, RememberedStep
  <2>2. Marks(r)'
    BY <1>1, OneByOneStep, MarksStep DEF OneByOne
  <2>3. ASSUME NEW q \in Requests \ {r}
        PROVE  Marks(q)'
    BY <1>1, OthersStay, NobodyElseIsOpen DEF SamePlace, OneByOne, Busy, Marks
  <2>4. \A m \in sent' : m.kind = "followup" => m = FollowUpOf(m.appt)
    BY <1>1, OneByOneStep, FollowUpMessage DEF FollowUpInv
  <2>5. FollowedUpOnce'
    <3> SUFFICES ASSUME NEW m \in again', m.kind = "followup"
                 PROVE  FALSE
      BY DEF FollowedUpOnce
    <3>1. m \in sent' /\ m \in Message
      BY <1>1, TypeStep DEF ApptTypeOK, Next, Act
    <3>2. m = FollowUpOf(m.appt) /\ m.appt \in Appts
      BY <2>4, <3>1 DEF Message
    <3> QED
      BY <2>1, <3>2
  <2> QED
    BY <2>1, <2>2, <2>3, <2>4, <2>5 DEF FollowUpInv
<1>2. CASE UNCHANGED <<appt, pc, session, letters>>
  <2>1. \A r \in Requests : Marks(r)'
    BY <1>2 DEF FollowUpInv, Marks, session
  <2>2. \A a \in Appts : Remembered(a)'
    BY <1>2 DEF FollowUpInv, Remembered, session, letters
  <2> QED
    BY <1>2, <2>1, <2>2 DEF FollowUpInv, FollowedUpOnce, letters
<1> QED
  BY <1>1, <1>2, ActOrNot

LEMMA FollowUpInit == Init => FollowUpInv
  BY DEF Init, FollowUpInv, Marks, Remembered, FollowedUpOnce

-----------------------------------------------------------------------------
(* One reminder of each kind for one date.                                 *)

NoMover == \A r \in Requests : Role[r] # "mover"
OneConfirmer == \A q, r \in Requests : Role[q] = "confirmer" /\ Role[r] = "confirmer" => q = r
SafeReminders == \A r \in Fragile : Role[r] # "worker"

Reminders == {"staff_reminder", "mail_reminder", "whatsapp_reminder"}
Marked(row, kind) ==
    /\ kind = "staff_reminder" => row.staffReminded
    /\ kind = "mail_reminder" => row.mailReminded
    /\ kind = "whatsapp_reminder" => row.whatsappReminded

\* A reminder that left is marked, if its date is that of the row; otherwise
\* the date has been changed.
Known(out, moved, a, row) ==
    \A m \in out : m.kind \in Reminders /\ m.appt = a =>
       /\ row.status # "NONE"
       /\ m.at = row.at => Marked(row, m.kind)
       /\ m.at # row.at => moved

DateMoved == \E c \in Requests : Role[c] = "confirmer" /\ pc[c] # "idle"
Reminding(a) == \E r \in Requests : pc[r] = "told" /\ mine[r] = a

ReminderInv ==
    /\ \A a \in Appts : Reminding(a) \/ Known(sent, DateMoved, a, appt[a])
    /\ \A r \in Requests : pc[r] \in Holding => Known(sent, DateMoved, mine[r], mind[r])
    /\ RemindedOnce

LEMMA KnownStill ==
    ASSUME NEW out, NEW more, NEW moved, NEW later, moved => later,
           NEW a, NEW old, NEW row, Known(out, moved, a, old),
           old.status # "NONE" => row.status # "NONE",
           row.at = old.at,
           \A kind \in Reminders : Marked(old, kind) => Marked(row, kind),
           \A m \in more : m.kind \in Reminders /\ m.appt = a =>
              m \in out \/ (row.status # "NONE" /\ m.at = row.at /\ Marked(row, m.kind))
    PROVE  Known(more, later, a, row)
  BY DEF Known

LEMMA KnownRow ==
    ASSUME NEW out, NEW more, NEW moved, NEW later, moved => later,
           NEW a, NEW row, Known(out, moved, a, row),
           \A m \in more : m.kind \in Reminders /\ m.appt = a => m \in out
    PROVE  Known(more, later, a, row)
  BY DEF Known

LEMMA SameMarked ==
    ASSUME NEW row, NEW old, SameMarks(row, old), NEW kind, Marked(old, kind)
    PROVE  Marked(row, kind)
  BY DEF SameMarks, Marked

\* The message m, a reminder, leaves in a step of r.
Warns(r, m) ==
    /\ pc[r] = "look" /\ pc'[r] = "told" /\ mine'[r] = mine[r] /\ appt' = appt
    /\ m.appt = mine[r] /\ m.at = mind[r].at /\ m.at = mind'[r].at
    /\ mind'[r].status # "NONE"
    /\ ~ Marked(mind[r], m.kind) /\ Marked(mind'[r], m.kind)
RemindersLeave(r) ==
    /\ \A m \in sent' : m.kind \in Reminders => m \in sent \/ Warns(r, m)
    /\ \A m \in again' : m.kind \in Reminders => m \in again \/ (m \in sent /\ Warns(r, m))

LEMMA ReminderLeaves ==
    ASSUME ApptTypeOK, Working, NEW r \in Requests, RowStep(r)
    PROVE  RemindersLeave(r)
<1>1. ASSUME NEW messages, sent' = sent \cup messages, again' = again \cup (sent \cap messages),
             \A m \in messages : m.kind \in Reminders => Warns(r, m)
      PROVE  RemindersLeave(r)
  BY <1>1 DEF RemindersLeave
<1>2. ASSUME UNCHANGED letters
      PROVE  RemindersLeave(r)
  BY <1>2 DEF letters, RemindersLeave
<1>3. CASE BeginsNew(r) \/ ChangesDate(r) \/ CallsOff(r) \/ Leaves(r)
  BY <1>2, <1>3 DEF BeginsNew, ChangesDate, CallsOff, Leaves
<1>4. ASSUME NEW b \in Appts, BeginsOn(r, b) \/ LooksAgain(r, b)
      PROVE  RemindersLeave(r)
  BY <1>2, <1>4 DEF BeginsOn, LooksAgain
<1>5. CASE Flushes(r)
  <2>1. PICK messages :
          /\ sent' = sent \cup messages
          /\ again' = again \cup (sent \cap messages)
          /\ messages = IF FollowUpNow(r) THEN {FollowUpOf(mine[r])} ELSE {}
    BY <1>5 DEF Flushes, Send
  <2>2. \A m \in messages : m.kind = "followup"
    BY <2>1 DEF FollowUpOf
  <2> QED
    BY <2>1, <2>2, <1>1 DEF Reminders
<1>6. ASSUME NEW b \in Appts, ChasesUp(r, b)
      PROVE  RemindersLeave(r)
  <2>1. PICK messages :
          /\ sent' = sent \cup messages
          /\ again' = again \cup (sent \cap messages)
          /\ messages = {FollowUpOf(b)}
    BY <1>6 DEF ChasesUp, Send
  <2>2. \A m \in messages : m.kind = "followup"
    BY <2>1 DEF FollowUpOf
  <2> QED
    BY <2>1, <2>2, <1>1 DEF Reminders
<1>7. ASSUME NEW staff \in BOOLEAN, NEW whatsapp \in BOOLEAN, NEW mail \in BOOLEAN,
             Reminds(r, staff, whatsapp, mail)
      PROVE  RemindersLeave(r)
  <2>1. PICK messages :
          /\ messages = (IF staff THEN {Note("staff_reminder", r, mind[r])} ELSE {})
                \cup (IF whatsapp THEN {Note("whatsapp_reminder", r, mind[r])} ELSE {})
                \cup (IF mail THEN {Note("mail_reminder", r, mind[r])} ELSE {})
          /\ sent' = sent \cup messages
          /\ again' = again \cup (sent \cap messages)
    BY <1>7 DEF Reminds, Send
  <2>2. ASSUME NEW m \in messages
        PROVE  Warns(r, m)
    <3>1. /\ pc[r] = "look" /\ pc'[r] = "told" /\ mine'[r] = mine[r] /\ appt' = appt
          /\ mind'[r].at = mind[r].at
      BY <1>7 DEF Reminds, Edits
    <3>2. \/ staff /\ m = Note("staff_reminder", r, mind[r])
          \/ whatsapp /\ m = Note("whatsapp_reminder", r, mind[r])
          \/ mail /\ m = Note("mail_reminder", r, mind[r])
      BY <2>1
    <3>3. m.appt = mine[r] /\ m.at = mind[r].at
      BY <3>2 DEF Note
    <3>4. mind'[r].status # "NONE"
      BY <1>7, <3>2 DEF Reminds
    <3>5. \/ staff /\ m.kind = "staff_reminder"
          \/ whatsapp /\ m.kind = "whatsapp_reminder"
          \/ mail /\ m.kind = "mail_reminder"
      BY <3>2 DEF Note
    <3>6. ~ Marked(mind[r], m.kind) /\ Marked(mind'[r], m.kind)
      BY <1>7, <3>5 DEF Reminds, Marked
    <3> QED
      BY <3>1, <3>3, <3>4, <3>6 DEF Warns
  <2> QED
    BY <1>1, <2>1, <2>2
<1>8. CASE Writes(r)
  <2>1. PICK messages \in SUBSET Message :
          /\ \A m \in messages : m.kind \in Announcements
          /\ sent' = sent \cup messages
          /\ again' = again \cup (sent \cap messages)
    BY <1>8 DEF Writes, Send
  <2> QED
    BY <1>1, <2>1 DEF Announcements, Reminders
<1> QED
  BY <1>3, <1>4, <1>5, <1>6, <1>7, <1>8 DEF RowStep

\* What is known of the rows when nobody is between a reminder and its commit.
LEMMA KnownAtRest ==
    ASSUME ReminderInv, NEW r \in Requests, pc[r] # "told",
           \A q \in Requests \ {r} : pc[q] \notin Busy,
           NEW a \in Appts
    PROVE  Known(sent, DateMoved, a, appt[a])
  BY DEF ReminderInv, Reminding, Busy

LEMMA DateMovedStays ==
    ASSUME NEW r \in Requests, RowStep(r), \A q \in Requests \ {r} : pc'[q] = pc[q], DateMoved
    PROVE  DateMoved'
<1>1. PICK c \in Requests : Role[c] = "confirmer" /\ pc[c] # "idle"
  BY DEF DateMoved
<1>2. Role[r] = "confirmer" => pc'[r] # "idle"
  BY DEF RowStep, BeginsNew, BeginsOn, LooksAgain, ChasesUp, Starts, Edits, ChangesDate, CallsOff,
         Flushes, Reminds, Writes, Leaves
<1> QED
  BY <1>1, <1>2 DEF DateMoved

LEMMA KnownHolder ==
    ASSUME ApptTypeOK, Working, ReminderInv, NoMover, OneConfirmer,
           NEW r \in Requests, Faithful(r), RowStep(r), pc'[r] \in Holding,
           \A a \in Appts : Unborn(a),
           \A q \in Requests \ {r} : pc[q] \notin Busy /\ pc'[q] = pc[q]
    PROVE  Known(sent', DateMoved', mine'[r], mind'[r])
<1> DEFINE row == mind'[r]
<1>1. RemindersLeave(r) /\ (DateMoved => DateMoved')
  BY ReminderLeaves, DateMovedStays
<1>2. pc[r] # "look" => \A m \in sent' : m.kind \in Reminders => m \in sent
  BY <1>1 DEF RemindersLeave, Warns
<1>3. pc[r] # "told" => \A a \in Appts : Known(sent, DateMoved, a, appt[a])
  BY KnownAtRest
<1>4. pc[r] \in Holding => Known(sent, DateMoved, mine[r], mind[r])
  BY DEF ReminderInv
<1>5. ASSUME NEW a \in Appts, mine'[r] = a, pc[r] \notin {"told", "look"},
             row.at = appt[a].at, SameMarks(row, appt[a]), appt[a].status # "NONE" => row.status # "NONE"
      PROVE  Known(sent', DateMoved', mine'[r], row)
  <2>1. \A kind \in Reminders : Marked(appt[a], kind) => Marked(row, kind)
    BY <1>5, SameMarked
  <2>2. Known(sent, DateMoved, a, appt[a])
    BY <1>3, <1>5
  <2>3. Known(sent', DateMoved', a, row)
    BY <1>1, <1>2, <1>5, <2>1, <2>2, KnownStill
  <2> QED
    BY <1>5, <2>3
<1>6. ASSUME mine'[r] = mine[r], pc[r] \in {"lost", "staff"},
             row.at = mind[r].at, SameMarks(row, mind[r]), row.status # "NONE"
      PROVE  Known(sent', DateMoved', mine'[r], row)
  <2>1. \A kind \in Reminders : Marked(mind[r], kind) => Marked(row, kind)
    BY <1>6, SameMarked
  <2>2. Known(sent, DateMoved, mine[r], mind[r])
    BY <1>4, <1>6 DEF Holding
  <2>3. Known(sent', DateMoved', mine[r], row)
    BY <1>1, <1>2, <1>6, <2>1, <2>2, KnownStill
  <2> QED
    BY <1>6, <2>3
<1>7. CASE BeginsNew(r)
  <2>1. r \in Appts /\ mine'[r] = r /\ pc[r] = "idle" /\ UNCHANGED letters
    BY <1>7 DEF BeginsNew, Starts
  <2>2. appt[r].status = "NONE" /\ Known(sent, DateMoved, r, appt[r])
    BY <1>3, <2>1 DEF Unborn
  <2> QED
    BY <2>1, <2>2 DEF Known, letters
<1>8. ASSUME NEW a \in Appts, BeginsOn(r, a)
      PROVE  Known(sent', DateMoved', mine'[r], row)
  <2>1. mine'[r] = a /\ pc[r] = "idle" /\ pc'[r] \in {"lost", "staff"} /\ appt[a] \in ApptData
    BY <1>8 DEF BeginsOn, Starts, ApptTypeOK
  <2>2. CASE SameMarks(row, appt[a]) /\ row.at = appt[a].at /\ row.status \in {appt[a].status, "CANCELLED"}
    BY <1>5, <2>1, <2>2
  <2>3. ASSUME Role[r] = "confirmer", NEW s \in Slots, row = Confirmed(appt[a], s)
        PROVE  Known(sent', DateMoved', mine'[r], row)
    <3>1. row.status = "CONFIRMED" /\ row.at = s
      BY <2>1, <2>3, ConfirmedRow
    <3>2. ~ DateMoved
      BY <2>1, <2>3 DEF DateMoved, OneConfirmer
    <3>3. DateMoved'
      BY <2>1, <2>3 DEF DateMoved
    <3>4. \A m \in sent' : m.kind \in Reminders /\ m.appt = a =>
             m.at = appt[a].at /\ Marked(appt[a], m.kind)
      BY <1>2, <1>3, <2>1, <3>2 DEF Known
    <3>5. appt[a].at = s => SameMarks(row, appt[a])
      BY <2>1, <2>3, ConfirmedRow
    <3>6. \A m \in sent' : m.kind \in Reminders /\ m.appt = a /\ m.at = s => Marked(row, m.kind)
      BY <3>4, <3>5, SameMarked
    <3> QED
      BY <2>1, <3>1, <3>3, <3>6 DEF Known
  <2> QED
    BY <1>8, <2>2, <2>3 DEF BeginsOn
<1>9. ASSUME NEW a \in Appts, LooksAgain(r, a)
      PROVE  Known(sent', DateMoved', mine'[r], row)
  <2>1. mine'[r] = a /\ pc[r] = "run" /\ row = appt[a]
    BY <1>9 DEF LooksAgain, Starts
  <2> QED
    BY <1>5, <2>1 DEF SameMarks
<1>10. ASSUME NEW a \in Appts, ChasesUp(r, a)
       PROVE  Known(sent', DateMoved', mine'[r], row)
  <2>1. mine'[r] = a /\ pc[r] = "chase" /\ row = [appt[a] EXCEPT !.followedUp = TRUE] /\ appt[a] \in ApptData
    BY <1>10 DEF ChasesUp, Starts, ApptTypeOK
  <2>2. row.at = appt[a].at /\ row.status = appt[a].status
    BY <2>1 DEF ApptData
  <2>3. SameMarks(row, appt[a])
    BY <2>1 DEF ApptData, SameMarks
  <2> QED
    BY <1>5, <2>1, <2>2, <2>3
<1>11. ~ ChangesDate(r)
  BY DEF ChangesDate, NoMover
<1>12. CASE CallsOff(r)
  BY <1>6, <1>12 DEF CallsOff, Edits
<1>13. CASE Flushes(r)
  <2>1. mind[r].status # "NONE"
    BY <1>13 DEF Flushes, Faithful, Holding
  <2> QED
    BY <1>6, <1>13, <2>1 DEF Flushes, Edits
<1>14. ASSUME NEW staff \in BOOLEAN, NEW whatsapp \in BOOLEAN, NEW mail \in BOOLEAN,
              Reminds(r, staff, whatsapp, mail)
       PROVE  Known(sent', DateMoved', mine'[r], row)
  <2>1. pc[r] = "look" /\ mine'[r] = mine[r] /\ row.at = mind[r].at /\ row.status = mind[r].status
    BY <1>14 DEF Reminds, Edits
  <2>2. \A kind \in Reminders : Marked(mind[r], kind) => Marked(row, kind)
    BY <1>14 DEF Reminds, Marked
  <2>3. Known(sent, DateMoved, mine[r], mind[r])
    BY <1>4, <2>1 DEF Holding
  <2>4. \A m \in sent' : m.kind \in Reminders =>
           m \in sent \/ (row.status # "NONE" /\ m.at = row.at /\ Marked(row, m.kind))
    BY <1>1 DEF RemindersLeave, Warns
  <2>5. Known(sent', DateMoved', mine[r], row)
    BY <1>1, <2>1, <2>2, <2>3, <2>4, KnownStill
  <2> QED
    BY <2>1, <2>5
<1>15. ~ (Writes(r) \/ Leaves(r))
  BY DEF Writes, Leaves, Holding
<1> QED
  BY <1>7, <1>8, <1>9, <1>10, <1>11, <1>12, <1>13, <1>14, <1>15 DEF RowStep

LEMMA KnownRows ==
    ASSUME ApptTypeOK, Working, ReminderInv, SafeReminders,
           NEW r \in Requests, Placed(r), Faithful(r), RowStep(r),
           \A q \in Requests \ {r} : pc[q] \notin Busy /\ pc'[q] = pc[q] /\ mine'[q] = mine[q],
           NEW a \in Appts
    PROVE  Reminding(a)' \/ Known(sent', DateMoved', a, appt'[a])
<1>1. RemindersLeave(r) /\ (DateMoved => DateMoved')
  BY ReminderLeaves, DateMovedStays
<1>2. CASE Writes(r)
  <2>1. mine[r] \in Appts /\ appt' = [appt EXCEPT ![mine[r]] = mind[r]]
    BY <1>2, WrittenAsIs
  <2>2. \A m \in sent' : m.kind \in Reminders => m \in sent
    BY <1>1, <1>2 DEF Writes, RemindersLeave, Warns
  <2>3. CASE a = mine[r]
    <3>1. Known(sent, DateMoved, a, mind[r]) /\ appt'[a] = mind[r]
      BY <1>2, <2>1, <2>3 DEF Writes, Holding, ReminderInv, ApptTypeOK
    <3> QED
      BY <1>1, <2>2, <3>1, KnownRow
  <2>4. CASE a # mine[r]
    <3>1. Known(sent, DateMoved, a, appt[a]) /\ appt'[a] = appt[a]
      BY <2>1, <2>4 DEF ReminderInv, Reminding, Busy, ApptTypeOK
    <3> QED
      BY <1>1, <2>2, <3>1, KnownRow
  <2> QED
    BY <2>3, <2>4
<1>3. CASE ~ Writes(r)
  <2>1. appt' = appt /\ pc[r] # "told"
    <3>1. ~ Leaves(r) \/ pc[r] # "told"
      BY DEF Leaves, SafeReminders, Placed, Holding
    <3> QED
      BY <1>3, <3>1 DEF RowStep, BeginsNew, BeginsOn, LooksAgain, ChasesUp, Starts, Edits, ChangesDate, CallsOff,
                Flushes, Reminds, Leaves
  <2>2. Known(sent, DateMoved, a, appt[a])
    BY <2>1, KnownAtRest
  <2>3. CASE \E m \in sent' : Warns(r, m) /\ m.appt = a
    BY <2>3 DEF Reminding, Warns
  <2>4. CASE ~ \E m \in sent' : Warns(r, m) /\ m.appt = a
    <3>1. \A m \in sent' : m.kind \in Reminders /\ m.appt = a => m \in sent
      BY <1>1, <2>4 DEF RemindersLeave
    <3>2. Known(sent', DateMoved', a, appt[a])
      BY <1>1, <2>2, <3>1, KnownRow
    <3> QED
      BY <2>1, <3>2
  <2> QED
    BY <2>3, <2>4
<1> QED
  BY <1>2, <1>3

LEMMA ReminderStep ==
    ASSUME ApptTypeOK, Working, OneByOne, MaxOpen <= 1, NoMover, OneConfirmer, SafeReminders,
           ReminderInv, [Next]_vars
    PROVE  ReminderInv'
<1>1. ASSUME NEW r \in Requests, Act(r)
      PROVE  ReminderInv'
  <2>1. RowStep(r) /\ Placed(r) /\ Faithful(r) /\ \A a \in Appts : Unborn(a)
    BY <1>1, OneByOneStep DEF OneByOne
  <2>2. \A q \in Requests \ {r} : SamePlace(q) /\ pc[q] \notin Busy
    BY <1>1, OthersStay, NobodyElseIsOpen DEF OneByOne
  <2>3. \A a \in Appts : Reminding(a)' \/ Known(sent', DateMoved', a, appt'[a])
    BY <2>1, <2>2, KnownRows DEF SamePlace
  <2>4. ASSUME NEW q \in Requests, pc'[q] \in Holding
        PROVE  Known(sent', DateMoved', mine'[q], mind'[q])
    <3>1. q = r
      BY <2>2, <2>4 DEF SamePlace, Holding, Busy
    <3> QED
      BY <2>1, <2>2, <2>4, <3>1, KnownHolder DEF SamePlace
  <2>5. RemindedOnce'
    <3> SUFFICES ASSUME NEW m \in again', m.kind \in Reminders
                 PROVE  FALSE
      BY DEF RemindedOnce, Reminders
    <3>1. m \in sent /\ Warns(r, m)
      BY <2>1, ReminderLeaves DEF RemindersLeave, ReminderInv, RemindedOnce, Reminders
    <3>2. Known(sent, DateMoved, mine[r], mind[r])
      BY <3>1 DEF Warns, Holding, ReminderInv
    <3> QED
      BY <3>1, <3>2 DEF Warns, Known
  <2> QED
    BY <2>3, <2>4, <2>5 DEF ReminderInv
<1>2. CASE UNCHANGED <<appt, pc, session, letters>>
  BY <1>2 DEF ReminderInv, DateMoved, Reminding, RemindedOnce, session, letters
<1> QED
  BY <1>1, <1>2, ActOrNot

\* "jamais envoyé deux fois", "Relance, UNE seule fois" (WrittenToOnce): one
\* session at a time, no reminder of a date and no followup leaves twice, for
\* any number of worker runs.  What the theorem leaves out is what breaks it: a
\* process that dies between the message and the commit, a date changed twice
\* and back, and a customer's move to the date he already has.
THEOREM OneReminderOneFollowUp ==
    ASSUME MaxOpen <= 1, NoMover, OneConfirmer, SafeReminders, SafeFollowUps
    PROVE  Spec => []WrittenToOnce
<1> DEFINE Inv == ApptTypeOK /\ Working /\ OneByOne /\ FollowUpInv /\ ReminderInv
<1>1. Init => Inv
  <2>1. Init => ReminderInv
    BY DEF Init, ReminderInv, Known, RemindedOnce
  <2> QED
    BY <2>1, TypeInit, OneByOneInit, FollowUpInit
<1>2. Inv /\ [Next]_vars => Inv'
  BY TypeStep, OneByOneNext, FollowUpStep, ReminderStep
<1>3. Inv => WrittenToOnce
  BY DEF FollowUpInv, ReminderInv, WrittenToOnce
<1> QED
  BY <1>1, <1>2, <1>3, PTL DEF Spec
=============================================================================
