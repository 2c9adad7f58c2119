--------------------------- MODULE BillingNotices ---------------------------
(***************************************************************************)
(* A shop pays until a date that the platform sets and moves.  Hourly, a   *)
(* task sends the e-mail of the stage it has come to: some days before the *)
(* date (with the monthly report), the day of grace, the pause; another    *)
(* sends the report of the start of a month to shops without a date near.  *)
(* Both read every shop at their start and write down what they sent one   *)
(* shop after the other.  Whether Bob is paused is computed at each        *)
(* message.                                                                *)
(***************************************************************************)
EXTENDS Integers, Sequences, FiniteSets

CONSTANTS
    DueDates,       \* the dates "paid until" the platform may set
    GraceDays, WarningDays,
    NearDays,       \* the renewal is near: the report goes with its e-mail
    MonthDays,      \* length of a month, whose reports go out on its first day
    ReportGap,      \* days between two reports of a start of month
    Together,       \* tasks that may be under way together
    Deeds,          \* bound on the platform's changes of the date
    LastDay,        \* bound on the days
    BillingDeaths   \* bound on the tasks killed

ASSUME BillingAssumption ==
    /\ DueDates \subseteq Nat /\ GraceDays \in Nat /\ WarningDays \in Nat /\ NearDays \in Nat
    /\ MonthDays \in Nat \ {0} /\ ReportGap \in Nat /\ LastDay \in Nat
    /\ {Together, Deeds, BillingDeaths} \subseteq Nat

VARIABLES
    calendar,   \* the day
    shop,       \* the shop's row
    duty,       \* the two tasks: the row each read, and the stage it works on
    notices,    \* the e-mails sent, in order
    changes, ended

billVars == <<calendar, shop, duty, notices, changes, ended>>

NoDate  == -1
Nothing == "nothing"
Stages  == <<"WARNING", "GRACE", "PAUSED">>
Rank(stage) == IF stage = Nothing THEN 0 ELSE CHOOSE i \in DOMAIN Stages : Stages[i] = stage

ShopRow == [paidUntil : DueDates \cup {NoDate}, active : BOOLEAN,
         stage : {"WARNING", "GRACE", "PAUSED", Nothing}, noticeFor : DueDates \cup {NoDate},
         reportAt : 0..LastDay \cup {NoDate}]
NoDuty == [on |-> FALSE]
Tasks  == {"billing", "reports"}

BillInit ==
    /\ calendar = 0
    /\ shop = [paidUntil |-> NoDate, active |-> TRUE, stage |-> Nothing, noticeFor |-> NoDate, reportAt |-> NoDate]
    /\ duty = [t \in Tasks |-> NoDuty]
    /\ notices = <<>> /\ changes = 0 /\ ended = 0

-----------------------------------------------------------------------------
(* The rules.                                                              *)

PauseStartsOn(paidUntil) == paidUntil + GraceDays + 1

BillingStage(s, today) ==
    CASE s.paidUntil = NoDate                    -> Nothing
      [] s.paidUntil # NoDate /\ today >= PauseStartsOn(s.paidUntil) -> "PAUSED"
      [] s.paidUntil # NoDate /\ today > s.paidUntil /\ today < PauseStartsOn(s.paidUntil) -> "GRACE"
      [] s.paidUntil # NoDate /\ today \in (s.paidUntil - WarningDays)..s.paidUntil -> "WARNING"
      [] OTHER -> Nothing

\* The stage whose e-mail has not gone for this date.
NoticeDue(s, today) ==
    IF s.active /\ ~(s.noticeFor = s.paidUntil /\ Rank(s.stage) >= Rank(BillingStage(s, today)))
    THEN BillingStage(s, today) ELSE Nothing

MonthlyDue(s, today) ==
    /\ s.active /\ today % MonthDays = 0
    /\ s.paidUntil # NoDate => s.paidUntil - today > NearDays
    /\ s.reportAt = NoDate \/ today - s.reportAt >= ReportGap

-----------------------------------------------------------------------------
(* The two tasks.                                                          *)

StartTask(t) ==
    /\ ~duty[t].on /\ shop.active
    /\ Cardinality({u \in Tasks : duty[u].on}) < Together
    /\ duty' = [duty EXCEPT ![t] = [on |-> TRUE, read |-> shop, day |-> calendar, sent |-> 0]]
    /\ UNCHANGED <<calendar, shop, notices, changes, ended>>

Due(t) == IF t = "billing" THEN NoticeDue(duty[t].read, duty[t].day) # Nothing
                           ELSE MonthlyDue(duty[t].read, duty[t].day)

Mail(t) ==
    [stage |-> IF t = "billing" THEN NoticeDue(duty[t].read, duty[t].day) ELSE Nothing,
     date |-> duty[t].read.paidUntil, day |-> duty[t].day, noted |-> FALSE]

\* The e-mail goes, with the report when it is one, or nothing is written.
SendNotice(t) ==
    /\ duty[t].on /\ duty[t].sent = 0 /\ Due(t)
    /\ notices' = Append(notices, Mail(t))
    /\ duty' = [duty EXCEPT ![t].sent = Len(notices) + 1]
    /\ UNCHANGED <<calendar, shop, changes, ended>>

\* Faulty variant: the report sent with the e-mail of a renewal is not noted.
RecordStageOnly(t) ==
    LET mail == Mail(t) IN
    /\ duty[t].on /\ duty[t].sent # 0
    /\ shop' = [shop EXCEPT
           !.stage     = IF t = "billing" THEN mail.stage ELSE @,
           !.noticeFor = IF t = "billing" THEN mail.date ELSE @,
           !.reportAt  = IF t = "reports" THEN mail.day ELSE @]
    /\ duty' = [duty EXCEPT ![t] = NoDuty]
    /\ notices' = [notices EXCEPT ![duty[t].sent].noted = TRUE]
    /\ UNCHANGED <<calendar, changes, ended>>

\* Faulty variant: noted for the day of the pause, not for the date.
RecordForPause(t) ==
    LET mail == Mail(t) IN
    /\ duty[t].on /\ duty[t].sent # 0
    /\ shop' = [shop EXCEPT
           !.stage     = IF t = "billing" THEN mail.stage ELSE @,
           !.noticeFor = IF t = "billing" THEN PauseStartsOn(mail.date) ELSE @,
           !.reportAt  = IF t = "reports" \/ mail.stage = "WARNING" THEN mail.day ELSE @]
    /\ duty' = [duty EXCEPT ![t] = NoDuty]
    /\ notices' = [notices EXCEPT ![duty[t].sent].noted = TRUE]
    /\ UNCHANGED <<calendar, changes, ended>>

\* The columns the task changed are committed, for the date it read.
RecordNotice(t) ==
    LET mail == Mail(t) IN
    /\ duty[t].on /\ duty[t].sent # 0
    /\ shop' = [shop EXCEPT
           !.stage     = IF t = "billing" THEN mail.stage ELSE @,
           !.noticeFor = IF t = "billing" THEN mail.date ELSE @,
           !.reportAt  = IF t = "reports" \/ mail.stage = "WARNING" THEN mail.day ELSE @]
    /\ duty' = [duty EXCEPT ![t] = NoDuty]
    /\ notices' = [notices EXCEPT ![duty[t].sent].noted = TRUE]
    /\ UNCHANGED <<calendar, changes, ended>>

\* Nothing due, or the e-mail refused.
SkipShop(t) ==
    /\ duty[t].on /\ duty[t].sent = 0
    /\ duty' = [duty EXCEPT ![t] = NoDuty]
    /\ UNCHANGED <<calendar, shop, notices, changes, ended>>

TaskDies(t) ==
    /\ duty[t].on /\ ended < BillingDeaths
    /\ duty' = [duty EXCEPT ![t] = NoDuty] /\ ended' = ended + 1
    /\ UNCHANGED <<calendar, shop, notices, changes>>

-----------------------------------------------------------------------------
(* The platform, and time.                                                 *)

SetPaidUntil(date) ==
    /\ changes < Deeds /\ date # shop.paidUntil
    /\ shop' = [shop EXCEPT !.paidUntil = date] /\ changes' = changes + 1
    /\ UNCHANGED <<calendar, duty, notices, ended>>

SetActive ==
    /\ changes < Deeds /\ changes' = changes + 1
    /\ shop' = [shop EXCEPT !.active = ~@]
    /\ UNCHANGED <<calendar, duty, notices, ended>>

DayPasses ==
    /\ calendar < LastDay /\ calendar' = calendar + 1
    /\ UNCHANGED <<shop, duty, notices, changes, ended>>

BillNext ==
    \/ \E t \in Tasks : StartTask(t) \/ SendNotice(t) \/ RecordNotice(t) \/ SkipShop(t) \/ TaskDies(t)
    \/ \E date \in DueDates \cup {NoDate} : SetPaidUntil(date)
    \/ SetActive \/ DayPasses

BillSpec == BillInit /\ [][BillNext]_billVars

-----------------------------------------------------------------------------
(* Properties.                                                             *)

BillTypeOK ==
    /\ shop \in ShopRow /\ calendar \in 0..LastDay /\ changes \in 0..Deeds /\ ended \in 0..BillingDeaths
    /\ \A t \in Tasks : duty[t].on => duty[t].read \in ShopRow

ForDate(i) == notices[i].stage # Nothing /\ notices[i].noted

\* For a date the stages' e-mails go in order and none twice, until the
\* e-mail of another date has gone: whatever is set in the meantime, and
\* however late a task writes down what it sent.
StagesInOrder ==
    \A i, j \in DOMAIN notices :
        /\ i < j /\ ForDate(i) /\ ForDate(j) /\ notices[i].date = notices[j].date
        /\ \A k \in i..j : notices[k].stage # Nothing => notices[k].date = notices[i].date
        => Rank(notices[i].stage) < Rank(notices[j].stage)

\* The platform's customer hears once of his month: no report of a start of
\* month within the days that separate two of them, whichever task sent the
\* one before.
ReportsApart ==
    \A i, j \in DOMAIN notices :
        /\ i < j /\ notices[i].noted /\ notices[i].stage \in {Nothing, "WARNING"} /\ notices[j].stage = Nothing
        => notices[j].day - notices[i].day >= ReportGap

\* What check_billing and check_monthly_reports owe the shop, together.
NoticesRight == StagesInOrder /\ ReportsApart
=============================================================================
