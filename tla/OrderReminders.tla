--------------------------- MODULE OrderReminders ---------------------------
(***************************************************************************)
(* Bob reminds the customers of an online shop of their unpaid orders: two *)
(* reminders at most, by a worker that lists the pending orders once, then *)
(* sends and commits one by one, in one session.                           *)
(*                                                                         *)
(* The orders are as the list loaded them; what the customer wrote is read *)
(* again for each order; the conversation is read again too, unless the    *)
(* session holds it already (an earlier order of the same customer).  One  *)
(* unit of time is twelve hours, and a run takes less than that.           *)
(***************************************************************************)
EXTENDS Integers, FiniteSets, Sequences

CONSTANTS
    Orders, Buyer,      \* [Orders -> the customer]
    FirstAfter, FirstUntil, SecondAfter, SecondUntil, MinGap,
    RemHorizon,         \* bound on the time
    RemDeaths           \* bound on the runs that die

ASSUME ReminderAssumption ==
    /\ {FirstAfter, FirstUntil, SecondAfter, SecondUntil, MinGap} \subseteq Int
    /\ RemHorizon \in Nat /\ RemDeaths \in Nat

Buyers == {Buyer[o] : o \in Orders}

VARIABLES
    hour,      \* the time
    order,     \* [Orders -> committed row]
    talk,      \* [Buyers -> the conversation and what is known of the customer]
    run,       \* the worker's run: its time, rows as loaded, orders to do, place
    told,      \* [Orders -> the reminders that left, in order]
    settled,   \* [Orders -> when it was paid or cancelled]
    deaths     \* runs that died

remVars == <<hour, order, talk, run, told, settled, deaths>>

NotYet == -1   \* a date that is null

OrderRow == [status : {"NONE", "PENDING", "SETTLED"}, at : Int, reminders_sent : 0..2, last_reminder_at : Int]
Talk     == [human : BOOLEAN, wrote : Int]
NoRun    == [at |-> NotYet, rows |-> <<>>, todo |-> {}, known |-> <<>>, sending |-> {}]

RemInit ==
    /\ hour = 0
    /\ order = [o \in Orders |-> [status |-> "NONE", at |-> NotYet, reminders_sent |-> 0, last_reminder_at |-> NotYet]]
    /\ talk = [c \in Buyers |-> [human |-> FALSE, wrote |-> NotYet]]
    /\ run = NoRun
    /\ told = [o \in Orders |-> <<>>]
    /\ settled = [o \in Orders |-> NotYet]
    /\ deaths = 0

-----------------------------------------------------------------------------
(* What the worker decides.                                                *)

\* The reminder to send now, or 0.
DueStep(row, now) ==
    LET age == now - row.at IN
    IF row.status # "PENDING" THEN 0
    ELSE IF row.reminders_sent = 0 /\ FirstAfter <= age /\ age < FirstUntil THEN 1
    ELSE IF /\ row.reminders_sent = 1
            /\ SecondAfter <= age /\ age < SecondUntil
            /\ row.last_reminder_at = NotYet \/ now - row.last_reminder_at >= MinGap
         THEN 2
    ELSE 0

Listed(now) ==
    {o \in Orders : /\ order[o].status = "PENDING" /\ order[o].reminders_sent < 2
                    /\ order[o].at >= now - SecondUntil /\ order[o].at <= now - FirstAfter}

\* A message in the minutes after the order is a thank you.
CustomerWrote(o) == talk[Buyer[o]].wrote > order[o].at

\* The conversation the session holds, or loads now.
AsSeen(c) == IF c \in DOMAIN run.known THEN run.known[c] ELSE talk[c].human

Seeing(c) == [d \in DOMAIN run.known \cup {c} |-> AsSeen(d)]

StopReason(o) == AsSeen(Buyer[o]) \/ CustomerWrote(o)

\* WhatsApp (within 20 hours of his last message, or a template); else an email, if
\* he has one and still wants them, which may fail; else nothing, but it counts.
Channels == {"WHATSAPP", "EMAIL", "FAILED", "NONE"}

NextUp(o) == o \in run.todo /\ \A p \in run.todo : run.rows[o].at <= run.rows[p].at

-----------------------------------------------------------------------------
(* The worker.                                                             *)

StartReminders ==
    /\ run = NoRun
    /\ LET due == Listed(hour) IN
       /\ due # {}
       /\ run' = [NoRun EXCEPT !.at = hour, !.rows = [o \in due |-> order[o]], !.todo = due]
    /\ UNCHANGED <<hour, order, talk, told, settled, deaths>>

\* Not due, or the customer wrote or waits for a human.
SkipOrder(o) ==
    /\ run.sending = {} /\ NextUp(o)
    /\ LET due == DueStep(run.rows[o], run.at) > 0 IN
       /\ ~due \/ StopReason(o)
       /\ run' = [run EXCEPT !.todo = @ \ {o}, !.known = IF due THEN Seeing(Buyer[o]) ELSE @]
    /\ UNCHANGED <<hour, order, talk, told, settled, deaths>>

\* The message leaves; an email that fails is tried again by a later run.
Remind(o, channel) ==
    /\ run.sending = {} /\ NextUp(o)
    /\ DueStep(run.rows[o], run.at) > 0 /\ ~StopReason(o)
    /\ channel \in Channels
    /\ run' = [run EXCEPT !.todo = @ \ {o}, !.known = Seeing(Buyer[o]),
                          !.sending = IF channel = "FAILED" THEN {} ELSE {o}]
    /\ told' = IF channel \in {"WHATSAPP", "EMAIL"}
               THEN [told EXCEPT ![o] = Append(@, [step |-> DueStep(run.rows[o], run.at), at |-> run.at])]
               ELSE told
    /\ UNCHANGED <<hour, order, talk, settled, deaths>>

\* Faulty variant: the row as loaded is written back whole.
RecordWholeRow(o) ==
    /\ o \in run.sending
    /\ order' = [order EXCEPT ![o] = [run.rows[o] EXCEPT
         !.reminders_sent = DueStep(run.rows[o], run.at), !.last_reminder_at = run.at]]
    /\ run' = [run EXCEPT !.sending = {}]
    /\ UNCHANGED <<hour, talk, told, settled, deaths>>

\* The columns that changed, on the row as it now is.
RecordReminder(o) ==
    /\ o \in run.sending
    /\ order' = [order EXCEPT ![o].reminders_sent = DueStep(run.rows[o], run.at), ![o].last_reminder_at = run.at]
    /\ run' = [run EXCEPT !.sending = {}]
    /\ UNCHANGED <<hour, talk, told, settled, deaths>>

EndReminders ==
    /\ run # NoRun /\ run.todo = {} /\ run.sending = {}
    /\ run' = NoRun
    /\ UNCHANGED <<hour, order, talk, told, settled, deaths>>

\* The process dies, or an order fails: the rollback expires every row of the
\* session, the next one read raises, and the shop's run is over.
BreakReminders ==
    /\ run # NoRun /\ deaths < RemDeaths
    /\ run' = NoRun
    /\ deaths' = deaths + 1
    /\ UNCHANGED <<hour, order, talk, told, settled>>

-----------------------------------------------------------------------------
(* The shop and its customers.                                             *)

PlaceOrder(o) ==
    /\ order[o].status = "NONE"
    /\ order' = [order EXCEPT ![o].status = "PENDING", ![o].at = hour]
    /\ UNCHANGED <<hour, talk, run, told, settled, deaths>>

\* Paid or cancelled.
SettleOrder(o) ==
    /\ order[o].status = "PENDING"
    /\ order' = [order EXCEPT ![o].status = "SETTLED"]
    /\ settled' = [settled EXCEPT ![o] = hour]
    /\ UNCHANGED <<hour, talk, run, told, deaths>>

CustomerSpeaks(c) ==
    /\ talk[c].wrote # hour
    /\ talk' = [talk EXCEPT ![c].wrote = hour]
    /\ UNCHANGED <<hour, order, run, told, settled, deaths>>

\* The conversation waits for a human, or the seller answered from his phone; or
\* Bob has it back.
HandsChange(c) ==
    /\ talk' = [talk EXCEPT ![c].human = ~@]
    /\ UNCHANGED <<hour, order, run, told, settled, deaths>>

HoursPass ==
    /\ run = NoRun /\ hour < RemHorizon
    /\ hour' = hour + 1
    /\ UNCHANGED <<order, talk, run, told, settled, deaths>>

RemWorks ==
    \/ StartReminders \/ EndReminders
    \/ \E o \in Orders : SkipOrder(o) \/ RecordReminder(o) \/ \E ch \in Channels : Remind(o, ch)

RemNext ==
    \/ RemWorks \/ BreakReminders \/ HoursPass
    \/ \E o \in Orders : PlaceOrder(o) \/ SettleOrder(o)
    \/ \E c \in Buyers : CustomerSpeaks(c) \/ HandsChange(c)

RemSpec == RemInit /\ [][RemNext]_remVars

-----------------------------------------------------------------------------
(* Properties.                                                             *)

\* Rows, conversations and the run are well formed.
RemTypeOK ==
    /\ order \in [Orders -> OrderRow] /\ talk \in [Buyers -> Talk]
    /\ run.todo \subseteq Orders /\ run.sending \subseteq Orders
    /\ DOMAIN run.known \subseteq Buyers
    /\ settled \in [Orders -> Int] /\ deaths \in 0..RemDeaths

\* An order gets at most two reminders, the second after the first and not too
\* soon, whatever the customer and the shop do in between; only a run that dies
\* between a message and its record may send that one again.
RemindersSpaced ==
    \A o \in Orders :
        /\ Len(told[o]) <= 2 + deaths
        /\ deaths = 0 => \A i, j \in DOMAIN told[o] :
             i < j => told[o][i].step < told[o][j].step /\ told[o][j].at >= told[o][i].at + MinGap

\* No reminder of an order that was paid or cancelled before the run began: a run
\* writes what it changed on a row, and never gives it back an old status.
NoReminderOnceSettled ==
    \A o \in Orders : settled[o] # NotYet => \A i \in DOMAIN told[o] : told[o][i].at <= settled[o]

\* What run_for_tenant owes the customers it writes to.
RemindersRight == RemindersSpaced /\ NoReminderOnceSettled
=============================================================================
