--------------------------- MODULE AssistantOutbox --------------------------
(***************************************************************************)
(* What Bob writes to the merchant on WhatsApp, through Naomy: replies,    *)
(* the menu (two messages, the second after the first) and alerts about    *)
(* new orders and customers who wait.  Every minute, and after each        *)
(* message, a pass sends what is due and commits at its end; a daily limit *)
(* keeps its last places for alerts.                                       *)
(*                                                                         *)
(* One shop, one pass at a time.  A matter is an order, or "waits": the    *)
(* conversation that Bob has handed over.                                  *)
(***************************************************************************)
EXTENDS Integers, Sequences, FiniteSets, SequencesExt

CONSTANTS
    Sales,          \* the orders
    Cap, Reserve,   \* messages per day; those kept for alerts
    Retries,        \* attempts after the first
    BoxMax,         \* bound on the messages
    BoxDeaths       \* bound on the passes that die

ASSUME OutboxAssumption ==
    /\ Cap \in Nat /\ Reserve \in Nat /\ Reserve <= Cap /\ Retries \in Nat
    /\ BoxMax \in Nat /\ BoxDeaths \in Nat /\ "waits" \notin Sales

VARIABLES
    assistantOn,
    outbox,     \* the rows, in the order they were queued
    matter,     \* what the last 30 minutes brought: orders, photos that may prove a payment, handovers
    sendPass,   \* the pass under way: rows left to do, and what it has changed
    received,   \* the rows that Naomy accepted
    lately,     \* those of them of today
    boxDeaths

boxVars == <<assistantOn, outbox, matter, sendPass, received, lately, boxDeaths>>

Matters == Sales \cup {"waits"}
Item    == [kind : {"ALERT", "REPLY"}, about : Matters \cup {"none"}, after : 0..BoxMax,
            status : {"PENDING", "WAITING", "SENT", "UNSENT"},   \* UNSENT: EMAILED, FAILED or SKIPPED
            attempts : 0..Retries, wait : BOOLEAN, today : BOOLEAN, old : BOOLEAN]
NoSendPass == [on |-> FALSE, todo |-> {}, done |-> <<>>]

Queued(kind, about, after) ==
    [kind |-> kind, about |-> about, after |-> after, status |-> IF after = 0 THEN "PENDING" ELSE "WAITING",
     attempts |-> 0, wait |-> FALSE, today |-> FALSE, old |-> FALSE]

BoxInit ==
    /\ assistantOn = TRUE
    /\ outbox = <<>> /\ received = {} /\ lately = {}
    /\ matter = {}
    /\ sendPass = NoSendPass
    /\ boxDeaths = 0

-----------------------------------------------------------------------------
(* What is queued.                                                         *)

QueueReply ==
    /\ assistantOn /\ Len(outbox) < BoxMax
    /\ outbox' = Append(outbox, Queued("REPLY", "none", 0))
    /\ UNCHANGED <<assistantOn, matter, sendPass, received, lately, boxDeaths>>

SendMenu ==
    /\ assistantOn /\ Len(outbox) + 2 <= BoxMax
    /\ outbox' = outbox \o <<Queued("REPLY", "none", 0), Queued("REPLY", "none", Len(outbox) + 1)>>
    /\ UNCHANGED <<assistantOn, matter, sendPass, received, lately, boxDeaths>>

AlertsOf(m) == {i \in DOMAIN outbox : outbox[i].kind = "ALERT" /\ outbox[i].about = m}

\* An order is announced once; a customer who waits, once in 12 hours.
AlertExists(m) == \E i \in AlertsOf(m) : m = "waits" => ~outbox[i].old

ScanAlerts ==
    LET new == {m \in matter : ~AlertExists(m)}
        order == SetToSeq(new) IN
    /\ assistantOn /\ new # {} /\ Len(outbox) + Cardinality(new) <= BoxMax
    /\ outbox' = outbox \o [k \in DOMAIN order |-> Queued("ALERT", order[k], 0)]
    /\ UNCHANGED <<assistantOn, matter, sendPass, received, lately, boxDeaths>>

-----------------------------------------------------------------------------
(* A pass.                                                                 *)

Due(box) == {i \in DOMAIN box : box[i].status = "PENDING" /\ ~box[i].wait}

\* Alerts before replies, then the oldest first.
Before(j, i) == IF outbox[j].kind = outbox[i].kind THEN j < i ELSE outbox[j].kind = "ALERT"

BeginSending ==
    /\ ~sendPass.on /\ Due(outbox) # {}
    /\ sendPass' = [on |-> TRUE, todo |-> Due(outbox), done |-> <<>>]
    /\ UNCHANGED <<assistantOn, outbox, matter, received, lately, boxDeaths>>

\* Faulty variant: only what was committed is counted.
SentTodayCommitted == Cardinality({i \in DOMAIN outbox : outbox[i].status = "SENT" /\ outbox[i].today})

SentToday ==
    LET here == {k \in DOMAIN sendPass.done : sendPass.done[k].status = "SENT"}
    IN Cardinality({i \in DOMAIN outbox : outbox[i].status = "SENT" /\ outbox[i].today}) + Cardinality(here)

RoomFor(row) == SentToday < (IF row.kind = "ALERT" THEN Cap ELSE Cap - Reserve)

GiveUp(row) == [row EXCEPT !.status = "UNSENT", !.attempts = 0]

\* Faulty variant: one attempt more.
OutcomeOneMore(row, answer) ==
    IF ~assistantOn \/ ~RoomFor(row) THEN GiveUp(row)
    ELSE IF answer = "taken" THEN [row EXCEPT !.status = "SENT", !.today = TRUE, !.attempts = 0]
    ELSE IF answer = "refused" \/ row.attempts > Retries THEN GiveUp(row)
    ELSE [row EXCEPT !.wait = TRUE, !.attempts = @ + 1]

\* What becomes of a row: Naomy takes it, refuses it, or does not answer.  An
\* alert given up is e-mailed, a reply is not.
Outcome(row, answer) ==
    IF ~assistantOn \/ ~RoomFor(row) THEN GiveUp(row)
    ELSE IF answer = "taken" THEN [row EXCEPT !.status = "SENT", !.today = TRUE, !.attempts = 0]
    ELSE IF answer = "refused" \/ row.attempts = Retries THEN GiveUp(row)
    ELSE [row EXCEPT !.wait = TRUE, !.attempts = @ + 1]

Doing(i, row) == [j \in DOMAIN sendPass.done \cup {i} |-> IF j = i THEN row ELSE sendPass.done[j]]

SendOne(i, answer) ==
    LET row == Outcome(outbox[i], answer) IN
    /\ sendPass.on /\ i \in sendPass.todo /\ ~\E j \in sendPass.todo : Before(j, i)
    /\ sendPass' = [sendPass EXCEPT !.todo = @ \ {i}, !.done = Doing(i, row)]
    /\ LET took == IF row.status = "SENT" THEN {i} ELSE {} IN
       received' = received \cup took /\ lately' = lately \cup took
    /\ UNCHANGED <<assistantOn, outbox, matter, boxDeaths>>

\* What the pass made of a row.
AfterPass(i) == IF i \in DOMAIN sendPass.done THEN sendPass.done[i] ELSE outbox[i]

\* A row that waited for another is due when that one left, and given up when
\* it never will.
Released(i) ==
    LET first == AfterPass(outbox[i].after).status IN
    IF outbox[i].status = "WAITING" /\ first \in {"SENT", "UNSENT"}
    THEN [outbox[i] EXCEPT !.status = IF first = "SENT" THEN "PENDING" ELSE "UNSENT"]
    ELSE AfterPass(i)

Committed == [i \in DOMAIN outbox |-> Released(i)]

\* Whatever was released is sent at once, by a pass of its own.
EndSending ==
    LET released == \E i \in DOMAIN outbox : outbox[i].status = "WAITING" /\ Committed[i].status = "PENDING" IN
    /\ sendPass.on /\ sendPass.todo = {}
    /\ outbox' = Committed
    /\ sendPass' = IF released THEN [NoSendPass EXCEPT !.on = TRUE, !.todo = Due(Committed)] ELSE NoSendPass
    /\ UNCHANGED <<assistantOn, matter, received, lately, boxDeaths>>

SendingDies ==
    /\ sendPass.on /\ boxDeaths < BoxDeaths
    /\ sendPass' = NoSendPass /\ boxDeaths' = boxDeaths + 1
    /\ UNCHANGED <<assistantOn, outbox, matter, received, lately>>

-----------------------------------------------------------------------------
(* Around it.                                                              *)

\* An order comes, its customer sends a photo, or one is handed over; it is
\* settled, or time goes.
Happens(m) ==
    /\ m \notin matter /\ matter' = matter \cup {m}
    /\ UNCHANGED <<assistantOn, outbox, sendPass, received, lately, boxDeaths>>

Passes(m) ==
    /\ m \in matter /\ matter' = matter \ {m}
    /\ UNCHANGED <<assistantOn, outbox, sendPass, received, lately, boxDeaths>>

\* Switched off, or on again: what happened before is not announced.
SwitchAssistant ==
    /\ assistantOn' = ~assistantOn /\ matter' = {}
    /\ UNCHANGED <<outbox, sendPass, received, lately, boxDeaths>>

Waited(box) == [i \in DOMAIN box |-> [box[i] EXCEPT !.wait = FALSE]]

MinutesGo ==
    /\ ~sendPass.on /\ \E i \in DOMAIN outbox : outbox[i].wait
    /\ outbox' = Waited(outbox)
    /\ UNCHANGED <<assistantOn, matter, sendPass, received, lately, boxDeaths>>

NightFalls ==
    /\ ~sendPass.on
    /\ outbox' = [i \in DOMAIN outbox |-> [Waited(outbox)[i] EXCEPT !.old = outbox[i].about = "waits", !.today = FALSE]]
    /\ matter' = {} /\ lately' = {}
    /\ UNCHANGED <<assistantOn, sendPass, received, boxDeaths>>

BoxNext ==
    \/ QueueReply \/ SendMenu \/ ScanAlerts
    \/ BeginSending \/ EndSending \/ SendingDies
    \/ \E i \in DOMAIN outbox, answer \in {"taken", "refused", "silence"} : SendOne(i, answer)
    \/ \E m \in Matters : Happens(m) \/ Passes(m)
    \/ SwitchAssistant \/ MinutesGo \/ NightFalls

BoxSpec == BoxInit /\ [][BoxNext]_boxVars

-----------------------------------------------------------------------------
(* Properties.                                                             *)

BoxTypeOK ==
    /\ outbox \in Seq(Item) /\ Len(outbox) <= BoxMax
    /\ \A i \in DOMAIN outbox : outbox[i].after < i
    /\ sendPass.todo \cup DOMAIN sendPass.done \subseteq DOMAIN outbox
    /\ lately \subseteq received /\ received \subseteq DOMAIN outbox /\ boxDeaths \in 0..BoxDeaths

\* "30 messages par boutique et par jour au plus", of which the last are kept
\* for the alerts, however many retries and followers a pass sends: but for
\* the passes that died before they wrote down what had left.
RoomForAlerts ==
    boxDeaths = 0 => /\ Cardinality(lately) <= Cap
                     /\ Cardinality({i \in lately : outbox[i].kind = "REPLY"}) <= Cap - Reserve

\* "Le 2e part seulement après la réponse 200 de Naomy au 1er", even when a
\* pass dies and all is sent again.
MenuInOrder == \A i \in received : outbox[i].after # 0 => outbox[i].after \in received

\* One alert for an order; one at a time for a customer who waits.
OneAlertPerMatter ==
    /\ \A o \in Sales : Cardinality(AlertsOf(o)) <= 1
    /\ Cardinality({i \in AlertsOf("waits") : ~outbox[i].old}) <= 1

\* What waits for a message waits for one that may still leave: when it is
\* given up or e-mailed instead, so is what follows.
NoneWaitsForEver ==
    \A i \in DOMAIN outbox : outbox[i].status = "WAITING" => outbox[outbox[i].after].status = "PENDING"

\* What the outbox keeps, message after message and pass after pass.
OutboxRight == RoomForAlerts /\ MenuInOrder /\ OneAlertPerMatter /\ NoneWaitsForEver
=============================================================================
