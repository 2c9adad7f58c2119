---------------------------- MODULE GuidedDelivery ---------------------------
(***************************************************************************)
(* How the screens of a guided turn leave (guided_flow.py, deliver and     *)
(* resend_failed).  WhatsApp may refuse a screen at once, or take it and   *)
(* report later that it could not be delivered: a simpler version leaves,  *)
(* once.  The screens of a turn are written down when all have left.       *)
(*                                                                         *)
(* Every webhook is a session of its own: reports come in any order, twice *)
(* if Meta likes, while other turns are being sent.                        *)
(***************************************************************************)
EXTENDS Integers, Sequences, FiniteSets

CONSTANTS
    Sessions,      \* webhooks handled at the same time
    GuidedTurns,   \* the turns: sequences of forms of screens
    MaxTurns, MaxReports, SessionDeaths   \* bounds

VARIABLES
    leftMsgs,      \* what WhatsApp took: [form, from, noted, resent, failed, known]
    session,       \* [Sessions -> the screens to send, those it sent, the failed message it replaces]
    turnCount, reports, sessionDeaths,
    crossed        \* history: two sessions were at work at the same time

deliveryVars == <<leftMsgs, session, turnCount, reports, sessionDeaths, crossed>>

Forms == {"cards", "photo", "buttons", "list", "text"}
NoForm == "none"

ASSUME DeliveryAssumption == GuidedTurns \subseteq Seq(Forms)

\* The next version of a screen: the buttons stay as long as they can.
Degraded(form) == CASE form = "cards" -> "list"
                    [] form = "photo" -> "buttons"
                    [] form \in {"buttons", "list"} -> "text"
                    [] OTHER -> NoForm

AtRest == [at |-> "rest", todo |-> <<>>, mine |-> {}, for |-> 0]

DeliveryInit ==
    /\ leftMsgs = <<>>
    /\ session = [s \in Sessions |-> AtRest]
    /\ turnCount = 0 /\ reports = 0 /\ sessionDeaths = 0
    /\ crossed = FALSE

\* Session s sets to work, while another is at it or not.
Begins(s, job) ==
    /\ session' = [session EXCEPT ![s] = job]
    /\ crossed' = (crossed \/ \E o \in Sessions \ {s} : session[o].at # "rest")

AnswerTurn(s) == \E forms \in GuidedTurns :
    /\ session[s].at = "rest" /\ turnCount < MaxTurns
    /\ Begins(s, [at |-> "send", todo |-> forms, mine |-> {}, for |-> 0])
    /\ turnCount' = turnCount + 1
    /\ UNCHANGED <<leftMsgs, reports, sessionDeaths>>

\* WhatsApp takes the screen, or refuses it: its simpler version is next, or
\* the next screen when there is none.
SendGuided(s) ==
    LET j == session[s]
        form == Head(j.todo)
        next == Degraded(form) IN
    /\ j.at = "send" /\ j.todo # <<>>
    /\ \/ /\ leftMsgs' = Append(leftMsgs, [form |-> form, from |-> j.for, noted |-> FALSE, resent |-> FALSE,
                                           failed |-> FALSE, known |-> FALSE])
          /\ session' = [session EXCEPT ![s].todo = Tail(@), ![s].mine = @ \cup {Len(leftMsgs) + 1}]
       \/ /\ session' = [session EXCEPT ![s].todo = (IF next = NoForm THEN <<>> ELSE <<next>>) \o Tail(@)]
          /\ UNCHANGED leftMsgs
    /\ UNCHANGED <<turnCount, reports, sessionDeaths, crossed>>

\* The commit: its rows, and the mark of the message it replaces.
CommitScreens(s) ==
    LET j == session[s] IN
    /\ j.at = "send" /\ j.todo = <<>>
    /\ leftMsgs' = [k \in DOMAIN leftMsgs |->
                      [leftMsgs[k] EXCEPT !.noted = @ \/ k \in j.mine, !.resent = @ \/ k = j.for]]
    /\ session' = [session EXCEPT ![s] = AtRest]
    /\ UNCHANGED <<turnCount, reports, sessionDeaths, crossed>>

SessionDies(s) ==
    /\ session[s].at # "rest" /\ sessionDeaths < SessionDeaths
    /\ session' = [session EXCEPT ![s] = AtRest]
    /\ sessionDeaths' = sessionDeaths + 1
    /\ UNCHANGED <<leftMsgs, turnCount, reports, crossed>>

\* The message is known, has a simpler version, and was not replaced.
ToReplace(m) == m.noted /\ Degraded(m.form) # NoForm /\ ~m.resent

\* Meta reports that message k was not delivered.
ResendFailed(s, k) ==
    /\ session[s].at = "rest" /\ reports < MaxReports
    /\ reports' = reports + 1
    /\ leftMsgs' = [leftMsgs EXCEPT ![k].failed = TRUE, ![k].known = @ \/ leftMsgs[k].noted]
    /\ IF ToReplace(leftMsgs[k])
       THEN Begins(s, [at |-> "send", todo |-> <<Degraded(leftMsgs[k].form)>>, mine |-> {}, for |-> k])
       ELSE UNCHANGED <<session, crossed>>
    /\ UNCHANGED <<turnCount, sessionDeaths>>

DeliveryNext == \E s \in Sessions :
    \/ AnswerTurn(s) \/ SendGuided(s) \/ CommitScreens(s) \/ SessionDies(s)
    \/ \E k \in DOMAIN leftMsgs : ResendFailed(s, k)

DeliverySpec == DeliveryInit /\ [][DeliveryNext]_deliveryVars

DeliveryTypeOK ==
    /\ \A k \in DOMAIN leftMsgs : leftMsgs[k].form \in Forms /\ leftMsgs[k].from \in 0..(k - 1)
    /\ \A s \in Sessions : session[s].at \in {"rest", "send"} /\ session[s].mine \subseteq DOMAIN leftMsgs

--------------------------------------------------------------------------------
(* Properties *)

Replacements(k) == {j \in DOMAIN leftMsgs : leftMsgs[j].from = k}

\* "Repart dans sa version simplifiée (une seule fois)" (guided_flow.py:545),
\* however often the failure is reported; a session that dies has not marked
\* what it sent.  As long as one session works at a time.
ReplacedOnce == crossed \/ \A k \in DOMAIN leftMsgs : Cardinality(Replacements(k)) <= 1 + sessionDeaths

\* "La version simplifiée part aussitôt" (guided_flow.py:486): when a message
\* that is written down is reported, and the session that heard of it is done,
\* WhatsApp was given a simpler one; what it took in its place is simpler.
NotLeftUnread ==
    /\ sessionDeaths = 0 => \A k \in DOMAIN leftMsgs :
         leftMsgs[k].failed /\ leftMsgs[k].known /\ Degraded(leftMsgs[k].form) # NoForm =>
            leftMsgs[k].resent \/ \E s \in Sessions : session[s].for = k
    /\ \A k \in DOMAIN leftMsgs : \A j \in Replacements(k) : leftMsgs[j].form \in {Degraded(leftMsgs[k].form), "text"}
=============================================================================
