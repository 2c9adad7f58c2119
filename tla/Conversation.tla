---------------------------- MODULE Conversation ----------------------------
(***************************************************************************)
(* The conversation of one customer with one shop.  Each WhatsApp message  *)
(* of the customer is a webhook that records it, lets Bob think (calls to  *)
(* the AI, seconds long), records his answer, then sends it.  Meanwhile    *)
(* the seller may reply from his phone, an adviser take the conversation,  *)
(* reply or give it back, and a worker send followups by email.            *)
(*                                                                         *)
(* Every request has a session of its own: it decides on the row as it     *)
(* loaded it, and writes the columns it has changed.  A webhook that Meta  *)
(* delivers again is one more request: nothing tells it from a new one,    *)
(* except for the phone's echoes.                                          *)
(***************************************************************************)
EXTENDS Integers, FiniteSets

CONSTANTS
    Requests, Role,   \* [Requests -> what it may do]: one thing, once, except the worker
    User,             \* [Requests -> the user who clicked]
    Managers,         \* requests of a MANAGER, ADMIN or OWNER
    EchoId,           \* [Requests -> the phone message an echo is about]
    KnownAtStart,     \* the customer was imported
    ResumeAfter, AlertInterval, ReplyWindow, FirstFollowUp, SecondFollowUp,
    Horizon,          \* bound on the time
    MaxOpen,          \* bound on the short transactions open at once
    Fragile,          \* requests whose process may die
    Nobody

Roles == {"customer", "phone", "taker", "releaser", "adviser", "relauncher"}

\* A conversation is known by the request that opened it.
Convs == {r \in Requests : Role[r] \cap {"customer", "phone"} # {}}

Never == -1   \* a date that is null

ASSUME ConversationAssumption ==
    /\ IsFiniteSet(Requests)
    /\ Role \in [Requests -> SUBSET Roles]
    /\ Managers \subseteq Requests /\ Fragile \subseteq Requests
    /\ KnownAtStart \in BOOLEAN
    /\ {ResumeAfter, AlertInterval, ReplyWindow, FirstFollowUp, SecondFollowUp, Horizon, MaxOpen} \subseteq Nat
    /\ Nobody \notin Requests \cup {User[r] : r \in Requests}

VARIABLES
    now,       \* the time, in hours
    known,     \* the customer is in the table
    newcomer,  \* who is inserting him, and holds the unique (tenant, number)
    conv,      \* committed rows of conversations
    heard,     \* [Convs -> when the customer last wrote in it]
    echoed,    \* [Convs -> the echoes recorded in it]
    nudges,    \* followups sent since the customer last wrote
    pc, mine, read, mind,   \* [Requests -> place, conversation, its row as loaded, as the session has it]
    mail,      \* [Requests -> emails to the shop once the webhook has answered]
    sent       \* emails to the shop that left

tables  == <<known, newcomer, conv, heard, echoed>>
session == <<mine, read, mind, mail>>
vars    == <<now, tables, nudges, pc, session, sent>>

Moments  == Nat \cup {Never}
Status   == {"NONE", "ACTIVE", "WAITING_HUMAN"}
ConvData == [status : Status, agent : {User[r] : r \in Requests} \cup {Nobody}, phoneAt : Moments,
             alertAt : Moments, lastAt : Moments, stage : 0..2, stageAt : Moments]

NoConv  == [status |-> "NONE", agent |-> Nobody, phoneAt |-> Never,
            alertAt |-> Never, lastAt |-> Never, stage |-> 0, stageAt |-> Never]
NewConv == [NoConv EXCEPT !.status = "ACTIVE", !.lastAt = now]

Short == {"in", "echo", "taking", "giving"}
Long  == {"thinking", "mailing", "typing", "typed", "listed", "mailed"}
Kinds == {"alert", "reminder"}
Email == [kind : Kinds, conv : Convs, by : Requests, at : Moments]

Init ==
    /\ now = 0
    /\ known = KnownAtStart
    /\ newcomer = Nobody
    /\ conv = [c \in Convs |-> NoConv]
    /\ heard = [c \in Convs |-> Never]
    /\ echoed = [c \in Convs |-> {}]
    /\ nudges = 0
    /\ pc = [r \in Requests |-> "idle"]
    /\ mine = [r \in Requests |-> Nobody]
    /\ read = [r \in Requests |-> NoConv]
    /\ mind = [r \in Requests |-> NoConv]
    /\ mail = [r \in Requests |-> {}]
    /\ sent = {}

-----------------------------------------------------------------------------
Goto(r, label) == pc' = [pc EXCEPT ![r] = label]

\* Closed is never set, and a conversation is never deleted.
Opened == {c \in Convs : conv[c].status # "NONE"}

RowOf(c) == IF c \in Opened THEN conv[c] ELSE NewConv

\* Until the customer is in the table, as many requests as Meta sends.
Arrives(r, role) ==
    /\ role \in Role[r]
    /\ pc[r] = "idle"
    /\ known => Cardinality({q \in Requests : pc[q] \in Short}) < MaxOpen

Loads(r, c, new) ==
    /\ mine' = [mine EXCEPT ![r] = c]
    /\ read' = [read EXCEPT ![r] = conv[c]]
    /\ mind' = [mind EXCEPT ![r] = new]

\* Faulty variant: every column is written.
MergeAll(row, old, new) == new

\* What a flush leaves of a committed row.
Merge(row, old, new) ==
    [f \in DOMAIN row |-> IF new[f] # old[f] THEN new[f] ELSE row[f]]

Closes(r) ==
    /\ mine' = [mine EXCEPT ![r] = Nobody]
    /\ read' = [read EXCEPT ![r] = NoConv]
    /\ mind' = [mind EXCEPT ![r] = NoConv]

Writes(r, new) == conv' = [conv EXCEPT ![mine[r]] = Merge(@, read[r], new)]

\* Faulty variant: numbers are not unique in a shop.
CustomerTwice(r) == newcomer' = IF known THEN newcomer ELSE Nobody

\* get_or_create of the customer, who is new to the shop or not.  While another
\* webhook is inserting his number: HTTP 500, and Meta delivers this one again.
Customer(r) ==
    /\ known \/ newcomer = Nobody
    /\ newcomer' = IF known THEN newcomer ELSE r

Commits(r) ==
    /\ known' = (known \/ pc[r] \in {"in", "echo"})
    /\ newcomer' = IF newcomer = r THEN Nobody ELSE newcomer

\* get_or_create_active: the customer's conversation, or one of its own.  If
\* there is more than one: HTTP 500, and again at every delivery.
Meets(r, c) == Opened = {c} \/ (Opened = {} /\ c = r)

-----------------------------------------------------------------------------
(* A message of the customer.                                              *)

ResumeDue(row) ==
    /\ row.status = "WAITING_HUMAN" /\ row.agent = Nobody
    /\ row.phoneAt # Never /\ now - row.phoneAt >= ResumeAfter

\* The seller has replied from his phone and nothing more since: Bob is back.
Resumed(row) ==
    IF ResumeDue(row) THEN [row EXCEPT !.status = "ACTIVE", !.phoneAt = Never, !.alertAt = Never] ELSE row

\* A customer who writes is no longer to be followed up.
Writing(row) == [Resumed(row) EXCEPT !.stage = 0, !.stageAt = IF row.stage = 0 THEN @ ELSE Never]

ReminderDue(row) ==
    /\ row.status = "WAITING_HUMAN" /\ row.agent = Nobody /\ row.phoneAt = Never
    /\ row.alertAt = Never \/ now - row.alertAt >= AlertInterval

Reminded(row) == [row EXCEPT !.alertAt = now]

\* The shop is reminded, unless the message is STOP.
Receive(r) ==
    /\ Arrives(r, "customer")
    /\ Customer(r)
    /\ \E c \in Convs :
         LET row == Writing(RowOf(c)) IN
         /\ Meets(r, c)
         /\ \/ ReminderDue(row) /\ Loads(r, c, Reminded(row)) /\ mail' = [mail EXCEPT ![r] = {"reminder"}]
            \/ Loads(r, c, row) /\ mail' = [mail EXCEPT ![r] = {}]
    /\ Goto(r, "in")
    /\ UNCHANGED <<now, known, conv, heard, echoed, nudges, sent>>

\* The message is recorded.  Bob answers in a conversation that was his when
\* it was loaded; else the shop is at most reminded.
Record(r) ==
    /\ pc[r] = "in"
    /\ Writes(r, mind[r])
    /\ heard' = [heard EXCEPT ![mine[r]] = now]
    /\ nudges' = 0
    /\ Commits(r)
    /\ read' = [read EXCEPT ![r] = mind[r]]
    /\ Goto(r, IF mind[r].status = "ACTIVE" THEN "thinking" ELSE "mailing")
    /\ UNCHANGED <<now, echoed, mine, mind, mail, sent>>

\* Bob answers, by himself, a menu or a fixed text; or he has no right to (paused
\* for the shop, too many messages in an hour, a switch).  The answer is recorded,
\* and WhatsApp may refuse it.
Answer(r) ==
    /\ pc[r] = "thinking"
    /\ Goto(r, "mailing")
    /\ UNCHANGED <<now, tables, nudges, session, sent>>

\* Faulty variant: the shop is told nothing.
NothingToSay(r) ==
    /\ mind' = [mind EXCEPT ![r].status = "WAITING_HUMAN"]
    /\ mail' = mail

\* The shop is told by an email, after the answer.
Announced(r) ==
    /\ mind' = [mind EXCEPT ![r].status = "WAITING_HUMAN", ![r].alertAt = now]
    /\ mail' = [mail EXCEPT ![r] = @ \cup {"alert"}]

\* A rule, the customer, Bob himself or his failure hands the conversation over.
Transfer(r) ==
    /\ pc[r] = "thinking"
    /\ Announced(r)
    /\ Writes(r, mind'[r])
    /\ Goto(r, "mailing")
    /\ UNCHANGED <<now, known, newcomer, heard, echoed, nudges, mine, read, sent>>

\* Background tasks, once Meta has its HTTP 200.
MailShop(r) ==
    /\ pc[r] = "mailing"
    /\ sent' = sent \cup {[kind |-> k, conv |-> mine[r], by |-> r, at |-> mind[r].alertAt] : k \in mail[r]}
    /\ mail' = [mail EXCEPT ![r] = {}]
    /\ Closes(r)
    /\ Goto(r, "done")
    /\ UNCHANGED <<now, tables, nudges>>

-----------------------------------------------------------------------------
(* The seller on his phone, the advisers on the dashboard.                 *)

\* Faulty variant: an echo delivered again is taken for a new one.
NeverRecorded(r, c) == r \in echoed[c]

AlreadyRecorded(r, c) == \E e \in echoed[c] : EchoId[e] = EchoId[r]

Paused(row) == [row EXCEPT !.lastAt = now, !.phoneAt = now, !.status = "WAITING_HUMAN"]

\* The copy of a message typed on the phone: Bob pauses.
Echo(r) ==
    /\ Arrives(r, "phone")
    /\ Customer(r)
    /\ \E c \in Convs :
         /\ Meets(r, c)
         /\ IF AlreadyRecorded(r, c)
              THEN Goto(r, "done") /\ UNCHANGED <<mine, read, mind>>
              ELSE Goto(r, "echo") /\ Loads(r, c, Paused(RowOf(c)))
    /\ UNCHANGED <<now, known, conv, heard, echoed, nudges, mail, sent>>

RecordEcho(r) ==
    /\ pc[r] = "echo"
    /\ Writes(r, mind[r])
    /\ echoed' = [echoed EXCEPT ![mine[r]] = @ \cup {r}]
    /\ Commits(r)
    /\ Closes(r)
    /\ Goto(r, "done")
    /\ UNCHANGED <<now, heard, nudges, mail, sent>>

\* "Prendre le contrôle".
Take(r) ==
    /\ Arrives(r, "taker")
    /\ \E c \in Opened : Loads(r, c, [conv[c] EXCEPT !.status = "WAITING_HUMAN", !.agent = User[r]])
    /\ Goto(r, "taking")
    /\ UNCHANGED <<now, tables, nudges, mail, sent>>

\* "Bob continue": the adviser in charge, a manager, or anyone if it is the
\* phone that has paused Bob.
Release(r) ==
    /\ Arrives(r, "releaser")
    /\ \E c \in Opened :
         LET row == conv[c] IN
         /\ \/ row.agent = Nobody /\ row.phoneAt # Never
            \/ row.agent = User[r]
            \/ r \in Managers
         /\ Loads(r, c, [row EXCEPT !.status = "ACTIVE", !.agent = Nobody, !.phoneAt = Never])
    /\ Goto(r, "giving")
    /\ UNCHANGED <<now, tables, nudges, mail, sent>>

CommitHand(r) ==
    /\ pc[r] \in {"taking", "giving"}
    /\ Writes(r, mind[r])
    /\ Closes(r)
    /\ Goto(r, "done")
    /\ UNCHANGED <<now, known, newcomer, heard, echoed, nudges, mail, sent>>

\* WhatsApp takes a free message only for a while after the customer's last one.
ReplyOpen(c) == heard[c] # Never /\ now < heard[c] + ReplyWindow

\* A reply from the dashboard: only once Bob is silent, unless a manager sends
\* an offer.
Reply(r) ==
    /\ Arrives(r, "adviser")
    /\ \E c \in Opened :
         /\ conv[c].status = "WAITING_HUMAN" \/ r \in Managers
         /\ ReplyOpen(c)
         /\ Loads(r, c, conv[c])
    /\ Goto(r, "typing")
    /\ UNCHANGED <<now, tables, nudges, mail, sent>>

\* Recorded only if WhatsApp took it.
SendReply(r) ==
    /\ pc[r] = "typing"
    /\ \/ Goto(r, "typed") /\ UNCHANGED <<mine, read, mind>>
       \/ Goto(r, "done") /\ Closes(r)
    /\ UNCHANGED <<now, tables, nudges, mail, sent>>

RecordReply(r) ==
    /\ pc[r] = "typed"
    /\ Writes(r, [mind[r] EXCEPT !.lastAt = now])
    /\ Closes(r)
    /\ Goto(r, "done")
    /\ UNCHANGED <<now, known, newcomer, heard, echoed, nudges, mail, sent>>

-----------------------------------------------------------------------------
(* Followups by email, every 15 minutes.                                   *)

\* Faulty variant: no stop after the second.
FollowUpDueForever(row) ==
    /\ row.status = "ACTIVE"
    /\ now >= row.lastAt + FirstFollowUp

FollowUpDue(row) ==
    /\ row.status = "ACTIVE"
    /\ \/ row.stage = 0 /\ now >= row.lastAt + FirstFollowUp
       \/ row.stage = 1 /\ now >= (IF row.stageAt # Never THEN row.stageAt ELSE row.lastAt) + SecondFollowUp

ListDue(r) ==
    /\ Arrives(r, "relauncher")
    /\ \E c \in Opened : FollowUpDue(conv[c]) /\ Loads(r, c, conv[c])
    /\ Goto(r, "listed")
    /\ UNCHANGED <<now, tables, nudges, mail, sent>>

\* By email, if he has one and takes offers; the stage goes on in any case.
FollowUp(r) ==
    /\ pc[r] = "listed"
    /\ nudges' \in {nudges, nudges + 1}
    /\ mind' = [mind EXCEPT ![r].stage = @ + 1, ![r].stageAt = now]
    /\ Goto(r, "mailed")
    /\ UNCHANGED <<now, tables, mine, read, mail, sent>>

RecordFollowUp(r) ==
    /\ pc[r] = "mailed"
    /\ Writes(r, mind[r])
    /\ Closes(r)
    /\ Goto(r, "idle")
    /\ UNCHANGED <<now, known, newcomer, heard, echoed, nudges, mail, sent>>

-----------------------------------------------------------------------------
\* A transaction without a call to the outside does not last an hour.
Tick ==
    /\ now < Horizon
    /\ \A r \in Requests : pc[r] \notin Short
    /\ now' = now + 1
    /\ UNCHANGED <<tables, nudges, pc, session, sent>>

\* The process dies.  What was not committed is lost, and the mails; Meta
\* delivers the webhook again, beat runs the worker again.
Crash(r) ==
    /\ r \in Fragile /\ pc[r] \in Short \cup Long
    /\ newcomer' = IF newcomer = r THEN Nobody ELSE newcomer
    /\ Closes(r)
    /\ mail' = [mail EXCEPT ![r] = {}]
    /\ Goto(r, IF r \in Convs \/ "relauncher" \in Role[r] THEN "idle" ELSE "done")
    /\ UNCHANGED <<now, known, conv, heard, echoed, nudges, sent>>

Next ==
    \/ \E r \in Requests :
          \/ Receive(r) \/ Record(r) \/ Answer(r) \/ Transfer(r) \/ MailShop(r)
          \/ Echo(r) \/ RecordEcho(r) \/ Take(r) \/ Release(r) \/ CommitHand(r)
          \/ Reply(r) \/ SendReply(r) \/ RecordReply(r)
          \/ ListDue(r) \/ FollowUp(r) \/ RecordFollowUp(r)
          \/ Crash(r)
    \/ Tick
    \/ now = Horizon /\ UNCHANGED vars

Spec == Init /\ [][Next]_vars

-----------------------------------------------------------------------------
(* What the component promises.                                            *)

\* Every row, session and message is well formed, and the customer is being
\* inserted by a webhook still at work on it.
ConvTypeOK ==
    /\ now \in 0..Horizon
    /\ known \in BOOLEAN
    /\ newcomer \in {Nobody} \cup {r \in Convs : pc[r] \in {"in", "echo"}}
    /\ conv \in [Convs -> ConvData]
    /\ heard \in [Convs -> Moments]
    /\ echoed \in [Convs -> SUBSET Requests]
    /\ nudges \in Nat
    /\ pc \in [Requests -> Short \cup Long \cup {"idle", "done"}]
    /\ mine \in [Requests -> Convs \cup {Nobody}]
    /\ read \in [Requests -> ConvData] /\ mind \in [Requests -> ConvData]
    /\ mail \in [Requests -> SUBSET Kinds]
    /\ sent \subseteq Email

\* A customer who was not known has one conversation, however many webhooks
\* meet (get_or_create_active has no constraint of its own: what protects it
\* is the unique number of a customer who is being inserted).
OneConversation == Cardinality(Opened) <= 1

\* Meta may deliver an echo twice: it is recorded once.
EchoOnce ==
    \A c \in Convs : \A p, q \in echoed[c] : EchoId[p] = EchoId[q] => p = q

\* A conversation that nobody has taken and that waits for a human was
\* announced: the email of its last alert has left, or is about to.
AboutToLeave(c) ==
    {r \in Requests : pc[r] = "mailing" /\ mine[r] = c /\ mail[r] # {}}
WaitingIsAlerted ==
    \A c \in Opened :
        conv[c].status = "WAITING_HUMAN" /\ conv[c].agent = Nobody /\ conv[c].phoneAt = Never
          => \/ \E m \in sent : m.conv = c /\ m.at = conv[c].alertAt
             \/ \E r \in AboutToLeave(c) : mind[r].alertAt = conv[c].alertAt

\* The shop is not reminded of a waiting customer more than once an hour.
RemindedHourly ==
    \A m, n \in sent :
        m.kind = "reminder" /\ n.kind = "reminder" /\ m.conv = n.conv /\ m # n
          => m.at >= n.at + AlertInterval \/ n.at >= m.at + AlertInterval

\* No third followup to a customer who has not written since the first.
AtMostTwoFollowUps == nudges <= 2

\* Bob is given back a conversation by an adviser, or by the silence of the
\* seller's phone: no other session, however stale, gives it back to him.
LetBack(c) ==
    \/ \E r \in Requests : pc[r] = "giving" /\ pc'[r] = "done" /\ mine[r] = c
    \/ ResumeDue(conv[c])
BobComesBackOnlyWhenLet ==
    [][\A c \in Convs :
         conv[c].status = "WAITING_HUMAN" /\ conv'[c].status = "ACTIVE" => LetBack(c)]_vars

\* The worker lists a conversation for a followup only after a silence of the
\* customer as long as the shop has set.
FollowUpOnlyWhenAbandoned ==
    [][\A r \in Requests :
         pc[r] = "idle" /\ pc'[r] = "listed" => now >= heard[mine'[r]] + FirstFollowUp]_vars

\* What the shop hears of a customer who waits: of every one, and not too often.
AlertsRight == WaitingIsAlerted /\ RemindedHourly
=============================================================================
