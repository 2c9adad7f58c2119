------------------------ MODULE Conversation_proofs ------------------------
(***************************************************************************)
(* Theorems about Conversation, for any number of webhooks, clicks and     *)
(* worker runs: the first and TwoFollowUpsAtMost however many transactions *)
(* are open at once, the others where one short transaction is open at a   *)
(* time, all that waits for somebody outside going on beside it.           *)
(***************************************************************************)
EXTENDS Conversation, FiniteSetTheorems, TLAPS

Inserting == {"in", "echo"}
AtWork    == Short \cup Long

\* What a session at work may be sure of.
Sessions ==
    \A r \in Requests :
        /\ pc[r] \in AtWork => mine[r] \in Convs
        /\ pc[r] \in Inserting => r \in Convs
        /\ pc[r] = "listed" => mind[r].stage \in 0..1

\* Nothing is recorded of a customer who is not in the table.
Fresh == known \/ \A c \in Convs : echoed[c] = {}

TypeInv == ConvTypeOK /\ Sessions /\ Fresh

-----------------------------------------------------------------------------
(* Rows.                                                                   *)

LEMMA MergeFields ==
    ASSUME NEW row \in ConvData, NEW old \in ConvData, NEW new \in ConvData
    PROVE  /\ Merge(row, old, new) \in ConvData
           /\ Merge(row, old, new).status = IF new.status # old.status THEN new.status ELSE row.status
  BY DEF Merge, ConvData

LEMMA NoConvType == NoConv \in ConvData
  BY DEF NoConv, ConvData, Status, Moments

LEMMA NewConvType ==
    ASSUME now \in Nat
    PROVE  NewConv \in ConvData /\ NewConv.status = "ACTIVE"
  BY NoConvType DEF NewConv, ConvData, Status, Moments

LEMMA NowIsNat == now \in 0..Horizon => now \in Nat /\ now \in Moments
  BY ConversationAssumption DEF Moments

LEMMA RowOfType ==
    ASSUME conv \in [Convs -> ConvData], now \in Nat, NEW c \in Convs
    PROVE  RowOf(c) \in ConvData /\ RowOf(c).status # "NONE"
  BY NewConvType DEF RowOf, Opened

LEMMA StageEdit ==
    ASSUME NEW row \in ConvData, NEW date \in Moments
    PROVE  /\ [row EXCEPT !.stage = 0, !.stageAt = date] \in ConvData
           /\ [row EXCEPT !.stage = 0, !.stageAt = date].status = row.status
<1>1. 0 \in 0..2
  OBVIOUS
<1> QED
  BY <1>1 DEF ConvData

LEMMA WritingType ==
    ASSUME NEW row \in ConvData, row.status # "NONE", now \in Nat
    PROVE  /\ Writing(row) \in ConvData /\ Writing(row).status # "NONE"
           /\ Reminded(Writing(row)) \in ConvData /\ Reminded(Writing(row)).status # "NONE"
<1>1. Resumed(row) \in ConvData /\ Resumed(row).status # "NONE"
  BY DEF Resumed, ConvData, Status, Moments
<1>2. Writing(row) \in ConvData /\ Writing(row).status # "NONE"
  <2> DEFINE R == Resumed(row)
             date == IF row.stage = 0 THEN R.stageAt ELSE Never
  <2>1. date \in Moments
    BY <1>1 DEF ConvData, Moments
  <2>2. Writing(row) = [R EXCEPT !.stage = 0, !.stageAt = date]
    BY DEF Writing
  <2>3. R \in ConvData /\ R.status # "NONE"
    BY <1>1
  <2> HIDE DEF R, date
  <2> QED
    BY <2>1, <2>2, <2>3, StageEdit
<1> QED
  BY <1>2 DEF Reminded, ConvData, Status, Moments

LEMMA PausedType ==
    ASSUME NEW row \in ConvData, now \in Nat
    PROVE  Paused(row) \in ConvData /\ Paused(row).status # "NONE"
  BY DEF Paused, ConvData, Status, Moments

LEMMA TakenType ==
    ASSUME NEW row \in ConvData, NEW r \in Requests
    PROVE  /\ [row EXCEPT !.status = "WAITING_HUMAN", !.agent = User[r]] \in ConvData
           /\ [row EXCEPT !.status = "WAITING_HUMAN", !.agent = User[r]].status # "NONE"
           /\ [row EXCEPT !.status = "ACTIVE", !.agent = Nobody, !.phoneAt = Never] \in ConvData
           /\ [row EXCEPT !.status = "ACTIVE", !.agent = Nobody, !.phoneAt = Never].status # "NONE"
  BY DEF ConvData, Status, Moments, Never

LEMMA TransferredType ==
    ASSUME NEW row \in ConvData, now \in Nat
    PROVE  /\ [row EXCEPT !.status = "WAITING_HUMAN", !.alertAt = now] \in ConvData
           /\ [row EXCEPT !.status = "WAITING_HUMAN", !.alertAt = now].status # "NONE"
           /\ [row EXCEPT !.lastAt = now] \in ConvData
           /\ [row EXCEPT !.lastAt = now].status = row.status
  BY DEF ConvData, Status, Moments

LEMMA NextStageType ==
    ASSUME NEW row \in ConvData, row.stage \in 0..1, now \in Nat
    PROVE  /\ [row EXCEPT !.stage = @ + 1, !.stageAt = now] \in ConvData
           /\ [row EXCEPT !.stage = @ + 1, !.stageAt = now].status = row.status
<1>1. row.stage + 1 \in 0..2
  OBVIOUS
<1> QED
  BY <1>1 DEF ConvData, Status, Moments

-----------------------------------------------------------------------------
(* What the helpers of the actions leave well formed.                      *)

LEMMA LoadsType ==
    ASSUME TypeInv, NEW r \in Requests, NEW c \in Convs, NEW new \in ConvData, Loads(r, c, new)
    PROVE  /\ mine' \in [Requests -> Convs \cup {Nobody}]
           /\ read' \in [Requests -> ConvData]
           /\ mind' \in [Requests -> ConvData]
           /\ mine'[r] = c /\ read'[r] = conv[c] /\ mind'[r] = new
           /\ \A q \in Requests \ {r} : mine'[q] = mine[q] /\ read'[q] = read[q] /\ mind'[q] = mind[q]
  BY DEF TypeInv, ConvTypeOK, Loads

LEMMA ClosesType ==
    ASSUME TypeInv, NEW r \in Requests, Closes(r)
    PROVE  /\ mine' \in [Requests -> Convs \cup {Nobody}]
           /\ read' \in [Requests -> ConvData]
           /\ mind' \in [Requests -> ConvData]
           /\ \A q \in Requests \ {r} : mine'[q] = mine[q] /\ read'[q] = read[q] /\ mind'[q] = mind[q]
  BY NoConvType DEF TypeInv, ConvTypeOK, Closes

LEMMA WritesType ==
    ASSUME TypeInv, NEW r \in Requests, pc[r] \in AtWork, NEW new \in ConvData, Writes(r, new)
    PROVE  conv' \in [Convs -> ConvData]
<1>1. Merge(conv[mine[r]], read[r], new) \in ConvData
  BY MergeFields DEF TypeInv, ConvTypeOK, Sessions
<1> QED
  BY <1>1 DEF Writes, TypeInv, ConvTypeOK

LEMMA GotoType ==
    ASSUME TypeInv, NEW r \in Requests, NEW label \in AtWork \cup {"idle", "done"}, Goto(r, label)
    PROVE  /\ pc' \in [Requests -> AtWork \cup {"idle", "done"}]
           /\ pc'[r] = label /\ \A q \in Requests \ {r} : pc'[q] = pc[q]
  BY DEF TypeInv, ConvTypeOK, Goto, AtWork

-----------------------------------------------------------------------------
(* Types.                                                                  *)

LEMMA TypeInit == Init => TypeInv
<1> SUFFICES ASSUME Init PROVE TypeInv
  OBVIOUS
<1>1. now \in 0..Horizon
  BY ConversationAssumption DEF Init
<1>2. known \in BOOLEAN
  BY ConversationAssumption DEF Init
<1> QED
  BY <1>1, <1>2, NoConvType DEF Init, TypeInv, ConvTypeOK, Sessions, Fresh, Moments, Inserting, AtWork, Short, Long

LEMMA ReceiveType ==
    ASSUME TypeInv, NEW r \in Requests, Receive(r)
    PROVE  TypeInv'
<1>1. r \in Convs
  BY DEF Receive, Arrives, Convs
<1>2. now \in Nat
  BY NowIsNat DEF TypeInv, ConvTypeOK
<1>3. PICK c \in Convs, new \in ConvData :
         /\ Loads(r, c, new)
         /\ mail' \in {[mail EXCEPT ![r] = {"reminder"}], [mail EXCEPT ![r] = {}]}
  <2>1. PICK c \in Convs :
           LET row == Writing(RowOf(c)) IN
           \/ ReminderDue(row) /\ Loads(r, c, Reminded(row)) /\ mail' = [mail EXCEPT ![r] = {"reminder"}]
           \/ Loads(r, c, row) /\ mail' = [mail EXCEPT ![r] = {}]
    BY DEF Receive
  <2>2. Writing(RowOf(c)) \in ConvData /\ Reminded(Writing(RowOf(c))) \in ConvData
    BY <1>2, RowOfType, WritingType DEF TypeInv, ConvTypeOK
  <2> QED
    BY <2>1, <2>2
<1>4. mail' \in [Requests -> SUBSET Kinds]
  BY <1>3 DEF TypeInv, ConvTypeOK, Kinds
<1>5. /\ pc' \in [Requests -> AtWork \cup {"idle", "done"}]
      /\ pc'[r] = "in" /\ \A q \in Requests \ {r} : pc'[q] = pc[q]
  BY GotoType DEF Receive, AtWork, Short
<1>6. newcomer' \in {Nobody} \cup {q \in Convs : pc'[q] \in {"in", "echo"}}
  BY <1>1, <1>5 DEF Receive, Customer, TypeInv, ConvTypeOK, Convs
<1>7. Sessions'
  BY <1>1, <1>3, <1>5, LoadsType DEF TypeInv, Sessions, Inserting
<1> QED
  BY <1>3, <1>4, <1>5, <1>6, <1>7, LoadsType DEF Receive, TypeInv, ConvTypeOK, Fresh, AtWork

LEMMA RecordType ==
    ASSUME TypeInv, NEW r \in Requests, Record(r)
    PROVE  TypeInv'
<1>1. pc[r] = "in" /\ pc[r] \in AtWork /\ mind[r] \in ConvData /\ mine[r] \in Convs
  BY DEF Record, AtWork, Short, TypeInv, ConvTypeOK, Sessions
<1>2. conv' \in [Convs -> ConvData]
  BY <1>1, WritesType DEF Record
<1>3. heard' \in [Convs -> Moments] /\ read' \in [Requests -> ConvData] /\ nudges' \in Nat
  BY <1>1, NowIsNat DEF Record, TypeInv, ConvTypeOK
<1>4. PICK label \in {"thinking", "mailing"} : Goto(r, label)
  BY DEF Record
<1>5. /\ pc' \in [Requests -> AtWork \cup {"idle", "done"}]
      /\ pc'[r] \in {"thinking", "mailing"} /\ \A q \in Requests \ {r} : pc'[q] = pc[q]
  BY <1>4, GotoType DEF AtWork, Long
<1>6. /\ known' \in BOOLEAN
      /\ newcomer' \in {Nobody} \cup {q \in Convs : pc'[q] \in {"in", "echo"}}
  BY <1>5 DEF Record, Commits, TypeInv, ConvTypeOK, Convs
<1>7. Sessions'
  BY <1>1, <1>5 DEF Record, TypeInv, Sessions, Inserting
<1> QED
  BY <1>2, <1>3, <1>5, <1>6, <1>7 DEF Record, Commits, TypeInv, ConvTypeOK, Fresh, AtWork

LEMMA TurnType ==
    ASSUME TypeInv, NEW r \in Requests, Answer(r) \/ Transfer(r) \/ MailShop(r)
    PROVE  TypeInv'
<1>1. pc[r] \in AtWork /\ pc[r] \notin Inserting /\ mind[r] \in ConvData /\ mine[r] \in Convs /\ now \in Nat
  BY NowIsNat DEF Answer, Transfer, MailShop, AtWork, Long, Inserting, TypeInv, ConvTypeOK, Sessions
<1>2. PICK label \in {"mailing", "done"} : Goto(r, label)
  BY DEF Answer, Transfer, MailShop
<1>3. /\ pc' \in [Requests -> AtWork \cup {"idle", "done"}]
      /\ pc'[r] \in {"mailing", "done"} /\ \A q \in Requests \ {r} : pc'[q] = pc[q]
  BY <1>2, GotoType DEF AtWork, Long
<1>4. newcomer' \in {Nobody} \cup {q \in Convs : pc'[q] \in {"in", "echo"}}
  BY <1>1, <1>3 DEF Answer, Transfer, MailShop, tables, TypeInv, ConvTypeOK, Convs, Inserting
<1>5. CASE Answer(r)
  <2>1. Sessions'
    BY <1>1, <1>3, <1>5 DEF Answer, session, TypeInv, Sessions, Inserting
  <2> QED
    BY <1>3, <1>4, <1>5, <2>1 DEF Answer, tables, session, TypeInv, ConvTypeOK, Fresh, AtWork
<1>6. CASE Transfer(r)
  <2>1. [mind[r] EXCEPT !.status = "WAITING_HUMAN", !.alertAt = now] \in ConvData
    BY <1>1, TransferredType
  <2>2. mind' \in [Requests -> ConvData] /\ \A q \in Requests \ {r} : mind'[q] = mind[q]
    BY <1>6, <2>1 DEF Transfer, Announced, TypeInv, ConvTypeOK
  <2>3. conv' \in [Convs -> ConvData]
    BY <1>1, <1>6, <2>2, WritesType DEF Transfer
  <2>4. mail' \in [Requests -> SUBSET Kinds]
    BY <1>6 DEF Transfer, Announced, TypeInv, ConvTypeOK, Kinds
  <2>5. Sessions'
    BY <1>1, <1>3, <1>6, <2>2 DEF Transfer, TypeInv, Sessions, Inserting
  <2> QED
    BY <1>3, <1>4, <1>6, <2>2, <2>3, <2>4, <2>5 DEF Transfer, TypeInv, ConvTypeOK, Fresh, AtWork
<1>7. CASE MailShop(r)
  <2>1. sent' \subseteq Email
    BY <1>1, <1>7 DEF MailShop, TypeInv, ConvTypeOK, Email, ConvData
  <2>2. mail' \in [Requests -> SUBSET Kinds]
    BY <1>7 DEF MailShop, TypeInv, ConvTypeOK
  <2>3. Closes(r) /\ pc'[r] = "done"
    BY <1>7, GotoType DEF MailShop
  <2>4. Sessions'
    BY <1>3, <2>3, ClosesType DEF TypeInv, Sessions, Inserting, AtWork, Short, Long
  <2> QED
    BY <1>3, <1>4, <1>7, <2>1, <2>2, <2>3, <2>4, ClosesType DEF MailShop, tables, TypeInv, ConvTypeOK, Fresh, AtWork
<1> QED
  BY <1>5, <1>6, <1>7

LEMMA EchoType ==
    ASSUME TypeInv, NEW r \in Requests, Echo(r)
    PROVE  TypeInv'
<1>1. r \in Convs /\ pc[r] = "idle"
  BY DEF Echo, Arrives, Convs
<1>2. now \in Nat
  BY NowIsNat DEF TypeInv, ConvTypeOK
<1>3. PICK c \in Convs :
         IF AlreadyRecorded(r, c)
           THEN Goto(r, "done") /\ UNCHANGED <<mine, read, mind>>
           ELSE Goto(r, "echo") /\ Loads(r, c, Paused(RowOf(c)))
  BY DEF Echo
<1>4. Paused(RowOf(c)) \in ConvData
  BY <1>2, RowOfType, PausedType DEF TypeInv, ConvTypeOK
<1>5. PICK label \in {"echo", "done"} : Goto(r, label)
  BY <1>3
<1>6. /\ pc' \in [Requests -> AtWork \cup {"idle", "done"}]
      /\ pc'[r] = label /\ \A q \in Requests \ {r} : pc'[q] = pc[q]
  BY <1>5, GotoType DEF AtWork, Short
<1>7. newcomer' \in {Nobody} \cup {q \in Convs : pc'[q] \in {"in", "echo"}}
  <2>1. CASE label = "echo"
    BY <1>1, <1>6, <2>1 DEF Echo, Customer, TypeInv, ConvTypeOK, Convs
  <2>2. CASE label = "done"
    <3>1. AlreadyRecorded(r, c)
      BY <1>3, <1>6, <2>2 DEF Goto, TypeInv, ConvTypeOK
    <3>2. known
      BY <3>1 DEF AlreadyRecorded, TypeInv, Fresh
    <3> QED
      BY <1>1, <1>6, <3>2 DEF Echo, Customer, TypeInv, ConvTypeOK, Convs
  <2> QED
    BY <2>1, <2>2
<1>8. /\ mine' \in [Requests -> Convs \cup {Nobody}]
      /\ read' \in [Requests -> ConvData] /\ mind' \in [Requests -> ConvData]
      /\ \A q \in Requests \ {r} : mine'[q] = mine[q] /\ mind'[q] = mind[q]
      /\ label = "echo" => mine'[r] \in Convs
  <2>1. CASE AlreadyRecorded(r, c)
    <3>1. label = "done"
      BY <1>3, <1>6, <2>1, GotoType DEF AtWork
    <3> QED
      BY <1>3, <2>1, <3>1 DEF TypeInv, ConvTypeOK
  <2>2. CASE ~ AlreadyRecorded(r, c)
    BY <1>3, <1>4, <2>2, LoadsType
  <2> QED
    BY <2>1, <2>2
<1>9. Sessions'
  BY <1>1, <1>6, <1>8 DEF TypeInv, Sessions, Inserting, AtWork, Short, Long
<1> QED
  BY <1>6, <1>7, <1>8, <1>9 DEF Echo, TypeInv, ConvTypeOK, Fresh, AtWork

LEMMA RecordEchoType ==
    ASSUME TypeInv, NEW r \in Requests, RecordEcho(r)
    PROVE  TypeInv'
<1>1. pc[r] = "echo" /\ pc[r] \in AtWork /\ mind[r] \in ConvData /\ mine[r] \in Convs
  BY DEF RecordEcho, AtWork, Short, TypeInv, ConvTypeOK, Sessions
<1>2. conv' \in [Convs -> ConvData]
  BY <1>1, WritesType DEF RecordEcho
<1>3. echoed' \in [Convs -> SUBSET Requests]
  BY <1>1 DEF RecordEcho, TypeInv, ConvTypeOK
<1>4. /\ pc' \in [Requests -> AtWork \cup {"idle", "done"}]
      /\ pc'[r] = "done" /\ \A q \in Requests \ {r} : pc'[q] = pc[q]
  BY GotoType DEF RecordEcho
<1>5. /\ known' = TRUE
      /\ newcomer' \in {Nobody} \cup {q \in Convs : pc'[q] \in {"in", "echo"}}
  BY <1>1, <1>4 DEF RecordEcho, Commits, TypeInv, ConvTypeOK, Convs
<1>6. Sessions'
  BY <1>4, ClosesType DEF RecordEcho, TypeInv, Sessions, Inserting, AtWork, Short, Long
<1> QED
  BY <1>2, <1>3, <1>4, <1>5, <1>6, ClosesType DEF RecordEcho, TypeInv, ConvTypeOK, Fresh, AtWork

LEMMA HandType ==
    ASSUME TypeInv, NEW r \in Requests, Take(r) \/ Release(r) \/ Reply(r) \/ ListDue(r)
    PROVE  TypeInv'
<1>1. pc[r] = "idle"
  BY DEF Take, Release, Reply, ListDue, Arrives
<1>2. PICK label \in {"taking", "giving", "typing", "listed"}, c \in Convs, new \in ConvData :
         Goto(r, label) /\ Loads(r, c, new) /\ (label = "listed" => new.stage \in 0..1)
  <2>1. Opened \subseteq Convs /\ \A d \in Opened : conv[d] \in ConvData
    BY DEF Opened, TypeInv, ConvTypeOK
  <2>2. CASE Take(r)
    <3>1. PICK d \in Opened : Loads(r, d, [conv[d] EXCEPT !.status = "WAITING_HUMAN", !.agent = User[r]])
      BY <2>2 DEF Take
    <3>2. [conv[d] EXCEPT !.status = "WAITING_HUMAN", !.agent = User[r]] \in ConvData
      BY <2>1, TakenType
    <3> QED
      BY <2>1, <2>2, <3>1, <3>2 DEF Take
  <2>3. CASE Release(r)
    <3>1. PICK d \in Opened : Loads(r, d, [conv[d] EXCEPT !.status = "ACTIVE", !.agent = Nobody, !.phoneAt = Never])
      BY <2>3 DEF Release
    <3>2. [conv[d] EXCEPT !.status = "ACTIVE", !.agent = Nobody, !.phoneAt = Never] \in ConvData
      BY <2>1, TakenType
    <3> QED
      BY <2>1, <2>3, <3>1, <3>2 DEF Release
  <2>4. CASE Reply(r)
    BY <2>1, <2>4 DEF Reply
  <2>5. CASE ListDue(r)
    <3>1. PICK d \in Opened : FollowUpDue(conv[d]) /\ Loads(r, d, conv[d])
      BY <2>5 DEF ListDue
    <3>2. conv[d].stage \in 0..1
      BY <3>1 DEF FollowUpDue
    <3> QED
      BY <2>1, <2>5, <3>1, <3>2 DEF ListDue
  <2> QED
    BY <2>2, <2>3, <2>4, <2>5
<1>3. /\ pc' \in [Requests -> AtWork \cup {"idle", "done"}]
      /\ pc'[r] = label /\ \A q \in Requests \ {r} : pc'[q] = pc[q]
  BY <1>2, GotoType DEF AtWork, Short, Long
<1>4. UNCHANGED <<now, tables, nudges, mail, sent>>
  BY DEF Take, Release, Reply, ListDue
<1>5. newcomer' \in {Nobody} \cup {q \in Convs : pc'[q] \in {"in", "echo"}}
  BY <1>1, <1>3, <1>4 DEF tables, TypeInv, ConvTypeOK, Convs
<1>6. Sessions'
  BY <1>2, <1>3, LoadsType DEF TypeInv, Sessions, Inserting
<1> QED
  BY <1>2, <1>3, <1>4, <1>5, <1>6, LoadsType DEF tables, TypeInv, ConvTypeOK, Fresh, AtWork

\* Commits that close a session.
LEMMA LastCommitType ==
    ASSUME TypeInv, NEW r \in Requests, CommitHand(r) \/ RecordReply(r) \/ RecordFollowUp(r)
    PROVE  TypeInv'
<1>1. pc[r] \in AtWork /\ pc[r] \notin Inserting /\ mind[r] \in ConvData /\ now \in Nat
  BY NowIsNat DEF CommitHand, RecordReply, RecordFollowUp, AtWork, Short, Long, Inserting, TypeInv, ConvTypeOK
<1>2. PICK new \in ConvData : Writes(r, new)
  <2>1. [mind[r] EXCEPT !.lastAt = now] \in ConvData
    BY <1>1, TransferredType
  <2> QED
    BY <1>1, <2>1 DEF CommitHand, RecordReply, RecordFollowUp
<1>3. Closes(r) /\ UNCHANGED <<now, known, newcomer, heard, echoed, nudges, mail, sent>>
  BY DEF CommitHand, RecordReply, RecordFollowUp
<1>4. PICK label \in {"done", "idle"} : Goto(r, label)
  BY DEF CommitHand, RecordReply, RecordFollowUp
<1>5. /\ pc' \in [Requests -> AtWork \cup {"idle", "done"}]
      /\ pc'[r] = label /\ \A q \in Requests \ {r} : pc'[q] = pc[q]
  BY <1>4, GotoType
<1>6. newcomer' \in {Nobody} \cup {q \in Convs : pc'[q] \in {"in", "echo"}}
  BY <1>1, <1>3, <1>5 DEF TypeInv, ConvTypeOK, Convs, Inserting
<1>7. Sessions'
  BY <1>3, <1>5, ClosesType DEF TypeInv, Sessions, Inserting, AtWork, Short, Long
<1>8. conv' \in [Convs -> ConvData]
  BY <1>1, <1>2, WritesType
<1> QED
  BY <1>3, <1>5, <1>6, <1>7, <1>8, ClosesType DEF TypeInv, ConvTypeOK, Fresh, AtWork

LEMMA SendReplyType ==
    ASSUME TypeInv, NEW r \in Requests, SendReply(r)
    PROVE  TypeInv'
<1>1. pc[r] = "typing" /\ UNCHANGED <<now, tables, nudges, mail, sent>>
  BY DEF SendReply
<1>2. PICK label \in {"typed", "done"} : Goto(r, label) /\ (label = "typed" => UNCHANGED <<mine, read, mind>>)
                                                       /\ (label = "done" => Closes(r))
  BY DEF SendReply
<1>3. /\ pc' \in [Requests -> AtWork \cup {"idle", "done"}]
      /\ pc'[r] = label /\ \A q \in Requests \ {r} : pc'[q] = pc[q]
  BY <1>2, GotoType DEF AtWork, Long
<1>4. /\ mine' \in [Requests -> Convs \cup {Nobody}]
      /\ read' \in [Requests -> ConvData] /\ mind' \in [Requests -> ConvData]
      /\ \A q \in Requests \ {r} : mine'[q] = mine[q] /\ mind'[q] = mind[q]
      /\ label = "typed" => mine'[r] = mine[r]
  BY <1>2, ClosesType DEF TypeInv, ConvTypeOK
<1>5. newcomer' \in {Nobody} \cup {q \in Convs : pc'[q] \in {"in", "echo"}}
  BY <1>1, <1>3 DEF tables, TypeInv, ConvTypeOK, Convs
<1>6. Sessions'
  BY <1>1, <1>3, <1>4 DEF TypeInv, Sessions, Inserting, AtWork, Short, Long
<1> QED
  BY <1>1, <1>3, <1>4, <1>5, <1>6 DEF tables, TypeInv, ConvTypeOK, Fresh, AtWork

LEMMA FollowUpType ==
    ASSUME TypeInv, NEW r \in Requests, FollowUp(r)
    PROVE  TypeInv'
<1>1. pc[r] = "listed" /\ mine[r] \in Convs /\ mind[r] \in ConvData /\ mind[r].stage \in 0..1 /\ now \in Nat
  BY NowIsNat DEF FollowUp, TypeInv, ConvTypeOK, Sessions, AtWork, Long
<1>2. mind' \in [Requests -> ConvData] /\ \A q \in Requests \ {r} : mind'[q] = mind[q]
  <2>1. [mind[r] EXCEPT !.stage = @ + 1, !.stageAt = now] \in ConvData
    BY <1>1, NextStageType
  <2> QED
    BY <2>1 DEF FollowUp, TypeInv, ConvTypeOK
<1>3. /\ pc' \in [Requests -> AtWork \cup {"idle", "done"}]
      /\ pc'[r] = "mailed" /\ \A q \in Requests \ {r} : pc'[q] = pc[q]
  BY GotoType DEF FollowUp, AtWork, Long
<1>4. newcomer' \in {Nobody} \cup {q \in Convs : pc'[q] \in {"in", "echo"}}
  BY <1>1, <1>3 DEF FollowUp, tables, TypeInv, ConvTypeOK, Convs
<1>5. Sessions'
  BY <1>1, <1>2, <1>3 DEF FollowUp, TypeInv, Sessions, Inserting
<1>6. nudges' \in Nat
  BY DEF FollowUp, TypeInv, ConvTypeOK
<1> QED
  BY <1>2, <1>3, <1>4, <1>5, <1>6 DEF FollowUp, tables, TypeInv, ConvTypeOK, Fresh, AtWork

LEMMA CrashType ==
    ASSUME TypeInv, NEW r \in Requests, Crash(r)
    PROVE  TypeInv'
<1>1. PICK label \in {"done", "idle"} : Goto(r, label)
  BY DEF Crash
<1>2. /\ pc' \in [Requests -> AtWork \cup {"idle", "done"}]
      /\ pc'[r] = label /\ \A q \in Requests \ {r} : pc'[q] = pc[q]
  BY <1>1, GotoType
<1>3. newcomer' \in {Nobody} \cup {q \in Convs : pc'[q] \in {"in", "echo"}}
  BY <1>2 DEF Crash, TypeInv, ConvTypeOK, Convs
<1>4. Sessions'
  BY <1>2, ClosesType DEF Crash, TypeInv, Sessions, Inserting, AtWork, Short, Long
<1>5. mail' \in [Requests -> SUBSET Kinds]
  BY DEF Crash, TypeInv, ConvTypeOK
<1> QED
  BY <1>2, <1>3, <1>4, <1>5, ClosesType DEF Crash, TypeInv, ConvTypeOK, Fresh, AtWork

LEMMA TypeStep == TypeInv /\ [Next]_vars => TypeInv'
<1> SUFFICES ASSUME TypeInv, [Next]_vars PROVE TypeInv'
  OBVIOUS
<1>1. ASSUME NEW r \in Requests, Receive(r) \/ Record(r)
      PROVE  TypeInv'
  BY <1>1, ReceiveType, RecordType
<1>2. ASSUME NEW r \in Requests, Answer(r) \/ Transfer(r) \/ MailShop(r)
      PROVE  TypeInv'
  BY <1>2, TurnType
<1>3. ASSUME NEW r \in Requests, Echo(r) \/ RecordEcho(r)
      PROVE  TypeInv'
  BY <1>3, EchoType, RecordEchoType
<1>4. ASSUME NEW r \in Requests, Take(r) \/ Release(r) \/ Reply(r) \/ ListDue(r)
      PROVE  TypeInv'
  BY <1>4, HandType
<1>5. ASSUME NEW r \in Requests, CommitHand(r) \/ RecordReply(r) \/ RecordFollowUp(r)
      PROVE  TypeInv'
  BY <1>5, LastCommitType
<1>6. ASSUME NEW r \in Requests, SendReply(r) \/ FollowUp(r) \/ Crash(r)
      PROVE  TypeInv'
  BY <1>6, SendReplyType, FollowUpType, CrashType
<1>7. CASE Tick
  <2>1. now' \in 0..Horizon
    BY <1>7, ConversationAssumption DEF Tick, TypeInv, ConvTypeOK
  <2> QED
    BY <1>7, <2>1 DEF Tick, tables, session, TypeInv, ConvTypeOK, Sessions, Fresh
<1>8. CASE UNCHANGED vars
  BY <1>8 DEF vars, tables, session, TypeInv, ConvTypeOK, Sessions, Fresh
<1> QED
  BY <1>1, <1>2, <1>3, <1>4, <1>5, <1>6, <1>7, <1>8 DEF Next

\* Whatever the webhooks, the clicks and the worker do, and whoever dies, every
\* row, session and email is well formed, no conversation goes beyond its second
\* followup, and the number of a new customer is held by a webhook at work on it.
THEOREM ConvTypeCorrect == Spec => []ConvTypeOK
<1>1. TypeInv => ConvTypeOK
  BY DEF TypeInv
<1> QED
  BY TypeInit, TypeStep, <1>1, PTL DEF Spec

-----------------------------------------------------------------------------
(* A customer who was not known has one conversation.                      *)

\* The customer and his conversation appear together.
Together ==
    /\ known => \E c \in Convs : Opened = {c}
    /\ ~known => Opened = {}

\* Sessions at work are in that conversation; before it exists there is but one
\* session, the one that is inserting the customer.
InIt(r) ==
    /\ mind[r].status # "NONE"
    /\ known => mine[r] \in Opened
    /\ ~known => /\ newcomer = r /\ pc[r] \in Inserting
                 /\ mine[r] = r /\ read[r].status = "NONE"

MeetInv == Together /\ \A r \in Requests : pc[r] \in AtWork => InIt(r)

LEMMA WritesOpen ==
    ASSUME TypeInv, NEW r \in Requests, pc[r] \in AtWork, InIt(r),
           NEW new \in ConvData, new.status # "NONE", Writes(r, new)
    PROVE  Opened' = Opened \cup {mine[r]}
<1>1. mine[r] \in Convs /\ conv[mine[r]] \in ConvData /\ read[r] \in ConvData
  BY DEF TypeInv, ConvTypeOK, Sessions
<1>2. conv' = [conv EXCEPT ![mine[r]] = Merge(conv[mine[r]], read[r], new)]
  BY DEF Writes
<1>3. mine[r] \in Opened \/ read[r].status = "NONE"
  BY DEF InIt
<1>4. Merge(conv[mine[r]], read[r], new).status # "NONE"
  BY <1>1, <1>3, MergeFields DEF Opened
<1> QED
  BY <1>1, <1>2, <1>4 DEF Opened, TypeInv, ConvTypeOK

\* A session that begins.
LEMMA LoadMeets ==
    ASSUME TypeInv, MeetInv, NEW r \in Requests, NEW c \in Convs, NEW new \in ConvData,
           Loads(r, c, new), new.status # "NONE", UNCHANGED <<known, conv>>,
           NEW label \in AtWork, Goto(r, label),
           known => c \in Opened,
           ~known => c = r /\ label \in Inserting /\ newcomer = Nobody /\ newcomer' = r
    PROVE  MeetInv'
<1>1. Opened' = Opened /\ known' = known
  BY DEF Opened
<1>2. pc'[r] = label /\ \A q \in Requests \ {r} : pc'[q] = pc[q]
  BY GotoType
<1>3. Together'
  BY <1>1 DEF MeetInv, Together
<1>4. ASSUME NEW q \in Requests, pc'[q] \in AtWork
      PROVE  InIt(q)'
  <2>1. CASE q = r
    <3>1. ~known => conv[c].status = "NONE"
      BY DEF MeetInv, Together, Opened
    <3> QED
      BY <1>1, <1>2, <2>1, <3>1, LoadsType DEF InIt
  <2>2. CASE q # r
    <3>1. pc[q] \in AtWork /\ InIt(q)
      BY <1>2, <1>4, <2>2 DEF MeetInv
    <3>2. known
      BY <3>1, ConversationAssumption DEF InIt
    <3> QED
      BY <1>1, <2>2, <3>1, <3>2, LoadsType DEF InIt
  <2> QED
    BY <2>1, <2>2
<1> QED
  BY <1>3, <1>4 DEF MeetInv

\* A session that writes, and goes on or closes.
LEMMA WriteMeets ==
    ASSUME TypeInv, MeetInv, NEW r \in Requests, pc[r] \in AtWork,
           NEW new \in ConvData, new.status # "NONE", Writes(r, new),
           NEW label \in AtWork \cup {"idle", "done"}, Goto(r, label), known',
           \A q \in Requests \ {r} : mine'[q] = mine[q] /\ mind'[q] = mind[q],
           label \in AtWork => mine'[r] = mine[r] /\ mind'[r].status # "NONE"
    PROVE  MeetInv'
<1>1. InIt(r) /\ mine[r] \in Convs
  BY DEF MeetInv, TypeInv, Sessions
<1>2. Opened' = Opened \cup {mine[r]}
  BY <1>1, WritesOpen
<1>3. Opened' = {mine[r]}
  BY <1>1, <1>2 DEF MeetInv, Together, InIt
<1>4. pc'[r] = label /\ \A q \in Requests \ {r} : pc'[q] = pc[q]
  BY GotoType
<1>5. ASSUME NEW q \in Requests, pc'[q] \in AtWork
      PROVE  InIt(q)'
  <2>1. CASE q = r
    BY <1>3, <1>4, <1>5, <2>1 DEF InIt
  <2>2. CASE q # r
    <3>1. pc[q] \in AtWork /\ InIt(q)
      BY <1>4, <1>5, <2>2 DEF MeetInv
    <3>2. mine[q] \in Opened
      BY <1>1, <2>2, <3>1 DEF InIt
    <3> QED
      BY <1>2, <2>2, <3>1, <3>2 DEF InIt
  <2> QED
    BY <2>1, <2>2
<1> QED
  BY <1>1, <1>3, <1>5 DEF MeetInv, Together

\* A session that goes on or closes without a write.
LEMMA MoveMeets ==
    ASSUME TypeInv, MeetInv, NEW r \in Requests, UNCHANGED <<known, conv>>,
           NEW label \in AtWork \cup {"idle", "done"}, Goto(r, label),
           \A q \in Requests \ {r} : mine'[q] = mine[q] /\ mind'[q] = mind[q] /\ read'[q] = read[q],
           \A q \in Requests \ {r} : newcomer = q => newcomer' = q,
           label \in AtWork => /\ pc[r] \in AtWork \ Inserting
                              /\ mine'[r] = mine[r] /\ mind'[r].status # "NONE"
    PROVE  MeetInv'
<1>1. Opened' = Opened /\ known' = known
  BY DEF Opened
<1>2. pc'[r] = label /\ \A q \in Requests \ {r} : pc'[q] = pc[q]
  BY GotoType
<1>3. ASSUME NEW q \in Requests, pc'[q] \in AtWork
      PROVE  InIt(q)'
  <2>1. CASE q = r
    BY <1>1, <1>2, <1>3, <2>1 DEF MeetInv, InIt
  <2>2. CASE q # r
    <3>1. pc[q] \in AtWork /\ InIt(q)
      BY <1>2, <1>3, <2>2 DEF MeetInv
    <3> QED
      BY <1>1, <1>2, <2>2, <3>1 DEF InIt
  <2> QED
    BY <2>1, <2>2
<1> QED
  BY <1>1, <1>3 DEF MeetInv, Together

LEMMA ArrivalMeets ==
    ASSUME TypeInv, MeetInv, NEW r \in Requests, Receive(r) \/ Echo(r)
    PROVE  MeetInv'
<1>1. r \in Convs /\ now \in Nat /\ Customer(r) /\ UNCHANGED <<known, conv>> /\ pc[r] = "idle"
  BY NowIsNat DEF Receive, Echo, Arrives, Convs, TypeInv, ConvTypeOK
<1>2. ASSUME NEW c \in Convs, Meets(r, c)
      PROVE  /\ known => c \in Opened
             /\ ~known => c = r /\ newcomer = Nobody /\ newcomer' = r
  BY <1>1, <1>2 DEF Meets, Customer, MeetInv, Together
<1>3. CASE Receive(r)
  <2>1. PICK c \in Convs : Meets(r, c) /\
           LET row == Writing(RowOf(c)) IN Loads(r, c, row) \/ Loads(r, c, Reminded(row))
    BY <1>3 DEF Receive
  <2>2. PICK new \in ConvData : new.status # "NONE" /\ Loads(r, c, new)
    BY <1>1, <2>1, RowOfType, WritingType DEF TypeInv, ConvTypeOK
  <2>3. Goto(r, "in") /\ "in" \in AtWork /\ "in" \in Inserting
    BY <1>3 DEF Receive, AtWork, Short, Inserting
  <2> QED
    BY <1>1, <1>2, <2>1, <2>2, <2>3, LoadMeets
<1>4. CASE Echo(r)
  <2>1. PICK c \in Convs : Meets(r, c) /\
           IF AlreadyRecorded(r, c)
             THEN Goto(r, "done") /\ UNCHANGED <<mine, read, mind>>
             ELSE Goto(r, "echo") /\ Loads(r, c, Paused(RowOf(c)))
    BY <1>4 DEF Echo
  <2>2. CASE AlreadyRecorded(r, c)
    <3>1. known
      BY <2>2 DEF AlreadyRecorded, TypeInv, Fresh
    <3>2. newcomer' = newcomer
      BY <1>1, <3>1 DEF Customer
    <3>3. Goto(r, "done") /\ UNCHANGED <<mine, read, mind>> /\ "done" \notin AtWork
      BY <2>1, <2>2 DEF AtWork, Short, Long
    <3> QED
      BY <1>1, <3>2, <3>3, MoveMeets
  <2>3. CASE ~ AlreadyRecorded(r, c)
    <3>1. Paused(RowOf(c)) \in ConvData /\ Paused(RowOf(c)).status # "NONE"
      BY <1>1, RowOfType, PausedType DEF TypeInv, ConvTypeOK
    <3>2. Goto(r, "echo") /\ "echo" \in AtWork /\ "echo" \in Inserting
      BY <2>1, <2>3 DEF AtWork, Short, Inserting
    <3> QED
      BY <1>1, <1>2, <2>1, <2>3, <3>1, <3>2, LoadMeets
  <2> QED
    BY <2>2, <2>3
<1> QED
  BY <1>3, <1>4

LEMMA HandMeets ==
    ASSUME TypeInv, MeetInv, NEW r \in Requests, Take(r) \/ Release(r) \/ Reply(r) \/ ListDue(r)
    PROVE  MeetInv'
<1>1. Opened \subseteq Convs /\ \A c \in Opened : conv[c] \in ConvData /\ conv[c].status # "NONE"
  BY DEF Opened, TypeInv, ConvTypeOK
<1>2. UNCHANGED <<known, conv>>
  BY DEF Take, Release, Reply, ListDue, tables
<1>3. PICK label \in {"taking", "giving", "typing", "listed"} : Goto(r, label)
  BY DEF Take, Release, Reply, ListDue
<1>4. PICK c \in Opened :
         \/ Loads(r, c, [conv[c] EXCEPT !.status = "WAITING_HUMAN", !.agent = User[r]])
         \/ Loads(r, c, [conv[c] EXCEPT !.status = "ACTIVE", !.agent = Nobody, !.phoneAt = Never])
         \/ Loads(r, c, conv[c])
  BY DEF Take, Release, Reply, ListDue
<1>5. PICK new \in ConvData : new.status # "NONE" /\ Loads(r, c, new)
  BY <1>1, <1>4, TakenType
<1>6. known
  BY DEF MeetInv, Together
<1>7. label \in AtWork
  BY <1>3 DEF AtWork, Short, Long
<1> QED
  BY <1>1, <1>2, <1>3, <1>5, <1>6, <1>7, LoadMeets

LEMMA CommitMeets ==
    ASSUME TypeInv, MeetInv, NEW r \in Requests,
           \/ Record(r) \/ RecordEcho(r) \/ Transfer(r)
           \/ CommitHand(r) \/ RecordReply(r) \/ RecordFollowUp(r)
    PROVE  MeetInv'
<1>1. pc[r] \in AtWork /\ mind[r] \in ConvData /\ now \in Nat
  BY NowIsNat DEF Record, RecordEcho, Transfer, CommitHand, RecordReply, RecordFollowUp,
     AtWork, Short, Long, TypeInv, ConvTypeOK
<1>2. InIt(r)
  BY <1>1 DEF MeetInv
<1>3. mind[r].status # "NONE"
  BY <1>2 DEF InIt
<1>4. PICK label \in AtWork \cup {"idle", "done"} : Goto(r, label)
  BY DEF Record, RecordEcho, Transfer, CommitHand, RecordReply, RecordFollowUp, AtWork, Long
<1>5. known'
  <2>1. CASE Record(r) \/ RecordEcho(r)
    BY <2>1 DEF Record, RecordEcho, Commits
  <2>2. CASE ~(Record(r) \/ RecordEcho(r))
    <3>1. pc[r] \notin Inserting /\ known' = known
      BY <2>2 DEF Transfer, CommitHand, RecordReply, RecordFollowUp, Inserting
    <3> QED
      BY <1>2, <3>1 DEF InIt, TypeInv, ConvTypeOK
  <2> QED
    BY <2>1, <2>2
<1>6. CASE Record(r)
  BY <1>1, <1>3, <1>4, <1>5, <1>6, WriteMeets DEF Record
<1>7. CASE Transfer(r)
  <2>1. PICK new \in ConvData : new.status # "NONE" /\ mind' = [mind EXCEPT ![r] = new] /\ Writes(r, mind'[r])
    <3> DEFINE new == [mind[r] EXCEPT !.status = "WAITING_HUMAN", !.alertAt = now]
    <3>1. new \in ConvData /\ new.status # "NONE"
      BY <1>1, TransferredType
    <3>2. mind' = [mind EXCEPT ![r] = new] /\ Writes(r, mind'[r])
      BY <1>7 DEF Transfer, Announced
    <3> HIDE DEF new
    <3> QED
      BY <3>1, <3>2
  <2>2. mind'[r] = new /\ \A q \in Requests \ {r} : mind'[q] = mind[q]
    BY <2>1 DEF TypeInv, ConvTypeOK
  <2>3. mine' = mine
    BY <1>7 DEF Transfer
  <2> QED
    BY <1>1, <1>4, <1>5, <2>1, <2>2, <2>3, WriteMeets
<1>8. CASE RecordEcho(r) \/ CommitHand(r) \/ RecordReply(r) \/ RecordFollowUp(r)
  <2>1. PICK new \in ConvData : new.status # "NONE" /\ Writes(r, new)
    BY <1>1, <1>3, <1>8, TransferredType DEF RecordEcho, CommitHand, RecordReply, RecordFollowUp
  <2>2. PICK last \in {"idle", "done"} : Goto(r, last)
    BY <1>8 DEF RecordEcho, CommitHand, RecordReply, RecordFollowUp
  <2>3. Closes(r) /\ last \notin AtWork
    BY <1>8, <2>2 DEF RecordEcho, CommitHand, RecordReply, RecordFollowUp, AtWork, Short, Long
  <2> QED
    BY <1>1, <1>5, <2>1, <2>2, <2>3, ClosesType, WriteMeets
<1> QED
  BY <1>6, <1>7, <1>8

LEMMA OtherMeets ==
    ASSUME TypeInv, MeetInv, NEW r \in Requests,
           Answer(r) \/ MailShop(r) \/ SendReply(r) \/ FollowUp(r) \/ Crash(r)
    PROVE  MeetInv'
<1>1. UNCHANGED <<known, conv>>
  BY DEF Answer, MailShop, SendReply, FollowUp, Crash, tables
<1>2. \A q \in Requests \ {r} : newcomer = q => newcomer' = q
  BY DEF Answer, MailShop, SendReply, FollowUp, Crash, tables
<1>3. pc[r] \in AtWork /\ InIt(r)
  BY DEF Answer, MailShop, SendReply, FollowUp, Crash, AtWork, Short, Long, MeetInv
<1>4. CASE Closes(r) /\ \E label \in {"idle", "done"} : Goto(r, label)
  <2>1. PICK label \in {"idle", "done"} : Goto(r, label)
    BY <1>4
  <2>2. label \notin AtWork
    BY DEF AtWork, Short, Long
  <2> QED
    BY <1>1, <1>2, <1>4, <2>1, <2>2, ClosesType, MoveMeets
<1>5. CASE Answer(r) \/ (SendReply(r) /\ UNCHANGED <<mine, read, mind>> /\ Goto(r, "typed"))
  <2>1. PICK label \in {"mailing", "typed"} : Goto(r, label)
    BY <1>5 DEF Answer
  <2>2. label \in AtWork /\ pc[r] \notin Inserting /\ UNCHANGED <<mine, read, mind>>
    BY <1>5 DEF Answer, SendReply, session, AtWork, Long, Inserting
  <2> QED
    BY <1>1, <1>2, <1>3, <2>1, <2>2, MoveMeets DEF InIt
<1>6. CASE FollowUp(r)
  <2>1. pc[r] = "listed" /\ mind[r] \in ConvData /\ mind[r].stage \in 0..1 /\ now \in Nat
    BY <1>6, <1>3, NowIsNat DEF FollowUp, TypeInv, ConvTypeOK, Sessions
  <2>2. PICK new \in ConvData : new.status = mind[r].status /\ mind' = [mind EXCEPT ![r] = new]
    BY <1>6, <2>1, NextStageType DEF FollowUp
  <2>3. mind'[r] = new /\ \A q \in Requests \ {r} : mind'[q] = mind[q]
    BY <2>2 DEF TypeInv, ConvTypeOK
  <2>4. Goto(r, "mailed") /\ "mailed" \in AtWork /\ pc[r] \notin Inserting /\ UNCHANGED <<mine, read>>
    BY <1>6, <2>1 DEF FollowUp, AtWork, Long, Inserting
  <2> QED
    BY <1>1, <1>2, <1>3, <2>2, <2>3, <2>4, MoveMeets DEF InIt
<1> QED
  BY <1>4, <1>5, <1>6 DEF Answer, MailShop, SendReply, Crash

LEMMA MeetInit == ~KnownAtStart /\ Init => MeetInv
  BY DEF Init, MeetInv, Together, Opened, NoConv, AtWork, Short, Long

LEMMA MeetStep == TypeInv /\ MeetInv /\ [Next]_vars => MeetInv'
<1> SUFFICES ASSUME TypeInv, MeetInv, [Next]_vars PROVE MeetInv'
  OBVIOUS
<1>1. ASSUME NEW r \in Requests, Receive(r) \/ Echo(r)
      PROVE  MeetInv'
  BY <1>1, ArrivalMeets
<1>2. ASSUME NEW r \in Requests, Take(r) \/ Release(r) \/ Reply(r) \/ ListDue(r)
      PROVE  MeetInv'
  BY <1>2, HandMeets
<1>3. ASSUME NEW r \in Requests,
             \/ Record(r) \/ RecordEcho(r) \/ Transfer(r)
             \/ CommitHand(r) \/ RecordReply(r) \/ RecordFollowUp(r)
      PROVE  MeetInv'
  BY <1>3, CommitMeets
<1>4. ASSUME NEW r \in Requests, Answer(r) \/ MailShop(r) \/ SendReply(r) \/ FollowUp(r) \/ Crash(r)
      PROVE  MeetInv'
  BY <1>4, OtherMeets
<1>5. CASE Tick \/ UNCHANGED vars
  <2>1. UNCHANGED <<known, newcomer, conv, pc, mine, read, mind>>
    BY <1>5 DEF Tick, vars, tables, session
  <2> QED
    BY <2>1 DEF MeetInv, Together, InIt, Opened
<1> QED
  BY <1>1, <1>2, <1>3, <1>4, <1>5 DEF Next

\* However many webhooks of a new customer meet, however often Meta delivers
\* them again and whichever of them dies, they end up in one conversation.
THEOREM NewCustomerHasOneConversation == ~KnownAtStart /\ Spec => []OneConversation
<1>1. MeetInv => OneConversation
  <2> SUFFICES ASSUME MeetInv PROVE Cardinality(Opened) <= 1
    BY DEF OneConversation
  <2>1. Opened = {} \/ \E c \in Convs : Opened = {c}
    BY DEF MeetInv, Together
  <2>2. CASE Opened = {}
    <3>1. Cardinality(Opened) = 0
      BY <2>2, FS_EmptySet
    <3> QED
      BY <3>1
  <2>3. ASSUME NEW c \in Convs, Opened = {c}
        PROVE  Cardinality(Opened) <= 1
    <3>1. Cardinality(Opened) = 1
      BY <2>3, FS_Singleton
    <3> QED
      BY <3>1
  <2> QED
    BY <2>1, <2>2, <2>3
<1> QED
  BY TypeInit, TypeStep, MeetInit, MeetStep, <1>1, PTL DEF Spec

-----------------------------------------------------------------------------
(* What a step does to the session of one request.                         *)

Do(r) ==
    \/ Receive(r) \/ Record(r) \/ Answer(r) \/ Transfer(r) \/ MailShop(r)
    \/ Echo(r) \/ RecordEcho(r) \/ Take(r) \/ Release(r) \/ CommitHand(r)
    \/ Reply(r) \/ SendReply(r) \/ RecordReply(r)
    \/ ListDue(r) \/ FollowUp(r) \/ RecordFollowUp(r)
    \/ Crash(r)

SamePlace(q) ==
    /\ pc'[q] = pc[q] /\ mine'[q] = mine[q] /\ read'[q] = read[q]
    /\ mind'[q] = mind[q] /\ mail'[q] = mail[q]

LEMMA OthersStay ==
    ASSUME TypeInv, NEW r \in Requests, Do(r)
    PROVE  \A q \in Requests \ {r} : SamePlace(q)
<1> TAKE q \in Requests \ {r}
<1> USE DEF SamePlace, TypeInv, ConvTypeOK, Goto
<1>1. ASSUME Receive(r) PROVE SamePlace(q)
  BY <1>1 DEF Receive, Loads
<1>2. ASSUME Record(r) PROVE SamePlace(q)
  BY <1>2 DEF Record
<1>3. ASSUME Answer(r) PROVE SamePlace(q)
  BY <1>3 DEF Answer, session
<1>4. ASSUME Transfer(r) PROVE SamePlace(q)
  BY <1>4 DEF Transfer, Announced
<1>5. ASSUME MailShop(r) PROVE SamePlace(q)
  BY <1>5 DEF MailShop, Closes
<1>6. ASSUME Echo(r) PROVE SamePlace(q)
  BY <1>6 DEF Echo, Loads
<1>7. ASSUME RecordEcho(r) PROVE SamePlace(q)
  BY <1>7 DEF RecordEcho, Closes
<1>8. ASSUME Take(r) PROVE SamePlace(q)
  BY <1>8 DEF Take, Loads
<1>9. ASSUME Release(r) PROVE SamePlace(q)
  BY <1>9 DEF Release, Loads
<1>10. ASSUME CommitHand(r) PROVE SamePlace(q)
  BY <1>10 DEF CommitHand, Closes
<1>11. ASSUME Reply(r) PROVE SamePlace(q)
  BY <1>11 DEF Reply, Loads
<1>12. ASSUME SendReply(r) PROVE SamePlace(q)
  BY <1>12 DEF SendReply, Closes
<1>13. ASSUME RecordReply(r) PROVE SamePlace(q)
  BY <1>13 DEF RecordReply, Closes
<1>14. ASSUME ListDue(r) PROVE SamePlace(q)
  BY <1>14 DEF ListDue, Loads
<1>15. ASSUME FollowUp(r) PROVE SamePlace(q)
  BY <1>15 DEF FollowUp
<1>16. ASSUME RecordFollowUp(r) PROVE SamePlace(q)
  BY <1>16 DEF RecordFollowUp, Closes
<1>17. ASSUME Crash(r) PROVE SamePlace(q)
  BY <1>17 DEF Crash, Closes
<1> QED
  BY <1>1, <1>2, <1>3, <1>4, <1>5, <1>6, <1>7, <1>8, <1>9, <1>10, <1>11, <1>12, <1>13, <1>14, <1>15,
     <1>16, <1>17 DEF Do

Begins(r, c, label) ==
    /\ pc[r] = "idle" /\ pc'[r] = label
    /\ known => Cardinality({q \in Requests : pc[q] \in Short}) < MaxOpen
    /\ mine'[r] = c /\ read'[r] = conv[c] /\ mind'[r] \in ConvData
    /\ UNCHANGED <<now, known, conv, echoed, nudges, sent>>

Announces(r) == known \/ (newcomer = Nobody /\ newcomer' = r)
Hears(r, c) ==
    /\ Begins(r, c, "in") /\ Announces(r) /\ mind'[r].agent = conv[c].agent /\ mind'[r].stage = 0
    /\ \/ /\ mail'[r] = {}
          /\ mind'[r].phoneAt = conv[c].phoneAt /\ mind'[r].alertAt = conv[c].alertAt
          /\ mind'[r].status = IF conv[c].status = "NONE" THEN "ACTIVE" ELSE conv[c].status
       \/ /\ mail'[r] = {} /\ ResumeDue(conv[c])
          /\ mind'[r].phoneAt = Never /\ mind'[r].alertAt = Never /\ mind'[r].status = "ACTIVE"
       \/ /\ mail'[r] = {"reminder"} /\ ReminderDue(conv[c])
          /\ mind'[r].phoneAt = Never /\ mind'[r].alertAt = now /\ mind'[r].status = "WAITING_HUMAN"
Pauses(r, c) ==
    /\ Begins(r, c, "echo") /\ Announces(r) /\ ~ AlreadyRecorded(r, c)
    /\ mind'[r].status = "WAITING_HUMAN" /\ mind'[r].agent = conv[c].agent /\ mind'[r].phoneAt = now
    /\ mind'[r].alertAt = conv[c].alertAt /\ mind'[r].stage = conv[c].stage
TakesOver(r, c) ==
    /\ Begins(r, c, "taking") /\ conv[c].status # "NONE"
    /\ mind'[r].status = "WAITING_HUMAN" /\ mind'[r].agent # Nobody /\ mind'[r].phoneAt = conv[c].phoneAt
    /\ mind'[r].alertAt = conv[c].alertAt /\ mind'[r].stage = conv[c].stage
GivesBack(r, c) ==
    /\ Begins(r, c, "giving") /\ conv[c].status # "NONE"
    /\ mind'[r].status = "ACTIVE" /\ mind'[r].agent = Nobody /\ mind'[r].phoneAt = Never
    /\ mind'[r].alertAt = conv[c].alertAt /\ mind'[r].stage = conv[c].stage
Opens(r, c) ==
    /\ conv[c].status # "NONE" /\ mind'[r] = conv[c]
    /\ \/ Begins(r, c, "typing")
       \/ Begins(r, c, "listed") /\ "relauncher" \in Role[r] /\ conv[c].stage \in 0..1

Stays(r) == mine'[r] = mine[r] /\ read'[r] = read[r] /\ mail'[r] = mail[r]
Puts(r, new) == new \in ConvData /\ conv' = [conv EXCEPT ![mine[r]] = Merge(@, read[r], new)]
Enters(r) ==
    /\ pc[r] = "in" /\ pc'[r] = (IF mind[r].status = "ACTIVE" THEN "thinking" ELSE "mailing")
    /\ Puts(r, mind[r]) /\ nudges' = 0
    /\ mine'[r] = mine[r] /\ read'[r] = mind[r] /\ mind'[r] = mind[r] /\ mail'[r] = mail[r]
    /\ known' /\ UNCHANGED <<now, echoed, sent>>
Notes(r) ==
    /\ pc[r] = "echo" /\ pc'[r] = "done" /\ Puts(r, mind[r])
    /\ echoed' = [echoed EXCEPT ![mine[r]] = @ \cup {r}]
    /\ known' /\ UNCHANGED <<now, nudges, sent>>
Settles(r) ==
    /\ pc[r] \in {"taking", "giving", "mailed"} /\ pc'[r] \in {"idle", "done"}
    /\ pc'[r] = "idle" <=> pc[r] = "mailed"
    /\ Puts(r, mind[r])
    /\ UNCHANGED <<now, known, echoed, nudges, sent>>
Replies(r) ==
    /\ pc[r] = "typed" /\ pc'[r] = "done"
    /\ \E new : /\ Puts(r, new) /\ new.status = mind[r].status /\ new.agent = mind[r].agent
                /\ new.phoneAt = mind[r].phoneAt /\ new.alertAt = mind[r].alertAt /\ new.stage = mind[r].stage
    /\ UNCHANGED <<now, known, echoed, nudges, sent>>
HandsOver(r) ==
    /\ pc[r] = "thinking" /\ pc'[r] = "mailing"
    /\ mind'[r].status = "WAITING_HUMAN" /\ mind'[r].alertAt = now /\ mind'[r].agent = mind[r].agent
    /\ mind'[r].phoneAt = mind[r].phoneAt /\ mind'[r].stage = mind[r].stage
    /\ mine'[r] = mine[r] /\ read'[r] = read[r] /\ mail'[r] = mail[r] \cup {"alert"}
    /\ \E new : Puts(r, new) /\ new = mind'[r]
    /\ UNCHANGED <<now, known, echoed, nudges, sent>>
GoesOn(r) ==
    /\ \/ pc[r] = "thinking" /\ pc'[r] = "mailing"
       \/ pc[r] = "typing" /\ pc'[r] = "typed"
    /\ Stays(r) /\ mind'[r] = mind[r]
    /\ UNCHANGED <<now, known, conv, echoed, nudges, sent>>
Nudges(r) ==
    /\ pc[r] = "listed" /\ pc'[r] = "mailed" /\ nudges' \in {nudges, nudges + 1}
    /\ mind'[r].stage = mind[r].stage + 1
    /\ mind'[r].status = mind[r].status /\ mind'[r].agent = mind[r].agent /\ mind'[r].phoneAt = mind[r].phoneAt
    /\ mind'[r].alertAt = mind[r].alertAt
    /\ Stays(r)
    /\ UNCHANGED <<now, known, conv, echoed, sent>>
Posts(r) ==
    /\ pc[r] = "mailing" /\ pc'[r] = "done"
    /\ sent' = sent \cup {[kind |-> k, conv |-> mine[r], by |-> r, at |-> mind[r].alertAt] : k \in mail[r]}
    /\ UNCHANGED <<now, known, conv, echoed, nudges>>
Leaves(r) ==
    /\ pc'[r] \in {"idle", "done"}
    /\ pc[r] \in AtWork \/ known
    /\ pc[r] \in AtWork \ {"typing"} => r \in Fragile
    /\ UNCHANGED <<now, known, conv, echoed, nudges, sent>>

ConvStep(r) ==
    \/ \E c \in Convs : Hears(r, c) \/ Pauses(r, c) \/ TakesOver(r, c) \/ GivesBack(r, c) \/ Opens(r, c)
    \/ Enters(r) \/ Notes(r) \/ Settles(r) \/ Replies(r) \/ HandsOver(r)
    \/ GoesOn(r) \/ Nudges(r) \/ Posts(r) \/ Leaves(r)

\* A conversation that is not opened yet is blank.
Blank == \A c \in Convs : conv[c].status = "NONE" => conv[c] = NoConv

-----------------------------------------------------------------------------
(* Every step is one of these.                                             *)

LEMMA RowOfFields ==
    ASSUME TypeInv, Blank, NEW c \in Convs
    PROVE  /\ RowOf(c).agent = conv[c].agent /\ RowOf(c).phoneAt = conv[c].phoneAt
           /\ RowOf(c).alertAt = conv[c].alertAt
           /\ RowOf(c).status = IF conv[c].status = "NONE" THEN "ACTIVE" ELSE conv[c].status
<1>1. CASE conv[c].status = "NONE"
  <2>1. RowOf(c) = NewConv /\ conv[c] = NoConv
    BY <1>1 DEF RowOf, Opened, Blank
  <2> QED
    BY <2>1 DEF NewConv, NoConv
<1>2. CASE conv[c].status # "NONE"
  BY <1>2 DEF RowOf, Opened
<1> QED
  BY <1>1, <1>2

LEMMA WritingFields ==
    ASSUME NEW row \in ConvData
    PROVE  /\ Writing(row).agent = row.agent /\ Writing(row).stage = 0
           /\ ~ ResumeDue(row) => /\ Writing(row).status = row.status
                                  /\ Writing(row).phoneAt = row.phoneAt
                                  /\ Writing(row).alertAt = row.alertAt
           /\ ResumeDue(row) => /\ Writing(row).status = "ACTIVE"
                                /\ Writing(row).phoneAt = Never
                                /\ Writing(row).alertAt = Never
<1> DEFINE R == Resumed(row)
<1>1. /\ R.agent = row.agent
      /\ ~ ResumeDue(row) => R = row
      /\ ResumeDue(row) => R.status = "ACTIVE" /\ R.phoneAt = Never /\ R.alertAt = Never
      /\ DOMAIN R = DOMAIN row
  BY DEF Resumed, ConvData
<1>2. Writing(row) = [R EXCEPT !.stage = 0, !.stageAt = IF row.stage = 0 THEN @ ELSE Never]
  BY DEF Writing
<1> HIDE DEF R
<1>3. DOMAIN R = {"status", "agent", "phoneAt", "alertAt", "lastAt", "stage", "stageAt"}
  BY <1>1 DEF ConvData
<1> QED
  BY <1>1, <1>2, <1>3

LEMMA RemindedFields ==
    ASSUME NEW row \in ConvData
    PROVE  /\ Reminded(row).agent = row.agent /\ Reminded(row).stage = row.stage
           /\ Reminded(row).status = row.status /\ Reminded(row).phoneAt = row.phoneAt
           /\ Reminded(row).alertAt = now
  BY DEF Reminded, ConvData

LEMMA ReceiveStep ==
    ASSUME TypeInv, Blank, NEW r \in Requests, Receive(r)
    PROVE  \E c \in Convs : Hears(r, c)
<1>1. now \in Nat
  BY NowIsNat DEF TypeInv, ConvTypeOK
<1>2. PICK c \in Convs :
         LET row == Writing(RowOf(c)) IN
         \/ ReminderDue(row) /\ Loads(r, c, Reminded(row)) /\ mail' = [mail EXCEPT ![r] = {"reminder"}]
         \/ Loads(r, c, row) /\ mail' = [mail EXCEPT ![r] = {}]
  BY DEF Receive
<1> DEFINE row == RowOf(c)
           w   == Writing(row)
<1>3. row \in ConvData /\ w \in ConvData /\ Reminded(w) \in ConvData
  BY <1>1, RowOfType, WritingType DEF TypeInv, ConvTypeOK
<1>4. /\ row.agent = conv[c].agent /\ row.phoneAt = conv[c].phoneAt /\ row.alertAt = conv[c].alertAt
      /\ row.status = IF conv[c].status = "NONE" THEN "ACTIVE" ELSE conv[c].status
  BY RowOfFields
<1>5. ResumeDue(row) <=> ResumeDue(conv[c])
  BY <1>4 DEF ResumeDue
<1>6. /\ w.agent = conv[c].agent /\ w.stage = 0
      /\ ~ ResumeDue(conv[c]) => /\ w.status = row.status /\ w.phoneAt = row.phoneAt /\ w.alertAt = row.alertAt
      /\ ResumeDue(conv[c]) => w.status = "ACTIVE" /\ w.phoneAt = Never /\ w.alertAt = Never
  BY <1>3, <1>4, <1>5, WritingFields
<1>7. /\ pc[r] = "idle" /\ pc'[r] = "in"
      /\ known => Cardinality({q \in Requests : pc[q] \in Short}) < MaxOpen
      /\ UNCHANGED <<now, known, conv, echoed, nudges, sent>>
      /\ Announces(r)
  BY DEF Receive, Arrives, Customer, Announces, Goto, TypeInv, ConvTypeOK
<1>8. CASE ReminderDue(w) /\ Loads(r, c, Reminded(w)) /\ mail' = [mail EXCEPT ![r] = {"reminder"}]
  <2>1. mine'[r] = c /\ read'[r] = conv[c] /\ mind'[r] = Reminded(w)
    BY <1>3, <1>8, LoadsType
  <2>2. mail'[r] = {"reminder"}
    BY <1>8 DEF TypeInv, ConvTypeOK
  <2>3. /\ Reminded(w).agent = w.agent /\ Reminded(w).stage = w.stage /\ Reminded(w).status = w.status
        /\ Reminded(w).phoneAt = w.phoneAt /\ Reminded(w).alertAt = now
    BY <1>3, RemindedFields
  <2>4. w.status = "WAITING_HUMAN" /\ w.phoneAt = Never /\ w.agent = Nobody
    BY <1>8 DEF ReminderDue
  <2>5. ~ ResumeDue(conv[c]) /\ conv[c].status = "WAITING_HUMAN"
    BY <1>4, <1>6, <2>4
  <2>6. ReminderDue(conv[c])
    BY <1>4, <1>6, <1>8, <2>5 DEF ReminderDue
  <2> HIDE DEF w, row
  <2>7. Begins(r, c, "in")
    BY <1>3, <1>7, <2>1 DEF Begins
  <2> QED
    BY <1>6, <1>7, <2>1, <2>2, <2>3, <2>4, <2>6, <2>7 DEF Hears
<1>9. CASE Loads(r, c, w) /\ mail' = [mail EXCEPT ![r] = {}]
  <2>1. mine'[r] = c /\ read'[r] = conv[c] /\ mind'[r] = w
    BY <1>3, <1>9, LoadsType
  <2>2. mail'[r] = {}
    BY <1>9 DEF TypeInv, ConvTypeOK
  <2> HIDE DEF w, row
  <2>7. Begins(r, c, "in")
    BY <1>3, <1>7, <2>1 DEF Begins
  <2> QED
    BY <1>4, <1>6, <1>7, <2>1, <2>2, <2>7 DEF Hears
<1> QED
  BY <1>2, <1>8, <1>9

LEMMA PausedFields ==
    ASSUME NEW row \in ConvData
    PROVE  /\ Paused(row).status = "WAITING_HUMAN" /\ Paused(row).agent = row.agent
           /\ Paused(row).phoneAt = now /\ Paused(row).alertAt = row.alertAt /\ Paused(row).stage = row.stage
  BY DEF Paused, ConvData

LEMMA EchoStep ==
    ASSUME TypeInv, Blank, NEW r \in Requests, Echo(r)
    PROVE  Leaves(r) \/ \E c \in Convs : Pauses(r, c)
<1>1. now \in Nat
  BY NowIsNat DEF TypeInv, ConvTypeOK
<1>2. PICK c \in Convs :
         IF AlreadyRecorded(r, c)
           THEN Goto(r, "done") /\ UNCHANGED <<mine, read, mind>>
           ELSE Goto(r, "echo") /\ Loads(r, c, Paused(RowOf(c)))
  BY DEF Echo
<1>3. /\ pc[r] = "idle"
      /\ known => Cardinality({q \in Requests : pc[q] \in Short}) < MaxOpen
      /\ UNCHANGED <<now, known, conv, echoed, nudges, sent>>
      /\ Announces(r)
  BY DEF Echo, Arrives, Customer, Announces, TypeInv, ConvTypeOK
<1>4. CASE AlreadyRecorded(r, c)
  <2>1. known
    BY <1>4 DEF AlreadyRecorded, TypeInv, Fresh
  <2>2. pc'[r] = "done"
    BY <1>2, <1>4 DEF Goto, TypeInv, ConvTypeOK
  <2> QED
    BY <1>3, <2>1, <2>2 DEF Leaves, AtWork, Short, Long
<1>5. CASE ~ AlreadyRecorded(r, c)
  <2> DEFINE row == RowOf(c)
  <2>1. row \in ConvData /\ Paused(row) \in ConvData
    BY <1>1, RowOfType, PausedType DEF TypeInv, ConvTypeOK
  <2>2. mine'[r] = c /\ read'[r] = conv[c] /\ mind'[r] = Paused(row) /\ pc'[r] = "echo"
    BY <1>2, <1>5, <2>1, LoadsType DEF Goto, TypeInv, ConvTypeOK
  <2>3. row.agent = conv[c].agent /\ row.alertAt = conv[c].alertAt /\ row.stage = conv[c].stage
    <3>1. CASE conv[c].status = "NONE"
      <4>1. RowOf(c) = NewConv /\ conv[c] = NoConv
        BY <3>1 DEF RowOf, Opened, Blank
      <4> QED
        BY <4>1 DEF NewConv, NoConv
    <3>2. CASE conv[c].status # "NONE"
      BY <3>2 DEF RowOf, Opened
    <3> QED
      BY <3>1, <3>2
  <2>4. /\ Paused(row).status = "WAITING_HUMAN" /\ Paused(row).agent = row.agent
        /\ Paused(row).phoneAt = now /\ Paused(row).alertAt = row.alertAt /\ Paused(row).stage = row.stage
    BY <2>1, PausedFields
  <2> HIDE DEF row
  <2>5. Begins(r, c, "echo")
    BY <1>3, <2>1, <2>2 DEF Begins
  <2> QED
    BY <1>3, <1>5, <2>2, <2>3, <2>4, <2>5 DEF Pauses
<1> QED
  BY <1>4, <1>5

LEMMA HandStep ==
    ASSUME TypeInv, NEW r \in Requests, Take(r) \/ Release(r) \/ Reply(r) \/ ListDue(r)
    PROVE  \E c \in Convs : TakesOver(r, c) \/ GivesBack(r, c) \/ Opens(r, c)
<1>1. \A c \in Opened : c \in Convs /\ conv[c] \in ConvData /\ conv[c].status # "NONE"
  BY DEF Opened, TypeInv, ConvTypeOK
<1>2. /\ pc[r] = "idle"
      /\ known => Cardinality({q \in Requests : pc[q] \in Short}) < MaxOpen
      /\ UNCHANGED <<now, known, conv, echoed, nudges, sent>>
  BY DEF Take, Release, Reply, ListDue, Arrives, tables
<1>3. ASSUME NEW c \in Convs, NEW new \in ConvData, Loads(r, c, new),
             NEW label \in AtWork, Goto(r, label)
      PROVE  Begins(r, c, label) /\ mind'[r] = new
  BY <1>2, <1>3, LoadsType DEF Begins, Goto, TypeInv, ConvTypeOK
<1>4. CASE Take(r)
  <2>1. PICK c \in Opened : Loads(r, c, [conv[c] EXCEPT !.status = "WAITING_HUMAN", !.agent = User[r]])
    BY <1>4 DEF Take
  <2> DEFINE new == [conv[c] EXCEPT !.status = "WAITING_HUMAN", !.agent = User[r]]
  <2>2. /\ new \in ConvData /\ new.status = "WAITING_HUMAN" /\ new.agent # Nobody
        /\ new.phoneAt = conv[c].phoneAt /\ new.alertAt = conv[c].alertAt /\ new.stage = conv[c].stage
    BY <1>1, TakenType, ConversationAssumption DEF ConvData
  <2>3. Loads(r, c, new) /\ Goto(r, "taking") /\ "taking" \in AtWork
    BY <1>4, <2>1 DEF Take, AtWork, Short
  <2> HIDE DEF new
  <2> QED
    BY <1>1, <1>3, <2>2, <2>3 DEF TakesOver
<1>5. CASE Release(r)
  <2>1. PICK c \in Opened : Loads(r, c, [conv[c] EXCEPT !.status = "ACTIVE", !.agent = Nobody, !.phoneAt = Never])
    BY <1>5 DEF Release
  <2> DEFINE new == [conv[c] EXCEPT !.status = "ACTIVE", !.agent = Nobody, !.phoneAt = Never]
  <2>2. /\ new \in ConvData /\ new.status = "ACTIVE" /\ new.agent = Nobody
        /\ new.phoneAt = Never /\ new.alertAt = conv[c].alertAt /\ new.stage = conv[c].stage
    BY <1>1, TakenType DEF ConvData
  <2>3. Loads(r, c, new) /\ Goto(r, "giving") /\ "giving" \in AtWork
    BY <1>5, <2>1 DEF Release, AtWork, Short
  <2> HIDE DEF new
  <2> QED
    BY <1>1, <1>3, <2>2, <2>3 DEF GivesBack
<1>6. CASE Reply(r)
  <2>1. PICK c \in Opened : Loads(r, c, conv[c])
    BY <1>6 DEF Reply
  <2>2. Goto(r, "typing") /\ "typing" \in AtWork
    BY <1>6 DEF Reply, AtWork, Long
  <2> QED
    BY <1>1, <1>3, <2>1, <2>2 DEF Opens
<1>7. CASE ListDue(r)
  <2>1. PICK c \in Opened : FollowUpDue(conv[c]) /\ Loads(r, c, conv[c])
    BY <1>7 DEF ListDue
  <2>2. Goto(r, "listed") /\ "listed" \in AtWork /\ "relauncher" \in Role[r]
    BY <1>7 DEF ListDue, Arrives, AtWork, Long
  <2>3. conv[c].stage \in 0..1
    BY <2>1 DEF FollowUpDue
  <2> QED
    BY <1>1, <1>3, <2>1, <2>2, <2>3 DEF Opens
<1> QED
  BY <1>4, <1>5, <1>6, <1>7

LEMMA CommitStep ==
    ASSUME TypeInv, NEW r \in Requests,
           \/ Record(r) \/ RecordEcho(r) \/ Transfer(r)
           \/ CommitHand(r) \/ RecordReply(r) \/ RecordFollowUp(r)
    PROVE  Enters(r) \/ Notes(r) \/ HandsOver(r) \/ Settles(r) \/ Replies(r)
<1>1. mind[r] \in ConvData /\ now \in Nat
  BY NowIsNat DEF TypeInv, ConvTypeOK
<1> DEFINE Put(new) == Writes(r, new) /\ new \in ConvData
<1>2. CASE Record(r)
  BY <1>1, <1>2 DEF Record, Writes, Commits, Enters, Puts, Goto, TypeInv, ConvTypeOK
<1>3. CASE RecordEcho(r)
  BY <1>1, <1>3 DEF RecordEcho, Writes, Commits, Notes, Puts, Goto, TypeInv, ConvTypeOK
<1>4. CASE CommitHand(r) \/ RecordFollowUp(r)
  BY <1>1, <1>4 DEF CommitHand, RecordFollowUp, Writes, Settles, Puts, Goto, TypeInv, ConvTypeOK
<1>5. CASE RecordReply(r)
  <2> DEFINE new == [mind[r] EXCEPT !.lastAt = now]
  <2>1. /\ new \in ConvData /\ new.status = mind[r].status /\ new.agent = mind[r].agent
        /\ new.phoneAt = mind[r].phoneAt /\ new.alertAt = mind[r].alertAt /\ new.stage = mind[r].stage
    BY <1>1, TransferredType DEF ConvData
  <2>2. conv' = [conv EXCEPT ![mine[r]] = Merge(@, read[r], new)]
    BY <1>5 DEF RecordReply, Writes
  <2> HIDE DEF new
  <2>3. /\ pc[r] = "typed" /\ pc'[r] = "done"
        /\ UNCHANGED <<now, known, echoed, nudges, sent>>
    BY <1>5 DEF RecordReply, Goto, TypeInv, ConvTypeOK
  <2> QED
    BY <2>1, <2>2, <2>3 DEF Replies, Puts
<1>6. CASE Transfer(r)
  <2> DEFINE new == [mind[r] EXCEPT !.status = "WAITING_HUMAN", !.alertAt = now]
  <2>1. /\ new \in ConvData /\ new.status = "WAITING_HUMAN" /\ new.agent = mind[r].agent
        /\ new.phoneAt = mind[r].phoneAt /\ new.alertAt = now /\ new.stage = mind[r].stage
    BY <1>1, TransferredType DEF ConvData
  <2>2. mind' = [mind EXCEPT ![r] = new] /\ conv' = [conv EXCEPT ![mine[r]] = Merge(@, read[r], mind'[r])]
    BY <1>6 DEF Transfer, Announced, Writes
  <2>3. mail'[r] = mail[r] \cup {"alert"}
    BY <1>6 DEF Transfer, Announced, TypeInv, ConvTypeOK
  <2> HIDE DEF new
  <2>4. mind'[r] = new
    BY <2>2 DEF TypeInv, ConvTypeOK
  <2>5. /\ pc[r] = "thinking" /\ pc'[r] = "mailing" /\ mine'[r] = mine[r] /\ read'[r] = read[r]
        /\ UNCHANGED <<now, known, echoed, nudges, sent>>
    BY <1>6 DEF Transfer, Goto, TypeInv, ConvTypeOK
  <2> QED
    BY <2>1, <2>2, <2>3, <2>4, <2>5 DEF HandsOver, Puts
<1> QED
  BY <1>2, <1>3, <1>4, <1>5, <1>6

LEMMA OtherStep ==
    ASSUME TypeInv, NEW r \in Requests,
           Answer(r) \/ MailShop(r) \/ SendReply(r) \/ FollowUp(r) \/ Crash(r)
    PROVE  GoesOn(r) \/ Posts(r) \/ Nudges(r) \/ Leaves(r)
<1>1. CASE Answer(r)
  BY <1>1 DEF Answer, tables, session, GoesOn, Stays, Goto, TypeInv, ConvTypeOK
<1>2. CASE MailShop(r)
  BY <1>2 DEF MailShop, tables, Posts, Goto, TypeInv, ConvTypeOK
<1>3. CASE SendReply(r)
  <2>1. CASE Goto(r, "typed") /\ UNCHANGED <<mine, read, mind>>
    BY <1>3, <2>1 DEF SendReply, tables, GoesOn, Stays, Goto, TypeInv, ConvTypeOK
  <2>2. CASE Goto(r, "done")
    BY <1>3, <2>2 DEF SendReply, tables, Leaves, Goto, TypeInv, ConvTypeOK, AtWork, Long
  <2> QED
    BY <1>3, <2>1, <2>2 DEF SendReply
<1>4. CASE FollowUp(r)
  <2>1. mind[r] \in ConvData
    BY DEF TypeInv, ConvTypeOK
  <2>2. mind'[r] = [mind[r] EXCEPT !.stage = @ + 1, !.stageAt = now]
    BY <1>4 DEF FollowUp, TypeInv, ConvTypeOK
  <2>3. /\ mind'[r].stage = mind[r].stage + 1 /\ mind'[r].status = mind[r].status
        /\ mind'[r].agent = mind[r].agent /\ mind'[r].phoneAt = mind[r].phoneAt
        /\ mind'[r].alertAt = mind[r].alertAt
    BY <2>1, <2>2 DEF ConvData
  <2>4. /\ pc[r] = "listed" /\ pc'[r] = "mailed" /\ nudges' \in {nudges, nudges + 1} /\ Stays(r)
        /\ UNCHANGED <<now, known, conv, echoed, sent>>
    BY <1>4 DEF FollowUp, tables, Stays, Goto, TypeInv, ConvTypeOK
  <2> QED
    BY <2>3, <2>4 DEF Nudges
<1>5. CASE Crash(r)
  <2>1. \E label \in {"idle", "done"} : Goto(r, label)
    BY <1>5 DEF Crash
  <2>2. pc'[r] \in {"idle", "done"}
    BY <2>1 DEF Goto, TypeInv, ConvTypeOK
  <2> QED
    BY <1>5, <2>2 DEF Crash, Leaves, AtWork
<1> QED
  BY <1>1, <1>2, <1>3, <1>4, <1>5

LEMMA Steps ==
    ASSUME TypeInv, Blank, NEW r \in Requests, Do(r)
    PROVE  ConvStep(r)
<1>1. ASSUME Receive(r) PROVE ConvStep(r)
  BY <1>1, ReceiveStep DEF ConvStep
<1>2. ASSUME Echo(r) PROVE ConvStep(r)
  BY <1>2, EchoStep DEF ConvStep
<1>3. ASSUME Take(r) \/ Release(r) \/ Reply(r) \/ ListDue(r) PROVE ConvStep(r)
  BY <1>3, HandStep DEF ConvStep
<1>4. ASSUME \/ Record(r) \/ RecordEcho(r) \/ Transfer(r)
             \/ CommitHand(r) \/ RecordReply(r) \/ RecordFollowUp(r)
      PROVE  ConvStep(r)
  BY <1>4, CommitStep DEF ConvStep
<1>5. ASSUME Answer(r) \/ MailShop(r) \/ SendReply(r) \/ FollowUp(r) \/ Crash(r) PROVE ConvStep(r)
  BY <1>5, OtherStep DEF ConvStep
<1> QED
  BY <1>1, <1>2, <1>3, <1>4, <1>5 DEF Do
-----------------------------------------------------------------------------
(* A conversation that is opened stays so, and who is at work is in one.   *)

\* A session at work has an opened conversation, or is opening it.
Seated ==
    \A r \in Requests : pc[r] \in AtWork =>
        /\ mind[r].status # "NONE"
        /\ read[r].status # "NONE" => conv[mine[r]].status # "NONE"
        /\ pc[r] \notin Inserting => read[r].status # "NONE"

SeatInv == Blank /\ Seated

LEMMA PutsFields ==
    ASSUME TypeInv, NEW r \in Requests, pc[r] \in AtWork, NEW new, Puts(r, new)
    PROVE  LET row == conv[mine[r]]
               old == read[r]
               out == conv'[mine[r]]
           IN  /\ \A c \in Convs : c # mine[r] => conv'[c] = conv[c]
               /\ out.status = IF new.status # old.status THEN new.status ELSE row.status
               /\ out.agent = IF new.agent # old.agent THEN new.agent ELSE row.agent
               /\ out.phoneAt = IF new.phoneAt # old.phoneAt THEN new.phoneAt ELSE row.phoneAt
               /\ out.alertAt = IF new.alertAt # old.alertAt THEN new.alertAt ELSE row.alertAt
               /\ out.stage = IF new.stage # old.stage THEN new.stage ELSE row.stage
<1>1. mine[r] \in Convs /\ conv[mine[r]] \in ConvData /\ read[r] \in ConvData /\ new \in ConvData
  BY DEF TypeInv, ConvTypeOK, Sessions, Puts
<1>2. /\ conv'[mine[r]] = Merge(conv[mine[r]], read[r], new)
      /\ \A c \in Convs : c # mine[r] => conv'[c] = conv[c]
  BY <1>1 DEF Puts, TypeInv, ConvTypeOK
<1>3. ASSUME NEW row \in ConvData, NEW old \in ConvData, NEW out, out = Merge(row, old, new)
      PROVE  /\ out.status = IF new.status # old.status THEN new.status ELSE row.status
             /\ out.agent = IF new.agent # old.agent THEN new.agent ELSE row.agent
             /\ out.phoneAt = IF new.phoneAt # old.phoneAt THEN new.phoneAt ELSE row.phoneAt
             /\ out.alertAt = IF new.alertAt # old.alertAt THEN new.alertAt ELSE row.alertAt
             /\ out.stage = IF new.stage # old.stage THEN new.stage ELSE row.stage
  <2>1. out.status = IF new.status # old.status THEN new.status ELSE row.status
    BY <1>1, <1>3 DEF Merge, ConvData
  <2>2. out.agent = IF new.agent # old.agent THEN new.agent ELSE row.agent
    BY <1>1, <1>3 DEF Merge, ConvData
  <2>3. out.phoneAt = IF new.phoneAt # old.phoneAt THEN new.phoneAt ELSE row.phoneAt
    BY <1>1, <1>3 DEF Merge, ConvData
  <2>4. out.alertAt = IF new.alertAt # old.alertAt THEN new.alertAt ELSE row.alertAt
    BY <1>1, <1>3 DEF Merge, ConvData
  <2>5. out.stage = IF new.stage # old.stage THEN new.stage ELSE row.stage
    BY <1>1, <1>3 DEF Merge, ConvData
  <2> QED
    BY <2>1, <2>2, <2>3, <2>4, <2>5
<1> QED
  BY <1>1, <1>2, <1>3

\* A step of r that changes a conversation changes the one of r, at work.
Wrote(r) == pc[r] \in AtWork /\ \E new : Puts(r, new) /\ new.status # "NONE"

LEMMA WroteOrNot ==
    ASSUME TypeInv, SeatInv, NEW r \in Requests, ConvStep(r)
    PROVE  conv' = conv \/ Wrote(r)
<1>1. pc[r] \in AtWork => mind[r].status # "NONE"
  BY DEF SeatInv, Seated
<1>2. CASE Enters(r)
  BY <1>1, <1>2 DEF Enters, Wrote, AtWork, Short
<1>3. CASE Notes(r)
  BY <1>1, <1>3 DEF Notes, Wrote, AtWork, Short
<1>4. CASE Settles(r)
  BY <1>1, <1>4 DEF Settles, Wrote, AtWork, Short, Long
<1>5. CASE Replies(r)
  BY <1>1, <1>5 DEF Replies, Wrote, AtWork, Long
<1>6. CASE HandsOver(r)
  BY <1>6 DEF HandsOver, Wrote, AtWork, Long
<1>7. CASE ~(Enters(r) \/ Notes(r) \/ Settles(r) \/ Replies(r) \/ HandsOver(r))
  BY <1>7 DEF ConvStep, Hears, Pauses, TakesOver, GivesBack, Opens, Begins, GoesOn, Nudges, Posts, Leaves
<1> QED
  BY <1>2, <1>3, <1>4, <1>5, <1>6, <1>7

LEMMA WroteOpens ==
    ASSUME TypeInv, SeatInv, NEW r \in Requests, conv' = conv \/ Wrote(r)
    PROVE  /\ \A c \in Convs : conv[c].status # "NONE" => conv'[c].status # "NONE"
           /\ Wrote(r) => conv'[mine[r]].status # "NONE"
           /\ Blank'
<1>1. CASE conv' = conv /\ ~ Wrote(r)
  BY <1>1 DEF SeatInv, Blank
<1>2. CASE Wrote(r)
  <2>1. PICK new : Puts(r, new) /\ new.status # "NONE" /\ pc[r] \in AtWork
    BY <1>2 DEF Wrote
  <2>2. /\ \A c \in Convs : c # mine[r] => conv'[c] = conv[c]
        /\ conv'[mine[r]].status = IF new.status # read[r].status THEN new.status ELSE conv[mine[r]].status
    BY <2>1, PutsFields
  <2>3. conv'[mine[r]].status # "NONE"
    BY <2>1, <2>2 DEF SeatInv, Seated
  <2>4. \A c \in Convs : conv[c].status # "NONE" => conv'[c].status # "NONE"
    BY <2>2, <2>3
  <2>5. Blank'
    BY <2>2, <2>3 DEF SeatInv, Blank
  <2> QED
    BY <2>3, <2>4, <2>5
<1> QED
  BY <1>1, <1>2

LEMMA SeatStep ==
    ASSUME TypeInv, SeatInv, NEW r \in Requests, ConvStep(r), \A q \in Requests \ {r} : SamePlace(q)
    PROVE  SeatInv'
<1>1. conv' = conv \/ Wrote(r)
  BY WroteOrNot
<1>2. /\ \A c \in Convs : conv[c].status # "NONE" => conv'[c].status # "NONE"
      /\ Wrote(r) => conv'[mine[r]].status # "NONE"
      /\ Blank'
  BY <1>1, WroteOpens
<1> DEFINE Sits(row, old, new, label) ==
               /\ new.status # "NONE"
               /\ old.status # "NONE" => row.status # "NONE"
               /\ label \notin Inserting => old.status # "NONE"
<1>3. \A q \in Requests : pc[q] \in AtWork => mine[q] \in Convs /\ Sits(conv[mine[q]], read[q], mind[q], pc[q])
  BY DEF SeatInv, Seated, TypeInv, Sessions
<1>4. ASSUME NEW q \in Requests, pc'[q] \in AtWork
      PROVE  Sits(conv'[mine'[q]], read'[q], mind'[q], pc'[q])
  <2>1. CASE q # r
    BY <1>2, <1>3, <1>4, <2>1 DEF SamePlace
  <2>2. CASE q = r
    <3>1. CASE Enters(r)
      <4>1. Wrote(r) /\ mine'[r] = mine[r] /\ read'[r] = mind[r] /\ mind'[r] = mind[r] /\ mind[r].status # "NONE"
        BY <1>3, <3>1 DEF Enters, Wrote, AtWork, Short
      <4> QED
        BY <1>2, <2>2, <4>1
    <3>2. CASE HandsOver(r)
      BY <1>2, <1>3, <2>2, <3>2 DEF HandsOver, AtWork, Long, Inserting
    <3>3. CASE \E c \in Convs : Hears(r, c) \/ Pauses(r, c) \/ TakesOver(r, c) \/ GivesBack(r, c) \/ Opens(r, c)
      <4>1. PICK c \in Convs : Hears(r, c) \/ Pauses(r, c) \/ TakesOver(r, c) \/ GivesBack(r, c) \/ Opens(r, c)
        BY <3>3
      <4>2. mine'[r] = c /\ read'[r] = conv[c] /\ conv' = conv
        BY <4>1 DEF Hears, Pauses, TakesOver, GivesBack, Opens, Begins
      <4>3. mind'[r].status # "NONE"
        BY <4>1 DEF Hears, Pauses, TakesOver, GivesBack, Opens, ResumeDue, ReminderDue
      <4>4. pc'[r] \notin Inserting => conv[c].status # "NONE"
        BY <4>1 DEF Hears, Pauses, TakesOver, GivesBack, Opens, Begins, Inserting
      <4> QED
        BY <2>2, <4>2, <4>3, <4>4
    <3>4. CASE GoesOn(r) \/ Nudges(r)
      BY <1>2, <1>3, <2>2, <3>4 DEF GoesOn, Nudges, Stays, AtWork, Long, Inserting
    <3>5. CASE Notes(r) \/ Settles(r) \/ Replies(r) \/ Posts(r) \/ Leaves(r)
      BY <1>4, <2>2, <3>5 DEF Notes, Settles, Replies, Posts, Leaves, AtWork, Short, Long
    <3> QED
      BY <3>1, <3>2, <3>3, <3>4, <3>5 DEF ConvStep
  <2> QED
    BY <2>1, <2>2
<1>5. Seated'
  BY <1>4 DEF Seated
<1> QED
  BY <1>2, <1>5 DEF SeatInv

LEMMA SeatInit == Init => SeatInv
  BY DEF Init, SeatInv, Blank, Seated, AtWork, Short, Long

\* What a property must survive: the steps of the requests, and the time.
LEMMA SeatNext == TypeInv /\ SeatInv /\ [Next]_vars => SeatInv'
<1> SUFFICES ASSUME TypeInv, SeatInv, [Next]_vars PROVE SeatInv'
  OBVIOUS
<1>1. ASSUME NEW r \in Requests, Do(r)
      PROVE  SeatInv'
  BY <1>1, Steps, OthersStay, SeatStep DEF SeatInv
<1>2. CASE Tick \/ UNCHANGED vars
  <2>1. UNCHANGED <<conv, pc, mine, read, mind>>
    BY <1>2 DEF Tick, vars, tables, session
  <2> QED
    BY <2>1 DEF SeatInv, Blank, Seated
<1> QED
  BY <1>1, <1>2 DEF Next, Do

-----------------------------------------------------------------------------
(* One short transaction at a time.                                        *)

Serial == MaxOpen <= 1

ShortAlone == \A p, q \in Requests : pc[p] \in Short /\ pc[q] \in Short => p = q

\* Nothing is there of a customer who is being inserted, and nobody else is at work.
Before ==
    ~ known => /\ \A c \in Convs : conv[c].status = "NONE"
               /\ \A r \in Requests : pc[r] \in AtWork => newcomer = r /\ pc[r] \in Inserting

AloneInv == ShortAlone /\ Before

Arriving(r) == \E c \in Convs : Hears(r, c) \/ Pauses(r, c) \/ TakesOver(r, c) \/ GivesBack(r, c) \/ Opens(r, c)

LEMMA NobodyShort ==
    ASSUME Serial, TypeInv, AloneInv, NEW r \in Requests, Arriving(r)
    PROVE  \A q \in Requests : pc[q] \notin Short
<1>1. PICK c \in Convs : Hears(r, c) \/ Pauses(r, c) \/ TakesOver(r, c) \/ GivesBack(r, c) \/ Opens(r, c)
  BY DEF Arriving
<1>2. CASE known
  <2> DEFINE Open == {q \in Requests : pc[q] \in Short}
  <2>1. Cardinality(Open) < MaxOpen
    BY <1>1, <1>2 DEF Hears, Pauses, TakesOver, GivesBack, Opens, Begins
  <2>2. IsFiniteSet(Open)
    BY ConversationAssumption, FS_Subset
  <2>3. Cardinality(Open) \in Nat
    BY <2>2, FS_CardinalityType
  <2>4. Cardinality(Open) = 0
    BY <2>1, <2>3, ConversationAssumption DEF Serial
  <2>5. Open = {}
    BY <2>2, <2>4, FS_EmptySet
  <2> QED
    BY <2>5
<1>3. CASE ~ known
  <2>1. conv[c].status = "NONE"
    BY <1>3 DEF AloneInv, Before
  <2>2. newcomer = Nobody
    BY <1>1, <1>3, <2>1 DEF Hears, Pauses, TakesOver, GivesBack, Opens, Announces
  <2> QED
    BY <1>3, <2>2, ConversationAssumption DEF AloneInv, Before, AtWork
<1> QED
  BY <1>2, <1>3

LEMMA AloneStep ==
    ASSUME Serial, TypeInv, AloneInv, SeatInv, NEW r \in Requests, ConvStep(r),
           \A q \in Requests \ {r} : SamePlace(q)
    PROVE  AloneInv'
<1>1. pc'[r] \in Short => Arriving(r)
  BY DEF ConvStep, Arriving, Enters, Notes, Settles, Replies, HandsOver, GoesOn, Nudges, Posts, Leaves, Short
<1>2. ShortAlone'
  <2> SUFFICES ASSUME NEW p \in Requests, NEW q \in Requests, pc'[p] \in Short, pc'[q] \in Short
               PROVE  p = q
    BY DEF ShortAlone
  <2>1. CASE p = r \/ q = r
    BY <1>1, <2>1, NobodyShort DEF SamePlace
  <2>2. CASE p # r /\ q # r
    BY <2>2 DEF SamePlace, AloneInv, ShortAlone
  <2> QED
    BY <2>1, <2>2
<1>3. Before'
  <2> SUFFICES ASSUME ~ known'
               PROVE  /\ \A c \in Convs : conv'[c].status = "NONE"
                      /\ \A q \in Requests : pc'[q] \in AtWork => newcomer' = q /\ pc'[q] \in Inserting
    BY DEF Before
  <2>0. ~ Enters(r) /\ ~ Notes(r)
    BY DEF Enters, Notes
  <2>1. ~ known /\ ~ Enters(r) /\ ~ Notes(r)
    <3>1. known' = known
      BY <2>0 DEF ConvStep, Hears, Pauses, TakesOver, GivesBack, Opens, Begins, Settles, Replies,
             HandsOver, GoesOn, Nudges, Posts, Leaves
    <3> QED
      BY <2>0, <3>1
  <2>2. /\ \A c \in Convs : conv[c].status = "NONE"
        /\ \A q \in Requests : pc[q] \in AtWork => newcomer = q /\ pc[q] \in Inserting
    BY <2>1 DEF AloneInv, Before
  <2>3. ~ Settles(r) /\ ~ Replies(r) /\ ~ HandsOver(r) /\ ~ GoesOn(r) /\ ~ Nudges(r) /\ ~ Posts(r)
    BY <2>2 DEF Settles, Replies, HandsOver, GoesOn, Nudges, Posts, AtWork, Short, Long, Inserting
  <2>4. CASE Leaves(r)
    <3>1. pc[r] \in AtWork /\ conv' = conv /\ pc'[r] \notin AtWork
      BY <2>1, <2>4 DEF Leaves, AtWork, Short, Long
    <3> QED
      BY <2>2, <3>1 DEF SamePlace
  <2>5. CASE Arriving(r)
    <3>1. PICK c \in Convs : Hears(r, c) \/ Pauses(r, c) \/ TakesOver(r, c) \/ GivesBack(r, c) \/ Opens(r, c)
      BY <2>5 DEF Arriving
    <3>2. Hears(r, c) \/ Pauses(r, c)
      BY <2>2, <3>1 DEF TakesOver, GivesBack, Opens
    <3>3. newcomer = Nobody /\ newcomer' = r /\ conv' = conv /\ pc'[r] \in Inserting
      BY <2>1, <3>2 DEF Hears, Pauses, Begins, Announces, Inserting
    <3> QED
      BY <2>2, <3>3, ConversationAssumption DEF SamePlace
  <2> QED
    BY <2>1, <2>3, <2>4, <2>5 DEF ConvStep, Arriving
<1> QED
  BY <1>2, <1>3 DEF AloneInv

LEMMA AloneInit == Init => AloneInv
  BY DEF Init, AloneInv, ShortAlone, Before, NoConv, AtWork, Short, Long

LEMMA AloneNext == Serial /\ TypeInv /\ SeatInv /\ AloneInv /\ [Next]_vars => AloneInv'
<1> SUFFICES ASSUME Serial, TypeInv, SeatInv, AloneInv, [Next]_vars PROVE AloneInv'
  OBVIOUS
<1>1. ASSUME NEW r \in Requests, Do(r)
      PROVE  AloneInv'
  BY <1>1, Steps, OthersStay, AloneStep DEF SeatInv
<1>2. CASE Tick \/ UNCHANGED vars
  <2>1. UNCHANGED <<known, newcomer, conv, pc>>
    BY <1>2 DEF Tick, vars, tables
  <2> QED
    BY <2>1 DEF AloneInv, ShortAlone, Before
<1> QED
  BY <1>1, <1>2 DEF Next, Do

-----------------------------------------------------------------------------
(* Echoes.                                                                 *)

\* An echo about to be recorded is not recorded yet.
EchoInv ==
    /\ EchoOnce
    /\ \A r \in Requests : pc[r] = "echo" => ~ AlreadyRecorded(r, mine[r])

LEMMA EchoInvStep ==
    ASSUME TypeInv, AloneInv, EchoInv, NEW r \in Requests, ConvStep(r), \A q \in Requests \ {r} : SamePlace(q)
    PROVE  EchoInv'
<1>1. CASE Notes(r)
  <2>1. /\ pc[r] = "echo" /\ mine[r] \in Convs /\ pc'[r] = "done"
        /\ echoed' = [echoed EXCEPT ![mine[r]] = @ \cup {r}]
    BY <1>1 DEF Notes, TypeInv, Sessions, AtWork, Short
  <2>2. EchoOnce'
    <3> SUFFICES ASSUME NEW c \in Convs, NEW p \in echoed'[c], NEW q \in echoed'[c], EchoId[p] = EchoId[q]
                 PROVE  p = q
      BY DEF EchoOnce
    <3>1. \A e \in echoed[mine[r]] : EchoId[e] # EchoId[r]
      BY <2>1 DEF EchoInv, AlreadyRecorded
    <3>2. echoed'[c] = IF c = mine[r] THEN echoed[c] \cup {r} ELSE echoed[c]
      BY <2>1 DEF TypeInv, ConvTypeOK
    <3> QED
      BY <3>1, <3>2 DEF EchoInv, EchoOnce
  <2>3. \A q \in Requests : pc'[q] # "echo"
    BY <2>1 DEF SamePlace, AloneInv, ShortAlone, Short
  <2> QED
    BY <2>2, <2>3 DEF EchoInv
<1>2. CASE ~ Notes(r)
  <2>1. echoed' = echoed
    BY <1>2 DEF ConvStep, Hears, Pauses, TakesOver, GivesBack, Opens, Begins, Enters, Settles, Replies,
            HandsOver, GoesOn, Nudges, Posts, Leaves
  <2>2. pc'[r] = "echo" => ~ AlreadyRecorded(r, mine'[r])
    BY <1>2 DEF ConvStep, Hears, Pauses, TakesOver, GivesBack, Opens, Begins, Enters, Settles, Replies,
            HandsOver, GoesOn, Nudges, Posts, Leaves
  <2> QED
    BY <2>1, <2>2 DEF EchoInv, EchoOnce, AlreadyRecorded, SamePlace
<1> QED
  BY <1>1, <1>2

\* However often Meta delivers the copy of a message typed on the phone, and
\* whatever the other webhooks do meanwhile, it is recorded once, where one
\* short transaction is served at a time.
THEOREM EchoRecordedOnce ==
    ASSUME MaxOpen <= 1
    PROVE  Spec => []EchoOnce
<1>1. Serial
  BY DEF Serial
<1> DEFINE Inv == SeatInv /\ AloneInv /\ EchoInv
<1>2. Init => Inv
  <2>1. Init => EchoInv
    BY DEF Init, EchoInv, EchoOnce
  <2> QED
    BY <2>1, SeatInit, AloneInit
<1>3. TypeInv /\ Inv /\ [Next]_vars => Inv'
  <2> SUFFICES ASSUME TypeInv, Inv, [Next]_vars PROVE Inv'
    OBVIOUS
  <2>1. ASSUME NEW r \in Requests, Do(r)
        PROVE  EchoInv'
    BY <2>1, Steps, OthersStay, EchoInvStep DEF SeatInv
  <2>2. ASSUME Tick \/ UNCHANGED vars
        PROVE  EchoInv'
    <3>1. UNCHANGED <<echoed, pc, mine>>
      BY <2>2 DEF Tick, vars, tables, session
    <3>2. EchoOnce'
      BY <3>1 DEF EchoInv, EchoOnce
    <3>3. ASSUME NEW r \in Requests, pc'[r] = "echo"
          PROVE  ~ \E e \in echoed'[mine'[r]] : EchoId[e] = EchoId[r]
      BY <3>1, <3>3 DEF EchoInv, AlreadyRecorded
    <3> QED
      BY <3>2, <3>3 DEF EchoInv, AlreadyRecorded
  <2>3. EchoInv'
    BY <2>1, <2>2 DEF Next, Do
  <2> QED
    BY <1>1, <2>3, SeatNext, AloneNext
<1>4. Inv => EchoOnce
  BY DEF EchoInv
<1> HIDE DEF Inv
<1> QED
  BY TypeInit, TypeStep, <1>2, <1>3, <1>4, PTL DEF Spec
-----------------------------------------------------------------------------
(* Who has the conversation in hand.                                       *)

\* Bob's conversation is nobody else's.
ActiveIsFree(row) == row.status # "WAITING_HUMAN" => row.agent = Nobody /\ row.phoneAt = Never

\* While a short transaction is open, the long ones may only hand over.
Near(row, old) ==
    /\ row.agent = old.agent /\ row.phoneAt = old.phoneAt
    /\ row.status = old.status \/ (old.status = "ACTIVE" /\ row.status = "WAITING_HUMAN")

SameHand(new, old) ==
    /\ new.status = old.status /\ new.agent = old.agent /\ new.phoneAt = old.phoneAt /\ new.alertAt = old.alertAt

\* What a session at work holds: old as it loaded it, new as it has it, row as
\* it is in the table.
Held(label, row, old, new) ==
    /\ ActiveIsFree(old)
    /\ label \in Short => Near(row, old)
    /\ label = "in" =>
         /\ new.agent = old.agent
         /\ \/ new.phoneAt = old.phoneAt /\ new.status = (IF old.status = "NONE" THEN "ACTIVE" ELSE old.status)
            \/ ResumeDue(old) /\ new.phoneAt = Never /\ new.status = "ACTIVE"
    /\ label = "echo" => new.status = "WAITING_HUMAN" /\ new.phoneAt = now /\ new.agent = old.agent
    /\ label = "taking" => new.status = "WAITING_HUMAN" /\ new.agent # Nobody /\ new.phoneAt = old.phoneAt
    /\ label = "giving" => new.status = "ACTIVE" /\ new.agent = Nobody /\ new.phoneAt = Never
    /\ label \in {"typing", "typed", "listed", "mailed"} => SameHand(new, old)
    /\ label = "thinking" => new = old /\ new.status = "ACTIVE"

HandInv ==
    /\ \A c \in Convs : ActiveIsFree(conv[c])
    /\ \A r \in Requests : pc[r] \in AtWork => Held(pc[r], conv[mine[r]], read[r], mind[r])

\* What the long transactions leave of a conversation.
Touched(out, row, at) ==
    /\ out.agent = row.agent /\ out.phoneAt = row.phoneAt
    /\ out.alertAt \in {row.alertAt, at}
    /\ out.status \in {row.status, "WAITING_HUMAN"}

Writer(r) == Enters(r) \/ Notes(r) \/ Settles(r) \/ Replies(r) \/ HandsOver(r)

LEMMA ReadersKeep ==
    ASSUME NEW r \in Requests, ConvStep(r), ~ Writer(r)
    PROVE  conv' = conv
  BY DEF ConvStep, Writer, Hears, Pauses, TakesOver, GivesBack, Opens, Begins, GoesOn, Nudges, Posts, Leaves

LEMMA RowsInTheTable ==
    ASSUME TypeInv
    PROVE  /\ \A c \in Convs : conv[c] \in ConvData
           /\ \A r \in Requests : read[r] \in ConvData /\ mind[r] \in ConvData
           /\ \A r \in Requests : pc[r] \in AtWork => mine[r] \in Convs
  BY DEF TypeInv, ConvTypeOK, Sessions

LEMMA LongWrite ==
    ASSUME TypeInv, SeatInv, HandInv, NEW r \in Requests, Writer(r), pc[r] \notin Short
    PROVE  /\ mine[r] \in Convs /\ pc[r] \in Long
           /\ \A c \in Convs : c # mine[r] => conv'[c] = conv[c]
           /\ Touched(conv'[mine[r]], conv[mine[r]], now)
           /\ conv'[mine[r]].status # "NONE" /\ conv[mine[r]].status # "NONE"
           /\ ~ HandsOver(r) => /\ conv'[mine[r]].status = conv[mine[r]].status
                               /\ conv'[mine[r]].alertAt = conv[mine[r]].alertAt
           /\ HandsOver(r) => /\ conv'[mine[r]].status = "WAITING_HUMAN"
                             /\ (conv'[mine[r]].alertAt # now => read[r].alertAt = now)
<1>1. pc[r] \in {"mailed", "typed", "thinking"} /\ pc[r] \in AtWork /\ pc[r] \notin Inserting
  BY DEF Writer, Enters, Notes, Settles, Replies, HandsOver, Short, AtWork, Long, Inserting
<1>2. Held(pc[r], conv[mine[r]], read[r], mind[r])
  BY <1>1 DEF HandInv
<1>3. read[r].status # "NONE" /\ conv[mine[r]].status # "NONE"
  BY <1>1 DEF SeatInv, Seated
<1>4. PICK new :
         /\ Puts(r, new)
         /\ \/ SameHand(new, read[r]) /\ ~ HandsOver(r)
            \/ /\ HandsOver(r) /\ new.status = "WAITING_HUMAN" /\ new.alertAt = now
               /\ new.agent = read[r].agent /\ new.phoneAt = read[r].phoneAt /\ read[r].status = "ACTIVE"
  <2>1. CASE Settles(r) /\ pc[r] = "mailed"
    <3>1. Puts(r, mind[r]) /\ SameHand(mind[r], read[r])
      BY <1>2, <2>1 DEF Settles, Held
    <3>2. ~ HandsOver(r)
      BY <2>1 DEF HandsOver
    <3> QED
      BY <3>1, <3>2
  <2>2. CASE Replies(r)
    BY <1>2, <2>2 DEF Replies, Held, SameHand, HandsOver
  <2>3. CASE HandsOver(r)
    <3>1. mind[r] = read[r] /\ mind[r].status = "ACTIVE"
      BY <1>2, <2>3 DEF HandsOver, Held
    <3> QED
      BY <2>3, <3>1 DEF HandsOver
  <2> QED
    BY <1>1, <2>1, <2>2, <2>3 DEF Writer, Enters, Notes, Settles
<1>5. mine[r] \in Convs
  BY <1>1, RowsInTheTable
<1> DEFINE out == conv'[mine[r]]
           row == conv[mine[r]]
           old == read[r]
<1>6. /\ \A c \in Convs : c # mine[r] => conv'[c] = conv[c]
      /\ out.status = IF new.status # old.status THEN new.status ELSE row.status
      /\ out.agent = IF new.agent # old.agent THEN new.agent ELSE row.agent
      /\ out.phoneAt = IF new.phoneAt # old.phoneAt THEN new.phoneAt ELSE row.phoneAt
      /\ out.alertAt = IF new.alertAt # old.alertAt THEN new.alertAt ELSE row.alertAt
  BY <1>1, <1>4, PutsFields
<1> HIDE DEF out, row, old
<1>7. CASE SameHand(new, read[r]) /\ ~ HandsOver(r)
  <2>1. out.status = row.status /\ out.agent = row.agent /\ out.phoneAt = row.phoneAt /\ out.alertAt = row.alertAt
    BY <1>6, <1>7 DEF SameHand, old
  <2> QED
    BY <1>1, <1>3, <1>5, <1>6, <1>7, <2>1 DEF Touched, out, row, Long
<1>8. CASE /\ HandsOver(r) /\ new.status = "WAITING_HUMAN" /\ new.alertAt = now
           /\ new.agent = read[r].agent /\ new.phoneAt = read[r].phoneAt /\ read[r].status = "ACTIVE"
  <2>1. /\ out.status = "WAITING_HUMAN" /\ out.agent = row.agent /\ out.phoneAt = row.phoneAt
        /\ out.alertAt = now \/ (out.alertAt = row.alertAt /\ old.alertAt = now)
    BY <1>6, <1>8 DEF old
  <2> QED
    BY <1>1, <1>3, <1>5, <1>6, <1>8, <2>1 DEF Touched, out, row, old, Long
<1> QED
  BY <1>4, <1>7, <1>8
\* What a short transaction leaves of it.
Left(label, out, row, old) ==
    /\ label = "in" =>
         /\ out.agent = row.agent
         /\ \/ out.phoneAt = row.phoneAt /\ out.status = (IF row.status = "NONE" THEN "ACTIVE" ELSE row.status)
            \/ out.phoneAt = Never /\ out.status = "ACTIVE" /\ ResumeDue(old)
    /\ label = "echo" => out.status = "WAITING_HUMAN" /\ out.phoneAt = now
    /\ label = "taking" => out.status = "WAITING_HUMAN" /\ out.agent # Nobody
    /\ label = "giving" =>
         /\ out.agent = Nobody /\ out.phoneAt = Never
         /\ out.status = "ACTIVE" \/ (out.status = row.status /\ row.agent = Nobody /\ row.phoneAt = Never)

LEMMA ShortWrite ==
    ASSUME TypeInv, SeatInv, HandInv, NEW r \in Requests, Writer(r), pc[r] \in Short
    PROVE  /\ mine[r] \in Convs
           /\ \A c \in Convs : c # mine[r] => conv'[c] = conv[c]
           /\ Left(pc[r], conv'[mine[r]], conv[mine[r]], read[r])
           /\ ActiveIsFree(conv'[mine[r]])
<1>1. Puts(r, mind[r]) /\ pc[r] \in AtWork
  BY DEF Writer, Enters, Notes, Settles, Replies, HandsOver, Short, AtWork
<1>2. Held(pc[r], conv[mine[r]], read[r], mind[r]) /\ ActiveIsFree(conv[mine[r]]) /\ mine[r] \in Convs
  BY <1>1, RowsInTheTable DEF HandInv
<1>3. /\ mind[r].status # "NONE"
      /\ pc[r] \notin Inserting => read[r].status # "NONE"
  BY <1>1 DEF SeatInv, Seated
<1>4. /\ read[r].status \in Status /\ conv[mine[r]].status \in Status
  BY <1>2, RowsInTheTable DEF ConvData
<1> DEFINE out == conv'[mine[r]]
           row == conv[mine[r]]
           old == read[r]
           new == mind[r]
<1>5. /\ \A c \in Convs : c # mine[r] => conv'[c] = conv[c]
      /\ out.status = IF new.status # old.status THEN new.status ELSE row.status
      /\ out.agent = IF new.agent # old.agent THEN new.agent ELSE row.agent
      /\ out.phoneAt = IF new.phoneAt # old.phoneAt THEN new.phoneAt ELSE row.phoneAt
  BY <1>1, PutsFields
<1>6. Held(pc[r], row, old, new) /\ ActiveIsFree(row) /\ old.status \in Status /\ row.status \in Status
  BY <1>2, <1>4
<1>7. Near(row, old)
  BY <1>6 DEF Held
<1>8. new.status # "NONE" /\ (pc[r] \in {"taking", "giving"} => old.status # "NONE")
  BY <1>3 DEF Inserting
<1> HIDE DEF out, row, old, new
<1>9. Left(pc[r], out, row, old) /\ ActiveIsFree(out)
  <2>1. CASE pc[r] = "in"
    BY <1>5, <1>6, <1>7, <1>8, <2>1 DEF Left, ActiveIsFree, Held, Near, Status, ResumeDue
  <2>2. CASE pc[r] = "echo"
    BY <1>5, <1>6, <1>7, <1>8, <2>2 DEF Left, ActiveIsFree, Held, Near, Status
  <2>3. CASE pc[r] = "taking"
    BY <1>5, <1>6, <1>7, <1>8, <2>3 DEF Left, ActiveIsFree, Held, Near, Status
  <2>4. CASE pc[r] = "giving"
    BY <1>5, <1>6, <1>7, <1>8, <2>4 DEF Left, ActiveIsFree, Held, Near, Status
  <2> QED
    BY <2>1, <2>2, <2>3, <2>4 DEF Short
<1> QED
  BY <1>2, <1>5, <1>9 DEF out, row, old

LEMMA HandsStep ==
    ASSUME TypeInv, SeatInv, AloneInv, HandInv, NEW r \in Requests, ConvStep(r),
           \A q \in Requests \ {r} : SamePlace(q)
    PROVE  HandInv'
<1>1. mine[r] \in Convs \/ ~ Writer(r)
  BY RowsInTheTable DEF Writer, Enters, Notes, Settles, Replies, HandsOver, AtWork, Short, Long
<1>2. ASSUME NEW c \in Convs
      PROVE  ActiveIsFree(conv'[c])
  <2>1. CASE ~ Writer(r)
    BY <2>1, ReadersKeep DEF HandInv
  <2>2. CASE Writer(r) /\ c # mine[r]
    BY <2>2, LongWrite, ShortWrite DEF HandInv
  <2>3. CASE Writer(r) /\ c = mine[r] /\ pc[r] \in Short
    BY <2>3, ShortWrite
  <2>4. CASE Writer(r) /\ c = mine[r] /\ pc[r] \notin Short
    BY <2>4, LongWrite DEF HandInv, ActiveIsFree, Touched
  <2> QED
    BY <2>1, <2>2, <2>3, <2>4
<1>3. now' = now
  BY DEF ConvStep, Hears, Pauses, TakesOver, GivesBack, Opens, Begins, Enters, Notes, Settles, Replies, HandsOver,
     GoesOn, Nudges, Posts, Leaves
<1>4. ASSUME NEW q \in Requests \ {r}, pc[q] \in Short
      PROVE  Near(conv'[mine[q]], read[q])
  <2>1. Near(conv[mine[q]], read[q]) /\ mine[q] \in Convs /\ read[q].status \in Status
        /\ (read[q].status # "NONE" => conv[mine[q]].status # "NONE")
    BY <1>4, RowsInTheTable DEF HandInv, Held, AtWork, ConvData, SeatInv, Seated
  <2>2. CASE ~ Writer(r)
    BY <2>1, <2>2, ReadersKeep
  <2>3. CASE Writer(r)
    <3>1. pc[r] \notin Short
      BY <1>4 DEF AloneInv, ShortAlone
    <3>2. CASE mine[q] = mine[r]
      BY <2>1, <2>3, <3>1, <3>2, LongWrite DEF Near, Touched, Status
    <3>3. CASE mine[q] # mine[r]
      BY <2>1, <2>3, <3>1, <3>3, LongWrite
    <3> QED
      BY <3>2, <3>3
  <2> QED
    BY <2>2, <2>3
<1>5. ASSUME NEW q \in Requests, pc'[q] \in AtWork
      PROVE  Held(pc[q], conv[mine[q]], read[q], mind[q])'
  <2>1. CASE q # r
    <3>1. /\ pc'[q] = pc[q] /\ mine'[q] = mine[q] /\ read'[q] = read[q] /\ mind'[q] = mind[q]
      BY <2>1 DEF SamePlace
    <3>2. Held(pc[q], conv[mine[q]], read[q], mind[q])
      BY <1>5, <3>1 DEF HandInv
    <3>3. pc[q] \in Short => Near(conv'[mine[q]], read[q])
      BY <1>4, <2>1
    <3> QED
      BY <1>3, <3>1, <3>2, <3>3 DEF Held, ResumeDue
  <2>2. CASE q = r
    <3>1. CASE Arriving(r)
      <4>1. PICK c \in Convs : Hears(r, c) \/ Pauses(r, c) \/ TakesOver(r, c) \/ GivesBack(r, c) \/ Opens(r, c)
        BY <3>1 DEF Arriving
      <4>2. mine'[r] = c /\ read'[r] = conv[c] /\ conv' = conv
        BY <4>1 DEF Hears, Pauses, TakesOver, GivesBack, Opens, Begins
      <4>3. ActiveIsFree(conv[c]) /\ Near(conv[c], conv[c])
        BY DEF HandInv, Near
      <4>4. CASE Hears(r, c)
        <5>1. pc'[r] = "in" /\ mind'[r].agent = conv[c].agent
          BY <4>4 DEF Hears, Begins
        <5>2. \/ /\ mind'[r].phoneAt = conv[c].phoneAt
                 /\ mind'[r].status = IF conv[c].status = "NONE" THEN "ACTIVE" ELSE conv[c].status
              \/ ResumeDue(conv[c]) /\ mind'[r].phoneAt = Never /\ mind'[r].status = "ACTIVE"
          BY <4>4 DEF Hears, ReminderDue
        <5> QED
          BY <1>3, <2>2, <4>2, <4>3, <5>1, <5>2 DEF Held, ResumeDue
      <4>5. CASE Pauses(r, c)
        BY <1>3, <2>2, <4>2, <4>3, <4>5 DEF Held, Pauses, Begins
      <4>6. CASE TakesOver(r, c)
        BY <1>3, <2>2, <4>2, <4>3, <4>6 DEF Held, TakesOver, Begins
      <4>7. CASE GivesBack(r, c)
        BY <1>3, <2>2, <4>2, <4>3, <4>7 DEF Held, GivesBack, Begins
      <4>8. CASE Opens(r, c)
        BY <1>3, <2>2, <4>2, <4>3, <4>8 DEF Held, Opens, Begins, SameHand, Short
      <4> QED
        BY <4>1, <4>4, <4>5, <4>6, <4>7, <4>8
    <3>2. CASE Enters(r)
      <4>1. Held("in", conv[mine[r]], read[r], mind[r])
        BY <3>2 DEF HandInv, Enters, AtWork, Short
      <4>2. ActiveIsFree(mind[r])
        <5>1. read[r].status \in Status
          BY RowsInTheTable DEF ConvData
        <5> QED
          BY <4>1, <5>1 DEF Held, ActiveIsFree, ResumeDue, Status
      <4>3. /\ pc'[r] \in {"thinking", "mailing"} /\ (pc'[r] = "thinking" => mind[r].status = "ACTIVE")
            /\ read'[r] = mind[r] /\ mind'[r] = mind[r]
        BY <3>2 DEF Enters
      <4> QED
        BY <2>2, <4>2, <4>3 DEF Held, Short
    <3>3. CASE HandsOver(r)
      <4>1. Held("thinking", conv[mine[r]], read[r], mind[r])
        BY <3>3 DEF HandInv, HandsOver, AtWork, Long
      <4> QED
        BY <2>2, <3>3, <4>1 DEF Held, HandsOver, Short
    <3>4. CASE GoesOn(r)
      <4>1. Held(pc[r], conv[mine[r]], read[r], mind[r]) /\ pc[r] \in {"thinking", "typing"}
        BY <3>4 DEF HandInv, GoesOn, AtWork, Long
      <4> QED
        BY <2>2, <3>4, <4>1 DEF Held, GoesOn, Stays, Short
    <3>5. CASE Nudges(r)
      <4>1. Held("listed", conv[mine[r]], read[r], mind[r])
        BY <3>5 DEF HandInv, Nudges, AtWork, Long
      <4> QED
        BY <2>2, <3>5, <4>1 DEF Held, Nudges, Stays, SameHand, Short
    <3>6. CASE Notes(r) \/ Settles(r) \/ Replies(r) \/ Posts(r) \/ Leaves(r)
      BY <1>5, <2>2, <3>6 DEF Notes, Settles, Replies, Posts, Leaves, AtWork, Short, Long
    <3> QED
      BY <3>1, <3>2, <3>3, <3>4, <3>5, <3>6 DEF ConvStep, Arriving
  <2> QED
    BY <2>1, <2>2
<1> QED
  BY <1>2, <1>5 DEF HandInv

LEMMA HandsInit == Init => HandInv
  BY DEF Init, HandInv, ActiveIsFree, NoConv, AtWork, Short, Long

LEMMA HandsNext == TypeInv /\ SeatInv /\ AloneInv /\ HandInv /\ [Next]_vars => HandInv'
<1> SUFFICES ASSUME TypeInv, SeatInv, AloneInv, HandInv, [Next]_vars PROVE HandInv'
  OBVIOUS
<1>1. ASSUME NEW r \in Requests, Do(r)
      PROVE  HandInv'
  BY <1>1, Steps, OthersStay, HandsStep DEF SeatInv
<1>2. CASE Tick
  <2>1. UNCHANGED <<conv, pc, mine, read, mind>> /\ \A r \in Requests : pc[r] \notin Short
    BY <1>2 DEF Tick, tables, session
  <2>2. ASSUME NEW r \in Requests, pc'[r] \in AtWork
        PROVE  Held(pc[r], conv[mine[r]], read[r], mind[r])'
    BY <2>1, <2>2 DEF HandInv, Held, Short
  <2> QED
    BY <2>1, <2>2 DEF HandInv
<1>3. CASE UNCHANGED vars
  BY <1>3 DEF vars, tables, session, HandInv, Held, ResumeDue
<1> QED
  BY <1>1, <1>2, <1>3 DEF Next, Do

LEMMA ComesBack ==
    ASSUME TypeInv, SeatInv, HandInv, NEW r \in Requests, ConvStep(r),
           NEW c \in Convs, conv[c].status = "WAITING_HUMAN", conv'[c].status = "ACTIVE"
    PROVE  LetBack(c)
<1>1. Writer(r)
  BY ReadersKeep
<1>2. pc[r] \in Short
  <2> SUFFICES ASSUME pc[r] \notin Short PROVE FALSE
    OBVIOUS
  <2> QED
    BY <1>1, LongWrite
<1>3. c = mine[r] /\ Left(pc[r], conv'[c], conv[c], read[r])
  BY <1>1, <1>2, ShortWrite
<1>4. CASE pc[r] = "in"
  <2>1. ResumeDue(read[r])
    BY <1>3, <1>4 DEF Left
  <2>2. Near(conv[c], read[r])
    BY <1>2, <1>3 DEF HandInv, Held, AtWork
  <2>3. ResumeDue(conv[c])
    BY <2>1, <2>2 DEF ResumeDue, Near
  <2> QED
    BY <2>3 DEF LetBack
<1>5. CASE pc[r] = "giving"
  <2>1. pc'[r] = "done"
    BY <1>1, <1>5 DEF Writer, Enters, Notes, Settles, Replies, HandsOver
  <2> QED
    BY <1>3, <1>5, <2>1 DEF LetBack
<1> QED
  BY <1>2, <1>3, <1>4, <1>5 DEF Left, Short

\* A conversation that waits for a human goes back to Bob by the click of an
\* adviser, or by a message of the customer once the phone has been silent
\* long enough: no other session, however stale what it loaded, gives it back
\* to him, where one short transaction is served at a time.
THEOREM BobWaitsToBeLet ==
    ASSUME MaxOpen <= 1
    PROVE  Spec => BobComesBackOnlyWhenLet
<1>1. Serial
  BY DEF Serial
<1> DEFINE Inv == SeatInv /\ AloneInv /\ HandInv
<1>2. Init => Inv
  BY SeatInit, AloneInit, HandsInit
<1>3. TypeInv /\ Inv /\ [Next]_vars => Inv'
  BY <1>1, SeatNext, AloneNext, HandsNext
<1> DEFINE Act == \A c \in Convs :
                    conv[c].status = "WAITING_HUMAN" /\ conv'[c].status = "ACTIVE" => LetBack(c)
<1>4. TypeInv /\ Inv /\ [Next]_vars => [Act]_vars
  <2> SUFFICES ASSUME TypeInv, Inv, Next, NEW c \in Convs,
                      conv[c].status = "WAITING_HUMAN", conv'[c].status = "ACTIVE"
               PROVE  LetBack(c)
    OBVIOUS
  <2>1. ASSUME NEW r \in Requests, Do(r)
        PROVE  LetBack(c)
    BY <2>1, Steps, ComesBack DEF SeatInv
  <2>2. ASSUME Tick \/ UNCHANGED vars
        PROVE  LetBack(c)
    <3>1. conv' = conv
      BY <2>2 DEF Tick, vars, tables
    <3> QED
      BY <3>1
  <2> QED
    BY <2>1, <2>2 DEF Next, Do
<1> HIDE DEF Inv
<1>5. [][Act]_vars => BobComesBackOnlyWhenLet
  BY PTL DEF BobComesBackOnlyWhenLet
<1> HIDE DEF Act
<1> QED
  BY TypeInit, TypeStep, <1>2, <1>3, <1>4, <1>5, PTL DEF Spec
-----------------------------------------------------------------------------
(* Followups.                                                              *)

\* One worker follows up, and its process does not die.
OneRelauncher ==
    /\ \A p, q \in Requests : "relauncher" \in Role[p] \cap Role[q] => p = q
    /\ \A r \in Requests : "relauncher" \in Role[r] => r \notin Fragile

\* The stage of a session at work, next to the stage in the table.
Staged(label, row, old, new) ==
    /\ label = "in" => new.stage = 0
    /\ label = "mailed" => new.stage = old.stage + 1
    /\ label \notin {"in", "mailed"} => new.stage = old.stage
    /\ label = "listed" => row.stage <= new.stage

NudgeInv ==
    /\ \A r \in Requests : pc[r] \in AtWork => Staged(pc[r], conv[mine[r]], read[r], mind[r])
    /\ \A r \in Requests : pc[r] \in {"listed", "mailed"} => "relauncher" \in Role[r]
    /\ \A r \in Requests : pc[r] = "mailed" => nudges <= mind[r].stage
    /\ Opened = {} => nudges = 0
    /\ (\A r \in Requests : pc[r] # "mailed") => \A c \in Opened : nudges <= conv[c].stage

\* Only the worker raises a stage.
LEMMA StageWrite ==
    ASSUME TypeInv, SeatInv, NudgeInv, NEW r \in Requests, ConvStep(r), Writer(r)
    PROVE  /\ mine[r] \in Convs /\ pc[r] \in AtWork
           /\ \A c \in Convs : c # mine[r] => conv'[c] = conv[c]
           /\ pc[r] # "mailed" => conv'[mine[r]].stage <= conv[mine[r]].stage
           /\ pc[r] \notin {"in", "mailed"} => conv'[mine[r]].stage = conv[mine[r]].stage
           /\ pc[r] = "mailed" => conv'[mine[r]].stage = mind[r].stage
<1>1. pc[r] \in AtWork /\ mine[r] \in Convs
  <2>1. pc[r] \in AtWork
    BY DEF Writer, Enters, Notes, Settles, Replies, HandsOver, AtWork, Short, Long
  <2> QED
    BY <2>1, RowsInTheTable
<1>2. PICK new : Puts(r, new) /\ new.stage = mind[r].stage
  BY DEF Writer, Enters, Notes, Settles, Replies, HandsOver
<1>3. Staged(pc[r], conv[mine[r]], read[r], mind[r])
  BY <1>1 DEF NudgeInv
<1> DEFINE out == conv'[mine[r]]
           row == conv[mine[r]]
           old == read[r]
<1>4. /\ \A c \in Convs : c # mine[r] => conv'[c] = conv[c]
      /\ out.stage = IF new.stage # old.stage THEN new.stage ELSE row.stage
  BY <1>1, <1>2, PutsFields
<1>5. row.stage \in 0..2 /\ old.stage \in 0..2 /\ mind[r].stage \in 0..2
  BY <1>1, RowsInTheTable DEF ConvData
<1> HIDE DEF out, row, old
<1>6. /\ pc[r] # "mailed" => out.stage <= row.stage
      /\ pc[r] \notin {"in", "mailed"} => out.stage = row.stage
      /\ pc[r] = "mailed" => out.stage = mind[r].stage
  BY <1>2, <1>3, <1>4, <1>5 DEF Staged, old
<1> QED
  BY <1>1, <1>4, <1>6 DEF out, row

LEMMA NudgeStep ==
    ASSUME OneRelauncher, TypeInv, SeatInv, MeetInv, MeetInv', TypeInv', NudgeInv, NEW r \in Requests,
           ConvStep(r), \A q \in Requests \ {r} : SamePlace(q)
    PROVE  NudgeInv'
<1>0. nudges \in Nat /\ nudges' \in Nat
  BY DEF TypeInv, ConvTypeOK
<1>1. ASSUME NEW q \in Requests, pc'[q] \in {"listed", "mailed"}
      PROVE  "relauncher" \in Role[q]
  <2>1. CASE q # r
    BY <1>1, <2>1 DEF SamePlace, NudgeInv
  <2>2. CASE q = r
    BY <1>1, <2>2 DEF NudgeInv, ConvStep, Hears, Pauses, TakesOver, GivesBack, Opens, Begins, Enters, Notes,
       Settles, Replies, HandsOver, GoesOn, Nudges, Posts, Leaves
  <2> QED
    BY <2>1, <2>2
<1>2. ASSUME NEW q \in Requests, pc'[q] \in AtWork
      PROVE  Staged(pc[q], conv[mine[q]], read[q], mind[q])'
  <2>1. CASE q # r
    <3>1. pc'[q] = pc[q] /\ mine'[q] = mine[q] /\ read'[q] = read[q] /\ mind'[q] = mind[q]
      BY <2>1 DEF SamePlace
    <3>2. Staged(pc[q], conv[mine[q]], read[q], mind[q]) /\ mine[q] \in Convs
      BY <1>2, <3>1, RowsInTheTable DEF NudgeInv
    <3>3. ASSUME pc[q] = "listed"
          PROVE  conv'[mine[q]].stage <= mind[q].stage
      <4>1. conv[mine[q]].stage <= mind[q].stage /\ conv[mine[q]].stage \in 0..2 /\ mind[q].stage \in 0..2
        BY <3>2, <3>3, RowsInTheTable DEF Staged, ConvData
      <4>2. CASE ~ Writer(r)
        BY <4>1, <4>2, ReadersKeep
      <4>3. CASE Writer(r)
        <5>1. pc[r] # "mailed"
          BY <2>1, <3>3 DEF NudgeInv, OneRelauncher
        <5>2. conv'[mine[r]].stage \in 0..2
          BY <4>3, StageWrite DEF TypeInv, ConvTypeOK, ConvData
        <5> QED
          BY <3>2, <4>1, <4>3, <5>1, <5>2, StageWrite
      <4> QED
        BY <4>2, <4>3
    <3> QED
      BY <3>1, <3>2, <3>3 DEF Staged
  <2>2. CASE q = r
    <3>1. CASE Arriving(r)
      <4>1. PICK c \in Convs : Hears(r, c) \/ Pauses(r, c) \/ TakesOver(r, c) \/ GivesBack(r, c) \/ Opens(r, c)
        BY <3>1 DEF Arriving
      <4>2. /\ mine'[r] = c /\ read'[r] = conv[c] /\ conv' = conv
            /\ pc'[r] = "in" => mind'[r].stage = 0
            /\ pc'[r] # "in" => mind'[r].stage = conv[c].stage
            /\ pc'[r] # "mailed"
        BY <4>1 DEF Hears, Pauses, TakesOver, GivesBack, Opens, Begins
      <4>3. conv[c].stage \in 0..2
        BY RowsInTheTable DEF ConvData
      <4> QED
        BY <2>2, <4>2, <4>3 DEF Staged
    <3>2. CASE Enters(r)
      BY <2>2, <3>2 DEF Staged, Enters
    <3>3. CASE HandsOver(r)
      <4>1. Staged("thinking", conv[mine[r]], read[r], mind[r])
        BY <3>3 DEF NudgeInv, HandsOver, AtWork, Long
      <4> QED
        BY <2>2, <3>3, <4>1 DEF Staged, HandsOver
    <3>4. CASE GoesOn(r)
      <4>1. Staged(pc[r], conv[mine[r]], read[r], mind[r]) /\ pc[r] \in {"thinking", "typing"}
        BY <3>4 DEF NudgeInv, GoesOn, AtWork, Long
      <4> QED
        BY <2>2, <3>4, <4>1 DEF Staged, GoesOn, Stays
    <3>5. CASE Nudges(r)
      <4>1. Staged("listed", conv[mine[r]], read[r], mind[r])
        BY <3>5 DEF NudgeInv, Nudges, AtWork, Long
      <4> QED
        BY <2>2, <3>5, <4>1 DEF Staged, Nudges, Stays
    <3>6. CASE Notes(r) \/ Settles(r) \/ Replies(r) \/ Posts(r) \/ Leaves(r)
      BY <1>2, <2>2, <3>6 DEF Notes, Settles, Replies, Posts, Leaves, AtWork, Short, Long
    <3> QED
      BY <3>1, <3>2, <3>3, <3>4, <3>5, <3>6 DEF ConvStep, Arriving
  <2> QED
    BY <2>1, <2>2
\* The conversation of a step that writes is the only one.
<1>3. ASSUME Writer(r)
      PROVE  /\ Opened' = {mine[r]}
             /\ Opened # {} => Opened = {mine[r]}
             /\ pc[r] \notin Inserting => Opened = {mine[r]}
  <2>1. mine[r] \in Convs /\ Wrote(r)
    <3>1. pc[r] \in AtWork
      BY <1>3, StageWrite
    <3>2. mind[r].status # "NONE"
      BY <3>1 DEF SeatInv, Seated
    <3> QED
      BY <1>3, <3>1, <3>2, StageWrite DEF Wrote, Writer, Enters, Notes, Settles, Replies, HandsOver
  <2>2. /\ \A c \in Convs : conv[c].status # "NONE" => conv'[c].status # "NONE"
        /\ conv'[mine[r]].status # "NONE"
    BY <2>1, WroteOpens
  <2>3. mine[r] \in Opened' /\ Opened \subseteq Opened'
    BY <2>1, <2>2 DEF Opened
  <2>4. \E c \in Convs : Opened' = {c}
    BY <2>3 DEF MeetInv, Together
  <2>5. Opened' = {mine[r]}
    BY <2>3, <2>4
  <2>6. pc[r] \notin Inserting => mine[r] \in Opened
    BY <1>3, <2>1, StageWrite DEF SeatInv, Seated, Opened
  <2> QED
    BY <2>3, <2>5, <2>6
<1>4. ASSUME ~ Writer(r)
      PROVE  Opened' = Opened /\ conv' = conv
  BY <1>4, ReadersKeep DEF Opened
<1>5. nudges' = nudges \/ Enters(r) \/ Nudges(r)
  BY DEF ConvStep, Hears, Pauses, TakesOver, GivesBack, Opens, Begins, Notes, Settles, Replies,
     HandsOver, GoesOn, Posts, Leaves
<1>6. Enters(r) => nudges' = 0
  BY DEF Enters
<1>7. ASSUME Nudges(r)
      PROVE  /\ mine[r] \in Opened /\ mine[r] \in Convs
             /\ nudges <= conv[mine[r]].stage /\ conv[mine[r]].stage <= mind[r].stage
             /\ mind'[r].stage = mind[r].stage + 1
  <2>1. pc[r] = "listed" /\ mind'[r].stage = mind[r].stage + 1
    BY <1>7 DEF Nudges
  <2>2. mine[r] \in Convs /\ mine[r] \in Opened
    BY <2>1, RowsInTheTable DEF SeatInv, Seated, Opened, AtWork, Long, Inserting
  <2>3. \A q \in Requests : pc[q] # "mailed"
    BY <2>1 DEF NudgeInv, OneRelauncher
  <2>4. Staged("listed", conv[mine[r]], read[r], mind[r])
    BY <2>1 DEF NudgeInv, AtWork, Long
  <2> QED
    BY <2>1, <2>2, <2>3, <2>4 DEF NudgeInv, Staged
<1>8. ASSUME NEW q \in Requests, pc'[q] = "mailed"
      PROVE  nudges' <= mind'[q].stage
  <2>1. mind'[q].stage \in 0..2
    BY DEF TypeInv, ConvTypeOK, ConvData
  <2>2. CASE Enters(r)
    BY <1>6, <2>1, <2>2
  <2>3. CASE Nudges(r)
    <3>1. q = r
      <4>1. pc'[r] = "mailed"
        BY <2>3 DEF Nudges
      <4> QED
        BY <1>1, <1>8, <4>1 DEF OneRelauncher
    <3>2. nudges' \in {nudges, nudges + 1}
      BY <2>3 DEF Nudges
    <3>3. conv[mine[r]].stage \in 0..2 /\ mind[r].stage \in 0..2
      BY <1>7, <2>3, RowsInTheTable DEF ConvData
    <3> QED
      BY <1>0, <1>7, <2>3, <3>1, <3>2, <3>3
  <2>4. CASE ~ Enters(r) /\ ~ Nudges(r)
    <3>1. q # r
      BY <1>8, <2>4 DEF ConvStep, Hears, Pauses, TakesOver, GivesBack, Opens, Begins, Notes, Settles, Replies,
         HandsOver, GoesOn, Posts, Leaves
    <3> QED
      BY <1>5, <1>8, <2>4, <3>1 DEF SamePlace, NudgeInv
  <2> QED
    BY <2>2, <2>3, <2>4
<1>9. Opened' = {} => nudges' = 0
  <2>1. Nudges(r) => ~ Writer(r)
    BY DEF Nudges, Writer, Enters, Notes, Settles, Replies, HandsOver
  <2>2. CASE Writer(r)
    BY <1>3, <2>2
  <2>3. CASE ~ Writer(r)
    <3>1. ~ Enters(r)
      BY <2>3 DEF Writer
    <3> QED
      BY <1>4, <1>5, <1>7, <2>3, <3>1 DEF NudgeInv
  <2> QED
    BY <2>2, <2>3
<1>10. ASSUME \A q \in Requests : pc'[q] # "mailed", NEW c \in Opened'
       PROVE  nudges' <= conv'[c].stage
  <2>1. c \in Convs /\ conv'[c].stage \in 0..2
    BY DEF Opened, TypeInv, ConvTypeOK, ConvData
  <2>2. CASE Enters(r)
    BY <1>6, <2>1, <2>2
  <2>3. CASE ~ Enters(r)
    <3>1. ~ Nudges(r) /\ nudges' = nudges
      BY <1>5, <1>10, <2>3 DEF Nudges
    <3>2. CASE pc[r] = "mailed"
      <4>1. r \notin Fragile
        BY <3>2 DEF NudgeInv, OneRelauncher
      <4>2. Settles(r)
        BY <1>10, <3>2, <4>1 DEF ConvStep, Hears, Pauses, TakesOver, GivesBack, Opens, Begins, Enters, Notes,
           Replies, HandsOver, GoesOn, Nudges, Posts, Leaves, AtWork, Long
      <4>3. Writer(r) /\ c = mine[r]
        BY <1>3, <4>2 DEF Writer
      <4>4. conv'[c].stage = mind[r].stage
        BY <3>2, <4>3, StageWrite
      <4> QED
        BY <3>1, <3>2, <4>4 DEF NudgeInv
    <3>3. CASE pc[r] # "mailed"
      <4>1. \A q \in Requests : pc[q] # "mailed"
        BY <1>10, <3>3 DEF SamePlace
      <4>2. CASE ~ Writer(r)
        BY <1>4, <3>1, <4>1, <4>2 DEF NudgeInv
      <4>3. CASE Writer(r)
        <5>1. c = mine[r]
          BY <1>3, <4>3
        <5>2. pc[r] # "in"
          BY <2>3, <4>3 DEF Writer, Notes, Settles, Replies, HandsOver
        <5>3. conv'[c].stage = conv[c].stage
          BY <3>3, <4>3, <5>1, <5>2, StageWrite
        <5>4. CASE Opened = {}
          BY <2>1, <3>1, <5>4 DEF NudgeInv
        <5>5. CASE Opened # {}
          BY <1>3, <3>1, <4>1, <4>3, <5>1, <5>3, <5>5 DEF NudgeInv
        <5> QED
          BY <5>4, <5>5
      <4> QED
        BY <4>2, <4>3
    <3> QED
      BY <3>2, <3>3
  <2> QED
    BY <2>2, <2>3
<1> QED
  BY <1>1, <1>2, <1>8, <1>9, <1>10 DEF NudgeInv

\* A customer who was not known gets no third followup before he has written
\* again, whoever else works on his conversation and however many webhooks meet,
\* as long as one worker follows up, and does not die between the email and the
\* commit.
THEOREM TwoFollowUpsAtMost ==
    ASSUME ~ KnownAtStart, OneRelauncher
    PROVE  Spec => []AtMostTwoFollowUps
<1> DEFINE Inv == SeatInv /\ MeetInv /\ NudgeInv
<1>1. Init => Inv
  <2>1. Init => NudgeInv
    <3> SUFFICES ASSUME Init PROVE NudgeInv
      OBVIOUS
    <3>1. Opened = {}
      BY DEF Init, Opened, NoConv
    <3> QED
      BY <3>1 DEF Init, NudgeInv, AtWork, Short, Long
  <2> QED
    BY <2>1, SeatInit, MeetInit
<1>2. TypeInv /\ Inv /\ [Next]_vars => Inv'
  <2> SUFFICES ASSUME TypeInv, Inv, [Next]_vars PROVE Inv'
    OBVIOUS
  <2>1. SeatInv' /\ MeetInv' /\ TypeInv'
    BY SeatNext, MeetStep, TypeStep
  <2>2. ASSUME NEW r \in Requests, Do(r)
        PROVE  NudgeInv'
    BY <2>1, <2>2, Steps, OthersStay, NudgeStep DEF SeatInv
  <2>3. ASSUME Tick \/ UNCHANGED vars
        PROVE  NudgeInv'
    <3>1. UNCHANGED <<conv, pc, mine, read, mind, nudges>> /\ Opened' = Opened
      BY <2>3 DEF Tick, vars, tables, session, Opened
    <3> QED
      BY <3>1 DEF NudgeInv, Staged
  <2> QED
    BY <2>1, <2>2, <2>3 DEF Next, Do
<1>3. TypeInv /\ Inv => AtMostTwoFollowUps
  <2> SUFFICES ASSUME TypeInv, NudgeInv, MeetInv PROVE nudges <= 2
    BY DEF AtMostTwoFollowUps
  <2>1. /\ \A c \in Convs : conv[c].stage \in 0..2
        /\ \A r \in Requests : mind[r].stage \in 0..2
        /\ nudges \in Nat
    BY DEF TypeInv, ConvTypeOK, ConvData
  <2>2. CASE \E r \in Requests : pc[r] = "mailed"
    BY <2>1, <2>2 DEF NudgeInv
  <2>3. CASE (\A r \in Requests : pc[r] # "mailed") /\ Opened # {}
    BY <2>1, <2>3 DEF NudgeInv, Opened
  <2>4. CASE Opened = {}
    BY <2>4 DEF NudgeInv
  <2> QED
    BY <2>2, <2>3, <2>4
<1> HIDE DEF Inv
<1> QED
  BY TypeInit, TypeStep, <1>1, <1>2, <1>3, PTL DEF Spec
-----------------------------------------------------------------------------
(* What the shop hears of a customer who waits.                            *)

\* A customer of the shop waits, and nobody has taken him.
Waits(row) == row.status = "WAITING_HUMAN" /\ row.agent = Nobody /\ row.phoneAt = Never

Dated(row) == row.phoneAt <= now /\ row.alertAt <= now

\* The three ways to hear a message: nothing to do, Bob is back, a reminder.
Heard(old, new, mails) ==
    \/ /\ mails = {} /\ new.alertAt = old.alertAt /\ new.phoneAt = old.phoneAt
       /\ new.status = (IF old.status = "NONE" THEN "ACTIVE" ELSE old.status)
    \/ /\ mails = {} /\ new.alertAt = Never /\ new.phoneAt = Never /\ new.status = "ACTIVE"
       /\ ResumeDue(old)
    \/ /\ mails = {"reminder"} /\ new.alertAt = now /\ Waits(new) /\ Waits(old)

\* The alert of a session at work, next to the one in the table.
Warns(label, row, old, new, mails) ==
    /\ Dated(old) /\ Dated(new)
    /\ label \in Short => row.alertAt \in {old.alertAt, now}
    /\ label \in {"echo", "taking", "giving"} => new.alertAt = old.alertAt
    /\ label = "in" => Heard(old, new, mails)
    /\ label = "thinking" =>
         /\ mails = {}
         /\ new.alertAt = now => row.alertAt = now /\ row.phoneAt \in {Never, now}

Pending(r, c, at) == pc[r] = "mailing" /\ mine[r] = c /\ mail[r] # {} /\ mind[r].alertAt = at

Reported(c, at) ==
    /\ at # Never
    /\ \/ \E m \in sent : m.conv = c /\ m.at = at
       \/ \E r \in Requests : Pending(r, c, at)

WarnInv ==
    /\ \A c \in Convs : Dated(conv[c])
    /\ \A r \in Requests : pc[r] \in AtWork => Warns(pc[r], conv[mine[r]], read[r], mind[r], mail[r])
    /\ \A r \in Requests : pc[r] \in {"thinking", "mailing"} => r \in Convs
    /\ \A c \in Convs : Waits(conv[c]) => Reported(c, conv[c].alertAt)

\* Bob comes back after an hour at least, and the webhooks do not die.
Careful == ResumeAfter >= 1 /\ Fragile \cap Convs = {}

LEMMA StepKeepsTime ==
    ASSUME NEW r \in Requests, ConvStep(r)
    PROVE  now' = now
  BY DEF ConvStep, Hears, Pauses, TakesOver, GivesBack, Opens, Begins, Enters, Notes, Settles, Replies, HandsOver,
     GoesOn, Nudges, Posts, Leaves

LEMMA ReportedStays ==
    ASSUME Careful, TypeInv, WarnInv, NEW r \in Requests, ConvStep(r), \A q \in Requests \ {r} : SamePlace(q),
           NEW c \in Convs, NEW at, Reported(c, at)
    PROVE  Reported(c, at)'
<1>1. sent \subseteq sent'
  BY DEF ConvStep, Hears, Pauses, TakesOver, GivesBack, Opens, Begins, Enters, Notes, Settles, Replies, HandsOver,
     GoesOn, Nudges, Posts, Leaves
<1>2. CASE \E m \in sent : m.conv = c /\ m.at = at
  BY <1>1, <1>2 DEF Reported
<1>3. ASSUME NEW q \in Requests, Pending(q, c, at)
      PROVE  Reported(c, at)'
  <2>1. CASE q # r
    BY <1>3, <2>1 DEF Reported, Pending, SamePlace
  <2>2. CASE q = r
    <3>1. pc[r] = "mailing" /\ r \notin Fragile
      BY <1>3, <2>2 DEF Pending, WarnInv, Careful
    <3>2. Posts(r)
      BY <3>1 DEF ConvStep, Hears, Pauses, TakesOver, GivesBack, Opens, Begins, Enters, Notes, Settles, Replies,
         HandsOver, GoesOn, Nudges, Leaves, AtWork, Long
    <3>3. PICK k : k \in mail[r]
      BY <1>3, <2>2 DEF Pending
    <3> DEFINE m == [kind |-> k, conv |-> mine[r], by |-> r, at |-> mind[r].alertAt]
    <3>4. m \in sent'
      BY <3>2, <3>3 DEF Posts
    <3>5. m.conv = c /\ m.at = at
      BY <1>3, <2>2 DEF Pending
    <3> HIDE DEF m
    <3> QED
      BY <3>4, <3>5 DEF Reported
  <2> QED
    BY <2>1, <2>2
<1> QED
  BY <1>2, <1>3 DEF Reported

Rings(r, c, at) == pc'[r] = "mailing" /\ mine'[r] = c /\ mail'[r] # {} /\ mind'[r].alertAt = at

\* The alert that a writer leaves.
LEMMA AlertWrite ==
    ASSUME Careful, TypeInv, SeatInv, HandInv, WarnInv, NEW r \in Requests, Writer(r)
    PROVE  LET out == conv'[mine[r]]
               row == conv[mine[r]]
           IN  /\ mine[r] \in Convs /\ pc[r] \in AtWork
               /\ \A c \in Convs : c # mine[r] => conv'[c] = conv[c]
               /\ Dated(out)
               /\ pc[r] \notin Short => out.alertAt \in {row.alertAt, now}
               /\ row.alertAt = now /\ row.phoneAt \in {Never, now}
                    => out.alertAt = now /\ out.phoneAt \in {Never, now}
               /\ Waits(out) => \/ Waits(row) /\ out.alertAt = row.alertAt
                                \/ out.alertAt = now /\ Rings(r, mine[r], now)
               /\ pc[r] = "in" /\ mail[r] # {} => out.alertAt = now
<1> DEFINE out == conv'[mine[r]]
           row == conv[mine[r]]
           old == read[r]
           new == mind[r]
<1>1. pc[r] \in AtWork /\ mine[r] \in Convs
  <2>1. pc[r] \in AtWork
    BY DEF Writer, Enters, Notes, Settles, Replies, HandsOver, AtWork, Short, Long
  <2> QED
    BY <2>1, RowsInTheTable
<1>2. \A c \in Convs : c # mine[r] => conv'[c] = conv[c]
  BY LongWrite, ShortWrite
<1>3. /\ row.alertAt \in Moments /\ row.phoneAt \in Moments /\ old.alertAt \in Moments /\ old.phoneAt \in Moments
      /\ row.status \in Status /\ old.status \in Status
      /\ now \in Nat /\ ResumeAfter \in Nat
  BY <1>1, RowsInTheTable, NowIsNat, ConversationAssumption DEF ConvData, TypeInv, ConvTypeOK
<1>4. Dated(row) /\ Dated(new) /\ Dated(old) /\ Warns(pc[r], row, old, new, mail[r]) /\ Held(pc[r], row, old, new)
  BY <1>1 DEF WarnInv, HandInv, Warns
<1>5. CASE pc[r] \notin Short
  <2>1. /\ Touched(out, row, now)
        /\ ~ HandsOver(r) => out.status = row.status /\ out.alertAt = row.alertAt
        /\ HandsOver(r) => out.alertAt = now \/ old.alertAt = now
    BY <1>5, LongWrite
  <2>2. HandsOver(r) => /\ pc[r] = "thinking" /\ pc'[r] = "mailing" /\ mine'[r] = mine[r] /\ mind'[r].alertAt = now
                        /\ mail'[r] # {}
    BY DEF HandsOver
  <2>3. HandsOver(r) => Rings(r, mine[r], now)
    BY <2>2 DEF Rings
  <2>4. HandsOver(r) => new = old
    BY <1>4, <2>2 DEF Held
  <2> HIDE DEF out, row, old, new
  <2>5. HandsOver(r) => out.alertAt = now
    BY <1>4, <2>1, <2>2, <2>4 DEF Warns, Touched
  <2>6. Dated(out)
    BY <1>3, <1>4, <2>1 DEF Dated, Touched
  <2>7. Waits(out) => \/ Waits(row) /\ out.alertAt = row.alertAt
                      \/ out.alertAt = now /\ Rings(r, mine[r], now)
    BY <2>1, <2>3, <2>5 DEF Waits, Touched
  <2>8. out.alertAt \in {row.alertAt, now} /\ out.phoneAt = row.phoneAt /\ pc[r] # "in"
    BY <1>5, <2>1 DEF Touched, Short
  <2> QED
    BY <1>1, <1>2, <1>5, <2>6, <2>7, <2>8 DEF out, row
<1>6. CASE pc[r] \in Short
  <2>1. Puts(r, mind[r])
    BY <1>6 DEF Writer, Enters, Notes, Settles, Replies, HandsOver, Short
  <2>2. /\ out.status = IF new.status # old.status THEN new.status ELSE row.status
        /\ out.agent = IF new.agent # old.agent THEN new.agent ELSE row.agent
        /\ out.phoneAt = IF new.phoneAt # old.phoneAt THEN new.phoneAt ELSE row.phoneAt
        /\ out.alertAt = IF new.alertAt # old.alertAt THEN new.alertAt ELSE row.alertAt
    BY <1>1, <2>1, PutsFields
  <2>3. Left(pc[r], out, row, old)
    BY <1>6, ShortWrite
  <2>4. pc[r] = "in" => /\ pc'[r] = (IF new.status = "ACTIVE" THEN "thinking" ELSE "mailing")
                        /\ mine'[r] = mine[r] /\ mail'[r] = mail[r] /\ mind'[r] = new
    BY DEF Writer, Enters, Notes, Settles, Replies, HandsOver
  <2>5. Near(row, old) /\ row.alertAt \in {old.alertAt, now} /\ ActiveIsFree(old)
    BY <1>4, <1>6 DEF Held, Warns
  <2>6. pc[r] = "in" /\ mail[r] = {"reminder"} /\ Waits(new) /\ new.alertAt = now => Rings(r, mine[r], now)
    BY <2>4 DEF Rings, Waits
  <2> HIDE DEF out, row, old, new
  <2> DEFINE Goal == /\ Dated(out)
                     /\ row.alertAt = now /\ row.phoneAt \in {Never, now}
                          => out.alertAt = now /\ out.phoneAt \in {Never, now}
                     /\ Waits(out) => \/ Waits(row) /\ out.alertAt = row.alertAt
                                      \/ out.alertAt = now /\ Rings(r, mine[r], now)
                     /\ pc[r] = "in" /\ mail[r] # {} => out.alertAt = now
  <2>7. ASSUME pc[r] = "in"
        PROVE  Goal
    <3>1. Heard(old, new, mail[r])
      BY <1>4, <2>7 DEF Warns
    <3>2. CASE /\ mail[r] = {} /\ new.alertAt = old.alertAt /\ new.phoneAt = old.phoneAt
               /\ new.status = (IF old.status = "NONE" THEN "ACTIVE" ELSE old.status)
      <4>1. out.phoneAt = row.phoneAt /\ out.alertAt = row.alertAt
        BY <2>2, <3>2
      <4>2. out.status = "ACTIVE" \/ out.status = row.status
        BY <2>2, <3>2
      <4>3. out.agent = row.agent
        BY <2>3, <2>7 DEF Left
      <4> QED
        BY <1>4, <3>2, <4>1, <4>2, <4>3 DEF Dated, Waits
    <3>3. CASE /\ mail[r] = {} /\ new.alertAt = Never /\ new.phoneAt = Never /\ new.status = "ACTIVE"
               /\ ResumeDue(old)
      <4>1. row.phoneAt # Never /\ row.phoneAt # now
        BY <1>3, <2>5, <3>3 DEF ResumeDue, Near, Careful, Moments, Never
      <4>2. out.status = "ACTIVE" /\ out.phoneAt = Never /\ out.alertAt \in {Never, row.alertAt}
        BY <2>2, <3>3 DEF ResumeDue
      <4> QED
        BY <1>3, <1>4, <3>3, <4>1, <4>2 DEF Dated, Waits, Never
    <3>4. CASE mail[r] = {"reminder"} /\ new.alertAt = now /\ Waits(new) /\ Waits(old)
      <4>1. out.alertAt = now
        BY <2>2, <2>5, <3>4
      <4>2. out.phoneAt = row.phoneAt
        BY <2>2, <3>4 DEF Waits
      <4>3. Rings(r, mine[r], now)
        BY <2>6, <2>7, <3>4
      <4> QED
        BY <1>3, <1>4, <4>1, <4>2, <4>3 DEF Dated
    <3> QED
      BY <3>1, <3>2, <3>3, <3>4 DEF Heard
  <2>8. ASSUME pc[r] # "in"
        PROVE  Goal
    <3>1. new.alertAt = old.alertAt
      BY <1>4, <1>6, <2>8 DEF Warns, Short
    <3>2. out.alertAt = row.alertAt
      BY <2>2, <3>1
    <3>3. out.phoneAt \in {Never, now, row.phoneAt}
      BY <1>4, <1>6, <2>2, <2>8 DEF Held, Short
    <3>4. Waits(out) => Waits(row)
      BY <1>3, <1>6, <2>3, <2>8 DEF Left, Waits, Short, Never
    <3> QED
      BY <1>3, <1>4, <2>8, <3>2, <3>3, <3>4 DEF Dated, Never
  <2>9. Goal
    BY <2>7, <2>8
  <2> QED
    BY <1>1, <1>2, <1>6, <2>9 DEF out, row
<1> QED
  BY <1>5, <1>6
LEMMA ArrivalWarns ==
    ASSUME TypeInv, HandInv, WarnInv, NEW r \in Requests, NEW c \in Convs,
           Hears(r, c) \/ Pauses(r, c) \/ TakesOver(r, c) \/ GivesBack(r, c) \/ Opens(r, c)
    PROVE  /\ mine'[r] = c /\ conv' = conv
           /\ Warns(pc'[r], conv[c], conv[c], mind'[r], mail'[r])
           /\ pc'[r] \notin {"thinking", "mailing"}
<1>1. Dated(conv[c]) /\ now \in Nat
  BY NowIsNat DEF WarnInv, TypeInv, ConvTypeOK
<1>2. CASE Hears(r, c)
  <2>1. Heard(conv[c], mind'[r], mail'[r])
    BY <1>2 DEF Hears, Heard, ReminderDue, ResumeDue, Waits
  <2>2. Dated(mind'[r])
    BY <1>1, <2>1 DEF Heard, Dated, Waits, Never
  <2> QED
    BY <1>1, <1>2, <2>1, <2>2 DEF Hears, Begins, Warns, Short
<1>3. CASE Pauses(r, c)
  <2>1. Dated(mind'[r])
    BY <1>1, <1>3 DEF Pauses, Dated
  <2> QED
    BY <1>1, <1>3, <2>1 DEF Pauses, Begins, Warns, Short
<1>4. CASE TakesOver(r, c)
  <2>1. Dated(mind'[r])
    BY <1>1, <1>4 DEF TakesOver, Dated
  <2> QED
    BY <1>1, <1>4, <2>1 DEF TakesOver, Begins, Warns, Short
<1>5. CASE GivesBack(r, c)
  <2>1. Dated(mind'[r])
    BY <1>1, <1>5 DEF GivesBack, Dated, Never
  <2> QED
    BY <1>1, <1>5, <2>1 DEF GivesBack, Begins, Warns, Short
<1>6. CASE Opens(r, c)
  <2>1. Dated(mind'[r])
    BY <1>1, <1>6 DEF Opens
  <2> QED
    BY <1>1, <1>6, <2>1 DEF Opens, Begins, Warns, Short
<1> QED
  BY <1>2, <1>3, <1>4, <1>5, <1>6

LEMMA WarnStep ==
    ASSUME Careful, TypeInv, SeatInv, AloneInv, HandInv, WarnInv, NEW r \in Requests, ConvStep(r),
           \A q \in Requests \ {r} : SamePlace(q)
    PROVE  WarnInv'
<1>1. now' = now /\ now \in Nat
  BY StepKeepsTime, NowIsNat DEF TypeInv, ConvTypeOK
<1>2. ASSUME NEW c \in Convs
      PROVE  Dated(conv'[c])
  <2>1. CASE ~ Writer(r)
    BY <2>1, ReadersKeep DEF WarnInv
  <2>2. CASE Writer(r) /\ c # mine[r]
    BY <2>2, AlertWrite DEF WarnInv
  <2>3. CASE Writer(r) /\ c = mine[r]
    BY <2>3, AlertWrite
  <2> QED
    BY <2>1, <2>2, <2>3
<1>3. ASSUME NEW q \in Requests, pc'[q] \in {"thinking", "mailing"}
      PROVE  q \in Convs
  <2>1. CASE q # r
    BY <1>3, <2>1 DEF SamePlace, WarnInv
  <2>2. CASE q = r
    <3>1. pc[r] \in {"in", "thinking", "mailing"}
      BY <1>3, <2>2 DEF ConvStep, Hears, Pauses, TakesOver, GivesBack, Opens, Begins, Enters, Notes, Settles, Replies,
         HandsOver, GoesOn, Nudges, Posts, Leaves
    <3> QED
      BY <2>2, <3>1 DEF WarnInv, TypeInv, Sessions, Inserting
  <2> QED
    BY <2>1, <2>2
<1>4. ASSUME NEW q \in Requests, pc'[q] \in AtWork
      PROVE  Warns(pc'[q], conv'[mine'[q]], read'[q], mind'[q], mail'[q])
  <2>1. CASE q # r
    <3>1. /\ pc'[q] = pc[q] /\ mine'[q] = mine[q] /\ read'[q] = read[q] /\ mind'[q] = mind[q] /\ mail'[q] = mail[q]
      BY <2>1 DEF SamePlace
    <3>2. Warns(pc[q], conv[mine[q]], read[q], mind[q], mail[q]) /\ mine[q] \in Convs
      BY <1>4, <3>1, RowsInTheTable DEF WarnInv
    <3>3. CASE conv'[mine[q]] = conv[mine[q]]
      BY <3>1, <3>2, <3>3
    <3>4. CASE Writer(r) /\ mine[q] = mine[r]
      <4>1. pc[q] \in Short => pc[r] \notin Short
        BY <2>1 DEF AloneInv, ShortAlone
      <4>2. pc[q] \in Short => conv'[mine[q]].alertAt \in {read[q].alertAt, now}
        BY <3>2, <3>4, <4>1, AlertWrite DEF Warns
      <4>3. conv[mine[q]].alertAt = now /\ conv[mine[q]].phoneAt \in {Never, now}
              => conv'[mine[q]].alertAt = now /\ conv'[mine[q]].phoneAt \in {Never, now}
        BY <3>4, AlertWrite
      <4> QED
        BY <3>1, <3>2, <4>2, <4>3 DEF Warns
    <3> QED
      BY <3>2, <3>3, <3>4, AlertWrite, ReadersKeep
  <2>2. CASE q = r
    <3>1. CASE Arriving(r)
      <4>1. PICK c \in Convs : Hears(r, c) \/ Pauses(r, c) \/ TakesOver(r, c) \/ GivesBack(r, c) \/ Opens(r, c)
        BY <3>1 DEF Arriving
      <4>2. read'[r] = conv[c]
        BY <4>1 DEF Hears, Pauses, TakesOver, GivesBack, Opens, Begins
      <4> QED
        BY <2>2, <4>1, <4>2, ArrivalWarns
    <3>2. CASE Enters(r)
      <4>1. /\ pc[r] = "in" /\ mine'[r] = mine[r] /\ read'[r] = mind[r] /\ mind'[r] = mind[r] /\ mail'[r] = mail[r]
            /\ pc'[r] = (IF mind[r].status = "ACTIVE" THEN "thinking" ELSE "mailing")
            /\ Writer(r) /\ pc[r] \in AtWork /\ pc[r] \in Short
        BY <3>2 DEF Enters, Writer, AtWork, Short
      <4>2. Warns("in", conv[mine[r]], read[r], mind[r], mail[r]) /\ Held("in", conv[mine[r]], read[r], mind[r])
        BY <4>1 DEF WarnInv, HandInv
      <4>3. Dated(mind[r]) /\ Heard(read[r], mind[r], mail[r]) /\ Near(conv[mine[r]], read[r])
            /\ ActiveIsFree(read[r]) /\ conv[mine[r]].alertAt \in {read[r].alertAt, now}
        BY <4>2 DEF Warns, Held, Short
      <4>4. ASSUME mind[r].status = "ACTIVE"
            PROVE  /\ mail[r] = {}
                   /\ mind[r].alertAt = now => conv'[mine[r]].alertAt = now /\ conv'[mine[r]].phoneAt \in {Never, now}
        <5>1. mail[r] = {}
          BY <4>3, <4>4 DEF Heard, Waits
        <5>2. ASSUME mind[r].alertAt = now
              PROVE  conv[mine[r]].alertAt = now /\ conv[mine[r]].phoneAt \in {Never, now}
          <6>1. mind[r].alertAt = read[r].alertAt /\ read[r].status # "WAITING_HUMAN"
            BY <1>1, <4>3, <4>4, <5>2 DEF Heard, Waits, Never
          <6> QED
            BY <4>3, <5>2, <6>1 DEF Near, ActiveIsFree
        <5> QED
          BY <4>1, <5>1, <5>2, AlertWrite
      <4> QED
        BY <2>2, <4>1, <4>3, <4>4 DEF Warns, Short
    <3>3. CASE HandsOver(r)
      <4>1. Dated(read[r]) /\ Dated(mind[r])
        BY <3>3 DEF HandsOver, WarnInv, Warns, AtWork, Long
      <4>2. /\ pc'[r] = "mailing" /\ read'[r] = read[r] /\ mind'[r].alertAt = now /\ mind'[r].phoneAt = mind[r].phoneAt
        BY <3>3 DEF HandsOver
      <4> QED
        BY <1>1, <2>2, <4>1, <4>2 DEF Dated, Warns, Short
    <3>4. CASE GoesOn(r) \/ Nudges(r)
      <4>1. Dated(read[r]) /\ Dated(mind[r])
        BY <3>4 DEF GoesOn, Nudges, WarnInv, Warns, AtWork, Long
      <4>2. /\ pc'[r] \in {"mailing", "typed", "mailed"} /\ read'[r] = read[r] /\ mind'[r].alertAt = mind[r].alertAt
            /\ mind'[r].phoneAt = mind[r].phoneAt
        BY <3>4 DEF GoesOn, Nudges, Stays
      <4> QED
        BY <2>2, <4>1, <4>2 DEF Dated, Warns, Short
    <3>6. CASE Notes(r) \/ Settles(r) \/ Replies(r) \/ Posts(r) \/ Leaves(r)
      BY <1>4, <2>2, <3>6 DEF Notes, Settles, Replies, Posts, Leaves, AtWork, Short, Long
    <3> QED
      BY <3>1, <3>2, <3>3, <3>4, <3>6 DEF ConvStep, Arriving
  <2> QED
    BY <2>1, <2>2
<1>5. ASSUME NEW c \in Convs, Waits(conv'[c])
      PROVE  Reported(c, conv[c].alertAt)'
  <2>1. CASE Waits(conv[c]) /\ conv'[c].alertAt = conv[c].alertAt
    <3>1. Reported(c, conv[c].alertAt)
      BY <2>1 DEF WarnInv
    <3>2. \A at : Reported(c, at) => Reported(c, at)'
      BY ReportedStays
    <3>3. PICK at : at = conv[c].alertAt
      OBVIOUS
    <3>4. Reported(c, at)' /\ at = conv'[c].alertAt
      BY <2>1, <3>1, <3>2, <3>3
    <3> QED
      BY <3>4 DEF Reported, Pending
  <2>2. CASE ~ (Waits(conv[c]) /\ conv'[c].alertAt = conv[c].alertAt)
    <3>1. conv'[c] # conv[c]
      BY <1>5, <2>2
    <3>2. Writer(r)
      BY <3>1, ReadersKeep
    <3>3. c = mine[r]
      BY <3>1, <3>2, AlertWrite
    <3>4. conv'[c].alertAt = now /\ Rings(r, c, now)
      BY <1>5, <2>2, <3>2, <3>3, AlertWrite
    <3> QED
      BY <1>1, <3>4 DEF Reported, Pending, Rings, Never
  <2> QED
    BY <2>1, <2>2
<1>6. \A c \in Convs : Dated(conv[c])'
  BY <1>1, <1>2 DEF Dated
<1>7. \A q \in Requests : pc'[q] \in AtWork =>
        Warns(pc[q], conv[mine[q]], read[q], mind[q], mail[q])'
  <2> SUFFICES ASSUME NEW q \in Requests, pc'[q] \in AtWork
               PROVE  Warns(pc[q], conv[mine[q]], read[q], mind[q], mail[q])'
    OBVIOUS
  <2>1. Warns(pc'[q], conv'[mine'[q]], read'[q], mind'[q], mail'[q])
    BY <1>4
  <2> QED
    BY <1>1, <2>1 DEF Warns, Dated, Heard, ResumeDue
<1> QED
  BY <1>3, <1>5, <1>6, <1>7 DEF WarnInv
-----------------------------------------------------------------------------
(* Reminders.                                                              *)

\* A reminder that left, or is about to.
Reminds(by, c, at) ==
    \/ \E m \in sent : m.kind = "reminder" /\ m.conv = c /\ m.by = by /\ m.at = at
    \/ pc[by] = "mailing" /\ "reminder" \in mail[by] /\ mine[by] = c /\ mind[by].alertAt = at

Apart(s, t) == s >= t + AlertInterval \/ t >= s + AlertInterval

RemindInv ==
    /\ \A c \in Convs, by \in Requests, at \in Moments :
         Reminds(by, c, at) =>
           /\ at <= now
           /\ Waits(conv[c]) => at <= conv[c].alertAt
    /\ \A c \in Convs, p \in Requests, q \in Requests, s \in Moments, t \in Moments :
         Reminds(p, c, s) /\ Reminds(q, c, t) => (p = q /\ s = t) \/ Apart(s, t)
    /\ \A r \in Requests : pc[r] = "in" /\ mail[r] # {} =>
         \A by \in Requests, at \in Moments : Reminds(by, mine[r], at) => at + AlertInterval <= now

\* A webhook that records a message is the one that adds a reminder.
LEMMA RemindsBefore ==
    ASSUME TypeInv, WarnInv, NEW r \in Requests, ConvStep(r), \A q \in Requests \ {r} : SamePlace(q),
           NEW c \in Convs, NEW by \in Requests, NEW at \in Moments, Reminds(by, c, at)'
    PROVE  \/ Reminds(by, c, at)
           \/ by = r /\ Enters(r) /\ mail[r] # {} /\ c = mine[r] /\ at = mind[r].alertAt
<1>1. CASE \E m \in sent' : m.kind = "reminder" /\ m.conv = c /\ m.by = by /\ m.at = at
  <2>1. PICK m \in sent' : m.kind = "reminder" /\ m.conv = c /\ m.by = by /\ m.at = at
    BY <1>1
  <2>2. CASE m \in sent
    BY <2>1, <2>2 DEF Reminds
  <2>3. CASE m \notin sent
    <3>1. Posts(r)
      BY <2>1, <2>3 DEF ConvStep, Hears, Pauses, TakesOver, GivesBack, Opens, Begins, Enters, Notes, Settles, Replies,
         HandsOver, GoesOn, Nudges, Leaves
    <3>2. PICK k \in mail[r] : m = [kind |-> k, conv |-> mine[r], by |-> r, at |-> mind[r].alertAt]
      BY <2>1, <2>3, <3>1 DEF Posts
    <3>3. k = "reminder" /\ mine[r] = c /\ r = by /\ mind[r].alertAt = at
      BY <2>1, <3>2
    <3> QED
      BY <3>1, <3>3 DEF Reminds, Posts
  <2> QED
    BY <2>2, <2>3
<1>2. CASE pc'[by] = "mailing" /\ "reminder" \in mail'[by] /\ mine'[by] = c /\ mind'[by].alertAt = at
  <2>1. CASE by # r
    BY <1>2, <2>1 DEF Reminds, SamePlace
  <2>2. CASE by = r
    <3>1. pc[r] = "thinking" => mail[r] = {}
      BY DEF WarnInv, Warns, AtWork, Long
    <3>2. Enters(r) \/ HandsOver(r) \/ (GoesOn(r) /\ pc[r] = "thinking")
      BY <1>2, <2>2 DEF ConvStep, Hears, Pauses, TakesOver, GivesBack, Opens, Begins, Notes, Settles, Replies,
         GoesOn, Nudges, Posts, Leaves
    <3>3. ~ HandsOver(r) /\ ~ GoesOn(r)
      BY <1>2, <2>2, <3>1, <3>2 DEF HandsOver, GoesOn, Stays
    <3> QED
      BY <1>2, <2>2, <3>2, <3>3 DEF Enters
  <2> QED
    BY <2>1, <2>2
<1> QED
  BY <1>1, <1>2 DEF Reminds

LEMMA RemindStep ==
    ASSUME Serial, Careful, TypeInv, SeatInv, AloneInv, HandInv, WarnInv, RemindInv, NEW r \in Requests, ConvStep(r),
           \A q \in Requests \ {r} : SamePlace(q)
    PROVE  RemindInv'
<1>1. now' = now /\ now \in Nat /\ AlertInterval \in Nat
  BY StepKeepsTime, NowIsNat, ConversationAssumption DEF TypeInv, ConvTypeOK
\* The step that adds a reminder: of now, and long after the others.
<1>2. ASSUME Enters(r), mail[r] # {}
      PROVE  /\ mine[r] \in Convs /\ mind[r].alertAt = now /\ conv'[mine[r]].alertAt = now
             /\ \A by \in Requests, at \in Moments : Reminds(by, mine[r], at) => at + AlertInterval <= now
  <2>1. pc[r] = "in" /\ pc[r] \in AtWork /\ Writer(r)
    BY <1>2 DEF Enters, Writer, AtWork, Short
  <2>2. Heard(read[r], mind[r], mail[r])
    BY <2>1 DEF WarnInv, Warns
  <2> QED
    BY <1>2, <2>1, <2>2, AlertWrite DEF Heard, RemindInv
<1>3. ASSUME NEW c \in Convs, NEW by \in Requests, NEW at \in Moments, Reminds(by, c, at)'
      PROVE  at <= now
  <2>1. \/ Reminds(by, c, at)
        \/ by = r /\ Enters(r) /\ mail[r] # {} /\ c = mine[r] /\ at = mind[r].alertAt
    BY <1>3, RemindsBefore
  <2> QED
    BY <1>1, <1>2, <2>1 DEF RemindInv
<1>4. ASSUME NEW c \in Convs, NEW by \in Requests, NEW at \in Moments, Reminds(by, c, at)', Waits(conv'[c])
      PROVE  at <= conv'[c].alertAt
  <2>1. \/ Reminds(by, c, at)
        \/ by = r /\ Enters(r) /\ mail[r] # {} /\ c = mine[r] /\ at = mind[r].alertAt
    BY <1>4, RemindsBefore
  <2>2. at <= now
    BY <1>3, <1>4
  <2>3. CASE conv'[c].alertAt = now
    BY <2>2, <2>3
  <2>4. CASE conv'[c].alertAt # now
    <3>1. Waits(conv[c]) /\ conv'[c].alertAt = conv[c].alertAt
      <4>1. CASE ~ Writer(r) \/ c # mine[r]
        BY <1>4, <4>1, ReadersKeep, AlertWrite
      <4>2. CASE Writer(r) /\ c = mine[r]
        BY <1>4, <2>4, <4>2, AlertWrite
      <4> QED
        BY <4>1, <4>2
    <3>2. Reminds(by, c, at)
      BY <1>2, <2>1, <2>4
    <3> QED
      BY <3>1, <3>2 DEF RemindInv
  <2> QED
    BY <2>3, <2>4
<1>5. ASSUME NEW c \in Convs, NEW p \in Requests, NEW q \in Requests, NEW s \in Moments, NEW t \in Moments,
             Reminds(p, c, s)', Reminds(q, c, t)'
      PROVE  (p = q /\ s = t) \/ Apart(s, t)
  <2>1. \/ Reminds(p, c, s)
        \/ p = r /\ Enters(r) /\ mail[r] # {} /\ c = mine[r] /\ s = mind[r].alertAt
    BY <1>5, RemindsBefore
  <2>2. \/ Reminds(q, c, t)
        \/ q = r /\ Enters(r) /\ mail[r] # {} /\ c = mine[r] /\ t = mind[r].alertAt
    BY <1>5, RemindsBefore
  <2>3. CASE Reminds(p, c, s) /\ Reminds(q, c, t)
    BY <2>3 DEF RemindInv
  <2>4. CASE Reminds(p, c, s) /\ q = r /\ Enters(r) /\ mail[r] # {} /\ c = mine[r] /\ t = mind[r].alertAt
    <3>1. t = now /\ s + AlertInterval <= now
      BY <1>2, <2>4
    <3> QED
      BY <3>1 DEF Apart
  <2>5. CASE Reminds(q, c, t) /\ p = r /\ Enters(r) /\ mail[r] # {} /\ c = mine[r] /\ s = mind[r].alertAt
    <3>1. s = now /\ t + AlertInterval <= now
      BY <1>2, <2>5
    <3> QED
      BY <3>1 DEF Apart
  <2> QED
    BY <2>1, <2>2, <2>3, <2>4, <2>5
<1>6. ASSUME NEW q \in Requests, pc'[q] = "in", mail'[q] # {}, NEW by \in Requests, NEW at \in Moments,
             NEW c, c = mine'[q], Reminds(by, c, at)'
      PROVE  at + AlertInterval <= now
  <2>1. CASE q # r
    <3>1. pc[q] = "in" /\ mail[q] # {} /\ mine[q] = c
      BY <1>6, <2>1 DEF SamePlace
    <3>2. c \in Convs
      BY <3>1, RowsInTheTable DEF AtWork, Short
    <3>3. ~ Enters(r)
      BY <2>1, <3>1 DEF Enters, AloneInv, ShortAlone, Short
    <3>4. Reminds(by, c, at)
      BY <1>6, <3>2, <3>3, RemindsBefore
    <3> QED
      BY <3>1, <3>4 DEF RemindInv
  <2>2. CASE q = r
    <3>1. PICK d \in Convs : Hears(r, d)
      BY <1>6, <2>2 DEF ConvStep, Pauses, TakesOver, GivesBack, Opens, Begins, Enters, Notes, Settles, Replies,
         HandsOver, GoesOn, Nudges, Posts, Leaves
    <3>2. d = c /\ ReminderDue(conv[c])
      BY <1>6, <2>2, <3>1 DEF Hears, Begins
    <3>3. ~ Enters(r)
      BY <3>1 DEF Enters, Hears, Begins
    <3>4. Reminds(by, c, at)
      BY <1>6, <3>1, <3>2, <3>3, RemindsBefore
    <3>5. Waits(conv[c])
      BY <3>2 DEF ReminderDue, Waits
    <3>6. conv[c].alertAt # Never /\ conv[c].alertAt \in Moments
      BY <3>1, <3>2, <3>5, RowsInTheTable DEF WarnInv, Reported, ConvData
    <3>7. now - conv[c].alertAt >= AlertInterval
      BY <3>2, <3>6 DEF ReminderDue
    <3>8. at <= conv[c].alertAt
      BY <3>1, <3>2, <3>4, <3>5 DEF RemindInv
    <3> QED
      BY <1>1, <3>6, <3>7, <3>8 DEF Moments, Never
  <2> QED
    BY <2>1, <2>2
<1>7. \A q \in Requests : pc'[q] = "in" /\ mail'[q] # {} =>
        \A by \in Requests, at \in Moments : Reminds(by, mine[q], at)' => at + AlertInterval <= now'
  <2> SUFFICES ASSUME NEW q \in Requests, pc'[q] = "in", mail'[q] # {}, NEW by \in Requests, NEW at \in Moments,
                      Reminds(by, mine[q], at)'
               PROVE  at + AlertInterval <= now'
    OBVIOUS
  <2>1. PICK c : c = mine'[q]
    OBVIOUS
  <2>2. Reminds(by, c, at)'
    BY <2>1 DEF Reminds
  <2> QED
    BY <1>1, <1>6, <2>1, <2>2
<1>8. \A c \in Convs, by \in Requests, at \in Moments :
         Reminds(by, c, at)' => at <= now' /\ (Waits(conv'[c]) => at <= conv'[c].alertAt)
  BY <1>1, <1>3, <1>4
<1>9. \A c \in Convs, p \in Requests, q \in Requests, s \in Moments, t \in Moments :
         Reminds(p, c, s)' /\ Reminds(q, c, t)' => (p = q /\ s = t) \/ Apart(s, t)
  BY <1>5
<1> QED
  BY <1>7, <1>8, <1>9 DEF RemindInv, Waits, Apart

LEMMA AlertsAreRight == TypeInv /\ WarnInv /\ RemindInv => AlertsRight
<1> SUFFICES ASSUME TypeInv, WarnInv, RemindInv PROVE AlertsRight
  OBVIOUS
<1>1. WaitingIsAlerted
  <2> SUFFICES ASSUME NEW c \in Opened, Waits(conv[c])
               PROVE  \/ \E m \in sent : m.conv = c /\ m.at = conv[c].alertAt
                      \/ \E r \in AboutToLeave(c) : mind[r].alertAt = conv[c].alertAt
    BY DEF WaitingIsAlerted, Waits
  <2>1. Reported(c, conv[c].alertAt)
    BY DEF Opened, WarnInv
  <2> QED
    BY <2>1 DEF Reported, Pending, AboutToLeave
<1>2. RemindedHourly
  <2> SUFFICES ASSUME NEW m \in sent, NEW n \in sent, m.kind = "reminder", n.kind = "reminder", m.conv = n.conv, m # n
               PROVE  Apart(m.at, n.at)
    BY DEF RemindedHourly, Apart
  <2>1. m \in Email /\ n \in Email
    BY DEF TypeInv, ConvTypeOK
  <2>2. /\ m.conv \in Convs /\ m.by \in Requests /\ n.by \in Requests /\ m.at \in Moments /\ n.at \in Moments
        /\ m.by # n.by \/ m.at # n.at
    BY <2>1 DEF Email
  <2>3. PICK p, q, s, t, c : p = m.by /\ q = n.by /\ s = m.at /\ t = n.at /\ c = m.conv
    OBVIOUS
  <2>4. Reminds(p, c, s) /\ Reminds(q, c, t)
    BY <2>3 DEF Reminds
  <2> QED
    BY <2>2, <2>3, <2>4 DEF RemindInv
<1> QED
  BY <1>1, <1>2 DEF AlertsRight

\* Where one short transaction is served at a time and the webhooks do not die,
\* the shop has been told of every customer who waits and whom nobody has
\* taken, by the email of his last alert, and is not reminded of him again
\* before the interval between two reminders: whatever the long sessions (Bob
\* thinking, an adviser typing, the worker) write meanwhile.
THEOREM EveryWaitingCustomerIsAnnounced ==
    ASSUME MaxOpen <= 1, ResumeAfter >= 1, Fragile \cap Convs = {}
    PROVE  Spec => []AlertsRight
<1>1. Serial /\ Careful
  BY DEF Serial, Careful
<1> DEFINE Inv == SeatInv /\ AloneInv /\ HandInv /\ WarnInv /\ RemindInv
<1>2. Init => Inv
  <2> SUFFICES ASSUME Init PROVE Inv
    OBVIOUS
  <2>1. WarnInv
    BY DEF Init, WarnInv, Dated, Waits, NoConv, Never, AtWork, Short, Long
  <2>2. RemindInv
    BY DEF Init, RemindInv, Reminds
  <2> QED
    BY <2>1, <2>2, SeatInit, AloneInit, HandsInit
<1>3. TypeInv /\ Inv /\ [Next]_vars => Inv'
  <2> SUFFICES ASSUME TypeInv, Inv, [Next]_vars PROVE Inv'
    OBVIOUS
  <2>1. SeatInv' /\ AloneInv' /\ HandInv'
    BY <1>1, SeatNext, AloneNext, HandsNext
  <2>2. ASSUME NEW r \in Requests, Do(r)
        PROVE  WarnInv' /\ RemindInv'
    BY <1>1, <2>2, Steps, OthersStay, WarnStep, RemindStep DEF SeatInv
  <2>3. ASSUME Tick
        PROVE  WarnInv' /\ RemindInv'
    <3>1. /\ UNCHANGED <<conv, pc, mine, read, mind, mail, sent>> /\ now' = now + 1 /\ now \in Nat
          /\ \A r \in Requests : pc[r] \notin Short
      BY <2>3, NowIsNat DEF Tick, tables, session, TypeInv, ConvTypeOK
    <3>2. \A c \in Convs : Dated(conv[c]) => Dated(conv[c])'
      BY <3>1, RowsInTheTable DEF Dated, ConvData, Moments, Never
    <3>3. ASSUME NEW r \in Requests, pc'[r] \in AtWork
          PROVE  Warns(pc[r], conv[mine[r]], read[r], mind[r], mail[r])'
      <4>1. /\ Warns(pc[r], conv[mine[r]], read[r], mind[r], mail[r])
            /\ read[r] \in ConvData /\ mind[r] \in ConvData /\ pc[r] \notin Short
        BY <3>1, <3>3, RowsInTheTable DEF WarnInv
      <4>2. Dated(read[r])' /\ Dated(mind[r])' /\ mind[r].alertAt # now'
        BY <3>1, <4>1 DEF Warns, Dated, ConvData, Moments, Never
      <4> QED
        BY <3>1, <4>1, <4>2 DEF Warns, Short
    <3>4. WarnInv'
      BY <3>1, <3>2, <3>3 DEF WarnInv, Waits, Reported, Pending
    <3>5. RemindInv'
      <4>1. ASSUME NEW at \in Moments, at <= now
            PROVE  at <= now'
        BY <3>1, <4>1 DEF Moments, Never
      <4>2. \A c \in Convs, by \in Requests, at \in Moments : Reminds(by, c, at)' <=> Reminds(by, c, at)
        BY <3>1 DEF Reminds
      <4> QED
        BY <3>1, <4>1, <4>2 DEF RemindInv, Waits, Apart, Short
    <3> QED
      BY <3>4, <3>5
  <2>4. ASSUME UNCHANGED vars
        PROVE  WarnInv' /\ RemindInv'
    <3>1. WarnInv'
      BY <2>4 DEF vars, tables, session, WarnInv, Dated, Warns, Heard, ResumeDue, Waits, Reported, Pending
    <3>2. RemindInv'
      BY <2>4 DEF vars, tables, session, RemindInv, Waits, Reminds, Apart
    <3> QED
      BY <3>1, <3>2
  <2> QED
    BY <2>1, <2>2, <2>3, <2>4 DEF Next, Do
<1> HIDE DEF Inv
<1>4. TypeInv /\ Inv => AlertsRight
  BY AlertsAreRight DEF Inv
<1> QED
  BY TypeInit, TypeStep, <1>2, <1>3, <1>4, PTL DEF Spec
=============================================================================
