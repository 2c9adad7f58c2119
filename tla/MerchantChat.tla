---------------------------- MODULE MerchantChat ----------------------------
(***************************************************************************)
(* The merchant writes to Bob: a photo, then a name and a price, become a  *)
(* product; the next number is its stock.  A message is claimed, handled   *)
(* and closed by a worker, or by the task of every minute, which takes     *)
(* again those whose worker stopped.  What Bob waits for is one field of   *)
(* the shop's link; a photo without a product is a file kept aside.        *)
(*                                                                         *)
(* A message's number names its file too.  Commands and buttons, which     *)
(* leave all this alone, are one message.                                  *)
(***************************************************************************)
EXTENDS Integers, FiniteSets

CONSTANTS
    Hands,          \* the processes that handle messages
    Beat,           \* the one of them that runs the task of every minute
    MaxNotes, HandDeaths   \* bounds; deaths or failures

ASSUME BeatAssumption == Beat \in Hands

VARIABLES
    notes,      \* [kind, says, status, media, late]: late, ten minutes after it came
    awaits,     \* what Bob waits for
    shelf,      \* the files kept aside
    goods,      \* [file -> products made of it]
    hand,       \* [Hands -> what the process holds]
    handled,    \* [note -> times it was handled through]
    handDeaths,
    beside      \* history: two processes have handled messages at the same time

chatVars == <<notes, awaits, shelf, goods, hand, handled, handDeaths, beside>>

Notes   == 1..MaxNotes
NoFile  == 0
Says    == {"nothing", "name", "number", "both", "command"}
Note    == [kind : {"photo", "text"}, says : Says, status : {"NONE", "RECEIVED", "WORKING", "DONE", "FAILED"},
            media : {NoFile} \cup Notes, late : BOOLEAN]
\* fresh for thirty minutes; aged: the photo may be older than the question.
Awaited == [kind : {"none", "photo", "draft", "stock"}, file : {NoFile} \cup Notes, named : BOOLEAN,
            fresh : BOOLEAN, aged : BOOLEAN]

NoNote  == [kind |-> "text", says |-> "nothing", status |-> "NONE", media |-> NoFile, late |-> FALSE]
Nothing == [kind |-> "none", file |-> NoFile, named |-> FALSE, fresh |-> FALSE, aged |-> FALSE]
Free    == [at |-> "free", note |-> 0, media |-> NoFile, read |-> FALSE, row |-> Nothing]

Waiting(kind, file, named) == [kind |-> kind, file |-> file, named |-> named, fresh |-> TRUE, aged |-> FALSE]

ChatInit ==
    /\ notes = [n \in Notes |-> NoNote]
    /\ awaits = Nothing /\ shelf = {} /\ goods = [n \in Notes |-> 0]
    /\ hand = [w \in Hands |-> Free]
    /\ handled = [n \in Notes |-> 0] /\ handDeaths = 0 /\ beside = FALSE

-----------------------------------------------------------------------------
(* Messages come; a photo is kept aside before the row is written.         *)

Receive(kind, says) ==
    \E n \in Notes :
        /\ notes[n].status = "NONE" /\ \A m \in 1..(n - 1) : notes[m].status # "NONE"
        /\ notes' = [notes EXCEPT ![n] = [kind |-> kind, says |-> says, status |-> "RECEIVED", late |-> FALSE,
                                          media |-> IF kind = "photo" THEN n ELSE NoFile]]
        /\ shelf' = IF kind = "photo" THEN shelf \cup {n} ELSE shelf
        /\ UNCHANGED <<awaits, goods, hand, handled, handDeaths>>

-----------------------------------------------------------------------------
(* One message in the hands of a process.                                  *)

Claimable(n) == notes[n].status = "RECEIVED"

\* The process reads the link once: the task of every minute goes on with the
\* row it has.
Claim(w, n) ==
    /\ hand[w].at = "free" /\ Claimable(n)
    /\ notes' = [notes EXCEPT ![n].status = "WORKING"]
    /\ hand' = [hand EXCEPT ![w] = [at |-> "claimed", note |-> n, media |-> notes[n].media, read |-> TRUE,
                                    row |-> IF @.read THEN @.row ELSE awaits]]
    /\ UNCHANGED <<awaits, shelf, goods, handled, handDeaths>>

\* What handling a message comes to: files removed, the file of the new
\* product, what is awaited next, and whether that is written at all.
AsBefore(row)  == [gone |-> {}, made |-> NoFile, next |-> row, writes |-> FALSE]
Await(next)    == [gone |-> {}, made |-> NoFile, next |-> next, writes |-> TRUE]

KeptFile(row) == IF row.fresh /\ row.kind = "photo" THEN row.file ELSE NoFile

\* room: the plan has a place for one more product.
CreateProduct(row, file, room) ==
    IF room /\ file \in shelf
    THEN [Await(Waiting("stock", file, FALSE)) EXCEPT !.gone = {file}, !.made = file]
    ELSE [Await(Nothing) EXCEPT !.gone = IF room THEN {} ELSE {file}, !.writes = row.kind # "none"]

\* A new photo replaces the one that waited.
AddFromPhoto(note, media, row, room) ==
    LET complete == note.says = "both" \/ (row.fresh /\ row.kind = "draft")
        before   == {KeptFile(row)} \ {media}
        result   == IF complete THEN CreateProduct(row, media, room)
                    ELSE Await([Waiting("photo", media, note.says = "name") EXCEPT !.aged = note.late])
    IN [result EXCEPT !.gone = @ \cup before]

OfferDraft(says, row) == IF says = "both" THEN Await(Waiting("draft", NoFile, FALSE)) ELSE AsBefore(row)

HandleText(says, row, room) ==
    LET named == says \in {"name", "both"} \/ row.named IN
    IF row.fresh /\ row.kind = "stock" /\ says = "number" THEN Await(Nothing)
    ELSE IF row.fresh /\ row.kind = "photo" /\ says # "command"
    THEN IF named /\ says \in {"both", "number"} THEN CreateProduct(row, row.file, room)
         ELSE Await([Waiting("photo", row.file, named) EXCEPT !.aged = TRUE])
    ELSE OfferDraft(says, row)

Handling(w, room) ==
    LET h == hand[w] IN
    IF notes[h.note].kind = "photo" THEN AddFromPhoto(notes[h.note], h.media, h.row, room)
    ELSE HandleText(notes[h.note].says, h.row, room)

\* Faulty variant: the message keeps its photo, which goes when it is closed.
PhotoStays(media) == media

\* The photo is not the message's any more.
LetGo(media) == NoFile

Handle(w, room) ==
    LET n == hand[w].note
        o == Handling(w, room) IN
    /\ hand[w].at = "claimed"
    /\ shelf' = shelf \ o.gone
    /\ goods' = IF o.made = NoFile THEN goods ELSE [goods EXCEPT ![o.made] = @ + 1]
    /\ awaits' = IF o.writes THEN o.next ELSE awaits
    /\ notes' = [notes EXCEPT ![n].media = LetGo(@)]
    /\ hand' = [hand EXCEPT ![w].at = "DONE", ![w].row = o.next, ![w].media = LetGo(@)]
    /\ handled' = [handled EXCEPT ![n] = @ + 1]
    /\ UNCHANGED handDeaths

\* It fails before the commit: rows are as they were, the files may be gone.
HandleFails(w, room) ==
    /\ hand[w].at = "claimed" /\ handDeaths < HandDeaths /\ handDeaths' = handDeaths + 1
    /\ shelf' \in {shelf, shelf \ Handling(w, room).gone}
    /\ hand' = [hand EXCEPT ![w].at = "FAILED", ![w].row = awaits, ![w].media = notes[hand[w].note].media]
    /\ UNCHANGED <<notes, awaits, goods, handled>>

\* Nothing of the message is kept.  The task of every minute keeps its row
\* until it has no more messages.
Finish(w, more) ==
    /\ hand[w].at \in {"DONE", "FAILED"}
    /\ shelf' = shelf \ {hand[w].media}
    /\ notes' = [notes EXCEPT ![hand[w].note].status = hand[w].at, ![hand[w].note].media = NoFile]
    /\ more => w = Beat
    /\ hand' = [hand EXCEPT ![w] = IF more THEN [Free EXCEPT !.read = TRUE, !.row = hand[w].row] ELSE Free]
    /\ UNCHANGED <<awaits, goods, handled, handDeaths>>

HandDies(w) ==
    /\ hand[w] # Free /\ handDeaths < HandDeaths
    /\ hand' = [hand EXCEPT ![w] = Free] /\ handDeaths' = handDeaths + 1
    /\ UNCHANGED <<notes, awaits, shelf, goods, handled>>

-----------------------------------------------------------------------------
(* Time, and what the task of every minute puts right.                     *)

Stopped(n) == notes[n].status = "WORKING" /\ notes[n].late

TakeStoppedAgain ==
    /\ \E n \in Notes : Stopped(n)
    /\ notes' = [n \in Notes |-> IF Stopped(n) THEN [notes[n] EXCEPT !.status = "RECEIVED"] ELSE notes[n]]
    /\ UNCHANGED <<awaits, shelf, goods, hand, handled, handDeaths>>

TenMinutesGo ==
    /\ notes' = [n \in Notes |-> [notes[n] EXCEPT !.late = @ \/ notes[n].status # "NONE"]]
    /\ UNCHANGED <<awaits, shelf, goods, hand, handled, handDeaths>>

Lapsed(row) == [row EXCEPT !.fresh = FALSE]

AwaitingEnds ==
    /\ awaits' = Lapsed(awaits)
    /\ hand' = [w \in Hands |-> [hand[w] EXCEPT !.row = Lapsed(@)]]
    /\ UNCHANGED <<notes, shelf, goods, handled, handDeaths>>

\* A file of two hours: what waits for it was asked since, or has lapsed.
CleanStore ==
    \E f \in shelf :
        /\ notes[f].late /\ (KeptFile(awaits) = f => awaits.aged)
        /\ shelf' = shelf \ {f}
        /\ UNCHANGED <<notes, awaits, goods, hand, handled, handDeaths>>

ChatStep ==
    \/ \E says \in {"nothing", "name", "both"} : Receive("photo", says)
    \/ \E says \in Says \ {"nothing"} : Receive("text", says)
    \/ \E w \in Hands :
        \/ \E n \in Notes : Claim(w, n)
        \/ \E yes \in BOOLEAN : Handle(w, yes) \/ HandleFails(w, yes) \/ Finish(w, yes)
        \/ HandDies(w)
    \/ TakeStoppedAgain \/ TenMinutesGo \/ AwaitingEnds \/ CleanStore

TwoHands == \E v, w \in Hands : v # w /\ hand[v] # Free /\ hand[w] # Free

ChatNext == ChatStep /\ beside' = (beside \/ TwoHands')

ChatSpec == ChatInit /\ [][ChatNext]_chatVars

-----------------------------------------------------------------------------
(* Properties.                                                             *)

ChatTypeOK ==
    /\ notes \in [Notes -> Note] /\ awaits \in Awaited
    /\ shelf \subseteq Notes /\ goods \in [Notes -> Nat]
    /\ \A w \in Hands : hand[w].row \in Awaited /\ (hand[w].at # "free" => hand[w].note \in Notes)

\* A photo makes one product at most, whoever handles the messages that
\* complete it, and however often.
OnePhotoOneProduct == \A f \in Notes : goods[f] <= 1

\* "La photo suit le produit, ou reste gardée en attendant son nom et son
\* prix": as long as one process works at a time, and none fails, the file is
\* there until the question about it lapses.
AwaitedPhotoIsThere == ~beside /\ handDeaths = 0 /\ KeptFile(awaits) # NoFile /\ ~awaits.aged => KeptFile(awaits) \in shelf

\* "Traite un message reçu (une seule fois)", by its worker or by the task of
\* every minute, if it is done with within ten minutes.
HandledOnceInTime == \A n \in Notes : ~notes[n].late => handled[n] <= 1

\* What Bob keeps of the merchant's photos and messages.
ChatRight == OnePhotoOneProduct /\ HandledOnceInTime /\ AwaitedPhotoIsThere
=============================================================================
