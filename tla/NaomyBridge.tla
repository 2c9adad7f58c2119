----------------------------- MODULE NaomyBridge ----------------------------
(***************************************************************************)
(* A shop linked to Naomy: Naomy exchanges a single-use code for a link,   *)
(* one at a time; what changes in the catalogue becomes an event of a      *)
(* queue in the database, which a task empties every minute, with retries  *)
(* and one commit at the end of the pass.                                  *)
(*                                                                         *)
(* An event's place in the queue stands for its date.  Saves of a product  *)
(* are atomic; two passes never overlap here.                              *)
(***************************************************************************)
EXTENDS Integers, FiniteSets, Sequences

CONSTANTS
    Goods, Contents,   \* what a product's row may become: [known, active, photo, stock]
    Callers,       \* calls of Naomy that may be handled at the same time
    Backoff,       \* minutes before each retry, a sequence
    PerPass,       \* events of a shop sent in one pass
    MaxCodes, MaxSaves, PassDeaths   \* bounds

ASSUME NaomyAssumption == Backoff \in Seq(Nat) /\ PerPass \in Nat

VARIABLES
    item,      \* [Goods -> [known, active, photo, stock]]
    codes,     \* pairing codes: [scope, used, expired]
    asked,     \* Naomy's request to be linked
    links,     \* [status, scope, since]: since, the last event before it
    queue,     \* [type, good, link, status, attempts, wait]
    pairing,   \* [Callers -> the code being exchanged, and the date]
    pass,      \* the pass under way
    heard,     \* what Naomy accepted: [event -> [link, times]]
    saves, crashes

naomyVars == <<item, codes, asked, links, queue, pairing, pass, heard, saves, crashes>>

Scopes   == {"complete", "assistant"}
NoGood   == "none"
NotRead  == -1
NoItem   == [known |-> FALSE, active |-> FALSE, photo |-> FALSE, stock |-> 0]
NoPass   == [on |-> FALSE, todo |-> {}, rows |-> <<>>, sent |-> 0, link |-> NotRead]
EventRow == [type : {"created", "change", "opened", "closed"}, good : Goods \cup {NoGood}, link : Nat,
             status : {"PENDING", "SENT", "FAILED", "SKIPPED"}, attempts : 0..Len(Backoff) + 1, wait : Nat]

NaomyInit ==
    /\ item = [g \in Goods |-> NoItem]
    /\ codes = <<>> /\ asked = "no" /\ links = <<>> /\ queue = <<>>
    /\ pairing = [c \in Callers |-> [code |-> 0, at |-> 0]]
    /\ pass = NoPass /\ heard = <<>>
    /\ saves = 0 /\ crashes = 0

Event(type, good, link) ==
    [type |-> type, good |-> good, link |-> link, status |-> "PENDING", attempts |-> 0, wait |-> 0]

ActiveLinks == {l \in DOMAIN links : links[l].status = "ACTIVE"}
ActiveLink  == IF ActiveLinks = {} THEN 0 ELSE CHOOSE l \in ActiveLinks : \A k \in ActiveLinks : k <= l

-----------------------------------------------------------------------------
(* Linking.                                                                *)

NewCode(scope) == Append(codes, [scope |-> scope, used |-> FALSE, expired |-> FALSE])

CreatePairing(scope) ==
    /\ Len(codes) < MaxCodes
    /\ codes' = NewCode(scope)
    /\ UNCHANGED <<item, asked, links, queue, pairing, pass, heard, saves, crashes>>

CodeExpires(k) ==
    /\ k \in DOMAIN codes /\ ~codes[k].used /\ ~codes[k].expired
    /\ codes' = [codes EXCEPT ![k].expired = TRUE]
    /\ UNCHANGED <<item, asked, links, queue, pairing, pass, heard, saves, crashes>>

ReceiveRequest ==
    /\ asked = "no" /\ ActiveLink = 0
    /\ asked' = "PENDING"
    /\ UNCHANGED <<item, codes, links, queue, pairing, pass, heard, saves, crashes>>

DecideRequest(accept, scope) ==
    /\ asked = "PENDING" /\ Len(codes) < MaxCodes
    /\ asked' = IF accept THEN "ACCEPTED" ELSE "REFUSED"
    /\ codes' = IF accept THEN NewCode(scope) ELSE codes
    /\ UNCHANGED <<item, links, queue, pairing, pass, heard, saves, crashes>>

\* The code is checked; what follows is committed later.
Pair(c, k) ==
    /\ pairing[c].code = 0
    /\ k \in DOMAIN codes /\ ~codes[k].used /\ ~codes[k].expired
    /\ pairing' = [pairing EXCEPT ![c] = [code |-> k, at |-> Len(queue)]]
    /\ UNCHANGED <<item, codes, asked, links, queue, pass, heard, saves, crashes>>

\* One shop, one link: the new one replaces the one that is active.
CommitPair(c) ==
    LET k == pairing[c].code
        new == Len(links) + 1
        before == [l \in DOMAIN links |-> IF l = ActiveLink THEN [links[l] EXCEPT !.status = "CLOSED"] ELSE links[l]]
    IN
    /\ k # 0
    /\ codes' = [codes EXCEPT ![k].used = TRUE]
    /\ links' = Append(before, [status |-> "ACTIVE", scope |-> codes[k].scope, since |-> pairing[c].at])
    /\ queue' = queue \o (IF ActiveLink = 0 THEN <<>> ELSE <<Event("closed", NoGood, ActiveLink)>>)
                      \o <<Event("opened", NoGood, new)>>
    /\ pairing' = [pairing EXCEPT ![c] = [code |-> 0, at |-> 0]]
    /\ UNCHANGED <<item, asked, pass, heard, saves, crashes>>

\* By the merchant, or by Naomy with its key.
Disconnect ==
    /\ ActiveLink # 0
    /\ links' = [links EXCEPT ![ActiveLink].status = "CLOSED"]
    /\ queue' = Append(queue, Event("closed", NoGood, ActiveLink))
    /\ UNCHANGED <<item, codes, asked, pairing, pass, heard, saves, crashes>>

-----------------------------------------------------------------------------
(* The catalogue.                                                          *)

Sells(row) == row.active /\ row.stock > 0

\* The events of one save, whatever path the save took.
CollectEvents(g, old, new) ==
    (IF old.known /\ Sells(old) # Sells(new) THEN <<Event("change", g, 0)>> ELSE <<>>)
    \o (IF new.active /\ new.photo /\ ~old.photo THEN <<Event("created", g, 0)>> ELSE <<>>)

SaveProduct(g, new) ==
    /\ saves < MaxSaves /\ new # item[g]
    /\ item' = [item EXCEPT ![g] = new]
    /\ queue' = queue \o CollectEvents(g, item[g], new)
    /\ saves' = saves + 1
    /\ UNCHANGED <<codes, asked, links, pairing, pass, heard, crashes>>

-----------------------------------------------------------------------------
(* The pass of every minute.  What it changes is its own until it commits. *)

Own(i) == IF i \in DOMAIN pass.rows THEN pass.rows[i] ELSE queue[i]

With(rows, i, row) == [j \in DOMAIN rows \cup {i} |-> IF j = i THEN row ELSE rows[j]]

Times(i) == IF i \in DOMAIN heard THEN heard[i].times ELSE 0

BeginPass ==
    LET unlinked == {i \in DOMAIN queue : queue[i].status = "PENDING" /\ queue[i].link = 0 /\ ActiveLink = 0}
        due == {i \in DOMAIN queue : queue[i].status = "PENDING" /\ queue[i].wait = 0} \ unlinked
    IN
    /\ ~pass.on
    /\ \E i \in DOMAIN queue : queue[i].status = "PENDING" /\ queue[i].wait = 0
    /\ pass' = [NoPass EXCEPT !.on = TRUE, !.todo = due,
                              !.rows = [i \in unlinked |-> [queue[i] EXCEPT !.status = "SKIPPED"]]]
    /\ UNCHANGED <<item, codes, asked, links, queue, pairing, heard, saves, crashes>>

\* The shop's link, read once per pass.
PassLink == IF pass.link = NotRead THEN ActiveLink ELSE pass.link

\* Faulty variant: the backlog of before the link goes to it.
TargetBacklog(i) == IF queue[i].link # 0 THEN queue[i].link ELSE PassLink

\* Where an event goes, or 0: nothing older than the link goes to it.
Target(i) ==
    IF queue[i].link # 0 THEN queue[i].link
    ELSE IF PassLink # 0 /\ i > links[PassLink].since THEN PassLink
    ELSE 0

\* The product was announced before, or is about to be.
Announced(i) ==
    \E j \in DOMAIN queue :
        j < i /\ queue[j].type = "created" /\ queue[j].good = queue[i].good /\ Own(j).status \in {"SENT", "PENDING"}

Goes(i) ==
    /\ Target(i) # 0
    /\ queue[i].type \in {"opened", "closed"} \/ links[Target(i)].scope = "complete"
    /\ ~(queue[i].type = "created" /\ Announced(i))

\* The oldest first.
Considering(i) == pass.on /\ i \in pass.todo /\ \A j \in pass.todo : i <= j
Next1(i, row)  == [pass EXCEPT !.todo = @ \ {i}, !.rows = With(@, i, row),
                               !.link = IF queue[i].link = 0 THEN PassLink ELSE @]

SkipEvent(i) ==
    /\ Considering(i) /\ pass.sent < PerPass /\ ~Goes(i)
    /\ pass' = Next1(i, [queue[i] EXCEPT !.status = "SKIPPED"])
    /\ UNCHANGED <<item, codes, asked, links, queue, pairing, heard, saves, crashes>>

\* Faulty variant: no end to the retries.
AfterSendAlways(row, answer) ==
    LET n == IF row.attempts < Len(Backoff) THEN row.attempts + 1 ELSE Len(Backoff) IN
    IF answer = "ok" THEN [row EXCEPT !.attempts = n, !.status = "SENT"]
    ELSE IF answer = "revoked" THEN [row EXCEPT !.attempts = n, !.status = "FAILED"]
    ELSE [row EXCEPT !.attempts = n, !.wait = Backoff[n]]

AfterSend(row, answer) ==
    LET n == row.attempts + 1 IN
    IF answer = "ok" THEN [row EXCEPT !.attempts = n, !.status = "SENT"]
    ELSE IF answer = "revoked" \/ n > Len(Backoff) THEN [row EXCEPT !.attempts = n, !.status = "FAILED"]
    ELSE [row EXCEPT !.attempts = n, !.wait = Backoff[n]]

SendEvent(i, answer) ==
    /\ Considering(i) /\ pass.sent < PerPass /\ Goes(i)
    /\ pass' = [Next1(i, AfterSend(queue[i], answer)) EXCEPT !.sent = @ + 1]
    /\ heard' = IF answer = "ok" THEN With(heard, i, [link |-> Target(i), times |-> Times(i) + 1]) ELSE heard
    /\ UNCHANGED <<item, codes, asked, links, queue, pairing, saves, crashes>>

EndPass ==
    /\ pass.on /\ (pass.todo = {} \/ pass.sent >= PerPass)
    /\ queue' = [i \in DOMAIN queue |-> Own(i)]
    /\ pass' = NoPass
    /\ UNCHANGED <<item, codes, asked, links, pairing, heard, saves, crashes>>

PassDies ==
    /\ pass.on /\ crashes < PassDeaths
    /\ crashes' = crashes + 1
    /\ pass' = NoPass
    /\ UNCHANGED <<item, codes, asked, links, queue, pairing, heard, saves>>

MinutePasses ==
    /\ \E i \in DOMAIN queue : queue[i].status = "PENDING" /\ queue[i].wait > 0
    /\ ~pass.on
    /\ queue' = [i \in DOMAIN queue |-> [queue[i] EXCEPT !.wait = IF @ > 0 THEN @ - 1 ELSE 0]]
    /\ UNCHANGED <<item, codes, asked, links, pairing, pass, heard, saves, crashes>>

PassStep == \E i \in DOMAIN queue : SkipEvent(i) \/ \E a \in {"ok", "no", "revoked"} : SendEvent(i, a)

NaomyNext ==
    \/ \E s \in Scopes : CreatePairing(s) \/ \E yes \in BOOLEAN : DecideRequest(yes, s)
    \/ \E k \in DOMAIN codes : CodeExpires(k) \/ \E c \in Callers : Pair(c, k)
    \/ ReceiveRequest \/ Disconnect
    \/ \E c \in Callers : CommitPair(c)
    \/ \E g \in Goods, new \in Contents : SaveProduct(g, new)
    \/ BeginPass \/ PassStep \/ EndPass \/ PassDies \/ MinutePasses

NaomySpec == NaomyInit /\ [][NaomyNext]_naomyVars

-----------------------------------------------------------------------------
(* Properties.                                                             *)

NaomyTypeOK ==
    /\ \A i \in DOMAIN queue : queue[i] \in EventRow
    /\ \A l \in DOMAIN links : links[l] \in [status : {"ACTIVE", "CLOSED"}, scope : Scopes, since : 0..Len(queue)]
    /\ pass.sent \in 0..PerPass /\ pass.link \in NotRead..Len(links) /\ DOMAIN pass.rows \subseteq DOMAIN queue
    /\ asked \in {"no", "PENDING", "ACCEPTED", "REFUSED"}

\* Naomy hears once that a product is there, whatever is done to its photo
\* and whatever was retried meanwhile; a pass that dies before its commit
\* says again what it said.
AnnouncedOnce ==
    \A i, j \in DOMAIN heard :
        queue[i].type = "created" /\ queue[j].type = "created" /\ queue[i].good = queue[j].good =>
            heard[i].times + (IF i = j THEN 0 ELSE heard[j].times) <= 1 + crashes

\* What Naomy hears of the catalogue happened since the link it hears it on
\* was asked for, and only on a link that shares the catalogue: never the
\* backlog of an earlier link.
OnlyWhatIsShared ==
    \A i \in DOMAIN heard :
        queue[i].type \in {"created", "change"} =>
            links[heard[i].link].scope = "complete" /\ i > links[heard[i].link].since

\* Again and again no event waits: each is in the end sent, given up or put
\* aside, whatever Naomy answers.
EventsSettled == []<>(\A i \in DOMAIN queue : queue[i].status # "PENDING")

\* What dispatch tells Naomy of the catalogue.
HeardRight == AnnouncedOnce /\ OnlyWhatIsShared
=============================================================================
