---------------------------- MODULE InboundLeads ----------------------------
(***************************************************************************)
(* Requests that come to an agency by email.  Every minute a task reads    *)
(* the new emails, one by one: it stores a request, has an answer drafted, *)
(* and sends it if the agency lets it; the agency's people edit, send or   *)
(* set aside.  An answer leaves before its row is committed, and the task  *)
(* works on the rows as it stored them.                                    *)
(*                                                                         *)
(* One agency.  A request is known by its Message-ID, which a forwarded    *)
(* copy keeps; the answer's text is how often it was written again.        *)
(***************************************************************************)
EXTENDS Integers, FiniteSets, Sequences

CONSTANTS
    Requests,       \* the Message-IDs
    MaxEmails,      \* bound on the emails in the box
    Readers, People,   \* runs of the task, and people of the agency, that may work at the same time
    MonthLimit, HourLimit,   \* requests answered by Bob in a month, answers sent in an hour
    LeadDeaths      \* bound on the processes that die and the answers that leave unknown

ASSUME LeadsAssumption == IsFiniteSet(Requests) /\ {MaxEmails, MonthLimit, HourLimit, LeadDeaths} \subseteq Nat

VARIABLES
    box,        \* the emails, in their order: [of, kind]
    cursor,     \* the last one read, as committed
    lead,       \* [Requests -> the row]
    automatic,  \* the agency lets Bob send
    work,       \* [Readers \cup People -> what each does]
    answered,   \* [Requests -> answers that left]
    drafts,     \* [Requests -> drafts asked of the AI]
    thisHour,   \* answers whose row says they left in the last hour
    leadDeaths,
    crowded     \* history: two have worked at the same time

leadVars == <<box, cursor, lead, automatic, work, answered, drafts, thisHour, leadDeaths, crowded>>

Kinds   == {"request", "test", "no address", "not a request"}
Row     == [status : {"ABSENT", "DRAFT", "TO_HANDLE", "SENT", "FAILED", "IGNORED"}, reply : BOOLEAN, address : BOOLEAN, test : BOOLEAN]
NoLead  == [status |-> "ABSENT", reply |-> FALSE, address |-> FALSE, test |-> FALSE]
Resting == [at |-> "rest", todo |-> {}, cursor |-> 0, email |-> 0, row |-> NoLead, of |-> "none", lets |-> FALSE]
Workers == Readers \cup People

LeadsInit ==
    /\ box = <<>> /\ cursor = 0
    /\ lead = [r \in Requests |-> NoLead]
    /\ automatic = FALSE
    /\ work = [w \in Workers |-> Resting]
    /\ answered = [r \in Requests |-> 0] /\ drafts = [r \in Requests |-> 0]
    /\ thisHour = {} /\ leadDeaths = 0 /\ crowded = FALSE

Does(w, step) == work[w].at = step
Now(w, step)  == [work EXCEPT ![w].at = step]

-----------------------------------------------------------------------------
(* The task reads the box.                                                 *)

EmailComes(r, kind) ==
    /\ Len(box) < MaxEmails
    /\ \A i \in DOMAIN box : box[i].of = r => box[i].kind = kind
    /\ box' = Append(box, [of |-> r, kind |-> kind])
    /\ UNCHANGED <<cursor, lead, automatic, work, answered, drafts, thisHour, leadDeaths>>

ReadBox(t) ==
    /\ Does(t, "rest") /\ cursor < Len(box)
    /\ work' = [work EXCEPT ![t] = [Resting EXCEPT !.at = "reading", !.todo = (cursor + 1)..Len(box), !.cursor = cursor,
                                                   !.lets = automatic]]
    /\ UNCHANGED <<box, cursor, lead, automatic, answered, drafts, thisHour, leadDeaths>>

\* The place of an email is committed before anything is done with it; the
\* run knows only its own place.
TakeEmail(t) ==
    LET i == CHOOSE x \in work[t].todo : \A y \in work[t].todo : x <= y IN
    /\ Does(t, "reading") /\ work[t].todo # {}
    /\ cursor' = IF i > work[t].cursor THEN i ELSE cursor
    /\ work' = [work EXCEPT ![t].todo = @ \ {i}, ![t].email = i, ![t].cursor = i, ![t].of = box[i].of,
                            ![t].at = IF box[i].kind = "not a request" THEN "reading" ELSE "looking up"]
    /\ UNCHANGED <<box, lead, automatic, answered, drafts, thisHour, leadDeaths>>

ThisMonth == {r \in Requests : lead[r].status # "ABSENT" /\ ~lead[r].test}

OverQuota(kind) == kind # "test" /\ Cardinality(ThisMonth) >= MonthLimit

NewRow(kind) ==
    [status  |-> IF kind = "no address" \/ OverQuota(kind) THEN "TO_HANDLE" ELSE "DRAFT",
     reply   |-> FALSE, address |-> kind # "no address", test |-> kind = "test"]

Known(r) == lead[r].status # "ABSENT"

LookUp(t) ==
    LET row == NewRow(box[work[t].email].kind) IN
    /\ Does(t, "looking up")
    /\ work' = IF Known(work[t].of) THEN Now(t, "reading")
               ELSE [work EXCEPT ![t].row = row, ![t].at = "storing"]
    /\ UNCHANGED <<box, cursor, lead, automatic, answered, drafts, thisHour, leadDeaths>>

\* Faulty variant: the table takes a Message-ID twice.
AcceptedTwice(r) == TRUE

Accepted(r) == lead[r].status = "ABSENT"

\* When another run has stored it since, the database refuses the second row
\* and the run ends there.
StoreLead(t) ==
    LET stored == Accepted(work[t].of) IN
    /\ Does(t, "storing")
    /\ lead' = IF stored THEN [lead EXCEPT ![work[t].of] = work[t].row] ELSE lead
    /\ work' = IF ~stored THEN [work EXCEPT ![t] = Resting]
               ELSE Now(t, IF work[t].row.status = "DRAFT" THEN "drafting" ELSE "reading")
    /\ UNCHANGED <<box, cursor, automatic, answered, drafts, thisHour, leadDeaths>>

\* The AI drafts, or a plain answer is left for a person.  The row keeps its
\* status in the database, where only what changes is written.
DraftReply(t, good) ==
    LET r == work[t].of IN
    /\ Does(t, "drafting")
    /\ drafts' = [drafts EXCEPT ![r] = @ + 1]
    /\ lead' = [lead EXCEPT ![r].reply = TRUE, ![r].status = IF good THEN @ ELSE "TO_HANDLE"]
    /\ work' = [work EXCEPT ![t].row.reply = TRUE, ![t].row.status = IF good THEN @ ELSE "TO_HANDLE",
                            ![t].at = IF good /\ work[t].lets THEN "sending" ELSE "reading"]
    /\ UNCHANGED <<box, cursor, automatic, answered, thisHour, leadDeaths>>

\* Purge aside, the run ends with the last email.
EndReading(t) ==
    /\ Does(t, "reading") /\ work[t].todo = {}
    /\ work' = [work EXCEPT ![t] = Resting]
    /\ UNCHANGED <<box, cursor, lead, automatic, answered, drafts, thisHour, leadDeaths>>

-----------------------------------------------------------------------------
(* Sending, by the task or by a person.                                    *)

Sendable(row) == row.status \notin {"SENT", "IGNORED"}

OpenToSend(a, r) ==
    /\ Does(a, "rest") /\ lead[r].status # "ABSENT" /\ Sendable(lead[r])
    /\ work' = [work EXCEPT ![a] = [Resting EXCEPT !.at = "sending", !.of = r, !.row = lead[r]]]
    /\ UNCHANGED <<box, cursor, lead, automatic, answered, drafts, thisHour, leadDeaths>>

TooMany == Cardinality(thisHour) >= HourLimit

After(w) == IF w \in Readers THEN Now(w, "reading") ELSE [work EXCEPT ![w] = Resting]

NotSent(w) ==
    /\ Does(w, "sending") /\ (~work[w].row.address \/ ~work[w].row.reply \/ TooMany)
    /\ work' = After(w)
    /\ UNCHANGED <<box, cursor, lead, automatic, answered, drafts, thisHour, leadDeaths>>

\* The server takes the email, refuses it, or takes it and fails to say so.
Sends(w, took, says) ==
    /\ took = says \/ (took /\ leadDeaths < LeadDeaths)
    /\ leadDeaths' = IF took = says THEN leadDeaths ELSE leadDeaths + 1
    /\ Does(w, "sending") /\ work[w].row.address /\ work[w].row.reply /\ ~TooMany
    /\ answered' = [answered EXCEPT ![work[w].of] = IF took THEN @ + 1 ELSE @]
    /\ work' = Now(w, IF says THEN "sent" ELSE "failed")
    /\ UNCHANGED <<box, cursor, lead, automatic, drafts, thisHour>>

RecordSending(w) ==
    /\ Does(w, "sent") \/ Does(w, "failed")
    /\ lead' = [lead EXCEPT ![work[w].of].status = IF Does(w, "sent") THEN "SENT" ELSE "FAILED"]
    /\ thisHour' = IF Does(w, "sent") THEN thisHour \cup {work[w].of} ELSE thisHour \ {work[w].of}
    /\ work' = After(w)
    /\ UNCHANGED <<box, cursor, automatic, answered, drafts, leadDeaths>>

-----------------------------------------------------------------------------
(* What else the agency does, time and crashes.                            *)

IgnoreLead(r) ==
    /\ lead[r].status \notin {"ABSENT", "SENT"}
    /\ lead' = [lead EXCEPT ![r].status = "IGNORED"]
    /\ UNCHANGED <<box, cursor, automatic, work, answered, drafts, thisHour, leadDeaths>>

EditReply(r) ==
    /\ lead[r].status \notin {"ABSENT", "SENT"} /\ ~lead[r].reply
    /\ lead' = [lead EXCEPT ![r].reply = TRUE]
    /\ UNCHANGED <<box, cursor, automatic, work, answered, drafts, thisHour, leadDeaths>>

LetBobSend ==
    /\ automatic' = ~automatic
    /\ UNCHANGED <<box, cursor, lead, work, answered, drafts, thisHour, leadDeaths>>

AnHourGoes ==
    /\ thisHour' = {}
    /\ UNCHANGED <<box, cursor, lead, automatic, work, answered, drafts, leadDeaths>>

LeadWorkerDies(w) ==
    /\ ~Does(w, "rest") /\ leadDeaths < LeadDeaths
    /\ work' = [work EXCEPT ![w] = Resting] /\ leadDeaths' = leadDeaths + 1
    /\ UNCHANGED <<box, cursor, lead, automatic, answered, drafts, thisHour>>

LeadsStep ==
    \/ \E r \in Requests, k \in Kinds : EmailComes(r, k)
    \/ \E t \in Readers :
        \/ ReadBox(t) \/ TakeEmail(t) \/ LookUp(t) \/ StoreLead(t) \/ EndReading(t)
        \/ \E good \in BOOLEAN : DraftReply(t, good)
    \/ \E w \in Workers :
        \/ NotSent(w) \/ RecordSending(w) \/ LeadWorkerDies(w)
        \/ \E t, s \in BOOLEAN : Sends(w, t, s)
    \/ \E a \in People, r \in Requests : OpenToSend(a, r)
    \/ \E r \in Requests : IgnoreLead(r) \/ EditReply(r)
    \/ LetBobSend \/ AnHourGoes

Busy(w) == work[w].at # "rest"

TwoBusy == \E v, w \in Workers : v # w /\ Busy(v) /\ Busy(w)

LeadsNext == LeadsStep /\ crowded' = (crowded \/ TwoBusy')

LeadsSpec == LeadsInit /\ [][LeadsNext]_leadVars

-----------------------------------------------------------------------------
(* Properties.                                                             *)

LeadsTypeOK ==
    /\ cursor \in 0..Len(box) /\ lead \in [Requests -> Row]
    /\ \A w \in Workers : work[w].row \in Row
    /\ thisHour \subseteq Requests /\ leadDeaths \in 0..LeadDeaths

\* However often an email is read (a run that is behind takes the cursor back)
\* or forwarded, its request is drafted once.
DraftedOnce == \A r \in Requests : drafts[r] <= 1

\* As long as one works at a time, Bob drafts for no more requests in a month
\* than the plan allows.
QuotaKept == crowded \/ Cardinality({r \in Requests : drafts[r] > 0 /\ ~lead[r].test}) <= MonthLimit

\* As long as one works at a time, whatever fails and is tried again, a request
\* is answered once, but for an answer that left without its row saying so,
\* and the hour's limit holds.
AnsweredOnce ==
    crowded \/ /\ \A r \in Requests : answered[r] <= 1 + leadDeaths
               /\ Cardinality(thisHour) <= HourLimit

\* What Bob keeps of the requests that come by email.
LeadsRight == DraftedOnce /\ QuotaKept /\ AnsweredOnce
=============================================================================
