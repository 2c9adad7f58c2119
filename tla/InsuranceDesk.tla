---------------------------- MODULE InsuranceDesk ---------------------------
(***************************************************************************)
(* The insurance firm: the quote requests that the customer fills with the *)
(* buttons of the guided flow or with Bob, his agreement before anything   *)
(* is passed on, the firm's follow-up of the request, and the register of  *)
(* complaints and claims with its acknowledgement and its deadlines        *)
(* (services/assu_flow.py, insurance.py, insurance_complaints.py,          *)
(* api/quotes/routes.py, api/complaints/routes.py).                        *)
(*                                                                         *)
(* One customer.  Each of his messages is handled by a webhook of its own  *)
(* and the advisers work meanwhile: a job reads the rows, then commits the *)
(* columns that it changed.  A job may die after its commit.               *)
(***************************************************************************)
EXTENDS Integers, Sequences, FiniteSets

CONSTANTS Webhooks,      \* the messages of the customer that may be in progress together
          Advisers,
          Branches,       \* the branches the firm sells
          MaxQuotes, MaxFiled, MaxHeard, MaxDesk   \* bounds: rows, messages, adviser's operations

ASSUME DeskAssumption == {MaxQuotes, MaxFiled} \subseteq Nat

VARIABLES quotes,        \* the quote requests, in order of creation
          filed,         \* the register of complaints, in order of creation
          awaited,       \* what the cart says Bob awaited in writing
          shown,         \* the buttons the customer has been sent
          job,           \* what each webhook or adviser is doing
          delay,         \* the announced delay of an answer, in working days
          turns, deskDone,  \* bounds only
          overlapped     \* history: two jobs have been in progress at the same time

insuranceVars == <<quotes, filed, awaited, shown, job, delay, turns, deskDone, overlapped>>

Idle    == [at |-> "free"]
NoAnswer == "nothing"

--------------------------------------------------------------------------------
(* The questions of each branch *)

Button(f)  == [field |-> f, written |-> FALSE]
Written(f) == [field |-> f, written |-> TRUE]

Script(b) == IF b = "AUTO" THEN <<Button("usage"), Button("coverage"), Written("vehicle")>>
                           ELSE <<Written("company"), Written("activity"), Written("employees")>>

Needed(b, firm) ==
    (IF b = "AUTO" THEN {"vehicle", "year", "usage"} ELSE {"company", "activity"})
        \cup (IF firm THEN {"company"} ELSE {})

Fields == {"usage", "coverage", "vehicle", "year", "company", "activity", "employees"}

Missing(q) == Needed(q.branch, q.firm) \ q.known

NoneLeft == [field |-> "none", written |-> FALSE]

\* The first step left; a vehicle without its year is asked for it after all the others.
FirstLeft(b, known) ==
    LET left == {i \in DOMAIN Script(b) : Script(b)[i].field \notin known} IN
    IF left # {} THEN Script(b)[CHOOSE i \in left : \A j \in left : i <= j]
    ELSE IF b = "AUTO" /\ "vehicle" \in known /\ "year" \notin known THEN Written("year") ELSE NoneLeft

--------------------------------------------------------------------------------
(* A quote request *)

NewQuote(b) == [branch |-> b, firm |-> b = "RC_PRO", known |-> {}, agreed |-> FALSE, status |-> "DRAFT",
                notified |-> FALSE, handled |-> FALSE, proposed |-> FALSE, closed |-> FALSE, why |-> FALSE,
                told |-> 0, mails |-> 0, whole |-> TRUE, course |-> <<"DRAFT">>]

Open(q) == q.status \in {"DRAFT", "SUBMITTED"}

\* The newest request of the branch still open, 0 if none.
OpenRequest(s, b) ==
    LET is == {i \in DOMAIN s : s[i].branch = b /\ Open(s[i])}
    IN IF is = {} THEN 0 ELSE CHOOSE i \in is : \A j \in is : j <= i

\* Faulty variant: passed on as soon as it is complete.
ReadyUnasked(q) == q.status = "DRAFT" /\ Missing(q) = {}

\* Complete and agreed: it is passed on to the firm.
ReadyToSend(q) == q.status = "DRAFT" /\ q.agreed /\ Missing(q) = {}

SubmitIfReady(q) ==
    IF ReadyToSend(q) THEN [q EXCEPT !.status = "SUBMITTED", !.told = @ + 1] ELSE q

Filled(q, firm, values, agrees) ==
    SubmitIfReady([q EXCEPT !.firm = firm, !.known = @ \cup values, !.agreed = @ \/ agrees])

\* An UPDATE carries the columns that the session changed, nothing else.
Saved(now, read, new) == [c \in DOMAIN now |-> IF new[c] # read[c] THEN new[c] ELSE now[c]]

\* The row after the commit.  told, whole and course are kept for the
\* properties: the times it was passed on, whether it was then complete as
\* the firm reads it, and its statuses.
Stored(now, read, new) ==
    LET row  == Saved(now, read, new)
        sent == new.status = "SUBMITTED" /\ read.status = "DRAFT"
    IN [row EXCEPT !.told = now.told + (new.told - read.told),
                   !.whole = now.whole /\ (sent => Missing(row) = {}),
                   !.course = IF row.status = now.status THEN now.course ELSE Append(now.course, row.status)]

\* The mail to the firm, claimed row by row on what is in the table.
MailClaimed(q) ==
    IF q.status = "SUBMITTED" /\ ~q.notified THEN [q EXCEPT !.notified = TRUE, !.mails = @ + 1] ELSE q

--------------------------------------------------------------------------------
(* A complaint or a claim *)

InHand(c) == c.status \in {"RECEIVED", "IN_PROGRESS"}

OpenComplaint(s) ==
    LET is == {i \in DOMAIN s : InHand(s[i])}
    IN IF is = {} THEN 0 ELSE CHOOSE i \in is : \A j \in is : j <= i

\* The number of rows and one more, or the first free number after it.
NextReference(s) ==
    CHOOSE n \in (Len(s) + 1) .. (2 * Len(s) + 1) :
        /\ \A i \in DOMAIN s : s[i].ref # n
        /\ \A m \in (Len(s) + 1) .. (n - 1) : \E i \in DOMAIN s : s[i].ref = m

DueDate(kind, days) == IF kind = "RECLAMATION" THEN days ELSE 0

NewComplaint(ref, kind, by) ==
    [ref |-> ref, kind |-> kind, status |-> "RECEIVED", due |-> DueDate(kind, delay), by |-> by, more |-> 0,
     acknowledged |-> FALSE, started |-> FALSE, resolved |-> FALSE, answer |-> FALSE,
     said |-> 0, retyped |-> FALSE, course |-> <<"RECEIVED">>]

StoredComplaint(now, read, new) ==
    LET row == Saved(now, read, new)
    IN [row EXCEPT !.course = IF row.status = now.status THEN now.course ELSE Append(now.course, row.status)]

--------------------------------------------------------------------------------
InsuranceInit ==
    /\ quotes = <<>> /\ filed = <<>>
    /\ awaited = NoAnswer /\ shown = {}
    /\ job = [w \in Webhooks \cup Advisers |-> Idle]
    /\ delay \in {1, 2}
    /\ turns = 0 /\ deskDone = 0 /\ overlapped = FALSE

\* A job reads the rows it is about.
Read(w) ==
    /\ job[w] = Idle
    /\ job' = [job EXCEPT ![w] = [at |-> "read", quotes |-> quotes, filed |-> filed, awaited |-> awaited]]
    /\ \/ w \in Webhooks /\ turns < MaxHeard /\ turns' = turns + 1 /\ UNCHANGED deskDone
       \/ w \in Advisers /\ deskDone < MaxDesk /\ deskDone' = deskDone + 1 /\ UNCHANGED turns
    /\ UNCHANGED <<quotes, filed, awaited, shown, delay>>

\* The question that follows: buttons, a text to write, or the summary and
\* its button; a request already passed on shows that it is.
ScreenOf(step, q) ==
    IF step = NoneLeft THEN IF q.status = "SUBMITTED" THEN {} ELSE {"send"}
    ELSE IF step.written THEN {} ELSE {step.field}

NextQuestion(b, q) ==
    LET step == FirstLeft(b, q.known) IN
    /\ awaited' = IF step.written THEN step.field ELSE awaited
    /\ shown' = shown \cup ScreenOf(step, q)

\* The request as the job commits it: the row it read, or a new one.
WriteQuote(w, b, new) ==
    LET i == OpenRequest(job[w].quotes, b) IN
    IF i = 0 THEN Append(quotes, [new EXCEPT !.course = IF new.status = "DRAFT" THEN @ ELSE Append(@, new.status)])
             ELSE [quotes EXCEPT ![i] = Stored(@, job[w].quotes[i], new)]

QuoteRead(w, b) == LET i == OpenRequest(job[w].quotes, b) IN IF i = 0 THEN NewQuote(b) ELSE job[w].quotes[i]

Room(w, b) == OpenRequest(job[w].quotes, b) = 0 => Len(quotes) < MaxQuotes

Ends(w)       == job' = [job EXCEPT ![w] = Idle]
ThenTells(w)  == job' = [job EXCEPT ![w] = [at |-> "announce"]]

\* Bob's tool: what the customer said to the AI, his agreement too; the
\* firm's mail is claimed in the same commit.
BobFills(w) == \E b \in Branches, values \in {{}, Needed("AUTO", FALSE), Needed("RC_PRO", TRUE)} \cup {{f} : f \in Fields}, firm \in BOOLEAN, agrees \in BOOLEAN :
    /\ job[w].at = "read" /\ w \in Webhooks /\ Room(w, b)
    /\ values \subseteq {s.field : s \in {Script(b)[i] : i \in DOMAIN Script(b)}} \cup Needed(b, TRUE)
    /\ LET read == QuoteRead(w, b)
           rows == WriteQuote(w, b, Filled(read, firm, values, agrees))
       IN quotes' = [i \in DOMAIN rows |-> MailClaimed(rows[i])]
    /\ Ends(w) /\ UNCHANGED <<filed, awaited, shown, delay, turns, deskDone>>

\* « Demander un devis », then a branch: its first question left.
TapBranch(w, b) ==
    /\ job[w].at = "read" /\ w \in Webhooks
    /\ NextQuestion(b, QuoteRead(w, b))
    /\ ThenTells(w) /\ UNCHANGED <<quotes, filed, delay, turns, deskDone>>

\* A choice, on the screen of this question, the last one or an old one.
TapAnswer(w, b) == \E f \in shown \ {"send"} :
    /\ job[w].at = "read" /\ w \in Webhooks /\ Room(w, b)
    /\ f \in {Script(b)[i].field : i \in DOMAIN Script(b)}
    /\ LET read == QuoteRead(w, b)
           new  == Filled(read, read.firm, {f}, FALSE)
       IN quotes' = WriteQuote(w, b, new) /\ NextQuestion(b, new)
    /\ ThenTells(w) /\ UNCHANGED <<filed, delay, turns, deskDone>>

\* An answer in writing to the question awaited: a vehicle with or without
\* its year, a number or something that is not one (asked again).
WriteAnswer(w, b) ==
    LET f == job[w].awaited IN
    /\ job[w].at = "read" /\ w \in Webhooks /\ Room(w, b)
    /\ f \in {Script(b)[i].field : i \in DOMAIN Script(b)} \cup (IF b = "AUTO" THEN {"year"} ELSE {})
    /\ \E values \in IF f = "vehicle" THEN {{"vehicle"}, {"vehicle", "year"}}
                     ELSE IF f \in {"year", "employees"} THEN {{f}, {}} ELSE {{f}} :
          LET read == QuoteRead(w, b)
              new  == Filled(read, read.firm, values, FALSE)
              step == FirstLeft(b, new.known)
          IN /\ quotes' = WriteQuote(w, b, new)
             /\ awaited' = IF step.written THEN step.field ELSE NoAnswer
             /\ shown' = shown \cup ScreenOf(step, new)
    /\ ThenTells(w) /\ UNCHANGED <<filed, delay, turns, deskDone>>

\* « Envoyer au cabinet »: the agreement; what is missing is asked instead.
TapSend(w, b) ==
    /\ job[w].at = "read" /\ w \in Webhooks /\ "send" \in shown
    /\ OpenRequest(job[w].quotes, b) # 0
    /\ LET read == QuoteRead(w, b)
           new  == Filled(read, read.firm, {}, TRUE)
       IN /\ quotes' = WriteQuote(w, b, new)
          /\ IF new.status = "SUBMITTED" THEN UNCHANGED <<awaited, shown>> ELSE NextQuestion(b, new)
    /\ ThenTells(w) /\ UNCHANGED <<filed, delay, turns, deskDone>>

\* « Être rappelé », or an appointment with Bob: an agreement for every
\* draft, and the complete ones are passed on.
AskForCall(w) ==
    LET read == job[w].quotes IN
    /\ job[w].at = "read" /\ w \in Webhooks
    /\ quotes' = [i \in DOMAIN quotes |->
                    IF i \in DOMAIN read /\ read[i].status = "DRAFT"
                    THEN MailClaimed(Stored(quotes[i], read[i], Filled(read[i], read[i].firm, {}, TRUE)))
                    ELSE MailClaimed(quotes[i])]
    /\ Ends(w) /\ UNCHANGED <<filed, awaited, shown, delay, turns, deskDone>>

\* The rest of a guided turn: the screens have gone, the firm's mail is
\* claimed and sent.
Announce(w) ==
    /\ job[w].at = "announce"
    /\ quotes' = [i \in DOMAIN quotes |-> MailClaimed(quotes[i])]
    /\ Ends(w) /\ UNCHANGED <<filed, awaited, shown, delay, turns, deskDone>>

\* « Faire une réclamation »: the next text is it.
TapComplaint(w) ==
    /\ job[w].at = "read" /\ w \in Webhooks
    /\ awaited' = "complaint"
    /\ Ends(w) /\ UNCHANGED <<quotes, filed, shown, delay, turns, deskDone>>

\* The text awaited, or any message the classifier takes for a complaint: a
\* new row, unless one is open; its reference must be free when it commits.
Complain(w) == \E kind \in {"RECLAMATION", "SINISTRE"} :
    LET i == OpenComplaint(job[w].filed)
        n == NextReference(job[w].filed) IN
    /\ job[w].at = "read" /\ w \in Webhooks
    /\ awaited' = IF job[w].awaited = "complaint" THEN NoAnswer ELSE awaited
    /\ IF i # 0
       THEN /\ filed' = [filed EXCEPT ![i].more = job[w].filed[i].more + 1]
            /\ Ends(w)
       ELSE /\ Len(filed) < MaxFiled /\ \A j \in DOMAIN filed : filed[j].ref # n
            /\ filed' = Append(filed, NewComplaint(n, kind, "BOB"))
            /\ job' = [job EXCEPT ![w] = [at |-> "acknowledge", ref |-> n]]
    /\ UNCHANGED <<quotes, shown, delay, turns, deskDone>>

\* Two at once chose the same reference: the second is refused by the
\* table, and the message is only in the conversation.
ReferenceTaken(w) ==
    /\ job[w].at = "read" /\ OpenComplaint(job[w].filed) = 0
    /\ \E j \in DOMAIN filed : filed[j].ref = NextReference(job[w].filed)
    /\ Ends(w) /\ UNCHANGED <<quotes, filed, awaited, shown, delay, turns, deskDone>>

\* The acknowledgement leaves, or WhatsApp refuses it.
Acknowledge(w) == \E accepted \in BOOLEAN :
    /\ job[w].at = "acknowledge"
    /\ filed' = [i \in DOMAIN filed |-> IF filed[i].ref = job[w].ref /\ accepted
                    THEN [filed[i] EXCEPT !.acknowledged = TRUE, !.said = filed[i].due] ELSE filed[i]]
    /\ Ends(w) /\ UNCHANGED <<quotes, awaited, shown, delay, turns, deskDone>>

\* A question while an answer is awaited: the AI answers, nothing is awaited.
AskSomethingElse(w) ==
    /\ job[w].at = "read" /\ w \in Webhooks /\ job[w].awaited \notin {NoAnswer, "complaint"}
    /\ awaited' = NoAnswer
    /\ Ends(w) /\ UNCHANGED <<quotes, filed, shown, delay, turns, deskDone>>

--------------------------------------------------------------------------------
(* The firm *)

Follows(s) == CASE s = "SUBMITTED"     -> {"HANDLED", "PROPOSAL_SENT", "WON", "LOST"}
                [] s = "HANDLED"       -> {"PROPOSAL_SENT", "WON", "LOST"}
                [] s = "PROPOSAL_SENT" -> {"WON", "LOST"}
                [] s = "LOST"          -> {"HANDLED"}
                [] OTHER               -> {}

Advanced(q, to) ==
    [q EXCEPT !.status = to, !.handled = TRUE,
              !.proposed = @ \/ to = "PROPOSAL_SENT",
              !.closed = IF to \in {"WON", "LOST"} THEN TRUE ELSE IF to = "HANDLED" /\ q.status = "LOST" THEN FALSE ELSE @,
              !.why = IF to = "LOST" THEN TRUE
                      ELSE IF to = "WON" \/ (to = "HANDLED" /\ q.status = "LOST") THEN FALSE ELSE @]

AtDesk(d) == job[d].at = "read" /\ d \in Advisers

\* « Prise en charge », or a further step.
AdvanceQuote(d) == AtDesk(d) /\ \E i \in DOMAIN job[d].quotes : \E to \in Follows(job[d].quotes[i].status) :
    /\ quotes' = [quotes EXCEPT ![i] = Stored(@, job[d].quotes[i], Advanced(job[d].quotes[i], to))]
    /\ Ends(d) /\ UNCHANGED <<filed, awaited, shown, delay, turns, deskDone>>

WriteComplaint(d, i, new) ==
    /\ filed' = [filed EXCEPT ![i] = StoredComplaint(@, job[d].filed[i], new)]
    /\ Ends(d) /\ UNCHANGED <<quotes, awaited, shown, delay, turns, deskDone>>

StartComplaint(d) == AtDesk(d) /\ \E i \in DOMAIN job[d].filed :
    LET c == job[d].filed[i] IN
    /\ c.status = "RECEIVED"
    /\ WriteComplaint(d, i, [c EXCEPT !.status = "IN_PROGRESS", !.started = TRUE])

\* The answer given to the customer goes with it.
ResolveComplaint(d) == AtDesk(d) /\ \E i \in DOMAIN job[d].filed :
    LET c == job[d].filed[i] IN
    /\ c.status # "RESOLVED"
    /\ WriteComplaint(d, i, [c EXCEPT !.status = "RESOLVED", !.started = TRUE, !.resolved = TRUE, !.answer = TRUE])

\* The kind was guessed from words; the deadline follows it.
ChangeKind(d) == AtDesk(d) /\ \E i \in DOMAIN job[d].filed :
    LET c  == job[d].filed[i]
        to == IF c.kind = "SINISTRE" THEN "RECLAMATION" ELSE "SINISTRE" IN
    WriteComplaint(d, i, [c EXCEPT !.kind = to, !.due = DueDate(to, delay), !.retyped = TRUE])

\* A complaint by telephone or at the office: never attached to an open one.
FileByHand(d) == \E kind \in {"RECLAMATION", "SINISTRE"} :
    LET n == NextReference(job[d].filed) IN
    /\ AtDesk(d) /\ Len(filed) < MaxFiled
    /\ \A j \in DOMAIN filed : filed[j].ref # n
    /\ filed' = Append(filed, NewComplaint(n, kind, "ADVISER"))
    /\ Ends(d) /\ UNCHANGED <<quotes, awaited, shown, delay, turns, deskDone>>

\* The delay of the complaints to come.
SetDelay(d) ==
    /\ AtDesk(d)
    /\ delay' = 3 - delay
    /\ Ends(d) /\ UNCHANGED <<quotes, filed, awaited, shown, turns, deskDone>>

\* The process stops before the rest of its job.
DieAfterCommit(w) ==
    /\ job[w].at \in {"announce", "acknowledge"}
    /\ Ends(w) /\ UNCHANGED <<quotes, filed, awaited, shown, delay, turns, deskDone>>

\* Nothing to write after all: a screen, a refusal, a crash.
NoChange(w) ==
    /\ job[w].at = "read"
    /\ Ends(w) /\ UNCHANGED <<quotes, filed, awaited, shown, delay, turns, deskDone>>

Guided(w) == \E b \in Branches : TapBranch(w, b) \/ TapAnswer(w, b) \/ WriteAnswer(w, b) \/ TapSend(w, b)

DeskStep == \E w \in Webhooks \cup Advisers :
    \/ Read(w) \/ BobFills(w) \/ Guided(w) \/ AskForCall(w) \/ Announce(w)
    \/ TapComplaint(w) \/ Complain(w) \/ ReferenceTaken(w) \/ Acknowledge(w) \/ AskSomethingElse(w)
    \/ AdvanceQuote(w) \/ StartComplaint(w) \/ ResolveComplaint(w) \/ ChangeKind(w) \/ FileByHand(w) \/ SetDelay(w)
    \/ DieAfterCommit(w) \/ NoChange(w)

TwoJobs == \E v, w \in Webhooks \cup Advisers : v # w /\ job[v] # Idle /\ job[w] # Idle

InsuranceNext == DeskStep /\ overlapped' = (overlapped \/ TwoJobs')

InsuranceSpec == InsuranceInit /\ [][InsuranceNext]_insuranceVars

InsuranceTypeOK ==
    /\ Len(quotes) <= MaxQuotes /\ Len(filed) <= MaxFiled
    /\ \A i \in DOMAIN quotes : quotes[i].branch \in Branches /\ quotes[i].known \subseteq Fields
    /\ \A i \in DOMAIN filed : filed[i].kind \in {"RECLAMATION", "SINISTRE"}
    /\ awaited \in Fields \cup {NoAnswer, "complaint"} /\ shown \subseteq Fields \cup {"send"}
    /\ \A w \in DOMAIN job : job[w].at \in {"free", "read", "announce", "acknowledge"}

--------------------------------------------------------------------------------
(* Properties *)

\* Nothing is passed on to the firm that the customer has not agreed to, by
\* the button, by his word to Bob, or by asking for a call; whatever the
\* jobs that overlap (insurance.py:354).
AgreedFirst == \A i \in DOMAIN quotes : quotes[i].status # "DRAFT" => quotes[i].agreed

\* The firm gets one mail about a request, whoever passed it on and however
\* many turns see it at once (insurance.py:557).
MailedOnce == \A i \in DOMAIN quotes : quotes[i].mails <= 1 /\ (quotes[i].mails = 1 => quotes[i].notified)

\* A request is passed on once, complete, and there is one open request of a
\* branch: as long as one job works at a time.  Two turns at once each overwrite
\* the answers of the other, open a request each, or pass it on twice.
PassedOnWhole ==
    overlapped \/ /\ \A i \in DOMAIN quotes : quotes[i].whole /\ quotes[i].told <= 1
                  /\ \A i, j \in DOMAIN quotes :
                        Open(quotes[i]) /\ Open(quotes[j]) /\ quotes[i].branch = quotes[j].branch => i = j

\* The follow-up goes by the steps allowed, a lost request alone is taken up
\* again, and its reason and closing date are those of its status: as long as
\* one job works at a time.
FollowedByStep == overlapped \/ \A i \in DOMAIN quotes : LET q == quotes[i] IN
    /\ \A n \in 1 .. (Len(q.course) - 1) :
          q.course[n + 1] \in (IF q.course[n] = "DRAFT" THEN {"SUBMITTED"} ELSE Follows(q.course[n]))
    /\ q.closed <=> q.status \in {"WON", "LOST"}
    /\ q.why <=> q.status = "LOST"

\* Bob opens one complaint at a time for the customer, a complaint only goes
\* forward, and is resolved with an answer: as long as one job works at a time.
OneComplaintOpen == overlapped \/
    /\ Cardinality({i \in DOMAIN filed : filed[i].by = "BOB" /\ InHand(filed[i])}) <= 1
    /\ \A i \in DOMAIN filed :
          /\ filed[i].course \in {<<"RECEIVED">>, <<"RECEIVED", "IN_PROGRESS">>, <<"RECEIVED", "RESOLVED">>,
                                  <<"RECEIVED", "IN_PROGRESS", "RESOLVED">>}
          /\ filed[i].status = "RESOLVED" => filed[i].answer /\ filed[i].started

\* A complaint has a deadline, a claim none; and the deadline announced to
\* the customer stays when the firm changes its delay, unless the firm
\* corrects the kind (api/complaints/routes.py:102).
DeadlineKept == \A i \in DOMAIN filed :
    /\ filed[i].due # 0 <=> filed[i].kind = "RECLAMATION"
    /\ filed[i].said # 0 /\ ~filed[i].retyped => filed[i].due = filed[i].said

\* What the firm is told of the customer, and he of it.
DeskRight == AgreedFirst /\ MailedOnce /\ DeadlineKept /\ PassedOnWhole /\ FollowedByStep /\ OneComplaintOpen
=============================================================================
