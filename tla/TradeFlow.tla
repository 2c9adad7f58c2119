------------------------------ MODULE TradeFlow ------------------------------
(***************************************************************************)
(* What a dealer's or an agency's customer asks for with buttons: a test   *)
(* drive (E), a visit (V), the estimation of his car (R) or of his         *)
(* property (S), its date by a free slot or in his own words               *)
(* (auto_flow.py, immo_flow.py).                                           *)
(*                                                                         *)
(* Any button ever sent may be tapped again at any time; a text answers    *)
(* the last question asked in words.  One message at a time.               *)
(***************************************************************************)
EXTENDS Integers, Sequences, FiniteSets

CONSTANTS
    Moments,         \* the slots of the agenda
    Models, Lots,  \* what the customer writes: his car; his property's place and surface
    MaxAsked, MaxWords, MaxQuestions   \* bounds

\* What he writes is told from what the buttons add, and a slot from none.
ASSUME TradeAssumption ==
    /\ Models \cap {"none", "year", "mileage"} = {} /\ "none" \notin Moments
    /\ MaxAsked \in Nat

VARIABLES
    agency,      \* an estate agency, or a dealer
    offered,     \* the product he looks at is on sale
    openTimes,   \* the free slots
    wanted,      \* cart.awaiting: the question his next text answers
    car,         \* profile.trade_in: its parts, separated
    owns,        \* the projects of an owner: [V, G -> [type, place]]
    latest,      \* the last of them that was touched
    asks,        \* the requests made
    lastCar,     \* the car he wrote last
    words, questions   \* texts written, questions asked in words

tradeVars == <<agency, offered, openTimes, wanted, car, owns, latest, asks, lastCar, words, questions>>

Kinds4 == {"E", "V", "R", "S"}
Which  == {"V", "G"}
NoText == "none"
NotAwaited == [what |-> "nothing", kind |-> "E", ref |-> FALSE, which |-> "V"]
Availability(kind, ref) == [NotAwaited EXCEPT !.what = "avail", !.kind = kind, !.ref = ref]
NoProperty == [type |-> NoText, place |-> NoText, touched |-> FALSE]

TradeInit ==
    /\ agency \in BOOLEAN /\ offered = TRUE /\ openTimes = Moments
    /\ wanted = NotAwaited /\ car = <<>> /\ asks = <<>>
    /\ owns = [w \in Which |-> NoProperty] /\ latest = NoText
    /\ lastCar = NoText
    /\ words = 0 /\ questions = 0

Dealer == ~agency
Served == IF agency THEN {"V", "S"} ELSE {"E", "R"}

--------------------------------------------------------------------------------
(* Slots and requests                                                      *)

\* The free slots, or the question in words when there is none.
AskTime(kind, ref) == questions < MaxQuestions /\ wanted' = Availability(kind, ref) /\ questions' = questions + 1

ProposeTimes(kind, ref) ==
    IF openTimes = {} THEN AskTime(kind, ref) ELSE UNCHANGED <<wanted, questions>>

\* The property of an owner that goes with his request.
OwnerSummary == IF latest = NoText THEN NoProperty ELSE owns[latest]

NewAsk(kind, ref, time) ==
    [kind |-> kind, product |-> ref /\ offered, time |-> time, car |-> IF kind = "R" THEN car ELSE <<>>,
     lot |-> IF kind = "S" THEN OwnerSummary ELSE NoProperty]

\* Booked with a slot that is still free; another is proposed otherwise.
BookSlot(kind, ref, t) ==
    IF t \in openTimes
    THEN /\ Len(asks) < MaxAsked
         /\ asks' = Append(asks, NewAsk(kind, ref, t))
         /\ openTimes' = openTimes \ {t} /\ wanted' = NotAwaited
         /\ UNCHANGED questions
    ELSE ProposeTimes(kind, ref) /\ UNCHANGED <<asks, openTimes>>

\* Asked in words: passed on to an adviser, unless the day is not that of the
\* date (the question stands).
BookWords(kind, ref, contradicts) ==
    IF contradicts THEN UNCHANGED <<asks, wanted>>
    ELSE /\ Len(asks) < MaxAsked
         /\ asks' = Append(asks, NewAsk(kind, ref, NoText)) /\ wanted' = NotAwaited

\* « Réserver un essai » or « Demander une visite » under a product, or
\* « Pas encore choisi » at a dealer's.
TapTry(ref) ==
    /\ ref \/ Dealer
    /\ IF ref /\ ~offered THEN UNCHANGED <<wanted, questions>>
       ELSE ProposeTimes(IF agency THEN "V" ELSE "E", ref)
    /\ UNCHANGED <<agency, offered, openTimes, car, owns, latest, asks, lastCar, words>>

TapSlot(kind, ref, t) ==
    /\ BookSlot(kind, ref, t)
    /\ UNCHANGED <<agency, offered, car, owns, latest, lastCar, words>>

OtherMoment(kind, ref) ==
    /\ AskTime(kind, ref)
    /\ UNCHANGED <<agency, offered, openTimes, car, owns, latest, asks, lastCar, words>>

--------------------------------------------------------------------------------
(* The customer's car, in three questions                                  *)

TapTradeIn ==
    /\ Dealer /\ questions < MaxQuestions
    /\ wanted' = [NotAwaited EXCEPT !.what = "model"] /\ questions' = questions + 1
    /\ UNCHANGED <<agency, offered, openTimes, car, owns, latest, asks, lastCar, words>>

UpTo(n) == SubSeq(car, 1, IF Len(car) < n THEN Len(car) ELSE n)

\* Faulty variant: the answers given before are kept.
TradeInAddKept(position, part) == car' = Append(car, part)

\* A part takes its place, and what came after it is forgotten; « Je ne sais
\* pas » leaves all as it is.
TradeInAdd(position, part) == car' = Append(UpTo(position), part)

\* The list of the years is sent when he has written a model.
TapYear(known) ==
    /\ Dealer /\ lastCar # NoText
    /\ IF known THEN TradeInAdd(1, "year") ELSE UNCHANGED car
    /\ UNCHANGED <<agency, offered, openTimes, wanted, owns, latest, asks, lastCar, words, questions>>

TapMileage(known) ==
    /\ Dealer /\ lastCar # NoText
    /\ IF known THEN TradeInAdd(2, "mileage") ELSE UNCHANGED car
    /\ ProposeTimes("R", FALSE)
    /\ UNCHANGED <<agency, offered, openTimes, owns, latest, asks, lastCar, words>>

--------------------------------------------------------------------------------
(* The owner's property                                                    *)

TapOwner(w) ==
    /\ agency
    /\ owns' = [owns EXCEPT ![w].touched = TRUE] /\ latest' = w
    /\ UNCHANGED <<agency, offered, openTimes, wanted, car, asks, lastCar, words, questions>>

TapOwnerType(w, type) ==
    /\ agency /\ questions < MaxQuestions
    /\ owns' = [owns EXCEPT ![w].touched = TRUE, ![w].type = type] /\ latest' = w
    /\ wanted' = [NotAwaited EXCEPT !.what = "place", !.which = w] /\ questions' = questions + 1
    /\ UNCHANGED <<agency, offered, openTimes, car, asks, lastCar, words>>

--------------------------------------------------------------------------------
(* What the customer writes                                                *)

WritesModel(model) ==
    /\ wanted.what = "model" /\ words < MaxWords
    /\ car' = <<model>> /\ lastCar' = model
    /\ wanted' = NotAwaited /\ words' = words + 1
    /\ UNCHANGED <<agency, offered, openTimes, owns, latest, asks, questions>>

WritesPlace(lot) ==
    LET w == wanted.which IN
    /\ wanted.what = "place" /\ words < MaxWords
    /\ owns' = [owns EXCEPT ![w].place = lot, ![w].touched = TRUE] /\ latest' = w
    /\ IF openTimes = {} THEN AskTime("S", FALSE) ELSE wanted' = NotAwaited /\ UNCHANGED questions
    /\ words' = words + 1
    /\ UNCHANGED <<agency, offered, openTimes, car, asks, lastCar>>

WritesWhen(contradicts) ==
    /\ wanted.what = "avail" /\ words < MaxWords
    /\ BookWords(wanted.kind, wanted.ref, contradicts)
    /\ words' = words + 1
    /\ UNCHANGED <<agency, offered, openTimes, car, owns, latest, lastCar, questions>>

\* A question of his own: the agent answers, and nothing is awaited any more.
WritesElse ==
    /\ wanted # NotAwaited
    /\ wanted' = NotAwaited
    /\ UNCHANGED <<agency, offered, openTimes, car, owns, latest, asks, lastCar, words, questions>>

\* After four hours Bob does not wait any more.
AwaitedLapses == WritesElse

\* Others take a slot or give one back; the product is sold.
AgendaMoves(t) ==
    /\ ~\E i \in DOMAIN asks : asks[i].time = t
    /\ openTimes' = IF t \in openTimes THEN openTimes \ {t} ELSE openTimes \cup {t}
    /\ UNCHANGED <<agency, offered, wanted, car, owns, latest, asks, lastCar, words, questions>>

ProductGoes ==
    /\ offered /\ offered' = FALSE
    /\ UNCHANGED <<agency, openTimes, wanted, car, owns, latest, asks, lastCar, words, questions>>

TradeNext ==
    \/ \E yes \in BOOLEAN : TapTry(yes) \/ TapYear(yes) \/ TapMileage(yes) \/ WritesWhen(yes)
    \/ \E kind \in Served, ref \in BOOLEAN :
         /\ (kind = "E" \/ (ref <=> kind = "V")) /\ (kind = "R" => lastCar # NoText) /\ (kind = "S" => latest # NoText)
         /\ OtherMoment(kind, ref) \/ \E t \in Moments : TapSlot(kind, ref, t)
    \/ TapTradeIn \/ WritesElse \/ ProductGoes
    \/ \E w \in Which : TapOwner(w) \/ \E type \in {"a", "b"} : TapOwnerType(w, type)
    \/ \E x \in Models : WritesModel(x)
    \/ \E x \in Lots : WritesPlace(x)
    \/ \E t \in Moments : AgendaMoves(t)

TradeSpec == TradeInit /\ [][TradeNext]_tradeVars

TradeTypeOK ==
    /\ wanted.what \in {"nothing", "model", "avail", "place"} /\ wanted.kind \in Kinds4 /\ wanted.which \in Which
    /\ openTimes \subseteq Moments /\ Len(asks) <= MaxAsked /\ Len(car) <= 3

--------------------------------------------------------------------------------
(* Properties *)

Parts(c, part) == {i \in DOMAIN c : c[i] = part}

\* The car that the adviser is asked to estimate is the last one written, with
\* one year at most, before its mileage, whatever old buttons were tapped.  A
\* second mileage comes in only after « Je ne sais pas » to the year.
OneCar ==
    lastCar # NoText =>
        /\ car # <<>> /\ car[1] = lastCar
        /\ Cardinality(Parts(car, "year")) <= 1
        /\ \A i \in Parts(car, "year"), j \in Parts(car, "mileage") : i < j
        /\ Parts(car, "year") # {} => Cardinality(Parts(car, "mileage")) <= 1

\* Each question about the date brings one request at most, and a slot that he
\* holds is no one else's.
OneRequestPerQuestion ==
    /\ Cardinality({i \in DOMAIN asks : asks[i].time = NoText}) <= questions
    /\ \A i, j \in DOMAIN asks : i # j /\ asks[i].time = asks[j].time => asks[i].time = NoText
    /\ \A i \in DOMAIN asks : asks[i].time # NoText => asks[i].time \notin openTimes
=============================================================================
