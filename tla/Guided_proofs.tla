---------------------------- MODULE Guided_proofs ----------------------------
(***************************************************************************)
(* What TLAPS proves of the guided flows: whatever the stock, the questions *)
(* lead to every product and a page shows what comes next; the car and the *)
(* requests a customer leaves are those he gave; and a screen that was not *)
(* delivered is replaced, once.                                            *)
(***************************************************************************)
EXTENDS Flows, Flows_proofs, DataInduction, SequenceTheorems, FiniteSetTheorems, FunctionTheorems, TLAPS

-----------------------------------------------------------------------------
(* What a dealer's or an agency's customer asks for with buttons.          *)

\* The car as it is written, part by part: a second mileage comes in only
\* when the year was not known.
CarShapes(m) == {<<m>>, <<m, "year">>, <<m, "mileage">>, <<m, "year", "mileage">>, <<m, "mileage", "mileage">>}

Property == [type : {NoText, "a", "b"}, place : Lots \cup {NoText}, touched : BOOLEAN]

Ask4 == [kind : Kinds4, product : BOOLEAN, time : Moments \cup {NoText},
         car : {<<>>} \cup UNION {CarShapes(m) : m \in Models}, lot : Property]

Awaits == [what : {"nothing", "model", "avail", "place"}, kind : Kinds4, ref : BOOLEAN, which : Which]

TradeKinds ==
    /\ agency \in BOOLEAN /\ offered \in BOOLEAN /\ openTimes \subseteq Moments /\ wanted \in Awaits /\ questions \in Nat
    /\ asks \in Seq(Ask4) /\ Len(asks) <= MaxAsked
    /\ owns \in [Which -> Property] /\ latest \in Which \cup {NoText}

CarWritten ==
    \/ lastCar = NoText /\ car = <<>>
    \/ lastCar \in Models /\ car \in CarShapes(lastCar)

InWords == {i \in DOMAIN asks : asks[i].time = NoText}

\* Each question in words has brought its request, or still may.
WordsCounted == Cardinality(InWords) + (IF wanted.what = "avail" THEN 1 ELSE 0) <= questions

SlotsHeld ==
    /\ \A i, j \in DOMAIN asks : i # j /\ asks[i].time = asks[j].time => asks[i].time = NoText
    /\ \A i \in DOMAIN asks : asks[i].time # NoText => asks[i].time \notin openTimes

TradeInv == TradeKinds /\ CarWritten /\ WordsCounted /\ SlotsHeld

-----------------------------------------------------------------------------
(* The questions and the requests of a step.                               *)

\* A question more about the date comes with a question counted.
AsksNothing ==
    /\ UNCHANGED asks /\ wanted' \in Awaits /\ questions' \in Nat
    /\ openTimes' \subseteq Moments /\ \A i \in DOMAIN asks : asks[i].time \notin openTimes' \/ asks[i].time \in openTimes
    /\ \/ wanted'.what # "avail" /\ questions' >= questions
       \/ wanted' = wanted /\ questions' >= questions
       \/ questions' >= questions + 1

AsksMore(a) ==
    /\ a \in Ask4 /\ asks' = Append(asks, a) /\ Len(asks) < MaxAsked
    /\ wanted' \in Awaits /\ wanted'.what # "avail" /\ questions' = questions
    /\ \/ a.time \in openTimes /\ openTimes' = openTimes \ {a.time}
       \/ a.time = NoText /\ wanted.what = "avail" /\ openTimes' = openTimes

LEMMA WordsAreFinite ==
    ASSUME NEW s \in Seq(Ask4)
    PROVE  LET I == {i \in DOMAIN s : s[i].time = NoText} IN IsFiniteSet(I) /\ Cardinality(I) \in Nat
<1> DEFINE I == {i \in DOMAIN s : s[i].time = NoText}
<1>1. IsFiniteSet(DOMAIN s) /\ I \subseteq DOMAIN s
  <2>1. DOMAIN s = 1..Len(s) /\ Len(s) \in Nat OBVIOUS
  <2> QED BY <2>1, FS_Interval
<1> HIDE DEF I
<1>2. IsFiniteSet(I) /\ Cardinality(I) \in Nat BY <1>1, FS_Subset, FS_CardinalityType
<1> QED BY <1>2 DEF I

LEMMA NothingAsked ==
    ASSUME TradeKinds, WordsCounted, SlotsHeld, AsksNothing
    PROVE  WordsCounted' /\ SlotsHeld' /\ asks' \in Seq(Ask4) /\ Len(asks') <= MaxAsked
<1>1. asks' = asks /\ InWords' = InWords BY DEF AsksNothing, InWords
<1>2. Cardinality(InWords) \in Nat BY WordsAreFinite DEF TradeKinds, InWords
<1>3. WordsCounted' BY <1>1, <1>2 DEF WordsCounted, AsksNothing, TradeKinds
<1>4. SlotsHeld' BY <1>1 DEF SlotsHeld, AsksNothing
<1> QED BY <1>1, <1>3, <1>4 DEF TradeKinds

LEMMA MoreAsked ==
    ASSUME TradeKinds, WordsCounted, SlotsHeld, NEW a, AsksMore(a)
    PROVE  WordsCounted' /\ SlotsHeld' /\ asks' \in Seq(Ask4) /\ Len(asks') <= MaxAsked /\ openTimes' \subseteq Moments
<1>1. asks \in Seq(Ask4) /\ Len(asks) \in Nat /\ a \in Ask4 /\ MaxAsked \in Nat BY TradeAssumption DEF TradeKinds, AsksMore
<1>2. PICK t : t = Append(asks, a) OBVIOUS
<1>3. t \in Seq(Ask4) /\ Len(t) = Len(asks) + 1 /\ (\A i \in DOMAIN asks : t[i] = asks[i]) /\ t[Len(asks) + 1] = a BY <1>1, <1>2
<1>4. DOMAIN t = DOMAIN asks \cup {Len(asks) + 1} /\ Len(asks) + 1 \notin DOMAIN asks BY <1>1, <1>3
<1>5. asks' = t BY <1>2 DEF AsksMore
<1>6. IsFiniteSet(InWords) /\ Cardinality(InWords) \in Nat BY <1>1, WordsAreFinite DEF InWords
<1>7. WordsCounted'
  <2>1. CASE a.time = NoText
    <3>1. InWords' = InWords \cup {Len(asks) + 1} /\ Len(asks) + 1 \notin InWords BY <1>3, <1>4, <1>5, <2>1 DEF InWords
    <3>2. Cardinality(InWords') = Cardinality(InWords) + 1 BY <3>1, <1>6, FS_AddElement
    <3>3. NoText \notin openTimes BY TradeAssumption DEF TradeKinds, NoText
    <3>4. wanted.what = "avail" BY <2>1, <3>3 DEF AsksMore
    <3> QED BY <3>2, <3>4, <1>6 DEF WordsCounted, AsksMore, TradeKinds
  <2>2. CASE a.time # NoText
    <3>1. InWords' = InWords BY <1>3, <1>4, <1>5, <2>2 DEF InWords
    <3> QED BY <3>1, <1>6 DEF WordsCounted, AsksMore, TradeKinds
  <2> QED BY <2>1, <2>2
<1>8. SlotsHeld'
  <2>1. a.time # NoText => a.time \in openTimes /\ openTimes' = openTimes \ {a.time} BY DEF AsksMore
  <2>2. openTimes' \subseteq openTimes BY DEF AsksMore
  <2>3. \A i \in DOMAIN t : asks'[i].time # NoText => asks'[i].time \notin openTimes'
    BY <2>1, <2>2, <1>3, <1>4, <1>5 DEF SlotsHeld
  <2>4. ASSUME NEW i \in DOMAIN t, NEW j \in DOMAIN t, i # j, t[i].time = t[j].time PROVE t[i].time = NoText
    <3>1. CASE i \in DOMAIN asks /\ j \in DOMAIN asks BY <3>1, <2>4, <1>3 DEF SlotsHeld
    <3>2. CASE i \notin DOMAIN asks /\ j \in DOMAIN asks BY <3>2, <2>1, <2>4, <1>3, <1>4 DEF SlotsHeld
    <3>3. CASE i \in DOMAIN asks /\ j \notin DOMAIN asks BY <3>3, <2>1, <2>4, <1>3, <1>4 DEF SlotsHeld
    <3> QED BY <3>1, <3>2, <3>3, <2>4, <1>4
  <2> QED BY <2>3, <2>4, <1>5 DEF SlotsHeld
<1>9. openTimes' \subseteq Moments BY DEF AsksMore, TradeKinds
<1> QED BY <1>1, <1>3, <1>5, <1>7, <1>8, <1>9 DEF AsksMore

\* What is left of the type when the questions and the requests are known.
LEMMA TradeGoes ==
    ASSUME TradeInv, AsksNothing \/ \E a : AsksMore(a), CarWritten', agency' = agency, offered' \in BOOLEAN,
           owns' \in [Which -> Property], latest' \in Which \cup {NoText}
    PROVE  TradeInv'
<1>1. TradeKinds /\ WordsCounted /\ SlotsHeld BY DEF TradeInv
<1>2. WordsCounted' /\ SlotsHeld' /\ asks' \in Seq(Ask4) /\ Len(asks') <= MaxAsked BY <1>1, NothingAsked, MoreAsked
<1>3. wanted' \in Awaits /\ openTimes' \subseteq Moments /\ questions' \in Nat
  <2>1. CASE AsksNothing BY <2>1 DEF AsksNothing
  <2>2. CASE \E a : AsksMore(a) BY <2>2, <1>1, MoreAsked DEF AsksMore, TradeKinds
  <2> QED BY <2>1, <2>2
<1> QED BY <1>1, <1>2, <1>3 DEF TradeInv, TradeKinds

LEMMA AwaitsAre ==
    ASSUME NEW kind \in Kinds4, NEW ref \in BOOLEAN
    PROVE  /\ NotAwaited \in Awaits /\ NotAwaited.what = "nothing" /\ Availability(kind, ref) \in Awaits
           /\ [NotAwaited EXCEPT !.what = "model"] \in Awaits /\ [NotAwaited EXCEPT !.what = "model"].what = "model"
           /\ \A w \in Which : /\ [NotAwaited EXCEPT !.what = "place", !.which = w] \in Awaits
                               /\ [NotAwaited EXCEPT !.what = "place", !.which = w].what = "place"
BY DEF NotAwaited, Availability, Awaits, Kinds4, Which

\* A free slot is proposed, or the question asked.
LEMMA TimesProposed ==
    ASSUME TradeKinds, NEW kind \in Kinds4, NEW ref \in BOOLEAN, ProposeTimes(kind, ref) \/ AskTime(kind, ref), UNCHANGED <<asks, openTimes>>
    PROVE  AsksNothing
<1>1. questions \in Nat /\ wanted \in Awaits /\ openTimes \subseteq Moments BY DEF TradeKinds
<1>2. CASE AskTime(kind, ref)
  <2>1. wanted' = Availability(kind, ref) /\ questions' = questions + 1 BY <1>2 DEF AskTime
  <2>2. questions + 1 \in Nat BY <1>1
  <2>3. Availability(kind, ref) \in Awaits BY AwaitsAre
  <2>4. questions' \in Nat /\ wanted' \in Awaits BY <2>1, <2>2, <2>3
  <2> QED BY <1>1, <2>1, <2>4 DEF AsksNothing
<1>3. CASE UNCHANGED <<wanted, questions>> BY <1>1, <1>3 DEF AsksNothing
<1> QED BY <1>2, <1>3 DEF ProposeTimes

LEMMA NewAskIs ==
    ASSUME TradeInv, NEW kind \in Kinds4, NEW ref \in BOOLEAN, NEW time \in Moments \cup {NoText}
    PROVE  NewAsk(kind, ref, time) \in Ask4 /\ NewAsk(kind, ref, time).time = time
<1>1. PICK c : c = IF kind = "R" THEN car ELSE <<>> OBVIOUS
<1>2. c \in {<<>>} \cup UNION {CarShapes(m) : m \in Models} BY <1>1 DEF TradeInv, CarWritten
<1>3. PICK lot : lot = IF kind = "S" THEN OwnerSummary ELSE NoProperty OBVIOUS
<1>4. lot \in Property
  <2>1. NoProperty \in Property BY DEF NoProperty, Property
  <2>2. latest # NoText => owns[latest] \in Property BY DEF TradeInv, TradeKinds
  <2> QED BY <1>3, <2>1, <2>2 DEF OwnerSummary
<1>5. NewAsk(kind, ref, time) = [kind |-> kind, product |-> ref /\ offered, time |-> time, car |-> c, lot |-> lot]
  BY <1>1, <1>3 DEF NewAsk
<1> QED BY <1>2, <1>4, <1>5 DEF Ask4

-----------------------------------------------------------------------------
(* Each step.                                                              *)

LEMMA TapTryKeeps == ASSUME TradeInv, NEW ref \in BOOLEAN, TapTry(ref) PROVE TradeInv'
<1>1. TradeKinds BY DEF TradeInv
<1>2. UNCHANGED <<agency, offered, openTimes, car, owns, latest, asks, lastCar>> BY DEF TapTry
<1>3. AsksNothing
  <2>1. CASE ref /\ ~offered
    <3>1. UNCHANGED <<wanted, questions>> BY <2>1 DEF TapTry
    <3> QED BY <3>1, <1>1, <1>2 DEF AsksNothing, TradeKinds
  <2>2. CASE ~(ref /\ ~offered)
    <3>1. PICK kind \in Kinds4 : ProposeTimes(kind, ref) BY <2>2 DEF TapTry, Kinds4
    <3> QED BY <3>1, <1>1, <1>2, TimesProposed
  <2> QED BY <2>1, <2>2
<1>4. CarWritten' BY <1>2 DEF TradeInv, CarWritten
<1> QED BY <1>1, <1>2, <1>3, <1>4, TradeGoes DEF TradeKinds

LEMMA TapSlotKeeps ==
    ASSUME TradeInv, NEW kind \in Kinds4, NEW ref \in BOOLEAN, NEW t \in Moments, TapSlot(kind, ref, t)
    PROVE  TradeInv'
<1>1. TradeKinds BY DEF TradeInv
<1>2. UNCHANGED <<agency, offered, car, owns, latest, lastCar>> /\ BookSlot(kind, ref, t) BY DEF TapSlot
<1>3. AsksNothing \/ \E a : AsksMore(a)
  <2>1. CASE t \in openTimes
    <3>1. PICK a : a = NewAsk(kind, ref, t) OBVIOUS
    <3>2. a \in Ask4 /\ a.time = t BY <3>1, NewAskIs
    <3>3. /\ Len(asks) < MaxAsked /\ asks' = Append(asks, a) /\ openTimes' = openTimes \ {t} /\ wanted' = NotAwaited
          /\ questions' = questions
      BY <1>2, <2>1, <3>1 DEF BookSlot
    <3>4. wanted' \in Awaits /\ wanted'.what # "avail" BY <3>3, AwaitsAre
    <3>5. AsksMore(a) BY <2>1, <3>2, <3>3, <3>4 DEF AsksMore
    <3> QED BY <3>5
  <2>2. CASE t \notin openTimes
    <3>1. ProposeTimes(kind, ref) /\ UNCHANGED <<asks, openTimes>> BY <1>2, <2>2 DEF BookSlot
    <3> QED BY <3>1, <1>1, TimesProposed
  <2> QED BY <2>1, <2>2
<1>4. CarWritten' BY <1>2 DEF TradeInv, CarWritten
<1> QED BY <1>1, <1>2, <1>3, <1>4, TradeGoes DEF TradeKinds

LEMMA OtherMomentKeeps ==
    ASSUME TradeInv, NEW kind \in Kinds4, NEW ref \in BOOLEAN, OtherMoment(kind, ref)
    PROVE  TradeInv'
<1>1. TradeKinds BY DEF TradeInv
<1>2. UNCHANGED <<agency, offered, openTimes, car, owns, latest, asks, lastCar>> /\ AskTime(kind, ref) BY DEF OtherMoment
<1>3. AsksNothing BY <1>1, <1>2, TimesProposed
<1>4. CarWritten' BY <1>2 DEF TradeInv, CarWritten
<1> QED BY <1>1, <1>2, <1>3, <1>4, TradeGoes DEF TradeKinds

LEMMA CarIs ==
    ASSUME NEW m \in Models, NEW c \in CarShapes(m)
    PROVE  /\ c \in Seq(Models \cup {"year", "mileage"}) /\ Len(c) \in 1..3 /\ Len(c) <= 3 /\ c[1] = m
           /\ Len(c) >= 2 => c[2] \in {"year", "mileage"}
<1>1. CASE c = <<m>> BY <1>1
<1>2. CASE c = <<m, "year">> BY <1>2
<1>3. CASE c = <<m, "mileage">> BY <1>3
<1>4. CASE c = <<m, "year", "mileage">> BY <1>4
<1>5. CASE c = <<m, "mileage", "mileage">> BY <1>5
<1> QED BY <1>1, <1>2, <1>3, <1>4, <1>5 DEF CarShapes

\* The part takes its place, and what came after it is forgotten.
LEMMA CarGoes ==
    ASSUME NEW m \in Models, car \in CarShapes(m)
    PROVE  /\ Append(UpTo(1), "year") \in CarShapes(m)
           /\ Append(UpTo(2), "mileage") \in CarShapes(m)
<1> DEFINE S == Models \cup {"year", "mileage"}
<1>1. car \in Seq(S) /\ Len(car) \in 1..3 /\ car[1] = m /\ (Len(car) >= 2 => car[2] \in {"year", "mileage"}) BY CarIs
<1>2. UpTo(1) = <<m>>
  <2>1. UpTo(1) = SubSeq(car, 1, 1) BY <1>1 DEF UpTo
  <2>2. SubSeq(car, 1, 1) \in Seq(S) /\ Len(SubSeq(car, 1, 1)) = 1 /\ \A i \in 1..1 : SubSeq(car, 1, 1)[i] = car[i] BY <1>1
  <2>3. <<m>> \in Seq(S) /\ Len(<<m>>) = 1 /\ \A i \in 1..1 : car[i] = <<m>>[i] BY <1>1
  <2>4. SubSeq(car, 1, 1) = <<m>> BY <2>2, <2>3, SeqEqual
  <2> QED BY <2>1, <2>4
<1>3. Append(<<m>>, "year") = <<m, "year">>
  <2>1. Append(<<m>>, "year") \in Seq(S) /\ <<m, "year">> \in Seq(S) /\ Len(Append(<<m>>, "year")) = 2 /\ Len(<<m, "year">>) = 2 OBVIOUS
  <2>2. \A i \in 1..2 : Append(<<m>>, "year")[i] = <<m, "year">>[i] OBVIOUS
  <2> QED BY <2>1, <2>2, SeqEqual
<1>4. UpTo(2) \in {<<m>>, <<m, "year">>, <<m, "mileage">>}
  <2>1. CASE Len(car) = 1
    <3>1. UpTo(2) = SubSeq(car, 1, 1) BY <2>1 DEF UpTo
    <3> QED BY <3>1, <1>1, <1>2 DEF UpTo
  <2>2. CASE Len(car) >= 2
    <3>1. PICK x \in {"year", "mileage"} : car[2] = x BY <2>2, <1>1
    <3>2. UpTo(2) = SubSeq(car, 1, 2) BY <2>2, <1>1 DEF UpTo
    <3>3. SubSeq(car, 1, 2) \in Seq(S) /\ Len(SubSeq(car, 1, 2)) = 2 /\ \A i \in 1..2 : SubSeq(car, 1, 2)[i] = car[i] BY <2>2, <1>1
    <3>4. <<m, x>> \in Seq(S) /\ Len(<<m, x>>) = 2 /\ \A i \in 1..2 : car[i] = <<m, x>>[i]
      <4>1. m \in S /\ x \in S BY <3>1
      <4>2. \A i \in 1..2 : i = 1 \/ i = 2 OBVIOUS
      <4>3. car[1] = <<m, x>>[1] /\ car[2] = <<m, x>>[2] BY <3>1, <1>1
      <4> QED BY <4>1, <4>2, <4>3
    <3>5. SubSeq(car, 1, 2) = <<m, x>> BY <3>3, <3>4, SeqEqual
    <3> QED BY <3>2, <3>5
  <2> QED BY <2>1, <2>2, <1>1
<1>5. Append(<<m>>, "mileage") = <<m, "mileage">>
  <2>1. Append(<<m>>, "mileage") \in Seq(S) /\ <<m, "mileage">> \in Seq(S) /\ Len(Append(<<m>>, "mileage")) = 2 /\ Len(<<m, "mileage">>) = 2
    OBVIOUS
  <2>2. \A i \in 1..2 : Append(<<m>>, "mileage")[i] = <<m, "mileage">>[i] OBVIOUS
  <2> QED BY <2>1, <2>2, SeqEqual
<1>6. ASSUME NEW x \in {"year", "mileage"} PROVE Append(<<m, x>>, "mileage") = <<m, x, "mileage">>
  <2>1. /\ Append(<<m, x>>, "mileage") \in Seq(S) /\ <<m, x, "mileage">> \in Seq(S)
        /\ Len(Append(<<m, x>>, "mileage")) = 3 /\ Len(<<m, x, "mileage">>) = 3
    OBVIOUS
  <2>2. \A i \in 1..3 : Append(<<m, x>>, "mileage")[i] = <<m, x, "mileage">>[i] OBVIOUS
  <2> QED BY <2>1, <2>2, SeqEqual
<1> QED BY <1>2, <1>3, <1>4, <1>5, <1>6 DEF CarShapes

LEMMA TapYearKeeps == ASSUME TradeInv, NEW known \in BOOLEAN, TapYear(known) PROVE TradeInv'
<1>1. TradeKinds /\ CarWritten BY DEF TradeInv
<1>2. UNCHANGED <<agency, offered, openTimes, wanted, owns, latest, asks, lastCar, questions>> /\ lastCar # NoText BY DEF TapYear
<1>3. AsksNothing BY <1>1, <1>2 DEF AsksNothing, TradeKinds
<1>4. lastCar \in Models /\ car \in CarShapes(lastCar) BY <1>1, <1>2 DEF CarWritten
<1>5. car' = car \/ car' = Append(UpTo(1), "year") BY DEF TapYear, TradeInAdd
<1>6. CarWritten' BY <1>2, <1>4, <1>5, CarGoes DEF CarWritten
<1> QED BY <1>1, <1>2, <1>3, <1>6, TradeGoes DEF TradeKinds

LEMMA TapMileageKeeps == ASSUME TradeInv, NEW known \in BOOLEAN, TapMileage(known) PROVE TradeInv'
<1>1. TradeKinds /\ CarWritten BY DEF TradeInv
<1>2. UNCHANGED <<agency, offered, openTimes, owns, latest, asks, lastCar>> /\ lastCar # NoText /\ ProposeTimes("R", FALSE) BY DEF TapMileage
<1>3. AsksNothing BY <1>1, <1>2, TimesProposed DEF Kinds4
<1>4. lastCar \in Models /\ car \in CarShapes(lastCar) BY <1>1, <1>2 DEF CarWritten
<1>5. car' = car \/ car' = Append(UpTo(2), "mileage") BY DEF TapMileage, TradeInAdd
<1>6. CarWritten' BY <1>2, <1>4, <1>5, CarGoes DEF CarWritten
<1> QED BY <1>1, <1>2, <1>3, <1>6, TradeGoes DEF TradeKinds

\* The steps that ask in words, write, or stop waiting.
LEMMA AwaitedKeeps ==
    ASSUME TradeInv, \/ TapTradeIn \/ WritesElse \/ \E w \in Which, type \in {"a", "b"} : TapOwnerType(w, type)
    PROVE  TradeInv'
<1>1. TradeKinds BY DEF TradeInv
<1>2. UNCHANGED <<agency, offered, openTimes, car, asks, lastCar>> BY DEF TapTradeIn, WritesElse, TapOwnerType
<1>3. questions' \in {questions, questions + 1} BY DEF TapTradeIn, WritesElse, TapOwnerType
<1>4. wanted' \in Awaits /\ wanted'.what # "avail"
  <2>1. CASE TapTradeIn BY <2>1, AwaitsAre DEF TapTradeIn, Kinds4
  <2>2. CASE WritesElse BY <2>2, AwaitsAre DEF WritesElse, Kinds4
  <2>3. ASSUME NEW w \in Which, NEW type, TapOwnerType(w, type) PROVE wanted' \in Awaits /\ wanted'.what # "avail"
    <3>1. wanted' = [NotAwaited EXCEPT !.what = "place", !.which = w] BY <2>3 DEF TapOwnerType
    <3>2. wanted' \in Awaits /\ wanted'.what = "place" BY <3>1, AwaitsAre DEF Kinds4
    <3> QED BY <3>2
  <2> QED BY <2>1, <2>2, <2>3
<1>5. AsksNothing BY <1>1, <1>2, <1>3, <1>4 DEF AsksNothing, TradeKinds
<1>6. owns' \in [Which -> Property] /\ latest' \in Which \cup {NoText}
  <2>1. CASE TapTradeIn \/ WritesElse BY <2>1, <1>1 DEF TapTradeIn, WritesElse, TradeKinds
  <2>2. CASE \E w \in Which, type \in {"a", "b"} : TapOwnerType(w, type)
    <3>1. PICK w \in Which, type \in {"a", "b"} : owns' = [owns EXCEPT ![w].touched = TRUE, ![w].type = type] /\ latest' = w
      BY <2>2 DEF TapOwnerType
    <3>2. owns \in [Which -> Property] BY <1>1 DEF TradeKinds
    <3>3. [owns EXCEPT ![w].touched = TRUE, ![w].type = type] \in [Which -> Property] BY <3>2 DEF Property
    <3> QED BY <3>1, <3>3
  <2> QED BY <2>1, <2>2
<1>7. CarWritten' BY <1>2 DEF TradeInv, CarWritten
<1> QED BY <1>1, <1>2, <1>5, <1>6, <1>7, TradeGoes DEF TradeKinds

LEMMA TapOwnerKeeps == ASSUME TradeInv, NEW w \in Which, TapOwner(w) PROVE TradeInv'
<1>1. TradeKinds BY DEF TradeInv
<1>2. UNCHANGED <<agency, offered, openTimes, wanted, car, asks, lastCar, questions>> /\ latest' = w BY DEF TapOwner
<1>3. AsksNothing BY <1>1, <1>2 DEF AsksNothing, TradeKinds
<1>4. owns' \in [Which -> Property]
  <2>1. owns' = [owns EXCEPT ![w].touched = TRUE] /\ owns \in [Which -> Property] BY <1>1 DEF TapOwner, TradeKinds
  <2>2. [owns EXCEPT ![w].touched = TRUE] \in [Which -> Property] BY <2>1 DEF Property
  <2> QED BY <2>1, <2>2
<1>5. CarWritten' BY <1>2 DEF TradeInv, CarWritten
<1> QED BY <1>1, <1>2, <1>3, <1>4, <1>5, TradeGoes DEF TradeKinds

LEMMA WritesModelKeeps == ASSUME TradeInv, NEW m \in Models, WritesModel(m) PROVE TradeInv'
<1>1. TradeKinds BY DEF TradeInv
<1>2. UNCHANGED <<agency, offered, openTimes, owns, latest, asks, questions>> /\ car' = <<m>> /\ lastCar' = m /\ wanted' = NotAwaited
  BY DEF WritesModel
<1>3. wanted' \in Awaits /\ wanted'.what # "avail" BY <1>2, AwaitsAre DEF Kinds4
<1>4. AsksNothing BY <1>1, <1>2, <1>3 DEF AsksNothing, TradeKinds
<1>5. CarWritten' BY <1>2 DEF CarWritten, CarShapes
<1> QED BY <1>1, <1>2, <1>4, <1>5, TradeGoes DEF TradeKinds

LEMMA WritesPlaceKeeps == ASSUME TradeInv, NEW lot \in Lots, WritesPlace(lot) PROVE TradeInv'
<1>1. TradeKinds BY DEF TradeInv
<1>2. PICK w : w = wanted.which OBVIOUS
<1>3. w \in Which BY <1>1, <1>2 DEF TradeKinds, Awaits
<1>4. /\ UNCHANGED <<agency, offered, openTimes, car, asks, lastCar>> /\ latest' = w
      /\ owns' = [owns EXCEPT ![w].place = lot, ![w].touched = TRUE]
      /\ IF openTimes = {} THEN AskTime("S", FALSE) ELSE wanted' = NotAwaited /\ UNCHANGED questions
  BY <1>2 DEF WritesPlace
<1>5. AsksNothing
  <2>1. CASE openTimes = {}
    <3>1. AskTime("S", FALSE) BY <2>1, <1>4
    <3>2. UNCHANGED <<asks, openTimes>> BY <1>4
    <3> QED BY <3>1, <3>2, <1>1, TimesProposed DEF Kinds4
  <2>2. CASE openTimes # {}
    <3>1. wanted' = NotAwaited /\ questions' = questions BY <2>2, <1>4
    <3>2. NotAwaited \in Awaits /\ NotAwaited.what = "nothing" BY AwaitsAre DEF Kinds4
    <3>3. questions \in Nat /\ openTimes \subseteq Moments BY <1>1 DEF TradeKinds
    <3>4. UNCHANGED <<asks, openTimes>> BY <1>4
    <3> QED BY <3>1, <3>2, <3>3, <3>4 DEF AsksNothing
  <2> QED BY <2>1, <2>2
<1>6. owns' \in [Which -> Property]
  <2>1. owns \in [Which -> Property] BY <1>1 DEF TradeKinds
  <2>2. [owns EXCEPT ![w].place = lot, ![w].touched = TRUE] \in [Which -> Property] BY <1>3, <2>1 DEF Property
  <2> QED BY <1>4, <2>2
<1>7. CarWritten' BY <1>4 DEF TradeInv, CarWritten
<1> QED BY <1>1, <1>3, <1>4, <1>5, <1>6, <1>7, TradeGoes DEF TradeKinds

LEMMA WritesWhenKeeps == ASSUME TradeInv, NEW contradicts \in BOOLEAN, WritesWhen(contradicts) PROVE TradeInv'
<1>1. TradeKinds BY DEF TradeInv
<1>2. /\ UNCHANGED <<agency, offered, openTimes, car, owns, latest, lastCar, questions>> /\ wanted.what = "avail"
      /\ BookWords(wanted.kind, wanted.ref, contradicts)
  BY DEF WritesWhen
<1>3. AsksNothing \/ \E a : AsksMore(a)
  <2>1. CASE contradicts
    <3>1. UNCHANGED <<asks, wanted>> BY <2>1, <1>2 DEF BookWords
    <3> QED BY <3>1, <1>1, <1>2 DEF AsksNothing, TradeKinds
  <2>2. CASE ~contradicts
    <3>1. PICK a : a = NewAsk(wanted.kind, wanted.ref, NoText) OBVIOUS
    <3>2. wanted.kind \in Kinds4 /\ wanted.ref \in BOOLEAN BY <1>1 DEF TradeKinds, Awaits
    <3>3. a \in Ask4 /\ a.time = NoText BY <3>1, <3>2, NewAskIs
    <3>4. Len(asks) < MaxAsked /\ asks' = Append(asks, a) /\ wanted' = NotAwaited BY <2>2, <3>1, <1>2 DEF BookWords
    <3>5. wanted' \in Awaits /\ wanted'.what # "avail" BY <3>4, AwaitsAre DEF Kinds4
    <3>6. AsksMore(a) BY <3>3, <3>4, <3>5, <1>2 DEF AsksMore
    <3> QED BY <3>6
  <2> QED BY <2>1, <2>2
<1>4. CarWritten' BY <1>2 DEF TradeInv, CarWritten
<1> QED BY <1>1, <1>2, <1>3, <1>4, TradeGoes DEF TradeKinds

LEMMA AroundKeeps == ASSUME TradeInv, ProductGoes \/ \E t \in Moments : AgendaMoves(t) PROVE TradeInv'
<1>1. TradeKinds BY DEF TradeInv
<1>2. UNCHANGED <<agency, wanted, car, owns, latest, asks, lastCar, questions>> /\ offered' \in {offered, FALSE}
  BY DEF ProductGoes, AgendaMoves
<1>3. AsksNothing
  <2>1. CASE ProductGoes BY <2>1, <1>1, <1>2 DEF ProductGoes, AsksNothing, TradeKinds
  <2>2. CASE \E t \in Moments : AgendaMoves(t)
    <3>1. PICK t \in Moments : AgendaMoves(t) BY <2>2
    <3>2. \A i \in DOMAIN asks : asks[i].time # t BY <3>1 DEF AgendaMoves
    <3>3. openTimes' \in {openTimes \ {t}, openTimes \cup {t}} BY <3>1 DEF AgendaMoves
    <3> QED BY <3>2, <3>3, <1>1, <1>2 DEF AsksNothing, TradeKinds
  <2> QED BY <2>1, <2>2
<1>4. CarWritten' BY <1>2 DEF TradeInv, CarWritten
<1> QED BY <1>1, <1>2, <1>3, <1>4, TradeGoes DEF TradeKinds

LEMMA TradeStarts == TradeInit => TradeInv
<1> SUFFICES ASSUME TradeInit PROVE TradeInv OBVIOUS
<1>1. /\ agency \in BOOLEAN /\ offered = TRUE /\ openTimes = Moments /\ wanted = NotAwaited /\ car = <<>> /\ asks = <<>>
      /\ owns = [w \in Which |-> NoProperty] /\ latest = NoText /\ lastCar = NoText /\ questions = 0
  BY DEF TradeInit
<1>2. NoProperty \in Property BY DEF NoProperty, Property
<1>3. wanted \in Awaits /\ wanted.what # "avail" BY <1>1, AwaitsAre DEF Kinds4
<1>4. asks \in Seq(Ask4) /\ Len(asks) = 0 /\ DOMAIN asks = {} BY <1>1
<1>5. TradeKinds BY <1>1, <1>2, <1>3, <1>4, TradeAssumption DEF TradeKinds
<1>6. InWords = {} BY <1>4 DEF InWords
<1>7. WordsCounted BY <1>1, <1>3, <1>6, FS_EmptySet DEF WordsCounted
<1> QED BY <1>1, <1>4, <1>5, <1>7 DEF TradeInv, CarWritten, SlotsHeld

LEMMA TradeInductive == TradeInv /\ [TradeNext]_tradeVars => TradeInv'
<1> SUFFICES ASSUME TradeInv, [TradeNext]_tradeVars PROVE TradeInv' OBVIOUS
<1>1. CASE \E yes \in BOOLEAN : TapTry(yes) \/ TapYear(yes) \/ TapMileage(yes) \/ WritesWhen(yes)
  BY <1>1, TapTryKeeps, TapYearKeeps, TapMileageKeeps, WritesWhenKeeps
<1>2. CASE \E kind \in Served, ref \in BOOLEAN : OtherMoment(kind, ref) \/ \E t \in Moments : TapSlot(kind, ref, t)
  <2>1. Served \subseteq Kinds4 BY DEF Served, Kinds4
  <2> QED BY <1>2, <2>1, OtherMomentKeeps, TapSlotKeeps
<1>3. CASE TapTradeIn \/ WritesElse \/ \E w \in Which, type \in {"a", "b"} : TapOwnerType(w, type) BY <1>3, AwaitedKeeps
<1>4. CASE ProductGoes \/ \E t \in Moments : AgendaMoves(t) BY <1>4, AroundKeeps
<1>5. CASE \E w \in Which : TapOwner(w) BY <1>5, TapOwnerKeeps
<1>6. CASE \E x \in Models : WritesModel(x) BY <1>6, WritesModelKeeps
<1>7. CASE \E x \in Lots : WritesPlace(x) BY <1>7, WritesPlaceKeeps
<1>8. CASE UNCHANGED tradeVars
  BY <1>8 DEF tradeVars, TradeInv, TradeKinds, CarWritten, WordsCounted, InWords, SlotsHeld
<1> QED BY <1>1, <1>2, <1>3, <1>4, <1>5, <1>6, <1>7, <1>8 DEF TradeNext

LEMMA TradeInvHolds == TradeSpec => []TradeInv
BY TradeStarts, TradeInductive, PTL DEF TradeSpec

LEMMA TradeTyped == TradeInv => TradeTypeOK
<1> SUFFICES ASSUME TradeInv PROVE TradeTypeOK OBVIOUS
<1>1. TradeKinds /\ CarWritten BY DEF TradeInv
<1>2. Len(car) <= 3
  <2>1. CASE lastCar \in Models /\ car \in CarShapes(lastCar)
    <3> QED BY <2>1, CarIs
  <2>2. CASE car = <<>> BY <2>2
  <2> QED BY <1>1, <2>1, <2>2 DEF CarWritten
<1>3. wanted.what \in {"nothing", "model", "avail", "place"} /\ wanted.kind \in Kinds4 /\ wanted.which \in Which
  BY <1>1 DEF TradeKinds, Awaits
<1> QED BY <1>1, <1>2, <1>3 DEF TradeTypeOK, TradeKinds

LEMMA CarIsOne == TradeInv => OneCar
<1> SUFFICES ASSUME TradeInv, lastCar # NoText PROVE OneCar BY DEF OneCar
<1>1. PICK m \in Models : m = lastCar /\ car \in CarShapes(m) BY DEF TradeInv, CarWritten
<1>2. m # "year" /\ m # "mileage" BY TradeAssumption
<1>3. /\ Parts(car, "year") = {} \/ Parts(car, "year") = {2}
      /\ Parts(car, "mileage") \subseteq 2..3
      /\ Parts(car, "year") = {2} => Parts(car, "mileage") = {} \/ Parts(car, "mileage") = {3}
  <2>1. CASE car = <<m>> BY <2>1, <1>2 DEF Parts
  <2>2. CASE car = <<m, "year">> BY <2>2, <1>2 DEF Parts
  <2>3. CASE car = <<m, "mileage">> BY <2>3, <1>2 DEF Parts
  <2>4. CASE car = <<m, "year", "mileage">> BY <2>4, <1>2 DEF Parts
  <2>5. CASE car = <<m, "mileage", "mileage">> BY <2>5, <1>2 DEF Parts
  <2> QED BY <2>1, <2>2, <2>3, <2>4, <2>5, <1>1 DEF CarShapes
<1>4. car # <<>> /\ car[1] = lastCar BY <1>1 DEF CarShapes
<1>5. Cardinality({}) = 0 /\ Cardinality({2}) = 1 /\ Cardinality({3}) = 1 BY FS_EmptySet, FS_Singleton
<1>6. Cardinality(Parts(car, "year")) <= 1 BY <1>3, <1>5
<1>7. Parts(car, "year") # {} => Cardinality(Parts(car, "mileage")) <= 1 BY <1>3, <1>5
<1>8. \A i \in Parts(car, "year"), j \in Parts(car, "mileage") : i < j BY <1>3
<1> QED BY <1>4, <1>6, <1>7, <1>8 DEF OneCar

LEMMA OneRequestEach == TradeInv => OneRequestPerQuestion
<1> SUFFICES ASSUME TradeInv PROVE OneRequestPerQuestion OBVIOUS
<1>1. TradeKinds /\ WordsCounted /\ SlotsHeld BY DEF TradeInv
<1>2. Cardinality(InWords) \in Nat /\ questions \in Nat BY <1>1, WordsAreFinite DEF TradeKinds, InWords
<1>3. Cardinality(InWords) <= questions BY <1>1, <1>2 DEF WordsCounted
<1> QED BY <1>1, <1>3 DEF SlotsHeld, OneRequestPerQuestion, InWords

-----------------------------------------------------------------------------
(* How the screens of a guided turn leave.                                 *)

LeftMsg == [form : Forms, from : Nat, noted : BOOLEAN, resent : BOOLEAN, failed : BOOLEAN, known : BOOLEAN]

SessionJob == [at : {"rest", "send"}, todo : Seq(Forms), mine : SUBSET Nat, for : Nat]

Simpler(form) == {Degraded(form), "text"}

DeliveryKinds ==
    /\ leftMsgs \in Seq(LeftMsg) /\ session \in [Sessions -> SessionJob] /\ sessionDeaths \in Nat /\ crossed \in BOOLEAN
    /\ \A k \in DOMAIN leftMsgs : leftMsgs[k].from < k
    /\ \A s \in Sessions : session[s].mine \subseteq DOMAIN leftMsgs /\ session[s].for \in 0..Len(leftMsgs)
    /\ \A s \in Sessions : session[s].at = "rest" => session[s] = AtRest

\* What takes the place of a message is simpler: what was sent, and what will be.
SimplerIsSent ==
    /\ \A j \in DOMAIN leftMsgs : leftMsgs[j].from # 0 => leftMsgs[j].form \in Simpler(leftMsgs[leftMsgs[j].from].form)
    /\ \A s \in Sessions : session[s].for # 0 =>
          Len(session[s].todo) <= 1 /\ \A i \in DOMAIN session[s].todo : session[s].todo[i] \in Simpler(leftMsgs[session[s].for].form)

\* Who heard of a failure replaces the message, or has.
FailureHeard ==
    /\ \A k \in DOMAIN leftMsgs : leftMsgs[k].known => leftMsgs[k].noted
    /\ sessionDeaths = 0 => \A k \in DOMAIN leftMsgs :
         leftMsgs[k].failed /\ leftMsgs[k].known /\ Degraded(leftMsgs[k].form) # NoForm =>
            leftMsgs[k].resent \/ \E s \in Sessions : session[s].for = k

\* As long as one works at a time: what replaces a message was counted when its
\* session was done, or died, or is still to be.
Awaiting(k) == \E s \in Sessions : session[s].for = k /\ session[s].mine # {}

Counted(k) ==
    Cardinality(Replacements(k)) <= sessionDeaths + (IF leftMsgs[k].resent THEN 1 ELSE 0) + (IF Awaiting(k) THEN 1 ELSE 0)

OneAtATime ==
    /\ \A s, o \in Sessions : session[s].at # "rest" /\ session[o].at # "rest" => s = o
    /\ \A s \in Sessions : session[s].for # 0 =>
          /\ ~leftMsgs[session[s].for].resent
          /\ session[s].todo # <<>> => session[s].mine = {}
    /\ \A k \in DOMAIN leftMsgs : Counted(k)

DeliveryInv == DeliveryKinds /\ SimplerIsSent /\ FailureHeard /\ (~crossed => OneAtATime)

-----------------------------------------------------------------------------
(* What is simpler, and what replaces what.                                *)

LEMMA DegradedIs ==
    /\ \A f \in Forms : Degraded(f) \in Forms \cup {NoForm}
    /\ \A f \in Forms : Degraded(f) # NoForm => Degraded(Degraded(f)) \in {"text", NoForm}
    /\ Degraded("text") = NoForm /\ "text" \in Forms /\ NoForm \notin Forms
BY DEF Degraded, Forms, NoForm

LEMMA ReplacementsCount ==
    ASSUME leftMsgs \in Seq(LeftMsg), NEW k \in Nat
    PROVE  IsFiniteSet(Replacements(k)) /\ Cardinality(Replacements(k)) \in Nat
<1>1. DOMAIN leftMsgs = 1..Len(leftMsgs) /\ Len(leftMsgs) \in Nat OBVIOUS
<1>2. IsFiniteSet(DOMAIN leftMsgs) BY <1>1, FS_Interval
<1>3. Replacements(k) \subseteq DOMAIN leftMsgs BY DEF Replacements
<1> QED BY <1>2, <1>3, FS_Subset, FS_CardinalityType

\* A message more replaces that one only.
LEMMA OneReplacementMore ==
    ASSUME leftMsgs \in Seq(LeftMsg), NEW m \in LeftMsg, leftMsgs' = Append(leftMsgs, m), NEW k \in Nat
    PROVE  /\ m.from # k => Replacements(k)' = Replacements(k)
           /\ m.from = k => Cardinality(Replacements(k)') = Cardinality(Replacements(k)) + 1
<1>1. DOMAIN leftMsgs = 1..Len(leftMsgs) /\ Len(leftMsgs) \in Nat OBVIOUS
<1>2. PICK n \in Nat : n = Len(leftMsgs) + 1 BY <1>1
<1>3. /\ DOMAIN leftMsgs' = DOMAIN leftMsgs \cup {n} /\ n \notin DOMAIN leftMsgs /\ leftMsgs'[n] = m
      /\ \A j \in DOMAIN leftMsgs : leftMsgs'[j] = leftMsgs[j]
  <2>1. PICK t : t = Append(leftMsgs, m) OBVIOUS
  <2>2. t \in Seq(LeftMsg) /\ Len(t) = Len(leftMsgs) + 1 /\ t[Len(leftMsgs) + 1] = m /\ \A j \in 1..Len(leftMsgs) : t[j] = leftMsgs[j]
    BY <2>1
  <2>3. DOMAIN t = 1..(Len(leftMsgs) + 1) BY <2>2
  <2>4. leftMsgs' = t BY <2>1
  <2> QED BY <1>1, <1>2, <2>2, <2>3, <2>4
<1>4. m.from # k => Replacements(k)' = Replacements(k) BY <1>3 DEF Replacements
<1>5. m.from = k => Replacements(k)' = Replacements(k) \cup {n} /\ n \notin Replacements(k) BY <1>3 DEF Replacements
<1> QED BY <1>4, <1>5, ReplacementsCount, FS_AddElement

\* The job of one session changes.
LEMMA OneSessionMoves ==
    ASSUME session \in [Sessions -> SessionJob], NEW s \in Sessions, NEW j \in SessionJob,
           session' = [session EXCEPT ![s] = j]
    PROVE  session' \in [Sessions -> SessionJob] /\ session'[s] = j /\ \A o \in Sessions : o # s => session'[o] = session[o]
OBVIOUS

\* A turn, or the replacement of a message, begins.
LEMMA BeginsKeeps ==
    ASSUME DeliveryInv, NEW s \in Sessions, session[s].at = "rest", NEW j \in SessionJob, Begins(s, j),
           j.at = "send", j.mine = {}, j.for \in 0..Len(leftMsgs), sessionDeaths' = sessionDeaths,
           j.for # 0 => /\ ~leftMsgs[j.for].resent /\ Len(j.todo) <= 1
                        /\ \A i \in DOMAIN j.todo : j.todo[i] \in Simpler(leftMsgs[j.for].form),
           leftMsgs' \in Seq(LeftMsg), Len(leftMsgs') = Len(leftMsgs),
           \A k \in DOMAIN leftMsgs : /\ leftMsgs'[k].from = leftMsgs[k].from /\ leftMsgs'[k].form = leftMsgs[k].form
                                      /\ leftMsgs'[k].resent = leftMsgs[k].resent /\ leftMsgs'[k].noted = leftMsgs[k].noted
                                      /\ leftMsgs'[k].known => leftMsgs[k].noted
                                      /\ \/ leftMsgs'[k].failed = leftMsgs[k].failed /\ leftMsgs'[k].known = leftMsgs[k].known
                                         \/ k = j.for
    PROVE  DeliveryInv'
<1>1. DeliveryKinds /\ SimplerIsSent /\ FailureHeard BY DEF DeliveryInv
<1>2. /\ leftMsgs \in Seq(LeftMsg) /\ session \in [Sessions -> SessionJob] /\ sessionDeaths \in Nat /\ crossed \in BOOLEAN
      /\ session[s] = AtRest
  BY <1>1 DEF DeliveryKinds
<1>3. session' = [session EXCEPT ![s] = j] /\ crossed' = (crossed \/ \E o \in Sessions \ {s} : session[o].at # "rest")
  BY DEF Begins
<1>4. session' \in [Sessions -> SessionJob] /\ session'[s] = j /\ \A o \in Sessions : o # s => session'[o] = session[o]
  BY <1>2, <1>3, OneSessionMoves
<1>5. DOMAIN leftMsgs' = DOMAIN leftMsgs /\ DOMAIN leftMsgs = 1..Len(leftMsgs) /\ Len(leftMsgs) \in Nat BY <1>2
<1>6. DeliveryKinds'
  <2>1. crossed' \in BOOLEAN BY <1>3
  <2>2. \A k \in DOMAIN leftMsgs' : leftMsgs'[k].from < k BY <1>1, <1>5 DEF DeliveryKinds
  <2>3. \A o \in Sessions : session'[o].mine \subseteq DOMAIN leftMsgs' /\ session'[o].for \in 0..Len(leftMsgs')
    BY <1>1, <1>4, <1>5 DEF DeliveryKinds
  <2>4. \A o \in Sessions : session'[o].at = "rest" => session'[o] = AtRest BY <1>1, <1>4 DEF DeliveryKinds
  <2> QED BY <1>2, <1>4, <2>1, <2>2, <2>3, <2>4 DEF DeliveryKinds
<1>7. \A k \in DOMAIN leftMsgs : Simpler(leftMsgs'[k].form) = Simpler(leftMsgs[k].form) OBVIOUS
<1>8. \A k \in DOMAIN leftMsgs : leftMsgs[k].from # 0 => leftMsgs[k].from \in DOMAIN leftMsgs
  <2> TAKE k \in DOMAIN leftMsgs
  <2>1. leftMsgs[k] \in LeftMsg BY <1>2
  <2>2. leftMsgs[k].from \in Nat BY <2>1 DEF LeftMsg
  <2>3. leftMsgs[k].from < k BY <1>1 DEF DeliveryKinds
  <2> QED BY <2>2, <2>3, <1>5
<1>9. SimplerIsSent'
  <2>1. \A k \in DOMAIN leftMsgs' : leftMsgs'[k].from # 0 => leftMsgs'[k].form \in Simpler(leftMsgs'[leftMsgs'[k].from].form)
    BY <1>1, <1>5, <1>7, <1>8 DEF SimplerIsSent
  <2>2. ASSUME NEW o \in Sessions, session'[o].for # 0
        PROVE  Len(session'[o].todo) <= 1 /\ \A i \in DOMAIN session'[o].todo : session'[o].todo[i] \in Simpler(leftMsgs'[session'[o].for].form)
    <3>1. session'[o].for \in DOMAIN leftMsgs BY <1>5, <1>6, <2>2 DEF DeliveryKinds
    <3>2. CASE o = s BY <3>1, <3>2, <1>4, <1>7, <2>2
    <3>3. CASE o # s BY <3>1, <3>3, <1>1, <1>4, <1>7, <2>2 DEF SimplerIsSent
    <3> QED BY <3>2, <3>3
  <2> QED BY <2>1, <2>2 DEF SimplerIsSent
<1>10. FailureHeard'
  <2>1. \A k \in DOMAIN leftMsgs' : leftMsgs'[k].known => leftMsgs'[k].noted BY <1>5
  <2>2. ASSUME sessionDeaths' = 0, NEW k \in DOMAIN leftMsgs', leftMsgs'[k].failed, leftMsgs'[k].known, Degraded(leftMsgs'[k].form) # NoForm,
               ~leftMsgs'[k].resent
        PROVE  \E o \in Sessions : session'[o].for = k
    <3>1. CASE k = j.for BY <3>1, <1>4
    <3>2. CASE k # j.for
      <4>1. k \in DOMAIN leftMsgs /\ k # 0 BY <1>5
      <4>2. leftMsgs[k].failed /\ leftMsgs[k].known /\ Degraded(leftMsgs[k].form) # NoForm /\ ~leftMsgs[k].resent BY <2>2, <3>2, <4>1
      <4>3. PICK o \in Sessions : session[o].for = k BY <1>1, <2>2, <4>1, <4>2 DEF FailureHeard
      <4>4. o # s BY <1>2, <4>1, <4>3 DEF AtRest
      <4> QED BY <1>4, <4>3, <4>4
    <3> QED BY <3>1, <3>2
  <2> QED BY <2>1, <2>2 DEF FailureHeard
<1>11. ASSUME ~crossed' PROVE OneAtATime'
  <2>1. OneAtATime /\ \A o \in Sessions : o # s => session[o].at = "rest" BY <1>3, <1>11 DEF DeliveryInv
  <2>2. \A o \in Sessions : o # s => session'[o] = AtRest BY <1>1, <1>4, <2>1 DEF DeliveryKinds
  <2>3. AtRest.at = "rest" /\ AtRest.for = 0 /\ AtRest.mine = {} BY DEF AtRest
  <2>4. \A o, p \in Sessions : session'[o].at # "rest" /\ session'[p].at # "rest" => o = p BY <2>2, <2>3
  <2>5. ASSUME NEW o \in Sessions, session'[o].for # 0
        PROVE  ~leftMsgs'[session'[o].for].resent /\ (session'[o].todo # <<>> => session'[o].mine = {})
    <3>1. o = s /\ session'[o] = j BY <1>4, <2>2, <2>3, <2>5
    <3>2. j.for \in DOMAIN leftMsgs BY <3>1, <2>5, <1>5
    <3> QED BY <3>1, <3>2, <2>5
  <2>6. ASSUME NEW k \in DOMAIN leftMsgs' PROVE Counted(k)'
    <3>1. k \in DOMAIN leftMsgs BY <1>5
    <3>2. Replacements(k)' = Replacements(k) BY <1>5 DEF Replacements
    <3>3. ~Awaiting(k)' BY <1>4, <2>2, <2>3 DEF Awaiting
    <3>4. ~Awaiting(k) BY <1>2, <1>1, <2>1, <2>3 DEF Awaiting, DeliveryKinds
    <3>5. Counted(k) BY <2>1, <3>1 DEF OneAtATime
    <3>6. leftMsgs'[k].resent = leftMsgs[k].resent BY <3>1
    <3> QED BY <3>2, <3>3, <3>4, <3>5, <3>6 DEF Counted
  <2> QED BY <2>4, <2>5, <2>6 DEF OneAtATime
<1> QED BY <1>6, <1>9, <1>10, <1>11 DEF DeliveryInv

LEMMA AnswerTurnKeeps == ASSUME DeliveryInv, NEW s \in Sessions, AnswerTurn(s) PROVE DeliveryInv'
<1>1. PICK forms \in GuidedTurns :
        /\ session[s].at = "rest"
        /\ Begins(s, [at |-> "send", todo |-> forms, mine |-> {}, for |-> 0])
        /\ UNCHANGED <<leftMsgs, reports, sessionDeaths>>
  BY DEF AnswerTurn
<1>2. PICK j : j = [at |-> "send", todo |-> forms, mine |-> {}, for |-> 0] OBVIOUS
<1>3. j \in SessionJob /\ j.at = "send" /\ j.mine = {} /\ j.for = 0 BY <1>2, DeliveryAssumption DEF SessionJob
<1>4. leftMsgs \in Seq(LeftMsg) /\ leftMsgs' = leftMsgs /\ Len(leftMsgs) \in Nat /\ \A k \in DOMAIN leftMsgs : leftMsgs[k].known => leftMsgs[k].noted
  BY <1>1 DEF DeliveryInv, DeliveryKinds, FailureHeard
<1>5. Begins(s, j) /\ sessionDeaths' = sessionDeaths /\ j.for \in 0..Len(leftMsgs) BY <1>1, <1>2, <1>3, <1>4
<1> QED BY <1>1, <1>3, <1>4, <1>5, BeginsKeeps

LEMMA ResendFailedKeeps == ASSUME DeliveryInv, NEW s \in Sessions, NEW k \in DOMAIN leftMsgs, ResendFailed(s, k) PROVE DeliveryInv'
<1>1. DeliveryKinds /\ SimplerIsSent /\ FailureHeard BY DEF DeliveryInv
<1>2. leftMsgs \in Seq(LeftMsg) /\ Len(leftMsgs) \in Nat /\ k \in 1..Len(leftMsgs) BY <1>1 DEF DeliveryKinds
<1>3. PICK m : m = leftMsgs[k] OBVIOUS
<1>4. m \in LeftMsg /\ m.noted \in BOOLEAN /\ m.known \in BOOLEAN /\ m.form \in Forms
  <2>1. m \in LeftMsg BY <1>2, <1>3
  <2> QED BY <2>1 DEF LeftMsg
<1>5. PICK n : n = [m EXCEPT !.failed = TRUE, !.known = m.known \/ m.noted] OBVIOUS
<1>6. /\ n \in LeftMsg /\ n.form = m.form /\ n.from = m.from /\ n.noted = m.noted /\ n.resent = m.resent
      /\ n.known => m.known \/ m.noted
  BY <1>4, <1>5 DEF LeftMsg
<1>7. leftMsgs' = [leftMsgs EXCEPT ![k] = n] /\ session[s].at = "rest" /\ sessionDeaths' = sessionDeaths
  BY <1>3, <1>5 DEF ResendFailed
<1>8. /\ leftMsgs' \in Seq(LeftMsg) /\ Len(leftMsgs') = Len(leftMsgs) /\ leftMsgs'[k] = n
      /\ \A i \in DOMAIN leftMsgs : i # k => leftMsgs'[i] = leftMsgs[i]
  BY <1>2, <1>6, <1>7
<1>9. \A i \in DOMAIN leftMsgs :
        /\ leftMsgs'[i].from = leftMsgs[i].from /\ leftMsgs'[i].form = leftMsgs[i].form
        /\ leftMsgs'[i].resent = leftMsgs[i].resent /\ leftMsgs'[i].noted = leftMsgs[i].noted
        /\ leftMsgs'[i].known => leftMsgs[i].noted
        /\ i # k => leftMsgs'[i].failed = leftMsgs[i].failed /\ leftMsgs'[i].known = leftMsgs[i].known
  BY <1>1, <1>3, <1>6, <1>8 DEF FailureHeard
<1>10. CASE ToReplace(m)
  <2>1. PICK j : j = [at |-> "send", todo |-> <<Degraded(m.form)>>, mine |-> {}, for |-> k] OBVIOUS
  <2>2. Begins(s, j) BY <1>3, <1>10, <2>1 DEF ResendFailed
  <2>3. Degraded(m.form) \in Forms /\ ~m.resent BY <1>4, <1>10, DegradedIs DEF ToReplace
  <2>4. /\ j \in SessionJob /\ j.at = "send" /\ j.mine = {} /\ j.for = k
        /\ Len(j.todo) <= 1 /\ \A i \in DOMAIN j.todo : j.todo[i] \in Simpler(m.form)
    BY <2>1, <2>3, <1>2 DEF SessionJob, Simpler
  <2> QED BY <1>2, <1>3, <1>7, <1>8, <1>9, <2>2, <2>3, <2>4, BeginsKeeps
<1>11. CASE ~ToReplace(m)
  <2>1. UNCHANGED <<session, crossed>> BY <1>3, <1>11 DEF ResendFailed
  <2>2. DOMAIN leftMsgs' = DOMAIN leftMsgs BY <1>2, <1>8
  <2>3. DeliveryKinds' BY <1>1, <1>7, <1>8, <1>9, <2>1, <2>2 DEF DeliveryKinds
  <2>4. \A i \in DOMAIN leftMsgs : leftMsgs[i].from # 0 => leftMsgs[i].from \in DOMAIN leftMsgs
    <3> TAKE i \in DOMAIN leftMsgs
    <3>1. leftMsgs[i] \in LeftMsg BY <1>2
    <3>2. leftMsgs[i].from \in Nat BY <3>1 DEF LeftMsg
    <3>3. leftMsgs[i].from < i BY <1>1 DEF DeliveryKinds
    <3> QED BY <3>2, <3>3, <1>2
  <2>5. SimplerIsSent'
    <3>1. \A o \in Sessions : session[o].for # 0 => session[o].for \in DOMAIN leftMsgs BY <1>1, <1>2 DEF DeliveryKinds
    <3> QED BY <1>1, <1>9, <2>1, <2>2, <2>4, <3>1 DEF SimplerIsSent
  <2>6. FailureHeard'
    <3>1. n.known => n.noted BY <1>1, <1>3, <1>6 DEF FailureHeard
    <3>2. \A i \in DOMAIN leftMsgs' : leftMsgs'[i].known => leftMsgs'[i].noted BY <1>9, <2>2
    <3>3. ASSUME sessionDeaths' = 0, NEW i \in DOMAIN leftMsgs', leftMsgs'[i].failed, leftMsgs'[i].known,
                 Degraded(leftMsgs'[i].form) # NoForm, ~leftMsgs'[i].resent
          PROVE  \E o \in Sessions : session'[o].for = i
      <4>1. CASE i = k BY <4>1, <3>1, <3>3, <1>6, <1>8, <1>11 DEF ToReplace
      <4>2. CASE i # k BY <4>2, <3>3, <1>1, <1>7, <1>9, <2>1, <2>2 DEF FailureHeard
      <4> QED BY <4>1, <4>2
    <3> QED BY <3>2, <3>3 DEF FailureHeard
  <2>7. ASSUME ~crossed' PROVE OneAtATime'
    <3>1. OneAtATime BY <2>1, <2>7 DEF DeliveryInv
    <3>2. \A o \in Sessions : session[o].for # 0 => session[o].for \in DOMAIN leftMsgs BY <1>1, <1>2 DEF DeliveryKinds
    <3>3. ASSUME NEW i \in DOMAIN leftMsgs PROVE Counted(i)'
      <4>1. Replacements(i)' = Replacements(i) BY <1>9, <2>2 DEF Replacements
      <4>2. Counted(i) /\ leftMsgs'[i].resent = leftMsgs[i].resent BY <3>1, <1>9 DEF OneAtATime
      <4>3. Awaiting(i)' = Awaiting(i) BY <2>1 DEF Awaiting
      <4> QED BY <4>1, <4>2, <4>3, <1>7 DEF Counted
    <3> QED BY <3>1, <3>2, <3>3, <1>9, <2>1, <2>2 DEF OneAtATime
  <2> QED BY <2>3, <2>5, <2>6, <2>7 DEF DeliveryInv
<1> QED BY <1>10, <1>11

\* A session leaves its work, or goes on with the same messages sent.
LEMMA RefusedKeeps ==
    ASSUME DeliveryInv, NEW s \in Sessions, NEW j \in SessionJob, session' = [session EXCEPT ![s] = j],
           session[s].at = "send", session[s].todo # <<>>, j.at = "send", j.mine = session[s].mine, j.for = session[s].for,
           j.for # 0 => Len(j.todo) <= 1 /\ \A i \in DOMAIN j.todo : j.todo[i] \in Simpler(leftMsgs[j.for].form),
           UNCHANGED <<leftMsgs, sessionDeaths, crossed>>
    PROVE  DeliveryInv'
<1>1. DeliveryKinds /\ SimplerIsSent /\ FailureHeard BY DEF DeliveryInv
<1>2. session' \in [Sessions -> SessionJob] /\ session'[s] = j /\ \A o \in Sessions : o # s => session'[o] = session[o]
  BY <1>1, OneSessionMoves DEF DeliveryKinds
<1>3. \A o \in Sessions : session'[o].for = session[o].for /\ session'[o].mine = session[o].mine BY <1>2
<1>4. DeliveryKinds' BY <1>1, <1>2, <1>3 DEF DeliveryKinds
<1>5. SimplerIsSent' BY <1>1, <1>2 DEF SimplerIsSent
<1>6. FailureHeard' BY <1>1, <1>3 DEF FailureHeard
<1>7. ASSUME ~crossed' PROVE OneAtATime'
  <2>1. OneAtATime BY <1>7 DEF DeliveryInv
  <2>2. \A o, p \in Sessions : session'[o].at # "rest" /\ session'[p].at # "rest" => o = p BY <2>1, <1>2 DEF OneAtATime
  <2>3. \A k \in DOMAIN leftMsgs : Counted(k)'
    <3> TAKE k \in DOMAIN leftMsgs
    <3>1. Awaiting(k)' = Awaiting(k) BY <1>3 DEF Awaiting
    <3>2. Replacements(k)' = Replacements(k) BY DEF Replacements
    <3>3. Counted(k) BY <2>1 DEF OneAtATime
    <3> QED BY <3>1, <3>2, <3>3 DEF Counted
  <2>4. \A o \in Sessions : session'[o].for # 0 =>
          ~leftMsgs'[session'[o].for].resent /\ (session'[o].todo # <<>> => session'[o].mine = {})
    BY <2>1, <1>2 DEF OneAtATime
  <2> QED BY <2>2, <2>3, <2>4 DEF OneAtATime
<1> QED BY <1>4, <1>5, <1>6, <1>7 DEF DeliveryInv

\* WhatsApp takes the screen.
LEMMA TakenKeeps ==
    ASSUME DeliveryInv, NEW s \in Sessions, NEW j \in SessionJob, session' = [session EXCEPT ![s] = j],
           session[s].at = "send", session[s].todo # <<>>, j.at = "send", j.mine = session[s].mine \cup {Len(leftMsgs) + 1},
           j.for = session[s].for, j.for # 0 => j.todo = <<>>,
           NEW m \in LeftMsg, leftMsgs' = Append(leftMsgs, m), m.from = j.for, m.form = session[s].todo[1], ~m.known, ~m.resent,
           UNCHANGED <<sessionDeaths, crossed>>
    PROVE  DeliveryInv'
<1>1. DeliveryKinds /\ SimplerIsSent /\ FailureHeard BY DEF DeliveryInv
<1>2. session' \in [Sessions -> SessionJob] /\ session'[s] = j /\ \A o \in Sessions : o # s => session'[o] = session[o]
  BY <1>1, OneSessionMoves DEF DeliveryKinds
<1>3. \A o \in Sessions : session'[o].for = session[o].for BY <1>2
<1>4. leftMsgs \in Seq(LeftMsg) /\ Len(leftMsgs) \in Nat /\ DOMAIN leftMsgs = 1..Len(leftMsgs) BY <1>1 DEF DeliveryKinds
<1>5. PICK n \in Nat : n = Len(leftMsgs) + 1 BY <1>4
<1>6. /\ leftMsgs' \in Seq(LeftMsg) /\ Len(leftMsgs') = n /\ DOMAIN leftMsgs' = DOMAIN leftMsgs \cup {n} /\ n \notin DOMAIN leftMsgs
      /\ leftMsgs'[n] = m /\ \A k \in DOMAIN leftMsgs : leftMsgs'[k] = leftMsgs[k]
  <2>1. PICK t : t = Append(leftMsgs, m) OBVIOUS
  <2>2. t \in Seq(LeftMsg) /\ Len(t) = Len(leftMsgs) + 1 /\ t[Len(leftMsgs) + 1] = m /\ \A k \in 1..Len(leftMsgs) : t[k] = leftMsgs[k]
    BY <1>4, <2>1
  <2>3. DOMAIN t = 1..(Len(leftMsgs) + 1) BY <2>2
  <2>4. leftMsgs' = t BY <2>1
  <2> QED BY <1>4, <1>5, <2>2, <2>3, <2>4
<1>7. \A o \in Sessions : session[o].for \in 0..Len(leftMsgs) /\ session[o].mine \subseteq DOMAIN leftMsgs BY <1>1 DEF DeliveryKinds
<1>8. DeliveryKinds'
  <2>1. \A k \in DOMAIN leftMsgs' : leftMsgs'[k].from < k
    <3>1. m.from \in 0..Len(leftMsgs) BY <1>7
    <3>2. m.from < n BY <3>1, <1>4, <1>5
    <3> QED BY <3>2, <1>1, <1>6 DEF DeliveryKinds
  <2>2. \A o \in Sessions : session'[o].mine \subseteq DOMAIN leftMsgs'
    BY <1>2, <1>5, <1>6, <1>7
  <2>3. \A o \in Sessions : session'[o].for \in 0..n BY <1>3, <1>4, <1>5, <1>7
  <2>4. \A o \in Sessions : session'[o].at = "rest" => session'[o] = AtRest BY <1>1, <1>2 DEF DeliveryKinds
  <2> QED BY <1>1, <1>2, <1>6, <2>1, <2>2, <2>3, <2>4 DEF DeliveryKinds
<1>9. \A k \in DOMAIN leftMsgs : leftMsgs[k].from # 0 => leftMsgs[k].from \in DOMAIN leftMsgs
  <2> TAKE k \in DOMAIN leftMsgs
  <2>1. leftMsgs[k] \in LeftMsg BY <1>4
  <2>2. leftMsgs[k].from \in Nat BY <2>1 DEF LeftMsg
  <2>3. leftMsgs[k].from < k BY <1>1 DEF DeliveryKinds
  <2> QED BY <2>2, <2>3, <1>4
<1>10. \A o \in Sessions : session[o].for # 0 => session[o].for \in DOMAIN leftMsgs BY <1>4, <1>7
<1>11. SimplerIsSent'
  <2>1. ASSUME NEW k \in DOMAIN leftMsgs', leftMsgs'[k].from # 0
        PROVE  leftMsgs'[k].form \in Simpler(leftMsgs'[leftMsgs'[k].from].form)
    <3>1. CASE k \in DOMAIN leftMsgs BY <3>1, <2>1, <1>1, <1>6, <1>9 DEF SimplerIsSent
    <3>2. CASE k = n
      <4>1. session[s].for # 0 /\ leftMsgs'[k] = m BY <3>2, <2>1, <1>6
      <4>2. Len(session[s].todo) <= 1 /\ \A i \in DOMAIN session[s].todo : session[s].todo[i] \in Simpler(leftMsgs[session[s].for].form)
        BY <4>1, <1>1 DEF SimplerIsSent
      <4>3. session[s] \in SessionJob BY <1>1 DEF DeliveryKinds
      <4>4. session[s].todo \in Seq(Forms) BY <4>3 DEF SessionJob
      <4>5. 1 \in DOMAIN session[s].todo BY <4>4
      <4> QED BY <4>1, <4>2, <4>5, <1>6, <1>10
    <3> QED BY <3>1, <3>2, <1>6
  <2>2. ASSUME NEW o \in Sessions, session'[o].for # 0
        PROVE  Len(session'[o].todo) <= 1 /\ \A i \in DOMAIN session'[o].todo : session'[o].todo[i] \in Simpler(leftMsgs'[session'[o].for].form)
    <3>1. CASE o = s
      <4>1. session'[o].todo = <<>> BY <3>1, <1>2, <2>2
      <4> QED BY <4>1
    <3>2. CASE o # s BY <3>2, <2>2, <1>1, <1>2, <1>6, <1>10 DEF SimplerIsSent
    <3> QED BY <3>1, <3>2
  <2> QED BY <2>1, <2>2 DEF SimplerIsSent
<1>12. FailureHeard'
  <2>1. \A k \in DOMAIN leftMsgs' : leftMsgs'[k].known => leftMsgs'[k].noted BY <1>1, <1>6 DEF FailureHeard
  <2>2. ASSUME sessionDeaths' = 0, NEW k \in DOMAIN leftMsgs', leftMsgs'[k].failed, leftMsgs'[k].known,
               Degraded(leftMsgs'[k].form) # NoForm, ~leftMsgs'[k].resent
        PROVE  \E o \in Sessions : session'[o].for = k
    <3>1. k \in DOMAIN leftMsgs BY <2>2, <1>6
    <3> QED BY <3>1, <2>2, <1>1, <1>3, <1>6 DEF FailureHeard
  <2> QED BY <2>1, <2>2 DEF FailureHeard
<1>13. ASSUME ~crossed' PROVE OneAtATime'
  <2>1. OneAtATime BY <1>13 DEF DeliveryInv
  <2>2. \A o, p \in Sessions : session'[o].at # "rest" /\ session'[p].at # "rest" => o = p BY <2>1, <1>2 DEF OneAtATime
  <2>3. ASSUME NEW o \in Sessions, session'[o].for # 0
        PROVE  ~leftMsgs'[session'[o].for].resent /\ (session'[o].todo # <<>> => session'[o].mine = {})
    <3>1. CASE o = s BY <3>1, <2>1, <2>3, <1>2, <1>6, <1>10 DEF OneAtATime
    <3>2. CASE o # s BY <3>2, <2>1, <2>3, <1>2, <1>6, <1>10 DEF OneAtATime
    <3> QED BY <3>1, <3>2
  <2>4. ASSUME NEW k \in DOMAIN leftMsgs' PROVE Counted(k)'
    <3>0. k \in Nat /\ sessionDeaths \in Nat BY <1>1, <1>4, <1>5, <1>6 DEF DeliveryKinds
    <3>3. /\ Cardinality(Replacements(k)) \in Nat
          /\ m.from # k => Replacements(k)' = Replacements(k)
          /\ m.from = k => Cardinality(Replacements(k)') = Cardinality(Replacements(k)) + 1
      BY <3>0, <1>4, ReplacementsCount, OneReplacementMore
    <3>4. CASE k = n
      <4>1. Replacements(k) = {} BY <3>4, <1>1, <1>4, <1>5 DEF Replacements, DeliveryKinds
      <4>2. m.from # k BY <3>4, <1>4, <1>5, <1>7
      <4>3. Cardinality(Replacements(k)') = 0 BY <3>3, <4>1, <4>2, FS_EmptySet
      <4> QED BY <4>3, <3>0 DEF Counted
    <3>5. CASE k \in DOMAIN leftMsgs /\ m.from = k
      <4>1. session[s].for = k /\ k # 0 BY <3>5, <1>4
      <4>2. session[s].mine = {} BY <4>1, <2>1 DEF OneAtATime
      <4>3. \A o \in Sessions : o # s => session[o] = AtRest BY <2>1, <1>1 DEF OneAtATime, DeliveryKinds
      <4>4. ~Awaiting(k) BY <4>2, <4>3 DEF Awaiting, AtRest
      <4>5. Awaiting(k)' BY <4>1, <1>2 DEF Awaiting
      <4>6. leftMsgs'[k].resent = leftMsgs[k].resent /\ Counted(k) BY <3>5, <2>1, <1>6 DEF OneAtATime
      <4>7. sessionDeaths' = sessionDeaths OBVIOUS
      <4> QED BY <3>0, <3>3, <3>5, <4>4, <4>5, <4>6, <4>7 DEF Counted
    <3>6. CASE k \in DOMAIN leftMsgs /\ m.from # k
      <4>1. session[s].for # k BY <3>6
      <4>2. Awaiting(k)' = Awaiting(k) BY <4>1, <1>2, <1>3 DEF Awaiting
      <4>3. leftMsgs'[k].resent = leftMsgs[k].resent /\ Counted(k) BY <3>6, <2>1, <1>6 DEF OneAtATime
      <4>4. Replacements(k)' = Replacements(k) /\ sessionDeaths' = sessionDeaths BY <3>3, <3>6
      <4> QED BY <4>2, <4>3, <4>4 DEF Counted
    <3> QED BY <3>4, <3>5, <3>6, <1>6
  <2> QED BY <2>2, <2>3, <2>4 DEF OneAtATime
<1> QED BY <1>8, <1>11, <1>12, <1>13 DEF DeliveryInv

LEMMA SendGuidedKeeps == ASSUME DeliveryInv, NEW s \in Sessions, SendGuided(s) PROVE DeliveryInv'
<1>1. DeliveryKinds /\ SimplerIsSent BY DEF DeliveryInv
<1>2. PICK o : o = session[s] OBVIOUS
<1>3. o \in SessionJob /\ leftMsgs \in Seq(LeftMsg) /\ Len(leftMsgs) + 1 \in Nat BY <1>1, <1>2 DEF DeliveryKinds
<1>4. o.at = "send" /\ o.todo # <<>> /\ o.todo \in Seq(Forms) /\ o.for \in Nat /\ o.mine \subseteq Nat
  BY <1>2, <1>3 DEF SendGuided, SessionJob
<1>5. PICK form : form = o.todo[1] OBVIOUS
<1>6. form \in Forms /\ Head(o.todo) = form /\ Tail(o.todo) \in Seq(Forms) /\ Len(Tail(o.todo)) = Len(o.todo) - 1 /\ Len(o.todo) \in Nat
      /\ 1 \in DOMAIN o.todo
  BY <1>4, <1>5
<1>7. o.for # 0 => Len(o.todo) <= 1 /\ form \in Simpler(leftMsgs[o.for].form) BY <1>1, <1>2, <1>5, <1>6 DEF SimplerIsSent
<1>8. o.for # 0 => Tail(o.todo) = <<>> BY <1>4, <1>6, <1>7
<1>9. UNCHANGED <<sessionDeaths, crossed>> BY DEF SendGuided
<1>10. CASE /\ leftMsgs' = Append(leftMsgs, [form |-> Head(o.todo), from |-> o.for, noted |-> FALSE, resent |-> FALSE,
                                            failed |-> FALSE, known |-> FALSE])
            /\ session' = [session EXCEPT ![s].todo = Tail(o.todo), ![s].mine = o.mine \cup {Len(leftMsgs) + 1}]
  <2>1. PICK m : m = [form |-> form, from |-> o.for, noted |-> FALSE, resent |-> FALSE, failed |-> FALSE, known |-> FALSE] OBVIOUS
  <2>2. m \in LeftMsg /\ m.from = o.for /\ m.form = o.todo[1] /\ ~m.known /\ ~m.resent BY <2>1, <1>4, <1>5, <1>6 DEF LeftMsg
  <2>3. PICK j : j = [o EXCEPT !.todo = Tail(o.todo), !.mine = o.mine \cup {Len(leftMsgs) + 1}] OBVIOUS
  <2>4. o.mine \cup {Len(leftMsgs) + 1} \in SUBSET Nat BY <1>3, <1>4
  <2>5. /\ j \in SessionJob /\ j.at = "send" /\ j.for = o.for /\ j.mine = o.mine \cup {Len(leftMsgs) + 1}
        /\ j.todo = Tail(o.todo)
    BY <2>3, <2>4, <1>3, <1>4, <1>6 DEF SessionJob
  <2>6. session' = [session EXCEPT ![s] = j] BY <1>2, <1>10, <2>3
  <2>7. leftMsgs' = Append(leftMsgs, m) BY <1>6, <1>10, <2>1
  <2> QED BY <1>2, <1>4, <1>8, <1>9, <2>2, <2>5, <2>6, <2>7, TakenKeeps
<1>11. CASE /\ session' = [session EXCEPT ![s].todo = (IF Degraded(form) = NoForm THEN <<>> ELSE <<Degraded(form)>>) \o Tail(o.todo)]
            /\ UNCHANGED leftMsgs
  <2>1. PICK head : head = IF Degraded(form) = NoForm THEN <<>> ELSE <<Degraded(form)>> OBVIOUS
  <2>2. head \in Seq(Forms) /\ Len(head) <= 1 /\ (Len(head) = 1 => head[1] = Degraded(form) /\ Degraded(form) # NoForm)
    <3>1. CASE Degraded(form) = NoForm BY <3>1, <2>1
    <3>2. CASE Degraded(form) # NoForm
      <4>1. Degraded(form) \in Forms BY <3>2, <1>6, DegradedIs
      <4> QED BY <4>1, <3>2, <2>1
    <3> QED BY <3>1, <3>2
  <2>3. PICK todo : todo = head \o Tail(o.todo) OBVIOUS
  <2>4. todo \in Seq(Forms) BY <2>2, <2>3, <1>6
  <2>5. PICK j : j = [o EXCEPT !.todo = todo] OBVIOUS
  <2>6. j \in SessionJob /\ j.at = "send" /\ j.for = o.for /\ j.mine = o.mine /\ j.todo = todo
    BY <2>4, <2>5, <1>3, <1>4 DEF SessionJob
  <2>7. session' = [session EXCEPT ![s] = j] BY <1>2, <1>11, <2>1, <2>3, <2>5
  <2>8. ASSUME j.for # 0 PROVE Len(j.todo) <= 1 /\ \A i \in DOMAIN j.todo : j.todo[i] \in Simpler(leftMsgs[j.for].form)
    <3>1. Tail(o.todo) = <<>> /\ form \in Simpler(leftMsgs[o.for].form) BY <2>6, <2>8, <1>7, <1>8
    <3>2. todo = head
      <4>1. todo = head \o <<>> BY <3>1, <2>3
      <4> QED BY <4>1, <2>2, ConcatEmptySeq
    <3>3. j.for \in DOMAIN leftMsgs BY <1>1, <1>2, <1>3, <2>6, <2>8 DEF DeliveryKinds
    <3>4. leftMsgs[o.for] \in LeftMsg BY <3>3, <2>6, <1>3
    <3>5. leftMsgs[o.for].form \in Forms BY <3>4 DEF LeftMsg
    <3>6. Len(head) = 1 => Degraded(form) = "text"
      <4>1. PICK f \in Forms : f = leftMsgs[o.for].form BY <3>5
      <4>2. CASE form = "text" BY <4>2, <2>2, DegradedIs
      <4>3. CASE form = Degraded(f) BY <4>3, <1>6, <2>2, DegradedIs
      <4> QED BY <3>1, <4>1, <4>2, <4>3 DEF Simpler
    <3>7. Len(head) = 1 => head[1] \in Simpler(leftMsgs[j.for].form) BY <3>6, <2>2, <2>6 DEF Simpler
    <3>8. \A i \in DOMAIN head : i = 1 /\ Len(head) = 1
      <4>1. DOMAIN head = 1..Len(head) /\ Len(head) \in Nat BY <2>2
      <4> QED BY <4>1, <2>2
    <3> QED BY <3>2, <3>7, <3>8, <2>2, <2>6
  <2> QED BY <1>2, <1>4, <1>9, <1>11, <2>6, <2>7, <2>8, RefusedKeeps
<1> QED BY <1>2, <1>5, <1>6, <1>10, <1>11 DEF SendGuided

\* A session is done, or dies.
LEMMA LeavesWork ==
    ASSUME DeliveryInv, NEW s \in Sessions, session[s].at = "send", session' = [session EXCEPT ![s] = AtRest], crossed' = crossed,
           leftMsgs' \in Seq(LeftMsg), Len(leftMsgs') = Len(leftMsgs),
           \A k \in DOMAIN leftMsgs : /\ leftMsgs'[k].from = leftMsgs[k].from /\ leftMsgs'[k].form = leftMsgs[k].form
                                      /\ leftMsgs'[k].failed = leftMsgs[k].failed /\ leftMsgs'[k].known = leftMsgs[k].known
                                      /\ leftMsgs[k].noted => leftMsgs'[k].noted,
           \/ /\ sessionDeaths' = sessionDeaths
              /\ \A k \in DOMAIN leftMsgs : leftMsgs'[k].resent = (leftMsgs[k].resent \/ k = session[s].for)
           \/ /\ sessionDeaths' = sessionDeaths + 1
              /\ \A k \in DOMAIN leftMsgs : leftMsgs'[k].resent = leftMsgs[k].resent
    PROVE  DeliveryInv'
<1>1. DeliveryKinds /\ SimplerIsSent /\ FailureHeard BY DEF DeliveryInv
<1>2. AtRest \in SessionJob /\ AtRest.at = "rest" /\ AtRest.for = 0 /\ AtRest.mine = {} /\ AtRest.todo = <<>> BY DEF AtRest, SessionJob
<1>3. session' \in [Sessions -> SessionJob] /\ session'[s] = AtRest /\ \A o \in Sessions : o # s => session'[o] = session[o]
  BY <1>1, <1>2, OneSessionMoves DEF DeliveryKinds
<1>4. leftMsgs \in Seq(LeftMsg) /\ sessionDeaths \in Nat BY <1>1 DEF DeliveryKinds
<1>5. DOMAIN leftMsgs' = DOMAIN leftMsgs /\ DOMAIN leftMsgs = 1..Len(leftMsgs) /\ Len(leftMsgs) \in Nat BY <1>4
<1>6. DeliveryKinds'
  <2>1. sessionDeaths' \in Nat BY <1>4
  <2>2. \A k \in DOMAIN leftMsgs' : leftMsgs'[k].from < k BY <1>1, <1>5 DEF DeliveryKinds
  <2>3. \A o \in Sessions : session'[o].mine \subseteq DOMAIN leftMsgs' /\ session'[o].for \in 0..Len(leftMsgs')
    BY <1>1, <1>2, <1>3, <1>5 DEF DeliveryKinds
  <2>4. \A o \in Sessions : session'[o].at = "rest" => session'[o] = AtRest BY <1>1, <1>3 DEF DeliveryKinds
  <2> QED BY <1>1, <1>3, <2>1, <2>2, <2>3, <2>4 DEF DeliveryKinds
<1>7. \A k \in DOMAIN leftMsgs : leftMsgs[k].from # 0 => leftMsgs[k].from \in DOMAIN leftMsgs
  <2> TAKE k \in DOMAIN leftMsgs
  <2>1. leftMsgs[k] \in LeftMsg BY <1>4
  <2>2. leftMsgs[k].from \in Nat BY <2>1 DEF LeftMsg
  <2>3. leftMsgs[k].from < k BY <1>1 DEF DeliveryKinds
  <2> QED BY <2>2, <2>3, <1>5
<1>8. \A o \in Sessions : session[o].for # 0 => session[o].for \in DOMAIN leftMsgs BY <1>1, <1>5 DEF DeliveryKinds
<1>9. SimplerIsSent'
  <2>1. \A k \in DOMAIN leftMsgs' : leftMsgs'[k].from # 0 => leftMsgs'[k].form \in Simpler(leftMsgs'[leftMsgs'[k].from].form)
    BY <1>1, <1>5, <1>7 DEF SimplerIsSent
  <2>2. \A o \in Sessions : session'[o].for # 0 =>
          Len(session'[o].todo) <= 1 /\ \A i \in DOMAIN session'[o].todo : session'[o].todo[i] \in Simpler(leftMsgs'[session'[o].for].form)
    BY <1>1, <1>2, <1>3, <1>8 DEF SimplerIsSent
  <2> QED BY <2>1, <2>2 DEF SimplerIsSent
<1>10. FailureHeard'
  <2>1. \A k \in DOMAIN leftMsgs' : leftMsgs'[k].known => leftMsgs'[k].noted BY <1>1, <1>5 DEF FailureHeard
  <2>2. ASSUME sessionDeaths' = 0, NEW k \in DOMAIN leftMsgs', leftMsgs'[k].failed, leftMsgs'[k].known,
               Degraded(leftMsgs'[k].form) # NoForm, ~leftMsgs'[k].resent
        PROVE  \E o \in Sessions : session'[o].for = k
    <3>1. sessionDeaths = 0 /\ leftMsgs'[k].resent = (leftMsgs[k].resent \/ k = session[s].for) BY <2>2, <1>4, <1>5
    <3>2. ~leftMsgs[k].resent /\ k # session[s].for /\ k \in DOMAIN leftMsgs BY <3>1, <2>2, <1>5
    <3>3. PICK o \in Sessions : session[o].for = k BY <3>1, <3>2, <2>2, <1>1 DEF FailureHeard
    <3> QED BY <3>2, <3>3, <1>3
  <2> QED BY <2>1, <2>2 DEF FailureHeard
<1>11. ASSUME ~crossed' PROVE OneAtATime'
  <2>1. OneAtATime BY <1>11 DEF DeliveryInv
  <2>2. \A o \in Sessions : session'[o] = AtRest BY <2>1, <1>1, <1>3 DEF OneAtATime, DeliveryKinds
  <2>3. \A o \in Sessions : session'[o].at = "rest" /\ session'[o].for = 0 BY <2>2, <1>2
  <2>4. ASSUME NEW k \in DOMAIN leftMsgs' PROVE Counted(k)'
    <3>1. k \in DOMAIN leftMsgs /\ k \in Nat /\ k # 0 BY <1>5
    <3>2. Replacements(k)' = Replacements(k) /\ Cardinality(Replacements(k)) \in Nat
      <4>1. Replacements(k)' = Replacements(k) BY <1>5 DEF Replacements
      <4> QED BY <4>1, <3>1, <1>4, ReplacementsCount
    <3>3. ~Awaiting(k)' BY <2>3, <3>1 DEF Awaiting
    <3>4. Awaiting(k) => session[s].for = k /\ ~leftMsgs[k].resent
      <4>1. ASSUME NEW o \in Sessions, session[o].for = k PROVE o = s
        <5>1. session[o].at # "rest" BY <4>1, <3>1, <1>1, <1>2 DEF DeliveryKinds
        <5> QED BY <5>1, <2>1 DEF OneAtATime
      <4> QED BY <4>1, <3>1, <2>1 DEF Awaiting, OneAtATime
    <3>5. Counted(k) BY <3>1, <2>1 DEF OneAtATime
    <3>6. CASE /\ sessionDeaths' = sessionDeaths
               /\ \A i \in DOMAIN leftMsgs : leftMsgs'[i].resent = (leftMsgs[i].resent \/ i = session[s].for)
      <4>1. leftMsgs'[k].resent <=> leftMsgs[k].resent \/ k = session[s].for BY <3>1, <3>6
      <4> QED BY <4>1, <3>2, <3>3, <3>4, <3>5, <3>6, <1>4 DEF Counted
    <3>7. CASE sessionDeaths' = sessionDeaths + 1 /\ \A i \in DOMAIN leftMsgs : leftMsgs'[i].resent = leftMsgs[i].resent
      <4>1. leftMsgs'[k].resent = leftMsgs[k].resent BY <3>1, <3>7
      <4> QED BY <4>1, <3>2, <3>3, <3>4, <3>5, <3>7, <1>4 DEF Counted
    <3> QED BY <3>6, <3>7
  <2> QED BY <2>3, <2>4 DEF OneAtATime
<1> QED BY <1>6, <1>9, <1>10, <1>11 DEF DeliveryInv

LEMMA CommitScreensKeeps == ASSUME DeliveryInv, NEW s \in Sessions, CommitScreens(s) PROVE DeliveryInv'
<1>1. leftMsgs \in Seq(LeftMsg) /\ Len(leftMsgs) \in Nat /\ DOMAIN leftMsgs = 1..Len(leftMsgs) BY DEF DeliveryInv, DeliveryKinds
<1>2. PICK mine, for : mine = session[s].mine /\ for = session[s].for OBVIOUS
<1>3. PICK noted : noted = [k \in DOMAIN leftMsgs |-> leftMsgs[k].noted \/ k \in mine] OBVIOUS
<1>4. PICK resent : resent = [k \in DOMAIN leftMsgs |-> leftMsgs[k].resent \/ k = for] OBVIOUS
<1>5. \A k \in DOMAIN leftMsgs : noted[k] \in BOOLEAN /\ resent[k] \in BOOLEAN BY <1>3, <1>4
<1>6. leftMsgs' = [k \in DOMAIN leftMsgs |-> [leftMsgs[k] EXCEPT !.noted = noted[k], !.resent = resent[k]]]
  BY <1>2, <1>3, <1>4 DEF CommitScreens
<1>7. ASSUME NEW k \in DOMAIN leftMsgs
      PROVE  /\ leftMsgs'[k] \in LeftMsg /\ leftMsgs'[k].from = leftMsgs[k].from /\ leftMsgs'[k].form = leftMsgs[k].form
             /\ leftMsgs'[k].failed = leftMsgs[k].failed /\ leftMsgs'[k].known = leftMsgs[k].known
             /\ leftMsgs'[k].noted = noted[k] /\ leftMsgs'[k].resent = resent[k]
  <2>1. PICK m \in LeftMsg : m = leftMsgs[k] BY <1>1
  <2>2. leftMsgs'[k] = [m EXCEPT !.noted = noted[k], !.resent = resent[k]] BY <1>6, <2>1
  <2> QED BY <1>5, <2>1, <2>2 DEF LeftMsg
<1>8. leftMsgs' \in Seq(LeftMsg) /\ Len(leftMsgs') = Len(leftMsgs)
  <2>1. DOMAIN leftMsgs' = 1..Len(leftMsgs) BY <1>1, <1>6
  <2>2. leftMsgs' = [k \in 1..Len(leftMsgs) |-> leftMsgs'[k]] BY <1>1, <1>6
  <2>3. leftMsgs' \in [1..Len(leftMsgs) -> LeftMsg] BY <2>2, <1>1, <1>7
  <2> QED BY <1>1, <2>1, <2>3
<1>9. /\ \A k \in DOMAIN leftMsgs : leftMsgs[k].noted => leftMsgs'[k].noted
      /\ \A k \in DOMAIN leftMsgs : leftMsgs'[k].resent = (leftMsgs[k].resent \/ k = session[s].for)
  BY <1>2, <1>3, <1>4, <1>7
<1>10. session[s].at = "send" /\ session' = [session EXCEPT ![s] = AtRest] /\ UNCHANGED <<sessionDeaths, crossed>> BY DEF CommitScreens
<1> QED BY <1>7, <1>8, <1>9, <1>10, LeavesWork

LEMMA SessionDiesKeeps == ASSUME DeliveryInv, NEW s \in Sessions, SessionDies(s) PROVE DeliveryInv'
<1>1. leftMsgs \in Seq(LeftMsg) /\ session[s] \in SessionJob BY DEF DeliveryInv, DeliveryKinds
<1>2. session[s].at = "send" BY <1>1 DEF SessionDies, SessionJob
<1>3. /\ session' = [session EXCEPT ![s] = AtRest] /\ sessionDeaths' = sessionDeaths + 1 /\ leftMsgs' = leftMsgs /\ crossed' = crossed
  BY DEF SessionDies
<1> QED BY <1>1, <1>2, <1>3, LeavesWork

LEMMA DeliveryStarts == DeliveryInit => DeliveryInv
<1> SUFFICES ASSUME DeliveryInit PROVE DeliveryInv OBVIOUS
<1>1. leftMsgs = <<>> /\ session = [s \in Sessions |-> AtRest] /\ sessionDeaths = 0 /\ crossed = FALSE BY DEF DeliveryInit
<1>2. leftMsgs \in Seq(LeftMsg) /\ Len(leftMsgs) = 0 /\ DOMAIN leftMsgs = {} BY <1>1
<1>3. AtRest \in SessionJob /\ AtRest.at = "rest" /\ AtRest.for = 0 /\ AtRest.mine = {} BY DEF AtRest, SessionJob
<1>4. \A s \in Sessions : session[s] = AtRest BY <1>1
<1>5. DeliveryKinds
  <2>1. session \in [Sessions -> SessionJob] BY <1>1, <1>3
  <2>2. \A s \in Sessions : session[s].mine \subseteq DOMAIN leftMsgs /\ session[s].for \in 0..Len(leftMsgs) BY <1>2, <1>3, <1>4
  <2> QED BY <1>1, <1>2, <1>4, <2>1, <2>2 DEF DeliveryKinds
<1>6. SimplerIsSent /\ FailureHeard BY <1>2, <1>3, <1>4 DEF SimplerIsSent, FailureHeard
<1>7. OneAtATime BY <1>2, <1>3, <1>4 DEF OneAtATime
<1> QED BY <1>5, <1>6, <1>7 DEF DeliveryInv

LEMMA DeliveryInductive == DeliveryInv /\ [DeliveryNext]_deliveryVars => DeliveryInv'
<1> SUFFICES ASSUME DeliveryInv, [DeliveryNext]_deliveryVars PROVE DeliveryInv' OBVIOUS
<1>1. CASE \E s \in Sessions : AnswerTurn(s) \/ SendGuided(s) \/ CommitScreens(s) \/ SessionDies(s)
  BY <1>1, AnswerTurnKeeps, SendGuidedKeeps, CommitScreensKeeps, SessionDiesKeeps
<1>2. CASE \E s \in Sessions, k \in DOMAIN leftMsgs : ResendFailed(s, k) BY <1>2, ResendFailedKeeps
<1>3. CASE UNCHANGED deliveryVars
  <2> USE <1>3 DEF deliveryVars
  <2>1. DeliveryKinds' BY DEF DeliveryInv, DeliveryKinds
  <2>2. SimplerIsSent' BY DEF DeliveryInv, SimplerIsSent
  <2>3. FailureHeard' BY DEF DeliveryInv, FailureHeard
  <2>4. \A k : Counted(k)' <=> Counted(k) BY DEF Counted, Awaiting, Replacements
  <2>5. OneAtATime' <=> OneAtATime BY <2>4 DEF OneAtATime
  <2>6. crossed' = crossed OBVIOUS
  <2> QED BY <2>1, <2>2, <2>3, <2>5, <2>6 DEF DeliveryInv
<1> QED BY <1>1, <1>2, <1>3 DEF DeliveryNext

LEMMA DeliveryInvHolds == DeliverySpec => []DeliveryInv
BY DeliveryStarts, DeliveryInductive, PTL DEF DeliverySpec

LEMMA DeliveryTyped == DeliveryInv => DeliveryTypeOK
<1> SUFFICES ASSUME DeliveryInv PROVE DeliveryTypeOK OBVIOUS
<1>1. DeliveryKinds BY DEF DeliveryInv
<1>2. \A k \in DOMAIN leftMsgs : leftMsgs[k].form \in Forms /\ leftMsgs[k].from \in 0..(k - 1)
  <2> TAKE k \in DOMAIN leftMsgs
  <2>1. leftMsgs[k] \in LeftMsg /\ k \in Nat /\ leftMsgs[k].from < k BY <1>1 DEF DeliveryKinds
  <2>2. leftMsgs[k].form \in Forms /\ leftMsgs[k].from \in Nat BY <2>1 DEF LeftMsg
  <2> QED BY <2>1, <2>2
<1>3. \A s \in Sessions : session[s].at \in {"rest", "send"} /\ session[s].mine \subseteq DOMAIN leftMsgs
  <2> TAKE s \in Sessions
  <2>1. session[s] \in SessionJob BY <1>1 DEF DeliveryKinds
  <2> QED BY <1>1, <2>1 DEF DeliveryKinds, SessionJob
<1> QED BY <1>2, <1>3 DEF DeliveryTypeOK

LEMMA OnceReplaced == DeliveryInv => ReplacedOnce
<1> SUFFICES ASSUME DeliveryInv, ~crossed, NEW k \in DOMAIN leftMsgs PROVE Cardinality(Replacements(k)) <= 1 + sessionDeaths
  BY DEF ReplacedOnce
<1>1. DeliveryKinds /\ OneAtATime BY DEF DeliveryInv
<1>2. k \in Nat /\ k # 0 /\ sessionDeaths \in Nat BY <1>1 DEF DeliveryKinds
<1>3. Cardinality(Replacements(k)) \in Nat BY <1>1, <1>2, ReplacementsCount DEF DeliveryKinds
<1>4. Counted(k) BY <1>1 DEF OneAtATime
<1>5. Awaiting(k) => ~leftMsgs[k].resent BY <1>1, <1>2 DEF Awaiting, OneAtATime
<1> QED BY <1>2, <1>3, <1>4, <1>5 DEF Counted

LEMMA NoneLeftUnread == DeliveryInv => NotLeftUnread
<1> SUFFICES ASSUME DeliveryInv PROVE NotLeftUnread OBVIOUS
<1>1. DeliveryKinds /\ SimplerIsSent /\ FailureHeard BY DEF DeliveryInv
<1>2. \A k \in DOMAIN leftMsgs : \A j \in Replacements(k) : leftMsgs[j].form \in {Degraded(leftMsgs[k].form), "text"}
  <2> SUFFICES ASSUME NEW k \in DOMAIN leftMsgs, NEW j \in DOMAIN leftMsgs, leftMsgs[j].from = k
               PROVE  leftMsgs[j].form \in {Degraded(leftMsgs[k].form), "text"}
    BY DEF Replacements
  <2>1. k # 0 BY <1>1 DEF DeliveryKinds
  <2> QED BY <1>1, <2>1 DEF SimplerIsSent, Simpler
<1> QED BY <1>1, <1>2 DEF FailureHeard, NotLeftUnread

-----------------------------------------------------------------------------
(* The elements of a finite set, counted in an order.                      *)

Ahead(K, R, i) == {j \in K : <<j, i>> \in R}

IsLine(K, R) ==
    /\ \A i \in K : <<i, i>> \notin R
    /\ \A i, j \in K : i # j => <<i, j>> \in R \/ <<j, i>> \in R
    /\ \A i, j, k \in K : <<i, j>> \in R /\ <<j, k>> \in R => <<i, k>> \in R

LEMMA RanksAreAll ==
    ASSUME NEW K, IsFiniteSet(K), NEW R, IsLine(K, R)
    PROVE  /\ Cardinality(K) \in Nat
           /\ \A i \in K : Cardinality(Ahead(K, R, i)) \in 0..(Cardinality(K) - 1)
           /\ \A i, j \in K : Cardinality(Ahead(K, R, i)) = Cardinality(Ahead(K, R, j)) => i = j
           /\ \A n \in 0..(Cardinality(K) - 1) : \E i \in K : Cardinality(Ahead(K, R, i)) = n
<1>1. Cardinality(K) \in Nat BY FS_CardinalityType
<1>2. ASSUME NEW i \in K PROVE IsFiniteSet(Ahead(K, R, i)) /\ Cardinality(Ahead(K, R, i)) \in 0..(Cardinality(K) - 1)
  <2>1. Ahead(K, R, i) \subseteq K /\ i \notin Ahead(K, R, i) BY DEF Ahead, IsLine
  <2>2. IsFiniteSet(Ahead(K, R, i)) /\ Cardinality(Ahead(K, R, i)) <= Cardinality(K) /\ Cardinality(Ahead(K, R, i)) # Cardinality(K)
    BY <2>1, FS_Subset
  <2>3. Cardinality(Ahead(K, R, i)) \in Nat BY <2>2, FS_CardinalityType
  <2> QED BY <1>1, <2>2, <2>3
<1>3. ASSUME NEW i \in K, NEW j \in K, <<i, j>> \in R PROVE Cardinality(Ahead(K, R, i)) < Cardinality(Ahead(K, R, j))
  <2>1. Ahead(K, R, i) \subseteq Ahead(K, R, j) /\ i \in Ahead(K, R, j) /\ i \notin Ahead(K, R, i) BY <1>3 DEF Ahead, IsLine
  <2>2. Cardinality(Ahead(K, R, i)) <= Cardinality(Ahead(K, R, j)) /\ Cardinality(Ahead(K, R, i)) # Cardinality(Ahead(K, R, j))
    BY <2>1, <1>2, FS_Subset
  <2>3. Cardinality(Ahead(K, R, i)) \in Nat /\ Cardinality(Ahead(K, R, j)) \in Nat BY <1>2, FS_CardinalityType
  <2> QED BY <2>2, <2>3
<1>4. \A i, j \in K : Cardinality(Ahead(K, R, i)) = Cardinality(Ahead(K, R, j)) => i = j
  <2> SUFFICES ASSUME NEW i \in K, NEW j \in K, i # j PROVE Cardinality(Ahead(K, R, i)) # Cardinality(Ahead(K, R, j)) OBVIOUS
  <2>1. Cardinality(Ahead(K, R, i)) \in Nat /\ Cardinality(Ahead(K, R, j)) \in Nat BY <1>2, FS_CardinalityType
  <2>2. CASE <<i, j>> \in R
    <3>1. Cardinality(Ahead(K, R, i)) < Cardinality(Ahead(K, R, j)) BY <2>2, <1>3
    <3> QED BY <2>1, <3>1
  <2>3. CASE <<j, i>> \in R
    <3>1. Cardinality(Ahead(K, R, j)) < Cardinality(Ahead(K, R, i)) BY <2>3, <1>3
    <3> QED BY <2>1, <3>1
  <2> QED BY <2>2, <2>3 DEF IsLine
<1>5. ASSUME NEW n \in 0..(Cardinality(K) - 1), \A i \in K : Cardinality(Ahead(K, R, i)) # n PROVE FALSE
  <2> DEFINE T == (0..(Cardinality(K) - 1)) \ {n}
             rank == [i \in K |-> Cardinality(Ahead(K, R, i))]
  <2>1. IsFiniteSet(0..(Cardinality(K) - 1)) /\ Cardinality(0..(Cardinality(K) - 1)) = Cardinality(K)
    BY <1>1, <1>5, FS_Interval
  <2>2. IsFiniteSet(T) /\ Cardinality(T) < Cardinality(K)
    <3>1. PICK I : I = 0..(Cardinality(K) - 1) OBVIOUS
    <3>2. IsFiniteSet(I) /\ Cardinality(I) = Cardinality(K) /\ n \in I /\ T = I \ {n} BY <2>1, <3>1
    <3> HIDE DEF T
    <3>3. IsFiniteSet(I \ {n}) /\ Cardinality(I \ {n}) = Cardinality(I) - 1 BY <3>2, FS_RemoveElement
    <3> QED BY <3>2, <3>3, <1>1
  <2>3. rank \in [K -> T] BY <1>2, <1>5
  <2>4. \A i \in K : rank[i] = Cardinality(Ahead(K, R, i)) OBVIOUS
  <2> HIDE DEF rank, T
  <2>5. \E i, j \in K : i # j /\ rank[i] = rank[j] BY <2>2, <2>3, FS_PigeonHole
  <2> QED BY <2>4, <2>5, <1>4
<1> QED BY <1>1, <1>2, <1>4, <1>5

LEMMA RankIsReached ==
    ASSUME NEW K, IsFiniteSet(K), NEW R, IsLine(K, R), NEW n \in 0..(Cardinality(K) - 1)
    PROVE  \E i \in K : Cardinality(Ahead(K, R, i)) = n
BY RanksAreAll

LEMMA InOrderIs ==
    ASSUME NEW K \in SUBSET Nat, IsFiniteSet(K)
    PROVE  /\ InOrder(K) \in Seq(K) /\ Len(InOrder(K)) = Cardinality(K) /\ Cardinality(K) \in Nat
           /\ Elements(InOrder(K)) = K
           /\ \A n, m \in DOMAIN InOrder(K) : InOrder(K)[n] = InOrder(K)[m] => n = m
<1>1. PICK R : R = {c \in Nat \X Nat : c[1] < c[2]} OBVIOUS
<1>2. IsLine(K, R)
  <2>1. \A i, j \in K : <<i, j>> \in R <=> i < j BY <1>1
  <2>2. \A i \in K : i \in Nat OBVIOUS
  <2> QED BY <2>1, <2>2 DEF IsLine
<1>3. /\ Cardinality(K) \in Nat
      /\ \A i \in K : Cardinality(Ahead(K, R, i)) \in 0..(Cardinality(K) - 1)
      /\ \A i, j \in K : Cardinality(Ahead(K, R, i)) = Cardinality(Ahead(K, R, j)) => i = j
      /\ \A n \in 0..(Cardinality(K) - 1) : \E i \in K : Cardinality(Ahead(K, R, i)) = n
  <2>1. IsFiniteSet(K) OBVIOUS
  <2>2. Cardinality(K) \in Nat BY <2>1, FS_CardinalityType
  <2>3. \A i \in K : Cardinality(Ahead(K, R, i)) \in 0..(Cardinality(K) - 1) BY <2>1, <1>2, RanksAreAll
  <2>4. \A i, j \in K : Cardinality(Ahead(K, R, i)) = Cardinality(Ahead(K, R, j)) => i = j BY <2>1, <1>2, RanksAreAll
  <2>5. \A n \in 0..(Cardinality(K) - 1) : \E i \in K : Cardinality(Ahead(K, R, i)) = n
    <3> TAKE n \in 0..(Cardinality(K) - 1)
    <3> QED BY <2>1, <1>2, RankIsReached
  <2> QED BY <2>2, <2>3, <2>4, <2>5
<1>4. \A i \in K : {j \in K : j < i} = Ahead(K, R, i) BY <1>1 DEF Ahead
<1> DEFINE at(n) == CHOOSE i \in K : Cardinality({j \in K : j < i}) = n - 1
<1>5. ASSUME NEW n \in 1..Cardinality(K) PROVE at(n) \in K /\ Cardinality(Ahead(K, R, at(n))) = n - 1
  <2>1. n - 1 \in 0..(Cardinality(K) - 1) BY <1>3
  <2>2. \E i \in K : Cardinality({j \in K : j < i}) = n - 1 BY <2>1, <1>3, <1>4
  <2>3. at(n) \in K /\ Cardinality({j \in K : j < at(n)}) = n - 1 BY <2>2
  <2> HIDE DEF at
  <2> QED BY <2>3, <1>4
<1>6. InOrder(K) = [n \in 1..Cardinality(K) |-> at(n)] BY DEF InOrder
<1> HIDE DEF at
<1>7. InOrder(K) \in Seq(K) /\ Len(InOrder(K)) = Cardinality(K) /\ DOMAIN InOrder(K) = 1..Cardinality(K)
      /\ \A n \in 1..Cardinality(K) : InOrder(K)[n] = at(n)
  BY <1>3, <1>5, <1>6
<1>8. Elements(InOrder(K)) = K
  <2>1. \A n \in DOMAIN InOrder(K) : InOrder(K)[n] \in K BY <1>5, <1>7
  <2>2. ASSUME NEW i \in K PROVE \E n \in DOMAIN InOrder(K) : InOrder(K)[n] = i
    <3>1. PICK n \in 1..Cardinality(K) : n - 1 = Cardinality(Ahead(K, R, i))
      <4>1. Cardinality(Ahead(K, R, i)) \in 0..(Cardinality(K) - 1) BY <1>3
      <4>2. PICK c : c = Cardinality(Ahead(K, R, i)) OBVIOUS
      <4>3. c + 1 \in 1..Cardinality(K) /\ (c + 1) - 1 = c BY <4>1, <4>2, <1>3
      <4> QED BY <4>2, <4>3
    <3>2. at(n) = i BY <3>1, <1>3, <1>5
    <3> QED BY <3>2, <1>7
  <2> QED BY <2>1, <2>2 DEF Elements
<1>9. ASSUME NEW n \in DOMAIN InOrder(K), NEW m \in DOMAIN InOrder(K), InOrder(K)[n] = InOrder(K)[m] PROVE n = m
  <2>1. n \in 1..Cardinality(K) /\ m \in 1..Cardinality(K) /\ at(n) = at(m) BY <1>7, <1>9
  <2>2. n - 1 = m - 1 BY <2>1, <1>5
  <2> QED BY <2>1, <2>2
<1> QED BY <1>3, <1>7, <1>8, <1>9

\* The n-th price is that of a product.
LEMMA NthPriceIs ==
    ASSUME NEW K \in SUBSET Nat, IsFiniteSet(K), NEW price \in [K -> Nat], NEW n \in 0..(Cardinality(K) - 1)
    PROVE  NthPrice(price, n) \in Nat
<1>1. PICK R : R = {c \in K \X K : price[c[1]] < price[c[2]] \/ (price[c[1]] = price[c[2]] /\ c[1] < c[2])} OBVIOUS
<1>2. \A i, j \in K : <<i, j>> \in R <=> price[i] < price[j] \/ (price[i] = price[j] /\ i < j) BY <1>1
<1>3. \A i \in K : i \in Nat /\ price[i] \in Nat OBVIOUS
<1>4. IsLine(K, R)
  <2>1. \A i \in K : <<i, i>> \notin R BY <1>2, <1>3
  <2>2. \A i, j \in K : i # j => <<i, j>> \in R \/ <<j, i>> \in R BY <1>2, <1>3
  <2>3. \A i, j, k \in K : <<i, j>> \in R /\ <<j, k>> \in R => <<i, k>> \in R BY <1>2, <1>3
  <2> QED BY <2>1, <2>2, <2>3 DEF IsLine
<1>5. \E i \in K : Cardinality(Ahead(K, R, i)) = n BY <1>4, RankIsReached
<1> DEFINE below(i) == {j \in K : price[j] < price[i] \/ (price[j] = price[i] /\ j < i)}
<1>6. \A i \in K : below(i) = Ahead(K, R, i) BY <1>2 DEF Ahead
<1>7. \E i \in K : Cardinality(below(i)) = n BY <1>5, <1>6
<1>8. DOMAIN price = K OBVIOUS
<1>9. NthPrice(price, n) = price[CHOOSE i \in K : Cardinality(below(i)) = n] BY <1>8 DEF NthPrice
<1> HIDE DEF below
<1>10. (CHOOSE i \in K : Cardinality(below(i)) = n) \in K BY <1>7
<1> QED BY <1>9, <1>10

-----------------------------------------------------------------------------
(* The round bounds.                                                       *)

StepRule(f, n) == \A v \in 0..n : f[v] = IF v < 100 THEN 5 ELSE 10 * f[v \div 10]

LEMMA TenTimesLess == ASSUME NEW v \in Nat, v >= 100 PROVE v \div 10 \in 0..(v - 1) /\ v \div 10 \in Nat
OBVIOUS

LEMMA StepRuleAgrees ==
    ASSUME NEW f, NEW g, NEW n \in Nat, NEW m \in Nat, n <= m, StepRule(f, n), StepRule(g, m)
    PROVE  \A v \in 0..n : f[v] = g[v]
<1> DEFINE T == {x \in Nat : \A v \in 0..x : v <= n => f[v] = g[v]}
<1>1. 0 \in T BY DEF StepRule
<1>2. ASSUME NEW x \in T PROVE x + 1 \in T
  <2> SUFFICES ASSUME x + 1 <= n PROVE f[x + 1] = g[x + 1] OBVIOUS
  <2>1. PICK v \in Nat : v = x + 1 OBVIOUS
  <2>2. v \in 0..n /\ v \in 0..m BY <2>1
  <2>3. CASE v < 100 BY <2>1, <2>2, <2>3 DEF StepRule
  <2>4. CASE v >= 100
    <3>1. v \div 10 \in 0..x /\ v \div 10 <= n BY <2>1, <2>2, <2>4, TenTimesLess
    <3>2. f[v \div 10] = g[v \div 10] BY <3>1
    <3> QED BY <2>1, <2>2, <2>4, <3>2 DEF StepRule
  <2> QED BY <2>3, <2>4
<1>3. T = Nat
  <2> HIDE DEF T
  <2>1. T \subseteq Nat BY DEF T
  <2> QED BY <1>1, <1>2, <2>1, NatSetInduction
<1> QED BY <1>3

LEMMA StepRuleHasOne == ASSUME NEW n \in Nat PROVE \E f \in [0..n -> Nat \ {0}] : StepRule(f, n)
<1> DEFINE T == {x \in Nat : \E f \in [0..x -> Nat \ {0}] : StepRule(f, x)}
<1>1. 0 \in T
  <2>1. [v \in 0..0 |-> 5] \in [0..0 -> Nat \ {0}] /\ StepRule([v \in 0..0 |-> 5], 0) BY DEF StepRule
  <2> QED BY <2>1
<1>2. ASSUME NEW x \in T PROVE x + 1 \in T
  <2>1. PICK f \in [0..x -> Nat \ {0}] : StepRule(f, x) OBVIOUS
  <2>2. PICK last \in Nat \ {0} : last = IF x + 1 < 100 THEN 5 ELSE 10 * f[(x + 1) \div 10]
    <3>1. CASE x + 1 < 100 BY <3>1
    <3>2. CASE x + 1 >= 100
      <4>1. (x + 1) \div 10 \in 0..x BY <3>2, TenTimesLess
      <4>2. f[(x + 1) \div 10] \in Nat \ {0} BY <4>1
      <4> QED BY <3>2, <4>2
    <3> QED BY <3>1, <3>2
  <2>3. PICK g : g = [v \in 0..(x + 1) |-> IF v = x + 1 THEN last ELSE f[v]] OBVIOUS
  <2>4. g \in [0..(x + 1) -> Nat \ {0}] /\ g[x + 1] = last /\ \A v \in 0..x : g[v] = f[v] BY <2>3
  <2>5. ASSUME NEW v \in 0..(x + 1) PROVE g[v] = IF v < 100 THEN 5 ELSE 10 * g[v \div 10]
    <3>1. v >= 100 => v \div 10 \in 0..x BY TenTimesLess
    <3>2. v >= 100 => g[v \div 10] = f[v \div 10] BY <3>1, <2>4
    <3>3. CASE v = x + 1 BY <3>2, <3>3, <2>2, <2>4
    <3>4. CASE v \in 0..x BY <3>2, <3>4, <2>1, <2>4 DEF StepRule
    <3> QED BY <3>3, <3>4
  <2>6. StepRule(g, x + 1) BY <2>5 DEF StepRule
  <2> QED BY <2>4, <2>6
<1>3. T = Nat
  <2> HIDE DEF T
  <2>1. T \subseteq Nat BY DEF T
  <2> QED BY <1>1, <1>2, <2>1, NatSetInduction
<1> QED BY <1>3

LEMMA StepIs == StepOf \in [Nat -> Nat \ {0}]
<1> DEFINE S(n) == CHOOSE f \in [0..n -> Nat \ {0}] : StepRule(f, n)
           F == [v \in Nat |-> S(v)[v]]
<1>1. \A n \in Nat : S(n) \in [0..n -> Nat \ {0}] /\ StepRule(S(n), n) BY StepRuleHasOne
<1> HIDE DEF S
<1>2. F \in [Nat -> Nat \ {0}] BY <1>1
<1>3. ASSUME NEW v \in Nat PROVE F[v] = IF v < 100 THEN 5 ELSE 10 * F[v \div 10]
  <2>1. F[v] = S(v)[v] /\ v \in 0..v OBVIOUS
  <2>2. CASE v < 100 BY <2>1, <2>2, <1>1 DEF StepRule
  <2>3. CASE v >= 100
    <3>1. PICK u \in Nat : u = v \div 10 BY <2>3, TenTimesLess
    <3>2. u <= v BY <3>1, <2>3, TenTimesLess
    <3>3. S(u)[u] = S(v)[u] BY <3>2, <1>1, StepRuleAgrees
    <3>4. F[u] = S(u)[u] OBVIOUS
    <3> QED BY <2>1, <2>3, <3>1, <3>3, <3>4, <1>1 DEF StepRule
  <2> QED BY <2>2, <2>3
<1>4. F = [v \in Nat |-> IF v < 100 THEN 5 ELSE 10 * F[v \div 10]] BY <1>3
<1>5. ASSUME NEW G, G = [v \in Nat |-> IF v < 100 THEN 5 ELSE 10 * G[v \div 10]] PROVE G = F
  <2>1. \A n \in Nat : StepRule(G, n)
    <3> TAKE n \in Nat
    <3>1. \A v \in 0..n : v \in Nat OBVIOUS
    <3> QED BY <3>1, <1>5 DEF StepRule
  <2>2. \A v \in Nat : G[v] = S(v)[v] BY <2>1, <1>1, StepRuleAgrees
  <2>3. G = [v \in Nat |-> G[v]] BY <1>5
  <2> QED BY <2>2, <2>3
<1> HIDE DEF F
<1>6. StepOf = CHOOSE G : G = [v \in Nat |-> IF v < 100 THEN 5 ELSE 10 * G[v \div 10]] BY DEF StepOf
<1>7. StepOf = F BY <1>4, <1>5, <1>6
<1> QED BY <1>2, <1>7

LEMMA NiceIs == ASSUME NEW v \in Nat PROVE Nice(v) \in Nat
<1>1. PICK s \in Nat \ {0} : s = StepOf[v] BY StepIs
<1>2. PICK q \in Nat : q = (v + s - 1) \div s
  <2>1. v + s - 1 \in Nat BY <1>1
  <2> QED BY <2>1
<1>3. q * s \in Nat OBVIOUS
<1> QED BY <1>1, <1>2, <1>3 DEF Nice

-----------------------------------------------------------------------------
(* The most frequent values.                                               *)

Leading(number, s) == \A v \in s, w \in DOMAIN number \ s : number[v] >= number[w]

LEMMA LeadersExist ==
    ASSUME NEW A, IsFiniteSet(A), NEW most \in Nat, NEW number \in [A -> 0..most], NEW room \in 0..Cardinality(A)
    PROVE  \E s \in SUBSET A : Cardinality(s) = room /\ Leading(number, s)
<1> DEFINE T == {r \in Nat : r <= Cardinality(A) => \E s \in SUBSET A : Cardinality(s) = r /\ Leading(number, s)}
<1>1. Cardinality(A) \in Nat /\ DOMAIN number = A BY FS_CardinalityType
<1>2. 0 \in T
  <2>1. Cardinality({}) = 0 /\ {} \in SUBSET A /\ Leading(number, {}) BY FS_EmptySet DEF Leading
  <2> QED BY <2>1
<1>3. ASSUME NEW r \in T PROVE r + 1 \in T
  <2> SUFFICES ASSUME r + 1 <= Cardinality(A) PROVE \E s \in SUBSET A : Cardinality(s) = r + 1 /\ Leading(number, s) OBVIOUS
  <2>1. PICK s \in SUBSET A : Cardinality(s) = r /\ Leading(number, s) BY <1>1
  <2>2. IsFiniteSet(s) /\ A \ s # {} BY <2>1, <1>1, FS_Subset
  <2>3. PICK N : N = {number[w] : w \in A \ s} OBVIOUS
  <2>4. N \in SUBSET (0..most) /\ N # {} BY <2>2, <2>3
  <2>5. PICK m \in N : \A k \in N : k <= m BY <2>4, HasGreatest
  <2>6. PICK w \in A \ s : number[w] = m BY <2>3, <2>5
  <2>7. Cardinality(s \cup {w}) = r + 1 BY <2>1, <2>2, <2>6, FS_AddElement
  <2>8. \A v \in A \ s : number[v] <= number[w] BY <2>3, <2>5, <2>6
  <2>9. \A v \in A : number[v] \in 0..most OBVIOUS
  <2>10. Leading(number, s \cup {w}) BY <2>1, <2>6, <2>8, <2>9, <1>1 DEF Leading
  <2> QED BY <2>7, <2>10
<1>4. T = Nat
  <2> HIDE DEF T
  <2>1. T \subseteq Nat BY DEF T
  <2> QED BY <1>2, <1>3, <2>1, NatSetInduction
<1> QED BY <1>1, <1>4

LEMMA ForemostIs ==
    ASSUME NEW A, IsFiniteSet(A), NEW most \in Nat, NEW number \in [A -> 0..most]
    PROVE  Foremost(number) \subseteq A
<1>1. PICK room : room = IF Cardinality(A) < MaxRows THEN Cardinality(A) ELSE MaxRows - 1 OBVIOUS
<1>2. room \in 0..Cardinality(A)
  <2>1. Cardinality(A) \in Nat /\ MaxRows \in Nat \ {0} BY FS_CardinalityType, BrowseAssumption
  <2> QED BY <1>1, <2>1
<1>3. DOMAIN number = A OBVIOUS
<1>4. Foremost(number) = CHOOSE s \in SUBSET A : Cardinality(s) = room /\ \A v \in s, w \in A \ s : number[v] >= number[w]
  BY <1>1, <1>3 DEF Foremost
<1>5. \E s \in SUBSET A : Cardinality(s) = room /\ \A v \in s, w \in A \ s : number[v] >= number[w]
  BY <1>2, <1>3, LeadersExist DEF Leading
<1> QED BY <1>4, <1>5

-----------------------------------------------------------------------------
(* What the filters keep.                                                  *)

Filter == [c : {"N", "O", Unknown}, b : {"a", "b", Unknown}, low : Int, high : Int, t : {"L", "V", Unknown},
           p : {"1", "2", "3", Unknown}, v : {"1", "2", "3", Unknown}, q : {"1", "2", Unknown}, offers : BOOLEAN]

LEMMA FittingIs ==
    ASSUME stock \in Seq(Product), NEW f
    PROVE  /\ Fitting(f) \in SUBSET Nat /\ Fitting(f) \subseteq DOMAIN stock /\ IsFiniteSet(Fitting(f))
           /\ Count(f) \in Nat /\ Count(f) <= Len(stock) /\ (Count(f) = 0 <=> Fitting(f) = {})
           /\ \A i \in Fitting(f) : stock[i] \in Product
<1>1. DOMAIN stock = 1..Len(stock) /\ Len(stock) \in Nat OBVIOUS
<1>2. Fitting(f) \subseteq DOMAIN stock BY DEF Fitting
<1>3. IsFiniteSet(1..Len(stock)) /\ Cardinality(1..Len(stock)) = Len(stock) BY <1>1, FS_Interval
<1>4. IsFiniteSet(Fitting(f)) /\ Count(f) \in Nat /\ Count(f) <= Len(stock)
  BY <1>1, <1>2, <1>3, FS_Subset, FS_CardinalityType DEF Count
<1>5. Count(f) = 0 <=> Fitting(f) = {} BY <1>4, FS_EmptySet DEF Count
<1> QED BY <1>1, <1>2, <1>4, <1>5

LEMMA SuitingIs ==
    ASSUME stock \in Seq(Product), NEW f
    PROVE  /\ Suiting(f) \in Seq(Fitting(f)) /\ Len(Suiting(f)) = Count(f) /\ Elements(Suiting(f)) = Fitting(f)
           /\ \A n, m \in DOMAIN Suiting(f) : Suiting(f)[n] = Suiting(f)[m] => n = m
BY FittingIs, InOrderIs DEF Suiting, Count

Attributes == {"kind", "cond", "city", "district", "body"}

LEMMA ValuesAreFew ==
    ASSUME stock \in Seq(Product), NEW f, NEW attribute \in Attributes
    PROVE  /\ IsFiniteSet(Values(f, attribute)) /\ Cardinality(Values(f, attribute)) \in Nat
           /\ \A x \in Values(f, attribute) : x # Unknown /\ \E i \in Fitting(f) : stock[i][attribute] = x
<1> DEFINE g == [i \in Fitting(f) |-> stock[i][attribute]]
           V == {stock[i][attribute] : i \in Fitting(f)}
<1>1. IsFiniteSet(Fitting(f)) BY FittingIs
<1>2. g \in Surjection(Fitting(f), V) BY DEF Surjection
<1>3. IsFiniteSet(V)
  <2> HIDE DEF g, V
  <2> QED BY <1>1, <1>2, FS_Surjection
<1>4. Values(f, attribute) = V \ {Unknown} BY DEF Values
<1>5. Values(f, attribute) \subseteq V BY <1>4
<1>6. IsFiniteSet(Values(f, attribute)) /\ Cardinality(Values(f, attribute)) \in Nat
  <2> HIDE DEF V
  <2> QED BY <1>3, <1>5, FS_Subset, FS_CardinalityType
<1> QED BY <1>4, <1>6

LEMMA EverythingFits == ASSUME stock \in Seq(Product) PROVE Fitting(AllOf) = DOMAIN stock /\ AllOf \in Filter
<1>1. AllOf \in Filter BY DEF AllOf, Filter, Unknown, NoBound
<1>2. \A p : Keep(p, AllOf) BY DEF Keep, AllOf, Same
<1> QED BY <1>1, <1>2 DEF Fitting

\* A filter is narrowed when it is given what it left open.
LEMMA Narrowed ==
    ASSUME NEW f \in Filter, NEW p \in Product
    PROVE  /\ \A x : f.c = Unknown /\ Keep(p, [f EXCEPT !.c = x]) => Keep(p, f)
           /\ \A x : f.b = Unknown /\ Keep(p, [f EXCEPT !.b = x]) => Keep(p, f)
           /\ \A x : f.p = Unknown => (Keep(p, [f EXCEPT !.p = x]) <=> Keep(p, f) /\ (x = Unknown \/ p.kind = x))
           /\ \A x : f.v = Unknown /\ Keep(p, [f EXCEPT !.v = x]) => Keep(p, f)
           /\ \A x : f.q = Unknown /\ Keep(p, [f EXCEPT !.q = x]) => Keep(p, f)
           /\ \A x, y : f.low = NoBound /\ f.high = NoBound =>
                (Keep(p, [f EXCEPT !.low = x, !.high = y]) <=> Keep(p, f) /\ (x # NoBound => p.price >= x) /\ (y # NoBound => p.price < y))
BY DEF Keep, Same, Filter, Product

\* What is chosen among the values of those that are left suits one of them.
LEMMA Chosen ==
    ASSUME NEW f \in Filter, NEW p \in Product, Keep(p, f)
    PROVE  /\ Keep(p, [f EXCEPT !.b = p.body]) /\ Keep(p, [f EXCEPT !.p = p.kind])
           /\ Keep(p, [f EXCEPT !.v = p.city]) /\ Keep(p, [f EXCEPT !.q = p.district])
BY DEF Keep, Same, Filter, Product

LEMMA FilterSet ==
    ASSUME NEW f \in Filter
    PROVE  /\ \A x \in {"N", "O", Unknown} : [f EXCEPT !.c = x] \in Filter
           /\ \A x \in {"a", "b", Unknown} : [f EXCEPT !.b = x] \in Filter
           /\ \A x \in {"1", "2", "3", Unknown} : [f EXCEPT !.p = x] \in Filter /\ [f EXCEPT !.v = x] \in Filter
           /\ \A x \in {"1", "2", Unknown} : [f EXCEPT !.q = x] \in Filter
           /\ \A x \in {"L", "V", Unknown} : [f EXCEPT !.t = x] \in Filter
           /\ \A x, y \in Int : [f EXCEPT !.low = x, !.high = y] \in Filter
           /\ \A x \in BOOLEAN : [f EXCEPT !.offers = x] \in Filter
BY DEF Filter

-----------------------------------------------------------------------------
(* The choices of each question: each is a filter that something suits.    *)

SomethingSuits(fs) == \A g \in fs : g \in Filter /\ Count(g) > 0

LEMMA SuitsOne == ASSUME stock \in Seq(Product), NEW g, NEW i \in DOMAIN stock, Keep(stock[i], g) PROVE Count(g) > 0
<1>1. Fitting(g) # {} BY DEF Fitting
<1>2. Count(g) \in Nat /\ Count(g) # 0 BY <1>1, FittingIs
<1> QED BY <1>2

LEMMA FittingKept == ASSUME stock \in Seq(Product), NEW f, NEW i \in Fitting(f) PROVE i \in DOMAIN stock /\ stock[i] \in Product /\ Keep(stock[i], f)
BY DEF Fitting

LEMMA ForemostAreValues ==
    ASSUME stock \in Seq(Product), NEW f, NEW attribute \in Attributes, NEW number,
           DOMAIN number = Values(f, attribute), \A x \in Values(f, attribute) : number[x] \in 0..Len(stock),
           number = [x \in Values(f, attribute) |-> number[x]]
    PROVE  Foremost(number) \subseteq Values(f, attribute)
<1>1. IsFiniteSet(Values(f, attribute)) BY ValuesAreFew
<1>2. number \in [Values(f, attribute) -> 0..Len(stock)] OBVIOUS
<1>3. Len(stock) \in Nat OBVIOUS
<1> QED BY <1>1, <1>2, <1>3, ForemostIs

LEMMA CountIsAtMost == ASSUME stock \in Seq(Product), NEW f PROVE Count(f) \in 0..Len(stock)
<1>1. Count(f) \in Nat /\ Count(f) <= Len(stock) /\ Len(stock) \in Nat BY FittingIs
<1> QED BY <1>1

LEMMA TownsSuit ==
    ASSUME stock \in Seq(Product), NEW f \in Filter, Count(f) > 0
    PROVE  SomethingSuits(Towns(f)) /\ f \in Towns(f) /\ \A g \in Towns(f) : g = f \/ \E x \in Values(f, "city") : g = [f EXCEPT !.v = x]
<1>1. PICK all : all = Values(f, "city") OBVIOUS
<1>2. PICK number : number = [x \in all |-> Count([f EXCEPT !.v = x])] OBVIOUS
<1>3. Foremost(number) \subseteq all
  <2>1. \A x \in all : number[x] \in 0..Len(stock) BY <1>2, CountIsAtMost
  <2>2. DOMAIN number = all /\ number = [x \in all |-> number[x]] BY <1>2
  <2>3. "city" \in Attributes BY DEF Attributes
  <2> QED BY <1>1, <2>1, <2>2, <2>3, ForemostAreValues
<1>4. Towns(f) = IF Cardinality(all) < 2 THEN {f} ELSE {[f EXCEPT !.v = x] : x \in Foremost(number)} \cup {f}
  BY <1>1, <1>2 DEF Towns
<1>5. \A g \in Towns(f) : g = f \/ \E x \in all : g = [f EXCEPT !.v = x] BY <1>3, <1>4
<1>6. ASSUME NEW x \in all PROVE [f EXCEPT !.v = x] \in Filter /\ Count([f EXCEPT !.v = x]) > 0
  <2>1. PICK i \in Fitting(f) : stock[i]["city"] = x BY <1>1, ValuesAreFew DEF Attributes
  <2>2. i \in DOMAIN stock /\ stock[i] \in Product /\ Keep(stock[i], f) BY FittingKept
  <2>3. stock[i].city \in {"1", "2", "3", Unknown} /\ stock[i].city = x BY <2>1, <2>2 DEF Product
  <2>4. Keep(stock[i], [f EXCEPT !.v = x]) BY <2>2, <2>3, Chosen
  <2> QED BY <2>2, <2>3, <2>4, SuitsOne, FilterSet
<1> QED BY <1>1, <1>4, <1>5, <1>6 DEF SomethingSuits

LEMMA DistrictsSuit ==
    ASSUME stock \in Seq(Product), NEW f \in Filter, Count(f) > 0
    PROVE  SomethingSuits(Districts(f)) /\ f \in Districts(f) /\ \A g \in Districts(f) : g = f \/ \E x \in Values(f, "district") : g = [f EXCEPT !.q = x]
<1>1. PICK all : all = Values(f, "district") OBVIOUS
<1>2. PICK number : number = [x \in all |-> Count([f EXCEPT !.q = x])] OBVIOUS
<1>3. Foremost(number) \subseteq all
  <2>1. \A x \in all : number[x] \in 0..Len(stock) BY <1>2, CountIsAtMost
  <2>2. DOMAIN number = all /\ number = [x \in all |-> number[x]] BY <1>2
  <2>3. "district" \in Attributes BY DEF Attributes
  <2> QED BY <1>1, <2>1, <2>2, <2>3, ForemostAreValues
<1>4. Districts(f) = IF Cardinality(all) < 2 THEN {f} ELSE {[f EXCEPT !.q = x] : x \in Foremost(number)} \cup {f}
  BY <1>1, <1>2 DEF Districts
<1>5. \A g \in Districts(f) : g = f \/ \E x \in all : g = [f EXCEPT !.q = x] BY <1>3, <1>4
<1>6. ASSUME NEW x \in all PROVE [f EXCEPT !.q = x] \in Filter /\ Count([f EXCEPT !.q = x]) > 0
  <2>1. PICK i \in Fitting(f) : stock[i]["district"] = x BY <1>1, ValuesAreFew DEF Attributes
  <2>2. i \in DOMAIN stock /\ stock[i] \in Product /\ Keep(stock[i], f) BY FittingKept
  <2>3. stock[i].district \in {"1", "2", Unknown} /\ stock[i].district = x BY <2>1, <2>2 DEF Product
  <2>4. Keep(stock[i], [f EXCEPT !.q = x]) BY <2>2, <2>3, Chosen
  <2> QED BY <2>2, <2>3, <2>4, SuitsOne, FilterSet
<1> QED BY <1>1, <1>4, <1>5, <1>6 DEF SomethingSuits

LEMMA TypesSuit ==
    ASSUME stock \in Seq(Product), NEW f \in Filter, Count(f) > 0
    PROVE  SomethingSuits(Types(f)) /\ Types(f) # {}
<1>1. ASSUME NEW i \in Fitting(f) PROVE [f EXCEPT !.p = stock[i].kind] \in Filter /\ Count([f EXCEPT !.p = stock[i].kind]) > 0
  <2>1. i \in DOMAIN stock /\ stock[i] \in Product /\ Keep(stock[i], f) BY FittingKept
  <2>2. stock[i].kind \in {"1", "2", "3", Unknown} BY <2>1 DEF Product
  <2>3. Keep(stock[i], [f EXCEPT !.p = stock[i].kind]) BY <2>1, Chosen
  <2> QED BY <2>1, <2>2, <2>3, SuitsOne, FilterSet
<1>2. \A g \in Types(f) : \E i \in Fitting(f) : g = [f EXCEPT !.p = stock[i].kind] BY DEF Types
<1>3. Fitting(f) # {} BY FittingIs
<1>4. Types(f) # {}
  <2>1. PICK i : i \in Fitting(f) BY <1>3
  <2>2. [f EXCEPT !.p = stock[i].kind] \in Types(f) BY <2>1 DEF Types
  <2> QED BY <2>2
<1> QED BY <1>1, <1>2, <1>4 DEF SomethingSuits

LEMMA DepartmentsSuit ==
    ASSUME stock \in Seq(Product), stock # <<>>
    PROVE  SomethingSuits(Departments(AllOf))
<1>1. PICK all : all = Values(AllOf, "kind") OBVIOUS
<1>2. PICK number : number = [x \in all |-> Count([AllOf EXCEPT !.p = x])] OBVIOUS
<1>3. Foremost(number) \subseteq all
  <2>1. \A x \in all : number[x] \in 0..Len(stock) BY <1>2, CountIsAtMost
  <2>2. DOMAIN number = all /\ number = [x \in all |-> number[x]] BY <1>2
  <2>3. "kind" \in Attributes BY DEF Attributes
  <2> QED BY <1>1, <2>1, <2>2, <2>3, ForemostAreValues
<1>4. Departments(AllOf) = IF Cardinality(all) < 2 THEN {AllOf}
                           ELSE IF Cardinality(all) <= MaxRows THEN {[AllOf EXCEPT !.p = k] : k \in all}
                           ELSE {[AllOf EXCEPT !.p = k] : k \in Foremost(number)} \cup {AllOf}
  BY <1>1, <1>2 DEF Departments
<1>5. \A g \in Departments(AllOf) : g = AllOf \/ \E x \in all : g = [AllOf EXCEPT !.p = x] BY <1>3, <1>4
<1>6. AllOf \in Filter /\ Fitting(AllOf) = DOMAIN stock BY EverythingFits
<1>7. Count(AllOf) > 0
  <2>1. 1 \in DOMAIN stock OBVIOUS
  <2> QED BY <1>6, <2>1, FittingIs
<1>8. ASSUME NEW x \in all PROVE [AllOf EXCEPT !.p = x] \in Filter /\ Count([AllOf EXCEPT !.p = x]) > 0
  <2>1. PICK i \in Fitting(AllOf) : stock[i]["kind"] = x BY <1>1, ValuesAreFew DEF Attributes
  <2>2. i \in DOMAIN stock /\ stock[i] \in Product /\ Keep(stock[i], AllOf) BY FittingKept
  <2>3. stock[i].kind \in {"1", "2", "3", Unknown} /\ stock[i].kind = x BY <2>1, <2>2 DEF Product
  <2>4. Keep(stock[i], [AllOf EXCEPT !.p = x]) BY <1>6, <2>2, <2>3, Chosen
  <2> QED BY <1>6, <2>2, <2>3, <2>4, SuitsOne, FilterSet
<1> QED BY <1>5, <1>6, <1>7, <1>8 DEF SomethingSuits

LEMMA RefinementsSuit ==
    ASSUME stock \in Seq(Product), NEW f \in Filter
    PROVE  SomethingSuits(Refinements(f))
<1>1. ASSUME NEW x \in Values(f, "body") PROVE [f EXCEPT !.b = x] \in Filter /\ Count([f EXCEPT !.b = x]) > 0
  <2>1. PICK i \in Fitting(f) : stock[i]["body"] = x BY ValuesAreFew DEF Attributes
  <2>2. i \in DOMAIN stock /\ stock[i] \in Product /\ Keep(stock[i], f) BY FittingKept
  <2>3. stock[i].body \in {"a", "b", Unknown} /\ stock[i].body = x BY <2>1, <2>2 DEF Product
  <2>4. Keep(stock[i], [f EXCEPT !.b = x]) BY <2>2, <2>3, Chosen
  <2> QED BY <2>2, <2>3, <2>4, SuitsOne, FilterSet
<1>2. \A g \in Refinements(f) : \E x \in Values(f, "body") : g = [f EXCEPT !.b = x] BY DEF Refinements
<1> QED BY <1>1, <1>2 DEF SomethingSuits

\* The bounds are numbers, and share the prices out.
LEMMA BoundsAre ==
    ASSUME stock \in Seq(Product), NEW f, Count(f) > 0
    PROVE  \E low, high \in Nat : Bounds(f) = IF high > low THEN {<<NoBound, low>>, <<low, high>>, <<high, NoBound>>}
                                              ELSE {<<NoBound, low>>, <<low, NoBound>>}
<1>1. PICK price : price = [i \in Fitting(f) |-> stock[i].price] OBVIOUS
<1>2. PICK n \in Nat \ {0} : n = Count(f) /\ n = Cardinality(Fitting(f)) BY FittingIs DEF Count
<1>3. price \in [Fitting(f) -> Nat]
  <2>1. \A i \in Fitting(f) : stock[i] \in Product BY FittingIs
  <2>2. \A i \in Fitting(f) : stock[i].price \in Nat BY <2>1 DEF Product
  <2> QED BY <1>1, <2>2
<1>4. n \div 3 \in 0..(n - 1) /\ (2 * n) \div 3 \in 0..(n - 1) OBVIOUS
<1>5. NthPrice(price, n \div 3) \in Nat /\ NthPrice(price, (2 * n) \div 3) \in Nat
  BY <1>2, <1>3, <1>4, FittingIs, NthPriceIs
<1>6. PICK low \in Nat : low = Nice(NthPrice(price, n \div 3)) BY <1>5, NiceIs
<1>7. PICK high \in Nat : high = Nice(NthPrice(price, (2 * n) \div 3)) BY <1>5, NiceIs
<1>8. Bounds(f) = IF high > low THEN {<<NoBound, low>>, <<low, high>>, <<high, NoBound>>} ELSE {<<NoBound, low>>, <<low, NoBound>>}
  BY <1>1, <1>2, <1>6, <1>7 DEF Bounds
<1> QED BY <1>8

LEMMA BudgetsSuit ==
    ASSUME stock \in Seq(Product), NEW f \in Filter, Count(f) > 0
    PROVE  SomethingSuits(Budgets(f)) /\ f \in Budgets(f) /\ \A g \in Budgets(f) : g = f \/ \E x, y \in Int : g = [f EXCEPT !.low = x, !.high = y]
<1>1. \A g \in Tranches(f) : Count(g) > 0 /\ \E b \in Bounds(f) : g = [f EXCEPT !.low = b[1], !.high = b[2]] BY DEF Tranches
<1>2. \A b \in Bounds(f) : b[1] \in Int /\ b[2] \in Int
  <2>1. PICK low, high \in Nat : Bounds(f) = IF high > low THEN {<<NoBound, low>>, <<low, high>>, <<high, NoBound>>}
                                             ELSE {<<NoBound, low>>, <<low, NoBound>>}
    BY BoundsAre
  <2> QED BY <2>1 DEF NoBound
<1>3. ASSUME NEW g \in Tranches(f) PROVE Count(g) > 0 /\ g \in Filter /\ \E x, y \in Int : g = [f EXCEPT !.low = x, !.high = y]
  <2>1. PICK b \in Bounds(f) : g = [f EXCEPT !.low = b[1], !.high = b[2]] BY <1>1
  <2>2. PICK x, y \in Int : x = b[1] /\ y = b[2] BY <1>2
  <2>3. g = [f EXCEPT !.low = x, !.high = y] BY <2>1, <2>2
  <2>4. g \in Filter BY <2>3, FilterSet
  <2> QED BY <1>1, <2>3, <2>4
<1>4. f \in Budgets(f) /\ Budgets(f) \subseteq Tranches(f) \cup {f} BY DEF Budgets
<1> QED BY <1>3, <1>4 DEF SomethingSuits

-----------------------------------------------------------------------------
(* The questions lead to every product.                                    *)

Unpriced(f) == f.low = NoBound /\ f.high = NoBound

LEMMA NarrowFits ==
    ASSUME stock \in Seq(Product), NEW f, NEW g, \A p \in Product : Keep(p, g) => Keep(p, f)
    PROVE  Fitting(g) \subseteq Fitting(f)
<1> SUFFICES ASSUME NEW i \in Fitting(g) PROVE i \in Fitting(f) OBVIOUS
<1>1. i \in DOMAIN stock /\ stock[i] \in Product /\ Keep(stock[i], g) BY FittingKept
<1>2. Keep(stock[i], f) BY <1>1
<1> QED BY <1>1, <1>2 DEF Fitting

\* Each question leaves the filter itself among its answers, and the others
\* narrow it.
LEMMA TownsLead ==
    ASSUME stock \in Seq(Product), NEW f \in Filter, f.v = Unknown, f.q = Unknown, Unpriced(f), Count(f) > 0
    PROVE  \A g \in Towns(f) : g \in Filter /\ g.q = Unknown /\ Unpriced(g) /\ Count(g) > 0 /\ Fitting(g) \subseteq Fitting(f)
<1> TAKE g \in Towns(f)
<1>1. SomethingSuits(Towns(f)) /\ (g = f \/ \E x \in Values(f, "city") : g = [f EXCEPT !.v = x]) BY TownsSuit
<1>2. g \in Filter /\ Count(g) > 0 BY <1>1 DEF SomethingSuits
<1>3. CASE g = f BY <1>2, <1>3
<1>4. CASE \E x \in Values(f, "city") : g = [f EXCEPT !.v = x]
  <2>1. PICK x : g = [f EXCEPT !.v = x] BY <1>4
  <2>4. \A p \in Product : Keep(p, g) => Keep(p, f) BY <2>1, Narrowed
  <2>2. g.q = Unknown /\ Unpriced(g) BY <2>1 DEF Unpriced, Filter
  <2>3. Fitting(g) \subseteq Fitting(f) BY <2>4, NarrowFits
  <2> QED BY <1>2, <2>2, <2>3
<1> QED BY <1>1, <1>3, <1>4

LEMMA DistrictsLead ==
    ASSUME stock \in Seq(Product), NEW f \in Filter, f.q = Unknown, Unpriced(f), Count(f) > 0
    PROVE  \A g \in Districts(f) : g \in Filter /\ Unpriced(g) /\ Count(g) > 0 /\ Fitting(g) \subseteq Fitting(f)
<1> TAKE g \in Districts(f)
<1>1. SomethingSuits(Districts(f)) /\ (g = f \/ \E x \in Values(f, "district") : g = [f EXCEPT !.q = x]) BY DistrictsSuit
<1>2. g \in Filter /\ Count(g) > 0 BY <1>1 DEF SomethingSuits
<1>3. CASE g = f BY <1>2, <1>3
<1>4. CASE \E x \in Values(f, "district") : g = [f EXCEPT !.q = x]
  <2>1. PICK x : g = [f EXCEPT !.q = x] BY <1>4
  <2>4. \A p \in Product : Keep(p, g) => Keep(p, f) BY <2>1, Narrowed
  <2>2. Unpriced(g) BY <2>1 DEF Unpriced, Filter
  <2>3. Fitting(g) \subseteq Fitting(f) BY <2>4, NarrowFits
  <2> QED BY <1>2, <2>2, <2>3
<1> QED BY <1>1, <1>3, <1>4

LEMMA BudgetsLead ==
    ASSUME stock \in Seq(Product), NEW f \in Filter, Unpriced(f), Count(f) > 0
    PROVE  f \in Budgets(f) /\ \A g \in Budgets(f) : Fitting(g) \subseteq Fitting(f)
<1>1. f \in Budgets(f) /\ \A g \in Budgets(f) : g = f \/ \E x, y \in Int : g = [f EXCEPT !.low = x, !.high = y] BY BudgetsSuit
<1>2. ASSUME NEW g \in Budgets(f) PROVE Fitting(g) \subseteq Fitting(f)
  <2>1. CASE g = f BY <2>1
  <2>2. CASE \E x, y \in Int : g = [f EXCEPT !.low = x, !.high = y]
    <3>1. PICK x, y \in Int : g = [f EXCEPT !.low = x, !.high = y] BY <2>2
    <3>2. \A p \in Product : Keep(p, g) => Keep(p, f) BY <3>1, Narrowed DEF Unpriced
    <3> QED BY <3>2, NarrowFits
  <2> QED BY <1>1, <2>1, <2>2
<1> QED BY <1>1, <1>2

LEMMA AgencyReaches ==
    ASSUME stock \in Seq(Product), NEW t \in {"L", "V"}, NEW f, f = [AllOf EXCEPT !.t = t]
    PROVE  Reached(Then(Then(Then(Types(f), Towns), Districts), Budgets)) = {i \in DOMAIN stock : stock[i].tx \in {t, Unknown}}
<1> DEFINE towns == Then(Types(f), Towns)
           districts == Then(towns, Districts)
           budgets == Then(districts, Budgets)
<1>1. /\ f \in Filter /\ Unpriced(f) /\ f.t = t /\ f.c = Unknown /\ f.b = Unknown /\ f.p = Unknown /\ f.v = Unknown /\ f.q = Unknown
      /\ f.low = NoBound /\ f.high = NoBound /\ ~f.offers
  <2>1. AllOf \in Filter BY EverythingFits
  <2>2. f \in Filter BY <2>1, FilterSet
  <2>3. /\ f.t = t /\ f.c = Unknown /\ f.b = Unknown /\ f.p = Unknown /\ f.v = Unknown /\ f.q = Unknown
        /\ f.low = NoBound /\ f.high = NoBound /\ ~f.offers
    BY DEF AllOf
  <2> QED BY <2>2, <2>3 DEF Unpriced
<1>2. Fitting(f) = {i \in DOMAIN stock : stock[i].tx \in {t, Unknown}}
  <2>1. t # Unknown BY DEF Unknown
  <2>2. \A p : Keep(p, f) <=> p.tx \in {t, Unknown} BY <1>1, <2>1 DEF Keep, Same
  <2> QED BY <2>2 DEF Fitting
<1>3. ASSUME NEW g \in Types(f)
      PROVE  g \in Filter /\ Unpriced(g) /\ g.v = Unknown /\ g.q = Unknown /\ Count(g) > 0 /\ Fitting(g) \subseteq Fitting(f)
  <2>1. PICK i \in Fitting(f) : g = [f EXCEPT !.p = stock[i].kind]
    <3>1. PICK k \in {stock[i].kind : i \in Fitting(f)} : g = [f EXCEPT !.p = k] BY DEF Types
    <3> QED BY <3>1
  <2>2. Count(f) > 0
    <3>1. Count(f) \in Nat /\ Count(f) # 0 BY <2>1, FittingIs
    <3> QED BY <3>1
  <2>3. g \in Filter /\ Count(g) > 0 BY <1>1, <2>2, TypesSuit DEF SomethingSuits
  <2>4. Unpriced(g) /\ g.v = Unknown /\ g.q = Unknown BY <1>1, <2>1 DEF Unpriced, Filter
  <2>5. Fitting(g) \subseteq Fitting(f)
    <3>1. PICK x : x = stock[i].kind OBVIOUS
    <3>2. g = [f EXCEPT !.p = x] BY <2>1, <3>1
    <3>3. \A p \in Product : Keep(p, [f EXCEPT !.p = x]) => Keep(p, f) BY <1>1, Narrowed
    <3> QED BY <3>2, <3>3, NarrowFits
  <2> QED BY <2>3, <2>4, <2>5
<1>4. ASSUME NEW g \in towns PROVE g \in Filter /\ Unpriced(g) /\ g.q = Unknown /\ Count(g) > 0 /\ Fitting(g) \subseteq Fitting(f)
  <2>1. PICK e \in Types(f) : g \in Towns(e) BY DEF Then
  <2>2. /\ e \in Filter /\ Unpriced(e) /\ e.v = Unknown /\ e.q = Unknown /\ Count(e) > 0 /\ Fitting(e) \subseteq Fitting(f) BY <1>3
  <2> QED BY <2>1, <2>2, TownsLead
<1>5. ASSUME NEW g \in districts PROVE g \in Filter /\ Unpriced(g) /\ Count(g) > 0 /\ Fitting(g) \subseteq Fitting(f)
  <2>1. PICK e \in towns : g \in Districts(e) BY DEF Then
  <2>2. /\ e \in Filter /\ Unpriced(e) /\ e.q = Unknown /\ Count(e) > 0 /\ Fitting(e) \subseteq Fitting(f) BY <1>4
  <2> QED BY <2>1, <2>2, DistrictsLead
<1>6. ASSUME NEW g \in budgets PROVE Fitting(g) \subseteq Fitting(f)
  <2>1. PICK e \in districts : g \in Budgets(e) BY DEF Then
  <2>2. /\ e \in Filter /\ Unpriced(e) /\ Count(e) > 0 /\ Fitting(e) \subseteq Fitting(f) BY <1>5
  <2> QED BY <2>1, <2>2, BudgetsLead
<1>7. ASSUME NEW i \in Fitting(f) PROVE \E g \in budgets : i \in Fitting(g)
  <2>1. PICK g : g = [f EXCEPT !.p = stock[i].kind] OBVIOUS
  <2>2. g \in Types(f) BY <2>1 DEF Types
  <2>3. i \in DOMAIN stock /\ stock[i] \in Product /\ Keep(stock[i], f) BY FittingKept
  <2>4. i \in Fitting(g) BY <1>1, <2>1, <2>3, Chosen DEF Fitting
  <2>5. g \in Filter /\ Count(g) > 0 /\ g.v = Unknown /\ g.q = Unknown /\ Unpriced(g) BY <2>2, <1>3
  <2>6. g \in towns
    <3>1. g \in Towns(g) BY <2>5, TownsSuit
    <3> QED BY <2>2, <3>1 DEF Then
  <2>7. g \in districts
    <3>1. g \in Districts(g) BY <2>5, DistrictsSuit
    <3> HIDE DEF towns
    <3> QED BY <2>6, <3>1 DEF Then
  <2>8. g \in budgets
    <3>1. g \in Budgets(g) BY <2>5, BudgetsSuit
    <3> HIDE DEF districts
    <3> QED BY <2>7, <3>1 DEF Then
  <2> QED BY <2>4, <2>8
<1> HIDE DEF budgets
<1>8. Reached(budgets) = Fitting(f)
  <2>1. \A g \in budgets : Fitting(g) \subseteq Fitting(f) BY <1>6
  <2>2. \A i \in Fitting(f) : \E g \in budgets : i \in Fitting(g) BY <1>7
  <2> QED BY <2>1, <2>2 DEF Reached
<1> QED BY <1>2, <1>8 DEF budgets

LEMMA DealerReaches == ASSUME stock \in Seq(Product) PROVE Reached(Then(Conditions(AllOf), Budgets)) = DOMAIN stock
<1>1. Fitting(AllOf) = DOMAIN stock /\ AllOf \in Filter BY EverythingFits
<1>2. AllOf \in Conditions(AllOf)
  <2>1. [AllOf EXCEPT !.c = Unknown] = AllOf
    <3>1. AllOf.c = Unknown BY DEF AllOf
    <3>2. \A f \in Filter : f.c = Unknown => [f EXCEPT !.c = Unknown] = f BY DEF Filter
    <3> QED BY <1>1, <3>1, <3>2
  <2> QED BY <2>1 DEF Conditions
<1>3. AllOf \in Budgets(AllOf) BY DEF Budgets
<1>4. AllOf \in Then(Conditions(AllOf), Budgets) BY <1>2, <1>3 DEF Then
<1>5. \A g : Fitting(g) \subseteq DOMAIN stock BY DEF Fitting
<1> QED BY <1>1, <1>4, <1>5 DEF Reached

LEMMA ShopReaches ==
    ASSUME stock \in Seq(Product), NEW n, n = Cardinality(Values(AllOf, "kind"))
    PROVE  Reached(Departments(AllOf)) = IF n < 2 \/ n > MaxRows THEN DOMAIN stock ELSE {i \in DOMAIN stock : stock[i].kind # Unknown}
<1>1. Fitting(AllOf) = DOMAIN stock /\ AllOf \in Filter BY EverythingFits
<1>2. \A g : Fitting(g) \subseteq DOMAIN stock BY DEF Fitting
<1>3. n \in Nat /\ MaxRows \in Nat BY ValuesAreFew, BrowseAssumption DEF Attributes
<1>4. CASE n < 2 \/ n > MaxRows
  <2>1. AllOf \in Departments(AllOf) BY <1>3, <1>4 DEF Departments
  <2> QED BY <1>1, <1>2, <1>4, <2>1 DEF Reached
<1>5. CASE ~(n < 2 \/ n > MaxRows)
  <2>1. Departments(AllOf) = {[AllOf EXCEPT !.p = k] : k \in Values(AllOf, "kind")} BY <1>3, <1>5 DEF Departments
  <2>2. \A k \in Values(AllOf, "kind") : k # Unknown BY ValuesAreFew DEF Attributes
  <2>3. AllOf.p = Unknown BY DEF AllOf
  <2>4. \A i \in DOMAIN stock : stock[i] \in Product /\ Keep(stock[i], AllOf) BY <1>1 DEF Fitting
  <2>5. \A i \in DOMAIN stock, k \in Values(AllOf, "kind") : i \in Fitting([AllOf EXCEPT !.p = k]) <=> stock[i].kind = k
    BY <1>1, <2>2, <2>3, <2>4, Narrowed DEF Fitting
  <2>6. \A i \in DOMAIN stock : stock[i].kind # Unknown => stock[i].kind \in Values(AllOf, "kind")
    <3> TAKE i \in DOMAIN stock
    <3>1. i \in Fitting(AllOf) /\ stock[i]["kind"] = stock[i].kind BY <1>1, <2>4 DEF Product
    <3> QED BY <3>1 DEF Values
  <2>7. ASSUME NEW i \in Reached(Departments(AllOf)) PROVE i \in DOMAIN stock /\ stock[i].kind # Unknown
    <3>1. PICK g \in Departments(AllOf) : i \in Fitting(g) BY DEF Reached
    <3>2. PICK k \in Values(AllOf, "kind") : g = [AllOf EXCEPT !.p = k] BY <2>1
    <3> QED BY <1>2, <2>2, <2>5, <3>1, <3>2
  <2>8. ASSUME NEW i \in DOMAIN stock, stock[i].kind # Unknown PROVE i \in Reached(Departments(AllOf))
    <3>1. PICK k \in Values(AllOf, "kind") : k = stock[i].kind BY <2>6, <2>8
    <3>2. [AllOf EXCEPT !.p = k] \in Departments(AllOf) /\ i \in Fitting([AllOf EXCEPT !.p = k]) BY <2>1, <2>5, <3>1
    <3> QED BY <3>2 DEF Reached
  <2> QED BY <1>5, <2>7, <2>8
<1> QED BY <1>4, <1>5

LEMMA ReachesEverything == ASSUME stock \in Seq(Product), trade \in {"shop", "dealer", "agency"} PROVE EverythingIsReached
<1>1. CASE trade = "shop" BY <1>1, ShopReaches DEF EverythingIsReached
<1>2. CASE trade = "dealer" BY <1>2, DealerReaches DEF EverythingIsReached
<1>3. CASE trade = "agency" BY <1>3, AgencyReaches DEF EverythingIsReached
<1> QED BY <1>1, <1>2, <1>3

\* A price is between two of the bounds only.
LEMMA OneTranche ==
    ASSUME stock \in Seq(Product), NEW f \in Filter, Unpriced(f), NEW i \in Fitting(f)
    PROVE  Cardinality({g \in Tranches(f) : Keep(stock[i], g)}) = 1
<1>1. i \in DOMAIN stock /\ stock[i] \in Product /\ Keep(stock[i], f) BY FittingKept
<1>2. PICK price \in Nat : price = stock[i].price BY <1>1 DEF Product
<1>3. Count(f) > 0 BY <1>1, SuitsOne
<1>4. PICK low, high \in Nat : Bounds(f) = IF high > low THEN {<<NoBound, low>>, <<low, high>>, <<high, NoBound>>}
                                           ELSE {<<NoBound, low>>, <<low, NoBound>>}
  BY <1>3, BoundsAre
<1> DEFINE cut(b) == [f EXCEPT !.low = b[1], !.high = b[2]]
           fits(b) == (b[1] # NoBound => price >= b[1]) /\ (b[2] # NoBound => price < b[2])
<1>5. \A b \in Bounds(f) : Keep(stock[i], cut(b)) <=> fits(b)
  <2> TAKE b \in Bounds(f)
  <2>1. PICK x, y : x = b[1] /\ y = b[2] OBVIOUS
  <2>2. Keep(stock[i], [f EXCEPT !.low = x, !.high = y]) <=> (x # NoBound => stock[i].price >= x) /\ (y # NoBound => stock[i].price < y)
    BY <1>1, Narrowed DEF Unpriced
  <2> QED BY <1>2, <2>1, <2>2
<1>6. \E b \in Bounds(f) : fits(b) /\ \A d \in Bounds(f) : fits(d) => d = b
  <2>1. \A x, y \in Int : fits(<<x, y>>) <=> (x # -1 => price >= x) /\ (y # -1 => price < y) BY DEF NoBound
  <2>2. /\ fits(<<NoBound, low>>) <=> price < low
        /\ fits(<<low, high>>) <=> price >= low /\ price < high
        /\ fits(<<high, NoBound>>) <=> price >= high
        /\ fits(<<low, NoBound>>) <=> price >= low
    <3> HIDE DEF fits
    <3> QED BY <2>1 DEF NoBound
  <2> HIDE DEF fits
  <2>3. CASE high > low
    <3>1. Bounds(f) = {<<NoBound, low>>, <<low, high>>, <<high, NoBound>>} BY <1>4, <2>3
    <3>2. CASE price < low
      <4>1. fits(<<NoBound, low>>) /\ ~fits(<<low, high>>) /\ ~fits(<<high, NoBound>>) BY <2>2, <2>3, <3>2
      <4> QED BY <3>1, <4>1
    <3>3. CASE price >= low /\ price < high
      <4>1. ~fits(<<NoBound, low>>) /\ fits(<<low, high>>) /\ ~fits(<<high, NoBound>>) BY <2>2, <2>3, <3>3
      <4> QED BY <3>1, <4>1
    <3>4. CASE price >= high
      <4>1. ~fits(<<NoBound, low>>) /\ ~fits(<<low, high>>) /\ fits(<<high, NoBound>>) BY <2>2, <2>3, <3>4
      <4> QED BY <3>1, <4>1
    <3> QED BY <3>2, <3>3, <3>4
  <2>4. CASE ~(high > low)
    <3>1. Bounds(f) = {<<NoBound, low>>, <<low, NoBound>>} BY <1>4, <2>4
    <3>2. CASE price < low
      <4>1. fits(<<NoBound, low>>) /\ ~fits(<<low, NoBound>>) BY <2>2, <3>2
      <4> QED BY <3>1, <4>1
    <3>3. CASE price >= low
      <4>1. ~fits(<<NoBound, low>>) /\ fits(<<low, NoBound>>) BY <2>2, <3>3
      <4> QED BY <3>1, <4>1
    <3> QED BY <3>2, <3>3
  <2> QED BY <2>3, <2>4
<1>7. PICK b \in Bounds(f) : fits(b) /\ \A d \in Bounds(f) : fits(d) => d = b BY <1>6
<1>8. Count(cut(b)) > 0 BY <1>1, <1>5, <1>7, SuitsOne
<1>9. Tranches(f) = {g \in {cut(d) : d \in Bounds(f)} : Count(g) > 0} BY DEF Tranches
<1> HIDE DEF cut, fits
<1>10. {g \in Tranches(f) : Keep(stock[i], g)} = {cut(b)} BY <1>5, <1>7, <1>8, <1>9
<1> QED BY <1>10, FS_Singleton

LEMMA EachHasOneBudget == ASSUME stock \in Seq(Product) PROVE OneBudgetEach
<1> SUFFICES ASSUME NEW t \in {"L", "V", Unknown}, NEW f, f = [AllOf EXCEPT !.t = t], NEW i \in Fitting(f)
             PROVE  Cardinality({g \in Tranches(f) : Keep(stock[i], g)}) = 1
  BY DEF OneBudgetEach
<1>1. f \in Filter
  <2>1. AllOf \in Filter BY EverythingFits
  <2> QED BY <2>1, FilterSet
<1>2. Unpriced(f)
  <2>1. f.low = NoBound /\ f.high = NoBound BY DEF AllOf
  <2> QED BY <2>1 DEF Unpriced
<1> QED BY <1>1, <1>2, OneTranche

-----------------------------------------------------------------------------
(* The pages.                                                              *)

LEMMA EachOnce ==
    ASSUME NEW S, NEW s \in Seq(S), \A n, m \in DOMAIN s : s[n] = s[m] => n = m
    PROVE  IsFiniteSet(Elements(s)) /\ Cardinality(Elements(s)) = Len(s) /\ Elements(s) \subseteq S
<1>1. Len(s) \in Nat /\ DOMAIN s = 1..Len(s) /\ \A n \in 1..Len(s) : s[n] \in S OBVIOUS
<1>2. IsFiniteSet(1..Len(s)) /\ Cardinality(1..Len(s)) = Len(s) BY <1>1, FS_Interval
<1>3. s = [n \in 1..Len(s) |-> s[n]] BY <1>1
<1>4. Elements(s) \subseteq S BY <1>1 DEF Elements
<1>5. \A n \in 1..Len(s) : s[n] \in Elements(s) BY <1>1 DEF Elements
<1>6. s \in [1..Len(s) -> Elements(s)] BY <1>3, <1>5
<1>7. \A x \in Elements(s) : \E n \in 1..Len(s) : s[n] = x BY <1>1 DEF Elements
<1>8. s \in Bijection(1..Len(s), Elements(s)) BY <1>1, <1>6, <1>7 DEF Bijection, Injection, Surjection, IsInjective
<1> QED BY <1>2, <1>4, <1>8, FS_Bijection DEF ExistsBijection

LEMMA SeqOfMore == ASSUME NEW S, NEW T, S \subseteq T, NEW s \in Seq(S) PROVE s \in Seq(T)
OBVIOUS

LEMMA BothElements ==
    ASSUME NEW S, NEW s \in Seq(S), NEW t \in Seq(S)
    PROVE  /\ Elements(s \o t) = Elements(s) \cup Elements(t) /\ Len(s \o t) = Len(s) + Len(t)
           /\ Len(s) \in Nat /\ Len(t) \in Nat
<1>1. Len(s) \in Nat /\ Len(t) \in Nat /\ DOMAIN s = 1..Len(s) /\ DOMAIN t = 1..Len(t) OBVIOUS
<1>2. Len(s \o t) = Len(s) + Len(t) /\ DOMAIN (s \o t) = 1..(Len(s) + Len(t)) OBVIOUS
<1>3. \A n \in 1..(Len(s) + Len(t)) : (s \o t)[n] = IF n <= Len(s) THEN s[n] ELSE t[n - Len(s)] OBVIOUS
<1>4. ASSUME NEW x \in Elements(s \o t) PROVE x \in Elements(s) \cup Elements(t)
  <2>1. PICK n \in 1..(Len(s) + Len(t)) : x = (s \o t)[n] BY <1>2 DEF Elements
  <2>2. CASE n <= Len(s)
    <3>1. n \in 1..Len(s) /\ x = s[n] BY <1>1, <1>3, <2>1, <2>2
    <3> QED BY <1>1, <3>1 DEF Elements
  <2>3. CASE ~(n <= Len(s))
    <3>1. n - Len(s) \in 1..Len(t) /\ x = t[n - Len(s)] BY <1>1, <1>3, <2>1, <2>3
    <3> QED BY <1>1, <3>1 DEF Elements
  <2> QED BY <2>2, <2>3
<1>5. ASSUME NEW x \in Elements(s) PROVE x \in Elements(s \o t)
  <2>1. PICK n \in 1..Len(s) : x = s[n] BY <1>1 DEF Elements
  <2>2. n \in 1..(Len(s) + Len(t)) /\ x = (s \o t)[n] BY <1>1, <1>3, <2>1
  <2> QED BY <1>2, <2>2 DEF Elements
<1>6. ASSUME NEW x \in Elements(t) PROVE x \in Elements(s \o t)
  <2>1. PICK n \in 1..Len(t) : x = t[n] BY <1>1 DEF Elements
  <2>2. PICK k \in Nat : k = n + Len(s) BY <1>1
  <2>3. k \in 1..(Len(s) + Len(t)) /\ ~(k <= Len(s)) /\ k - Len(s) = n BY <1>1, <2>2
  <2>4. x = (s \o t)[k] BY <1>3, <2>1, <2>3
  <2> QED BY <1>2, <2>3, <2>4 DEF Elements
<1> QED BY <1>1, <1>2, <1>4, <1>5, <1>6

Questions == {"departments", "type", "town", "district", "budget", "refine"}

ScreenNames == Questions \cup {"menu", "none", "condition", "list"}

\* What a screen is made of, what makes a page whole and the numbers of a
\* question right.
Proper(s) == s.name \in ScreenNames /\ s.f \in Filter /\ \A r \in s.rows : r.f \in Filter /\ r.page \in Nat

Whole(s) ==
    s.name = "list" =>
        /\ Len(s.cards \o s.lines) <= Page /\ Len(s.cards) # 1
        /\ Elements(s.cards \o s.lines) = {Suiting(s.f)[i] : i \in (s.page * Page + 1) .. (s.page * Page + Len(s.cards \o s.lines))}
        /\ s.left = Len(Suiting(s.f)) - s.page * Page - Len(s.cards \o s.lines)
        /\ s.left > 0 <=> \E r \in s.rows : r.to = "list"

Tallied(s) ==
    s.name \in Questions =>
        \A r \in s.rows : r.to \in {"town", "district", "budget", "list"} /\ r.page = 0 /\ r.count = Count(r.f) /\ r.count > 0

Good(s) == Proper(s) /\ Whole(s) /\ Tallied(s)

LEMMA TwoAreNotOne == ASSUME NEW c \in Nat, c >= 2 PROVE c # 1
OBVIOUS

LEMMA PlaceInPage ==
    ASSUME NEW m \in Nat, NEW e \in Nat, NEW last \in Nat, m < e, e <= last
    PROVE  \A i \in 1..(e - m) : m + i \in 1..last
OBVIOUS

LEMMA LeftOver ==
    ASSUME NEW m \in Nat, NEW page \in Nat, NEW last \in Nat, NEW e, e = (IF m + page < last THEN m + page ELSE last)
    PROVE  last - m - (e - m) > 0 <=> last > m + page
OBVIOUS

\* The n-th page of a filter has something to show.
HasPage(f, n) == n * Page < Count(f)

LEMMA PageIsGood ==
    ASSUME stock \in Seq(Product), NEW f \in Filter, NEW n \in Nat, HasPage(f, n)
    PROVE  Good(PageOf(f, n))
<1>1. PICK m \in Nat : m = n * Page /\ m < Count(f)
  <2>1. n * Page \in Nat BY BrowseAssumption
  <2> QED BY <2>1 DEF HasPage
<1>2. Page \in Nat \ {0} BY BrowseAssumption
<1>3. PICK ks : ks = Suiting(f) OBVIOUS
<1>4. /\ ks \in Seq(Fitting(f)) /\ Len(ks) \in Nat /\ Len(ks) = Count(f) /\ DOMAIN ks = 1..Len(ks)
      /\ \A i, j \in DOMAIN ks : ks[i] = ks[j] => i = j
      /\ Fitting(f) \in SUBSET Nat
  BY <1>3, SuitingIs, FittingIs
<1>5. PICK e \in Nat : e = IF m + Page < Len(ks) THEN m + Page ELSE Len(ks) BY <1>1, <1>2, <1>4
<1>6. m < e /\ e <= m + Page /\ e <= Len(ks) /\ e - m \in Nat BY <1>1, <1>2, <1>4, <1>5
<1>7. PICK chunk : chunk = SubSeq(ks, m + 1, e) OBVIOUS
<1>8. /\ chunk \in Seq(Fitting(f)) /\ Len(chunk) = e - m /\ DOMAIN chunk = 1..(e - m)
      /\ \A i \in 1..(e - m) : chunk[i] = ks[m + i]
  <2>1. PICK k \in Int : k = m + 1 BY <1>1
  <2>2. \A i \in k..e : ks[i] \in Fitting(f) BY <1>1, <1>4, <1>5, <1>6, <2>1
  <2>3. /\ chunk \in Seq(Fitting(f)) /\ Len(chunk) = (IF k <= e THEN e - k + 1 ELSE 0)
        /\ \A i \in 1..(e - k + 1) : chunk[i] = ks[k + i - 1]
    BY <1>5, <1>7, <2>1, <2>2, SubSeqProperties
  <2>4. e - k + 1 = e - m /\ k <= e /\ \A i \in 1..(e - m) : k + i - 1 = m + i BY <1>1, <1>5, <1>6, <2>1
  <2>5. DOMAIN chunk = 1..Len(chunk) BY <2>3
  <2> QED BY <2>3, <2>4, <2>5
<1>9. \A i, j \in DOMAIN chunk : chunk[i] = chunk[j] => i = j
  <2> SUFFICES ASSUME NEW i \in 1..(e - m), NEW j \in 1..(e - m), ks[m + i] = ks[m + j] PROVE i = j BY <1>8
  <2>1. m + i \in DOMAIN ks /\ m + j \in DOMAIN ks
    <3>1. Len(ks) \in Nat /\ DOMAIN ks = 1..Len(ks) BY <1>4
    <3>2. m + i \in 1..Len(ks) /\ m + j \in 1..Len(ks) BY <1>6, <3>1, PlaceInPage
    <3> QED BY <3>1, <3>2
  <2>2. m + i = m + j BY <2>1, <1>4
  <2> QED BY <1>1, <2>2
<1>10. PICK E : E = Elements(chunk) OBVIOUS
<1>11. IsFiniteSet(E) /\ Cardinality(E) = e - m /\ E \subseteq Fitting(f) BY <1>8, <1>9, <1>10, EachOnce
<1>12. E = {ks[i] : i \in (m + 1)..e}
  <2>1. \A i \in 1..(e - m) : m + i \in (m + 1)..e /\ chunk[i] = ks[m + i] BY <1>1, <1>5, <1>8
  <2>2. \A i \in (m + 1)..e : i - m \in 1..(e - m) /\ m + (i - m) = i BY <1>1, <1>5
  <2>3. \A i \in (m + 1)..e : chunk[i - m] = ks[i] BY <2>1, <2>2
  <2>4. E = {chunk[i] : i \in 1..(e - m)} BY <1>8, <1>10 DEF Elements
  <2>5. ASSUME NEW x \in E PROVE x \in {ks[i] : i \in (m + 1)..e}
    <3>1. PICK i \in 1..(e - m) : x = chunk[i] BY <2>4
    <3> QED BY <3>1, <2>1
  <2>6. ASSUME NEW i \in (m + 1)..e PROVE ks[i] \in E
    <3>1. PICK j \in 1..(e - m) : j = i - m BY <2>2
    <3> QED BY <3>1, <2>3, <2>4
  <2> QED BY <2>5, <2>6
<1>13. PICK P : P = {i \in E : stock[i].photo} OBVIOUS
<1>14. PICK W : W = {i \in E : ~stock[i].photo} OBVIOUS
<1>15. /\ P \cup W = E /\ P \cap W = {} /\ P \in SUBSET Nat /\ W \in SUBSET Nat BY <1>4, <1>11, <1>13, <1>14
<1>16. IsFiniteSet(P) /\ IsFiniteSet(W) BY <1>11, <1>15, FS_Subset
<1>17. Cardinality(P) \in Nat /\ Cardinality(W) \in Nat /\ Cardinality(P) + Cardinality(W) = e - m
  <2>1. Cardinality(P \cup W) = Cardinality(P) + Cardinality(W) - Cardinality(P \cap W) BY <1>16, FS_Union
  <2>2. Cardinality(P \cap W) = 0 BY <1>15, FS_EmptySet
  <2>3. Cardinality(P) \in Nat /\ Cardinality(W) \in Nat BY <1>16, FS_CardinalityType
  <2>4. Cardinality(P \cup W) = e - m BY <1>11, <1>15
  <2>5. PICK a, b \in Nat : a = Cardinality(P) /\ b = Cardinality(W) BY <2>3
  <2>6. a + b - 0 = a + b BY <2>5
  <2> QED BY <2>1, <2>2, <2>4, <2>5, <2>6
<1>18. PICK withPhoto \in Seq(Nat) : withPhoto = InOrder(P) /\ Len(withPhoto) = Cardinality(P) /\ Elements(withPhoto) = P
  <2>1. InOrder(P) \in Seq(P) /\ Len(InOrder(P)) = Cardinality(P) /\ Elements(InOrder(P)) = P BY <1>15, <1>16, InOrderIs
  <2>2. InOrder(P) \in Seq(Nat) BY <2>1, <1>15, SeqOfMore
  <2> QED BY <2>1, <2>2
<1>19. PICK without \in Seq(Nat) : without = InOrder(W) /\ Len(without) = Cardinality(W) /\ Elements(without) = W
  <2>1. InOrder(W) \in Seq(W) /\ Len(InOrder(W)) = Cardinality(W) /\ Elements(InOrder(W)) = W BY <1>15, <1>16, InOrderIs
  <2>2. InOrder(W) \in Seq(Nat) BY <2>1, <1>15, SeqOfMore
  <2> QED BY <2>1, <2>2
<1>20. PICK cards : cards = IF Len(withPhoto) >= 2 THEN withPhoto ELSE <<>> OBVIOUS
<1>21. PICK lines : lines = IF Len(withPhoto) >= 2 THEN without ELSE withPhoto \o without OBVIOUS
<1>22. cards \o lines = withPhoto \o without /\ Len(cards) # 1
  <2>1. CASE Len(withPhoto) >= 2
    <3>1. cards = withPhoto /\ lines = without BY <1>20, <1>21, <2>1
    <3>2. Len(withPhoto) \in Nat OBVIOUS
    <3>3. Len(withPhoto) # 1 BY <2>1, <3>2, TwoAreNotOne
    <3> QED BY <3>1, <3>3
  <2>2. CASE ~(Len(withPhoto) >= 2)
    <3>1. withPhoto \o without \in Seq(Nat) OBVIOUS
    <3>2. <<>> \o (withPhoto \o without) = withPhoto \o without BY <3>1, ConcatEmptySeq
    <3>3. cards = <<>> /\ lines = withPhoto \o without BY <1>20, <1>21, <2>2
    <3>4. Len(cards) # 1 BY <3>3
    <3> QED BY <3>2, <3>3, <3>4
  <2> QED BY <2>1, <2>2
<1>23. Len(cards \o lines) = e - m /\ Elements(cards \o lines) = E
  <2>1. Elements(withPhoto \o without) = P \cup W /\ Len(withPhoto \o without) = Cardinality(P) + Cardinality(W)
    BY <1>18, <1>19, BothElements
  <2> QED BY <2>1, <1>15, <1>17, <1>22
<1>24. PICK more : more = (IF Len(ks) > m + Page THEN {Choice("list", f, n + 1)} ELSE {}) OBVIOUS
<1>25. PICK refine : refine = (IF trade = "dealer" /\ Len(ks) > Page /\ Refinements(f) # {} THEN {Choice("refine", f, 0)} ELSE {}) OBVIOUS
<1>26. PageOf(f, n) = [name |-> "list", f |-> f, page |-> n, cards |-> cards, lines |-> lines, left |-> Len(ks) - m - Len(chunk),
                       rows |-> more \cup refine]
  BY <1>1, <1>3, <1>5, <1>7, <1>10, <1>13, <1>14, <1>18, <1>19, <1>20, <1>21, <1>24, <1>25 DEF PageOf
<1>27. PICK s : s = PageOf(f, n) OBVIOUS
<1>28. /\ s.name = "list" /\ s.f = f /\ s.page = n /\ s.cards = cards /\ s.lines = lines
       /\ s.left = Len(ks) - m - (e - m) /\ s.rows = more \cup refine
  BY <1>26, <1>27, <1>8
<1>29. \A r \in s.rows : r.f = f /\ r.page \in Nat /\ (r.to = "list" \/ r.to = "refine")
  <2>1. n + 1 \in Nat OBVIOUS
  <2> QED BY <1>24, <1>25, <1>28, <2>1 DEF Choice
<1>30. Proper(s) BY <1>28, <1>29 DEF Proper, ScreenNames
<1>31. Tallied(s) BY <1>28 DEF Tallied, Questions
<1>32. s.left > 0 <=> \E r \in s.rows : r.to = "list"
  <2>0. Len(ks) \in Nat /\ Page \in Nat BY <1>2, <1>4
  <2>4. Len(ks) - m - (e - m) > 0 <=> Len(ks) > m + Page BY <2>0, <1>5, LeftOver
  <2>1. s.left > 0 <=> Len(ks) > m + Page BY <2>4, <1>28
  <2>2. (\E r \in more : r.to = "list") <=> Len(ks) > m + Page BY <1>24 DEF Choice
  <2>3. \A r \in refine : r.to # "list" BY <1>25 DEF Choice
  <2> QED BY <2>1, <2>2, <2>3, <1>28
<1>33. Whole(s)
  <2>1. Len(s.cards \o s.lines) <= Page /\ Len(s.cards) # 1 BY <1>1, <1>2, <1>5, <1>6, <1>22, <1>23, <1>28
  <2>2. s.page * Page = m /\ m + (e - m) = e BY <1>1, <1>5, <1>28
  <2>3. Elements(s.cards \o s.lines) = {Suiting(s.f)[i] : i \in (s.page * Page + 1) .. (s.page * Page + Len(s.cards \o s.lines))}
    BY <2>2, <1>3, <1>12, <1>23, <1>28
  <2>4. s.left = Len(Suiting(s.f)) - s.page * Page - Len(s.cards \o s.lines) BY <2>2, <1>3, <1>23, <1>28
  <2> QED BY <2>1, <2>3, <2>4, <1>32 DEF Whole
<1> QED BY <1>27, <1>30, <1>31, <1>33 DEF Good

-----------------------------------------------------------------------------
(* The screens.                                                            *)

\* What is sent for a filter that something suits says something.
LEMMA ListingSays == ASSUME stock \in Seq(Product), NEW f, Count(f) > 0, NEW n PROVE Listing(f, n).name # "none" /\ Catalogue.name # "none"
<1>1. stock # <<>>
  <2>1. Count(f) <= Len(stock) /\ Count(f) \in Nat /\ Len(stock) \in Nat BY FittingIs
  <2>2. Len(stock) # 0 BY <2>1
  <2> QED BY <2>2
<1>2. Catalogue.name # "none" BY <1>1 DEF Catalogue, PageOf, Ask, NewScreen
<1>3. Count(f) # 0 BY FittingIs
<1>4. \A k : PageOf(f, k).name # "none" BY DEF PageOf
<1> QED BY <1>2, <1>3, <1>4 DEF Listing

LEMMA QuestionsSay ==
    ASSUME stock \in Seq(Product), NEW f, Count(f) > 0
    PROVE  BudgetQuestion(f).name # "none" /\ DistrictQuestion(f).name # "none" /\ TownQuestion(f).name # "none"
<1>1. BudgetQuestion(f).name # "none" BY ListingSays DEF BudgetQuestion, Ask, NewScreen
<1>2. DistrictQuestion(f).name # "none" BY <1>1 DEF DistrictQuestion, Ask, NewScreen
<1>3. TownQuestion(f).name # "none" BY <1>2 DEF TownQuestion, Ask, NewScreen
<1> QED BY <1>1, <1>2, <1>3

LEMMA AnswersSay ==
    ASSUME stock \in Seq(Product), NEW r, r.to \in {"town", "district", "budget", "list"}, Count(r.f) > 0
    PROVE  Answer(r).name # "none"
<1>1. CASE r.to = "town"
  <2>1. Answer(r) = TownQuestion(r.f) BY <1>1 DEF Answer
  <2> QED BY <2>1, QuestionsSay
<1>2. CASE r.to = "district"
  <2>1. Answer(r) = DistrictQuestion(r.f) BY <1>2 DEF Answer
  <2> QED BY <2>1, QuestionsSay
<1>3. CASE r.to = "budget"
  <2>1. Answer(r) = BudgetQuestion(r.f) BY <1>3 DEF Answer
  <2> QED BY <2>1, QuestionsSay
<1>4. CASE r.to = "list"
  <2>1. Answer(r) = Listing(r.f, r.page) BY <1>4 DEF Answer
  <2> QED BY <2>1, ListingSays
<1> QED BY <1>1, <1>2, <1>3, <1>4

LEMMA QuestionIsGood ==
    ASSUME stock \in Seq(Product), NEW name \in Questions, NEW next \in {"town", "district", "budget", "list"}, NEW fs, SomethingSuits(fs)
    PROVE  Good(Ask(name, next, fs))
<1>1. PICK s : s = Ask(name, next, fs) OBVIOUS
<1>2. s.name = name /\ s.f = AllOf /\ s.rows = {Choice(next, f, 0) : f \in fs} BY <1>1 DEF Ask, NewScreen
<1>3. \A r \in s.rows : r.to = next /\ r.page = 0 /\ r.count = Count(r.f) /\ r.f \in fs BY <1>2 DEF Choice
<1>4. \A r \in s.rows : r.f \in Filter /\ r.count > 0 BY <1>3 DEF SomethingSuits
<1>5. Proper(s)
  <2>1. \A r \in s.rows : r.page \in Nat BY <1>3
  <2> QED BY <1>2, <1>4, <2>1, EverythingFits DEF Proper, ScreenNames
<1>6. Tallied(s) BY <1>3, <1>4 DEF Tallied
<1>7. Whole(s) BY <1>2 DEF Whole, Questions
<1> QED BY <1>1, <1>5, <1>6, <1>7 DEF Good

\* Neither a page nor a question with numbers.
LEMMA PlainIsGood ==
    ASSUME NEW name \in {"menu", "none", "condition"}, NEW f \in Filter, NEW rows, \A r \in rows : r.f \in Filter /\ r.page \in Nat
    PROVE  Good(NewScreen(name, f, rows))
<1>1. PICK s : s = NewScreen(name, f, rows) OBVIOUS
<1>2. s.name = name /\ s.f = f /\ s.rows = rows BY <1>1 DEF NewScreen
<1> QED BY <1>1, <1>2 DEF Good, Proper, Whole, Tallied, ScreenNames, Questions

LEMMA NothingIsGood == ASSUME stock \in Seq(Product), NEW f \in Filter PROVE Good(NothingSuits(f))
<1>1. PICK rows : rows = {Choice(IF trade = "dealer" THEN "list" ELSE "menu", AllOf, 0)} OBVIOUS
<1>2. \A r \in rows : r.f \in Filter /\ r.page \in Nat BY <1>1, EverythingFits DEF Choice
<1>3. NothingSuits(f) = NewScreen("none", f, rows) BY <1>1 DEF NothingSuits
<1> QED BY <1>2, <1>3, PlainIsGood

LEMMA FirstPage == ASSUME NEW f, Count(f) > 0 PROVE HasPage(f, 0)
<1>1. 0 * Page = 0 BY BrowseAssumption
<1> QED BY <1>1 DEF HasPage

LEMMA CatalogueIsGood == ASSUME stock \in Seq(Product) PROVE Good(Catalogue)
<1>1. AllOf \in Filter /\ Fitting(AllOf) = DOMAIN stock BY EverythingFits
<1>2. CASE stock = <<>>
  <2>1. Catalogue = NothingSuits(AllOf) BY <1>2 DEF Catalogue
  <2> QED BY <1>1, <2>1, NothingIsGood
<1>3. CASE stock # <<>> /\ Departments(AllOf) = {AllOf}
  <2>1. Catalogue = PageOf(AllOf, 0) BY <1>3 DEF Catalogue
  <2>2. 1 \in DOMAIN stock BY <1>3
  <2>3. Fitting(AllOf) # {} BY <1>1, <2>2
  <2>4. Count(AllOf) \in Nat /\ Count(AllOf) # 0 BY <2>3, FittingIs
  <2>5. Count(AllOf) > 0 BY <2>4
  <2> QED BY <1>1, <2>1, <2>5, FirstPage, PageIsGood
<1>4. CASE stock # <<>> /\ Departments(AllOf) # {AllOf}
  <2>1. Catalogue = Ask("departments", "list", Departments(AllOf)) BY <1>4 DEF Catalogue
  <2>2. SomethingSuits(Departments(AllOf)) BY <1>4, DepartmentsSuit
  <2> QED BY <2>1, <2>2, QuestionIsGood DEF Questions
<1> QED BY <1>2, <1>3, <1>4

LEMMA ListingIsGood == ASSUME stock \in Seq(Product), NEW f \in Filter, NEW n \in Nat PROVE Good(Listing(f, n))
<1>1. Count(f) \in Nat BY FittingIs
<1>2. CASE Listing(f, n) = Catalogue BY <1>2, CatalogueIsGood
<1>3. CASE Listing(f, n) = NothingSuits(f) BY <1>3, NothingIsGood
<1>4. CASE Count(f) # 0 /\ n * Page >= Count(f) /\ Listing(f, n) = PageOf(f, 0)
  <2>1. Count(f) > 0 BY <1>1, <1>4
  <2> QED BY <1>4, <2>1, FirstPage, PageIsGood
<1>5. CASE ~(n * Page >= Count(f)) /\ Listing(f, n) = PageOf(f, n)
  <2>1. n * Page \in Nat BY BrowseAssumption
  <2>2. HasPage(f, n) BY <1>1, <1>5, <2>1 DEF HasPage
  <2> QED BY <1>5, <2>2, PageIsGood
<1> QED BY <1>2, <1>3, <1>4, <1>5 DEF Listing

LEMMA BudgetIsGood == ASSUME stock \in Seq(Product), NEW f \in Filter PROVE Good(BudgetQuestion(f))
<1>1. CASE Count(f) <= Page BY <1>1, ListingIsGood DEF BudgetQuestion
<1>2. CASE ~(Count(f) <= Page)
  <2>1. Count(f) > 0
    <3>1. Count(f) \in Nat /\ Page \in Nat BY FittingIs, BrowseAssumption
    <3> QED BY <1>2, <3>1
  <2>2. BudgetQuestion(f) = Ask("budget", "list", Budgets(f)) BY <1>2 DEF BudgetQuestion
  <2>3. SomethingSuits(Budgets(f)) BY <2>1, BudgetsSuit
  <2> QED BY <2>2, <2>3, QuestionIsGood DEF Questions
<1> QED BY <1>1, <1>2

\* A question is only asked of what something suits.
LEMMA AskedOfSome ==
    ASSUME stock \in Seq(Product), NEW f, Count(f) = 0
    PROVE  Towns(f) = {f} /\ Districts(f) = {f} /\ Types(f) = {}
<1>1. Fitting(f) = {} BY FittingIs
<1>2. \A attribute : Values(f, attribute) = {} BY <1>1 DEF Values
<1>3. Cardinality({}) = 0 BY FS_EmptySet
<1>4. \A attribute : Cardinality(Values(f, attribute)) < 2
  <2> TAKE attribute
  <2>1. Cardinality(Values(f, attribute)) = 0 BY <1>2, <1>3
  <2> QED BY <2>1
<1>5. Towns(f) = {f} BY <1>4 DEF Towns
<1>6. Districts(f) = {f} BY <1>4 DEF Districts
<1>7. Types(f) = {} BY <1>1 DEF Types
<1> QED BY <1>5, <1>6, <1>7

LEMMA DistrictIsGood == ASSUME stock \in Seq(Product), NEW f \in Filter PROVE Good(DistrictQuestion(f))
<1>1. CASE Districts(f) = {f} BY <1>1, BudgetIsGood DEF DistrictQuestion
<1>2. CASE Districts(f) # {f}
  <2>1. Count(f) > 0
    <3>1. Count(f) \in Nat BY FittingIs
    <3>2. Count(f) # 0 BY <1>2, AskedOfSome
    <3> QED BY <3>1, <3>2
  <2>2. DistrictQuestion(f) = Ask("district", "budget", Districts(f)) BY <1>2 DEF DistrictQuestion
  <2>3. SomethingSuits(Districts(f)) BY <2>1, DistrictsSuit
  <2> QED BY <2>2, <2>3, QuestionIsGood DEF Questions
<1> QED BY <1>1, <1>2

LEMMA TownIsGood == ASSUME stock \in Seq(Product), NEW f \in Filter PROVE Good(TownQuestion(f))
<1>1. CASE Towns(f) = {f} BY <1>1, DistrictIsGood DEF TownQuestion
<1>2. CASE Towns(f) # {f}
  <2>1. Count(f) > 0
    <3>1. Count(f) \in Nat BY FittingIs
    <3>2. Count(f) # 0 BY <1>2, AskedOfSome
    <3> QED BY <3>1, <3>2
  <2>2. TownQuestion(f) = Ask("town", "district", Towns(f)) BY <1>2 DEF TownQuestion
  <2>3. SomethingSuits(Towns(f)) BY <2>1, TownsSuit
  <2> QED BY <2>2, <2>3, QuestionIsGood DEF Questions
<1> QED BY <1>1, <1>2

LEMMA TypeIsGood == ASSUME stock \in Seq(Product), NEW f \in Filter PROVE Good(TypeQuestion(f))
<1>1. CASE Count(f) = 0 BY <1>1, NothingIsGood DEF TypeQuestion
<1>2. CASE Count(f) # 0
  <2>1. Count(f) > 0
    <3>1. Count(f) \in Nat BY FittingIs
    <3> QED BY <1>2, <3>1
  <2>2. SomethingSuits(Types(f)) /\ Types(f) # {} BY <2>1, TypesSuit
  <2>3. CASE OneType(f)
    <3>1. Only(Types(f)) \in Types(f) BY <2>2 DEF Only
    <3>2. Only(Types(f)) \in Filter BY <2>2, <3>1 DEF SomethingSuits
    <3>3. TypeQuestion(f) = TownQuestion(Only(Types(f))) BY <1>2, <2>3 DEF TypeQuestion
    <3> QED BY <3>2, <3>3, TownIsGood
  <2>4. CASE ~OneType(f)
    <3>1. TypeQuestion(f) = Ask("type", "town", Types(f)) BY <1>2, <2>4 DEF TypeQuestion
    <3> QED BY <2>2, <3>1, QuestionIsGood DEF Questions
  <2> QED BY <2>3, <2>4
<1> QED BY <1>1, <1>2

LEMMA ConditionIsGood == ASSUME stock \in Seq(Product) PROVE Good(ConditionQuestion)
<1>1. AllOf \in Filter BY EverythingFits
<1>2. CASE stock = <<>>
  <2>1. ConditionQuestion = NothingSuits(AllOf) BY <1>2 DEF ConditionQuestion
  <2> QED BY <1>1, <2>1, NothingIsGood
<1>3. CASE stock # <<>> /\ Conditions(AllOf) = {AllOf}
  <2>1. ConditionQuestion = BudgetQuestion(AllOf) BY <1>3 DEF ConditionQuestion
  <2> QED BY <1>1, <2>1, BudgetIsGood
<1>4. CASE stock # <<>> /\ Conditions(AllOf) # {AllOf}
  <2>1. PICK rows : rows = {Choice("budget", f, 0) : f \in Conditions(AllOf)} OBVIOUS
  <2>2. ConditionQuestion = NewScreen("condition", AllOf, rows) BY <1>4, <2>1 DEF ConditionQuestion, Ask
  <2>3. \A g \in Conditions(AllOf) : g \in Filter BY <1>1, FilterSet DEF Conditions
  <2>4. \A r \in rows : r.f \in Filter /\ r.page \in Nat BY <2>1, <2>3 DEF Choice
  <2> QED BY <1>1, <2>2, <2>4, PlainIsGood
<1> QED BY <1>2, <1>3, <1>4

LEMMA RefineIsGood == ASSUME stock \in Seq(Product), NEW f \in Filter PROVE Good(Refine(f))
<1>1. CASE Refinements(f) = {} BY <1>1, ListingIsGood DEF Refine
<1>2. CASE Refinements(f) # {}
  <2>1. Refine(f) = Ask("refine", "list", Refinements(f)) BY <1>2 DEF Refine
  <2>2. SomethingSuits(Refinements(f)) BY RefinementsSuit
  <2> QED BY <2>1, <2>2, QuestionIsGood DEF Questions
<1> QED BY <1>1, <1>2

LEMMA MenuIsGood == ASSUME stock \in Seq(Product) PROVE Good(Menu)
<1>1. AllOf \in Filter BY EverythingFits
<1>2. PICK rows : rows = IF trade = "agency" THEN {Choice("type", [AllOf EXCEPT !.t = t], 0) : t \in {"L", "V"}}
                         ELSE {Choice("start", AllOf, 0)}
                                \cup IF trade = "shop" /\ \E i \in DOMAIN stock : stock[i].offer
                                     THEN {Choice("list", [AllOf EXCEPT !.offers = TRUE], 0)} ELSE {}
  OBVIOUS
<1>3. \A t \in {"L", "V"} : [AllOf EXCEPT !.t = t] \in Filter BY <1>1, FilterSet
<1>4. [AllOf EXCEPT !.offers = TRUE] \in Filter BY <1>1, FilterSet
<1>5. \A to, g : Choice(to, g, 0).f = g /\ Choice(to, g, 0).page = 0 BY DEF Choice
<1>6. \A r \in rows : r.f \in Filter /\ r.page \in Nat
  <2>1. CASE trade = "agency"
    <3>1. rows = {Choice("type", [AllOf EXCEPT !.t = t], 0) : t \in {"L", "V"}} BY <1>2, <2>1
    <3> QED BY <1>3, <1>5, <3>1
  <2>2. CASE trade # "agency"
    <3>1. rows \subseteq {Choice("start", AllOf, 0), Choice("list", [AllOf EXCEPT !.offers = TRUE], 0)} BY <1>2, <2>2
    <3>2. \A r \in rows : r = Choice("start", AllOf, 0) \/ r = Choice("list", [AllOf EXCEPT !.offers = TRUE], 0) BY <3>1
    <3>3. PICK g : g = [AllOf EXCEPT !.offers = TRUE] OBVIOUS
    <3>4. \A r \in rows : r.f \in {AllOf, g} /\ r.page = 0 BY <1>5, <3>2, <3>3
    <3>5. g \in Filter BY <1>4, <3>3
    <3> HIDE <3>3
    <3> QED BY <1>1, <3>4, <3>5
  <2> QED BY <2>1, <2>2
<1>7. Menu = NewScreen("menu", AllOf, rows) BY <1>2 DEF Menu
<1> QED BY <1>1, <1>6, <1>7, PlainIsGood

LEMMA AnswerIsGood == ASSUME stock \in Seq(Product), NEW r, r.f \in Filter, r.page \in Nat PROVE Good(Answer(r))
<1>1. CASE r.to = "start"
  <2>1. Answer(r) = IF trade = "shop" THEN Catalogue ELSE ConditionQuestion BY <1>1 DEF Answer
  <2> QED BY <2>1, CatalogueIsGood, ConditionIsGood
<1>2. CASE r.to = "type"
  <2>1. Answer(r) = TypeQuestion(r.f) BY <1>2 DEF Answer
  <2> QED BY <2>1, TypeIsGood
<1>3. CASE r.to = "town"
  <2>1. Answer(r) = TownQuestion(r.f) BY <1>3 DEF Answer
  <2> QED BY <2>1, TownIsGood
<1>4. CASE r.to = "district"
  <2>1. Answer(r) = DistrictQuestion(r.f) BY <1>4 DEF Answer
  <2> QED BY <2>1, DistrictIsGood
<1>5. CASE r.to = "budget"
  <2>1. Answer(r) = BudgetQuestion(r.f) BY <1>5 DEF Answer
  <2> QED BY <2>1, BudgetIsGood
<1>6. CASE r.to = "refine"
  <2>1. Answer(r) = Refine(r.f) BY <1>6 DEF Answer
  <2> QED BY <2>1, RefineIsGood
<1>7. CASE r.to = "list"
  <2>1. Answer(r) = Listing(r.f, r.page) BY <1>7 DEF Answer
  <2> QED BY <2>1, ListingIsGood
<1>8. CASE r.to \notin {"start", "type", "town", "district", "budget", "refine", "list"}
  <2>1. Answer(r) = Menu BY <1>8 DEF Answer
  <2> QED BY <2>1, MenuIsGood
<1> QED BY <1>1, <1>2, <1>3, <1>4, <1>5, <1>6, <1>7, <1>8

-----------------------------------------------------------------------------
(* The screen is right as long as nothing was sold.                        *)

Searches == {<<>>} \cup {<<f>> : f \in Filter}

BrowseInv ==
    /\ trade \in {"shop", "dealer", "agency"} /\ stock \in Seq(Product) /\ fresh \in BOOLEAN
    /\ "search" \in DOMAIN profile /\ profile.search \in Searches
    /\ Proper(screen)
    /\ fresh => Whole(screen) /\ Tallied(screen)

LEMMA BrowseStarts == BrowseInit => BrowseInv
<1> SUFFICES ASSUME BrowseInit PROVE BrowseInv OBVIOUS
<1>1. trade \in {"shop", "dealer", "agency"} /\ stock \in Seq(Product) BY BrowseAssumption DEF BrowseInit
<1>2. "search" \in DOMAIN profile /\ profile.search \in Searches BY DEF BrowseInit, Searches
<1>3. Good(screen) BY <1>1, MenuIsGood DEF BrowseInit
<1>4. fresh \in BOOLEAN BY DEF BrowseInit
<1> QED BY <1>1, <1>2, <1>3, <1>4 DEF BrowseInv, Good

\* What is good stays so while the stock is the same.
LEMMA GoodStays == ASSUME UNCHANGED stock PROVE \A s : (Whole(s) => Whole(s)') /\ (Tallied(s) => Tallied(s)')
<1>1. \A f : Fitting(f)' = Fitting(f) BY DEF Fitting
<1>2. \A f : Suiting(f)' = Suiting(f) BY <1>1 DEF Suiting
<1>3. \A f : Count(f)' = Count(f) BY <1>1 DEF Count
<1>4. \A s : Whole(s) => Whole(s)' BY <1>2 DEF Whole
<1>5. \A s : Tallied(s) => Tallied(s)' BY <1>3 DEF Tallied
<1> QED BY <1>4, <1>5

LEMMA GoodScreenNext ==
    ASSUME UNCHANGED stock, NEW s, s = screen', Good(s)
    PROVE  Proper(screen)' /\ Whole(screen)' /\ Tallied(screen)'
<1>1. Proper(s) /\ Whole(s) /\ Tallied(s) BY DEF Good
<1>2. Whole(s)' /\ Tallied(s)' BY <1>1, GoodStays
<1>3. Proper(screen)' BY <1>1 DEF Proper
<1>4. Whole(screen)' BY <1>2 DEF Whole
<1>5. Tallied(screen)' BY <1>2 DEF Tallied
<1> QED BY <1>3, <1>4, <1>5

LEMMA TapKeeps == ASSUME BrowseInv, TapRow PROVE BrowseInv'
<1>1. PICK row \in screen.rows :
        /\ screen' = Answer(row)
        /\ profile' = CASE trade = "agency" /\ row.to # "menu" -> NotedByAgency(row, screen')
                        [] trade = "dealer" -> NotedByDealer(row)
                        [] OTHER -> profile
        /\ fresh' = TRUE
        /\ UNCHANGED <<trade, stock>>
  BY DEF TapRow
<1>2. row.f \in Filter /\ row.page \in Nat BY <1>1 DEF BrowseInv, Proper
<1>3. stock \in Seq(Product) BY DEF BrowseInv
<1>4. PICK s : s = Answer(row) OBVIOUS
<1>5. Good(s) BY <1>2, <1>3, <1>4, AnswerIsGood
<1>6. Proper(screen)' /\ Whole(screen)' /\ Tallied(screen)' BY <1>1, <1>4, <1>5, GoodScreenNext
<1>7. "search" \in DOMAIN profile' /\ profile'.search \in Searches
  <2>1. "search" \in DOMAIN profile /\ profile.search \in Searches BY DEF BrowseInv
  <2>2. s.f \in Filter BY <1>5 DEF Good, Proper
  <2>3. CASE profile' = NotedByAgency(row, screen')
    <3>1. PICK search : search = (IF row.to = "list" THEN <<row.f>>
                                  ELSE IF s.name = "list" \/ (s.name = "none" /\ row.to # "type") THEN <<s.f>> ELSE profile.search)
      OBVIOUS
    <3>2. search \in Searches BY <1>2, <2>1, <2>2, <3>1 DEF Searches
    <3>3. DOMAIN profile' = DOMAIN profile /\ profile'.search = search
      BY <1>1, <1>4, <2>1, <2>3, <3>1 DEF NotedByAgency
    <3> QED BY <2>1, <3>2, <3>3
  <2>4. CASE profile' = NotedByDealer(row)
    <3>1. DOMAIN profile' = DOMAIN profile /\ profile'.search = profile.search BY <2>1, <2>4 DEF NotedByDealer
    <3> QED BY <2>1, <3>1
  <2>5. CASE profile' = profile BY <2>1, <2>5
  <2> QED BY <1>1, <2>3, <2>4, <2>5
<1>8. trade' \in {"shop", "dealer", "agency"} /\ stock' \in Seq(Product) /\ fresh' \in BOOLEAN BY <1>1 DEF BrowseInv
<1> QED BY <1>6, <1>7, <1>8 DEF BrowseInv

LEMMA OthersKeep == ASSUME BrowseInv, SeeOthers PROVE BrowseInv'
<1>1. stock \in Seq(Product) /\ profile.search \in Searches BY DEF BrowseInv
<1>2. PICK s : s = IF profile.search = <<>> THEN Menu ELSE Listing(profile.search[1], 0) OBVIOUS
<1>3. Good(s)
  <2>1. CASE profile.search = <<>> BY <1>1, <1>2, <2>1, MenuIsGood
  <2>2. CASE profile.search # <<>>
    <3>1. PICK f \in Filter : profile.search = <<f>> BY <1>1, <2>2 DEF Searches
    <3>2. s = Listing(f, 0) BY <1>2, <2>2, <3>1
    <3> QED BY <1>1, <3>2, ListingIsGood
  <2> QED BY <2>1, <2>2
<1>4. screen' = s /\ fresh' = TRUE /\ UNCHANGED <<trade, stock, profile>> BY <1>2 DEF SeeOthers
<1>5. Proper(screen)' /\ Whole(screen)' /\ Tallied(screen)' BY <1>3, <1>4, GoodScreenNext
<1>6. trade' \in {"shop", "dealer", "agency"} /\ stock' \in Seq(Product) /\ fresh' \in BOOLEAN BY <1>4 DEF BrowseInv
<1>7. "search" \in DOMAIN profile' /\ profile'.search \in Searches BY <1>4 DEF BrowseInv
<1> QED BY <1>5, <1>6, <1>7 DEF BrowseInv

LEMMA OneLess ==
    ASSUME NEW S, NEW s \in Seq(S), NEW i \in DOMAIN s
    PROVE  [j \in 1 .. (Len(s) - 1) |-> IF j < i THEN s[j] ELSE s[j + 1]] \in Seq(S)
<1>1. PICK last \in Nat : last = Len(s) OBVIOUS
<1>2. i \in 1..last /\ last - 1 \in Nat BY <1>1
<1>3. \A j \in 1..(last - 1) : j \in 1..last /\ j + 1 \in 1..last BY <1>1
<1>4. \A j \in 1..last : s[j] \in S BY <1>1
<1>5. \A j \in 1..(last - 1) : (IF j < i THEN s[j] ELSE s[j + 1]) \in S BY <1>3, <1>4
<1> QED BY <1>1, <1>2, <1>5

LEMMA SaleKeeps == ASSUME BrowseInv, Sold PROVE BrowseInv'
<1>1. PICK i \in DOMAIN stock :
        /\ stock' = [j \in 1 .. (Len(stock) - 1) |-> IF j < i THEN stock[j] ELSE stock[j + 1]]
        /\ fresh' = FALSE
        /\ UNCHANGED <<trade, screen, profile>>
  BY DEF Sold
<1>2. stock' \in Seq(Product) BY <1>1, OneLess DEF BrowseInv
<1>3. Proper(screen)' BY <1>1 DEF BrowseInv, Proper
<1> QED BY <1>1, <1>2, <1>3 DEF BrowseInv

LEMMA BrowseSteps == BrowseInv /\ [BrowseNext]_browseVars => BrowseInv'
<1> SUFFICES ASSUME BrowseInv, [BrowseNext]_browseVars PROVE BrowseInv' OBVIOUS
<1>1. CASE TapRow BY <1>1, TapKeeps
<1>2. CASE SeeOthers BY <1>2, OthersKeep
<1>3. CASE Sold BY <1>3, SaleKeeps
<1>4. CASE UNCHANGED browseVars
  <2>1. UNCHANGED <<trade, stock, screen, profile, fresh>> BY <1>4 DEF browseVars
  <2>2. Proper(screen)' BY <2>1 DEF BrowseInv, Proper
  <2>3. Whole(screen) => Whole(screen)'
    <3>1. \A s : Whole(s) => Whole(s)' BY <2>1, GoodStays
    <3>2. PICK s : s = screen OBVIOUS
    <3>3. Whole(screen) => Whole(s)' BY <3>1, <3>2
    <3>4. Whole(s)' => Whole(screen)' BY <2>1, <3>2 DEF Whole
    <3> QED BY <3>3, <3>4
  <2>4. Tallied(screen) => Tallied(screen)'
    <3>1. \A s : Tallied(s) => Tallied(s)' BY <2>1, GoodStays
    <3>2. PICK s : s = screen OBVIOUS
    <3>3. Tallied(screen) => Tallied(s)' BY <3>1, <3>2
    <3>4. Tallied(s)' => Tallied(screen)' BY <2>1, <3>2 DEF Tallied
    <3> QED BY <3>3, <3>4
  <2> QED BY <2>1, <2>2, <2>3, <2>4 DEF BrowseInv
<1> QED BY <1>1, <1>2, <1>3, <1>4 DEF BrowseNext

LEMMA BrowseInvHolds == BrowseSpec => []BrowseInv
<1>1. BrowseInit => BrowseInv BY BrowseStarts
<1>2. BrowseInv /\ [BrowseNext]_browseVars => BrowseInv' BY BrowseSteps
<1> QED BY <1>1, <1>2, PTL DEF BrowseSpec

LEMMA BrowseTyped == BrowseInv => BrowseTypeOK
<1> SUFFICES ASSUME BrowseInv PROVE BrowseTypeOK OBVIOUS
<1>1. screen.name \in {"menu", "none", "departments", "condition", "type", "town", "district", "budget", "refine", "list"}
  BY DEF BrowseInv, Proper, ScreenNames, Questions
<1> QED BY <1>1 DEF BrowseInv, BrowseTypeOK

LEMMA WholePages == BrowseInv => PagesAreWhole
<1> SUFFICES ASSUME BrowseInv PROVE PagesAreWhole OBVIOUS
<1>1. fresh => Whole(screen) BY DEF BrowseInv
<1> QED BY <1>1 DEF Whole, PagesAreWhole

LEMMA TrueCounts == BrowseInv => CountsAreTrue
<1> SUFFICES ASSUME BrowseInv, fresh, screen.name \in Questions, NEW r \in screen.rows
             PROVE  r.count > 0 /\ r.count = Len(Suiting(r.f)) /\ Answer(r).name # "none"
  BY DEF CountsAreTrue, Questions
<1>1. r.to \in {"town", "district", "budget", "list"} /\ r.count = Count(r.f) /\ r.count > 0 BY DEF BrowseInv, Tallied
<1>2. stock \in Seq(Product) BY DEF BrowseInv
<1>3. Len(Suiting(r.f)) = Count(r.f) BY <1>2, SuitingIs
<1>4. Answer(r).name # "none" BY <1>1, <1>2, AnswersSay
<1> QED BY <1>1, <1>3, <1>4

LEMMA BrowseIsRight == BrowseInv => BrowseRight
<1> SUFFICES ASSUME BrowseInv PROVE BrowseRight OBVIOUS
<1>1. EverythingIsReached BY ReachesEverything DEF BrowseInv
<1>2. OneBudgetEach BY EachHasOneBudget DEF BrowseInv
<1> QED BY <1>1, <1>2, WholePages, TrueCounts DEF BrowseRight

-----------------------------------------------------------------------------
(* What a customer does with all of it, and all the flows.                 *)

\* The customer's answers, the screens and the rows of the guided flows are
\* what the code expects them to be, whatever he touches and whatever is lost.
THEOREM GuidedTypeCorrect == BrowseSpec /\ TradeSpec /\ DeliverySpec => [](BrowseTypeOK /\ TradeTypeOK /\ DeliveryTypeOK)
BY BrowseInvHolds, BrowseTyped, TradeInvHolds, TradeTyped, DeliveryInvHolds, DeliveryTyped, PTL

\* For any stock, page and answers: every product that suits is reached by the
\* questions and counted once (guided_flow.py, immo_flow.py), the car and the
\* requests are those the customer gave (auto_flow.py:408-428), and a screen
\* that was not delivered is replaced, once (guided_flow.py:545).
THEOREM GuidedHolds == BrowseSpec /\ TradeSpec /\ DeliverySpec => []GuidedRight
<1>1. BrowseInv /\ TradeInv /\ DeliveryInv => GuidedRight
  BY BrowseIsRight, CarIsOne, OneRequestEach, NoneLeftUnread, OnceReplaced DEF GuidedRight
<1> QED BY <1>1, BrowseInvHolds, TradeInvHolds, DeliveryInvHolds, PTL

\* The rows and jobs of every flow a message or a button starts, side by side.
THEOREM FlowsTypeCorrect ==
    CartSpec /\ RestoSpec /\ NaomySpec /\ BoxSpec /\ ChatSpec /\ LeadsSpec /\ InsuranceSpec
    /\ BrowseSpec /\ TradeSpec /\ DeliverySpec => []FlowsTypeOK
<1>1. CartTypeOK /\ RestoTypeOK /\ NaomyTypeOK /\ BoxTypeOK /\ ChatTypeOK /\ LeadsTypeOK /\ InsuranceTypeOK
      /\ (BrowseTypeOK /\ TradeTypeOK /\ DeliveryTypeOK) => FlowsTypeOK
  BY DEF FlowsTypeOK
<1> QED BY <1>1, CartTypeCorrect, RestoTypeCorrect, NaomyTypeCorrect, BoxTypeCorrect, ChatTypeCorrect,
           LeadsTypeCorrect, DeskTypeCorrect, GuidedTypeCorrect, PTL
=============================================================================
