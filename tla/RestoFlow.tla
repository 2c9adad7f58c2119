------------------------------ MODULE RestoFlow -----------------------------
(***************************************************************************)
(* A customer orders from a restaurant with buttons: dishes, how he gets   *)
(* them, where (commune and address, or the table, which a code to scan on *)
(* it tells), how he pays, recap, order; or now, or for later when the     *)
(* kitchen is closed.  Any button ever sent may be touched at any time.    *)
(*                                                                         *)
(* The basket is empty or not, and its dishes are served today or not; how *)
(* he pays is the shop's only way or a question, which holds nothing back; *)
(* the answer to one touch is atomic.                                      *)
(***************************************************************************)
EXTENDS Integers

CONSTANTS
    Communes,       \* the communes delivered to that the shop may set
    MealModes,      \* the sets of modes the shop may accept
    MaxMeals        \* bound on the orders

VARIABLES
    tray,       \* the cart's row
    kitchen,    \* [modes, zones, open, served]: settings and moment
    home,       \* the customer's usual address is known
    misled,     \* the last touch got the welcome screen without asking for it
    meals,      \* number of orders
    named       \* the table was scanned or written since the cart was emptied

restoVars == <<tray, kitchen, home, misled, meals, named>>

AnyMode == {"PICKUP", "DELIVERY", "DINE_IN"}
Undecided   == "unset"

ASSUME RestoAssumption == MealModes \subseteq SUBSET AnyMode /\ Undecided \notin Communes /\ MaxMeals \in Nat

\* A table is "seated" for three hours after the scan, then "left".
Tray == [full : BOOLEAN, mode : AnyMode \cup {Undecided}, address : BOOLEAN, awaiting : {Undecided, "qty", "table", "address"},
         area : Communes \cup {Undecided}, table : {Undecided, "written", "seated", "left"}, later : BOOLEAN]
EmptyTray == [full |-> FALSE, mode |-> Undecided, address |-> FALSE, awaiting |-> Undecided, area |-> Undecided,
              table |-> Undecided, later |-> FALSE]

RestoInit ==
    /\ tray = EmptyTray
    /\ kitchen \in [modes : MealModes, zones : {{}, Communes}, open : {TRUE}, served : {TRUE}]
    /\ home \in BOOLEAN
    /\ misled = FALSE /\ meals = 0 /\ named = FALSE

-----------------------------------------------------------------------------
(* The screens, and what each does to the cart.                            *)

Seated(c) == c.table = "seated"

\* Faulty variant: the table stays, whenever it was scanned.
KeptAlways(c) == [EmptyTray EXCEPT !.table = c.table]

\* What outlives an order or an emptied cart: the table, while he sits at it.
Kept(c) == IF Seated(c) THEN [EmptyTray EXCEPT !.table = c.table] ELSE EmptyTray

Screen(c) == tray' = c /\ misled' = FALSE
Welcome   == Screen(tray)

\* Dishes no longer served are taken out.
ShowTray(c) == Screen([c EXCEPT !.full = @ /\ kitchen.served])

AskHome(c) == Screen([c EXCEPT !.mode = "DELIVERY", !.awaiting = IF home THEN Undecided ELSE "address"])

DeliveryStart(c) == IF kitchen.zones # {} THEN Screen(c) ELSE AskHome(c)

AskTable(c) == Screen([c EXCEPT !.mode = "DINE_IN", !.area = Undecided, !.awaiting = "table"])

MissingArea(c)    == c.mode = "DELIVERY" /\ kitchen.zones # {} /\ c.area \notin kitchen.zones
MissingAddress(c) == c.mode = "DELIVERY" /\ ~c.address
MissingTable(c)   == c.mode = "DINE_IN" /\ c.table = Undecided

\* The first of the steps that is missing, or the recap.
RecapTray(c) ==
    CASE MissingArea(c)                        -> DeliveryStart(c)
      [] ~MissingArea(c) /\ MissingAddress(c)  -> AskHome(c)
      [] MissingTable(c)                       -> AskTable(c)
      [] OTHER                                 -> Screen(c)

\* The question of a shop with a payment link, or on to the recap.
AskPayment(c) == Screen(c) \/ RecapTray(c)

\* As the code has it: without communes, the choice of a delivery answers
\* nothing, and the welcome screen is sent in its place.
ChooseMealMode(c, mode) ==
    LET chosen == [c EXCEPT !.mode = mode, !.area = Undecided] IN
    CASE mode = "DELIVERY" -> tray' = chosen /\ misled' = (kitchen.zones = {})
      [] mode = "DINE_IN"  -> IF c.table # Undecided THEN AskPayment(chosen) ELSE AskTable(chosen)
      [] mode = "PICKUP"   -> AskPayment([chosen EXCEPT !.address = FALSE, !.awaiting = Undecided])

\* "Commander" the cart.
OrderTray(c) ==
    IF ~c.full \/ ~kitchen.served THEN ShowTray(c)
    ELSE IF (~kitchen.open /\ ~c.later) \/ kitchen.modes = {} THEN Screen(c)
    ELSE IF "DINE_IN" \in kitchen.modes /\ Seated(c) THEN ChooseMealMode(c, "DINE_IN")
    ELSE IF \E m \in AnyMode : kitchen.modes = {m}
         THEN \E m \in kitchen.modes : ChooseMealMode(c, m)
    ELSE Screen(c)

RecapOrOrder(c) ==
    IF ~c.full \/ ~kitchen.served THEN ShowTray(c)
    ELSE IF c.mode \notin kitchen.modes THEN OrderTray(c)
    ELSE RecapTray(c)

\* The question is skipped without a payment link.
Payment(c) ==
    IF ~c.full \/ c.mode = Undecided THEN OrderTray(c) ELSE Screen(c) \/ RecapOrOrder(c)

-----------------------------------------------------------------------------
(* The touches and the messages that the cart expects.                     *)

AddDish   == Screen(IF kitchen.served THEN [tray EXCEPT !.full = TRUE, !.awaiting = Undecided] ELSE tray)
AskQty    == Screen([tray EXCEPT !.awaiting = "qty"])
ClearTray == Screen(Kept(tray))

SetLater == LET c == [tray EXCEPT !.later = TRUE] IN IF c.full THEN OrderTray(c) ELSE Screen(c)

TapMode(mode) ==
    IF ~tray.full \/ mode \notin kitchen.modes THEN OrderTray(tray) ELSE ChooseMealMode(tray, mode)

ChooseArea(a) == IF ~tray.full THEN ShowTray(tray) ELSE AskHome([tray EXCEPT !.area = a])

AddressAnswer(same) ==
    IF ~tray.full THEN ShowTray(tray)
    ELSE IF same /\ home THEN Payment([tray EXCEPT !.address = TRUE, !.awaiting = Undecided])
    ELSE Screen([tray EXCEPT !.awaiting = "address"])

ChoosePayment == IF ~tray.full \/ tray.mode = Undecided THEN OrderTray(tray) ELSE RecapOrOrder(tray)

\* What is awaited, or the AI answers and nothing is awaited any more.
Writes(what) ==
    CASE tray.awaiting = "qty" /\ what = "number"     -> AddDish
      [] tray.awaiting = "table" /\ what = "number"   -> Payment([tray EXCEPT !.awaiting = Undecided, !.table = "written"])
      [] tray.awaiting = "address" /\ what = "address" -> Payment([tray EXCEPT !.awaiting = Undecided, !.address = TRUE])
      [] OTHER -> Screen([tray EXCEPT !.awaiting = Undecided])

\* The code on a table.
AtTable ==
    IF "DINE_IN" \notin kitchen.modes THEN Welcome
    ELSE Screen([tray EXCEPT !.table = "seated", !.later = FALSE])

CanPlace ==
    /\ tray.full /\ kitchen.served /\ tray.mode \in kitchen.modes
    /\ kitchen.open \/ tray.later
    /\ ~MissingArea(tray) /\ ~MissingAddress(tray) /\ ~MissingTable(tray)

NotPlaced ==
    IF ~tray.full \/ ~kitchen.served THEN ShowTray(tray)
    ELSE IF tray.mode \notin kitchen.modes THEN RecapOrOrder(tray)
    ELSE IF ~kitchen.open /\ ~tray.later THEN Screen(tray)
    ELSE RecapTray(tray)

\* A touch and its answer; a cart emptied of its table has none named.
TouchFlow(answer) ==
    /\ answer
    /\ named' = (named /\ tray'.table # Undecided)
    /\ UNCHANGED <<kitchen, home, meals>>

\* The table is told: by the code on it, or in writing.
TouchTable(answer) ==
    /\ answer
    /\ named' = (named \/ tray'.table \in {"seated", "written"})
    /\ UNCHANGED <<kitchen, home, meals>>

PlaceMeal ==
    /\ meals < MaxMeals /\ CanPlace
    /\ meals' = meals + 1
    /\ Screen(Kept(tray))
    /\ named' = Seated(tray)
    /\ UNCHANGED <<kitchen, home>>

\* A day without a touch empties the cart, two hours what was awaited; the
\* hour of a later order comes, the three hours at the table pass.
TimePasses ==
    /\ tray' \in {EmptyTray, [tray EXCEPT !.awaiting = Undecided], [tray EXCEPT !.later = FALSE],
                  [tray EXCEPT !.table = IF Seated(tray) THEN "left" ELSE @]}
    /\ UNCHANGED misled

KitchenChanges ==
    /\ kitchen' \in {[kitchen EXCEPT !.open = ~@], [kitchen EXCEPT !.served = ~@]}
                    \cup {[kitchen EXCEPT !.modes = m] : m \in MealModes}
    /\ UNCHANGED <<tray, home, misled, meals, named>>

RestoNext ==
    \/ TouchFlow(Welcome \/ AddDish \/ AskQty \/ ShowTray(tray) \/ ClearTray)
    \/ TouchFlow(OrderTray(tray)) \/ TouchFlow(SetLater) \/ TouchFlow(ChoosePayment)
    \/ \E m \in AnyMode : TouchFlow(TapMode(m))
    \/ \E a \in kitchen.zones : TouchFlow(ChooseArea(a))
    \/ \E same \in BOOLEAN : TouchFlow(AddressAnswer(same))
    \/ \E w \in {"number", "address", "else"} : TouchTable(Writes(w))
    \/ TouchTable(AtTable)
    \/ PlaceMeal \/ (~CanPlace /\ TouchFlow(NotPlaced))
    \/ TouchFlow(TimePasses)
    \/ KitchenChanges

RestoSpec == RestoInit /\ [][RestoNext]_restoVars

-----------------------------------------------------------------------------
(* Properties.                                                             *)

RestoTypeOK ==
    /\ tray \in Tray /\ misled \in BOOLEAN /\ named \in BOOLEAN /\ home \in BOOLEAN
    /\ meals \in 0..MaxMeals
    /\ kitchen.modes \subseteq AnyMode /\ kitchen.zones \subseteq Communes

\* A dish is never brought to the table of an earlier meal: the customer
\* scanned or wrote the table since his last order, unless he still sat at
\* it then.
TableIsOfThisMeal ==
    [][meals' # meals /\ tray.mode = "DINE_IN" => named]_restoVars

\* "Livraison" leads to the commune, to the address, to the cart or to the
\* hours of the kitchen; the welcome screen is for who asks for it.  Not so,
\* and checked by no run: where no commune is set, a delivery leads to it.
WelcomeWhenAsked == ~misled

\* A customer sits at the table of the code he scanned for three hours, and
\* no dish is ordered to it later.  Not so, and checked by no run: a table that
\* was named and not used stays in the cart.
TableIsFresh ==
    [][meals' # meals /\ tray.mode = "DINE_IN" => tray.table # "left"]_restoVars
=============================================================================
