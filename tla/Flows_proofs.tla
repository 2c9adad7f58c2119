---------------------------- MODULE Flows_proofs ----------------------------
(***************************************************************************)
(* What TLAPS proves of the flows that start from a message or a button:   *)
(* the purchases with buttons in a shop and in a restaurant, what Naomy is *)
(* told of its customers and articles, and what Bob writes to the merchant.*)
(* For every shop, kitchen, catalogue and outbox, and for every order in   *)
(* which buttons are touched, passes run and processes stop.               *)
(***************************************************************************)
EXTENDS CartFlow, RestoFlow, NaomyBridge, AssistantOutbox, MerchantChat, InboundLeads, InsuranceDesk,
        DataInduction, SequenceTheorems, FiniteSetTheorems, TLAPS

-----------------------------------------------------------------------------
(* The shop's cart: the inductive invariant.                               *)

CartRow    == [quantity : 0..MaxQty, fulfillment : CartModes \cup {None}, address : Addresses \cup {None},
           awaiting : {None, "address", "quantity"}]
Screens == [quantity : 0..MaxQty, fulfillment : CartModes \cup {None}, address : Addresses \cup {None}]

\* The values the variables may have.
CartKinds ==
    /\ basket \in CartRow /\ onSale \in 0..MaxQty /\ settings \in SUBSET CartModes /\ habit \in BOOLEAN
    /\ seen \in Screens /\ given \in Addresses \cup {None}
    /\ placed \in Seq(Screens) /\ Len(placed) <= MaxPlaced

\* An address is kept with a delivery only.
NoStrayAddress(c) == c.fulfillment # "DELIVERY" => c.address = None

\* The way the order leaves the shop, once it is known, is on the recap or
\* was said by the customer.
Told(c, recap, said) ==
    \/ c.fulfillment = None
    \/ c.fulfillment = "DELIVERY" /\ c.address = None
    \/ c.fulfillment = recap.fulfillment /\ c.address = recap.address
    \/ c.fulfillment = "DELIVERY" /\ c.address = said

\* A cart from which a screen may start, and what it leaves of it.
Sound(c, recap, said) ==
    /\ c \in CartRow /\ NoStrayAddress(c) /\ Told(c, recap, said)
    /\ c.quantity <= recap.quantity

CartInv == CartKinds /\ Sound(basket, seen, given)

\* What every screen does, from any cart it may be given: the new cart and
\* the new recap agree, whoever says where to deliver.
Answers(a) ==
    /\ basket' \in CartRow /\ seen' \in Screens
    /\ NoStrayAddress(basket')
    /\ Told(basket', seen', a)
    /\ basket'.quantity <= seen'.quantity

-----------------------------------------------------------------------------
(* The shop's screens.                                                     *)

LEMMA OfferedModes == ASSUME CartKinds PROVE Offered \subseteq CartModes /\ Offered # {}
BY DEF CartKinds, Offered, CartModes

\* Reading a cart again in the catalogue only lowers its quantity.
LEMMA FitLowers ==
    ASSUME CartKinds, NEW c \in CartRow
    PROVE  /\ Fit(c) \in CartRow /\ Fit(c).quantity <= c.quantity /\ Fit(c).quantity <= onSale
           /\ Fit(c).fulfillment = c.fulfillment /\ Fit(c).address = c.address
BY CartAssumption DEF CartKinds, Fit, CartRow

LEMMA FitStaysSound ==
    ASSUME CartKinds, NEW c, NEW a, Sound(c, seen, a)
    PROVE  Sound(Fit(c), seen, a)
<1>1. c \in CartRow BY DEF Sound
<1>2. seen.quantity \in Int /\ c.quantity \in Int /\ Fit(c).quantity \in Int
  BY <1>1, FitLowers, CartAssumption DEF CartKinds, Screens, CartRow
<1> QED BY <1>1, <1>2, FitLowers DEF Sound, NoStrayAddress, Told

\* A screen that shows no new recap.
LEMMA AskedAnswers ==
    ASSUME CartKinds, NEW c, NEW a, Sound(c, seen, a), Asked(c)
    PROVE  Answers(a)
BY DEF CartKinds, Asked, Answers, Sound

LEMMA ShowAnswers ==
    ASSUME CartKinds, NEW c, NEW a, Sound(c, seen, a), Show(c)
    PROVE  Answers(a)
<1>1. c \in CartRow /\ Fit(c) \in CartRow BY FitLowers DEF Sound
<1>2. seen \in Screens /\ Fit(c).quantity \in 0..MaxQty BY <1>1 DEF CartKinds, CartRow
<1>3. /\ basket' = Fit(c) /\ seen' \in Screens /\ seen'.quantity = Fit(c).quantity
      /\ seen'.fulfillment = seen.fulfillment /\ seen'.address = seen.address
  BY <1>2 DEF Show, Screens
<1>4. Fit(c).quantity <= Fit(c).quantity BY <1>2, CartAssumption
<1>5. Sound(Fit(c), seen, a) BY FitStaysSound
<1> QED BY <1>1, <1>3, <1>4, <1>5 DEF Answers, Sound, Told

LEMMA AskAddressAnswers ==
    ASSUME CartKinds, NEW c, NEW a, Sound(c, seen, a), AskAddress(c)
    PROVE  Answers(a)
BY DEF CartKinds, Asked, AskAddress, Answers, Sound, CartRow, NoStrayAddress, Told

LEMMA RecapOfAnswers ==
    ASSUME CartKinds, NEW c, NEW a, Sound(c, seen, a), RecapOf(c)
    PROVE  Answers(a)
<1>1. CASE c.fulfillment = "DELIVERY" /\ c.address = None
  BY <1>1, AskAddressAnswers DEF RecapOf
<1>2. CASE ~(c.fulfillment = "DELIVERY" /\ c.address = None)
  BY <1>2, CartAssumption DEF RecapOf, Answers, Sound, Told, CartRow, Screens
<1> QED BY <1>1, <1>2

LEMMA ChooseModeAnswers ==
    ASSUME CartKinds, NEW c, NEW a, Sound(c, seen, a), NEW mode \in CartModes, ChooseMode(c, mode)
    PROVE  Answers(a)
<1>1. CASE mode = "PICKUP"
  <2> DEFINE d == [c EXCEPT !.fulfillment = mode, !.address = None, !.awaiting = None]
  <2>1. RecapOf(d) BY <1>1 DEF ChooseMode
  <2>2. d.fulfillment = "PICKUP" /\ d.address = None /\ d.quantity = c.quantity /\ d \in CartRow
    BY <1>1 DEF Sound, CartRow, CartModes
  <2> HIDE DEF d
  <2> QED BY <2>1, <2>2, CartAssumption DEF RecapOf, Answers, NoStrayAddress, Told, CartRow, Screens
<1>2. CASE mode = "DELIVERY"
  <2> DEFINE d == [c EXCEPT !.fulfillment = mode, !.awaiting = None]
             e == [c EXCEPT !.fulfillment = mode]
  <2>1. Sound(d, seen, a) /\ Sound(e, seen, a)
    BY <1>2 DEF Sound, CartRow, CartModes, NoStrayAddress, Told
  <2>2. Asked(c) \/ Asked(d) \/ AskAddress(e) BY <1>2 DEF ChooseMode
  <2> HIDE DEF d, e
  <2> QED BY <2>1, <2>2, AskedAnswers, AskAddressAnswers
<1> QED BY <1>1, <1>2 DEF CartModes

LEMMA ConfirmCartAnswers ==
    ASSUME CartKinds, NEW c, NEW a, Sound(c, seen, a), ConfirmCart(c)
    PROVE  Answers(a)
<1>1. CASE Offered = CartModes BY <1>1, AskedAnswers DEF ConfirmCart
<1>2. CASE Offered # CartModes
  <2>1. (CHOOSE m \in CartModes : m \in Offered) \in CartModes BY OfferedModes
  <2> QED BY <1>2, <2>1, ChooseModeAnswers DEF ConfirmCart
<1> QED BY <1>1, <1>2

LEMMA RecapAnswers ==
    ASSUME CartKinds, NEW c, NEW a, Sound(c, seen, a), Recap(c)
    PROVE  Answers(a)
BY ShowAnswers, AskAddressAnswers, ConfirmCartAnswers, RecapOfAnswers DEF Recap

-----------------------------------------------------------------------------
(* The shop's buttons and messages.                                        *)

\* A touch that answers keeps the invariant, whatever the customer said.
LEMMA GivingKeeps ==
    ASSUME CartKinds, NEW a \in Addresses \cup {None}, NEW answer \in BOOLEAN, answer => Answers(a),
           answer, Shop, UNCHANGED placed,
           given' = IF basket'.fulfillment = "DELIVERY" THEN a ELSE None
    PROVE  CartInv'
<1>1. Answers(a) OBVIOUS
<1>2. given' \in Addresses \cup {None} OBVIOUS
<1>3. CartKinds' BY <1>1, <1>2 DEF CartKinds, Answers, Shop
<1>4. Told(basket', seen', given') BY <1>1 DEF Answers, Told
<1> QED BY <1>1, <1>3, <1>4 DEF CartInv, Sound, Answers

LEMMA AddToCartAnswers ==
    ASSUME CartInv, NEW n \in 1..2, AddToCart(n)
    PROVE  Answers(given)
<1> DEFINE room  == (IF onSale < MaxQty THEN onSale ELSE MaxQty) - basket.quantity
           taken == IF n > room THEN room ELSE n
           c     == [basket EXCEPT !.quantity = @ + taken, !.awaiting = None]
<1>1. IF taken <= 0 THEN Asked(basket) ELSE Show(c) BY DEF AddToCart
<1>2. basket \in CartRow /\ onSale \in 0..MaxQty /\ basket.quantity \in 0..MaxQty /\ MaxQty \in Nat
  BY CartAssumption DEF CartInv, CartKinds, CartRow
<1>3. CartKinds /\ Sound(basket, seen, given) BY DEF CartInv
<1>4. CASE taken <= 0 BY <1>1, <1>3, <1>4, AskedAnswers
<1>5. CASE ~(taken <= 0)
  <2>1. basket.quantity + taken \in 0..MaxQty BY <1>2, <1>5
  <2> HIDE DEF taken
  <2>2. c \in CartRow /\ c.fulfillment = basket.fulfillment /\ c.address = basket.address
    BY <1>2, <2>1 DEF CartRow
  <2> HIDE DEF c
  <2>3. Show(c) BY <1>1, <1>5
  <2>4. Fit(c) \in CartRow /\ Fit(c).fulfillment = basket.fulfillment /\ Fit(c).address = basket.address
    BY <1>3, <2>2, FitLowers
  <2>5. seen \in Screens /\ Fit(c).quantity \in 0..MaxQty BY <1>3, <2>4 DEF CartKinds, CartRow
  <2>6. /\ basket' = Fit(c) /\ seen' \in Screens /\ seen'.quantity = Fit(c).quantity
        /\ seen'.fulfillment = seen.fulfillment /\ seen'.address = seen.address
    BY <2>3, <2>5 DEF Show, Screens
  <2> QED BY <1>2, <1>3, <2>4, <2>5, <2>6 DEF Answers, Sound, Told, NoStrayAddress
<1> QED BY <1>4, <1>5

LEMMA ClearCartAnswers ==
    ASSUME ClearCart
    PROVE  Answers(given)
BY CartAssumption DEF ClearCart, Answers, NoCart, NothingSeen, CartRow, Screens, NoStrayAddress, Told

LEMMA ConfirmAnswers ==
    ASSUME CartInv, Confirm
    PROVE  Answers(given)
BY ShowAnswers, ConfirmCartAnswers DEF CartInv, Confirm

LEMMA ChooseAnswers ==
    ASSUME CartInv, NEW mode \in CartModes, Choose(mode)
    PROVE  Answers(given)
<1>1. CartKinds /\ Sound(basket, seen, given) /\ Sound(Fit(basket), seen, given)
  BY FitStaysSound DEF CartInv
<1> QED BY <1>1, ShowAnswers, ConfirmCartAnswers, ChooseModeAnswers DEF Choose

\* "Même adresse" gives the usual address, when there is one.
LEMMA SameAddressAnswers ==
    ASSUME CartInv, AddressChoice("same")
    PROVE  Answers(IF habit /\ basket.quantity > 0 THEN "usual" ELSE given)
<1>1. CartKinds /\ Sound(basket, seen, given) /\ basket \in CartRow BY DEF CartInv, Sound
<1>2. CASE basket.quantity = 0
  BY <1>1, <1>2, ShowAnswers DEF AddressChoice
<1>3. CASE basket.quantity # 0 /\ habit
  <2> DEFINE c == [basket EXCEPT !.fulfillment = "DELIVERY", !.address = "usual", !.awaiting = None]
  <2>1. Recap(c) BY <1>3 DEF AddressChoice
  <2>2. Sound(c, seen, "usual")
    BY <1>1 DEF Sound, CartRow, CartModes, Addresses, NoStrayAddress, Told
  <2>3. basket.quantity > 0 BY <1>1, <1>3, CartAssumption DEF CartRow
  <2> HIDE DEF c
  <2> QED BY <1>1, <1>3, <2>1, <2>2, <2>3, RecapAnswers
<1>4. CASE basket.quantity # 0 /\ ~habit
  <2> DEFINE c == [basket EXCEPT !.fulfillment = "DELIVERY"]
  <2>1. AskAddress(c) BY <1>4 DEF AddressChoice
  <2>2. Sound(c, seen, given) BY <1>1 DEF Sound, CartRow, CartModes, NoStrayAddress, Told
  <2> HIDE DEF c
  <2> QED BY <1>1, <1>4, <2>1, <2>2, AskAddressAnswers
<1> QED BY <1>2, <1>3, <1>4

LEMMA NewAddressAnswers ==
    ASSUME CartInv, AddressChoice("new")
    PROVE  Answers(given)
<1> DEFINE c == [basket EXCEPT !.fulfillment = "DELIVERY"]
<1>1. CartKinds /\ Sound(basket, seen, given) BY DEF CartInv
<1>2. Show(basket) \/ AskAddress(c) BY DEF AddressChoice
<1>3. Sound(c, seen, given) BY <1>1 DEF Sound, CartRow, CartModes, NoStrayAddress, Told
<1> HIDE DEF c
<1> QED BY <1>1, <1>2, <1>3, ShowAnswers, AskAddressAnswers

\* A written message gives an address when one is awaited.
LEMMA WrittenAddressAnswers ==
    ASSUME CartInv, WriteToCart("address")
    PROVE  Answers(IF basket.awaiting = "address" THEN "written" ELSE given)
<1> DEFINE c == [basket EXCEPT !.fulfillment = "DELIVERY", !.address = "written", !.awaiting = None]
           d == [basket EXCEPT !.awaiting = None]
<1>1. CartKinds /\ Sound(basket, seen, given) BY DEF CartInv
<1>2. IF basket.awaiting = "address" THEN Recap(c) ELSE Asked(d) BY DEF WriteToCart
<1>3. Sound(c, seen, "written") BY <1>1 DEF Sound, CartRow, CartModes, Addresses, NoStrayAddress, Told
<1>4. Sound(d, seen, given) BY <1>1 DEF Sound, CartRow, NoStrayAddress, Told
<1> HIDE DEF c, d
<1> QED BY <1>1, <1>2, <1>3, <1>4, RecapAnswers, AskedAnswers

LEMMA WrittenAnswers ==
    ASSUME CartInv, NEW w \in {"quantity", "else"}, WriteToCart(w)
    PROVE  Answers(given)
<1> DEFINE d == [basket EXCEPT !.awaiting = None]
<1>1. CartKinds /\ Sound(basket, seen, given) BY DEF CartInv
<1>2. AddToCart(2) \/ Asked(d) BY DEF WriteToCart
<1>3. Sound(d, seen, given) BY <1>1 DEF Sound, CartRow, NoStrayAddress, Told
<1> HIDE DEF d
<1> QED BY <1>1, <1>2, <1>3, AddToCartAnswers, AskedAnswers

LEMMA LapseAnswers ==
    ASSUME CartInv, NEW c, c = [basket EXCEPT !.awaiting = None], Asked(c)
    PROVE  Answers(given)
<1>1. CartKinds /\ Sound(c, seen, given) BY DEF CartInv, Sound, CartRow, NoStrayAddress, Told
<1> QED BY <1>1, AskedAnswers

-----------------------------------------------------------------------------
(* The shop's order.                                                       *)

\* An order is placed: the cart is neither empty nor cut, and the way the
\* order leaves the shop is known.
PlacesNow ==
    /\ Len(placed) < MaxPlaced
    /\ basket.quantity # 0 /\ ~Cut(basket) /\ ~Incomplete
    /\ placed' = Append(placed, [quantity |-> basket.quantity, fulfillment |-> basket.fulfillment,
                                 address |-> basket.address])
    /\ onSale' = onSale - basket.quantity
    /\ basket' = NoCart /\ seen' = NothingSeen /\ given' = None
    /\ UNCHANGED <<settings, habit>>

LEMMA ValidateIsPlaceOrTouch ==
    ValidateCart => PlacesNow \/ (Len(placed) < MaxPlaced /\ (Touch(Show(basket)) \/ Touch(Recap(basket))))
BY DEF ValidateCart, PlacesNow, AfterOrder

LEMMA PlacesKeeps ==
    ASSUME CartInv, PlacesNow
    PROVE  CartInv'
<1>1. CartKinds /\ basket \in CartRow BY DEF CartInv, Sound
<1>2. basket.quantity \in 0..MaxQty /\ basket.quantity <= onSale /\ MaxQty \in Nat /\ onSale \in 0..MaxQty
  <2>1. basket.quantity \in 0..MaxQty /\ onSale \in 0..MaxQty /\ MaxQty \in Nat
    BY <1>1, CartAssumption DEF CartKinds, CartRow
  <2>2. ~(basket.quantity > onSale)
    BY <1>1, <2>1 DEF PlacesNow, Cut, Fit, CartRow
  <2> QED BY <2>1, <2>2
<1>3. onSale' \in 0..MaxQty BY <1>2 DEF PlacesNow
<1>4. placed' \in Seq(Screens) /\ Len(placed') <= MaxPlaced
  <2> DEFINE o == [quantity |-> basket.quantity, fulfillment |-> basket.fulfillment, address |-> basket.address]
  <2>1. o \in Screens BY <1>1 DEF CartRow, Screens
  <2>2. placed \in Seq(Screens) /\ Len(placed) \in Nat BY <1>1 DEF CartKinds
  <2> HIDE DEF o
  <2>3. placed' = Append(placed, o) BY DEF PlacesNow, o
  <2>4. Len(placed) < MaxPlaced BY DEF PlacesNow
  <2> QED BY <2>1, <2>2, <2>3, <2>4, CartAssumption
<1>5. basket' \in CartRow /\ seen' \in Screens /\ given' \in Addresses \cup {None}
  BY CartAssumption DEF PlacesNow, NoCart, NothingSeen, CartRow, Screens
<1>6. Sound(basket', seen', given')
  BY <1>5 DEF PlacesNow, NoCart, NothingSeen, Sound, NoStrayAddress, Told
<1> QED BY <1>1, <1>3, <1>4, <1>5, <1>6 DEF CartInv, CartKinds, PlacesNow

-----------------------------------------------------------------------------
(* The shop's theorems.                                                    *)

LEMMA TouchKeeps ==
    ASSUME CartInv, NEW answer \in BOOLEAN, answer => Answers(given), Touch(answer)
    PROVE  CartInv'
<1>1. answer /\ Shop /\ UNCHANGED placed /\ given' = IF basket'.fulfillment = "DELIVERY" THEN given ELSE None
  BY DEF Touch, Giving
<1> QED BY <1>1, GivingKeeps DEF CartInv, CartKinds

LEMMA CartStarts == CartInit => CartInv
<1> SUFFICES ASSUME CartInit PROVE CartInv OBVIOUS
<1>1. basket \in CartRow /\ seen \in Screens /\ onSale \in 0..MaxQty /\ placed \in Seq(Screens) /\ Len(placed) <= MaxPlaced
  BY CartAssumption DEF CartInit, NoCart, NothingSeen, CartRow, Screens
<1> QED BY <1>1, CartAssumption
  DEF CartInit, CartInv, CartKinds, NoCart, NothingSeen, Sound, NoStrayAddress, Told

LEMMA CartStepKeeps ==
    ASSUME CartInv, [CartNext]_cartVars
    PROVE  CartInv'
<1>k. CartKinds /\ Sound(basket, seen, given) BY DEF CartInv
<1>1. ASSUME NEW n \in 1..2, Touch(AddToCart(n)) PROVE CartInv'
  BY <1>1, AddToCartAnswers, TouchKeeps, GivingKeeps DEF Touch, Giving, CartInv, CartKinds
<1>2. CASE Touch(AskQuantity)
  <2> DEFINE c == [basket EXCEPT !.awaiting = "quantity"]
  <2>1. Asked(c) BY <1>2 DEF Touch, Giving, AskQuantity
  <2>2. Sound(c, seen, given) BY <1>k DEF Sound, CartRow, NoStrayAddress, Told
  <2> HIDE DEF c
  <2>3. Answers(given) BY <1>k, <2>1, <2>2, AskedAnswers
  <2> QED BY <1>2, <1>k, <2>3, GivingKeeps DEF Touch, Giving, CartKinds
<1>3. CASE Touch(Show(basket))
  BY <1>3, <1>k, ShowAnswers, GivingKeeps DEF Touch, Giving, CartKinds
<1>4. CASE Touch(ClearCart) \/ CartLapses
  BY <1>4, <1>k, ClearCartAnswers, GivingKeeps DEF CartLapses, Touch, Giving, CartKinds
<1>5. CASE Touch(Confirm)
  BY <1>5, <1>k, ConfirmAnswers, GivingKeeps DEF Touch, Giving, CartKinds
<1>6. ASSUME NEW m \in CartModes, Touch(Choose(m)) PROVE CartInv'
  BY <1>6, <1>k, ChooseAnswers, GivingKeeps DEF Touch, Giving, CartKinds
<1>7. CASE Giving(IF habit /\ basket.quantity > 0 THEN "usual" ELSE given, AddressChoice("same"))
  <2>1. (IF habit /\ basket.quantity > 0 THEN "usual" ELSE given) \in Addresses \cup {None}
    BY <1>k DEF CartKinds, Addresses
  <2> QED BY <1>7, <2>1, <1>k, SameAddressAnswers, GivingKeeps DEF Giving
<1>8. CASE Touch(AddressChoice("new"))
  BY <1>8, <1>k, NewAddressAnswers, GivingKeeps DEF Touch, Giving, CartKinds
<1>9. CASE Giving(IF basket.awaiting = "address" THEN "written" ELSE given, WriteToCart("address"))
  <2>1. (IF basket.awaiting = "address" THEN "written" ELSE given) \in Addresses \cup {None}
    BY <1>k DEF CartKinds, Addresses
  <2> QED BY <1>9, <2>1, <1>k, WrittenAddressAnswers, GivingKeeps DEF Giving
<1>10. ASSUME NEW w \in {"quantity", "else"}, Touch(WriteToCart(w)) PROVE CartInv'
  BY <1>10, <1>k, WrittenAnswers, GivingKeeps DEF Touch, Giving, CartKinds
<1>11. CASE ValidateCart
  <2>1. CASE PlacesNow BY <2>1, PlacesKeeps
  <2>2. CASE Touch(Show(basket)) BY <2>2, <1>3
  <2>3. CASE Touch(Recap(basket))
    BY <2>3, <1>k, RecapAnswers, GivingKeeps DEF Touch, Giving, CartKinds
  <2> QED BY <1>11, <2>1, <2>2, <2>3, ValidateIsPlaceOrTouch
<1>12. CASE AwaitingLapses
  <2>1. PICK c : c = [basket EXCEPT !.awaiting = None] OBVIOUS
  <2>2. Asked(c) BY <1>12, <2>1 DEF AwaitingLapses, Touch, Giving
  <2>3. Answers(given) BY <2>1, <2>2, LapseAnswers
  <2> QED BY <1>12, <1>k, <2>3, GivingKeeps DEF AwaitingLapses, Touch, Giving, CartKinds
<1>13. ASSUME NEW s \in 0..MaxQty, MerchantSets(s, settings) PROVE CartInv'
  BY <1>13 DEF CartInv, CartKinds, MerchantSets
<1>14. ASSUME NEW m \in SUBSET CartModes, MerchantSets(onSale, m) PROVE CartInv'
  BY <1>14 DEF CartInv, CartKinds, MerchantSets
<1>15. CASE UNCHANGED cartVars BY <1>15 DEF cartVars, CartInv, CartKinds
<1> QED BY <1>1, <1>2, <1>3, <1>4, <1>5, <1>6, <1>7, <1>8, <1>9, <1>10, <1>11, <1>12, <1>13, <1>14, <1>15
  DEF CartNext

\* A guided purchase keeps a cart the shop can serve: the type of the cart,
\* of the stock and of the orders, for every shop and every series of touches.
THEOREM CartTypeCorrect == CartSpec => []CartTypeOK
<1>1. CartInv => CartTypeOK BY DEF CartInv, CartKinds, CartTypeOK, CartRow
<1> QED BY <1>1, CartStarts, CartStepKeeps, PTL DEF CartSpec

\* Nobody is sent an order he was not shown: for every shop and every series
\* of touches of old and new buttons, the way the order leaves the shop and
\* where it goes are those of the last recap or the customer's own answer,
\* and its quantity was listed.
THEOREM OrderIsAsRecapped == CartSpec => OrderedAsRecapped
<1> DEFINE o == placed'[Len(placed')]
           A == placed' # placed =>
                  /\ \/ o.fulfillment = seen.fulfillment /\ o.address = seen.address
                     \/ o.fulfillment = "DELIVERY" /\ o.address = given
                  /\ o.quantity <= seen.quantity
<1>1. ASSUME CartInv, [CartNext]_cartVars PROVE A
  <2> SUFFICES ASSUME placed' # placed PROVE A OBVIOUS
  <2>1. PlacesNow
    BY <1>1, ValidateIsPlaceOrTouch DEF CartNext, cartVars, Touch, Giving, AwaitingLapses, CartLapses, MerchantSets
  <2>2. CartKinds /\ basket \in CartRow /\ Told(basket, seen, given) /\ basket.quantity <= seen.quantity
    BY <1>1 DEF CartInv, Sound
  <2>3. o = [quantity |-> basket.quantity, fulfillment |-> basket.fulfillment, address |-> basket.address]
    BY <2>1, <2>2 DEF PlacesNow, CartKinds
  <2>4. basket.fulfillment # None /\ ~(basket.fulfillment = "DELIVERY" /\ basket.address = None)
    BY <2>1, <2>2, OfferedModes DEF PlacesNow, Incomplete, CartModes, None
  <2> HIDE DEF o
  <2> QED BY <2>2, <2>3, <2>4 DEF Told
<1>2. CartInv /\ [CartNext]_cartVars => [A]_cartVars BY <1>1
<1>3. OrderedAsRecapped <=> [][A]_cartVars BY DEF OrderedAsRecapped
<1> HIDE DEF A
<1> QED BY <1>2, <1>3, CartStarts, CartStepKeeps, PTL DEF CartSpec

-----------------------------------------------------------------------------
(* The restaurant's cart: the inductive invariant.                         *)

\* The values the variables may have.
TrayServed ==
    /\ tray \in Tray /\ misled \in BOOLEAN /\ named \in BOOLEAN /\ home \in BOOLEAN
    /\ meals \in 0..MaxMeals
    /\ kitchen \in [modes : SUBSET AnyMode, zones : SUBSET Communes, open : BOOLEAN, served : BOOLEAN]

\* A table on the tray was told since the tray was last emptied of one.
TableIsNamed == tray.table # Undecided => named

RestoInv == TrayServed /\ TableIsNamed

\* What every screen does to the cart it is given: whatever the customer
\* touches, the screen tells no table.
Shows(c) == tray' \in Tray /\ tray'.table = c.table /\ misled' \in BOOLEAN

\* What one touch may do to the table: empty it of one, never tell one.
Replies == tray' \in Tray /\ (tray'.table # Undecided => tray.table # Undecided) /\ misled' \in BOOLEAN

-----------------------------------------------------------------------------
(* The restaurant's screens.                                               *)

LEMMA ScreenShows == ASSUME NEW c \in Tray, Screen(c) PROVE Shows(c)
BY DEF Screen, Shows

LEMMA ShowTrayShows == ASSUME TrayServed, NEW c \in Tray, ShowTray(c) PROVE Shows(c)
BY DEF TrayServed, ShowTray, Screen, Shows, Tray

LEMMA AskHomeShows == ASSUME TrayServed, NEW c \in Tray, AskHome(c) PROVE Shows(c)
BY ZenonT(40) DEF TrayServed, AskHome, Screen, Shows, Tray, AnyMode, Undecided

LEMMA DeliveryStartShows == ASSUME TrayServed, NEW c \in Tray, DeliveryStart(c) PROVE Shows(c)
BY ScreenShows, AskHomeShows DEF DeliveryStart

LEMMA AskTableShows == ASSUME NEW c \in Tray, AskTable(c) PROVE Shows(c)
BY DEF AskTable, Screen, Shows, Tray, AnyMode, Undecided

LEMMA RecapTrayShows == ASSUME TrayServed, NEW c \in Tray, RecapTray(c) PROVE Shows(c)
<1>1. DeliveryStart(c) \/ AskHome(c) \/ AskTable(c) \/ Screen(c) BY DEF RecapTray
<1> QED BY <1>1, DeliveryStartShows, AskHomeShows, AskTableShows, ScreenShows

LEMMA AskPaymentShows == ASSUME TrayServed, NEW c \in Tray, AskPayment(c) PROVE Shows(c)
BY ScreenShows, RecapTrayShows DEF AskPayment

LEMMA ChooseMealModeShows ==
    ASSUME TrayServed, NEW c \in Tray, NEW mode \in AnyMode, ChooseMealMode(c, mode)
    PROVE  Shows(c)
<1> DEFINE chosen == [c EXCEPT !.mode = mode, !.area = Undecided]
           plain  == [chosen EXCEPT !.address = FALSE, !.awaiting = Undecided]
<1>1. chosen \in Tray /\ chosen.table = c.table BY DEF Tray
<1>2. plain \in Tray /\ plain.table = c.table BY DEF Tray
<1>3. mode \in {"PICKUP", "DELIVERY", "DINE_IN"} BY DEF AnyMode
<1>4. \/ tray' = chosen /\ misled' = (kitchen.zones = {})
      \/ AskPayment(chosen) \/ AskTable(chosen) \/ AskPayment(plain)
  BY <1>3 DEF ChooseMealMode
<1> HIDE DEF chosen, plain
<1>5. CASE tray' = chosen /\ misled' = (kitchen.zones = {}) BY <1>1, <1>5 DEF Shows
<1> QED BY <1>1, <1>2, <1>4, <1>5, AskPaymentShows, AskTableShows DEF Shows

LEMMA OrderTrayShows == ASSUME TrayServed, NEW c \in Tray, OrderTray(c) PROVE Shows(c)
<1>1. ASSUME NEW m \in kitchen.modes, ChooseMealMode(c, m) PROVE Shows(c)
  BY <1>1, ChooseMealModeShows DEF TrayServed
<1>2. "DINE_IN" \in AnyMode BY DEF AnyMode
<1>3. \/ ShowTray(c) \/ Screen(c) \/ ChooseMealMode(c, "DINE_IN")
      \/ \E m \in kitchen.modes : ChooseMealMode(c, m)
  BY DEF OrderTray
<1> QED BY <1>1, <1>2, <1>3, ShowTrayShows, ScreenShows, ChooseMealModeShows

LEMMA RecapOrOrderShows == ASSUME TrayServed, NEW c \in Tray, RecapOrOrder(c) PROVE Shows(c)
BY ShowTrayShows, OrderTrayShows, RecapTrayShows DEF RecapOrOrder

LEMMA PaymentShows == ASSUME TrayServed, NEW c \in Tray, Payment(c) PROVE Shows(c)
BY OrderTrayShows, ScreenShows, RecapOrOrderShows DEF Payment

-----------------------------------------------------------------------------
(* The restaurant's touches and messages.                                  *)

LEMMA KeptIsEmptyOrSeated ==
    ASSUME NEW c \in Tray
    PROVE  /\ Kept(c) \in Tray
           /\ Kept(c).table = IF Seated(c) THEN c.table ELSE Undecided
BY DEF Kept, Seated, EmptyTray, Tray, Undecided

LEMMA TouchesAnswer ==
    ASSUME TrayServed
    PROVE  /\ Welcome \/ AddDish \/ AskQty \/ ShowTray(tray) \/ ClearTray => Replies
           /\ OrderTray(tray) \/ SetLater \/ ChoosePayment => Replies
           /\ NotPlaced \/ TimePasses => Replies
<1>t. tray \in Tray BY DEF TrayServed
<1>1. Shows(tray) => Replies BY DEF Shows, Replies
<1>2. Welcome => Replies BY <1>t, <1>1, ScreenShows DEF Welcome
<1>3. AddDish => Replies BY ZenonT(40), <1>t DEF AddDish, Screen, Replies, Tray, Undecided
<1>4. AskQty => Replies BY <1>t DEF AskQty, Screen, Replies, Tray
<1>5. ClearTray => Replies BY <1>t, KeptIsEmptyOrSeated DEF ClearTray, Screen, Replies
<1>6. OrderTray(tray) => Replies BY <1>t, <1>1, OrderTrayShows
<1>7. ShowTray(tray) => Replies BY <1>t, <1>1, ShowTrayShows
<1>8. SetLater => Replies
  <2> DEFINE c == [tray EXCEPT !.later = TRUE]
  <2>1. c \in Tray /\ c.table = tray.table BY <1>t DEF Tray
  <2>2. SetLater => OrderTray(c) \/ Screen(c) BY DEF SetLater
  <2> HIDE DEF c
  <2> QED BY <2>1, <2>2, OrderTrayShows, ScreenShows DEF Shows, Replies
<1>9. ChoosePayment => Replies BY <1>t, <1>1, <1>6, RecapOrOrderShows DEF ChoosePayment
<1>10. NotPlaced => Replies
  BY <1>t, <1>1, ShowTrayShows, RecapOrOrderShows, ScreenShows, RecapTrayShows DEF NotPlaced
<1>11. TimePasses => Replies
  <2> DEFINE d == [tray EXCEPT !.awaiting = Undecided]
             e == [tray EXCEPT !.later = FALSE]
             f == [tray EXCEPT !.table = IF Seated(tray) THEN "left" ELSE @]
  <2>1. TimePasses => tray' \in {EmptyTray, d, e, f} /\ misled' = misled BY DEF TimePasses
  <2>2. EmptyTray \in Tray /\ EmptyTray.table = Undecided BY DEF EmptyTray, Tray
  <2>3. d \in Tray /\ d.table = tray.table /\ e \in Tray /\ e.table = tray.table BY <1>t DEF Tray
  <2>4. f \in Tray /\ f.table \in {tray.table, "left"} /\ (f.table = "left" => tray.table \in {"left", "seated"})
    BY <1>t DEF Tray, Seated
  <2> HIDE DEF d, e, f
  <2> QED BY <2>1, <2>2, <2>3, <2>4 DEF TrayServed, Replies, Undecided
<1> QED BY <1>2, <1>3, <1>4, <1>5, <1>6, <1>7, <1>8, <1>9, <1>10, <1>11

LEMMA TapModeAnswers == ASSUME TrayServed, NEW m \in AnyMode, TapMode(m) PROVE Replies
BY OrderTrayShows, ChooseMealModeShows DEF TapMode, TrayServed, Shows, Replies

LEMMA ChooseAreaAnswers == ASSUME TrayServed, NEW a \in Communes, ChooseArea(a) PROVE Replies
<1> DEFINE c == [tray EXCEPT !.area = a]
<1>1. tray \in Tray /\ c \in Tray /\ c.table = tray.table BY DEF TrayServed, Tray
<1>2. ShowTray(tray) \/ AskHome(c) BY DEF ChooseArea
<1> HIDE DEF c
<1> QED BY <1>1, <1>2, ShowTrayShows, AskHomeShows DEF Shows, Replies

LEMMA AddressAnswerAnswers == ASSUME TrayServed, NEW same \in BOOLEAN, AddressAnswer(same) PROVE Replies
<1> DEFINE c == [tray EXCEPT !.address = TRUE, !.awaiting = Undecided]
           d == [tray EXCEPT !.awaiting = "address"]
<1>1. tray \in Tray /\ c \in Tray /\ c.table = tray.table /\ d \in Tray /\ d.table = tray.table
  BY DEF TrayServed, Tray
<1>2. ShowTray(tray) \/ Payment(c) \/ Screen(d) BY DEF AddressAnswer
<1> HIDE DEF c, d
<1> QED BY <1>1, <1>2, ShowTrayShows, PaymentShows, ScreenShows DEF Shows, Replies

\* Only what he writes while the table is awaited, and the code on a table,
\* tell one.
LEMMA WritesTells ==
    ASSUME TrayServed, NEW w \in {"number", "address", "else"}, Writes(w)
    PROVE  tray' \in Tray /\ misled' \in BOOLEAN /\ (tray'.table \notin {Undecided, "written"} => tray.table # Undecided)
<1> DEFINE c == [tray EXCEPT !.awaiting = Undecided, !.table = "written"]
           d == [tray EXCEPT !.awaiting = Undecided, !.address = TRUE]
           e == [tray EXCEPT !.awaiting = Undecided]
<1>1. /\ tray \in Tray /\ c \in Tray /\ c.table = "written"
      /\ d \in Tray /\ d.table = tray.table /\ e \in Tray /\ e.table = tray.table
  BY DEF TrayServed, Tray
<1>2. AddDish \/ Payment(c) \/ Payment(d) \/ Screen(e) BY DEF Writes
<1> HIDE DEF c, d, e
<1>3. AddDish => Replies BY TouchesAnswer
<1> QED BY <1>1, <1>2, <1>3, PaymentShows, ScreenShows DEF Shows, Replies

LEMMA AtTableTells ==
    ASSUME TrayServed, AtTable
    PROVE  tray' \in Tray /\ misled' \in BOOLEAN /\ (tray'.table \notin {Undecided, "seated"} => tray.table # Undecided)
<1> DEFINE c == [tray EXCEPT !.table = "seated", !.later = FALSE]
<1>1. c \in Tray /\ c.table = "seated" BY DEF TrayServed, Tray
<1>2. Screen(tray) \/ Screen(c) BY DEF AtTable, Welcome
<1> HIDE DEF c
<1> QED BY <1>1, <1>2 DEF TrayServed, Screen

-----------------------------------------------------------------------------
(* The restaurant's theorems.                                              *)

LEMMA AnsweredTouchKeeps ==
    ASSUME RestoInv, NEW answer \in BOOLEAN, answer => Replies, TouchFlow(answer)
    PROVE  RestoInv'
BY DEF RestoInv, TrayServed, TableIsNamed, TouchFlow, Replies

LEMMA TableTouchKeeps ==
    ASSUME RestoInv, NEW answer \in BOOLEAN, TouchTable(answer),
           answer => /\ tray' \in Tray /\ misled' \in BOOLEAN
                     /\ tray'.table \notin {Undecided, "written", "seated"} => tray.table # Undecided
    PROVE  RestoInv'
BY DEF RestoInv, TrayServed, TableIsNamed, TouchTable

LEMMA RestoStarts == RestoInit => RestoInv
<1> SUFFICES ASSUME RestoInit PROVE RestoInv OBVIOUS
<1>1. tray \in Tray /\ tray.table = Undecided BY DEF RestoInit, EmptyTray, Tray
<1>2. kitchen \in [modes : SUBSET AnyMode, zones : SUBSET Communes, open : BOOLEAN, served : BOOLEAN]
  BY RestoAssumption DEF RestoInit
<1>3. meals \in 0..MaxMeals BY RestoAssumption DEF RestoInit
<1> QED BY <1>1, <1>2, <1>3 DEF RestoInit, RestoInv, TrayServed, TableIsNamed

LEMMA RestoStepKeeps ==
    ASSUME RestoInv, [RestoNext]_restoVars
    PROVE  RestoInv'
<1>s. TrayServed /\ tray \in Tray BY DEF RestoInv, TrayServed
<1>1. CASE TouchFlow(Welcome \/ AddDish \/ AskQty \/ ShowTray(tray) \/ ClearTray)
  BY <1>1, <1>s, TouchesAnswer, AnsweredTouchKeeps DEF TouchFlow
<1>2. CASE TouchFlow(OrderTray(tray)) \/ TouchFlow(SetLater) \/ TouchFlow(ChoosePayment)
  BY <1>2, <1>s, TouchesAnswer, AnsweredTouchKeeps DEF TouchFlow
<1>3. ASSUME NEW m \in AnyMode, TouchFlow(TapMode(m)) PROVE RestoInv'
  BY <1>3, <1>s, TapModeAnswers, AnsweredTouchKeeps DEF TouchFlow
<1>4. ASSUME NEW a \in kitchen.zones, TouchFlow(ChooseArea(a)) PROVE RestoInv'
  <2>1. a \in Communes BY <1>s DEF TrayServed
  <2> QED BY <1>4, <2>1, <1>s, ChooseAreaAnswers, AnsweredTouchKeeps DEF TouchFlow
<1>5. ASSUME NEW same \in BOOLEAN, TouchFlow(AddressAnswer(same)) PROVE RestoInv'
  BY <1>5, <1>s, AddressAnswerAnswers, AnsweredTouchKeeps DEF TouchFlow
<1>6. ASSUME NEW w \in {"number", "address", "else"}, TouchTable(Writes(w)) PROVE RestoInv'
  BY <1>6, <1>s, WritesTells, TableTouchKeeps DEF TouchTable
<1>7. CASE TouchTable(AtTable)
  BY <1>7, <1>s, AtTableTells, TableTouchKeeps DEF TouchTable
<1>8. CASE PlaceMeal
  <2>1. tray' = Kept(tray) /\ misled' = FALSE /\ named' = Seated(tray) BY <1>8 DEF PlaceMeal, Screen
  <2>2. Kept(tray) \in Tray /\ (Kept(tray).table # Undecided => Seated(tray)) /\ Seated(tray) \in BOOLEAN
    BY <1>s, KeptIsEmptyOrSeated DEF Seated
  <2>3. meals' \in 0..MaxMeals BY <1>8, <1>s, RestoAssumption DEF PlaceMeal, TrayServed
  <2> QED BY <2>1, <2>2, <2>3, <1>s, <1>8 DEF RestoInv, TrayServed, TableIsNamed, PlaceMeal
<1>9. CASE ~CanPlace /\ TouchFlow(NotPlaced)
  BY <1>9, <1>s, TouchesAnswer, AnsweredTouchKeeps DEF TouchFlow
<1>10. CASE TouchFlow(TimePasses)
  BY <1>10, <1>s, TouchesAnswer, AnsweredTouchKeeps DEF TouchFlow
<1>11. CASE KitchenChanges
  <2>1. kitchen' \in [modes : SUBSET AnyMode, zones : SUBSET Communes, open : BOOLEAN, served : BOOLEAN]
    <3> DEFINE K == [modes : SUBSET AnyMode, zones : SUBSET Communes, open : BOOLEAN, served : BOOLEAN]
    <3>1. kitchen \in K BY <1>s DEF TrayServed
    <3>2. [kitchen EXCEPT !.open = ~@] \in K /\ [kitchen EXCEPT !.served = ~@] \in K BY <3>1
    <3>3. ASSUME NEW m \in MealModes PROVE [kitchen EXCEPT !.modes = m] \in K
      BY <3>1, RestoAssumption
    <3> HIDE DEF K
    <3>4. kitchen' \in K BY <1>11, <3>2, <3>3 DEF KitchenChanges
    <3> QED BY <3>4 DEF K
  <2> QED BY <1>11, <1>s, <2>1 DEF KitchenChanges, RestoInv, TrayServed, TableIsNamed
<1>12. CASE UNCHANGED restoVars BY <1>12 DEF restoVars, RestoInv, TrayServed, TableIsNamed
<1> QED BY <1>1, <1>2, <1>3, <1>4, <1>5, <1>6, <1>7, <1>8, <1>9, <1>10, <1>11, <1>12 DEF RestoNext

\* The cart of a restaurant keeps its type, for every kitchen and every
\* series of touches.
THEOREM RestoTypeCorrect == RestoSpec => []RestoTypeOK
<1>1. RestoInv => RestoTypeOK BY DEF RestoInv, TrayServed, RestoTypeOK
<1> QED BY <1>1, RestoStarts, RestoStepKeeps, PTL DEF RestoSpec

\* No dish goes to the table of an earlier meal: an order to be served at a
\* table is placed only if the customer scanned or wrote the table since his
\* last order, or still sat at it then, whatever he touched in between.
THEOREM TableOfThisMeal == RestoSpec => TableIsOfThisMeal
<1> DEFINE A == meals' # meals /\ tray.mode = "DINE_IN" => named
<1>1. ASSUME RestoInv, [RestoNext]_restoVars PROVE A
  <2> SUFFICES ASSUME meals' # meals, tray.mode = "DINE_IN" PROVE named OBVIOUS
  <2>1. CanPlace
    BY <1>1 DEF RestoNext, restoVars, TouchFlow, TouchTable, KitchenChanges, PlaceMeal
  <2>2. tray.table # Undecided BY <2>1 DEF CanPlace, MissingTable
  <2> QED BY <1>1, <2>2 DEF RestoInv, TableIsNamed
<1>2. RestoInv /\ [RestoNext]_restoVars => [A]_restoVars BY <1>1
<1>3. TableIsOfThisMeal <=> [][A]_restoVars BY DEF TableIsOfThisMeal
<1> HIDE DEF A
<1> QED BY <1>2, <1>3, RestoStarts, RestoStepKeeps, PTL DEF RestoSpec

-----------------------------------------------------------------------------
(* The link with Naomy: the inductive invariant.                           *)

LinkRow == [status : {"ACTIVE", "CLOSED"}, scope : Scopes, since : Nat]
Code    == [scope : Scopes, used : BOOLEAN, expired : BOOLEAN]
Heard   == [link : Nat, times : Nat]

\* The values the variables may have.
NaomyKinds ==
    /\ queue \in Seq(EventRow) /\ links \in Seq(LinkRow) /\ codes \in Seq(Code)
    /\ \A l \in DOMAIN links : links[l].since <= Len(queue)
    /\ pairing \in [Callers -> [code : Nat, at : Nat]]
    /\ \A c \in Callers : pairing[c].code <= Len(codes) /\ pairing[c].at <= Len(queue)
    /\ asked \in {"no", "PENDING", "ACCEPTED", "REFUSED"} /\ crashes \in Nat

\* The pass under way: what it has still to do waits, and is not done.
PassKinds ==
    /\ pass.on \in BOOLEAN /\ pass.todo \subseteq DOMAIN queue
    /\ pass.sent \in 0..PerPass /\ pass.link \in NotRead..Len(links)
    /\ DOMAIN pass.rows \subseteq DOMAIN queue
    /\ pass.rows = [i \in DOMAIN pass.rows |-> pass.rows[i]]
    /\ pass = [on |-> pass.on, todo |-> pass.todo, rows |-> pass.rows, sent |-> pass.sent, link |-> pass.link]
    /\ ~pass.on => pass.todo = {} /\ DOMAIN pass.rows = {}
    /\ \A i \in pass.todo : queue[i].status = "PENDING" /\ i \notin DOMAIN pass.rows
    /\ \A i \in DOMAIN pass.rows :
        /\ pass.rows[i] \in EventRow
        /\ pass.rows[i].type = queue[i].type /\ pass.rows[i].good = queue[i].good /\ pass.rows[i].link = queue[i].link

\* What is the catalogue's goes to no link of its own; a row that waits has a
\* try left.
RowsSound(rows) ==
    \A i \in DOMAIN rows :
        /\ rows[i].type \in {"created", "change"} => rows[i].link = 0
        /\ rows[i].status = "PENDING" => rows[i].attempts <= Len(Backoff)

HeardKinds ==
    /\ DOMAIN heard \subseteq DOMAIN queue
    /\ \A i \in DOMAIN heard : heard[i] \in Heard

\* Two announcements of the same product, the first before the second.
Twice(i, j) ==
    /\ i \in DOMAIN queue /\ j \in DOMAIN queue /\ i < j
    /\ queue[i].type = "created" /\ queue[j].type = "created" /\ queue[i].good = queue[j].good

Over(status) == status \in {"FAILED", "SKIPPED"}

\* The second leaves when the first never will, for the base and for the pass.
FirstIsOver ==
    \A i, j : Twice(i, j) =>
        /\ queue[j].status = "SENT" => Over(queue[i].status)
        /\ Own(j).status = "SENT" => Over(Own(i).status)

One(i) == IF Own(i).status = "SENT" THEN 1 ELSE 0

\* What Naomy heard too much, a pass that died said.
HeardAgain ==
    /\ \A i \in DOMAIN queue : queue[i].type = "created" => Times(i) <= crashes + One(i)
    /\ \A i, j : Twice(i, j) => Times(i) + Times(j) <= crashes + One(i) + One(j)

Shared ==
    \A i \in DOMAIN heard :
        queue[i].type \in {"created", "change"} =>
            /\ heard[i].link \in DOMAIN links
            /\ links[heard[i].link].scope = "complete" /\ i > links[heard[i].link].since

NaomyInv ==
    /\ NaomyKinds /\ PassKinds /\ HeardKinds
    /\ RowsSound(queue) /\ RowsSound(pass.rows)
    /\ FirstIsOver /\ HeardAgain /\ Shared

\* The parts of the invariant that read the queue, the pass and what was heard.
Dispatch == PassKinds /\ HeardKinds /\ RowsSound(queue) /\ RowsSound(pass.rows) /\ FirstIsOver /\ HeardAgain /\ Shared

-----------------------------------------------------------------------------
(* What the model's operators return.                                      *)

LEMMA ActiveLinkIsOne ==
    ASSUME NaomyKinds
    PROVE  ActiveLink \in 0..Len(links)
<1>1. ActiveLinks \subseteq 1..Len(links) BY DEF ActiveLinks, NaomyKinds
<1>2. CASE ActiveLinks = {} BY <1>2 DEF ActiveLink, NaomyKinds
<1>3. CASE ActiveLinks # {}
  <2>1. Len(links) \in Nat /\ ActiveLinks \in SUBSET (0..Len(links)) BY <1>1 DEF NaomyKinds
  <2>2. \E l \in ActiveLinks : \A k \in ActiveLinks : k <= l BY <1>3, <2>1, HasGreatest
  <2>3. (CHOOSE l \in ActiveLinks : \A k \in ActiveLinks : k <= l) \in ActiveLinks BY <2>2, Zenon
  <2>4. ActiveLink \in ActiveLinks BY <1>3, <2>3 DEF ActiveLink
  <2> QED BY <1>1, <2>4
<1> QED BY <1>2, <1>3

LEMMA PassLinkIsOne ==
    ASSUME NaomyKinds, PassKinds
    PROVE  PassLink \in 0..Len(links)
<1>1. pass.link \in -1..Len(links) BY DEF PassKinds, NotRead
<1>2. Len(links) \in Nat BY DEF NaomyKinds
<1> QED BY <1>1, <1>2, ActiveLinkIsOne DEF PassLink, NotRead

\* A row that is put into a partial table, and what is there besides.
LEMMA WithAdds ==
    ASSUME NEW rows, NEW i, NEW row
    PROVE  /\ DOMAIN With(rows, i, row) = DOMAIN rows \cup {i}
           /\ With(rows, i, row) = [j \in DOMAIN With(rows, i, row) |-> With(rows, i, row)[j]]
           /\ With(rows, i, row)[i] = row
           /\ \A j \in DOMAIN rows : j # i => With(rows, i, row)[j] = rows[j]
BY DEF With

\* Rows that have just been written.
Fresh(es) == es \in Seq(EventRow) /\ RowsSound(es) /\ \A k \in DOMAIN es : es[k].status = "PENDING"

LEMMA EventIsFresh ==
    ASSUME NEW type \in {"created", "change", "opened", "closed"}, NEW good \in Goods \cup {NoGood}, NEW link \in Nat,
           type \in {"created", "change"} => link = 0
    PROVE  Fresh(<<Event(type, good, link)>>)
<1> DEFINE e == Event(type, good, link)
<1>1. Len(Backoff) \in Nat BY NaomyAssumption
<1>2. /\ e \in EventRow /\ e.status = "PENDING" /\ e.attempts <= Len(Backoff)
      /\ e.type \in {"created", "change"} => e.link = 0
  BY <1>1 DEF Event, EventRow
<1> HIDE DEF e
<1> DEFINE es == <<e>>
<1>3. es \in Seq(EventRow) /\ \A k \in DOMAIN es : es[k] = e BY <1>2
<1> HIDE DEF es
<1>4. Fresh(es) BY <1>2, <1>3 DEF Fresh, RowsSound
<1> QED BY <1>4 DEF es, e

LEMMA FreshTogether ==
    ASSUME NEW a, NEW b, Fresh(a), Fresh(b)
    PROVE  Fresh(a \o b)
<1>1. a \in Seq(EventRow) /\ b \in Seq(EventRow) BY DEF Fresh
<1>2. a \o b \in Seq(EventRow) /\ DOMAIN (a \o b) = 1..Len(a) + Len(b)
      /\ DOMAIN a = 1..Len(a) /\ DOMAIN b = 1..Len(b) /\ Len(a) \in Nat /\ Len(b) \in Nat
  BY <1>1
<1>3. \A k \in DOMAIN (a \o b) : (k \in DOMAIN a /\ (a \o b)[k] = a[k])
                              \/ (k - Len(a) \in DOMAIN b /\ (a \o b)[k] = b[k - Len(a)])
  BY <1>1, <1>2
<1> DEFINE c == a \o b
<1>4. c \in Seq(EventRow) /\ \A k \in DOMAIN c : (\E m \in DOMAIN a : c[k] = a[m]) \/ (\E m \in DOMAIN b : c[k] = b[m])
  BY <1>2, <1>3
<1> HIDE DEF c
<1>5. Fresh(c) BY <1>4 DEF Fresh, RowsSound
<1> QED BY <1>5 DEF c

LEMMA NoneIsFresh == Fresh(<<>>)
BY DEF Fresh, RowsSound

\* New events change nothing of what was decided, or said, of those there.
LEMMA QueueGrows ==
    ASSUME NaomyInv, NEW es, Fresh(es),
           queue' = queue \o es, UNCHANGED <<pass, heard, crashes>>,
           links' \in Seq(LinkRow),
           \A l \in DOMAIN links : l \in DOMAIN links' /\ links'[l].scope = links[l].scope /\ links'[l].since = links[l].since
    PROVE  queue' \in Seq(EventRow) /\ Len(queue) <= Len(queue') /\ Dispatch'
<1>1. queue \in Seq(EventRow) /\ links \in Seq(LinkRow) BY DEF NaomyInv, NaomyKinds
<1>1a. es \in Seq(EventRow) /\ RowsSound(es) /\ \A k \in DOMAIN es : es[k].status = "PENDING" BY DEF Fresh
<1>2. queue' \in Seq(EventRow) /\ Len(queue') = Len(queue) + Len(es) /\ Len(es) \in Nat /\ Len(queue) \in Nat BY <1>1, <1>1a
<1>3. DOMAIN queue = 1..Len(queue) /\ DOMAIN queue' = 1..Len(queue') /\ DOMAIN es = 1..Len(es)
      /\ DOMAIN links = 1..Len(links) /\ DOMAIN links' = 1..Len(links') BY <1>1, <1>1a, <1>2
<1>4. \A i \in DOMAIN queue : i \in DOMAIN queue' /\ queue'[i] = queue[i] BY <1>1, <1>1a, <1>2, <1>3
<1>5. \A i \in DOMAIN queue' : i \notin DOMAIN queue => queue'[i] = es[i - Len(queue)] /\ (i - Len(queue)) \in DOMAIN es
  BY <1>1, <1>1a, <1>2, <1>3
<1>6. \A i \in DOMAIN queue' : i \notin DOMAIN queue => queue'[i].status = "PENDING" BY <1>1a, <1>5
<1>7. PassKinds'
  <2>1. Len(links) \in Nat /\ Len(links') \in Nat BY <1>1
  <2>2. Len(links) <= Len(links')
    <3>1. CASE Len(links) = 0 BY <2>1, <3>1
    <3>2. CASE Len(links) # 0
      <4>1. Len(links) \in DOMAIN links BY <2>1, <1>3, <3>2
      <4>2. Len(links) \in DOMAIN links' BY <4>1
      <4>3. Len(links) \in 1..Len(links') BY <4>2, <1>3
      <4> QED BY <4>3, <2>1
    <3> QED BY <3>1, <3>2
  <2>3. pass.link \in NotRead..Len(links') BY <2>1, <2>2 DEF NaomyInv, PassKinds, NotRead
  <2> QED BY <1>4, <2>3 DEF NaomyInv, PassKinds
<1>8. HeardKinds' BY <1>4 DEF NaomyInv, HeardKinds
<1>9. RowsSound(queue')
  <2> SUFFICES ASSUME NEW i \in DOMAIN queue' PROVE (queue'[i].type \in {"created", "change"} => queue'[i].link = 0)
                                                /\ (queue'[i].status = "PENDING" => queue'[i].attempts <= Len(Backoff))
    BY DEF RowsSound
  <2>1. CASE i \in DOMAIN queue BY <1>4, <2>1 DEF NaomyInv, RowsSound
  <2>2. CASE i \notin DOMAIN queue BY <1>1a, <1>5, <2>2 DEF RowsSound
  <2> QED BY <2>1, <2>2
<1>10. RowsSound(pass'.rows) BY DEF NaomyInv, RowsSound
<1>11. \A i \in DOMAIN queue : Own(i)' = Own(i) /\ One(i)' = One(i) BY <1>4 DEF Own, One
<1>12. \A i \in DOMAIN queue' : i \notin DOMAIN queue => Own(i)'.status = "PENDING" /\ Times(i)' = 0
  BY <1>6 DEF Own, Times, NaomyInv, PassKinds, HeardKinds
<1>13. \A i, j : Twice(i, j)' => j \notin DOMAIN queue \/ Twice(i, j) BY <1>2, <1>3, <1>4 DEF Twice
<1>14. \A i : Times(i)' = Times(i) BY DEF Times
<1>15. FirstIsOver'
  <2> SUFFICES ASSUME NEW i, NEW j, Twice(i, j)'
               PROVE  /\ queue'[j].status = "SENT" => Over(queue'[i].status)
                      /\ Own(j)'.status = "SENT" => Over(Own(i)'.status)
    BY DEF FirstIsOver
  <2>1. CASE j \notin DOMAIN queue
    <3>1. j \in DOMAIN queue' BY DEF Twice
    <3> QED BY <2>1, <3>1, <1>6, <1>12
  <2>2. CASE j \in DOMAIN queue
    <3>1. Twice(i, j) BY <1>13, <2>2
    <3>2. i \in DOMAIN queue BY <3>1 DEF Twice
    <3> QED BY <2>2, <3>1, <3>2, <1>4, <1>11 DEF NaomyInv, FirstIsOver
  <2> QED BY <2>1, <2>2
<1>16. HeardAgain'
  <2>1. ASSUME NEW i \in DOMAIN queue', queue'[i].type = "created" PROVE Times(i)' <= crashes' + One(i)'
    <3>1. CASE i \in DOMAIN queue BY <2>1, <3>1, <1>4, <1>11, <1>14 DEF NaomyInv, HeardAgain
    <3>2. CASE i \notin DOMAIN queue
      <4>1. One(i)' \in {0, 1} BY DEF One
      <4>2. crashes' \in Nat BY DEF NaomyInv, NaomyKinds
      <4> QED BY <3>2, <1>12, <4>1, <4>2
    <3> QED BY <3>1, <3>2
  <2>2. ASSUME NEW i, NEW j, Twice(i, j)' PROVE Times(i)' + Times(j)' <= crashes' + One(i)' + One(j)'
    <3>1. CASE j \in DOMAIN queue
      <4>1. Twice(i, j) BY <2>2, <1>13, <3>1
      <4>2. i \in DOMAIN queue BY <4>1 DEF Twice
      <4> QED BY <3>1, <4>1, <4>2, <1>11, <1>14 DEF NaomyInv, HeardAgain
    <3>2. CASE j \notin DOMAIN queue
      <4>1. i \in DOMAIN queue' /\ j \in DOMAIN queue' /\ queue'[i].type = "created" BY <2>2 DEF Twice
      <4>2. Times(i)' <= crashes' + One(i)' BY <2>1, <4>1
      <4>3. Times(j)' = 0 BY <3>2, <4>1, <1>12
      <4>4. One(i)' \in {0, 1} /\ One(j)' \in {0, 1} BY DEF One
      <4>5. crashes' \in Nat /\ Times(i)' \in Nat BY DEF NaomyInv, NaomyKinds, Times, HeardKinds, Heard
      <4> QED BY <4>2, <4>3, <4>4, <4>5
    <3> QED BY <3>1, <3>2
  <2> QED BY <2>1, <2>2 DEF HeardAgain
<1>17. Shared' BY <1>4 DEF NaomyInv, Shared, HeardKinds
<1> QED BY <1>2, <1>7, <1>8, <1>9, <1>10, <1>15, <1>16, <1>17 DEF Dispatch

-----------------------------------------------------------------------------
(* A pass.                                                                 *)

\* What may become of the row of an event.
RowOf(i, row) ==
    /\ row \in EventRow /\ RowsSound(<<row>>)
    /\ row.type = queue[i].type /\ row.good = queue[i].good /\ row.link = queue[i].link

\* What a pass makes of one row leaves the others alone.
LEMMA RowIsDone ==
    ASSUME NaomyInv, NEW i \in pass.todo, NEW row, RowOf(i, row), NEW n \in 0..PerPass,
           pass' = [Next1(i, row) EXCEPT !.sent = n], UNCHANGED <<queue, links>>
    PROVE  /\ PassKinds' /\ RowsSound(pass'.rows)
           /\ Own(i)' = row /\ Own(i).status = "PENDING"
           /\ \A j \in DOMAIN queue : j # i => Own(j)' = Own(j)
<1> DEFINE rows == With(pass.rows, i, row)
<1>1. /\ pass'.on = pass.on /\ pass'.todo = pass.todo \ {i} /\ pass'.rows = rows /\ pass'.sent = n
      /\ pass'.link = (IF queue[i].link = 0 THEN PassLink ELSE pass.link)
      /\ pass' = [on |-> pass'.on, todo |-> pass'.todo, rows |-> pass'.rows, sent |-> pass'.sent, link |-> pass'.link]
  <2>1. pass = [on |-> pass.on, todo |-> pass.todo, rows |-> pass.rows, sent |-> pass.sent, link |-> pass.link]
    BY DEF NaomyInv, PassKinds
  <2> HIDE DEF rows
  <2>2. pass' = [[pass EXCEPT !.todo = @ \ {i}, !.rows = rows, !.link = IF queue[i].link = 0 THEN PassLink ELSE @]
                   EXCEPT !.sent = n]
    BY DEF Next1, rows
  <2> QED BY <2>1, <2>2
<1>2. /\ DOMAIN rows = DOMAIN pass.rows \cup {i} /\ rows = [j \in DOMAIN rows |-> rows[j]] /\ rows[i] = row
      /\ \A j \in DOMAIN pass.rows : j # i => rows[j] = pass.rows[j]
  BY DEF With
<1> HIDE DEF rows
<1>3. i \in DOMAIN queue /\ queue[i].status = "PENDING" /\ i \notin DOMAIN pass.rows BY DEF NaomyInv, PassKinds
<1>4. PassKinds'
  <2>1. pass'.link \in NotRead..Len(links)
    <3>1. PassLink \in 0..Len(links) /\ pass.link \in NotRead..Len(links) BY PassLinkIsOne DEF NaomyInv, PassKinds
    <3>2. Len(links) \in Nat BY DEF NaomyInv, NaomyKinds
    <3> QED BY <1>1, <3>1, <3>2 DEF NotRead
  <2>2. pass.on BY <1>3 DEF NaomyInv, PassKinds
  <2>3. \A k \in DOMAIN rows : /\ k \in DOMAIN queue /\ rows[k] \in EventRow /\ rows[k].type = queue[k].type
                               /\ rows[k].good = queue[k].good /\ rows[k].link = queue[k].link
    BY <1>2, <1>3 DEF NaomyInv, PassKinds, RowOf
  <2>4. \A k \in pass.todo \ {i} : k \in DOMAIN queue /\ queue[k].status = "PENDING" /\ k \notin DOMAIN rows
    BY <1>2 DEF NaomyInv, PassKinds
  <2>5. pass.on \in BOOLEAN BY DEF NaomyInv, PassKinds
  <2>6. pass'.todo \subseteq DOMAIN queue BY <1>1, <2>4
  <2>7. pass'.on /\ pass'.on \in BOOLEAN /\ pass'.sent \in 0..PerPass BY <1>1, <2>2, <2>5
  <2>8. DOMAIN pass'.rows \subseteq DOMAIN queue /\ pass'.rows = [k \in DOMAIN pass'.rows |-> pass'.rows[k]] BY <1>1, <1>2, <2>3
  <2>9. \A k \in pass'.todo : queue[k].status = "PENDING" /\ k \notin DOMAIN pass'.rows BY <1>1, <2>4
  <2>10. \A k \in DOMAIN pass'.rows :
            /\ pass'.rows[k] \in EventRow /\ pass'.rows[k].type = queue[k].type
            /\ pass'.rows[k].good = queue[k].good /\ pass'.rows[k].link = queue[k].link
    BY <1>1, <2>3
  <2>11. pass' = [on |-> pass'.on, todo |-> pass'.todo, rows |-> pass'.rows, sent |-> pass'.sent, link |-> pass'.link] BY <1>1
  <2> QED BY <2>1, <2>6, <2>7, <2>8, <2>9, <2>10, <2>11 DEF PassKinds
<1>5. RowsSound(rows)
  <2>1. \A k \in DOMAIN rows : k = i \/ (k \in DOMAIN pass.rows /\ rows[k] = pass.rows[k]) BY <1>2
  <2>2. (row.type \in {"created", "change"} => row.link = 0) /\ (row.status = "PENDING" => row.attempts <= Len(Backoff))
    BY DEF RowsSound, RowOf
  <2>3. \A k \in DOMAIN pass.rows : (pass.rows[k].type \in {"created", "change"} => pass.rows[k].link = 0)
                                    /\ (pass.rows[k].status = "PENDING" => pass.rows[k].attempts <= Len(Backoff))
    BY DEF NaomyInv, RowsSound
  <2> QED BY <1>2, <2>1, <2>2, <2>3 DEF RowsSound
<1>6. Own(i)' = row /\ Own(i) = queue[i] BY <1>1, <1>2, <1>3 DEF Own
<1>7. \A j \in DOMAIN queue : j # i => Own(j)' = Own(j) BY <1>1, <1>2 DEF Own
<1> QED BY <1>1, <1>3, <1>4, <1>5, <1>6, <1>7

\* An event that does not leave, or may not: one link less to wait for.
LEMMA RowOfSkip ==
    ASSUME NaomyInv, NEW i \in pass.todo
    PROVE  /\ RowOf(i, [queue[i] EXCEPT !.status = "SKIPPED"])
           /\ [queue[i] EXCEPT !.status = "SKIPPED"].status = "SKIPPED"
<1>1. queue[i] \in EventRow /\ i \in DOMAIN queue BY DEF NaomyInv, NaomyKinds, PassKinds
<1> QED BY <1>1 DEF EventRow, RowsSound, RowOf, NaomyInv

LEMMA RowsStayRows ==
    ASSUME NEW e \in EventRow, NEW n \in 0..Len(Backoff) + 1
    PROVE  /\ \A s \in {"SENT", "FAILED"} : [e EXCEPT !.attempts = n, !.status = s] \in EventRow
           /\ \A w \in Nat : [e EXCEPT !.attempts = n, !.wait = w] \in EventRow
BY DEF EventRow

LEMMA RowOfSend ==
    ASSUME NaomyInv, NEW i \in pass.todo, NEW answer \in {"ok", "no", "revoked"}
    PROVE  /\ RowOf(i, AfterSend(queue[i], answer))
           /\ AfterSend(queue[i], answer).status = "SENT" <=> answer = "ok"
<1>1. queue[i] \in EventRow /\ i \in DOMAIN queue /\ queue[i].status = "PENDING" BY DEF NaomyInv, NaomyKinds, PassKinds
<1>2. queue[i].attempts <= Len(Backoff) /\ (queue[i].type \in {"created", "change"} => queue[i].link = 0)
  BY <1>1 DEF NaomyInv, RowsSound
<1>3. Len(Backoff) \in Nat /\ \A n \in 1..Len(Backoff) : Backoff[n] \in Nat BY NaomyAssumption
<1>4. queue[i].attempts \in Nat BY <1>1, <1>3 DEF EventRow
<1> DEFINE row == AfterSend(queue[i], answer)
           m == queue[i].attempts + 1
<1>5. m \in 1..Len(Backoff) + 1 BY <1>2, <1>3, <1>4
<1>5a. m \in 0..Len(Backoff) + 1 BY <1>3, <1>5
<1> DEFINE Done == RowOf(i, row) /\ (row.status = "SENT" <=> answer = "ok")
<1>6. ASSUME answer = "ok" PROVE Done
  <2>1. row = [queue[i] EXCEPT !.attempts = m, !.status = "SENT"] BY <1>6 DEF AfterSend
  <2> HIDE DEF row, m
  <2>3. row \in EventRow BY <2>1, <1>1, <1>5a, RowsStayRows
  <2>4. row.type = queue[i].type /\ row.good = queue[i].good /\ row.link = queue[i].link /\ row.attempts = m
        /\ (row.status = "SENT" <=> answer = "ok") /\ (row.status = "PENDING" => m <= Len(Backoff))
    BY <2>1, <1>1, <1>6 DEF EventRow
  <2>5. RowsSound(<<row>>) BY <2>4, <1>2 DEF RowsSound
  <2> QED BY <2>3, <2>4, <2>5 DEF RowOf
<1>7. ASSUME answer # "ok" /\ (answer = "revoked" \/ m > Len(Backoff)) PROVE Done
  <2>1. row = [queue[i] EXCEPT !.attempts = m, !.status = "FAILED"] BY <1>7 DEF AfterSend
  <2> HIDE DEF row, m
  <2>3. row \in EventRow BY <2>1, <1>1, <1>5a, RowsStayRows
  <2>4. row.type = queue[i].type /\ row.good = queue[i].good /\ row.link = queue[i].link /\ row.attempts = m
        /\ (row.status = "SENT" <=> answer = "ok") /\ (row.status = "PENDING" => m <= Len(Backoff))
    BY <2>1, <1>1, <1>7 DEF EventRow
  <2>5. RowsSound(<<row>>) BY <2>4, <1>2 DEF RowsSound
  <2> QED BY <2>3, <2>4, <2>5 DEF RowOf
<1>8. ASSUME answer # "ok" /\ ~(answer = "revoked" \/ m > Len(Backoff)) PROVE Done
  <2>1. row = [queue[i] EXCEPT !.attempts = m, !.wait = Backoff[m]] BY <1>8 DEF AfterSend
  <2>2. m <= Len(Backoff) /\ Backoff[m] \in Nat BY <1>3, <1>5, <1>8
  <2> HIDE DEF row, m
  <2>3. row \in EventRow BY <2>1, <2>2, <1>1, <1>5a, RowsStayRows
  <2>4. row.type = queue[i].type /\ row.good = queue[i].good /\ row.link = queue[i].link /\ row.attempts = m
        /\ (row.status = "SENT" <=> answer = "ok") /\ (row.status = "PENDING" => m <= Len(Backoff))
    BY <2>1, <2>2, <1>1, <1>8 DEF EventRow
  <2>5. RowsSound(<<row>>) BY <2>4, <1>2 DEF RowsSound
  <2> QED BY <2>3, <2>4, <2>5 DEF RowOf
<1> QED BY <1>6, <1>7, <1>8

LEMMA SkipKeeps ==
    ASSUME NaomyInv, NEW i, SkipEvent(i)
    PROVE  Dispatch'
<1> DEFINE row == [queue[i] EXCEPT !.status = "SKIPPED"]
<1>1. i \in pass.todo /\ UNCHANGED <<queue, links, heard, crashes>> /\ pass' = Next1(i, row)
  BY DEF SkipEvent, Considering
<1>2. pass' = [Next1(i, row) EXCEPT !.sent = pass.sent] /\ pass.sent \in 0..PerPass
  <2> HIDE DEF row
  <2>1. pass.sent \in 0..PerPass BY DEF NaomyInv, PassKinds
  <2>2. pass = [on |-> pass.on, todo |-> pass.todo, rows |-> pass.rows, sent |-> pass.sent, link |-> pass.link]
    BY DEF NaomyInv, PassKinds
  <2> QED BY <1>1, <2>1, <2>2 DEF Next1
<1>3. RowOf(i, row) /\ row.status = "SKIPPED" BY <1>1, RowOfSkip
<1> HIDE DEF row
<1>4. /\ PassKinds' /\ RowsSound(pass'.rows) /\ Own(i)' = row /\ Own(i).status = "PENDING"
      /\ \A j \in DOMAIN queue : j # i => Own(j)' = Own(j)
  BY <1>1, <1>2, <1>3, RowIsDone
<1>5. \A j : Times(j)' = Times(j) /\ \A k : Twice(j, k)' = Twice(j, k) BY <1>1 DEF Times, Twice
<1>6. \A j \in DOMAIN queue : One(j)' = One(j) BY <1>3, <1>4 DEF One
<1>7. FirstIsOver'
  <2> SUFFICES ASSUME NEW j, NEW k, Twice(j, k)
               PROVE  /\ queue[k].status = "SENT" => Over(queue[j].status)
                      /\ Own(k)'.status = "SENT" => Over(Own(j)'.status)
    BY <1>1, <1>5 DEF FirstIsOver
  <2>1. j \in DOMAIN queue /\ k \in DOMAIN queue BY DEF Twice
  <2>2. (queue[k].status = "SENT" => Over(queue[j].status)) /\ (Own(k).status = "SENT" => Over(Own(j).status))
    BY DEF NaomyInv, FirstIsOver
  <2> QED BY <2>1, <2>2, <1>3, <1>4 DEF Over
<1>8. HeardAgain'
  <2>1. \A j, k : Twice(j, k) => j \in DOMAIN queue /\ k \in DOMAIN queue BY DEF Twice
  <2> QED BY <1>1, <1>5, <1>6, <2>1 DEF NaomyInv, HeardAgain
<1>9. HeardKinds' /\ Shared' /\ RowsSound(queue') BY <1>1 DEF NaomyInv, HeardKinds, Shared, RowsSound
<1> QED BY <1>4, <1>7, <1>8, <1>9 DEF Dispatch

LEMMA TimesAreCounted ==
    ASSUME NaomyInv
    PROVE  crashes \in Nat /\ \A i : Times(i) \in Nat /\ One(i) \in {0, 1}
BY DEF NaomyInv, NaomyKinds, HeardKinds, Heard, Times, One

\* Where an event goes that is sent: for the catalogue's, a link it is not older than.
LEMMA TargetIsShared ==
    ASSUME NaomyInv, NEW i \in DOMAIN queue, Goes(i)
    PROVE  /\ Target(i) \in Nat
           /\ queue[i].type \in {"created", "change"} =>
                /\ Target(i) \in DOMAIN links /\ links[Target(i)].scope = "complete" /\ i > links[Target(i)].since
<1>1. PassLink \in 0..Len(links) BY PassLinkIsOne DEF NaomyInv
<1>2. queue[i] \in EventRow /\ DOMAIN links = 1..Len(links) /\ Len(links) \in Nat BY DEF NaomyInv, NaomyKinds
<1>3. Target(i) \in Nat BY <1>1, <1>2 DEF Target, EventRow
<1>4. ASSUME queue[i].type \in {"created", "change"}
      PROVE  Target(i) \in DOMAIN links /\ links[Target(i)].scope = "complete" /\ i > links[Target(i)].since
  <2>1. queue[i].link = 0 BY <1>4 DEF NaomyInv, RowsSound
  <2>2. Target(i) # 0 /\ links[Target(i)].scope = "complete" BY <1>4 DEF Goes
  <2>3. Target(i) = PassLink /\ i > links[PassLink].since BY <2>1, <2>2 DEF Target
  <2> QED BY <1>1, <1>2, <2>2, <2>3
<1> QED BY <1>3, <1>4

LEMMA SendKeeps ==
    ASSUME NaomyInv, NEW i, NEW answer \in {"ok", "no", "revoked"}, SendEvent(i, answer)
    PROVE  Dispatch'
<1> DEFINE row == AfterSend(queue[i], answer)
           ok  == answer = "ok"
<1>1. i \in pass.todo /\ Goes(i) /\ UNCHANGED <<queue, links, crashes>> /\ pass' = [Next1(i, row) EXCEPT !.sent = @ + 1]
      /\ pass.sent < PerPass
      /\ heard' = IF ok THEN With(heard, i, [link |-> Target(i), times |-> Times(i) + 1]) ELSE heard
  BY DEF SendEvent, Considering
<1>2. RowOf(i, row) /\ (row.status = "SENT" <=> ok) BY <1>1, RowOfSend
<1> HIDE DEF row, ok
<1>3. pass' = [Next1(i, row) EXCEPT !.sent = pass.sent + 1] /\ pass.sent + 1 \in 0..PerPass
  <2>1. pass.sent \in 0..PerPass /\ PerPass \in Nat BY NaomyAssumption DEF NaomyInv, PassKinds
  <2>2. pass = [on |-> pass.on, todo |-> pass.todo, rows |-> pass.rows, sent |-> pass.sent, link |-> pass.link]
    BY DEF NaomyInv, PassKinds
  <2> QED BY <1>1, <2>1, <2>2 DEF Next1
<1>4. /\ PassKinds' /\ RowsSound(pass'.rows) /\ Own(i)' = row /\ Own(i).status = "PENDING"
      /\ \A j \in DOMAIN queue : j # i => Own(j)' = Own(j)
  BY <1>1, <1>2, <1>3, RowIsDone
<1>5. i \in DOMAIN queue BY <1>1 DEF NaomyInv, PassKinds
<1>6. \A j, k : Twice(j, k)' = Twice(j, k) BY <1>1 DEF Twice
<1>7. \A j, k : Twice(j, k) => j \in DOMAIN queue /\ k \in DOMAIN queue /\ j # k BY DEF Twice, NaomyInv, NaomyKinds
<1>8. FirstIsOver'
  <2> SUFFICES ASSUME NEW j, NEW k, Twice(j, k)
               PROVE  /\ queue[k].status = "SENT" => Over(queue[j].status)
                      /\ Own(k)'.status = "SENT" => Over(Own(j)'.status)
    BY <1>1, <1>6 DEF FirstIsOver
  <2>1. (queue[k].status = "SENT" => Over(queue[j].status)) /\ (Own(k).status = "SENT" => Over(Own(j).status))
    BY DEF NaomyInv, FirstIsOver
  <2>2. CASE k # i BY <2>1, <2>2, <1>4, <1>7 DEF Over
  <2>3. CASE k = i /\ ok
    <3>1. Own(j).status \notin {"SENT", "PENDING"}
      <4>1. queue[i].type = "created" /\ queue[j].type = "created" /\ queue[j].good = queue[i].good /\ j < i BY <2>3 DEF Twice
      <4>2. ~Announced(i) BY <1>1, <4>1 DEF Goes
      <4> QED BY <1>7, <4>1, <4>2 DEF Announced
    <3>2. Own(j) \in EventRow BY <1>7 DEF Own, NaomyInv, NaomyKinds, PassKinds
    <3> QED BY <1>4, <1>7, <2>1, <2>3, <3>1, <3>2 DEF EventRow, Over
  <2>4. CASE k = i /\ ~ok BY <2>1, <2>4, <1>2, <1>4
  <2> QED BY <2>2, <2>3, <2>4
<1>9. DOMAIN heard \subseteq DOMAIN queue /\ \A j \in DOMAIN heard : heard[j] \in Heard BY DEF NaomyInv, HeardKinds
<1>10. DOMAIN heard' = (IF ok THEN DOMAIN heard \cup {i} ELSE DOMAIN heard)
       /\ (ok => heard'[i] = [link |-> Target(i), times |-> Times(i) + 1])
       /\ \A j \in DOMAIN heard : (j # i \/ ~ok) => heard'[j] = heard[j]
  BY <1>1 DEF With
<1>11. (\A j : j # i => Times(j)' = Times(j)) /\ Times(i)' = Times(i) + (IF ok THEN 1 ELSE 0)
  <2>1. \A j : j # i => Times(j)' = Times(j) BY <1>10 DEF Times
  <2>2. CASE ok BY <1>10, <2>2 DEF Times
  <2>3. CASE ~ok
    <3>1. Times(i)' = Times(i) BY <1>1, <2>3 DEF Times
    <3>2. Times(i) \in Nat BY TimesAreCounted
    <3> QED BY <2>1, <2>3, <3>1, <3>2
  <2> QED BY <2>1, <2>2, <2>3
<1>12. (\A j \in DOMAIN queue : j # i => One(j)' = One(j)) /\ One(i) = 0 /\ One(i)' = (IF ok THEN 1 ELSE 0)
  BY <1>2, <1>4 DEF One
<1>13. HeardAgain'
  <2>1. \A j \in DOMAIN queue : queue[j].type = "created" => Times(j) <= crashes + One(j) BY DEF NaomyInv, HeardAgain
  <2>2. \A j, k : Twice(j, k) => Times(j) + Times(k) <= crashes + One(j) + One(k) BY DEF NaomyInv, HeardAgain
  <2>3. crashes \in Nat /\ \A j : Times(j) \in Nat /\ One(j) \in {0, 1} BY TimesAreCounted
  <2>4. ASSUME NEW j \in DOMAIN queue, queue[j].type = "created" PROVE Times(j)' <= crashes + One(j)'
    <3>1. CASE j # i BY <2>1, <2>4, <1>11, <1>12, <3>1
    <3>2. CASE j = i BY <2>1, <2>3, <2>4, <1>11, <1>12, <3>2
    <3> QED BY <3>1, <3>2
  <2>5. ASSUME NEW j, NEW k, Twice(j, k) PROVE Times(j)' + Times(k)' <= crashes + One(j)' + One(k)'
    <3>1. j \in DOMAIN queue /\ k \in DOMAIN queue /\ j # k /\ Times(j) + Times(k) <= crashes + One(j) + One(k)
      BY <2>2, <2>5, <1>7
    <3>2. CASE j # i /\ k # i BY <3>1, <3>2, <1>11, <1>12
    <3>3. CASE j = i BY <2>3, <3>1, <3>3, <1>11, <1>12
    <3>4. CASE k = i BY <2>3, <3>1, <3>4, <1>11, <1>12
    <3> QED BY <3>2, <3>3, <3>4
  <2> QED BY <1>1, <1>6, <2>4, <2>5 DEF HeardAgain
<1>14. HeardKinds'
  <2>1. Target(i) \in Nat /\ Times(i) + 1 \in Nat BY <1>1, <1>5, TargetIsShared, TimesAreCounted
  <2> QED BY <1>1, <1>5, <1>9, <1>10, <2>1 DEF HeardKinds, Heard
<1>15. Shared'
  <2> SUFFICES ASSUME NEW j \in DOMAIN heard', queue[j].type \in {"created", "change"}
               PROVE  /\ heard'[j].link \in DOMAIN links
                      /\ links[heard'[j].link].scope = "complete" /\ j > links[heard'[j].link].since
    BY <1>1 DEF Shared
  <2>1. CASE ok /\ j = i
    <3>1. heard'[j].link = Target(i) BY <1>10, <2>1
    <3> QED BY <1>1, <1>5, <2>1, <3>1, TargetIsShared
  <2>2. CASE ~(ok /\ j = i)
    <3>1. j \in DOMAIN heard /\ heard'[j] = heard[j] BY <1>10, <2>2
    <3> QED BY <3>1 DEF NaomyInv, Shared
  <2> QED BY <2>1, <2>2
<1>16. RowsSound(queue') BY <1>1 DEF NaomyInv, RowsSound
<1> QED BY <1>4, <1>8, <1>13, <1>14, <1>15, <1>16 DEF Dispatch

LEMMA BeginKeeps ==
    ASSUME NaomyInv, BeginPass
    PROVE  Dispatch'
<1> DEFINE unlinked == {i \in DOMAIN queue : queue[i].status = "PENDING" /\ queue[i].link = 0 /\ ActiveLink = 0}
           due == {i \in DOMAIN queue : queue[i].status = "PENDING" /\ queue[i].wait = 0} \ unlinked
           rows == [i \in unlinked |-> [queue[i] EXCEPT !.status = "SKIPPED"]]
<1>1. ~pass.on /\ UNCHANGED <<queue, links, heard, crashes>>
      /\ pass' = [on |-> TRUE, todo |-> due, rows |-> rows, sent |-> 0, link |-> NotRead]
  BY DEF BeginPass, NoPass
<1>2. unlinked \subseteq DOMAIN queue /\ \A i \in unlinked : queue[i].status = "PENDING" OBVIOUS
<1>3. due \subseteq DOMAIN queue /\ \A i \in due : queue[i].status = "PENDING" /\ i \notin unlinked OBVIOUS
<1>4. DOMAIN rows = unlinked /\ rows = [i \in DOMAIN rows |-> rows[i]]
      /\ \A i \in unlinked : rows[i] = [queue[i] EXCEPT !.status = "SKIPPED"]
  OBVIOUS
<1> HIDE DEF unlinked, due, rows
<1>5. \A i \in unlinked : /\ rows[i] \in EventRow /\ rows[i].type = queue[i].type /\ rows[i].good = queue[i].good
                          /\ rows[i].link = queue[i].link /\ rows[i].status = "SKIPPED"
  <2> SUFFICES ASSUME NEW i \in unlinked
               PROVE  /\ rows[i] \in EventRow /\ rows[i].type = queue[i].type /\ rows[i].good = queue[i].good
                      /\ rows[i].link = queue[i].link /\ rows[i].status = "SKIPPED"
    OBVIOUS
  <2>1. queue[i] \in EventRow BY <1>2 DEF NaomyInv, NaomyKinds
  <2> QED BY <2>1, <1>4 DEF EventRow
<1>6. PassKinds'
  <2>1. 0 \in 0..PerPass /\ NotRead \in NotRead..Len(links) BY NaomyAssumption DEF NotRead, NaomyInv, NaomyKinds
  <2>2. pass'.on = TRUE /\ pass'.todo = due /\ pass'.rows = rows /\ pass'.sent = 0 /\ pass'.link = NotRead
        /\ pass' = [on |-> pass'.on, todo |-> pass'.todo, rows |-> pass'.rows, sent |-> pass'.sent, link |-> pass'.link]
    BY <1>1
  <2>3. \A i \in due : queue[i].status = "PENDING" /\ i \notin DOMAIN rows BY <1>3, <1>4
  <2> QED BY <1>1, <1>2, <1>3, <1>4, <1>5, <2>1, <2>2, <2>3 DEF PassKinds
<1>7. RowsSound(pass'.rows) BY <1>1, <1>2, <1>4, <1>5 DEF NaomyInv, RowsSound
<1>8. \A i \in DOMAIN queue : Own(i) = queue[i] BY <1>1 DEF Own, NaomyInv, PassKinds
<1>9. \A i \in DOMAIN queue : Own(i)' = IF i \in unlinked THEN rows[i] ELSE queue[i] BY <1>1, <1>4 DEF Own
<1>10. \A i \in DOMAIN queue : One(i)' = One(i) BY <1>2, <1>5, <1>8, <1>9 DEF One
<1>11. \A j, k : Twice(j, k)' = Twice(j, k) BY <1>1 DEF Twice
<1>12. \A j, k : Twice(j, k) => j \in DOMAIN queue /\ k \in DOMAIN queue BY DEF Twice
<1>13. FirstIsOver'
  <2> SUFFICES ASSUME NEW j, NEW k, Twice(j, k)
               PROVE  /\ queue[k].status = "SENT" => Over(queue[j].status)
                      /\ Own(k)'.status = "SENT" => Over(Own(j)'.status)
    BY <1>1, <1>11 DEF FirstIsOver
  <2>1. queue[k].status = "SENT" => Over(queue[j].status) BY DEF NaomyInv, FirstIsOver
  <2> QED BY <2>1, <1>5, <1>9, <1>12 DEF Over
<1>14. HeardAgain'
  <2>1. \A i : Times(i)' = Times(i) BY <1>1 DEF Times
  <2> QED BY <2>1, <1>1, <1>10, <1>11, <1>12 DEF NaomyInv, HeardAgain
<1>15. HeardKinds' /\ Shared' /\ RowsSound(queue') BY <1>1 DEF NaomyInv, HeardKinds, Shared, RowsSound
<1> QED BY <1>6, <1>7, <1>13, <1>14, <1>15 DEF Dispatch

\* With no pass under way, the pass has nothing of its own.
LEMMA NoPassIsEmpty ==
    ASSUME NaomyInv, pass' = NoPass
    PROVE  PassKinds' /\ RowsSound(pass'.rows) /\ \A i : Own(i)' = queue'[i]
<1>1. pass' = [on |-> FALSE, todo |-> {}, rows |-> <<>>, sent |-> 0, link |-> NotRead] BY DEF NoPass
<1>2. DOMAIN pass'.rows = {} /\ pass'.rows = [i \in DOMAIN pass'.rows |-> pass'.rows[i]] BY <1>1
<1>3. 0 \in 0..PerPass BY NaomyAssumption
<1>4. RowsSound(pass'.rows) /\ \A i : Own(i)' = queue'[i] BY <1>2 DEF RowsSound, Own
<1> QED BY <1>1, <1>2, <1>3, <1>4 DEF PassKinds, NotRead

LEMMA EndKeeps ==
    ASSUME NaomyInv, EndPass
    PROVE  Dispatch' /\ queue' \in Seq(EventRow) /\ Len(queue') = Len(queue)
<1>1. UNCHANGED <<links, heard, crashes>> /\ queue' = [i \in DOMAIN queue |-> Own(i)] /\ pass' = NoPass BY DEF EndPass
<1>2. DOMAIN queue = 1..Len(queue) /\ Len(queue) \in Nat BY DEF NaomyInv, NaomyKinds
<1>3. DOMAIN queue' = DOMAIN queue /\ \A i \in DOMAIN queue : queue'[i] = Own(i) BY <1>1
<1>4. \A i \in DOMAIN queue : /\ Own(i) \in EventRow /\ Own(i).type = queue[i].type /\ Own(i).good = queue[i].good
                              /\ Own(i).link = queue[i].link
  BY DEF Own, NaomyInv, NaomyKinds, PassKinds
<1>5. queue' \in Seq(EventRow) /\ Len(queue') = Len(queue)
  <2>1. queue' \in [1..Len(queue) -> EventRow] BY <1>1, <1>2, <1>4
  <2> QED BY <1>2, <2>1
<1>6. PassKinds' /\ RowsSound(pass'.rows) /\ \A i : Own(i)' = queue'[i] BY <1>1, NoPassIsEmpty
<1>7. RowsSound(queue') BY <1>3 DEF NaomyInv, RowsSound, Own
<1>8. \A i \in DOMAIN queue : Own(i)' = Own(i) /\ One(i)' = One(i) BY <1>3, <1>6 DEF One
<1>9. \A j, k : Twice(j, k)' = Twice(j, k) BY <1>3, <1>4 DEF Twice
<1>10. \A j, k : Twice(j, k) => j \in DOMAIN queue /\ k \in DOMAIN queue BY DEF Twice
<1>11. FirstIsOver'
  <2> SUFFICES ASSUME NEW j, NEW k, Twice(j, k)
               PROVE  /\ queue'[k].status = "SENT" => Over(queue'[j].status)
                      /\ Own(k)'.status = "SENT" => Over(Own(j)'.status)
    BY <1>9 DEF FirstIsOver
  <2> QED BY <1>3, <1>8, <1>10 DEF NaomyInv, FirstIsOver
<1>12. HeardAgain'
  <2>1. \A i : Times(i)' = Times(i) BY <1>1 DEF Times
  <2> QED BY <2>1, <1>1, <1>3, <1>4, <1>8, <1>9, <1>10 DEF NaomyInv, HeardAgain
<1>13. HeardKinds' /\ Shared' BY <1>1, <1>3, <1>4 DEF NaomyInv, HeardKinds, Shared
<1> QED BY <1>5, <1>6, <1>7, <1>11, <1>12, <1>13 DEF Dispatch

LEMMA DiesKeeps ==
    ASSUME NaomyInv, PassDies
    PROVE  Dispatch'
<1>1. UNCHANGED <<queue, links, heard>> /\ crashes' = crashes + 1 /\ pass' = NoPass BY DEF PassDies
<1>2. PassKinds' /\ RowsSound(pass'.rows) /\ \A i : Own(i)' = queue'[i] BY <1>1, NoPassIsEmpty
<1>3. \A j, k : Twice(j, k)' = Twice(j, k) BY <1>1 DEF Twice
<1>4. FirstIsOver' BY <1>1, <1>2, <1>3 DEF NaomyInv, FirstIsOver
<1>5. HeardAgain'
  <2>1. \A i : Times(i)' = Times(i) BY <1>1 DEF Times
  <2>2. crashes \in Nat /\ \A i : Times(i) \in Nat /\ One(i) \in {0, 1} BY TimesAreCounted
  <2>3. \A i : One(i)' \in {0, 1} BY DEF One
  <2>4. ASSUME NEW i \in DOMAIN queue, queue[i].type = "created" PROVE Times(i)' <= crashes' + One(i)'
    <3>1. Times(i) <= crashes + One(i) BY <2>4 DEF NaomyInv, HeardAgain
    <3> QED BY <3>1, <2>1, <2>2, <2>3, <1>1
  <2>5. ASSUME NEW j, NEW k, Twice(j, k) PROVE Times(j)' + Times(k)' <= crashes' + One(j)' + One(k)'
    <3>1. Times(j) + Times(k) <= crashes + One(j) + One(k) BY <2>5 DEF NaomyInv, HeardAgain
    <3>2. One(j) + One(k) <= 1
      <4>1. Own(k).status = "SENT" => Over(Own(j).status) BY <2>5 DEF NaomyInv, FirstIsOver
      <4> QED BY <4>1 DEF One, Over
    <3> QED BY <3>1, <3>2, <2>1, <2>2, <2>3, <1>1
  <2> QED BY <1>1, <1>3, <2>4, <2>5 DEF HeardAgain
<1>6. HeardKinds' /\ Shared' /\ RowsSound(queue') BY <1>1 DEF NaomyInv, HeardKinds, Shared, RowsSound
<1> QED BY <1>2, <1>4, <1>5, <1>6 DEF Dispatch

LEMMA MinuteKeeps ==
    ASSUME NaomyInv, MinutePasses
    PROVE  Dispatch' /\ queue' \in Seq(EventRow) /\ Len(queue') = Len(queue)
<1> DEFINE later(i) == [queue[i] EXCEPT !.wait = IF @ > 0 THEN @ - 1 ELSE 0]
<1>1. UNCHANGED <<links, heard, crashes, pass>> /\ ~pass.on /\ queue' = [i \in DOMAIN queue |-> later(i)] BY DEF MinutePasses
<1>2. DOMAIN queue = 1..Len(queue) /\ Len(queue) \in Nat BY DEF NaomyInv, NaomyKinds
<1>3. \A i \in DOMAIN queue :
        /\ later(i) \in EventRow /\ later(i).type = queue[i].type /\ later(i).good = queue[i].good
        /\ later(i).link = queue[i].link /\ later(i).status = queue[i].status /\ later(i).attempts = queue[i].attempts
  <2> SUFFICES ASSUME NEW i \in DOMAIN queue
               PROVE  /\ later(i) \in EventRow /\ later(i).type = queue[i].type /\ later(i).good = queue[i].good
                      /\ later(i).link = queue[i].link /\ later(i).status = queue[i].status
                      /\ later(i).attempts = queue[i].attempts
    OBVIOUS
  <2>1. queue[i] \in EventRow BY DEF NaomyInv, NaomyKinds
  <2>2. (IF queue[i].wait > 0 THEN queue[i].wait - 1 ELSE 0) \in Nat BY <2>1 DEF EventRow
  <2> QED BY <2>1, <2>2 DEF EventRow
<1> HIDE DEF later
<1>4. DOMAIN queue' = DOMAIN queue /\ \A i \in DOMAIN queue : queue'[i] = later(i) BY <1>1
<1>5. queue' \in Seq(EventRow) /\ Len(queue') = Len(queue)
  <2>1. queue' \in [1..Len(queue) -> EventRow] BY <1>1, <1>2, <1>3
  <2> QED BY <1>2, <2>1
<1>6. \A i : Own(i) = queue[i] /\ Own(i)' = queue'[i] BY <1>1 DEF Own, NaomyInv, PassKinds
<1>7. PassKinds' BY <1>1, <1>4 DEF NaomyInv, PassKinds
<1>8. RowsSound(queue') BY <1>3, <1>4 DEF NaomyInv, RowsSound
<1>9. RowsSound(pass'.rows) BY <1>1 DEF NaomyInv, RowsSound
<1>10. \A j, k : Twice(j, k)' = Twice(j, k) BY <1>3, <1>4 DEF Twice
<1>11. \A j, k : Twice(j, k) => j \in DOMAIN queue /\ k \in DOMAIN queue BY DEF Twice
<1>12. \A i \in DOMAIN queue : queue'[i].status = queue[i].status /\ Own(i)'.status = Own(i).status /\ One(i)' = One(i)
  BY <1>3, <1>4, <1>6 DEF One
<1>13. FirstIsOver' BY <1>10, <1>11, <1>12 DEF NaomyInv, FirstIsOver
<1>14. HeardAgain'
  <2>1. \A i : Times(i)' = Times(i) BY <1>1 DEF Times
  <2> QED BY <2>1, <1>1, <1>3, <1>4, <1>10, <1>11, <1>12 DEF NaomyInv, HeardAgain
<1>15. HeardKinds' /\ Shared' BY <1>1, <1>3, <1>4 DEF NaomyInv, HeardKinds, Shared
<1> QED BY <1>5, <1>7, <1>8, <1>9, <1>13, <1>14, <1>15 DEF Dispatch

-----------------------------------------------------------------------------
(* Linking and the catalogue.                                              *)

\* The steps that touch neither the queue nor the pass.
LEMMA LinkingKeeps ==
    ASSUME NaomyInv,
           \/ \E s \in Scopes : CreatePairing(s) \/ \E yes \in BOOLEAN : DecideRequest(yes, s)
           \/ \E k \in DOMAIN codes : CodeExpires(k) \/ \E c \in Callers : Pair(c, k)
           \/ ReceiveRequest
    PROVE  NaomyInv'
<1>1. UNCHANGED <<queue, links, pass, heard, crashes>>
  BY DEF CreatePairing, DecideRequest, CodeExpires, Pair, ReceiveRequest
<1>2. Dispatch'
  <2>1. \A i : Own(i)' = Own(i) /\ Times(i)' = Times(i) BY <1>1 DEF Own, Times
  <2>2. \A i : One(i)' = One(i) BY <2>1 DEF One
  <2>3. \A j, k : Twice(j, k)' = Twice(j, k) BY <1>1 DEF Twice
  <2>4. FirstIsOver' BY <1>1, <2>1, <2>3 DEF NaomyInv, FirstIsOver
  <2>5. HeardAgain' BY <1>1, <2>1, <2>2, <2>3 DEF NaomyInv, HeardAgain
  <2>6. PassKinds' /\ HeardKinds' /\ Shared' /\ RowsSound(queue)' /\ RowsSound(pass.rows)'
    BY <1>1 DEF NaomyInv, PassKinds, HeardKinds, Shared, RowsSound
  <2> QED BY <2>4, <2>5, <2>6 DEF Dispatch
<1>3. codes' \in Seq(Code) /\ Len(codes) <= Len(codes')
  <2>1. codes \in Seq(Code) BY DEF NaomyInv, NaomyKinds
  <2>2. ASSUME NEW s \in Scopes PROVE NewCode(s) \in Seq(Code) /\ Len(codes) <= Len(NewCode(s))
    <3>1. [scope |-> s, used |-> FALSE, expired |-> FALSE] \in Code BY DEF Code
    <3> QED BY <2>1, <3>1 DEF NewCode
  <2>3. ASSUME NEW s \in Scopes, CreatePairing(s) \/ \E yes \in BOOLEAN : DecideRequest(yes, s)
        PROVE  codes' \in Seq(Code) /\ Len(codes) <= Len(codes')
    <3>1. codes' = NewCode(s) \/ codes' = codes BY <2>3 DEF CreatePairing, DecideRequest
    <3>2. Len(codes) \in Nat BY <2>1
    <3> QED BY <2>1, <2>2, <3>1, <3>2
  <2>4. ASSUME NEW k \in DOMAIN codes, CodeExpires(k) PROVE codes' \in Seq(Code) /\ Len(codes) <= Len(codes')
    <3>1. codes' = [codes EXCEPT ![k] = [codes[k] EXCEPT !.expired = TRUE]] BY <2>1, <2>4 DEF CodeExpires
    <3>2. codes[k] \in Code BY <2>1
    <3>3. [codes[k] EXCEPT !.expired = TRUE] \in Code BY <3>2 DEF Code
    <3> QED BY <2>1, <3>1, <3>3
  <2>5. ASSUME NEW k \in DOMAIN codes, \E c \in Callers : Pair(c, k) PROVE codes' \in Seq(Code) /\ Len(codes) <= Len(codes')
    BY <2>1, <2>5 DEF Pair
  <2>6. ASSUME ReceiveRequest PROVE codes' \in Seq(Code) /\ Len(codes) <= Len(codes') BY <2>1, <2>6 DEF ReceiveRequest
  <2> QED BY <2>3, <2>4, <2>5, <2>6
<1>4. asked' \in {"no", "PENDING", "ACCEPTED", "REFUSED"}
  BY DEF NaomyInv, NaomyKinds, CreatePairing, DecideRequest, CodeExpires, Pair, ReceiveRequest
<1>5. /\ pairing' \in [Callers -> [code : Nat, at : Nat]]
      /\ \A c \in Callers : pairing'[c].code <= Len(codes') /\ pairing'[c].at <= Len(queue)
  <2>1. pairing \in [Callers -> [code : Nat, at : Nat]] /\ Len(codes) \in Nat /\ Len(codes') \in Nat /\ Len(queue) \in Nat
        /\ \A c \in Callers : pairing[c].code <= Len(codes) /\ pairing[c].at <= Len(queue)
    BY <1>3 DEF NaomyInv, NaomyKinds
  <2>2. CASE pairing' = pairing BY <2>1, <2>2, <1>3
  <2>3. ASSUME NEW k \in DOMAIN codes, NEW c \in Callers, Pair(c, k)
        PROVE  /\ pairing' \in [Callers -> [code : Nat, at : Nat]]
               /\ \A d \in Callers : pairing'[d].code <= Len(codes') /\ pairing'[d].at <= Len(queue)
    <3>1. pairing' = [pairing EXCEPT ![c] = [code |-> k, at |-> Len(queue)]] /\ codes' = codes BY <2>3 DEF Pair
    <3>2. k \in Nat /\ k <= Len(codes) BY DEF NaomyInv, NaomyKinds
    <3> QED BY <2>1, <3>1, <3>2
  <2> QED BY <2>2, <2>3 DEF CreatePairing, DecideRequest, CodeExpires, ReceiveRequest
<1>6. NaomyKinds' BY <1>1, <1>3, <1>4, <1>5 DEF NaomyInv, NaomyKinds
<1> QED BY <1>2, <1>6 DEF NaomyInv, Dispatch

\* The dates that are kept are of events that came.
LEMMA LinksGrow ==
    ASSUME NaomyInv, queue' \in Seq(EventRow), Len(queue) <= Len(queue'), UNCHANGED <<codes, asked, pairing, crashes>>,
           links' \in Seq(LinkRow), Len(links') = Len(links), \A l \in DOMAIN links : links'[l].since = links[l].since
    PROVE  NaomyKinds'
<1>1. Len(queue) \in Nat /\ Len(queue') \in Nat /\ links \in Seq(LinkRow) /\ DOMAIN links' = DOMAIN links BY DEF NaomyInv, NaomyKinds
<1>2. \A l \in DOMAIN links' : links'[l].since <= Len(queue')
  <2> SUFFICES ASSUME NEW l \in DOMAIN links PROVE links[l].since <= Len(queue') BY <1>1
  <2>1. links[l].since <= Len(queue) /\ links[l] \in LinkRow BY DEF NaomyInv, NaomyKinds
  <2>2. links[l].since \in Nat BY <2>1 DEF LinkRow
  <2> QED BY <1>1, <2>1, <2>2
<1>3. \A c \in Callers : pairing[c].at <= Len(queue')
  <2> SUFFICES ASSUME NEW c \in Callers PROVE pairing[c].at <= Len(queue') OBVIOUS
  <2>1. pairing[c].at \in Nat /\ pairing[c].at <= Len(queue) BY DEF NaomyInv, NaomyKinds
  <2> QED BY <1>1, <2>1
<1> QED BY <1>1, <1>2, <1>3 DEF NaomyInv, NaomyKinds

LEMMA SaveKeeps ==
    ASSUME NaomyInv, NEW g \in Goods, NEW new \in Contents, SaveProduct(g, new)
    PROVE  NaomyInv'
<1> DEFINE es == CollectEvents(g, item[g], new)
           change == Event("change", g, 0)
           created == Event("created", g, 0)
<1>1. queue' = queue \o es /\ UNCHANGED <<codes, asked, links, pairing, pass, heard, crashes>> BY DEF SaveProduct
<1>2. Fresh(<<change>>) /\ Fresh(<<created>>) BY EventIsFresh
<1>3. Fresh(es)
  <2> DEFINE a == IF item[g].known /\ Sells(item[g]) # Sells(new) THEN <<change>> ELSE <<>>
             b == IF new.active /\ new.photo /\ ~item[g].photo THEN <<created>> ELSE <<>>
  <2>1. es = a \o b BY DEF CollectEvents
  <2>2. a \in {<<>>, <<change>>} /\ b \in {<<>>, <<created>>} OBVIOUS
  <2> HIDE DEF es, a, b, change, created
  <2>3. Fresh(a) /\ Fresh(b) BY <1>2, <2>2, NoneIsFresh
  <2> QED BY <2>1, <2>3, FreshTogether
<1> HIDE DEF es, change, created
<1>5. links' \in Seq(LinkRow)
      /\ \A l \in DOMAIN links : l \in DOMAIN links' /\ links'[l].scope = links[l].scope /\ links'[l].since = links[l].since
  BY <1>1 DEF NaomyInv, NaomyKinds
<1>6. queue' \in Seq(EventRow) /\ Len(queue) <= Len(queue') /\ Dispatch' BY <1>1, <1>3, <1>5, QueueGrows
<1>7. NaomyKinds' BY <1>1, <1>5, <1>6, LinksGrow
<1> QED BY <1>6, <1>7 DEF NaomyInv, Dispatch

LEMMA DisconnectKeeps ==
    ASSUME NaomyInv, Disconnect
    PROVE  NaomyInv'
<1> DEFINE es == <<Event("closed", NoGood, ActiveLink)>>
           closed == [links[ActiveLink] EXCEPT !.status = "CLOSED"]
<1>1. links \in Seq(LinkRow) /\ queue \in Seq(EventRow) BY DEF NaomyInv, NaomyKinds
<1>2. ActiveLink \in DOMAIN links /\ ActiveLink \in Nat BY <1>1, ActiveLinkIsOne DEF NaomyInv, Disconnect
<1>3. Fresh(es) BY <1>2, EventIsFresh
<1>4. /\ queue' = Append(queue, Event("closed", NoGood, ActiveLink)) /\ UNCHANGED <<codes, asked, pairing, pass, heard, crashes>>
      /\ links' = [links EXCEPT ![ActiveLink] = closed]
  BY <1>1, <1>2 DEF Disconnect
<1>5. closed \in LinkRow /\ closed.scope = links[ActiveLink].scope /\ closed.since = links[ActiveLink].since
  <2>1. links[ActiveLink] \in LinkRow BY <1>1, <1>2
  <2> QED BY <2>1 DEF LinkRow
<1>6. queue' = queue \o es
  <2> DEFINE e == Event("closed", NoGood, ActiveLink)
  <2>1. e \in EventRow
    <3>1. es \in Seq(EventRow) /\ es[1] = e /\ 1 \in DOMAIN es BY <1>3 DEF Fresh
    <3> QED BY <3>1
  <2> HIDE DEF e
  <2>2. Append(queue, e) = queue \o <<e>> BY <1>1, <2>1, AppendIsConcat
  <2> QED BY <1>4, <2>2 DEF e
<1> HIDE DEF es, closed
<1>7. links' \in Seq(LinkRow) /\ Len(links') = Len(links)
      /\ \A l \in DOMAIN links : l \in DOMAIN links' /\ links'[l].scope = links[l].scope /\ links'[l].since = links[l].since
  BY <1>1, <1>2, <1>4, <1>5
<1>8. queue' \in Seq(EventRow) /\ Len(queue) <= Len(queue') /\ Dispatch' BY <1>3, <1>4, <1>6, <1>7, QueueGrows
<1>9. NaomyKinds' BY <1>4, <1>7, <1>8, LinksGrow
<1> QED BY <1>8, <1>9 DEF NaomyInv, Dispatch

LEMMA CommitPairKeeps ==
    ASSUME NaomyInv, NEW c \in Callers, CommitPair(c)
    PROVE  NaomyInv'
<1> DEFINE k == pairing[c].code
           before == [l \in DOMAIN links |-> IF l = ActiveLink THEN [links[l] EXCEPT !.status = "CLOSED"] ELSE links[l]]
           new == [status |-> "ACTIVE", scope |-> codes[k].scope, since |-> pairing[c].at]
           a == IF ActiveLink = 0 THEN <<>> ELSE <<Event("closed", NoGood, ActiveLink)>>
           b == <<Event("opened", NoGood, Len(links) + 1)>>
<1>1. /\ links \in Seq(LinkRow) /\ queue \in Seq(EventRow) /\ Len(queue) \in Nat
      /\ codes \in Seq(Code) /\ pairing \in [Callers -> [code : Nat, at : Nat]]
      /\ k \in 1..Len(codes) /\ pairing[c].at \in Nat /\ pairing[c].at <= Len(queue)
  <2>1. pairing \in [Callers -> [code : Nat, at : Nat]] /\ k # 0 /\ k <= Len(codes) BY DEF NaomyInv, NaomyKinds, CommitPair
  <2> QED BY <2>1 DEF NaomyInv, NaomyKinds
<1>2. /\ queue' = (queue \o a) \o b /\ links' = Append(before, new) /\ UNCHANGED <<asked, pass, heard, crashes>>
      /\ codes' = [codes EXCEPT ![k] = [codes[k] EXCEPT !.used = TRUE]]
      /\ pairing' = [pairing EXCEPT ![c] = [code |-> 0, at |-> 0]]
  BY <1>1 DEF CommitPair
<1>3. Fresh(a) /\ Fresh(b)
  <2>1. Len(links) + 1 \in Nat /\ ActiveLink \in Nat BY <1>1, ActiveLinkIsOne DEF NaomyInv
  <2>2. Fresh(b) BY <2>1, EventIsFresh
  <2>3. CASE ActiveLink = 0 BY <2>2, <2>3, NoneIsFresh
  <2>4. CASE ActiveLink # 0
    <3>1. Fresh(<<Event("closed", NoGood, ActiveLink)>>) BY <2>1, EventIsFresh
    <3> QED BY <2>2, <2>4, <3>1
  <2> QED BY <2>3, <2>4
<1>4. before \in Seq(LinkRow) /\ Len(before) = Len(links)
      /\ \A l \in DOMAIN links : before[l].scope = links[l].scope /\ before[l].since = links[l].since
  <2>1. \A l \in DOMAIN links : /\ [links[l] EXCEPT !.status = "CLOSED"] \in LinkRow
                                /\ [links[l] EXCEPT !.status = "CLOSED"].scope = links[l].scope
                                /\ [links[l] EXCEPT !.status = "CLOSED"].since = links[l].since
    <3> SUFFICES ASSUME NEW l \in DOMAIN links
                 PROVE  /\ [links[l] EXCEPT !.status = "CLOSED"] \in LinkRow
                        /\ [links[l] EXCEPT !.status = "CLOSED"].scope = links[l].scope
                        /\ [links[l] EXCEPT !.status = "CLOSED"].since = links[l].since
      OBVIOUS
    <3>1. links[l] \in LinkRow BY <1>1
    <3> QED BY <3>1 DEF LinkRow
  <2>2. DOMAIN links = 1..Len(links) /\ Len(links) \in Nat BY <1>1
  <2>3. before \in [1..Len(links) -> LinkRow] BY <1>1, <2>1, <2>2
  <2> QED BY <2>1, <2>2, <2>3
<1>5. codes[k] \in Code /\ new \in LinkRow /\ new.since = pairing[c].at
  <2>1. codes[k] \in Code BY <1>1
  <2> QED BY <1>1, <2>1 DEF Code, LinkRow
<1> HIDE DEF before, new, a, b
<1>6. queue' = queue \o (a \o b) /\ Fresh(a \o b)
  <2>1. a \in Seq(EventRow) /\ b \in Seq(EventRow) BY <1>3 DEF Fresh
  <2>2. queue \in Seq(EventRow) BY <1>1
  <2>3. (queue \o a) \o b = queue \o (a \o b) BY <2>1, <2>2, ConcatAssociative
  <2>4. Fresh(a \o b) BY <1>3, FreshTogether
  <2> QED BY <1>2, <2>3, <2>4
<1>7. links' \in Seq(LinkRow) /\ Len(links') = Len(links) + 1 /\ links'[Len(links) + 1] = new
      /\ \A l \in DOMAIN links : l \in DOMAIN links' /\ links'[l] = before[l]
  BY <1>1, <1>2, <1>4, <1>5
<1>8. \A l \in DOMAIN links : l \in DOMAIN links' /\ links'[l].scope = links[l].scope /\ links'[l].since = links[l].since
  BY <1>4, <1>7
<1>9. queue' \in Seq(EventRow) /\ Len(queue) <= Len(queue') /\ Dispatch' BY <1>2, <1>6, <1>7, <1>8, QueueGrows
<1>10. codes' \in Seq(Code) /\ Len(codes') = Len(codes)
  <2>1. [codes[k] EXCEPT !.used = TRUE] \in Code BY <1>5 DEF Code
  <2> QED BY <1>1, <1>2, <2>1
<1>11. Len(queue') \in Nat BY <1>9
<1>12. \A l \in DOMAIN links' : links'[l].since <= Len(queue')
  <2> SUFFICES ASSUME NEW l \in DOMAIN links' PROVE links'[l].since <= Len(queue') OBVIOUS
  <2>1. CASE l \in DOMAIN links
    <3>1. links[l].since <= Len(queue) /\ links[l] \in LinkRow BY <1>1, <2>1 DEF NaomyInv, NaomyKinds
    <3>2. links[l].since \in Nat BY <3>1 DEF LinkRow
    <3> QED BY <1>1, <1>8, <1>9, <1>11, <2>1, <3>1, <3>2
  <2>2. CASE l \notin DOMAIN links
    <3>1. l = Len(links) + 1 BY <1>1, <1>7, <2>2
    <3> QED BY <1>1, <1>5, <1>7, <1>9, <1>11, <3>1
  <2> QED BY <2>1, <2>2
<1>13. /\ pairing' \in [Callers -> [code : Nat, at : Nat]]
       /\ \A d \in Callers : pairing'[d].code <= Len(codes') /\ pairing'[d].at <= Len(queue')
  <2>1. Len(codes) \in Nat BY <1>1
  <2>2. ASSUME NEW d \in Callers PROVE pairing'[d] \in [code : Nat, at : Nat] /\ pairing'[d].code <= Len(codes') /\ pairing'[d].at <= Len(queue')
    <3>1. CASE d = c BY <1>1, <1>2, <1>10, <1>11, <2>1, <3>1
    <3>2. CASE d # c
      <4>1. pairing'[d] = pairing[d] /\ pairing[d].at \in Nat /\ pairing[d].at <= Len(queue) /\ pairing[d].code <= Len(codes)
        BY <1>1, <1>2, <3>2 DEF NaomyInv, NaomyKinds
      <4> QED BY <1>1, <1>9, <1>10, <1>11, <4>1
    <3> QED BY <3>1, <3>2
  <2> QED BY <1>1, <1>2, <2>2
<1>14. NaomyKinds' BY <1>2, <1>7, <1>9, <1>10, <1>12, <1>13 DEF NaomyInv, NaomyKinds
<1> QED BY <1>9, <1>14 DEF NaomyInv, Dispatch

-----------------------------------------------------------------------------
(* The invariant, and what it says.                                        *)

LEMMA NaomyStarts == NaomyInit => NaomyInv
<1> SUFFICES ASSUME NaomyInit PROVE NaomyInv OBVIOUS
<1>1. queue = <<>> /\ heard = <<>> /\ links = <<>> /\ codes = <<>> /\ pass = NoPass /\ crashes = 0 /\ asked = "no"
      /\ pairing = [d \in Callers |-> [code |-> 0, at |-> 0]]
  BY DEF NaomyInit
<1>2. NaomyKinds BY <1>1 DEF NaomyKinds
<1>3. PassKinds
  <2>1. pass = [on |-> FALSE, todo |-> {}, rows |-> <<>>, sent |-> 0, link |-> NotRead] BY <1>1 DEF NoPass
  <2>2. DOMAIN pass.rows = {} /\ pass.rows = [i \in DOMAIN pass.rows |-> pass.rows[i]] BY <2>1
  <2>3. 0 \in 0..PerPass BY NaomyAssumption
  <2>4. Len(links) = 0 BY <1>1
  <2> QED BY <2>1, <2>2, <2>3, <2>4 DEF PassKinds, NotRead
<1>4. DOMAIN queue = {} /\ DOMAIN heard = {} /\ DOMAIN pass.rows = {} BY <1>1 DEF NoPass
<1>5. HeardKinds /\ RowsSound(queue) /\ RowsSound(pass.rows) /\ Shared BY <1>4 DEF HeardKinds, RowsSound, Shared
<1>6. FirstIsOver /\ HeardAgain BY <1>4 DEF FirstIsOver, HeardAgain, Twice
<1> QED BY <1>2, <1>3, <1>5, <1>6 DEF NaomyInv

LEMMA NaomyStepKeeps == NaomyInv /\ [NaomyNext]_naomyVars => NaomyInv'
<1> SUFFICES ASSUME NaomyInv, [NaomyNext]_naomyVars PROVE NaomyInv' OBVIOUS
<1>1. CASE \/ \E s \in Scopes : CreatePairing(s) \/ \E yes \in BOOLEAN : DecideRequest(yes, s)
           \/ \E k \in DOMAIN codes : CodeExpires(k) \/ \E c \in Callers : Pair(c, k)
           \/ ReceiveRequest
  BY <1>1, LinkingKeeps
<1>2. CASE Disconnect BY <1>2, DisconnectKeeps
<1>3. ASSUME NEW c \in Callers, CommitPair(c) PROVE NaomyInv' BY <1>3, CommitPairKeeps
<1>4. ASSUME NEW g \in Goods, NEW new \in Contents, SaveProduct(g, new) PROVE NaomyInv' BY <1>4, SaveKeeps
<1>5. ASSUME Dispatch', queue' \in Seq(EventRow), Len(queue') = Len(queue), UNCHANGED <<codes, asked, pairing, links>>, crashes' \in Nat
      PROVE  NaomyInv'
  <2>1. NaomyKinds' BY <1>5 DEF NaomyInv, NaomyKinds
  <2> QED BY <1>5, <2>1 DEF NaomyInv, Dispatch
<1>6. queue \in Seq(EventRow) /\ crashes \in Nat BY DEF NaomyInv, NaomyKinds
<1>7. CASE BeginPass
  <2>1. UNCHANGED <<codes, asked, pairing, links, queue, crashes>> BY <1>7 DEF BeginPass
  <2> QED BY <1>5, <1>6, <1>7, <2>1, BeginKeeps
<1>8. CASE PassStep
  <2>1. PICK i \in DOMAIN queue : SkipEvent(i) \/ \E x \in {"ok", "no", "revoked"} : SendEvent(i, x) BY <1>8 DEF PassStep
  <2>2. UNCHANGED <<codes, asked, pairing, links, queue, crashes>> BY <2>1 DEF SkipEvent, SendEvent
  <2>3. Dispatch' BY <2>1, SkipKeeps, SendKeeps
  <2> QED BY <1>5, <1>6, <2>2, <2>3
<1>9. CASE EndPass
  <2>1. UNCHANGED <<codes, asked, pairing, links, crashes>> BY <1>9 DEF EndPass
  <2> QED BY <1>5, <1>6, <1>9, <2>1, EndKeeps
<1>10. CASE PassDies
  <2>1. UNCHANGED <<codes, asked, pairing, links, queue>> /\ crashes' \in Nat BY <1>6, <1>10 DEF PassDies
  <2> QED BY <1>5, <1>6, <1>10, <2>1, DiesKeeps
<1>11. CASE MinutePasses
  <2>1. UNCHANGED <<codes, asked, pairing, links, crashes>> BY <1>11 DEF MinutePasses
  <2> QED BY <1>5, <1>6, <1>11, <2>1, MinuteKeeps
<1>12. CASE UNCHANGED naomyVars
  <2>1. UNCHANGED <<queue, links, codes, asked, pairing, pass, heard, crashes>> BY <1>12 DEF naomyVars
  <2>2. \A i : Own(i)' = Own(i) /\ Times(i)' = Times(i) BY <2>1 DEF Own, Times
  <2>3. \A i : One(i)' = One(i) BY <2>2 DEF One
  <2>4. \A j, k : Twice(j, k)' = Twice(j, k) BY <2>1 DEF Twice
  <2>5. FirstIsOver' BY <2>1, <2>2, <2>4 DEF NaomyInv, FirstIsOver
  <2>6. HeardAgain' BY <2>1, <2>2, <2>3, <2>4 DEF NaomyInv, HeardAgain
  <2>7. PassKinds' /\ HeardKinds' /\ Shared' /\ RowsSound(queue)' /\ RowsSound(pass.rows)'
    BY <2>1 DEF NaomyInv, PassKinds, HeardKinds, Shared, RowsSound
  <2>8. Dispatch' BY <2>5, <2>6, <2>7 DEF Dispatch
  <2> QED BY <1>5, <1>6, <2>1, <2>8
<1> QED BY <1>1, <1>2, <1>3, <1>4, <1>7, <1>8, <1>9, <1>10, <1>11, <1>12 DEF NaomyNext

\* Types of the link with Naomy: the queue, the links and the pass under way.
THEOREM NaomyTypeCorrect == NaomySpec => []NaomyTypeOK
<1>1. NaomyInv => NaomyTypeOK
  <2> SUFFICES ASSUME NaomyInv PROVE NaomyTypeOK OBVIOUS
  <2>1. \A i \in DOMAIN queue : queue[i] \in EventRow BY DEF NaomyInv, NaomyKinds
  <2>2. ASSUME NEW l \in DOMAIN links
        PROVE  links[l] \in [status : {"ACTIVE", "CLOSED"}, scope : Scopes, since : 0..Len(queue)]
    <3>1. links[l] \in LinkRow /\ links[l].since <= Len(queue) /\ Len(queue) \in Nat BY DEF NaomyInv, NaomyKinds
    <3> QED BY <3>1 DEF LinkRow
  <2> QED BY <2>1, <2>2 DEF NaomyTypeOK, NaomyInv, NaomyKinds, PassKinds
<1> QED BY <1>1, NaomyStarts, NaomyStepKeeps, PTL DEF NaomySpec

\* What Naomy hears of a shop's catalogue (services/naomy_bridge.py, dispatch):
\* each product announced once, but for the passes that died before they
\* committed; and nothing that is older than the link it is told on, or that
\* the link does not share.
THEOREM NaomyHearsRight == NaomySpec => []HeardRight
<1>1. NaomyInv => HeardRight
  <2> SUFFICES ASSUME NaomyInv PROVE HeardRight OBVIOUS
  <2>1. AnnouncedOnce
    <3> SUFFICES ASSUME NEW i \in DOMAIN heard, NEW j \in DOMAIN heard,
                        queue[i].type = "created", queue[j].type = "created", queue[i].good = queue[j].good
                 PROVE  heard[i].times + (IF i = j THEN 0 ELSE heard[j].times) <= 1 + crashes
      BY DEF AnnouncedOnce
    <3>1. i \in DOMAIN queue /\ j \in DOMAIN queue /\ heard[i].times = Times(i) /\ heard[j].times = Times(j)
      BY DEF NaomyInv, HeardKinds, Times
    <3>2. crashes \in Nat /\ Times(i) \in Nat /\ Times(j) \in Nat /\ One(i) \in {0, 1} /\ One(j) \in {0, 1} BY TimesAreCounted
    <3>3. i \in Nat /\ j \in Nat BY <3>1 DEF NaomyInv, NaomyKinds
    <3>4. ASSUME NEW m, NEW n, Twice(m, n) PROVE One(m) + One(n) <= 1 /\ Times(m) + Times(n) <= crashes + One(m) + One(n)
      <4>1. Own(n).status = "SENT" => Over(Own(m).status) BY <3>4 DEF NaomyInv, FirstIsOver
      <4> QED BY <3>4, <4>1 DEF One, Over, NaomyInv, HeardAgain
    <3>5. CASE i = j
      <4>1. Times(i) <= crashes + One(i) BY <3>1 DEF NaomyInv, HeardAgain
      <4> QED BY <3>1, <3>2, <3>5, <4>1
    <3>6. CASE i < j
      <4>1. Twice(i, j) BY <3>1, <3>6 DEF Twice
      <4> QED BY <3>1, <3>2, <3>3, <3>4, <3>6, <4>1
    <3>7. CASE j < i
      <4>1. Twice(j, i) BY <3>1, <3>7 DEF Twice
      <4> QED BY <3>1, <3>2, <3>3, <3>4, <3>7, <4>1
    <3> QED BY <3>3, <3>5, <3>6, <3>7
  <2>2. OnlyWhatIsShared BY DEF NaomyInv, Shared, OnlyWhatIsShared
  <2> QED BY <2>1, <2>2 DEF HeardRight
<1> QED BY <1>1, NaomyStarts, NaomyStepKeeps, PTL DEF NaomySpec

-----------------------------------------------------------------------------
(* What Bob writes to the merchant: the inductive invariant.               *)

\* The values the variables may have.
BoxKinds ==
    /\ outbox \in Seq(Item) /\ Len(outbox) <= BoxMax /\ boxDeaths \in 0..BoxDeaths
    /\ received \subseteq DOMAIN outbox /\ lately \subseteq received
    /\ matter \subseteq Matters /\ IsFiniteSet(matter)

SameMessage(r1, r2) == r1.kind = r2.kind /\ r1.about = r2.about /\ r1.after = r2.after /\ r1.old = r2.old

\* The pass: what it has left was due, what it did it knows.
SendKinds ==
    /\ sendPass = [on |-> sendPass.on, todo |-> sendPass.todo, done |-> sendPass.done]
    /\ sendPass.on \in BOOLEAN
    /\ sendPass.done = [i \in DOMAIN sendPass.done |-> sendPass.done[i]]
    /\ ~sendPass.on => sendPass.todo = {} /\ DOMAIN sendPass.done = {}
    /\ \A i \in sendPass.todo : i \in DOMAIN outbox /\ outbox[i].status = "PENDING" /\ i \notin DOMAIN sendPass.done
    /\ \A i \in DOMAIN sendPass.done :
        /\ i \in DOMAIN outbox /\ outbox[i].status = "PENDING"
        /\ sendPass.done[i] \in Item /\ SameMessage(sendPass.done[i], outbox[i])
        /\ sendPass.done[i].status # "WAITING"
        /\ sendPass.done[i].status = "SENT" => sendPass.done[i].today /\ i \in received

\* One message follows another that follows none, and waits while that one does.
Menus ==
    \A i \in DOMAIN outbox :
        /\ outbox[i].after < i
        /\ outbox[i].after = 0 => outbox[i].status # "WAITING"
        /\ outbox[i].after # 0 =>
            /\ outbox[outbox[i].after].after = 0
            /\ outbox[i].status \in {"PENDING", "SENT"} => outbox[i].after \in received
            /\ outbox[i].status = "WAITING" => outbox[outbox[i].after].status = "PENDING"

SameMatter(i, j) ==
    /\ i \in DOMAIN outbox /\ j \in DOMAIN outbox
    /\ outbox[i].kind = "ALERT" /\ outbox[j].kind = "ALERT" /\ outbox[i].about = outbox[j].about
    /\ \/ outbox[i].about \in Sales
       \/ outbox[i].about = "waits" /\ ~outbox[i].old /\ ~outbox[j].old

OncePerMatter == \A i, j : SameMatter(i, j) => i = j

SentRows == {i \in DOMAIN outbox : outbox[i].status = "SENT" /\ outbox[i].today}
SentHere == {i \in DOMAIN sendPass.done : sendPass.done[i].status = "SENT"}
PlainReplies  == {i \in lately : outbox[i].kind = "REPLY"}

\* While no pass dies, what left today is what the rows say, and the pass.
RoomInBox ==
    boxDeaths = 0 =>
        /\ lately = SentRows \cup SentHere
        /\ Cardinality(lately) <= Cap /\ Cardinality(PlainReplies) <= Cap - Reserve

BoxInv == BoxKinds /\ SendKinds /\ Menus /\ MenuInOrder /\ OncePerMatter /\ RoomInBox

-----------------------------------------------------------------------------
(* Counting.                                                               *)

LEMMA OutboxIsFinite ==
    ASSUME BoxKinds
    PROVE  /\ DOMAIN outbox = 1..Len(outbox) /\ Len(outbox) \in Nat
           /\ \A S \in SUBSET DOMAIN outbox : IsFiniteSet(S) /\ Cardinality(S) \in Nat
<1>1. DOMAIN outbox = 1..Len(outbox) /\ Len(outbox) \in Nat BY DEF BoxKinds
<1>2. IsFiniteSet(DOMAIN outbox) BY <1>1, FS_Interval
<1>3. ASSUME NEW S \in SUBSET DOMAIN outbox PROVE IsFiniteSet(S) /\ Cardinality(S) \in Nat
  BY <1>2, FS_Subset, FS_CardinalityType
<1> QED BY <1>1, <1>3

LEMMA OneAtMost ==
    ASSUME NEW S, \A x, y \in S : x = y
    PROVE  Cardinality(S) <= 1
<1>1. CASE S = {} BY <1>1, FS_EmptySet
<1>2. CASE S # {}
  <2>1. PICK x \in S : TRUE BY <1>2
  <2>2. S = {x} BY <2>1
  <2> QED BY <2>2, FS_Singleton
<1> QED BY <1>1, <1>2

\* The day's count, as the pass makes it.
LEMMA SentTodayCounts ==
    ASSUME BoxInv, boxDeaths = 0
    PROVE  SentToday = Cardinality(lately)
<1>1. SentRows \subseteq DOMAIN outbox /\ SentHere \subseteq DOMAIN outbox BY DEF SentRows, SentHere, BoxInv, SendKinds
<1>2. SentRows \cap SentHere = {} BY DEF SentRows, SentHere, BoxInv, SendKinds
<1>3. IsFiniteSet(SentRows) /\ IsFiniteSet(SentHere) /\ Cardinality(SentRows) \in Nat /\ Cardinality(SentHere) \in Nat
  BY <1>1, OutboxIsFinite DEF BoxInv
<1>4. Cardinality(SentRows \cup SentHere) = Cardinality(SentRows) + Cardinality(SentHere) - Cardinality(SentRows \cap SentHere)
  BY <1>3, FS_Union
<1>5. Cardinality(SentRows \cap SentHere) = 0 BY <1>2, FS_EmptySet, Zenon
<1>6. Cardinality(lately) = Cardinality(SentRows) + Cardinality(SentHere)
  <2>1. lately = SentRows \cup SentHere BY DEF BoxInv, RoomInBox
  <2>2. Cardinality(lately) = Cardinality(SentRows \cup SentHere) BY <2>1, Zenon
  <2> QED BY <1>3, <1>4, <1>5, <2>2
<1>7. SentToday = Cardinality(SentRows) + Cardinality(SentHere) BY DEF SentToday, SentRows, SentHere
<1> QED BY <1>6, <1>7

-----------------------------------------------------------------------------
(* What is queued.                                                         *)

\* A row that has just been written, and the one it follows.
NewInBox(rows, i) ==
    /\ ~rows[i].old /\ ~rows[i].today
    /\ \/ rows[i].after = 0 /\ rows[i].status = "PENDING"
       \/ /\ rows[i].after \in DOMAIN rows /\ rows[i].after < i /\ rows[i].status = "WAITING"
          /\ rows[rows[i].after].after = 0 /\ rows[rows[i].after].status = "PENDING"

LEMMA BoxGrows ==
    ASSUME BoxInv, outbox' \in Seq(Item), Len(outbox) <= Len(outbox'), Len(outbox') <= BoxMax,
           \A i \in DOMAIN outbox : outbox'[i] = outbox[i],
           \A i \in DOMAIN outbox' : i \notin DOMAIN outbox => NewInBox(outbox', i),
           OncePerMatter', UNCHANGED <<matter, sendPass, received, lately, boxDeaths>>
    PROVE  BoxInv'
<1>1. DOMAIN outbox = 1..Len(outbox) /\ DOMAIN outbox' = 1..Len(outbox') /\ Len(outbox) \in Nat /\ Len(outbox') \in Nat
  BY DEF BoxInv, BoxKinds
<1>2. DOMAIN outbox \subseteq DOMAIN outbox' BY <1>1
<1>3. BoxKinds' BY <1>2 DEF BoxInv, BoxKinds
<1>4. SendKinds' BY <1>2 DEF BoxInv, SendKinds
<1>5. Menus'
  <2> SUFFICES ASSUME NEW i \in DOMAIN outbox'
               PROVE  /\ outbox'[i].after < i
                      /\ outbox'[i].after = 0 => outbox'[i].status # "WAITING"
                      /\ outbox'[i].after # 0 =>
                            /\ outbox'[outbox'[i].after].after = 0
                            /\ outbox'[i].status \in {"PENDING", "SENT"} => outbox'[i].after \in received
                            /\ outbox'[i].status = "WAITING" => outbox'[outbox'[i].after].status = "PENDING"
    BY DEF Menus
  <2>1. CASE i \in DOMAIN outbox
    <3>1. outbox[i] \in Item BY <2>1 DEF BoxInv, BoxKinds
    <3>2. outbox[i].after \in Nat /\ outbox[i].after < i BY <2>1, <3>1, OutboxAssumption DEF Item, BoxInv, Menus
    <3>3. outbox[i].after = 0 \/ outbox[i].after \in DOMAIN outbox BY <1>1, <2>1, <3>2
    <3> QED BY <2>1, <3>2, <3>3 DEF BoxInv, Menus
  <2>2. CASE i \notin DOMAIN outbox
    <3>1. NewInBox(outbox', i) /\ 0 < i /\ 0 \notin DOMAIN outbox' BY <1>1, <2>2
    <3> QED BY <3>1 DEF NewInBox
  <2> QED BY <2>1, <2>2
<1>6. MenuInOrder' BY <1>2 DEF BoxInv, BoxKinds, MenuInOrder
<1>7. RoomInBox'
  <2>1. SentRows' = SentRows BY <1>2 DEF SentRows, NewInBox
  <2>2. SentHere' = SentHere BY DEF SentHere
  <2>3. PlainReplies' = PlainReplies BY DEF PlainReplies, BoxInv, BoxKinds
  <2> QED BY <2>1, <2>2, <2>3 DEF BoxInv, RoomInBox
<1> QED BY <1>3, <1>4, <1>5, <1>6, <1>7 DEF BoxInv

\* A message that follows none, or the one of that number.
JustQueued(r, kind, about, after) ==
    /\ r \in Item /\ r.kind = kind /\ r.about = about /\ r.after = after /\ ~r.old /\ ~r.today
    /\ after = 0 => r.status = "PENDING"
    /\ after # 0 => r.status = "WAITING"

LEMMA QueuedIsItem ==
    ASSUME NEW kind \in {"ALERT", "REPLY"}, NEW about \in Matters \cup {"none"}, NEW after \in 0..BoxMax
    PROVE  JustQueued(Queued(kind, about, after), kind, about, after)
<1>1. 0 \in 0..Retries BY OutboxAssumption
<1> QED BY <1>1 DEF JustQueued, Queued, Item

LEMMA ItemWaited ==
    ASSUME NEW r \in Item
    PROVE  LET s == [r EXCEPT !.wait = FALSE]
           IN  /\ s \in Item /\ s.kind = r.kind /\ s.about = r.about /\ s.after = r.after
               /\ s.status = r.status /\ s.old = r.old /\ s.today = r.today
BY DEF Item

LEMMA ItemAged ==
    ASSUME NEW r \in Item, NEW b \in BOOLEAN
    PROVE  LET s == [r EXCEPT !.old = b, !.today = FALSE]
           IN  /\ s \in Item /\ s.kind = r.kind /\ s.about = r.about /\ s.after = r.after
               /\ s.status = r.status /\ s.old = b /\ s.today = FALSE
BY DEF Item

LEMMA ReplyKeeps ==
    ASSUME BoxInv, QueueReply
    PROVE  BoxInv'
<1> DEFINE e == Queued("REPLY", "none", 0)
<1>1. JustQueued(e, "REPLY", "none", 0)
  <2>1. 0 \in 0..BoxMax BY OutboxAssumption
  <2> QED BY <2>1, QueuedIsItem
<1>2. outbox' = Append(outbox, e) /\ Len(outbox) < BoxMax /\ UNCHANGED <<matter, sendPass, received, lately, boxDeaths>>
  BY DEF QueueReply
<1> HIDE DEF e
<1>3. outbox \in Seq(Item) /\ Len(outbox) \in Nat /\ DOMAIN outbox = 1..Len(outbox) /\ BoxMax \in Nat
  BY OutboxAssumption DEF BoxInv, BoxKinds
<1>4. outbox' \in Seq(Item) /\ Len(outbox') = Len(outbox) + 1 /\ DOMAIN outbox' = 1..Len(outbox) + 1
      /\ outbox'[Len(outbox) + 1] = e /\ \A i \in DOMAIN outbox : outbox'[i] = outbox[i]
  BY <1>1, <1>2, <1>3 DEF JustQueued
<1>5. \A i \in DOMAIN outbox' : i \notin DOMAIN outbox => outbox'[i] = e BY <1>3, <1>4
<1>6. \A i \in DOMAIN outbox' : i \notin DOMAIN outbox => NewInBox(outbox', i) BY <1>1, <1>5 DEF NewInBox, JustQueued
<1>7. OncePerMatter'
  <2>1. ASSUME NEW i, NEW j, SameMatter(i, j)' PROVE i = j
    <3>1. i \in DOMAIN outbox' /\ j \in DOMAIN outbox' /\ outbox'[i].kind = "ALERT" /\ outbox'[j].kind = "ALERT" BY <2>1 DEF SameMatter
    <3>2. i \in DOMAIN outbox /\ j \in DOMAIN outbox BY <1>1, <1>5, <3>1 DEF JustQueued
    <3>3. SameMatter(i, j) BY <2>1, <3>2, <1>4 DEF SameMatter
    <3> QED BY <3>3 DEF BoxInv, OncePerMatter
  <2> QED BY <2>1 DEF OncePerMatter
<1> QED BY <1>2, <1>3, <1>4, <1>6, <1>7, BoxGrows

LEMMA MenuKeeps ==
    ASSUME BoxInv, SendMenu
    PROVE  BoxInv'
<1> DEFINE n == Len(outbox)
           e == Queued("REPLY", "none", 0)
           f == Queued("REPLY", "none", n + 1)
<1>1. outbox' = outbox \o <<e, f>> /\ n + 2 <= BoxMax /\ UNCHANGED <<matter, sendPass, received, lately, boxDeaths>>
  BY DEF SendMenu
<1>2. outbox \in Seq(Item) /\ n \in Nat /\ DOMAIN outbox = 1..n /\ BoxMax \in Nat BY OutboxAssumption DEF BoxInv, BoxKinds
<1>3. 0 \in 0..BoxMax /\ n + 1 \in 0..BoxMax /\ n + 1 # 0 BY <1>1, <1>2
<1>4. JustQueued(e, "REPLY", "none", 0) BY <1>3, QueuedIsItem
<1>5. JustQueued(f, "REPLY", "none", n + 1) BY <1>3, QueuedIsItem
<1>6. outbox' \in Seq(Item) /\ Len(outbox') = n + 2 /\ DOMAIN outbox' = 1..n + 2
      /\ outbox'[n + 1] = e /\ outbox'[n + 2] = f /\ \A i \in DOMAIN outbox : outbox'[i] = outbox[i]
  <2> HIDE DEF e, f
  <2> QED BY <1>1, <1>2, <1>4, <1>5 DEF JustQueued
<1> HIDE DEF e, f, n
<1>7. \A i \in DOMAIN outbox' : i \notin DOMAIN outbox => i = n + 1 \/ i = n + 2 BY <1>2, <1>6
<1>8. \A i \in DOMAIN outbox' : i \notin DOMAIN outbox => NewInBox(outbox', i)
  <2>1. NewInBox(outbox', n + 1) BY <1>4, <1>6 DEF NewInBox, JustQueued
  <2>2. NewInBox(outbox', n + 2) BY <1>2, <1>4, <1>5, <1>6 DEF NewInBox, JustQueued
  <2> QED BY <1>7, <2>1, <2>2
<1>9. OncePerMatter'
  <2>1. ASSUME NEW i, NEW j, SameMatter(i, j)' PROVE i = j
    <3>1. i \in DOMAIN outbox' /\ j \in DOMAIN outbox' /\ outbox'[i].kind = "ALERT" /\ outbox'[j].kind = "ALERT" BY <2>1 DEF SameMatter
    <3>2. i \in DOMAIN outbox /\ j \in DOMAIN outbox BY <1>4, <1>5, <1>6, <1>7, <3>1 DEF JustQueued
    <3>3. SameMatter(i, j) BY <2>1, <3>2, <1>6 DEF SameMatter
    <3> QED BY <3>3 DEF BoxInv, OncePerMatter
  <2> QED BY <2>1 DEF OncePerMatter
<1>10. Len(outbox) <= Len(outbox') /\ Len(outbox') <= BoxMax BY <1>1, <1>2, <1>6 DEF n
<1> QED BY <1>1, <1>6, <1>8, <1>9, <1>10, BoxGrows

LEMMA ScanKeeps ==
    ASSUME BoxInv, ScanAlerts
    PROVE  BoxInv'
<1> DEFINE new == {m \in matter : ~AlertExists(m)}
           seq == SetToSeq(new)
           alerts == [k \in DOMAIN seq |-> Queued("ALERT", seq[k], 0)]
           n == Len(outbox)
<1>1. outbox' = outbox \o alerts /\ n + Cardinality(new) <= BoxMax /\ UNCHANGED <<matter, sendPass, received, lately, boxDeaths>>
  BY DEF ScanAlerts
<1>2. outbox \in Seq(Item) /\ n \in Nat /\ DOMAIN outbox = 1..n /\ BoxMax \in Nat BY OutboxAssumption DEF BoxInv, BoxKinds
<1>3. new \subseteq Matters /\ IsFiniteSet(new) BY FS_Subset DEF BoxInv, BoxKinds
<1>4. \A m \in new : ~AlertExists(m) OBVIOUS
<1> HIDE DEF new
<1>5. seq \in Seq(new) /\ Len(seq) = Cardinality(new) /\ Cardinality(new) \in Nat
      /\ \A k, m \in DOMAIN seq : seq[k] = seq[m] => k = m
  BY <1>3, InSomeOrder
<1> HIDE DEF seq
<1>6. ASSUME NEW k \in DOMAIN seq PROVE JustQueued(Queued("ALERT", seq[k], 0), "ALERT", seq[k], 0)
  <2>1. seq[k] \in Matters \cup {"none"} BY <1>3, <1>5
  <2>2. 0 \in 0..BoxMax BY <1>2
  <2> QED BY <2>1, <2>2, QueuedIsItem
<1>7. alerts \in Seq(Item) /\ Len(alerts) = Len(seq) /\ DOMAIN alerts = DOMAIN seq /\ DOMAIN seq = 1..Len(seq) /\ Len(seq) \in Nat
      /\ \A k \in DOMAIN seq : JustQueued(alerts[k], "ALERT", seq[k], 0)
  <2>1. DOMAIN seq = 1..Len(seq) /\ Len(seq) \in Nat BY <1>5
  <2>2. alerts \in [1..Len(seq) -> Item] BY <1>6, <2>1 DEF JustQueued
  <2> QED BY <1>6, <2>1, <2>2
<1> HIDE DEF alerts, n
<1>8. outbox' \in Seq(Item) /\ Len(outbox') = n + Len(seq) /\ DOMAIN outbox' = 1..n + Len(seq)
      /\ (\A i \in DOMAIN outbox : outbox'[i] = outbox[i])
      /\ \A i \in DOMAIN outbox' : i \notin DOMAIN outbox => (i - n) \in DOMAIN seq /\ outbox'[i] = alerts[i - n]
  <2>0. alerts \in Seq(Item) /\ outbox \in Seq(Item) /\ outbox' = outbox \o alerts BY <1>1, <1>2, <1>7
  <2>1. Len(alerts) \in Nat BY <2>0
  <2>2. outbox' \in Seq(Item) /\ Len(outbox') = Len(outbox) + Len(alerts) BY <2>0
  <2>3. \A i \in 1..Len(outbox) : outbox'[i] = outbox[i] BY <2>0
  <2>4. \A i \in Len(outbox) + 1..Len(outbox) + Len(alerts) : outbox'[i] = alerts[i - Len(outbox)] BY <2>0
  <2> QED BY <1>2, <1>7, <2>1, <2>2, <2>3, <2>4 DEF n
<1>9. \A i \in DOMAIN outbox' : i \notin DOMAIN outbox => NewInBox(outbox', i) BY <1>7, <1>8 DEF NewInBox, JustQueued
<1>10. \A i \in DOMAIN outbox' : i \notin DOMAIN outbox => outbox'[i].about \in new
  BY <1>5, <1>7, <1>8 DEF JustQueued
<1>11. ASSUME NEW i \in DOMAIN outbox, NEW j \in DOMAIN outbox', j \notin DOMAIN outbox, SameMatter(i, j)' PROVE FALSE
  <2> DEFINE m == outbox'[j].about
  <2>1. m \in new BY <1>10, <1>11
  <2>2. outbox[i].kind = "ALERT" /\ outbox[i].about = m /\ (m = "waits" => ~outbox[i].old)
    BY <1>8, <1>11, OutboxAssumption DEF SameMatter
  <2>3. AlertExists(m) BY <2>2 DEF AlertExists, AlertsOf
  <2> QED BY <1>4, <2>1, <2>3
<1>12. ASSUME NEW i \in DOMAIN outbox', i \notin DOMAIN outbox, NEW j \in DOMAIN outbox', j \notin DOMAIN outbox, SameMatter(i, j)'
       PROVE  i = j
  <2>1. seq[i - n] = seq[j - n] /\ i - n \in DOMAIN seq /\ j - n \in DOMAIN seq BY <1>7, <1>8, <1>12 DEF SameMatter, JustQueued
  <2>2. i - n = j - n BY <1>5, <2>1
  <2>3. i \in Nat /\ j \in Nat BY <1>2, <1>7, <1>8
  <2> QED BY <1>2, <2>2, <2>3
<1>13. OncePerMatter'
  <2>1. ASSUME NEW i, NEW j, SameMatter(i, j)' PROVE i = j
    <3>1. i \in DOMAIN outbox' /\ j \in DOMAIN outbox' /\ SameMatter(j, i)' BY <2>1 DEF SameMatter
    <3>2. CASE i \in DOMAIN outbox /\ j \in DOMAIN outbox
      <4>1. SameMatter(i, j) BY <2>1, <3>2, <1>8 DEF SameMatter
      <4> QED BY <4>1 DEF BoxInv, OncePerMatter
    <3> QED BY <2>1, <3>1, <3>2, <1>11, <1>12
  <2> QED BY <2>1 DEF OncePerMatter
<1>14. Len(outbox) <= Len(outbox') /\ Len(outbox') <= BoxMax BY <1>1, <1>2, <1>5, <1>8 DEF n
<1> QED BY <1>1, <1>8, <1>9, <1>13, <1>14, BoxGrows

-----------------------------------------------------------------------------
(* A pass.                                                                 *)

\* What becomes of a row that was due.
LEMMA OutcomeIsRow ==
    ASSUME NEW r \in Item, r.status = "PENDING", NEW answer \in {"taken", "refused", "silence"}
    PROVE  /\ Outcome(r, answer) \in Item /\ SameMessage(Outcome(r, answer), r)
           /\ Outcome(r, answer).status # "WAITING"
           /\ Outcome(r, answer).status = "SENT" => Outcome(r, answer).today /\ RoomFor(r)
<1> DEFINE o == Outcome(r, answer)
           Right(x) == /\ x \in Item /\ SameMessage(x, r) /\ x.status # "WAITING"
                       /\ x.status = "SENT" => x.today /\ RoomFor(r)
<1>1. Right(GiveUp(r))
  <2>1. 0 \in 0..Retries BY OutboxAssumption
  <2> QED BY <2>1 DEF GiveUp, Item, SameMessage
<1>2. CASE ~assistantOn \/ ~RoomFor(r)
  <2>1. o = GiveUp(r) BY <1>2 DEF Outcome
  <2> QED BY <1>1, <2>1
<1>3. CASE assistantOn /\ RoomFor(r)
  <2>1. CASE answer = "taken"
    <3>1. o = [r EXCEPT !.status = "SENT", !.today = TRUE, !.attempts = 0] BY <1>3, <2>1 DEF Outcome
    <3>2. 0 \in 0..Retries BY OutboxAssumption
    <3> HIDE DEF o
    <3>3. Right(o) BY <1>3, <3>1, <3>2 DEF Item, SameMessage
    <3> QED BY <3>3 DEF o
  <2>2. CASE answer # "taken" /\ (answer = "refused" \/ r.attempts = Retries)
    <3>1. o = GiveUp(r) BY <1>3, <2>2 DEF Outcome
    <3> QED BY <1>1, <3>1
  <2>3. CASE answer # "taken" /\ ~(answer = "refused" \/ r.attempts = Retries)
    <3>1. o = [r EXCEPT !.wait = TRUE, !.attempts = @ + 1] BY <1>3, <2>3 DEF Outcome
    <3>2. r.attempts + 1 \in 0..Retries BY <2>3, OutboxAssumption DEF Item
    <3> HIDE DEF o
    <3>3. Right(o) BY <3>1, <3>2 DEF Item, SameMessage
    <3> QED BY <3>3 DEF o
  <2> QED BY <2>1, <2>2, <2>3
<1> QED BY <1>2, <1>3

LEMMA BeginSendingKeeps ==
    ASSUME BoxInv, BeginSending
    PROVE  BoxInv'
<1>1. /\ ~sendPass.on /\ UNCHANGED <<assistantOn, outbox, matter, received, lately, boxDeaths>>
      /\ sendPass' = [on |-> TRUE, todo |-> Due(outbox), done |-> <<>>]
  BY DEF BeginSending
<1>2. /\ sendPass'.on = TRUE /\ sendPass'.todo = Due(outbox) /\ DOMAIN sendPass'.done = {}
      /\ sendPass'.done = [i \in DOMAIN sendPass'.done |-> sendPass'.done[i]]
      /\ sendPass' = [on |-> sendPass'.on, todo |-> sendPass'.todo, done |-> sendPass'.done]
  BY <1>1
<1>3. SendKinds' BY <1>1, <1>2 DEF SendKinds, Due
<1>4. SentRows' = SentRows /\ SentHere' = SentHere
  <2>1. SentHere = {} /\ SentHere' = {} BY <1>1, <1>2 DEF SentHere, BoxInv, SendKinds
  <2> QED BY <1>1, <2>1 DEF SentRows
<1>5. BoxKinds' /\ Menus' /\ MenuInOrder' /\ OncePerMatter' /\ PlainReplies' = PlainReplies
  BY <1>1 DEF BoxInv, BoxKinds, Menus, MenuInOrder, OncePerMatter, SameMatter, PlainReplies
<1>6. RoomInBox' BY <1>1, <1>4, <1>5 DEF BoxInv, RoomInBox
<1> QED BY <1>3, <1>5, <1>6 DEF BoxInv

LEMMA SendOneKeeps ==
    ASSUME BoxInv, NEW i, NEW answer \in {"taken", "refused", "silence"}, SendOne(i, answer)
    PROVE  BoxInv'
<1> DEFINE r == Outcome(outbox[i], answer)
           sent == r.status = "SENT"
           took == IF sent THEN {i} ELSE {}
<1>1. /\ sendPass.on /\ i \in sendPass.todo /\ UNCHANGED <<assistantOn, outbox, matter, boxDeaths>>
      /\ sendPass' = [sendPass EXCEPT !.todo = @ \ {i}, !.done = Doing(i, r)]
      /\ received' = received \cup took /\ lately' = lately \cup took
  BY DEF SendOne
<1>2. i \in DOMAIN outbox /\ outbox[i] \in Item /\ outbox[i].status = "PENDING" /\ i \notin DOMAIN sendPass.done
  BY <1>1 DEF BoxInv, SendKinds, BoxKinds
<1>3. /\ r \in Item /\ SameMessage(r, outbox[i]) /\ r.status # "WAITING"
      /\ sent => r.today /\ RoomFor(outbox[i])
  BY <1>2, OutcomeIsRow
<1> HIDE DEF r
<1>4. /\ sendPass'.on = sendPass.on /\ sendPass'.todo = sendPass.todo \ {i} /\ sendPass'.done = Doing(i, r)
      /\ sendPass' = [on |-> sendPass'.on, todo |-> sendPass'.todo, done |-> sendPass'.done]
  BY <1>1 DEF BoxInv, SendKinds
<1>5. /\ DOMAIN sendPass'.done = DOMAIN sendPass.done \cup {i} /\ sendPass'.done[i] = r
      /\ \A j \in DOMAIN sendPass.done : sendPass'.done[j] = sendPass.done[j]
      /\ sendPass'.done = [j \in DOMAIN sendPass'.done |-> sendPass'.done[j]]
  BY <1>2, <1>4 DEF Doing
<1>6. received \subseteq received' /\ (sent => i \in received') BY <1>1
<1>7. BoxKinds' BY <1>1, <1>2 DEF BoxInv, BoxKinds
<1>8. SendKinds'
  <2>1. \A j \in sendPass'.todo : j \in DOMAIN outbox /\ outbox[j].status = "PENDING" /\ j \notin DOMAIN sendPass'.done
    BY <1>4, <1>5 DEF BoxInv, SendKinds
  <2>2. ASSUME NEW j \in DOMAIN sendPass'.done
        PROVE  /\ j \in DOMAIN outbox /\ outbox[j].status = "PENDING"
               /\ sendPass'.done[j] \in Item /\ SameMessage(sendPass'.done[j], outbox[j])
               /\ sendPass'.done[j].status # "WAITING"
               /\ sendPass'.done[j].status = "SENT" => sendPass'.done[j].today /\ j \in received'
    <3>1. CASE j = i BY <1>2, <1>3, <1>5, <1>6, <3>1
    <3>2. CASE j # i
      <4>1. j \in DOMAIN sendPass.done /\ sendPass'.done[j] = sendPass.done[j] BY <1>5, <3>2
      <4> QED BY <4>1, <1>6 DEF BoxInv, SendKinds
    <3> QED BY <3>1, <3>2
  <2> QED BY <1>1, <1>4, <1>5, <2>1, <2>2 DEF BoxInv, SendKinds
<1>9. Menus' BY <1>1, <1>6 DEF BoxInv, Menus
<1>10. MenuInOrder'
  <2> SUFFICES ASSUME NEW j \in received', outbox[j].after # 0 PROVE outbox[j].after \in received'
    BY <1>1 DEF MenuInOrder
  <2>1. CASE j \in received BY <1>6, <2>1 DEF BoxInv, MenuInOrder
  <2>2. CASE j \notin received
    <3>1. j = i BY <1>1, <2>2
    <3> QED BY <1>2, <1>6, <3>1 DEF BoxInv, Menus
  <2> QED BY <2>1, <2>2
<1>11. OncePerMatter' BY <1>1 DEF BoxInv, OncePerMatter, SameMatter
<1>12. RoomInBox'
  <2> SUFFICES ASSUME boxDeaths = 0
               PROVE  /\ lately' = (SentRows \cup SentHere)'
                      /\ Cardinality(lately') <= Cap /\ Cardinality(PlainReplies') <= Cap - Reserve
    BY <1>1 DEF RoomInBox
  <2>1. lately = SentRows \cup SentHere /\ Cardinality(lately) <= Cap /\ Cardinality(PlainReplies) <= Cap - Reserve
    BY DEF BoxInv, RoomInBox
  <2>2. SentRows' = SentRows BY <1>1 DEF SentRows
  <2>3. SentHere' = SentHere \cup took
    <3>1. \A j : j \in SentHere' <=> j \in SentHere \cup took BY <1>5, <1>2 DEF SentHere
    <3> QED BY <3>1
  <2>4. lately' = (SentRows \cup SentHere)' BY <1>1, <2>1, <2>2, <2>3
  <2>5. CASE ~sent
    <3>1. lately' = lately BY <1>1, <2>5
    <3>2. PlainReplies' = PlainReplies BY <1>1, <3>1 DEF PlainReplies
    <3> QED BY <2>1, <2>4, <3>1, <3>2
  <2>6. CASE sent
    <3>1. lately' = lately \cup {i} /\ i \notin lately
      <4>1. lately' = lately \cup {i} BY <1>1, <2>6
      <4>2. i \notin SentRows /\ i \notin SentHere BY <1>2 DEF SentRows, SentHere
      <4> QED BY <2>1, <4>1, <4>2
    <3>2. lately \subseteq DOMAIN outbox /\ PlainReplies \subseteq DOMAIN outbox BY DEF BoxInv, BoxKinds, PlainReplies
    <3>3. IsFiniteSet(lately) /\ Cardinality(lately) \in Nat /\ IsFiniteSet(PlainReplies) /\ Cardinality(PlainReplies) \in Nat
      BY <3>2, OutboxIsFinite DEF BoxInv
    <3>4. Cardinality(lately') = Cardinality(lately) + 1 BY <3>1, <3>3, FS_AddElement
    <3>5. SentToday = Cardinality(lately) BY SentTodayCounts
    <3>6. Cap \in Nat /\ Reserve \in Nat /\ Reserve <= Cap BY OutboxAssumption
    <3>7. CASE outbox[i].kind = "ALERT"
      <4>1. Cardinality(lately) < Cap BY <1>3, <2>6, <3>5, <3>7 DEF RoomFor
      <4>2. PlainReplies' = PlainReplies BY <1>1, <3>1, <3>7 DEF PlainReplies
      <4> QED BY <2>1, <2>4, <3>3, <3>4, <3>6, <4>1, <4>2
    <3>8. CASE outbox[i].kind = "REPLY"
      <4>1. Cardinality(lately) < Cap - Reserve BY <1>3, <2>6, <3>5, <3>8 DEF RoomFor
      <4>2. PlainReplies' \subseteq lately' /\ IsFiniteSet(lately') BY <1>1, <3>1, <3>3, FS_AddElement DEF PlainReplies
      <4>3. Cardinality(PlainReplies') <= Cardinality(lately') /\ Cardinality(PlainReplies') \in Nat BY <4>2, FS_Subset, FS_CardinalityType
      <4> QED BY <2>4, <3>3, <3>4, <3>6, <4>1, <4>3
    <3> QED BY <1>2, <3>7, <3>8 DEF Item
  <2> QED BY <2>5, <2>6
<1> QED BY <1>7, <1>8, <1>9, <1>10, <1>11, <1>12 DEF BoxInv

\* What the end of a pass writes for a row.
LEMMA ReleasedIsRow ==
    ASSUME BoxInv, NEW i \in DOMAIN outbox
    PROVE  /\ Released(i) \in Item /\ SameMessage(Released(i), outbox[i])
           /\ outbox[i].status = "WAITING" =>
                /\ Released(i).status = "PENDING" => outbox[i].after \in received
                /\ Released(i).status = "WAITING" => Released(outbox[i].after).status = "PENDING"
                /\ Released(i).status # "SENT"
           /\ outbox[i].status # "WAITING" => Released(i) = AfterPass(i) /\ Released(i).status # "WAITING"
           /\ Released(i).status \in {"PENDING", "SENT"} => outbox[i].after = 0 \/ outbox[i].after \in received
<1>1. outbox[i] \in Item BY DEF BoxInv, BoxKinds
<1>2. outbox[i].after \in Nat /\ outbox[i].after < i /\ i \in 1..Len(outbox) /\ DOMAIN outbox = 1..Len(outbox) /\ Len(outbox) \in Nat
  BY <1>1, OutboxAssumption DEF Item, BoxInv, BoxKinds, Menus
<1>3. outbox[i].after = 0 \/ outbox[i].after \in DOMAIN outbox BY <1>2
<1>4. \A j \in DOMAIN outbox : AfterPass(j) \in Item /\ (outbox[j].status # "WAITING" => AfterPass(j).status # "WAITING")
  BY DEF AfterPass, BoxInv, BoxKinds, SendKinds
<1>5. CASE outbox[i].status # "WAITING"
  <2>1. Released(i) = AfterPass(i) BY <1>5 DEF Released
  <2>2. SameMessage(AfterPass(i), outbox[i]) BY DEF AfterPass, BoxInv, SendKinds, SameMessage
  <2>3. outbox[i].status \in {"PENDING", "SENT"} \/ AfterPass(i).status \notin {"PENDING", "SENT"}
    BY DEF AfterPass, BoxInv, SendKinds
  <2>4. outbox[i].status \in {"PENDING", "SENT"} => outbox[i].after = 0 \/ outbox[i].after \in received BY DEF BoxInv, Menus
  <2> QED BY <1>4, <1>5, <2>1, <2>2, <2>3, <2>4
<1>6. CASE outbox[i].status = "WAITING"
  <2> DEFINE a == outbox[i].after
             first == AfterPass(a).status
  <2>1. a \in DOMAIN outbox /\ outbox[a].after = 0 /\ outbox[a].status = "PENDING" BY <1>3, <1>6 DEF BoxInv, Menus
  <2>2. Released(a) = AfterPass(a) BY <2>1 DEF Released
  <2>3. AfterPass(i) = outbox[i] BY <1>6 DEF AfterPass, BoxInv, SendKinds
  <2>4. AfterPass(a) \in Item /\ AfterPass(a).status # "WAITING" BY <1>4, <2>1
  <2>5. first = "SENT" => a \in received BY <2>1 DEF AfterPass, BoxInv, SendKinds
  <2> HIDE DEF a, first
  <2>6. CASE first \in {"SENT", "UNSENT"}
    <3>1. Released(i) = [outbox[i] EXCEPT !.status = IF first = "SENT" THEN "PENDING" ELSE "UNSENT"]
      BY <1>6, <2>6 DEF Released, a, first
    <3>2. (IF first = "SENT" THEN "PENDING" ELSE "UNSENT") \in {"PENDING", "UNSENT"} OBVIOUS
    <3>3. Released(i) \in Item /\ SameMessage(Released(i), outbox[i]) /\ Released(i).status \in {"PENDING", "UNSENT"}
          /\ (Released(i).status = "PENDING" => first = "SENT")
      BY <1>1, <3>1, <3>2 DEF Item, SameMessage
    <3> QED BY <1>6, <2>5, <3>3 DEF a
  <2>7. CASE first \notin {"SENT", "UNSENT"}
    <3>1. Released(i) = outbox[i] BY <2>3, <2>7 DEF Released, a, first
    <3>2. first = "PENDING" BY <2>4, <2>7 DEF Item, first
    <3> QED BY <1>1, <1>6, <2>2, <3>1, <3>2 DEF SameMessage, a, first
  <2> QED BY <2>6, <2>7
<1> QED BY <1>5, <1>6

LEMMA EndSendingKeeps ==
    ASSUME BoxInv, EndSending
    PROVE  BoxInv'
<1> DEFINE released == \E i \in DOMAIN outbox : outbox[i].status = "WAITING" /\ Committed[i].status = "PENDING"
<1>1. /\ sendPass.on /\ outbox' = Committed /\ UNCHANGED <<assistantOn, matter, received, lately, boxDeaths>>
      /\ sendPass' = IF released THEN [NoSendPass EXCEPT !.on = TRUE, !.todo = Due(Committed)] ELSE NoSendPass
  BY DEF EndSending
<1>2. DOMAIN outbox' = DOMAIN outbox /\ (\A i \in DOMAIN outbox : outbox'[i] = Released(i)) BY <1>1 DEF Committed
<1>3. \A i \in DOMAIN outbox : outbox'[i] \in Item /\ SameMessage(outbox'[i], outbox[i]) BY <1>2, ReleasedIsRow
<1>4. outbox' \in Seq(Item) /\ Len(outbox') = Len(outbox)
  <2>1. DOMAIN outbox = 1..Len(outbox) /\ Len(outbox) \in Nat BY DEF BoxInv, BoxKinds
  <2>2. outbox' \in [1..Len(outbox) -> Item] BY <1>1, <1>2, <1>3, <2>1 DEF Committed
  <2> QED BY <2>1, <2>2
<1>5. BoxKinds' BY <1>1, <1>2, <1>4 DEF BoxInv, BoxKinds
<1>6. /\ DOMAIN sendPass'.done = {} /\ sendPass'.on \in BOOLEAN
      /\ sendPass'.done = [i \in DOMAIN sendPass'.done |-> sendPass'.done[i]]
      /\ sendPass' = [on |-> sendPass'.on, todo |-> sendPass'.todo, done |-> sendPass'.done]
      /\ sendPass'.todo \subseteq Due(outbox') /\ (~sendPass'.on => sendPass'.todo = {})
  <2> HIDE DEF released
  <2>1. CASE released
    <3>1. sendPass' = [on |-> TRUE, todo |-> Due(outbox'), done |-> <<>>] BY <1>1, <2>1 DEF NoSendPass
    <3> QED BY <3>1
  <2>2. CASE ~released
    <3>1. sendPass' = [on |-> FALSE, todo |-> {}, done |-> <<>>] BY <1>1, <2>2 DEF NoSendPass
    <3> QED BY <3>1
  <2> QED BY <2>1, <2>2
<1>7. SendKinds'
  <2>1. \A i \in Due(outbox') : i \in DOMAIN outbox' /\ outbox'[i].status = "PENDING" BY DEF Due
  <2> QED BY <1>6, <2>1 DEF SendKinds
<1>8. Menus'
  <2> SUFFICES ASSUME NEW i \in DOMAIN outbox
               PROVE  /\ outbox'[i].after < i
                      /\ outbox'[i].after = 0 => outbox'[i].status # "WAITING"
                      /\ outbox'[i].after # 0 =>
                            /\ outbox'[outbox'[i].after].after = 0
                            /\ outbox'[i].status \in {"PENDING", "SENT"} => outbox'[i].after \in received
                            /\ outbox'[i].status = "WAITING" => outbox'[outbox'[i].after].status = "PENDING"
    BY <1>1, <1>2 DEF Menus
  <2> DEFINE a == outbox[i].after
  <2>1. outbox'[i] = Released(i) /\ outbox'[i].after = a BY <1>2, <1>3 DEF SameMessage
  <2>2. a < i /\ (a = 0 => outbox[i].status # "WAITING") /\ (a # 0 => outbox[a].after = 0) BY DEF BoxInv, Menus
  <2>3. a = 0 \/ a \in DOMAIN outbox
    <3>1. outbox[i] \in Item /\ i \in 1..Len(outbox) /\ DOMAIN outbox = 1..Len(outbox) /\ Len(outbox) \in Nat BY DEF BoxInv, BoxKinds
    <3>2. a \in Nat BY <3>1, OutboxAssumption DEF Item
    <3> QED BY <2>2, <3>1, <3>2
  <2>4. a # 0 => outbox'[a].after = 0 /\ outbox'[a] = Released(a) BY <1>2, <1>3, <2>2, <2>3 DEF SameMessage
  <2>5. /\ outbox[i].status = "WAITING" => (Released(i).status = "WAITING" => Released(a).status = "PENDING")
        /\ outbox[i].status # "WAITING" => Released(i).status # "WAITING"
        /\ Released(i).status \in {"PENDING", "SENT"} => a = 0 \/ a \in received
    BY ReleasedIsRow
  <2> HIDE DEF a
  <2> QED BY <2>1, <2>2, <2>4, <2>5
<1>9. MenuInOrder'
  <2>1. \A i \in received : i \in DOMAIN outbox /\ outbox'[i].after = outbox[i].after BY <1>3 DEF BoxInv, BoxKinds, SameMessage
  <2> QED BY <1>1, <2>1 DEF BoxInv, MenuInOrder
<1>10. OncePerMatter'
  <2>1. ASSUME NEW i, NEW j, SameMatter(i, j)' PROVE SameMatter(i, j) BY <1>2, <1>3, <2>1 DEF SameMatter, SameMessage
  <2> QED BY <2>1 DEF BoxInv, OncePerMatter
<1>11. PlainReplies' = PlainReplies
  <2>1. \A i \in lately : i \in DOMAIN outbox /\ outbox'[i].kind = outbox[i].kind BY <1>3 DEF BoxInv, BoxKinds, SameMessage
  <2> QED BY <1>1, <2>1 DEF PlainReplies
<1>12. SentRows' = SentRows \cup SentHere /\ SentHere' = {}
  <2>1. SentHere' = {} BY <1>6 DEF SentHere
  <2>2. \A i \in DOMAIN outbox : i \in SentRows' <=> i \in SentRows \cup SentHere
    <3> SUFFICES ASSUME NEW i \in DOMAIN outbox PROVE i \in SentRows' <=> i \in SentRows \cup SentHere OBVIOUS
    <3>1. i \in SentRows' <=> Released(i).status = "SENT" /\ Released(i).today BY <1>2 DEF SentRows
    <3>2. CASE outbox[i].status = "WAITING"
      <4>1. Released(i).status # "SENT" BY <3>2, ReleasedIsRow
      <4>2. i \notin SentRows /\ i \notin SentHere BY <3>2 DEF SentRows, SentHere, BoxInv, SendKinds
      <4> QED BY <3>1, <4>1, <4>2
    <3>3. CASE outbox[i].status # "WAITING"
      <4>1. Released(i) = AfterPass(i) BY <3>3, ReleasedIsRow
      <4>2. CASE i \in DOMAIN sendPass.done
        <5>1. Released(i) = sendPass.done[i] /\ outbox[i].status = "PENDING" BY <4>1, <4>2 DEF AfterPass, BoxInv, SendKinds
        <5>2. sendPass.done[i].status = "SENT" => sendPass.done[i].today BY <4>2 DEF BoxInv, SendKinds
        <5> QED BY <3>1, <4>2, <5>1, <5>2 DEF SentRows, SentHere
      <4>3. CASE i \notin DOMAIN sendPass.done
        <5>1. Released(i) = outbox[i] BY <4>1, <4>3 DEF AfterPass
        <5> QED BY <3>1, <4>3, <5>1 DEF SentRows, SentHere
      <4> QED BY <4>2, <4>3
    <3> QED BY <3>2, <3>3
  <2>3. SentRows' \subseteq DOMAIN outbox /\ SentRows \cup SentHere \subseteq DOMAIN outbox
    BY <1>2 DEF SentRows, SentHere, BoxInv, SendKinds
  <2> QED BY <2>1, <2>2, <2>3
<1>13. RoomInBox' BY <1>1, <1>11, <1>12 DEF BoxInv, RoomInBox
<1> QED BY <1>5, <1>7, <1>8, <1>9, <1>10, <1>13 DEF BoxInv

LEMMA SendingDiesKeeps ==
    ASSUME BoxInv, SendingDies
    PROVE  BoxInv'
<1>1. /\ boxDeaths < BoxDeaths /\ boxDeaths' = boxDeaths + 1 /\ UNCHANGED <<assistantOn, outbox, matter, received, lately>>
      /\ sendPass' = [on |-> FALSE, todo |-> {}, done |-> <<>>]
  BY DEF SendingDies, NoSendPass
<1>2. boxDeaths \in 0..BoxDeaths /\ BoxDeaths \in Nat BY OutboxAssumption DEF BoxInv, BoxKinds
<1>3. boxDeaths' \in 0..BoxDeaths /\ boxDeaths' # 0 BY <1>1, <1>2
<1>4. SendKinds'
  <2>1. DOMAIN sendPass'.done = {} /\ sendPass'.done = [i \in DOMAIN sendPass'.done |-> sendPass'.done[i]] BY <1>1
  <2> QED BY <1>1, <2>1 DEF SendKinds
<1>5. BoxKinds' /\ Menus' /\ MenuInOrder' /\ OncePerMatter' /\ RoomInBox'
  BY <1>1, <1>3 DEF BoxInv, BoxKinds, Menus, MenuInOrder, OncePerMatter, SameMatter, RoomInBox
<1> QED BY <1>4, <1>5 DEF BoxInv

-----------------------------------------------------------------------------
(* Around it.                                                              *)

LEMMA MattersKeep ==
    ASSUME BoxInv, matter' \subseteq Matters, IsFiniteSet(matter'), UNCHANGED <<outbox, sendPass, received, lately, boxDeaths>>
    PROVE  BoxInv'
<1>1. BoxKinds' BY DEF BoxInv, BoxKinds
<1>2. SendKinds' /\ Menus' /\ MenuInOrder' /\ OncePerMatter'
  BY DEF BoxInv, SendKinds, Menus, MenuInOrder, OncePerMatter, SameMatter
<1>3. RoomInBox'
  <2>1. SentRows' = SentRows /\ SentHere' = SentHere /\ PlainReplies' = PlainReplies BY DEF SentRows, SentHere, PlainReplies
  <2> QED BY <2>1 DEF BoxInv, RoomInBox
<1> QED BY <1>1, <1>2, <1>3 DEF BoxInv

\* Time touches no more than the delays, the age of the alerts and the day.
LEMMA TimeKeeps ==
    ASSUME BoxInv, ~sendPass.on, UNCHANGED <<sendPass, received, boxDeaths>>,
           DOMAIN outbox' = DOMAIN outbox, outbox' = [i \in DOMAIN outbox' |-> outbox'[i]],
           \A i \in DOMAIN outbox :
                /\ outbox'[i] \in Item /\ outbox'[i].kind = outbox[i].kind /\ outbox'[i].about = outbox[i].about
                /\ outbox'[i].after = outbox[i].after /\ outbox'[i].status = outbox[i].status
                /\ outbox[i].about = "waits" => (outbox'[i].old \/ ~outbox[i].old),
           matter' \subseteq Matters, IsFiniteSet(matter'),
           \/ lately' = {} /\ \A i \in DOMAIN outbox : ~outbox'[i].today
           \/ lately' = lately /\ \A i \in DOMAIN outbox : outbox'[i].today = outbox[i].today
    PROVE  BoxInv'
<1>1. outbox' \in Seq(Item) /\ Len(outbox') = Len(outbox)
  <2>1. DOMAIN outbox = 1..Len(outbox) /\ Len(outbox) \in Nat BY DEF BoxInv, BoxKinds
  <2>2. outbox' \in [1..Len(outbox) -> Item] BY <2>1
  <2> QED BY <2>1, <2>2
<1>2. BoxKinds' BY <1>1 DEF BoxInv, BoxKinds
<1>3. SendKinds' BY DEF BoxInv, SendKinds
<1>4. Menus'
  <2> SUFFICES ASSUME NEW i \in DOMAIN outbox
               PROVE  /\ outbox'[i].after < i
                      /\ outbox'[i].after = 0 => outbox'[i].status # "WAITING"
                      /\ outbox'[i].after # 0 =>
                            /\ outbox'[outbox'[i].after].after = 0
                            /\ outbox'[i].status \in {"PENDING", "SENT"} => outbox'[i].after \in received
                            /\ outbox'[i].status = "WAITING" => outbox'[outbox'[i].after].status = "PENDING"
    BY DEF Menus
  <2> DEFINE a == outbox[i].after
  <2>1. a < i /\ (a = 0 \/ a \in DOMAIN outbox)
    <3>1. outbox[i] \in Item /\ i \in 1..Len(outbox) /\ DOMAIN outbox = 1..Len(outbox) /\ Len(outbox) \in Nat BY DEF BoxInv, BoxKinds
    <3>2. a \in Nat /\ a < i BY <3>1, OutboxAssumption DEF Item, BoxInv, Menus
    <3> QED BY <3>1, <3>2
  <2>2. outbox'[i].after = a /\ outbox'[i].status = outbox[i].status OBVIOUS
  <2>3. a # 0 => outbox'[a].after = outbox[a].after /\ outbox'[a].status = outbox[a].status BY <2>1
  <2>4. /\ a = 0 => outbox[i].status # "WAITING"
        /\ a # 0 => /\ outbox[a].after = 0
                    /\ outbox[i].status \in {"PENDING", "SENT"} => a \in received
                    /\ outbox[i].status = "WAITING" => outbox[a].status = "PENDING"
    BY DEF BoxInv, Menus
  <2> HIDE DEF a
  <2> QED BY <2>1, <2>2, <2>3, <2>4
<1>5. MenuInOrder' BY DEF BoxInv, BoxKinds, MenuInOrder
<1>6. OncePerMatter'
  <2>1. ASSUME NEW i, NEW j, SameMatter(i, j)' PROVE SameMatter(i, j) BY <2>1 DEF SameMatter
  <2> QED BY <2>1 DEF BoxInv, OncePerMatter
<1>7. RoomInBox'
  <2>1. SentHere = {} /\ SentHere' = {} BY DEF SentHere, BoxInv, SendKinds
  <2>2. CASE lately' = {} /\ \A i \in DOMAIN outbox : ~outbox'[i].today
    <3>1. SentRows' = {} BY <2>2 DEF SentRows
    <3>2. PlainReplies' = {} BY <2>2 DEF PlainReplies
    <3>3. Cap \in Nat /\ Reserve \in Nat /\ Reserve <= Cap BY OutboxAssumption
    <3>4. Cardinality(lately') = 0 BY <2>2, FS_EmptySet, Zenon
    <3>5. Cardinality(PlainReplies') = 0 BY <3>2, FS_EmptySet, Zenon
    <3> QED BY <2>1, <2>2, <3>1, <3>3, <3>4, <3>5 DEF RoomInBox
  <2>3. CASE lately' = lately /\ \A i \in DOMAIN outbox : outbox'[i].today = outbox[i].today
    <3>1. SentRows' = SentRows BY <2>3 DEF SentRows
    <3>2. PlainReplies' = PlainReplies BY <2>3 DEF PlainReplies, BoxInv, BoxKinds
    <3> QED BY <2>1, <2>3, <3>1, <3>2 DEF BoxInv, RoomInBox
  <2> QED BY <2>2, <2>3
<1> QED BY <1>2, <1>3, <1>4, <1>5, <1>6, <1>7 DEF BoxInv

-----------------------------------------------------------------------------
(* The invariant, and what it says.                                        *)

LEMMA BoxStarts == BoxInit => BoxInv
<1> SUFFICES ASSUME BoxInit PROVE BoxInv OBVIOUS
<1>1. outbox = <<>> /\ received = {} /\ lately = {} /\ matter = {} /\ boxDeaths = 0
      /\ sendPass = [on |-> FALSE, todo |-> {}, done |-> <<>>]
  BY DEF BoxInit, NoSendPass
<1>2. Cap \in Nat /\ Reserve \in Nat /\ Reserve <= Cap /\ BoxMax \in Nat /\ BoxDeaths \in Nat BY OutboxAssumption
<1>3. BoxKinds BY <1>1, <1>2, FS_EmptySet DEF BoxKinds
<1>4. DOMAIN sendPass.done = {} /\ sendPass.done = [i \in DOMAIN sendPass.done |-> sendPass.done[i]] BY <1>1
<1>5. SendKinds BY <1>1, <1>4 DEF SendKinds
<1>6. DOMAIN outbox = {} BY <1>1
<1>7. Menus /\ MenuInOrder /\ OncePerMatter BY <1>1, <1>6 DEF Menus, MenuInOrder, OncePerMatter, SameMatter
<1>8. SentRows = {} /\ SentHere = {} /\ PlainReplies = {} BY <1>1, <1>4, <1>6 DEF SentRows, SentHere, PlainReplies
<1>9. Cardinality(lately) = 0 BY <1>1, FS_EmptySet, Zenon
<1>10. Cardinality(PlainReplies) = 0 BY <1>8, FS_EmptySet, Zenon
<1>11. RoomInBox BY <1>1, <1>2, <1>8, <1>9, <1>10 DEF RoomInBox
<1> QED BY <1>3, <1>5, <1>7, <1>11 DEF BoxInv

LEMMA BoxStepKeeps == BoxInv /\ [BoxNext]_boxVars => BoxInv'
<1> SUFFICES ASSUME BoxInv, [BoxNext]_boxVars PROVE BoxInv' OBVIOUS
<1>1. matter \subseteq Matters /\ IsFiniteSet(matter) BY DEF BoxInv, BoxKinds
<1>2. CASE QueueReply BY <1>2, ReplyKeeps
<1>3. CASE SendMenu BY <1>3, MenuKeeps
<1>4. CASE ScanAlerts BY <1>4, ScanKeeps
<1>5. CASE BeginSending BY <1>5, BeginSendingKeeps
<1>6. CASE EndSending BY <1>6, EndSendingKeeps
<1>7. CASE SendingDies BY <1>7, SendingDiesKeeps
<1>8. ASSUME NEW i \in DOMAIN outbox, NEW answer \in {"taken", "refused", "silence"}, SendOne(i, answer) PROVE BoxInv'
  BY <1>8, SendOneKeeps
<1>9. ASSUME NEW m \in Matters, Happens(m) \/ Passes(m) PROVE BoxInv'
  <2>1. UNCHANGED <<outbox, sendPass, received, lately, boxDeaths>> BY <1>9 DEF Happens, Passes
  <2>2. matter' = matter \cup {m} \/ matter' = matter \ {m} BY <1>9 DEF Happens, Passes
  <2>3. matter' \subseteq Matters /\ IsFiniteSet(matter') BY <1>1, <2>2, FS_AddElement, FS_RemoveElement
  <2> QED BY <2>1, <2>3, MattersKeep
<1>10. CASE SwitchAssistant
  <2>1. UNCHANGED <<outbox, sendPass, received, lately, boxDeaths>> /\ matter' = {} BY <1>10 DEF SwitchAssistant
  <2>2. matter' \subseteq Matters /\ IsFiniteSet(matter') BY <2>1, FS_EmptySet
  <2> QED BY <2>1, <2>2, MattersKeep
<1>11. \A i \in DOMAIN outbox : outbox[i] \in Item BY DEF BoxInv, BoxKinds
<1>12. CASE MinutesGo
  <2>1. ~sendPass.on /\ outbox' = Waited(outbox) /\ UNCHANGED <<assistantOn, matter, sendPass, received, lately, boxDeaths>>
    BY <1>12 DEF MinutesGo
  <2>2. DOMAIN outbox' = DOMAIN outbox /\ outbox' = [i \in DOMAIN outbox' |-> outbox'[i]]
        /\ \A i \in DOMAIN outbox : outbox'[i] = [outbox[i] EXCEPT !.wait = FALSE]
    BY <2>1 DEF Waited
  <2>3. \A i \in DOMAIN outbox :
            /\ outbox'[i] \in Item /\ outbox'[i].kind = outbox[i].kind /\ outbox'[i].about = outbox[i].about
            /\ outbox'[i].after = outbox[i].after /\ outbox'[i].status = outbox[i].status
            /\ outbox'[i].old = outbox[i].old /\ outbox'[i].today = outbox[i].today
    <3> SUFFICES ASSUME NEW i \in DOMAIN outbox
                 PROVE  /\ outbox'[i] \in Item /\ outbox'[i].kind = outbox[i].kind /\ outbox'[i].about = outbox[i].about
                        /\ outbox'[i].after = outbox[i].after /\ outbox'[i].status = outbox[i].status
                        /\ outbox'[i].old = outbox[i].old /\ outbox'[i].today = outbox[i].today
        OBVIOUS
    <3>1. outbox[i] \in Item /\ outbox'[i] = [outbox[i] EXCEPT !.wait = FALSE] BY <1>11, <2>2
    <3> QED BY <3>1, ItemWaited
  <2> QED BY <1>1, <2>1, <2>2, <2>3, TimeKeeps
<1>13. CASE NightFalls
  <2>1. /\ ~sendPass.on /\ matter' = {} /\ lately' = {} /\ UNCHANGED <<assistantOn, sendPass, received, boxDeaths>>
        /\ outbox' = [i \in DOMAIN outbox |-> [Waited(outbox)[i] EXCEPT !.old = outbox[i].about = "waits", !.today = FALSE]]
    BY <1>13 DEF NightFalls
  <2>2. DOMAIN outbox' = DOMAIN outbox /\ outbox' = [i \in DOMAIN outbox' |-> outbox'[i]]
        /\ \A i \in DOMAIN outbox : outbox'[i] = [[outbox[i] EXCEPT !.wait = FALSE] EXCEPT !.old = outbox[i].about = "waits", !.today = FALSE]
    BY <2>1 DEF Waited
  <2>3. \A i \in DOMAIN outbox :
            /\ outbox'[i] \in Item /\ outbox'[i].kind = outbox[i].kind /\ outbox'[i].about = outbox[i].about
            /\ outbox'[i].after = outbox[i].after /\ outbox'[i].status = outbox[i].status
            /\ (outbox[i].about = "waits" => outbox'[i].old) /\ ~outbox'[i].today
    <3> SUFFICES ASSUME NEW i \in DOMAIN outbox
                 PROVE  /\ outbox'[i] \in Item /\ outbox'[i].kind = outbox[i].kind /\ outbox'[i].about = outbox[i].about
                        /\ outbox'[i].after = outbox[i].after /\ outbox'[i].status = outbox[i].status
                        /\ (outbox[i].about = "waits" => outbox'[i].old) /\ ~outbox'[i].today
        OBVIOUS
    <3> DEFINE waited == [outbox[i] EXCEPT !.wait = FALSE]
    <3> DEFINE late == outbox[i].about = "waits"
    <3>1. outbox[i] \in Item /\ outbox'[i] = [waited EXCEPT !.old = late, !.today = FALSE] BY <1>11, <2>2
    <3>2. /\ waited \in Item /\ waited.kind = outbox[i].kind /\ waited.about = outbox[i].about
          /\ waited.after = outbox[i].after /\ waited.status = outbox[i].status
        BY <3>1, ItemWaited
    <3>3. late \in BOOLEAN OBVIOUS
    <3>4. late <=> outbox[i].about = "waits" OBVIOUS
    <3> HIDE DEF waited, late
    <3> DEFINE s == [waited EXCEPT !.old = late, !.today = FALSE]
    <3>6. /\ s \in Item /\ s.kind = waited.kind /\ s.about = waited.about /\ s.after = waited.after
          /\ s.status = waited.status /\ s.old = late /\ s.today = FALSE
        BY <3>2, <3>3, ItemAged
    <3>7. outbox'[i] = s BY <3>1
    <3> HIDE DEF s
    <3> QED BY <3>2, <3>4, <3>6, <3>7
  <2>4. matter' \subseteq Matters /\ IsFiniteSet(matter') BY <2>1, FS_EmptySet
  <2> QED BY <2>1, <2>2, <2>3, <2>4, TimeKeeps
<1>14. CASE UNCHANGED boxVars
  <2>1. UNCHANGED <<outbox, matter, sendPass, received, lately, boxDeaths>> BY <1>14 DEF boxVars
  <2> QED BY <1>1, <2>1, MattersKeep
<1> QED BY <1>2, <1>3, <1>4, <1>5, <1>6, <1>7, <1>8, <1>9, <1>10, <1>12, <1>13, <1>14 DEF BoxNext

\* Types of the merchant's messages: rows, passes and what was received.
THEOREM BoxTypeCorrect == BoxSpec => []BoxTypeOK
<1>1. BoxInv => BoxTypeOK
  <2> SUFFICES ASSUME BoxInv PROVE BoxTypeOK OBVIOUS
  <2> QED BY DEF BoxInv, BoxKinds, SendKinds, Menus, BoxTypeOK
<1> QED BY <1>1, BoxStarts, BoxStepKeeps, PTL DEF BoxSpec

\* What the merchant receives (services/merchant_assistant.py, send_outbox):
\* no more in a day than the limit, whose last places are for alerts, but for
\* passes that died; the menu's second message after its first; one alert for
\* an order and one at a time for a customer who waits; and nothing that waits
\* for a message that will never leave.
THEOREM MerchantHearsRight == BoxSpec => []OutboxRight
<1>1. BoxInv => OutboxRight
  <2> SUFFICES ASSUME BoxInv PROVE OutboxRight OBVIOUS
  <2>1. RoomForAlerts BY DEF BoxInv, RoomInBox, PlainReplies, RoomForAlerts
  <2>2. MenuInOrder BY DEF BoxInv
  <2>3. OneAlertPerMatter
    <3>1. ASSUME NEW o \in Sales PROVE Cardinality(AlertsOf(o)) <= 1
      <4>1. ASSUME NEW x \in AlertsOf(o), NEW y \in AlertsOf(o) PROVE x = y
        <5>1. SameMatter(x, y) BY DEF SameMatter, AlertsOf
        <5> QED BY <5>1 DEF BoxInv, OncePerMatter
      <4> QED BY <4>1, OneAtMost
    <3>2. Cardinality({i \in AlertsOf("waits") : ~outbox[i].old}) <= 1
      <4> DEFINE S == {i \in AlertsOf("waits") : ~outbox[i].old}
      <4>1. ASSUME NEW x \in S, NEW y \in S PROVE x = y
        <5>1. SameMatter(x, y) BY DEF SameMatter, AlertsOf
        <5> QED BY <5>1 DEF BoxInv, OncePerMatter
      <4> HIDE DEF S
      <4>2. Cardinality(S) <= 1 BY <4>1, OneAtMost
      <4> QED BY <4>2 DEF S
    <3> QED BY <3>1, <3>2 DEF OneAlertPerMatter
  <2>4. NoneWaitsForEver BY DEF BoxInv, Menus, NoneWaitsForEver
  <2> QED BY <2>1, <2>2, <2>3, <2>4 DEF OutboxRight
<1> QED BY <1>1, BoxStarts, BoxStepKeeps, PTL DEF BoxSpec

-----------------------------------------------------------------------------
(* The merchant's photos and messages: the inductive invariant.            *)

Holding == [at : {"free", "claimed", "DONE", "FAILED"}, note : {0} \cup Notes, media : {NoFile} \cup Notes, read : BOOLEAN, row : Awaited]

ChatKinds ==
    /\ notes \in [Notes -> Note] /\ awaits \in Awaited /\ shelf \in SUBSET Notes /\ goods \in [Notes -> Nat]
    /\ hand \in [Hands -> Holding] /\ handled \in [Notes -> Nat] /\ handDeaths \in Nat /\ beside \in BOOLEAN
    /\ \A w \in Hands : hand[w].at # "free" => hand[w].note \in Notes /\ notes[hand[w].note].status # "NONE"

Holds(w, n) == hand[w].at # "free" /\ hand[w].note = n

\* A file from which a product was made is not kept any more.
MadeOnce ==
    \A f \in Notes : /\ goods[f] <= 1 /\ (f \in shelf \/ notes[f].status = "NONE" => goods[f] = 0)
                     /\ f \in shelf => notes[f].status # "NONE"

\* In its first ten minutes a message is in the hands of one process at most,
\* from its claim to its end.
InOneHand ==
    \A n \in Notes :
        /\ notes[n].status = "NONE" => ~notes[n].late /\ handled[n] = 0
        /\ ~notes[n].late =>
              /\ handled[n] <= 1
              /\ notes[n].status = "RECEIVED" => handled[n] = 0
              /\ \A w \in Hands : Holds(w, n) => /\ notes[n].status = "WORKING"
                                                 /\ hand[w].at = "claimed" => handled[n] = 0
              /\ \A v, w \in Hands : Holds(v, n) /\ Holds(w, n) => v = w

\* Nothing is awaited but by the one row that says so.
NothingElse(row) == row.kind = "none" => row = Nothing

\* Alone, a process works on the row as it is, and a photo that is still its
\* message's is kept, or is ten minutes old.
RowIsTrue ==
    /\ NothingElse(awaits)
    /\ \A w \in Hands : hand[w] # Free => hand[w].row = awaits
    /\ \A w \in Hands : /\ hand[w].at # "FAILED" /\ (hand[w].at = "DONE" => hand[w].media = NoFile)
                        /\ hand[w].at = "claimed" => hand[w].media = notes[hand[w].note].media

PhotosKept ==
    /\ \A n \in Notes : notes[n].media # NoFile => /\ notes[n].media = n /\ awaits.file # n
                                                   /\ n \in shelf \/ notes[n].late
    /\ \A n \in Notes : notes[n].status = "NONE" => awaits.file # n
    /\ AwaitedPhotoIsThere

ChatInv ==
    /\ ChatKinds /\ MadeOnce /\ InOneHand
    /\ beside \/ handDeaths > 0 \/ (~TwoHands /\ RowIsTrue /\ PhotosKept)

-----------------------------------------------------------------------------
(* What handling a message comes to.                                       *)

HandledAs == [gone : SUBSET ({NoFile} \cup Notes), made : {NoFile} \cup Notes, next : Awaited, writes : BOOLEAN]

LEMMA RowsAwaited ==
    /\ Nothing \in Awaited
    /\ \A k \in {"photo", "draft", "stock"}, f \in {NoFile} \cup Notes, b \in BOOLEAN :
          Waiting(k, f, b) \in Awaited
    /\ Free \in Holding
BY DEF Nothing, Awaited, Waiting, NoFile, Free, Holding

\* A product is made of a file that is there, and takes it.
MadeOf(o, row, media) ==
    /\ o \in HandledAs
    /\ o.made # NoFile => o.made \in shelf /\ o.made \in o.gone
    /\ o.gone \subseteq {row.file, media, NoFile}
    /\ o.next.file \in {row.file, media, NoFile}

\* What is awaited next, when the question is about a file.
AwaitedNext(o, row, media, late) ==
    /\ NothingElse(row) => NothingElse(o.next) /\ (~o.writes => o.next = row)
    /\ KeptFile(o.next) # NoFile /\ ~o.next.aged =>
          \/ o.next = row /\ o.gone = {}
          \/ KeptFile(o.next) = media /\ ~late /\ media \notin o.gone

LEMMA CreatedIs ==
    ASSUME ChatKinds, NEW row \in Awaited, NEW file \in {NoFile} \cup Notes, NEW room \in BOOLEAN
    PROVE  /\ MadeOf(CreateProduct(row, file, room), row, file)
           /\ AwaitedNext(CreateProduct(row, file, room), row, file, FALSE)
           /\ KeptFile(CreateProduct(row, file, room).next) = NoFile
           /\ CreateProduct(row, file, room).gone \subseteq {file}
<1>0. PICK o : o = CreateProduct(row, file, room) OBVIOUS
<1> SUFFICES /\ MadeOf(o, row, file) /\ AwaitedNext(o, row, file, FALSE)
             /\ KeptFile(o.next) = NoFile /\ o.gone \subseteq {file}
  BY <1>0
<1>1. CASE room /\ file \in shelf
  <2>1. o = [gone |-> {file}, made |-> file, next |-> Waiting("stock", file, FALSE), writes |-> TRUE]
    BY <1>0, <1>1 DEF CreateProduct, Await
  <2>2. o \in HandledAs BY <2>1, RowsAwaited DEF HandledAs
  <2> QED BY <1>1, <2>1, <2>2 DEF MadeOf, AwaitedNext, KeptFile, Waiting, NothingElse
<1>2. CASE ~(room /\ file \in shelf)
  <2> DEFINE g == IF room THEN {} ELSE {file}
  <2>1. o = [gone |-> g, made |-> NoFile, next |-> Nothing, writes |-> row.kind # "none"]
    BY <1>0, <1>2 DEF CreateProduct, Await
  <2>2. o \in HandledAs BY <2>1, RowsAwaited DEF HandledAs
  <2>3. Nothing.file = NoFile /\ Nothing.kind = "none" /\ Nothing.fresh = FALSE BY DEF Nothing
  <2> QED BY <2>1, <2>2, <2>3 DEF MadeOf, AwaitedNext, KeptFile, NothingElse
<1> QED BY <1>1, <1>2

LEMMA AddedIs ==
    ASSUME ChatKinds, NEW note \in Note, NEW row \in Awaited, NEW media \in {NoFile} \cup Notes, NEW room \in BOOLEAN
    PROVE  /\ MadeOf(AddFromPhoto(note, media, row, room), row, media)
           /\ AwaitedNext(AddFromPhoto(note, media, row, room), row, media, note.late)
<1> DEFINE complete == note.says = "both" \/ (row.fresh /\ row.kind = "draft")
           before == {KeptFile(row)} \ {media}
           waits == [Waiting("photo", media, note.says = "name") EXCEPT !.aged = note.late]
<1>0. PICK o : o = AddFromPhoto(note, media, row, room) OBVIOUS
<1> SUFFICES MadeOf(o, row, media) /\ AwaitedNext(o, row, media, note.late) BY <1>0
<1>1. before \subseteq {row.file, NoFile} /\ row.file \in {NoFile} \cup Notes BY DEF KeptFile, Awaited
<1>2. CASE complete
  <2>0. PICK c : c = CreateProduct(row, media, room) OBVIOUS
  <2>1. o = [c EXCEPT !.gone = @ \cup before] BY <1>0, <1>2, <2>0 DEF AddFromPhoto
  <2>2. MadeOf(c, row, media) /\ AwaitedNext(c, row, media, FALSE) /\ KeptFile(c.next) = NoFile BY <2>0, CreatedIs
  <2> HIDE DEF before
  <2>3. c \in HandledAs BY <2>2 DEF MadeOf
  <2>4. o.gone = c.gone \cup before /\ o.made = c.made /\ o.next = c.next /\ o.writes = c.writes /\ o \in HandledAs
    BY <2>1, <2>3, <1>1 DEF HandledAs
  <2>5. MadeOf(o, row, media) BY <2>2, <2>4, <1>1 DEF MadeOf
  <2> QED BY <2>2, <2>4, <2>5 DEF AwaitedNext
<1>3. CASE ~complete
  <2>1. o = [[gone |-> {}, made |-> NoFile, next |-> waits, writes |-> TRUE] EXCEPT !.gone = @ \cup before]
    BY <1>0, <1>3 DEF AddFromPhoto, Await
  <2>2. waits \in Awaited /\ waits.file = media /\ waits.kind = "photo" /\ waits.aged = note.late
    BY DEF Waiting, Awaited, Note
  <2> HIDE DEF before, waits
  <2>3. o.gone = before /\ o.made = NoFile /\ o.next = waits /\ o.writes = TRUE /\ o \in HandledAs
    BY <2>1, <2>2, <1>1 DEF HandledAs
  <2>4. media \notin o.gone BY <2>3 DEF before
  <2> QED BY <2>2, <2>3, <2>4, <1>1 DEF MadeOf, AwaitedNext, KeptFile, NothingElse
<1> QED BY <1>2, <1>3

LEMMA TextIs ==
    ASSUME ChatKinds, NEW says \in Says, NEW row \in Awaited, NEW media \in {NoFile} \cup Notes, NEW room \in BOOLEAN
    PROVE  /\ MadeOf(HandleText(says, row, room), row, media)
           /\ AwaitedNext(HandleText(says, row, room), row, media, TRUE)
<1> DEFINE isNamed == says \in {"name", "both"} \/ row.named
           asks == [Waiting("photo", row.file, isNamed) EXCEPT !.aged = TRUE]
<1>o. PICK o : o = HandleText(says, row, room) OBVIOUS
<1> SUFFICES MadeOf(o, row, media) /\ AwaitedNext(o, row, media, TRUE) BY <1>o
<1>0. row.file \in {NoFile} \cup Notes /\ Nothing.kind = "none" /\ Nothing.file = NoFile /\ Nothing.fresh = FALSE BY DEF Awaited, Nothing
<1>1. CASE row.fresh /\ row.kind = "stock" /\ says = "number"
  <2>1. o = [gone |-> {}, made |-> NoFile, next |-> Nothing, writes |-> TRUE] BY <1>o, <1>1 DEF HandleText, Await
  <2> QED BY <2>1, <1>0, RowsAwaited DEF HandledAs, MadeOf, AwaitedNext, KeptFile, NothingElse
<1>2. CASE row.fresh /\ row.kind = "photo" /\ says # "command" /\ isNamed /\ says \in {"both", "number"}
  <2>1. o = CreateProduct(row, row.file, room) BY <1>o, <1>2 DEF HandleText
  <2>2. MadeOf(o, row, row.file) /\ AwaitedNext(o, row, row.file, FALSE) /\ KeptFile(o.next) = NoFile BY <1>0, <2>1, CreatedIs
  <2> QED BY <2>2 DEF MadeOf, AwaitedNext
<1>3. CASE row.fresh /\ row.kind = "photo" /\ says # "command" /\ ~(isNamed /\ says \in {"both", "number"})
  <2>1. o = [gone |-> {}, made |-> NoFile, next |-> asks, writes |-> TRUE] BY <1>o, <1>3 DEF HandleText, Await
  <2>2. asks \in Awaited /\ asks.kind = "photo" /\ asks.file = row.file /\ asks.aged = TRUE BY <1>0 DEF Waiting, Awaited
  <2> HIDE DEF asks
  <2> QED BY <2>1, <2>2 DEF HandledAs, MadeOf, AwaitedNext, KeptFile, NothingElse
<1>4. CASE ~(row.fresh /\ row.kind = "stock" /\ says = "number") /\ ~(row.fresh /\ row.kind = "photo" /\ says # "command")
  <2>1. o = OfferDraft(says, row) BY <1>o, <1>4 DEF HandleText
  <2>2. CASE says = "both"
    <3>1. o = [gone |-> {}, made |-> NoFile, next |-> Waiting("draft", NoFile, FALSE), writes |-> TRUE] BY <2>1, <2>2 DEF OfferDraft, Await
    <3> QED BY <3>1, RowsAwaited DEF HandledAs, MadeOf, AwaitedNext, KeptFile, NothingElse, Waiting
  <2>3. CASE says # "both"
    <3>1. o = [gone |-> {}, made |-> NoFile, next |-> row, writes |-> FALSE] BY <2>1, <2>3 DEF OfferDraft, AsBefore
    <3> QED BY <3>1, <1>0 DEF HandledAs, MadeOf, AwaitedNext
  <2> QED BY <2>2, <2>3
<1> QED BY <1>1, <1>2, <1>3, <1>4

LEMMA HandlingIs ==
    ASSUME ChatKinds, NEW w \in Hands, NEW room \in BOOLEAN, hand[w].at = "claimed"
    PROVE  /\ MadeOf(Handling(w, room), hand[w].row, hand[w].media)
           /\ AwaitedNext(Handling(w, room), hand[w].row, hand[w].media, notes[hand[w].note].late)
<1>1. hand[w] \in Holding /\ hand[w].note \in Notes BY DEF ChatKinds
<1>2. PICK row \in Awaited : row = hand[w].row BY <1>1 DEF Holding
<1>3. PICK media \in {NoFile} \cup Notes : media = hand[w].media BY <1>1 DEF Holding
<1>4. PICK note \in Note : note = notes[hand[w].note] BY <1>1 DEF ChatKinds
<1>5. PICK late \in BOOLEAN : late = note.late BY DEF Note
<1>6. CASE note.kind = "photo"
  <2>1. Handling(w, room) = AddFromPhoto(note, media, row, room) BY <1>2, <1>3, <1>4, <1>6 DEF Handling
  <2> QED BY <2>1, <1>2, <1>3, <1>4, AddedIs
<1>7. CASE note.kind # "photo"
  <2>1. note.says \in Says BY DEF Note
  <2>2. Handling(w, room) = HandleText(note.says, row, room) BY <1>2, <1>3, <1>4, <1>7 DEF Handling
  <2>3. PICK o : o = Handling(w, room) OBVIOUS
  <2>4. MadeOf(o, row, media) /\ AwaitedNext(o, row, media, TRUE) BY <2>1, <2>2, <2>3, TextIs
  <2>5. AwaitedNext(o, row, media, late) BY <2>4 DEF AwaitedNext
  <2> QED BY <2>3, <2>4, <2>5, <1>2, <1>3, <1>4, <1>5
<1> QED BY <1>6, <1>7

-----------------------------------------------------------------------------
(* Each step: what it leaves well formed, and what it changes.             *)

LEMMA ReceiveIs ==
    ASSUME ChatKinds, NEW kind \in {"photo", "text"}, NEW says \in Says, Receive(kind, says)
    PROVE  \E n \in Notes : \E x \in Note :
              /\ notes[n].status = "NONE" /\ notes' = [notes EXCEPT ![n] = x]
              /\ x.status = "RECEIVED" /\ ~x.late /\ x.media \in {NoFile, n}
              /\ shelf' = IF x.media = n THEN shelf \cup {n} ELSE shelf
              /\ UNCHANGED <<awaits, goods, hand, handled, handDeaths>>
<1>1. PICK n \in Notes :
        /\ notes[n].status = "NONE"
        /\ notes' = [notes EXCEPT ![n] = [kind |-> kind, says |-> says, status |-> "RECEIVED", late |-> FALSE,
                                          media |-> IF kind = "photo" THEN n ELSE NoFile]]
        /\ shelf' = IF kind = "photo" THEN shelf \cup {n} ELSE shelf
        /\ UNCHANGED <<awaits, goods, hand, handled, handDeaths>>
  BY DEF Receive
<1> DEFINE x == [kind |-> kind, says |-> says, status |-> "RECEIVED", late |-> FALSE, media |-> IF kind = "photo" THEN n ELSE NoFile]
<1>2. x \in Note BY DEF Note, NoFile
<1>3. n # NoFile BY DEF Notes, NoFile
<1>4. x.media = n <=> kind = "photo" BY <1>3
<1> WITNESS n \in Notes
<1> WITNESS x \in Note
<1> QED BY <1>1, <1>2, <1>4

LEMMA ReceiveKinds ==
    ASSUME ChatKinds, beside' \in BOOLEAN, NEW kind \in {"photo", "text"}, NEW says \in Says, Receive(kind, says)
    PROVE  ChatKinds'
<1>1. PICK n \in Notes, x \in Note :
              /\ notes[n].status = "NONE" /\ notes' = [notes EXCEPT ![n] = x]
              /\ x.status = "RECEIVED" /\ shelf' = IF x.media = n THEN shelf \cup {n} ELSE shelf
              /\ UNCHANGED <<awaits, goods, hand, handled, handDeaths>>
  BY ReceiveIs
<1> QED BY <1>1 DEF ChatKinds

\* A step of one process w, about the message it holds afterwards.
LEMMA ClaimIs ==
    ASSUME ChatKinds, NEW w \in Hands, NEW n \in Notes, Claim(w, n)
    PROVE  /\ hand[w].at = "free" /\ notes[n].status = "RECEIVED"
           /\ notes' = [notes EXCEPT ![n].status = "WORKING"]
           /\ \E h \in Holding : /\ hand' = [hand EXCEPT ![w] = h]
                                 /\ h.at = "claimed" /\ h.note = n /\ h.media = notes[n].media
                                 /\ h.row = IF hand[w].read THEN hand[w].row ELSE awaits
           /\ UNCHANGED <<awaits, shelf, goods, handled, handDeaths>>
<1> DEFINE h == [at |-> "claimed", note |-> n, media |-> notes[n].media, read |-> TRUE,
                 row |-> IF hand[w].read THEN hand[w].row ELSE awaits]
<1>1. hand' = [hand EXCEPT ![w] = h] BY DEF Claim, ChatKinds
<1>2. h \in Holding BY DEF Holding, ChatKinds, Note
<1> QED BY <1>1, <1>2 DEF Claim, Claimable

LEMMA ClaimKinds == ASSUME ChatKinds, beside' \in BOOLEAN, NEW w \in Hands, NEW n \in Notes, Claim(w, n) PROVE ChatKinds'
<1>1. PICK h \in Holding : hand' = [hand EXCEPT ![w] = h] /\ h.at = "claimed" /\ h.note = n BY ClaimIs
<1>2. notes' = [notes EXCEPT ![n].status = "WORKING"] /\ UNCHANGED <<awaits, shelf, goods, handled, handDeaths>> BY ClaimIs
<1>3. notes' \in [Notes -> Note] BY <1>2 DEF ChatKinds, Note
<1>4. \A v \in Hands : hand'[v].at # "free" => hand'[v].note \in Notes /\ notes'[hand'[v].note].status # "NONE"
  <2> SUFFICES ASSUME NEW v \in Hands, hand'[v].at # "free" PROVE hand'[v].note \in Notes /\ notes'[hand'[v].note].status # "NONE" OBVIOUS
  <2>1. \A m \in Notes : notes[m].status # "NONE" => notes'[m].status # "NONE" BY <1>2 DEF ChatKinds, Note
  <2>2. notes'[n].status = "WORKING" BY <1>2 DEF ChatKinds, Note
  <2> QED BY <2>1, <2>2, <1>1 DEF ChatKinds
<1> QED BY <1>1, <1>2, <1>3, <1>4 DEF ChatKinds

LEMMA HandleIs ==
    ASSUME ChatKinds, NEW w \in Hands, NEW room \in BOOLEAN, Handle(w, room)
    PROVE  \E o \in HandledAs, h \in Holding, n \in Notes :
              /\ hand[w].at = "claimed" /\ n = hand[w].note
              /\ MadeOf(o, hand[w].row, hand[w].media) /\ AwaitedNext(o, hand[w].row, hand[w].media, notes[n].late)
              /\ shelf' = shelf \ o.gone
              /\ goods' = IF o.made = NoFile THEN goods ELSE [goods EXCEPT ![o.made] = @ + 1]
              /\ awaits' = IF o.writes THEN o.next ELSE awaits
              /\ notes' = [notes EXCEPT ![n].media = NoFile]
              /\ hand' = [hand EXCEPT ![w] = h] /\ h.at = "DONE" /\ h.note = n /\ h.row = o.next /\ h.media = NoFile
              /\ handled' = [handled EXCEPT ![n] = @ + 1]
              /\ handDeaths' = handDeaths
<1>1. hand[w].at = "claimed" BY DEF Handle
<1>2. hand[w] \in Holding BY DEF ChatKinds
<1>3. PICK n \in Notes : n = hand[w].note BY <1>1 DEF ChatKinds
<1>4. PICK o \in HandledAs : /\ o = Handling(w, room) /\ MadeOf(o, hand[w].row, hand[w].media)
                           /\ AwaitedNext(o, hand[w].row, hand[w].media, notes[n].late)
  BY <1>1, <1>3, HandlingIs DEF MadeOf
<1>5. PICK h : h = [hand[w] EXCEPT !.at = "DONE", !.row = o.next, !.media = NoFile] OBVIOUS
<1>6. h \in Holding /\ h.at = "DONE" /\ h.note = n /\ h.row = o.next /\ h.media = NoFile
  BY <1>2, <1>3, <1>5 DEF Holding, HandledAs
<1>7. hand' = [hand EXCEPT ![w] = h]
  <2>1. hand' = [hand EXCEPT ![w].at = "DONE", ![w].row = o.next, ![w].media = LetGo(@)] BY <1>4 DEF Handle
  <2> QED BY <2>1, <1>5 DEF ChatKinds, LetGo
<1>8. /\ shelf' = shelf \ o.gone
      /\ goods' = IF o.made = NoFile THEN goods ELSE [goods EXCEPT ![o.made] = @ + 1]
      /\ awaits' = IF o.writes THEN o.next ELSE awaits
      /\ handled' = [handled EXCEPT ![n] = @ + 1] /\ handDeaths' = handDeaths
      /\ notes' = [notes EXCEPT ![n].media = NoFile]
  BY <1>3, <1>4 DEF Handle, LetGo
<1> QED BY <1>1, <1>3, <1>4, <1>6, <1>7, <1>8

LEMMA HandleKinds == ASSUME ChatKinds, beside' \in BOOLEAN, NEW w \in Hands, NEW room \in BOOLEAN, Handle(w, room) PROVE ChatKinds'
<1>1. PICK o \in HandledAs, h \in Holding, n \in Notes :
              /\ hand[w].at = "claimed" /\ n = hand[w].note /\ shelf' = shelf \ o.gone
              /\ goods' = IF o.made = NoFile THEN goods ELSE [goods EXCEPT ![o.made] = @ + 1]
              /\ awaits' = IF o.writes THEN o.next ELSE awaits
              /\ notes' = [notes EXCEPT ![n].media = NoFile]
              /\ hand' = [hand EXCEPT ![w] = h] /\ h.note = n
              /\ handled' = [handled EXCEPT ![n] = @ + 1]
              /\ handDeaths' = handDeaths
  BY HandleIs
<1>2. notes' \in [Notes -> Note] /\ \A m \in Notes : notes'[m].status = notes[m].status BY <1>1 DEF ChatKinds, Note
<1>3. awaits' \in Awaited BY <1>1 DEF HandledAs, ChatKinds
<1>4. goods' \in [Notes -> Nat] /\ handled' \in [Notes -> Nat] BY <1>1 DEF HandledAs, ChatKinds
<1>5. \A v \in Hands : hand'[v].at # "free" => hand'[v].note \in Notes /\ notes'[hand'[v].note].status # "NONE"
  BY <1>1, <1>2 DEF ChatKinds
<1> QED BY <1>1, <1>2, <1>3, <1>4, <1>5 DEF ChatKinds

LEMMA HandleFailsIs ==
    ASSUME ChatKinds, NEW w \in Hands, NEW room \in BOOLEAN, HandleFails(w, room)
    PROVE  /\ hand[w].at = "claimed" /\ shelf' \subseteq shelf /\ handDeaths' = handDeaths + 1
           /\ \E h \in Holding : hand' = [hand EXCEPT ![w] = h] /\ h.at = "FAILED" /\ h.note = hand[w].note
           /\ UNCHANGED <<notes, awaits, goods, handled>>
<1>1. hand[w].at = "claimed" BY DEF HandleFails
<1>2. hand[w] \in Holding /\ hand[w].note \in Notes BY <1>1 DEF ChatKinds
<1> DEFINE h == [hand[w] EXCEPT !.at = "FAILED", !.row = awaits, !.media = notes[hand[w].note].media]
<1>3. h \in Holding /\ h.at = "FAILED" /\ h.note = hand[w].note BY <1>2 DEF Holding, ChatKinds, Note
<1>4. hand' = [hand EXCEPT ![w] = h] BY DEF HandleFails, ChatKinds
<1>5. shelf' \subseteq shelf /\ handDeaths' = handDeaths + 1 /\ UNCHANGED <<notes, awaits, goods, handled>>
  BY DEF HandleFails
<1> QED BY <1>1, <1>3, <1>4, <1>5

LEMMA HandleFailsKinds ==
    ASSUME ChatKinds, beside' \in BOOLEAN, NEW w \in Hands, NEW room \in BOOLEAN, HandleFails(w, room)
    PROVE  ChatKinds'
<1>1. PICK h \in Holding : hand' = [hand EXCEPT ![w] = h] /\ h.at = "FAILED" /\ h.note = hand[w].note BY HandleFailsIs
<1> QED BY <1>1, HandleFailsIs DEF ChatKinds

LEMMA FinishIs ==
    ASSUME ChatKinds, NEW w \in Hands, NEW more \in BOOLEAN, Finish(w, more)
    PROVE  \E n \in Notes, h \in Holding :
              /\ hand[w].at \in {"DONE", "FAILED"} /\ n = hand[w].note
              /\ shelf' = shelf \ {hand[w].media}
              /\ notes' = [notes EXCEPT ![n].status = hand[w].at, ![n].media = NoFile]
              /\ hand' = [hand EXCEPT ![w] = h] /\ h.at = "free" /\ (h = Free \/ h.row = hand[w].row) /\ h.media = NoFile
              /\ UNCHANGED <<awaits, goods, handled, handDeaths>>
<1>1. hand[w].at \in {"DONE", "FAILED"} BY DEF Finish
<1>2. hand[w] \in Holding BY DEF ChatKinds
<1>3. PICK n \in Notes : n = hand[w].note BY <1>1 DEF ChatKinds
<1>4. PICK h : h = IF more THEN [Free EXCEPT !.read = TRUE, !.row = hand[w].row] ELSE Free OBVIOUS
<1>5. h \in Holding /\ h.at = "free" /\ (h = Free \/ h.row = hand[w].row) /\ h.media = NoFile
  BY <1>2, <1>4, RowsAwaited DEF Holding, Free
<1>6. hand' = [hand EXCEPT ![w] = h] BY <1>4 DEF Finish
<1>7. /\ shelf' = shelf \ {hand[w].media}
      /\ notes' = [notes EXCEPT ![n].status = hand[w].at, ![n].media = NoFile]
      /\ UNCHANGED <<awaits, goods, handled, handDeaths>>
  BY <1>3 DEF Finish
<1> QED BY <1>1, <1>3, <1>5, <1>6, <1>7

LEMMA NoteClosed ==
    ASSUME NEW x \in Note, NEW st \in {"DONE", "FAILED"}
    PROVE  [x EXCEPT !.status = st, !.media = NoFile] \in Note /\ [x EXCEPT !.status = st, !.media = NoFile].status = st
BY DEF Note

LEMMA NoteAges ==
    ASSUME NEW x \in Note, NEW b \in BOOLEAN
    PROVE  [x EXCEPT !.late = b] \in Note /\ [x EXCEPT !.late = b].status = x.status
BY DEF Note

LEMMA FinishKinds == ASSUME ChatKinds, beside' \in BOOLEAN, NEW w \in Hands, NEW more \in BOOLEAN, Finish(w, more) PROVE ChatKinds'
<1>1. PICK n \in Notes, h \in Holding :
              /\ hand[w].at \in {"DONE", "FAILED"} /\ n = hand[w].note
              /\ shelf' = shelf \ {hand[w].media}
              /\ notes' = [notes EXCEPT ![n].status = hand[w].at, ![n].media = NoFile]
              /\ hand' = [hand EXCEPT ![w] = h] /\ h.at = "free" /\ (h = Free \/ h.row = hand[w].row) /\ h.media = NoFile
              /\ UNCHANGED <<awaits, goods, handled, handDeaths>>
  BY FinishIs
<1>2. notes' \in [Notes -> Note] /\ \A m \in Notes : notes[m].status # "NONE" => notes'[m].status # "NONE"
  <2>1. PICK st \in {"DONE", "FAILED"} : st = hand[w].at BY <1>1
  <2>2. PICK x \in Note : x = [notes[n] EXCEPT !.status = st, !.media = NoFile] /\ x.status = st BY NoteClosed DEF ChatKinds
  <2>3. notes' = [notes EXCEPT ![n] = x] BY <1>1, <2>1, <2>2 DEF ChatKinds
  <2> QED BY <2>2, <2>3 DEF ChatKinds
<1>3. \A v \in Hands : hand'[v].at # "free" => hand'[v].note \in Notes /\ notes'[hand'[v].note].status # "NONE"
  BY <1>1, <1>2 DEF ChatKinds
<1> QED BY <1>1, <1>2, <1>3 DEF ChatKinds

LEMMA HandDiesKinds == ASSUME ChatKinds, beside' \in BOOLEAN, NEW w \in Hands, HandDies(w) PROVE ChatKinds'
<1>1. Free \in Holding /\ Free.at = "free" BY RowsAwaited DEF Free
<1> QED BY <1>1 DEF ChatKinds, HandDies

\* The steps of the task of every minute, and time.
LEMMA MinuteKinds ==
    ASSUME ChatKinds, beside' \in BOOLEAN, TakeStoppedAgain \/ TenMinutesGo
    PROVE  ChatKinds'
<1>1. notes' \in [Notes -> Note] /\ \A m \in Notes : notes[m].status # "NONE" => notes'[m].status # "NONE"
  <2>1. CASE TakeStoppedAgain BY <2>1 DEF TakeStoppedAgain, ChatKinds, Note
  <2>2. CASE TenMinutesGo
    <3> DEFINE x(n) == [notes[n] EXCEPT !.late = notes[n].late \/ notes[n].status # "NONE"]
    <3>1. \A n \in Notes : x(n) \in Note /\ x(n).status = notes[n].status
      <4> SUFFICES ASSUME NEW n \in Notes PROVE x(n) \in Note /\ x(n).status = notes[n].status OBVIOUS
      <4>1. (notes[n].late \/ notes[n].status # "NONE") \in BOOLEAN /\ notes[n] \in Note BY DEF ChatKinds
      <4> QED BY <4>1, NoteAges
    <3>2. notes' = [n \in Notes |-> x(n)] BY <2>2 DEF TenMinutesGo
    <3> HIDE DEF x
    <3> QED BY <3>1, <3>2
  <2> QED BY <2>1, <2>2
<1> QED BY <1>1 DEF ChatKinds, TakeStoppedAgain, TenMinutesGo

LEMMA LapsedIs == ASSUME NEW row \in Awaited PROVE Lapsed(row) \in Awaited /\ ~Lapsed(row).fresh /\ (NothingElse(row) => NothingElse(Lapsed(row)))
<1>1. Lapsed(row) \in Awaited /\ ~Lapsed(row).fresh /\ Lapsed(row).kind = row.kind BY DEF Lapsed, Awaited
<1>2. row = Nothing => Lapsed(row) = Nothing
  <2>1. Lapsed(Nothing) \in Awaited /\ Nothing \in Awaited BY RowsAwaited DEF Lapsed, Awaited
  <2>2. /\ Lapsed(Nothing).kind = Nothing.kind /\ Lapsed(Nothing).file = Nothing.file /\ Lapsed(Nothing).named = Nothing.named
        /\ Lapsed(Nothing).fresh = Nothing.fresh /\ Lapsed(Nothing).aged = Nothing.aged
    BY DEF Lapsed, Nothing
  <2>3. Lapsed(Nothing) = Nothing BY <2>1, <2>2 DEF Awaited
  <2> QED BY <2>3
<1> QED BY <1>1, <1>2 DEF NothingElse

LEMMA AwaitingEndsKinds == ASSUME ChatKinds, beside' \in BOOLEAN, AwaitingEnds PROVE ChatKinds'
<1>1. awaits' \in Awaited BY LapsedIs DEF AwaitingEnds, ChatKinds
<1>2. \A w \in Hands : [hand[w] EXCEPT !.row = Lapsed(@)] \in Holding
  <2> SUFFICES ASSUME NEW w \in Hands PROVE [hand[w] EXCEPT !.row = Lapsed(@)] \in Holding OBVIOUS
  <2>1. hand[w] \in Holding BY DEF ChatKinds
  <2>2. Lapsed(hand[w].row) \in Awaited BY <2>1, LapsedIs DEF Holding
  <2> QED BY <2>1, <2>2 DEF Holding
<1>3. hand' \in [Hands -> Holding] BY <1>2 DEF AwaitingEnds
<1>4. \A w \in Hands : hand'[w].at = hand[w].at /\ hand'[w].note = hand[w].note BY DEF AwaitingEnds, ChatKinds, Holding
<1> QED BY <1>1, <1>3, <1>4 DEF ChatKinds, AwaitingEnds

LEMMA CleanStoreKinds == ASSUME ChatKinds, beside' \in BOOLEAN, CleanStore PROVE ChatKinds'
BY DEF ChatKinds, CleanStore

LEMMA ChatStepKinds == ASSUME ChatKinds, beside' \in BOOLEAN, ChatStep PROVE ChatKinds'
<1>1. CASE \E says \in {"nothing", "name", "both"} : Receive("photo", says) BY <1>1, ReceiveKinds DEF Says
<1>2. CASE \E says \in Says \ {"nothing"} : Receive("text", says) BY <1>2, ReceiveKinds
<1>3. CASE \E w \in Hands : \/ \E n \in Notes : Claim(w, n)
                            \/ \E yes \in BOOLEAN : Handle(w, yes) \/ HandleFails(w, yes) \/ Finish(w, yes)
                            \/ HandDies(w)
  BY <1>3, ClaimKinds, HandleKinds, HandleFailsKinds, FinishKinds, HandDiesKinds
<1>4. CASE TakeStoppedAgain \/ TenMinutesGo \/ AwaitingEnds \/ CleanStore
  BY <1>4, MinuteKinds, AwaitingEndsKinds, CleanStoreKinds
<1> QED BY <1>1, <1>2, <1>3, <1>4 DEF ChatStep

-----------------------------------------------------------------------------
(* A photo makes one product.                                              *)

LEMMA MadeStays ==
    ASSUME ChatKinds, MadeOnce, goods' = goods, shelf' \subseteq shelf,
           \A n \in Notes : notes[n].status # "NONE" => notes'[n].status # "NONE"
    PROVE  MadeOnce'
BY DEF MadeOnce

LEMMA ReceiveMade ==
    ASSUME ChatKinds, MadeOnce, NEW kind \in {"photo", "text"}, NEW says \in Says, Receive(kind, says)
    PROVE  MadeOnce'
<1>1. PICK n \in Notes, x \in Note :
              /\ notes[n].status = "NONE" /\ notes' = [notes EXCEPT ![n] = x]
              /\ x.status = "RECEIVED" /\ ~x.late /\ x.media \in {NoFile, n}
              /\ shelf' = IF x.media = n THEN shelf \cup {n} ELSE shelf
              /\ UNCHANGED <<awaits, goods, hand, handled, handDeaths>>
  BY ReceiveIs
<1> QED BY <1>1 DEF MadeOnce, ChatKinds

LEMMA HandleMade == ASSUME ChatKinds, MadeOnce, NEW w \in Hands, NEW room \in BOOLEAN, Handle(w, room) PROVE MadeOnce'
<1>1. PICK o \in HandledAs, h \in Holding, n \in Notes :
              /\ hand[w].at = "claimed" /\ n = hand[w].note
              /\ MadeOf(o, hand[w].row, hand[w].media) /\ AwaitedNext(o, hand[w].row, hand[w].media, notes[n].late)
              /\ shelf' = shelf \ o.gone
              /\ goods' = IF o.made = NoFile THEN goods ELSE [goods EXCEPT ![o.made] = @ + 1]
              /\ awaits' = IF o.writes THEN o.next ELSE awaits
              /\ notes' = [notes EXCEPT ![n].media = NoFile]
              /\ hand' = [hand EXCEPT ![w] = h] /\ h.at = "DONE" /\ h.note = n /\ h.row = o.next /\ h.media = NoFile
              /\ handled' = [handled EXCEPT ![n] = @ + 1]
              /\ handDeaths' = handDeaths
  BY HandleIs
<1>2. \A m \in Notes : notes'[m].status = notes[m].status BY <1>1 DEF ChatKinds, Note
<1>3. CASE o.made = NoFile BY <1>1, <1>2, <1>3 DEF MadeOnce
<1>4. CASE o.made # NoFile
  <2>1. o.made \in shelf /\ o.made \in o.gone /\ o.made \in Notes BY <1>1, <1>4 DEF MadeOf, ChatKinds
  <2>2. goods[o.made] = 0 BY <2>1 DEF MadeOnce
  <2>3. goods'[o.made] = 1 /\ \A m \in Notes \ {o.made} : goods'[m] = goods[m] BY <1>1, <1>4, <2>1, <2>2 DEF ChatKinds
  <2>4. notes[o.made].status # "NONE" BY <2>1 DEF MadeOnce
  <2> QED BY <1>1, <1>2, <2>1, <2>3, <2>4 DEF MadeOnce
<1> QED BY <1>3, <1>4

-----------------------------------------------------------------------------
(* In its first ten minutes a message is in one hand.                      *)

\* Nothing is claimed or handled through.
LEMMA HandsStay ==
    ASSUME ChatKinds, InOneHand, handled' = handled,
           \A n \in Notes : /\ notes[n].late => notes'[n].late
                            /\ notes'[n].status = "NONE" => notes[n].status = "NONE" /\ ~notes'[n].late
                            /\ ~notes'[n].late => notes'[n].status = notes[n].status,
           \A v \in Hands : /\ hand'[v].at # "free" => hand[v].at # "free" /\ hand'[v].note = hand[v].note
                            /\ hand'[v].at = "claimed" => hand[v].at = "claimed"
    PROVE  InOneHand'
BY DEF InOneHand, Holds

LEMMA ReceiveHands ==
    ASSUME ChatKinds, InOneHand, NEW kind \in {"photo", "text"}, NEW says \in Says, Receive(kind, says)
    PROVE  InOneHand'
<1>1. PICK n \in Notes, x \in Note :
              /\ notes[n].status = "NONE" /\ notes' = [notes EXCEPT ![n] = x]
              /\ x.status = "RECEIVED" /\ ~x.late /\ x.media \in {NoFile, n}
              /\ shelf' = IF x.media = n THEN shelf \cup {n} ELSE shelf
              /\ UNCHANGED <<awaits, goods, hand, handled, handDeaths>>
  BY ReceiveIs
<1>2. notes'[n] = x /\ \A m \in Notes \ {n} : notes'[m] = notes[m] BY <1>1 DEF ChatKinds
<1>3. handled[n] = 0 BY <1>1 DEF InOneHand
<1>4. \A v \in Hands : ~Holds(v, n) BY <1>1 DEF Holds, ChatKinds
<1> QED BY <1>1, <1>2, <1>3, <1>4 DEF InOneHand, Holds

LEMMA ClaimHands == ASSUME ChatKinds, InOneHand, NEW w \in Hands, NEW n \in Notes, Claim(w, n) PROVE InOneHand'
<1>1. hand[w].at = "free" /\ notes[n].status = "RECEIVED" /\ handled' = handled BY ClaimIs
<1>2. PICK h \in Holding : hand' = [hand EXCEPT ![w] = h] /\ h.at = "claimed" /\ h.note = n BY ClaimIs
<1>3. hand'[w] = h /\ \A v \in Hands \ {w} : hand'[v] = hand[v] BY <1>2 DEF ChatKinds
<1>4. /\ \A m \in Notes \ {n} : notes'[m] = notes[m]
      /\ notes'[n].late = notes[n].late /\ notes'[n].status = "WORKING"
  BY ClaimIs DEF ChatKinds, Note
<1>5. ~notes[n].late => handled[n] = 0 /\ \A v \in Hands : ~Holds(v, n) BY <1>1 DEF InOneHand
<1> QED BY <1>1, <1>2, <1>3, <1>4, <1>5 DEF InOneHand, Holds

LEMMA HandleHands == ASSUME ChatKinds, InOneHand, NEW w \in Hands, NEW room \in BOOLEAN, Handle(w, room) PROVE InOneHand'
<1>1. PICK o \in HandledAs, h \in Holding, n \in Notes :
              /\ hand[w].at = "claimed" /\ n = hand[w].note
              /\ MadeOf(o, hand[w].row, hand[w].media) /\ AwaitedNext(o, hand[w].row, hand[w].media, notes[n].late)
              /\ shelf' = shelf \ o.gone
              /\ goods' = IF o.made = NoFile THEN goods ELSE [goods EXCEPT ![o.made] = @ + 1]
              /\ awaits' = IF o.writes THEN o.next ELSE awaits
              /\ notes' = [notes EXCEPT ![n].media = NoFile]
              /\ hand' = [hand EXCEPT ![w] = h] /\ h.at = "DONE" /\ h.note = n /\ h.row = o.next /\ h.media = NoFile
              /\ handled' = [handled EXCEPT ![n] = @ + 1]
              /\ handDeaths' = handDeaths
  BY HandleIs
<1>2. hand'[w] = h /\ \A v \in Hands \ {w} : hand'[v] = hand[v] BY <1>1 DEF ChatKinds
<1>3. \A m \in Notes : notes'[m].late = notes[m].late /\ notes'[m].status = notes[m].status BY <1>1 DEF ChatKinds, Note
<1>4. handled'[n] = handled[n] + 1 /\ handled[n] \in Nat /\ \A m \in Notes \ {n} : handled'[m] = handled[m] BY <1>1 DEF ChatKinds
<1>5. Holds(w, n) /\ notes[n].status # "NONE" BY <1>1 DEF Holds, ChatKinds
<1>6. ~notes[n].late => /\ handled[n] = 0 /\ notes[n].status = "WORKING"
                        /\ \A v \in Hands : Holds(v, n) => v = w
  BY <1>1, <1>5 DEF InOneHand
<1>7. \A v \in Hands, m \in Notes : Holds(v, m)' <=> Holds(v, m) BY <1>1, <1>2 DEF Holds
<1>8. \A v \in Hands : hand'[v].at = "claimed" => v # w /\ hand[v].at = "claimed" BY <1>1, <1>2
<1>9. ASSUME NEW m \in Notes, ~notes'[m].late
      PROVE  /\ handled'[m] <= 1 /\ (notes'[m].status = "RECEIVED" => handled'[m] = 0)
             /\ \A v \in Hands : Holds(v, m)' => (/\ notes'[m].status = "WORKING"
                                                 /\ (hand'[v].at = "claimed" => handled'[m] = 0))
             /\ \A u, v \in Hands : Holds(u, m)' /\ Holds(v, m)' => u = v
  <2>1. CASE m = n
    <3>1. handled'[m] = 1 /\ notes'[m].status = "WORKING" BY <2>1, <1>3, <1>4, <1>6, <1>9
    <3>2. \A v \in Hands : Holds(v, m)' => v = w BY <2>1, <1>3, <1>6, <1>7, <1>9
    <3> QED BY <3>1, <3>2, <1>8
  <2>2. CASE m # n BY <2>2, <1>3, <1>4, <1>7, <1>8, <1>9 DEF InOneHand
  <2> QED BY <2>1, <2>2
<1> QED BY <1>3, <1>4, <1>5, <1>9 DEF InOneHand

LEMMA FinishHands == ASSUME ChatKinds, InOneHand, NEW w \in Hands, NEW more \in BOOLEAN, Finish(w, more) PROVE InOneHand'
<1>1. PICK n \in Notes, h \in Holding :
              /\ hand[w].at \in {"DONE", "FAILED"} /\ n = hand[w].note
              /\ shelf' = shelf \ {hand[w].media}
              /\ notes' = [notes EXCEPT ![n].status = hand[w].at, ![n].media = NoFile]
              /\ hand' = [hand EXCEPT ![w] = h] /\ h.at = "free" /\ (h = Free \/ h.row = hand[w].row) /\ h.media = NoFile
              /\ UNCHANGED <<awaits, goods, handled, handDeaths>>
  BY FinishIs
<1>2. hand'[w] = h /\ \A v \in Hands \ {w} : hand'[v] = hand[v] BY <1>1 DEF ChatKinds
<1>3. /\ \A m \in Notes \ {n} : notes'[m] = notes[m]
      /\ notes'[n].late = notes[n].late /\ notes'[n].status = hand[w].at
  BY <1>1 DEF ChatKinds, Note
<1>4. ~notes[n].late => handled[n] <= 1 /\ \A v \in Hands : Holds(v, n) => v = w BY <1>1 DEF InOneHand, Holds
<1>5. \A v \in Hands, m \in Notes : Holds(v, m)' => v # w /\ Holds(v, m) /\ hand'[v] = hand[v] BY <1>1, <1>2 DEF Holds
<1>6. handled' = handled /\ notes'[n].status \notin {"NONE", "RECEIVED"} BY <1>1, <1>3
<1>7. ASSUME NEW m \in Notes, ~notes'[m].late
      PROVE  /\ handled'[m] <= 1 /\ (notes'[m].status = "RECEIVED" => handled'[m] = 0)
             /\ \A v \in Hands : Holds(v, m)' => (/\ notes'[m].status = "WORKING"
                                                 /\ (hand'[v].at = "claimed" => handled'[m] = 0))
             /\ \A u, v \in Hands : Holds(u, m)' /\ Holds(v, m)' => u = v
  <2>1. CASE m = n BY <2>1, <1>3, <1>4, <1>5, <1>6, <1>7
  <2>2. CASE m # n BY <2>2, <1>3, <1>5, <1>6, <1>7 DEF InOneHand
  <2> QED BY <2>1, <2>2
<1> QED BY <1>3, <1>6, <1>7 DEF InOneHand

LEMMA MinuteHands == ASSUME ChatKinds, InOneHand, TakeStoppedAgain \/ TenMinutesGo PROVE InOneHand'
<1>1. CASE TakeStoppedAgain
  <2>1. \A n \in Notes : /\ notes'[n].late = notes[n].late /\ (~notes[n].late => notes'[n].status = notes[n].status)
                         /\ notes'[n].status = "NONE" => notes[n].status = "NONE"
    BY <1>1 DEF TakeStoppedAgain, Stopped, ChatKinds, Note
  <2> QED BY <1>1, <2>1, HandsStay DEF TakeStoppedAgain, InOneHand
<1>2. CASE TenMinutesGo
  <2>1. \A n \in Notes : /\ notes'[n].late <=> (notes[n].late \/ notes[n].status # "NONE")
                         /\ notes'[n].status = notes[n].status
    BY <1>2 DEF TenMinutesGo, ChatKinds, Note
  <2> QED BY <1>2, <2>1, HandsStay DEF TenMinutesGo, InOneHand
<1> QED BY <1>1, <1>2

-----------------------------------------------------------------------------
(* Both, at each step.                                                     *)

LEMMA ChatStepOnce == ASSUME ChatKinds, MadeOnce, InOneHand, ChatStep PROVE MadeOnce' /\ InOneHand'
<1>1. ASSUME NEW kind \in {"photo", "text"}, NEW says \in Says, Receive(kind, says) PROVE MadeOnce' /\ InOneHand'
  BY <1>1, ReceiveMade, ReceiveHands
<1>2. ASSUME NEW w \in Hands, NEW n \in Notes, Claim(w, n) PROVE MadeOnce' /\ InOneHand'
  <2>1. goods' = goods /\ shelf' = shelf /\ \A m \in Notes : notes[m].status # "NONE" => notes'[m].status # "NONE"
    BY <1>2, ClaimIs DEF ChatKinds, Note
  <2> QED BY <2>1, <1>2, MadeStays, ClaimHands
<1>3. ASSUME NEW w \in Hands, NEW room \in BOOLEAN, Handle(w, room) PROVE MadeOnce' /\ InOneHand'
  BY <1>3, HandleMade, HandleHands
<1>4. ASSUME NEW w \in Hands, NEW room \in BOOLEAN, HandleFails(w, room) PROVE MadeOnce' /\ InOneHand'
  <2>1. hand[w].at = "claimed" /\ shelf' \subseteq shelf /\ UNCHANGED <<notes, goods, handled>> BY <1>4, HandleFailsIs
  <2>2. PICK h \in Holding : hand' = [hand EXCEPT ![w] = h] /\ h.at = "FAILED" /\ h.note = hand[w].note BY <1>4, HandleFailsIs
  <2>3. \A v \in Hands : /\ hand'[v].at # "free" => hand[v].at # "free" /\ hand'[v].note = hand[v].note
                         /\ hand'[v].at = "claimed" => hand[v].at = "claimed"
    BY <2>1, <2>2 DEF ChatKinds
  <2> QED BY <2>1, <2>3, MadeStays, HandsStay DEF InOneHand
<1>5. ASSUME NEW w \in Hands, NEW more \in BOOLEAN, Finish(w, more) PROVE MadeOnce' /\ InOneHand'
  <2>1. PICK n \in Notes, h \in Holding :
              /\ hand[w].at \in {"DONE", "FAILED"} /\ n = hand[w].note
              /\ shelf' = shelf \ {hand[w].media}
              /\ notes' = [notes EXCEPT ![n].status = hand[w].at, ![n].media = NoFile]
              /\ hand' = [hand EXCEPT ![w] = h] /\ h.at = "free" /\ (h = Free \/ h.row = hand[w].row) /\ h.media = NoFile
              /\ UNCHANGED <<awaits, goods, handled, handDeaths>>
    BY <1>5, FinishIs
  <2>2. \A m \in Notes : notes[m].status # "NONE" => notes'[m].status # "NONE" BY <2>1 DEF ChatKinds, Note
  <2> QED BY <2>1, <2>2, <1>5, MadeStays, FinishHands
<1>6. ASSUME NEW w \in Hands, HandDies(w) PROVE MadeOnce' /\ InOneHand'
  <2>1. UNCHANGED <<notes, shelf, goods, handled>> /\ hand' = [hand EXCEPT ![w] = Free] /\ Free.at = "free" BY <1>6 DEF HandDies, Free
  <2>2. \A v \in Hands : /\ hand'[v].at # "free" => hand[v].at # "free" /\ hand'[v].note = hand[v].note
                         /\ hand'[v].at = "claimed" => hand[v].at = "claimed"
    BY <2>1 DEF ChatKinds
  <2> QED BY <2>1, <2>2, MadeStays, HandsStay DEF InOneHand
<1>7. CASE TakeStoppedAgain \/ TenMinutesGo
  <2>1. UNCHANGED <<shelf, goods>> BY <1>7 DEF TakeStoppedAgain, TenMinutesGo
  <2>2. \A m \in Notes : notes[m].status # "NONE" => notes'[m].status # "NONE"
    BY <1>7 DEF TakeStoppedAgain, TenMinutesGo, ChatKinds, Note
  <2> QED BY <2>1, <2>2, <1>7, MadeStays, MinuteHands
<1>8. CASE AwaitingEnds
  <2>1. UNCHANGED <<notes, shelf, goods, handled>> BY <1>8 DEF AwaitingEnds
  <2>2. \A w \in Hands : hand'[w].at = hand[w].at /\ hand'[w].note = hand[w].note BY <1>8 DEF AwaitingEnds, ChatKinds, Holding
  <2> QED BY <2>1, <2>2, MadeStays, HandsStay DEF InOneHand
<1>9. CASE CleanStore
  <2>1. UNCHANGED <<notes, goods, handled, hand>> /\ shelf' \subseteq shelf BY <1>9 DEF CleanStore
  <2> QED BY <2>1, MadeStays, HandsStay DEF InOneHand
<1> QED BY <1>1, <1>2, <1>3, <1>4, <1>5, <1>6, <1>7, <1>8, <1>9 DEF ChatStep, Says

-----------------------------------------------------------------------------
(* As long as one process works at a time and none fails.                  *)

Alone == ~beside /\ handDeaths = 0

LEMMA FreeIs == Free.at = "free" /\ Free.read = FALSE /\ Free.row = Nothing /\ Free.media = NoFile
BY DEF Free

LEMMA OthersFree ==
    ASSUME ChatKinds, ~TwoHands, NEW w \in Hands, hand[w].at # "free"
    PROVE  \A v \in Hands \ {w} : hand[v] = Free
BY FreeIs DEF TwoHands

\* The hands and the row stay; the messages keep what they hold, but for those that come.
LEMMA PhotosStay ==
    ASSUME ChatKinds, Alone, RowIsTrue, PhotosKept, awaits' = awaits, shelf \subseteq shelf',
           \A n \in Notes : /\ notes'[n].status = "NONE" => notes[n].status = "NONE"
                            /\ notes[n].late => notes'[n].late
                            /\ \/ notes'[n].media \in {NoFile, notes[n].media}
                               \/ notes'[n].media = n /\ n \in shelf' /\ notes[n].status = "NONE"
    PROVE  PhotosKept'
<1>1. \A n \in Notes : notes'[n].media # NoFile => /\ notes'[n].media = n /\ awaits'.file # n
                                                   /\ n \in shelf' \/ notes'[n].late
  BY DEF PhotosKept
<1>2. \A n \in Notes : notes'[n].status = "NONE" => awaits'.file # n BY DEF PhotosKept
<1>3. AwaitedPhotoIsThere' BY DEF PhotosKept, AwaitedPhotoIsThere, Alone, KeptFile
<1> QED BY <1>1, <1>2, <1>3 DEF PhotosKept

LEMMA ReceiveAlone ==
    ASSUME ChatKinds, Alone, RowIsTrue, PhotosKept, NEW kind \in {"photo", "text"}, NEW says \in Says, Receive(kind, says)
    PROVE  RowIsTrue' /\ PhotosKept'
<1>1. PICK n \in Notes, x \in Note :
              /\ notes[n].status = "NONE" /\ notes' = [notes EXCEPT ![n] = x]
              /\ x.status = "RECEIVED" /\ ~x.late /\ x.media \in {NoFile, n}
              /\ shelf' = IF x.media = n THEN shelf \cup {n} ELSE shelf
              /\ UNCHANGED <<awaits, goods, hand, handled, handDeaths>>
  BY ReceiveIs
<1>2. notes'[n] = x /\ \A m \in Notes \ {n} : notes'[m] = notes[m] BY <1>1 DEF ChatKinds
<1>3. \A w \in Hands : hand[w].at = "claimed" => hand[w].note \in Notes \ {n} BY <1>1 DEF ChatKinds
<1>4. RowIsTrue' BY <1>1, <1>2, <1>3 DEF RowIsTrue
<1>5. ASSUME NEW m \in Notes
      PROVE  /\ notes'[m].media # NoFile => /\ notes'[m].media = m /\ awaits'.file # m
                                            /\ m \in shelf' \/ notes'[m].late
             /\ notes'[m].status = "NONE" => awaits'.file # m
  BY <1>1, <1>2 DEF PhotosKept
<1>6. AwaitedPhotoIsThere' BY <1>1 DEF PhotosKept, AwaitedPhotoIsThere, Alone, KeptFile
<1> QED BY <1>4, <1>5, <1>6 DEF PhotosKept

LEMMA ClaimAlone ==
    ASSUME ChatKinds, Alone, RowIsTrue, PhotosKept, NEW w \in Hands, NEW n \in Notes, Claim(w, n)
    PROVE  RowIsTrue' /\ PhotosKept'
<1>1. /\ hand[w].at = "free" /\ notes[n].status = "RECEIVED"
      /\ UNCHANGED <<awaits, shelf, goods, handled, handDeaths>>
  BY ClaimIs
<1>2. PICK h \in Holding : /\ hand' = [hand EXCEPT ![w] = h]
                           /\ h.at = "claimed" /\ h.note = n /\ h.media = notes[n].media
                           /\ h.row = IF hand[w].read THEN hand[w].row ELSE awaits
  BY ClaimIs
<1>3. \A m \in Notes : /\ notes'[m].media = notes[m].media /\ notes'[m].late = notes[m].late
                       /\ notes'[m].status = "NONE" => notes[m].status = "NONE"
  BY ClaimIs DEF ChatKinds, Note
<1>4. h.row = awaits BY <1>2, FreeIs DEF RowIsTrue
<1>5. hand'[w] = h /\ \A v \in Hands \ {w} : hand'[v] = hand[v] BY <1>2 DEF ChatKinds
<1>6. \A v \in Hands : hand[v].at = "claimed" => hand[v].note \in Notes BY DEF ChatKinds
<1>7. RowIsTrue' BY <1>1, <1>2, <1>3, <1>4, <1>5, <1>6 DEF RowIsTrue
<1>8. PhotosKept' BY <1>1, <1>3, PhotosStay
<1> QED BY <1>7, <1>8

LEMMA HandleAlone ==
    ASSUME ChatKinds, Alone, ~TwoHands, RowIsTrue, PhotosKept, NEW w \in Hands, NEW room \in BOOLEAN, Handle(w, room)
    PROVE  RowIsTrue' /\ PhotosKept'
<1>1. PICK o \in HandledAs, h \in Holding, n \in Notes :
              /\ hand[w].at = "claimed" /\ n = hand[w].note
              /\ MadeOf(o, hand[w].row, hand[w].media) /\ AwaitedNext(o, hand[w].row, hand[w].media, notes[n].late)
              /\ shelf' = shelf \ o.gone
              /\ goods' = IF o.made = NoFile THEN goods ELSE [goods EXCEPT ![o.made] = @ + 1]
              /\ awaits' = IF o.writes THEN o.next ELSE awaits
              /\ notes' = [notes EXCEPT ![n].media = NoFile]
              /\ hand' = [hand EXCEPT ![w] = h] /\ h.at = "DONE" /\ h.note = n /\ h.row = o.next /\ h.media = NoFile
              /\ handled' = [handled EXCEPT ![n] = @ + 1]
              /\ handDeaths' = handDeaths
  BY HandleIs
<1>2. hand[w].row = awaits /\ hand[w].media = notes[n].media BY <1>1, FreeIs DEF RowIsTrue
<1>3. PICK late \in BOOLEAN : late = notes[n].late BY <1>1 DEF ChatKinds, Note
<1>4. PICK media : media = notes[n].media OBVIOUS
<1>5. media \in {NoFile, n} /\ (media # NoFile => awaits.file # n /\ (n \in shelf \/ late))
  BY <1>3, <1>4 DEF PhotosKept
<1>6. awaits' = o.next /\ NothingElse(awaits') BY <1>1, <1>2 DEF AwaitedNext, RowIsTrue
<1>7. hand'[w] = h /\ \A v \in Hands \ {w} : hand'[v] = Free BY <1>1, OthersFree DEF ChatKinds
<1>8. RowIsTrue' BY <1>1, <1>6, <1>7, FreeIs DEF RowIsTrue
<1>9. /\ \A m \in Notes : notes'[m].late = notes[m].late /\ notes'[m].status = notes[m].status
      /\ notes'[n].media = NoFile /\ \A m \in Notes \ {n} : notes'[m].media = notes[m].media
      /\ notes[n].status # "NONE"
  BY <1>1 DEF ChatKinds, Note
<1>10. o.gone \subseteq {awaits.file, media, NoFile} /\ o.next.file \in {awaits.file, media, NoFile}
  BY <1>1, <1>2, <1>4 DEF MadeOf
<1>11. \A m \in Notes : m # NoFile BY DEF Notes, NoFile
<1>12. \A m \in Notes \ {n} : awaits.file # m => o.next.file # m /\ m \notin o.gone BY <1>5, <1>10, <1>11
<1>13. \A m \in Notes : notes'[m].media # NoFile => /\ notes'[m].media = m /\ awaits'.file # m
                                                    /\ m \in shelf' \/ notes'[m].late
  BY <1>1, <1>6, <1>9, <1>12 DEF PhotosKept
<1>14. \A m \in Notes : notes'[m].status = "NONE" => awaits'.file # m BY <1>6, <1>9, <1>12 DEF PhotosKept
<1>15. KeptFile(awaits) # NoFile /\ ~awaits.aged => KeptFile(awaits) \in shelf
  BY DEF PhotosKept, AwaitedPhotoIsThere, Alone
<1>16. AwaitedNext(o, awaits, media, late) BY <1>1, <1>2, <1>3, <1>4
<1>17. KeptFile(o.next) # NoFile /\ ~o.next.aged => KeptFile(o.next) \in shelf'
  <2> SUFFICES ASSUME KeptFile(o.next) # NoFile, ~o.next.aged PROVE KeptFile(o.next) \in shelf' OBVIOUS
  <2>1. CASE o.next = awaits /\ o.gone = {} BY <2>1, <1>1, <1>15
  <2>2. CASE KeptFile(o.next) = media /\ ~late /\ media \notin o.gone BY <2>2, <1>1, <1>5
  <2> QED BY <2>1, <2>2, <1>16 DEF AwaitedNext
<1>18. AwaitedPhotoIsThere' BY <1>6, <1>17 DEF AwaitedPhotoIsThere, KeptFile
<1> QED BY <1>8, <1>13, <1>14, <1>18 DEF PhotosKept

LEMMA FinishAlone ==
    ASSUME ChatKinds, Alone, ~TwoHands, RowIsTrue, PhotosKept, NEW w \in Hands, NEW more \in BOOLEAN, Finish(w, more)
    PROVE  RowIsTrue' /\ PhotosKept'
<1>1. PICK n \in Notes, h \in Holding :
              /\ hand[w].at \in {"DONE", "FAILED"} /\ n = hand[w].note
              /\ shelf' = shelf \ {hand[w].media}
              /\ notes' = [notes EXCEPT ![n].status = hand[w].at, ![n].media = NoFile]
              /\ hand' = [hand EXCEPT ![w] = h] /\ h.at = "free" /\ (h = Free \/ h.row = hand[w].row) /\ h.media = NoFile
              /\ UNCHANGED <<awaits, goods, handled, handDeaths>>
  BY FinishIs
<1>2. hand[w].at = "DONE" /\ hand[w].media = NoFile /\ hand[w].row = awaits BY <1>1, FreeIs DEF RowIsTrue
<1>3. hand'[w] = h /\ \A v \in Hands \ {w} : hand'[v] = Free BY <1>1, OthersFree DEF ChatKinds
<1>4. RowIsTrue' BY <1>1, <1>2, <1>3, FreeIs DEF RowIsTrue
<1>5. shelf' = shelf BY <1>1, <1>2 DEF ChatKinds, Notes, NoFile
<1>6. \A m \in Notes : /\ notes'[m].media \in {NoFile, notes[m].media} /\ notes'[m].late = notes[m].late
                       /\ notes'[m].status = "NONE" => notes[m].status = "NONE"
  BY <1>1, <1>2 DEF ChatKinds, Note
<1> QED BY <1>1, <1>4, <1>5, <1>6, PhotosStay

LEMMA MinuteAlone ==
    ASSUME ChatKinds, Alone, RowIsTrue, PhotosKept, TakeStoppedAgain \/ TenMinutesGo
    PROVE  RowIsTrue' /\ PhotosKept'
<1>1. UNCHANGED <<awaits, shelf, goods, hand, handled, handDeaths>> BY DEF TakeStoppedAgain, TenMinutesGo
<1>2. \A m \in Notes : /\ notes'[m].media = notes[m].media /\ (notes[m].late => notes'[m].late)
                       /\ notes'[m].status = "NONE" => notes[m].status = "NONE"
  BY DEF TakeStoppedAgain, TenMinutesGo, ChatKinds, Note
<1>3. RowIsTrue' BY <1>1, <1>2 DEF RowIsTrue, ChatKinds
<1> QED BY <1>1, <1>2, <1>3, PhotosStay

LEMMA AwaitingEndsAlone == ASSUME ChatKinds, Alone, RowIsTrue, PhotosKept, AwaitingEnds PROVE RowIsTrue' /\ PhotosKept'
<1>1. awaits' = Lapsed(awaits) /\ UNCHANGED <<notes, shelf, handDeaths>> BY DEF AwaitingEnds
<1>2. awaits \in Awaited BY DEF ChatKinds
<1>3. awaits' \in Awaited /\ ~awaits'.fresh /\ NothingElse(awaits') BY <1>1, <1>2, LapsedIs DEF RowIsTrue
<1>4. awaits'.file = awaits.file BY <1>1, <1>2 DEF Lapsed, Awaited
<1>5. ASSUME NEW w \in Hands
      PROVE  /\ hand'[w] # Free => hand'[w].row = awaits'
             /\ hand'[w].at = hand[w].at /\ hand'[w].media = hand[w].media /\ hand'[w].note = hand[w].note
  <2>1. hand[w] \in Holding BY DEF ChatKinds
  <2>2. hand'[w] = [hand[w] EXCEPT !.row = Lapsed(hand[w].row)] BY DEF AwaitingEnds
  <2>3. /\ hand'[w].row = Lapsed(hand[w].row) /\ hand'[w].at = hand[w].at
        /\ hand'[w].media = hand[w].media /\ hand'[w].note = hand[w].note
    BY <2>1, <2>2 DEF Holding
  <2>4. CASE hand[w] # Free BY <2>3, <2>4, <1>1 DEF RowIsTrue
  <2>5. CASE hand[w] = Free
    <3>1. Lapsed(Nothing) = Nothing BY LapsedIs, RowsAwaited DEF NothingElse, Lapsed, Nothing
    <3>2. hand'[w] = Free BY <2>2, <2>5, <3>1, FreeIs DEF Free
    <3> QED BY <3>2, <2>3
  <2> QED BY <2>3, <2>4, <2>5
<1>6. RowIsTrue' BY <1>1, <1>3, <1>5 DEF RowIsTrue
<1>7. AwaitedPhotoIsThere' BY <1>3 DEF AwaitedPhotoIsThere, KeptFile
<1> QED BY <1>1, <1>4, <1>6, <1>7 DEF PhotosKept

LEMMA CleanStoreAlone == ASSUME ChatKinds, Alone, RowIsTrue, PhotosKept, CleanStore PROVE RowIsTrue' /\ PhotosKept'
<1>1. UNCHANGED <<notes, awaits, goods, hand, handled, handDeaths>> BY DEF CleanStore
<1>2. PICK f \in shelf : notes[f].late /\ (KeptFile(awaits) = f => awaits.aged) /\ shelf' = shelf \ {f} BY DEF CleanStore
<1>3. RowIsTrue' BY <1>1 DEF RowIsTrue
<1>4. AwaitedPhotoIsThere' BY <1>1, <1>2 DEF PhotosKept, AwaitedPhotoIsThere, Alone, KeptFile
<1> QED BY <1>1, <1>2, <1>3, <1>4 DEF PhotosKept

-----------------------------------------------------------------------------
(* The whole.                                                              *)

LEMMA ChatStepAlone ==
    ASSUME ChatKinds, Alone, ~TwoHands, RowIsTrue, PhotosKept, ChatStep, handDeaths' = 0
    PROVE  RowIsTrue' /\ PhotosKept'
<1>1. CASE \E says \in {"nothing", "name", "both"} : Receive("photo", says) BY <1>1, ReceiveAlone DEF Says
<1>2. CASE \E says \in Says \ {"nothing"} : Receive("text", says) BY <1>2, ReceiveAlone
<1>3. CASE \E w \in Hands, n \in Notes : Claim(w, n) BY <1>3, ClaimAlone
<1>4. CASE \E w \in Hands, yes \in BOOLEAN : Handle(w, yes) \/ Finish(w, yes) BY <1>4, HandleAlone, FinishAlone
<1>5. ~ \E w \in Hands : HandDies(w) \/ \E yes \in BOOLEAN : HandleFails(w, yes)
  BY HandleFailsIs DEF HandDies, Alone
<1>6. CASE TakeStoppedAgain \/ TenMinutesGo \/ AwaitingEnds \/ CleanStore
  BY <1>6, MinuteAlone, AwaitingEndsAlone, CleanStoreAlone
<1> QED BY <1>1, <1>2, <1>3, <1>4, <1>5, <1>6 DEF ChatStep

LEMMA ChatDeathsCount == ASSUME ChatKinds, ChatStep, handDeaths > 0 PROVE handDeaths' > 0
<1>1. \A w \in Hands, n \in Notes : Claim(w, n) => handDeaths' = handDeaths BY DEF Claim
<1>2. \A w \in Hands, yes \in BOOLEAN :
        /\ Handle(w, yes) \/ Finish(w, yes) => handDeaths' = handDeaths
        /\ HandleFails(w, yes) => handDeaths' = handDeaths + 1
  BY DEF Handle, Finish, HandleFails
<1>3. \A w \in Hands : HandDies(w) => handDeaths' = handDeaths + 1 BY DEF HandDies
<1>4. \A k \in {"photo", "text"}, s \in Says : Receive(k, s) => handDeaths' = handDeaths BY DEF Receive
<1>5. TakeStoppedAgain \/ TenMinutesGo \/ AwaitingEnds \/ CleanStore => handDeaths' = handDeaths
  BY DEF TakeStoppedAgain, TenMinutesGo, AwaitingEnds, CleanStore
<1>6. handDeaths \in Nat BY DEF ChatKinds
<1>7. handDeaths' = handDeaths \/ handDeaths' = handDeaths + 1
  BY <1>1, <1>2, <1>3, <1>4, <1>5 DEF ChatStep, Says
<1> QED BY <1>6, <1>7

LEMMA ChatInitInv == ChatInit => ChatInv
<1> SUFFICES ASSUME ChatInit PROVE ChatInv OBVIOUS
<1>1. NoNote \in Note /\ NoNote.status = "NONE" /\ NoNote.media = NoFile /\ NoNote.late = FALSE BY DEF NoNote, Note, Says
<1>2. \A n \in Notes : notes[n] = NoNote /\ handled[n] = 0 /\ goods[n] = 0 BY DEF ChatInit
<1>3. \A w \in Hands : hand[w] = Free BY DEF ChatInit
<1>4. ChatKinds BY <1>1, <1>3, FreeIs, RowsAwaited DEF ChatInit, ChatKinds
<1>5. MadeOnce BY <1>1, <1>2 DEF MadeOnce, ChatInit
<1>6. InOneHand BY <1>1, <1>2, <1>3, FreeIs DEF InOneHand, Holds
<1>7. ~TwoHands BY <1>3 DEF TwoHands
<1>8. awaits = Nothing /\ Nothing.file = NoFile /\ Nothing.fresh = FALSE BY DEF ChatInit, Nothing
<1>9. RowIsTrue BY <1>3, <1>8, FreeIs DEF RowIsTrue, NothingElse
<1>10. \A n \in Notes : n # NoFile BY DEF Notes, NoFile
<1>11. PhotosKept BY <1>1, <1>2, <1>8, <1>10 DEF PhotosKept, AwaitedPhotoIsThere, KeptFile
<1> QED BY <1>4, <1>5, <1>6, <1>7, <1>9, <1>11 DEF ChatInv

LEMMA ChatNextInv == ASSUME ChatInv, ChatNext PROVE ChatInv'
<1>1. ChatStep /\ beside' = (beside \/ TwoHands') BY DEF ChatNext
<1>2. beside' \in BOOLEAN BY <1>1 DEF TwoHands
<1>3. ChatKinds' BY <1>1, <1>2, ChatStepKinds DEF ChatInv
<1>4. MadeOnce' /\ InOneHand' BY <1>1, ChatStepOnce DEF ChatInv
<1>5. beside' \/ (handDeaths > 0)' \/ (~TwoHands' /\ RowIsTrue' /\ PhotosKept')
  <2> SUFFICES ASSUME ~beside', ~(handDeaths > 0)' PROVE ~TwoHands' /\ RowIsTrue' /\ PhotosKept' OBVIOUS
  <2>1. ~beside /\ ~TwoHands' BY <1>1
  <2>2. ~(handDeaths > 0) BY <1>1, ChatDeathsCount DEF ChatInv
  <2>3. handDeaths = 0 /\ handDeaths' = 0 BY <2>2, <1>3 DEF ChatInv, ChatKinds
  <2>4. Alone /\ ~TwoHands /\ RowIsTrue /\ PhotosKept BY <2>1, <2>2, <2>3 DEF ChatInv, Alone
  <2> QED BY <1>1, <2>1, <2>3, <2>4, ChatStepAlone DEF ChatInv
<1> QED BY <1>3, <1>4, <1>5 DEF ChatInv

LEMMA ChatStutters == ASSUME ChatInv, UNCHANGED chatVars PROVE ChatInv'
<1> USE DEF chatVars
<1>1. ChatKinds' /\ MadeOnce' BY DEF ChatInv, ChatKinds, MadeOnce
<1>2. InOneHand' BY DEF ChatInv, InOneHand, Holds
<1>3. TwoHands' = TwoHands /\ RowIsTrue' = RowIsTrue BY DEF TwoHands, RowIsTrue, NothingElse
<1>4. PhotosKept' = PhotosKept BY DEF PhotosKept, AwaitedPhotoIsThere, KeptFile
<1> QED BY <1>1, <1>2, <1>3, <1>4 DEF ChatInv

LEMMA ChatInvHolds == ChatSpec => []ChatInv
<1>1. ChatInv /\ [ChatNext]_chatVars => ChatInv' BY ChatNextInv, ChatStutters
<1> QED BY <1>1, ChatInitInv, PTL DEF ChatSpec

\* The state of the merchant's chat is of its types.
THEOREM ChatTypeCorrect == ChatSpec => []ChatTypeOK
<1>1. ChatInv => ChatTypeOK BY DEF ChatInv, ChatKinds, ChatTypeOK, Holding
<1> QED BY <1>1, ChatInvHolds, PTL

\* A photo makes one product at most, a message done with within ten minutes
\* is handled through once, whatever the processes do and however they fail;
\* and as long as one works at a time and none fails, the photo Bob asks about
\* is there.
THEOREM ChatHolds == ChatSpec => []ChatRight
<1>1. ChatInv => ChatRight
  <2> SUFFICES ASSUME ChatInv PROVE ChatRight OBVIOUS
  <2>1. OnePhotoOneProduct BY DEF ChatInv, MadeOnce, OnePhotoOneProduct
  <2>2. HandledOnceInTime BY DEF ChatInv, InOneHand, HandledOnceInTime
  <2>3. AwaitedPhotoIsThere
    <3>1. CASE beside \/ handDeaths > 0 BY <3>1 DEF AwaitedPhotoIsThere
    <3>2. CASE PhotosKept BY <3>2 DEF PhotosKept
    <3> QED BY <3>1, <3>2 DEF ChatInv
  <2> QED BY <2>1, <2>2, <2>3 DEF ChatRight
<1> QED BY <1>1, ChatInvHolds, PTL

-----------------------------------------------------------------------------
(* The requests by email: the inductive invariant.                         *)

Stages == {"rest", "reading", "looking up", "storing", "drafting", "sending", "sent", "failed"}
Job    == [at : Stages, todo : SUBSET Nat, cursor : Nat, email : Nat, row : Row, of : Requests \cup {"none"}, lets : BOOLEAN]
Mail   == [of : Requests, kind : Kinds]

\* A job about a request has one, a job that reads has emails to read.
AboutOne(j) ==
    /\ j.at \notin {"rest", "reading"} => j.of \in Requests
    /\ j.todo \subseteq DOMAIN box
    /\ j.at = "looking up" => j.email \in DOMAIN box
    /\ j.at = "storing" => j.row.status \in {"DRAFT", "TO_HANDLE"}

LeadKinds ==
    /\ box \in Seq(Mail) /\ cursor \in 0..Len(box) /\ lead \in [Requests -> Row] /\ automatic \in BOOLEAN
    /\ work \in [Workers -> Job] /\ \A w \in Workers : AboutOne(work[w])
    /\ answered \in [Requests -> Nat] /\ drafts \in [Requests -> Nat] /\ thisHour \in SUBSET Requests
    /\ leadDeaths \in 0..LeadDeaths /\ crowded \in BOOLEAN

\* What is drafted has its row, and each request in the hands of a run of the
\* task has no draft yet, and is in the hands of one.
OnceDrafted ==
    /\ \A r \in Requests : drafts[r] <= 1 /\ (lead[r].status = "ABSENT" => drafts[r] = 0)
    /\ \A w \in Workers : Does(w, "drafting") => drafts[work[w].of] = 0
    /\ \A w \in Workers : work[w].at \in {"drafting", "sending", "sent", "failed"} => lead[work[w].of].status # "ABSENT"
    /\ \A v, w \in Workers : v # w /\ Does(v, "drafting") /\ Does(w, "drafting") => work[v].of # work[w].of

\* The requests Bob drafted for or is drafting for, tests aside.
Drafted == {r \in Requests : ~lead[r].test /\ (drafts[r] > 0 \/ \E w \in Workers : Does(w, "drafting") /\ work[w].of = r)}

\* One works: the place it found in the month is still there.
MonthHolds ==
    /\ Cardinality(Drafted) <= MonthLimit
    /\ \A w \in Workers : Does(w, "storing") /\ work[w].row.status = "DRAFT" /\ ~work[w].row.test =>
          Cardinality(ThisMonth) < MonthLimit

\* One works: what it sends was not sent, and there is room for it in the hour.
Going(r) == lead[r].status = "SENT" \/ \E w \in Workers : Does(w, "sent") /\ work[w].of = r

AnswersHold ==
    /\ \A r \in Requests : answered[r] <= leadDeaths + (IF Going(r) THEN 1 ELSE 0)
    /\ \A w \in Workers : work[w].at \in {"drafting", "sending", "sent", "failed"} => lead[work[w].of].status # "SENT"
    /\ \A w \in Workers : Does(w, "sent") => Cardinality(thisHour \cup {work[w].of}) <= HourLimit
    /\ Cardinality(thisHour) <= HourLimit

LeadsInv == LeadKinds /\ OnceDrafted /\ (crowded \/ (~TwoBusy /\ MonthHolds /\ AnswersHold))

-----------------------------------------------------------------------------
(* What every step leaves well formed.                                     *)

LEMMA LeastOfSome ==
    ASSUME NEW S \in SUBSET Nat, S # {}
    PROVE  \E x \in S : \A y \in S : x <= y
<1> DEFINE R == OpToRel(<, Nat)
<1>1. IsWellFoundedOn(R, Nat) BY NatLessThanWellFounded
<1>2. \A m, n \in Nat : m < n => <<m, n>> \in R BY DEF OpToRel
<1> HIDE DEF R
<1>3. PICK x \in S : \A y \in S : ~(<<y, x>> \in R) BY <1>1, WFMin
<1>4. \A y \in S : ~(y < x) BY <1>2, <1>3
<1> QED BY <1>4

LEMMA OneJobKinds ==
    ASSUME LeadKinds, NEW w \in Workers, NEW j \in Job, AboutOne(j), work' = [work EXCEPT ![w] = j], box' = box
    PROVE  work' \in [Workers -> Job] /\ (\A v \in Workers : AboutOne(work[v]))'
BY DEF LeadKinds, AboutOne

LEMMA RestingIs == Resting \in Job /\ AboutOne(Resting) /\ NoLead \in Row
BY DEF Resting, Job, AboutOne, NoLead, Row, Stages

LEMMA LeadsInitKinds == ASSUME LeadsInit PROVE LeadKinds
<1>1. box \in Seq(Mail) /\ cursor \in 0..Len(box) BY DEF LeadsInit
<1>2. work \in [Workers -> Job] /\ (\A w \in Workers : AboutOne(work[w])) BY RestingIs DEF LeadsInit
<1>3. lead \in [Requests -> Row] /\ answered \in [Requests -> Nat] /\ drafts \in [Requests -> Nat] BY RestingIs DEF LeadsInit
<1>4. leadDeaths \in 0..LeadDeaths BY LeadsAssumption DEF LeadsInit
<1> QED BY <1>1, <1>2, <1>3, <1>4 DEF LeadsInit, LeadKinds

LEMMA EmailComesKinds == ASSUME LeadKinds, crowded' \in BOOLEAN, NEW r \in Requests, NEW k \in Kinds, EmailComes(r, k) PROVE LeadKinds'
<1> DEFINE m == [of |-> r, kind |-> k]
<1>1. box' = Append(box, m) /\ m \in Mail BY DEF EmailComes, Mail
<1>2. box' \in Seq(Mail) /\ Len(box') = Len(box) + 1 /\ Len(box) \in Nat BY <1>1, AppendProperties DEF LeadKinds
<1>3. DOMAIN box \subseteq DOMAIN box'
  <2>1. DOMAIN box = 1..Len(box) /\ DOMAIN box' = 1..Len(box') BY <1>2, LenProperties DEF LeadKinds
  <2> QED BY <2>1, <1>2
<1>4. (\A w \in Workers : AboutOne(work[w]))' BY <1>3 DEF LeadKinds, AboutOne, EmailComes
<1> QED BY <1>2, <1>4 DEF LeadKinds, EmailComes

LEMMA ReadBoxKinds == ASSUME LeadKinds, crowded' \in BOOLEAN, NEW t \in Readers, ReadBox(t) PROVE LeadKinds'
<1> DEFINE j == [Resting EXCEPT !.at = "reading", !.todo = (cursor + 1)..Len(box), !.cursor = cursor, !.lets = automatic]
<1>1. work' = [work EXCEPT ![t] = j] /\ t \in Workers BY DEF ReadBox, Workers
<1>2. box \in Seq(Mail) /\ cursor \in 0..Len(box) /\ automatic \in BOOLEAN BY DEF LeadKinds
<1>3. DOMAIN box = 1..Len(box) /\ Len(box) \in Nat BY <1>2, LenProperties
<1>4. cursor \in Nat /\ (cursor + 1)..Len(box) \in SUBSET Nat /\ (cursor + 1)..Len(box) \subseteq DOMAIN box BY <1>2, <1>3
<1>5. j \in Job BY <1>2, <1>4, RestingIs DEF Job, Resting, Stages
<1>6. AboutOne(j) BY <1>4 DEF AboutOne, Resting
<1> HIDE DEF j
<1> QED BY <1>1, <1>5, <1>6, OneJobKinds DEF LeadKinds, ReadBox

LEMMA TakeEmailKinds == ASSUME LeadKinds, crowded' \in BOOLEAN, NEW t \in Readers, TakeEmail(t) PROVE LeadKinds'
<1> DEFINE i == CHOOSE x \in work[t].todo : \A y \in work[t].todo : x <= y
           a == IF box[i].kind = "not a request" THEN "reading" ELSE "looking up"
           j == [work[t] EXCEPT !.todo = @ \ {i}, !.email = i, !.cursor = i, !.of = box[i].of, !.at = a]
<1>1. t \in Workers /\ work[t] \in Job /\ AboutOne(work[t]) BY DEF Workers, LeadKinds
<1>2. \E x \in work[t].todo : \A y \in work[t].todo : x <= y
  BY <1>1, LeastOfSome DEF TakeEmail, Job
<1>3. i \in work[t].todo /\ i \in DOMAIN box /\ i \in Nat BY <1>1, <1>2 DEF AboutOne, Job
<1>4. box[i] \in Mail /\ i \in 1..Len(box) BY <1>3, ElementOfSeq, LenProperties DEF LeadKinds
<1>5. /\ work' = [work EXCEPT ![t].todo = @ \ {i}, ![t].email = i, ![t].cursor = i, ![t].of = box[i].of, ![t].at = a]
      /\ cursor' = IF i > work[t].cursor THEN i ELSE cursor
      /\ UNCHANGED <<box, lead, automatic, answered, drafts, thisHour, leadDeaths>>
  BY DEF TakeEmail
<1> HIDE DEF i
<1>9. work' = [work EXCEPT ![t] = j] BY <1>5, <1>1 DEF LeadKinds
<1>6. j \in Job BY <1>1, <1>3, <1>4 DEF Job, Mail, Stages
<1>7. AboutOne(j) BY <1>1, <1>3, <1>4 DEF AboutOne, Job, Mail
<1>8. cursor' \in 0..Len(box) 
  <2>1. cursor \in 0..Len(box) /\ Len(box) \in Nat BY LenProperties DEF LeadKinds
  <2>2. cursor' \in {i, cursor} BY <1>5
  <2> QED BY <2>1, <2>2, <1>3, <1>4
<1> HIDE DEF j
<1> QED BY <1>1, <1>5, <1>6, <1>7, <1>8, <1>9, OneJobKinds DEF LeadKinds

LEMMA LookUpKinds == ASSUME LeadKinds, crowded' \in BOOLEAN, NEW t \in Readers, LookUp(t) PROVE LeadKinds'
<1> DEFINE k == box[work[t].email].kind
           row == NewRow(k)
           j == IF Known(work[t].of) THEN [work[t] EXCEPT !.at = "reading"] ELSE [work[t] EXCEPT !.row = row, !.at = "storing"]
<1>1. t \in Workers /\ work[t] \in Job /\ AboutOne(work[t]) BY DEF Workers, LeadKinds
<1>2. work[t].at = "looking up" BY DEF LookUp, Does
<1>3. row \in Row /\ row.status \in {"DRAFT", "TO_HANDLE"} BY DEF NewRow, Row
<1>4. work' = [work EXCEPT ![t] = j]
  <2> HIDE DEF row
  <2>1. work' = IF Known(work[t].of) THEN Now(t, "reading") ELSE [work EXCEPT ![t].row = row, ![t].at = "storing"] BY DEF LookUp, row
  <2> QED BY <2>1, <1>1 DEF LeadKinds, Now
<1>5. j \in Job /\ AboutOne(j)
  <2> HIDE DEF row
  <2> QED BY <1>1, <1>2, <1>3 DEF Job, AboutOne, Stages
<1> HIDE DEF j
<1> QED BY <1>1, <1>4, <1>5, OneJobKinds DEF LeadKinds, LookUp

LEMMA StoreLeadKinds == ASSUME LeadKinds, crowded' \in BOOLEAN, NEW t \in Readers, StoreLead(t) PROVE LeadKinds'
<1> DEFINE stored == Accepted(work[t].of)
           a == IF work[t].row.status = "DRAFT" THEN "drafting" ELSE "reading"
           j == IF ~stored THEN Resting ELSE [work[t] EXCEPT !.at = a]
<1>1. t \in Workers /\ work[t] \in Job /\ AboutOne(work[t]) BY DEF Workers, LeadKinds
<1>2. work[t].at = "storing" BY DEF StoreLead, Does
<1>3. work' = [work EXCEPT ![t] = j]
  <2> HIDE DEF stored
  <2>1. work' = IF ~stored THEN [work EXCEPT ![t] = Resting] ELSE Now(t, a) BY DEF StoreLead, stored
  <2> QED BY <2>1, <1>1 DEF LeadKinds, Now
<1>4. j \in Job /\ AboutOne(j) BY <1>1, <1>2, RestingIs DEF Job, AboutOne, Stages
<1>5. lead' \in [Requests -> Row] BY <1>1, <1>2 DEF StoreLead, LeadKinds, Job, AboutOne
<1> HIDE DEF j
<1> QED BY <1>1, <1>3, <1>4, <1>5, OneJobKinds DEF LeadKinds, StoreLead

LEMMA DraftReplyKinds == ASSUME LeadKinds, crowded' \in BOOLEAN, NEW t \in Readers, NEW good \in BOOLEAN, DraftReply(t, good) PROVE LeadKinds'
<1> DEFINE st == IF good THEN work[t].row.status ELSE "TO_HANDLE"
           j == [work[t] EXCEPT !.row = [@ EXCEPT !.reply = TRUE, !.status = st],
                                !.at = IF good /\ work[t].lets THEN "sending" ELSE "reading"]
           r == work[t].of
<1>1. t \in Workers /\ work[t] \in Job /\ AboutOne(work[t]) BY DEF Workers, LeadKinds
<1>2. work[t].at = "drafting" /\ r \in Requests BY <1>1 DEF DraftReply, Does, AboutOne
<1>3. work' = [work EXCEPT ![t] = j] BY <1>1 DEF DraftReply, LeadKinds, Job, Row
<1>4. j \in Job /\ AboutOne(j) BY <1>1, <1>2 DEF Job, AboutOne, Stages, Row
<1>5. lead' \in [Requests -> Row] BY <1>2 DEF DraftReply, LeadKinds, Row
<1>6. drafts' \in [Requests -> Nat] BY <1>2 DEF DraftReply, LeadKinds
<1> HIDE DEF j
<1> QED BY <1>1, <1>3, <1>4, <1>5, <1>6, OneJobKinds DEF LeadKinds, DraftReply

LEMMA EndReadingKinds == ASSUME LeadKinds, crowded' \in BOOLEAN, NEW t \in Readers, EndReading(t) PROVE LeadKinds'
<1>1. t \in Workers /\ work' = [work EXCEPT ![t] = Resting] BY DEF Workers, EndReading
<1> QED BY <1>1, RestingIs, OneJobKinds DEF LeadKinds, EndReading

LEMMA OpenToSendKinds == ASSUME LeadKinds, crowded' \in BOOLEAN, NEW a \in People, NEW r \in Requests, OpenToSend(a, r) PROVE LeadKinds'
<1> DEFINE j == [Resting EXCEPT !.at = "sending", !.of = r, !.row = lead[r]]
<1>1. a \in Workers /\ work' = [work EXCEPT ![a] = j] BY DEF Workers, OpenToSend
<1>2. j \in Job /\ AboutOne(j) BY RestingIs DEF LeadKinds, Job, AboutOne, Stages, Resting
<1> HIDE DEF j
<1> QED BY <1>1, <1>2, OneJobKinds DEF LeadKinds, OpenToSend

\* What a worker does when he has sent, or could not.
LEMMA AfterIs ==
    ASSUME LeadKinds, NEW w \in Workers, work' = After(w)
    PROVE  \E j \in Job : /\ work' = [work EXCEPT ![w] = j] /\ AboutOne(j) /\ j.at \in {"rest", "reading"}
<1>1. work[w] \in Job /\ AboutOne(work[w]) BY DEF LeadKinds
<1>2. CASE w \in Readers
  <2> DEFINE j == [work[w] EXCEPT !.at = "reading"]
  <2>1. work' = [work EXCEPT ![w] = j] BY <1>2, <1>1 DEF After, Now, LeadKinds
  <2>2. j \in Job /\ AboutOne(j) /\ j.at = "reading" BY <1>1 DEF Job, AboutOne, Stages
  <2> QED BY <2>1, <2>2
<1>3. CASE w \notin Readers
  <2>1. work' = [work EXCEPT ![w] = Resting] /\ Resting.at = "rest" BY <1>3 DEF After, Resting
  <2> QED BY <2>1, RestingIs
<1> QED BY <1>2, <1>3

LEMMA NotSentKinds == ASSUME LeadKinds, crowded' \in BOOLEAN, NEW w \in Workers, NotSent(w) PROVE LeadKinds'
<1>1. work' = After(w) BY DEF NotSent
<1>2. PICK j \in Job : work' = [work EXCEPT ![w] = j] /\ AboutOne(j) BY <1>1, AfterIs
<1> QED BY <1>2, OneJobKinds DEF LeadKinds, NotSent

LEMMA RecordSendingKinds == ASSUME LeadKinds, crowded' \in BOOLEAN, NEW w \in Workers, RecordSending(w) PROVE LeadKinds'
<1>1. work' = After(w) BY DEF RecordSending
<1>2. PICK j \in Job : work' = [work EXCEPT ![w] = j] /\ AboutOne(j) BY <1>1, AfterIs
<1>3. work[w].of \in Requests BY DEF RecordSending, Does, LeadKinds, AboutOne
<1>4. lead' \in [Requests -> Row]
  <2>1. PICK st \in {"SENT", "FAILED"} : lead' = [lead EXCEPT ![work[w].of].status = st] BY DEF RecordSending
  <2> QED BY <2>1, <1>3 DEF LeadKinds, Row
<1>5. thisHour' \in SUBSET Requests BY <1>3 DEF RecordSending, LeadKinds
<1> QED BY <1>2, <1>4, <1>5, OneJobKinds DEF LeadKinds, RecordSending

LEMMA SendsKinds == ASSUME LeadKinds, crowded' \in BOOLEAN, NEW w \in Workers, NEW took \in BOOLEAN, NEW says \in BOOLEAN, Sends(w, took, says) PROVE LeadKinds'
<1> DEFINE j == [work[w] EXCEPT !.at = IF says THEN "sent" ELSE "failed"]
<1>1. work[w] \in Job /\ AboutOne(work[w]) /\ work[w].at = "sending" /\ work[w].of \in Requests BY DEF LeadKinds, Sends, Does, AboutOne
<1>2. work' = [work EXCEPT ![w] = j] BY <1>1 DEF Sends, Now, LeadKinds
<1>3. j \in Job /\ AboutOne(j) BY <1>1 DEF Job, AboutOne, Stages
<1>4. answered' \in [Requests -> Nat] BY <1>1 DEF Sends, LeadKinds
<1>5. leadDeaths' \in 0..LeadDeaths BY LeadsAssumption DEF Sends, LeadKinds
<1> HIDE DEF j
<1> QED BY <1>2, <1>3, <1>4, <1>5, OneJobKinds DEF LeadKinds, Sends

LEMMA LeadWorkerDiesKinds == ASSUME LeadKinds, crowded' \in BOOLEAN, NEW w \in Workers, LeadWorkerDies(w) PROVE LeadKinds'
<1>1. work' = [work EXCEPT ![w] = Resting] BY DEF LeadWorkerDies
<1>2. leadDeaths' \in 0..LeadDeaths BY LeadsAssumption DEF LeadWorkerDies, LeadKinds
<1> QED BY <1>1, <1>2, RestingIs, OneJobKinds DEF LeadKinds, LeadWorkerDies

\* The emails that the jobs are about are the same ones.
LEMMA JobsStay == ASSUME LeadKinds, work' = work, box' = box PROVE (\A w \in Workers : AboutOne(work[w]))'
BY DEF LeadKinds, AboutOne

LEMMA ByHandKinds == ASSUME LeadKinds, crowded' \in BOOLEAN, NEW r \in Requests, IgnoreLead(r) \/ EditReply(r) PROVE LeadKinds'
<1>1. lead' \in [Requests -> Row]
  <2>1. CASE IgnoreLead(r) BY <2>1 DEF IgnoreLead, LeadKinds, Row
  <2>2. CASE EditReply(r) BY <2>2 DEF EditReply, LeadKinds, Row
  <2> QED BY <2>1, <2>2
<1> QED BY <1>1, JobsStay DEF LeadKinds, IgnoreLead, EditReply

LEMMA MeanwhileKinds == ASSUME LeadKinds, crowded' \in BOOLEAN, LetBobSend \/ AnHourGoes PROVE LeadKinds'
BY JobsStay DEF LeadKinds, LetBobSend, AnHourGoes

LEMMA LeadsStepKinds == ASSUME LeadKinds, crowded' \in BOOLEAN, LeadsStep PROVE LeadKinds'
BY EmailComesKinds, ReadBoxKinds, TakeEmailKinds, LookUpKinds, StoreLeadKinds, DraftReplyKinds, EndReadingKinds,
   OpenToSendKinds, NotSentKinds, RecordSendingKinds, SendsKinds, LeadWorkerDiesKinds, ByHandKinds, MeanwhileKinds
   DEF LeadsStep

-----------------------------------------------------------------------------
(* What a step does, to the rows and to the worker who takes it.           *)

Sending == {"drafting", "sending", "sent", "failed"}

\* Only w works, and goes where he may.
Moves(w, places) == \E j \in Job : work' = [work EXCEPT ![w] = j] /\ j.at \in places

\* The step leaves alone what was drafted and which rows there are.
DraftsStay ==
    /\ drafts' = drafts
    /\ \A r \in Requests : (lead'[r].status = "ABSENT" <=> lead[r].status = "ABSENT") /\ lead'[r].test = lead[r].test
    /\ \A w \in Workers : work'[w].at = "drafting" => work'[w] = work[w]
    /\ \A w \in Workers : work'[w].at \in Sending =>
          \/ work[w].at \in Sending /\ work'[w].of = work[w].of
          \/ work'[w].at = "sending" /\ work'[w].of \in Requests /\ lead[work'[w].of].status # "ABSENT"

LEMMA DraftsStayOnce == ASSUME LeadKinds, LeadKinds', OnceDrafted, DraftsStay PROVE OnceDrafted'
<1>1. \A r \in Requests : drafts'[r] <= 1 /\ (lead'[r].status = "ABSENT" => drafts'[r] = 0) BY DEF OnceDrafted, DraftsStay
<1>2. \A w \in Workers : work'[w].at = "drafting" => drafts'[work'[w].of] = 0 BY DEF OnceDrafted, DraftsStay, Does
<1>3. ASSUME NEW w \in Workers, work'[w].at \in Sending PROVE lead'[work'[w].of].status # "ABSENT"
  <2>1. work'[w].of \in Requests BY <1>3 DEF LeadKinds, AboutOne, Sending
  <2>2. lead[work'[w].of].status # "ABSENT" BY <1>3 DEF DraftsStay, OnceDrafted, Sending
  <2> QED BY <2>1, <2>2 DEF DraftsStay
<1>4. \A v, w \in Workers : v # w /\ work'[v].at = "drafting" /\ work'[w].at = "drafting" => work'[v].of # work'[w].of
  BY DEF OnceDrafted, DraftsStay, Does
<1> QED BY <1>1, <1>2, <1>3, <1>4 DEF OnceDrafted, Does, Sending

LEMMA DraftedIsFinite == IsFiniteSet(ThisMonth) /\ IsFiniteSet(Drafted) /\ Cardinality(ThisMonth) \in Nat /\ Cardinality(Drafted) \in Nat
<1>1. ThisMonth \subseteq Requests /\ Drafted \subseteq Requests BY DEF ThisMonth, Drafted
<1> QED BY <1>1, LeadsAssumption, FS_Subset, FS_CardinalityType

LEMMA DraftsStayMonth ==
    ASSUME LeadKinds, MonthHolds, DraftsStay,
           \A w \in Workers : /\ work'[w].at = "storing" /\ work'[w].row.status = "DRAFT" /\ ~work'[w].row.test
                              /\ work'[w] # work[w]
                              => Cardinality(ThisMonth) < MonthLimit
    PROVE  MonthHolds'
<1>1. ThisMonth' = ThisMonth BY DEF ThisMonth, DraftsStay
<1>2. Drafted' \subseteq Drafted BY DEF Drafted, DraftsStay, Does
<1>3. Cardinality(Drafted') <= Cardinality(Drafted) /\ Cardinality(Drafted') \in Nat
  BY <1>2, DraftedIsFinite, FS_Subset, FS_CardinalityType
<1>4. Cardinality(Drafted') <= MonthLimit
  BY <1>3, DraftedIsFinite, LeadsAssumption DEF MonthHolds
<1>5. \A w \in Workers : work'[w].at = "storing" /\ work'[w].row.status = "DRAFT" /\ ~work'[w].row.test =>
          Cardinality(ThisMonth') < MonthLimit
  BY <1>1 DEF MonthHolds, DraftsStay, Does
<1> QED BY <1>4, <1>5 DEF MonthHolds, Does

\* The step sends nothing and records no sending.
AnswersStay ==
    /\ answered' = answered /\ leadDeaths' = leadDeaths /\ thisHour' \subseteq thisHour
    /\ \A r \in Requests : lead'[r].status = "SENT" <=> lead[r].status = "SENT"
    /\ \A w \in Workers : work'[w].at \in Sending =>
          \/ work[w].at \in Sending /\ work'[w].of = work[w].of
          \/ lead[work'[w].of].status # "SENT"
    /\ \A w \in Workers : (work'[w].at = "sent" <=> work[w].at = "sent") /\ (work[w].at = "sent" => work'[w].of = work[w].of)

LEMMA AnswersStayRight == ASSUME LeadKinds, LeadKinds', AnswersHold, AnswersStay PROVE AnswersHold'
<1>1. \A r \in Requests : Going(r)' <=> Going(r) BY DEF Going, AnswersStay, Does
<1>2. \A r \in Requests : answered'[r] <= leadDeaths' + (IF Going(r)' THEN 1 ELSE 0)
  BY <1>1 DEF AnswersHold, AnswersStay
<1>3. \A w \in Workers : work'[w].at \in Sending => lead'[work'[w].of].status # "SENT"
  <2> SUFFICES ASSUME NEW w \in Workers, work'[w].at \in Sending PROVE lead'[work'[w].of].status # "SENT" OBVIOUS
  <2>1. work'[w].of \in Requests BY DEF LeadKinds, AboutOne, Sending
  <2>2. lead[work'[w].of].status # "SENT" BY DEF AnswersStay, AnswersHold, Sending
  <2> QED BY <2>1, <2>2 DEF AnswersStay
<1>4. IsFiniteSet(thisHour) /\ thisHour \subseteq Requests BY LeadsAssumption, FS_Subset DEF LeadKinds
<1>5. Cardinality(thisHour') <= Cardinality(thisHour) /\ Cardinality(thisHour') \in Nat /\ Cardinality(thisHour) \in Nat
  BY <1>4, FS_Subset, FS_CardinalityType DEF AnswersStay
<1>6. Cardinality(thisHour') <= HourLimit BY <1>5, LeadsAssumption DEF AnswersHold
<1>7. ASSUME NEW w \in Workers, work'[w].at = "sent" PROVE Cardinality(thisHour' \cup {work'[w].of}) <= HourLimit
  <2> DEFINE s == thisHour \cup {work[w].of}
             t == thisHour' \cup {work[w].of}
  <2>1. work[w].at = "sent" /\ work'[w].of = work[w].of BY <1>7 DEF AnswersStay
  <2>2. Cardinality(s) <= HourLimit BY <2>1 DEF AnswersHold, Does
  <2>3. IsFiniteSet(s) /\ t \subseteq s BY <1>4, FS_AddElement DEF AnswersStay
  <2>4. Cardinality(t) <= Cardinality(s) /\ Cardinality(t) \in Nat /\ Cardinality(s) \in Nat BY <2>3, FS_Subset, FS_CardinalityType
  <2> QED BY <2>1, <2>2, <2>4, LeadsAssumption
<1> QED BY <1>2, <1>3, <1>6, <1>7 DEF AnswersHold, Does, Sending

-----------------------------------------------------------------------------
(* The steps that draft and send nothing.                                  *)

Quiet == DraftsStay /\ AnswersStay /\ \A w \in Workers : work'[w].at = "storing" => work'[w] = work[w]

LEMMA QuietIs ==
    ASSUME LeadKinds, UNCHANGED <<lead, answered, drafts, leadDeaths>>, thisHour' \subseteq thisHour,
           \E w \in Workers : \E j \in Job : /\ work' = [work EXCEPT ![w] = j] /\ j.at \in {"rest", "reading", "looking up"}
                                             /\ work[w].at # "sent"
    PROVE  Quiet
BY DEF Quiet, DraftsStay, AnswersStay, LeadKinds, Sending

LEMMA QuietWhenIdle ==
    ASSUME LeadKinds, UNCHANGED <<work, answered, drafts, leadDeaths>>, thisHour' \subseteq thisHour,
           \A r \in Requests : /\ lead'[r].status = "ABSENT" <=> lead[r].status = "ABSENT"
                               /\ lead'[r].status = "SENT" <=> lead[r].status = "SENT"
                               /\ lead'[r].test = lead[r].test
    PROVE  Quiet
BY DEF Quiet, DraftsStay, AnswersStay

LEMMA ReadersAreQuiet ==
    ASSUME LeadKinds, NEW t \in Readers, ReadBox(t) \/ TakeEmail(t) \/ EndReading(t)
    PROVE  Quiet
<1>1. t \in Workers /\ work[t] \in Job /\ AboutOne(work[t]) BY DEF Workers, LeadKinds
<1>2. CASE ReadBox(t)
  <2>1. work[t].at = "rest" BY <1>2 DEF ReadBox, Does
  <2> DEFINE j == [Resting EXCEPT !.at = "reading", !.todo = (cursor + 1)..Len(box), !.cursor = cursor, !.lets = automatic]
  <2>2. work' = [work EXCEPT ![t] = j] /\ j.at = "reading" BY <1>2 DEF ReadBox, Resting
  <2> HIDE DEF j
  <2> QED BY <1>1, <1>2, <2>1, <2>2 DEF Quiet, DraftsStay, AnswersStay, LeadKinds, Sending, ReadBox
<1>3. CASE TakeEmail(t)
  <2> DEFINE i == CHOOSE x \in work[t].todo : \A y \in work[t].todo : x <= y
             a == IF box[i].kind = "not a request" THEN "reading" ELSE "looking up"
  <2>1. work' = [work EXCEPT ![t].todo = @ \ {i}, ![t].email = i, ![t].cursor = i, ![t].of = box[i].of, ![t].at = a]
    BY <1>3 DEF TakeEmail
  <2> HIDE DEF i
  <2>2. (\A v \in Workers \ {t} : work'[v] = work[v]) /\ work'[t].at = a BY <2>1, <1>1 DEF LeadKinds, Job
  <2>3. a \in {"reading", "looking up"} OBVIOUS
  <2>4. work[t].at = "reading" /\ UNCHANGED <<lead, answered, drafts, thisHour, leadDeaths>> BY <1>3 DEF TakeEmail, Does
  <2> HIDE DEF a
  <2> QED BY <1>1, <2>2, <2>3, <2>4 DEF Quiet, DraftsStay, AnswersStay, Sending
<1>4. CASE EndReading(t)
  <2>1. work[t].at = "reading" /\ work' = [work EXCEPT ![t] = Resting] /\ Resting.at = "rest" BY <1>4 DEF EndReading, Does, Resting
  <2> QED BY <1>1, <1>4, <2>1, RestingIs DEF Quiet, DraftsStay, AnswersStay, LeadKinds, Sending, EndReading
<1> QED BY <1>2, <1>3, <1>4

LEMMA OthersAreQuiet ==
    ASSUME LeadKinds, (\E r \in Requests, k \in Kinds : EmailComes(r, k)) \/ (\E r \in Requests : IgnoreLead(r) \/ EditReply(r))
                          \/ LetBobSend \/ AnHourGoes
    PROVE  Quiet
<1>1. CASE \E r \in Requests, k \in Kinds : EmailComes(r, k) BY <1>1, QuietWhenIdle DEF EmailComes
<1>2. CASE \E r \in Requests : IgnoreLead(r)
  <2>1. PICK r \in Requests : IgnoreLead(r) BY <1>2
  <2> QED BY <2>1, QuietWhenIdle DEF IgnoreLead, LeadKinds, Row
<1>3. CASE \E r \in Requests : EditReply(r)
  <2>1. PICK r \in Requests : EditReply(r) BY <1>3
  <2> QED BY <2>1, QuietWhenIdle DEF EditReply, LeadKinds, Row
<1>4. CASE LetBobSend BY <1>4, QuietWhenIdle DEF LetBobSend
<1>5. CASE AnHourGoes BY <1>5, QuietWhenIdle DEF AnHourGoes
<1> QED BY <1>1, <1>2, <1>3, <1>4, <1>5

LEMMA NotSentIsQuiet == ASSUME LeadKinds, NEW w \in Workers, NotSent(w) PROVE Quiet
<1>1. PICK j \in Job : work' = [work EXCEPT ![w] = j] /\ j.at \in {"rest", "reading"} BY AfterIs DEF NotSent
<1>2. work[w].at = "sending" BY DEF NotSent, Does
<1> QED BY <1>1, <1>2, QuietIs DEF NotSent

LEMMA OpeningIsQuiet == ASSUME LeadKinds, NEW a \in People, NEW r \in Requests, OpenToSend(a, r) PROVE Quiet
<1>1. a \in Workers /\ work[a].at = "rest" BY DEF Workers, OpenToSend, Does
<1> DEFINE j == [Resting EXCEPT !.at = "sending", !.of = r, !.row = lead[r]]
<1>2. work' = [work EXCEPT ![a] = j] /\ j.at = "sending" /\ j.of = r BY DEF OpenToSend, Resting
<1>3. lead[r].status \notin {"ABSENT", "SENT"} BY DEF OpenToSend, Sendable
<1> HIDE DEF j
<1> QED BY <1>1, <1>2, <1>3 DEF Quiet, DraftsStay, AnswersStay, LeadKinds, Sending, OpenToSend

\* Where a step changes who is at work, it is seen afterwards.
LEMMA Uncrowded == ASSUME LeadsNext, ~crowded' PROVE ~crowded /\ ~TwoBusy'
BY DEF LeadsNext

LEMMA QuietKeeps == ASSUME LeadsInv, LeadKinds', LeadsNext, Quiet PROVE LeadsInv'
<1>1. OnceDrafted' BY DraftsStayOnce DEF LeadsInv, Quiet
<1>2. ~crowded' => MonthHolds' /\ AnswersHold' BY Uncrowded, DraftsStayMonth, AnswersStayRight DEF LeadsInv, Quiet
<1> QED BY <1>1, <1>2, Uncrowded DEF LeadsInv

-----------------------------------------------------------------------------
(* The steps that store, draft and send.                                   *)

LEMMA LookUpKeeps == ASSUME LeadsInv, LeadKinds', LeadsNext, NEW t \in Readers, LookUp(t) PROVE LeadsInv'
<1> DEFINE row == NewRow(box[work[t].email].kind)
<1> USE DEF LeadsInv
<1>1. t \in Workers /\ work[t] \in Job BY DEF Workers, LeadKinds
<1>2. work[t].at = "looking up" /\ UNCHANGED <<lead, answered, drafts, thisHour, leadDeaths>> BY DEF LookUp, Does
<1>3. row.status = "DRAFT" /\ ~row.test => Cardinality(ThisMonth) < MonthLimit
  <2>1. row.status = "DRAFT" /\ ~row.test => ~(Cardinality(ThisMonth) >= MonthLimit) BY DEF NewRow, OverQuota
  <2> QED BY <2>1, DraftedIsFinite, LeadsAssumption
<1> HIDE DEF row
<1>4. \/ work' = [work EXCEPT ![t].at = "reading"]
      \/ work' = [work EXCEPT ![t].row = row, ![t].at = "storing"]
  BY DEF LookUp, Now, row
<1>5. /\ \A v \in Workers \ {t} : work'[v] = work[v]
      /\ work'[t].at = "reading" \/ (work'[t].at = "storing" /\ work'[t].row = row)
  BY <1>1, <1>4 DEF LeadKinds, Job
<1>6. DraftsStay /\ AnswersStay BY <1>1, <1>2, <1>5 DEF DraftsStay, AnswersStay, Sending
<1>7. \A w \in Workers : /\ work'[w].at = "storing" /\ work'[w].row.status = "DRAFT" /\ ~work'[w].row.test
                         /\ work'[w] # work[w]
                         => Cardinality(ThisMonth) < MonthLimit
  BY <1>3, <1>5
<1>8. OnceDrafted' BY <1>6, DraftsStayOnce
<1>9. ~crowded' => MonthHolds' /\ AnswersHold' BY Uncrowded, <1>6, <1>7, DraftsStayMonth, AnswersStayRight
<1> QED BY <1>8, <1>9, Uncrowded

LEMMA StoreLeadKeeps == ASSUME LeadsInv, LeadKinds', LeadsNext, NEW t \in Readers, StoreLead(t) PROVE LeadsInv'
<1> DEFINE r == work[t].of
           stored == lead[r].status = "ABSENT"
           row == work[t].row
<1> USE DEF LeadsInv
<1>1. t \in Workers /\ work[t] \in Job /\ r \in Requests /\ work[t].at = "storing" /\ row.status \in {"DRAFT", "TO_HANDLE"}
  BY DEF Workers, LeadKinds, AboutOne, StoreLead, Does
<1>2. UNCHANGED <<answered, drafts, thisHour, leadDeaths>> BY DEF StoreLead
<1>3. CASE ~stored
  <2>1. lead' = lead /\ work' = [work EXCEPT ![t] = Resting] /\ Resting.at = "rest" BY <1>3 DEF StoreLead, Accepted, Resting
  <2> QED BY <1>1, <1>2, <2>1, QuietKeeps, QuietIs, RestingIs
<1>4. CASE stored
  <2> DEFINE a == IF row.status = "DRAFT" THEN "drafting" ELSE "reading"
  <2>1. lead' = [lead EXCEPT ![r] = row] /\ work' = [work EXCEPT ![t].at = a]
    BY <1>4 DEF StoreLead, Accepted, Now
  <2>2. /\ \A v \in Workers \ {t} : work'[v] = work[v]
        /\ work'[t].at = a /\ work'[t].of = r
    BY <1>1, <2>1 DEF LeadKinds, Job
  <2>3. lead'[r] = row /\ \A q \in Requests \ {r} : lead'[q] = lead[q] BY <1>1, <2>1 DEF LeadKinds
  <2>4. drafts[r] = 0 BY <1>1, <1>4 DEF OnceDrafted
  <2>5. \A v \in Workers : work[v].at \in Sending => work[v].of # r BY <1>4 DEF OnceDrafted, Sending
  <2> HIDE DEF r, row
  <2>6. OnceDrafted'
    <3>1. \A q \in Requests : drafts'[q] <= 1 /\ (lead'[q].status = "ABSENT" => drafts'[q] = 0)
      BY <1>1, <1>2, <2>3, <2>4 DEF OnceDrafted
    <3>2. \A v \in Workers : work'[v].at = "drafting" => drafts'[work'[v].of] = 0
      BY <1>2, <2>2, <2>4 DEF OnceDrafted, Does
    <3>3. ASSUME NEW v \in Workers, work'[v].at \in Sending PROVE lead'[work'[v].of].status # "ABSENT"
      <4>1. CASE v = t BY <1>1, <2>2, <2>3, <4>1
      <4>2. CASE v # t
        <5>1. work[v].of \in Requests /\ lead[work[v].of].status # "ABSENT" /\ work[v].of # r
          BY <3>3, <4>2, <2>2, <2>5 DEF OnceDrafted, LeadKinds, AboutOne, Sending
        <5> QED BY <5>1, <4>2, <2>2, <2>3
      <4> QED BY <4>1, <4>2
    <3>4. ASSUME NEW v \in Workers, NEW w \in Workers, v # w, work'[v].at = "drafting", work'[w].at = "drafting"
          PROVE  work'[v].of # work'[w].of
      BY <3>4, <2>2, <2>5 DEF OnceDrafted, Does, Sending
    <3> QED BY <3>1, <3>2, <3>3, <3>4 DEF OnceDrafted, Does, Sending
  <2>7. ASSUME ~crowded' PROVE MonthHolds' /\ AnswersHold' /\ ~crowded /\ ~TwoBusy'
    <3>1. ~crowded /\ ~TwoBusy' /\ MonthHolds /\ AnswersHold BY <2>7, Uncrowded
    <3>2. AnswersStay
      <4>1. \A q \in Requests : lead'[q].status = "SENT" <=> lead[q].status = "SENT" BY <1>1, <1>4, <2>3 DEF r
      <4>2. \A w \in Workers : work'[w].at \in Sending =>
               (work[w].at \in Sending /\ work'[w].of = work[w].of) \/ lead[work'[w].of].status # "SENT"
        BY <2>2, <1>4 DEF r
      <4>3. \A w \in Workers : (work'[w].at = "sent" <=> work[w].at = "sent") /\ (work[w].at = "sent" => work'[w].of = work[w].of)
        BY <2>2, <1>1
      <4> QED BY <1>2, <4>1, <4>2, <4>3 DEF AnswersStay
    <3>3. AnswersHold' BY <3>1, <3>2, AnswersStayRight
    <3>4. Drafted \subseteq ThisMonth BY DEF Drafted, ThisMonth, OnceDrafted, LeadKinds, Does
    <3>5. Drafted' \subseteq Drafted \cup {r} BY <1>2, <2>2, <2>3 DEF Drafted, Does
    <3>6. \A v \in Workers \ {t} : work[v].at = "rest"
      <4> SUFFICES ASSUME NEW v \in Workers \ {t} PROVE work[v].at = "rest" OBVIOUS
      <4>1. ~TwoBusy BY <3>1
      <4> QED BY <4>1, <1>1 DEF TwoBusy, Busy
    <3>7. \A v \in Workers : work'[v].at # "storing" BY <3>6, <2>2
    <3>8. Cardinality(Drafted') <= MonthLimit
      <4>1. CASE row.status = "DRAFT" /\ ~row.test
        <5>1. Cardinality(ThisMonth) < MonthLimit BY <4>1, <1>1, <3>1 DEF MonthHolds, Does, row
        <5>2. Drafted' \subseteq ThisMonth \cup {r} BY <3>4, <3>5
        <5>3. IsFiniteSet(ThisMonth \cup {r}) /\ Cardinality(ThisMonth \cup {r}) <= Cardinality(ThisMonth) + 1
          <6>1. IsFiniteSet(ThisMonth) /\ Cardinality(ThisMonth) \in Nat BY DraftedIsFinite
          <6>2. /\ IsFiniteSet(ThisMonth \cup {r})
                /\ Cardinality(ThisMonth \cup {r}) = IF r \in ThisMonth THEN Cardinality(ThisMonth) ELSE Cardinality(ThisMonth) + 1
            BY <6>1, FS_AddElement
          <6> QED BY <6>1, <6>2
        <5>4. Cardinality(Drafted') <= Cardinality(ThisMonth \cup {r}) /\ Cardinality(Drafted') \in Nat /\ Cardinality(ThisMonth \cup {r}) \in Nat
          BY <5>2, <5>3, FS_Subset, FS_CardinalityType
        <5> QED BY <5>1, <5>3, <5>4, DraftedIsFinite, LeadsAssumption
      <4>2. CASE ~(row.status = "DRAFT" /\ ~row.test)
        <5>1. r \notin Drafted'
          <6>1. CASE row.test BY <6>1, <2>3 DEF Drafted
          <6>2. CASE row.status # "DRAFT"
            <7>1. drafts'[r] = 0 BY <1>2, <2>4
            <7>2. \A v \in Workers : ~(work'[v].at = "drafting" /\ work'[v].of = r) BY <6>2, <2>2, <2>5 DEF Sending
            <7> QED BY <7>1, <7>2 DEF Drafted, Does
          <6> QED BY <4>2, <6>1, <6>2
        <5>2. Drafted' \subseteq Drafted BY <5>1, <3>5
        <5>3. Cardinality(Drafted') <= Cardinality(Drafted) /\ Cardinality(Drafted') \in Nat BY <5>2, DraftedIsFinite, FS_Subset, FS_CardinalityType
        <5> QED BY <5>3, <3>1, DraftedIsFinite, LeadsAssumption DEF MonthHolds
      <4> QED BY <4>1, <4>2
    <3> QED BY <3>1, <3>3, <3>7, <3>8 DEF MonthHolds, Does
  <2> QED BY <2>6, <2>7
<1> QED BY <1>3, <1>4

LEMMA DraftReplyKeeps == ASSUME LeadsInv, LeadKinds', LeadsNext, NEW t \in Readers, NEW good \in BOOLEAN, DraftReply(t, good) PROVE LeadsInv'
<1> DEFINE r == work[t].of
           a == IF good /\ work[t].lets THEN "sending" ELSE "reading"
<1> USE DEF LeadsInv
<1>1. t \in Workers /\ work[t] \in Job /\ r \in Requests /\ work[t].at = "drafting"
  BY DEF Workers, LeadKinds, AboutOne, DraftReply, Does
<1>2. UNCHANGED <<answered, thisHour, leadDeaths>> /\ lead[r].status # "ABSENT" /\ drafts[r] = 0
  BY <1>1 DEF DraftReply, OnceDrafted, Does
<1>3. /\ \A v \in Workers \ {t} : work'[v] = work[v]
      /\ work'[t].at = a /\ work'[t].of = r
  BY <1>1 DEF DraftReply, LeadKinds, Job
<1>4. /\ \A q \in Requests \ {r} : lead'[q] = lead[q] /\ drafts'[q] = drafts[q]
      /\ lead'[r].test = lead[r].test /\ lead'[r].status \in {lead[r].status, "TO_HANDLE"} /\ drafts'[r] = 1
  BY <1>1, <1>2 DEF DraftReply, LeadKinds, Row
<1>5. \A v \in Workers \ {t} : work[v].at = "drafting" => work[v].of # r BY <1>1 DEF OnceDrafted, Does
<1> HIDE DEF r
<1>6. OnceDrafted'
  <2>1. \A q \in Requests : drafts'[q] <= 1 /\ (lead'[q].status = "ABSENT" => drafts'[q] = 0) BY <1>1, <1>2, <1>4 DEF OnceDrafted
  <2>2. ASSUME NEW v \in Workers, work'[v].at = "drafting" PROVE drafts'[work'[v].of] = 0
    <3>1. v # t /\ work[v].at = "drafting" /\ work[v].of # r /\ work'[v] = work[v] BY <2>2, <1>3, <1>5
    <3>2. work[v].of \in Requests /\ drafts[work[v].of] = 0 BY <3>1 DEF OnceDrafted, Does, LeadKinds, AboutOne
    <3> QED BY <3>1, <3>2, <1>4
  <2>3. ASSUME NEW v \in Workers, work'[v].at \in Sending PROVE lead'[work'[v].of].status # "ABSENT"
    <3>1. work'[v].of = work[v].of /\ work[v].at \in Sending BY <2>3, <1>1, <1>3 DEF Sending, r
    <3>2. work[v].of \in Requests /\ lead[work[v].of].status # "ABSENT" BY <3>1 DEF OnceDrafted, LeadKinds, AboutOne, Sending
    <3> QED BY <3>1, <3>2, <1>4, <1>2
  <2>4. \A v, w \in Workers : v # w /\ work'[v].at = "drafting" /\ work'[w].at = "drafting" => work'[v].of # work'[w].of
    BY <1>3 DEF OnceDrafted, Does
  <2> QED BY <2>1, <2>2, <2>3, <2>4 DEF OnceDrafted, Does, Sending
<1>7. ASSUME ~crowded' PROVE MonthHolds' /\ AnswersHold'
  <2>1. ~crowded /\ MonthHolds /\ AnswersHold BY <1>7, Uncrowded
  <2>2. AnswersStay
    <3>1. lead[r].status # "SENT" BY <2>1, <1>1 DEF AnswersHold, r
    <3>2. \A q \in Requests : lead'[q].status = "SENT" <=> lead[q].status = "SENT" BY <3>1, <1>4
    <3>3. \A w \in Workers : work'[w].at \in Sending => work[w].at \in Sending /\ work'[w].of = work[w].of
      BY <1>1, <1>3 DEF Sending, r
    <3>4. \A w \in Workers : (work'[w].at = "sent" <=> work[w].at = "sent") /\ (work[w].at = "sent" => work'[w].of = work[w].of)
      BY <1>1, <1>3
    <3> QED BY <1>2, <3>2, <3>3, <3>4 DEF AnswersStay
  <2>3. AnswersHold' BY <2>1, <2>2, AnswersStayRight
  <2>4. ThisMonth' = ThisMonth
    <3>1. \A q \in Requests : lead'[q].status # "ABSENT" /\ ~lead'[q].test <=> lead[q].status # "ABSENT" /\ ~lead[q].test
      BY <1>2, <1>4
    <3> QED BY <3>1 DEF ThisMonth
  <2>5. Drafted' \subseteq Drafted
    <3> SUFFICES ASSUME NEW q \in Requests, ~lead'[q].test, drafts'[q] > 0 \/ \E w \in Workers : work'[w].at = "drafting" /\ work'[w].of = q
                 PROVE  q \in Drafted
      BY DEF Drafted, Does
    <3>1. CASE q = r BY <3>1, <1>1, <1>4 DEF Drafted, Does, r
    <3>2. CASE q # r BY <3>2, <1>3, <1>4 DEF Drafted, Does
    <3> QED BY <3>1, <3>2
  <2>6. Cardinality(Drafted') <= Cardinality(Drafted) /\ Cardinality(Drafted') \in Nat
    BY <2>5, DraftedIsFinite, FS_Subset, FS_CardinalityType
  <2>7. Cardinality(Drafted') <= MonthLimit BY <2>1, <2>6, DraftedIsFinite, LeadsAssumption DEF MonthHolds
  <2>8. \A w \in Workers : work'[w].at = "storing" => work'[w] = work[w] BY <1>3
  <2> QED BY <2>1, <2>3, <2>4, <2>7, <2>8 DEF MonthHolds, Does
<1> QED BY <1>6, <1>7, Uncrowded

\* Alone, what w sends was not sent: by nobody else, and not by itself.
LEMMA AloneAt ==
    ASSUME LeadKinds, ~TwoBusy, NEW w \in Workers, work[w].at # "rest"
    PROVE  \A v \in Workers \ {w} : work[v].at = "rest"
BY DEF TwoBusy, Busy

LEMMA SendsKeeps ==
    ASSUME LeadsInv, LeadKinds', LeadsNext, NEW w \in Workers, NEW took \in BOOLEAN, NEW says \in BOOLEAN, Sends(w, took, says)
    PROVE  LeadsInv'
<1> DEFINE a == IF says THEN "sent" ELSE "failed"
<1> USE DEF LeadsInv
<1>0. PICK r \in Requests : r = work[w].of BY DEF LeadKinds, AboutOne, Sends, RecordSending, Does
<1>1. work[w] \in Job /\ r \in Requests /\ work[w].at = "sending" BY <1>0 DEF LeadKinds, AboutOne, Sends, Does
<1>2. UNCHANGED <<lead, drafts, thisHour>> /\ Cardinality(thisHour) < HourLimit
  <2>1. ~(Cardinality(thisHour) >= HourLimit) /\ UNCHANGED <<lead, drafts, thisHour>> BY DEF Sends, TooMany
  <2>2. Cardinality(thisHour) \in Nat BY LeadsAssumption, FS_Subset, FS_CardinalityType DEF LeadKinds
  <2> QED BY <2>1, <2>2, LeadsAssumption
<1>3. (\A v \in Workers \ {w} : work'[v] = work[v]) /\ work'[w].at = a /\ work'[w].of = r
  BY <1>0, <1>1 DEF Sends, Now, LeadKinds, Job
<1>4. DraftsStay BY <1>0, <1>1, <1>2, <1>3 DEF DraftsStay, Sending
<1>5. OnceDrafted' BY <1>4, DraftsStayOnce
<1>6. ASSUME ~crowded' PROVE MonthHolds' /\ AnswersHold'
  <2>1. ~crowded /\ ~TwoBusy /\ MonthHolds /\ AnswersHold BY <1>6, Uncrowded
  <2>2. MonthHolds'
    <3>1. \A v \in Workers : work'[v].at = "storing" => work'[v] = work[v] BY <1>3
    <3> QED BY <2>1, <3>1, <1>4, DraftsStayMonth
  <2>3. \A v \in Workers \ {w} : work[v].at = "rest" /\ work'[v].at = "rest" BY <2>1, <1>1, <1>3, AloneAt
  <2>4. lead[r].status # "SENT" BY <1>0, <1>1, <2>1 DEF AnswersHold
  <2>5. \A q \in Requests : Going(q) => Going(q)' BY <1>0, <1>1, <1>2, <2>3 DEF Going, Does
  <2>6. ~Going(r) BY <1>0, <1>1, <2>3, <2>4 DEF Going, Does
  <2>7. answered[r] <= leadDeaths BY <2>1, <2>6, <1>1 DEF AnswersHold, LeadKinds
  <2>8. \A q \in Requests : answered[q] \in Nat /\ answered'[q] \in Nat /\ leadDeaths \in Nat /\ leadDeaths' \in Nat
    BY LeadsAssumption DEF LeadKinds
  <2>9. \A q \in Requests \ {r} : answered'[q] = answered[q] BY <1>0 DEF Sends, LeadKinds
  <2>10. \A q \in Requests : answered'[q] <= leadDeaths' + (IF Going(q)' THEN 1 ELSE 0)
    <3> SUFFICES ASSUME NEW q \in Requests PROVE answered'[q] <= leadDeaths' + (IF Going(q)' THEN 1 ELSE 0) OBVIOUS
    <3>1. leadDeaths' = leadDeaths \/ leadDeaths' = leadDeaths + 1 BY DEF Sends
    <3>2. answered[q] <= leadDeaths + (IF Going(q) THEN 1 ELSE 0) BY <2>1 DEF AnswersHold
    <3>3. CASE q # r BY <3>1, <3>2, <3>3, <2>5, <2>8, <2>9
    <3>4. CASE q = r
      <4>1. CASE says
        <5>1. Going(r)' BY <4>1, <1>3 DEF Going, Does
        <5>2. answered'[r] <= answered[r] + 1 BY <1>0, <1>1, <2>8 DEF Sends, LeadKinds
        <5>3. answered'[r] <= leadDeaths' + 1 BY <5>2, <3>1, <2>7, <2>8, <1>1
        <5> QED BY <5>1, <5>3, <3>4
      <4>2. CASE ~says
        <5>1. CASE took
          <6>1. leadDeaths' = leadDeaths + 1 BY <5>1, <4>2 DEF Sends
          <6>2. answered'[r] <= answered[r] + 1 BY <1>0, <1>1, <2>8 DEF Sends, LeadKinds
          <6> QED BY <6>1, <6>2, <3>4, <2>7, <2>8, <1>1
        <5>2. CASE ~took
          <6>1. answered'[r] = answered[r] BY <1>0, <5>2, <1>1 DEF Sends, LeadKinds
          <6> QED BY <6>1, <3>1, <3>4, <2>7, <2>8, <1>1
        <5> QED BY <5>1, <5>2
      <4> QED BY <4>1, <4>2
    <3> QED BY <3>3, <3>4
  <2>11. \A v \in Workers : work'[v].at \in Sending => lead'[work'[v].of].status # "SENT" BY <1>2, <1>3, <2>3, <2>4 DEF Sending
  <2>12. Cardinality(thisHour' \cup {r}) <= HourLimit
    <3>1. IsFiniteSet(thisHour) /\ Cardinality(thisHour) \in Nat BY LeadsAssumption, FS_Subset, FS_CardinalityType DEF LeadKinds
    <3>2. Cardinality(thisHour \cup {r}) = IF r \in thisHour THEN Cardinality(thisHour) ELSE Cardinality(thisHour) + 1
      BY <3>1, FS_AddElement
    <3> QED BY <3>1, <3>2, <1>2, LeadsAssumption
  <2>13. Cardinality(thisHour') <= HourLimit BY <1>2, <2>1 DEF AnswersHold
  <2>14. \A v \in Workers : work'[v].at = "sent" => work'[v].of = r BY <1>3, <2>3
  <2> QED BY <2>2, <2>10, <2>11, <2>12, <2>13, <2>14 DEF AnswersHold, Does, Sending
<1> QED BY <1>5, <1>6, Uncrowded

LEMMA RecordSendingKeeps == ASSUME LeadsInv, LeadKinds', LeadsNext, NEW w \in Workers, RecordSending(w) PROVE LeadsInv'
<1> USE DEF LeadsInv
<1>0. PICK r \in Requests : r = work[w].of BY DEF LeadKinds, AboutOne, Sends, RecordSending, Does
<1>1. work[w] \in Job /\ r \in Requests /\ work[w].at \in {"sent", "failed"} BY <1>0 DEF LeadKinds, AboutOne, RecordSending, Does
<1>2. UNCHANGED <<drafts, answered, leadDeaths>> /\ lead[r].status # "ABSENT" BY <1>0, <1>1 DEF RecordSending, OnceDrafted
<1>3. PICK j \in Job : work' = [work EXCEPT ![w] = j] /\ j.at \in {"rest", "reading"} BY AfterIs DEF RecordSending
<1>4. (\A v \in Workers \ {w} : work'[v] = work[v]) /\ work'[w].at \in {"rest", "reading"} BY <1>3 DEF LeadKinds
<1>5. /\ \A q \in Requests \ {r} : lead'[q] = lead[q]
      /\ lead'[r].test = lead[r].test /\ lead'[r].status = IF work[w].at = "sent" THEN "SENT" ELSE "FAILED"
  BY <1>0, <1>1 DEF RecordSending, LeadKinds, Row, Does
<1>6. DraftsStay BY <1>0, <1>1, <1>2, <1>4, <1>5 DEF DraftsStay, Sending
<1>7. OnceDrafted' BY <1>6, DraftsStayOnce
<1>8. ASSUME ~crowded' PROVE MonthHolds' /\ AnswersHold'
  <2>1. ~crowded /\ ~TwoBusy /\ MonthHolds /\ AnswersHold BY <1>8, Uncrowded
  <2>2. MonthHolds'
    <3>1. \A v \in Workers : work'[v].at = "storing" => work'[v] = work[v] BY <1>4
    <3> QED BY <2>1, <3>1, <1>6, DraftsStayMonth
  <2>3. \A v \in Workers \ {w} : work[v].at = "rest" /\ work'[v].at = "rest" BY <2>1, <1>1, <1>4, AloneAt
  <2>4. \A v \in Workers : work'[v].at \notin Sending BY <2>3, <1>4 DEF Sending
  <2>5. \A q \in Requests : Going(q)' <=> Going(q)
    <3> SUFFICES ASSUME NEW q \in Requests PROVE Going(q)' <=> Going(q) OBVIOUS
    <3>1. CASE q # r BY <3>1, <1>0, <1>5, <2>3, <2>4 DEF Going, Does, Sending
    <3>2. CASE q = r
      <4>1. Going(r) <=> work[w].at = "sent"
        <5>1. lead[r].status # "SENT" BY <1>0, <1>1, <2>1 DEF AnswersHold
        <5>2. \A v \in Workers : work[v].at = "sent" => v = w BY <2>3
        <5> QED BY <1>0, <1>1, <5>1, <5>2 DEF Going, Does
      <4>2. Going(r)' <=> work[w].at = "sent"
        <5>1. lead'[r].status = "SENT" <=> work[w].at = "sent" BY <1>5
        <5>2. \A v \in Workers : work'[v].at # "sent" BY <2>4 DEF Sending
        <5> QED BY <5>1, <5>2 DEF Going, Does
      <4> QED BY <3>2, <4>1, <4>2
    <3> QED BY <3>1, <3>2
  <2>6. \A q \in Requests : answered'[q] <= leadDeaths' + (IF Going(q)' THEN 1 ELSE 0)
    BY <1>2, <2>1, <2>5 DEF AnswersHold
  <2>7. Cardinality(thisHour') <= HourLimit
    <3>1. CASE work[w].at = "sent" BY <1>0, <3>1, <2>1 DEF AnswersHold, RecordSending, Does
    <3>2. CASE work[w].at # "sent"
      <4>1. thisHour' = thisHour \ {r} BY <1>0, <3>2 DEF RecordSending, Does
      <4>2. IsFiniteSet(thisHour) BY LeadsAssumption, FS_Subset DEF LeadKinds
      <4>3. Cardinality(thisHour') <= Cardinality(thisHour) /\ Cardinality(thisHour') \in Nat /\ Cardinality(thisHour) \in Nat
        BY <4>1, <4>2, FS_Subset, FS_CardinalityType
      <4> QED BY <4>3, <2>1, LeadsAssumption DEF AnswersHold
    <3> QED BY <3>1, <3>2
  <2> QED BY <2>2, <2>4, <2>6, <2>7 DEF AnswersHold, Does, Sending
<1> QED BY <1>7, <1>8, Uncrowded

LEMMA LeadWorkerDiesKeeps == ASSUME LeadsInv, LeadKinds', LeadsNext, NEW w \in Workers, LeadWorkerDies(w) PROVE LeadsInv'
<1> USE DEF LeadsInv
<1>1. UNCHANGED <<lead, drafts, answered, thisHour>> /\ leadDeaths' = leadDeaths + 1 BY DEF LeadWorkerDies
<1>2. (\A v \in Workers \ {w} : work'[v] = work[v]) /\ work'[w].at = "rest" BY DEF LeadWorkerDies, LeadKinds, Resting
<1>3. DraftsStay BY <1>1, <1>2 DEF DraftsStay, Sending
<1>4. OnceDrafted' BY <1>3, DraftsStayOnce
<1>5. ASSUME ~crowded' PROVE MonthHolds' /\ AnswersHold'
  <2>1. ~crowded /\ MonthHolds /\ AnswersHold BY <1>5, Uncrowded
  <2>2. MonthHolds'
    <3>1. \A v \in Workers : work'[v].at = "storing" => work'[v] = work[v] BY <1>2
    <3> QED BY <2>1, <3>1, <1>3, DraftsStayMonth
  <2>3. \A q \in Requests : answered[q] \in Nat /\ leadDeaths \in Nat BY LeadsAssumption DEF LeadKinds
  <2>4. \A q \in Requests : answered'[q] <= leadDeaths' + (IF Going(q)' THEN 1 ELSE 0)
    <3> SUFFICES ASSUME NEW q \in Requests PROVE answered'[q] <= leadDeaths' + (IF Going(q)' THEN 1 ELSE 0) OBVIOUS
    <3>1. answered[q] <= leadDeaths + (IF Going(q) THEN 1 ELSE 0) BY <2>1 DEF AnswersHold
    <3> QED BY <3>1, <1>1, <2>3
  <2> QED BY <1>1, <1>2, <2>1, <2>2, <2>4 DEF AnswersHold, Does
<1> QED BY <1>4, <1>5, Uncrowded

-----------------------------------------------------------------------------
(* The theorems.                                                           *)

LEMMA LeadsInitInv == ASSUME LeadsInit PROVE LeadsInv
<1>1. LeadKinds BY LeadsInitKinds
<1>2. \A w \in Workers : work[w].at = "rest" BY DEF LeadsInit, Resting
<1>3. OnceDrafted BY <1>2 DEF LeadsInit, OnceDrafted, Does
<1>4. Drafted = {} /\ ThisMonth = {} BY <1>2 DEF LeadsInit, Drafted, ThisMonth, Does, NoLead
<1>5. Cardinality({}) = 0 BY FS_EmptySet
<1>6. MonthHolds BY <1>2, <1>4, <1>5, LeadsAssumption DEF MonthHolds, Does
<1>7. AnswersHold
  <2>1. \A r \in Requests : answered[r] <= leadDeaths + (IF Going(r) THEN 1 ELSE 0) BY DEF LeadsInit
  <2>2. Cardinality(thisHour) <= HourLimit BY <1>5, LeadsAssumption DEF LeadsInit
  <2> QED BY <1>2, <2>1, <2>2 DEF AnswersHold, Does
<1>8. ~TwoBusy BY <1>2 DEF TwoBusy, Busy
<1> QED BY <1>1, <1>3, <1>6, <1>7, <1>8 DEF LeadsInv

LEMMA LeadsNextKeeps == ASSUME LeadsInv, LeadsNext PROVE LeadsInv'
<1>1. LeadsStep /\ crowded' \in BOOLEAN BY DEF LeadsNext, LeadsInv, LeadKinds
<1>2. LeadKinds' BY <1>1, LeadsStepKinds DEF LeadsInv
<1>3. LeadKinds BY DEF LeadsInv
<1>4. CASE Quiet BY <1>2, <1>4, QuietKeeps
<1>5. CASE \E t \in Readers : LookUp(t) \/ StoreLead(t) \/ \E good \in BOOLEAN : DraftReply(t, good)
  BY <1>2, <1>5, LookUpKeeps, StoreLeadKeeps, DraftReplyKeeps
<1>6. CASE \E w \in Workers : RecordSending(w) \/ LeadWorkerDies(w) \/ \E t, s \in BOOLEAN : Sends(w, t, s)
  BY <1>2, <1>6, RecordSendingKeeps, LeadWorkerDiesKeeps, SendsKeeps
<1> QED BY <1>1, <1>3, <1>4, <1>5, <1>6, ReadersAreQuiet, OthersAreQuiet, NotSentIsQuiet, OpeningIsQuiet DEF LeadsStep

LEMMA LeadsUnchanged == ASSUME LeadsInv, UNCHANGED leadVars PROVE LeadsInv'
<1> USE DEF LeadsInv, leadVars
<1>1. LeadKinds' BY DEF LeadKinds, AboutOne
<1>2. OnceDrafted' BY DEF OnceDrafted, Does
<1>3. ThisMonth' = ThisMonth /\ Drafted' = Drafted /\ (TwoBusy' <=> TwoBusy) BY DEF ThisMonth, Drafted, Does, TwoBusy, Busy
<1>4. MonthHolds => MonthHolds' BY <1>3 DEF MonthHolds, Does
<1>5. AnswersHold => AnswersHold' BY DEF AnswersHold, Does, Going
<1> QED BY <1>1, <1>2, <1>3, <1>4, <1>5

LEMMA LeadsInvHolds == LeadsSpec => []LeadsInv
<1>1. LeadsInit => LeadsInv BY LeadsInitInv
<1>2. LeadsInv /\ [LeadsNext]_leadVars => LeadsInv' BY LeadsNextKeeps, LeadsUnchanged
<1> QED BY <1>1, <1>2, PTL DEF LeadsSpec

\* The box, the rows and the work of an agency keep their types
\* (services/inbound_leads.py).
THEOREM LeadsTypeCorrect == LeadsSpec => []LeadsTypeOK
<1>1. LeadsInv => LeadsTypeOK BY DEF LeadsInv, LeadKinds, LeadsTypeOK, Job
<1> QED BY <1>1, LeadsInvHolds, PTL

\* However many runs read the box and people send, a request is drafted once;
\* and as long as one works at a time, the plan's month holds, and a request
\* is answered once and within the hour's limit, but for the answers that
\* left without their row saying so (handle, send_reply).
THEOREM LeadsHold == LeadsSpec => []LeadsRight
<1>1. LeadsInv => LeadsRight
  <2> SUFFICES ASSUME LeadsInv PROVE LeadsRight OBVIOUS
  <2> USE DEF LeadsInv
  <2>1. DraftedOnce BY DEF DraftedOnce, OnceDrafted
  <2>2. QuotaKept
    <3> SUFFICES ASSUME ~crowded PROVE Cardinality({r \in Requests : drafts[r] > 0 /\ ~lead[r].test}) <= MonthLimit BY DEF QuotaKept
    <3> DEFINE s == {r \in Requests : drafts[r] > 0 /\ ~lead[r].test}
    <3>1. s \subseteq Drafted BY DEF Drafted
    <3>2. Cardinality(s) <= Cardinality(Drafted) /\ Cardinality(s) \in Nat BY <3>1, DraftedIsFinite, FS_Subset, FS_CardinalityType
    <3> QED BY <3>2, DraftedIsFinite, LeadsAssumption DEF MonthHolds
  <2>3. AnsweredOnce
    <3> SUFFICES ASSUME ~crowded PROVE (\A r \in Requests : answered[r] <= 1 + leadDeaths) /\ Cardinality(thisHour) <= HourLimit
      BY DEF AnsweredOnce
    <3>1. \A r \in Requests : answered[r] \in Nat /\ leadDeaths \in Nat BY LeadsAssumption DEF LeadKinds
    <3>2. \A r \in Requests : answered[r] <= leadDeaths + (IF Going(r) THEN 1 ELSE 0) BY DEF AnswersHold
    <3>3. \A r \in Requests : answered[r] <= 1 + leadDeaths BY <3>1, <3>2
    <3> QED BY <3>3 DEF AnswersHold
  <2> QED BY <2>1, <2>2, <2>3 DEF LeadsRight
<1> QED BY <1>1, LeadsInvHolds, PTL

-----------------------------------------------------------------------------
(* The insurance firm: rows and the columns that a commit carries.         *)

QuoteStatus == {"DRAFT", "SUBMITTED", "HANDLED", "PROPOSAL_SENT", "WON", "LOST"}

Quote == [branch : Branches, firm : BOOLEAN, known : SUBSET Fields, agreed : BOOLEAN, status : QuoteStatus,
          notified : BOOLEAN, handled : BOOLEAN, proposed : BOOLEAN, closed : BOOLEAN, why : BOOLEAN,
          told : Nat, mails : Nat, whole : BOOLEAN, course : Seq(QuoteStatus)]

CaseKinds  == {"RECLAMATION", "SINISTRE"}
CaseStatus == {"RECEIVED", "IN_PROGRESS", "RESOLVED"}

Case == [ref : Nat, kind : CaseKinds, status : CaseStatus, due : 0..2, by : {"BOB", "ADVISER"}, more : Nat,
         acknowledged : BOOLEAN, started : BOOLEAN, resolved : BOOLEAN, answer : BOOLEAN,
         said : 0..2, retyped : BOOLEAN, course : Seq(CaseStatus)]

LEMMA SavedIs ==
    ASSUME NEW now \in Quote, NEW read \in Quote, NEW new \in Quote
    PROVE  LET row == Saved(now, read, new) IN
           /\ row \in Quote
           /\ row.branch = IF new.branch # read.branch THEN new.branch ELSE now.branch
           /\ row.agreed = IF new.agreed # read.agreed THEN new.agreed ELSE now.agreed
           /\ row.status = IF new.status # read.status THEN new.status ELSE now.status
           /\ row.notified = IF new.notified # read.notified THEN new.notified ELSE now.notified
           /\ row.mails = IF new.mails # read.mails THEN new.mails ELSE now.mails
           /\ row.closed = IF new.closed # read.closed THEN new.closed ELSE now.closed
           /\ row.why = IF new.why # read.why THEN new.why ELSE now.why
<1> DEFINE row == Saved(now, read, new)
<1>1. DOMAIN now = {"branch", "firm", "known", "agreed", "status", "notified", "handled", "proposed", "closed", "why", "told", "mails", "whole", "course"}
  BY DEF Quote
<1>2. row = [c \in DOMAIN now |-> IF new[c] # read[c] THEN new[c] ELSE now[c]] BY DEF Saved
<1>3. \A c \in DOMAIN now : row[c] = IF new[c] # read[c] THEN new[c] ELSE now[c] BY <1>2
<1>4. row \in Quote
  <2>1. row = [branch |-> row.branch, firm |-> row.firm, known |-> row.known, agreed |-> row.agreed, status |-> row.status,
               notified |-> row.notified, handled |-> row.handled, proposed |-> row.proposed, closed |-> row.closed, why |-> row.why,
               told |-> row.told, mails |-> row.mails, whole |-> row.whole, course |-> row.course]
    BY <1>1, <1>2
  <2> QED BY <2>1, <1>1, <1>3 DEF Quote
<1> QED BY <1>1, <1>3, <1>4

LEMMA SavedAlone == ASSUME NEW now \in Quote, NEW new \in Quote PROVE Saved(now, now, new) = new
<1>1. DOMAIN now = DOMAIN new BY DEF Quote
<1>2. \A c \in DOMAIN now : (IF new[c] # now[c] THEN new[c] ELSE now[c]) = new[c] OBVIOUS
<1>3. Saved(now, now, new) = [c \in DOMAIN new |-> new[c]] BY <1>1, <1>2 DEF Saved
<1>4. new = [c \in DOMAIN new |-> new[c]] BY DEF Quote
<1> QED BY <1>3, <1>4

\* Passed on, agreed to and complete.
PassedOn(read, new) ==
    /\ read.status = "DRAFT" /\ new.status = "SUBMITTED" /\ new.agreed /\ Missing(new) = {}
    /\ new.told = read.told + 1 /\ new.closed = read.closed /\ new.why = read.why

SameStep(read, new) ==
    new.status = read.status /\ new.told = read.told /\ new.closed = read.closed /\ new.why = read.why

\* A step of the follow-up.
FurtherStep(read, new) ==
    /\ new.status \in Follows(read.status) /\ new.agreed = read.agreed /\ new.told = read.told
    /\ new.closed = (IF new.status \in {"WON", "LOST"} THEN TRUE
                     ELSE IF new.status = "HANDLED" /\ read.status = "LOST" THEN FALSE ELSE read.closed)
    /\ new.why = (IF new.status = "LOST" THEN TRUE
                  ELSE IF new.status = "WON" \/ (new.status = "HANDLED" /\ read.status = "LOST") THEN FALSE ELSE read.why)

\* What a job makes of the row that it read.
Worked(read, new) ==
    /\ new \in Quote /\ new.branch = read.branch
    /\ new.notified = read.notified /\ new.mails = read.mails /\ new.whole = read.whole /\ new.course = read.course
    /\ read.agreed => new.agreed
    /\ SameStep(read, new) \/ PassedOn(read, new) \/ FurtherStep(read, new)

LEMMA FilledIs ==
    ASSUME NEW q \in Quote, NEW firm \in BOOLEAN, NEW values \in SUBSET Fields, NEW agrees \in BOOLEAN
    PROVE  /\ Worked(q, Filled(q, firm, values, agrees))
           /\ q.status # "DRAFT" => Filled(q, firm, values, agrees).status = q.status
<1> DEFINE r == [q EXCEPT !.firm = firm, !.known = @ \cup values, !.agreed = @ \/ agrees]
<1>1. PICK f : f = Filled(q, firm, values, agrees) OBVIOUS
<1>2. /\ r \in Quote /\ r.branch = q.branch /\ r.status = q.status /\ r.told = q.told /\ r.closed = q.closed /\ r.why = q.why
      /\ r.notified = q.notified /\ r.mails = q.mails /\ r.whole = q.whole /\ r.course = q.course
      /\ q.agreed => r.agreed
  BY DEF Quote
<1>3. f = SubmitIfReady(r) BY <1>1 DEF Filled
<1> HIDE DEF r
<1>4. CASE ReadyToSend(r)
  <2>0. PICK told \in Nat : told = r.told + 1
    <3>1. r.told \in Nat BY <1>2 DEF Quote
    <3> QED BY <3>1
  <2>1. f = [r EXCEPT !.status = "SUBMITTED", !.told = told] BY <1>3, <1>4, <2>0 DEF SubmitIfReady
  <2>2. /\ f \in Quote /\ f.branch = r.branch /\ f.status = "SUBMITTED" /\ f.told = told /\ f.closed = r.closed /\ f.why = r.why
        /\ f.notified = r.notified /\ f.mails = r.mails /\ f.whole = r.whole /\ f.course = r.course
        /\ f.agreed = r.agreed /\ f.firm = r.firm /\ f.known = r.known
    BY <2>1, <1>2 DEF Quote, QuoteStatus
  <2>3. r.status = "DRAFT" /\ r.agreed /\ Missing(f) = {} BY <2>2, <1>4 DEF ReadyToSend, Missing
  <2>4. PassedOn(q, f) BY <1>2, <2>0, <2>2, <2>3 DEF PassedOn
  <2> QED BY <1>1, <1>2, <2>2, <2>3, <2>4 DEF Worked
<1>5. CASE ~ReadyToSend(r)
  <2>1. f = r BY <1>3, <1>5 DEF SubmitIfReady
  <2>2. SameStep(q, f) BY <1>2, <2>1 DEF SameStep
  <2> QED BY <1>1, <1>2, <2>1, <2>2 DEF Worked
<1> QED BY <1>4, <1>5

LEMMA FollowsIs ==
    /\ Follows("DRAFT") = {} /\ Follows("SUBMITTED") = {"HANDLED", "PROPOSAL_SENT", "WON", "LOST"}
    /\ Follows("HANDLED") = {"PROPOSAL_SENT", "WON", "LOST"} /\ Follows("PROPOSAL_SENT") = {"WON", "LOST"}
    /\ Follows("LOST") = {"HANDLED"} /\ Follows("WON") = {}
BY DEF Follows

LEMMA AdvancedIs ==
    ASSUME NEW q \in Quote, NEW to \in Follows(q.status)
    PROVE  Worked(q, Advanced(q, to))
<1>1. PICK f : f = Advanced(q, to) OBVIOUS
<1>2. to \in {"HANDLED", "PROPOSAL_SENT", "WON", "LOST"} BY FollowsIs DEF Quote, QuoteStatus
<1>3. to \in QuoteStatus /\ (q.proposed \/ to = "PROPOSAL_SENT") \in BOOLEAN BY <1>2 DEF QuoteStatus
<1>4. PICK cl \in BOOLEAN : cl = IF to \in {"WON", "LOST"} THEN TRUE ELSE IF to = "HANDLED" /\ q.status = "LOST" THEN FALSE ELSE q.closed
  BY DEF Quote
<1>5. PICK wy \in BOOLEAN : wy = IF to = "LOST" THEN TRUE
                      ELSE IF to = "WON" \/ (to = "HANDLED" /\ q.status = "LOST") THEN FALSE ELSE q.why
  BY DEF Quote
<1>6. f = [q EXCEPT !.status = to, !.handled = TRUE, !.proposed = (q.proposed \/ to = "PROPOSAL_SENT"), !.closed = cl, !.why = wy]
  BY <1>1, <1>4, <1>5 DEF Advanced
<1>7. /\ f \in Quote /\ f.branch = q.branch /\ f.status = to /\ f.told = q.told /\ f.closed = cl /\ f.why = wy
      /\ f.notified = q.notified /\ f.mails = q.mails /\ f.whole = q.whole /\ f.course = q.course /\ f.agreed = q.agreed
  BY <1>3, <1>6 DEF Quote
<1>8. FurtherStep(q, f) BY <1>4, <1>5, <1>7 DEF FurtherStep
<1> QED BY <1>1, <1>7, <1>8 DEF Worked

LEMMA StoredIs ==
    ASSUME NEW now \in Quote, NEW read \in Quote, NEW new \in Quote, Worked(read, new)
    PROVE  LET row == Saved(now, read, new)
               st  == Stored(now, read, new) IN
           /\ st \in Quote /\ st.branch = now.branch /\ st.notified = now.notified /\ st.mails = now.mails
           /\ st.agreed = row.agreed /\ st.status = row.status /\ st.closed = row.closed /\ st.why = row.why
           /\ st.told = now.told + (new.told - read.told)
           /\ st.whole = (now.whole /\ (new.status = "SUBMITTED" /\ read.status = "DRAFT" => Missing(row) = {}))
           /\ st.course = IF row.status = now.status THEN now.course ELSE Append(now.course, row.status)
<1>1. PICK row : row = Saved(now, read, new) OBVIOUS
<1>2. /\ row \in Quote /\ row.branch = now.branch /\ row.notified = now.notified /\ row.mails = now.mails
  BY <1>1, SavedIs DEF Worked
<1>3. now.told + (new.told - read.told) \in Nat
  <2>1. now.told \in Nat /\ read.told \in Nat BY DEF Quote
  <2>2. new.told = read.told \/ new.told = read.told + 1 BY DEF Worked, SameStep, PassedOn, FurtherStep
  <2> QED BY <2>1, <2>2
<1>4. PICK co \in Seq(QuoteStatus) : co = IF row.status = now.status THEN now.course ELSE Append(now.course, row.status)
  <2>1. PICK c \in Seq(QuoteStatus) : c = now.course BY DEF Quote
  <2>2. PICK to \in QuoteStatus : to = row.status BY <1>2 DEF Quote
  <2>3. Append(c, to) \in Seq(QuoteStatus) OBVIOUS
  <2> QED BY <2>1, <2>2, <2>3
<1>5. PICK wh \in BOOLEAN : wh = (now.whole /\ (new.status = "SUBMITTED" /\ read.status = "DRAFT" => Missing(row) = {}))
  BY DEF Quote
<1>6. PICK st : st = Stored(now, read, new) OBVIOUS
<1>7. st = [row EXCEPT !.told = now.told + (new.told - read.told), !.whole = wh, !.course = co]
  BY <1>1, <1>4, <1>5, <1>6 DEF Stored
<1>8. /\ st \in Quote /\ st.branch = row.branch /\ st.notified = row.notified /\ st.mails = row.mails
      /\ st.agreed = row.agreed /\ st.status = row.status /\ st.closed = row.closed /\ st.why = row.why
      /\ st.told = now.told + (new.told - read.told) /\ st.whole = wh /\ st.course = co
  BY <1>2, <1>3, <1>7 DEF Quote
<1> QED BY <1>1, <1>2, <1>4, <1>5, <1>6, <1>8

LEMMA MailClaimedIs ==
    ASSUME NEW q \in Quote
    PROVE  LET m == MailClaimed(q) IN
           /\ m \in Quote /\ m.branch = q.branch /\ m.agreed = q.agreed /\ m.status = q.status /\ m.closed = q.closed
           /\ m.why = q.why /\ m.told = q.told /\ m.whole = q.whole /\ m.course = q.course
           /\ \/ m.notified = q.notified /\ m.mails = q.mails
              \/ ~q.notified /\ m.notified /\ m.mails = q.mails + 1
<1>1. PICK m : m = MailClaimed(q) OBVIOUS
<1>2. PICK mails \in Nat : mails = q.mails BY DEF Quote
<1>3. CASE q.status = "SUBMITTED" /\ ~q.notified
  <2>1. mails + 1 \in Nat OBVIOUS
  <2>2. m = [q EXCEPT !.notified = TRUE, !.mails = mails + 1] BY <1>1, <1>2, <1>3 DEF MailClaimed
  <2> HIDE <1>2
  <2>3. /\ m \in Quote /\ m.branch = q.branch /\ m.agreed = q.agreed /\ m.status = q.status /\ m.closed = q.closed
        /\ m.why = q.why /\ m.told = q.told /\ m.whole = q.whole /\ m.course = q.course
        /\ m.notified = TRUE /\ m.mails = mails + 1
    BY <2>1, <2>2 DEF Quote
  <2> QED BY <1>1, <1>2, <1>3, <2>3
<1>4. CASE ~(q.status = "SUBMITTED" /\ ~q.notified) BY <1>4 DEF MailClaimed
<1> QED BY <1>3, <1>4

LEMMA NewQuoteIs ==
    ASSUME NEW b \in Branches
    PROVE  LET q == NewQuote(b) IN
           /\ q \in Quote /\ q.branch = b /\ q.agreed = FALSE /\ q.status = "DRAFT" /\ q.notified = FALSE /\ q.closed = FALSE
           /\ q.why = FALSE /\ q.told = 0 /\ q.mails = 0 /\ q.whole = TRUE /\ q.course = <<"DRAFT">>
<1>1. <<"DRAFT">> \in Seq(QuoteStatus) BY DEF QuoteStatus
<1> QED BY <1>1 DEF NewQuote, Quote, QuoteStatus

-----------------------------------------------------------------------------
(* A row of the quote requests, whoever writes it and whatever he had read. *)

Agreed(q)      == q.status # "DRAFT" => q.agreed
MailedRight(q) == q.mails <= 1 /\ (q.mails = 1 => q.notified)

\* Whatever the commit, the agreement stays, and nothing is passed on without it.
KeptRow(q, r) ==
    /\ r \in Quote /\ r.branch = q.branch /\ (q.agreed => r.agreed)
    /\ (Agreed(q) => Agreed(r)) /\ (MailedRight(q) => MailedRight(r))

NextOf(st) == IF st = "DRAFT" THEN {"SUBMITTED"} ELSE Follows(st)

\* The statuses a request went through, up to the one it has.
Went(course, st) ==
    /\ course \in Seq(QuoteStatus) /\ course # <<>> /\ course[Len(course)] = st
    /\ \A n \in 1..(Len(course) - 1) : course[n + 1] \in NextOf(course[n])

WholeRow(q) ==
    /\ q.whole /\ q.told = (IF q.status = "DRAFT" THEN 0 ELSE 1) /\ Went(q.course, q.status)
    /\ q.closed <=> q.status \in {"WON", "LOST"}
    /\ q.why <=> q.status = "LOST"

LEMMA WentOn ==
    ASSUME NEW course, NEW st, Went(course, st), NEW to \in QuoteStatus, to \in NextOf(st)
    PROVE  Went(Append(course, to), to)
<1> DEFINE c == Append(course, to)
<1>1. course \in Seq(QuoteStatus) /\ Len(course) \in Nat /\ Len(course) > 0 /\ course[Len(course)] = st BY DEF Went
<1>2. c \in Seq(QuoteStatus) /\ c # <<>> /\ Len(c) = Len(course) + 1 /\ c[Len(c)] = to BY <1>1
<1>3. \A n \in 1..Len(course) : c[n] = course[n] BY <1>1
<1>4. ASSUME NEW n \in 1..(Len(c) - 1) PROVE c[n + 1] \in NextOf(c[n])
  <2>1. CASE n = Len(course) BY <2>1, <1>1, <1>2, <1>3
  <2>2. CASE n # Len(course)
    <3>1. n \in 1..(Len(course) - 1) /\ n + 1 \in 1..Len(course) BY <2>2, <1>1, <1>2
    <3> QED BY <3>1, <1>3 DEF Went
  <2> QED BY <2>1, <2>2
<1> QED BY <1>2, <1>4 DEF Went

LEMMA KeptStored ==
    ASSUME NEW now \in Quote, NEW read \in Quote, NEW new \in Quote, Worked(read, new), Agreed(read), read.agreed => now.agreed
    PROVE  KeptRow(now, Stored(now, read, new))
<1>1. PICK st \in Quote : /\ st = Stored(now, read, new) /\ st.branch = now.branch /\ st.notified = now.notified /\ st.mails = now.mails
                          /\ st.agreed = IF new.agreed # read.agreed THEN new.agreed ELSE now.agreed
                          /\ st.status = IF new.status # read.status THEN new.status ELSE now.status
  BY StoredIs, SavedIs
<1>2. {now.agreed, read.agreed, new.agreed} \subseteq BOOLEAN BY DEF Quote
<1>3. now.agreed => st.agreed BY <1>1, <1>2 DEF Worked
<1>4. CASE new.status = read.status BY <1>1, <1>3, <1>4 DEF KeptRow, Agreed, MailedRight
<1>5. CASE new.status # read.status
  <2>1. st.agreed
    <3>1. CASE PassedOn(read, new) BY <3>1, <1>1, <1>2 DEF PassedOn
    <3>2. CASE FurtherStep(read, new) BY <3>2, <1>3, FollowsIs DEF FurtherStep, Agreed
    <3>3. ~SameStep(read, new) BY <1>5 DEF SameStep
    <3> QED BY <3>1, <3>2, <3>3 DEF Worked
  <2> QED BY <2>1, <1>1, <1>3 DEF KeptRow, Agreed, MailedRight
<1> QED BY <1>4, <1>5

LEMMA WholeStored ==
    ASSUME NEW now \in Quote, NEW new \in Quote, Worked(now, new), WholeRow(now)
    PROVE  WholeRow(Stored(now, now, new)) /\ (Open(Stored(now, now, new)) => Open(now))
<1>1. Saved(now, now, new) = new BY SavedAlone
<1>2. PICK st \in Quote : st = Stored(now, now, new) BY StoredIs
<1>3. st.status = new.status /\ st.closed = new.closed /\ st.why = new.why BY <1>1, <1>2, StoredIs
<1>4. st.told = now.told + (new.told - now.told) BY <1>2, StoredIs
<1>5. st.whole = (now.whole /\ (new.status = "SUBMITTED" /\ now.status = "DRAFT" => Missing(new) = {})) BY <1>1, <1>2, StoredIs
<1>6. st.course = IF new.status = now.status THEN now.course ELSE Append(now.course, new.status) BY <1>1, <1>2, StoredIs
<1>7. now.told \in Nat /\ new.told \in Nat BY DEF Quote
<1>8. st.told = new.told BY <1>4, <1>7
<1> SUFFICES WholeRow(st) /\ (Open(st) => Open(now)) BY <1>2
<1>9. CASE SameStep(now, new) BY <1>3, <1>5, <1>6, <1>8, <1>9 DEF SameStep, WholeRow, Open
<1>10. CASE PassedOn(now, new)
  <2>1. now.status = "DRAFT" /\ new.status = "SUBMITTED" BY <1>10 DEF PassedOn
  <2>2. Went(st.course, st.status)
    <3>1. Went(now.course, "DRAFT") BY <2>1 DEF WholeRow
    <3>2. "SUBMITTED" \in QuoteStatus /\ "SUBMITTED" \in NextOf("DRAFT") BY DEF QuoteStatus, NextOf
    <3>3. Went(Append(now.course, "SUBMITTED"), "SUBMITTED") BY <3>1, <3>2, WentOn
    <3>4. st.course = Append(now.course, new.status) BY <2>1, <1>6
    <3> QED BY <3>3, <3>4, <2>1, <1>3
  <2>3. st.whole /\ st.told = 1
    <3>1. Missing(new) = {} /\ new.told = now.told + 1 BY <1>10 DEF PassedOn
    <3>2. now.whole /\ now.told = 0 BY <2>1 DEF WholeRow
    <3>3. st.whole BY <3>1, <3>2, <1>5
    <3> QED BY <3>1, <3>2, <3>3, <1>8
  <2>4. (st.closed <=> FALSE) /\ (st.why <=> FALSE) BY <2>1, <1>3, <1>10 DEF PassedOn, WholeRow
  <2> QED BY <2>1, <2>2, <2>3, <2>4, <1>3 DEF WholeRow, Open
<1>11. CASE FurtherStep(now, new)
  <2>1. new.status \in Follows(now.status) /\ now.status \in QuoteStatus /\ new.status \in QuoteStatus BY <1>11 DEF FurtherStep, Quote
  <2>2. now.status # "DRAFT" /\ new.status \notin {"DRAFT", "SUBMITTED"} /\ new.status # now.status BY <2>1, FollowsIs DEF QuoteStatus
  <2>3. Went(st.course, st.status) BY <2>1, <2>2, <1>3, <1>6, WentOn DEF WholeRow, NextOf
  <2>4. st.whole /\ st.told = 1 BY <2>2, <1>5, <1>8, <1>11 DEF FurtherStep, WholeRow
  <2>5. (st.closed <=> st.status \in {"WON", "LOST"}) /\ (st.why <=> st.status = "LOST")
    BY <2>1, <1>3, <1>11, FollowsIs DEF FurtherStep, WholeRow, QuoteStatus
  <2> QED BY <2>2, <2>3, <2>4, <2>5, <1>3 DEF WholeRow, Open
<1> QED BY <1>9, <1>10, <1>11 DEF Worked

LEMMA MailKeeps ==
    ASSUME NEW q \in Quote
    PROVE  /\ KeptRow(q, MailClaimed(q))
           /\ WholeRow(q) => WholeRow(MailClaimed(q))
           /\ MailClaimed(q).status = q.status
<1>1. PICK m : m = MailClaimed(q) OBVIOUS
<1>2. q.mails \in Nat BY DEF Quote
<1>3. /\ m \in Quote /\ m.branch = q.branch /\ m.agreed = q.agreed /\ m.status = q.status /\ m.closed = q.closed
      /\ m.why = q.why /\ m.told = q.told /\ m.whole = q.whole /\ m.course = q.course
      /\ \/ m.notified = q.notified /\ m.mails = q.mails
         \/ ~q.notified /\ m.notified /\ m.mails = q.mails + 1
  BY <1>1, MailClaimedIs
<1>4. MailedRight(q) => MailedRight(m) BY <1>2, <1>3 DEF MailedRight
<1> QED BY <1>1, <1>3, <1>4 DEF KeptRow, Agreed, WholeRow

\* The row of a new request.
LEMMA OpenedIs ==
    ASSUME NEW b \in Branches, NEW new, Worked(NewQuote(b), new)
    PROVE  LET row == [new EXCEPT !.course = IF new.status = "DRAFT" THEN @ ELSE Append(@, new.status)] IN
           row \in Quote /\ row.branch = b /\ Agreed(row) /\ MailedRight(row) /\ WholeRow(row)
<1>1. PICK q \in Quote : q = NewQuote(b) BY NewQuoteIs
<1>2. /\ q.branch = b /\ q.agreed = FALSE /\ q.status = "DRAFT" /\ q.notified = FALSE /\ q.closed = FALSE
      /\ q.why = FALSE /\ q.told = 0 /\ q.mails = 0 /\ q.whole = TRUE /\ q.course = <<"DRAFT">>
  BY <1>1, NewQuoteIs
<1>3. PICK co : co = IF new.status = "DRAFT" THEN new.course ELSE Append(new.course, new.status) OBVIOUS
<1>4. new \in Quote /\ new.course = <<"DRAFT">> /\ new.mails = 0 /\ new.branch = b /\ new.whole = TRUE BY <1>1, <1>2 DEF Worked
<1>5. Went(<<"DRAFT">>, "DRAFT") BY DEF Went, QuoteStatus
<1>6. ~FurtherStep(q, new) BY <1>2, FollowsIs DEF FurtherStep
<1>7. \/ new.status = "DRAFT" /\ new.told = 0 /\ new.closed = FALSE /\ new.why = FALSE
      \/ new.status = "SUBMITTED" /\ new.told = 1 /\ new.agreed /\ new.closed = FALSE /\ new.why = FALSE
  BY <1>1, <1>2, <1>6 DEF Worked, SameStep, PassedOn
<1>8. Went(co, new.status)
  <2>1. CASE new.status = "DRAFT" BY <2>1, <1>3, <1>4, <1>5
  <2>2. CASE new.status = "SUBMITTED" BY <2>2, <1>3, <1>4, <1>5, WentOn DEF NextOf, QuoteStatus
  <2> QED BY <2>1, <2>2, <1>7
<1>9. PICK row : row = [new EXCEPT !.course = co] OBVIOUS
<1>10. /\ row \in Quote /\ row.branch = b /\ row.status = new.status /\ row.agreed = new.agreed /\ row.mails = 0 /\ row.whole = TRUE
       /\ row.told = new.told /\ row.closed = new.closed /\ row.why = new.why /\ row.course = co
  BY <1>4, <1>8, <1>9 DEF Quote, Went
<1>11. Agreed(row) /\ MailedRight(row) BY <1>7, <1>10 DEF Agreed, MailedRight
<1>12. WholeRow(row) BY <1>7, <1>8, <1>10 DEF WholeRow
<1> QED BY <1>3, <1>9, <1>10, <1>11, <1>12

-----------------------------------------------------------------------------
(* The table of the quote requests: what a job writes.                     *)

Awaitable == Fields \cup {NoAnswer, "complaint"}

Jobs ==
    {Idle, [at |-> "announce"]} \cup [at : {"acknowledge"}, ref : Nat]
        \cup [at : {"read"}, quotes : Seq(Quote), filed : Seq(Case), awaited : Awaitable]

DeskKinds ==
    /\ quotes \in Seq(Quote) /\ Len(quotes) <= MaxQuotes /\ filed \in Seq(Case) /\ Len(filed) <= MaxFiled
    /\ awaited \in Awaitable /\ shown \subseteq Fields \cup {"send"} /\ delay \in {1, 2} /\ overlapped \in BOOLEAN
    /\ job \in [Webhooks \cup Advisers -> Jobs]

\* What a job has read, the table has since: the agreements given, and more.
QuotesBehind(r, s) ==
    Len(r) <= Len(s) /\ \A i \in DOMAIN r : Agreed(r[i]) /\ (r[i].agreed => s[i].agreed)

Grown(s, t) ==
    /\ t \in Seq(Quote) /\ Len(s) <= Len(t) /\ Len(t) <= MaxQuotes
    /\ \A i \in DOMAIN s : KeptRow(s[i], t[i])
    /\ \A i \in DOMAIN t : i \notin DOMAIN s => Agreed(t[i]) /\ MailedRight(t[i])

\* Alone, a job opens one request at most, of a branch that had none.
GrownAlone(s, t) ==
    /\ Len(s) <= Len(t) /\ Len(t) <= Len(s) + 1
    /\ \A i \in DOMAIN s : WholeRow(t[i]) /\ (Open(t[i]) => Open(s[i]))
    /\ \A i \in DOMAIN t : i \notin DOMAIN s =>
          WholeRow(t[i]) /\ \A j \in DOMAIN s : ~(Open(s[j]) /\ s[j].branch = t[i].branch)

LEMMA ReadIs ==
    ASSUME DeskKinds, NEW w \in Webhooks \cup Advisers, job[w].at = "read"
    PROVE  job[w].quotes \in Seq(Quote) /\ job[w].filed \in Seq(Case) /\ job[w].awaited \in Awaitable /\ job[w] # Idle
BY DEF DeskKinds, Jobs, Idle

LEMMA OpenRequestIs ==
    ASSUME NEW s \in Seq(Quote), NEW b
    PROVE  \/ OpenRequest(s, b) \in DOMAIN s /\ s[OpenRequest(s, b)].branch = b /\ Open(s[OpenRequest(s, b)])
           \/ OpenRequest(s, b) = 0 /\ \A i \in DOMAIN s : ~(s[i].branch = b /\ Open(s[i]))
<1> DEFINE is == {i \in DOMAIN s : s[i].branch = b /\ Open(s[i])}
<1>1. CASE is = {} BY <1>1 DEF OpenRequest
<1>2. CASE is # {}
  <2>1. Len(s) \in Nat /\ is \in SUBSET (0..Len(s)) OBVIOUS
  <2>2. \E m \in is : \A k \in is : k <= m BY <2>1, <1>2, HasGreatest
  <2>3. OpenRequest(s, b) = CHOOSE i \in is : \A j \in is : j <= i BY <1>2 DEF OpenRequest
  <2>4. OpenRequest(s, b) \in is BY <2>2, <2>3
  <2> QED BY <2>4
<1> QED BY <1>1, <1>2

LEMMA QuoteReadIs ==
    ASSUME DeskKinds, NEW w \in Webhooks \cup Advisers, job[w].at = "read", NEW b \in Branches
    PROVE  /\ QuoteRead(w, b) \in Quote
           /\ OpenRequest(job[w].quotes, b) = 0 => QuoteRead(w, b) = NewQuote(b)
           /\ OpenRequest(job[w].quotes, b) # 0 => /\ OpenRequest(job[w].quotes, b) \in DOMAIN job[w].quotes
                                                   /\ QuoteRead(w, b) = job[w].quotes[OpenRequest(job[w].quotes, b)]
<1>1. PICK r \in Seq(Quote) : r = job[w].quotes BY ReadIs
<1>2. PICK i : i = OpenRequest(r, b) OBVIOUS
<1>3. i \in DOMAIN r \/ i = 0 BY <1>2, OpenRequestIs
<1>4. QuoteRead(w, b) = IF i = 0 THEN NewQuote(b) ELSE r[i] BY <1>1, <1>2 DEF QuoteRead
<1>5. NewQuote(b) \in Quote BY NewQuoteIs
<1>6. i = OpenRequest(job[w].quotes, b) BY <1>1, <1>2
<1> QED BY <1>1, <1>3, <1>4, <1>5, <1>6

LEMMA KeptOnAndOn ==
    ASSUME NEW q, NEW r, NEW t, KeptRow(q, r), KeptRow(r, t)
    PROVE  KeptRow(q, t)
BY DEF KeptRow

LEMMA KeptAsItIs == ASSUME NEW q \in Quote PROVE KeptRow(q, q)
BY DEF KeptRow

LEMMA WriteQuoteIs ==
    ASSUME DeskKinds, NEW w \in Webhooks \cup Advisers, job[w].at = "read", QuotesBehind(job[w].quotes, quotes),
           NEW b \in Branches, Room(w, b), NEW new, Worked(QuoteRead(w, b), new)
    PROVE  Grown(quotes, WriteQuote(w, b, new))
<1>1. PICK r \in Seq(Quote) : r = job[w].quotes BY ReadIs
<1>2. PICK i : i = OpenRequest(r, b) OBVIOUS
<1>3. quotes \in Seq(Quote) /\ Len(quotes) <= MaxQuotes /\ Len(quotes) \in Nat /\ Len(r) \in Nat BY DEF DeskKinds
<1>4. PICK t : t = WriteQuote(w, b, new) OBVIOUS
<1> SUFFICES Grown(quotes, t) BY <1>4
<1>5. \A j \in DOMAIN quotes : KeptRow(quotes[j], quotes[j]) BY <1>3, KeptAsItIs
<1>6. CASE i = 0
  <2>1. Worked(NewQuote(b), new) BY <1>1, <1>2, <1>6, QuoteReadIs
  <2>2. PICK row \in Quote : /\ row = [new EXCEPT !.course = IF new.status = "DRAFT" THEN @ ELSE Append(@, new.status)]
                             /\ Agreed(row) /\ MailedRight(row)
    BY <2>1, OpenedIs
  <2>3. t = Append(quotes, row) BY <1>1, <1>2, <1>4, <1>6, <2>2 DEF WriteQuote
  <2>4. Len(quotes) < MaxQuotes BY <1>1, <1>2, <1>6 DEF Room
  <2>5. t \in Seq(Quote) /\ Len(t) = Len(quotes) + 1 /\ (\A j \in DOMAIN quotes : t[j] = quotes[j]) /\ t[Len(t)] = row
    BY <2>3, <1>3
  <2>6. \A j \in DOMAIN t : j \notin DOMAIN quotes => j = Len(t) BY <2>5, <1>3
  <2>7. MaxQuotes \in Nat BY DeskAssumption
  <2> QED BY <2>2, <2>4, <2>5, <2>6, <2>7, <1>3, <1>5 DEF Grown
<1>7. CASE i # 0
  <2>1. i \in DOMAIN r /\ QuoteRead(w, b) = r[i] /\ Worked(r[i], new) BY <1>1, <1>2, <1>7, QuoteReadIs
  <2>2. PICK now \in Quote : now = quotes[i] /\ i \in DOMAIN quotes BY <2>1, <1>1, <1>3 DEF QuotesBehind
  <2>3. PICK read \in Quote : read = r[i] BY <2>1, <1>1
  <2>4. Agreed(read) /\ (read.agreed => now.agreed) BY <2>1, <2>2, <2>3, <1>1 DEF QuotesBehind
  <2>5. PICK st : st = Stored(now, read, new) OBVIOUS
  <2>6. KeptRow(now, st) BY <2>1, <2>3, <2>4, <2>5, KeptStored DEF Worked
  <2>7. t = [quotes EXCEPT ![i] = st] BY <1>1, <1>2, <1>4, <1>7, <2>2, <2>3, <2>5 DEF WriteQuote
  <2>8. st \in Quote BY <2>6 DEF KeptRow
  <2>9. t \in Seq(Quote) /\ Len(t) = Len(quotes) /\ t[i] = st /\ \A j \in DOMAIN quotes \ {i} : t[j] = quotes[j]
    BY <2>2, <2>7, <2>8, <1>3
  <2>10. \A j \in DOMAIN quotes : KeptRow(quotes[j], t[j]) BY <2>2, <2>6, <2>9, <1>5
  <2>11. DOMAIN t = DOMAIN quotes BY <2>9, <1>3
  <2> QED BY <2>9, <2>10, <2>11, <1>3 DEF Grown
<1> QED BY <1>6, <1>7

LEMMA WriteQuoteAlone ==
    ASSUME DeskKinds, NEW w \in Webhooks \cup Advisers, job[w].at = "read", job[w].quotes = quotes,
           \A i \in DOMAIN quotes : WholeRow(quotes[i]),
           NEW b \in Branches, NEW new, Worked(QuoteRead(w, b), new)
    PROVE  GrownAlone(quotes, WriteQuote(w, b, new))
<1>1. quotes \in Seq(Quote) /\ Len(quotes) \in Nat BY DEF DeskKinds
<1>2. PICK i : i = OpenRequest(quotes, b) OBVIOUS
<1>4. PICK t : t = WriteQuote(w, b, new) OBVIOUS
<1> SUFFICES GrownAlone(quotes, t) BY <1>4
<1>6. CASE i = 0
  <2>1. Worked(NewQuote(b), new) BY <1>2, <1>6, QuoteReadIs
  <2>2. PICK row : row = [new EXCEPT !.course = IF new.status = "DRAFT" THEN @ ELSE Append(@, new.status)] OBVIOUS
  <2>0. row \in Quote /\ row.branch = b /\ WholeRow(row) BY <2>1, <2>2, OpenedIs
  <2>3. t = Append(quotes, row) BY <1>2, <1>4, <1>6, <2>2 DEF WriteQuote
  <2>4. /\ t \in Seq(Quote) /\ Len(t) = Len(quotes) + 1 /\ (\A j \in DOMAIN quotes : t[j] = quotes[j]) /\ t[Len(t)] = row
    BY <2>0, <2>3, <1>1
  <2>5. \A j \in DOMAIN t : j \notin DOMAIN quotes => j = Len(t) BY <2>4, <1>1
  <2>6. \A j \in DOMAIN quotes : ~(Open(quotes[j]) /\ quotes[j].branch = b)
    <3>1. 0 \notin DOMAIN quotes BY <1>1
    <3>2. \/ OpenRequest(quotes, b) \in DOMAIN quotes
          \/ \A j \in DOMAIN quotes : ~(quotes[j].branch = b /\ Open(quotes[j]))
      BY <1>1, OpenRequestIs
    <3> QED BY <3>1, <3>2, <1>2, <1>6
  <2> QED BY <2>0, <2>4, <2>5, <2>6, <1>1 DEF GrownAlone
<1>7. CASE i # 0
  <2>1. i \in DOMAIN quotes /\ Worked(quotes[i], new) BY <1>2, <1>7, QuoteReadIs
  <2>2. PICK now \in Quote : now = quotes[i] BY <2>1, <1>1
  <2>3. PICK st : st = Stored(now, now, new) OBVIOUS
  <2>4. WholeRow(st) /\ (Open(st) => Open(now)) BY <2>1, <2>2, <2>3, WholeStored DEF Worked
  <2>5. t = [quotes EXCEPT ![i] = st] BY <1>2, <1>4, <1>7, <2>2, <2>3 DEF WriteQuote
  <2>6. DOMAIN t = DOMAIN quotes /\ Len(t) = Len(quotes) /\ t[i] = st /\ \A j \in DOMAIN quotes \ {i} : t[j] = quotes[j]
    BY <2>1, <2>5, <1>1
  <2> QED BY <2>2, <2>4, <2>6, <1>1 DEF GrownAlone
<1> QED BY <1>6, <1>7

\* The mail to the firm, claimed on each row.
MailedAll(t) == [i \in DOMAIN t |-> MailClaimed(t[i])]

LEMMA MailedAllIs ==
    ASSUME NEW s \in Seq(Quote), NEW t \in Seq(Quote)
    PROVE  /\ Grown(s, t) => Grown(s, MailedAll(t))
           /\ GrownAlone(s, t) => GrownAlone(s, MailedAll(t))
<1>1. PICK m : m = MailedAll(t) OBVIOUS
<1>2. DOMAIN t = 1..Len(t) /\ Len(t) \in Nat /\ DOMAIN s = 1..Len(s) /\ Len(s) \in Nat OBVIOUS
<1>3. \A i \in DOMAIN t : m[i] = MailClaimed(t[i]) /\ KeptRow(t[i], m[i]) /\ m[i].status = t[i].status
                          /\ (WholeRow(t[i]) => WholeRow(m[i]))
  BY <1>1, MailKeeps DEF MailedAll
<1>4. m \in Seq(Quote) /\ Len(m) = Len(t) /\ DOMAIN m = DOMAIN t
  <2>1. \A i \in 1..Len(t) : MailClaimed(t[i]) \in Quote BY <1>2, MailClaimedIs
  <2>2. m = [i \in 1..Len(t) |-> MailClaimed(t[i])] BY <1>1, <1>2 DEF MailedAll
  <2> QED BY <2>1, <2>2, <1>2
<1>5. ASSUME Grown(s, t) PROVE Grown(s, m)
  <2>1. \A i \in DOMAIN s : KeptRow(s[i], m[i]) BY <1>2, <1>3, <1>5, KeptOnAndOn DEF Grown
  <2>2. \A i \in DOMAIN m : i \notin DOMAIN s => Agreed(m[i]) /\ MailedRight(m[i]) BY <1>3, <1>4, <1>5 DEF Grown, KeptRow
  <2> QED BY <2>1, <2>2, <1>4, <1>5 DEF Grown
<1>6. ASSUME GrownAlone(s, t) PROVE GrownAlone(s, m)
  <2>1. Len(s) <= Len(t) /\ Len(t) <= Len(s) + 1 BY <1>6 DEF GrownAlone
  <2>2. ASSUME NEW i \in DOMAIN s PROVE WholeRow(m[i]) /\ (Open(m[i]) => Open(s[i]))
    <3>1. i \in DOMAIN t BY <2>1, <2>2, <1>2
    <3> QED BY <3>1, <2>2, <1>3, <1>6 DEF GrownAlone, Open
  <2>3. \A i \in DOMAIN m : m[i].branch = t[i].branch BY <1>3, <1>4 DEF KeptRow
  <2> QED BY <2>1, <2>2, <2>3, <1>3, <1>4, <1>6 DEF GrownAlone
<1> QED BY <1>1, <1>5, <1>6

-----------------------------------------------------------------------------
(* A row of the register of complaints.                                    *)

DueRight(c)  == c.due # 0 <=> c.kind = "RECLAMATION"
SaidRight(c) == c.said # 0 /\ ~c.retyped => c.due = c.said

CaseKept(c, d) ==
    d \in Case /\ (c.retyped => d.retyped) /\ (DueRight(c) /\ SaidRight(c) => DueRight(d) /\ SaidRight(d))

\* A complaint goes forward, and is resolved with an answer.
WholeCase(c) ==
    /\ c.status = "RECEIVED" => c.course = <<"RECEIVED">>
    /\ c.status = "IN_PROGRESS" => c.course = <<"RECEIVED", "IN_PROGRESS">>
    /\ c.status = "RESOLVED" => /\ c.answer /\ c.started
                                /\ c.course \in {<<"RECEIVED", "RESOLVED">>, <<"RECEIVED", "IN_PROGRESS", "RESOLVED">>}

LEMMA CaseSavedIs ==
    ASSUME NEW now \in Case, NEW read \in Case, NEW new \in Case
    PROVE  LET row == Saved(now, read, new) IN
           /\ row \in Case
           /\ row.kind = IF new.kind # read.kind THEN new.kind ELSE now.kind
           /\ row.due = IF new.due # read.due THEN new.due ELSE now.due
           /\ row.said = IF new.said # read.said THEN new.said ELSE now.said
           /\ row.retyped = IF new.retyped # read.retyped THEN new.retyped ELSE now.retyped
           /\ row.status = IF new.status # read.status THEN new.status ELSE now.status
<1> DEFINE row == Saved(now, read, new)
<1>1. DOMAIN now = {"ref", "kind", "status", "due", "by", "more", "acknowledged", "started", "resolved", "answer", "said", "retyped", "course"}
  BY DEF Case
<1>2. row = [c \in DOMAIN now |-> IF new[c] # read[c] THEN new[c] ELSE now[c]] BY DEF Saved
<1>3. \A c \in DOMAIN now : row[c] = IF new[c] # read[c] THEN new[c] ELSE now[c] BY <1>2
<1>4. row \in Case
  <2>1. row = [ref |-> row.ref, kind |-> row.kind, status |-> row.status, due |-> row.due, by |-> row.by, more |-> row.more,
               acknowledged |-> row.acknowledged, started |-> row.started, resolved |-> row.resolved, answer |-> row.answer,
               said |-> row.said, retyped |-> row.retyped, course |-> row.course]
    BY <1>1, <1>2
  <2> QED BY <2>1, <1>1, <1>3 DEF Case
<1> QED BY <1>1, <1>3, <1>4

LEMMA CaseSavedAlone == ASSUME NEW now \in Case, NEW new \in Case PROVE Saved(now, now, new) = new
<1>1. DOMAIN now = DOMAIN new BY DEF Case
<1>2. \A c \in DOMAIN now : (IF new[c] # now[c] THEN new[c] ELSE now[c]) = new[c] OBVIOUS
<1>3. Saved(now, now, new) = [c \in DOMAIN new |-> new[c]] BY <1>1, <1>2 DEF Saved
<1>4. new = [c \in DOMAIN new |-> new[c]] BY DEF Case
<1> QED BY <1>3, <1>4

LEMMA CaseStoredIs ==
    ASSUME NEW now \in Case, NEW read \in Case, NEW new \in Case
    PROVE  LET row == Saved(now, read, new)
               st  == StoredComplaint(now, read, new) IN
           /\ st \in Case /\ st.kind = row.kind /\ st.due = row.due /\ st.said = row.said /\ st.retyped = row.retyped
           /\ st.status = row.status /\ st.by = row.by /\ st.answer = row.answer /\ st.started = row.started
           /\ st.course = IF row.status = now.status THEN now.course ELSE Append(now.course, row.status)
<1>1. PICK row \in Case : row = Saved(now, read, new) BY CaseSavedIs
<1>2. PICK co \in Seq(CaseStatus) : co = IF row.status = now.status THEN now.course ELSE Append(now.course, row.status)
  <2>1. PICK c \in Seq(CaseStatus) : c = now.course BY DEF Case
  <2>2. PICK to \in CaseStatus : to = row.status BY DEF Case
  <2>3. Append(c, to) \in Seq(CaseStatus) OBVIOUS
  <2> QED BY <2>1, <2>2, <2>3
<1>3. PICK st : st = StoredComplaint(now, read, new) OBVIOUS
<1>4. st = [row EXCEPT !.course = co] BY <1>1, <1>2, <1>3 DEF StoredComplaint
<1>5. /\ st \in Case /\ st.kind = row.kind /\ st.due = row.due /\ st.said = row.said /\ st.retyped = row.retyped
      /\ st.status = row.status /\ st.by = row.by /\ st.answer = row.answer /\ st.started = row.started /\ st.course = co
  BY <1>4 DEF Case
<1> QED BY <1>1, <1>2, <1>3, <1>5

\* What an adviser makes of the complaint that he read.
SameDeadline(read, new) ==
    new.kind = read.kind /\ new.due = read.due /\ new.said = read.said /\ new.retyped = read.retyped
Retyped(read, new) ==
    new.kind # read.kind /\ DueRight(new) /\ new.said = read.said /\ new.retyped /\ new.status = read.status
StepForward(read, new) ==
    \/ read.status = "RECEIVED" /\ new.status = "IN_PROGRESS"
    \/ read.status # "RESOLVED" /\ new.status = "RESOLVED" /\ new.answer /\ new.started

CaseWorked(read, new) ==
    /\ new \in Case /\ new.by = read.by /\ new.course = read.course
    /\ \/ SameDeadline(read, new) /\ StepForward(read, new)
       \/ Retyped(read, new) /\ new.answer = read.answer /\ new.started = read.started

LEMMA CaseKeptStored ==
    ASSUME NEW now \in Case, NEW read \in Case, NEW new, CaseWorked(read, new), DueRight(read), read.retyped => now.retyped
    PROVE  CaseKept(now, StoredComplaint(now, read, new))
<1>1. new \in Case BY DEF CaseWorked
<1>2. PICK st \in Case : /\ st = StoredComplaint(now, read, new)
                         /\ st.kind = IF new.kind # read.kind THEN new.kind ELSE now.kind
                         /\ st.due = IF new.due # read.due THEN new.due ELSE now.due
                         /\ st.said = IF new.said # read.said THEN new.said ELSE now.said
                         /\ st.retyped = IF new.retyped # read.retyped THEN new.retyped ELSE now.retyped
  BY <1>1, CaseStoredIs, CaseSavedIs
<1>3. CASE SameDeadline(read, new)
  <2>1. st.kind = now.kind /\ st.due = now.due /\ st.said = now.said /\ st.retyped = now.retyped BY <1>2, <1>3 DEF SameDeadline
  <2> QED BY <2>1, <1>2 DEF CaseKept, DueRight, SaidRight
<1>4. CASE Retyped(read, new)
  <2>1. new.retyped /\ st.retyped
    <3>1. new.retyped = TRUE BY <1>4 DEF Retyped
    <3>2. CASE read.retyped BY <3>1, <3>2, <1>2, <1>4
    <3>3. CASE ~read.retyped BY <3>1, <3>3, <1>2
    <3> QED BY <3>1, <3>2, <3>3
  <2>2. st.kind = new.kind BY <1>2, <1>4 DEF Retyped
  <2>3. st.due = new.due
    <3>1. {new.kind, read.kind} \subseteq CaseKinds BY <1>1 DEF Case
    <3>2. new.due # read.due BY <3>1, <1>4 DEF Retyped, DueRight, CaseKinds
    <3> QED BY <3>2, <1>2
  <2>4. DueRight(st) BY <2>2, <2>3, <1>4 DEF Retyped, DueRight
  <2> QED BY <2>1, <2>4, <1>2 DEF CaseKept, SaidRight
<1> QED BY <1>3, <1>4 DEF CaseWorked

LEMMA AppendTo ==
    ASSUME NEW S, NEW a \in S, NEW b \in S, NEW c \in S
    PROVE  Append(<<a>>, b) = <<a, b>> /\ Append(<<a, b>>, c) = <<a, b, c>>
<1>1. Append(<<a>>, b) = <<a, b>>
  <2>1. Append(<<a>>, b) \in Seq(S) /\ <<a, b>> \in Seq(S) /\ Len(Append(<<a>>, b)) = 2 /\ Len(<<a, b>>) = 2 OBVIOUS
  <2>2. \A i \in 1..2 : Append(<<a>>, b)[i] = <<a, b>>[i] OBVIOUS
  <2> QED BY <2>1, <2>2, SeqEqual
<1>2. Append(<<a, b>>, c) = <<a, b, c>>
  <2>1. Append(<<a, b>>, c) \in Seq(S) /\ <<a, b, c>> \in Seq(S) /\ Len(Append(<<a, b>>, c)) = 3 /\ Len(<<a, b, c>>) = 3 OBVIOUS
  <2>2. \A i \in 1..3 : Append(<<a, b>>, c)[i] = <<a, b, c>>[i] OBVIOUS
  <2> QED BY <2>1, <2>2, SeqEqual
<1> QED BY <1>1, <1>2

LEMMA WholeCaseStored ==
    ASSUME NEW now \in Case, NEW new, CaseWorked(now, new), WholeCase(now)
    PROVE  LET st == StoredComplaint(now, now, new) IN WholeCase(st) /\ st.by = now.by /\ (InHand(st) => InHand(now))
<1>1. new \in Case /\ Saved(now, now, new) = new BY CaseSavedAlone DEF CaseWorked
<1>2. PICK st \in Case : st = StoredComplaint(now, now, new) BY <1>1, CaseStoredIs
<1>3. /\ st.status = new.status /\ st.by = new.by /\ st.answer = new.answer /\ st.started = new.started
      /\ st.course = IF new.status = now.status THEN now.course ELSE Append(now.course, new.status)
  BY <1>1, <1>2, CaseStoredIs
<1>4. now.status \in CaseStatus /\ st.by = now.by BY <1>3 DEF Case, CaseWorked
<1>0. /\ Append(<<"RECEIVED">>, "IN_PROGRESS") = <<"RECEIVED", "IN_PROGRESS">>
      /\ Append(<<"RECEIVED">>, "RESOLVED") = <<"RECEIVED", "RESOLVED">>
      /\ Append(<<"RECEIVED", "IN_PROGRESS">>, "RESOLVED") = <<"RECEIVED", "IN_PROGRESS", "RESOLVED">>
  <2>1. {"RECEIVED", "IN_PROGRESS", "RESOLVED"} \subseteq CaseStatus BY DEF CaseStatus
  <2> QED BY <2>1, AppendTo
<1> SUFFICES WholeCase(st) /\ (InHand(st) => InHand(now)) BY <1>2, <1>4
<1>5. CASE Retyped(now, new) /\ new.answer = now.answer /\ new.started = now.started
  BY <1>3, <1>5 DEF Retyped, WholeCase, InHand
<1>6. CASE now.status = "RECEIVED" /\ new.status = "IN_PROGRESS"
  <2>1. st.course = Append(now.course, "IN_PROGRESS") /\ now.course = <<"RECEIVED">> BY <1>3, <1>6 DEF WholeCase
  <2>2. st.course = <<"RECEIVED", "IN_PROGRESS">> BY <2>1, <1>0
  <2> QED BY <2>2, <1>3, <1>6 DEF WholeCase, InHand
<1>7. CASE now.status # "RESOLVED" /\ new.status = "RESOLVED" /\ new.answer /\ new.started
  <2>1. st.course = Append(now.course, "RESOLVED") BY <1>3, <1>7
  <2>2. now.course = <<"RECEIVED">> \/ now.course = <<"RECEIVED", "IN_PROGRESS">> BY <1>4, <1>7 DEF WholeCase, CaseStatus
  <2>3. st.course = <<"RECEIVED", "RESOLVED">> \/ st.course = <<"RECEIVED", "IN_PROGRESS", "RESOLVED">> BY <2>1, <2>2, <1>0
  <2>4. st.answer /\ st.started BY <1>3, <1>7
  <2> QED BY <2>3, <2>4, <1>3, <1>7 DEF WholeCase, InHand
<1> QED BY <1>5, <1>6, <1>7 DEF CaseWorked, StepForward

-----------------------------------------------------------------------------
(* The register of complaints: its references, and what a job writes.      *)

\* There are fewer references than numbers to try, and the first free one is taken.
LEMMA NextReferenceIs ==
    ASSUME NEW s \in Seq(Case)
    PROVE  NextReference(s) \in Nat /\ \A i \in DOMAIN s : s[i].ref # NextReference(s)
<1> DEFINE L == Len(s)
           tried == (L + 1)..(2 * L + 1)
           taken == {s[i].ref : i \in 1..L}
           free == tried \ taken
           Fits(n) == /\ \A i \in DOMAIN s : s[i].ref # n
                      /\ \A m \in (L + 1)..(n - 1) : \E i \in DOMAIN s : s[i].ref = m
<1>1. L \in Nat /\ DOMAIN s = 1..L OBVIOUS
<1>2. Cardinality(taken) <= L /\ IsFiniteSet(taken)
  <2> DEFINE f == [i \in 1..L |-> s[i].ref]
  <2>1. f \in Surjection(1..L, taken) BY DEF Surjection
  <2>2. IsFiniteSet(1..L) /\ Cardinality(1..L) = L BY <1>1, FS_Interval
  <2> HIDE DEF f, taken
  <2> QED BY <2>1, <2>2, FS_Surjection
<1>3. IsFiniteSet(tried) /\ Cardinality(tried) = L + 1
  <2>1. IsFiniteSet(tried) /\ Cardinality(tried) = IF L + 1 > 2 * L + 1 THEN 0 ELSE (2 * L + 1) - (L + 1) + 1 BY <1>1, FS_Interval
  <2> HIDE DEF tried
  <2> QED BY <2>1, <1>1
<1>4. free # {}
  <2> SUFFICES ASSUME tried \subseteq taken PROVE FALSE OBVIOUS
  <2> HIDE DEF tried, taken, L
  <2>1. Cardinality(tried) <= Cardinality(taken) BY <1>2, FS_Subset
  <2>2. Cardinality(taken) \in Nat BY <1>2, FS_CardinalityType
  <2> QED BY <2>1, <2>2, <1>1, <1>2, <1>3
<1>5. PICK n \in free : \A m \in free : n <= m
  <2> DEFINE V == {(2 * L + 1) - x : x \in free}
  <2>1. V \in SUBSET (0..L) /\ V # {} BY <1>1, <1>4
  <2>2. PICK m \in V : \A k \in V : k <= m BY <1>1, <2>1, HasGreatest
  <2>3. PICK x \in free : m = (2 * L + 1) - x BY <2>2
  <2>4. \A y \in free : (2 * L + 1) - y <= (2 * L + 1) - x BY <2>2, <2>3
  <2>5. \A y \in free : x <= y BY <2>3, <2>4, <1>1
  <2> QED BY <2>3, <2>5
<1>6. n \in tried /\ Fits(n)
  <2>1. \A i \in DOMAIN s : s[i].ref # n BY <1>1, <1>5
  <2>2. ASSUME NEW m \in (L + 1)..(n - 1) PROVE \E i \in DOMAIN s : s[i].ref = m
    <3>1. m \in tried /\ ~(n <= m) BY <1>1, <1>5, <2>2
    <3>2. m \in taken BY <3>1, <1>5
    <3> QED BY <3>2, <1>1
  <2> QED BY <2>1, <2>2, <1>5
<1>7. NextReference(s) = CHOOSE x \in tried : Fits(x) BY DEF NextReference
<1>8. NextReference(s) \in tried /\ Fits(NextReference(s))
  <2> HIDE DEF tried, Fits
  <2> QED BY <1>6, <1>7
<1> QED BY <1>1, <1>8

LEMMA OpenComplaintIs ==
    ASSUME NEW s \in Seq(Case)
    PROVE  \/ OpenComplaint(s) \in DOMAIN s
           \/ OpenComplaint(s) = 0 /\ \A i \in DOMAIN s : ~InHand(s[i])
<1> DEFINE is == {i \in DOMAIN s : InHand(s[i])}
<1>1. CASE is = {} BY <1>1 DEF OpenComplaint
<1>2. CASE is # {}
  <2>1. Len(s) \in Nat /\ is \in SUBSET (0..Len(s)) OBVIOUS
  <2>2. \E m \in is : \A k \in is : k <= m BY <2>1, <1>2, HasGreatest
  <2>3. OpenComplaint(s) = CHOOSE i \in is : \A j \in is : j <= i BY <1>2 DEF OpenComplaint
  <2>4. OpenComplaint(s) \in is BY <2>2, <2>3
  <2> QED BY <2>4
<1> QED BY <1>1, <1>2

FiledBehind(r, s) ==
    Len(r) <= Len(s) /\ \A i \in DOMAIN r : DueRight(r[i]) /\ (r[i].retyped => s[i].retyped)

FiledGrown(s, t) ==
    /\ t \in Seq(Case) /\ Len(s) <= Len(t) /\ Len(t) <= MaxFiled
    /\ \A i \in DOMAIN s : CaseKept(s[i], t[i])
    /\ \A i \in DOMAIN t : i \notin DOMAIN s => DueRight(t[i]) /\ SaidRight(t[i])

\* Alone, Bob opens a complaint when there is none in hand.
FiledGrownAlone(s, t) ==
    /\ Len(s) <= Len(t) /\ Len(t) <= Len(s) + 1
    /\ \A i \in DOMAIN s : WholeCase(t[i]) /\ t[i].by = s[i].by /\ (InHand(t[i]) => InHand(s[i]))
    /\ \A i \in DOMAIN t : i \notin DOMAIN s => WholeCase(t[i]) /\ (t[i].by = "BOB" => \A j \in DOMAIN s : ~InHand(s[j]))

LEMMA CaseAsItIs == ASSUME NEW c \in Case PROVE CaseKept(c, c)
BY DEF CaseKept

LEMMA NewComplaintIs ==
    ASSUME NEW ref \in Nat, NEW kind \in CaseKinds, NEW by \in {"BOB", "ADVISER"}, delay \in {1, 2}
    PROVE  LET c == NewComplaint(ref, kind, by) IN
           c \in Case /\ DueRight(c) /\ SaidRight(c) /\ WholeCase(c) /\ c.by = by
<1>1. PICK due : due = DueDate(kind, delay) OBVIOUS
<1>2. due \in 0..2 /\ (due # 0 <=> kind = "RECLAMATION") BY <1>1 DEF DueDate, CaseKinds
<1>3. PICK c : c = NewComplaint(ref, kind, by) OBVIOUS
<1>4. <<"RECEIVED">> \in Seq(CaseStatus) BY DEF CaseStatus
<1>5. c = [ref |-> ref, kind |-> kind, status |-> "RECEIVED", due |-> due, by |-> by, more |-> 0,
           acknowledged |-> FALSE, started |-> FALSE, resolved |-> FALSE, answer |-> FALSE,
           said |-> 0, retyped |-> FALSE, course |-> <<"RECEIVED">>]
  BY <1>1, <1>3 DEF NewComplaint
<1>6. c \in Case BY <1>2, <1>4, <1>5 DEF Case, CaseStatus
<1>7. DueRight(c) /\ SaidRight(c) /\ WholeCase(c) /\ c.by = by BY <1>2, <1>5 DEF DueRight, SaidRight, WholeCase
<1> QED BY <1>3, <1>6, <1>7

LEMMA FiledOneMore ==
    ASSUME DeskKinds, Len(filed) < MaxFiled, NEW c \in Case, DueRight(c), SaidRight(c)
    PROVE  FiledGrown(filed, Append(filed, c))
<1>1. filed \in Seq(Case) /\ Len(filed) \in Nat /\ MaxFiled \in Nat BY DeskAssumption DEF DeskKinds
<1>2. PICK t : t = Append(filed, c) OBVIOUS
<1>3. t \in Seq(Case) /\ Len(t) = Len(filed) + 1 /\ (\A j \in DOMAIN filed : t[j] = filed[j]) /\ t[Len(t)] = c BY <1>1, <1>2
<1>4. \A j \in DOMAIN t : j \notin DOMAIN filed => j = Len(t) BY <1>1, <1>3
<1>5. \A j \in DOMAIN filed : CaseKept(filed[j], t[j]) BY <1>1, <1>3, CaseAsItIs
<1>6. FiledGrown(filed, t) BY <1>1, <1>3, <1>4, <1>5 DEF FiledGrown
<1> QED BY <1>2, <1>6

LEMMA FiledOneMoreAlone ==
    ASSUME DeskKinds, \A i \in DOMAIN filed : WholeCase(filed[i]), NEW c \in Case, WholeCase(c),
           c.by = "BOB" => \A j \in DOMAIN filed : ~InHand(filed[j])
    PROVE  FiledGrownAlone(filed, Append(filed, c))
<1>1. filed \in Seq(Case) /\ Len(filed) \in Nat BY DEF DeskKinds
<1>2. PICK t : t = Append(filed, c) OBVIOUS
<1>3. t \in Seq(Case) /\ Len(t) = Len(filed) + 1 /\ (\A j \in DOMAIN filed : t[j] = filed[j]) /\ t[Len(t)] = c BY <1>1, <1>2
<1>4. \A j \in DOMAIN t : j \notin DOMAIN filed => j = Len(t) BY <1>1, <1>3
<1>5. FiledGrownAlone(filed, t) BY <1>1, <1>3, <1>4 DEF FiledGrownAlone
<1> QED BY <1>2, <1>5

LEMMA FiledOneChanged ==
    ASSUME DeskKinds, NEW i \in DOMAIN filed, NEW c, CaseKept(filed[i], c)
    PROVE  FiledGrown(filed, [filed EXCEPT ![i] = c])
<1>1. filed \in Seq(Case) /\ Len(filed) \in Nat /\ c \in Case /\ Len(filed) <= MaxFiled BY DEF DeskKinds, CaseKept
<1>2. PICK t : t = [filed EXCEPT ![i] = c] OBVIOUS
<1>3. t \in Seq(Case) /\ Len(t) = Len(filed) /\ t[i] = c /\ \A j \in DOMAIN filed \ {i} : t[j] = filed[j] BY <1>1, <1>2
<1>4. \A j \in DOMAIN filed : CaseKept(filed[j], t[j]) BY <1>1, <1>3, CaseAsItIs
<1>5. DOMAIN t = DOMAIN filed BY <1>1, <1>3
<1>6. FiledGrown(filed, t) BY <1>1, <1>3, <1>4, <1>5 DEF FiledGrown
<1> QED BY <1>2, <1>6

LEMMA FiledOneChangedAlone ==
    ASSUME DeskKinds, \A j \in DOMAIN filed : WholeCase(filed[j]), NEW i \in DOMAIN filed, NEW c \in Case, WholeCase(c),
           c.by = filed[i].by, InHand(c) => InHand(filed[i])
    PROVE  FiledGrownAlone(filed, [filed EXCEPT ![i] = c])
<1>1. filed \in Seq(Case) /\ Len(filed) \in Nat BY DEF DeskKinds
<1>2. PICK t : t = [filed EXCEPT ![i] = c] OBVIOUS
<1>3. t \in Seq(Case) /\ Len(t) = Len(filed) /\ t[i] = c /\ \A j \in DOMAIN filed \ {i} : t[j] = filed[j] BY <1>1, <1>2
<1>4. DOMAIN t = DOMAIN filed BY <1>1, <1>3
<1>5. FiledGrownAlone(filed, t) BY <1>1, <1>3, <1>4 DEF FiledGrownAlone
<1> QED BY <1>2, <1>5

-----------------------------------------------------------------------------
(* The desk's inductive invariant.                                         *)

Staff == Webhooks \cup Advisers

DeskReads ==
    \A w \in Staff : job[w].at = "read" => QuotesBehind(job[w].quotes, quotes) /\ FiledBehind(job[w].filed, filed)

DeskRows ==
    /\ \A i \in DOMAIN quotes : Agreed(quotes[i]) /\ MailedRight(quotes[i])
    /\ \A i \in DOMAIN filed : DueRight(filed[i]) /\ SaidRight(filed[i])

\* Alone, a job has read the tables as they are.
ReadsNow == \A w \in Staff : job[w].at = "read" => job[w].quotes = quotes /\ job[w].filed = filed

OneOpenRequest ==
    \A i, j \in DOMAIN quotes : Open(quotes[i]) /\ Open(quotes[j]) /\ quotes[i].branch = quotes[j].branch => i = j

OneInHandOfBob ==
    \A i, j \in DOMAIN filed :
        filed[i].by = "BOB" /\ InHand(filed[i]) /\ filed[j].by = "BOB" /\ InHand(filed[j]) => i = j

WholeDesk ==
    /\ \A i \in DOMAIN quotes : WholeRow(quotes[i])
    /\ \A i \in DOMAIN filed : WholeCase(filed[i])
    /\ OneOpenRequest /\ OneInHandOfBob

DeskInv == DeskKinds /\ DeskReads /\ DeskRows /\ (overlapped \/ (~TwoJobs /\ ReadsNow /\ WholeDesk))

\* What every step but a reading does, and what it does alone.
DeskGoes(w) ==
    /\ Grown(quotes, quotes') /\ FiledGrown(filed, filed')
    /\ awaited' \in Awaitable /\ shown' \subseteq Fields \cup {"send"} /\ delay' \in {1, 2}
    /\ \E x \in Jobs : x.at # "read" /\ job' = [job EXCEPT ![w] = x]

DeskGoesAlone == GrownAlone(quotes, quotes') /\ FiledGrownAlone(filed, filed')

\* The job is over, or goes on with the rest of it.
JobOver(w) == \E x \in Jobs : x.at # "read" /\ job' = [job EXCEPT ![w] = x]

LEMMA OverIs ==
    ASSUME NEW w \in Staff, Ends(w) \/ ThenTells(w) \/ \E n \in Nat : job' = [job EXCEPT ![w] = [at |-> "acknowledge", ref |-> n]]
    PROVE  JobOver(w)
<1>1. Idle \in Jobs /\ Idle.at # "read" BY DEF Jobs, Idle
<1>2. [at |-> "announce"] \in Jobs /\ [at |-> "announce"].at # "read" BY DEF Jobs
<1>3. \A n \in Nat : [at |-> "acknowledge", ref |-> n] \in Jobs /\ [at |-> "acknowledge", ref |-> n].at # "read" BY DEF Jobs
<1> QED BY <1>1, <1>2, <1>3 DEF JobOver, Ends, ThenTells

LEMMA QuotesStay ==
    ASSUME DeskKinds, quotes' = quotes
    PROVE  Grown(quotes, quotes') /\ ((\A i \in DOMAIN quotes : WholeRow(quotes[i])) => GrownAlone(quotes, quotes'))
<1>1. quotes \in Seq(Quote) /\ Len(quotes) \in Nat /\ Len(quotes) <= MaxQuotes BY DEF DeskKinds
<1>2. \A i \in DOMAIN quotes : KeptRow(quotes[i], quotes[i]) BY <1>1, KeptAsItIs
<1> QED BY <1>1, <1>2 DEF Grown, GrownAlone

LEMMA FiledStays ==
    ASSUME DeskKinds, filed' = filed
    PROVE  FiledGrown(filed, filed') /\ ((\A i \in DOMAIN filed : WholeCase(filed[i])) => FiledGrownAlone(filed, filed'))
<1>1. filed \in Seq(Case) /\ Len(filed) \in Nat /\ Len(filed) <= MaxFiled BY DEF DeskKinds
<1>2. \A i \in DOMAIN filed : CaseKept(filed[i], filed[i]) BY <1>1, CaseAsItIs
<1> QED BY <1>1, <1>2 DEF FiledGrown, FiledGrownAlone

\* The steps that write no row.
LEMMA NoRowWritten ==
    ASSUME DeskKinds, NEW w \in Staff, JobOver(w), UNCHANGED <<quotes, filed>>,
           awaited' \in Awaitable, shown' \subseteq Fields \cup {"send"}, delay' \in {1, 2}
    PROVE  DeskGoes(w) /\ (WholeDesk => DeskGoesAlone)
BY QuotesStay, FiledStays DEF DeskGoes, DeskGoesAlone, WholeDesk, JobOver

LEMMA ScriptIs ==
    ASSUME NEW b
    PROVE  /\ DOMAIN Script(b) = 1..3
           /\ \A i \in 1..3 : Script(b)[i].field \in Fields /\ Script(b)[i].written \in BOOLEAN
BY DEF Script, Button, Written, Fields

LEMMA FirstLeftIs ==
    ASSUME NEW b, NEW known
    PROVE  /\ FirstLeft(b, known).written => FirstLeft(b, known).field \in Fields
           /\ FirstLeft(b, known) = NoneLeft \/ FirstLeft(b, known).field \in Fields
<1> DEFINE left == {i \in DOMAIN Script(b) : Script(b)[i].field \notin known}
<1>1. CASE left # {}
  <2>1. left \subseteq 1..3 BY ScriptIs
  <2>2. \E i \in left : \A j \in left : i <= j
    <3>1. CASE 1 \in left BY <3>1, <2>1
    <3>2. CASE 1 \notin left /\ 2 \in left BY <3>2, <2>1
    <3>3. CASE 1 \notin left /\ 2 \notin left BY <3>3, <2>1, <1>1
    <3> QED BY <3>1, <3>2, <3>3
  <2>3. PICK i \in left : i = CHOOSE k \in left : \A j \in left : k <= j BY <2>2
  <2>4. FirstLeft(b, known) = Script(b)[i] BY <1>1, <2>3 DEF FirstLeft
  <2> QED BY <2>4, ScriptIs
<1>2. CASE left = {} BY <1>2 DEF FirstLeft, Written, NoneLeft, Fields
<1> QED BY <1>1, <1>2

LEMMA ScreenIs ==
    ASSUME NEW b, NEW known, NEW q
    PROVE  ScreenOf(FirstLeft(b, known), q) \subseteq Fields \cup {"send"}
BY FirstLeftIs DEF ScreenOf

LEMMA NextQuestionIs ==
    ASSUME DeskKinds, NEW b, NEW q, NextQuestion(b, q)
    PROVE  awaited' \in Awaitable /\ shown' \subseteq Fields \cup {"send"}
BY FirstLeftIs, ScreenIs DEF NextQuestion, DeskKinds, Awaitable

\* The steps that write one quote request.
LEMMA OneQuoteWritten ==
    ASSUME DeskKinds, DeskReads, NEW w \in Staff, job[w].at = "read", NEW b \in Branches, Room(w, b),
           NEW new, Worked(QuoteRead(w, b), new), JobOver(w), filed' = filed, delay' = delay,
           quotes' = WriteQuote(w, b, new) \/ quotes' = MailedAll(WriteQuote(w, b, new)),
           awaited' \in Awaitable, shown' \subseteq Fields \cup {"send"}
    PROVE  DeskGoes(w) /\ (ReadsNow /\ WholeDesk => DeskGoesAlone)
<1>1. PICK t : t = WriteQuote(w, b, new) OBVIOUS
<1>2. Grown(quotes, t) BY <1>1, WriteQuoteIs DEF DeskReads, Staff
<1>3. quotes \in Seq(Quote) /\ t \in Seq(Quote) /\ delay \in {1, 2} BY <1>2 DEF DeskKinds, Grown
<1>4. Grown(quotes, quotes') BY <1>1, <1>2, <1>3, MailedAllIs
<1>5. ASSUME ReadsNow, WholeDesk PROVE GrownAlone(quotes, quotes')
  <2>1. GrownAlone(quotes, t) BY <1>1, <1>5, WriteQuoteAlone DEF ReadsNow, WholeDesk, Staff
  <2> QED BY <2>1, <1>1, <1>3, MailedAllIs
<1>6. FiledGrown(filed, filed') /\ (WholeDesk => FiledGrownAlone(filed, filed')) BY FiledStays DEF WholeDesk
<1> QED BY <1>3, <1>4, <1>5, <1>6 DEF DeskGoes, DeskGoesAlone, JobOver

-----------------------------------------------------------------------------
(* The customer's turns.                                                   *)

LEMMA BobFillsGoes ==
    ASSUME DeskKinds, DeskReads, NEW w \in Staff, BobFills(w)
    PROVE  DeskGoes(w) /\ (ReadsNow /\ WholeDesk => DeskGoesAlone)
<1>1. PICK b \in Branches, values \in {{}, Needed("AUTO", FALSE), Needed("RC_PRO", TRUE)} \cup {{f} : f \in Fields},
           firm \in BOOLEAN, agrees \in BOOLEAN :
        /\ job[w].at = "read" /\ w \in Webhooks /\ Room(w, b)
        /\ values \subseteq {s.field : s \in {Script(b)[i] : i \in DOMAIN Script(b)}} \cup Needed(b, TRUE)
        /\ LET read == QuoteRead(w, b)
               rows == WriteQuote(w, b, Filled(read, firm, values, agrees))
           IN quotes' = [i \in DOMAIN rows |-> MailClaimed(rows[i])]
        /\ Ends(w) /\ UNCHANGED <<filed, awaited, shown, delay, turns, deskDone>>
  BY DEF BobFills
<1>2. values \subseteq Fields BY DEF Needed, Fields
<1>3. QuoteRead(w, b) \in Quote BY <1>1, QuoteReadIs DEF Staff
<1>4. PICK new : new = Filled(QuoteRead(w, b), firm, values, agrees) OBVIOUS
<1>5. Worked(QuoteRead(w, b), new) BY <1>2, <1>3, <1>4, FilledIs
<1>6. quotes' = MailedAll(WriteQuote(w, b, new)) BY <1>1, <1>4 DEF MailedAll
<1>7. JobOver(w) BY <1>1, OverIs
<1>8. awaited' \in Awaitable /\ shown' \subseteq Fields \cup {"send"} /\ filed' = filed /\ delay' = delay BY <1>1 DEF DeskKinds
<1> QED BY <1>1, <1>5, <1>6, <1>7, <1>8, OneQuoteWritten

LEMMA TapAnswerGoes ==
    ASSUME DeskKinds, DeskReads, NEW w \in Staff, NEW b \in Branches, TapAnswer(w, b)
    PROVE  DeskGoes(w) /\ (ReadsNow /\ WholeDesk => DeskGoesAlone)
<1>1. PICK f \in shown \ {"send"} :
        /\ job[w].at = "read" /\ Room(w, b)
        /\ quotes' = WriteQuote(w, b, Filled(QuoteRead(w, b), QuoteRead(w, b).firm, {f}, FALSE))
        /\ NextQuestion(b, Filled(QuoteRead(w, b), QuoteRead(w, b).firm, {f}, FALSE))
        /\ ThenTells(w) /\ UNCHANGED <<filed, delay, turns, deskDone>>
  BY DEF TapAnswer
<1>2. {f} \in SUBSET Fields BY DEF DeskKinds
<1>3. QuoteRead(w, b) \in Quote /\ QuoteRead(w, b).firm \in BOOLEAN BY <1>1, QuoteReadIs DEF Staff, Quote
<1>4. PICK new : new = Filled(QuoteRead(w, b), QuoteRead(w, b).firm, {f}, FALSE) OBVIOUS
<1>5. Worked(QuoteRead(w, b), new) BY <1>2, <1>3, <1>4, FilledIs
<1>6. JobOver(w) BY <1>1, OverIs
<1>7. awaited' \in Awaitable /\ shown' \subseteq Fields \cup {"send"} BY <1>1, NextQuestionIs
<1> QED BY <1>1, <1>4, <1>5, <1>6, <1>7, OneQuoteWritten

LEMMA WriteAnswerGoes ==
    ASSUME DeskKinds, DeskReads, NEW w \in Staff, NEW b \in Branches, WriteAnswer(w, b)
    PROVE  DeskGoes(w) /\ (ReadsNow /\ WholeDesk => DeskGoesAlone)
<1>0. PICK f : f = job[w].awaited OBVIOUS
<1>1. PICK values \in IF f = "vehicle" THEN {{"vehicle"}, {"vehicle", "year"}}
                      ELSE IF f \in {"year", "employees"} THEN {{f}, {}} ELSE {{f}} :
        /\ quotes' = WriteQuote(w, b, Filled(QuoteRead(w, b), QuoteRead(w, b).firm, values, FALSE))
        /\ LET step == FirstLeft(b, Filled(QuoteRead(w, b), QuoteRead(w, b).firm, values, FALSE).known) IN
             /\ awaited' = IF step.written THEN step.field ELSE NoAnswer
             /\ shown' = shown \cup ScreenOf(step, Filled(QuoteRead(w, b), QuoteRead(w, b).firm, values, FALSE))
  BY <1>0 DEF WriteAnswer
<1>2. /\ job[w].at = "read" /\ Room(w, b) /\ ThenTells(w) /\ UNCHANGED <<filed, delay, turns, deskDone>>
      /\ f \in {Script(b)[i].field : i \in DOMAIN Script(b)} \cup (IF b = "AUTO" THEN {"year"} ELSE {})
  BY <1>0 DEF WriteAnswer
<1>3. f \in Fields BY <1>2, ScriptIs DEF Fields
<1>4. values \in SUBSET Fields BY <1>1, <1>3 DEF Fields
<1>5. QuoteRead(w, b) \in Quote /\ QuoteRead(w, b).firm \in BOOLEAN BY <1>2, QuoteReadIs DEF Staff, Quote
<1>6. PICK new : new = Filled(QuoteRead(w, b), QuoteRead(w, b).firm, values, FALSE) OBVIOUS
<1>7. Worked(QuoteRead(w, b), new) BY <1>4, <1>5, <1>6, FilledIs
<1>8. JobOver(w) BY <1>2, OverIs
<1>9. awaited' \in Awaitable BY <1>1, FirstLeftIs DEF Awaitable
<1>10. shown' \subseteq Fields \cup {"send"}
  <2>1. PICK known : known = new.known OBVIOUS
  <2>2. shown' = shown \cup ScreenOf(FirstLeft(b, known), new) BY <1>1, <1>6, <2>1
  <2> QED BY <2>2, ScreenIs DEF DeskKinds
<1>11. quotes' = WriteQuote(w, b, new) BY <1>1, <1>6
<1> QED BY <1>2, <1>7, <1>8, <1>9, <1>10, <1>11, OneQuoteWritten

LEMMA TapSendGoes ==
    ASSUME DeskKinds, DeskReads, NEW w \in Staff, NEW b \in Branches, TapSend(w, b)
    PROVE  DeskGoes(w) /\ (ReadsNow /\ WholeDesk => DeskGoesAlone)
<1>1. PICK new : new = Filled(QuoteRead(w, b), QuoteRead(w, b).firm, {}, TRUE) OBVIOUS
<1>2. /\ job[w].at = "read" /\ OpenRequest(job[w].quotes, b) # 0 /\ quotes' = WriteQuote(w, b, new)
      /\ IF new.status = "SUBMITTED" THEN UNCHANGED <<awaited, shown>> ELSE NextQuestion(b, new)
      /\ ThenTells(w) /\ UNCHANGED <<filed, delay, turns, deskDone>>
  BY <1>1 DEF TapSend
<1>3. QuoteRead(w, b) \in Quote /\ QuoteRead(w, b).firm \in BOOLEAN BY <1>2, QuoteReadIs DEF Staff, Quote
<1>4. Worked(QuoteRead(w, b), new) BY <1>1, <1>3, FilledIs
<1>5. Room(w, b) BY <1>2 DEF Room
<1>6. JobOver(w) BY <1>2, OverIs
<1>7. awaited' \in Awaitable /\ shown' \subseteq Fields \cup {"send"}
  <2>1. CASE new.status = "SUBMITTED" BY <2>1, <1>2 DEF DeskKinds
  <2>2. CASE new.status # "SUBMITTED" BY <2>2, <1>2, NextQuestionIs
  <2> QED BY <2>1, <2>2
<1> QED BY <1>2, <1>4, <1>5, <1>6, <1>7, OneQuoteWritten

LEMMA AskForCallGoes ==
    ASSUME DeskKinds, DeskReads, NEW w \in Staff, AskForCall(w)
    PROVE  DeskGoes(w) /\ (ReadsNow /\ WholeDesk => DeskGoesAlone)
<1>1. job[w].at = "read" BY DEF AskForCall
<1>2. PICK read \in Seq(Quote) : read = job[w].quotes BY <1>1, ReadIs DEF Staff
<1>3. quotes \in Seq(Quote) /\ Len(quotes) \in Nat /\ Len(quotes) <= MaxQuotes BY DEF DeskKinds
<1>4. QuotesBehind(read, quotes) BY <1>1, <1>2 DEF DeskReads
<1> DEFINE agreedTo(i) == Filled(read[i], read[i].firm, {}, TRUE)
           row(i) == IF i \in DOMAIN read /\ read[i].status = "DRAFT" THEN Stored(quotes[i], read[i], agreedTo(i)) ELSE quotes[i]
<1>5. ASSUME NEW i \in DOMAIN quotes
      PROVE  /\ KeptRow(quotes[i], row(i))
             /\ ReadsNow /\ WholeDesk => WholeRow(row(i)) /\ (Open(row(i)) => Open(quotes[i]))
  <2>1. CASE i \in DOMAIN read /\ read[i].status = "DRAFT"
    <3>1. PICK q \in Quote : q = read[i] BY <2>1
    <3>2. PICK now \in Quote : now = quotes[i] BY <1>3, <1>5
    <3>3. PICK new : new = agreedTo(i) OBVIOUS
    <3>4. Worked(q, new) BY <3>1, <3>3, FilledIs DEF Quote
    <3>5. Agreed(q) /\ (q.agreed => now.agreed) BY <2>1, <3>1, <3>2, <1>4 DEF QuotesBehind
    <3>6. row(i) = Stored(now, q, new) BY <2>1, <3>1, <3>2, <3>3
    <3> HIDE DEF row, agreedTo
    <3>7. KeptRow(now, row(i)) BY <3>4, <3>5, <3>6, KeptStored DEF Worked
    <3>8. ASSUME ReadsNow, WholeDesk PROVE WholeRow(row(i)) /\ (Open(row(i)) => Open(now))
      <4>1. read = quotes /\ WholeRow(now) BY <3>2, <3>8, <1>1, <1>2, <1>5 DEF ReadsNow, WholeDesk
      <4>2. q = now BY <4>1, <3>1, <3>2
      <4> QED BY <4>1, <4>2, <3>4, <3>6, WholeStored DEF Worked
    <3> QED BY <3>2, <3>7, <3>8
  <2>2. CASE ~(i \in DOMAIN read /\ read[i].status = "DRAFT")
    <3>1. row(i) = quotes[i] BY <2>2
    <3> HIDE DEF row
    <3> QED BY <3>1, <1>3, <1>5, KeptAsItIs DEF WholeDesk
  <2> QED BY <2>1, <2>2
<1>6. PICK t : t = [i \in DOMAIN quotes |-> row(i)] OBVIOUS
<1>7. quotes' = MailedAll(t)
  <2>1. quotes' = [i \in DOMAIN quotes |->
                    IF i \in DOMAIN read /\ read[i].status = "DRAFT"
                    THEN MailClaimed(Stored(quotes[i], read[i], agreedTo(i)))
                    ELSE MailClaimed(quotes[i])]
    BY <1>2 DEF AskForCall
  <2> HIDE DEF agreedTo
  <2>2. DOMAIN t = DOMAIN quotes BY <1>6
  <2> QED BY <2>1, <2>2, <1>6 DEF MailedAll
<1> HIDE DEF row
<1>8. t \in Seq(Quote) /\ Len(t) = Len(quotes)
  <2>1. \A i \in 1..Len(quotes) : row(i) \in Quote BY <1>3, <1>5 DEF KeptRow
  <2>2. t = [i \in 1..Len(quotes) |-> row(i)] BY <1>3, <1>6
  <2> QED BY <2>1, <2>2, <1>3
<1>9. Grown(quotes, t) BY <1>3, <1>5, <1>6, <1>8 DEF Grown
<1>10. ReadsNow /\ WholeDesk => GrownAlone(quotes, t) BY <1>3, <1>5, <1>6, <1>8 DEF GrownAlone
<1>11. Grown(quotes, quotes') /\ (ReadsNow /\ WholeDesk => GrownAlone(quotes, quotes')) BY <1>3, <1>7, <1>8, <1>9, <1>10, MailedAllIs
<1>12. JobOver(w) /\ UNCHANGED <<filed, awaited, shown, delay>> BY OverIs DEF AskForCall
<1> QED BY <1>11, <1>12, FiledStays DEF DeskGoes, DeskGoesAlone, JobOver, WholeDesk, DeskKinds

LEMMA AnnounceGoes ==
    ASSUME DeskKinds, DeskReads, NEW w \in Staff, Announce(w)
    PROVE  DeskGoes(w) /\ (ReadsNow /\ WholeDesk => DeskGoesAlone)
<1>1. quotes' = MailedAll(quotes) /\ Ends(w) /\ UNCHANGED <<filed, awaited, shown, delay>> BY DEF Announce, MailedAll
<1>2. quotes \in Seq(Quote) /\ Len(quotes) \in Nat /\ Len(quotes) <= MaxQuotes BY DEF DeskKinds
<1>3. Grown(quotes, quotes) BY <1>2, KeptAsItIs DEF Grown
<1>4. WholeDesk => GrownAlone(quotes, quotes) BY <1>2 DEF GrownAlone, WholeDesk
<1>5. Grown(quotes, quotes') /\ (WholeDesk => GrownAlone(quotes, quotes')) BY <1>1, <1>2, <1>3, <1>4, MailedAllIs
<1>6. JobOver(w) BY <1>1, OverIs
<1> QED BY <1>1, <1>5, <1>6, FiledStays DEF DeskGoes, DeskGoesAlone, JobOver, WholeDesk, DeskKinds

LEMMA TapBranchGoes ==
    ASSUME DeskKinds, NEW w \in Staff, NEW b \in Branches, TapBranch(w, b)
    PROVE  DeskGoes(w) /\ (WholeDesk => DeskGoesAlone)
<1>1. NextQuestion(b, QuoteRead(w, b)) /\ ThenTells(w) /\ UNCHANGED <<quotes, filed, delay>> BY DEF TapBranch
<1>2. awaited' \in Awaitable /\ shown' \subseteq Fields \cup {"send"} BY <1>1, NextQuestionIs
<1>3. delay' \in {1, 2} BY <1>1 DEF DeskKinds
<1> QED BY <1>1, <1>2, <1>3, OverIs, NoRowWritten

\* The steps that end a job and write no row.
LEMMA QuietGoes ==
    ASSUME DeskKinds, NEW w \in Staff,
           \/ TapComplaint(w) \/ ReferenceTaken(w) \/ AskSomethingElse(w) \/ SetDelay(w) \/ DieAfterCommit(w) \/ NoChange(w)
    PROVE  DeskGoes(w) /\ (WholeDesk => DeskGoesAlone)
<1>1. Ends(w) /\ UNCHANGED <<quotes, filed, shown>>
  BY DEF TapComplaint, ReferenceTaken, AskSomethingElse, SetDelay, DieAfterCommit, NoChange
<1>2. awaited' \in {awaited, "complaint", NoAnswer} /\ delay' \in {delay, 3 - delay}
  BY DEF TapComplaint, ReferenceTaken, AskSomethingElse, SetDelay, DieAfterCommit, NoChange
<1>3. awaited' \in Awaitable /\ delay' \in {1, 2} BY <1>2 DEF DeskKinds, Awaitable
<1>4. shown' \subseteq Fields \cup {"send"} BY <1>1 DEF DeskKinds
<1> QED BY <1>1, <1>3, <1>4, OverIs, NoRowWritten

-----------------------------------------------------------------------------
(* The register: the customer's complaint, its acknowledgement, the firm.  *)

\* The steps that write the register alone.
LEMMA RegisterWritten ==
    ASSUME DeskKinds, NEW w \in Staff, JobOver(w), FiledGrown(filed, filed'),
           ReadsNow /\ WholeDesk => FiledGrownAlone(filed, filed'),
           awaited' \in Awaitable, UNCHANGED <<quotes, shown, delay>>
    PROVE  DeskGoes(w) /\ (ReadsNow /\ WholeDesk => DeskGoesAlone)
<1>1. shown' \subseteq Fields \cup {"send"} /\ delay' \in {1, 2} BY DEF DeskKinds
<1> QED BY <1>1, QuotesStay DEF DeskGoes, DeskGoesAlone, JobOver, WholeDesk

LEMMA MoreIs ==
    ASSUME NEW c \in Case, NEW n \in Nat
    PROVE  LET d == [c EXCEPT !.more = n] IN
           CaseKept(c, d) /\ d.by = c.by /\ (InHand(d) <=> InHand(c)) /\ (WholeCase(c) => WholeCase(d))
<1>1. PICK d : d = [c EXCEPT !.more = n] OBVIOUS
<1>2. /\ d \in Case /\ d.kind = c.kind /\ d.due = c.due /\ d.said = c.said /\ d.retyped = c.retyped
      /\ d.status = c.status /\ d.by = c.by /\ d.answer = c.answer /\ d.started = c.started /\ d.course = c.course
  BY <1>1 DEF Case
<1> QED BY <1>1, <1>2 DEF CaseKept, DueRight, SaidRight, InHand, WholeCase

LEMMA ComplainGoes ==
    ASSUME DeskKinds, DeskReads, NEW w \in Staff, Complain(w)
    PROVE  DeskGoes(w) /\ (ReadsNow /\ WholeDesk => DeskGoesAlone)
<1>1. PICK kind \in {"RECLAMATION", "SINISTRE"} :
        LET i == OpenComplaint(job[w].filed)
            n == NextReference(job[w].filed) IN
        /\ job[w].at = "read"
        /\ awaited' = IF job[w].awaited = "complaint" THEN NoAnswer ELSE awaited
        /\ IF i # 0
           THEN /\ filed' = [filed EXCEPT ![i].more = job[w].filed[i].more + 1]
                /\ Ends(w)
           ELSE /\ Len(filed) < MaxFiled
                /\ filed' = Append(filed, NewComplaint(n, kind, "BOB"))
                /\ job' = [job EXCEPT ![w] = [at |-> "acknowledge", ref |-> n]]
        /\ UNCHANGED <<quotes, shown, delay, turns, deskDone>>
  BY DEF Complain
<1>2. PICK read \in Seq(Case) : read = job[w].filed BY <1>1, ReadIs DEF Staff
<1>3. PICK i : i = OpenComplaint(read) OBVIOUS
<1>4. PICK n \in Nat : n = NextReference(read) BY NextReferenceIs
<1>5. filed \in Seq(Case) /\ Len(filed) \in Nat /\ Len(read) \in Nat /\ delay \in {1, 2} BY DEF DeskKinds
<1>6. awaited' \in Awaitable /\ UNCHANGED <<quotes, shown, delay>> BY <1>1 DEF DeskKinds, Awaitable
<1>7. FiledBehind(read, filed) BY <1>1, <1>2 DEF DeskReads
<1>8. CASE i # 0
  <2>1. i \in DOMAIN read BY <1>3, <1>8, OpenComplaintIs
  <2>2. i \in DOMAIN filed BY <2>1, <1>5, <1>7 DEF FiledBehind
  <2>3. PICK c \in Case : c = filed[i] BY <2>2, <1>5
  <2>4. PICK more \in Nat : more = read[i].more + 1
    <3>0. read[i] \in Case BY <2>1
    <3>1. read[i].more \in Nat BY <3>0 DEF Case
    <3> QED BY <3>1
  <2>5. filed' = [filed EXCEPT ![i].more = more] /\ Ends(w) BY <1>1, <1>2, <1>3, <1>8, <2>4
  <2>6. PICK d : d = [c EXCEPT !.more = more] OBVIOUS
  <2>7. CaseKept(c, d) /\ d.by = c.by /\ (InHand(d) <=> InHand(c)) /\ (WholeCase(c) => WholeCase(d)) BY <2>6, MoreIs
  <2>8. filed' = [filed EXCEPT ![i] = d] BY <2>2, <2>3, <2>5, <2>6
  <2>9. FiledGrown(filed, filed') BY <2>2, <2>3, <2>7, <2>8, FiledOneChanged
  <2>10. WholeDesk => FiledGrownAlone(filed, filed') BY <2>2, <2>3, <2>7, <2>8, FiledOneChangedAlone DEF WholeDesk, CaseKept
  <2>11. JobOver(w) BY <2>5, OverIs
  <2> QED BY <1>6, <2>9, <2>10, <2>11, RegisterWritten
<1>9. CASE i = 0
  <2>1. PICK c : c = NewComplaint(n, kind, "BOB") OBVIOUS
  <2>2. c \in Case /\ DueRight(c) /\ SaidRight(c) /\ WholeCase(c) /\ c.by = "BOB" BY <2>1, <1>5, NewComplaintIs DEF CaseKinds
  <2>3. /\ Len(filed) < MaxFiled /\ filed' = Append(filed, c)
        /\ job' = [job EXCEPT ![w] = [at |-> "acknowledge", ref |-> n]]
    BY <1>1, <1>2, <1>3, <1>4, <1>9, <2>1
  <2>4. FiledGrown(filed, filed') BY <2>2, <2>3, FiledOneMore
  <2>5. ASSUME ReadsNow, WholeDesk PROVE FiledGrownAlone(filed, filed')
    <3>1. read = filed BY <2>5, <1>1, <1>2 DEF ReadsNow
    <3>2. 0 \notin DOMAIN filed BY <1>5
    <3>3. \A j \in DOMAIN filed : ~InHand(filed[j]) BY <3>1, <3>2, <1>3, <1>9, OpenComplaintIs
    <3> QED BY <3>3, <2>2, <2>3, <2>5, FiledOneMoreAlone DEF WholeDesk
  <2>6. JobOver(w) BY <2>3, OverIs
  <2> QED BY <1>6, <2>4, <2>5, <2>6, RegisterWritten
<1> QED BY <1>8, <1>9

LEMMA SaidIs ==
    ASSUME NEW c \in Case
    PROVE  LET d == [c EXCEPT !.acknowledged = TRUE, !.said = c.due] IN
           CaseKept(c, d) /\ d.by = c.by /\ (InHand(d) <=> InHand(c)) /\ (WholeCase(c) => WholeCase(d))
<1>1. PICK d : d = [c EXCEPT !.acknowledged = TRUE, !.said = c.due] OBVIOUS
<1>2. c.due \in 0..2 BY DEF Case
<1>3. /\ d \in Case /\ d.kind = c.kind /\ d.due = c.due /\ d.said = c.due /\ d.retyped = c.retyped
      /\ d.status = c.status /\ d.by = c.by /\ d.answer = c.answer /\ d.started = c.started /\ d.course = c.course
  BY <1>1, <1>2 DEF Case
<1> QED BY <1>1, <1>3 DEF CaseKept, DueRight, SaidRight, InHand, WholeCase

LEMMA AcknowledgeGoes ==
    ASSUME DeskKinds, NEW w \in Staff, Acknowledge(w)
    PROVE  DeskGoes(w) /\ (ReadsNow /\ WholeDesk => DeskGoesAlone)
<1>1. PICK accepted \in BOOLEAN :
        /\ filed' = [i \in DOMAIN filed |-> IF filed[i].ref = job[w].ref /\ accepted
                    THEN [filed[i] EXCEPT !.acknowledged = TRUE, !.said = filed[i].due] ELSE filed[i]]
        /\ Ends(w) /\ UNCHANGED <<quotes, awaited, shown, delay, turns, deskDone>>
  BY DEF Acknowledge
<1>2. filed \in Seq(Case) /\ Len(filed) \in Nat /\ DOMAIN filed = 1..Len(filed) /\ Len(filed) <= MaxFiled BY DEF DeskKinds
<1>3. PICK t : t = [i \in DOMAIN filed |-> IF filed[i].ref = job[w].ref /\ accepted
                    THEN [filed[i] EXCEPT !.acknowledged = TRUE, !.said = filed[i].due] ELSE filed[i]]
  OBVIOUS
<1>4. ASSUME NEW i \in DOMAIN filed
      PROVE  CaseKept(filed[i], t[i]) /\ t[i].by = filed[i].by /\ (InHand(t[i]) => InHand(filed[i]))
             /\ (WholeCase(filed[i]) => WholeCase(t[i]))
  <2>1. PICK c \in Case : c = filed[i] BY <1>2, <1>4
  <2>2. t[i] = c \/ t[i] = [c EXCEPT !.acknowledged = TRUE, !.said = c.due] BY <1>3, <1>4, <2>1
  <2>3. CASE t[i] = c BY <2>1, <2>3, CaseAsItIs
  <2>4. CASE t[i] = [c EXCEPT !.acknowledged = TRUE, !.said = c.due]
    <3>1. PICK d : d = [c EXCEPT !.acknowledged = TRUE, !.said = c.due] OBVIOUS
    <3>2. CaseKept(c, d) /\ d.by = c.by /\ (InHand(d) <=> InHand(c)) /\ (WholeCase(c) => WholeCase(d)) BY <3>1, SaidIs
    <3> QED BY <2>1, <2>4, <3>1, <3>2
  <2> QED BY <2>2, <2>3, <2>4
<1>5. DOMAIN t = DOMAIN filed BY <1>3
<1>6. t \in Seq(Case) /\ Len(t) = Len(filed)
  <2>1. \A i \in 1..Len(filed) : t[i] \in Case BY <1>2, <1>4 DEF CaseKept
  <2>2. t = [i \in 1..Len(filed) |-> t[i]] BY <1>2, <1>3
  <2> QED BY <2>1, <2>2, <1>2
<1>7. FiledGrown(filed, t) BY <1>2, <1>4, <1>5, <1>6 DEF FiledGrown
<1>8. WholeDesk => FiledGrownAlone(filed, t) BY <1>2, <1>4, <1>5, <1>6 DEF FiledGrownAlone, WholeDesk
<1>9. filed' = t BY <1>1, <1>3
<1>10. JobOver(w) /\ awaited' \in Awaitable BY <1>1, OverIs DEF DeskKinds
<1> QED BY <1>1, <1>7, <1>8, <1>9, <1>10, RegisterWritten

LEMMA WriteComplaintGoes ==
    ASSUME DeskKinds, DeskReads, NEW d \in Staff, job[d].at = "read", NEW i \in DOMAIN job[d].filed,
           NEW new, CaseWorked(job[d].filed[i], new), WriteComplaint(d, i, new)
    PROVE  DeskGoes(d) /\ (ReadsNow /\ WholeDesk => DeskGoesAlone)
<1>1. PICK read \in Seq(Case) : read = job[d].filed BY ReadIs DEF Staff
<1>2. FiledBehind(read, filed) BY <1>1 DEF DeskReads
<1>3. filed \in Seq(Case) /\ Len(filed) \in Nat /\ Len(read) \in Nat BY DEF DeskKinds
<1>4. i \in DOMAIN read /\ i \in DOMAIN filed BY <1>1, <1>2, <1>3 DEF FiledBehind
<1>5. PICK now \in Case : now = filed[i] BY <1>3, <1>4
<1>6. PICK c \in Case : c = read[i] BY <1>4
<1>7. PICK st : st = StoredComplaint(now, c, new) OBVIOUS
<1>8. CaseKept(now, st) BY <1>1, <1>2, <1>4, <1>5, <1>6, <1>7, CaseKeptStored DEF FiledBehind
<1>9. filed' = [filed EXCEPT ![i] = st] /\ Ends(d) /\ UNCHANGED <<quotes, awaited, shown, delay>>
  BY <1>1, <1>4, <1>5, <1>6, <1>7 DEF WriteComplaint
<1>10. FiledGrown(filed, filed') BY <1>4, <1>5, <1>8, <1>9, FiledOneChanged
<1>11. ASSUME ReadsNow, WholeDesk PROVE FiledGrownAlone(filed, filed')
  <2>1. c = now /\ WholeCase(now) BY <1>1, <1>4, <1>5, <1>6, <1>11 DEF ReadsNow, WholeDesk
  <2>2. WholeCase(st) /\ st.by = now.by /\ (InHand(st) => InHand(now)) BY <2>1, <1>1, <1>6, <1>7, WholeCaseStored
  <2> QED BY <2>2, <1>4, <1>5, <1>8, <1>9, <1>11, FiledOneChangedAlone DEF WholeDesk, CaseKept
<1>12. JobOver(d) /\ awaited' \in Awaitable BY <1>9, OverIs DEF DeskKinds
<1> QED BY <1>9, <1>10, <1>11, <1>12, RegisterWritten

LEMMA CaseWorkedIs ==
    ASSUME NEW c \in Case, delay \in {1, 2}
    PROVE  /\ c.status = "RECEIVED" => CaseWorked(c, [c EXCEPT !.status = "IN_PROGRESS", !.started = TRUE])
           /\ c.status # "RESOLVED" =>
                CaseWorked(c, [c EXCEPT !.status = "RESOLVED", !.started = TRUE, !.resolved = TRUE, !.answer = TRUE])
           /\ LET to == IF c.kind = "SINISTRE" THEN "RECLAMATION" ELSE "SINISTRE" IN
              CaseWorked(c, [c EXCEPT !.kind = to, !.due = DueDate(to, delay), !.retyped = TRUE])
<1>1. ASSUME c.status = "RECEIVED" PROVE CaseWorked(c, [c EXCEPT !.status = "IN_PROGRESS", !.started = TRUE])
  <2>1. PICK d : d = [c EXCEPT !.status = "IN_PROGRESS", !.started = TRUE] OBVIOUS
  <2>2. /\ d \in Case /\ d.by = c.by /\ d.course = c.course /\ SameDeadline(c, d) /\ d.status = "IN_PROGRESS"
    BY <2>1 DEF Case, CaseStatus, SameDeadline
  <2> QED BY <2>1, <2>2, <1>1 DEF CaseWorked, StepForward
<1>2. ASSUME c.status # "RESOLVED"
      PROVE  CaseWorked(c, [c EXCEPT !.status = "RESOLVED", !.started = TRUE, !.resolved = TRUE, !.answer = TRUE])
  <2>1. PICK d : d = [c EXCEPT !.status = "RESOLVED", !.started = TRUE, !.resolved = TRUE, !.answer = TRUE] OBVIOUS
  <2>2. /\ d \in Case /\ d.by = c.by /\ d.course = c.course /\ SameDeadline(c, d) /\ d.status = "RESOLVED" /\ d.answer /\ d.started
    BY <2>1 DEF Case, CaseStatus, SameDeadline
  <2> QED BY <2>1, <2>2, <1>2 DEF CaseWorked, StepForward
<1>3. PICK to : to = IF c.kind = "SINISTRE" THEN "RECLAMATION" ELSE "SINISTRE" OBVIOUS
<1>4. PICK due : due = DueDate(to, delay) OBVIOUS
<1>5. PICK d : d = [c EXCEPT !.kind = to, !.due = due, !.retyped = TRUE] OBVIOUS
<1>6. to \in CaseKinds /\ to # c.kind /\ due \in 0..2 /\ (due # 0 <=> to = "RECLAMATION") BY <1>3, <1>4 DEF DueDate, CaseKinds
<1>7. /\ d \in Case /\ d.by = c.by /\ d.course = c.course /\ d.kind = to /\ d.due = due /\ d.said = c.said /\ d.retyped
      /\ d.status = c.status /\ d.answer = c.answer /\ d.started = c.started
  BY <1>5, <1>6 DEF Case
<1>8. CaseWorked(c, d) BY <1>6, <1>7 DEF CaseWorked, Retyped, DueRight
<1> QED BY <1>1, <1>2, <1>3, <1>4, <1>5, <1>8

LEMMA CaseStepGoes ==
    ASSUME DeskKinds, DeskReads, NEW d \in Staff, StartComplaint(d) \/ ResolveComplaint(d) \/ ChangeKind(d)
    PROVE  DeskGoes(d) /\ (ReadsNow /\ WholeDesk => DeskGoesAlone)
<1>1. job[d].at = "read" BY DEF StartComplaint, ResolveComplaint, ChangeKind, AtDesk
<1>2. job[d].filed \in Seq(Case) /\ delay \in {1, 2} BY <1>1, ReadIs DEF Staff, DeskKinds
<1>3. CASE StartComplaint(d)
  <2>1. PICK i \in DOMAIN job[d].filed : LET c == job[d].filed[i] IN
            /\ c.status = "RECEIVED" /\ WriteComplaint(d, i, [c EXCEPT !.status = "IN_PROGRESS", !.started = TRUE])
    BY <1>3 DEF StartComplaint
  <2>2. PICK c \in Case : c = job[d].filed[i] BY <1>2
  <2>3. PICK new : new = [c EXCEPT !.status = "IN_PROGRESS", !.started = TRUE] OBVIOUS
  <2>4. CaseWorked(c, new) /\ WriteComplaint(d, i, new) BY <1>2, <2>1, <2>2, <2>3, CaseWorkedIs
  <2> QED BY <1>1, <2>2, <2>4, WriteComplaintGoes
<1>4. CASE ResolveComplaint(d)
  <2>1. PICK i \in DOMAIN job[d].filed : LET c == job[d].filed[i] IN
            /\ c.status # "RESOLVED"
            /\ WriteComplaint(d, i, [c EXCEPT !.status = "RESOLVED", !.started = TRUE, !.resolved = TRUE, !.answer = TRUE])
    BY <1>4 DEF ResolveComplaint
  <2>2. PICK c \in Case : c = job[d].filed[i] BY <1>2
  <2>3. PICK new : new = [c EXCEPT !.status = "RESOLVED", !.started = TRUE, !.resolved = TRUE, !.answer = TRUE] OBVIOUS
  <2>4. CaseWorked(c, new) /\ WriteComplaint(d, i, new) BY <1>2, <2>1, <2>2, <2>3, CaseWorkedIs
  <2> QED BY <1>1, <2>2, <2>4, WriteComplaintGoes
<1>5. CASE ChangeKind(d)
  <2>1. PICK i \in DOMAIN job[d].filed :
            LET c  == job[d].filed[i]
                to == IF c.kind = "SINISTRE" THEN "RECLAMATION" ELSE "SINISTRE" IN
            WriteComplaint(d, i, [c EXCEPT !.kind = to, !.due = DueDate(to, delay), !.retyped = TRUE])
    BY <1>5 DEF ChangeKind
  <2>2. PICK c \in Case : c = job[d].filed[i] BY <1>2
  <2>3. PICK to : to = IF c.kind = "SINISTRE" THEN "RECLAMATION" ELSE "SINISTRE" OBVIOUS
  <2>4. PICK new : new = [c EXCEPT !.kind = to, !.due = DueDate(to, delay), !.retyped = TRUE] OBVIOUS
  <2>5. WriteComplaint(d, i, new) BY <2>1, <2>2, <2>3, <2>4
  <2>6. CaseWorked(c, new) BY <1>2, <2>3, <2>4, CaseWorkedIs
  <2> QED BY <1>1, <2>2, <2>5, <2>6, WriteComplaintGoes
<1> QED BY <1>3, <1>4, <1>5

LEMMA FileByHandGoes ==
    ASSUME DeskKinds, DeskReads, NEW d \in Staff, FileByHand(d)
    PROVE  DeskGoes(d) /\ (ReadsNow /\ WholeDesk => DeskGoesAlone)
<1>1. PICK kind \in {"RECLAMATION", "SINISTRE"} :
        LET n == NextReference(job[d].filed) IN
        /\ AtDesk(d) /\ Len(filed) < MaxFiled
        /\ filed' = Append(filed, NewComplaint(n, kind, "ADVISER"))
        /\ Ends(d) /\ UNCHANGED <<quotes, awaited, shown, delay, turns, deskDone>>
  BY DEF FileByHand
<1>2. PICK read \in Seq(Case) : read = job[d].filed BY <1>1, ReadIs DEF Staff, AtDesk
<1>3. PICK n \in Nat : n = NextReference(read) BY NextReferenceIs
<1>4. PICK c : c = NewComplaint(n, kind, "ADVISER") OBVIOUS
<1>5. c \in Case /\ DueRight(c) /\ SaidRight(c) /\ WholeCase(c) /\ c.by # "BOB" BY <1>4, NewComplaintIs DEF CaseKinds, DeskKinds
<1>6. /\ Len(filed) < MaxFiled /\ filed' = Append(filed, c) /\ Ends(d) /\ UNCHANGED <<quotes, awaited, shown, delay>>
  BY <1>1, <1>2, <1>3, <1>4
<1>7. FiledGrown(filed, filed') BY <1>5, <1>6, FiledOneMore
<1>8. WholeDesk => FiledGrownAlone(filed, filed') BY <1>5, <1>6, FiledOneMoreAlone DEF WholeDesk
<1>9. JobOver(d) /\ awaited' \in Awaitable BY <1>6, OverIs DEF DeskKinds
<1> QED BY <1>6, <1>7, <1>8, <1>9, RegisterWritten

\* The follow-up of a request by an adviser.
LEMMA AdvanceQuoteGoes ==
    ASSUME DeskKinds, DeskReads, NEW d \in Staff, AdvanceQuote(d)
    PROVE  DeskGoes(d) /\ (ReadsNow /\ WholeDesk => DeskGoesAlone)
<1>1. PICK i \in DOMAIN job[d].quotes : \E to \in Follows(job[d].quotes[i].status) :
        /\ quotes' = [quotes EXCEPT ![i] = Stored(@, job[d].quotes[i], Advanced(job[d].quotes[i], to))]
        /\ Ends(d) /\ UNCHANGED <<filed, awaited, shown, delay, turns, deskDone>>
  BY DEF AdvanceQuote
<1>0. job[d].at = "read" BY DEF AdvanceQuote, AtDesk
<1>2. PICK to \in Follows(job[d].quotes[i].status) :
        /\ quotes' = [quotes EXCEPT ![i] = Stored(@, job[d].quotes[i], Advanced(job[d].quotes[i], to))]
        /\ Ends(d) /\ UNCHANGED <<filed, awaited, shown, delay, turns, deskDone>>
  BY <1>1
<1>3. PICK read \in Seq(Quote) : read = job[d].quotes BY <1>0, ReadIs DEF Staff
<1>4. QuotesBehind(read, quotes) BY <1>0, <1>3 DEF DeskReads
<1>5. quotes \in Seq(Quote) /\ Len(quotes) \in Nat /\ Len(read) \in Nat /\ Len(quotes) <= MaxQuotes BY DEF DeskKinds
<1>6. i \in DOMAIN read /\ i \in DOMAIN quotes BY <1>3, <1>4, <1>5 DEF QuotesBehind
<1>7. PICK now \in Quote : now = quotes[i] BY <1>5, <1>6
<1>8. PICK q \in Quote : q = read[i] BY <1>6
<1>9. PICK new : new = Advanced(q, to) OBVIOUS
<1>10. Worked(q, new) BY <1>2, <1>3, <1>8, <1>9, AdvancedIs
<1>11. PICK st : st = Stored(now, q, new) OBVIOUS
<1>12. KeptRow(now, st) BY <1>4, <1>6, <1>7, <1>8, <1>10, <1>11, KeptStored DEF QuotesBehind, Worked
<1>13. quotes' = [quotes EXCEPT ![i] = st] BY <1>2, <1>3, <1>6, <1>7, <1>8, <1>9, <1>11
<1>14. PICK t : t = [quotes EXCEPT ![i] = st] OBVIOUS
<1>15. t \in Seq(Quote) /\ Len(t) = Len(quotes) /\ DOMAIN t = DOMAIN quotes /\ t[i] = st /\ \A j \in DOMAIN quotes \ {i} : t[j] = quotes[j]
  <2>1. st \in Quote BY <1>12 DEF KeptRow
  <2> QED BY <2>1, <1>5, <1>6, <1>14
<1>16. \A j \in DOMAIN quotes : KeptRow(quotes[j], t[j]) BY <1>5, <1>7, <1>12, <1>15, KeptAsItIs
<1>17. Grown(quotes, t) BY <1>5, <1>15, <1>16 DEF Grown
<1>18. ASSUME ReadsNow, WholeDesk PROVE GrownAlone(quotes, t)
  <2>1. q = now /\ WholeRow(now) BY <1>0, <1>3, <1>6, <1>7, <1>8, <1>18 DEF ReadsNow, WholeDesk
  <2>2. WholeRow(st) /\ (Open(st) => Open(now)) BY <2>1, <1>10, <1>11, WholeStored DEF Worked
  <2> QED BY <2>2, <1>5, <1>7, <1>15, <1>18 DEF GrownAlone, WholeDesk
<1>19. JobOver(d) /\ UNCHANGED <<filed, awaited, shown, delay>> BY <1>2, OverIs
<1>20. Grown(quotes, quotes') /\ (ReadsNow /\ WholeDesk => GrownAlone(quotes, quotes')) BY <1>13, <1>14, <1>17, <1>18
<1> QED BY <1>19, <1>20, FiledStays DEF DeskGoes, DeskGoesAlone, JobOver, WholeDesk, DeskKinds

-----------------------------------------------------------------------------
(* Every step keeps the invariant.                                         *)

\* Every step but a reading.
Works(w) ==
    \/ BobFills(w) \/ Guided(w) \/ AskForCall(w) \/ Announce(w)
    \/ TapComplaint(w) \/ Complain(w) \/ ReferenceTaken(w) \/ Acknowledge(w) \/ AskSomethingElse(w)
    \/ AdvanceQuote(w) \/ StartComplaint(w) \/ ResolveComplaint(w) \/ ChangeKind(w) \/ FileByHand(w) \/ SetDelay(w)
    \/ DieAfterCommit(w) \/ NoChange(w)

LEMMA WorksGoes ==
    ASSUME DeskKinds, DeskReads, NEW w \in Staff, Works(w)
    PROVE  DeskGoes(w) /\ (ReadsNow /\ WholeDesk => DeskGoesAlone)
<1>1. CASE Guided(w)
  <2>1. PICK b \in Branches : TapBranch(w, b) \/ TapAnswer(w, b) \/ WriteAnswer(w, b) \/ TapSend(w, b) BY <1>1 DEF Guided
  <2> QED BY <2>1, TapBranchGoes, TapAnswerGoes, WriteAnswerGoes, TapSendGoes
<1>2. CASE BobFills(w) BY <1>2, BobFillsGoes
<1>3. CASE AskForCall(w) BY <1>3, AskForCallGoes
<1>4. CASE Announce(w) BY <1>4, AnnounceGoes
<1>5. CASE TapComplaint(w) \/ ReferenceTaken(w) \/ AskSomethingElse(w) \/ SetDelay(w) \/ DieAfterCommit(w) \/ NoChange(w)
  BY <1>5, QuietGoes
<1>6. CASE Complain(w) BY <1>6, ComplainGoes
<1>7. CASE Acknowledge(w) BY <1>7, AcknowledgeGoes
<1>8. CASE AdvanceQuote(w) BY <1>8, AdvanceQuoteGoes
<1>9. CASE StartComplaint(w) \/ ResolveComplaint(w) \/ ChangeKind(w) BY <1>9, CaseStepGoes
<1>10. CASE FileByHand(w) BY <1>10, FileByHandGoes
<1> QED BY <1>1, <1>2, <1>3, <1>4, <1>5, <1>6, <1>7, <1>8, <1>9, <1>10 DEF Works

LEMMA WorksBusy ==
    ASSUME NEW w \in Staff, Works(w)
    PROVE  job[w] # Idle
<1>1. Idle.at = "free" BY DEF Idle
<1>2. CASE Guided(w)
  <2>1. job[w].at = "read" BY <1>2 DEF Guided, TapBranch, TapAnswer, WriteAnswer, TapSend
  <2> QED BY <1>1, <2>1
<1>3. CASE BobFills(w) \/ AskForCall(w) \/ TapComplaint(w) \/ Complain(w) \/ ReferenceTaken(w) \/ AskSomethingElse(w) \/ NoChange(w)
  <2>1. job[w].at = "read" BY <1>3 DEF BobFills, AskForCall, TapComplaint, Complain, ReferenceTaken, AskSomethingElse, NoChange
  <2> QED BY <1>1, <2>1
<1>4. CASE AdvanceQuote(w) \/ StartComplaint(w) \/ ResolveComplaint(w) \/ ChangeKind(w) \/ FileByHand(w) \/ SetDelay(w)
  <2>1. job[w].at = "read" BY <1>4 DEF AdvanceQuote, StartComplaint, ResolveComplaint, ChangeKind, FileByHand, SetDelay, AtDesk
  <2> QED BY <1>1, <2>1
<1>5. CASE Announce(w) \/ Acknowledge(w) \/ DieAfterCommit(w)
  <2>1. job[w].at \in {"announce", "acknowledge"} BY <1>5 DEF Announce, Acknowledge, DieAfterCommit
  <2> QED BY <1>1, <2>1
<1> QED BY <1>2, <1>3, <1>4, <1>5 DEF Works

LEMMA BehindStill ==
    ASSUME NEW r, NEW s, NEW t, Len(r) \in Nat, Len(s) \in Nat, Len(t) \in Nat,
           DOMAIN r = 1..Len(r), DOMAIN s = 1..Len(s)
    PROVE  /\ QuotesBehind(r, s) /\ Grown(s, t) => QuotesBehind(r, t)
           /\ FiledBehind(r, s) /\ FiledGrown(s, t) => FiledBehind(r, t)
BY DEF QuotesBehind, Grown, KeptRow, FiledBehind, FiledGrown, CaseKept

\* The tables after a step, and what the jobs in progress had read of them.
LEMMA DeskWritten ==
    ASSUME DeskKinds, DeskReads, DeskRows, NEW w \in Staff, DeskGoes(w), overlapped' \in BOOLEAN
    PROVE  DeskKinds' /\ DeskReads' /\ DeskRows'
<1>1. PICK x \in Jobs : x.at # "read" /\ job' = [job EXCEPT ![w] = x] BY DEF DeskGoes
<1>2. job \in [Staff -> Jobs] BY DEF DeskKinds, Staff
<1>3. job' \in [Staff -> Jobs] /\ job'[w] = x /\ \A v \in Staff \ {w} : job'[v] = job[v] BY <1>1, <1>2
<1>4. /\ quotes \in Seq(Quote) /\ Len(quotes) \in Nat /\ DOMAIN quotes = 1..Len(quotes)
      /\ filed \in Seq(Case) /\ Len(filed) \in Nat /\ DOMAIN filed = 1..Len(filed)
  BY DEF DeskKinds
<1>5. /\ quotes' \in Seq(Quote) /\ Len(quotes') \in Nat /\ Len(quotes') <= MaxQuotes
      /\ filed' \in Seq(Case) /\ Len(filed') \in Nat /\ Len(filed') <= MaxFiled
  BY DEF DeskGoes, Grown, FiledGrown
<1>6. DeskKinds' BY <1>3, <1>5 DEF DeskGoes, DeskKinds, Staff
<1>7. DeskReads'
  <2> SUFFICES ASSUME NEW v \in Staff, job'[v].at = "read"
               PROVE  QuotesBehind(job'[v].quotes, quotes') /\ FiledBehind(job'[v].filed, filed')
    BY DEF DeskReads
  <2>1. v # w /\ job'[v] = job[v] BY <1>1, <1>3
  <2>2. PICK r \in Seq(Quote) : r = job[v].quotes BY <2>1, ReadIs DEF Staff
  <2>3. PICK k \in Seq(Case) : k = job[v].filed BY <2>1, ReadIs DEF Staff
  <2>4. QuotesBehind(r, quotes) /\ FiledBehind(k, filed) BY <2>1, <2>2, <2>3 DEF DeskReads
  <2>5. Len(r) \in Nat /\ DOMAIN r = 1..Len(r) /\ Len(k) \in Nat /\ DOMAIN k = 1..Len(k) OBVIOUS
  <2>6. QuotesBehind(r, quotes') /\ FiledBehind(k, filed') BY <1>4, <1>5, <2>4, <2>5, BehindStill DEF DeskGoes
  <2> QED BY <2>1, <2>2, <2>3, <2>6
<1>8. DeskRows'
  <2>1. \A i \in DOMAIN quotes' : Agreed(quotes'[i]) /\ MailedRight(quotes'[i]) BY DEF DeskRows, DeskGoes, Grown, KeptRow
  <2>2. \A i \in DOMAIN filed' : DueRight(filed'[i]) /\ SaidRight(filed'[i]) BY DEF DeskRows, DeskGoes, FiledGrown, CaseKept
  <2> QED BY <2>1, <2>2 DEF DeskRows
<1> QED BY <1>6, <1>7, <1>8

LEMMA WholeAfter ==
    ASSUME DeskKinds, WholeDesk, NEW w \in Staff, DeskGoes(w), DeskGoesAlone
    PROVE  WholeDesk'
<1>1. /\ quotes \in Seq(Quote) /\ Len(quotes) \in Nat /\ DOMAIN quotes = 1..Len(quotes)
      /\ filed \in Seq(Case) /\ Len(filed) \in Nat /\ DOMAIN filed = 1..Len(filed)
  BY DEF DeskKinds
<1>2. PICK t \in Seq(Quote) : t = quotes' /\ Len(t) \in Nat /\ DOMAIN t = 1..Len(t) BY DEF DeskGoes, Grown
<1>3. PICK k \in Seq(Case) : k = filed' /\ Len(k) \in Nat /\ DOMAIN k = 1..Len(k) BY DEF DeskGoes, FiledGrown
<1>4. \A i \in DOMAIN t : WholeRow(t[i]) BY <1>2 DEF DeskGoesAlone, GrownAlone
<1>5. \A i \in DOMAIN k : WholeCase(k[i]) BY <1>3 DEF DeskGoesAlone, FiledGrownAlone
<1>6. ASSUME NEW i \in DOMAIN t, NEW j \in DOMAIN t, Open(t[i]), Open(t[j]), t[i].branch = t[j].branch PROVE i = j
  <2>1. Len(t) <= Len(quotes) + 1 BY <1>2 DEF DeskGoesAlone, GrownAlone
  <2>2. \A n \in DOMAIN quotes : (Open(t[n]) => Open(quotes[n])) /\ t[n].branch = quotes[n].branch
    BY <1>2 DEF DeskGoes, DeskGoesAlone, Grown, GrownAlone, KeptRow
  <2>3. \A n \in DOMAIN t : n \notin DOMAIN quotes => \A m \in DOMAIN quotes : ~(Open(quotes[m]) /\ quotes[m].branch = t[n].branch)
    BY <1>2 DEF DeskGoesAlone, GrownAlone
  <2>4. CASE i \in DOMAIN quotes /\ j \in DOMAIN quotes BY <2>2, <2>4, <1>6 DEF WholeDesk, OneOpenRequest
  <2>5. CASE i \in DOMAIN quotes /\ j \notin DOMAIN quotes BY <2>2, <2>3, <2>5, <1>6
  <2>6. CASE i \notin DOMAIN quotes /\ j \in DOMAIN quotes BY <2>2, <2>3, <2>6, <1>6
  <2>7. CASE i \notin DOMAIN quotes /\ j \notin DOMAIN quotes
    <3>1. i = Len(quotes) + 1 /\ j = Len(quotes) + 1 BY <2>1, <2>7, <1>1, <1>2
    <3> QED BY <3>1
  <2> QED BY <2>4, <2>5, <2>6, <2>7
<1>7. ASSUME NEW i \in DOMAIN k, NEW j \in DOMAIN k, k[i].by = "BOB", InHand(k[i]), k[j].by = "BOB", InHand(k[j]) PROVE i = j
  <2>1. Len(k) <= Len(filed) + 1 BY <1>3 DEF DeskGoesAlone, FiledGrownAlone
  <2>2. \A n \in DOMAIN filed : (InHand(k[n]) => InHand(filed[n])) /\ k[n].by = filed[n].by
    BY <1>3 DEF DeskGoesAlone, FiledGrownAlone
  <2>3. \A n \in DOMAIN k : n \notin DOMAIN filed => (k[n].by = "BOB" => \A m \in DOMAIN filed : ~InHand(filed[m]))
    BY <1>3 DEF DeskGoesAlone, FiledGrownAlone
  <2>4. CASE i \in DOMAIN filed /\ j \in DOMAIN filed BY <2>2, <2>4, <1>7 DEF WholeDesk, OneInHandOfBob
  <2>5. CASE i \in DOMAIN filed /\ j \notin DOMAIN filed BY <2>2, <2>3, <2>5, <1>7
  <2>6. CASE i \notin DOMAIN filed /\ j \in DOMAIN filed BY <2>2, <2>3, <2>6, <1>7
  <2>7. CASE i \notin DOMAIN filed /\ j \notin DOMAIN filed
    <3>1. i = Len(filed) + 1 /\ j = Len(filed) + 1 BY <2>1, <2>7, <1>1, <1>3
    <3> QED BY <3>1
  <2> QED BY <2>4, <2>5, <2>6, <2>7
<1>8. OneOpenRequest' BY <1>2, <1>6 DEF OneOpenRequest
<1>9. OneInHandOfBob' BY <1>3, <1>7 DEF OneInHandOfBob
<1> QED BY <1>2, <1>3, <1>4, <1>5, <1>8, <1>9 DEF WholeDesk

LEMMA WorksKeeps ==
    ASSUME DeskInv, NEW w \in Staff, Works(w), overlapped' = (overlapped \/ TwoJobs')
    PROVE  DeskInv'
<1>1. DeskKinds /\ DeskReads /\ DeskRows BY DEF DeskInv
<1>2. DeskGoes(w) /\ (ReadsNow /\ WholeDesk => DeskGoesAlone) BY <1>1, WorksGoes
<1>3. overlapped' \in BOOLEAN BY <1>1 DEF DeskKinds, TwoJobs
<1>4. DeskKinds' /\ DeskReads' /\ DeskRows' BY <1>1, <1>2, <1>3, DeskWritten
<1>5. ASSUME ~overlapped' PROVE (~TwoJobs /\ ReadsNow /\ WholeDesk)'
  <2>1. ~TwoJobs' /\ ~overlapped BY <1>5
  <2>2. ~TwoJobs /\ ReadsNow /\ WholeDesk BY <2>1 DEF DeskInv
  <2>3. WholeDesk' BY <1>1, <1>2, <2>2, WholeAfter
  <2>4. ReadsNow'
    <3> SUFFICES ASSUME NEW v \in Staff, job'[v].at = "read" PROVE FALSE BY DEF ReadsNow
    <3>1. PICK x \in Jobs : x.at # "read" /\ job' = [job EXCEPT ![w] = x] BY <1>2 DEF DeskGoes
    <3>2. job \in [Staff -> Jobs] BY <1>1 DEF DeskKinds, Staff
    <3>3. v # w /\ job[v] = job'[v] BY <3>1, <3>2
    <3>4. job[v] # Idle BY <3>3, <1>1, ReadIs DEF Staff
    <3>5. job[w] # Idle BY WorksBusy
    <3> QED BY <3>3, <3>4, <3>5, <2>2 DEF TwoJobs, Staff
  <2> QED BY <2>1, <2>3, <2>4
<1> QED BY <1>4, <1>5 DEF DeskInv

LEMMA ReadKeeps ==
    ASSUME DeskInv, NEW w \in Staff, Read(w), overlapped' = (overlapped \/ TwoJobs')
    PROVE  DeskInv'
<1>1. DeskKinds /\ DeskReads /\ DeskRows BY DEF DeskInv
<1>2. PICK x : x = [at |-> "read", quotes |-> quotes, filed |-> filed, awaited |-> awaited] OBVIOUS
<1>3. x \in Jobs /\ x.at = "read" /\ x.quotes = quotes /\ x.filed = filed BY <1>1, <1>2 DEF Jobs, DeskKinds
<1>4. job' = [job EXCEPT ![w] = x] /\ UNCHANGED <<quotes, filed, awaited, shown, delay>> BY <1>2 DEF Read
<1>5. job \in [Staff -> Jobs] BY <1>1 DEF DeskKinds, Staff
<1>6. job' \in [Staff -> Jobs] /\ job'[w] = x /\ \A v \in Staff \ {w} : job'[v] = job[v] BY <1>3, <1>4, <1>5
<1>7. overlapped' \in BOOLEAN BY <1>1 DEF DeskKinds, TwoJobs
<1>8. DeskKinds' BY <1>1, <1>4, <1>6, <1>7 DEF DeskKinds, Staff
<1>9. QuotesBehind(quotes, quotes) /\ FiledBehind(filed, filed)
  <2>1. Len(quotes) \in Nat /\ Len(filed) \in Nat BY <1>1 DEF DeskKinds
  <2> QED BY <2>1, <1>1 DEF DeskRows, QuotesBehind, FiledBehind
<1>10. DeskReads'
  <2> SUFFICES ASSUME NEW v \in Staff, job'[v].at = "read"
               PROVE  QuotesBehind(job'[v].quotes, quotes') /\ FiledBehind(job'[v].filed, filed')
    BY DEF DeskReads
  <2>1. CASE v = w BY <2>1, <1>3, <1>4, <1>6, <1>9
  <2>2. CASE v # w
    <3>1. job'[v] = job[v] BY <2>2, <1>6
    <3>2. QuotesBehind(job[v].quotes, quotes) /\ FiledBehind(job[v].filed, filed) BY <3>1, <1>1 DEF DeskReads
    <3> QED BY <3>1, <3>2, <1>4
  <2> QED BY <2>1, <2>2
<1>11. DeskRows' BY <1>1, <1>4 DEF DeskRows
<1>12. ASSUME ~overlapped' PROVE (~TwoJobs /\ ReadsNow /\ WholeDesk)'
  <2>1. ~TwoJobs' /\ ~overlapped BY <1>12
  <2>2. WholeDesk BY <2>1 DEF DeskInv
  <2>3. WholeDesk' BY <2>2, <1>4 DEF WholeDesk, OneOpenRequest, OneInHandOfBob
  <2>4. ReadsNow'
    <3> SUFFICES ASSUME NEW v \in Staff, job'[v].at = "read" PROVE job'[v].quotes = quotes' /\ job'[v].filed = filed'
      BY DEF ReadsNow
    <3>1. job'[v] # Idle /\ job'[w] # Idle BY <1>3, <1>6 DEF Idle
    <3>2. v = w BY <3>1, <2>1 DEF TwoJobs, Staff
    <3> QED BY <3>2, <1>3, <1>4, <1>6
  <2> QED BY <2>1, <2>3, <2>4
<1> QED BY <1>8, <1>10, <1>11, <1>12 DEF DeskInv

LEMMA DeskStarts == InsuranceInit => DeskInv
<1> SUFFICES ASSUME InsuranceInit PROVE DeskInv OBVIOUS
<1>1. Idle \in Jobs /\ Idle.at # "read" BY DEF Jobs, Idle
<1>2. \A w \in Staff : job[w] = Idle BY DEF InsuranceInit, Staff
<1>3. {MaxQuotes, MaxFiled} \subseteq Nat BY DeskAssumption
<1>4. DeskKinds
  <2>1. quotes = <<>> /\ filed = <<>> /\ awaited = NoAnswer /\ shown = {} /\ delay \in {1, 2} /\ overlapped = FALSE
    BY DEF InsuranceInit
  <2>2. quotes \in Seq(Quote) /\ Len(quotes) = 0 /\ filed \in Seq(Case) /\ Len(filed) = 0 BY <2>1
  <2>3. Len(quotes) <= MaxQuotes /\ Len(filed) <= MaxFiled BY <1>3, <2>2
  <2>4. job \in [Webhooks \cup Advisers -> Jobs] BY <1>1 DEF InsuranceInit
  <2> QED BY <2>1, <2>2, <2>3, <2>4 DEF DeskKinds, Awaitable
<1>5. DeskReads /\ ReadsNow BY <1>1, <1>2 DEF DeskReads, ReadsNow
<1>6. DeskRows /\ WholeDesk BY DEF InsuranceInit, DeskRows, WholeDesk, OneOpenRequest, OneInHandOfBob
<1>7. ~TwoJobs BY <1>2 DEF TwoJobs, Staff
<1> QED BY <1>4, <1>5, <1>6, <1>7 DEF DeskInv

LEMMA DeskStutters == ASSUME DeskInv, UNCHANGED insuranceVars PROVE DeskInv'
<1>1. /\ quotes' = quotes /\ filed' = filed /\ awaited' = awaited /\ shown' = shown /\ job' = job /\ delay' = delay
      /\ overlapped' = overlapped
  BY DEF insuranceVars
<1> QED BY <1>1 DEF DeskInv, DeskKinds, DeskReads, DeskRows, TwoJobs, ReadsNow, WholeDesk, OneOpenRequest, OneInHandOfBob

LEMMA DeskInductive == DeskInv /\ [InsuranceNext]_insuranceVars => DeskInv'
<1> SUFFICES ASSUME DeskInv, [InsuranceNext]_insuranceVars PROVE DeskInv' OBVIOUS
<1>1. CASE InsuranceNext
  <2>1. overlapped' = (overlapped \/ TwoJobs') /\ DeskStep BY <1>1 DEF InsuranceNext
  <2>2. PICK w \in Staff : Read(w) \/ Works(w) BY <2>1 DEF DeskStep, Works, Staff
  <2> QED BY <2>1, <2>2, ReadKeeps, WorksKeeps
<1>2. CASE UNCHANGED insuranceVars BY <1>2, DeskStutters
<1> QED BY <1>1, <1>2

LEMMA DeskInvHolds == InsuranceSpec => []DeskInv
BY DeskStarts, DeskInductive, PTL DEF InsuranceSpec

LEMMA DeskTyped == DeskInv => InsuranceTypeOK
<1> SUFFICES ASSUME DeskInv PROVE InsuranceTypeOK OBVIOUS
<1>1. DeskKinds BY DEF DeskInv
<1>2. \A i \in DOMAIN quotes : quotes[i].branch \in Branches /\ quotes[i].known \subseteq Fields
  <2>1. \A i \in DOMAIN quotes : quotes[i] \in Quote BY <1>1 DEF DeskKinds
  <2> QED BY <2>1 DEF Quote
<1>3. \A i \in DOMAIN filed : filed[i].kind \in {"RECLAMATION", "SINISTRE"}
  <2>1. \A i \in DOMAIN filed : filed[i] \in Case BY <1>1 DEF DeskKinds
  <2> QED BY <2>1 DEF Case, CaseKinds
<1>4. \A w \in DOMAIN job : job[w].at \in {"free", "read", "announce", "acknowledge"} BY <1>1 DEF DeskKinds, Jobs, Idle
<1> QED BY <1>1, <1>2, <1>3, <1>4 DEF InsuranceTypeOK, DeskKinds, Awaitable

LEMMA DeskIsRight == DeskInv => DeskRight
<1> SUFFICES ASSUME DeskInv PROVE DeskRight OBVIOUS
<1>1. DeskKinds /\ DeskRows BY DEF DeskInv
<1>2. AgreedFirst /\ MailedOnce /\ DeadlineKept
  BY <1>1 DEF DeskRows, AgreedFirst, MailedOnce, DeadlineKept, Agreed, MailedRight, DueRight, SaidRight
<1>3. ASSUME ~overlapped PROVE WholeDesk BY <1>3 DEF DeskInv
<1>4. PassedOnWhole
  <2> SUFFICES ASSUME ~overlapped PROVE PassedOnWhole BY DEF PassedOnWhole
  <2> QED BY <1>3 DEF PassedOnWhole, WholeDesk, WholeRow, OneOpenRequest
<1>5. FollowedByStep
  <2> SUFFICES ASSUME ~overlapped, NEW i \in DOMAIN quotes
               PROVE  LET q == quotes[i] IN
                      /\ \A n \in 1 .. (Len(q.course) - 1) :
                            q.course[n + 1] \in (IF q.course[n] = "DRAFT" THEN {"SUBMITTED"} ELSE Follows(q.course[n]))
                      /\ q.closed <=> q.status \in {"WON", "LOST"}
                      /\ q.why <=> q.status = "LOST"
    BY DEF FollowedByStep
  <2>1. WholeRow(quotes[i]) BY <1>3 DEF WholeDesk
  <2> QED BY <2>1 DEF WholeRow, Went, NextOf
<1>6. OneComplaintOpen
  <2> SUFFICES ASSUME ~overlapped PROVE OneComplaintOpen BY DEF OneComplaintOpen
  <2>1. WholeDesk BY <1>3
  <2> DEFINE open == {i \in DOMAIN filed : filed[i].by = "BOB" /\ InHand(filed[i])}
  <2>2. Cardinality(open) <= 1
    <3>1. \A i, j \in open : i = j BY <2>1 DEF WholeDesk, OneInHandOfBob
    <3> HIDE DEF open
    <3>2. CASE open = {} BY <3>2, FS_EmptySet
    <3>3. CASE open # {}
      <4>1. PICK i : i \in open BY <3>3
      <4>2. open = {i} BY <3>1, <4>1
      <4> QED BY <4>2, FS_Singleton
    <3> QED BY <3>2, <3>3
  <2>3. ASSUME NEW i \in DOMAIN filed
        PROVE  /\ filed[i].course \in {<<"RECEIVED">>, <<"RECEIVED", "IN_PROGRESS">>, <<"RECEIVED", "RESOLVED">>,
                                       <<"RECEIVED", "IN_PROGRESS", "RESOLVED">>}
               /\ filed[i].status = "RESOLVED" => filed[i].answer /\ filed[i].started
    <3>0. filed[i] \in Case BY <1>1 DEF DeskKinds
    <3>1. WholeCase(filed[i]) /\ filed[i].status \in CaseStatus BY <2>1, <3>0 DEF WholeDesk, Case
    <3> QED BY <3>1 DEF WholeCase, CaseStatus
  <2> QED BY <2>2, <2>3 DEF OneComplaintOpen
<1> QED BY <1>2, <1>4, <1>5, <1>6 DEF DeskRight

\* Every row, snapshot and job of the insurance desk has its type.
THEOREM DeskTypeCorrect == InsuranceSpec => []InsuranceTypeOK
BY DeskInvHolds, DeskTyped, PTL

\* Nothing is passed on without the customer's agreement, the firm gets one
\* mail about a request, and an announced deadline stays, whatever the turns
\* that overlap; a request is passed on once and complete, followed up step by
\* step, and Bob has one complaint open, as long as one job works at a time
\* (insurance.py:354, 557; api/complaints/routes.py:102).
THEOREM DeskHolds == InsuranceSpec => []DeskRight
BY DeskInvHolds, DeskIsRight, PTL
=============================================================================
