------------------------------ MODULE CartFlow ------------------------------
(***************************************************************************)
(* A customer buys with buttons: cart, delivery or pickup, address, recap, *)
(* order.  Every button ever sent stays on the customer's screen and may   *)
(* be touched at any time; the shop changes its stock and its settings     *)
(* between two touches.  One product stands for the cart's content; the    *)
(* answer to one touch is atomic.                                          *)
(***************************************************************************)
EXTENDS Integers, Sequences

CONSTANTS
    MaxQty,         \* units of one line at most
    MinOrder,       \* the shop's minimum for a delivery, in units
    MaxPlaced       \* bound on the orders

ASSUME CartAssumption == MaxQty \in Nat /\ MinOrder \in Nat /\ MaxPlaced \in Nat

VARIABLES
    basket,     \* the row: [quantity, fulfillment, address, awaiting]
    onSale,     \* the stock
    settings,   \* modes the shop offers
    habit,      \* the customer's usual address is known
    seen,       \* the quantity last listed; the recap shown since the cart was empty
    given,      \* the address the customer gave for this cart, since he last chose to pick it up
    placed      \* the orders: [quantity, fulfillment, address]

cartVars == <<basket, onSale, settings, habit, seen, given, placed>>

CartModes == {"DELIVERY", "PICKUP"}
Addresses == {"usual", "written"}
None      == "none"
NoCart    == [quantity |-> 0, fulfillment |-> None, address |-> None, awaiting |-> None]
NothingSeen == [quantity |-> 0, fulfillment |-> None, address |-> None]

CartInit ==
    /\ basket = NoCart /\ onSale = MaxQty
    /\ settings \in SUBSET CartModes
    /\ habit \in BOOLEAN
    /\ seen = NothingSeen /\ given = None /\ placed = <<>>

\* No mode at all counts as delivery.
Offered == IF settings = {} THEN {"DELIVERY"} ELSE settings

\* The cart read again in the catalogue.
Fit(c) == [c EXCEPT !.quantity = IF @ > onSale THEN onSale ELSE @]
Cut(c) == Fit(c).quantity < c.quantity

-----------------------------------------------------------------------------
(* What the screens do to the cart, and what the customer reads.           *)

Asked(c) == basket' = c /\ UNCHANGED seen

Show(c) ==
    /\ basket' = Fit(c)
    /\ seen' = [seen EXCEPT !.quantity = Fit(c).quantity]

AskAddress(c) == Asked([c EXCEPT !.awaiting = "address"])

RecapOf(c) ==
    IF c.fulfillment = "DELIVERY" /\ c.address = None THEN AskAddress(c)
    ELSE /\ basket' = c
         /\ seen' = [quantity |-> c.quantity, fulfillment |-> c.fulfillment, address |-> c.address]

\* Faulty variant: the address stays with the order to be picked up.
ChooseKeepsAddress(c, mode) ==
    IF mode = "PICKUP" THEN RecapOf([c EXCEPT !.fulfillment = mode, !.awaiting = None])
    ELSE IF c.quantity < MinOrder THEN Asked(c)
    ELSE IF habit THEN Asked([c EXCEPT !.fulfillment = mode, !.awaiting = None])
    ELSE AskAddress([c EXCEPT !.fulfillment = mode])

\* A mode the shop offers: the recap, or the question about the address.
ChooseMode(c, mode) ==
    IF mode = "PICKUP" THEN RecapOf([c EXCEPT !.fulfillment = mode, !.address = None, !.awaiting = None])
    ELSE IF c.quantity < MinOrder THEN Asked(c)
    ELSE IF habit THEN Asked([c EXCEPT !.fulfillment = mode, !.awaiting = None])
    ELSE AskAddress([c EXCEPT !.fulfillment = mode])

\* The question is skipped when there is one mode.
ConfirmCart(c) ==
    IF Offered = CartModes THEN Asked(c) ELSE ChooseMode(c, CHOOSE m \in CartModes : m \in Offered)

Recap(c) ==
    IF c.quantity = 0 \/ Cut(c) THEN Show(c)
    ELSE IF c.fulfillment = "DELIVERY" /\ c.address = None THEN AskAddress(c)
    ELSE IF c.fulfillment \notin Offered THEN ConfirmCart(c)
    ELSE RecapOf(c)

-----------------------------------------------------------------------------
(* The buttons and the messages that the cart expects.                     *)

Shop == UNCHANGED <<onSale, settings, habit>>

\* One touch, after which the customer has given the address a.
Giving(a, screen) ==
    /\ screen /\ Shop /\ UNCHANGED placed
    /\ given' = IF basket'.fulfillment = "DELIVERY" THEN a ELSE None

Touch(screen) == Giving(given, screen)

AddToCart(n) ==
    LET room == (IF onSale < MaxQty THEN onSale ELSE MaxQty) - basket.quantity
        taken == IF n > room THEN room ELSE n
    IN
    IF taken <= 0 THEN Asked(basket)
    ELSE Show([basket EXCEPT !.quantity = @ + taken, !.awaiting = None])

AskQuantity == Asked([basket EXCEPT !.awaiting = "quantity"])

ClearCart == basket' = NoCart /\ seen' = NothingSeen

Confirm ==
    IF basket.quantity = 0 \/ Cut(basket) THEN Show(basket) ELSE ConfirmCart(basket)

\* The cart is cut to the stock without a word.
Choose(mode) ==
    IF Fit(basket).quantity = 0 THEN Show(basket)
    ELSE IF mode \notin Offered THEN ConfirmCart(Fit(basket))
    ELSE ChooseMode(Fit(basket), mode)

AddressChoice(which) ==
    IF basket.quantity = 0 THEN Show(basket)
    ELSE IF which = "same" /\ habit
         THEN Recap([basket EXCEPT !.fulfillment = "DELIVERY", !.address = "usual", !.awaiting = None])
    ELSE AskAddress([basket EXCEPT !.fulfillment = "DELIVERY"])

\* A written message: what is awaited, or Bob no longer waits for it.
WriteToCart(what) ==
    IF basket.awaiting = "address" /\ what = "address"
    THEN Recap([basket EXCEPT !.fulfillment = "DELIVERY", !.address = "written", !.awaiting = None])
    ELSE IF basket.awaiting = "quantity" /\ what = "quantity" THEN AddToCart(2)
    ELSE Asked([basket EXCEPT !.awaiting = None])

AfterOrder == NoCart

Incomplete == basket.fulfillment \notin Offered \/ (basket.fulfillment = "DELIVERY" /\ basket.address = None)

ValidateCart ==
    /\ Len(placed) < MaxPlaced
    /\ IF basket.quantity = 0 \/ Cut(basket) THEN Touch(Show(basket))
       ELSE IF Incomplete THEN Touch(Recap(basket))
       ELSE /\ placed' = Append(placed, [quantity |-> basket.quantity, fulfillment |-> basket.fulfillment,
                                         address |-> basket.address])
            /\ onSale' = onSale - basket.quantity
            /\ basket' = AfterOrder /\ seen' = NothingSeen /\ given' = None
            /\ UNCHANGED <<settings, habit>>

\* Two hours without a touch: what was awaited is not any more; a day: the
\* cart is emptied.
AwaitingLapses == Touch(Asked([basket EXCEPT !.awaiting = None]))
CartLapses     == Touch(ClearCart)

MerchantSets(stock, modes) ==
    /\ onSale' = stock /\ settings' = modes
    /\ UNCHANGED <<basket, habit, seen, given, placed>>

CartNext ==
    \/ \E n \in 1..2 : Touch(AddToCart(n))
    \/ Touch(AskQuantity) \/ Touch(Show(basket)) \/ Touch(ClearCart) \/ Touch(Confirm)
    \/ \E m \in CartModes : Touch(Choose(m))
    \/ Giving(IF habit /\ basket.quantity > 0 THEN "usual" ELSE given, AddressChoice("same")) \/ Touch(AddressChoice("new"))
    \/ Giving(IF basket.awaiting = "address" THEN "written" ELSE given, WriteToCart("address"))
    \/ \E w \in {"quantity", "else"} : Touch(WriteToCart(w))
    \/ ValidateCart \/ AwaitingLapses \/ CartLapses
    \/ \E s \in 0..MaxQty : MerchantSets(s, settings)
    \/ \E m \in SUBSET CartModes : MerchantSets(onSale, m)

CartSpec == CartInit /\ [][CartNext]_cartVars

-----------------------------------------------------------------------------
(* Properties.                                                             *)

CartTypeOK ==
    /\ basket \in [quantity : 0..MaxQty, fulfillment : CartModes \cup {None}, address : Addresses \cup {None},
                   awaiting : {None, "address", "quantity"}]
    /\ onSale \in 0..MaxQty /\ settings \subseteq CartModes /\ Len(placed) <= MaxPlaced

\* Whatever old buttons are touched on the way, an order is delivered or
\* picked up, and where, as the last recap of this cart said or as the
\* customer answered himself, and holds no more than what was last listed.
OrderedAsRecapped ==
    [][placed' # placed =>
        LET o == placed'[Len(placed')] IN
        /\ \/ o.fulfillment = seen.fulfillment /\ o.address = seen.address
           \/ o.fulfillment = "DELIVERY" /\ o.address = given
        /\ o.quantity <= seen.quantity]_cartVars

\* The shop's minimum is applied to every order to be delivered.  Not so, and
\* checked by no run: it is asked for at the choice of the mode alone.
MinimumRespected ==
    \A n \in DOMAIN placed : placed[n].fulfillment = "DELIVERY" => placed[n].quantity >= MinOrder
=============================================================================
