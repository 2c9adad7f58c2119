---------------------------- MODULE OrderLedger ----------------------------
(***************************************************************************)
(* What the order book of one shop promises, as if each request were one   *)
(* indivisible step: an order takes its units off the shelf when it is     *)
(* created, only a pending order is paid or cancelled, and a cancelled     *)
(* order gives its units back (docstrings of create_order,                 *)
(* mark_order_as_paid and cancel_order, app/services/order_service.py).    *)
(* OrderTransactions is the same book kept by concurrent requests.         *)
(***************************************************************************)
EXTENDS Stock, FiniteSets, Functions

CONSTANTS
    Orders,       \* the orders that may be created
    Baskets,      \* the baskets they may hold: functions from Products to Nat
    Opening       \* the products table at the start

VARIABLES
    product,      \* [Products -> ProductData]
    book,         \* [Orders -> [status, items]]: status "NONE" until created
    parcel        \* [Orders -> status of its delivery]

ledgerVars == <<product, book, parcel>>

\* PICKED_UP and IN_TRANSIT are one status here: SHIPPED.
ParcelStatus == {"NONE", "PENDING", "SHIPPED", "DELIVERED", "FAILED", "CANCELLED"}
AlreadyLeft  == {"SHIPPED", "DELIVERED"}

NoItems == [p \in Products |-> 0]
NoOrder == [status |-> "NONE", items |-> NoItems]

LedgerInit ==
    /\ product = Opening
    /\ book = [o \in Orders |-> NoOrder]
    /\ parcel = [o \in Orders |-> "NONE"]

Create(o, items) ==
    /\ book[o].status = "NONE"
    /\ \A p \in Products : items[p] > 0 => Enough(p, product[p], items[p])
    /\ product' = [p \in Products |->
                     IF items[p] > 0 THEN Reserve(p, product[p], items[p]) ELSE product[p]]
    /\ book' = [book EXCEPT ![o] = [status |-> "PENDING", items |-> items]]
    /\ parcel' = [parcel EXCEPT ![o] = "PENDING"]

MarkPaid(o) ==
    /\ book[o].status = "PENDING"
    /\ book' = [book EXCEPT ![o].status = "PAID"]
    /\ UNCHANGED <<product, parcel>>

Cancel(o) ==
    /\ book[o].status = "PENDING"
    /\ parcel[o] \notin AlreadyLeft
    /\ product' = [p \in Products |->
                     IF book[o].items[p] > 0 THEN Restock(p, product[p], book[o].items[p])
                                             ELSE product[p]]
    /\ book' = [book EXCEPT ![o].status = "CANCELLED"]
    /\ parcel' = [parcel EXCEPT ![o] = IF @ = "FAILED" THEN @ ELSE "CANCELLED"]

\* update_delivery never looks at the order's status.
MoveParcel(o, status) ==
    /\ book[o].status # "NONE"
    /\ parcel' = [parcel EXCEPT ![o] = status]
    /\ UNCHANGED <<product, book>>

LedgerNext ==
    \E o \in Orders :
       \/ \E items \in Baskets : Create(o, items)
       \/ MarkPaid(o)
       \/ Cancel(o)
       \/ \E status \in ParcelStatus \ {"NONE"} : MoveParcel(o, status)

LedgerSpec == LedgerInit /\ [][LedgerNext]_ledgerVars

-----------------------------------------------------------------------------
Live == {o \in Orders : book[o].status \in {"PENDING", "PAID"}}

\* Units of p held by the orders that stand.
Engaged(p) == SumFunctionOnSet([o \in Orders |-> book[o].items[p]], Live)

\* Conservation of stock: what is on the shelf plus what the standing orders
\* hold is what the shop had at the start, whatever was created, paid and
\* cancelled, and however often (reservation in create_order, restocking in
\* cancel_order).  A dish is never counted.
Balance ==
    \A p \in Products \ Dishes :
       Available(p, product[p]) + Engaged(p) = Available(p, Opening[p])

=============================================================================
