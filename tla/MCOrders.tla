------------------------------ MODULE MCOrders ------------------------------
(***************************************************************************)
(* Small shops and small crowds of requests for TLC.                       *)
(***************************************************************************)
EXTENDS OrderTransactions, TLC

CONSTANTS
    shirt, shoe, rice,                     \* a plain product, one sold by size, a dish
    d1, d2, d3, a1, c1, c2, p1, p2, p3, x1, x2, v1, v2   \* requests, named by their role

\* Every basket of at most MaxUnits units of each product, except the empty one.
BasketsUpTo(n) == [Products -> 0..n] \ {NoItems}

TwoUnits == BasketsUpTo(2)
OneUnit  == BasketsUpTo(1)

\* Two shirts on the shelf; two shoes in the size; rice available.
Shelf == [p \in Products |-> [stock |-> 2, size |-> IF p \in Sized THEN 2 ELSE 0]]
\* The last article.
LastOne == [p \in Products |-> [stock |-> 1, size |-> IF p \in Sized THEN 1 ELSE 0]]

RoleOf ==
    (d1 :> "dashboard" @@ d2 :> "dashboard" @@ d3 :> "dashboard" @@ a1 :> "agent" @@ c1 :> "cart"
       @@ c2 :> "cart" @@ p1 :> "payer" @@ p2 :> "payer" @@ p3 :> "payer" @@ x1 :> "canceller" @@ x2 :> "canceller"
       @@ v1 :> "courier" @@ v2 :> "courier")
Roles_ == [r \in Requests |-> RoleOf[r]]
=============================================================================
