------------------------------- MODULE Stock -------------------------------
(***************************************************************************)
(* What one order line does to one row of the products table              *)
(* (app/services/order_service.py).  A row carries stock_quantity, and the *)
(* stock of the one size (variant) the lines of the model are about.       *)
(*                                                                         *)
(* A product is of one of three kinds: plain; Sized (sold by size: the     *)
(* stock that counts is the size's own); Dishes (the menu of a restaurant: *)
(* available or not, never counted down).                                  *)
(***************************************************************************)
EXTENDS Integers

CONSTANTS Products, Sized, Dishes

ASSUME KindAssumption ==
    /\ Sized \subseteq Products
    /\ Dishes \subseteq Products
    /\ Sized \cap Dishes = {}

ProductData == [stock : Nat, size : Nat]

\* The stock the sale of p is checked against.
Available(p, row) == IF p \in Sized THEN row.size ELSE row.stock

\* Faulty variant: one unit too many.
EnoughButOne(p, row, q) == Available(p, row) >= q - 1

\* A dish only has to be available; anything else needs the whole quantity.
Enough(p, row, q) ==
    IF p \in Dishes THEN Available(p, row) > 0 ELSE Available(p, row) >= q

\* _move_variant_stock and stock_quantity never go below zero for a sized product.
Less(n, q) == IF n >= q THEN n - q ELSE 0

\* The row once q units of p are reserved by a new order.
Reserve(p, row, q) ==
    CASE p \in Dishes -> row
      [] p \in Sized  -> [stock |-> Less(row.stock, q), size |-> Less(row.size, q)]
      [] OTHER        -> [row EXCEPT !.stock = @ - q]

\* The row once a cancelled order gives its q units back.
Restock(p, row, q) ==
    CASE p \in Dishes -> row
      [] p \in Sized  -> [stock |-> row.stock + q, size |-> row.size + q]
      [] OTHER        -> [row EXCEPT !.stock = @ + q]

=============================================================================
