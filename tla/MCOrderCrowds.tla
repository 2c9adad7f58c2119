---------------------------- MODULE MCOrderCrowds ---------------------------
(***************************************************************************)
(* Two crowds in one run, one of which comes: an order of the dashboard,   *)
(* its payment, cancellation and deliveries, one request at a time; or a   *)
(* cart, paid three times over, all at once.                               *)
(***************************************************************************)
EXTENDS MCOrders

OneByOne == {d1, p1, x1, v1, v2}
Payers   == {c1, p1, p2, p3}

Come(who) == \A r \in Requests \ who : pc[r] = "idle"
ServedAlone == Cardinality({r \in Requests : pc[r] \in Busy}) <= 1

OneCrowdComes == (Come(OneByOne) /\ ServedAlone)' \/ Come(Payers)'

\* Served one by one, cancellations and crashes included, every commit is a
\* step of the ledger (a cart refused in a chat keeps units: left aside).
LedgerOneByOne == [][Come(OneByOne)' => Ledger!LedgerNext \/ UNCHANGED Ledger!ledgerVars]_vars
=============================================================================
