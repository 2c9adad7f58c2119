----------------------------- MODULE GuidedFlows -----------------------------
(***************************************************************************)
(* What a customer does with the buttons of a guided flow: he finds a      *)
(* product, he asks for an appointment or an estimation, and the screens   *)
(* reach him.  The three share nothing but the customer.                   *)
(***************************************************************************)
EXTENDS BrowseFlow, TradeFlow, GuidedDelivery

\* What he finds, asks for and receives: no product is out of reach or
\* counted wrong (guided_flow.py, immo_flow.py), the car and the requests are
\* those he gave (auto_flow.py:408-428), and a screen that was not delivered
\* is replaced, once (guided_flow.py:545).
GuidedRight == BrowseRight /\ OneCar /\ OneRequestPerQuestion /\ NotLeftUnread /\ ReplacedOnce
=============================================================================
