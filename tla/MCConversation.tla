--------------------------- MODULE MCConversation ---------------------------
(***************************************************************************)
(* One customer and the people and workers of the shop, for TLC.           *)
(***************************************************************************)
EXTENDS Conversation, TLC

CONSTANTS
    m1, m2, m3,   \* webhooks: a message of the customer, or the copy of one of the phone
    u1,           \* the clicks of an adviser
    w1,           \* the worker
    ada, copy

RoleOf ==
    (m1 :> {"customer", "phone"} @@ m2 :> {"customer", "phone"} @@ m3 :> {"customer", "phone"}
       @@ u1 :> {"taker", "releaser", "adviser"}
       @@ w1 :> {"relauncher"})
Role_ == [r \in Requests |-> RoleOf[r]]
User_ == [r \in Requests |-> ada]
\* The same message of the phone, delivered again.
EchoId_ == [r \in Requests |-> copy]
Alike == Permutations({m1, m2, m3})
=============================================================================
