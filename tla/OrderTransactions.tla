------------------------- MODULE OrderTransactions -------------------------
(***************************************************************************)
(* The order book of one shop as the concurrent requests of the server     *)
(* keep it, each in its own database session (app/core/database.py): the   *)
(* objects a session has loaded stay as it loaded them (identity map), an  *)
(* UPDATE locks its row until the end of the transaction, and nothing is   *)
(* seen by the others before the commit (READ COMMITTED).                  *)
(*                                                                         *)
(* A request does one thing, named by its Role, once: create an order from *)
(* the dashboard, from the agent's create_order tool or from the WhatsApp  *)
(* cart; confirm a payment; cancel an order; update a delivery.  The order *)
(* a creating request makes is known by that request.                      *)
(***************************************************************************)
EXTENDS Stock, FiniteSets, Functions

CONSTANTS
    Requests,       \* the requests, each served once
    Role,           \* [Requests -> Roles]
    Baskets,        \* the baskets a customer may order
    Opening,        \* the products table at the start
    Commissioned,   \* the payers that find the tenant with a commission_rate > 0
    MaxOpen,        \* requests the server has in hand at the same time
    Fragile,        \* the requests that may die half-way
    Nobody, NoRow, NotLoaded

CreatorRoles == {"dashboard", "agent", "cart"}
Roles == CreatorRoles \cup {"payer", "canceller", "courier"}
Orders == {r \in Requests : Role[r] \in CreatorRoles}

ProductRow(p)  == <<"product", p>>
OrderRow(o)    == <<"order", o>>
DeliveryRow(o) == <<"delivery", o>>
Rows == {ProductRow(p) : p \in Products} \cup {OrderRow(o) : o \in Orders}
          \cup {DeliveryRow(o) : o \in Orders}

NoItems == [p \in Products |-> 0]

ASSUME RequestsAssumption ==
    /\ IsFiniteSet(Requests)
    /\ Role \in [Requests -> Roles]
    /\ Baskets \subseteq [Products -> Nat]
    /\ NoItems \notin Baskets
    /\ Opening \in [Products -> ProductData]
    /\ Commissioned \subseteq Requests
    /\ MaxOpen \in Nat
    /\ Fragile \subseteq Requests
    /\ Nobody \notin Requests
    /\ NoRow \notin Rows
    /\ NotLoaded \notin ProductData

VARIABLES
    product,     \* committed rows of products
    order,       \* committed rows of orders
    delivery,    \* committed rows of deliveries
    commission,  \* committed rows of order_commissions: [Orders -> who inserted them]
    lock,        \* [Rows -> the request whose transaction holds the row]
    pc,          \* [Requests -> where the request is]
    target,      \* [Requests -> the order it is about]
    items,       \* [Requests -> the basket it creates]
    todo,        \* [Requests -> the rows it still has to lock]
    next,        \* [Requests -> the row it asks for, of todo]
    seen,        \* [Requests -> [Products -> the row as its session has it]]
    slip,      \* [Requests -> the delivery as its session has it]
    claim,       \* [Requests -> the receipt email is its own to send]
    sent         \* messages that left the server

tables  == <<product, order, delivery, commission>>
session == <<target, items, todo, next, seen, slip, claim>>
vars    == <<tables, lock, pc, session, sent>>

ParcelStatus == {"NONE", "PENDING", "SHIPPED", "DELIVERED", "FAILED", "CANCELLED"}
\* Faulty variant: a parcel on its way is not looked at.
OnlyArrived  == {"DELIVERED"}

AlreadyLeft  == {"SHIPPED", "DELIVERED"}
OrderStatus  == {"NONE", "PENDING", "PAID", "CANCELLED"}

OrderData    == [status : OrderStatus, items : Baskets \cup {NoItems}, receiptMailed : BOOLEAN]
DeliveryData == [status : ParcelStatus, shippedTold : BOOLEAN, deliveredTold : BOOLEAN]

NoOrder  == [status |-> "NONE", items |-> NoItems, receiptMailed |-> FALSE]
NoParcel == [status |-> "NONE", shippedTold |-> FALSE, deliveredTold |-> FALSE]
Unloaded == [p \in Products |-> NotLoaded]

\* Where a request is inside a transaction, and where it is over.
Busy == {"lines", "insert", "refused", "paying", "paid", "receipted", "reading",
         "restocking", "writing", "cancelled", "told", "moving", "moved", "notified"}
Over == {"done", "aborted"}

Message == [kind : {"receipt", "receipt_mail", "cancellation", "delivery_shipped", "delivery_delivered"},
            order : Orders, by : Requests]
Note(kind, r) == [kind |-> kind, order |-> target[r], by |-> r]

Init ==
    /\ product = Opening
    /\ order = [o \in Orders |-> NoOrder]
    /\ delivery = [o \in Orders |-> NoParcel]
    /\ commission = [o \in Orders |-> {}]
    /\ lock = [w \in Rows |-> Nobody]
    /\ pc = [r \in Requests |-> "idle"]
    /\ target = [r \in Requests |-> Nobody]
    /\ items = [r \in Requests |-> NoItems]
    /\ todo = [r \in Requests |-> {}]
    /\ next = [r \in Requests |-> NoRow]
    /\ seen = [r \in Requests |-> Unloaded]
    /\ slip = [r \in Requests |-> NoParcel]
    /\ claim = [r \in Requests |-> FALSE]
    /\ sent = {}

-----------------------------------------------------------------------------
(* Row locks.                                                              *)

\* Faulty variant: SELECT without FOR UPDATE.
AcquireNothing(r, w) == w \in Rows /\ UNCHANGED lock

Acquire(r, w) ==
    /\ lock[w] \in {Nobody, r}
    /\ lock' = [lock EXCEPT ![w] = r]

Release(r) == lock' = [w \in Rows |-> IF lock[w] = r THEN Nobody ELSE lock[w]]

\* r has these rows left to lock and asks for one of them, in an order the
\* basket (create_order) or the flush (cancel_order) decides.
AskNext(r, rows) ==
    /\ todo' = [todo EXCEPT ![r] = rows]
    /\ \E w \in IF rows = {} THEN {NoRow} ELSE rows : next' = [next EXCEPT ![r] = w]

Goto(r, label) == pc' = [pc EXCEPT ![r] = label]

\* The transaction is over and the session closed: its locks and its objects
\* are gone.
Close(r, how) ==
    /\ Release(r)
    /\ Goto(r, how)
    /\ target' = [target EXCEPT ![r] = Nobody]
    /\ items' = [items EXCEPT ![r] = NoItems]
    /\ todo' = [todo EXCEPT ![r] = {}]
    /\ next' = [next EXCEPT ![r] = NoRow]
    /\ seen' = [seen EXCEPT ![r] = Unloaded]
    /\ slip' = [slip EXCEPT ![r] = NoParcel]
    /\ claim' = [claim EXCEPT ![r] = FALSE]

\* A request starts when the server has a place for it.
Arrives(r, role) ==
    /\ Role[r] = role
    /\ pc[r] = "idle"
    /\ Cardinality({q \in Requests : pc[q] \in Busy}) < MaxOpen

\* The order the merchant clicked on: one that is in the table.
About(r, o) ==
    /\ order[o].status # "NONE"
    /\ target' = [target EXCEPT ![r] = o]

\* HTTP 400 on an order that is no longer pending.
Refused(r, o) == order[o].status # "NONE" /\ Close(r, "done")

-----------------------------------------------------------------------------
(* Creating an order.                                                      *)

Basket(r, basket) ==
    /\ target' = [target EXCEPT ![r] = r]
    /\ items' = [items EXCEPT ![r] = basket]
    /\ AskNext(r, {ProductRow(p) : p \in {q \in Products : basket[q] > 0}})
    /\ Goto(r, "lines")
    /\ UNCHANGED <<tables, lock, slip, claim, sent>>

\* POST /orders, or the agent's tool: nothing loaded before create_order.
AskOrder(r) ==
    /\ Arrives(r, "dashboard") \/ Arrives(r, "agent")
    /\ \E basket \in Baskets : Basket(r, basket)
    /\ UNCHANGED seen

\* "Valider ma commande": lines() has loaded each product of the cart, and
\* keeps it, with the quantity capped to the stock it read.
ValidateCart(r) ==
    /\ Arrives(r, "cart")
    /\ \E basket \in Baskets :
         /\ \A p \in Products : basket[p] > 0 => Enough(p, product[p], basket[p])
         /\ Basket(r, basket)
         /\ seen' = [seen EXCEPT ![r] =
                       [p \in Products |-> IF basket[p] > 0 THEN product[p] ELSE NotLoaded]]

\* The row after SELECT ... FOR UPDATE: the identity map keeps what it has.
Locked(r, p) == IF seen[r][p] = NotLoaded THEN product[p] ELSE seen[r][p]

\* The line r asks for, its row locked.
Line(r, p) ==
    /\ pc[r] = "lines"
    /\ next[r] = ProductRow(p)
    /\ Acquire(r, ProductRow(p))

ReserveLine(r) ==
    \E p \in Products :
       /\ Line(r, p)
       /\ Enough(p, Locked(r, p), items[r][p])
       /\ seen' = [seen EXCEPT ![r][p] = Reserve(p, Locked(r, p), items[r][p])]
       /\ AskNext(r, todo[r] \ {ProductRow(p)})
       /\ Goto(r, IF todo[r] = {ProductRow(p)} THEN "insert" ELSE "lines")
       /\ UNCHANGED <<tables, target, items, slip, claim, sent>>

\* Too little stock; or whatever the stock, the product is inactive, the size
\* is no longer offered or the currency is not that of the lines before.
RefuseLine(r) ==
    \E p \in Products :
       /\ Line(r, p)
       /\ Goto(r, "refused")
       /\ UNCHANGED <<tables, session, sent>>

\* The rows create_order has changed in the session of r.
Reserved(r) ==
    {p \in Products \ Dishes : items[r][p] > 0 /\ ProductRow(p) \notin todo[r]}

WriteBack(r, rows) ==
    product' = [p \in Products |-> IF p \in rows THEN seen[r][p] ELSE product[p]]

CommitOrder(r) ==
    /\ pc[r] = "insert"
    /\ WriteBack(r, Reserved(r))
    /\ order' = [order EXCEPT ![r] = [status |-> "PENDING", items |-> items[r], receiptMailed |-> FALSE]]
    /\ delivery' = [delivery EXCEPT ![r] = [NoParcel EXCEPT !.status = "PENDING"]]
    /\ Close(r, "done")
    /\ UNCHANGED <<commission, sent>>

\* Faulty variant: the session of a refused order is left open.
RefuseAndForget(r) == Role[r] = "dashboard" /\ FALSE /\ UNCHANGED vars

\* HTTP 400: the session is closed without a commit.
RefuseDashboard(r) ==
    /\ pc[r] = "refused" /\ Role[r] = "dashboard"
    /\ Close(r, "done")
    /\ UNCHANGED <<tables, sent>>

\* The error is answered to the customer (or given to the model) and the turn
\* goes on in the same session, which the webhook commits at its end.
RefuseInChat(r) ==
    /\ pc[r] = "refused" /\ Role[r] \in {"agent", "cart"}
    /\ WriteBack(r, Reserved(r))
    /\ Close(r, "done")
    /\ UNCHANGED <<order, delivery, commission, sent>>

-----------------------------------------------------------------------------
(* Confirming a payment (PUT /orders/{id}/mark-paid).                      *)

AskPayment(r) ==
    /\ Arrives(r, "payer")
    /\ \E o \in Orders : IF order[o].status = "PENDING"
         THEN /\ About(r, o)
              /\ claim' = [claim EXCEPT ![r] = ~order[o].receiptMailed]  \* receipt_emailed_at as loaded
              /\ Goto(r, "paying")
              /\ UNCHANGED <<lock, items, todo, next, seen, slip>>
         ELSE Refused(r, o)
    /\ UNCHANGED <<tables, sent>>

\* Faulty variants: no unique constraint; the commission committed on its own.
FlushPaymentAnyway(r) ==
    /\ pc[r] = "paying"
    /\ Acquire(r, OrderRow(target[r]))
    /\ Goto(r, "paid")
    /\ UNCHANGED <<tables, session, sent>>
FlushPaymentInTwo(r) ==
    /\ pc[r] = "paying"
    /\ commission[target[r]] = {}
    /\ Acquire(r, OrderRow(target[r]))
    /\ Goto(r, "paid")
    /\ commission' = [commission EXCEPT ![target[r]] = {r}]
    /\ UNCHANGED <<product, order, delivery, session, sent>>

\* UPDATE orders, then INSERT INTO order_commissions (unique order_id).
FlushPayment(r) ==
    LET o == target[r] IN
    /\ pc[r] = "paying"
    /\ ~ (r \in Commissioned /\ commission[o] # {})
    /\ Acquire(r, OrderRow(o))
    /\ Goto(r, "paid")
    /\ UNCHANGED <<tables, session, sent>>

\* A second commission row: IntegrityError, the whole transaction is lost.
CommissionTwice(r) ==
    /\ pc[r] = "paying"
    /\ r \in Commissioned /\ commission[target[r]] # {}
    /\ lock[OrderRow(target[r])] = Nobody
    /\ Close(r, "aborted")
    /\ UNCHANGED <<tables, sent>>

\* Faulty variant: the email is claimed on receipt_emailed_at as loaded.
SendReceiptAsLoaded(r) ==
    /\ pc[r] = "paid"
    /\ sent' \in {sent, sent \cup {Note("receipt", r)}}
    /\ \E address \in BOOLEAN : claim' = [claim EXCEPT ![r] = @ /\ address]
    /\ Goto(r, "receipted")
    /\ UNCHANGED <<tables, lock, target, items, todo, next, seen, slip>>

\* The WhatsApp receipt leaves if the 20 h window is open and the call works;
\* then receipt_to_send claims the email: UPDATE ... WHERE receipt_emailed_at
\* IS NULL, if the customer has an address.
SendReceipt(r) ==
    /\ pc[r] = "paid"
    /\ sent' \in {sent, sent \cup {Note("receipt", r)}}
    /\ \E address \in BOOLEAN :
         claim' = [claim EXCEPT ![r] = @ /\ address /\ ~order[target[r]].receiptMailed]
    /\ Goto(r, "receipted")
    /\ UNCHANGED <<tables, lock, target, items, todo, next, seen, slip>>

CommitPayment(r) ==
    LET o == target[r] IN
    /\ pc[r] = "receipted"
    /\ order' = [order EXCEPT ![o].status = "PAID",
                              ![o].receiptMailed = @ \/ claim[r]]
    /\ commission' = [commission EXCEPT ![o] = IF r \in Commissioned THEN @ \cup {r} ELSE @]
    /\ IF claim[r] THEN Release(r) /\ Goto(r, "mailing") /\ UNCHANGED session
                   ELSE Close(r, "done")
    /\ UNCHANGED <<product, delivery, sent>>

\* The background task, after the response.
MailReceipt(r) ==
    /\ pc[r] = "mailing"
    /\ sent' = sent \cup {Note("receipt_mail", r)}
    /\ Close(r, "done")
    /\ UNCHANGED tables

-----------------------------------------------------------------------------
(* Cancelling an order (PUT /orders/{id}/cancel).                          *)

AskCancel(r) ==
    /\ Arrives(r, "canceller")
    /\ \E o \in Orders : IF order[o].status = "PENDING"
         THEN /\ About(r, o)
              /\ Goto(r, "reading")
              /\ UNCHANGED <<lock, items, todo, next, seen, slip, claim>>
         ELSE Refused(r, o)
    /\ UNCHANGED <<tables, sent>>

ReadDelivery(r) ==
    LET d == delivery[target[r]] IN
    /\ pc[r] = "reading"
    /\ IF d.status \in AlreadyLeft
         THEN Close(r, "done")
         ELSE /\ slip' = [slip EXCEPT ![r] = d]
              /\ Goto(r, "restocking")
              /\ UNCHANGED <<lock, target, items, todo, next, seen, claim>>
    /\ UNCHANGED <<tables, sent>>

\* The products of the order, not of the menu, loaded without a lock and
\* given their units back in the session only.
GivenBack(o) == {p \in Products \ Dishes : order[o].items[p] > 0}

CancelsDelivery(r) == slip[r].status \notin {"CANCELLED", "FAILED"}

ReadProducts(r) ==
    LET o == target[r] IN
    /\ pc[r] = "restocking"
    /\ seen' = [seen EXCEPT ![r] =
                  [p \in Products |-> IF p \in GivenBack(o)
                                        THEN Restock(p, product[p], order[o].items[p])
                                        ELSE NotLoaded]]
    /\ AskNext(r, {ProductRow(p) : p \in GivenBack(o)} \cup {OrderRow(o)}
                     \cup (IF CancelsDelivery(r) THEN {DeliveryRow(o)} ELSE {}))
    /\ Goto(r, "writing")
    /\ UNCHANGED <<tables, lock, target, items, slip, claim, sent>>

\* The flush: one UPDATE after the other, each waiting for its row.
FlushRow(r) ==
    /\ pc[r] = "writing"
    /\ Acquire(r, next[r])
    /\ AskNext(r, todo[r] \ {next[r]})
    /\ Goto(r, IF todo[r] = {next[r]} THEN "cancelled" ELSE "writing")
    /\ UNCHANGED <<tables, target, items, seen, slip, claim, sent>>

\* The customer is told, if the merchant wants it and a channel works,
\* before the commit.
TellCancelled(r) ==
    /\ pc[r] = "cancelled"
    /\ sent' \in {sent, sent \cup {Note("cancellation", r)}}
    /\ Goto(r, "told")
    /\ UNCHANGED <<tables, lock, session>>

CommitCancel(r) ==
    LET o == target[r] IN
    /\ pc[r] = "told"
    /\ WriteBack(r, GivenBack(o))
    /\ order' = [order EXCEPT ![o].status = "CANCELLED"]
    /\ delivery' = [delivery EXCEPT ![o].status = IF CancelsDelivery(r) THEN "CANCELLED" ELSE @]
    /\ Close(r, "done")
    /\ UNCHANGED <<commission, sent>>

-----------------------------------------------------------------------------
(* Updating a delivery (PUT /orders/{id}/delivery).                        *)

\* The delivery is loaded and given the status the merchant chose; the order
\* is loaded too, but its status is not looked at.  An unchanged status is no
\* UPDATE, so no lock.
AskDelivery(r) ==
    /\ Arrives(r, "courier")
    /\ \E o \in Orders, status \in ParcelStatus \ {"NONE"} :
         /\ About(r, o)
         /\ slip' = [slip EXCEPT ![r] = [delivery[o] EXCEPT !.status = status]]
         /\ Goto(r, IF status = delivery[o].status THEN "moved" ELSE "moving")
    /\ UNCHANGED <<tables, lock, items, todo, next, seen, claim, sent>>

FlushDelivery(r) ==
    /\ pc[r] = "moving"
    /\ Acquire(r, DeliveryRow(target[r]))
    /\ Goto(r, "moved")
    /\ UNCHANGED <<tables, session, sent>>

\* Faulty variant: "en route" is due each time the delivery is saved.
StepDueAgain(d) ==
    CASE d.status = "SHIPPED"                        -> "delivery_shipped"
      [] d.status = "DELIVERED" /\ ~d.deliveredTold -> "delivery_delivered"
      [] OTHER -> "none"

\* delivery_notice: the step is due if the delivery, as loaded, was not yet
\* told; it is marked told when a channel took the message.
StepDue(d) ==
    CASE d.status = "SHIPPED"   /\ ~d.shippedTold   -> "delivery_shipped"
      [] d.status = "DELIVERED" /\ ~d.deliveredTold -> "delivery_delivered"
      [] OTHER -> "none"

NotifyDelivery(r) ==
    LET step == StepDue(slip[r]) IN
    /\ pc[r] = "moved"
    /\ \/ /\ Goto(r, "notified")    \* not due, not wanted, or no channel took it
          /\ lock[DeliveryRow(target[r])] = r
          /\ UNCHANGED <<lock, session, sent>>
       \/ /\ Close(r, "done")        \* the same, and nothing to commit
          /\ lock[DeliveryRow(target[r])] # r
          /\ UNCHANGED sent
       \/ /\ step # "none"
          /\ sent' = sent \cup {Note(step, r)}
          /\ slip' = [slip EXCEPT ![r].shippedTold = @ \/ step = "delivery_shipped",
                                      ![r].deliveredTold = @ \/ step = "delivery_delivered"]
          /\ Goto(r, "notified")
          /\ UNCHANGED <<lock, target, items, todo, next, seen, claim>>
    /\ UNCHANGED tables

\* What the session changed is written: the status if it took the lock for
\* it, a mark if it set one (which may have to wait for the row here).
CommitDelivery(r) ==
    LET o == target[r] IN
    /\ pc[r] = "notified"
    /\ lock[DeliveryRow(o)] \in {Nobody, r}
    /\ delivery' = [delivery EXCEPT
         ![o] = [status        |-> IF lock[DeliveryRow(o)] = r THEN slip[r].status ELSE @.status,
                 shippedTold   |-> @.shippedTold \/ slip[r].shippedTold,
                 deliveredTold |-> @.deliveredTold \/ slip[r].deliveredTold]]
    /\ Close(r, "done")
    /\ UNCHANGED <<product, order, commission, sent>>

-----------------------------------------------------------------------------
(* A transaction that does not end by itself.                              *)

\* The row r waits for.
AsksFor(r) ==
    CASE pc[r] \in {"lines", "writing"}    -> next[r]
      [] pc[r] = "paying"                  -> OrderRow(target[r])
      [] pc[r] \in {"moving", "notified"}  -> DeliveryRow(target[r])
      [] OTHER                             -> NoRow

\* r waits for a request that waits ... for r: PostgreSQL ends one of them.
Deadlocked(r) ==
    \E ring \in SUBSET Requests :
       /\ r \in ring
       /\ \A q \in ring : AsksFor(q) # NoRow /\ lock[AsksFor(q)] \in ring \ {q}

Rollback(r) ==
    /\ Close(r, "aborted")
    /\ UNCHANGED <<tables, sent>>

DeadlockVictim(r) == Deadlocked(r) /\ Rollback(r)

\* The process or its connection dies: the transaction is undone, what was
\* already sent is not; a mail waiting for the background is lost.
Crash(r) == r \in Fragile /\ pc[r] \in Busy \cup {"mailing"} /\ Rollback(r)

-----------------------------------------------------------------------------
Serve(r) ==
    \/ ReserveLine(r) \/ RefuseLine(r)
    \/ CommitOrder(r) \/ RefuseDashboard(r) \/ RefuseInChat(r)
    \/ FlushPayment(r) \/ CommissionTwice(r) \/ SendReceipt(r) \/ CommitPayment(r) \/ MailReceipt(r)
    \/ ReadDelivery(r) \/ ReadProducts(r) \/ FlushRow(r) \/ TellCancelled(r) \/ CommitCancel(r)
    \/ FlushDelivery(r) \/ NotifyDelivery(r) \/ CommitDelivery(r)
    \/ DeadlockVictim(r)

Ask(r) == AskOrder(r) \/ ValidateCart(r) \/ AskPayment(r) \/ AskCancel(r) \/ AskDelivery(r)

\* Nothing is left to do: every order that will be clicked on has been.
Quiet ==
    /\ \A r \in Requests : pc[r] \in Over \cup {"idle"}
    /\ UNCHANGED vars

Next == (\E r \in Requests : Ask(r) \/ Serve(r) \/ Crash(r)) \/ Quiet

Spec == Init /\ [][Next]_vars

\* A request that is being served goes on (asyncio schedules it again).
FairSpec == Spec /\ \A r \in Requests : WF_vars(Serve(r))

-----------------------------------------------------------------------------
TypeOK ==
    /\ product \in [Products -> ProductData]
    /\ order \in [Orders -> OrderData]
    /\ delivery \in [Orders -> DeliveryData]
    /\ commission \in [Orders -> SUBSET Requests]
    /\ lock \in [Rows -> Requests \cup {Nobody}]
    /\ pc \in [Requests -> Busy \cup Over \cup {"idle", "mailing"}]
    /\ target \in [Requests -> Orders \cup {Nobody}]
    /\ items \in [Requests -> Baskets \cup {NoItems}]
    /\ todo \in [Requests -> SUBSET Rows]
    /\ next \in [Requests -> Rows \cup {NoRow}]
    /\ seen \in [Requests -> [Products -> ProductData \cup {NotLoaded}]]
    /\ slip \in [Requests -> DeliveryData]
    /\ claim \in [Requests -> BOOLEAN]
    /\ sent \subseteq Message

\* The receipt goes out by email at most once per order, however many requests
\* confirm the payment at the same time and whichever of them dies (the
\* conditional UPDATE of receipt_to_send, app/services/order_emails.py).
OneReceiptMail ==
    \A m, n \in sent : m.kind = "receipt_mail" /\ n.kind = "receipt_mail" /\ m.order = n.order => m = n

\* An order owes one commission at most: the second confirmation loses its
\* whole transaction on the unique order_id of order_commissions.
OneCommission == \A o \in Orders : \A a, b \in commission[o] : a = b

\* While no order is cancelled, the sale, its commission and the email of its
\* receipt stand or fall together: no crash leaves one without the others
\* (a payer that finds no commission_rate is the only one to owe none).
SaleIsWhole ==
    \A o \in Orders :
       /\ commission[o] # {} => order[o].status = "PAID"
       /\ order[o].status = "PAID" /\ commission[o] = {} =>
             \E r \in Requests \ Commissioned : Role[r] = "payer" /\ pc[r] \in Over \cup {"mailing"}
       /\ order[o].receiptMailed => order[o].status = "PAID"
       /\ (\E m \in sent : m.kind = "receipt_mail" /\ m.order = o) => order[o].receiptMailed

Live == {o \in Orders : order[o].status \in {"PENDING", "PAID"}}

\* Units of p held by the orders that stand.
Engaged(p) == SumFunctionOnSet([o \in Orders |-> order[o].items[p]], Live)

\* "deux commandes simultanées ne peuvent pas vendre le même dernier article":
\* the orders that stand never hold more units than the shop had.
NeverOversold ==
    \A p \in Products \ Dishes :
       Engaged(p) <= Available(p, Opening[p])

\* What no standing order holds is on the shelf: nothing stays reserved for an
\* order that was refused.
NothingHeldForNothing ==
    (\A r \in Requests : pc[r] \notin Busy) =>
       \A p \in Products \ Dishes :
          Available(p, product[p]) + Engaged(p) >= Available(p, Opening[p])

\* "Cette vente est confirmée : elle ne peut pas être annulée": a committed
\* payment is never followed by a committed cancellation of the same order.
PaidIsFinal ==
    [][\A o \in Orders : order[o].status = "PAID" => (order[o].status)' = "PAID"]_vars

\* "Une seule fois par étape": the customer is told once that the order left,
\* once that it arrived.
ToldOncePerStep ==
    \A m, n \in sent :
       m.kind = n.kind /\ m.order = n.order /\ m.kind \in {"delivery_shipped", "delivery_delivered"}
          => m = n

\* Every request the server has begun ends, though two orders may lock the
\* same products in opposite orders and wait for each other.
EveryRequestEnds == \A r \in Requests : pc[r] \in Busy ~> pc[r] \notin Busy

-----------------------------------------------------------------------------
\* The committed tables, seen as the order book of one request at a time.
Ledger == INSTANCE OrderLedger WITH
    book   <- [o \in Orders |-> [status |-> order[o].status, items |-> order[o].items]],
    parcel <- [o \in Orders |-> delivery[o].status]

\* Every behaviour of the concurrent requests is one of the ledger: each
\* commit is one ledger step, everything else is invisible.
ImplementsLedger == Ledger!LedgerSpec

\* Conservation of stock: what is on the shelf plus what the committed orders
\* that stand hold is what the shop opened with, whoever was served, refused,
\* cancelled or died (reservation in create_order, restocking in cancel_order).
StockConserved == Ledger!Balance

=============================================================================
