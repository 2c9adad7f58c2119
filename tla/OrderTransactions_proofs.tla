---------------------- MODULE OrderTransactions_proofs ----------------------
(***************************************************************************)
(* Theorems about OrderTransactions for any shop, any crowd of requests    *)
(* and any number of them in hand at once.                                 *)
(***************************************************************************)
EXTENDS OrderTransactions, DataInduction, FiniteSetTheorems, TLAPS

-----------------------------------------------------------------------------
(* One line and one row.                                                   *)

LEMMA ReserveType ==
    ASSUME NEW p \in Products, NEW row \in ProductData, NEW q \in Nat, Enough(p, row, q)
    PROVE  Reserve(p, row, q) \in ProductData
<1>1. CASE p \in Dishes
  BY <1>1, KindAssumption DEF Reserve
<1>2. CASE p \notin Dishes /\ p \in Sized
  BY <1>2 DEF Reserve, Less, ProductData
<1>3. CASE p \notin Dishes /\ p \notin Sized
  <2>1. row.stock >= q
    BY <1>3 DEF Enough, Available
  <2>2. Reserve(p, row, q) = [row EXCEPT !.stock = row.stock - q]
    BY <1>3 DEF Reserve
  <2> QED
    BY <2>1, <2>2 DEF ProductData
<1> QED
  BY <1>1, <1>2, <1>3

LEMMA RestockType ==
    ASSUME NEW p \in Products, NEW row \in ProductData, NEW q \in Nat
    PROVE  Restock(p, row, q) \in ProductData
  BY KindAssumption DEF Restock, ProductData

-----------------------------------------------------------------------------
(* What a request has in hand at each place of its path.                   *)

Creating   == {"lines", "insert", "refused"}
Paying     == {"paying", "paid", "receipted", "mailing"}
Cancelling == {"reading", "restocking", "writing", "cancelled", "told"}
Delivering == {"moving", "moved", "notified"}

\* The lines r has reserved so far.
Taken(r) == {p \in Products : items[r][p] > 0 /\ ProductRow(p) \notin todo[r]}

\* A creating request is about its own order, which is not in the table yet;
\* the others are about an order that is.
InHandOf(r) ==
    /\ pc[r] \in Creating => /\ r \in Orders /\ target[r] = r /\ items[r] \in Baskets
                             /\ \A p \in Taken(r) : seen[r][p] \in ProductData
    /\ pc[r] \in Creating \cup {"idle"} /\ r \in Orders => order[r].status = "NONE"
    /\ pc[r] \in Paying \cup Cancelling \cup Delivering =>
          /\ target[r] \in Orders
          /\ order[target[r]].status # "NONE"
    /\ pc[r] \in {"writing", "cancelled", "told"} =>
          \A p \in GivenBack(target[r]) : seen[r][p] \in ProductData

InHand == \A r \in Requests : InHandOf(r)

LEMMA RowsFacts ==
    /\ \A p \in Products : ProductRow(p) \in Rows
    /\ \A o \in Orders : OrderRow(o) \in Rows /\ DeliveryRow(o) \in Rows
  BY DEF Rows

LEMMA BasketQuantity ==
    ASSUME NEW b \in Baskets \cup {NoItems}, NEW p \in Products
    PROVE  b[p] \in Nat
  BY RequestsAssumption DEF NoItems

LEMMA DeliveryEdit ==
    ASSUME NEW d \in DeliveryData, NEW status \in ParcelStatus, NEW a \in BOOLEAN, NEW b \in BOOLEAN
    PROVE  /\ [d EXCEPT !.status = status] \in DeliveryData
           /\ [d EXCEPT !.shippedTold = a, !.deliveredTold = b] \in DeliveryData
  BY DEF DeliveryData

LEMMA OrderEdit ==
    ASSUME NEW d \in OrderData, NEW status \in OrderStatus, NEW a \in BOOLEAN
    PROVE  /\ [d EXCEPT !.status = status] \in OrderData
           /\ [d EXCEPT !.status = status, !.receiptMailed = a] \in OrderData
  BY DEF OrderData

LEMMA CloseType ==
    ASSUME TypeOK, NEW r \in Requests, NEW how \in Over, Close(r, how)
    PROVE  /\ lock' \in [Rows -> Requests \cup {Nobody}]
           /\ pc' \in [Requests -> Busy \cup Over \cup {"idle", "mailing"}]
           /\ target' \in [Requests -> Orders \cup {Nobody}]
           /\ items' \in [Requests -> Baskets \cup {NoItems}]
           /\ todo' \in [Requests -> SUBSET Rows]
           /\ next' \in [Requests -> Rows \cup {NoRow}]
           /\ seen' \in [Requests -> [Products -> ProductData \cup {NotLoaded}]]
           /\ slip' \in [Requests -> DeliveryData]
           /\ claim' \in [Requests -> BOOLEAN]
  BY DEF TypeOK, Close, Release, Goto, Unloaded, NoParcel, DeliveryData, ParcelStatus

LEMMA AskNextType ==
    ASSUME TypeOK, NEW r \in Requests, NEW rows \in SUBSET Rows, AskNext(r, rows)
    PROVE  /\ todo' \in [Requests -> SUBSET Rows]
           /\ next' \in [Requests -> Rows \cup {NoRow}]
  BY DEF TypeOK, AskNext

LEMMA LockType ==
    ASSUME TypeOK, NEW r \in Requests, NEW w, Acquire(r, w) \/ Release(r)
    PROVE  lock' \in [Rows -> Requests \cup {Nobody}]
  BY DEF TypeOK, Acquire, Release

LEMMA BasketType ==
    ASSUME TypeOK, NEW r \in Requests, r \in Orders, NEW basket \in Baskets, Basket(r, basket)
    PROVE  /\ UNCHANGED <<tables, lock, slip, claim, sent>>
           /\ pc' \in [Requests -> Busy \cup Over \cup {"idle", "mailing"}]
           /\ target' \in [Requests -> Orders \cup {Nobody}]
           /\ items' \in [Requests -> Baskets \cup {NoItems}]
           /\ todo' \in [Requests -> SUBSET Rows]
           /\ next' \in [Requests -> Rows \cup {NoRow}]
<1> DEFINE rows == {ProductRow(p) : p \in {q \in Products : basket[q] > 0}}
<1>1. rows \in SUBSET Rows
  BY RowsFacts
<1>2. AskNext(r, rows)
  BY DEF Basket
<1>3. todo' \in [Requests -> SUBSET Rows] /\ next' \in [Requests -> Rows \cup {NoRow}]
  <2> HIDE DEF rows
  <2> QED
    BY <1>1, <1>2, AskNextType
<1> QED
  BY <1>3 DEF TypeOK, Basket, Goto, tables, Busy

LEMMA TypeInit == Init => TypeOK /\ InHand
  BY RequestsAssumption DEF Init, TypeOK, InHand, InHandOf, NoOrder, NoParcel, Unloaded, OrderData, DeliveryData,
     ParcelStatus, OrderStatus,
     Creating, Paying, Cancelling, Delivering, Busy, Over

LEMMA TypeStep ==
    ASSUME TypeOK, InHand, NEW r \in Requests, Ask(r) \/ Serve(r) \/ Crash(r)
    PROVE  TypeOK'
<1>1. CASE AskOrder(r)
  <2>1. PICK basket \in Baskets : Basket(r, basket)
    BY <1>1 DEF AskOrder
  <2>2. r \in Orders /\ seen' = seen
    BY <1>1 DEF AskOrder, Arrives, Orders, CreatorRoles
  <2> QED
    BY <2>1, <2>2, BasketType DEF TypeOK, tables
<1>2. CASE ValidateCart(r)
  <2>1. PICK basket \in Baskets :
          /\ Basket(r, basket)
          /\ seen' = [seen EXCEPT ![r] =
                        [p \in Products |-> IF basket[p] > 0 THEN product[p] ELSE NotLoaded]]
    BY <1>2 DEF ValidateCart
  <2>2. r \in Orders
    BY <1>2 DEF ValidateCart, Arrives, Orders, CreatorRoles
  <2>3. seen' \in [Requests -> [Products -> ProductData \cup {NotLoaded}]]
    BY <2>1 DEF TypeOK
  <2> QED
    BY <2>1, <2>2, <2>3, BasketType DEF TypeOK, tables
<1>3. CASE AskPayment(r)
  BY ZenonT(40), <1>3, CloseType DEF TypeOK, AskPayment, Refused, About, Goto, tables, Busy, Over
<1>4. CASE AskCancel(r)
  BY <1>4, CloseType DEF TypeOK, AskCancel, Refused, About, Goto, tables, Busy, Over
<1>5. CASE AskDelivery(r)
  <2>1. PICK o \in Orders, status \in ParcelStatus :
          /\ About(r, o)
          /\ slip' = [slip EXCEPT ![r] = [delivery[o] EXCEPT !.status = status]]
          /\ Goto(r, IF status = delivery[o].status THEN "moved" ELSE "moving")
    BY <1>5 DEF AskDelivery
  <2>2. [delivery[o] EXCEPT !.status = status] \in DeliveryData
    <3>1. delivery[o] \in DeliveryData
      BY DEF TypeOK
    <3> QED
      BY <3>1, DeliveryEdit
  <2>3. UNCHANGED <<tables, lock, items, todo, next, seen, claim, sent>>
    BY <1>5 DEF AskDelivery
  <2>4. slip' \in [Requests -> DeliveryData]
    BY <2>1, <2>2 DEF TypeOK
  <2>5. /\ target' \in [Requests -> Orders \cup {Nobody}]
        /\ pc' \in [Requests -> Busy \cup Over \cup {"idle", "mailing"}]
    BY <2>1 DEF TypeOK, About, Goto, Busy
  <2> QED
    BY <2>3, <2>4, <2>5 DEF TypeOK, tables
<1>6. CASE ReserveLine(r)
  <2>1. PICK p \in Products :
          /\ Line(r, p)
          /\ Enough(p, Locked(r, p), items[r][p])
          /\ seen' = [seen EXCEPT ![r][p] = Reserve(p, Locked(r, p), items[r][p])]
          /\ AskNext(r, todo[r] \ {ProductRow(p)})
          /\ Goto(r, IF todo[r] = {ProductRow(p)} THEN "insert" ELSE "lines")
    BY <1>6 DEF ReserveLine
  <2>2. Locked(r, p) \in ProductData /\ items[r][p] \in Nat
    BY BasketQuantity DEF TypeOK, Locked
  <2>3. Reserve(p, Locked(r, p), items[r][p]) \in ProductData
    BY <2>1, <2>2, ReserveType
  <2>4. seen' \in [Requests -> [Products -> ProductData \cup {NotLoaded}]]
    BY <2>1, <2>3 DEF TypeOK
  <2>5. /\ todo' \in [Requests -> SUBSET Rows] /\ next' \in [Requests -> Rows \cup {NoRow}]
        /\ lock' \in [Rows -> Requests \cup {Nobody}]
    <3>1. todo[r] \ {ProductRow(p)} \in SUBSET Rows
      BY DEF TypeOK
    <3> QED
      BY <2>1, <3>1, AskNextType, LockType DEF Line
  <2> QED
    BY <1>6, <2>1, <2>4, <2>5 DEF TypeOK, ReserveLine, Goto, tables, Busy
<1>7. CASE RefuseLine(r)
  BY <1>7, LockType DEF TypeOK, RefuseLine, Line, Goto, tables, session, Busy
<1>8. CASE CommitOrder(r)
  BY ZenonT(40), <1>8, CloseType DEF TypeOK, InHand, InHandOf, Creating, Taken, CommitOrder, WriteBack, Reserved, tables, Busy, Over,
     OrderData, DeliveryData, NoParcel, OrderStatus, ParcelStatus
<1>9. CASE RefuseDashboard(r)
  BY <1>9, CloseType DEF TypeOK, RefuseDashboard, tables, Over
<1>10. CASE RefuseInChat(r)
  BY <1>10, CloseType DEF TypeOK, InHand, InHandOf, Creating, Taken, RefuseInChat, WriteBack, Reserved, tables, Over
<1>11. CASE FlushPayment(r)
  BY <1>11, LockType DEF TypeOK, FlushPayment, Goto, tables, session, Busy
<1>12. CASE CommissionTwice(r)
  BY <1>12, CloseType DEF TypeOK, CommissionTwice, tables, Over
<1>13. CASE SendReceipt(r)
  BY <1>13 DEF TypeOK, InHand, InHandOf, Paying, SendReceipt, Note, Message, Goto, tables, Busy
<1>14. CASE CommitPayment(r)
  <2>1. order' \in [Orders -> OrderData]
    <3>1. \A d \in OrderData : [d EXCEPT !.status = "PAID", !.receiptMailed = @ \/ claim[r]] \in OrderData
      <4> SUFFICES ASSUME NEW d \in OrderData
                   PROVE  [d EXCEPT !.status = "PAID", !.receiptMailed = d.receiptMailed \/ claim[r]] \in OrderData
        OBVIOUS
      <4>1. d.receiptMailed \/ claim[r] \in BOOLEAN
        BY DEF TypeOK, OrderData
      <4> QED
        BY OrderEdit DEF OrderStatus
    <3> QED
      BY <1>14, <3>1 DEF TypeOK, CommitPayment
  <2>2. commission' \in [Orders -> SUBSET Requests] /\ UNCHANGED <<product, delivery, sent>>
    BY <1>14 DEF TypeOK, CommitPayment
  <2>3. CASE claim[r]
    BY <1>14, <2>1, <2>2, <2>3, LockType DEF TypeOK, CommitPayment, Goto, session
  <2>4. CASE ~claim[r]
    BY <1>14, <2>1, <2>2, <2>4, CloseType DEF TypeOK, CommitPayment, Over
  <2> QED
    BY <2>3, <2>4
<1>15. CASE MailReceipt(r)
  BY <1>15, CloseType DEF TypeOK, InHand, InHandOf, Paying, MailReceipt, Note, Message, tables, Over
<1>16. CASE ReadDelivery(r)
  <2>1. target[r] \in Orders
    BY <1>16 DEF InHand, InHandOf, Cancelling, ReadDelivery
  <2>2. CASE delivery[target[r]].status \in AlreadyLeft
    BY <1>16, <2>2, CloseType DEF TypeOK, ReadDelivery, tables, Over
  <2>3. CASE delivery[target[r]].status \notin AlreadyLeft
    <3>1. delivery[target[r]] \in DeliveryData
      BY <2>1 DEF TypeOK
    <3>2. slip' \in [Requests -> DeliveryData]
      BY <1>16, <2>3, <3>1 DEF TypeOK, ReadDelivery
    <3> QED
      BY <1>16, <2>3, <3>2 DEF TypeOK, ReadDelivery, Goto, tables, Busy
  <2> QED
    BY <2>2, <2>3
<1>17. CASE ReadProducts(r)
  <2> DEFINE o == target[r]
             rows == {ProductRow(p) : p \in GivenBack(o)} \cup {OrderRow(o)}
                       \cup (IF CancelsDelivery(r) THEN {DeliveryRow(o)} ELSE {})
  <2>1. o \in Orders
    BY <1>17 DEF InHand, InHandOf, Cancelling, ReadProducts
  <2>2. rows \in SUBSET Rows
    BY <2>1, RowsFacts DEF GivenBack
  <2>3. AskNext(r, rows)
    BY <1>17 DEF ReadProducts
  <2>4. todo' \in [Requests -> SUBSET Rows] /\ next' \in [Requests -> Rows \cup {NoRow}]
    <3> HIDE DEF rows
    <3> QED
      BY <2>2, <2>3, AskNextType
  <2>5. \A p \in Products : order[o].items[p] \in Nat /\ product[p] \in ProductData
    BY <2>1, BasketQuantity DEF TypeOK, OrderData
  <2>6. seen' \in [Requests -> [Products -> ProductData \cup {NotLoaded}]]
    BY <1>17, <2>5, RestockType DEF TypeOK, ReadProducts
  <2> QED
    BY <1>17, <2>4, <2>6 DEF TypeOK, ReadProducts, Goto, tables, Busy
<1>18. CASE FlushRow(r)
  BY <1>18, AskNextType, LockType DEF TypeOK, FlushRow, Goto, tables, Busy
<1>19. CASE TellCancelled(r)
  BY <1>19 DEF TypeOK, InHand, InHandOf, Cancelling, TellCancelled, Note, Message, Goto, tables, session, Busy
<1>20. CASE CommitCancel(r)
  <2> DEFINE o == target[r]
  <2>1. o \in Orders /\ \A p \in GivenBack(o) : seen[r][p] \in ProductData
    BY <1>20 DEF InHand, InHandOf, Cancelling, CommitCancel
  <2>2. product' \in [Products -> ProductData]
    BY <1>20, <2>1 DEF TypeOK, CommitCancel, WriteBack
  <2>3. order' \in [Orders -> OrderData]
    BY <1>20, <2>1, OrderEdit DEF TypeOK, CommitCancel, OrderStatus
  <2>4. delivery' \in [Orders -> DeliveryData]
    <3>1. delivery[o] \in DeliveryData /\ delivery[o].status \in ParcelStatus
      BY <2>1 DEF TypeOK, DeliveryData
    <3>2. [delivery[o] EXCEPT !.status = IF CancelsDelivery(r) THEN "CANCELLED" ELSE @] \in DeliveryData
      BY <3>1, DeliveryEdit DEF ParcelStatus
    <3> QED
      BY <1>20, <2>1, <3>2 DEF TypeOK, CommitCancel
  <2> QED
    BY <1>20, <2>2, <2>3, <2>4, CloseType DEF TypeOK, CommitCancel, Over
<1>21. CASE FlushDelivery(r)
  BY <1>21, LockType DEF TypeOK, FlushDelivery, Goto, tables, session, Busy
<1>22. CASE NotifyDelivery(r)
  <2>1. CASE UNCHANGED <<lock, session, sent>> /\ Goto(r, "notified")
    BY <1>22, <2>1 DEF TypeOK, NotifyDelivery, Goto, tables, session, Busy
  <2>2. CASE Close(r, "done") /\ UNCHANGED sent
    BY <1>22, <2>2, CloseType DEF TypeOK, NotifyDelivery, tables, Over
  <2>3. CASE /\ sent' = sent \cup {Note(StepDue(slip[r]), r)}
             /\ StepDue(slip[r]) # "none"
             /\ slip' = [slip EXCEPT ![r].shippedTold = @ \/ StepDue(slip[r]) = "delivery_shipped",
                                     ![r].deliveredTold = @ \/ StepDue(slip[r]) = "delivery_delivered"]
             /\ Goto(r, "notified")
             /\ UNCHANGED <<lock, target, items, todo, next, seen, claim>>
    <3>1. StepDue(slip[r]) \in {"delivery_shipped", "delivery_delivered"} /\ target[r] \in Orders
      BY <1>22, <2>3 DEF StepDue, InHand, InHandOf, Delivering, NotifyDelivery
    <3>2. sent' \subseteq Message
      BY <2>3, <3>1 DEF TypeOK, Note, Message
    <3>3. slip' \in [Requests -> DeliveryData]
      <4>1. slip[r] \in DeliveryData
        BY DEF TypeOK
      <4>2. [slip[r] EXCEPT !.shippedTold = @ \/ StepDue(slip[r]) = "delivery_shipped",
                            !.deliveredTold = @ \/ StepDue(slip[r]) = "delivery_delivered"] \in DeliveryData
        BY <4>1, DeliveryEdit DEF DeliveryData
      <4> QED
        BY <2>3, <4>2 DEF TypeOK
    <3> QED
      BY <1>22, <2>3, <3>2, <3>3 DEF TypeOK, NotifyDelivery, Goto, tables, Busy
  <2> QED
    BY <1>22, <2>1, <2>2, <2>3 DEF NotifyDelivery
<1>23. CASE CommitDelivery(r)
  BY <1>23, CloseType DEF TypeOK, DeliveryData, CommitDelivery, tables, Over
<1>24. CASE DeadlockVictim(r) \/ Crash(r)
  BY <1>24, CloseType DEF TypeOK, DeadlockVictim, Crash, Rollback, tables, Over
<1> QED
  BY <1>1, <1>2, <1>3, <1>4, <1>5, <1>6, <1>7, <1>8, <1>9, <1>10, <1>11, <1>12, <1>13, <1>14, <1>15, <1>16,
     <1>17, <1>18, <1>19, <1>20, <1>21, <1>22, <1>23, <1>24 DEF Ask, Serve

-----------------------------------------------------------------------------
(* A step of one request.                                                  *)

Act(r) == Ask(r) \/ Serve(r) \/ Crash(r)

\* The session of one request is no other request's business.
LEMMA OthersUntouched ==
    ASSUME TypeOK, NEW r \in Requests, NEW q \in Requests, q # r, Act(r)
    PROVE  /\ pc'[q] = pc[q] /\ target'[q] = target[q] /\ items'[q] = items[q]
           /\ todo'[q] = todo[q] /\ seen'[q] = seen[q] /\ slip'[q] = slip[q] /\ claim'[q] = claim[q]
           /\ \A w \in Rows : lock[w] = q <=> lock'[w] = q
<1> Nobody \notin Requests
  BY RequestsAssumption
<1>1. CASE Ask(r)
  BY <1>1 DEF TypeOK, Ask, AskOrder, ValidateCart, Basket, AskPayment, AskCancel, AskDelivery, About, Refused,
              Close, Release, Goto, AskNext
<1>2. CASE ReserveLine(r) \/ RefuseLine(r) \/ FlushRow(r)
  BY <1>2 DEF TypeOK, ReserveLine, RefuseLine, FlushRow, Line, Acquire, Goto, AskNext, session
<1>3. CASE CommitOrder(r) \/ RefuseDashboard(r) \/ RefuseInChat(r) \/ CommissionTwice(r) \/ MailReceipt(r)
             \/ CommitCancel(r) \/ CommitDelivery(r) \/ DeadlockVictim(r) \/ Crash(r)
  BY <1>3 DEF TypeOK, CommitOrder, RefuseDashboard, RefuseInChat, CommissionTwice, MailReceipt, CommitCancel,
              CommitDelivery, DeadlockVictim, Crash, Rollback, Close, Release, Goto
<1>4. CASE FlushPayment(r) \/ SendReceipt(r) \/ TellCancelled(r) \/ FlushDelivery(r)
  BY <1>4 DEF TypeOK, FlushPayment, SendReceipt, TellCancelled, FlushDelivery, Acquire, Goto, session
<1>5. CASE CommitPayment(r)
  BY <1>5 DEF TypeOK, CommitPayment, Close, Release, Goto, session
<1>6. CASE ReadDelivery(r) \/ ReadProducts(r)
  BY <1>6 DEF TypeOK, ReadDelivery, ReadProducts, Close, Release, Goto, AskNext
<1>7. CASE NotifyDelivery(r)
  BY <1>7 DEF TypeOK, NotifyDelivery, Close, Release, Goto, session
<1> QED
  BY <1>1, <1>2, <1>3, <1>4, <1>5, <1>6, <1>7 DEF Act, Serve

\* An order that is in the table stays there with its items, and its receipt
\* mark is never taken back; only r can put the order of r there.
LEMMA OrdersGrow ==
    ASSUME TypeOK, InHand, NEW r \in Requests, Act(r)
    PROVE  \A o \in Orders :
              /\ order[o].status # "NONE" => /\ order'[o].status # "NONE"
                                             /\ order'[o].items = order[o].items
              /\ order[o].receiptMailed => order'[o].receiptMailed \/ order[o].status = "NONE"
              /\ order[o].status = "NONE" => order'[o] = order[o] \/ (o = r /\ pc'[r] = "done")
<1>1. CASE CommitOrder(r)
  BY <1>1 DEF TypeOK, OrderData, InHand, InHandOf, Creating, CommitOrder, Close, Goto
<1>2. CASE CommitPayment(r) \/ CommitCancel(r)
  <2> DEFINE t == target[r]
  <2>1. t \in Orders /\ order[t] \in OrderData /\ order[t].status # "NONE"
    BY <1>2 DEF TypeOK, InHand, InHandOf, Paying, Cancelling, CommitPayment, CommitCancel
  <2>2. /\ order'[t].status # "NONE" /\ order'[t].items = order[t].items
        /\ order[t].receiptMailed => order'[t].receiptMailed
    <3>1. CASE CommitPayment(r)
      <4>1. order'[t] = [order[t] EXCEPT !.status = "PAID", !.receiptMailed = order[t].receiptMailed \/ claim[r]]
        BY <2>1, <3>1 DEF TypeOK, CommitPayment
      <4>2. order[t].receiptMailed \in BOOLEAN
        BY <2>1 DEF OrderData
      <4> QED
        BY <2>1, <4>1, <4>2 DEF OrderData
    <3>2. CASE CommitCancel(r)
      BY <2>1, <3>2 DEF TypeOK, OrderData, CommitCancel
    <3> QED
      BY <1>2, <3>1, <3>2
  <2>3. \A o \in Orders : o # t => order'[o] = order[o]
    BY <1>2 DEF TypeOK, CommitPayment, CommitCancel
  <2> QED
    BY <2>1, <2>2, <2>3
<1>3. CASE UNCHANGED order
  BY <1>3
<1>4. Act(r) => CommitOrder(r) \/ CommitPayment(r) \/ CommitCancel(r) \/ UNCHANGED order
  BY DEF Act, Ask, Serve, AskOrder, ValidateCart, Basket, AskPayment, AskCancel, AskDelivery, ReserveLine, RefuseLine,
         RefuseDashboard, RefuseInChat, FlushPayment, CommissionTwice, SendReceipt, MailReceipt, ReadDelivery,
         ReadProducts, FlushRow, TellCancelled, FlushDelivery, NotifyDelivery, CommitDelivery, DeadlockVictim,
         Crash, Rollback, tables
<1> QED
  BY <1>1, <1>2, <1>3, <1>4

LEMMA ProductRowInjective ==
    ASSUME NEW p \in Products, NEW q \in Products, ProductRow(p) = ProductRow(q)
    PROVE  p = q
  BY DEF ProductRow

\* The step of r, for r itself.
LEMMA InHandOwn ==
    ASSUME TypeOK, InHand, NEW r \in Requests, Act(r)
    PROVE  InHandOf(r)'
<1> USE DEF Creating, Paying, Cancelling, Delivering
<1> InHandOf(r)
  BY DEF InHand
<1>1. CASE pc'[r] \in Over
  BY <1>1 DEF InHandOf, Over
<1>2. CASE AskOrder(r) \/ ValidateCart(r)
  <2>1. PICK basket \in Baskets : Basket(r, basket)
    BY <1>2 DEF AskOrder, ValidateCart
  <2>2. r \in Orders /\ pc[r] = "idle"
    BY <1>2 DEF AskOrder, ValidateCart, Arrives, Orders, CreatorRoles
  <2>3. /\ pc'[r] = "lines" /\ target'[r] = r /\ items'[r] = basket /\ order' = order
        /\ todo'[r] = {ProductRow(p) : p \in {q \in Products : basket[q] > 0}}
    BY <2>1 DEF TypeOK, Basket, AskNext, Goto, tables
  <2>4. Taken(r)' = {}
    BY <2>3 DEF Taken
  <2> QED
    BY <2>2, <2>3, <2>4 DEF InHandOf
<1>3. CASE (AskPayment(r) \/ AskCancel(r) \/ AskDelivery(r)) /\ pc'[r] \notin Over
  <2>1. PICK o \in Orders : About(r, o)
    BY <1>3 DEF TypeOK, AskPayment, AskCancel, AskDelivery, Refused, Close, Goto, Over
  <2>2. /\ order' = order
        /\ pc'[r] \in {"paying", "reading", "moving", "moved"}
    BY <1>3 DEF TypeOK, AskPayment, AskCancel, AskDelivery, Refused, Close, Goto, Over, tables
  <2>3. target'[r] = o /\ order[o].status # "NONE"
    BY <2>1 DEF TypeOK, About
  <2> QED
    BY <2>2, <2>3 DEF InHandOf
<1>4. CASE ReserveLine(r)
  <2>1. PICK p \in Products :
          /\ Line(r, p)
          /\ Enough(p, Locked(r, p), items[r][p])
          /\ seen' = [seen EXCEPT ![r][p] = Reserve(p, Locked(r, p), items[r][p])]
          /\ AskNext(r, todo[r] \ {ProductRow(p)})
          /\ Goto(r, IF todo[r] = {ProductRow(p)} THEN "insert" ELSE "lines")
    BY <1>4 DEF ReserveLine
  <2>2. Reserve(p, Locked(r, p), items[r][p]) \in ProductData
    <3>1. Locked(r, p) \in ProductData /\ items[r][p] \in Nat
      BY SMTT(20), BasketQuantity DEF TypeOK, Locked
    <3> QED
      BY <2>1, <3>1, ReserveType
  <2>3. /\ pc[r] = "lines" /\ pc'[r] \in {"lines", "insert"} /\ order' = order
        /\ target' = target /\ items' = items /\ todo'[r] = todo[r] \ {ProductRow(p)}
    BY <1>4, <2>1 DEF TypeOK, ReserveLine, Line, AskNext, Goto, tables
  <2>4. \A u \in Taken(r)' : u = p \/ u \in Taken(r)
    BY <2>3, ProductRowInjective DEF Taken
  <2>5. \A u \in Products : seen'[r][u] = IF u = p THEN Reserve(p, Locked(r, p), items[r][p]) ELSE seen[r][u]
    BY <2>1 DEF TypeOK
  <2>6. \A u \in Taken(r)' : seen'[r][u] \in ProductData
    BY <2>2, <2>3, <2>4, <2>5 DEF InHandOf, Taken
  <2> QED
    BY <2>3, <2>6 DEF InHandOf
<1>5. CASE RefuseLine(r)
  <2>1. pc[r] = "lines" /\ pc'[r] = "refused" /\ UNCHANGED <<order, target, items, todo, seen>>
    BY <1>5 DEF TypeOK, RefuseLine, Line, Goto, tables, session
  <2>2. Taken(r)' = Taken(r)
    BY <2>1 DEF Taken
  <2> QED
    BY <2>1, <2>2 DEF InHandOf
<1>6. CASE FlushPayment(r) \/ SendReceipt(r) \/ FlushDelivery(r) \/ (ReadDelivery(r) /\ pc'[r] \notin Over)
  <2>1. /\ pc[r] \in Paying \cup Cancelling \cup Delivering
        /\ pc'[r] \in {"paid", "receipted", "moved", "restocking"}
        /\ UNCHANGED <<order, target>>
    BY <1>6 DEF TypeOK, FlushPayment, SendReceipt, FlushDelivery, ReadDelivery, Close, Goto, Over, tables, session
  <2> QED
    BY <2>1 DEF InHandOf
<1>7. CASE CommitPayment(r) /\ pc'[r] \notin Over
  <2>1. pc[r] = "receipted" /\ pc'[r] = "mailing" /\ target' = target
    BY <1>7 DEF TypeOK, CommitPayment, Close, Goto, Over, session
  <2> QED
    BY <2>1, OrdersGrow DEF InHandOf
<1>8. CASE ReadProducts(r)
  <2> DEFINE o == target[r]
  <2>1. o \in Orders /\ order[o].status # "NONE"
    BY <1>8 DEF ReadProducts, InHandOf
  <2>2. pc'[r] = "writing" /\ UNCHANGED <<order, target>>
    BY <1>8 DEF TypeOK, ReadProducts, Goto, tables
  <2>3. \A p \in GivenBack(o) : seen'[r][p] = Restock(p, product[p], order[o].items[p])
    BY <1>8 DEF TypeOK, ReadProducts, GivenBack
  <2>4. \A p \in GivenBack(o) : seen'[r][p] \in ProductData
    <3>1. \A p \in Products : order[o].items[p] \in Nat /\ product[p] \in ProductData
      BY <2>1, BasketQuantity DEF TypeOK, OrderData
    <3> QED
      BY <2>3, <3>1, RestockType DEF GivenBack
  <2>5. GivenBack(o)' = GivenBack(o)
    BY <2>2 DEF GivenBack
  <2> QED
    BY <2>1, <2>2, <2>4, <2>5 DEF InHandOf
<1>9. CASE FlushRow(r) \/ TellCancelled(r)
  <2>1. /\ pc[r] \in {"writing", "cancelled"} /\ pc'[r] \in {"writing", "cancelled", "told"}
        /\ UNCHANGED <<order, target, seen>>
    BY <1>9 DEF TypeOK, FlushRow, TellCancelled, Goto, tables, session
  <2>2. GivenBack(target[r])' = GivenBack(target[r])
    BY <2>1 DEF GivenBack
  <2> QED
    BY <2>1, <2>2 DEF InHandOf
<1>10. CASE NotifyDelivery(r) /\ pc'[r] \notin Over
  <2>1. pc[r] = "moved" /\ pc'[r] = "notified" /\ UNCHANGED <<order, target>>
    BY <1>10 DEF TypeOK, NotifyDelivery, Close, Goto, Over, tables, session
  <2> QED
    BY <2>1 DEF InHandOf
<1>11. CASE \/ CommitOrder(r) \/ RefuseDashboard(r) \/ RefuseInChat(r) \/ CommissionTwice(r) \/ MailReceipt(r)
            \/ CommitCancel(r) \/ CommitDelivery(r) \/ DeadlockVictim(r) \/ Crash(r)
  <2>1. pc'[r] \in Over
    BY <1>11 DEF TypeOK, CommitOrder, RefuseDashboard, RefuseInChat, CommissionTwice, MailReceipt, CommitCancel,
                 CommitDelivery, DeadlockVictim, Crash, Rollback, Close, Goto, Over
  <2> QED
    BY <2>1, <1>1
<1> QED
  BY <1>1, <1>2, <1>3, <1>4, <1>5, <1>6, <1>7, <1>8, <1>9, <1>10, <1>11 DEF Act, Ask, Serve

LEMMA InHandStep ==
    ASSUME TypeOK, InHand, NEW r \in Requests, Act(r)
    PROVE  InHand'
<1> SUFFICES ASSUME NEW q \in Requests, q # r
             PROVE  InHandOf(q)'
  BY InHandOwn DEF InHand
<1>1. /\ pc'[q] = pc[q] /\ target'[q] = target[q] /\ items'[q] = items[q]
      /\ todo'[q] = todo[q] /\ seen'[q] = seen[q]
  BY OthersUntouched
<1>2. InHandOf(q)
  BY DEF InHand
<1>3. Taken(q)' = Taken(q)
  BY <1>1 DEF Taken
<1>4. CASE pc[q] \in Creating \cup {"idle"}
  BY <1>1, <1>2, <1>3, <1>4, OrdersGrow DEF InHandOf, Creating, Paying, Cancelling, Delivering
<1>5. CASE pc[q] \in Paying \cup Cancelling \cup Delivering
  <2>1. target[q] \in Orders /\ order[target[q]].status # "NONE"
    BY <1>2, <1>5 DEF InHandOf
  <2>2. GivenBack(target[q])' = GivenBack(target[q])
    BY <1>1, <2>1, OrdersGrow DEF GivenBack
  <2> QED
    BY <1>1, <1>2, <1>5, <2>1, <2>2, OrdersGrow DEF InHandOf, Creating, Paying, Cancelling, Delivering
<1> QED
  BY <1>1, <1>2, <1>4, <1>5 DEF InHandOf, Creating, Paying, Cancelling, Delivering

\* Every request works on rows of the right shape: a committed row is never
\* half a row, and no stock is ever negative, under any concurrency.
THEOREM TypeCorrect == Spec => [](TypeOK /\ InHand)
<1>1. Init => TypeOK /\ InHand
  BY TypeInit
<1>2. TypeOK /\ InHand /\ [Next]_vars => TypeOK' /\ InHand'
  <2> SUFFICES ASSUME TypeOK, InHand, [Next]_vars
               PROVE  TypeOK' /\ InHand'
    OBVIOUS
  <2>1. CASE UNCHANGED vars
    BY <2>1 DEF TypeOK, InHand, InHandOf, Taken, GivenBack, vars, tables, session
  <2>2. CASE \E r \in Requests : Act(r)
    BY <2>2, TypeStep, InHandStep DEF Act
  <2> QED
    BY <2>1, <2>2 DEF Next, Act, Quiet
<1> QED
  BY <1>1, <1>2, PTL DEF Spec

-----------------------------------------------------------------------------
(* One commission and one receipt email per order.                         *)

\* From the flush of the payment to its commit, r holds the row of the order:
\* what it checked there stays true.
PaymentOf(r) ==
    /\ pc[r] \in {"paid", "receipted"} =>
          /\ lock[OrderRow(target[r])] = r
          /\ r \in Commissioned => commission[target[r]] = {}
    /\ pc[r] = "receipted" /\ claim[r] => ~ order[target[r]].receiptMailed
    /\ pc[r] = "mailing" =>
          /\ order[target[r]].receiptMailed
          /\ \A m \in sent : m.kind = "receipt_mail" => m.order # target[r]
          /\ \A q \in Requests : pc[q] = "mailing" /\ target[q] = target[r] => q = r

MailMarked ==
    /\ \A m \in sent : m.kind = "receipt_mail" => order[m.order].receiptMailed
    /\ \A o \in Orders : order[o].status = "NONE" => ~ order[o].receiptMailed

PaymentInv ==
    /\ \A r \in Requests : PaymentOf(r)
    /\ MailMarked
    /\ OneReceiptMail
    /\ OneCommission

\* Who writes what: only a payment that commits adds a commission or marks the
\* receipt, only the background mail of r sends it.
LEMMA PaymentFrame ==
    ASSUME TypeOK, InHand, NEW r \in Requests, Act(r), ~ CommitPayment(r)
    PROVE  /\ commission' = commission
           /\ \A o \in Orders : order[o].status # "NONE" => order'[o].receiptMailed = order[o].receiptMailed
           /\ \A o \in Orders : order[o].status = "NONE" => ~ order'[o].receiptMailed \/ order'[o] = order[o]
           /\ ~ MailReceipt(r) => \A m \in sent' \ sent : m.kind # "receipt_mail"
           /\ sent \subseteq sent'
<1>1. CASE CommitOrder(r)
  <2>1. r \in Orders /\ order[r].status = "NONE" /\ commission' = commission /\ sent' = sent
    BY <1>1 DEF InHand, InHandOf, Creating, CommitOrder
  <2>2. order' = [order EXCEPT ![r] = [status |-> "PENDING", items |-> items[r], receiptMailed |-> FALSE]]
    BY <1>1 DEF CommitOrder
  <2>3. ~ order'[r].receiptMailed /\ \A o \in Orders : o # r => order'[o] = order[o]
    BY <2>1, <2>2 DEF TypeOK
  <2> QED
    BY <2>1, <2>3
<1>2. CASE CommitCancel(r)
  <2> DEFINE t == target[r]
  <2>1. t \in Orders /\ order[t] \in OrderData /\ order[t].status # "NONE"
    BY <1>2 DEF TypeOK, InHand, InHandOf, Cancelling, CommitCancel
  <2>2. order'[t].receiptMailed = order[t].receiptMailed
    BY <1>2, <2>1 DEF TypeOK, OrderData, CommitCancel
  <2>3. \A o \in Orders : o # t => order'[o] = order[o]
    BY <1>2 DEF TypeOK, CommitCancel
  <2> QED
    BY <1>2, <2>1, <2>2, <2>3 DEF CommitCancel
<1>3. CASE UNCHANGED <<order, commission, sent>>
  BY <1>3
<1>4. CASE SendReceipt(r) \/ TellCancelled(r) \/ MailReceipt(r)
  BY <1>4 DEF SendReceipt, TellCancelled, MailReceipt, Note, tables
<1>5. CASE NotifyDelivery(r)
  BY <1>5 DEF NotifyDelivery, StepDue, Note, tables, session
<1>6. \/ CommitOrder(r) \/ CommitCancel(r) \/ UNCHANGED <<order, commission, sent>>
      \/ SendReceipt(r) \/ TellCancelled(r) \/ MailReceipt(r) \/ NotifyDelivery(r)
  BY DEF Act, Ask, Serve, AskOrder, ValidateCart, Basket, AskPayment, AskCancel, AskDelivery, ReserveLine, RefuseLine,
         RefuseDashboard, RefuseInChat, FlushPayment, CommissionTwice, ReadDelivery, ReadProducts, FlushRow,
         FlushDelivery, CommitDelivery, DeadlockVictim, Crash, Rollback, tables
<1> QED
  BY <1>1, <1>2, <1>3, <1>4, <1>5, <1>6

\* What r itself may do on the way of a payment.
LEMMA PaymentPath ==
    ASSUME TypeOK, NEW r \in Requests, Act(r)
    PROVE  /\ pc'[r] = "paid" => FlushPayment(r)
           /\ pc'[r] = "receipted" => SendReceipt(r)
           /\ pc'[r] = "mailing" => CommitPayment(r)
<1>1. CASE AskOrder(r) \/ ValidateCart(r) \/ AskPayment(r) \/ AskCancel(r) \/ AskDelivery(r)
  BY ZenonT(40), <1>1 DEF TypeOK, AskOrder, ValidateCart, Basket, AskPayment, AskCancel, AskDelivery, Refused, Close, Goto
<1>2. CASE RefuseLine(r) \/ FlushRow(r) \/ ReadDelivery(r) \/ ReadProducts(r) \/ TellCancelled(r) \/ FlushDelivery(r)
  BY <1>2 DEF TypeOK, RefuseLine, Line, FlushRow, ReadDelivery, ReadProducts, TellCancelled, FlushDelivery, Close, Goto
<1>6. CASE ReserveLine(r)
  <2>1. \E label \in {"lines", "insert"} : Goto(r, label)
    BY <1>6 DEF ReserveLine
  <2> QED
    BY <2>1 DEF TypeOK, Goto
<1>3. CASE FlushPayment(r) \/ SendReceipt(r) \/ CommitPayment(r)
  BY ZenonT(40), <1>3 DEF TypeOK, FlushPayment, SendReceipt, CommitPayment, Close, Goto
<1>4. CASE CommitOrder(r) \/ RefuseDashboard(r) \/ RefuseInChat(r) \/ CommissionTwice(r) \/ MailReceipt(r)
             \/ CommitCancel(r) \/ CommitDelivery(r) \/ DeadlockVictim(r) \/ Crash(r)
  BY <1>4 DEF TypeOK, CommitOrder, RefuseDashboard, RefuseInChat, CommissionTwice, MailReceipt, CommitCancel,
              CommitDelivery, DeadlockVictim, Crash, Rollback, Close, Goto
<1>5. CASE NotifyDelivery(r)
  BY <1>5 DEF TypeOK, NotifyDelivery, Close, Goto
<1> QED
  BY <1>1, <1>2, <1>3, <1>4, <1>5, <1>6 DEF Act, Ask, Serve

\* A commit of a payment touches its own order only.
LEMMA CommitPaymentEffect ==
    ASSUME TypeOK, InHand, NEW r \in Requests, CommitPayment(r)
    PROVE  /\ target[r] \in Orders /\ order[target[r]].status # "NONE" /\ pc[r] = "receipted"
           /\ order'[target[r]].receiptMailed <=> (order[target[r]].receiptMailed \/ claim[r])
           /\ commission'[target[r]] = IF r \in Commissioned THEN commission[target[r]] \cup {r} ELSE commission[target[r]]
           /\ \A o \in Orders : o # target[r] => order'[o] = order[o] /\ commission'[o] = commission[o]
           /\ sent' = sent
           /\ pc'[r] = IF claim[r] THEN "mailing" ELSE "done"
           /\ claim[r] => target'[r] = target[r]
<1>1. target[r] \in Orders /\ order[target[r]].status # "NONE" /\ pc[r] = "receipted"
  BY DEF CommitPayment, InHand, InHandOf, Paying
<1>2. order[target[r]] \in OrderData
  BY <1>1 DEF TypeOK
<1>3. order'[target[r]].receiptMailed <=> (order[target[r]].receiptMailed \/ claim[r])
  BY <1>1, <1>2 DEF TypeOK, OrderData, CommitPayment
<1> QED
  BY <1>1, <1>3 DEF TypeOK, CommitPayment, Close, Goto, session

LEMMA PaymentStepCommit ==
    ASSUME TypeOK, InHand, PaymentInv, NEW r \in Requests, Act(r), CommitPayment(r)
    PROVE  PaymentInv'
<1> DEFINE t == target[r]
<1>1. /\ t \in Orders /\ order[t].status # "NONE" /\ pc[r] = "receipted"
      /\ order'[t].receiptMailed <=> (order[t].receiptMailed \/ claim[r])
      /\ commission'[t] = IF r \in Commissioned THEN commission[t] \cup {r} ELSE commission[t]
      /\ \A o \in Orders : o # t => order'[o] = order[o] /\ commission'[o] = commission[o]
      /\ sent' = sent
      /\ pc'[r] = IF claim[r] THEN "mailing" ELSE "done"
      /\ claim[r] => target'[r] = t
  BY CommitPaymentEffect
<1>2. PaymentOf(r)
  BY DEF PaymentInv
<1>3. \A o \in Orders : order[o].receiptMailed => order'[o].receiptMailed
  BY <1>1
<1>4. MailMarked'
  <2>1. \A m \in sent : m.order \in Orders
    BY DEF TypeOK, Message
  <2> QED
    BY <1>1, <1>3, <2>1, OrdersGrow DEF PaymentInv, MailMarked
<1>5. \A q \in Requests : q # r => PaymentOf(q)'
  <2> SUFFICES ASSUME NEW q \in Requests, q # r
               PROVE  PaymentOf(q)'
    OBVIOUS
  <2>1. /\ pc'[q] = pc[q] /\ target'[q] = target[q] /\ claim'[q] = claim[q]
        /\ \A w \in Rows : lock[w] = q <=> lock'[w] = q
    BY OthersUntouched
  <2>2. PaymentOf(q) /\ InHandOf(q)
    BY DEF PaymentInv, InHand
  <2>3. pc[q] \in {"paid", "receipted", "mailing"} => target[q] \in Orders /\ OrderRow(target[q]) \in Rows
    BY <2>2, RowsFacts DEF InHandOf, Paying
  <2>4. pc[q] \in {"paid", "receipted"} => target[q] # t
    BY <1>1, <1>2, <2>2 DEF PaymentOf
  <2>5. pc[q] = "mailing" /\ claim[r] => target[q] # t
    BY <1>1, <1>2, <2>2 DEF PaymentOf
  <2>6. \A u \in Requests : u # r => pc'[u] = pc[u] /\ target'[u] = target[u]
    BY OthersUntouched
  <2> QED
    BY <1>1, <1>3, <2>1, <2>2, <2>3, <2>4, <2>5, <2>6 DEF PaymentOf
<1>6. PaymentOf(r)'
  <2>1. CASE claim[r]
    <3>1. pc'[r] = "mailing" /\ target'[r] = t /\ order'[t].receiptMailed /\ ~ order[t].receiptMailed
      BY <1>1, <1>2, <2>1 DEF PaymentOf
    <3>2. \A m \in sent' : m.kind = "receipt_mail" => m.order # t
      BY <1>1, <3>1 DEF PaymentInv, MailMarked
    <3>3. \A q \in Requests : pc'[q] = "mailing" /\ target'[q] = t => q = r
      <4> SUFFICES ASSUME NEW q \in Requests, q # r, pc'[q] = "mailing", target'[q] = t
                   PROVE  FALSE
        OBVIOUS
      <4>1. pc[q] = "mailing" /\ target[q] = t
        BY OthersUntouched
      <4> QED
        BY <4>1, <3>1 DEF PaymentInv, PaymentOf
    <3> QED
      BY <3>1, <3>2, <3>3 DEF PaymentOf
  <2>2. CASE ~ claim[r]
    BY <1>1, <2>2 DEF PaymentOf
  <2> QED
    BY <2>1, <2>2
<1>7. OneCommission'
  BY <1>1, <1>2 DEF PaymentInv, PaymentOf, OneCommission
<1>8. OneReceiptMail'
  BY <1>1 DEF PaymentInv, OneReceiptMail
<1> QED
  BY <1>4, <1>5, <1>6, <1>7, <1>8 DEF PaymentInv

LEMMA PaymentStepOther ==
    ASSUME TypeOK, InHand, PaymentInv, NEW r \in Requests, Act(r), ~ CommitPayment(r)
    PROVE  PaymentInv'
<1>1. /\ commission' = commission
      /\ \A o \in Orders : order[o].status # "NONE" => order'[o].receiptMailed = order[o].receiptMailed
      /\ \A o \in Orders : order[o].status = "NONE" => ~ order'[o].receiptMailed \/ order'[o] = order[o]
      /\ ~ MailReceipt(r) => \A m \in sent' \ sent : m.kind # "receipt_mail"
      /\ sent \subseteq sent'
  BY PaymentFrame
<1>2. \A m \in sent : m.order \in Orders
  BY DEF TypeOK, Message
<1>3. /\ MailReceipt(r) => /\ pc[r] = "mailing" /\ pc'[r] = "done" /\ order' = order
                           /\ sent' = sent \cup {Note("receipt_mail", r)}
      /\ PaymentOf(r) /\ InHandOf(r)
  BY DEF MailReceipt, Close, Goto, TypeOK, PaymentInv, InHand, tables
<1>4. MailMarked'
  <2>1. CASE MailReceipt(r)
    BY <1>3, <2>1 DEF PaymentInv, MailMarked, PaymentOf, Note
  <2>2. CASE ~ MailReceipt(r)
    BY <1>1, <1>2, <2>2, OrdersGrow DEF PaymentInv, MailMarked
  <2> QED
    BY <2>1, <2>2
<1>5. OneReceiptMail'
  <2>1. CASE MailReceipt(r)
    BY <1>3, <2>1 DEF PaymentInv, OneReceiptMail, PaymentOf, Note
  <2>2. CASE ~ MailReceipt(r)
    BY <1>1, <2>2 DEF PaymentInv, OneReceiptMail
  <2> QED
    BY <2>1, <2>2
<1>6. ASSUME NEW q \in Requests, q # r
      PROVE  PaymentOf(q)'
  <2>1. /\ pc'[q] = pc[q] /\ target'[q] = target[q] /\ claim'[q] = claim[q]
        /\ \A w \in Rows : lock[w] = q <=> lock'[w] = q
    BY <1>6, OthersUntouched
  <2>2. PaymentOf(q) /\ InHandOf(q)
    BY DEF PaymentInv, InHand
  <2>3. pc[q] \in Paying => /\ target[q] \in Orders /\ OrderRow(target[q]) \in Rows
                            /\ order'[target[q]].receiptMailed = order[target[q]].receiptMailed
    BY <1>1, <2>2, RowsFacts DEF InHandOf
  <2>4. pc[q] = "mailing" => \A u \in Requests : pc'[u] = "mailing" /\ target'[u] = target[q] => u = q
    <3> SUFFICES ASSUME pc[q] = "mailing", NEW u \in Requests, pc'[u] = "mailing", target'[u] = target[q], u # q
                 PROVE  FALSE
      OBVIOUS
    <3>1. u # r
      BY PaymentPath
    <3>2. pc[u] = "mailing" /\ target[u] = target[q]
      BY <3>1, OthersUntouched
    <3> QED
      BY <3>2, <2>2 DEF PaymentOf
  <2>5. pc[q] = "mailing" => \A m \in sent' : m.kind = "receipt_mail" => m.order # target[q]
    <3>1. CASE MailReceipt(r)
      <4>1. pc[q] = "mailing" => target[q] # target[r]
        BY <1>3, <1>6, <2>2, <3>1 DEF PaymentOf
      <4> QED
        BY <1>3, <2>2, <3>1, <4>1 DEF PaymentOf, Note
    <3>2. CASE ~ MailReceipt(r)
      BY <1>1, <2>2, <3>2 DEF PaymentOf
    <3> QED
      BY <3>1, <3>2
  <2> QED
    BY <1>1, <2>1, <2>2, <2>3, <2>4, <2>5 DEF PaymentOf, Paying
<1>7. PaymentOf(r)'
  <2>1. pc'[r] # "mailing"
    BY PaymentPath
  <2>2. CASE pc'[r] = "paid"
    <3>1. FlushPayment(r)
      BY <2>2, PaymentPath
    <3>2. target[r] \in Orders /\ OrderRow(target[r]) \in Rows
      BY <1>3, <3>1, RowsFacts DEF InHandOf, Paying, FlushPayment
    <3>3. lock'[OrderRow(target[r])] = r /\ target' = target /\ (r \in Commissioned => commission[target[r]] = {})
      BY <3>1, <3>2 DEF TypeOK, FlushPayment, Acquire, session
    <3> QED
      BY <1>1, <2>2, <3>3 DEF PaymentOf
  <2>3. CASE pc'[r] = "receipted"
    <3>1. SendReceipt(r)
      BY <2>3, PaymentPath
    <3>2. /\ pc[r] = "paid" /\ UNCHANGED <<lock, target, order>>
          /\ claim'[r] => ~ order[target[r]].receiptMailed
      BY <3>1 DEF TypeOK, SendReceipt, tables
    <3> QED
      BY <1>1, <1>3, <2>3, <3>2 DEF PaymentOf
  <2> QED
    BY <2>1, <2>2, <2>3 DEF PaymentOf
<1> QED
  BY <1>1, <1>4, <1>5, <1>6, <1>7 DEF PaymentInv, OneCommission

LEMMA PaymentInvariant == Spec => []PaymentInv
<1>1. Init => PaymentInv
  BY DEF Init, PaymentInv, PaymentOf, MailMarked, OneReceiptMail, OneCommission, NoOrder
<1>2. TypeOK /\ InHand /\ PaymentInv /\ [Next]_vars => PaymentInv'
  <2> SUFFICES ASSUME TypeOK, InHand, PaymentInv, [Next]_vars
               PROVE  PaymentInv'
    OBVIOUS
  <2>1. CASE UNCHANGED vars
    BY <2>1 DEF PaymentInv, PaymentOf, MailMarked, OneReceiptMail, OneCommission, vars, tables, session
  <2>2. CASE \E r \in Requests : Act(r)
    BY <2>2, PaymentStepCommit, PaymentStepOther
  <2> QED
    BY <2>1, <2>2 DEF Next, Act, Quiet
<1> QED
  BY <1>1, <1>2, TypeCorrect, PTL DEF Spec

\* The receipt of an order is emailed at most once, whatever requests confirm
\* its payment at the same time, cancel it, or die half-way
\* (receipt_to_send, app/services/order_emails.py).
THEOREM ReceiptMailedOnce == Spec => []OneReceiptMail
  BY PaymentInvariant, PTL DEF PaymentInv

\* At most one commission is ever recorded for an order
\* (mark_order_as_paid and the unique order_id of order_commissions).
THEOREM CommissionDueOnce == Spec => []OneCommission
  BY PaymentInvariant, PTL DEF PaymentInv

-----------------------------------------------------------------------------
(* Who is where: a place on a path belongs to one kind of request, and a   *)
(* request that is over is over for good.                                  *)

PlaceOf(r) ==
    /\ pc[r] \in Creating   => Role[r] \in CreatorRoles
    /\ pc[r] \in Paying     => Role[r] = "payer"
    /\ pc[r] \in Cancelling => Role[r] = "canceller"
    /\ pc[r] \in Delivering => Role[r] = "courier"

Places == \A r \in Requests : PlaceOf(r)

\* Where the step of r starts and ends.
LEMMA Paths ==
    ASSUME TypeOK, NEW r \in Requests, Act(r)
    PROVE  /\ Ask(r) => pc[r] = "idle"
           /\ ~ Ask(r) => pc[r] \in Busy \cup {"mailing"}
           /\ pc[r] = "mailing" => pc'[r] \in Over
           /\ pc'[r] # "idle"
<1> DEFINE Going == pc[r] \in Busy /\ pc'[r] # "idle"
<1>1. ASSUME Ask(r)
      PROVE  pc[r] = "idle" /\ pc'[r] # "idle"
  <2>1. CASE AskOrder(r) \/ ValidateCart(r)
    BY <2>1 DEF TypeOK, AskOrder, ValidateCart, Basket, Arrives, Goto
  <2>2. CASE AskPayment(r) \/ AskCancel(r)
    BY <2>2 DEF TypeOK, AskPayment, AskCancel, Arrives, Refused, Close, Goto
  <2>3. CASE AskDelivery(r)
    <3>1. pc[r] = "idle" /\ \E label \in {"moved", "moving"} : Goto(r, label)
      BY <2>3 DEF AskDelivery, Arrives
    <3> QED
      BY <3>1 DEF TypeOK, Goto
  <2> QED
    BY <1>1, <2>1, <2>2, <2>3 DEF Ask
<1>2. ASSUME ReserveLine(r)
      PROVE  Going
  <2>1. pc[r] = "lines" /\ \E label \in {"lines", "insert"} : Goto(r, label)
    BY <1>2 DEF ReserveLine, Line
  <2> QED
    BY <2>1 DEF TypeOK, Goto, Busy
<1>3. ASSUME RefuseLine(r) \/ FlushRow(r) \/ ReadProducts(r) \/ TellCancelled(r) \/ FlushDelivery(r)
               \/ FlushPayment(r) \/ SendReceipt(r)
      PROVE  Going
  BY <1>3 DEF TypeOK, RefuseLine, Line, FlushRow, ReadProducts, TellCancelled, FlushDelivery, FlushPayment,
              SendReceipt, Goto, Busy
<1>4. ASSUME ReadDelivery(r) \/ CommitPayment(r) \/ NotifyDelivery(r) \/ CommissionTwice(r)
      PROVE  Going
  BY <1>4 DEF TypeOK, ReadDelivery, CommitPayment, NotifyDelivery, CommissionTwice, Close, Goto, Busy
<1>5. ASSUME CommitOrder(r) \/ RefuseDashboard(r) \/ RefuseInChat(r) \/ CommitCancel(r) \/ CommitDelivery(r)
      PROVE  Going
  BY <1>5 DEF TypeOK, CommitOrder, RefuseDashboard, RefuseInChat, CommitCancel, CommitDelivery, Close, Goto, Busy
<1>6. ASSUME MailReceipt(r) \/ Crash(r) \/ DeadlockVictim(r)
      PROVE  pc[r] \in Busy \cup {"mailing"} /\ pc'[r] \in Over
  <2>1. DeadlockVictim(r) => pc[r] \in Busy
    BY DEF DeadlockVictim, Deadlocked, AsksFor, Busy
  <2> QED
    BY <1>6, <2>1 DEF TypeOK, MailReceipt, DeadlockVictim, Crash, Rollback, Close, Goto, Over
<1> QED
  BY <1>1, <1>2, <1>3, <1>4, <1>5, <1>6 DEF Act, Serve, Busy, Over

LEMMA PlacesStep ==
    ASSUME TypeOK, Places, NEW r \in Requests, Act(r)
    PROVE  Places'
<1> SUFFICES PlaceOf(r)'
  BY OthersUntouched DEF Places, PlaceOf
<1> PlaceOf(r)
  BY DEF Places
<1> USE DEF PlaceOf, Creating, Paying, Cancelling, Delivering
<1>1. CASE pc'[r] \in Over
  BY <1>1 DEF Over
<1>2. CASE Ask(r)
  <2>1. CASE AskOrder(r) \/ ValidateCart(r)
    BY <2>1 DEF TypeOK, AskOrder, ValidateCart, Basket, Arrives, Goto, CreatorRoles
  <2>2. CASE AskPayment(r) \/ AskCancel(r)
    BY <2>2 DEF TypeOK, AskPayment, AskCancel, Arrives, Refused, Close, Goto
  <2>3. CASE AskDelivery(r)
    <3>1. Role[r] = "courier" /\ \E label \in {"moved", "moving"} : Goto(r, label)
      BY <2>3 DEF AskDelivery, Arrives
    <3> QED
      BY <3>1 DEF TypeOK, Goto
  <2> QED
    BY <1>2, <2>1, <2>2, <2>3 DEF Ask
<1>3. CASE ReserveLine(r)
  <2>1. pc[r] = "lines" /\ \E label \in {"lines", "insert"} : Goto(r, label)
    BY <1>3 DEF ReserveLine, Line
  <2> QED
    BY <2>1 DEF TypeOK, Goto
<1>4. CASE RefuseLine(r) \/ FlushRow(r) \/ ReadDelivery(r) \/ ReadProducts(r) \/ TellCancelled(r) \/ FlushDelivery(r)
  BY <1>4 DEF TypeOK, RefuseLine, Line, FlushRow, ReadDelivery, ReadProducts, TellCancelled, FlushDelivery, Close, Goto
<1>5. CASE FlushPayment(r) \/ SendReceipt(r) \/ CommitPayment(r) \/ NotifyDelivery(r)
  BY <1>5 DEF TypeOK, FlushPayment, SendReceipt, CommitPayment, NotifyDelivery, Close, Goto
<1>6. CASE CommitOrder(r) \/ RefuseDashboard(r) \/ RefuseInChat(r) \/ CommissionTwice(r) \/ MailReceipt(r)
             \/ CommitCancel(r) \/ CommitDelivery(r) \/ DeadlockVictim(r) \/ Crash(r)
  BY <1>6 DEF TypeOK, CommitOrder, RefuseDashboard, RefuseInChat, CommissionTwice, MailReceipt, CommitCancel,
              CommitDelivery, DeadlockVictim, Crash, Rollback, Close, Goto
<1> QED
  BY <1>2, <1>3, <1>4, <1>5, <1>6 DEF Act, Serve

LEMMA PlacesInvariant == Spec => []Places
<1>1. Init => Places
  BY DEF Init, Places, PlaceOf, Creating, Paying, Cancelling, Delivering
<1>2. TypeOK /\ Places /\ [Next]_vars => Places'
  <2> SUFFICES ASSUME TypeOK, Places, [Next]_vars
               PROVE  Places'
    OBVIOUS
  <2>1. CASE UNCHANGED vars
    BY <2>1 DEF Places, PlaceOf, vars
  <2> QED
    BY <2>1, PlacesStep DEF Next, Act, Quiet
<1> QED
  BY <1>1, <1>2, TypeCorrect, PTL DEF Spec

-----------------------------------------------------------------------------
(* The sale, its commission and its receipt.                               *)

\* Whatever the crowd: an order that was paid for, and is not paid, was
\* cancelled since; only a payer without commission leaves none.
SaleOf(o) ==
    /\ commission[o] # {} => order[o].status \in {"PAID", "CANCELLED"}
    /\ order[o].status = "PAID" /\ commission[o] = {} =>
          \E r \in Requests \ Commissioned : Role[r] = "payer" /\ pc[r] \in Over \cup {"mailing"}
    /\ order[o].receiptMailed => order[o].status \in {"PAID", "CANCELLED"}

Sales == \A o \in Orders : SaleOf(o)

\* The three commits that write the status of an order.
LEMMA StatusWriters ==
    ASSUME TypeOK, InHand, NEW r \in Requests, Act(r)
    PROVE  /\ ~ CommitOrder(r) /\ ~ CommitPayment(r) /\ ~ CommitCancel(r) => order' = order
           /\ CommitOrder(r) =>
                /\ r \in Orders /\ order[r].status = "NONE" /\ order'[r].status = "PENDING"
                /\ \A o \in Orders : o # r => order'[o] = order[o]
           /\ CommitPayment(r) =>
                /\ target[r] \in Orders /\ order'[target[r]].status = "PAID"
                /\ \A o \in Orders : o # target[r] => order'[o] = order[o]
           /\ CommitCancel(r) =>
                /\ target[r] \in Orders /\ order'[target[r]].status = "CANCELLED"
                /\ \A o \in Orders : o # target[r] => order'[o] = order[o]
<1>1. ~ CommitOrder(r) /\ ~ CommitPayment(r) /\ ~ CommitCancel(r) => order' = order
  BY DEF Act, Ask, Serve, AskOrder, ValidateCart, Basket, AskPayment, AskCancel, AskDelivery, ReserveLine, RefuseLine,
         RefuseDashboard, RefuseInChat, FlushPayment, CommissionTwice, SendReceipt, MailReceipt, ReadDelivery,
         ReadProducts, FlushRow, TellCancelled, FlushDelivery, NotifyDelivery, CommitDelivery, DeadlockVictim,
         Crash, Rollback, tables
<1>2. CASE CommitOrder(r)
  BY <1>2, <1>1 DEF TypeOK, InHand, InHandOf, Creating, CommitOrder, CommitPayment, CommitCancel
<1>3. CASE CommitPayment(r)
  <2>1. target[r] \in Orders /\ order[target[r]] \in OrderData
    BY <1>3 DEF TypeOK, InHand, InHandOf, Paying, CommitPayment
  <2> QED
    BY <1>3, <2>1 DEF TypeOK, OrderData, CommitOrder, CommitPayment, CommitCancel
<1>4. CASE CommitCancel(r)
  <2>1. target[r] \in Orders /\ order[target[r]] \in OrderData
    BY <1>4 DEF TypeOK, InHand, InHandOf, Cancelling, CommitCancel
  <2> QED
    BY <1>4, <2>1 DEF TypeOK, OrderData, CommitOrder, CommitPayment, CommitCancel
<1> QED
  BY <1>1, <1>2, <1>3, <1>4

LEMMA SalesStep ==
    ASSUME TypeOK, InHand, Places, Sales, NEW r \in Requests, Act(r)
    PROVE  Sales'
<1> SUFFICES ASSUME NEW o \in Orders
             PROVE  SaleOf(o)'
  BY DEF Sales
<1> SaleOf(o)
  BY DEF Sales
\* A payer that is over stays over.
<1>1. ASSUME NEW q \in Requests, pc[q] \in Over \cup {"mailing"}
      PROVE  pc'[q] \in Over \cup {"mailing"}
  <2>1. CASE q # r
    BY <1>1, <2>1, OthersUntouched
  <2>2. CASE q = r
    BY <1>1, <2>2, Paths DEF Over, Busy
  <2> QED
    BY <2>1, <2>2
<1>2. CASE CommitPayment(r)
  <2>1. CASE o = target[r]
    <3>1. /\ order'[o].status = "PAID"
          /\ commission'[o] = IF r \in Commissioned THEN commission[o] \cup {r} ELSE commission[o]
          /\ pc[r] = "receipted" /\ pc'[r] \in {"mailing", "done"}
      BY <1>2, <2>1, StatusWriters, CommitPaymentEffect
    <3>2. commission'[o] = {} => r \notin Commissioned
      BY <3>1
    <3>3. Role[r] = "payer"
      BY <3>1 DEF Places, PlaceOf, Paying
    <3> QED
      BY <3>1, <3>2, <3>3 DEF SaleOf, Over
  <2>2. CASE o # target[r]
    BY ZenonT(40), <1>1, <1>2, <2>2, CommitPaymentEffect DEF SaleOf
  <2> QED
    BY <2>1, <2>2
<1>3. CASE CommitCancel(r)
  <2>1. commission' = commission
    BY <1>3 DEF CommitCancel
  <2>2. order'[o] = order[o] \/ order'[o].status = "CANCELLED"
    BY <1>3, StatusWriters
  <2> QED
    BY <1>1, <2>1, <2>2 DEF SaleOf
<1>4. CASE CommitOrder(r)
  <2>1. commission' = commission
    BY <1>4 DEF CommitOrder
  <2>2. CASE o = r
    <3>1. order[o].status = "NONE" /\ order'[o].status = "PENDING" /\ ~ order'[o].receiptMailed
      BY <1>4, <2>2, StatusWriters DEF TypeOK, CommitOrder
    <3> QED
      BY <2>1, <3>1 DEF SaleOf
  <2>3. CASE o # r
    BY <1>1, <1>4, <2>1, <2>3, StatusWriters DEF SaleOf
  <2> QED
    BY <2>2, <2>3
<1>5. CASE ~ CommitOrder(r) /\ ~ CommitPayment(r) /\ ~ CommitCancel(r)
  BY <1>1, <1>5, StatusWriters, PaymentFrame DEF SaleOf
<1> QED
  BY <1>2, <1>3, <1>4, <1>5

LEMMA SalesInvariant == Spec => []Sales
<1>1. Init => Sales
  BY DEF Init, Sales, SaleOf, NoOrder
<1>2. TypeOK /\ InHand /\ Places /\ Sales /\ [Next]_vars => Sales'
  <2> SUFFICES ASSUME TypeOK, InHand, Places, Sales, [Next]_vars
               PROVE  Sales'
    OBVIOUS
  <2>1. CASE UNCHANGED vars
    BY <2>1 DEF Sales, SaleOf, vars, tables
  <2> QED
    BY <2>1, SalesStep DEF Next, Act, Quiet
<1> QED
  BY <1>1, <1>2, TypeCorrect, PlacesInvariant, PTL DEF Spec

\* While no order is cancelled, a sale, its commission and the email of its
\* receipt stand or fall together, whoever confirms the payments at the same
\* time and whichever request dies (mark_order_as_paid and receipt_to_send).
THEOREM SaleStandsOrFalls ==
    Spec => []((\A o \in Orders : order[o].status # "CANCELLED") => SaleIsWhole)
<1>1. TypeOK /\ Sales /\ PaymentInv /\ (\A o \in Orders : order[o].status # "CANCELLED") => SaleIsWhole
  BY DEF Sales, SaleOf, PaymentInv, MailMarked, SaleIsWhole
<1> QED
  BY <1>1, TypeCorrect, SalesInvariant, PaymentInvariant, PTL

-----------------------------------------------------------------------------
(* The concurrent book is a ledger.                                        *)

\* Crowds no request of which works on a copy that went stale: the dashboard
\* creates, payers and couriers go on, all at once; or any of them and the
\* cancellers, one session at a time.
Orderly == \A r \in Requests : Role[r] \in {"dashboard", "payer", "courier"}
Serial  == MaxOpen <= 1 /\ \A r \in Requests : Role[r] \in {"dashboard", "payer", "courier", "canceller"}

Alone == \A q, r \in Requests : pc[q] \in Busy /\ pc[r] \in Busy => q = r
Apart == Orderly \/ (Serial /\ Alone)

LEMMA NobodyElseInHand ==
    ASSUME TypeOK, Alone, MaxOpen <= 1, NEW r \in Requests, Ask(r), NEW q \in Requests
    PROVE  pc[q] \notin Busy
<1> DEFINE InHandNow == {u \in Requests : pc[u] \in Busy}
<1>1. Cardinality(InHandNow) < MaxOpen
  BY DEF Ask, AskOrder, ValidateCart, AskPayment, AskCancel, AskDelivery, Arrives
<1>2. IsFiniteSet(InHandNow)
  BY RequestsAssumption, FS_Subset
<1>3. Cardinality(InHandNow) \in Nat
  BY <1>2, FS_CardinalityType
<1>4. Cardinality(InHandNow) = 0
  <2> HIDE DEF InHandNow
  <2> QED
    BY <1>1, <1>3, RequestsAssumption
<1>5. InHandNow = {}
  BY <1>2, <1>4, FS_EmptySet
<1> QED
  BY <1>5

LEMMA AloneStep ==
    ASSUME TypeOK, Alone, MaxOpen <= 1, NEW r \in Requests, Act(r)
    PROVE  Alone'
<1>1. \A q \in Requests : q # r => pc'[q] = pc[q]
  BY OthersUntouched
<1>2. CASE Ask(r)
  BY <1>1, <1>2, NobodyElseInHand DEF Alone
<1>3. CASE ~ Ask(r)
  <2>1. pc'[r] \in Busy => pc[r] \in Busy
    BY <1>3, Paths DEF Over, Busy
  <2> QED
    BY <1>1, <2>1 DEF Alone
<1> QED
  BY <1>2, <1>3

LEMMA AloneInvariant == MaxOpen <= 1 => (Spec => []Alone)
<1> SUFFICES ASSUME MaxOpen <= 1
             PROVE  Spec => []Alone
  OBVIOUS
<1>1. Init => Alone
  BY DEF Init, Alone, Busy
<1>2. TypeOK /\ Alone /\ [Next]_vars => Alone'
  <2> SUFFICES ASSUME TypeOK, Alone, [Next]_vars
               PROVE  Alone'
    OBVIOUS
  <2>1. CASE UNCHANGED vars
    BY <2>1 DEF Alone, vars
  <2> QED
    BY <2>1, AloneStep DEF Next, Act, Quiet
<1> QED
  BY <1>1, <1>2, TypeCorrect, PTL DEF Spec

\* What a creating request has reserved is locked, and is the shelf's row less
\* its own units; what it still asks for is of its basket, and not loaded.
ReservedFrom(r) ==
    /\ pc[r] = "idle" => seen[r] = Unloaded
    /\ pc[r] \in Creating =>
          /\ \A p \in Taken(r) : /\ lock[ProductRow(p)] = r
                                 /\ Enough(p, product[p], items[r][p])
                                 /\ seen[r][p] = Reserve(p, product[p], items[r][p])
          /\ \A p \in Products \ Taken(r) : seen[r][p] = NotLoaded
          /\ \A p \in Products : ProductRow(p) \in todo[r] => items[r][p] > 0
    /\ pc[r] = "lines" => next[r] \in todo[r]
    /\ pc[r] = "insert" => todo[r] = {}

\* A cancelling request has the order, the delivery and the rows as they are.
GivesBackTo(r) ==
    LET o == target[r] IN
    /\ pc[r] \in Cancelling => order[o].status = "PENDING"
    /\ pc[r] \in Cancelling \ {"reading"} => slip[r] = delivery[o] /\ slip[r].status \notin AlreadyLeft
    /\ pc[r] \in {"writing", "cancelled", "told"} =>
          \A p \in GivenBack(o) : seen[r][p] = Restock(p, product[p], order[o].items[p])

CopyIsTrue(r) ==
    /\ ReservedFrom(r)
    /\ GivesBackTo(r)
    /\ pc[r] \in {"paying", "paid", "receipted"} => order[target[r]].status \in {"PENDING", "PAID"}
    /\ pc[r] \in Delivering => slip[r].status # "NONE"

CopiesAreTrue == \A r \in Requests : CopyIsTrue(r)

\* Who writes the rows of the shelf.
LEMMA ShelfWriters ==
    ASSUME NEW r \in Requests, Act(r)
    PROVE  \/ product' = product
           \/ CommitOrder(r) \/ RefuseInChat(r) \/ CommitCancel(r)
  BY DEF Act, Ask, Serve, AskOrder, ValidateCart, Basket, AskPayment, AskCancel, AskDelivery, ReserveLine, RefuseLine,
         RefuseDashboard, FlushPayment, CommissionTwice, SendReceipt, CommitPayment, MailReceipt, ReadDelivery,
         ReadProducts, FlushRow, TellCancelled, FlushDelivery, NotifyDelivery, CommitDelivery, DeadlockVictim,
         Crash, Rollback, tables

LEMMA ParcelWriters ==
    ASSUME NEW r \in Requests, Act(r)
    PROVE  delivery' = delivery \/ CommitOrder(r) \/ CommitCancel(r) \/ CommitDelivery(r)
  BY DEF Act, Ask, Serve, AskOrder, ValidateCart, Basket, AskPayment, AskCancel, AskDelivery, ReserveLine, RefuseLine,
         RefuseDashboard, RefuseInChat, FlushPayment, CommissionTwice, SendReceipt, CommitPayment, MailReceipt,
         ReadDelivery, ReadProducts, FlushRow, TellCancelled, FlushDelivery, NotifyDelivery, DeadlockVictim,
         Crash, Rollback, tables

\* Nobody refuses in a chat; nobody cancels beside another; beside one who
\* cancels, nobody writes.
LEMMA ApartActs ==
    ASSUME TypeOK, Apart, Places, NEW r \in Requests, Act(r)
    PROVE  /\ ~ RefuseInChat(r) /\ ~ ValidateCart(r)
           /\ \A q \in Requests : q # r /\ pc[q] \in Busy =>
                 /\ ~ CommitCancel(r)
                 /\ pc[q] \in Cancelling => UNCHANGED <<product, order, delivery>>
<1>1. ~ RefuseInChat(r) /\ ~ ValidateCart(r)
  BY DEF Apart, Orderly, Serial, RefuseInChat, ValidateCart, Arrives
<1>2. CommitCancel(r) => pc[r] \in Busy /\ Role[r] = "canceller"
  BY DEF CommitCancel, Busy, Places, PlaceOf, Cancelling
<1>3. CommitOrder(r) => pc[r] \in Busy
  BY DEF CommitOrder, Busy
<1>4. CommitPayment(r) => pc[r] \in Busy
  BY DEF CommitPayment, Busy
<1>5. CommitDelivery(r) => pc[r] \in Busy
  BY DEF CommitDelivery, Busy
<1> SUFFICES ASSUME NEW q \in Requests, q # r, pc[q] \in Busy
             PROVE  /\ ~ CommitCancel(r)
                    /\ pc[q] \in Cancelling => UNCHANGED <<product, order, delivery>>
  BY <1>1
<1>6. CASE Orderly
  <2>1. pc[q] \notin Cancelling
    BY <1>6 DEF Orderly, Places, PlaceOf
  <2> QED
    BY <1>2, <1>6, <2>1 DEF Orderly
<1>7. CASE Alone
  <2>1. pc[r] \notin Busy
    BY <1>7 DEF Alone
  <2>2. order' = order \/ CommitOrder(r) \/ CommitPayment(r) \/ CommitCancel(r)
    BY DEF Act, Ask, Serve, AskOrder, ValidateCart, Basket, AskPayment, AskCancel, AskDelivery, ReserveLine, RefuseLine,
           RefuseDashboard, RefuseInChat, FlushPayment, CommissionTwice, SendReceipt, MailReceipt, ReadDelivery,
           ReadProducts, FlushRow, TellCancelled, FlushDelivery, NotifyDelivery, CommitDelivery, DeadlockVictim,
           Crash, Rollback, tables
  <2> QED
    BY <1>1, <1>2, <1>3, <1>4, <1>5, <2>1, <2>2, ShelfWriters, ParcelWriters
<1> QED
  BY <1>6, <1>7 DEF Apart

\* A row that q holds is changed by q only.
LEMMA HeldRowsStay ==
    ASSUME TypeOK, Apart, Places, CopiesAreTrue, NEW r \in Requests, Act(r),
           NEW q \in Requests, q # r, pc[q] \in Busy, NEW p \in Products, lock[ProductRow(p)] = q
    PROVE  product'[p] = product[p]
<1>1. ~ RefuseInChat(r) /\ ~ CommitCancel(r)
  BY ApartActs
<1>2. CASE CommitOrder(r)
  <2>1. pc[r] \in Creating /\ ReservedFrom(r)
    BY <1>2 DEF CommitOrder, Creating, CopiesAreTrue, CopyIsTrue
  <2>2. p \notin Reserved(r)
    BY <2>1 DEF ReservedFrom, Reserved, Taken
  <2> QED
    BY <1>2, <2>2 DEF TypeOK, CommitOrder, WriteBack
<1> QED
  BY <1>1, <1>2, ShelfWriters

\* The copies of the others stay true.
LEMMA CopiesOfOthers ==
    ASSUME TypeOK, InHand, Places, Apart, CopiesAreTrue, NEW r \in Requests, Act(r),
           NEW q \in Requests, q # r
    PROVE  CopyIsTrue(q)'
<1>1. /\ pc'[q] = pc[q] /\ target'[q] = target[q] /\ items'[q] = items[q]
      /\ todo'[q] = todo[q] /\ seen'[q] = seen[q] /\ slip'[q] = slip[q]
      /\ \A w \in Rows : lock[w] = q <=> lock'[w] = q
  BY OthersUntouched
<1>2. next'[q] = next[q]
  <2>1. next' = next \/ \E w : next' = [next EXCEPT ![r] = w]
    BY DEF Act, Ask, Serve, AskOrder, ValidateCart, Basket, AskPayment, AskCancel, AskDelivery, Refused, ReserveLine,
           RefuseLine, CommitOrder, RefuseDashboard, RefuseInChat, FlushPayment, CommissionTwice, SendReceipt,
           CommitPayment, MailReceipt, ReadDelivery, ReadProducts, FlushRow, TellCancelled, CommitCancel, FlushDelivery,
           NotifyDelivery, CommitDelivery, DeadlockVictim, Crash, Rollback, AskNext, Close, session
  <2> QED
    BY <2>1 DEF TypeOK
<1>3. CopyIsTrue(q) /\ InHandOf(q) /\ PlaceOf(q)
  BY DEF CopiesAreTrue, InHand, Places
<1>4. Taken(q)' = Taken(q)
  BY <1>1 DEF Taken
<1>5. ReservedFrom(q)'
  <2>1. CASE pc[q] \in Creating
    <3>1. pc[q] \in Busy
      BY <2>1 DEF Creating, Busy
    <3>2. \A p \in Taken(q) : lock'[ProductRow(p)] = q /\ product'[p] = product[p]
      BY <1>1, <1>3, <2>1, <3>1, RowsFacts, HeldRowsStay DEF CopyIsTrue, ReservedFrom, Taken
    <3> QED
      BY <1>1, <1>2, <1>3, <1>4, <2>1, <3>2 DEF CopyIsTrue, ReservedFrom, Creating
  <2>2. CASE pc[q] \notin Creating
    BY <1>1, <1>3, <2>2 DEF CopyIsTrue, ReservedFrom, Creating
  <2> QED
    BY <2>1, <2>2
<1>6. GivesBackTo(q)'
  <2>1. CASE pc[q] \in Cancelling
    <3>1. UNCHANGED <<product, order, delivery>>
      BY <2>1, ApartActs DEF Cancelling, Busy
    <3>2. GivenBack(target[q])' = GivenBack(target[q])
      BY <1>1, <3>1 DEF GivenBack
    <3> QED
      BY <1>1, <1>3, <3>1, <3>2 DEF CopyIsTrue, GivesBackTo
  <2>2. CASE pc[q] \notin Cancelling
    BY <1>1, <2>2 DEF GivesBackTo, Cancelling
  <2> QED
    BY <2>1, <2>2
<1>7. pc'[q] \in {"paying", "paid", "receipted"} => order'[target'[q]].status \in {"PENDING", "PAID"}
  <2> SUFFICES ASSUME pc[q] \in {"paying", "paid", "receipted"}
               PROVE  order'[target[q]].status \in {"PENDING", "PAID"}
    BY <1>1
  <2>1. target[q] \in Orders /\ order[target[q]].status \in {"PENDING", "PAID"} /\ pc[q] \in Busy
    BY <1>3 DEF InHandOf, Paying, CopyIsTrue, Busy
  <2>2. ~ CommitCancel(r)
    BY <2>1, ApartActs
  <2> QED
    BY <2>1, <2>2, StatusWriters
<1>8. pc'[q] \in Delivering => slip'[q].status # "NONE"
  BY <1>1, <1>3 DEF CopyIsTrue
<1> QED
  BY <1>5, <1>6, <1>7, <1>8 DEF CopyIsTrue

\* A product of the basket is reserved from the shelf as it is, under its lock.
LEMMA ReserveFromShelf ==
    ASSUME TypeOK, InHand, CopiesAreTrue, NEW r \in Requests, ReserveLine(r)
    PROVE  ReservedFrom(r)'
<1>1. PICK p \in Products :
        /\ Line(r, p)
        /\ Enough(p, Locked(r, p), items[r][p])
        /\ seen' = [seen EXCEPT ![r][p] = Reserve(p, Locked(r, p), items[r][p])]
        /\ AskNext(r, todo[r] \ {ProductRow(p)})
        /\ Goto(r, IF todo[r] = {ProductRow(p)} THEN "insert" ELSE "lines")
  BY DEF ReserveLine
<1>2. ReservedFrom(r) /\ pc[r] = "lines" /\ next[r] = ProductRow(p)
  BY <1>1 DEF Line, CopiesAreTrue, CopyIsTrue
<1>3. ProductRow(p) \in todo[r] /\ items[r][p] > 0 /\ p \notin Taken(r)
  BY <1>2 DEF ReservedFrom, Creating, Taken
<1>4. Locked(r, p) = product[p]
  BY <1>2, <1>3 DEF ReservedFrom, Creating, Locked
<1>5. items' = items /\ product' = product
  BY DEF ReserveLine, tables
<1>6. todo'[r] = todo[r] \ {ProductRow(p)}
  BY <1>1 DEF TypeOK, AskNext
<1>7. \A u \in Products : u \in Taken(r)' <=> u = p \/ u \in Taken(r)
  BY <1>3, <1>5, <1>6, ProductRowInjective DEF Taken
<1>8. \A u \in Products : seen'[r][u] = IF u = p THEN Reserve(p, product[p], items[r][p]) ELSE seen[r][u]
  BY <1>1, <1>4 DEF TypeOK
<1>9. /\ lock'[ProductRow(p)] = r
      /\ \A w \in Rows : lock[w] = r => lock'[w] = r
  BY <1>1, RowsFacts DEF TypeOK, Line, Acquire
<1>10. \A u \in Products :
         IF u \in Taken(r)'
           THEN lock'[ProductRow(u)] = r /\ Enough(u, product[u], items[r][u])
                  /\ seen'[r][u] = Reserve(u, product[u], items[r][u])
           ELSE seen'[r][u] = NotLoaded
  <2> SUFFICES ASSUME NEW u \in Products
               PROVE  IF u \in Taken(r)'
                        THEN lock'[ProductRow(u)] = r /\ Enough(u, product[u], items[r][u])
                               /\ seen'[r][u] = Reserve(u, product[u], items[r][u])
                        ELSE seen'[r][u] = NotLoaded
    OBVIOUS
  <2>1. CASE u = p
    BY <1>1, <1>4, <1>7, <1>8, <1>9, <2>1
  <2>2. CASE u # p
    BY <1>2, <1>7, <1>8, <1>9, <2>2, RowsFacts DEF ReservedFrom, Creating
  <2> QED
    BY <2>1, <2>2
<1>11. Taken(r)' \subseteq Products
  BY DEF Taken
<1>12. \A u \in Products : ProductRow(u) \in todo'[r] => items[r][u] > 0
  BY <1>2, <1>6 DEF ReservedFrom, Creating
<1>13. CASE todo[r] = {ProductRow(p)}
  <2>1. pc'[r] = "insert" /\ todo'[r] = {}
    BY <1>1, <1>6, <1>13 DEF TypeOK, Goto
  <2> QED
    BY <1>5, <1>10, <1>11, <1>12, <2>1 DEF ReservedFrom
<1>14. CASE todo[r] # {ProductRow(p)}
  <2>1. todo[r] \ {ProductRow(p)} # {}
    BY <1>3, <1>14
  <2>2. next'[r] \in todo'[r] /\ pc'[r] = "lines"
    BY <1>1, <1>6, <1>14, <2>1 DEF TypeOK, AskNext, Goto
  <2> QED
    BY <1>5, <1>10, <1>11, <1>12, <2>2 DEF ReservedFrom
<1> QED
  BY <1>13, <1>14

LEMMA BasketBegins ==
    ASSUME TypeOK, CopiesAreTrue, NEW r \in Requests, AskOrder(r)
    PROVE  CopyIsTrue(r)'
<1>1. PICK basket \in Baskets : Basket(r, basket)
  BY DEF AskOrder
<1>2. pc[r] = "idle" /\ seen' = seen /\ seen[r] = Unloaded
  BY DEF AskOrder, Arrives, CopiesAreTrue, CopyIsTrue, ReservedFrom
<1> DEFINE rows == {ProductRow(p) : p \in {q \in Products : basket[q] > 0}}
<1>3. todo'[r] = rows /\ items'[r] = basket /\ pc'[r] = "lines"
  BY <1>1 DEF TypeOK, Basket, AskNext, Goto
<1>4. rows # {}
  <2>1. basket \in [Products -> Nat] /\ basket # NoItems
    BY RequestsAssumption
  <2>2. PICK p \in Products : basket[p] # 0
    BY <2>1 DEF NoItems
  <2> QED
    BY <2>1, <2>2
<1>5. next'[r] \in rows
  BY <1>1, <1>4 DEF TypeOK, Basket, AskNext
<1>6. Taken(r)' = {}
  BY <1>3 DEF Taken
<1>7. \A p \in Products : seen'[r][p] = NotLoaded
  BY <1>2 DEF Unloaded
<1>8. \A p \in Products : ProductRow(p) \in rows => basket[p] > 0
  BY ProductRowInjective
<1> HIDE DEF rows
<1> QED
  BY <1>3, <1>5, <1>6, <1>7, <1>8 DEF CopyIsTrue, ReservedFrom, GivesBackTo, Cancelling, Delivering

\* The copies of r itself.
LEMMA CopiesOwn ==
    ASSUME TypeOK, InHand, Places, Apart, CopiesAreTrue, NEW r \in Requests, Act(r)
    PROVE  CopyIsTrue(r)'
<1> CopyIsTrue(r) /\ InHandOf(r) /\ PlaceOf(r)
  BY DEF CopiesAreTrue, InHand, Places
<1>1. CASE pc'[r] \in Over
  BY <1>1 DEF CopyIsTrue, ReservedFrom, GivesBackTo, Creating, Cancelling, Delivering, Over
<1>2. CASE AskOrder(r)
  BY <1>2, BasketBegins
<1>3. CASE (AskPayment(r) \/ AskCancel(r)) /\ pc'[r] \notin Over
  <2>1. PICK o \in Orders : order[o].status = "PENDING" /\ About(r, o)
    BY <1>3 DEF TypeOK, AskPayment, AskCancel, Refused, Close, Goto, Over
  <2>2. pc'[r] \in {"paying", "reading"} /\ order' = order /\ target'[r] = o
    BY ZenonT(40), <1>3, <2>1 DEF TypeOK, AskPayment, AskCancel, Refused, About, Close, Goto, Over, tables
  <2> QED
    BY <2>1, <2>2 DEF CopyIsTrue, ReservedFrom, GivesBackTo, Creating, Cancelling, Delivering
<1>4. CASE AskDelivery(r)
  <2>1. PICK o \in Orders, status \in ParcelStatus \ {"NONE"} :
          /\ slip' = [slip EXCEPT ![r] = [delivery[o] EXCEPT !.status = status]]
          /\ Goto(r, IF status = delivery[o].status THEN "moved" ELSE "moving")
    BY <1>4 DEF AskDelivery
  <2>2. slip'[r].status = status
    BY <2>1 DEF TypeOK, DeliveryData
  <2>3. pc'[r] \in {"moved", "moving"}
    BY <2>1 DEF TypeOK, Goto
  <2> QED
    BY <2>2, <2>3 DEF CopyIsTrue, ReservedFrom, GivesBackTo, Creating, Cancelling
<1>5. CASE ReserveLine(r)
  <2>1. \E label \in {"lines", "insert"} : Goto(r, label)
    BY <1>5 DEF ReserveLine
  <2>2. pc'[r] \in {"lines", "insert"}
    BY <2>1 DEF TypeOK, Goto
  <2> QED
    BY <1>5, <2>2, ReserveFromShelf DEF CopyIsTrue, GivesBackTo, Cancelling, Delivering
<1>6. CASE RefuseLine(r)
  <2>1. /\ pc[r] = "lines" /\ pc'[r] = "refused" /\ UNCHANGED <<product, items, todo, seen>>
        /\ \A w \in Rows : lock[w] = r => lock'[w] = r
    BY <1>6 DEF TypeOK, RefuseLine, Line, Acquire, Goto, tables, session
  <2>2. Taken(r)' = Taken(r) /\ Taken(r) \subseteq Products
    BY <2>1 DEF Taken
  <2> QED
    BY <2>1, <2>2, RowsFacts DEF CopyIsTrue, ReservedFrom, GivesBackTo, Creating, Cancelling, Delivering
<1>7. CASE FlushPayment(r) \/ SendReceipt(r)
  <2>1. /\ pc[r] \in {"paying", "paid"} /\ pc'[r] \in {"paid", "receipted"} /\ UNCHANGED <<order, target>>
    BY <1>7 DEF TypeOK, FlushPayment, SendReceipt, Goto, tables, session
  <2> QED
    BY <2>1 DEF CopyIsTrue, ReservedFrom, GivesBackTo, Creating, Cancelling, Delivering
<1>8. CASE CommitPayment(r)
  <2>1. pc'[r] \in {"mailing", "done"}
    BY <1>8 DEF TypeOK, CommitPayment, Close, Goto
  <2> QED
    BY <2>1 DEF CopyIsTrue, ReservedFrom, GivesBackTo, Creating, Cancelling, Delivering
<1>9. CASE ReadDelivery(r) /\ pc'[r] \notin Over
  <2>1. /\ pc[r] = "reading" /\ pc'[r] = "restocking" /\ UNCHANGED <<order, delivery, target>>
        /\ slip'[r] = delivery[target[r]] /\ slip'[r].status \notin AlreadyLeft
    BY <1>9 DEF TypeOK, ReadDelivery, Close, Goto, Over, tables
  <2> QED
    BY <2>1 DEF CopyIsTrue, ReservedFrom, GivesBackTo, Creating, Cancelling, Delivering
<1>10. CASE ReadProducts(r)
  <2>1. pc[r] = "restocking" /\ pc'[r] = "writing" /\ UNCHANGED <<product, order, delivery, target, slip>>
    BY <1>10 DEF TypeOK, ReadProducts, Goto, tables
  <2>2. \A p \in GivenBack(target[r]) : seen'[r][p] = Restock(p, product[p], order[target[r]].items[p])
    BY <1>10 DEF TypeOK, ReadProducts, GivenBack
  <2>3. GivenBack(target[r])' = GivenBack(target[r])
    BY <2>1 DEF GivenBack
  <2> QED
    BY <2>1, <2>2, <2>3 DEF CopyIsTrue, ReservedFrom, GivesBackTo, Creating, Cancelling, Delivering
<1>11. CASE FlushRow(r) \/ TellCancelled(r)
  <2>1. /\ pc[r] \in {"writing", "cancelled"} /\ pc'[r] \in {"writing", "cancelled", "told"}
        /\ UNCHANGED <<product, order, delivery, target, slip, seen>>
    BY <1>11 DEF TypeOK, FlushRow, TellCancelled, Goto, tables, session
  <2>2. GivenBack(target[r])' = GivenBack(target[r])
    BY <2>1 DEF GivenBack
  <2> QED
    BY <2>1, <2>2 DEF CopyIsTrue, ReservedFrom, GivesBackTo, Creating, Cancelling, Delivering
<1>12. CASE FlushDelivery(r)
  <2>1. pc[r] = "moving" /\ pc'[r] = "moved" /\ slip' = slip
    BY <1>12 DEF TypeOK, FlushDelivery, Goto, session
  <2> QED
    BY <2>1 DEF CopyIsTrue, ReservedFrom, GivesBackTo, Creating, Cancelling, Delivering
<1>13. CASE NotifyDelivery(r) /\ pc'[r] \notin Over
  <2>1. pc[r] = "moved" /\ pc'[r] = "notified"
    BY <1>13 DEF TypeOK, NotifyDelivery, Close, Goto, Over
  <2>2. slip'[r].status = slip[r].status
    BY <1>13 DEF TypeOK, DeliveryData, NotifyDelivery, Close, Goto, Over, session
  <2> QED
    BY <2>1, <2>2 DEF CopyIsTrue, ReservedFrom, GivesBackTo, Creating, Cancelling, Delivering
<1>14. CASE \/ CommitOrder(r) \/ RefuseDashboard(r) \/ CommissionTwice(r) \/ MailReceipt(r)
            \/ CommitCancel(r) \/ CommitDelivery(r) \/ DeadlockVictim(r) \/ Crash(r)
  <2>1. pc'[r] \in Over
    BY <1>14 DEF TypeOK, CommitOrder, RefuseDashboard, CommissionTwice, MailReceipt, CommitCancel,
                 CommitDelivery, DeadlockVictim, Crash, Rollback, Close, Goto, Over
  <2> QED
    BY <1>1, <2>1
<1> QED
  BY <1>1, <1>2, <1>3, <1>4, <1>5, <1>6, <1>7, <1>8, <1>9, <1>10, <1>11, <1>12, <1>13, <1>14, ApartActs
     DEF Act, Ask, Serve

LEMMA CopiesInvariant == Orderly \/ Serial => (Spec => [](Apart /\ CopiesAreTrue))
<1> SUFFICES ASSUME Orderly \/ Serial
             PROVE  Spec => [](Apart /\ CopiesAreTrue)
  OBVIOUS
<1>1. Spec => []Apart
  <2>1. CASE Orderly
    <3>1. Apart
      BY <2>1 DEF Apart
    <3>2. TRUE => Apart'
      BY <2>1 DEF Apart, Orderly
    <3> QED
      BY <3>1, <3>2, PTL DEF Spec
  <2>2. CASE Serial
    <3>1. Spec => []Alone
      BY <2>2, AloneInvariant DEF Serial
    <3>2. Alone => Apart
      BY <2>2 DEF Apart
    <3> QED
      BY <3>1, <3>2, PTL
  <2> QED
    BY <2>1, <2>2
<1>2. Init => CopiesAreTrue
  BY DEF Init, CopiesAreTrue, CopyIsTrue, ReservedFrom, GivesBackTo, Creating, Cancelling, Delivering
<1>3. TypeOK /\ InHand /\ Places /\ Apart /\ CopiesAreTrue /\ [Next]_vars => CopiesAreTrue'
  <2> SUFFICES ASSUME TypeOK, InHand, Places, Apart, CopiesAreTrue, [Next]_vars
               PROVE  CopiesAreTrue'
    OBVIOUS
  <2>1. CASE UNCHANGED vars
    BY <2>1 DEF CopiesAreTrue, CopyIsTrue, ReservedFrom, GivesBackTo, Taken, GivenBack, vars, tables, session
  <2>2. ASSUME NEW r \in Requests, Act(r)
        PROVE  CopiesAreTrue'
    BY <2>2, CopiesOwn, CopiesOfOthers DEF CopiesAreTrue
  <2> QED
    BY <2>1, <2>2 DEF Next, Act, Quiet
<1> QED
  BY <1>1, <1>2, <1>3, TypeCorrect, PlacesInvariant, PTL DEF Spec

-----------------------------------------------------------------------------
\* The rows of the ledger are the rows of the orders.
LEMMA SameRows ==
    ASSUME NEW p, NEW row, NEW q
    PROVE  /\ Ledger!Enough(p, row, q) <=> Enough(p, row, q)
           /\ Ledger!Reserve(p, row, q) = Reserve(p, row, q)
           /\ Ledger!Restock(p, row, q) = Restock(p, row, q)
  BY DEF Ledger!Enough, Ledger!Available, Ledger!Reserve, Ledger!Restock, Ledger!Less,
         Enough, Available, Reserve, Restock, Less

LEMMA LedgerStarts == Init => Ledger!LedgerInit
  BY DEF Init, NoOrder, NoParcel, NoItems, Ledger!LedgerInit, Ledger!NoOrder, Ledger!NoItems

LEMMA CreateStep ==
    ASSUME TypeOK, InHand, CopiesAreTrue, NEW r \in Requests, CommitOrder(r),
           NEW basket, basket = items[r]
    PROVE  Ledger!Create(r, basket)
<1> DEFINE book == [o \in Orders |-> [status |-> order[o].status, items |-> order[o].items]]
           parcel == [o \in Orders |-> delivery[o].status]
<1>1. /\ pc[r] = "insert" /\ r \in Orders /\ order[r].status = "NONE" /\ items[r] \in Baskets
      /\ ReservedFrom(r)
  BY DEF CommitOrder, InHand, InHandOf, Creating, CopiesAreTrue, CopyIsTrue
<1>2. \A p \in Products : items[r][p] > 0 =>
         Enough(p, product[p], items[r][p]) /\ seen[r][p] = Reserve(p, product[p], items[r][p])
  BY <1>1 DEF ReservedFrom, Creating, Taken
<1>3. \A p \in Products : p \in Reserved(r) <=> p \notin Dishes /\ items[r][p] > 0
  BY <1>1 DEF ReservedFrom, Reserved
<1>4. \A p \in Dishes : Reserve(p, product[p], items[r][p]) = product[p]
  BY KindAssumption DEF Reserve
<1>5. product' = [p \in Products |-> IF items[r][p] > 0 THEN Reserve(p, product[p], items[r][p]) ELSE product[p]]
  BY <1>2, <1>3, <1>4 DEF CommitOrder, WriteBack
<1>6. order' = [order EXCEPT ![r] = [status |-> "PENDING", items |-> items[r], receiptMailed |-> FALSE]]
  BY DEF CommitOrder
<1>7. /\ delivery'[r].status = "PENDING"
      /\ \A o \in Orders : o # r => delivery'[o] = delivery[o]
  <2>1. [NoParcel EXCEPT !.status = "PENDING"].status = "PENDING"
    BY DEF NoParcel
  <2> QED
    BY <1>1, <2>1 DEF TypeOK, CommitOrder
<1>8. book[r].status = "NONE" /\ book' = [book EXCEPT ![r] = [status |-> "PENDING", items |-> basket]]
  BY <1>1, <1>6 DEF TypeOK
<1>9. parcel' = [parcel EXCEPT ![r] = "PENDING"]
  BY <1>1, <1>7 DEF TypeOK
<1>10. \A p \in Products : basket[p] > 0 => Ledger!Enough(p, product[p], basket[p])
  BY <1>2, SameRows
<1>11. product' = [p \in Products |->
                     IF basket[p] > 0 THEN Ledger!Reserve(p, product[p], basket[p]) ELSE product[p]]
  BY <1>5, SameRows
<1> QED
  BY <1>8, <1>9, <1>10, <1>11 DEF Ledger!Create

LEMMA PaidStep ==
    ASSUME TypeOK, InHand, CopiesAreTrue, NEW r \in Requests, CommitPayment(r),
           NEW t \in Orders, t = target[r]
    PROVE  Ledger!MarkPaid(t) \/ UNCHANGED Ledger!ledgerVars
<1> DEFINE book == [o \in Orders |-> [status |-> order[o].status, items |-> order[o].items]]
           parcel == [o \in Orders |-> delivery[o].status]
<1>1. order[t] \in OrderData /\ order[t].status \in {"PENDING", "PAID"}
  BY DEF CommitPayment, TypeOK, InHand, InHandOf, Paying, CopiesAreTrue, CopyIsTrue
<1>2. order'[t].status = "PAID" /\ order'[t].items = order[t].items
  <2>1. order'[t] = [order[t] EXCEPT !.status = "PAID", !.receiptMailed = order[t].receiptMailed \/ claim[r]]
    BY <1>1 DEF TypeOK, CommitPayment
  <2> QED
    BY <1>1, <2>1 DEF OrderData
<1>3. \A o \in Orders : o # t => order'[o] = order[o]
  BY <1>1 DEF TypeOK, CommitPayment
<1>4. product' = product /\ parcel' = parcel
  BY DEF CommitPayment
<1>5. CASE order[t].status = "PENDING"
  <2>1. book' = [book EXCEPT ![t].status = "PAID"]
    BY <1>1, <1>2, <1>3
  <2>2. book[t].status = "PENDING"
    BY <1>1, <1>5
  <2> QED
    BY <1>4, <2>1, <2>2 DEF Ledger!MarkPaid
<1>6. CASE order[t].status = "PAID"
  <2>1. book' = book
    BY <1>1, <1>2, <1>3, <1>6
  <2> QED
    BY <1>4, <2>1 DEF Ledger!ledgerVars
<1> QED
  BY <1>1, <1>5, <1>6

LEMMA CancelStep ==
    ASSUME TypeOK, InHand, CopiesAreTrue, NEW r \in Requests, CommitCancel(r),
           NEW t \in Orders, t = target[r]
    PROVE  Ledger!Cancel(t)
<1> DEFINE book == [o \in Orders |-> [status |-> order[o].status, items |-> order[o].items]]
           parcel == [o \in Orders |-> delivery[o].status]
<1>1. /\ order[t] \in OrderData /\ order[t].status = "PENDING" /\ delivery[t] \in DeliveryData
      /\ slip[r] = delivery[t] /\ delivery[t].status \notin AlreadyLeft
      /\ \A p \in GivenBack(t) : seen[r][p] = Restock(p, product[p], order[t].items[p])
  BY DEF CommitCancel, TypeOK, InHand, InHandOf, Cancelling, CopiesAreTrue, CopyIsTrue, GivesBackTo
<1>2. book[t].status = "PENDING" /\ book[t].items = order[t].items /\ parcel[t] \notin Ledger!AlreadyLeft
  BY <1>1 DEF AlreadyLeft, Ledger!AlreadyLeft
<1>3. \A p \in Dishes : Restock(p, product[p], order[t].items[p]) = product[p]
  BY KindAssumption DEF Restock
<1>4. product' = [p \in Products |->
                    IF book[t].items[p] > 0 THEN Ledger!Restock(p, product[p], book[t].items[p]) ELSE product[p]]
  <2>1. product' = [p \in Products |-> IF p \in GivenBack(t) THEN seen[r][p] ELSE product[p]]
    BY DEF CommitCancel, WriteBack
  <2>2. \A p \in Products : (IF p \in GivenBack(t) THEN seen[r][p] ELSE product[p])
           = IF order[t].items[p] > 0 THEN Restock(p, product[p], order[t].items[p]) ELSE product[p]
    BY <1>1, <1>3 DEF GivenBack
  <2> HIDE DEF book
  <2> QED
    BY <1>2, <2>1, <2>2, SameRows
<1>5. /\ order'[t].status = "CANCELLED" /\ order'[t].items = order[t].items
      /\ \A o \in Orders : o # t => order'[o] = order[o]
  BY <1>1 DEF TypeOK, OrderData, CommitCancel
<1>6. book' = [book EXCEPT ![t].status = "CANCELLED"]
  BY <1>1, <1>5
<1>7. parcel' = [parcel EXCEPT ![t] = IF @ = "FAILED" THEN @ ELSE "CANCELLED"]
  <2>1. delivery'[t].status = IF delivery[t].status = "FAILED" THEN "FAILED" ELSE "CANCELLED"
    <3>1. delivery'[t].status = IF CancelsDelivery(r) THEN "CANCELLED" ELSE delivery[t].status
      BY <1>1 DEF TypeOK, DeliveryData, CommitCancel
    <3> QED
      BY <1>1, <3>1 DEF CancelsDelivery
  <2>2. \A o \in Orders : o # t => delivery'[o] = delivery[o]
    BY <1>1 DEF TypeOK, CommitCancel
  <2> QED
    BY <1>1, <2>1, <2>2
<1> HIDE DEF book, parcel
<1> QED
  BY <1>2, <1>4, <1>6, <1>7 DEF Ledger!Cancel, book, parcel

LEMMA ParcelStep ==
    ASSUME TypeOK, InHand, CopiesAreTrue, NEW r \in Requests, CommitDelivery(r),
           NEW t \in Orders, t = target[r]
    PROVE  \/ UNCHANGED Ledger!ledgerVars
           \/ \E status \in Ledger!ParcelStatus \ {"NONE"} : Ledger!MoveParcel(t, status)
<1> DEFINE book == [o \in Orders |-> [status |-> order[o].status, items |-> order[o].items]]
           parcel == [o \in Orders |-> delivery[o].status]
<1>1. order[t].status # "NONE" /\ slip[r].status \in ParcelStatus \ {"NONE"}
  BY DEF CommitDelivery, TypeOK, InHand, InHandOf, Delivering, CopiesAreTrue, CopyIsTrue, DeliveryData
<1>2. /\ delivery'[t].status = IF lock[DeliveryRow(t)] = r THEN slip[r].status ELSE delivery[t].status
      /\ \A o \in Orders : o # t => delivery'[o] = delivery[o]
  BY <1>1 DEF TypeOK, CommitDelivery
<1>3. product' = product /\ book' = book /\ book[t].status # "NONE"
  BY <1>1 DEF CommitDelivery
<1>4. CASE lock[DeliveryRow(t)] = r
  <2>1. PICK status \in ParcelStatus \ {"NONE"} : status = slip[r].status
    BY <1>1
  <2>2. parcel' = [parcel EXCEPT ![t] = status]
    BY <1>1, <1>2, <1>4, <2>1
  <2>3. Ledger!MoveParcel(t, status)
    BY <1>3, <2>2 DEF Ledger!MoveParcel
  <2> QED
    BY <2>3 DEF ParcelStatus, Ledger!ParcelStatus
<1>5. CASE lock[DeliveryRow(t)] # r
  <2>1. parcel' = parcel
    BY <1>1, <1>2, <1>5
  <2> QED
    BY <1>3, <2>1 DEF Ledger!ledgerVars
<1> QED
  BY <1>4, <1>5

LEMMA LedgerStep ==
    ASSUME TypeOK, InHand, Places, Apart, CopiesAreTrue, NEW r \in Requests, Act(r)
    PROVE  Ledger!LedgerNext \/ UNCHANGED Ledger!ledgerVars
<1>1. CASE CommitOrder(r)
  <2>1. PICK basket \in Baskets : basket = items[r] /\ r \in Orders
    BY <1>1 DEF CommitOrder, InHand, InHandOf, Creating
  <2>2. Ledger!Create(r, basket)
    BY <1>1, <2>1, CreateStep
  <2> QED
    BY <2>1, <2>2 DEF Ledger!LedgerNext
<1>2. CASE CommitPayment(r)
  <2>1. PICK t \in Orders : t = target[r]
    BY <1>2, StatusWriters
  <2>2. Ledger!MarkPaid(t) \/ UNCHANGED Ledger!ledgerVars
    BY <1>2, <2>1, PaidStep
  <2> QED
    BY <2>2 DEF Ledger!LedgerNext
<1>3. CASE CommitCancel(r)
  <2>1. PICK t \in Orders : t = target[r]
    BY <1>3, StatusWriters
  <2>2. Ledger!Cancel(t)
    BY <1>3, <2>1, CancelStep
  <2> QED
    BY <2>2 DEF Ledger!LedgerNext
<1>4. CASE CommitDelivery(r)
  <2>1. PICK t \in Orders : t = target[r]
    BY <1>4 DEF CommitDelivery, InHand, InHandOf, Delivering
  <2>2. \/ UNCHANGED Ledger!ledgerVars
        \/ \E status \in Ledger!ParcelStatus \ {"NONE"} : Ledger!MoveParcel(t, status)
    BY <1>4, <2>1, ParcelStep
  <2> QED
    BY <2>2 DEF Ledger!LedgerNext
<1>5. CASE ~ CommitOrder(r) /\ ~ CommitPayment(r) /\ ~ CommitCancel(r) /\ ~ CommitDelivery(r)
  <2>1. product' = product /\ order' = order /\ delivery' = delivery
    BY <1>5, ShelfWriters, StatusWriters, ParcelWriters, ApartActs
  <2> QED
    BY <2>1 DEF Ledger!ledgerVars
<1> QED
  BY <1>1, <1>2, <1>3, <1>4, <1>5

LEMMA BookIsLedger == Orderly \/ Serial => (Spec => ImplementsLedger)
<1> SUFFICES ASSUME Orderly \/ Serial
             PROVE  Spec => ImplementsLedger
  OBVIOUS
<1>1. TypeOK /\ InHand /\ Places /\ Apart /\ CopiesAreTrue /\ [Next]_vars
        => [Ledger!LedgerNext]_(Ledger!ledgerVars)
  <2> SUFFICES ASSUME TypeOK, InHand, Places, Apart, CopiesAreTrue, [Next]_vars
               PROVE  Ledger!LedgerNext \/ UNCHANGED Ledger!ledgerVars
    OBVIOUS
  <2>1. CASE UNCHANGED vars
    BY <2>1 DEF Ledger!ledgerVars, vars, tables
  <2> QED
    BY <2>1, LedgerStep DEF Next, Act, Quiet
<1> QED
  BY <1>1, LedgerStarts, CopiesInvariant, TypeCorrect, PlacesInvariant, PTL
     DEF Spec, ImplementsLedger, Ledger!LedgerSpec

\* Orders created from the dashboard, payments and deliveries, however many at
\* the same time and whichever of them dies, deadlocks or is refused, keep the
\* book of an indivisible ledger: the row locks of create_order sell each
\* article once.
THEOREM ConcurrentBookIsLedger ==
    ASSUME \A r \in Requests : Role[r] \in {"dashboard", "payer", "courier"}
    PROVE  Spec => ImplementsLedger
  BY BookIsLedger DEF Orderly

\* With cancellations too, when the server has one session open at a time:
\* what cancel_order gives back is what create_order took (cancel_order reads
\* without a lock: two sessions at once break this, as run cancel_race shows).
THEOREM SerialBookIsLedger ==
    ASSUME MaxOpen <= 1,
           \A r \in Requests : Role[r] \in {"dashboard", "payer", "courier", "canceller"}
    PROVE  Spec => ImplementsLedger
  BY BookIsLedger DEF Serial

\* In those crowds a sale that was paid for stays paid for.
THEOREM PaidStaysPaid ==
    ASSUME MaxOpen <= 1,
           \A r \in Requests : Role[r] \in {"dashboard", "payer", "courier", "canceller"}
    PROVE  Spec => PaidIsFinal
<1>1. Serial
  BY DEF Serial
<1>2. TypeOK /\ InHand /\ CopiesAreTrue /\ [Next]_vars
        => [\A o \in Orders : order[o].status = "PAID" => (order[o].status)' = "PAID"]_vars
  <2> SUFFICES ASSUME TypeOK, InHand, CopiesAreTrue, NEW r \in Requests, Act(r),
                      NEW o \in Orders, order[o].status = "PAID"
               PROVE  order'[o].status = "PAID"
    BY DEF Next, Act, Quiet
  <2>1. CASE CommitCancel(r)
    <3>1. order[target[r]].status = "PENDING"
      BY <2>1 DEF CommitCancel, CopiesAreTrue, CopyIsTrue, GivesBackTo, Cancelling
    <3> QED
      BY <2>1, <3>1, StatusWriters
  <2> QED
    BY <2>1, StatusWriters
<1> QED
  BY <1>1, <1>2, CopiesInvariant, TypeCorrect, PTL DEF Spec, PaidIsFinal

-----------------------------------------------------------------------------
(* The customer is told of each step once.                                 *)

Told(d, kind) == IF kind = "delivery_shipped" THEN d.shippedTold ELSE d.deliveredTold
StepKinds == {"delivery_shipped", "delivery_delivered"}

\* A row is locked by a session that is open.
LocksHeld == \A w \in Rows : lock[w] # Nobody => pc[lock[w]] \in Busy

\* The courier's copy says what the table says, until he tells; what was told
\* is marked in the table, or in the session that is about to write it.
Telling ==
    /\ \A r \in Requests : pc[r] \in {"moving", "moved"} =>
          \A kind \in StepKinds : Told(slip[r], kind) <=> Told(delivery[target[r]], kind)
    /\ \A m \in sent :
          /\ order[m.order].status # "NONE"
          /\ m.kind \in StepKinds => \/ Told(delivery[m.order], m.kind)
                                 \/ \E r \in Requests : /\ pc[r] = "notified" /\ target[r] = m.order
                                                        /\ Told(slip[r], m.kind)

LEMMA LocksHeldStep ==
    ASSUME TypeOK, InHand, LocksHeld, NEW r \in Requests, Act(r)
    PROVE  LocksHeld'
<1>1. pc'[r] \in Busy \/ \A w \in Rows : lock'[w] # r
  <2>1. CASE Ask(r)
    <3>1. CASE AskOrder(r) \/ ValidateCart(r)
      BY <3>1 DEF TypeOK, AskOrder, ValidateCart, Basket, Goto, Busy
    <3>2. CASE AskPayment(r) \/ AskCancel(r)
      BY <3>2, RequestsAssumption DEF TypeOK, AskPayment, AskCancel, Refused, Close, Release, Goto, Busy
    <3>3. CASE AskDelivery(r)
      <4>1. \E label \in {"moved", "moving"} : Goto(r, label)
        BY <3>3 DEF AskDelivery
      <4> QED
        BY <4>1 DEF TypeOK, Goto, Busy
    <3> QED
      BY <2>1, <3>1, <3>2, <3>3 DEF Ask
  <2>2. CASE ReserveLine(r)
    <3>1. \E label \in {"lines", "insert"} : Goto(r, label)
      BY <2>2 DEF ReserveLine
    <3> QED
      BY <3>1 DEF TypeOK, Goto, Busy
  <2>3. CASE RefuseLine(r) \/ FlushRow(r) \/ ReadProducts(r) \/ TellCancelled(r) \/ FlushDelivery(r)
               \/ FlushPayment(r) \/ SendReceipt(r)
    BY <2>3 DEF TypeOK, RefuseLine, Line, FlushRow, ReadProducts, TellCancelled, FlushDelivery, FlushPayment,
                SendReceipt, Goto, Busy
  <2>4. CASE ReadDelivery(r) \/ CommitPayment(r) \/ NotifyDelivery(r)
    BY <2>4, RequestsAssumption DEF TypeOK, ReadDelivery, CommitPayment, NotifyDelivery, Close, Release, Goto, Busy
  <2>5. CASE \/ CommitOrder(r) \/ RefuseDashboard(r) \/ RefuseInChat(r) \/ CommissionTwice(r) \/ MailReceipt(r)
             \/ CommitCancel(r) \/ CommitDelivery(r) \/ DeadlockVictim(r) \/ Crash(r)
    BY SMTT(20), <2>5, RequestsAssumption DEF TypeOK, CommitOrder, RefuseDashboard, RefuseInChat, CommissionTwice, MailReceipt,
         CommitCancel, CommitDelivery, DeadlockVictim, Crash, Rollback, Close, Release
  <2> QED
    BY <2>1, <2>2, <2>3, <2>4, <2>5 DEF Act, Serve
<1> SUFFICES ASSUME NEW w \in Rows, lock'[w] # Nobody
             PROVE  pc'[lock'[w]] \in Busy
  BY DEF LocksHeld
<1>2. lock'[w] \in Requests
  BY TypeStep DEF Act, TypeOK
<1>3. CASE lock'[w] = r
  BY <1>1, <1>3
<1>4. CASE lock'[w] # r
  BY <1>2, <1>4, OthersUntouched DEF LocksHeld
<1> QED
  BY <1>3, <1>4

\* Alone, no request waits in a ring.
LEMMA NoRingAlone ==
    ASSUME TypeOK, InHand, Alone, LocksHeld, NEW r \in Requests, pc[r] \in Delivering
    PROVE  ~ DeadlockVictim(r)
<1> SUFFICES ASSUME NEW ring \in SUBSET Requests, r \in ring,
                    AsksFor(r) # NoRow, lock[AsksFor(r)] \in ring \ {r}
             PROVE  FALSE
  BY DEF DeadlockVictim, Deadlocked
<1>1. AsksFor(r) = DeliveryRow(target[r]) /\ target[r] \in Orders
  BY DEF AsksFor, Delivering, InHand, InHandOf
<1>2. AsksFor(r) \in Rows
  BY <1>1, RowsFacts
<1>3. pc[lock[AsksFor(r)]] \in Busy
  BY <1>2, RequestsAssumption DEF LocksHeld
<1> QED
  BY <1>3 DEF Alone, Delivering, Busy

\* The messages that leave are about an order of the table.
LEMMA SentAbout ==
    ASSUME TypeOK, InHand, NEW r \in Requests, Act(r), ~ NotifyDelivery(r)
    PROVE  \A m \in sent' \ sent : m.kind \notin StepKinds /\ m.order \in Orders /\ order'[m.order].status # "NONE"
<1>1. CASE SendReceipt(r) \/ TellCancelled(r) \/ MailReceipt(r)
  <2>1. \E kind \in {"receipt", "cancellation", "receipt_mail"} : sent' \subseteq sent \cup {Note(kind, r)}
    BY <1>1 DEF SendReceipt, TellCancelled, MailReceipt
  <2>2. order' = order /\ target[r] \in Orders /\ order[target[r]].status # "NONE"
    BY <1>1 DEF SendReceipt, TellCancelled, MailReceipt, tables, InHand, InHandOf, Paying, Cancelling
  <2> QED
    BY <2>1, <2>2 DEF Note, StepKinds
<1>2. CASE ~ (SendReceipt(r) \/ TellCancelled(r) \/ MailReceipt(r))
  <2>1. sent' = sent
    BY <1>2 DEF Act, Ask, Serve, AskOrder, ValidateCart, Basket, AskPayment, AskCancel, AskDelivery, ReserveLine, RefuseLine,
         CommitOrder, RefuseDashboard, RefuseInChat, FlushPayment, CommissionTwice, CommitPayment, ReadDelivery,
         ReadProducts, FlushRow, CommitCancel, FlushDelivery, CommitDelivery, DeadlockVictim, Crash, Rollback, session
  <2> QED
    BY <2>1
<1> QED
  BY <1>1, <1>2

\* Only the commit of a delivery marks what was told, and none unmarks it.
LEMMA MarksStay ==
    ASSUME TypeOK, InHand, NEW r \in Requests, Act(r), NEW o \in Orders, order[o].status # "NONE"
    PROVE  \A kind \in StepKinds :
              /\ Told(delivery[o], kind) => Told(delivery'[o], kind)
              /\ ~ CommitDelivery(r) => (Told(delivery'[o], kind) <=> Told(delivery[o], kind))
<1>1. CASE CommitOrder(r)
  <2>1. o # r
    BY <1>1, StatusWriters
  <2> QED
    BY <1>1, <2>1 DEF TypeOK, CommitOrder
<1>2. CASE CommitCancel(r)
  <2>1. target[r] \in Orders
    BY <1>2, StatusWriters
  <2>2. /\ delivery'[o].shippedTold = delivery[o].shippedTold
        /\ delivery'[o].deliveredTold = delivery[o].deliveredTold
    BY <1>2, <2>1 DEF TypeOK, DeliveryData, CommitCancel
  <2> QED
    BY <2>2 DEF Told
<1>3. CASE CommitDelivery(r)
  <2>1. target[r] \in Orders
    BY <1>3 DEF CommitDelivery, InHand, InHandOf, Delivering
  <2>2. /\ delivery[o].shippedTold => delivery'[o].shippedTold
        /\ delivery[o].deliveredTold => delivery'[o].deliveredTold
    BY <1>3, <2>1 DEF TypeOK, DeliveryData, CommitDelivery
  <2> QED
    BY <1>3, <2>2 DEF Told
<1> QED
  BY <1>1, <1>2, <1>3, ParcelWriters

LEMMA TellingStepTold ==
    ASSUME TypeOK, InHand, Alone, Telling, ToldOncePerStep, NEW r \in Requests, Act(r), NotifyDelivery(r)
    PROVE  Telling' /\ ToldOncePerStep'
<1>1. /\ pc[r] = "moved" /\ target[r] \in Orders /\ order[target[r]].status # "NONE"
      /\ UNCHANGED <<order, delivery>>
  BY DEF NotifyDelivery, InHand, InHandOf, Delivering, tables
<1>2. \A q \in Requests : q # r => pc'[q] = pc[q] /\ pc[q] \notin Busy
  BY <1>1, OthersUntouched DEF Alone, Busy
<1>3. \A m \in sent : m.order \in Orders
  BY DEF TypeOK, Message
<1>4. \A m \in sent : m.kind \in StepKinds => Told(delivery[m.order], m.kind)
  BY <1>1, <1>2 DEF Telling, Busy
<1>5. \A q \in Requests : pc'[q] \notin {"moving", "moved"}
  BY <1>1, <1>2 DEF NotifyDelivery, Close, Goto, TypeOK, Busy
<1>6. CASE sent' = sent
  BY <1>1, <1>3, <1>4, <1>5, <1>6 DEF Telling, ToldOncePerStep
<1>7. CASE /\ StepDue(slip[r]) # "none"
           /\ sent' = sent \cup {Note(StepDue(slip[r]), r)}
           /\ slip' = [slip EXCEPT ![r].shippedTold = @ \/ StepDue(slip[r]) = "delivery_shipped",
                                   ![r].deliveredTold = @ \/ StepDue(slip[r]) = "delivery_delivered"]
           /\ Goto(r, "notified")
           /\ target' = target
  <2> DEFINE step == StepDue(slip[r])
             note == Note(step, r)
  <2>1. step \in StepKinds /\ ~ Told(slip[r], step)
    BY <1>7 DEF StepDue, StepKinds, Told
  <2>2. ~ Told(delivery[target[r]], step)
    BY <1>1, <2>1 DEF Telling
  <2>3. note.kind = step /\ note.order = target[r]
    BY DEF Note
  <2>4. Told(slip'[r], step)
    <3>1. /\ slip'[r].shippedTold = (slip[r].shippedTold \/ step = "delivery_shipped")
          /\ slip'[r].deliveredTold = (slip[r].deliveredTold \/ step = "delivery_delivered")
      BY <1>7 DEF TypeOK, DeliveryData
    <3> QED
      BY <2>1, <3>1 DEF Told, StepKinds
  <2>5. pc'[r] = "notified" /\ target'[r] = target[r]
    BY <1>7 DEF TypeOK, Goto
  <2>6. ToldOncePerStep'
    <3>1. \A m \in sent : m.kind = step => m.order # target[r]
      BY <1>4, <2>1, <2>2
    <3> HIDE DEF note, step
    <3> QED
      BY <1>7, <2>3, <3>1 DEF ToldOncePerStep, note, step
  <2>7. Telling'
    <3>1. \A m \in sent' : order'[m.order].status # "NONE"
      BY <1>1, <1>7, <2>3 DEF Telling
    <3>2. \A m \in sent' : m.kind \in StepKinds =>
             \/ Told(delivery'[m.order], m.kind)
             \/ \E q \in Requests : pc'[q] = "notified" /\ target'[q] = m.order /\ Told(slip'[q], m.kind)
      <4> SUFFICES ASSUME NEW m \in sent', m.kind \in StepKinds
                   PROVE  \/ Told(delivery'[m.order], m.kind)
                          \/ \E q \in Requests : pc'[q] = "notified" /\ target'[q] = m.order /\ Told(slip'[q], m.kind)
        OBVIOUS
      <4>1. CASE m \in sent
        BY <1>1, <1>4, <4>1
      <4>2. CASE m = note
        BY <2>3, <2>4, <2>5, <4>2
      <4> QED
        BY <1>7, <4>1, <4>2
    <3> QED
      BY <1>5, <3>1, <3>2 DEF Telling
  <2> QED
    BY <2>6, <2>7
<1> QED
  BY <1>6, <1>7 DEF NotifyDelivery, Close

LEMMA TellingStepOther ==
    ASSUME TypeOK, InHand, Places, Alone, LocksHeld, MaxOpen <= 1, \A r \in Fragile : Role[r] # "courier",
           Telling, ToldOncePerStep, NEW r \in Requests, Act(r), ~ NotifyDelivery(r)
    PROVE  Telling' /\ ToldOncePerStep'
<1>1. \A m \in sent' \ sent : m.kind \notin StepKinds /\ m.order \in Orders /\ order'[m.order].status # "NONE"
  BY SentAbout
<1>2. \A m \in sent : m.order \in Orders /\ order[m.order].status # "NONE" /\ order'[m.order].status # "NONE"
  BY OrdersGrow DEF TypeOK, Message, Telling
<1>3. ToldOncePerStep'
  BY <1>1 DEF ToldOncePerStep, StepKinds
<1>4. \A q \in Requests : q # r => pc'[q] = pc[q] /\ target'[q] = target[q] /\ slip'[q] = slip[q]
  BY OthersUntouched
\* A courier who has told commits.
<1>5. pc[r] = "notified" => CommitDelivery(r)
  <2> SUFFICES ASSUME pc[r] = "notified"
               PROVE  CommitDelivery(r)
    OBVIOUS
  <2>1. Role[r] = "courier" /\ pc[r] \in Delivering
    BY DEF Places, PlaceOf, Delivering
  <2>2. ~ DeadlockVictim(r) /\ ~ Crash(r)
    BY <2>1, NoRingAlone DEF Crash
  <2>3. ~ Ask(r)
    BY Paths
  <2>4. \/ ReserveLine(r) \/ RefuseLine(r) \/ CommitOrder(r) \/ RefuseDashboard(r) \/ RefuseInChat(r) \/ FlushPayment(r)
        \/ CommissionTwice(r) \/ SendReceipt(r) \/ CommitPayment(r) \/ MailReceipt(r) \/ ReadDelivery(r)
        \/ ReadProducts(r) \/ FlushRow(r) \/ TellCancelled(r) \/ CommitCancel(r) \/ FlushDelivery(r)
        \/ CommitDelivery(r)
    BY <2>2, <2>3 DEF Act, Serve
  <2> QED
    BY <2>4 DEF ReserveLine, RefuseLine, Line, CommitOrder, RefuseDashboard, RefuseInChat, FlushPayment, CommissionTwice,
         SendReceipt, CommitPayment, MailReceipt, ReadDelivery, ReadProducts, FlushRow, TellCancelled, CommitCancel,
         FlushDelivery
<1>6. \A m \in sent' : m.kind \in StepKinds =>
         \/ Told(delivery'[m.order], m.kind)
         \/ \E q \in Requests : pc'[q] = "notified" /\ target'[q] = m.order /\ Told(slip'[q], m.kind)
  <2> SUFFICES ASSUME NEW m \in sent, m.kind \in StepKinds
               PROVE  \/ Told(delivery'[m.order], m.kind)
                      \/ \E q \in Requests : pc'[q] = "notified" /\ target'[q] = m.order /\ Told(slip'[q], m.kind)
    BY <1>1
  <2>1. CASE Told(delivery[m.order], m.kind)
    BY <1>2, <2>1, MarksStay
  <2>2. ASSUME NEW q \in Requests, pc[q] = "notified", target[q] = m.order, Told(slip[q], m.kind)
        PROVE  \/ Told(delivery'[m.order], m.kind)
               \/ \E u \in Requests : pc'[u] = "notified" /\ target'[u] = m.order /\ Told(slip'[u], m.kind)
    <3>1. CASE q # r
      BY <1>4, <2>2, <3>1
    <3>2. CASE q = r
      <4>1. CommitDelivery(r) /\ m.order \in Orders /\ target[r] = m.order
        BY <1>2, <1>5, <2>2, <3>2
      <4>2. /\ slip[r].shippedTold => delivery'[m.order].shippedTold
            /\ slip[r].deliveredTold => delivery'[m.order].deliveredTold
        BY <4>1 DEF TypeOK, DeliveryData, CommitDelivery
      <4> QED
        BY <2>2, <3>2, <4>2 DEF Told
    <3> QED
      BY <3>1, <3>2
  <2> QED
    BY <2>1, <2>2 DEF Telling
<1>7. ASSUME NEW q \in Requests, pc'[q] \in {"moving", "moved"}, NEW kind \in StepKinds
      PROVE  Told(slip'[q], kind) <=> Told(delivery'[target'[q]], kind)
  <2>1. CASE q # r
    <3>1. pc[q] \in {"moving", "moved"} /\ target'[q] = target[q] /\ slip'[q] = slip[q]
      BY <1>4, <1>7, <2>1
    <3>2. target[q] \in Orders /\ order[target[q]].status # "NONE"
      BY <3>1 DEF InHand, InHandOf, Delivering
    <3>3. ~ CommitDelivery(r)
      BY <2>1, <3>1 DEF CommitDelivery, Alone, Busy
    <3> QED
      BY <3>1, <3>2, <3>3, MarksStay DEF Telling
  <2>2. CASE q = r
    <3>1. AskDelivery(r) \/ FlushDelivery(r)
      <4>1. CASE AskOrder(r) \/ ValidateCart(r) \/ AskPayment(r) \/ AskCancel(r)
        BY ZenonT(40), <1>7, <2>2, <4>1 DEF TypeOK, AskOrder, ValidateCart, Basket, AskPayment, AskCancel, Refused, Close, Goto
      <4>2. CASE RefuseLine(r) \/ FlushRow(r) \/ ReadDelivery(r) \/ ReadProducts(r) \/ TellCancelled(r)
        BY <1>7, <2>2, <4>2 DEF TypeOK, RefuseLine, Line, FlushRow, ReadDelivery, ReadProducts, TellCancelled, Close, Goto
      <4>3. CASE ReserveLine(r)
        <5>1. \E label \in {"lines", "insert"} : Goto(r, label)
          BY <4>3 DEF ReserveLine
        <5> QED
          BY <1>7, <2>2, <5>1 DEF TypeOK, Goto
      <4>4. CASE FlushPayment(r) \/ SendReceipt(r) \/ CommitPayment(r)
        BY <1>7, <2>2, <4>4 DEF TypeOK, FlushPayment, SendReceipt, CommitPayment, Close, Goto
      <4>5. CASE CommitOrder(r) \/ RefuseDashboard(r) \/ RefuseInChat(r) \/ CommissionTwice(r) \/ MailReceipt(r)
                   \/ CommitCancel(r) \/ CommitDelivery(r) \/ DeadlockVictim(r) \/ Crash(r)
        BY <1>7, <2>2, <4>5 DEF TypeOK, CommitOrder, RefuseDashboard, RefuseInChat, CommissionTwice, MailReceipt,
           CommitCancel, CommitDelivery, DeadlockVictim, Crash, Rollback, Close, Goto
      <4>6. CASE NotifyDelivery(r)
        BY <1>7, <2>2, <4>6 DEF TypeOK, NotifyDelivery, Close, Goto
      <4> QED
        BY <4>1, <4>2, <4>3, <4>4, <4>5, <4>6 DEF Act, Ask, Serve
    <3>2. CASE AskDelivery(r)
      <4>1. PICK o \in Orders, status \in ParcelStatus \ {"NONE"} :
              About(r, o) /\ slip' = [slip EXCEPT ![r] = [delivery[o] EXCEPT !.status = status]]
        BY <3>2 DEF AskDelivery
      <4>2. target'[r] = o /\ delivery' = delivery
        BY <3>2, <4>1 DEF TypeOK, About, AskDelivery, tables
      <4>3. slip'[r].shippedTold = delivery[o].shippedTold /\ slip'[r].deliveredTold = delivery[o].deliveredTold
        BY <4>1 DEF TypeOK, DeliveryData
      <4> QED
        BY <2>2, <4>2, <4>3 DEF Told
    <3>3. CASE FlushDelivery(r)
      BY <2>2, <3>3 DEF FlushDelivery, Telling, tables, session
    <3> QED
      BY <3>1, <3>2, <3>3
  <2> QED
    BY <2>1, <2>2
<1> QED
  BY <1>1, <1>2, <1>3, <1>6, <1>7 DEF Telling

\* One session at a time, a customer is told once that his order left and once
\* that it arrived, however often the merchant saves the delivery
\* (delivery_notice); a courier whose process dies between the message and the
\* commit would tell him again.
THEOREM ToldOnceServedAlone ==
    ASSUME MaxOpen <= 1, \A r \in Fragile : Role[r] # "courier"
    PROVE  Spec => []ToldOncePerStep
<1>1. Init => Telling /\ ToldOncePerStep /\ LocksHeld
  BY DEF Init, Telling, ToldOncePerStep, LocksHeld
<1>2. TypeOK /\ InHand /\ Places /\ Alone /\ LocksHeld /\ Telling /\ ToldOncePerStep /\ [Next]_vars
        => LocksHeld' /\ Telling' /\ ToldOncePerStep'
  <2> SUFFICES ASSUME TypeOK, InHand, Places, Alone, LocksHeld, Telling, ToldOncePerStep, [Next]_vars
               PROVE  LocksHeld' /\ Telling' /\ ToldOncePerStep'
    OBVIOUS
  <2>1. CASE UNCHANGED vars
    BY <2>1 DEF LocksHeld, Telling, ToldOncePerStep, vars, tables, session
  <2>2. ASSUME NEW r \in Requests, Act(r)
        PROVE  LocksHeld' /\ Telling' /\ ToldOncePerStep'
    BY <2>2, LocksHeldStep, TellingStepTold, TellingStepOther
  <2> QED
    BY <2>1, <2>2 DEF Next, Act, Quiet
<1> QED
  BY <1>1, <1>2, AloneInvariant, TypeCorrect, PlacesInvariant, PTL DEF Spec

-----------------------------------------------------------------------------
(* Stock is conserved by the ledger, so by the concurrent book.            *)

Book == [Orders -> [status : OrderStatus, items : Baskets \cup {NoItems}]]
Standing(b) == {o \in Orders : b[o].status \in {"PENDING", "PAID"}}
Held(b, p) == SumFunctionOnSet([o \in Orders |-> b[o].items[p]], Standing(b))
Balanced(shelf, b) == \A p \in Products \ Dishes : Available(p, shelf[p]) + Held(b, p) = Available(p, Opening[p])

\* A set of orders and one more.
LEMMA OneMoreOrder ==
    ASSUME NEW f, NEW g, NEW L \in SUBSET Orders, NEW o \in Orders \ L,
           \A x \in L \cup {o} : g[x] \in Nat, \A x \in L : f[x] = g[x]
    PROVE  /\ SumFunctionOnSet(f, L) \in Nat
           /\ SumFunctionOnSet(g, L \cup {o}) = SumFunctionOnSet(f, L) + g[o]
<1> DEFINE M == L \cup {o}
<1>1. IsFiniteSet(Requests) /\ M \subseteq Requests /\ L \subseteq Requests
  BY RequestsAssumption DEF Orders
<1>2. IsFiniteSet(M) /\ IsFiniteSet(L)
  BY <1>1, FS_Subset
<1>3. M \ {o} = L /\ o \in M
  OBVIOUS
<1>4. \A x \in M : g[x] \in Nat
  OBVIOUS
<1> HIDE DEF M
<1>5. SumFunctionOnSet(g, M) = SumFunctionOnSet(g, L) + g[o] /\ SumFunctionOnSet(g, L) \in Nat
  BY <1>2, <1>3, <1>4, SumTakesAway
<1>6. SumFunctionOnSet(f, L) = SumFunctionOnSet(g, L)
  BY <1>2, SumAgrees
<1> QED
  BY <1>5, <1>6 DEF M

LEMMA UnitsOnTheShelf ==
    ASSUME NEW p \in Products \ Dishes, NEW row \in ProductData, NEW q \in Nat
    PROVE  /\ Available(p, row) \in Nat
           /\ Enough(p, row, q) => Available(p, Reserve(p, row, q)) = Available(p, row) - q
           /\ Available(p, Restock(p, row, q)) = Available(p, row) + q
<1>1. row.stock \in Nat /\ row.size \in Nat
  BY DEF ProductData
<1>2. CASE p \in Sized
  BY <1>1, <1>2 DEF Available, Enough, Reserve, Restock, Less
<1>3. CASE p \notin Sized
  <2>1. Reserve(p, row, q) = [row EXCEPT !.stock = @ - q] /\ Restock(p, row, q) = [row EXCEPT !.stock = @ + q]
    BY <1>3 DEF Reserve, Restock
  <2>2. Reserve(p, row, q).stock = row.stock - q /\ Restock(p, row, q).stock = row.stock + q
    BY <2>1 DEF ProductData
  <2> QED
    BY <1>1, <1>3, <2>2 DEF Available, Enough
<1> QED
  BY <1>2, <1>3

LEMMA CreateBalances ==
    ASSUME NEW shelf \in [Products -> ProductData], NEW b \in Book, Balanced(shelf, b),
           NEW o \in Orders, b[o].status = "NONE", NEW basket \in Baskets,
           \A p \in Products : basket[p] > 0 => Enough(p, shelf[p], basket[p])
    PROVE  Balanced([p \in Products |-> IF basket[p] > 0 THEN Reserve(p, shelf[p], basket[p]) ELSE shelf[p]],
                    [b EXCEPT ![o] = [status |-> "PENDING", items |-> basket]])
<1> DEFINE c == [b EXCEPT ![o] = [status |-> "PENDING", items |-> basket]]
           after == [p \in Products |-> IF basket[p] > 0 THEN Reserve(p, shelf[p], basket[p]) ELSE shelf[p]]
<1> SUFFICES ASSUME NEW p \in Products \ Dishes
             PROVE  Available(p, after[p]) + Held(c, p) = Available(p, Opening[p])
  BY DEF Balanced
<1> DEFINE f == [x \in Orders |-> b[x].items[p]]
           g == [x \in Orders |-> c[x].items[p]]
           L == Standing(b)
<1>1. basket[p] \in Nat /\ shelf[p] \in ProductData
  BY BasketQuantity
<1>2. c \in [Orders -> [status : OrderStatus, items : Baskets \cup {NoItems}]]
  BY DEF Book, OrderStatus
<1>3. \A x \in Orders : g[x] \in Nat
  BY <1>2, BasketQuantity
<1>4. \A x \in Orders : x # o => c[x] = b[x]
  BY DEF Book
<1>5. c[o].status = "PENDING" /\ c[o].items = basket
  BY DEF Book
<1>6. L \subseteq Orders /\ o \notin L /\ Standing(c) = L \cup {o}
  BY <1>4, <1>5 DEF Standing
<1>7. g[o] = basket[p] /\ \A x \in L : f[x] = g[x]
  BY <1>4, <1>5, <1>6
<1>8. Held(b, p) = SumFunctionOnSet(f, L) /\ Held(c, p) = SumFunctionOnSet(g, L \cup {o})
  BY <1>6 DEF Held
<1>9. Available(p, shelf[p]) + Held(b, p) = Available(p, Opening[p])
  BY DEF Balanced
<1>10. after[p] = IF basket[p] > 0 THEN Reserve(p, shelf[p], basket[p]) ELSE shelf[p]
  OBVIOUS
<1> HIDE DEF f, g, L, c, after
<1>11. Held(b, p) \in Nat /\ Held(c, p) = Held(b, p) + basket[p]
  BY <1>3, <1>6, <1>7, <1>8, OneMoreOrder
<1>12. Available(p, shelf[p]) \in Nat
       /\ Available(p, after[p]) = Available(p, shelf[p]) - basket[p]
  BY <1>1, <1>10, UnitsOnTheShelf
<1> QED
  BY <1>1, <1>9, <1>11, <1>12

LEMMA CancelBalances ==
    ASSUME NEW shelf \in [Products -> ProductData], NEW b \in Book, Balanced(shelf, b),
           NEW o \in Orders, b[o].status = "PENDING"
    PROVE  Balanced([p \in Products |-> IF b[o].items[p] > 0 THEN Restock(p, shelf[p], b[o].items[p]) ELSE shelf[p]],
                    [b EXCEPT ![o].status = "CANCELLED"])
<1> DEFINE c == [b EXCEPT ![o].status = "CANCELLED"]
           after == [p \in Products |-> IF b[o].items[p] > 0 THEN Restock(p, shelf[p], b[o].items[p]) ELSE shelf[p]]
<1> SUFFICES ASSUME NEW p \in Products \ Dishes
             PROVE  Available(p, after[p]) + Held(c, p) = Available(p, Opening[p])
  BY DEF Balanced
<1> DEFINE f == [x \in Orders |-> b[x].items[p]]
           g == [x \in Orders |-> c[x].items[p]]
           L == Standing(c)
<1>1. \A x \in Orders : f[x] \in Nat
  BY BasketQuantity DEF Book
<1>2. f[o] = b[o].items[p] /\ f[o] \in Nat /\ shelf[p] \in ProductData
  BY <1>1
<1>3. \A x \in Orders : c[x].items = b[x].items /\ c[x].status = IF x = o THEN "CANCELLED" ELSE b[x].status
  BY DEF Book
<1>4. L \subseteq Orders /\ o \notin L /\ Standing(b) = L \cup {o}
  BY <1>3 DEF Standing
<1>5. \A x \in L : g[x] = f[x]
  BY <1>3, <1>4
<1>6. Held(c, p) = SumFunctionOnSet(g, L) /\ Held(b, p) = SumFunctionOnSet(f, L \cup {o})
  BY <1>4 DEF Held
<1>7. Available(p, shelf[p]) + Held(b, p) = Available(p, Opening[p])
  BY DEF Balanced
<1>8. after[p] = IF f[o] > 0 THEN Restock(p, shelf[p], f[o]) ELSE shelf[p]
  BY <1>2
<1> HIDE DEF f, g, L, c, after
<1>9. Held(c, p) \in Nat /\ Held(b, p) = Held(c, p) + f[o]
  BY <1>1, <1>4, <1>5, <1>6, OneMoreOrder
<1>10. Available(p, shelf[p]) \in Nat /\ Available(p, after[p]) = Available(p, shelf[p]) + f[o]
  BY <1>2, <1>8, UnitsOnTheShelf
<1> QED
  BY <1>2, <1>7, <1>9, <1>10

LEMMA PaidBalances ==
    ASSUME NEW shelf, NEW b \in Book, Balanced(shelf, b), NEW o \in Orders, b[o].status = "PENDING"
    PROVE  Balanced(shelf, [b EXCEPT ![o].status = "PAID"])
<1> DEFINE c == [b EXCEPT ![o].status = "PAID"]
<1>1. \A x \in Orders : c[x].items = b[x].items /\ c[x].status = IF x = o THEN "PAID" ELSE b[x].status
  BY DEF Book
<1>2. Standing(c) = Standing(b)
  BY <1>1 DEF Standing
<1>3. ASSUME NEW p \in Products \ Dishes PROVE Held(c, p) = Held(b, p)
  <2>1. [x \in Orders |-> c[x].items[p]] = [x \in Orders |-> b[x].items[p]]
    BY <1>1
  <2> QED
    BY <1>2, <2>1 DEF Held
<1> HIDE DEF c
<1>4. Balanced(shelf, c)
  BY <1>3 DEF Balanced
<1> QED
  BY <1>4 DEF c

LEMMA StandingUnits ==
    ASSUME NEW b \in Book, NEW p \in Products
    PROVE  Held(b, p) \in Nat
<1> DEFINE f == [x \in Orders |-> b[x].items[p]]
           L == Standing(b)
<1>1. IsFiniteSet(Requests) /\ L \subseteq Requests /\ L \subseteq Orders
  BY RequestsAssumption DEF Orders, Standing
<1>2. IsFiniteSet(L)
  BY <1>1, FS_Subset
<1>3. \A x \in L : f[x] \in Nat
  BY <1>1, BasketQuantity DEF Book
<1> HIDE DEF f, L
<1>4. SumFunctionOnSet(f, L) \in Nat
  <2>1. CASE L = {}
    BY <2>1, SumOfNone
  <2>2. CASE L # {}
    <3>1. PICK y \in L : TRUE
      BY <2>2
    <3> QED
      BY <1>2, <1>3, SumTakesAway
  <2> QED
    BY <2>1, <2>2
<1> QED
  BY <1>4 DEF Held, f, L

\* The order book of the tables.
TheBook == [o \in Orders |-> [status |-> order[o].status, items |-> order[o].items]]

LEMMA TheBookIsBook == TypeOK => TheBook \in Book
  BY DEF TypeOK, OrderData, TheBook, Book

LEMMA SameSum == \A f, S : Ledger!SumFunctionOnSet(f, S) = SumFunctionOnSet(f, S)
  BY DEF SumFunctionOnSet, FoldFunctionOnSet, MapThenFoldSet,
         Ledger!SumFunctionOnSet, Ledger!FoldFunctionOnSet, Ledger!MapThenFoldSet

LEMMA SameShelf == \A p, row : Ledger!Available(p, row) = Available(p, row)
  BY DEF Available, Ledger!Available

LEMMA ConservedIsBalanced == StockConserved <=> Balanced(product, TheBook)
<1>1. \A p : Ledger!Engaged(p) = Held(TheBook, p)
  BY SameSum DEF Ledger!Engaged, Ledger!Live, Held, Standing, TheBook
<1> QED
  BY <1>1, SameShelf DEF StockConserved, Ledger!Balance, Balanced

LEMMA ConservedIsBalancedNext == StockConserved' <=> Balanced(product', TheBook')
<1>1. \A p : Ledger!Engaged(p)' = Held(TheBook', p)
  BY SameSum DEF Ledger!Engaged, Ledger!Live, Held, Standing, TheBook
<1> QED
  BY <1>1, SameShelf DEF StockConserved, Ledger!Balance, Balanced

LEMMA LedgerKeepsStock ==
    ASSUME TypeOK, StockConserved, Ledger!LedgerNext
    PROVE  StockConserved'
<1>1. product \in [Products -> ProductData] /\ TheBook \in Book /\ Balanced(product, TheBook)
  BY TheBookIsBook, ConservedIsBalanced DEF TypeOK
<1>2. ASSUME NEW o \in Orders, NEW basket \in Baskets, Ledger!Create(o, basket)
      PROVE  Balanced(product', TheBook')
  <2>1. /\ TheBook[o].status = "NONE"
        /\ \A p \in Products : basket[p] > 0 => Enough(p, product[p], basket[p])
        /\ product' = [p \in Products |-> IF basket[p] > 0 THEN Reserve(p, product[p], basket[p]) ELSE product[p]]
        /\ TheBook' = [TheBook EXCEPT ![o] = [status |-> "PENDING", items |-> basket]]
    BY <1>2, SameRows DEF Ledger!Create, TheBook
  <2> QED
    BY <1>1, <2>1, CreateBalances
<1>3. ASSUME NEW o \in Orders, Ledger!MarkPaid(o)
      PROVE  Balanced(product', TheBook')
  <2>1. TheBook[o].status = "PENDING" /\ product' = product /\ TheBook' = [TheBook EXCEPT ![o].status = "PAID"]
    BY <1>3 DEF Ledger!MarkPaid, TheBook
  <2> QED
    BY <1>1, <2>1, PaidBalances
<1>4. ASSUME NEW o \in Orders, Ledger!Cancel(o)
      PROVE  Balanced(product', TheBook')
  <2>1. /\ TheBook[o].status = "PENDING"
        /\ product' = [p \in Products |-> IF TheBook[o].items[p] > 0 THEN Restock(p, product[p], TheBook[o].items[p])
                                                                     ELSE product[p]]
        /\ TheBook' = [TheBook EXCEPT ![o].status = "CANCELLED"]
    BY <1>4, SameRows DEF Ledger!Cancel, TheBook
  <2> QED
    BY <1>1, <2>1, CancelBalances
<1>5. ASSUME NEW o \in Orders, NEW status, Ledger!MoveParcel(o, status)
      PROVE  Balanced(product', TheBook')
  <2>1. product' = product /\ TheBook' = TheBook
    BY <1>5 DEF Ledger!MoveParcel, TheBook
  <2> QED
    BY <1>1, <2>1
<1>6. Balanced(product', TheBook')
  BY <1>2, <1>3, <1>4, <1>5 DEF Ledger!LedgerNext
<1> QED
  BY <1>6, ConservedIsBalancedNext

LEMMA StockStarts == Init => StockConserved
<1> SUFFICES ASSUME Init PROVE Balanced(product, TheBook)
  BY ConservedIsBalanced
<1> SUFFICES ASSUME NEW p \in Products \ Dishes
             PROVE  Available(p, product[p]) + Held(TheBook, p) = Available(p, Opening[p])
  BY DEF Balanced
<1>1. Standing(TheBook) = {}
  BY DEF Init, TheBook, Standing, NoOrder
<1>2. Held(TheBook, p) = 0
  BY <1>1, SumOfNone DEF Held
<1>3. product[p] = Opening[p] /\ Opening[p] \in ProductData
  BY RequestsAssumption DEF Init
<1>4. Available(p, Opening[p]) \in Nat
  BY <1>3 DEF Available, ProductData
<1> QED
  BY <1>2, <1>3, <1>4

LEMMA BookConservesStock == Orderly \/ Serial => (Spec => []StockConserved)
<1> SUFFICES ASSUME Orderly \/ Serial
             PROVE  Spec => []StockConserved
  OBVIOUS
<1>1. TypeOK /\ InHand /\ Places /\ Apart /\ CopiesAreTrue /\ StockConserved /\ [Next]_vars => StockConserved'
  <2> SUFFICES ASSUME TypeOK, InHand, Places, Apart, CopiesAreTrue, StockConserved, [Next]_vars
               PROVE  StockConserved'
    OBVIOUS
  <2>1. CASE Ledger!LedgerNext
    BY <2>1, LedgerKeepsStock
  <2>2. CASE UNCHANGED Ledger!ledgerVars
    <3>1. product' = product /\ TheBook' = TheBook
      BY <2>2 DEF Ledger!ledgerVars, TheBook
    <3> QED
      BY <3>1, ConservedIsBalanced, ConservedIsBalancedNext
  <2>3. CASE UNCHANGED vars
    <3>1. product' = product /\ TheBook' = TheBook
      BY <2>3 DEF vars, tables, TheBook
    <3> QED
      BY <3>1, ConservedIsBalanced, ConservedIsBalancedNext
  <2> QED
    BY <2>1, <2>2, <2>3, LedgerStep DEF Next, Act, Quiet
<1> QED
  BY <1>1, StockStarts, CopiesInvariant, TypeCorrect, PlacesInvariant, PTL DEF Spec

\* For any shop, baskets and crowd of dashboard orders, payments and
\* deliveries, at the same time and dying anywhere: what is on the shelf plus
\* what the standing orders hold is what the shop opened with.  So it is with
\* cancellations, one session at a time.
THEOREM StockIsConserved ==
    ASSUME \/ \A r \in Requests : Role[r] \in {"dashboard", "payer", "courier"}
           \/ MaxOpen <= 1 /\ \A r \in Requests : Role[r] \in {"dashboard", "payer", "courier", "canceller"}
    PROVE  Spec => []StockConserved
  BY BookConservesStock DEF Orderly, Serial

\* In those crowds two orders never sell the same last article (create_order
\* and its row locks): the units that standing orders hold were on the shelf.
THEOREM LastArticleSoldOnce ==
    ASSUME \/ \A r \in Requests : Role[r] \in {"dashboard", "payer", "courier"}
           \/ MaxOpen <= 1 /\ \A r \in Requests : Role[r] \in {"dashboard", "payer", "courier", "canceller"}
    PROVE  Spec => []NeverOversold
<1>1. TypeOK /\ StockConserved => NeverOversold
  <2> SUFFICES ASSUME TypeOK, StockConserved, NEW p \in Products \ Dishes
               PROVE  Engaged(p) <= Available(p, Opening[p])
    BY DEF NeverOversold
  <2>1. Engaged(p) = Held(TheBook, p)
    <3>1. Live = Standing(TheBook) /\ [o \in Orders |-> order[o].items[p]] = [o \in Orders |-> TheBook[o].items[p]]
      BY DEF Live, Standing, TheBook
    <3> QED
      BY <3>1 DEF Engaged, Held
  <2>2. Held(TheBook, p) \in Nat
    BY TheBookIsBook, StandingUnits
  <2>3. Available(p, product[p]) \in Nat
    BY DEF TypeOK, Available, ProductData
  <2>4. Available(p, product[p]) + Held(TheBook, p) = Available(p, Opening[p])
    BY ConservedIsBalanced DEF Balanced
  <2> QED
    BY <2>1, <2>2, <2>3, <2>4
<1> QED
  BY <1>1, StockIsConserved, TypeCorrect, PTL
=============================================================================
