# Bob: a verification development

Bob is a multi-tenant service that gives a shop an AI seller on WhatsApp. Customers write to the
shop's number; Bob answers, takes orders, books appointments and hands over to a human; the
merchant works from a dashboard and from his own phone; periodic workers remind and follow up.
The server is FastAPI with asynchronous SQLAlchemy sessions on PostgreSQL, Redis, and Celery beat.

This directory holds TLA+ models of the parts where requests, webhooks and workers meet on the
same rows, the TLC runs that check them on small shops, and TLAPS proofs of what matters most.
`PROJECT.json` maps every definition to the lines it models and lists runs, mutants, findings,
hazards and theorems.

    tlc -workers 2 -config OrdersConcurrent.cfg MCOrders      one run
    tlapm OrderTransactions_proofs.tla                        one proof module

Contents: 1 the system, 2 how sessions are modelled, 3 orders, 4 appointments, 5 the conversation,
6 the tasks of the clock, 7 buttons, messages and queues, 8 the runs, 9 fairness, 10 the proofs,
11 what is not modelled, 12 the plan.

## 1. The system

### Components

"State" is what a component keeps in the database unless said otherwise. All paths are under
`src/app/`.

| Component | State | What makes it hard | Module |
|---|---|---|---|
| Orders (`services/order_service.py`, `api/orders/routes.py`, `services/delivery_notice.py`, `services/order_emails.py`) | products and their sizes, orders, deliveries, commissions | row locks taken late, stale objects in a session, messages before the commit | **OrderTransactions**, over **Stock**; abstract: **OrderLedger** |
| Appointments (`services/booking.py`, `services/appointment_service.py`, `services/appointment_outcome.py`, `agents/tools.py`, `workers/appointment_reminders.py`) | appointment requests, the agenda's settings row | the last place of a slot, marks of reminders and dates that change | **Appointments** |
| Webhook pipeline, human takeover, coexistence, followups (`api/webhooks/whatsapp.py`, `services/handoff_service.py`, `services/coexistence.py`, `services/human_reply.py`, `services/followup_service.py`) | customers, conversations, messages | seconds of AI calls between two transactions, redelivery by Meta, who speaks decided on a row loaded seconds ago | **Conversation** |
| Order reminders (`services/order_reminders.py`) | reminders sent, dates | a list read once and worked through, crashes | **OrderReminders** |
| Prospection (`services/prospect_mailer.py`, `services/prospection.py`) | prospects, campaign, emails, suppressions | limit of 24 hours, a stop while sending, a crash after the send | **ProspectMailer** |
| Property alerts (`services/property_alerts.py`) | alerts sent | quota read before the sends, one commit at the end | **PropertyAlerts** |
| Billing (`services/bob_pause.py`, `workers/billing.py`, `services/monthly_report.py`) | the tenant's dates and stage | two tasks that read every shop at their start | **BillingNotices** |
| Quotas and limits (`services/plan_quota.py`, `services/usage_guard.py`, `workers/llm_budget.py`) | counters and levels of alert | thresholds crossed together, month ends | **UsageLimits** |
| Insurance contracts (`services/insurance_contracts.py`) | contracts and their marks | the office edits what the hourly round has loaded | **Contracts** |
| Quote requests and complaints (`services/insurance.py`, `services/assu_flow.py`, `services/insurance_complaints.py`) | quotes, complaints | turns of one customer at the same time, agreement before transmission | **InsuranceDesk** |
| Monitoring (`services/monitoring.py`) | events in Redis or memory, issues | two drains at once, commits that fail, alerts with a cooldown | **Monitoring** |
| Shop cart (`services/shop_cart.py`) | cart and lines | any old button at any time | **CartFlow**; its validation in **OrderTransactions** |
| Restaurant flow (`services/resto_flow.py`) | basket, table, schedule | the same, with a table that outlives the meal | **RestoFlow** |
| Naomy bridge (`services/naomy_bridge.py`) | pairing codes, links, events | an outbox: order, retries, a crash before the one commit | **NaomyBridge** |
| Merchant assistant (`services/merchant_assistant.py`) | messages, what Bob waits for, photos, outbox | two workers on one message, a daily limit with a reserve | **MerchantChat**, **AssistantOutbox** |
| Inbound leads (`services/inbound_leads.py`) | requests by email | an answer leaves before its row is committed | **InboundLeads** |
| Guided flows (`services/guided_flow.py`, `services/auto_flow.py`, `services/immo_flow.py`) | filters in the buttons, what was asked, screens sent | nothing may be out of reach, a failure reported late | **BrowseFlow**, **TradeFlow**, **GuidedDelivery** |
| Agent (`agents/`) | none of its own | effects of the tools, seen above | through its tools only |
| Catalogue synchronisation, sessions and passwords, tenants, templates, price guard, opportunities, studio, imports, dashboards | | | not modelled, see section 11 |

### How they interact

* A WhatsApp message is a webhook (`receive_webhook`). It finds or creates the customer and the
  conversation, **commits**, lets the agent think, and the agent's tools (`create_order`,
  `request_appointment`, ...) write in the same session, which is committed again before the answer
  is sent. So an order refused in a chat, or an appointment booked in it, is committed by the
  webhook, not by the tool.
* The dashboard's routes and the workers share nothing with the webhook but the database.
  Celery beat starts workers every few minutes without any lock: two runs may overlap.
* The seller's phone and the dashboard act on the same conversation as Bob.
* Emails leave in background tasks after the HTTP answer; WhatsApp messages leave inside the
  request, before or after the commit depending on the route.
* A button that was sent stays on the customer's screen: every flow must bear any of them, in any
  order, at any time.

### Properties that make each component correct

* Orders: units are sold once and given back once; a sale, its commission and its receipt stand or
  fall together; the customer is told once per step; a confirmed sale is final; every request ends.
* Appointments: the last place is given once; one reminder of each kind per date; the marks are
  those of the present date; one followup; cancelled is final; what the agent announces is true.
* Conversation: one conversation per customer; a waiting customer is announced and the shop is not
  pestered; Bob comes back only when he is let; an echo counts once; at most two followups, and
  only after a silence.
* Tasks of the clock: nobody is written to twice of the same thing, too often, or after he left.
* Buttons and queues: an order is what was recapped; a queue loses nothing, says nothing twice and
  never waits for ever; every product can be reached.

## 2. How sessions are modelled

The modules model what SQLAlchemy and PostgreSQL do (`core/database.py`: a session per
request, `expire_on_commit=False`, READ COMMITTED), because that is where the code can go wrong:

* **A session keeps what it has loaded.** Variables and fields named `read`, `mind`, `seen`, `slip`,
  `claim`, `row`, `known` are a request's own copy of a row. Decisions are taken on the copy, however old.
* **A flush writes the columns whose value differs from the one loaded**, and no other (`Merge`,
  `Written`). Two sessions that change different columns of a row both succeed; the same column, the
  last wins.
* **An UPDATE or SELECT FOR UPDATE holds its row until the transaction ends** (`Acquire`,
  `TakeAgenda`, `TakeRow`); a request that needs a held row is not enabled. PostgreSQL ends one
  transaction of a cycle (`DeadlockVictim`).
* **SELECT FOR UPDATE does not refresh an object the session already holds** (`Locked`): the identity
  map wins, unless the query says `populate_existing`, which the code never does.
* **A crash** (`Crash`, `...Dies`, `Break...`) undoes the open transaction and nothing else: messages
  that left have left.

Requests are constants with a `Role`, and do one thing, once (workers run again and again). A row a
request creates is known by that request, so no identifiers are invented. `MaxOpen` bounds how many
requests are inside a transaction at the same time; the theorems hold for every value of it unless
they say `MaxOpen <= 1`, the runs give it one. Definitions introduced by "Faulty variant" are plausible
bugs, used by the mutants of `PROJECT.json` and by nothing else.

## 3. Orders

`Stock` is the arithmetic of one order line on one product row: plain products, products sold by
size, dishes. `OrderLedger` is the **abstract specification**: the order book as if each request were
one indivisible step (`Create`, `MarkPaid`, `Cancel`, `MoveParcel`) and its conservation law
`Balance`. `OrderTransactions` is the code: each request statement by statement. It is shown to
implement the ledger by the refinement mapping at its end (`Ledger == INSTANCE OrderLedger WITH ...`):
the committed tables are the ledger's state, each commit is one ledger step, all else stutters.

| In the module | In the code |
|---|---|
| `AskOrder`, `ValidateCart` | `create_order_endpoint`, the agent's tool; `shop_cart.validate`, whose `lines()` loads the products first |
| `ReserveLine`, `RefuseLine` | the loop of `create_order` over the lines, each locking its product |
| `CommitOrder`, `RefuseDashboard`, `RefuseInChat` | the route's commit; HTTP 400 and no commit; the refusal answered in the chat and committed by the webhook |
| `AskPayment` ... `MailReceipt` | `mark_order_paid`: flush and commission, WhatsApp receipt, claim of the email, commit, background task |
| `AskCancel` ... `CommitCancel` | `cancel_order_route`: status as loaded, delivery, restock in the session, flush row by row, telling the customer, commit |
| `AskDelivery` ... `CommitDelivery` | `update_delivery` and `delivery_notice.notify` |

Abstractions: a basket has one line per product and a product one size; PICKED_UP and IN_TRANSIT are
SHIPPED; READY notices, the recap email, tables, schedules and fees are left out; a read of several
rows is one step; a label that no longer matches a size at restock is left out; the merchant's own
edit of a stock is not modelled (see the hazards); two tool calls of one turn are not either.

What the runs and theorems show:

* Any interleaving of orders, a payment and a delivery update implements the ledger
  (`orders_concurrent`, and theorem `ConcurrentBookIsLedger`), so nothing is oversold **as long as the
  products were not loaded before the lock**: with a cart in the crowd it is (`cart_oversell`).
* With cancellations the ledger is implemented one request at a time (`orders_serial`,
  `SerialBookIsLedger`). With two at once it is not: `cancel_race` shows a paid order cancelled, and
  for the same reason two cancellations at once give the units back twice and two updates of a
  delivery tell the customer twice.
* Payments are sound under any concurrency and any crash: one commission, one receipt email, and
  the sale whole, because `order_commissions.order_id` is unique and `receipt_to_send` claims the email
  by a conditional UPDATE. `SaleIsWhole` is proved while no order is cancelled: `cancel_race` is the
  way it would break.
* An order refused in a chat keeps the units of its first lines (`refused_in_chat`).

A receipt that waits for its background task may be lost by a crash; the code does not promise
otherwise, and no property does.

## 4. Appointments

`Appointments` models the agent's tools (`Book`, `AskAppointment`, `FindMine`, `Move`, `Quit`,
`GiveUp`, `CommitTurn`), the dashboard's routes (`LoadToConfirm`, `LoadToRemove`, `LoadToJudge`,
`FlushStaff`, `CommitStaff`) and the worker (`StartRun`, `LookAt`, `Remind`, `CommitReminder`,
`ListFollowUps`, `FollowUp`, `CommitFollowUp`, `EndRun`). The agenda's lock is the settings row that
`load_settings(lock=True)` takes; a turn of the agent holds it until the webhook commits.

Time is a counter of steps; a slot's reminder is due on the step before its own. `Clash` says which
slots overlap; slots on offer are a grid and do not overlap each other, the staff may choose any time.

Abstractions: NOT_INTERESTED behaves as SOLD; covers of a restaurant service are units and not
summed; the hours 9-19 of sends, the pause of Bob and how free slots are proposed are left out; a
refused booking does nothing; messages of the staff's own confirmation and cancellation are not
tracked; a move takes the agenda and the row in one step; the commit of a turn and its fixed message
are one step.

What the runs and theorems show:

* The last place of a slot is never given twice, with every session interleaving and crashing
  (`appt_concurrent`, `LastPlaceGivenOnce`). The staff is excluded: `confirm` takes whatever date it is
  given and checks no capacity.
* One session at a time: no reminder of a date and no followup leaves twice (`WrittenToOnce`), no
  cancelled appointment is revived, every visitor to follow up is followed up (`appt_serial`); marks are
  of the right date and announcements are true (`appt_concurrent`, in the crowds where a customer moves).
* With two sessions at once TLC breaks `WrittenToOnce` (two overlapping runs, or a worker and an
  adviser, both find the mark unset), `CancelledIsFinal` and the announcements (a row loaded before it is
  cancelled), and `MarkedForThisDate` (a worker marks the date it loaded, after a move has changed it).
  No promise in the code is about that case, so they are hazards and not findings.
* Given a new date by the staff, an appointment keeps the WhatsApp mark of the old one
  (`appt_stale_reminder`).
* A customer who moves away and back is reminded again of the same slot, and rightly so; one who
  "moves" to the slot he has resets its marks all the same. `WrittenToOnce` is proved without movers
  for that reason.

## 5. The conversation

`Conversation` is one customer with one shop. A message is `Receive` (load or create, resume, remind),
`Record` (first commit), then the AI's seconds, then `Answer` or `Transfer`, then `MailShop` (background
emails). `Echo` and `RecordEcho` are the copy of what the seller typed on his phone. `Take`, `Release`
and `CommitHand` are the dashboard's takeover; `Reply`, `SendReply`, `RecordReply` a reply from it;
`ListDue`, `FollowUp`, `RecordFollowUp` the worker. Redelivery by Meta is one more webhook: there are
`Requests` of them, and echoes share an `EchoId`.

`Short` places are inside a transaction that waits for nobody outside; `Long` ones wait for the AI,
WhatsApp or SMTP. `MaxOpen` bounds the first only, so everything interleaves with Bob's thinking in
every run. The clock does not move inside a short transaction (an hour is long).

A customer who is not known is inserted under a unique key (tenant, number): while one webhook does
it, another cannot, and its HTTP 500 makes Meta deliver again (`Customer`). A webhook that meets two
conversations of one customer fails as well (`Meets`: `scalar_one_or_none`).

Abstractions: what Bob says is a choice; guided flows and fixed texts are `Answer`; a tool that
transfers is `Transfer`, whose commit is the turn's; the reminder of a waiting customer is optional
(STOP); CLOSED and WAITING_CUSTOMER are never set by the code; consent, signatures, paid or paused
tenants, attribution and the 14-day limit of followups are left out; `heard` is the time of the
transaction that recorded the message.

What the runs and theorems show:

* With one short transaction at a time, and any number of webhooks thinking: one conversation, echoes
  once, every waiting customer announced, one reminder per interval, two followups, and no stale
  session ever gives Bob back a conversation taken from him (`conv_hands`, and a theorem for each).
* `conv_followup`: the delay of the first followup counts from `last_message_at`, which the
  customer's messages do not move, so a customer who has just written is followed up.
* With `MaxOpen = 2` and an **imported** customer (`KnownAtStart = TRUE`) TLC finds two conversations
  (after which every webhook of his fails), an echo recorded twice, two reminders in the hour, and a
  takeover overwritten by a webhook that resumes Bob from the row it had loaded. For a customer who
  was **not** known, one conversation is a theorem for every `MaxOpen`.
* With a resume delay of 0 a conversation may wait without an alert: the theorem asks for one of at
  least a unit.
* By construction of the model, as in the code: an answer under way when an adviser takes the
  conversation still leaves (the status tested is the one loaded, `api/webhooks/whatsapp.py:385`);
  a message delivered twice is answered twice; two overlapping worker runs send two followups; a crash
  between the commit that dates an alert and its email loses the alert. `Fragile` therefore holds only
  the adviser's clicks in `conv_hands`: with a webhook in it, `AlertsRight` fails for that reason.

## 6. The tasks of the clock

Celery beat starts tasks that write to customers, prospects, contacts, shops and administrators.
Each has a module; `MCWorkers` checks them in one run, a **scene** for each, chosen at the start: the
scenes share no state, and a scene where a process may die has fewer rows.

| Module | What it models | What it owes | Deliberately left out |
|---|---|---|---|
| `OrderReminders` | a run lists the unpaid orders once (`StartReminders`), then for each reads the conversation unless the session holds it, sends, commits (`Remind`, `RecordReminder`); the shop and the customers go on meanwhile | `RemindersRight`: two reminders at most, in order and apart; none once the order was settled before the run | two runs that overlap, opening hours |
| `ProspectMailer` | the campaign, the task that sends one email at a time, the mailbox (answers, stops, returns), unsubscriptions, the team's acts, erasure | `ProspectsSpared`: a suppressed address gets no email but the one being sent; each step once, in order and apart; the limit of 24 hours | rendering, hours by country, open tracking |
| `PropertyAlerts` | who is told of a listing at a price, by a click or by the automatic run | `AlertsMeasured`: again only at a lower price; the week's limit over all listings; the month's quota | how a project's words match a listing, pige, imports |
| `BillingNotices` | the two tasks that read every shop at their start and mark what they sent | `NoticesRight`: the stages of a date in order and once; one report of a month | what the page shows |
| `UsageLimits` | warnings at 80 % and 100 %, the budget of the AI, the limit of a customer's hour | `QuotasRight`: warnings only rise, the budget is told once, the answers of an hour are bounded, notices apart | products, QR codes and contact points of a plan; the costs themselves |
| `Contracts` | the office's requests on the register, and the hourly round that keeps the rows it read | `RegisterRight`: for one expiry the broker and the client are told once; what was renewed stays so | parsing of dates and premiums |
| `Monitoring` | capture, the two drains, new and returned errors, peaks, the administrators' handling, the purge | `WatchRight`: an event counts once; told once per opening; emails and peaks apart | masking, signatures, the status page |

`Workers` puts them side by side: they share no row, and `WorkersTypeOK` joins the type invariants of
each (`WorkersTypeCorrect`). Met while modelling, and true of the code though no
promise forbids it: two runs of a task that overlap send twice in `OrderReminders`,
`ProspectMailer`, `PropertyAlerts` (their runs have one task); with two billing tasks working
together the report of the month may follow a warning too soon (`Together = 1`); a change of plan
can hide the month's later warnings; popped events are lost when the drain's transaction is rolled
back, although a comment says the task will take over; the ten minutes between two emails of errors
are not kept for an error that opens again; a line of an import that is refused has already changed
the contract's expiry (`EffectBeforeExpiry`, stated and checked by no run).

## 7. Buttons, messages and queues

`Flows` puts side by side what customers and merchants do with buttons, messages and photos, and the
queues behind them; they share no row. `MCFlows` runs them scene by scene. `GuidedFlows` joins the three
modules of a guided flow under one promise, `GuidedRight`.

| Module | What it models | What it owes |
|---|---|---|
| `CartFlow` | the guided purchase: cart, mode, address, recap, validation; any button at any time, the shop edits meanwhile | `OrderedAsRecapped` |
| `RestoFlow` | from the dish to the order: modes, communes, table, later, payment | `TableIsOfThisMeal` |
| `NaomyBridge` | pairing, links, the queue of the catalogue's events and the pass that empties it | `HeardRight` (a product announced once; nothing of before the link, nothing to a link that does not share it), `EventsSettled` (no event waits for ever) |
| `AssistantOutbox` | the messages to the merchant, retries, the day's limit with places kept for alerts, what follows what | `OutboxRight` |
| `MerchantChat` | the merchant's messages, claimed by a worker or by the task of every minute; photos kept aside | `ChatRight`: one product per photo, handled once in time; unless two processes were at work together (`beside`) or one died, the photo kept until its question lapses |
| `InboundLeads` | reading the box, storing, drafting, sending; people edit meanwhile | `LeadsRight`: drafted once; unless two worked together (`crowded`), answered once and within the limits |
| `InsuranceDesk` | quote requests filled by buttons or by Bob, agreement, transmission, the firm's follow-up, complaints | `DeskRight`: nothing passed on without agreement, one mail, deadlines kept; unless two jobs overlapped (`overlapped`), whole requests, allowed steps, one open complaint |
| `BrowseFlow` | the screens that narrow the stock down at a shop, a dealer, an agency; a product is sold meanwhile | `BrowseRight`: every product is reached, each in one budget, pages whole, counts true |
| `TradeFlow` | test drives, visits, estimations and their dates | `OneCar`, `OneRequestPerQuestion` |
| `GuidedDelivery` | how screens leave, degrade and are sent again | `NotLeftUnread`; unless two sessions were at work together (`crossed`), `ReplacedOnce` |

Where a promise holds only as long as one process works at a time, the module remembers whether two ever
did: `beside`, `crowded`, `overlapped` and `crossed` are **history variables**. They are written and never
read by a step, so they change no behaviour, and the promise is the disjunction `crossed \/ ...`. It is
stated of every behaviour and not of a scene, and it can be proved. A scene "..., one at a time" keeps the
variable false, so that TLC reaches deep into what the promise is about; the other scene of the same
component lets several work, for what holds regardless.

Met while modelling, stated where useful and checked by no run: the minimum of a delivery is tested
at the choice of the mode only (`MinimumRespected`); where no commune is set, « Livraison » leads to the
welcome screen (`WelcomeWhenAsked`); a table that was named and not used stays in the cart
(`TableIsFresh`); a message is handled again when its worker is slower than ten minutes; two turns
of one customer at the same time overwrite each other's details, open two drafts or pass a request on
twice, and a late turn sets HANDLED back to SUBMITTED; an AUTO request that the AI sets to ENTREPRISE
makes « Envoyer au cabinet » come back for ever; a process that dies between the commit of a
complaint and its acknowledgement leaves it unacknowledged; `api/complaints/routes.py:102` recomputes a
deadline already announced when the firm corrects the kind; a shop's products without department are
out of reach when there are between two and ten departments; after « Peu importe » the district shown is
the first property's; « Je ne sais pas » to the year lets a second mileage in; a failure reported before
`deliver` has committed is lost, and two reports at once send twice; a message that Meta delivers again is
answered again.

## 8. The runs

Twelve runs, one for each question. Five of them must end in a violation: they show where the code
does something else than its own comments say, and their property is quoted in `findings`.

| Run | Module, cfg | Question | Distinct states |
|---|---|---|---|
| orders_concurrent | MCOrders, OrdersConcurrent | `TypeOK`, `StockConserved`, `ImplementsLedger`, `EveryRequestEnds`: two orders for the last articles in both locking orders, a payment, a delivery update, two of them fragile, all at once | 33 k |
| orders_serial | MCOrderCrowds, OrdersSerial | `ToldOncePerStep`, `LedgerOneByOne`: an order, its payment, cancellation and two delivery updates, one request at a time; `OneReceiptMail`, `OneCommission`, `SaleIsWhole`: a cart order and three confirmations at once, one after the rate was removed, all fragile. The action constraint `OneCrowdComes` lets one of the two crowds come. | 53 k |
| cart_oversell | MCOrders, CartOversell | violation of `NeverOversold` | |
| cancel_race | MCOrders, CancelRace | violation of `PaidIsFinal` | |
| refused_in_chat | MCOrders, RefusedInChat | violation of `NothingHeldForNothing` | |
| appt_concurrent | MCApptCrowds, ApptConcurrent | `NeverOverbooked`: two bookings, a move, a cancellation, staff, all at once; `MarkedForThisDate`, `AnnouncedIsTrueAlone`: one session at a time, an appointment or a table that is moved | 638 k |
| appt_serial | MCAppointments, ApptSerial | `ApptTypeOK`, `WrittenToOnce`, `CancelledIsFinal`, `FollowUpHappens`: one session at a time, two outcomes on one appointment, a worker that runs for ever | 216 k |
| appt_stale_reminder | MCAppointments, ApptStaleReminder | violation of `MarkedForThisDate` | |
| conv_hands | MCConversation, ConvSerial | the six properties of section 5 | 565 k |
| conv_followup | MCConversation, ConvFollowUp | violation of `FollowUpOnlyWhenAbandoned` | |
| workers | MCWorkers, Workers | the properties of section 6, a scene for each task | 524 k |
| flows | MCFlows, Flows | the properties of section 7, a scene or two for each component | 473 k |

Bounds, and why they are enough to be of use. Races here are between two sessions on one row; a
third changes the row between a load and a commit. So runs have one or two products with one article
each, one or two slots of capacity 1, one customer, and four to eight requests. `Horizon` is the
number of time steps: 4 lets an appointment be booked, reminded, held, judged and followed up; 2
lets a conversation wait, be reminded again, be resumed and be followed up twice. Baskets have at
most one unit of each product (two in `refused_in_chat`). The scenes of `workers` and `flows` have
two or three rows, limits of one to three, and one or two processes that die; where several
processes are needed to make a promise hard there is a scene for that. Every bound is a constant of
its module, named in a comment there, and no theorem depends on its value.

Symmetry is used in the conversation runs only, on the webhooks, which differ in nothing, and with
invariants and action properties only. The scenes of `flows` leave out by name, with a comment each, steps
that only repeat another one (the first email is about the first request, one process takes all the
messages that come one at a time, a first message that changes nothing). Deadlock is checked in every run but `workers` and `flows`,
whose scenes end when their bounds are reached; elsewhere a state where nothing is left to do is a
named disjunct of `Next`.

## 9. Fairness

Three properties are about what must happen, under weak fairness only.

* `EveryRequestEnds` under `OrderTransactions!FairSpec`: each request that is being served goes on when
  it can (asyncio schedules it; a row lock is granted when free). A client decides whether a request is
  made, so the arrival of a request has no fairness, and neither has `Crash`. Weak fairness is enough
  since each request does one thing: a lock cannot be taken away for ever. Deadlocks are real in this
  run (two orders, two products, both orders of locking); the property holds because PostgreSQL breaks
  them.
* `FollowUpHappens` under `Appointments!FairSpec`: the clock, the worker (beat starts it for ever), and
  requests in hand.
* `EventsSettled` under the three conjuncts of `FlowsSpec`: beat starts a pass (`BeginPass`), a pass that
  has begun goes on to its end (`PassStep \/ EndPass`), and the delay of a retry runs out
  (`MinutePasses`). `Alone` confines them to the scene of the bridge. What Naomy answers is never fair.

## 10. The proofs

A theorem holds for every value of the constants that the modules' `ASSUME`s allow: any number of
requests, rows, prospects, products and crashes, where a run has a handful. TLC evaluates the
assumptions in every run. They say little: counts are natural numbers, what is summed or ranked is a finite
set, and the names a module tells apart differ (`TradeAssumption`: a model is not called "year", no slot is
"none"). Where a theorem has a hypothesis of its own it is about who is in the crowd,
and it is there because without it the property is false of the code (sections 3 to 7 say how).

| Theorem | Says | Hypotheses | Argument |
|---|---|---|---|
| **OrderTransactions_proofs** | | | |
| `TypeCorrect` | `TypeOK` | none | `TypeOK` alone is not inductive: that a stock stays a natural number needs what each request holds at each place. `InHand` says that. |
| `ReceiptMailedOnce` | `OneReceiptMail` | none | `PaymentInv`: one request at a time holds the order's row from the flush to the commit; who claims the email found the mark unset while holding it, and the mark is set by the same commit. |
| `CommissionDueOnce` | `OneCommission` | none | `PaymentInv`: a payer with a commission in hand holds the row and found none. |
| `SaleStandsOrFalls` | `SaleIsWhole` | nobody cancels | `Sales`: sale, commission and claim are written by one commit, and only a cancellation undoes a sale. |
| `ConcurrentBookIsLedger` | `ImplementsLedger` | dashboard orders, payers, couriers | `CopiesAreTrue`, `LocksHeld`: what a session decides on is the row it has locked. Each commit is a step of the ledger, each other step a stutter. |
| `SerialBookIsLedger` | `ImplementsLedger` | with cancellations, `MaxOpen <= 1` | `Alone`: while a session works, the tables are those it read. |
| `PaidStaysPaid` | a confirmed sale is never cancelled | the same | from the refinement and `Alone`. |
| `StockIsConserved` | `StockConserved` | one of the two crowds above | the ledger conserves the sum of what is on the shelf and what the orders that stand hold; the sum over the orders is taken by induction (see below). |
| `LastArticleSoldOnce` | `NeverOversold` | the same | from the conservation: what is on the shelf is not negative. |
| `ToldOnceServedAlone` | `ToldOncePerStep` | `MaxOpen <= 1`, no courier's click dies | `Telling`, `OneByOne`. |
| **Appointments_proofs** | | | |
| `ApptTypeCorrect` | `ApptTypeOK` | none | with `Working`: a session that works has an appointment. |
| `LastPlaceGivenOnce` | `NeverOverbooked` | `CustomersOnly`: the staff imposes no date | `AgendaInv`: what a session will write keeps the date it read (`Keeps`), or is a booking by the holder of the agenda who found room (`Books`), or has no date (`Asks`). |
| `CancelledOnce` | `CancelledIsFinal` | `MaxOpen <= 1` | `AloneInv`. |
| `AnnouncedAsWritten` | each step announces what the agenda says (`TrueAnnouncements`) | `MaxOpen <= 1` | `OneByOne`: a commit writes the row as the turn has it, and the message that follows says that row. |
| `RemindersOfThisDate` | `MarkedForThisDate` | `MaxOpen <= 1`, customers only | `HonestInv`. |
| `OneReminderOneFollowUp` | `WrittenToOnce` | `MaxOpen <= 1`, nobody moves, one adviser confirms, no worker dies between a message and its mark | `ReminderInv`, `FollowUpInv`. |
| **Conversation_proofs** | | | |
| `ConvTypeCorrect` | `ConvTypeOK` | none | with `Sessions`, `Fresh`. |
| `NewCustomerHasOneConversation` | `OneConversation` | the customer was not known | `MeetInv`: until he is committed there is one session at work; his conversation appears with him. |
| `EchoRecordedOnce` | `EchoOnce` | `MaxOpen <= 1` | `EchoInv`. |
| `BobWaitsToBeLet` | `BobComesBackOnlyWhenLet` | `MaxOpen <= 1` | `HandInv`: no session at work brings an older status back. |
| `TwoFollowUpsAtMost` | `AtMostTwoFollowUps` | not known before, one worker that does not die half-way | `NudgeInv`. |
| `EveryWaitingCustomerIsAnnounced` | `AlertsRight` | `MaxOpen <= 1`, a resume delay, webhooks that do not die | `WarnInv`, `RemindInv`. |
| **Outreach_proofs** | | | |
| `RemTypeCorrect`, `RemindersHold` | `RemTypeOK`, `RemindersRight` | none (one run at a time is in the model) | `RemInv`: what the run is about to record, what was told, and the count on the row agree, with one more for each run that died. |
| `AlertTypeCorrect`, `MailTypeCorrect` | `AlertTypeOK`, `MailTypeOK` | none, any number of runs and tasks at once | `AlertRows`; `MailRows` with `LimitInv`, which gives the ranges of the counts. |
| `AlertsAreMeasured` | `AlertsMeasured` | one run at a time | `AlertInv`: what the run holds is what the base will say; the month's and the week's counts with what the run has sent stay under the measure. |
| `KeptApart` | `PutApartForEver` | none | `Apart`: what left late and the tasks that were sending make at most one by task. |
| `LimitHolds` | `LimitPerDay` | none | `LimitInv`: for every past day, what left since is recorded since, lost, or in the hands of a task that has sent; and what left in 24 hours with what is about to leave is within the limit. |
| `ProspectsAreSpared` | `ProspectsSpared` | one task at a time (`OneSender`) | `StepsInv`: the row of a prospect, the task that works on it and what left tell the same. |
| **Platform_proofs** | | | |
| `PolicyTypeCorrect`, `RegisterHolds` | types, `RegisterRight` | none | `PolicyInv`: the marks of a contract are those of its expiry, in the base or in the hands of the round. |
| `WatchTypeCorrect`, `ErrorsToldRight` | types, `WatchRight` | none | `RowsInv`: what a drain read is still the row, or counts no more than there is to count; what a row has of openings is older than its number; the occurrences kept are of the row. `MailsInv`: the emails an error was in, and one more while it is to be told, are at most its openings and the deaths; the rows and the task in hand remember the emails that left. |
| `BillTypeCorrect`, `StagesGoInOrder` | types, `StagesInOrder` | none | `BillInv`. |
| `NoticesHold` | `NoticesRight` | `Together <= 1` | `ReportInv`: one task tells of the month. |
| `UsageTypeCorrect`, `QuotasHold` | types, `QuotasRight` | none | `UsageInv`. |
| `WorkersTypeCorrect` | `WorkersTypeOK` | none | the conjunction of the seven. |
| **Flows_proofs** | | | |
| `CartTypeCorrect`, `OrderIsAsRecapped` | types, `OrderedAsRecapped` | none | `CartInv`: what the last recap or the customer's own answer said is what the cart holds. |
| `RestoTypeCorrect`, `TableOfThisMeal` | types, `TableIsOfThisMeal` | none | `RestoInv`. |
| `NaomyTypeCorrect`, `NaomyHearsRight` | types, `HeardRight` | none | `NaomyInv`: of two events of one product the second leaves only when the first never will (`FirstIsOver`); what was heard of an event is at most the passes that died and what is marked sent (`HeardAgain`); what a link hears is younger than the link (`Shared`). |
| `BoxTypeCorrect`, `MerchantHearsRight` | types, `OutboxRight` | none | `BoxInv`: what left in the day is what the rows say plus what the pass has just sent (`Room`), unless a pass died; a row that waits follows one that is still due (`Menus`); the alerts of one matter are told apart by their age (`OncePerMatter`). |
| `ChatTypeCorrect`, `ChatHolds` | types, `ChatRight` | none | `ChatInv`: a photo that made a product is off the shelf (`MadeOnce`); for ten minutes a message is in one hand from its claim to its end (`InOneHand`); unless `beside`, what each hand read of the awaited answer is the row (`RowIsTrue`), and the photo it names is on the shelf (`PhotosKept`). |
| `LeadsTypeCorrect`, `LeadsHold` | types, `LeadsRight` | none | `LeadsInv`: who drafts has claimed a request nobody drafts or drafted (`OnceDrafted`); unless `crowded`, who is about to store found room in the month (`MonthHolds`), and what was answered is what the rows say, plus the answer in hand, plus one for each death (`AnswersHold`). |
| `DeskTypeCorrect`, `DeskHolds` | types, `DeskRight` | none | `DeskInv`: what a job has read is behind the table: the agreements it saw are still there (`QuotesBehind`), and so are the corrections (`FiledBehind`), which is why writing it back takes none away. Unless `overlapped`, what a job has read is the table, the requests that left are whole, a branch has one open request and Bob's complaints one in hand. |
| **Guided_proofs** | | | |
| `GuidedTypeCorrect`, `GuidedHolds` | types, `GuidedRight` | none | `BrowseInv`: the screen is typed, each row is a filter with its count, and until the stock changes a page is what comes next and the counts are right; that every product is reached is a lemma about the questions themselves, each leading to filters that keep what suits (`ReachesEverything`), and so is that the budgets share the products out (`EachHasOneBudget`, from the ranks of the prices). `TradeInv`: the car is one of the shapes its three parts have in order (`CarWritten`), the requests in words are at most the questions asked (`WordsCounted`), and a slot has one request and is no longer open (`SlotsHeld`). `DeliveryInv`: what replaces a screen is simpler (`SimplerIsSent`); who heard of a failure replaces it or has (`FailureHeard`); unless `crossed`, the replacements of a message are at most the deaths, its mark, and the session about to mark it (`OneAtATime`). |
| `FlowsTypeCorrect` | `FlowsTypeOK` | none | the conjunction of the ten. |

`MaxOpen <= 1` means one transaction open at a time, which is what a small shop with one worker sees
almost always and what the code is written for; the runs and section 3 to 5 say what happens beyond it.
`OneSender` and "one run at a time" are how beat starts these tasks as long as none is slower than its
period; `ProspectMailer` and `PropertyAlerts` also allow several, and the theorems without hypothesis
cover them.

**Induction over data.** A sum over the orders, a queue from which rows are taken, a count of rows are
defined by recursion, and the library's induction theorems take an operator as a parameter, which the
installed provers cannot instantiate. `DataInduction` goes round it with a theorem about sets: a set of
numbers that has 0, and n + 1 with n, is `Nat` (`NatSetInduction`, from the well-foundedness of `<` on
`Nat`). From it follow that a finite set of numbers has a greatest (`HasGreatest`), that its elements can
be put in an order (`InSomeOrder`), that the elements of a sequence which satisfy a condition are as many
as the sequence made of them (`SomeOfThem`, which the occurrences of an error and the queues rest on), what `SumFunctionOnSet` computes (`SumTakesAway`, `SumAgrees`), which the
conservation of the stock rests on, and, in `Outreach_proofs`, that `Without` takes the rows of one
prospect away and keeps the count of the others (`WithoutCounts`). The recursion is a function
(`f[n \in 0..k]`), whose existence is proved in the same way (`KeptRuleHasOne`).

**What stays with TLC.** Liveness (`EveryRequestEnds`, `FollowUpHappens`, `EventsSettled`) and everything
about ENABLED, out of the prover's reach. `AnnouncedIsTrueAlone` and `LedgerOneByOne`, which are about the
crowd of one run; `AnnouncedAsWritten` and `SerialBookIsLedger` are the general statements. The five runs that end in a violation show what is false, which a theorem cannot. Every
other property of a run is stated by a theorem.

## 11. What is not modelled

* The content of what the model (LLM) writes, and of every message: no property is about wording.
* Parsing and generation: imports, PDF, images, posters, reports, dashboards, prompts.
* Cryptography and HTTP details: signatures, tokens, headers.
* Handlers that validate a form and write one row of their own tenant (tenants, templates, settings).
* Read models: opportunities, statistics, pages; the payment link page and the static front end.
* The catalogue's synchronisation with a remote shop: its merge with local edits is the next module.
* Accounts and sessions: rows with an expiry; a later module.
* What a note in `components` names as left out of each modelled part.

PostgreSQL, SQLAlchemy, Meta, Gmail, Naomy, Celery beat and the clock are outside `src/`; the few
definitions that stand for them are marked external in the map.

## 12. The plan

Done: the modules of sections 3 to 7, their runs, and the theorems of section 10.

Next modules: `CatalogueSync` with `Stock` (the merge against the reservations), `Sessions` (rotation, grace,
revocation), and one run of pure operators over small inputs (`free_slots` and `_spread` of
`services/booking.py`, the price guard), each against a reference definition.
