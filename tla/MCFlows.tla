------------------------------- MODULE MCFlows ------------------------------
(***************************************************************************)
(* What a customer or a merchant does with buttons and messages, and the   *)
(* link with Naomy: one run, a scene for each, chosen at the start.  The   *)
(* scenes share nothing.  Where a bound or a promise only holds with one   *)
(* process, a scene of its own has one.                                    *)
(***************************************************************************)
EXTENDS Flows, TLC

CONSTANTS g1, t1, j1

VARIABLE scene

flowVars == <<scene, cartVars, restoVars, naomyVars, boxVars, chatVars, leadVars, insuranceVars, browseVars, tradeVars, deliveryVars>>

Contents_ == {[known |-> TRUE, active |-> TRUE, photo |-> p, stock |-> 1] : p \in BOOLEAN}
Backoff_  == <<1>>
GuidedTurns_ == {<<"cards">>, <<"photo", "buttons">>}

\* The stocks of a shop, a dealer and an agency: products of given kinds, in order.
Plain == [photo |-> TRUE, cond |-> Unknown, body |-> Unknown, price |-> 10, kind |-> Unknown, city |-> Unknown,
          district |-> Unknown, tx |-> Unknown, offer |-> FALSE]
InShop == <<[Plain EXCEPT !.kind = "1"], [Plain EXCEPT !.kind = "1", !.photo = FALSE], [Plain EXCEPT !.kind = "2", !.offer = TRUE],
            [Plain EXCEPT !.kind = "3"], Plain, [Plain EXCEPT !.photo = FALSE]>>
AtDealer == <<[Plain EXCEPT !.cond = "N", !.body = "a", !.price = 4], [Plain EXCEPT !.cond = "N", !.body = "b", !.price = 60],
              [Plain EXCEPT !.cond = "O", !.body = "a", !.price = 60, !.photo = FALSE], [Plain EXCEPT !.cond = "O", !.price = 130], Plain>>
InAgency == <<[Plain EXCEPT !.tx = "L", !.kind = "1", !.city = "1", !.district = "1", !.price = 4],
              [Plain EXCEPT !.tx = "L", !.kind = "1", !.city = "1", !.district = "2", !.price = 60],
              [Plain EXCEPT !.tx = "L", !.kind = "1", !.city = "2", !.district = "1", !.price = 60],
              [Plain EXCEPT !.tx = "L", !.kind = "2", !.city = "3", !.price = 130],
              [Plain EXCEPT !.kind = "1", !.district = "2", !.price = 130],
              [Plain EXCEPT !.tx = "V", !.kind = "2", !.city = "1", !.district = "1"]>>
Ordered(kinds, most) ==
    {[i \in DOMAIN s |-> kinds[s[i]]] : s \in {s \in UNION {[1..n -> DOMAIN kinds] : n \in 0..most} :
                                                \A i, j \in DOMAIN s : i < j => s[i] <= s[j]}}
StockOf_ == [shop |-> Ordered(InShop, 3), dealer |-> Ordered(AtDealer, 4), agency |-> Ordered(InAgency, 4)]

Scenes == {"cart", "restaurant", "naomy", "outbox",
           "chat", "chat, one at a time", "leads", "leads, one at a time",
           "quotes", "quotes, one at a time", "complaints", "complaints, one at a time",
           "browsing",
           "asking",
           "screens", "screens, one at a time"}

\* What a scene may choose at its start is fixed in the others.
FlowsInit ==
    /\ scene \in Scenes
    /\ DeliveryInit
    /\ TradeInit     /\ (scene # "asking" => ~agency)
    /\ BrowseInit    /\ (scene # "browsing" => trade = "shop" /\ stock = <<>>)
    /\ CartInit      /\ (scene # "cart" => settings = {} /\ ~habit)
    /\ RestoInit     /\ (scene # "restaurant" => kitchen.modes = {"DELIVERY"} /\ kitchen.zones = {} /\ ~home)
    /\ InsuranceInit /\ (scene \notin {"complaints", "complaints, one at a time"} => delay = 1)
    /\ NaomyInit /\ BoxInit /\ ChatInit /\ LeadsInit

CartScene ==
    /\ scene = "cart" /\ CartNext /\ (habit => Len(placed') <= 1)
    /\ UNCHANGED <<restoVars, naomyVars, boxVars, chatVars, leadVars, insuranceVars, browseVars, tradeVars, deliveryVars>>

\* A closed kitchen serves its dishes; a known address bounds the orders, as a
\* habit does in the cart.
RestoScene ==
    /\ scene = "restaurant" /\ RestoNext /\ (kitchen'.open \/ kitchen'.served) /\ (home => meals' <= 1)
    /\ UNCHANGED <<cartVars, naomyVars, boxVars, chatVars, leadVars, insuranceVars, browseVars, tradeVars, deliveryVars>>

\* The catalogue moves before a link is asked for, or once it was accepted.
NaomyScene ==
    /\ scene = "naomy" /\ NaomyNext /\ Len(queue') <= 3 /\ (saves' = 0 \/ asked' \in {"no", "ACCEPTED"})
    /\ UNCHANGED <<cartVars, restoVars, boxVars, chatVars, leadVars, insuranceVars, browseVars, tradeVars, deliveryVars>>

\* Matters change only where it makes a difference: not while Bob is switched
\* off, which forgets them, nor while they are announced, nor during a pass,
\* which does not look at them.
OutboxScene ==
    /\ scene = "outbox" /\ BoxNext
    /\ \A m \in matter' \ matter : assistantOn /\ ~sendPass.on /\ ~AlertExists(m)
    /\ sendPass.on => matter' \in {matter, {}}
    /\ UNCHANGED <<cartVars, restoVars, naomyVars, chatVars, leadVars, insuranceVars, browseVars, tradeVars, deliveryVars>>

\* A first message that is neither a photo nor a whole draft leaves all as it was.
ChatScene ==
    /\ scene \in {"chat", "chat, one at a time"} /\ ChatNext
    /\ notes'[1].kind = "photo" \/ notes'[1].says \in {"nothing", "both"}
    /\ \/ scene = "chat" /\ handDeaths' = 0 /\ (awaits # awaits' => awaits' # Lapsed(awaits))
       \/ scene = "chat, one at a time" /\ ~beside'
    /\ UNCHANGED <<cartVars, restoVars, naomyVars, boxVars, leadVars, insuranceVars, browseVars, tradeVars, deliveryVars>>

\* The requests are alike: the first email is about the first of them.
LeadsScene ==
    /\ scene \in {"leads", "leads, one at a time"} /\ LeadsNext
    /\ box' # <<>> => box'[1].of = CHOOSE r \in Requests : TRUE
    /\ \/ scene = "leads" /\ leadDeaths' = 0 /\ ~automatic' /\ ~\E a \in People : Busy(a)'
       \/ scene = "leads, one at a time" /\ ~crowded' /\ ~\E t \in Readers \ {t1} : Busy(t)'
    /\ UNCHANGED <<cartVars, restoVars, naomyVars, boxVars, chatVars, insuranceVars, browseVars, tradeVars, deliveryVars>>

\* The customer's messages are alike: one at a time, one process takes them all.
InsuranceScene ==
    /\ scene \in {"quotes", "quotes, one at a time", "complaints", "complaints, one at a time"} /\ InsuranceNext
    /\ scene \in {"quotes, one at a time", "complaints, one at a time"} => \A j \in Webhooks \ {j1} : job'[j] = Idle
    /\ \/ scene = "quotes" /\ filed' = filed /\ awaited' # "complaint" /\ delay' = 1 /\ turns' <= 3 /\ deskDone' = 0
       \/ scene = "quotes, one at a time" /\ filed' = filed /\ awaited' # "complaint" /\ delay' = 1 /\ ~overlapped' /\ turns' <= 3
       \/ scene = "complaints" /\ quotes' = quotes /\ awaited' \in {NoAnswer, "complaint"} /\ turns' <= 2 /\ deskDone' <= 1
       \/ scene = "complaints, one at a time" /\ quotes' = quotes /\ awaited' \in {NoAnswer, "complaint"} /\ ~overlapped'
    /\ UNCHANGED <<cartVars, restoVars, naomyVars, boxVars, chatVars, leadVars, browseVars, tradeVars, deliveryVars>>

BrowseScene ==
    /\ scene = "browsing" /\ BrowseNext
    /\ UNCHANGED <<cartVars, restoVars, naomyVars, boxVars, chatVars, leadVars, insuranceVars, tradeVars, deliveryVars>>

TradeScene ==
    /\ scene = "asking" /\ TradeNext
    /\ UNCHANGED <<cartVars, restoVars, naomyVars, boxVars, chatVars, leadVars, insuranceVars, browseVars, deliveryVars>>

DeliveryScene ==
    /\ scene \in {"screens", "screens, one at a time"} /\ DeliveryNext
    /\ scene = "screens, one at a time" => ~crossed'
    /\ UNCHANGED <<cartVars, restoVars, naomyVars, boxVars, chatVars, leadVars, insuranceVars, browseVars, tradeVars>>

FlowsNext ==
    /\ CartScene \/ RestoScene \/ NaomyScene \/ OutboxScene \/ ChatScene \/ LeadsScene \/ InsuranceScene \/ BrowseScene \/ TradeScene \/ DeliveryScene
    /\ UNCHANGED scene

\* The task of every minute starts and ends, and minutes pass.
Alone(A) == scene = "naomy" /\ A /\ UNCHANGED <<scene, cartVars, restoVars, boxVars, chatVars, leadVars, insuranceVars, browseVars, tradeVars, deliveryVars>>

FlowsSpec ==
    /\ FlowsInit /\ [][FlowsNext]_flowVars
    /\ WF_flowVars(Alone(BeginPass)) /\ WF_flowVars(Alone(PassStep \/ EndPass)) /\ WF_flowVars(Alone(MinutePasses))
=============================================================================
