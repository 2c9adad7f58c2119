------------------------------ MODULE BrowseFlow -----------------------------
(***************************************************************************)
(* The customer looks for a product with buttons: the departments of a     *)
(* shop, the condition and the budget at a dealer's, the type, the town,   *)
(* the district and the budget at an estate agency's, then the pages of    *)
(* cards and lines (guided_flow.py, auto_flow.py, immo_flow.py).           *)
(*                                                                         *)
(* A button carries the filters chosen so far: the screen is computed from *)
(* them and from the stock of the moment.  A product is sold meanwhile.    *)
(***************************************************************************)
EXTENDS Integers, Sequences, FiniteSets

CONSTANTS Page,      \* products of a page, and cards of a carousel (10 in the code)
          MaxRows,   \* rows of a list of choices (10 in the code)
          StockOf    \* [trades -> the stocks to start from]

VARIABLES trade,     \* "shop", "dealer" or "agency"
          stock,     \* the active products that are in stock, the latest first
          screen,    \* the last screen sent
          profile,   \* what is noted of the customer
          fresh      \* nothing was sold since the screen was sent

browseVars == <<trade, stock, screen, profile, fresh>>

Unknown == "?"
NoBound == -1

\* Photo, new or used (said, or from the mileage), body, price, department or
\* type, town, district, sale or rent, on offer.
Product == [photo : BOOLEAN, cond : {"N", "O", Unknown}, body : {"a", "b", Unknown}, price : Nat,
            kind : {"1", "2", "3", Unknown}, city : {"1", "2", "3", Unknown}, district : {"1", "2", Unknown},
            tx : {"L", "V", Unknown}, offer : BOOLEAN]

AllOf == [c |-> Unknown, b |-> Unknown, low |-> NoBound, high |-> NoBound, t |-> Unknown, p |-> Unknown,
          v |-> Unknown, q |-> Unknown, offers |-> FALSE]

Same(filter, value) == filter = Unknown \/ filter = value

\* A product of which the condition, or sale or rent, is not known passes.
Keep(p, f) ==
    /\ p.cond = Unknown \/ Same(f.c, p.cond)
    /\ p.tx = Unknown \/ Same(f.t, p.tx)
    /\ Same(f.b, p.body) /\ Same(f.p, p.kind) /\ Same(f.v, p.city) /\ Same(f.q, p.district)
    /\ f.low # NoBound => p.price >= f.low
    /\ f.high # NoBound => p.price < f.high
    /\ f.offers => p.offer

\* The products of a filter, by their place in the stock; listed in this order.
Fitting(f) == {i \in DOMAIN stock : Keep(stock[i], f)}

Count(f) == Cardinality(Fitting(f))

InOrder(places) ==
    [n \in 1..Cardinality(places) |-> CHOOSE i \in places : Cardinality({j \in places : j < i}) = n - 1]

Suiting(f) == InOrder(Fitting(f))

Elements(s) == {s[i] : i \in DOMAIN s}

Values(f, attribute) == {stock[i][attribute] : i \in Fitting(f)} \ {Unknown}

ASSUME BrowseAssumption ==
    /\ Page \in Nat \ {0} /\ MaxRows \in Nat \ {0}
    /\ DOMAIN StockOf \subseteq {"shop", "dealer", "agency"} /\ \A t \in DOMAIN StockOf : StockOf[t] \subseteq Seq(Product)

--------------------------------------------------------------------------------
(* The choices of each question: a question of one answer is skipped.      *)

\* The most frequent, one row being kept for « Peu importe » or « Tout voir ».
Foremost(number) ==
    LET all  == DOMAIN number
        room == IF Cardinality(all) < MaxRows THEN Cardinality(all) ELSE MaxRows - 1
    IN CHOOSE s \in SUBSET all : Cardinality(s) = room /\ \A v \in s, w \in all \ s : number[v] >= number[w]

Departments(f) ==
    LET all == Values(f, "kind") IN
    IF Cardinality(all) < 2 THEN {f}
    ELSE IF Cardinality(all) <= MaxRows THEN {[f EXCEPT !.p = k] : k \in all}
    ELSE {[f EXCEPT !.p = k] : k \in Foremost([k \in all |-> Count([f EXCEPT !.p = k])])} \cup {f}

Conditions(f) ==
    IF {"N", "O"} \subseteq Values(f, "cond") THEN {[f EXCEPT !.c = c] : c \in {"N", "O", Unknown}} ELSE {f}

Types(f) == {[f EXCEPT !.p = k] : k \in {stock[i].kind : i \in Fitting(f)}}

Towns(f) ==
    LET all == Values(f, "city") IN
    IF Cardinality(all) < 2 THEN {f}
    ELSE {[f EXCEPT !.v = x] : x \in Foremost([x \in all |-> Count([f EXCEPT !.v = x])])} \cup {f}

Districts(f) ==
    LET all == Values(f, "district") IN
    IF Cardinality(all) < 2 THEN {f}
    ELSE {[f EXCEPT !.q = x] : x \in Foremost([x \in all |-> Count([f EXCEPT !.q = x])])} \cup {f}

\* A round bound: a multiple of 5 times a power of ten, two digits kept.
StepOf[value \in Nat] == IF value < 100 THEN 5 ELSE 10 * StepOf[value \div 10]

Nice(value) == ((value + StepOf[value] - 1) \div StepOf[value]) * StepOf[value]

\* The n-th price from the lowest, n from 0.
NthPrice(price, n) ==
    LET all == DOMAIN price
        below(i) == {j \in all : price[j] < price[i] \/ (price[j] = price[i] /\ j < i)}
    IN price[CHOOSE i \in all : Cardinality(below(i)) = n]

\* Three parts of about as many products, two when the bounds are equal.
Bounds(f) ==
    LET price == [i \in Fitting(f) |-> stock[i].price]
        low   == Nice(NthPrice(price, Count(f) \div 3))
        high  == Nice(NthPrice(price, (2 * Count(f)) \div 3))
    IN IF high > low THEN {<<NoBound, low>>, <<low, high>>, <<high, NoBound>>} ELSE {<<NoBound, low>>, <<low, NoBound>>}

Tranches(f) == {g \in {[f EXCEPT !.low = b[1], !.high = b[2]] : b \in Bounds(f)} : Count(g) > 0}

Budgets(f) == IF Count(f) <= Page THEN {f} ELSE Tranches(f) \cup {f}

\* « Affiner »: the values of what is not chosen yet, ten rows at most.
Refinements(f) ==
    LET all == Values(f, "body") IN
    IF f.b # Unknown \/ Cardinality(all) < 2 THEN {} ELSE {[f EXCEPT !.b = x] : x \in all}

--------------------------------------------------------------------------------
(* The screens                                                             *)

Choice(to, f, n) == [to |-> to, f |-> f, page |-> n, count |-> Count(f)]

NewScreen(name, f, rows) ==
    [name |-> name, f |-> f, rows |-> rows, page |-> 0, cards |-> <<>>, lines |-> <<>>, left |-> 0]

Ask(name, next, fs) == NewScreen(name, AllOf, {Choice(next, f, 0) : f \in fs})

\* Nothing suits: back to the menu, or to every vehicle.
NothingSuits(f) == NewScreen("none", f, {Choice(IF trade = "dealer" THEN "list" ELSE "menu", AllOf, 0)})

\* A page: a carousel of those with a photo from two, lines for the others (one
\* alone is shown in full).
PageOf(f, n) ==
    LET ks    == Suiting(f)
        chunk == SubSeq(ks, n * Page + 1, IF n * Page + Page < Len(ks) THEN n * Page + Page ELSE Len(ks))
        withPhoto == InOrder({i \in Elements(chunk) : stock[i].photo})
        without   == InOrder({i \in Elements(chunk) : ~stock[i].photo})
        cards == IF Len(withPhoto) >= 2 THEN withPhoto ELSE <<>>
        lines == IF Len(withPhoto) >= 2 THEN without ELSE withPhoto \o without
        more  == Len(ks) > n * Page + Page
    IN [name |-> "list", f |-> f, page |-> n, cards |-> cards, lines |-> lines, left |-> Len(ks) - n * Page - Len(chunk),
        rows |-> (IF more THEN {Choice("list", f, n + 1)} ELSE {})
                   \cup (IF trade = "dealer" /\ Len(ks) > Page /\ Refinements(f) # {} THEN {Choice("refine", f, 0)} ELSE {})]

Catalogue ==
    IF stock = <<>> THEN NothingSuits(AllOf)
    ELSE IF Departments(AllOf) = {AllOf} THEN PageOf(AllOf, 0) ELSE Ask("departments", "list", Departments(AllOf))

\* At a shop, a department that is gone, or a page past the end, leads to the catalogue.
Listing(f, n) ==
    LET past == n * Page >= Count(f) IN
    IF trade = "shop" /\ f.p # Unknown /\ f.p \notin Values(AllOf, "kind") THEN Catalogue
    ELSE IF Count(f) = 0 THEN NothingSuits(f)
    ELSE IF past /\ trade = "shop" THEN Catalogue
    ELSE PageOf(f, IF past THEN 0 ELSE n)

BudgetQuestion(f) == IF Count(f) <= Page THEN Listing(f, 0) ELSE Ask("budget", "list", Budgets(f))

DistrictQuestion(f) == IF Districts(f) = {f} THEN BudgetQuestion(f) ELSE Ask("district", "budget", Districts(f))

TownQuestion(f) == IF Towns(f) = {f} THEN DistrictQuestion(f) ELSE Ask("town", "district", Towns(f))

OneType(f) == Cardinality(Types(f)) = 1

Only(fs) == CHOOSE g \in fs : TRUE

TypeQuestion(f) ==
    IF Count(f) = 0 THEN NothingSuits(f)
    ELSE IF OneType(f) THEN TownQuestion(Only(Types(f)))
    ELSE Ask("type", "town", Types(f))

ConditionQuestion ==
    IF stock = <<>> THEN NothingSuits(AllOf)
    ELSE IF Conditions(AllOf) = {AllOf} THEN BudgetQuestion(AllOf) ELSE Ask("condition", "budget", Conditions(AllOf))

Refine(f) == IF Refinements(f) = {} THEN Listing(f, 0) ELSE Ask("refine", "list", Refinements(f))

Menu ==
    NewScreen("menu", AllOf,
        IF trade = "agency" THEN {Choice("type", [AllOf EXCEPT !.t = t], 0) : t \in {"L", "V"}}
        ELSE {Choice("start", AllOf, 0)}
               \cup IF trade = "shop" /\ \E i \in DOMAIN stock : stock[i].offer
                    THEN {Choice("list", [AllOf EXCEPT !.offers = TRUE], 0)} ELSE {})

Answer(row) == CASE row.to = "start"    -> IF trade = "shop" THEN Catalogue ELSE ConditionQuestion
                 [] row.to = "type"     -> TypeQuestion(row.f)
                 [] row.to = "town"     -> TownQuestion(row.f)
                 [] row.to = "district" -> DistrictQuestion(row.f)
                 [] row.to = "budget"   -> BudgetQuestion(row.f)
                 [] row.to = "refine"   -> Refine(row.f)
                 [] row.to = "list"     -> Listing(row.f, row.page)
                 [] OTHER               -> Menu

--------------------------------------------------------------------------------
\* The first of the products of the filter gives the place its name.
PlaceOf(f) == LET p == stock[Suiting(f)[1]] IN IF f.q # Unknown THEN <<p.city, p.district>> ELSE <<p.city>>

\* What a tap notes of the customer of an agency: his project, the type, the
\* place, the budget, and the search that « Voir d'autres biens » shows again.
NotedByAgency(row, new) ==
    [profile EXCEPT
        !.project = row.f.t,
        !.kind = IF row.to = "town" THEN row.f.p
                 ELSE IF row.to = "type" /\ OneType(row.f) THEN Only(Types(row.f)).p ELSE @,
        !.zone = IF row.to \in {"district", "budget"} /\ (row.f.v # Unknown \/ row.f.q # Unknown) /\ Count(row.f) > 0
                 THEN PlaceOf(row.f) ELSE @,
        !.budget = IF row.to = "list" /\ row.page = 0 /\ <<row.f.low, row.f.high>> # <<NoBound, NoBound>>
                   THEN <<row.f.low, row.f.high>> ELSE @,
        !.search = IF row.to = "list" THEN <<row.f>>
                   ELSE IF new.name = "list" \/ (new.name = "none" /\ row.to # "type") THEN <<new.f>> ELSE @]

\* And of a dealer: new or used, and his budget.
NotedByDealer(row) ==
    [profile EXCEPT
        !.condition = IF screen.name = "condition" THEN row.f.c ELSE @,
        !.budget = IF row.to = "list" /\ row.page = 0 /\ <<row.f.low, row.f.high>> # <<NoBound, NoBound>> /\ row.f.b = Unknown
                   THEN <<row.f.low, row.f.high>> ELSE @]

BrowseInit ==
    /\ trade \in DOMAIN StockOf /\ stock \in StockOf[trade]
    /\ screen = Menu /\ fresh = TRUE
    /\ profile = [project |-> Unknown, condition |-> Unknown, kind |-> Unknown, zone |-> <<>>, budget |-> <<>>, search |-> <<>>]

TapRow == \E row \in screen.rows :
    /\ screen' = Answer(row)
    /\ profile' = CASE trade = "agency" /\ row.to # "menu" -> NotedByAgency(row, screen')
                    [] trade = "dealer" -> NotedByDealer(row)
                    [] OTHER -> profile
    /\ fresh' = TRUE
    /\ UNCHANGED <<trade, stock>>

\* « Voir d'autres biens » under a listing.
SeeOthers ==
    /\ trade = "agency" /\ screen.name = "list"
    /\ screen' = IF profile.search = <<>> THEN Menu ELSE Listing(profile.search[1], 0)
    /\ fresh' = TRUE
    /\ UNCHANGED <<trade, stock, profile>>

\* A product is sold, or taken off the shop.
Sold == \E i \in DOMAIN stock :
    /\ fresh
    /\ stock' = [j \in 1 .. (Len(stock) - 1) |-> IF j < i THEN stock[j] ELSE stock[j + 1]]
    /\ fresh' = FALSE
    /\ UNCHANGED <<trade, screen, profile>>

BrowseNext == TapRow \/ SeeOthers \/ Sold

BrowseSpec == BrowseInit /\ [][BrowseNext]_browseVars

BrowseTypeOK ==
    /\ trade \in {"shop", "dealer", "agency"} /\ stock \in Seq(Product)
    /\ screen.name \in {"menu", "none", "departments", "condition", "type", "town", "district", "budget", "refine", "list"}
    /\ fresh \in BOOLEAN

--------------------------------------------------------------------------------
(* Properties *)

Reached(fs) == UNION {Fitting(f) : f \in fs}

Then(fs, Question(_)) == UNION {Question(f) : f \in fs}

\* Whatever the stock, the questions lead to every product: what is skipped,
\* counted, ranked and cut at ten rows leaves none out.  At a shop, those of
\* no department are only shown when there are fewer than two departments,
\* or too many for one list (guided_flow.py:164-178).
EverythingIsReached ==
    LET all == DOMAIN stock IN
    CASE trade = "shop" ->
            LET n == Cardinality(Values(AllOf, "kind")) IN
            Reached(Departments(AllOf)) = IF n < 2 \/ n > MaxRows THEN all ELSE {i \in all : stock[i].kind # Unknown}
      [] trade = "dealer" -> Reached(Then(Conditions(AllOf), Budgets)) = all
      [] OTHER -> \A t \in {"L", "V"} :
            LET f == [AllOf EXCEPT !.t = t] IN
            Reached(Then(Then(Then(Types(f), Towns), Districts), Budgets)) = {i \in all : stock[i].tx \in {t, Unknown}}

\* The budgets of a question share its products out: each is in one of them
\* (the rounded bounds of auto_flow.py:139-161).
OneBudgetEach ==
    \A t \in {"L", "V", Unknown} : LET f == [AllOf EXCEPT !.t = t] IN
        Count(f) > Page => \A i \in Fitting(f) : Cardinality({g \in Tranches(f) : Keep(stock[i], g)}) = 1

\* A page shows, once each, the products that come next, and says how many
\* are left; the number beside a choice is what it leads to.
PagesAreWhole ==
    LET ks == Suiting(screen.f)
        shown == screen.cards \o screen.lines IN
    fresh /\ screen.name = "list" =>
        /\ Len(shown) <= Page /\ Len(screen.cards) # 1
        /\ Elements(shown) = {ks[i] : i \in (screen.page * Page + 1) .. (screen.page * Page + Len(shown))}
        /\ screen.left = Len(ks) - screen.page * Page - Len(shown)
        /\ screen.left > 0 <=> \E r \in screen.rows : r.to = "list"

CountsAreTrue ==
    fresh /\ screen.name \in {"departments", "type", "town", "district", "budget", "refine"} =>
        \A r \in screen.rows : r.count > 0 /\ r.count = Len(Suiting(r.f)) /\ Answer(r).name # "none"

BrowseRight == EverythingIsReached /\ OneBudgetEach /\ PagesAreWhole /\ CountsAreTrue
=============================================================================
