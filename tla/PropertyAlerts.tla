--------------------------- MODULE PropertyAlerts ---------------------------
(***************************************************************************)
(* An estate agency tells its contacts of the listings that suit their     *)
(* projects: on a click, one listing; by the task of every half hour, the  *)
(* new ones and those whose price dropped.  A run works listing by         *)
(* listing: it reads who is to be told, sends one message after the other, *)
(* and records them all at the end of the listing.                         *)
(*                                                                         *)
(* A contact's project is his budget; how he is reached is the outcome of  *)
(* the sending.  Days are whole.                                           *)
(***************************************************************************)
EXTENDS Integers, Sequences, FiniteSets

CONSTANTS
    Listings, Contacts,
    Budget,         \* what each contact's project allows
    Prices,         \* the prices of a listing
    Runs,           \* the runs that may be under way together
    MonthQuota,     \* alerts per month of a plan without automatic sending
    WeeklyMax,      \* alerts per contact and per week
    Week, Month,    \* their lengths, in days
    NewDays,        \* days a listing is new for the automatic sending
    AlertHorizon,   \* bound on the days
    AlertDeaths     \* bound on the runs cutShort

ASSUME AlertAssumption ==
    /\ Budget \in [Contacts -> Prices] /\ Prices \subseteq Nat
    /\ MonthQuota \in Nat /\ WeeklyMax \in Nat \ {0} /\ Week \in Nat /\ Month \in Nat \ {0} /\ NewDays \in Nat
    /\ AlertHorizon \in Nat /\ AlertDeaths \in Nat

VARIABLES
    pro,        \* the agency has the plan without quota, with automatic sending
    asking,     \* the price of each listing
    alerts,     \* the alerts recorded, in order
    sending,    \* each run, or NoSending
    date,
    cutShort

alertVars == <<pro, asking, alerts, sending, date, cutShort>>

Unlimited == -1
NoSending      == [on |-> FALSE]
NoListing == "no listing"
Alert     == [listing : Listings, contact : Contacts, price : Prices, day : 0..AlertHorizon]

AlertInit ==
    /\ pro \in BOOLEAN
    /\ asking \in [Listings -> Prices]
    /\ alerts = <<>>
    /\ sending = [r \in Runs |-> NoSending]
    /\ date = 0 /\ cutShort = 0

-----------------------------------------------------------------------------
(* Who is told of a listing at a price, on a day.                          *)

AlertsSuch(P(_)) == {i \in DOMAIN alerts : P(alerts[i])}

\* Faulty variant: at this very price.
ToldAtThisPrice(l, c, p) ==
    AlertsSuch(LAMBDA a : a.listing = l /\ a.contact = c /\ a.price = p) # {}

\* He was told of it, at this price or a lower one.
ToldBefore(l, c, p) ==
    AlertsSuch(LAMBDA a : a.listing = l /\ a.contact = c /\ a.price <= p) # {}

ToldThisWeek(l, c, day) == Cardinality(AlertsSuch(LAMBDA a : a.contact = c /\ a.day >= day - Week))

\* Willing: those who accepted alerts, did not answer "Pas intéressé" since
\* they last spoke of their project, and asked for no visit of the listing.
ToTell(willing, l, p, day) ==
    {c \in willing : p <= Budget[c] /\ ~ToldBefore(l, c, p) /\ ToldThisWeek(l, c, day) < WeeklyMax}

UsedThisMonth(day) == Cardinality(AlertsSuch(LAMBDA a : a.day \div Month = day \div Month))

QuotaLeft(day) ==
    IF pro THEN Unlimited
    ELSE IF UsedThisMonth(day) >= MonthQuota THEN 0 ELSE MonthQuota - UsedThisMonth(day)

\* New, or told of at a higher price.
ForAutomatic(l, p, day) ==
    day <= NewDays \/ AlertsSuch(LAMBDA a : a.listing = l /\ a.price > p) # {}

-----------------------------------------------------------------------------
(* A run.  The prices are those of its start.                              *)

StartRun(r, listings, auto) ==
    /\ ~sending[r].on
    /\ auto => pro
    /\ sending' = [sending EXCEPT ![r] =
           [on |-> TRUE, auto |-> auto, day |-> date, prices |-> asking, more |-> listings,
            listing |-> NoListing, todo |-> {}, left |-> Unlimited, sent |-> <<>>]]
    /\ UNCHANGED <<pro, asking, alerts, date, cutShort>>

TakeListing(r, l, willing) ==
    LET run == sending[r] IN
    /\ run.on /\ run.listing = NoListing /\ l \in run.more
    /\ sending' = [sending EXCEPT ![r] =
           [run EXCEPT !.more = @ \ {l},
                       !.listing = IF run.auto => ForAutomatic(l, run.prices[l], run.day) THEN l ELSE NoListing,
                       !.todo = ToTell(willing, l, run.prices[l], run.day),
                       !.left = QuotaLeft(run.day)]]
    /\ UNCHANGED <<pro, asking, alerts, date, cutShort>>

LeftAfter(left) == IF left = Unlimited THEN left ELSE left - 1

\* The channel accepts the message, or not.
TellContact(r, c, accepted) ==
    LET run == sending[r]
        row == [listing |-> run.listing, contact |-> c, price |-> run.prices[run.listing], day |-> run.day] IN
    /\ run.on /\ run.listing # NoListing /\ run.left # 0
    /\ c \in run.todo
    /\ sending' = [sending EXCEPT ![r] =
           [run EXCEPT !.todo = @ \ {c},
                       !.sent = IF accepted THEN Append(@, row) ELSE @,
                       !.left = IF accepted THEN LeftAfter(@) ELSE @]]
    /\ UNCHANGED <<pro, asking, alerts, date, cutShort>>

\* The alerts of the listing are committed together.
RecordListing(r) ==
    LET run == sending[r] IN
    /\ run.on /\ run.listing # NoListing
    /\ run.todo = {} \/ run.left = 0
    /\ alerts' = alerts \o run.sent
    /\ sending' = [sending EXCEPT ![r] = [run EXCEPT !.listing = NoListing, !.todo = {}, !.sent = <<>>]]
    /\ UNCHANGED <<pro, asking, date, cutShort>>

EndRun(r) ==
    /\ sending[r].on /\ sending[r].listing = NoListing /\ sending[r].more = {}
    /\ sending' = [sending EXCEPT ![r] = NoSending]
    /\ UNCHANGED <<pro, asking, alerts, date, cutShort>>

\* The process dies: what it sent for this listing is not recorded.
RunDies(r) ==
    /\ sending[r].on /\ cutShort < AlertDeaths
    /\ sending' = [sending EXCEPT ![r] = NoSending] /\ cutShort' = cutShort + 1
    /\ UNCHANGED <<pro, asking, alerts, date>>

-----------------------------------------------------------------------------
(* The agency, time.                                                       *)

NewPrice(l, p) ==
    /\ asking[l] # p /\ asking' = [asking EXCEPT ![l] = p]
    /\ UNCHANGED <<pro, alerts, sending, date, cutShort>>

NextDate ==
    /\ date < AlertHorizon /\ date' = date + 1
    /\ UNCHANGED <<pro, asking, alerts, sending, cutShort>>

AlertNext ==
    \/ \E r \in Runs :
          \/ StartRun(r, Listings, TRUE) \/ \E l \in Listings : StartRun(r, {l}, FALSE)
          \/ \E l \in Listings, willing \in SUBSET Contacts : TakeListing(r, l, willing)
          \/ \E c \in Contacts, accepted \in BOOLEAN : TellContact(r, c, accepted)
          \/ RecordListing(r) \/ EndRun(r) \/ RunDies(r)
    \/ \E l \in Listings, p \in Prices : NewPrice(l, p)
    \/ NextDate

AlertSpec == AlertInit /\ [][AlertNext]_alertVars

-----------------------------------------------------------------------------
(* Properties.                                                             *)

AlertTypeOK ==
    /\ pro \in BOOLEAN /\ asking \in [Listings -> Prices] /\ date \in 0..AlertHorizon
    /\ alerts \in Seq(Alert) /\ cutShort \in 0..AlertDeaths
    /\ \A r \in Runs : sending[r].on => sending[r].sent \in Seq(Alert) /\ sending[r].todo \subseteq Contacts

\* "Jamais deux fois le même bien au même prix au même contact": of a listing
\* he was told of, a contact hears again only at a price lower than all those
\* he was told, through rises and drops of the price.
AlertedOnce ==
    \A i, j \in DOMAIN alerts :
        i < j /\ alerts[i].listing = alerts[j].listing /\ alerts[i].contact = alerts[j].contact
        => alerts[j].price < alerts[i].price

\* "2 alertes par contact et par 7 jours au plus", whatever the listings.
WeeklyKept ==
    \A c \in Contacts, day \in 0..AlertHorizon :
        Cardinality(AlertsSuch(LAMBDA a : a.contact = c /\ a.day \in (day - Week)..day)) <= WeeklyMax

\* The plan's alerts of a month, over runs and listings.
QuotaKept == ~pro => \A day \in 0..AlertHorizon : UsedThisMonth(day) <= MonthQuota

\* What send_for_product keeps over prices, listings, weeks and months.
AlertsMeasured == AlertedOnce /\ WeeklyKept /\ QuotaKept
=============================================================================
