--------------------------- MODULE Outreach_proofs ---------------------------
(***************************************************************************)
(* Proofs about the messages sent to people who did not just write: the    *)
(* listings of an agency (PropertyAlerts), the emails to prospects         *)
(* (ProspectMailer), the reminders of unpaid orders (OrderReminders).      *)
(*                                                                         *)
(* What a run sends is not in the base before it commits, so that two runs *)
(* that overlap may both send: the theorems about alerts and about the     *)
(* steps of the campaign are for one run at a time, the others for any     *)
(* number of them.                                                         *)
(***************************************************************************)
EXTENDS PropertyAlerts, ProspectMailer, OrderReminders, DataInduction, FiniteSetTheorems, TLAPS

-----------------------------------------------------------------------------
(* PropertyAlerts.                                                         *)

RunRow == [on : {TRUE}, auto : BOOLEAN, day : 0..AlertHorizon, prices : [Listings -> Prices], more : SUBSET Listings,
           listing : Listings \cup {NoListing}, todo : SUBSET Contacts, left : Nat \cup {Unlimited}, sent : Seq(Alert)]

\* Every run is a row of the right shape, and works on no later day than this.
AlertRows ==
    /\ pro \in BOOLEAN /\ asking \in [Listings -> Prices] /\ date \in 0..AlertHorizon
    /\ alerts \in Seq(Alert) /\ cutShort \in 0..AlertDeaths
    /\ sending \in [Runs -> {NoSending} \cup RunRow]

OneRun == \A r, s \in Runs : r = s

Withheld(s, c) == s.listing # NoListing /\ (c \in s.todo \/ \E k \in DOMAIN s.sent : s.sent[k].contact = c)

\* Between two listings nothing is unrecorded.  For the listing under way: what
\* was sent is at its price and its day, to contacts apart who are not to be told
\* any more; all of them could be told when the base was read, and the base has
\* not changed; and what is left of the month covers what was sent.
ListingInv(s) ==
    /\ s.listing = NoListing => s.sent = <<>>
    /\ s.listing # NoListing =>
         /\ \A k \in DOMAIN s.sent :
               /\ s.sent[k].listing = s.listing /\ s.sent[k].price = s.prices[s.listing]
               /\ s.sent[k].day = s.day /\ s.sent[k].contact \notin s.todo
         /\ \A k, m \in DOMAIN s.sent : s.sent[k].contact = s.sent[m].contact => k = m
         /\ \A c \in Contacts : Withheld(s, c) =>
               /\ ~ToldBefore(s.listing, c, s.prices[s.listing])
               /\ ToldThisWeek(s.listing, c, s.day) < WeeklyMax
         /\ ~pro => s.left \in Nat /\ UsedThisMonth(s.day) + Len(s.sent) + s.left <= MonthQuota

AlertInv ==
    /\ AlertRows /\ AlertsMeasured
    /\ \A r \in Runs : sending[r].on => ListingInv(sending[r])

LEMMA AlertsStart == AlertInit => AlertInv
<1> SUFFICES ASSUME AlertInit PROVE AlertInv OBVIOUS
<1>1. AlertRows BY AlertAssumption DEF AlertInit, AlertRows
<1>2. \A r \in Runs : ~sending[r].on BY DEF AlertInit, NoSending
<1>3. AlertedOnce BY DEF AlertInit, AlertedOnce
<1>4. ASSUME NEW S \in SUBSET (DOMAIN alerts) PROVE Cardinality(S) = 0
  <2>1. S = {} BY <1>4 DEF AlertInit
  <2> QED BY <2>1, FS_EmptySet
<1>5. WeeklyKept
  <2> SUFFICES ASSUME NEW c \in Contacts, NEW day \in 0..AlertHorizon
               PROVE Cardinality(AlertsSuch(LAMBDA a : a.contact = c /\ a.day \in (day - Week)..day)) <= WeeklyMax
    BY DEF WeeklyKept
  <2>1. Cardinality(AlertsSuch(LAMBDA a : a.contact = c /\ a.day \in (day - Week)..day)) = 0 BY <1>4 DEF AlertsSuch
  <2> QED BY <2>1, AlertAssumption
<1>6. QuotaKept
  <2> SUFFICES ASSUME NEW day \in 0..AlertHorizon PROVE UsedThisMonth(day) <= MonthQuota BY DEF QuotaKept
  <2>1. UsedThisMonth(day) = 0 BY <1>4 DEF AlertsSuch, UsedThisMonth
  <2> QED BY <2>1, AlertAssumption
<1> QED BY <1>1, <1>2, <1>3, <1>5, <1>6 DEF AlertInv, AlertsMeasured

\* A step that leaves the base alone, and changes one run at most.
LEMMA RunKeeps ==
    ASSUME AlertInv, NEW r \in Runs, UNCHANGED <<pro, alerts>>,
           asking' \in [Listings -> Prices], date' \in 0..AlertHorizon, cutShort' \in 0..AlertDeaths,
           NEW row \in {NoSending} \cup RunRow, sending' = [sending EXCEPT ![r] = row],
           row.on => ListingInv(row)
    PROVE  AlertInv'
<1>1. AlertRows' BY DEF AlertInv, AlertRows
<1>2. AlertsMeasured'
  <2>1. AlertedOnce' BY DEF AlertInv, AlertsMeasured, AlertedOnce
  <2>2. WeeklyKept' BY DEF AlertInv, AlertsMeasured, WeeklyKept, AlertsSuch
  <2>3. QuotaKept' BY DEF AlertInv, AlertsMeasured, QuotaKept, UsedThisMonth, AlertsSuch
  <2> QED BY <2>1, <2>2, <2>3 DEF AlertsMeasured
<1>3. ASSUME NEW q \in Runs, sending'[q].on PROVE (ListingInv(sending[q]))'
  <2>1. sending'[q] = IF q = r THEN row ELSE sending[q] BY DEF AlertInv, AlertRows
  <2>2. ListingInv(sending'[q]) BY <2>1, <1>3 DEF AlertInv
  <2> QED BY <2>2 DEF ListingInv, Withheld, ToldBefore, ToldThisWeek, UsedThisMonth, AlertsSuch
<1> QED BY <1>1, <1>2, <1>3 DEF AlertInv

\* Some days and a price change nothing for the runs.
LEMMA OthersKeep ==
    ASSUME AlertInv, UNCHANGED <<pro, alerts, sending>>,
           asking' \in [Listings -> Prices], date' \in 0..AlertHorizon, cutShort' \in 0..AlertDeaths
    PROVE  AlertInv'
<1>1. AlertRows' BY DEF AlertInv, AlertRows
<1>2. AlertsMeasured'
  <2>1. AlertedOnce' BY DEF AlertInv, AlertsMeasured, AlertedOnce
  <2>2. WeeklyKept' BY DEF AlertInv, AlertsMeasured, WeeklyKept, AlertsSuch
  <2>3. QuotaKept' BY DEF AlertInv, AlertsMeasured, QuotaKept, UsedThisMonth, AlertsSuch
  <2> QED BY <2>1, <2>2, <2>3 DEF AlertsMeasured
<1>3. ASSUME NEW q \in Runs, sending'[q].on PROVE (ListingInv(sending[q]))'
  <2>1. ListingInv(sending[q]) BY <1>3 DEF AlertInv
  <2> QED BY <2>1 DEF ListingInv, Withheld, ToldBefore, ToldThisWeek, UsedThisMonth, AlertsSuch
<1> QED BY <1>1, <1>2, <1>3 DEF AlertInv

LEMMA StartRunKeeps ==
    ASSUME AlertInv, NEW r \in Runs, NEW listings \in SUBSET Listings, NEW auto \in BOOLEAN, StartRun(r, listings, auto)
    PROVE  AlertInv'
<1> DEFINE row == [on |-> TRUE, auto |-> auto, day |-> date, prices |-> asking, more |-> listings,
                   listing |-> NoListing, todo |-> {}, left |-> Unlimited, sent |-> <<>>]
<1>1. row \in RunRow BY DEF AlertInv, AlertRows, RunRow
<1>2. ListingInv(row) BY DEF ListingInv
<1>3. sending' = [sending EXCEPT ![r] = row] /\ UNCHANGED <<pro, asking, alerts, date, cutShort>> BY DEF StartRun
<1> HIDE DEF row
<1> QED BY <1>1, <1>2, <1>3, RunKeeps DEF AlertInv, AlertRows

LEMMA RunIsRow ==
    ASSUME AlertRows, NEW r \in Runs, sending[r].on
    PROVE  sending[r] \in RunRow
BY DEF AlertRows, NoSending

LEMMA UsedIsCounted ==
    ASSUME AlertRows, NEW day \in Int
    PROVE  UsedThisMonth(day) \in Nat
<1> DEFINE S == {i \in DOMAIN alerts : alerts[i].day \div Month = day \div Month}
<1>1. DOMAIN alerts = 1..Len(alerts) /\ Len(alerts) \in Nat BY DEF AlertRows
<1>2. IsFiniteSet(S)
  <2>1. S \subseteq 1..Len(alerts) BY <1>1
  <2>2. IsFiniteSet(1..Len(alerts)) BY <1>1, FS_Interval
  <2> HIDE DEF S
  <2> QED BY <2>1, <2>2, FS_Subset
<1>3. UsedThisMonth(day) = Cardinality(S) BY DEF UsedThisMonth, AlertsSuch
<1> HIDE DEF S
<1> QED BY <1>2, <1>3, FS_CardinalityType

LEMMA TakeListingKeeps ==
    ASSUME AlertInv, NEW r \in Runs, NEW l \in Listings, NEW willing \in SUBSET Contacts, TakeListing(r, l, willing)
    PROVE  AlertInv'
<1> DEFINE own == sending[r]
           P == own.prices[l]
           b == IF own.auto => ForAutomatic(l, P, own.day) THEN l ELSE NoListing
           row == [own EXCEPT !.more = @ \ {l}, !.listing = b, !.todo = ToTell(willing, l, P, own.day), !.left = QuotaLeft(own.day)]
<1>1. own \in RunRow /\ own.listing = NoListing /\ own.sent = <<>>
  BY RunIsRow DEF TakeListing, AlertInv, ListingInv
<1>2. ToTell(willing, l, P, own.day) \subseteq Contacts BY DEF ToTell
<1>3. own.day \in 0..AlertHorizon /\ own.day \in Int
  <2>1. own.day \in 0..AlertHorizon BY <1>1 DEF RunRow
  <2> QED BY <2>1, AlertAssumption
<1>4. UsedThisMonth(own.day) \in Nat BY <1>3, UsedIsCounted DEF AlertInv
<1>5. ~pro => UsedThisMonth(own.day) <= MonthQuota BY <1>3 DEF AlertInv, AlertsMeasured, QuotaKept
<1>6. QuotaLeft(own.day) \in Nat \cup {Unlimited} BY <1>4, AlertAssumption DEF QuotaLeft
<1>7. ~pro => QuotaLeft(own.day) \in Nat /\ UsedThisMonth(own.day) + QuotaLeft(own.day) <= MonthQuota
  BY <1>4, <1>5, AlertAssumption DEF QuotaLeft
<1>8. /\ row \in RunRow /\ row.listing = b /\ row.todo = ToTell(willing, l, P, own.day) /\ row.left = QuotaLeft(own.day)
      /\ row.sent = <<>> /\ row.prices = own.prices /\ row.day = own.day
  BY <1>1, <1>2, <1>6 DEF RunRow
<1>9. sending' = [sending EXCEPT ![r] = row] /\ UNCHANGED <<pro, asking, alerts, date, cutShort>> BY DEF TakeListing
<1>10. b \in {l, NoListing} OBVIOUS
<1> HIDE DEF row, b
<1>11. ListingInv(row)
  <2>1. ASSUME NEW c \in row.todo PROVE ~ToldBefore(l, c, P) /\ ToldThisWeek(l, c, own.day) < WeeklyMax
    BY <1>8, <2>1 DEF ToTell
  <2>2. DOMAIN row.sent = {} /\ Len(row.sent) = 0 BY <1>8
  <2>3. CASE b = NoListing BY <2>3, <1>8 DEF ListingInv
  <2>4. CASE b = l /\ b # NoListing
    <3>1. \A c \in Contacts : Withheld(row, c) => c \in row.todo BY <2>2 DEF Withheld
    <3>2. ~pro => row.left \in Nat /\ UsedThisMonth(row.day) + Len(row.sent) + row.left <= MonthQuota
      BY <1>7, <1>8, <2>2, <1>4
    <3>3. row.listing = l /\ row.prices[row.listing] = P BY <2>4, <1>8
    <3> QED BY <1>8, <2>1, <2>2, <2>4, <3>1, <3>2, <3>3 DEF ListingInv
  <2> QED BY <2>3, <2>4, <1>10
<1> QED BY <1>8, <1>9, <1>11, RunKeeps DEF AlertInv, AlertRows

LEMMA TellContactKeeps ==
    ASSUME AlertInv, NEW r \in Runs, NEW c \in Contacts, NEW accepted \in BOOLEAN, TellContact(r, c, accepted)
    PROVE  AlertInv'
<1> DEFINE own == sending[r]
           l == own.listing
           alert == [listing |-> l, contact |-> c, price |-> own.prices[l], day |-> own.day]
           row == [own EXCEPT !.todo = @ \ {c}, !.sent = IF accepted THEN Append(@, alert) ELSE @,
                              !.left = IF accepted THEN LeftAfter(@) ELSE @]
<1>1. own \in RunRow /\ own.on /\ l # NoListing /\ c \in own.todo /\ own.left # 0
  BY RunIsRow DEF TellContact, AlertInv
<1>2. l \in Listings /\ own.prices \in [Listings -> Prices] /\ own.day \in 0..AlertHorizon /\ own.sent \in Seq(Alert)
  BY <1>1 DEF RunRow
<1>3. alert \in Alert BY <1>2 DEF Alert
<1>4. Append(own.sent, alert) \in Seq(Alert) BY <1>2, <1>3
<1>5. own.left \in Nat \cup {Unlimited} /\ LeftAfter(own.left) \in Nat \cup {Unlimited}
  <2>1. own.left \in Nat \cup {Unlimited} BY <1>1 DEF RunRow
  <2> QED BY <1>1, <2>1 DEF LeftAfter, Unlimited
<1>6. /\ row \in RunRow /\ row.listing = l /\ row.todo = own.todo \ {c} /\ row.prices = own.prices /\ row.day = own.day
      /\ row.sent = IF accepted THEN Append(own.sent, alert) ELSE own.sent
      /\ row.left = IF accepted THEN LeftAfter(own.left) ELSE own.left
  <2> HIDE DEF alert
  <2> QED BY <1>1, <1>4, <1>5 DEF RunRow
<1>7. sending' = [sending EXCEPT ![r] = row] /\ UNCHANGED <<pro, asking, alerts, date, cutShort>> BY DEF TellContact
<1>8. ListingInv(own) BY <1>1 DEF AlertInv
<1>9. UsedThisMonth(own.day) \in Nat
  <2>1. own.day \in Int BY <1>2, AlertAssumption
  <2> QED BY <2>1, UsedIsCounted DEF AlertInv
<1>10. alert.listing = l /\ alert.contact = c /\ alert.price = own.prices[l] /\ alert.day = own.day OBVIOUS
<1> HIDE DEF row, alert
<1>11. ListingInv(row)
  <2>1. CASE ~accepted
    <3>1. \A d \in Contacts : Withheld(row, d) => Withheld(own, d) BY <2>1, <1>6 DEF Withheld
    <3> QED BY <2>1, <3>1, <1>1, <1>6, <1>8 DEF ListingInv
  <2>2. CASE accepted
    <3>1. row.sent = Append(own.sent, alert) /\ row.left = LeftAfter(own.left) BY <2>2, <1>6
    <3>2. /\ Len(row.sent) = Len(own.sent) + 1 /\ Len(own.sent) \in Nat
          /\ DOMAIN row.sent = 1..(Len(own.sent) + 1) /\ DOMAIN own.sent = 1..Len(own.sent)
          /\ \A k \in 1..Len(own.sent) : row.sent[k] = own.sent[k]
          /\ row.sent[Len(own.sent) + 1] = alert
      BY <3>1, <1>2, <1>3
    <3>3. ASSUME NEW k \in DOMAIN row.sent
          PROVE  /\ row.sent[k].listing = l /\ row.sent[k].price = own.prices[l]
                 /\ row.sent[k].day = own.day /\ row.sent[k].contact \notin own.todo \ {c}
      <4>1. CASE k = Len(own.sent) + 1 BY <4>1, <3>2, <1>10
      <4>2. CASE k \in DOMAIN own.sent BY <4>2, <3>2, <1>8, <1>1 DEF ListingInv
      <4> QED BY <4>1, <4>2, <3>2
    <3>4. ASSUME NEW k \in DOMAIN row.sent, NEW m \in DOMAIN row.sent, row.sent[k].contact = row.sent[m].contact
          PROVE  k = m
      <4>1. \A n \in DOMAIN own.sent : own.sent[n].contact # c BY <1>8, <1>1 DEF ListingInv
      <4>2. CASE k \in DOMAIN own.sent /\ m \in DOMAIN own.sent BY <4>2, <3>2, <3>4, <1>8, <1>1 DEF ListingInv
      <4>3. CASE k \in DOMAIN own.sent /\ m = Len(own.sent) + 1 BY <4>1, <4>3, <3>2, <3>4, <1>10
      <4>4. CASE m \in DOMAIN own.sent /\ k = Len(own.sent) + 1 BY <4>1, <4>4, <3>2, <3>4, <1>10
      <4> QED BY SMTT(20), <4>2, <4>3, <4>4, <3>2
    <3>5. \A d \in Contacts : Withheld(row, d) => Withheld(own, d) BY <3>2, <1>1, <1>6, <1>10 DEF Withheld
    <3>6. ~pro => row.left \in Nat /\ UsedThisMonth(row.day) + Len(row.sent) + row.left <= MonthQuota
      <4> SUFFICES ASSUME ~pro PROVE row.left \in Nat /\ UsedThisMonth(row.day) + Len(row.sent) + row.left <= MonthQuota OBVIOUS
      <4>1. own.left \in Nat /\ UsedThisMonth(own.day) + Len(own.sent) + own.left <= MonthQuota BY <1>8, <1>1 DEF ListingInv
      <4>2. row.left = own.left - 1 /\ row.left \in Nat BY <4>1, <3>1, <1>1 DEF LeftAfter, Unlimited
      <4> QED BY SMTT(20), <4>1, <4>2, <3>2, <1>6, <1>9, AlertAssumption
    <3> QED BY <1>1, <1>6, <1>8, <3>3, <3>4, <3>5, <3>6 DEF ListingInv
  <2> QED BY <2>1, <2>2
<1> QED BY <1>6, <1>7, <1>11, RunKeeps DEF AlertInv, AlertRows

LEMMA EndRunKeeps ==
    ASSUME AlertInv, NEW r \in Runs, EndRun(r) \/ RunDies(r)
    PROVE  AlertInv'
<1>1. cutShort' \in 0..AlertDeaths BY AlertAssumption DEF EndRun, RunDies, AlertInv, AlertRows
<1>2. /\ sending' = [sending EXCEPT ![r] = NoSending] /\ UNCHANGED <<pro, asking, alerts, date>> BY DEF EndRun, RunDies
<1>3. ~NoSending.on BY DEF NoSending
<1> QED BY <1>1, <1>2, <1>3, RunKeeps DEF AlertInv, AlertRows

\* What the alerts of one listing add to the base.
LEMMA RecordListingKeeps ==
    ASSUME AlertInv, OneRun, NEW r \in Runs, RecordListing(r)
    PROVE  AlertInv'
<1> DEFINE own == sending[r]
           l == own.listing
           P == own.prices[l]
           n == Len(alerts)
           N == Len(own.sent)
           row == [own EXCEPT !.listing = NoListing, !.todo = {}, !.sent = <<>>]
<1>1. own \in RunRow /\ own.on /\ l # NoListing BY RunIsRow DEF RecordListing, AlertInv
<1>2. l \in Listings /\ own.prices \in [Listings -> Prices] /\ own.day \in 0..AlertHorizon /\ own.sent \in Seq(Alert)
  BY <1>1 DEF RunRow
<1>3. alerts \in Seq(Alert) /\ n \in Nat /\ N \in Nat /\ DOMAIN alerts = 1..n /\ DOMAIN own.sent = 1..N
  BY <1>2 DEF AlertInv, AlertRows
<1>4. alerts' = alerts \o own.sent /\ sending' = [sending EXCEPT ![r] = row] /\ UNCHANGED <<pro, asking, date, cutShort>>
  BY DEF RecordListing
<1>5. /\ alerts' \in Seq(Alert) /\ Len(alerts') = n + N /\ DOMAIN alerts' = 1..(n + N)
      /\ \A i \in 1..n : alerts'[i] = alerts[i]
      /\ \A k \in 1..N : alerts'[n + k] = own.sent[k]
  BY <1>2, <1>3, <1>4
<1>6. ListingInv(own) BY <1>1 DEF AlertInv
<1>7. \A k \in 1..N : /\ own.sent[k].listing = l /\ own.sent[k].price = P /\ own.sent[k].day = own.day
                      /\ own.sent[k].contact \in Contacts /\ Withheld(own, own.sent[k].contact)
  <2> SUFFICES ASSUME NEW k \in 1..N
               PROVE  /\ own.sent[k].listing = l /\ own.sent[k].price = P /\ own.sent[k].day = own.day
                      /\ own.sent[k].contact \in Contacts /\ Withheld(own, own.sent[k].contact)
    OBVIOUS
  <2>1. own.sent[k] \in Alert BY <1>2
  <2> QED BY <2>1, <1>1, <1>3, <1>6 DEF Alert, ListingInv, Withheld
<1>8. \A k, m \in 1..N : own.sent[k].contact = own.sent[m].contact => k = m BY <1>1, <1>3, <1>6 DEF ListingInv
<1>9. \A i \in 1..n : alerts[i] \in Alert /\ alerts[i].day \in 0..AlertHorizon /\ alerts[i].price \in Nat
  <2> SUFFICES ASSUME NEW i \in 1..n PROVE alerts[i] \in Alert /\ alerts[i].day \in 0..AlertHorizon /\ alerts[i].price \in Nat
    OBVIOUS
  <2>1. alerts[i] \in Alert BY <1>3
  <2> QED BY <2>1, AlertAssumption DEF Alert
<1>10. P \in Nat BY <1>2, AlertAssumption
<1>11. \A j \in DOMAIN alerts' : j \in 1..n \/ \E k \in 1..N : j = n + k
  <2> SUFFICES ASSUME NEW j \in DOMAIN alerts', j \notin 1..n PROVE \E k \in 1..N : j = n + k OBVIOUS
  <2>1. j - n \in 1..N /\ j = n + (j - n) BY <1>3, <1>5
  <2> QED BY <2>1
<1> HIDE DEF n, N, P
<1>12. AlertedOnce'
  <2> SUFFICES ASSUME NEW i \in DOMAIN alerts', NEW j \in DOMAIN alerts', i < j,
                      alerts'[i].listing = alerts'[j].listing, alerts'[i].contact = alerts'[j].contact
               PROVE  alerts'[j].price < alerts'[i].price
    BY DEF AlertedOnce
  <2>1. CASE i \in 1..n /\ j \in 1..n
    BY <2>1, <1>3, <1>5 DEF AlertInv, AlertsMeasured, AlertedOnce
  <2>2. ASSUME NEW k \in 1..N, i = n + k PROVE FALSE
    <3>1. j \notin 1..n BY <2>2, <1>3, <1>5
    <3>2. PICK m \in 1..N : j = n + m BY <3>1, <1>11
    <3>3. own.sent[k].contact = own.sent[m].contact BY <2>2, <3>2, <1>5
    <3>4. k = m BY <3>2, <3>3, <2>2, <1>8
    <3> QED BY <3>2, <3>4, <2>2, <1>3
  <2>3. ASSUME i \in 1..n, NEW k \in 1..N, j = n + k PROVE alerts'[j].price < alerts'[i].price
    <3>1. alerts'[j] = own.sent[k] /\ alerts'[i] = alerts[i] BY <2>3, <1>5
    <3>2. ~ToldBefore(l, own.sent[k].contact, P) BY <1>1, <1>6, <1>7 DEF ListingInv, P
    <3>3. {a \in DOMAIN alerts : alerts[a].listing = l /\ alerts[a].contact = own.sent[k].contact /\ alerts[a].price <= P} = {}
      BY <3>2 DEF ToldBefore, AlertsSuch
    <3>4. ~(alerts[i].price <= P) BY <3>1, <3>3, <1>3, <1>7, <2>3
    <3> QED BY <3>1, <3>4, <1>7, <1>9, <1>10, <2>3
  <2> QED BY <2>1, <2>2, <2>3, <1>11
<1>13. WeeklyKept'
  <2> SUFFICES ASSUME NEW c \in Contacts, NEW day \in 0..AlertHorizon
               PROVE  Cardinality({i \in DOMAIN alerts' : alerts'[i].contact = c /\ alerts'[i].day \in (day - Week)..day}) <= WeeklyMax
    BY DEF WeeklyKept, AlertsSuch
  <2> DEFINE T == {i \in DOMAIN alerts' : alerts'[i].contact = c /\ alerts'[i].day \in (day - Week)..day}
             S == {i \in DOMAIN alerts : alerts[i].contact = c /\ alerts[i].day \in (day - Week)..day}
             W == {i \in DOMAIN alerts : alerts[i].contact = c /\ alerts[i].day >= own.day - Week}
  <2>1. IsFiniteSet(1..n) BY <1>3, FS_Interval
  <2>2. S \subseteq 1..n /\ W \subseteq 1..n BY <1>3
  <2>3. Cardinality(S) <= WeeklyMax BY DEF AlertInv, AlertsMeasured, WeeklyKept, AlertsSuch
  <2>4. CASE \E k \in 1..N : own.sent[k].contact = c /\ own.day \in (day - Week)..day
    <3>1. PICK k \in 1..N : own.sent[k].contact = c /\ own.day \in (day - Week)..day BY <2>4
    <3>2. T \subseteq W \cup {n + k}
      <4> SUFFICES ASSUME NEW i \in T, i # n + k PROVE i \in W OBVIOUS
      <4>1. i \in 1..n
        <5> SUFFICES ASSUME NEW m \in 1..N, i = n + m PROVE FALSE BY <1>11
        <5>1. own.sent[m].contact = c BY <1>5
        <5> QED BY <5>1, <3>1, <1>8
      <4>2. alerts[i].contact = c /\ alerts[i].day \in (day - Week)..day BY <4>1, <1>5
      <4>3. alerts[i].day >= own.day - Week
        BY <4>1, <4>2, <3>1, <1>2, <1>9, AlertAssumption
      <4> QED BY <4>1, <4>2, <4>3, <1>3
    <3>3. Cardinality(W) < WeeklyMax
      BY <3>1, <1>1, <1>6, <1>7 DEF ListingInv, ToldThisWeek, AlertsSuch
    <3> HIDE DEF T, W, S
    <3>4. IsFiniteSet(W) BY <2>1, <2>2, FS_Subset
    <3>5. IsFiniteSet(W \cup {n + k}) /\ Cardinality(W \cup {n + k}) <= Cardinality(W) + 1
      <4>1. PICK j : j = n + k OBVIOUS
      <4>2. Cardinality(W) \in Nat BY <3>4, FS_CardinalityType
      <4>3. IsFiniteSet(W \cup {j}) /\ Cardinality(W \cup {j}) = IF j \in W THEN Cardinality(W) ELSE Cardinality(W) + 1
        BY <3>4, FS_AddElement
      <4> QED BY <4>1, <4>2, <4>3
    <3>6. Cardinality(T) <= Cardinality(W \cup {n + k}) BY <3>2, <3>5, FS_Subset
    <3>7. Cardinality(W) \in Nat /\ Cardinality(T) \in Nat /\ Cardinality(W \cup {n + k}) \in Nat
      BY <3>2, <3>4, <3>5, FS_Subset, FS_CardinalityType
    <3>8. Cardinality(T) <= WeeklyMax BY <3>3, <3>5, <3>6, <3>7, AlertAssumption
    <3> QED BY <3>8 DEF T
  <2>5. CASE ~\E k \in 1..N : own.sent[k].contact = c /\ own.day \in (day - Week)..day
    <3>1. T = S
      <4>1. ASSUME NEW i \in T PROVE i \in S
        <5>1. i \in 1..n
          <6> SUFFICES ASSUME NEW m \in 1..N, i = n + m PROVE FALSE BY <1>11
          <6>1. own.sent[m].contact = c /\ own.sent[m].day \in (day - Week)..day BY <1>5
          <6> QED BY <6>1, <2>5, <1>7
        <5> QED BY <5>1, <1>3, <1>5
      <4>2. ASSUME NEW i \in S PROVE i \in T BY <4>2, <1>3, <1>5
      <4> QED BY <4>1, <4>2
    <3> QED BY <3>1, <2>3
  <2> QED BY <2>4, <2>5
<1>14. QuotaKept'
  <2> SUFFICES ASSUME ~pro, NEW day \in 0..AlertHorizon
               PROVE  Cardinality({i \in DOMAIN alerts' : alerts'[i].day \div Month = day \div Month}) <= MonthQuota
    BY <1>4 DEF QuotaKept, UsedThisMonth, AlertsSuch
  <2> DEFINE T == {i \in DOMAIN alerts' : alerts'[i].day \div Month = day \div Month}
             S == {i \in DOMAIN alerts : alerts[i].day \div Month = day \div Month}
             J == (n + 1)..(n + N)
  <2>1. IsFiniteSet(1..n) /\ IsFiniteSet(J) /\ Cardinality(J) = N
    BY <1>3, FS_Interval
  <2>2. S \subseteq 1..n BY <1>3
  <2>3. Cardinality(S) <= MonthQuota BY DEF AlertInv, AlertsMeasured, QuotaKept, UsedThisMonth, AlertsSuch
  <2>4. CASE own.day \div Month = day \div Month
    <3>1. T \subseteq S \cup J
      <4> SUFFICES ASSUME NEW i \in T PROVE i \in S \/ i \in J OBVIOUS
      <4>1. CASE i \in 1..n BY <4>1, <1>3, <1>5
      <4>2. CASE i \notin 1..n BY <4>2, <1>3, <1>5
      <4> QED BY <4>1, <4>2
    <3>2. Cardinality(S) = UsedThisMonth(own.day) BY <2>4 DEF UsedThisMonth, AlertsSuch
    <3>3. own.left \in Nat /\ UsedThisMonth(own.day) + N + own.left <= MonthQuota BY <1>1, <1>6 DEF ListingInv, N
    <3> HIDE DEF T, S, J
    <3>4. IsFiniteSet(S) BY <2>1, <2>2, FS_Subset
    <3>5. IsFiniteSet(S \cup J) /\ Cardinality(S \cup J) <= Cardinality(S) + Cardinality(J)
      <4>1. IsFiniteSet(S \cup J) /\ Cardinality(S \cup J) = Cardinality(S) + Cardinality(J) - Cardinality(S \cap J)
        BY <2>1, <3>4, FS_Union
      <4>2. IsFiniteSet(S \cap J) BY <3>4, FS_Intersection
      <4> QED BY <4>1, <4>2, <2>1, <3>4, FS_CardinalityType
    <3>6. IsFiniteSet(T) /\ Cardinality(T) <= Cardinality(S \cup J) BY <3>1, <3>5, FS_Subset
    <3>7. Cardinality(T) \in Nat /\ Cardinality(S) \in Nat /\ Cardinality(S \cup J) \in Nat BY <3>4, <3>5, <3>6, FS_CardinalityType
    <3>8. Cardinality(T) <= MonthQuota BY <2>1, <3>2, <3>3, <3>5, <3>6, <3>7, <1>3, AlertAssumption
    <3> QED BY <3>8 DEF T
  <2>5. CASE own.day \div Month # day \div Month
    <3>1. T = S
      <4>1. ASSUME NEW i \in T PROVE i \in S
        <5>1. i \in 1..n
          <6> SUFFICES ASSUME NEW m \in 1..N, i = n + m PROVE FALSE BY <1>11
          <6>1. alerts'[i].day = own.day BY <1>5, <1>7
          <6> QED BY <6>1, <2>5
        <5> QED BY <5>1, <1>3, <1>5
      <4>2. ASSUME NEW i \in S PROVE i \in T BY <4>2, <1>3, <1>5
      <4> QED BY <4>1, <4>2
    <3> QED BY <3>1, <2>3
  <2> QED BY <2>4, <2>5
<1>15. row \in RunRow /\ row.listing = NoListing /\ row.sent = <<>>
  <2>1. <<>> \in Seq(Alert) OBVIOUS
  <2> QED BY <1>1, <2>1 DEF RunRow
<1> HIDE DEF row
<1>16. AlertRows' BY <1>4, <1>5, <1>15 DEF AlertInv, AlertRows
<1>17. ASSUME NEW q \in Runs, sending'[q].on PROVE (ListingInv(sending[q]))'
  <2>1. sending'[q] = row BY <1>4 DEF AlertInv, AlertRows, OneRun
  <2> QED BY <2>1, <1>15 DEF ListingInv
<1> QED BY <1>12, <1>13, <1>14, <1>16, <1>17 DEF AlertInv, AlertsMeasured

LEMMA AlertStepKeeps == ASSUME OneRun PROVE AlertInv /\ [AlertNext]_alertVars => AlertInv'
<1> SUFFICES ASSUME AlertInv, [AlertNext]_alertVars PROVE AlertInv' OBVIOUS
<1>1. CASE UNCHANGED alertVars BY <1>1, OthersKeep DEF alertVars, AlertInv, AlertRows
<1>2. ASSUME NEW r \in Runs,
             \/ StartRun(r, Listings, TRUE) \/ \E l \in Listings : StartRun(r, {l}, FALSE)
             \/ \E l \in Listings, willing \in SUBSET Contacts : TakeListing(r, l, willing)
             \/ \E c \in Contacts, accepted \in BOOLEAN : TellContact(r, c, accepted)
             \/ RecordListing(r) \/ EndRun(r) \/ RunDies(r)
      PROVE  AlertInv'
  <2>1. CASE StartRun(r, Listings, TRUE) BY <2>1, StartRunKeeps
  <2>2. ASSUME NEW l \in Listings, StartRun(r, {l}, FALSE) PROVE AlertInv'
    <3>1. {l} \in SUBSET Listings OBVIOUS
    <3> QED BY <2>2, <3>1, StartRunKeeps
  <2>3. ASSUME NEW l \in Listings, NEW willing \in SUBSET Contacts, TakeListing(r, l, willing) PROVE AlertInv'
    BY <2>3, TakeListingKeeps
  <2>4. ASSUME NEW c \in Contacts, NEW accepted \in BOOLEAN, TellContact(r, c, accepted) PROVE AlertInv'
    BY <2>4, TellContactKeeps
  <2>5. CASE RecordListing(r) BY <2>5, RecordListingKeeps
  <2>6. CASE EndRun(r) \/ RunDies(r) BY <2>6, EndRunKeeps
  <2> QED BY <1>2, <2>1, <2>2, <2>3, <2>4, <2>5, <2>6
<1>3. ASSUME NEW l \in Listings, NEW p \in Prices, NewPrice(l, p) PROVE AlertInv'
  BY <1>3, OthersKeep DEF NewPrice, AlertInv, AlertRows
<1>4. CASE NextDate
  <2>1. date' \in 0..AlertHorizon BY <1>4, AlertAssumption DEF NextDate, AlertInv, AlertRows
  <2> QED BY <1>4, <2>1, OthersKeep DEF NextDate, AlertInv, AlertRows
<1> QED BY <1>1, <1>2, <1>3, <1>4 DEF AlertNext

\* Where one run works at a time, for any agency: a contact hears again of a
\* listing at a lower price only, never too often in a week over all listings,
\* and a plan never tells more in a month than it has, through prices that rise
\* and drop, contacts who change their mind and runs that die.
THEOREM AlertsAreMeasured == ASSUME OneRun PROVE AlertSpec => []AlertsMeasured
<1>1. AlertInv => AlertsMeasured BY DEF AlertInv
<1>2. AlertInv /\ [AlertNext]_alertVars => AlertInv' BY AlertStepKeeps
<1> QED BY <1>1, <1>2, AlertsStart, PTL DEF AlertSpec

\* The rows keep their shape however many runs there are.
LEMMA AlertRowsKept ==
    ASSUME AlertRows, UNCHANGED pro, asking' \in [Listings -> Prices], date' \in 0..AlertHorizon, cutShort' \in 0..AlertDeaths,
           alerts' \in Seq(Alert), NEW r \in Runs, NEW row \in {NoSending} \cup RunRow,
           sending' = sending \/ sending' = [sending EXCEPT ![r] = row]
    PROVE  AlertRows'
BY DEF AlertRows

LEMMA AlertStepKeepsRows == AlertRows /\ [AlertNext]_alertVars => AlertRows'
<1> SUFFICES ASSUME AlertRows, [AlertNext]_alertVars PROVE AlertRows' OBVIOUS
<1>1. CASE UNCHANGED alertVars BY <1>1 DEF alertVars, AlertRows
<1>2. ASSUME NEW r \in Runs, NEW listings \in SUBSET Listings, NEW auto \in BOOLEAN, StartRun(r, listings, auto) PROVE AlertRows'
  <2> DEFINE row == [on |-> TRUE, auto |-> auto, day |-> date, prices |-> asking, more |-> listings,
                     listing |-> NoListing, todo |-> {}, left |-> Unlimited, sent |-> <<>>]
  <2>1. row \in RunRow BY DEF AlertRows, RunRow
  <2>2. sending' = [sending EXCEPT ![r] = row] /\ UNCHANGED <<pro, asking, alerts, date, cutShort>> BY <1>2 DEF StartRun
  <2> HIDE DEF row
  <2> QED BY <2>1, <2>2, AlertRowsKept DEF AlertRows
<1>3. ASSUME NEW r \in Runs, NEW l \in Listings, NEW willing \in SUBSET Contacts, TakeListing(r, l, willing) PROVE AlertRows'
  <2> DEFINE own == sending[r]
             P == own.prices[l]
             b == IF own.auto => ForAutomatic(l, P, own.day) THEN l ELSE NoListing
             row == [own EXCEPT !.more = @ \ {l}, !.listing = b, !.todo = ToTell(willing, l, P, own.day), !.left = QuotaLeft(own.day)]
  <2>1. own \in RunRow BY <1>3, RunIsRow DEF TakeListing
  <2>2. ToTell(willing, l, P, own.day) \subseteq Contacts BY DEF ToTell
  <2>3. UsedThisMonth(own.day) \in Nat
    <3>1. own.day \in 0..AlertHorizon BY <2>1 DEF RunRow
    <3>2. own.day \in Int BY <3>1, AlertAssumption
    <3> QED BY <3>2, UsedIsCounted
  <2>4. QuotaLeft(own.day) \in Nat \cup {Unlimited} BY <2>3, AlertAssumption DEF QuotaLeft
  <2>5. row \in RunRow BY <2>1, <2>2, <2>4 DEF RunRow
  <2>6. sending' = [sending EXCEPT ![r] = row] /\ UNCHANGED <<pro, asking, alerts, date, cutShort>> BY <1>3 DEF TakeListing
  <2> HIDE DEF row
  <2> QED BY <2>5, <2>6, AlertRowsKept DEF AlertRows
<1>4. ASSUME NEW r \in Runs, NEW c \in Contacts, NEW accepted \in BOOLEAN, TellContact(r, c, accepted) PROVE AlertRows'
  <2> DEFINE own == sending[r]
             a == [listing |-> own.listing, contact |-> c, price |-> own.prices[own.listing], day |-> own.day]
             row == [own EXCEPT !.todo = @ \ {c}, !.sent = IF accepted THEN Append(@, a) ELSE @,
                                !.left = IF accepted THEN LeftAfter(@) ELSE @]
  <2>1. own \in RunRow /\ own.listing # NoListing /\ own.left # 0 BY <1>4, RunIsRow DEF TellContact
  <2>2. own.listing \in Listings /\ own.prices \in [Listings -> Prices] BY <2>1 DEF RunRow
  <2>3. a \in Alert
    <3>1. own.day \in 0..AlertHorizon BY <2>1 DEF RunRow
    <3> QED BY <2>2, <3>1 DEF Alert
  <2>4. LeftAfter(own.left) \in Nat \cup {Unlimited}
    <3>1. own.left \in Nat \cup {Unlimited} BY <2>1 DEF RunRow
    <3> QED BY <2>1, <3>1 DEF LeftAfter, Unlimited
  <2>5. Append(own.sent, a) \in Seq(Alert)
    <3>1. own.sent \in Seq(Alert) BY <2>1 DEF RunRow
    <3> QED BY <2>3, <3>1
  <2> HIDE DEF a
  <2>6. row \in RunRow BY <2>1, <2>4, <2>5 DEF RunRow
  <2>7. sending' = [sending EXCEPT ![r] = row] /\ UNCHANGED <<pro, asking, alerts, date, cutShort>> BY <1>4 DEF TellContact, a
  <2> HIDE DEF row
  <2> QED BY <2>6, <2>7, AlertRowsKept DEF AlertRows
<1>5. ASSUME NEW r \in Runs, RecordListing(r) PROVE AlertRows'
  <2> DEFINE own == sending[r]
             row == [own EXCEPT !.listing = NoListing, !.todo = {}, !.sent = <<>>]
  <2>1. own \in RunRow BY <1>5, RunIsRow DEF RecordListing
  <2>2. row \in RunRow
    <3>1. <<>> \in Seq(Alert) /\ {} \in SUBSET Contacts /\ NoListing \in Listings \cup {NoListing} OBVIOUS
    <3>2. PICK before \in RunRow : before = own BY <2>1
    <3>3. [before EXCEPT !.listing = NoListing, !.todo = {}, !.sent = <<>>] \in RunRow
      BY <3>1, <3>2 DEF RunRow
    <3> QED BY <3>2, <3>3
  <2>3. alerts \o own.sent \in Seq(Alert)
    <3>1. own.sent \in Seq(Alert) BY <2>1 DEF RunRow
    <3> QED BY <3>1 DEF AlertRows
  <2>4. sending' = [sending EXCEPT ![r] = row] /\ alerts' = alerts \o own.sent /\ UNCHANGED <<pro, asking, date, cutShort>>
    BY <1>5 DEF RecordListing
  <2> HIDE DEF row
  <2> QED BY <2>2, <2>3, <2>4, AlertRowsKept DEF AlertRows
<1>6. ASSUME NEW r \in Runs, EndRun(r) \/ RunDies(r) PROVE AlertRows'
  <2>1. sending' = [sending EXCEPT ![r] = NoSending] /\ UNCHANGED <<pro, asking, alerts, date>> BY <1>6 DEF EndRun, RunDies
  <2>2. cutShort' \in 0..AlertDeaths BY <1>6, AlertAssumption DEF EndRun, RunDies, AlertRows
  <2> QED BY <2>1, <2>2, AlertRowsKept DEF AlertRows
<1>7. ASSUME NEW l \in Listings, NEW p \in Prices, NewPrice(l, p) PROVE AlertRows' BY <1>7 DEF NewPrice, AlertRows
<1>8. CASE NextDate
  <2>1. date' \in 0..AlertHorizon BY <1>8, AlertAssumption DEF NextDate, AlertRows
  <2> QED BY <1>8, <2>1 DEF NextDate, AlertRows
<1>9. ASSUME NEW r \in Runs, StartRun(r, Listings, TRUE) \/ \E l \in Listings : StartRun(r, {l}, FALSE) PROVE AlertRows'
  <2>1. CASE StartRun(r, Listings, TRUE) BY <2>1, <1>2
  <2>2. ASSUME NEW l \in Listings, StartRun(r, {l}, FALSE) PROVE AlertRows'
    <3>1. {l} \in SUBSET Listings OBVIOUS
    <3> QED BY <2>2, <3>1, <1>2
  <2> QED BY <1>9, <2>1, <2>2
<1> QED BY <1>1, <1>3, <1>4, <1>5, <1>6, <1>7, <1>8, <1>9 DEF AlertNext

\* Every run works on a row of the right shape, however many there are.
THEOREM AlertTypeCorrect == AlertSpec => []AlertTypeOK
<1>1. AlertInit => AlertRows BY AlertsStart DEF AlertInv
<1>2. AlertRows => AlertTypeOK
  <2> SUFFICES ASSUME AlertRows PROVE AlertTypeOK OBVIOUS
  <2>1. ASSUME NEW r \in Runs, sending[r].on PROVE sending[r].sent \in Seq(Alert) /\ sending[r].todo \subseteq Contacts
    BY <2>1, RunIsRow DEF RunRow
  <2> QED BY <2>1 DEF AlertRows, AlertTypeOK
<1> QED BY <1>1, <1>2, AlertStepKeepsRows, PTL DEF AlertSpec

-----------------------------------------------------------------------------
(* ProspectMailer: the rows, and the addresses kept apart.                 *)

TaskRow == [p : SUBSET Prospects, row : ProspectRow, place : {"idle", "sending", "sent"}]
LeftRow == [step : 1..Steps, at : Nat]

\* Every task has the row of a prospect who has a step to come.
MailRows ==
    /\ today \in Nat /\ erased \in Nat
    /\ prospect \in [Prospects -> ProspectRow]
    /\ suppressed \subseteq Prospects
    /\ task \in [Senders -> TaskRow]
    /\ \A s \in Senders : task[s].place # "idle" => task[s].row.email_step < Steps
    /\ \A m \in inbox : m.p \in Prospects /\ m.kind \in {"bounce", "stop", "answer"}
    /\ left \in [Prospects -> Seq(LeftRow)]
    /\ late \in [Prospects -> Nat]

SendingTo(p) == {s \in Senders : task[s].place = "sending" /\ task[s].p = {p}}

\* An address kept apart hears from the tasks that were sending to it, and no other.
Apart ==
    \A p \in Prospects :
        IF p \in suppressed THEN late[p] + Cardinality(SendingTo(p)) <= Cardinality(Senders) ELSE late[p] = 0

LEMMA SendingIsCounted ==
    ASSUME NEW T \in SUBSET Senders, NEW S \in SUBSET T
    PROVE  /\ Cardinality(S) \in Nat /\ Cardinality(T) \in Nat /\ Cardinality(Senders) \in Nat
           /\ Cardinality(S) <= Cardinality(T)
<1>1. IsFiniteSet(Senders) BY MailAssumption
<1>2. IsFiniteSet(T) BY <1>1, FS_Subset
<1>3. IsFiniteSet(S) /\ Cardinality(S) <= Cardinality(T) BY <1>2, FS_Subset
<1> QED BY <1>1, <1>2, <1>3, FS_CardinalityType

\* No address leaves those kept apart, and no task takes one.
LEMMA ApartKeeps ==
    ASSUME MailRows, Apart, late' = late, suppressed \subseteq suppressed',
           \A p \in suppressed : \A s \in Senders :
               task'[s].place = "sending" /\ task'[s].p = {p} => task[s].place = "sending" /\ task[s].p = {p}
    PROVE  Apart'
<1> SUFFICES ASSUME NEW p \in Prospects
             PROVE  IF p \in suppressed' THEN late'[p] + Cardinality(SendingTo(p)') <= Cardinality(Senders) ELSE late'[p] = 0
  BY DEF Apart
<1>1. late[p] \in Nat BY DEF MailRows
<1> DEFINE S == SendingTo(p)
           T == SendingTo(p)'
<1>2. S \subseteq Senders /\ T \subseteq Senders BY DEF SendingTo
<1>3. p \in suppressed => T \subseteq S BY DEF SendingTo
<1>4. p \in suppressed => late[p] + Cardinality(S) <= Cardinality(Senders) BY DEF Apart
<1>5. p \notin suppressed => late[p] = 0 BY DEF Apart
<1> HIDE DEF S, T
<1>6. Cardinality(T) \in Nat /\ Cardinality(Senders) \in Nat /\ Cardinality(T) <= Cardinality(Senders)
  BY <1>2, SendingIsCounted
<1>7. p \in suppressed => Cardinality(S) \in Nat /\ Cardinality(T) <= Cardinality(S) BY <1>2, <1>3, SendingIsCounted
<1>8. IF p \in suppressed' THEN late'[p] + Cardinality(T) <= Cardinality(Senders) ELSE late'[p] = 0
  BY <1>1, <1>4, <1>5, <1>6, <1>7
<1> QED BY <1>8 DEF T

LEMMA MailStarts == MailInit => MailRows /\ Apart
<1> SUFFICES ASSUME MailInit PROVE MailRows /\ Apart OBVIOUS
<1>1. NoProspect \in ProspectRow BY MailAssumption DEF NoProspect, ProspectRow, Unset
<1>2. NoTask \in TaskRow BY <1>1 DEF NoTask, TaskRow
<1>3. MailRows BY <1>1, <1>2 DEF MailInit, MailRows, NoTask
<1>4. Apart BY DEF MailInit, Apart
<1> QED BY <1>3, <1>4

LEMMA WrittenIsRow ==
    ASSUME MailRows, NEW p \in Prospects, NEW old \in ProspectRow, NEW new \in ProspectRow
    PROVE  /\ Written(p, old, new) \in ProspectRow
           /\ Written(p, old, new).status = IF new.status # old.status THEN new.status ELSE prospect[p].status
           /\ Written(p, old, new).campaign = IF new.campaign # old.campaign THEN new.campaign ELSE prospect[p].campaign
           /\ Written(p, old, new).email_step = IF new.email_step # old.email_step THEN new.email_step ELSE prospect[p].email_step
           /\ Written(p, old, new).next_email_at =
                 IF new.next_email_at # old.next_email_at THEN new.next_email_at ELSE prospect[p].next_email_at
<1>1. prospect[p] \in ProspectRow BY DEF MailRows
<1>2. DOMAIN new = {"status", "campaign", "email_step", "next_email_at", "reacted"} BY DEF ProspectRow
<1>3. Written(p, old, new) = [f \in DOMAIN new |-> IF new[f] # old[f] THEN new[f] ELSE prospect[p][f]] BY DEF Written
<1> DEFINE w == [f \in DOMAIN new |-> IF new[f] # old[f] THEN new[f] ELSE prospect[p][f]]
<1>4. /\ w = [status |-> w.status, campaign |-> w.campaign, email_step |-> w.email_step,
              next_email_at |-> w.next_email_at, reacted |-> w.reacted]
      /\ w.status = IF new.status # old.status THEN new.status ELSE prospect[p].status
      /\ w.campaign = IF new.campaign # old.campaign THEN new.campaign ELSE prospect[p].campaign
      /\ w.email_step = IF new.email_step # old.email_step THEN new.email_step ELSE prospect[p].email_step
      /\ w.next_email_at = IF new.next_email_at # old.next_email_at THEN new.next_email_at ELSE prospect[p].next_email_at
      /\ w.reacted = IF new.reacted # old.reacted THEN new.reacted ELSE prospect[p].reacted
  BY <1>2
<1> HIDE DEF w
<1>5. w \in ProspectRow BY <1>1, <1>4 DEF ProspectRow
<1> QED BY <1>3, <1>4, <1>5 DEF w

\* What an action may do to the rows without more ado.
LEMMA MailRowsKept ==
    ASSUME MailRows, today' \in Nat, erased' \in Nat, prospect' \in [Prospects -> ProspectRow], suppressed' \subseteq Prospects,
           task' = task \/ \E s \in Senders : task' = [task EXCEPT ![s] = NoTask], inbox' \subseteq inbox,
           left' = left, late' = late, suppressed \subseteq suppressed'
    PROVE  MailRows' /\ (Apart => Apart')
<1>1. NoProspect \in ProspectRow BY MailAssumption DEF NoProspect, ProspectRow, Unset
<1>2. NoTask \in TaskRow /\ NoTask.place = "idle" BY <1>1 DEF NoTask, TaskRow
<1>3. \A s \in Senders : task'[s] = task[s] \/ task'[s] = NoTask BY DEF MailRows
<1>4. task' \in [Senders -> TaskRow] BY <1>2 DEF MailRows
<1>5. \A s \in Senders : task'[s].place # "idle" => task'[s].row.email_step < Steps BY <1>2, <1>3 DEF MailRows
<1>6. \A m \in inbox' : m.p \in Prospects /\ m.kind \in {"bounce", "stop", "answer"} BY DEF MailRows
<1>7. MailRows' BY <1>4, <1>5, <1>6 DEF MailRows
<1>8. \A s \in Senders : task'[s].place = "sending" => task'[s] = task[s] BY <1>2, <1>3
<1>9. Apart => Apart' BY <1>8, ApartKeeps
<1> QED BY <1>7, <1>9

LEMMA ChooseProspectKeepsRows ==
    ASSUME MailRows, Apart, NEW s \in Senders, NEW p \in Prospects, ChooseProspect(s, p)
    PROVE  MailRows' /\ Apart'
<1> DEFINE t == [p |-> {p}, row |-> prospect[p], place |-> "sending"]
<1>1. task' = [task EXCEPT ![s] = t] BY DEF ChooseProspect
<1>2. prospect[p] \in ProspectRow /\ prospect[p].email_step < Steps /\ p \notin suppressed
  BY DEF MailRows, ChooseProspect, Candidate
<1>3. t \in TaskRow /\ t.row.email_step < Steps /\ t.p = {p} BY <1>2 DEF TaskRow
<1> HIDE DEF t
<1>4. task' \in [Senders -> TaskRow] /\ \A r \in Senders : task'[r] = IF r = s THEN t ELSE task[r]
  BY <1>1, <1>3 DEF MailRows
<1>5. MailRows' BY <1>3, <1>4 DEF MailRows, ChooseProspect
<1>6. \A q \in suppressed : \A r \in Senders : task'[r].p = {q} => r # s BY <1>2, <1>3, <1>4
<1>7. \A q \in suppressed : \A r \in Senders :
          task'[r].place = "sending" /\ task'[r].p = {q} => task[r].place = "sending" /\ task[r].p = {q}
  BY <1>4, <1>6
<1>8. late' = late /\ suppressed' = suppressed BY DEF ChooseProspect
<1>9. Apart' BY <1>7, <1>8, ApartKeeps
<1> QED BY <1>5, <1>9

\* The email that leaves to an address kept apart was one of those being sent.
LEMMA LeavesKeepsRows ==
    ASSUME MailRows, Apart, NEW s \in Senders, NEW p \in Prospects, Leaves(s, p)
    PROVE  MailRows' /\ Apart'
<1> DEFINE t == [task[s] EXCEPT !.place = "sent"]
           e == [step |-> task[s].row.email_step + 1, at |-> today]
<1>1. task[s] \in TaskRow /\ task[s].place = "sending" /\ task[s].p = {p} BY DEF MailRows, Leaves
<1>2. task[s].row.email_step \in 0..Steps /\ task[s].row.email_step < Steps BY <1>1 DEF MailRows, TaskRow, ProspectRow
<1>3. t \in TaskRow /\ t.row = task[s].row /\ t.place = "sent" BY <1>1 DEF TaskRow
<1>4. task' = [task EXCEPT ![s] = t] BY DEF Leaves
<1>5. e \in LeftRow
  <2>1. task[s].row.email_step + 1 \in 1..Steps BY <1>2, MailAssumption
  <2>2. today \in Nat BY DEF MailRows
  <2> QED BY <2>1, <2>2 DEF LeftRow
<1>6. left' = [left EXCEPT ![p] = Append(@, e)] BY DEF Leaves
<1> HIDE DEF t, e
<1>7. task' \in [Senders -> TaskRow] /\ \A r \in Senders : task'[r] = IF r = s THEN t ELSE task[r]
  BY <1>3, <1>4 DEF MailRows
<1>8. left' \in [Prospects -> Seq(LeftRow)] BY <1>5, <1>6 DEF MailRows
<1>9. late' = [late EXCEPT ![p] = IF p \in suppressed THEN @ + 1 ELSE @] BY DEF Leaves
<1>10. late' \in [Prospects -> Nat] BY <1>9 DEF MailRows
<1>11. MailRows' BY <1>2, <1>3, <1>7, <1>8, <1>10 DEF MailRows, Leaves
<1>12. Apart'
  <2> SUFFICES ASSUME NEW q \in Prospects
               PROVE  IF q \in suppressed' THEN late'[q] + Cardinality(SendingTo(q)') <= Cardinality(Senders) ELSE late'[q] = 0
    BY DEF Apart
  <2> DEFINE S == SendingTo(q)
             T == SendingTo(q)'
  <2>1. suppressed' = suppressed BY DEF Leaves
  <2>2. late[q] \in Nat BY DEF MailRows
  <2>3. late'[q] = IF q = p /\ p \in suppressed THEN late[q] + 1 ELSE late[q] BY <1>9 DEF MailRows
  <2>4. T = S \ {s} BY <1>3, <1>7 DEF SendingTo
  <2>5. q = p => s \in S BY <1>1 DEF SendingTo
  <2>6. S \subseteq Senders BY DEF SendingTo
  <2>7. IF q \in suppressed THEN late[q] + Cardinality(S) <= Cardinality(Senders) ELSE late[q] = 0 BY DEF Apart
  <2> HIDE DEF S, T
  <2>8. IsFiniteSet(S) BY <2>6, MailAssumption, FS_Subset
  <2>9. Cardinality(S) \in Nat /\ Cardinality(T) \in Nat /\ Cardinality(Senders) \in Nat /\ Cardinality(T) <= Cardinality(S)
    BY <2>4, <2>6, SendingIsCounted
  <2>10. q = p => Cardinality(T) = Cardinality(S) - 1 BY <2>4, <2>5, <2>8, FS_RemoveElement
  <2>11. IF q \in suppressed THEN late'[q] + Cardinality(T) <= Cardinality(Senders) ELSE late'[q] = 0
    BY <2>2, <2>3, <2>7, <2>9, <2>10
  <2> QED BY <2>1, <2>11 DEF T
<1> QED BY <1>11, <1>12

LEMMA RecordSentKeepsRows ==
    ASSUME MailRows, Apart, NEW s \in Senders, NEW p \in Prospects, RecordSent(s, p)
    PROVE  MailRows' /\ Apart'
<1> DEFINE old == task[s].row
           step == old.email_step + 1
           new == [old EXCEPT !.email_step = step, !.next_email_at = IF step < Steps THEN today + StepDelay ELSE Unset]
<1>1. old \in ProspectRow /\ old.email_step < Steps BY DEF MailRows, TaskRow, RecordSent
<1>2. old.email_step \in 0..Steps BY <1>1 DEF ProspectRow
<1>3. (IF step < Steps THEN today + StepDelay ELSE Unset) \in Int BY <1>2, MailAssumption DEF MailRows, Unset
<1>4. step \in 0..Steps BY <1>1, <1>2, MailAssumption
<1>5. new \in ProspectRow BY <1>1, <1>3, <1>4 DEF ProspectRow
<1>6. prospect' = [prospect EXCEPT ![p] = Written(p, old, new)] BY DEF RecordSent
<1> HIDE DEF old, new
<1>7. Written(p, old, new) \in ProspectRow BY <1>1, <1>5, WrittenIsRow
<1>8. prospect' \in [Prospects -> ProspectRow] BY <1>6, <1>7 DEF MailRows
<1>9. task' = [task EXCEPT ![s] = NoTask] BY DEF RecordSent, Idle
<1> QED BY <1>8, <1>9, MailRowsKept DEF RecordSent, MailRows

LEMMA InvalidateKeepsRows ==
    ASSUME MailRows, NEW p \in Prospects, NEW old \in ProspectRow, Invalidate(p, old)
    PROVE  prospect' \in [Prospects -> ProspectRow] /\ suppressed' \subseteq Prospects /\ suppressed \subseteq suppressed'
<1> DEFINE new == [old EXCEPT !.status = "INVALID", !.next_email_at = Unset]
<1>u. Unset \in Int /\ "INVALID" \in {"NONE", "ACTIVE", "NOT_INTERESTED", "UNSUBSCRIBED", "INVALID"} BY DEF Unset
<1>1. new \in ProspectRow BY <1>u DEF ProspectRow
<1>2. prospect' = [prospect EXCEPT ![p] = Written(p, old, new)] /\ suppressed' = suppressed \cup {p} BY DEF Invalidate
<1> HIDE DEF new
<1>3. Written(p, old, new) \in ProspectRow BY <1>1, WrittenIsRow
<1> QED BY <1>2, <1>3 DEF MailRows

LEMMA RefusedKeepsRows ==
    ASSUME MailRows, Apart, NEW s \in Senders, NEW p \in Prospects, Refused(s, p) \/ Fails(s, p) \/ GivesUp(s)
    PROVE  MailRows' /\ Apart'
<1>1. task' = [task EXCEPT ![s] = NoTask] BY DEF Refused, Fails, GivesUp, Idle
<1>2. task[s].row \in ProspectRow BY DEF MailRows, TaskRow
<1>3. prospect' \in [Prospects -> ProspectRow] /\ suppressed' \subseteq Prospects /\ suppressed \subseteq suppressed'
  <2>1. CASE Invalidate(p, task[s].row) BY <2>1, <1>2, InvalidateKeepsRows
  <2>2. CASE UNCHANGED <<prospect, suppressed>> BY <2>2 DEF MailRows
  <2> QED BY <2>1, <2>2 DEF Refused, Fails, GivesUp
<1>4. today' = today /\ erased' = erased /\ inbox' = inbox /\ left' = left /\ late' = late BY DEF Refused, Fails, GivesUp
<1> QED BY <1>1, <1>3, <1>4, MailRowsKept DEF MailRows

LEMMA UnsubscribedKeepsRows ==
    ASSUME MailRows, NEW p \in Prospects, Unsubscribed(p)
    PROVE  prospect' \in [Prospects -> ProspectRow] /\ suppressed' \subseteq Prospects /\ suppressed \subseteq suppressed'
<1>u. Unset \in Int BY DEF Unset
<1>1. prospect[p] \in ProspectRow BY DEF MailRows
<1>v. (IF prospect[p].status = "UNSUBSCRIBED" THEN prospect[p].next_email_at ELSE Unset) \in Int BY <1>u, <1>1 DEF ProspectRow
<1>2. [prospect[p] EXCEPT !.status = "UNSUBSCRIBED",
          !.next_email_at = IF prospect[p].status = "UNSUBSCRIBED" THEN @ ELSE Unset] \in ProspectRow
  BY <1>1, <1>v DEF ProspectRow
<1>3. prospect' = [prospect EXCEPT ![p] = [prospect[p] EXCEPT !.status = "UNSUBSCRIBED",
          !.next_email_at = IF prospect[p].status = "UNSUBSCRIBED" THEN @ ELSE Unset]]
  BY DEF Unsubscribed, MailRows
<1> QED BY <1>2, <1>3 DEF Unsubscribed, MailRows

\* What he did, and what the team did.
LEMMA PeopleKeepRows ==
    ASSUME MailRows, Apart, NEW p \in Prospects,
           \/ Unsubscribe(p) \/ Clicks(p) \/ ImportProspect(p) \/ Erase(p)
           \/ \E st \in {"ACTIVE", "NOT_INTERESTED"} : ChangeStatus(p, st)
    PROVE  MailRows' /\ Apart'
<1>1. prospect[p] \in ProspectRow /\ NoProspect \in ProspectRow
  BY MailAssumption DEF MailRows, NoProspect, ProspectRow, Unset
<1>2. task' = task /\ today' = today /\ inbox' = inbox /\ left' = left /\ late' = late
  BY DEF Unsubscribe, Clicks, ImportProspect, Erase, ChangeStatus
<1>3. erased' \in Nat BY DEF Unsubscribe, Clicks, ImportProspect, Erase, ChangeStatus, MailRows
<1>4. suppressed' = suppressed \/ Unsubscribed(p) BY DEF Unsubscribe, Clicks, ImportProspect, Erase, ChangeStatus
<1>5. Unsubscribed(p) \/ \E row \in ProspectRow : prospect' = [prospect EXCEPT ![p] = row]
  <2>1. CASE Unsubscribe(p) BY <2>1 DEF Unsubscribe
  <2>2. CASE Clicks(p)
    <3>1. [prospect[p] EXCEPT !.reacted = TRUE] \in ProspectRow BY <1>1 DEF ProspectRow
    <3> QED BY <2>2, <3>1 DEF Clicks
  <2>3. CASE ImportProspect(p)
    <3>1. [NoProspect EXCEPT !.status = "ACTIVE"] \in ProspectRow BY <1>1 DEF ProspectRow
    <3> QED BY <2>3, <3>1 DEF ImportProspect
  <2>4. CASE Erase(p) BY <2>4, <1>1 DEF Erase
  <2>5. ASSUME NEW st \in {"ACTIVE", "NOT_INTERESTED"}, ChangeStatus(p, st)
        PROVE  \E row \in ProspectRow : prospect' = [prospect EXCEPT ![p] = row]
    <3>1. [prospect[p] EXCEPT !.status = st] \in ProspectRow BY <1>1 DEF ProspectRow
    <3> QED BY <2>5, <3>1 DEF ChangeStatus
  <2> QED BY <2>1, <2>2, <2>3, <2>4, <2>5
<1>6. prospect' \in [Prospects -> ProspectRow] /\ suppressed' \subseteq Prospects /\ suppressed \subseteq suppressed'
  <2>1. CASE Unsubscribed(p) BY <2>1, UnsubscribedKeepsRows
  <2>2. CASE suppressed' = suppressed /\ \E row \in ProspectRow : prospect' = [prospect EXCEPT ![p] = row]
    BY <2>2 DEF MailRows
  <2> QED BY <1>4, <1>5, <2>1, <2>2
<1> QED BY <1>2, <1>3, <1>6, MailRowsKept DEF MailRows

LEMMA ArrivesKeepsRows ==
    ASSUME MailRows, Apart, NEW p \in Prospects, NEW k \in {"bounce", "stop", "answer"}, Arrives(p, k)
    PROVE  MailRows' /\ Apart'
<1>1. inbox' = inbox \cup {[p |-> p, kind |-> k]} BY DEF Arrives
<1>2. \A m \in inbox' : m.p \in Prospects /\ m.kind \in {"bounce", "stop", "answer"} BY <1>1 DEF MailRows
<1>3. MailRows' BY <1>2 DEF MailRows, Arrives
<1>4. task' = task /\ late' = late /\ suppressed' = suppressed BY DEF Arrives
<1> QED BY <1>3, <1>4, ApartKeeps

LEMMA ReadMessageKeepsRows ==
    ASSUME MailRows, Apart, NEW m \in inbox, ReadMessage(m)
    PROVE  MailRows' /\ Apart'
<1>1. m.p \in Prospects /\ m.kind \in {"bounce", "stop", "answer"} /\ prospect[m.p] \in ProspectRow BY DEF MailRows
<1>2. \/ UNCHANGED <<prospect, suppressed>> \/ Invalidate(m.p, prospect[m.p]) \/ Unsubscribed(m.p)
      \/ /\ prospect' = [prospect EXCEPT ![m.p].reacted = TRUE, ![m.p].next_email_at = Unset]
         /\ suppressed' = suppressed
  BY <1>1 DEF ReadMessage
<1>3. prospect' \in [Prospects -> ProspectRow] /\ suppressed' \subseteq Prospects /\ suppressed \subseteq suppressed'
  <2>1. CASE UNCHANGED <<prospect, suppressed>> BY <2>1 DEF MailRows
  <2>2. CASE Invalidate(m.p, prospect[m.p]) BY <2>2, <1>1, InvalidateKeepsRows
  <2>3. CASE Unsubscribed(m.p) BY <2>3, <1>1, UnsubscribedKeepsRows
  <2>4. CASE /\ prospect' = [prospect EXCEPT ![m.p].reacted = TRUE, ![m.p].next_email_at = Unset]
             /\ suppressed' = suppressed
    <3>u. Unset \in Int BY DEF Unset
    <3>1. [prospect[m.p] EXCEPT !.reacted = TRUE, !.next_email_at = Unset] \in ProspectRow BY <3>u, <1>1 DEF ProspectRow
    <3>2. prospect' = [prospect EXCEPT ![m.p] = [prospect[m.p] EXCEPT !.reacted = TRUE, !.next_email_at = Unset]]
      BY <2>4, <1>1 DEF MailRows
    <3> QED BY <2>4, <3>1, <3>2, <1>1 DEF MailRows
  <2> QED BY <1>2, <2>1, <2>2, <2>3, <2>4
<1>4. today' = today /\ erased' = erased /\ task' = task /\ inbox' \subseteq inbox /\ left' = left /\ late' = late
  BY DEF ReadMessage
<1> QED BY <1>3, <1>4, MailRowsKept DEF MailRows

LEMMA CampaignKeepsRows ==
    ASSUME MailRows, Apart, StartCampaign \/ PauseCampaign \/ DaysPass
    PROVE  MailRows' /\ Apart'
<1>1. prospect' \in [Prospects -> ProspectRow]
  <2>1. CASE StartCampaign
    <3> SUFFICES ASSUME NEW p \in Prospects
                 PROVE  (IF p \in Eligible THEN [prospect[p] EXCEPT !.campaign = TRUE, !.email_step = 0, !.next_email_at = Unset]
                         ELSE prospect[p]) \in ProspectRow
      BY <2>1 DEF StartCampaign
    <3>1. prospect[p] \in ProspectRow BY DEF MailRows
    <3>2. Unset \in Int /\ 0 \in 0..Steps BY MailAssumption DEF Unset
    <3> QED BY <3>1, <3>2 DEF ProspectRow
  <2>2. CASE PauseCampaign \/ DaysPass BY <2>2 DEF PauseCampaign, DaysPass, MailRows
  <2> QED BY <2>1, <2>2
<1>2. /\ erased' = erased /\ suppressed' = suppressed /\ task' = task /\ inbox' = inbox
      /\ left' = left /\ late' = late /\ (today' = today \/ today' = today + 1)
  BY DEF StartCampaign, PauseCampaign, DaysPass
<1> QED BY <1>1, <1>2, MailRowsKept DEF MailRows

LEMMA MailStepKeepsRows == MailRows /\ Apart /\ [MailNext]_mailVars => MailRows' /\ Apart'
<1> SUFFICES ASSUME MailRows, Apart, [MailNext]_mailVars PROVE MailRows' /\ Apart' OBVIOUS
<1>1. CASE StartCampaign \/ PauseCampaign \/ DaysPass BY <1>1, CampaignKeepsRows
<1>2. ASSUME NEW s \in Senders, GivesUp(s) PROVE MailRows' /\ Apart'
  <2>1. CASE Prospects = {}
    <3>1. task' = [task EXCEPT ![s] = NoTask] BY <1>2 DEF GivesUp, Idle
    <3> QED BY <1>2, <3>1, MailRowsKept DEF GivesUp, MailRows
  <2>2. CASE Prospects # {}
    <3>1. PICK p \in Prospects : TRUE BY <2>2
    <3> QED BY <1>2, RefusedKeepsRows
  <2> QED BY <2>1, <2>2
<1>3. ASSUME NEW s \in Senders, NEW p \in Prospects, ChooseProspect(s, p) PROVE MailRows' /\ Apart'
  BY <1>3, ChooseProspectKeepsRows
<1>4. ASSUME NEW s \in Senders, NEW p \in Prospects, Leaves(s, p) PROVE MailRows' /\ Apart'
  BY <1>4, LeavesKeepsRows
<1>5. ASSUME NEW s \in Senders, NEW p \in Prospects, RecordSent(s, p) PROVE MailRows' /\ Apart'
  BY <1>5, RecordSentKeepsRows
<1>6. ASSUME NEW s \in Senders, NEW p \in Prospects, Refused(s, p) \/ Fails(s, p) PROVE MailRows' /\ Apart'
  BY <1>6, RefusedKeepsRows
<1>7. ASSUME NEW p \in Prospects,
             \/ Unsubscribe(p) \/ Clicks(p) \/ ImportProspect(p) \/ Erase(p)
             \/ \E st \in {"ACTIVE", "NOT_INTERESTED"} : ChangeStatus(p, st)
      PROVE  MailRows' /\ Apart'
  BY <1>7, PeopleKeepRows
<1>8. ASSUME NEW p \in Prospects, NEW k \in {"bounce", "stop", "answer"}, Arrives(p, k) PROVE MailRows' /\ Apart'
  BY <1>8, ArrivesKeepsRows
<1>9. ASSUME NEW m \in inbox, ReadMessage(m) PROVE MailRows' /\ Apart' BY <1>9, ReadMessageKeepsRows
<1>10. CASE UNCHANGED mailVars
  BY <1>10, MailRowsKept DEF mailVars, MailRows
<1> QED BY <1>1, <1>2, <1>3, <1>4, <1>5, <1>6, <1>7, <1>8, <1>9, <1>10 DEF MailNext

\* For any number of prospects and of tasks at the same time, whatever dies, is
\* erased, imported again or set back to ACTIVE: an address that unsubscribed or
\* does not exist gets at most one email more by task.
THEOREM KeptApart == MailSpec => []PutApartForEver
<1>1. MailRows /\ Apart => PutApartForEver
  <2> SUFFICES ASSUME MailRows, Apart, NEW p \in Prospects PROVE late[p] <= Cardinality(Senders) BY DEF PutApartForEver
  <2> DEFINE S == SendingTo(p)
  <2>1. S \subseteq Senders BY DEF SendingTo
  <2>2. IF p \in suppressed THEN late[p] + Cardinality(S) <= Cardinality(Senders) ELSE late[p] = 0 BY DEF Apart
  <2>3. late[p] \in Nat BY DEF MailRows
  <2> HIDE DEF S
  <2>4. Cardinality(S) \in Nat /\ Cardinality(Senders) \in Nat BY <2>1, SendingIsCounted
  <2> QED BY <2>2, <2>3, <2>4
<1>2. (MailRows /\ Apart) /\ [MailNext]_mailVars => (MailRows /\ Apart)' BY MailStepKeepsRows
<1> QED BY <1>1, <1>2, MailStarts, PTL DEF MailSpec

-----------------------------------------------------------------------------
(* ProspectMailer: the limit per day.                                      *)

EmailRow == [p : Prospects, step : 1..Steps, status : {"SENT", "FAILED", "BOUNCED"}, sent_at : Nat]

\* The rows of a table of emails that count since d.
Counts(e, d) == e.status \in {"SENT", "BOUNCED"} /\ e.sent_at >= d
RowsSince(q, d)  == {k \in DOMAIN q : Counts(q[k], d)}

LEMMA OneMoreRow ==
    ASSUME NEW q \in Seq(EmailRow), NEW e \in EmailRow, NEW d
    PROVE  /\ IsFiniteSet(RowsSince(q, d)) /\ Cardinality(RowsSince(q, d)) \in Nat
           /\ Cardinality(RowsSince(Append(q, e), d)) = Cardinality(RowsSince(q, d)) + IF Counts(e, d) THEN 1 ELSE 0
<1> DEFINE n == Len(q) + 1
<1>1. DOMAIN q = 1..Len(q) /\ Len(q) \in Nat /\ DOMAIN Append(q, e) = 1..n OBVIOUS
<1>2. \A k \in 1..n : Append(q, e)[k] = IF k = n THEN e ELSE q[k] OBVIOUS
<1>3. RowsSince(q, d) \subseteq 1..Len(q) /\ n \notin RowsSince(q, d) BY <1>1 DEF RowsSince
<1>4. RowsSince(Append(q, e), d) = IF Counts(e, d) THEN RowsSince(q, d) \cup {n} ELSE RowsSince(q, d) BY <1>1, <1>2 DEF RowsSince
<1>5. IsFiniteSet(1..Len(q)) BY <1>1, FS_Interval
<1>6. IsFiniteSet(RowsSince(q, d)) BY <1>3, <1>5, FS_Subset
<1>7. Cardinality(RowsSince(q, d)) \in Nat BY <1>6, FS_CardinalityType
<1>8. Cardinality(RowsSince(q, d) \cup {n}) = Cardinality(RowsSince(q, d)) + 1 BY <1>3, <1>6, FS_AddElement
<1> QED BY <1>4, <1>6, <1>7, <1>8

\* F takes the emails of p away, as Without does.
KeptRule(q, p, F) ==
    F = [i \in 0..Len(q) |-> IF i = 0 THEN <<>> ELSE IF q[i].p = p THEN F[i - 1] ELSE Append(F[i - 1], q[i])]

LEMMA KeptRuleHasOne ==
    ASSUME NEW q, Len(q) \in Nat, NEW p
    PROVE  \E F : KeptRule(q, p, F)
<1> DEFINE Step(g, i) == IF i = 0 THEN <<>> ELSE IF q[i].p = p THEN g[i - 1] ELSE Append(g[i - 1], q[i])
           T == {n \in Nat : \E g : g = [i \in 0..n |-> Step(g, i)]}
<1>1. 0 \in T
  <2> DEFINE g == [i \in 0..0 |-> <<>>]
  <2>1. g = [i \in 0..0 |-> Step(g, i)] OBVIOUS
  <2> QED BY <2>1
<1>2. ASSUME NEW n \in T PROVE n + 1 \in T
  <2>1. PICK g : g = [i \in 0..n |-> Step(g, i)] OBVIOUS
  <2> DEFINE h == [i \in 0..(n + 1) |-> Step(g, i)]
  <2>2. ASSUME NEW i \in 0..(n + 1) PROVE Step(g, i) = Step(h, i)
    <3>1. CASE i = 0 BY <3>1
    <3>2. CASE i # 0
      <4>1. i - 1 \in 0..n /\ i - 1 \in 0..(n + 1) BY <3>2
      <4>2. g[i - 1] = h[i - 1] BY <2>1, <4>1
      <4> HIDE DEF h
      <4> QED BY <3>2, <4>2
    <3> QED BY <3>1, <3>2
  <2>3. h = [i \in 0..(n + 1) |-> Step(h, i)] BY <2>2
  <2> HIDE DEF h, Step
  <2>4. \E k : k = [i \in 0..(n + 1) |-> Step(k, i)] BY <2>3
  <2> QED BY <2>4
<1>3. T = Nat
  <2> HIDE DEF T
  <2>1. T \subseteq Nat BY DEF T
  <2> QED BY <1>1, <1>2, <2>1, NatSetInduction
<1>4. Len(q) \in T BY <1>3
<1>5. \E g : g = [i \in 0..Len(q) |-> Step(g, i)] BY <1>4
<1> QED BY <1>5 DEF KeptRule

\* The rows that are deleted are those of p: the others count as before.
LEMMA WithoutCounts ==
    ASSUME emails \in Seq(EmailRow), NEW p \in Prospects, NEW d
    PROVE  /\ Without(p) \in Seq(EmailRow)
           /\ Cardinality(RowsSince(emails, d)) <= Cardinality(RowsSince(Without(p), d)) + Cardinality(RowsOf(p, {"SENT", "BOUNCED"}))
           /\ Cardinality(RowsOf(p, {"SENT", "BOUNCED"})) \in Nat
<1> DEFINE F == CHOOSE G : KeptRule(emails, p, G)
           n == Len(emails)
           Others(i) == {k \in 1..i : Counts(emails[k], d) /\ emails[k].p # p}
           T == {i \in Nat : i <= n => /\ F[i] \in Seq(EmailRow)
                                       /\ Cardinality(RowsSince(F[i], d)) = Cardinality(Others(i))
                                       /\ Cardinality(Others(i)) \in Nat}
<1>1. n \in Nat /\ DOMAIN emails = 1..n /\ \A k \in 1..n : emails[k] \in EmailRow OBVIOUS
<1>2. KeptRule(emails, p, F) BY <1>1, KeptRuleHasOne
<1>3. Without(p) = F[n] BY DEF Without, KeptRule
<1> HIDE DEF F
<1>4. F[0] = <<>> /\ \A i \in 1..n : F[i] = IF emails[i].p = p THEN F[i - 1] ELSE Append(F[i - 1], emails[i])
  <2>1. F = [i \in 0..n |-> IF i = 0 THEN <<>> ELSE IF emails[i].p = p THEN F[i - 1] ELSE Append(F[i - 1], emails[i])]
    BY <1>2 DEF KeptRule
  <2> HIDE DEF n
  <2>2. F[0] = <<>> BY <1>1, <2>1
  <2>3. ASSUME NEW i \in 1..n PROVE F[i] = IF emails[i].p = p THEN F[i - 1] ELSE Append(F[i - 1], emails[i])
    <3>1. i \in 0..n /\ i # 0 BY <1>1
    <3> QED BY <2>1, <3>1
  <2> QED BY <2>2, <2>3
<1>5. 0 \in T
  <2>1. Others(0) = {} /\ RowsSince(<<>>, d) = {} /\ <<>> \in Seq(EmailRow) BY DEF RowsSince
  <2>2. Cardinality({}) = 0 BY FS_EmptySet
  <2> HIDE DEF Others
  <2>3. F[0] \in Seq(EmailRow) BY <1>4, <2>1
  <2>4. RowsSince(F[0], d) = {} BY <1>4, <2>1
  <2>5. Cardinality(RowsSince(F[0], d)) = Cardinality(Others(0)) BY <2>1, <2>4
  <2>6. Cardinality(Others(0)) = 0 BY <2>1, <2>2, Zenon
  <2> QED BY <2>3, <2>5, <2>6
<1>6. ASSUME NEW i \in T PROVE i + 1 \in T
  <2> SUFFICES ASSUME i + 1 <= n
               PROVE  /\ F[i + 1] \in Seq(EmailRow)
                      /\ Cardinality(RowsSince(F[i + 1], d)) = Cardinality(Others(i + 1))
                      /\ Cardinality(Others(i + 1)) \in Nat
    OBVIOUS
  <2>1. i \in Nat /\ i <= n /\ i + 1 \in 1..n /\ (i + 1) - 1 = i BY <1>1
  <2>2. F[i] \in Seq(EmailRow) /\ Cardinality(RowsSince(F[i], d)) = Cardinality(Others(i)) /\ Cardinality(Others(i)) \in Nat
    BY <2>1
  <2> DEFINE e == emails[i + 1]
  <2>3. e \in EmailRow BY <1>1, <2>1
  <2>4. F[i + 1] = IF e.p = p THEN F[i] ELSE Append(F[i], e) BY <1>4, <2>1
  <2>5. Others(i + 1) = IF Counts(e, d) /\ e.p # p THEN Others(i) \cup {i + 1} ELSE Others(i) BY <2>1
  <2>6. i + 1 \notin Others(i) /\ Others(i) \subseteq 1..i BY <2>1
  <2> HIDE DEF Others, e
  <2>7. IsFiniteSet(Others(i))
    <3>1. IsFiniteSet(1..i) BY <2>1, FS_Interval
    <3> QED BY <2>6, <3>1, FS_Subset
  <2>8. Cardinality(Others(i) \cup {i + 1}) = Cardinality(Others(i)) + 1 BY <2>6, <2>7, FS_AddElement
  <2>9. Cardinality(RowsSince(Append(F[i], e), d)) = Cardinality(RowsSince(F[i], d)) + IF Counts(e, d) THEN 1 ELSE 0
    BY <2>2, <2>3, OneMoreRow
  <2>10. Append(F[i], e) \in Seq(EmailRow) BY <2>2, <2>3
  <2> QED BY <2>2, <2>4, <2>5, <2>8, <2>9, <2>10
<1>7. T = Nat
  <2> HIDE DEF T
  <2>1. T \subseteq Nat BY DEF T
  <2> QED BY <1>5, <1>6, <2>1, NatSetInduction
<1>8. F[n] \in Seq(EmailRow) /\ Cardinality(RowsSince(F[n], d)) = Cardinality(Others(n))
  <2> HIDE DEF n, Others
  <2>1. n \in T /\ n <= n BY <1>1, <1>7
  <2> QED BY <2>1
<1> DEFINE R == RowsOf(p, {"SENT", "BOUNCED"})
           M == Others(n)
<1>9. RowsSince(emails, d) \subseteq M \cup R BY <1>1 DEF RowsSince, Counts, RowsOf
<1>10. M \subseteq 1..n /\ R \subseteq 1..n BY <1>1 DEF RowsOf
<1> HIDE DEF M, R
<1>11. IsFiniteSet(M) /\ IsFiniteSet(R)
  <2>1. IsFiniteSet(1..n) BY <1>1, FS_Interval
  <2> QED BY <1>10, <2>1, FS_Subset
<1>12. IsFiniteSet(M \cup R) /\ Cardinality(M \cup R) <= Cardinality(M) + Cardinality(R)
       /\ Cardinality(M) \in Nat /\ Cardinality(R) \in Nat
  <2>1. IsFiniteSet(M \cup R) BY <1>11, FS_Union
  <2>2. Cardinality(M \cup R) = Cardinality(M) + Cardinality(R) - Cardinality(M \cap R) BY <1>11, FS_Union
  <2>3. IsFiniteSet(M \cap R) BY <1>11, FS_Subset
  <2>4. Cardinality(M \cap R) \in Nat /\ Cardinality(M) \in Nat /\ Cardinality(R) \in Nat
    BY <1>11, <2>3, FS_CardinalityType
  <2> QED BY <2>1, <2>2, <2>4
<1>13. Cardinality(RowsSince(emails, d)) <= Cardinality(M \cup R) BY <1>9, <1>12, FS_Subset
<1>14. Cardinality(RowsSince(emails, d)) \in Nat /\ Cardinality(M \cup R) \in Nat
  <2>1. IsFiniteSet(RowsSince(emails, d)) BY <1>9, <1>12, FS_Subset
  <2> QED BY <1>12, <2>1, FS_CardinalityType
<1>15. Cardinality(RowsSince(emails, d)) <= Cardinality(M) + Cardinality(R) BY <1>12, <1>13, <1>14
<1> QED BY <1>3, <1>8, <1>12, <1>15 DEF M, R

AtPlace(w) == {s \in Senders : task[s].place = w}

\* What left is recorded, lost, or in the hands of a task; and what left today
\* with what is about to leave is within the limit.
LimitInv ==
    /\ emails \in Seq(EmailRow) /\ lost \in Nat
    /\ \A p \in Prospects : \A i \in DOMAIN left[p] : left[p][i].at <= today
    /\ \A d \in Int : d <= today =>
          /\ IsFiniteSet(LeftSince(d))
          /\ Cardinality(LeftSince(d)) <= Cardinality(RowsSince(emails, d)) + lost + Cardinality(AtPlace("sent"))
    /\ Cardinality(LeftSince(today - Day)) + Cardinality(AtPlace("sending")) <= DailyLimit - 1 + Cardinality(Senders) + lost

LEMMA DaysAreNumbers ==
    ASSUME MailRows
    PROVE  Day \in Nat /\ DailyLimit \in Nat /\ today \in Nat /\ today - Day \in Int /\ today - Day <= today
  BY MailAssumption DEF MailRows

LEMMA PlacesAreCounted ==
    ASSUME NEW w
    PROVE  /\ IsFiniteSet(AtPlace(w)) /\ Cardinality(AtPlace(w)) \in Nat /\ Cardinality(AtPlace(w)') \in Nat
           /\ Cardinality(Senders) \in Nat /\ Cardinality(AtPlace(w)) <= Cardinality(Senders)
           /\ \A s \in AtPlace(w) : Cardinality(AtPlace(w) \ {s}) = Cardinality(AtPlace(w)) - 1
<1>1. AtPlace(w) \subseteq Senders /\ AtPlace(w)' \subseteq Senders BY DEF AtPlace
<1>2. IsFiniteSet(AtPlace(w)) /\ IsFiniteSet(AtPlace(w)') BY <1>1, MailAssumption, FS_Subset
<1>3. Cardinality(AtPlace(w)) <= Cardinality(Senders) BY <1>1, MailAssumption, FS_Subset
<1>4. Cardinality(AtPlace(w)) \in Nat /\ Cardinality(AtPlace(w)') \in Nat /\ Cardinality(Senders) \in Nat
  BY <1>2, MailAssumption, FS_CardinalityType
<1>5. \A s \in AtPlace(w) : Cardinality(AtPlace(w) \ {s}) = Cardinality(AtPlace(w)) - 1 BY <1>2, FS_RemoveElement
<1> QED BY <1>2, <1>3, <1>4, <1>5

LEMMA RowsAreCounted ==
    ASSUME NEW q \in Seq(EmailRow), NEW d
    PROVE  IsFiniteSet(RowsSince(q, d)) /\ Cardinality(RowsSince(q, d)) \in Nat
<1>1. DOMAIN q = 1..Len(q) /\ Len(q) \in Nat OBVIOUS
<1>2. IsFiniteSet(1..Len(q)) BY <1>1, FS_Interval
<1>3. RowsSince(q, d) \subseteq 1..Len(q) BY <1>1 DEF RowsSince
<1>4. IsFiniteSet(RowsSince(q, d)) BY <1>2, <1>3, FS_Subset
<1> QED BY <1>4, FS_CardinalityType

LEMMA LimitStarts == MailInit => LimitInv
<1> SUFFICES ASSUME MailInit PROVE LimitInv OBVIOUS
<1>1. \A p \in Prospects : left[p] = <<>> /\ DOMAIN left[p] = {} BY DEF MailInit
<1>2. \A d : LeftSince(d) = {} BY <1>1 DEF LeftSince
<1>3. AtPlace("sending") = {} /\ AtPlace("sent") = {} BY DEF MailInit, AtPlace, NoTask
<1>4. Cardinality({}) = 0 /\ IsFiniteSet({}) BY FS_EmptySet
<1>5. emails \in Seq(EmailRow) /\ lost = 0 /\ today = 0 BY DEF MailInit
<1>6. Cardinality(Senders) \in Nat /\ Cardinality(Senders) # 0 BY MailAssumption, FS_CardinalityType, FS_EmptySet
<1>7. \A d : Cardinality(LeftSince(d)) = 0 /\ IsFiniteSet(LeftSince(d)) BY <1>2, <1>4, Zenon
<1>8. Cardinality(AtPlace("sending")) = 0 /\ Cardinality(AtPlace("sent")) = 0 BY <1>3, <1>4, Zenon
<1>9. \A d : Cardinality(RowsSince(emails, d)) \in Nat BY <1>5, RowsAreCounted
<1>10. DailyLimit \in Nat BY MailAssumption
<1> QED BY <1>1, <1>5, <1>6, <1>7, <1>8, <1>9, <1>10 DEF LimitInv

\* Nothing leaves, nothing more is about to: what is recorded may only grow as
\* the tasks end or die.
LEMMA LimitKept ==
    ASSUME MailRows, LimitInv, left' = left, today' = today, emails' \in Seq(EmailRow), lost' \in Nat, lost <= lost',
           \A d \in Int : d <= today => Cardinality(RowsSince(emails, d)) + lost + Cardinality(AtPlace("sent"))
                                          <= Cardinality(RowsSince(emails', d)) + lost' + Cardinality(AtPlace("sent")'),
           Cardinality(AtPlace("sending")') <= Cardinality(AtPlace("sending"))
    PROVE  LimitInv'
<1>1. \A d : LeftSince(d)' = LeftSince(d) BY DEF LeftSince
<1>2. today - Day \in Int /\ today - Day <= today BY DaysAreNumbers
<1>3. Cardinality(LeftSince(today - Day)) \in Nat BY <1>2, FS_CardinalityType DEF LimitInv
<1>4. /\ Cardinality(AtPlace("sending")) \in Nat /\ Cardinality(AtPlace("sending")') \in Nat
      /\ Cardinality(Senders) \in Nat /\ DailyLimit \in Nat /\ lost \in Nat
  BY PlacesAreCounted, DaysAreNumbers DEF LimitInv
<1>5. Cardinality(LeftSince(today - Day)) + Cardinality(AtPlace("sending")') <= DailyLimit - 1 + Cardinality(Senders) + lost'
  BY <1>3, <1>4 DEF LimitInv
<1>6. ASSUME NEW d \in Int, d <= today
      PROVE  /\ IsFiniteSet(LeftSince(d))
             /\ Cardinality(LeftSince(d)) <= Cardinality(RowsSince(emails', d)) + lost' + Cardinality(AtPlace("sent")')
  <2>1. IsFiniteSet(LeftSince(d)) BY <1>6 DEF LimitInv
  <2>2. Cardinality(LeftSince(d)) <= Cardinality(RowsSince(emails, d)) + lost + Cardinality(AtPlace("sent")) BY <1>6 DEF LimitInv
  <2>3. Cardinality(LeftSince(d)) \in Nat BY <2>1, FS_CardinalityType
  <2>4. /\ Cardinality(AtPlace("sent")) \in Nat /\ Cardinality(AtPlace("sent")') \in Nat
        /\ Cardinality(RowsSince(emails, d)) \in Nat /\ Cardinality(RowsSince(emails', d)) \in Nat
    BY PlacesAreCounted, RowsAreCounted DEF LimitInv
  <2>5. Cardinality(RowsSince(emails, d)) + lost + Cardinality(AtPlace("sent"))
          <= Cardinality(RowsSince(emails', d)) + lost' + Cardinality(AtPlace("sent")')
    BY <1>6
  <2> QED BY SMTT(20), <1>4, <2>1, <2>2, <2>3, <2>4, <2>5
<1> QED BY <1>1, <1>5, <1>6 DEF LimitInv

\* Tasks, rows and what was lost stay as they are.
LEMMA LimitNotConcerned ==
    ASSUME MailRows, LimitInv, UNCHANGED <<today, emails, task, left, lost>>
    PROVE  LimitInv'
<1>1. \A w : AtPlace(w)' = AtPlace(w) BY DEF AtPlace
<1>2. \A w : Cardinality(AtPlace(w)) \in Nat BY PlacesAreCounted
<1>3. \A d : Cardinality(RowsSince(emails, d)) \in Nat BY RowsAreCounted DEF LimitInv
<1>4. \A w : Cardinality(AtPlace(w)') = Cardinality(AtPlace(w)) BY <1>1
<1>5. \A d \in Int : Cardinality(RowsSince(emails, d)) + lost + Cardinality(AtPlace("sent"))
                       <= Cardinality(RowsSince(emails', d)) + lost' + Cardinality(AtPlace("sent")')
  BY <1>2, <1>3, <1>4 DEF LimitInv
<1>6. Cardinality(AtPlace("sending")') <= Cardinality(AtPlace("sending")) BY <1>2, <1>4
<1> QED BY <1>5, <1>6, LimitKept DEF LimitInv

LEMMA ChooseProspectKeepsLimit ==
    ASSUME MailRows, LimitInv, NEW s \in Senders, NEW p \in Prospects, ChooseProspect(s, p)
    PROVE  LimitInv'
<1> DEFINE t == [p |-> {p}, row |-> prospect[p], place |-> "sending"]
<1>1. task' = [task EXCEPT ![s] = t] /\ task[s].place = "idle" /\ t.place = "sending" BY DEF ChooseProspect
<1> HIDE DEF t
<1>2. AtPlace("sent")' = AtPlace("sent") /\ AtPlace("sent") \cap AtPlace("sending")' = {}
  BY <1>1 DEF AtPlace, MailRows
<1> DEFINE A == AtPlace("sent")
           B == AtPlace("sending")'
<1>3. A \subseteq Senders /\ B \subseteq Senders /\ A \cap B = {} BY <1>2 DEF AtPlace
<1>4. Cardinality(A) \in Nat /\ Cardinality(B) \in Nat /\ Cardinality(Senders) \in Nat BY PlacesAreCounted
<1> HIDE DEF A, B
<1>5. Cardinality(A) + Cardinality(B) <= Cardinality(Senders)
  <2>1. IsFiniteSet(A) /\ IsFiniteSet(B) /\ IsFiniteSet(A \cup B) /\ A \cup B \subseteq Senders
    BY <1>3, MailAssumption, FS_Subset
  <2>2. Cardinality(A \cup B) = Cardinality(A) + Cardinality(B) - Cardinality(A \cap B) BY <2>1, FS_Union
  <2>3. Cardinality(A \cap B) = 0 BY <1>3, FS_EmptySet
  <2>4. Cardinality(A \cup B) <= Cardinality(Senders) BY <2>1, MailAssumption, FS_Subset
  <2> QED BY <1>4, <2>2, <2>3, <2>4
<1>6. UNCHANGED <<today, emails, left, lost>> BY DEF ChooseProspect
<1>7. \A d : LeftSince(d)' = LeftSince(d) BY <1>6 DEF LeftSince
<1> DEFINE d == today - Day
<1>8. d \in Int /\ d <= today /\ DailyLimit \in Nat BY DaysAreNumbers
<1>9. Cardinality(RowsSince(emails, d)) < DailyLimit
  <2>1. RecordedSince(d) = RowsSince(emails, d) BY DEF RecordedSince, RowsSince, Counts
  <2> QED BY <2>1 DEF ChooseProspect, SentLastDay
<1> HIDE DEF d
<1>10. IsFiniteSet(LeftSince(d)) /\ Cardinality(LeftSince(d)) <= Cardinality(RowsSince(emails, d)) + lost + Cardinality(A)
  BY <1>8 DEF LimitInv, A
<1>11. Cardinality(LeftSince(d)) \in Nat /\ Cardinality(RowsSince(emails, d)) \in Nat /\ lost \in Nat
  BY <1>10, FS_CardinalityType, RowsAreCounted DEF LimitInv
<1>12. Cardinality(LeftSince(d)) + Cardinality(B) <= DailyLimit - 1 + Cardinality(Senders) + lost
  BY <1>4, <1>5, <1>8, <1>9, <1>10, <1>11
<1> QED BY <1>2, <1>6, <1>7, <1>12 DEF LimitInv, B, d

\* The email that leaves goes from the tasks that send to what left.
LEMMA LeavesKeepsLimit ==
    ASSUME MailRows, LimitInv, NEW s \in Senders, NEW p \in Prospects, Leaves(s, p)
    PROVE  LimitInv'
<1> DEFINE e == [step |-> task[s].row.email_step + 1, at |-> today]
           n == Len(left[p]) + 1
<1>1. task' = [task EXCEPT ![s] = [task[s] EXCEPT !.place = "sent"]] /\ task[s].place = "sending" /\ task[s] \in TaskRow
  BY DEF Leaves, MailRows
<1>2. \A r \in Senders : task'[r].place = IF r = s THEN "sent" ELSE task[r].place BY <1>1 DEF MailRows, TaskRow
<1>3. AtPlace("sending")' = AtPlace("sending") \ {s} /\ s \in AtPlace("sending")
      /\ AtPlace("sent")' = AtPlace("sent") \cup {s} /\ s \notin AtPlace("sent")
  BY <1>1, <1>2 DEF AtPlace
<1>4. left' = [left EXCEPT ![p] = Append(@, e)] /\ left \in [Prospects -> Seq(LeftRow)] BY DEF Leaves, MailRows
<1>5. UNCHANGED <<today, emails, lost>> /\ e.at = today BY DEF Leaves
<1> HIDE DEF e
<1>6. \A q \in Prospects : left'[q] = IF q = p THEN Append(left[p], e) ELSE left[q] BY <1>4
<1>7. left[p] \in Seq(LeftRow) /\ DOMAIN left[p] = 1..Len(left[p]) /\ Len(left[p]) \in Nat BY <1>4
<1>8. DOMAIN left'[p] = DOMAIN left[p] \cup {n} /\ n \notin DOMAIN left[p] /\ left'[p][n] = e
      /\ \A i \in DOMAIN left[p] : left'[p][i] = left[p][i]
  BY <1>4, <1>6, <1>7
<1> HIDE DEF n
<1>9. \A d : LeftSince(d)' = IF today >= d THEN LeftSince(d) \cup {<<p, n>>} ELSE LeftSince(d)
  <2> SUFFICES ASSUME NEW d PROVE LeftSince(d)' = IF today >= d THEN LeftSince(d) \cup {<<p, n>>} ELSE LeftSince(d)
    OBVIOUS
  <2> DEFINE In(q) == {q} \X {i \in DOMAIN left[q] : left[q][i].at >= d}
             Out(q) == {q} \X {i \in DOMAIN left'[q] : left'[q][i].at >= d}
  <2>1. \A q \in Prospects : q # p => Out(q) = In(q) BY <1>6
  <2>2. {i \in DOMAIN left'[p] : left'[p][i].at >= d}
          = IF today >= d THEN {i \in DOMAIN left[p] : left[p][i].at >= d} \cup {n} ELSE {i \in DOMAIN left[p] : left[p][i].at >= d}
    BY <1>5, <1>8
  <2>3. Out(p) = IF today >= d THEN In(p) \cup {<<p, n>>} ELSE In(p) BY <2>2
  <2>4. LeftSince(d) = UNION {In(q) : q \in Prospects} /\ LeftSince(d)' = UNION {Out(q) : q \in Prospects} BY DEF LeftSince
  <2> HIDE DEF In, Out
  <2> QED BY <2>1, <2>3, <2>4
<1>10. \A d : <<p, n>> \notin LeftSince(d) BY <1>8 DEF LeftSince
<1>11. ASSUME NEW d \in Int, d <= today
       PROVE  /\ IsFiniteSet(LeftSince(d)) /\ Cardinality(LeftSince(d)) \in Nat /\ IsFiniteSet(LeftSince(d)')
              /\ Cardinality(LeftSince(d)') = Cardinality(LeftSince(d)) + 1
  <2>1. IsFiniteSet(LeftSince(d)) BY <1>11 DEF LimitInv
  <2>2. LeftSince(d)' = LeftSince(d) \cup {<<p, n>>} BY <1>9, <1>11, DaysAreNumbers
  <2>3. IsFiniteSet(LeftSince(d) \cup {<<p, n>>}) /\ Cardinality(LeftSince(d) \cup {<<p, n>>}) = Cardinality(LeftSince(d)) + 1
    BY <1>10, <2>1, FS_AddElement
  <2> QED BY <2>1, <2>2, <2>3, FS_CardinalityType
<1>12. /\ Cardinality(AtPlace("sending")') = Cardinality(AtPlace("sending")) - 1
       /\ Cardinality(AtPlace("sent")') = Cardinality(AtPlace("sent")) + 1
       /\ Cardinality(AtPlace("sending")) \in Nat /\ Cardinality(AtPlace("sent")) \in Nat /\ Cardinality(Senders) \in Nat
  <2>1. IsFiniteSet(AtPlace("sent")) BY PlacesAreCounted
  <2>2. Cardinality(AtPlace("sent") \cup {s}) = Cardinality(AtPlace("sent")) + 1 BY <1>3, <2>1, FS_AddElement
  <2> QED BY <1>3, <2>2, PlacesAreCounted
<1>13. \A d \in Int : d <= today =>
          /\ IsFiniteSet(LeftSince(d)')
          /\ Cardinality(LeftSince(d)') <= Cardinality(RowsSince(emails, d)) + lost + Cardinality(AtPlace("sent")')
  <2> SUFFICES ASSUME NEW d \in Int, d <= today
               PROVE  Cardinality(LeftSince(d)') <= Cardinality(RowsSince(emails, d)) + lost + Cardinality(AtPlace("sent")')
    BY <1>11
  <2>1. Cardinality(LeftSince(d)) <= Cardinality(RowsSince(emails, d)) + lost + Cardinality(AtPlace("sent")) BY DEF LimitInv
  <2>2. Cardinality(RowsSince(emails, d)) \in Nat /\ lost \in Nat BY RowsAreCounted DEF LimitInv
  <2> QED BY <1>11, <1>12, <2>1, <2>2
<1>14. Cardinality(LeftSince(today - Day)') + Cardinality(AtPlace("sending")') <= DailyLimit - 1 + Cardinality(Senders) + lost
  <2>1. today - Day \in Int /\ today - Day <= today /\ DailyLimit \in Nat /\ lost \in Nat BY DaysAreNumbers DEF LimitInv
  <2>2. Cardinality(LeftSince(today - Day)) + Cardinality(AtPlace("sending")) <= DailyLimit - 1 + Cardinality(Senders) + lost
    BY DEF LimitInv
  <2>3. /\ Cardinality(LeftSince(today - Day)) \in Nat
        /\ Cardinality(LeftSince(today - Day)') = Cardinality(LeftSince(today - Day)) + 1
    <3>1. PICK w \in Int : w = today - Day /\ w <= today BY <2>1
    <3>2. Cardinality(LeftSince(w)) \in Nat /\ Cardinality(LeftSince(w)') = Cardinality(LeftSince(w)) + 1
      BY <1>11, <3>1
    <3>3. today' - Day = w BY <1>5, <3>1
    <3> DEFINE L(v) == UNION {{q} \X {i \in DOMAIN left'[q] : left'[q][i].at >= v} : q \in Prospects}
    <3>4. LeftSince(today - Day)' = L(today' - Day) /\ LeftSince(w)' = L(w) BY DEF LeftSince
    <3> HIDE DEF L
    <3> QED BY <3>1, <3>2, <3>3, <3>4
  <2> QED BY <1>12, <2>1, <2>2, <2>3
<1>15. \A q \in Prospects : \A i \in DOMAIN left'[q] : left'[q][i].at <= today
  <2> SUFFICES ASSUME NEW q \in Prospects, NEW i \in DOMAIN left'[q] PROVE left'[q][i].at <= today OBVIOUS
  <2>1. CASE q = p /\ i = n BY <1>5, <1>8, <2>1, DaysAreNumbers
  <2>2. CASE q # p \/ i # n BY <1>6, <1>8, <2>2 DEF LimitInv
  <2> QED BY <2>1, <2>2
<1> QED
  <2> DEFINE w == today - Day
  <2>1. LeftSince(w)' = UNION {{q} \X {i \in DOMAIN left'[q] : left'[q][i].at >= today' - Day} : q \in Prospects}
    BY DEF LeftSince
  <2> QED BY <1>5, <1>13, <1>14, <1>15 DEF LimitInv

LEMMA TaskEndsIsCounted ==
    ASSUME MailRows, NEW s \in Senders, task' = [task EXCEPT ![s] = NoTask], NEW w, w # "idle"
    PROVE  Cardinality(AtPlace(w)') = Cardinality(AtPlace(w)) - IF task[s].place = w THEN 1 ELSE 0
<1>1. \A r \in Senders : task'[r].place = IF r = s THEN "idle" ELSE task[r].place BY DEF MailRows, NoTask
<1>2. AtPlace(w)' = AtPlace(w) \ {s} BY <1>1 DEF AtPlace
<1>3. CASE task[s].place = w
  <2>1. s \in AtPlace(w) BY <1>3 DEF AtPlace
  <2> QED BY <1>2, <1>3, <2>1, PlacesAreCounted
<1>4. CASE task[s].place # w
  <2>1. AtPlace(w)' = AtPlace(w) BY <1>2, <1>4 DEF AtPlace
  <2>2. Cardinality(AtPlace(w)) \in Nat BY PlacesAreCounted
  <2> QED BY <1>4, <2>1, <2>2
<1> QED BY <1>3, <1>4

\* A task ends: what it sent is recorded or lost.
LEMMA TaskEndsKeepsLimit ==
    ASSUME MailRows, LimitInv, NEW s \in Senders, task' = [task EXCEPT ![s] = NoTask], UNCHANGED <<today, left>>,
           \/ /\ task[s].place = "sent" /\ lost' = lost
              /\ \E e \in EmailRow : e.status = "SENT" /\ e.sent_at = today /\ emails' = Append(emails, e)
           \/ task[s].place = "sent" /\ lost' = lost + 1 /\ emails' = emails
           \/ /\ task[s].place = "sending" /\ lost' = lost
              /\ emails' = emails \/ \E e \in EmailRow : emails' = Append(emails, e)
    PROVE  LimitInv'
<1>1. /\ Cardinality(AtPlace("sent")') = Cardinality(AtPlace("sent")) - IF task[s].place = "sent" THEN 1 ELSE 0
      /\ Cardinality(AtPlace("sending")') = Cardinality(AtPlace("sending")) - IF task[s].place = "sending" THEN 1 ELSE 0
  BY TaskEndsIsCounted
<1>2. Cardinality(AtPlace("sent")) \in Nat /\ Cardinality(AtPlace("sending")) \in Nat BY PlacesAreCounted
<1>3. emails \in Seq(EmailRow) /\ lost \in Nat BY DEF LimitInv
<1>4. emails' \in Seq(EmailRow) /\ lost' \in Nat /\ lost <= lost'
  <2>1. \A e \in EmailRow : Append(emails, e) \in Seq(EmailRow) BY <1>3
  <2> QED BY <1>3, <2>1
<1>5. ASSUME NEW d \in Int, d <= today
      PROVE  Cardinality(RowsSince(emails, d)) + lost + Cardinality(AtPlace("sent"))
               <= Cardinality(RowsSince(emails', d)) + lost' + Cardinality(AtPlace("sent")')
  <2>1. Cardinality(RowsSince(emails, d)) \in Nat BY <1>3, RowsAreCounted
  <2>2. ASSUME NEW e \in EmailRow, emails' = Append(emails, e)
        PROVE  Cardinality(RowsSince(emails', d)) = Cardinality(RowsSince(emails, d)) + IF Counts(e, d) THEN 1 ELSE 0
    BY <1>3, <2>2, OneMoreRow
  <2>3. CASE task[s].place = "sent" /\ lost' = lost
             /\ \E e \in EmailRow : e.status = "SENT" /\ e.sent_at = today /\ emails' = Append(emails, e)
    <3>1. PICK e \in EmailRow : e.status = "SENT" /\ e.sent_at = today /\ emails' = Append(emails, e) BY <2>3
    <3>2. Counts(e, d) BY <1>5, <3>1, DaysAreNumbers DEF Counts
    <3>3. Cardinality(RowsSince(emails', d)) = Cardinality(RowsSince(emails, d)) + 1 BY <2>2, <3>1, <3>2
    <3> QED BY <1>1, <1>2, <1>3, <2>1, <2>3, <3>3
  <2>4. CASE task[s].place = "sent" /\ lost' = lost + 1 /\ emails' = emails
    <3>1. Cardinality(RowsSince(emails', d)) = Cardinality(RowsSince(emails, d)) BY <2>4
    <3> QED BY <1>1, <1>2, <1>3, <2>1, <2>4, <3>1
  <2>5. CASE task[s].place = "sending" /\ lost' = lost
             /\ (emails' = emails \/ \E e \in EmailRow : emails' = Append(emails, e))
    <3>1. Cardinality(RowsSince(emails', d)) >= Cardinality(RowsSince(emails, d)) /\ Cardinality(RowsSince(emails', d)) \in Nat
      <4>1. CASE emails' = emails BY <2>1, <4>1
      <4>2. CASE \E e \in EmailRow : emails' = Append(emails, e)
        <5>1. PICK e \in EmailRow : emails' = Append(emails, e) BY <4>2
        <5>2. Cardinality(RowsSince(emails', d)) = Cardinality(RowsSince(emails, d)) + IF Counts(e, d) THEN 1 ELSE 0
          BY <2>2, <5>1
        <5> QED BY <2>1, <5>2
      <4> QED BY <2>5, <4>1, <4>2
    <3> QED BY <1>1, <1>2, <1>3, <2>1, <2>5, <3>1
  <2> QED BY <2>3, <2>4, <2>5
<1>6. Cardinality(AtPlace("sending")') <= Cardinality(AtPlace("sending")) BY <1>1, <1>2
<1> QED BY <1>4, <1>5, <1>6, LimitKept

LEMMA SendersKeepLimit ==
    ASSUME MailRows, LimitInv, NEW s \in Senders, NEW p \in Prospects,
           RecordSent(s, p) \/ Refused(s, p) \/ Fails(s, p)
    PROVE  LimitInv'
<1> DEFINE row(status) == [p |-> p, step |-> task[s].row.email_step + 1, status |-> status, sent_at |-> today]
<1>1. task' = [task EXCEPT ![s] = NoTask] /\ UNCHANGED <<today, left, lost>>
  BY DEF RecordSent, Refused, Fails, Idle
<1>2. task[s].row.email_step + 1 \in 1..Steps
  <2>1. task[s].row \in ProspectRow BY DEF MailRows, TaskRow
  <2>2. task[s].row.email_step \in 0..Steps BY <2>1 DEF ProspectRow
  <2>3. task[s].place # "idle" BY DEF RecordSent, Refused, Fails
  <2>4. task[s].row.email_step < Steps BY <2>3 DEF MailRows
  <2> QED BY <2>2, <2>4, MailAssumption
<1>3. ASSUME NEW status \in {"SENT", "FAILED", "BOUNCED"}
      PROVE  row(status) \in EmailRow /\ row(status).status = status /\ row(status).sent_at = today
  BY <1>2, DaysAreNumbers DEF EmailRow
<1>4. CASE RecordSent(s, p)
  <2>1. emails' = Append(emails, row("SENT")) BY <1>4 DEF RecordSent, Record
  <2>2. task[s].place = "sent" BY <1>4 DEF RecordSent
  <2>3. row("SENT") \in EmailRow /\ row("SENT").status = "SENT" /\ row("SENT").sent_at = today BY <1>3
  <2> HIDE DEF row
  <2> QED BY <1>1, <2>1, <2>2, <2>3, TaskEndsKeepsLimit
<1>5. CASE Refused(s, p) \/ Fails(s, p)
  <2>1. emails' = Append(emails, row("BOUNCED")) \/ emails' = Append(emails, row("FAILED"))
    BY <1>5 DEF Refused, Fails, Record
  <2>2. task[s].place = "sending" BY <1>5 DEF Refused, Fails
  <2>3. row("BOUNCED") \in EmailRow /\ row("FAILED") \in EmailRow BY <1>3
  <2> HIDE DEF row
  <2> QED BY <1>1, <2>1, <2>2, <2>3, TaskEndsKeepsLimit
<1> QED BY <1>4, <1>5

LEMMA GivesUpKeepsLimit ==
    ASSUME MailRows, LimitInv, NEW s \in Senders, GivesUp(s)
    PROVE  LimitInv'
<1>1. task' = [task EXCEPT ![s] = NoTask] /\ UNCHANGED <<today, left, emails>> BY DEF GivesUp, Idle
<1>2. lost' = IF task[s].place = "sent" THEN lost + 1 ELSE lost BY DEF GivesUp
<1>3. task[s].place \in {"sending", "sent"} BY DEF GivesUp, MailRows, TaskRow
<1> QED BY <1>1, <1>2, <1>3, TaskEndsKeepsLimit

\* An email that came back counts still.
LEMMA ReadMessageKeepsLimit ==
    ASSUME MailRows, LimitInv, NEW m \in inbox, ReadMessage(m)
    PROVE  LimitInv'
<1>1. UNCHANGED <<today, task, left, lost>> BY DEF ReadMessage
<1>2. emails' = emails \/ \E last : emails' = [emails EXCEPT ![last].status = "BOUNCED"]
  <2> DEFINE last == CHOOSE i \in DOMAIN emails : emails[i].p = m.p
                        /\ \A j \in DOMAIN emails : emails[j].p = m.p => j <= i
  <2>1. m.kind \in {"bounce", "stop", "answer"} BY DEF MailRows
  <2>2. emails' = emails \/ emails' = [emails EXCEPT ![last].status = "BOUNCED"] BY <2>1 DEF ReadMessage
  <2> HIDE DEF last
  <2> QED BY <2>2
<1>3. CASE emails' = emails BY <1>1, <1>3, LimitNotConcerned
<1>4. ASSUME NEW last, emails' = [emails EXCEPT ![last].status = "BOUNCED"] PROVE LimitInv'
  <2>1. emails \in Seq(EmailRow) /\ lost \in Nat BY DEF LimitInv
  <2>2. DOMAIN emails' = DOMAIN emails BY <1>4
  <2>3. \A i \in DOMAIN emails : emails[i] \in EmailRow BY <2>1
  <2>4. \A i \in DOMAIN emails : emails'[i] = IF i = last THEN [emails[i] EXCEPT !.status = "BOUNCED"] ELSE emails[i]
    BY <1>4
  <2>5. \A i \in DOMAIN emails : emails'[i] \in EmailRow /\ emails'[i].sent_at = emails[i].sent_at
                                 /\ emails'[i].status \in {emails[i].status, "BOUNCED"}
    BY <2>3, <2>4 DEF EmailRow
  <2>6. emails' \in Seq(EmailRow)
    <3>1. DOMAIN emails = 1..Len(emails) /\ Len(emails) \in Nat BY <2>1
    <3>2. emails' = [i \in 1..Len(emails) |-> emails'[i]] BY <1>4, <3>1
    <3>3. emails' \in [1..Len(emails) -> EmailRow] BY <2>5, <3>1, <3>2
    <3> QED BY <3>1, <3>3
  <2>7. \A d : RowsSince(emails, d) \subseteq RowsSince(emails', d) BY <2>2, <2>5 DEF RowsSince, Counts
  <2>8. \A d : Cardinality(RowsSince(emails, d)) <= Cardinality(RowsSince(emails', d))
               /\ Cardinality(RowsSince(emails, d)) \in Nat /\ Cardinality(RowsSince(emails', d)) \in Nat
    <3> SUFFICES ASSUME NEW d
                 PROVE  Cardinality(RowsSince(emails, d)) <= Cardinality(RowsSince(emails', d))
                        /\ Cardinality(RowsSince(emails, d)) \in Nat /\ Cardinality(RowsSince(emails', d)) \in Nat
      OBVIOUS
    <3>1. IsFiniteSet(RowsSince(emails', d)) BY <2>6, RowsAreCounted
    <3> QED BY <2>1, <2>6, <2>7, <3>1, RowsAreCounted, FS_Subset
  <2>9. \A w : AtPlace(w)' = AtPlace(w) BY <1>1 DEF AtPlace
  <2>10. \A w : Cardinality(AtPlace(w)) \in Nat /\ Cardinality(AtPlace(w)') = Cardinality(AtPlace(w))
    BY <2>9, PlacesAreCounted
  <2>11. \A d \in Int : d <= today => Cardinality(RowsSince(emails, d)) + lost + Cardinality(AtPlace("sent"))
                                        <= Cardinality(RowsSince(emails', d)) + lost' + Cardinality(AtPlace("sent")')
    BY <1>1, <2>1, <2>8, <2>10
  <2>12. Cardinality(AtPlace("sending")') <= Cardinality(AtPlace("sending")) BY <2>10
  <2>13. lost' \in Nat /\ lost <= lost' BY <1>1, <2>1
  <2> QED BY <1>1, <2>6, <2>11, <2>12, <2>13, LimitKept
<1> QED BY <1>2, <1>3, <1>4

\* The rows of whoever is erased are lost.
LEMMA EraseKeepsLimit ==
    ASSUME MailRows, LimitInv, NEW p \in Prospects, Erase(p)
    PROVE  LimitInv'
<1> DEFINE c == Cardinality(RowsOf(p, {"SENT", "BOUNCED"}))
<1>1. UNCHANGED <<today, task, left>> /\ emails' = Without(p) /\ lost' = lost + c BY DEF Erase
<1>2. emails \in Seq(EmailRow) /\ lost \in Nat BY DEF LimitInv
<1>3. /\ Without(p) \in Seq(EmailRow) /\ c \in Nat
      /\ \A d : Cardinality(RowsSince(emails, d)) <= Cardinality(RowsSince(Without(p), d)) + c
  BY <1>2, WithoutCounts
<1> HIDE DEF c
<1>4. emails' \in Seq(EmailRow) /\ lost' \in Nat /\ lost <= lost' BY <1>1, <1>2, <1>3
<1>5. \A w : AtPlace(w)' = AtPlace(w) BY <1>1 DEF AtPlace
<1>6. \A w : Cardinality(AtPlace(w)) \in Nat /\ Cardinality(AtPlace(w)') = Cardinality(AtPlace(w))
  BY <1>5, PlacesAreCounted
<1>7. \A d : Cardinality(RowsSince(emails, d)) \in Nat /\ Cardinality(RowsSince(emails', d)) \in Nat
             /\ Cardinality(RowsSince(emails, d)) <= Cardinality(RowsSince(emails', d)) + c
  BY <1>1, <1>2, <1>3, <1>4, RowsAreCounted
<1>8. \A d \in Int : d <= today => Cardinality(RowsSince(emails, d)) + lost + Cardinality(AtPlace("sent"))
                                     <= Cardinality(RowsSince(emails', d)) + lost' + Cardinality(AtPlace("sent")')
  BY <1>1, <1>2, <1>3, <1>6, <1>7
<1>9. Cardinality(AtPlace("sending")') <= Cardinality(AtPlace("sending")) BY <1>6
<1> QED BY <1>1, <1>4, <1>8, <1>9, LimitKept

\* A day passes when no task runs: nothing has left since tomorrow.
LEMMA DaysPassKeepsLimit ==
    ASSUME MailRows, LimitInv, DaysPass
    PROVE  LimitInv'
<1>1. today' = today + 1 /\ UNCHANGED <<emails, task, left, lost>> /\ \A s \in Senders : task[s] = NoTask BY DEF DaysPass
<1>2. AtPlace("sending") = {} /\ AtPlace("sent") = {} /\ AtPlace("sending")' = {} /\ AtPlace("sent")' = {}
  BY <1>1 DEF AtPlace, NoTask
<1>3. Cardinality({}) = 0 BY FS_EmptySet
<1>4. Cardinality(AtPlace("sending")) = 0 /\ Cardinality(AtPlace("sent")) = 0
      /\ Cardinality(AtPlace("sending")') = 0 /\ Cardinality(AtPlace("sent")') = 0
  BY <1>2, <1>3, Zenon
<1>5. today \in Nat /\ Day \in Nat /\ DailyLimit \in Nat /\ today - Day \in Int /\ today - Day <= today BY DaysAreNumbers
<1>6. emails \in Seq(EmailRow) /\ lost \in Nat BY DEF LimitInv
<1>7. \A p \in Prospects : \A i \in DOMAIN left'[p] : left'[p][i].at <= today'
  <2> SUFFICES ASSUME NEW p \in Prospects, NEW i \in DOMAIN left[p] PROVE left[p][i].at <= today' BY <1>1
  <2>1. left[p][i].at <= today BY DEF LimitInv
  <2>2. left[p][i].at \in Nat
    <3>1. left[p] \in Seq(LeftRow) BY DEF MailRows
    <3>2. left[p][i] \in LeftRow BY <3>1
    <3> QED BY <3>2 DEF LeftRow
  <2> QED BY <1>1, <1>5, <2>1, <2>2
<1>8. ASSUME NEW d \in Int, d <= today + 1
      PROVE  /\ IsFiniteSet(LeftSince(d)')
             /\ Cardinality(LeftSince(d)') <= Cardinality(RowsSince(emails, d)) + lost
  <2>1. LeftSince(d)' = LeftSince(d) BY <1>1 DEF LeftSince
  <2>2. Cardinality(RowsSince(emails, d)) \in Nat BY <1>6, RowsAreCounted
  <2>3. CASE d <= today BY <1>4, <1>6, <2>1, <2>2, <2>3 DEF LimitInv
  <2>4. CASE d > today
    <3>1. \A p \in Prospects : {i \in DOMAIN left[p] : left[p][i].at >= d} = {}
      <4> SUFFICES ASSUME NEW p \in Prospects, NEW i \in DOMAIN left[p], left[p][i].at >= d PROVE FALSE OBVIOUS
      <4>1. left[p][i].at <= today BY DEF LimitInv
      <4>2. left[p][i].at \in Nat
        <5>1. left[p] \in Seq(LeftRow) BY DEF MailRows
        <5>2. left[p][i] \in LeftRow BY <5>1
        <5> QED BY <5>2 DEF LeftRow
      <4> QED BY <1>5, <2>4, <4>1, <4>2
    <3>2. LeftSince(d) = {} BY <3>1 DEF LeftSince
    <3>3. Cardinality(LeftSince(d)) = 0 /\ IsFiniteSet(LeftSince(d)) BY <3>2, FS_EmptySet, Zenon
    <3> QED BY <1>6, <2>1, <2>2, <3>3
  <2> QED BY <1>5, <2>3, <2>4
<1>9. Cardinality(LeftSince(today - Day)') + Cardinality(AtPlace("sending")') <= DailyLimit - 1 + Cardinality(Senders) + lost
  <2> DEFINE L(v) == UNION {{q} \X {i \in DOMAIN left[q] : left[q][i].at >= v} : q \in Prospects}
  <2>1. LeftSince(today - Day)' = L(today' - Day) /\ LeftSince(today - Day) = L(today - Day) BY <1>1 DEF LeftSince
  <2>2. L(today' - Day) \subseteq L(today - Day)
    <3> SUFFICES ASSUME NEW q \in Prospects, NEW i \in DOMAIN left[q], left[q][i].at >= today' - Day
                 PROVE  left[q][i].at >= today - Day
      OBVIOUS
    <3>1. left[q][i].at \in Nat
      <4>1. left[q] \in Seq(LeftRow) BY DEF MailRows
      <4>2. left[q][i] \in LeftRow BY <4>1
      <4> QED BY <4>2 DEF LeftRow
    <3> QED BY <1>1, <1>5, <3>1
  <2> HIDE DEF L
  <2>3. LeftSince(today - Day)' \subseteq LeftSince(today - Day) BY <2>1, <2>2
  <2>4. IsFiniteSet(LeftSince(today - Day)) BY <1>5 DEF LimitInv
  <2>5. IsFiniteSet(LeftSince(today - Day)') /\ Cardinality(LeftSince(today - Day)') <= Cardinality(LeftSince(today - Day))
    BY <2>3, <2>4, FS_Subset
  <2>6. Cardinality(LeftSince(today - Day)') \in Nat /\ Cardinality(LeftSince(today - Day)) \in Nat
    BY <2>4, <2>5, FS_CardinalityType
  <2>7. Cardinality(LeftSince(today - Day)) + Cardinality(AtPlace("sending")) <= DailyLimit - 1 + Cardinality(Senders) + lost
    BY DEF LimitInv
  <2>8. Cardinality(Senders) \in Nat BY PlacesAreCounted
  <2> QED BY <1>4, <1>5, <1>6, <2>5, <2>6, <2>7, <2>8
<1>10. \A d \in Int : d <= today' => /\ IsFiniteSet(LeftSince(d)')
                                     /\ Cardinality(LeftSince(d)') <= Cardinality(RowsSince(emails', d)) + lost' + Cardinality(AtPlace("sent")')
  <2> SUFFICES ASSUME NEW d \in Int, d <= today'
               PROVE  /\ IsFiniteSet(LeftSince(d)')
                      /\ Cardinality(LeftSince(d)') <= Cardinality(RowsSince(emails', d)) + lost' + Cardinality(AtPlace("sent")')
    OBVIOUS
  <2>1. Cardinality(RowsSince(emails, d)) \in Nat BY <1>6, RowsAreCounted
  <2>2. Cardinality(RowsSince(emails', d)) = Cardinality(RowsSince(emails, d)) BY <1>1
  <2> QED BY <1>1, <1>4, <1>6, <1>8, <2>1, <2>2
<1> QED BY <1>1, <1>6, <1>7, <1>9, <1>10 DEF LimitInv

LEMMA MailStepKeepsLimit == MailRows /\ LimitInv /\ [MailNext]_mailVars => LimitInv'
<1> SUFFICES ASSUME MailRows, LimitInv, [MailNext]_mailVars PROVE LimitInv' OBVIOUS
<1>1. CASE DaysPass BY <1>1, DaysPassKeepsLimit
<1>2. CASE StartCampaign \/ PauseCampaign \/ UNCHANGED mailVars
  BY <1>2, LimitNotConcerned DEF StartCampaign, PauseCampaign, mailVars
<1>3. ASSUME NEW s \in Senders, GivesUp(s) PROVE LimitInv' BY <1>3, GivesUpKeepsLimit
<1>4. ASSUME NEW s \in Senders, NEW p \in Prospects, ChooseProspect(s, p) PROVE LimitInv' BY <1>4, ChooseProspectKeepsLimit
<1>5. ASSUME NEW s \in Senders, NEW p \in Prospects, Leaves(s, p) PROVE LimitInv' BY <1>5, LeavesKeepsLimit
<1>6. ASSUME NEW s \in Senders, NEW p \in Prospects, RecordSent(s, p) \/ Refused(s, p) \/ Fails(s, p) PROVE LimitInv'
  BY <1>6, SendersKeepLimit
<1>7. ASSUME NEW p \in Prospects,
             \/ Unsubscribe(p) \/ Clicks(p) \/ ImportProspect(p)
             \/ \E st \in {"ACTIVE", "NOT_INTERESTED"} : ChangeStatus(p, st)
             \/ \E k \in {"bounce", "stop", "answer"} : Arrives(p, k)
      PROVE  LimitInv'
  <2>1. UNCHANGED <<today, emails, task, left, lost>>
    BY <1>7 DEF Unsubscribe, Clicks, ImportProspect, ChangeStatus, Arrives
  <2> QED BY <2>1, LimitNotConcerned
<1>8. ASSUME NEW p \in Prospects, Erase(p) PROVE LimitInv' BY <1>8, EraseKeepsLimit
<1>9. ASSUME NEW m \in inbox, ReadMessage(m) PROVE LimitInv' BY <1>9, ReadMessageKeepsLimit
<1> QED BY <1>1, <1>2, <1>3, <1>4, <1>5, <1>6, <1>7, <1>8, <1>9 DEF MailNext

\* The rows, the tasks and the emails keep their types: an email on record is
\* one of the steps, for a prospect that is there.
THEOREM MailTypeCorrect == MailSpec => []MailTypeOK
<1> DEFINE IInv == MailRows /\ Apart /\ LimitInv
<1>1. MailInit => IInv BY MailStarts, LimitStarts
<1>2. IInv /\ [MailNext]_mailVars => IInv' BY MailStepKeepsRows, MailStepKeepsLimit
<1>3. IInv => MailTypeOK
  <2> SUFFICES ASSUME MailRows, LimitInv PROVE MailTypeOK OBVIOUS
  <2>1. \A s \in Senders : task[s].place \in {"idle", "sending", "sent"} /\ task[s].row \in ProspectRow
    <3>1. \A s \in Senders : task[s] \in TaskRow BY DEF MailRows
    <3> QED BY <3>1 DEF TaskRow
  <2>2. \A i \in DOMAIN emails : emails[i].p \in Prospects /\ emails[i].step \in 1..Steps
    <3>1. \A i \in DOMAIN emails : emails[i] \in EmailRow BY DEF LimitInv
    <3> QED BY <3>1 DEF EmailRow
  <2> QED BY <2>1, <2>2 DEF MailTypeOK, MailRows
<1> QED BY <1>1, <1>2, <1>3, PTL DEF MailSpec

\* For any number of prospects and of tasks at the same time: in 24 hours no
\* more emails leave than the limit and one by task, but for those whose record
\* is lost with a task or erased.
THEOREM LimitHolds == MailSpec => []LimitPerDay
<1>1. MailRows /\ LimitInv => LimitPerDay
  <2> SUFFICES ASSUME MailRows, LimitInv PROVE LimitPerDay OBVIOUS
  <2>1. today - Day \in Int /\ today - Day <= today /\ DailyLimit \in Nat BY DaysAreNumbers
  <2>2. Cardinality(LeftSince(today - Day)) \in Nat BY <2>1, FS_CardinalityType DEF LimitInv
  <2>3. Cardinality(AtPlace("sending")) \in Nat /\ Cardinality(Senders) \in Nat BY PlacesAreCounted
  <2> QED BY <2>1, <2>2, <2>3 DEF LimitInv, LimitPerDay
<1>2. (MailRows /\ Apart /\ LimitInv) /\ [MailNext]_mailVars => (MailRows /\ Apart /\ LimitInv)'
  BY MailStepKeepsRows, MailStepKeepsLimit
<1>3. MailInit => MailRows /\ Apart /\ LimitInv BY MailStarts, LimitStarts
<1> QED BY <1>1, <1>2, <1>3, PTL DEF MailSpec

-----------------------------------------------------------------------------
(* ProspectMailer: the steps of the campaign.                              *)

OneSender == \A r, s \in Senders : r = s

Joined(p)     == prospect[p].campaign /\ prospect[p].status # "NONE"
Works(s, p)   == task[s].place # "idle" /\ task[s].p = {p}
HasSent(s, p) == task[s].place = "sent" /\ task[s].p = {p}
LastLeft(p)   == left[p][Len(left[p])]

Rising(es) ==
    \A i, j \in DOMAIN es : i < j => es[i].step < es[j].step /\ es[j].at >= es[i].at + StepDelay

\* The row of a prospect, the task that works on it and what left tell the same.
StepsTell(p) ==
    /\ Rising(left[p])
    /\ Len(left[p]) > 0 => Joined(p)
    /\ Len(left[p]) > 0 /\ (\A s \in Senders : ~HasSent(s, p)) =>
          /\ prospect[p].email_step = LastLeft(p).step
          /\ prospect[p].next_email_at # Unset => prospect[p].next_email_at >= LastLeft(p).at + StepDelay
    /\ \A s \in Senders : Works(s, p) =>
          /\ Joined(p)
          /\ prospect[p].email_step = task[s].row.email_step
          /\ prospect[p].next_email_at \in {task[s].row.next_email_at, Unset}
          /\ task[s].place = "sent" =>
                Len(left[p]) > 0 /\ LastLeft(p).step = task[s].row.email_step + 1 /\ LastLeft(p).at = today
          /\ task[s].place = "sending" /\ Len(left[p]) > 0 =>
                task[s].row.email_step = LastLeft(p).step /\ today >= LastLeft(p).at + StepDelay

StepsInv == lost = 0 /\ erased = 0 => \A p \in Prospects : StepsTell(p)

\* What a step leaves of the row of a prospect who is in the campaign.
RowStays(p) ==
    Joined(p) => /\ Joined(p)'
                 /\ prospect'[p].email_step = prospect[p].email_step
                 /\ prospect'[p].next_email_at \in {prospect[p].next_email_at, Unset}

\* Nothing leaves for p, and no task takes him or records an email to him.
LEMMA StepsStay ==
    ASSUME NEW p, StepsTell(p), left'[p] = left[p], RowStays(p),
           \A s \in Senders : Works(s, p)' => task'[s] = task[s] /\ today' = today,
           \A s \in Senders : HasSent(s, p) => task'[s] = task[s]
    PROVE  StepsTell(p)'
<1>1. LastLeft(p)' = LastLeft(p) /\ Rising(left'[p]) /\ Len(left'[p]) = Len(left[p]) BY DEF StepsTell, LastLeft
<1>2. Len(left'[p]) > 0 => Joined(p)' BY <1>1 DEF StepsTell, RowStays
<1>3. ASSUME Len(left'[p]) > 0, \A s \in Senders : ~HasSent(s, p)'
      PROVE  /\ prospect'[p].email_step = LastLeft(p).step
             /\ prospect'[p].next_email_at # Unset => prospect'[p].next_email_at >= LastLeft(p).at + StepDelay
  <2>1. \A s \in Senders : ~HasSent(s, p) BY <1>3 DEF HasSent
  <2>2. Joined(p) BY <1>1, <1>3 DEF StepsTell
  <2>3. /\ prospect[p].email_step = LastLeft(p).step
        /\ prospect[p].next_email_at # Unset => prospect[p].next_email_at >= LastLeft(p).at + StepDelay
    BY <1>1, <1>3, <2>1 DEF StepsTell
  <2> QED BY <2>2, <2>3 DEF RowStays
<1>4. ASSUME NEW s \in Senders, Works(s, p)'
      PROVE  /\ Joined(p)'
             /\ prospect'[p].email_step = task'[s].row.email_step
             /\ prospect'[p].next_email_at \in {task'[s].row.next_email_at, Unset}
             /\ task'[s].place = "sent" =>
                   Len(left'[p]) > 0 /\ LastLeft(p).step = task'[s].row.email_step + 1 /\ LastLeft(p).at = today'
             /\ task'[s].place = "sending" /\ Len(left'[p]) > 0 =>
                   task'[s].row.email_step = LastLeft(p).step /\ today' >= LastLeft(p).at + StepDelay
  <2>1. task'[s] = task[s] /\ today' = today BY <1>4
  <2>2. Works(s, p) BY <1>4, <2>1 DEF Works
  <2>3. Joined(p) BY <2>2 DEF StepsTell
  <2>4. /\ Joined(p)' /\ prospect'[p].email_step = prospect[p].email_step
        /\ prospect'[p].next_email_at \in {prospect[p].next_email_at, Unset}
    BY <2>3 DEF RowStays
  <2> QED BY <1>1, <2>1, <2>2, <2>4 DEF StepsTell
<1> QED BY <1>1, <1>2, <1>3, <1>4 DEF StepsTell

\* A task takes a prospect whose delay has passed.
LEMMA ChooseKeepsSteps ==
    ASSUME OneSender, MailRows, NEW s \in Senders, NEW p \in Prospects, ChooseProspect(s, p),
           \A q \in Prospects : StepsTell(q)
    PROVE  \A q \in Prospects : StepsTell(q)'
<1> DEFINE t == [p |-> {p}, row |-> prospect[p], place |-> "sending"]
<1>1. task' = [task EXCEPT ![s] = t] /\ task[s].place = "idle" /\ UNCHANGED <<today, prospect, left>> BY DEF ChooseProspect
<1>2. t.p = {p} /\ t.row = prospect[p] /\ t.place = "sending" OBVIOUS
<1> HIDE DEF t
<1>3. task'[s] = t /\ \A r \in Senders : r = s BY <1>1 DEF MailRows, OneSender
<1>4. ASSUME NEW q \in Prospects, q # p PROVE StepsTell(q)'
  <2>1. \A r \in Senders : ~Works(r, q)' /\ ~HasSent(r, q)
    <3>1. {p} # {q} BY <1>4
    <3> QED BY <1>1, <1>2, <1>3, <3>1 DEF Works, HasSent
  <2>2. left'[q] = left[q] /\ RowStays(q) BY <1>1 DEF RowStays, Joined
  <2>3. StepsTell(q) OBVIOUS
  <2> QED BY <2>1, <2>2, <2>3, StepsStay
<1>5. StepsTell(p)'
  <2>1. StepsTell(p) OBVIOUS
  <2>2. \A r \in Senders : ~HasSent(r, p) /\ ~HasSent(r, p)' BY <1>1, <1>2, <1>3 DEF HasSent
  <2>3. LastLeft(p)' = LastLeft(p) BY <1>1 DEF LastLeft
  <2>4. Joined(p) /\ Joined(p)' BY <1>1 DEF ChooseProspect, Candidate, Stopped, Joined
  <2>5. ASSUME Len(left[p]) > 0
        PROVE  /\ prospect[p].email_step = LastLeft(p).step
               /\ prospect[p].next_email_at # Unset => prospect[p].next_email_at >= LastLeft(p).at + StepDelay
    BY <2>1, <2>2, <2>5 DEF StepsTell
  <2>6. ASSUME Len(left[p]) > 0 PROVE today >= LastLeft(p).at + StepDelay
    <3>1. LastLeft(p) \in LeftRow
      <4>1. left[p] \in Seq(LeftRow) BY DEF MailRows
      <4> QED BY <2>6, <4>1 DEF LastLeft
    <3>2. LastLeft(p).step > 0 /\ LastLeft(p).at \in Nat BY <3>1, MailAssumption DEF LeftRow
    <3>3. prospect[p].next_email_at # Unset /\ prospect[p].next_email_at <= today
      BY <2>5, <2>6, <3>2 DEF ChooseProspect, Candidate
    <3>4. prospect[p].next_email_at >= LastLeft(p).at + StepDelay BY <2>5, <2>6, <3>3
    <3>5. prospect[p].next_email_at \in Int /\ today \in Nat /\ StepDelay \in Nat
      BY MailAssumption DEF MailRows, ProspectRow
    <3> QED BY <3>2, <3>3, <3>4, <3>5
  <2>7. /\ Len(left'[p]) > 0 => Joined(p)'
        /\ Rising(left'[p])
    BY <1>1, <2>1, <2>4 DEF StepsTell
  <2> QED BY <1>1, <1>2, <1>3, <2>2, <2>3, <2>4, <2>5, <2>6, <2>7 DEF StepsTell
<1> QED BY <1>4, <1>5

LEMMA OneMoreRises ==
    ASSUME NEW es \in Seq(LeftRow), NEW e \in LeftRow, Rising(es), StepDelay \in Nat,
           Len(es) > 0 => e.step > es[Len(es)].step /\ e.at >= es[Len(es)].at + StepDelay
    PROVE  Rising(Append(es, e))
<1> DEFINE n == Len(es)
           fs == Append(es, e)
<1>1. n \in Nat /\ DOMAIN es = 1..n /\ DOMAIN fs = 1..(n + 1) OBVIOUS
<1>2. fs[n + 1] = e /\ \A i \in 1..n : fs[i] = es[i] /\ es[i].step \in Int /\ es[i].at \in Nat
  <2>1. \A i \in 1..n : es[i] \in LeftRow OBVIOUS
  <2>2. \A i \in 1..n : es[i].step \in Int /\ es[i].at \in Nat BY <2>1 DEF LeftRow
  <2> QED BY <2>2
<1>3. e.step \in Int /\ e.at \in Nat BY DEF LeftRow
<1> SUFFICES ASSUME NEW i \in 1..(n + 1), NEW j \in 1..(n + 1), i < j
             PROVE  fs[i].step < fs[j].step /\ fs[j].at >= fs[i].at + StepDelay
  BY <1>1 DEF Rising
<1> HIDE DEF fs
<1>4. CASE j <= n
  <2>1. i \in DOMAIN es /\ j \in DOMAIN es BY <1>1, <1>4
  <2>2. es[i].step < es[j].step /\ es[j].at >= es[i].at + StepDelay BY <2>1 DEF Rising
  <2> QED BY <1>1, <1>2, <2>1, <2>2
<1>5. CASE j = n + 1
  <2>1. i \in 1..n /\ n \in DOMAIN es /\ n > 0 BY <1>1, <1>5
  <2>2. e.step > es[n].step /\ e.at >= es[n].at + StepDelay BY <2>1
  <2>3. es[i].step <= es[n].step /\ es[n].at >= es[i].at
    <3>1. CASE i = n BY <1>2, <2>1, <3>1
    <3>2. CASE i < n
      <4>1. es[i].step < es[n].step /\ es[n].at >= es[i].at + StepDelay BY <1>1, <2>1, <3>2 DEF Rising
      <4>2. /\ es[i].step \in Int /\ es[n].step \in Int /\ es[i].at \in Nat /\ es[n].at \in Nat
        BY <1>1, <1>2, <2>1
      <4> QED BY SMTT(20), <4>1, <4>2
    <3>3. i = n \/ i < n
      <4>1. n \in Nat /\ i \in 1..n BY <1>1, <2>1
      <4> HIDE DEF n
      <4> QED BY <4>1
    <3> QED BY <3>1, <3>2, <3>3
  <2>4. fs[i] = es[i] /\ fs[j] = e /\ n \in 1..n BY <1>1, <1>2, <1>5, <2>1
  <2>5. /\ es[i].step \in Int /\ es[n].step \in Int /\ es[i].at \in Nat /\ es[n].at \in Nat
    BY <1>2, <2>1, <2>4
  <2>6. e.step > es[i].step BY <1>3, <2>2, <2>3, <2>5
  <2>7. e.at >= es[i].at + StepDelay BY SMTT(20), <1>3, <2>2, <2>3, <2>5
  <2> QED BY <2>4, <2>6, <2>7
<1> QED BY <1>1, <1>4, <1>5

\* The next step leaves.
LEMMA LeavesKeepsSteps ==
    ASSUME OneSender, MailRows, NEW s \in Senders, NEW p \in Prospects, Leaves(s, p),
           \A q \in Prospects : StepsTell(q)
    PROVE  \A q \in Prospects : StepsTell(q)'
<1> DEFINE e == [step |-> task[s].row.email_step + 1, at |-> today]
           t == [task[s] EXCEPT !.place = "sent"]
<1>1. /\ task' = [task EXCEPT ![s] = t] /\ task[s].place = "sending" /\ task[s].p = {p} /\ task[s] \in TaskRow
      /\ UNCHANGED <<today, prospect>> /\ left' = [left EXCEPT ![p] = Append(left[p], e)]
  BY DEF Leaves, MailRows
<1>2. t.p = {p} /\ t.row = task[s].row /\ t.place = "sent" BY <1>1 DEF TaskRow
<1>3. task'[s] = t /\ \A r \in Senders : r = s BY <1>1 DEF MailRows, OneSender
<1>4. e.step = task[s].row.email_step + 1 /\ e.at = today /\ e \in LeftRow
  <2>1. task[s].row \in ProspectRow /\ task[s].row.email_step < Steps BY <1>1 DEF MailRows, TaskRow
  <2>2. task[s].row.email_step \in 0..Steps BY <2>1 DEF ProspectRow
  <2>3. task[s].row.email_step + 1 \in 1..Steps BY <2>1, <2>2, MailAssumption
  <2> QED BY <2>3 DEF MailRows, LeftRow
<1> HIDE DEF t, e
<1>5. ASSUME NEW q \in Prospects, q # p PROVE StepsTell(q)'
  <2>1. \A r \in Senders : ~Works(r, q)' /\ ~HasSent(r, q)
    <3>1. {p} # {q} BY <1>5
    <3> QED BY <1>1, <1>2, <1>3, <3>1 DEF Works, HasSent
  <2>2. left'[q] = left[q] /\ RowStays(q) BY <1>1, <1>5 DEF RowStays, Joined, MailRows
  <2>3. StepsTell(q) OBVIOUS
  <2> QED BY <2>1, <2>2, <2>3, StepsStay
<1>6. StepsTell(p)'
  <2>1. StepsTell(p) /\ Works(s, p) BY <1>1 DEF Works
  <2>2. left[p] \in Seq(LeftRow) /\ left'[p] = Append(left[p], e) BY <1>1 DEF MailRows
  <2>3. Len(left'[p]) = Len(left[p]) + 1 /\ Len(left[p]) \in Nat /\ LastLeft(p)' = e BY <2>2 DEF LastLeft
  <2>4. task[s].row.email_step \in Int
    <3>1. task[s].row \in ProspectRow BY <1>1 DEF TaskRow
    <3> QED BY <3>1, MailAssumption DEF ProspectRow
  <2>5. Rising(left'[p])
    <3>1. Len(left[p]) > 0 => e.step > LastLeft(p).step /\ e.at >= LastLeft(p).at + StepDelay
      BY <1>1, <1>4, <2>1, <2>4 DEF StepsTell
    <3>2. StepDelay \in Nat /\ Rising(left[p]) BY <2>1, MailAssumption DEF StepsTell
    <3> QED BY <1>4, <2>2, <3>1, <3>2, OneMoreRises DEF LastLeft
  <2>6. Joined(p)' BY <1>1, <2>1 DEF StepsTell, Joined
  <2>7. HasSent(s, p)' BY <1>2, <1>3 DEF HasSent
  <2>8. prospect'[p].email_step = t.row.email_step /\ prospect'[p].next_email_at \in {t.row.next_email_at, Unset}
    BY <1>1, <1>2, <2>1 DEF StepsTell
  <2>9. Len(left'[p]) > 0 BY <2>3
  <2> QED BY <1>1, <1>2, <1>3, <1>4, <2>3, <2>5, <2>6, <2>7, <2>8, <2>9 DEF StepsTell
<1> QED BY <1>5, <1>6

\* The task writes the step and the delay on the row as it now is.
LEMMA RecordSentKeepsSteps ==
    ASSUME OneSender, MailRows, NEW s \in Senders, NEW p \in Prospects, RecordSent(s, p),
           \A q \in Prospects : StepsTell(q)
    PROVE  \A q \in Prospects : StepsTell(q)'
<1> DEFINE old == task[s].row
           step == old.email_step + 1
           next == IF step < Steps THEN today + StepDelay ELSE Unset
           new == [old EXCEPT !.email_step = step, !.next_email_at = next]
<1>1. /\ task' = [task EXCEPT ![s] = NoTask] /\ task[s].place = "sent" /\ task[s].p = {p}
      /\ UNCHANGED <<today, left>> /\ prospect' = [prospect EXCEPT ![p] = Written(p, old, new)]
  BY DEF RecordSent, Idle
<1>2. \A r \in Senders : r = s /\ task'[r].place = "idle" BY <1>1 DEF MailRows, OneSender, NoTask
<1>3. old \in ProspectRow /\ old.email_step < Steps BY <1>1 DEF MailRows, TaskRow
<1>4. old.email_step \in 0..Steps BY <1>3 DEF ProspectRow
<1>5. next \in Int /\ step \in 0..Steps /\ step # old.email_step
  <2>1. step \in 0..Steps /\ step # old.email_step BY <1>3, <1>4, MailAssumption
  <2>2. today + StepDelay \in Int BY MailAssumption DEF MailRows
  <2>3. Unset \in Int BY DEF Unset
  <2> QED BY <2>1, <2>2, <2>3
<1>6. /\ new \in ProspectRow /\ new.email_step = step /\ new.next_email_at = next
      /\ new.status = old.status /\ new.campaign = old.campaign
  <2> HIDE DEF step, next
  <2> QED BY <1>3, <1>5 DEF ProspectRow
<1>7. prospect[p] \in ProspectRow BY DEF MailRows
<1> HIDE DEF old, new
<1>8. /\ prospect'[p].status = prospect[p].status /\ prospect'[p].campaign = prospect[p].campaign
      /\ prospect'[p].email_step = step
      /\ prospect'[p].next_email_at = IF next # old.next_email_at THEN next ELSE prospect[p].next_email_at
  BY <1>1, <1>3, <1>5, <1>6, WrittenIsRow DEF MailRows
<1>9. ASSUME NEW q \in Prospects, q # p PROVE StepsTell(q)'
  <2>1. \A r \in Senders : ~Works(r, q)' /\ ~HasSent(r, q)
    <3>1. {p} # {q} BY <1>9
    <3> QED BY <1>1, <1>2, <3>1 DEF Works, HasSent
  <2>2. left'[q] = left[q] /\ RowStays(q) BY <1>1, <1>9 DEF RowStays, Joined, MailRows
  <2>3. StepsTell(q) OBVIOUS
  <2> QED BY <2>1, <2>2, <2>3, StepsStay
<1>10. StepsTell(p)'
  <2>1. StepsTell(p) /\ Works(s, p) BY <1>1 DEF Works
  <2>2. /\ Len(left[p]) > 0 /\ LastLeft(p).step = step /\ LastLeft(p).at = today /\ Joined(p)
        /\ prospect[p].next_email_at \in {old.next_email_at, Unset}
    BY <1>1, <2>1 DEF StepsTell, old
  <2>3. LastLeft(p)' = LastLeft(p) /\ left'[p] = left[p] BY <1>1 DEF LastLeft
  <2>4. Joined(p)' BY <1>8, <2>2 DEF Joined
  <2>5. prospect'[p].next_email_at \in {next, Unset} BY <1>8, <2>2
  <2>6. prospect'[p].next_email_at # Unset => prospect'[p].next_email_at >= LastLeft(p).at + StepDelay
    <3>1. today + StepDelay \in Int BY MailAssumption DEF MailRows
    <3> QED BY <2>2, <2>5, <3>1
  <2>7. Rising(left[p]) BY <2>1 DEF StepsTell
  <2>8. \A r \in Senders : ~Works(r, p)' BY <1>2 DEF Works
  <2>9. prospect'[p].email_step = LastLeft(p).step BY <1>8, <2>2
  <2> HIDE DEF step, next
  <2> QED BY <2>2, <2>3, <2>4, <2>6, <2>7, <2>8, <2>9 DEF StepsTell
<1> QED BY <1>9, <1>10

\* An address put apart leaves its place in the campaign.
LEMMA InvalidateStays ==
    ASSUME MailRows, NEW p \in Prospects, NEW old \in ProspectRow, Invalidate(p, old)
    PROVE  \A q \in Prospects : RowStays(q)
<1> DEFINE new == [old EXCEPT !.status = "INVALID", !.next_email_at = Unset]
<1>u. Unset \in Int /\ "INVALID" \in {"NONE", "ACTIVE", "NOT_INTERESTED", "UNSUBSCRIBED", "INVALID"} BY DEF Unset
<1>1. /\ new \in ProspectRow /\ new.status = "INVALID" /\ new.next_email_at = Unset
      /\ new.campaign = old.campaign /\ new.email_step = old.email_step
  BY <1>u DEF ProspectRow
<1>2. prospect' = [prospect EXCEPT ![p] = Written(p, old, new)] BY DEF Invalidate
<1> HIDE DEF new
<1>3. /\ Written(p, old, new).status \in {"INVALID", prospect[p].status}
      /\ Written(p, old, new).campaign = prospect[p].campaign
      /\ Written(p, old, new).email_step = prospect[p].email_step
      /\ Written(p, old, new).next_email_at \in {prospect[p].next_email_at, Unset}
  BY <1>1, WrittenIsRow
<1>4. \A q \in Prospects : prospect'[q] = IF q = p THEN Written(p, old, new) ELSE prospect[q] BY <1>2 DEF MailRows
<1> QED BY <1>3, <1>4 DEF RowStays, Joined

LEMMA UnsubscribedStays ==
    ASSUME MailRows, NEW p \in Prospects, Unsubscribed(p)
    PROVE  \A q \in Prospects : RowStays(q)
<1> DEFINE next == IF prospect[p].status = "UNSUBSCRIBED" THEN prospect[p].next_email_at ELSE Unset
<1>1. prospect[p] \in ProspectRow BY DEF MailRows
<1>2. \A q \in Prospects :
        prospect'[q] = IF q = p THEN [prospect[p] EXCEPT !.status = "UNSUBSCRIBED", !.next_email_at = next] ELSE prospect[q]
  BY DEF Unsubscribed, MailRows
<1>3. next \in {prospect[p].next_email_at, Unset} OBVIOUS
<1> HIDE DEF next
<1>4. /\ prospect'[p].status = "UNSUBSCRIBED" /\ prospect'[p].campaign = prospect[p].campaign
      /\ prospect'[p].email_step = prospect[p].email_step /\ prospect'[p].next_email_at = next
  BY <1>1, <1>2 DEF ProspectRow
<1> QED BY <1>2, <1>3, <1>4 DEF RowStays, Joined

\* What prospects, messages and the team do to the rows: whoever is in the
\* campaign stays where he is in it.
LEMMA PeopleStay ==
    ASSUME MailRows,
           \/ StartCampaign \/ PauseCampaign
           \/ \E p \in Prospects : \/ Unsubscribe(p) \/ Clicks(p) \/ ImportProspect(p)
                                   \/ \E st \in {"ACTIVE", "NOT_INTERESTED"} : ChangeStatus(p, st)
                                   \/ \E k \in {"bounce", "stop", "answer"} : Arrives(p, k)
           \/ \E m \in inbox : ReadMessage(m)
    PROVE  \A q \in Prospects : RowStays(q)
<1>0. \A q \in Prospects : prospect[q] \in ProspectRow BY DEF MailRows
<1>1. CASE StartCampaign
  <2>1. \A q \in Eligible : ~prospect[q].campaign BY DEF Eligible
  <2>2. \A q \in Prospects : Joined(q) => prospect'[q] = prospect[q] BY <1>1, <2>1 DEF StartCampaign, Joined
  <2> QED BY <2>2 DEF RowStays, Joined
<1>2. CASE PauseCampaign BY <1>2 DEF PauseCampaign, RowStays, Joined
<1>3. ASSUME NEW p \in Prospects, Unsubscribe(p) PROVE \A q \in Prospects : RowStays(q)
  BY <1>3, UnsubscribedStays DEF Unsubscribe
<1>4. ASSUME NEW p \in Prospects, Clicks(p) \/ \E st \in {"ACTIVE", "NOT_INTERESTED"} : ChangeStatus(p, st)
      PROVE  \A q \in Prospects : RowStays(q)
  <2>1. \A q \in Prospects : q # p => prospect'[q] = prospect[q] BY <1>4 DEF Clicks, ChangeStatus, MailRows
  <2>2. /\ prospect'[p].campaign = prospect[p].campaign /\ prospect'[p].email_step = prospect[p].email_step
        /\ prospect'[p].next_email_at = prospect[p].next_email_at
        /\ prospect'[p].status \in {prospect[p].status, "ACTIVE", "NOT_INTERESTED"}
    BY <1>0, <1>4 DEF Clicks, ChangeStatus, MailRows, ProspectRow
  <2> QED BY <2>1, <2>2 DEF RowStays, Joined
<1>5. ASSUME NEW p \in Prospects, ImportProspect(p) PROVE \A q \in Prospects : RowStays(q)
  <2>1. \A q \in Prospects : Joined(q) => prospect'[q] = prospect[q] BY <1>5 DEF ImportProspect, Joined, MailRows
  <2> QED BY <2>1 DEF RowStays, Joined
<1>6. ASSUME NEW p \in Prospects, NEW k, Arrives(p, k) PROVE \A q \in Prospects : RowStays(q)
  BY <1>6 DEF Arrives, RowStays, Joined
<1>7. ASSUME NEW m \in inbox, ReadMessage(m) PROVE \A q \in Prospects : RowStays(q)
  <2>1. m.p \in Prospects /\ m.kind \in {"bounce", "stop", "answer"} BY DEF MailRows
  <2>2. \/ prospect' = prospect \/ Invalidate(m.p, prospect[m.p]) \/ Unsubscribed(m.p)
        \/ prospect' = [prospect EXCEPT ![m.p].reacted = TRUE, ![m.p].next_email_at = Unset]
    BY <1>7, <2>1 DEF ReadMessage
  <2>3. CASE prospect' = prospect BY <2>3 DEF RowStays, Joined
  <2>4. CASE Invalidate(m.p, prospect[m.p]) BY <1>0, <2>1, <2>4, InvalidateStays
  <2>5. CASE Unsubscribed(m.p) BY <2>1, <2>5, UnsubscribedStays
  <2>6. CASE prospect' = [prospect EXCEPT ![m.p].reacted = TRUE, ![m.p].next_email_at = Unset]
    <3>1. \A q \in Prospects : q # m.p => prospect'[q] = prospect[q] BY <2>1, <2>6 DEF MailRows
    <3>2. /\ prospect'[m.p].campaign = prospect[m.p].campaign /\ prospect'[m.p].email_step = prospect[m.p].email_step
          /\ prospect'[m.p].next_email_at = Unset /\ prospect'[m.p].status = prospect[m.p].status
      BY <1>0, <2>1, <2>6 DEF MailRows, ProspectRow
    <3> QED BY <3>1, <3>2 DEF RowStays, Joined
  <2> QED BY <2>2, <2>3, <2>4, <2>5, <2>6
<1> QED BY <1>1, <1>2, <1>3, <1>4, <1>5, <1>6, <1>7

LEMMA MailStepKeepsSteps ==
    ASSUME OneSender, MailRows, LimitInv, StepsInv, [MailNext]_mailVars
    PROVE  StepsInv'
<1>1. lost \in Nat /\ erased \in Nat BY DEF LimitInv, MailRows
<1>3. ASSUME NEW s \in Senders, GivesUp(s) PROVE StepsInv'
  <2>1. CASE task[s].place = "sent"
    <3>1. lost' # 0 BY <1>1, <1>3, <2>1 DEF GivesUp
    <3> QED BY <3>1 DEF StepsInv
  <2>2. CASE task[s].place # "sent"
    <3>1. UNCHANGED <<today, prospect, left, lost, erased>> /\ task' = [task EXCEPT ![s] = NoTask]
      BY <1>3, <2>2 DEF GivesUp, Idle
    <3>2. \A r \in Senders : task'[r] = IF r = s THEN NoTask ELSE task[r] BY <3>1 DEF MailRows
    <3>3. ASSUME NEW q \in Prospects, StepsTell(q) PROVE StepsTell(q)'
      <4>1. RowStays(q) BY <3>1 DEF RowStays, Joined
      <4>2. \A r \in Senders : Works(r, q)' => task'[r] = task[r] BY <3>2 DEF Works, NoTask
      <4>3. \A r \in Senders : HasSent(r, q) => task'[r] = task[r] BY <2>2, <3>2 DEF HasSent
      <4> QED BY <3>1, <3>3, <4>1, <4>2, <4>3, StepsStay
    <3> QED BY <3>1, <3>3 DEF StepsInv
  <2> QED BY <2>1, <2>2
<1>4. ASSUME NEW s \in Senders, NEW p \in Prospects, ChooseProspect(s, p) PROVE StepsInv'
  <2>1. UNCHANGED <<lost, erased>> BY <1>4 DEF ChooseProspect
  <2> QED BY <1>4, <2>1, ChooseKeepsSteps DEF StepsInv
<1>5. ASSUME NEW s \in Senders, NEW p \in Prospects, Leaves(s, p) PROVE StepsInv'
  <2>1. UNCHANGED <<lost, erased>> BY <1>5 DEF Leaves
  <2> QED BY <1>5, <2>1, LeavesKeepsSteps DEF StepsInv
<1>6. ASSUME NEW s \in Senders, NEW p \in Prospects, RecordSent(s, p) PROVE StepsInv'
  <2>1. UNCHANGED <<lost, erased>> BY <1>6 DEF RecordSent
  <2> QED BY <1>6, <2>1, RecordSentKeepsSteps DEF StepsInv
<1>7. ASSUME NEW s \in Senders, NEW p \in Prospects, Refused(s, p) \/ Fails(s, p) PROVE StepsInv'
  <2>1. UNCHANGED <<today, left, lost, erased>> /\ task' = [task EXCEPT ![s] = NoTask] /\ task[s].place = "sending"
    BY <1>7 DEF Refused, Fails, Idle
  <2>2. \A q \in Prospects : RowStays(q)
    <3>1. task[s].row \in ProspectRow BY DEF MailRows, TaskRow
    <3>2. CASE Invalidate(p, task[s].row) BY <3>1, <3>2, InvalidateStays
    <3>3. CASE prospect' = prospect BY <3>3 DEF RowStays, Joined
    <3> QED BY <1>7, <3>2, <3>3 DEF Refused, Fails
  <2>3. \A r \in Senders : task'[r] = IF r = s THEN NoTask ELSE task[r] BY <2>1 DEF MailRows
  <2>4. ASSUME NEW q \in Prospects, StepsTell(q) PROVE StepsTell(q)'
    <3>1. \A r \in Senders : Works(r, q)' => task'[r] = task[r] BY <2>3 DEF Works, NoTask
    <3>2. \A r \in Senders : HasSent(r, q) => task'[r] = task[r] BY <2>1, <2>3 DEF HasSent
    <3> QED BY <2>1, <2>2, <2>4, <3>1, <3>2, StepsStay
  <2> QED BY <2>1, <2>4 DEF StepsInv
<1>8. ASSUME NEW p \in Prospects, Erase(p) PROVE StepsInv'
  <2>1. erased' # 0 BY <1>1, <1>8 DEF Erase
  <2> QED BY <2>1 DEF StepsInv
<1>9. CASE DaysPass
  <2>1. /\ UNCHANGED <<prospect, task, left, lost, erased>> /\ \A s \in Senders : task[s] = NoTask
    BY <1>9 DEF DaysPass
  <2>2. ASSUME NEW q \in Prospects, StepsTell(q) PROVE StepsTell(q)'
    <3>1. RowStays(q) BY <2>1 DEF RowStays, Joined
    <3>2. \A r \in Senders : ~Works(r, q)' /\ ~HasSent(r, q) BY <2>1 DEF Works, HasSent, NoTask
    <3> QED BY <2>1, <2>2, <3>1, <3>2, StepsStay
  <2> QED BY <2>1, <2>2 DEF StepsInv
<1>10. ASSUME \/ StartCampaign \/ PauseCampaign
              \/ \E p \in Prospects : \/ Unsubscribe(p) \/ Clicks(p) \/ ImportProspect(p)
                                      \/ \E st \in {"ACTIVE", "NOT_INTERESTED"} : ChangeStatus(p, st)
                                      \/ \E k \in {"bounce", "stop", "answer"} : Arrives(p, k)
              \/ \E m \in inbox : ReadMessage(m)
       PROVE  StepsInv'
  <2>1. UNCHANGED <<today, task, left, lost, erased>>
    BY <1>10 DEF StartCampaign, PauseCampaign, Unsubscribe, Clicks, ImportProspect, ChangeStatus, Arrives, ReadMessage
  <2>2. \A q \in Prospects : RowStays(q) BY <1>10, PeopleStay
  <2>3. ASSUME NEW q \in Prospects, StepsTell(q) PROVE StepsTell(q)'
    BY <2>1, <2>2, <2>3, StepsStay
  <2> QED BY <2>1, <2>3 DEF StepsInv
<1>11. CASE UNCHANGED mailVars
  <2>1. UNCHANGED <<today, prospect, task, left, lost, erased>> BY <1>11 DEF mailVars
  <2>2. ASSUME NEW q \in Prospects, StepsTell(q) PROVE StepsTell(q)'
    <3>1. RowStays(q) BY <2>1 DEF RowStays, Joined
    <3> QED BY <2>1, <2>2, <3>1, StepsStay
  <2> QED BY <2>1, <2>2 DEF StepsInv
<1> QED BY <1>3, <1>4, <1>5, <1>6, <1>7, <1>8, <1>9, <1>10, <1>11 DEF MailNext

LEMMA StepsStart == MailInit => StepsInv
<1> SUFFICES ASSUME MailInit, NEW p \in Prospects PROVE StepsTell(p) BY DEF StepsInv
<1>1. left[p] = <<>> /\ Len(left[p]) = 0 BY DEF MailInit
<1>2. \A s \in Senders : ~Works(s, p) BY DEF MailInit, NoTask, Works
<1>3. Rising(left[p]) BY <1>1 DEF Rising
<1> QED BY <1>1, <1>2, <1>3 DEF StepsTell

\* Beat starts one task at a time: then, for any number of prospects, none of
\* whom was erased and none of whose emails lost its record, each gets the steps
\* once, in order and apart; and whatever was lost or erased, the addresses put
\* apart and the limit hold.
THEOREM ProspectsAreSpared == ASSUME OneSender PROVE MailSpec => []ProspectsSpared
<1> DEFINE IInv == MailRows /\ Apart /\ LimitInv /\ StepsInv
<1>1. MailInit => IInv BY MailStarts, LimitStarts, StepsStart
<1>2. IInv /\ [MailNext]_mailVars => IInv' BY MailStepKeepsRows, MailStepKeepsLimit, MailStepKeepsSteps
<1>3. MailSpec => []IInv BY <1>1, <1>2, PTL DEF MailSpec
<1>4. StepsInv => EachStepOnce BY DEF StepsInv, StepsTell, Rising, EachStepOnce
<1>5. IInv => EachStepOnce BY <1>4
<1> QED BY <1>3, <1>5, KeptApart, LimitHolds, PTL DEF ProspectsSpared


-----------------------------------------------------------------------------
(* OrderReminders: the inductive invariant.                                *)

RunFields == {"at", "rows", "todo", "known", "sending"}

ToldAt == [step : {1, 2}, at : Int]

Rows ==
    /\ hour \in Nat /\ deaths \in 0..RemDeaths
    /\ order \in [Orders -> OrderRow] /\ talk \in [Buyers -> Talk] /\ settled \in [Orders -> Int]
    /\ told \in [Orders -> Seq(ToldAt)]

\* The run under way holds the rows of what it has to do; the time stands
\* still for it.
RunHolds ==
    /\ DOMAIN run = RunFields
    /\ run.at \in Int /\ (run # NoRun => run.at = hour)
    /\ run.todo \subseteq Orders /\ run.sending \subseteq Orders
    /\ DOMAIN run.known \subseteq Buyers
    /\ \A o \in run.todo \cup run.sending :
          /\ run # NoRun
          /\ run.rows[o] \in OrderRow /\ run.rows[o].status = "PENDING"
          /\ run.rows[o].reminders_sent = order[o].reminders_sent
          /\ run.rows[o].last_reminder_at = order[o].last_reminder_at
    /\ run.todo \cap run.sending = {} /\ \A o, p \in run.sending : o = p
    /\ \A o \in run.sending : DueStep(run.rows[o], run.at) > 0

\* One more than recorded has left of the order that the run is at.
Pending(o) == IF o \in run.sending THEN 1 ELSE 0

\* A message that left is recorded, is about to be, or its run has died.
Reckoned(o) ==
    /\ Len(told[o]) <= order[o].reminders_sent + Pending(o) + deaths
    /\ \A i \in DOMAIN told[o] : told[o][i].at <= hour

\* As long as no run has died the record tells the last reminder.
Recorded(o) ==
    deaths = 0 =>
        /\ \A i \in DOMAIN told[o] : told[o][i].step <= order[o].reminders_sent + Pending(o)
        /\ o \notin run.sending => \A i \in DOMAIN told[o] :
              order[o].last_reminder_at # NotYet /\ told[o][i].at <= order[o].last_reminder_at
        /\ \A i, j \in DOMAIN told[o] :
              i < j => told[o][i].step < told[o][j].step /\ told[o][j].at >= told[o][i].at + MinGap

\* A settled order stays so; the run that still has it to do began before.
Closed(o) ==
    /\ order[o].status # "SETTLED" => settled[o] = NotYet
    /\ settled[o] # NotYet => \A i \in DOMAIN told[o] : told[o][i].at <= settled[o]
    /\ settled[o] # NotYet /\ o \in run.todo => run.at <= settled[o]

RemInv ==
    /\ Rows /\ RunHolds
    /\ \A o \in Orders : Reckoned(o) /\ Recorded(o) /\ Closed(o)

-----------------------------------------------------------------------------
(* OrderReminders: the operators.                                          *)

\* The reminder that is due is the one after those recorded, and comes the
\* gap after the last one.
LEMMA DueStepIsNext ==
    ASSUME NEW row \in OrderRow, NEW now \in Int, DueStep(row, now) > 0
    PROVE  /\ DueStep(row, now) \in {1, 2} /\ DueStep(row, now) = row.reminders_sent + 1
           /\ row.reminders_sent = 1 /\ row.last_reminder_at # NotYet => now - row.last_reminder_at >= MinGap
BY ReminderAssumption DEF DueStep, OrderRow

\* What has left or is about to be recorded never exceeds two reminders.
LEMMA SendingIsDue ==
    ASSUME RemInv, NEW o \in run.sending
    PROVE  /\ o \in Orders /\ run # NoRun /\ run.at = hour /\ order[o] \in OrderRow
           /\ DueStep(run.rows[o], run.at) = order[o].reminders_sent + 1
           /\ DueStep(run.rows[o], run.at) \in {1, 2}
<1>1. /\ o \in Orders /\ run # NoRun /\ run.rows[o] \in OrderRow /\ run.at \in Int /\ run.at = hour
      /\ run.rows[o].reminders_sent = order[o].reminders_sent
      /\ DueStep(run.rows[o], run.at) > 0
  BY DEF RemInv, RunHolds
<1>2. order[o] \in OrderRow BY <1>1 DEF RemInv, Rows
<1> QED BY <1>1, <1>2, DueStepIsNext

LEMMA EmptyRun ==
    /\ DOMAIN NoRun = RunFields
    /\ NoRun.at = NotYet /\ NoRun.todo = {} /\ NoRun.sending = {} /\ DOMAIN NoRun.known = {}
BY DEF NoRun, RunFields

-----------------------------------------------------------------------------
(* OrderReminders: the worker.                                             *)

LEMMA StartKeeps ==
    ASSUME RemInv, StartReminders
    PROVE  RemInv'
<1> DEFINE due == Listed(hour)
<1>1. run = NoRun /\ UNCHANGED <<hour, order, talk, told, settled, deaths>> BY DEF StartReminders
<1>2. run' = [NoRun EXCEPT !.at = hour, !.rows = [o \in due |-> order[o]], !.todo = due] BY DEF StartReminders
<1>3. due \subseteq Orders /\ \A o \in due : order[o].status = "PENDING" BY DEF Listed
<1> HIDE DEF due
<1>4. /\ run'.at = hour /\ run'.rows = [o \in due |-> order[o]] /\ run'.todo = due
      /\ run'.sending = {} /\ DOMAIN run'.known = {}
  BY <1>2 DEF NoRun
<1>5. hour \in Nat /\ order \in [Orders -> OrderRow] BY DEF RemInv, Rows
<1>6. run' # NoRun BY <1>4, <1>5, EmptyRun DEF NotYet
<1>7. \A o \in due : run'.rows[o] = order[o] BY <1>4
<1>f. DOMAIN run' = RunFields BY <1>2, EmptyRun
<1>8. RunHolds' BY <1>1, <1>3, <1>4, <1>5, <1>6, <1>7, <1>f DEF RunHolds
<1>9. Rows' BY <1>1 DEF RemInv, Rows
<1>10. run.sending = {} BY <1>1, EmptyRun
<1>11. ASSUME NEW o \in Orders PROVE Reckoned(o)' /\ Recorded(o)' /\ Closed(o)'
  <2>1. Reckoned(o) /\ Recorded(o) /\ Closed(o) BY DEF RemInv
  <2>2. o \in due => settled[o] = NotYet BY <1>3, <2>1 DEF Closed
  <2> QED BY <1>1, <1>4, <1>10, <2>1, <2>2 DEF Reckoned, Recorded, Closed, Pending
<1> QED BY <1>8, <1>9, <1>11 DEF RemInv

\* The run has an order less to do, or is over: nothing else moves.
LEMMA RunShrinks ==
    ASSUME RemInv, UNCHANGED <<hour, order, talk, told, settled>>, deaths' = deaths, run.sending = {},
           DOMAIN run' = RunFields, run'.sending = {}, run'.todo \subseteq run.todo, DOMAIN run'.known \subseteq Buyers,
           run' = NoRun \/ (run # NoRun /\ run' # NoRun /\ run'.at = run.at /\ run'.rows = run.rows)
    PROVE  RemInv'
<1>1. Rows' BY DEF RemInv, Rows
<1>2. RunHolds' BY EmptyRun DEF RemInv, RunHolds, NotYet
<1>3. ASSUME NEW o \in Orders PROVE Reckoned(o)' /\ Recorded(o)' /\ Closed(o)'
  <2>1. Reckoned(o) /\ Recorded(o) /\ Closed(o) BY DEF RemInv
  <2>2. o \in run'.todo => o \in run.todo /\ run'.at = run.at BY EmptyRun
  <2> QED BY <2>1, <2>2 DEF Reckoned, Recorded, Closed, Pending
<1> QED BY <1>1, <1>2, <1>3 DEF RemInv

LEMMA SeeingIsOfBuyers ==
    ASSUME RemInv, NEW c \in Buyers
    PROVE  DOMAIN Seeing(c) \subseteq Buyers
BY DEF RemInv, RunHolds, Seeing

\* What NextUp says of the run under way.
LEMMA NextUpIsHeld ==
    ASSUME RemInv, NEW o \in Orders, NextUp(o), run.sending = {}
    PROVE  /\ o \in run.todo /\ run # NoRun /\ run.at = hour /\ hour \in Nat
           /\ run.rows[o] \in OrderRow
           /\ run.rows[o].reminders_sent = order[o].reminders_sent
           /\ run.rows[o].last_reminder_at = order[o].last_reminder_at
           /\ Buyer[o] \in Buyers
BY DEF RemInv, Rows, RunHolds, NextUp, Buyers


LEMMA SkipKeeps ==
    ASSUME RemInv, NEW o \in Orders, SkipOrder(o)
    PROVE  RemInv'
<1> DEFINE known == IF DueStep(run.rows[o], run.at) > 0 THEN Seeing(Buyer[o]) ELSE run.known
<1>1. /\ run.sending = {} /\ NextUp(o) /\ UNCHANGED <<hour, order, talk, told, settled, deaths>>
      /\ run' = [run EXCEPT !.todo = @ \ {o}, !.known = known]
  BY DEF SkipOrder
<1>2. run # NoRun /\ run.at = hour /\ hour \in Nat /\ Buyer[o] \in Buyers /\ DOMAIN run = RunFields
  BY <1>1, NextUpIsHeld DEF RemInv, RunHolds
<1>3. DOMAIN known \subseteq Buyers BY <1>2, SeeingIsOfBuyers DEF RemInv, RunHolds
<1> HIDE DEF known
<1>4. /\ DOMAIN run' = RunFields /\ run'.at = run.at /\ run'.rows = run.rows /\ run'.todo = run.todo \ {o}
      /\ run'.sending = {} /\ run'.known = known
  BY <1>1, <1>2 DEF RunFields
<1>5. run' # NoRun BY <1>2, <1>4, EmptyRun DEF NotYet
<1> QED BY <1>1, <1>2, <1>3, <1>4, <1>5, RunShrinks

LEMMA EndKeeps == ASSUME RemInv, EndReminders PROVE RemInv'
<1>1. run' = NoRun /\ run.sending = {} /\ UNCHANGED <<hour, order, talk, told, settled, deaths>> BY DEF EndReminders
<1> QED BY <1>1, EmptyRun, RunShrinks

\* The reminder leaves: one more than recorded, and the next one in order.
LEMMA RemindKeeps ==
    ASSUME RemInv, NEW o \in Orders, NEW channel \in Channels, Remind(o, channel)
    PROVE  RemInv'
<1> DEFINE due  == DueStep(run.rows[o], run.at)
           mail == [step |-> due, at |-> run.at]
           list == Append(told[o], mail)
           out  == IF channel = "FAILED" THEN {} ELSE {o}
           goes == channel \in {"WHATSAPP", "EMAIL"}
           seen == Seeing(Buyer[o])
<1>1. /\ run.sending = {} /\ NextUp(o) /\ due > 0 /\ UNCHANGED <<hour, order, talk, settled, deaths>>
      /\ run' = [run EXCEPT !.todo = @ \ {o}, !.known = seen, !.sending = out]
      /\ told' = IF goes THEN [told EXCEPT ![o] = list] ELSE told
  BY DEF Remind
<1>2. /\ o \in run.todo /\ run # NoRun /\ run.at = hour /\ hour \in Nat /\ run.rows[o] \in OrderRow
      /\ run.rows[o].reminders_sent = order[o].reminders_sent
      /\ run.rows[o].last_reminder_at = order[o].last_reminder_at
      /\ Buyer[o] \in Buyers /\ DOMAIN run = RunFields
  BY <1>1, NextUpIsHeld DEF RemInv, RunHolds
<1>3. /\ due \in {1, 2} /\ due = order[o].reminders_sent + 1
      /\ order[o].reminders_sent = 1 /\ order[o].last_reminder_at # NotYet => hour - order[o].last_reminder_at >= MinGap
  BY <1>1, <1>2, DueStepIsNext
<1>4. mail \in ToldAt /\ mail.step = due /\ mail.at = hour BY <1>2, <1>3 DEF ToldAt
<1>5. DOMAIN seen \subseteq Buyers BY <1>2, SeeingIsOfBuyers
<1>6. /\ order \in [Orders -> OrderRow] /\ told \in [Orders -> Seq(ToldAt)] /\ deaths \in Nat /\ MinGap \in Int
      /\ settled \in [Orders -> Int]
  BY ReminderAssumption DEF RemInv, Rows
<1>7. order[o].reminders_sent \in 0..2 /\ order[o].last_reminder_at \in Int BY <1>6 DEF OrderRow
<1>8. /\ list \in Seq(ToldAt) /\ Len(list) = Len(told[o]) + 1 /\ list[Len(told[o]) + 1] = mail
      /\ DOMAIN list = 1..(Len(told[o]) + 1)
      /\ DOMAIN told[o] = 1..Len(told[o]) /\ Len(told[o]) \in Nat
      /\ \A i \in DOMAIN told[o] : list[i] = told[o][i] /\ told[o][i] \in ToldAt
  <2>1. told[o] \in Seq(ToldAt) BY <1>6
  <2> HIDE DEF mail
  <2> QED BY <1>4, <2>1
<1> HIDE DEF mail, list, seen, due
<1>9. /\ DOMAIN run' = RunFields /\ run'.at = run.at /\ run'.rows = run.rows /\ run'.todo = run.todo \ {o}
      /\ run'.sending = out /\ run'.known = seen
  BY <1>1, <1>2 DEF RunFields
<1>10. out \subseteq {o} /\ (goes => out = {o}) BY DEF Channels
<1> HIDE DEF out
<1>11. run' # NoRun BY <1>2, <1>9, EmptyRun DEF NotYet
<1>12. Rows'
  <2>1. told' \in [Orders -> Seq(ToldAt)] BY <1>1, <1>6, <1>8
  <2> QED BY <1>1, <2>1 DEF RemInv, Rows
<1>13. RunHolds'
  <2>1. DueStep(run'.rows[o], run'.at) > 0 BY <1>1, <1>9 DEF due
  <2>2. run'.todo \cup run'.sending \subseteq run.todo BY <1>2, <1>9, <1>10
  <2>3. \A p \in run.todo :
           /\ p \in Orders
           /\ run.rows[p] \in OrderRow /\ run.rows[p].status = "PENDING"
           /\ run.rows[p].reminders_sent = order[p].reminders_sent
           /\ run.rows[p].last_reminder_at = order[p].last_reminder_at
    BY DEF RemInv, RunHolds
  <2>4. run'.todo \cap run'.sending = {} BY <1>9, <1>10
  <2>5. \A p \in run'.sending : DueStep(run'.rows[p], run'.at) > 0 BY <2>1, <1>9, <1>10
  <2>6. run'.at \in Int /\ run'.at = hour' BY <1>1, <1>2, <1>9
  <2>7. run'.todo \subseteq Orders /\ run'.sending \subseteq Orders BY <2>2, <2>3
  <2>8. DOMAIN run'.known \subseteq Buyers BY <1>5, <1>9
  <2>10. \A p, q \in run'.sending : p = q BY <1>9, <1>10
  <2>9. order' = order /\ run'.rows = run.rows BY <1>1, <1>9
  <2> QED BY <1>9, <1>11, <2>2, <2>3, <2>4, <2>5, <2>6, <2>7, <2>8, <2>9, <2>10 DEF RunHolds
<1>14. ASSUME NEW p \in Orders, p # o PROVE Reckoned(p)' /\ Recorded(p)' /\ Closed(p)'
  <2>1. Reckoned(p) /\ Recorded(p) /\ Closed(p) BY DEF RemInv
  <2>2. told'[p] = told[p] BY <1>1, <1>6, <1>14
  <2>3. p \notin run.sending /\ p \notin run'.sending BY <1>1, <1>9, <1>10, <1>14
  <2>4. (p \in run'.todo => p \in run.todo) /\ run'.at = run.at BY <1>9
  <2> QED BY <1>1, <2>1, <2>2, <2>3, <2>4 DEF Reckoned, Recorded, Closed, Pending
<1>15. Reckoned(o)' /\ Recorded(o)' /\ Closed(o)'
  <2>1. Reckoned(o) /\ Recorded(o) /\ Closed(o) BY DEF RemInv
  <2>2. o \notin run.sending BY <1>1
  <2>3. settled[o] # NotYet => hour <= settled[o] BY <1>2, <2>1 DEF Closed
  <2>4. CASE ~goes
    <3>1. told'[o] = told[o] BY <1>1, <2>4
    <3>2. o \in run'.sending \/ o \notin run'.sending OBVIOUS
    <3>3. o \notin run'.todo BY <1>9
    <3>4. Reckoned(o)' BY <1>1, <1>6, <1>7, <1>8, <2>1, <2>2, <3>1 DEF Reckoned, Pending
    <3>5. \A i \in DOMAIN told[o] : told[o][i].step \in Int BY <1>8 DEF ToldAt
    <3>6. Recorded(o)' BY <1>1, <1>7, <2>1, <2>2, <3>1, <3>5 DEF Recorded, Pending
    <3>7. Closed(o)' BY <1>1, <2>1, <3>1, <3>3 DEF Closed
    <3> QED BY <3>4, <3>6, <3>7
  <2>5. CASE goes
    <3>1. told'[o] = list /\ o \in run'.sending /\ o \notin run'.todo BY <1>1, <1>6, <1>9, <1>10, <2>5
    <3>2. Len(told[o]) <= order[o].reminders_sent + deaths BY <2>1, <2>2, <1>6, <1>7 DEF Reckoned, Pending
    <3>3. \A i \in DOMAIN list : i \in DOMAIN told[o] \/ i = Len(told[o]) + 1 BY <1>8
    <3>4. \A i \in DOMAIN told[o] : told[o][i].at \in Int /\ told[o][i].step \in {1, 2} BY <1>8 DEF ToldAt
    <3>5. Reckoned(o)'
      <4>1. Len(list) <= order[o].reminders_sent + 1 + deaths BY <1>6, <1>7, <1>8, <3>2
      <4>2. \A i \in DOMAIN list : list[i].at <= hour BY <1>2, <1>4, <1>8, <2>1, <3>3 DEF Reckoned
      <4> QED BY <1>1, <3>1, <4>1, <4>2 DEF Reckoned, Pending
    <3>6. Recorded(o)'
      <4> SUFFICES ASSUME deaths = 0
                   PROVE  /\ \A i \in DOMAIN list : list[i].step <= order[o].reminders_sent + 1
                          /\ \A i, j \in DOMAIN list :
                                i < j => list[i].step < list[j].step /\ list[j].at >= list[i].at + MinGap
        BY <1>1, <3>1 DEF Recorded, Pending
      <4>1. /\ \A i \in DOMAIN told[o] : told[o][i].step <= order[o].reminders_sent
            /\ \A i \in DOMAIN told[o] :
                  order[o].last_reminder_at # NotYet /\ told[o][i].at <= order[o].last_reminder_at
            /\ \A i, j \in DOMAIN told[o] :
                  i < j => told[o][i].step < told[o][j].step /\ told[o][j].at >= told[o][i].at + MinGap
        BY <2>1, <2>2, <1>7 DEF Recorded, Pending
      <4>2. ASSUME NEW i \in DOMAIN list PROVE list[i].step <= order[o].reminders_sent + 1
        <5>1. CASE i \in DOMAIN told[o]
          <6>1. list[i] = told[o][i] /\ told[o][i].step <= order[o].reminders_sent BY <1>8, <4>1, <5>1
          <6>2. told[o][i].step \in {1, 2} BY <3>4, <5>1
          <6> QED BY <1>7, <6>1, <6>2
        <5>2. CASE i = Len(told[o]) + 1 BY <1>3, <1>4, <1>7, <1>8, <5>2
        <5> QED BY <3>3, <5>1, <5>2
      <4>3. ASSUME NEW i \in DOMAIN list, NEW j \in DOMAIN list, i < j
            PROVE  list[i].step < list[j].step /\ list[j].at >= list[i].at + MinGap
        <5>1. i \in DOMAIN told[o] BY <1>8, <3>3, <4>3
        <5>2. CASE j \in DOMAIN told[o] BY <1>8, <4>1, <4>3, <5>1, <5>2
        <5>3. CASE j = Len(told[o]) + 1
          <6>1. list[j].step = order[o].reminders_sent + 1 /\ list[j].at = hour BY <1>3, <1>4, <1>8, <5>3
          <6>2. list[i] = told[o][i] /\ told[o][i].step \in {1, 2} /\ told[o][i].at \in Int BY <1>8, <3>4, <5>1
          <6>3. told[o][i].step <= order[o].reminders_sent BY <4>1, <5>1
          <6>4. order[o].reminders_sent = 1 BY <1>3, <1>7, <6>2, <6>3
          <6>5. order[o].last_reminder_at # NotYet /\ told[o][i].at <= order[o].last_reminder_at BY <4>1, <5>1
          <6>6. hour - order[o].last_reminder_at >= MinGap BY <1>3, <6>4, <6>5
          <6>7. hour >= told[o][i].at + MinGap BY <1>2, <1>6, <1>7, <6>2, <6>5, <6>6
          <6> QED BY <1>7, <6>1, <6>2, <6>3, <6>7
        <5> QED BY <3>3, <5>2, <5>3
      <4> QED BY <4>2, <4>3
    <3>7. Closed(o)'
      <4>1. settled[o] # NotYet => \A i \in DOMAIN list : list[i].at <= settled[o]
        BY <1>4, <1>8, <2>1, <2>3, <3>3 DEF Closed
      <4> QED BY <1>1, <2>1, <3>1, <4>1 DEF Closed
    <3> QED BY <3>5, <3>6, <3>7
  <2> QED BY <2>4, <2>5
<1> QED BY <1>12, <1>13, <1>14, <1>15 DEF RemInv

\* The record catches up with what left.
LEMMA RecordKeeps ==
    ASSUME RemInv, NEW o \in Orders, RecordReminder(o)
    PROVE  RemInv'
<1> DEFINE due == DueStep(run.rows[o], run.at)
           row == [order[o] EXCEPT !.reminders_sent = due, !.last_reminder_at = run.at]
<1>1. /\ o \in run.sending /\ UNCHANGED <<hour, talk, told, settled, deaths>>
      /\ order' = [order EXCEPT ![o].reminders_sent = due, ![o].last_reminder_at = run.at]
      /\ run' = [run EXCEPT !.sending = {}]
  BY DEF RecordReminder
<1>2. /\ run # NoRun /\ run.at = hour /\ order[o] \in OrderRow /\ DOMAIN run = RunFields
      /\ due = order[o].reminders_sent + 1 /\ due \in {1, 2}
  BY <1>1, SendingIsDue DEF RemInv, RunHolds
<1>3. hour \in Nat /\ order \in [Orders -> OrderRow] /\ told \in [Orders -> Seq(ToldAt)] /\ deaths \in Nat
  BY ReminderAssumption DEF RemInv, Rows
<1> HIDE DEF due
<1>4. order' = [order EXCEPT ![o] = row] BY <1>1, <1>3
<1>5. /\ row \in OrderRow /\ row.status = order[o].status /\ row.reminders_sent = due /\ row.last_reminder_at = hour
  <2>1. run.at \in Int /\ due \in 0..2 BY <1>2, <1>3
  <2>2. row \in OrderRow BY <1>2, <2>1 DEF OrderRow
  <2>3. row.status = order[o].status /\ row.reminders_sent = due /\ row.last_reminder_at = run.at
    BY <1>2 DEF OrderRow
  <2> QED BY <1>2, <2>2, <2>3
<1> HIDE DEF row
<1>6. /\ order' \in [Orders -> OrderRow] /\ order'[o] = row /\ \A p \in Orders : p # o => order'[p] = order[p]
  BY <1>3, <1>4, <1>5
<1>7. /\ DOMAIN run' = RunFields /\ run'.at = run.at /\ run'.rows = run.rows /\ run'.todo = run.todo
      /\ run'.sending = {} /\ run'.known = run.known
  BY <1>1, <1>2 DEF RunFields
<1>8. run' # NoRun BY <1>2, <1>3, <1>7, EmptyRun DEF NotYet
<1>9. o \notin run.todo BY <1>1 DEF RemInv, RunHolds
<1>10. Rows' BY <1>1, <1>6 DEF RemInv, Rows
<1>11. RunHolds'
  <2>1. \A p \in run.todo :
           /\ run.rows[p] \in OrderRow /\ run.rows[p].status = "PENDING"
           /\ run.rows[p].reminders_sent = order'[p].reminders_sent
           /\ run.rows[p].last_reminder_at = order'[p].last_reminder_at
    BY <1>6, <1>9 DEF RemInv, RunHolds
  <2> QED BY <1>1, <1>2, <1>3, <1>7, <1>8, <2>1 DEF RemInv, RunHolds
<1>12. ASSUME NEW p \in Orders PROVE Reckoned(p)' /\ Recorded(p)' /\ Closed(p)'
  <2>1. Reckoned(p) /\ Recorded(p) /\ Closed(p) BY DEF RemInv
  <2>2. told[p] \in Seq(ToldAt) /\ Len(told[p]) \in Nat BY <1>3
  <2>3. order[p].reminders_sent \in 0..2 BY <1>3 DEF OrderRow
  <2>4. CASE p = o
    <3>1. Pending(o) = 1 BY <1>1 DEF Pending
    <3>2. Pending(o)' = 0 BY <1>7 DEF Pending
    <3>3. order'[o].reminders_sent + 0 = order[o].reminders_sent + 1 BY <1>2, <1>5, <1>6, <2>3, <2>4
    <3>4. order'[o].last_reminder_at = hour /\ order'[o].last_reminder_at # NotYet BY <1>3, <1>5, <1>6 DEF NotYet
    <3>5. order'[o].status = order[o].status BY <1>5, <1>6
    <3>6. Reckoned(o)' BY <1>1, <2>1, <2>4, <3>1, <3>2, <3>3 DEF Reckoned
    <3>7. \A i \in DOMAIN told[o] : told[o][i].at <= hour BY <2>1, <2>4 DEF Reckoned
    <3>8. Recorded(o)' BY <1>1, <2>1, <2>4, <3>1, <3>2, <3>3, <3>4, <3>7 DEF Recorded
    <3>9. Closed(o)' BY <1>1, <1>7, <1>9, <2>1, <2>4, <3>5 DEF Closed
    <3> QED BY <2>4, <3>6, <3>8, <3>9
  <2>5. CASE p # o
    <3>1. order'[p] = order[p] BY <1>6, <2>5
    <3>3. p \notin run.sending
      <4>1. run.sending \subseteq {o} BY <1>1 DEF RemInv, RunHolds
      <4> QED BY <2>5, <4>1
    <3> QED BY <1>1, <1>7, <2>1, <3>1, <3>3 DEF Reckoned, Recorded, Closed, Pending
  <2> QED BY <2>4, <2>5
<1> QED BY <1>10, <1>11, <1>12 DEF RemInv

\* The run dies: what had left may leave again.
LEMMA BreakKeeps ==
    ASSUME RemInv, BreakReminders
    PROVE  RemInv'
<1>1. /\ run' = NoRun /\ deaths' = deaths + 1 /\ deaths < RemDeaths
      /\ UNCHANGED <<hour, order, talk, told, settled>>
  BY DEF BreakReminders
<1>2. deaths \in 0..RemDeaths /\ RemDeaths \in Nat /\ order \in [Orders -> OrderRow] /\ told \in [Orders -> Seq(ToldAt)]
  BY ReminderAssumption DEF RemInv, Rows
<1>3. deaths' \in 0..RemDeaths /\ deaths' # 0 BY <1>1, <1>2
<1>4. Rows' BY <1>1, <1>3 DEF RemInv, Rows
<1>5. RunHolds' BY <1>1, EmptyRun DEF RunHolds, NotYet
<1>6. ASSUME NEW o \in Orders PROVE Reckoned(o)' /\ Recorded(o)' /\ Closed(o)'
  <2>1. Reckoned(o) /\ Recorded(o) /\ Closed(o) BY DEF RemInv
  <2>2. Pending(o) \in {0, 1} /\ Pending(o)' = 0 BY <1>1, EmptyRun DEF Pending
  <2>3. order[o].reminders_sent \in 0..2 /\ Len(told[o]) \in Nat
    <3>1. order[o] \in OrderRow /\ told[o] \in Seq(ToldAt) BY <1>2
    <3> QED BY <3>1 DEF OrderRow
  <2>4. Len(told[o]) <= order[o].reminders_sent + 0 + (deaths + 1) BY <1>2, <2>1, <2>2, <2>3 DEF Reckoned
  <2>5. Reckoned(o)' BY <1>1, <2>1, <2>2, <2>4 DEF Reckoned
  <2>6. Recorded(o)' BY <1>3 DEF Recorded
  <2>7. Closed(o)' BY <1>1, <2>1, EmptyRun DEF Closed
  <2> QED BY <2>5, <2>6, <2>7
<1> QED BY <1>4, <1>5, <1>6 DEF RemInv

-----------------------------------------------------------------------------
(* OrderReminders: the shop and its customers.                             *)

\* A row changes outside the run: its status and the time of the order do,
\* the reminders recorded do not.
LEMMA ShopKeeps ==
    ASSUME RemInv, NEW o \in Orders, PlaceOrder(o) \/ SettleOrder(o)
    PROVE  RemInv'
<1>1. /\ UNCHANGED <<hour, talk, run, told, deaths>>
      /\ \/ /\ order[o].status = "NONE" /\ order' = [order EXCEPT ![o].status = "PENDING", ![o].at = hour]
            /\ settled' = settled
         \/ /\ order[o].status = "PENDING" /\ order' = [order EXCEPT ![o].status = "SETTLED"]
            /\ settled' = [settled EXCEPT ![o] = hour]
  BY DEF PlaceOrder, SettleOrder
<1>2. /\ hour \in Nat /\ order \in [Orders -> OrderRow] /\ settled \in [Orders -> Int] /\ order[o] \in OrderRow
  BY DEF RemInv, Rows
<1>3. /\ order' \in [Orders -> OrderRow] /\ settled' \in [Orders -> Int]
      /\ \A p \in Orders :
            /\ order'[p].reminders_sent = order[p].reminders_sent
            /\ order'[p].last_reminder_at = order[p].last_reminder_at
            /\ p # o => order'[p] = order[p] /\ settled'[p] = settled[p]
  BY <1>1, <1>2 DEF OrderRow
<1>4. \/ order'[o].status = "PENDING" /\ settled'[o] = settled[o] /\ order[o].status = "NONE"
      \/ order'[o].status = "SETTLED" /\ settled'[o] = hour
  BY <1>1, <1>2 DEF OrderRow
<1>5. Rows' BY <1>1, <1>3 DEF RemInv, Rows
<1>6. RunHolds'
  <2>1. run.todo \cup run.sending \subseteq Orders BY DEF RemInv, RunHolds
  <2> QED BY <1>1, <1>3, <2>1 DEF RemInv, RunHolds
<1>7. ASSUME NEW p \in Orders PROVE Reckoned(p)' /\ Recorded(p)' /\ Closed(p)'
  <2>1. Reckoned(p) /\ Recorded(p) /\ Closed(p) BY DEF RemInv
  <2>2. Pending(p)' = Pending(p) BY <1>1 DEF Pending
  <2>3. Reckoned(p)' BY <1>1, <1>3, <2>1, <2>2 DEF Reckoned
  <2>4. Recorded(p)' BY <1>1, <1>3, <2>1, <2>2 DEF Recorded
  <2>5. Closed(p)'
    <3>1. CASE p # o BY <1>1, <1>3, <2>1, <3>1 DEF Closed
    <3>2. CASE p = o
      <4>1. settled[o] = NotYet \/ order[o].status = "SETTLED" BY <2>1, <3>2 DEF Closed
      <4>2. \A i \in DOMAIN told[o] : told[o][i].at <= hour BY <2>1, <3>2 DEF Reckoned
      <4>3. o \in run.todo => run.at = hour BY DEF RemInv, RunHolds
      <4> QED BY <1>1, <1>2, <1>4, <2>1, <3>2, <4>1, <4>2, <4>3 DEF Closed
    <3> QED BY <3>1, <3>2
  <2> QED BY <2>3, <2>4, <2>5
<1> QED BY <1>5, <1>6, <1>7 DEF RemInv

LEMMA TalkKeeps ==
    ASSUME RemInv, NEW c \in Buyers, CustomerSpeaks(c) \/ HandsChange(c)
    PROVE  RemInv'
<1>1. UNCHANGED <<hour, order, run, told, settled, deaths>> BY DEF CustomerSpeaks, HandsChange
<1>2. talk' \in [Buyers -> Talk]
  <2>1. hour \in Int /\ talk \in [Buyers -> Talk] BY DEF RemInv, Rows
  <2>2. talk' = [talk EXCEPT ![c].wrote = hour] \/ talk' = [talk EXCEPT ![c].human = ~@]
    BY DEF CustomerSpeaks, HandsChange
  <2> QED BY <2>1, <2>2 DEF Talk
<1>3. Rows' BY <1>1, <1>2 DEF RemInv, Rows
<1>4. RunHolds' BY <1>1 DEF RemInv, RunHolds
<1> QED BY <1>1, <1>3, <1>4 DEF RemInv, Reckoned, Recorded, Closed, Pending

LEMMA HoursKeep ==
    ASSUME RemInv, HoursPass
    PROVE  RemInv'
<1>1. /\ run = NoRun /\ hour' = hour + 1 /\ UNCHANGED <<order, talk, run, told, settled, deaths>>
  BY DEF HoursPass
<1>2. hour \in Nat /\ hour' \in Nat /\ told \in [Orders -> Seq(ToldAt)] BY <1>1 DEF RemInv, Rows
<1>3. Rows' BY <1>1, <1>2 DEF RemInv, Rows
<1>4. RunHolds' BY <1>1, EmptyRun DEF RemInv, RunHolds
<1>5. ASSUME NEW o \in Orders PROVE Reckoned(o)' /\ Recorded(o)' /\ Closed(o)'
  <2>1. Reckoned(o) /\ Recorded(o) /\ Closed(o) BY DEF RemInv
  <2>2. \A i \in DOMAIN told[o] : told[o][i].at <= hour'
    <3> SUFFICES ASSUME NEW i \in DOMAIN told[o] PROVE told[o][i].at <= hour' OBVIOUS
    <3>1. told[o] \in Seq(ToldAt) /\ told[o][i].at <= hour BY <1>2, <2>1 DEF Reckoned
    <3>2. told[o][i].at \in Int
      <4>1. told[o][i] \in ToldAt BY <3>1
      <4> QED BY <4>1 DEF ToldAt
    <3> QED BY <1>1, <1>2, <3>1, <3>2
  <2> QED BY <1>1, <2>1, <2>2 DEF Reckoned, Recorded, Closed, Pending
<1> QED BY <1>3, <1>4, <1>5 DEF RemInv

-----------------------------------------------------------------------------
(* OrderReminders: the theorems.                                           *)

LEMMA RemStarts == RemInit => RemInv
<1> SUFFICES ASSUME RemInit PROVE RemInv OBVIOUS
<1>1. Rows BY ReminderAssumption DEF RemInit, Rows, OrderRow, Talk, NotYet
<1>2. RunHolds BY EmptyRun DEF RemInit, RunHolds, NotYet
<1>3. ASSUME NEW o \in Orders PROVE Reckoned(o) /\ Recorded(o) /\ Closed(o)
  BY EmptyRun DEF RemInit, Reckoned, Recorded, Closed, Pending
<1> QED BY <1>1, <1>2, <1>3 DEF RemInv

LEMMA RemStepKeeps ==
    ASSUME RemInv, [RemNext]_remVars
    PROVE  RemInv'
<1>1. CASE UNCHANGED remVars
  BY <1>1 DEF remVars, RemInv, Rows, RunHolds, Reckoned, Recorded, Closed, Pending
<1>2. CASE RemNext
  BY <1>2, StartKeeps, EndKeeps, SkipKeeps, RecordKeeps, RemindKeeps, BreakKeeps, HoursKeep, ShopKeeps, TalkKeeps
  DEF RemNext, RemWorks
<1> QED BY <1>1, <1>2

\* The rows, the conversations and the run keep their types, for every shop.
THEOREM RemTypeCorrect == RemSpec => []RemTypeOK
<1>1. RemInv => RemTypeOK BY DEF RemInv, Rows, RunHolds, RemTypeOK
<1> QED BY <1>1, RemStarts, RemStepKeeps, PTL DEF RemSpec

\* An unpaid order is reminded of twice at most, the second time after the
\* first and the gap later, and never once it is paid or cancelled: for every
\* shop, whatever its customers do while a run works on the rows it listed,
\* one reminder more for each run that dies.
THEOREM RemindersHold == RemSpec => []RemindersRight
<1>1. RemInv => RemindersRight
  <2> SUFFICES ASSUME RemInv, NEW o \in Orders
               PROVE  /\ Len(told[o]) <= 2 + deaths
                      /\ deaths = 0 => \A i, j \in DOMAIN told[o] :
                           i < j => told[o][i].step < told[o][j].step /\ told[o][j].at >= told[o][i].at + MinGap
                      /\ settled[o] # NotYet => \A i \in DOMAIN told[o] : told[o][i].at <= settled[o]
    BY DEF RemindersRight, RemindersSpaced, NoReminderOnceSettled
  <2>1. Reckoned(o) /\ Recorded(o) /\ Closed(o) BY DEF RemInv
  <2>2. order[o] \in OrderRow /\ told[o] \in Seq(ToldAt) /\ deaths \in Nat
    BY ReminderAssumption DEF RemInv, Rows
  <2>3. order[o].reminders_sent + Pending(o) \in 0..2
    <3>1. CASE o \in run.sending BY <3>1, SendingIsDue, <2>2 DEF Pending, OrderRow
    <3>2. CASE o \notin run.sending BY <3>2, <2>2 DEF Pending, OrderRow
    <3> QED BY <3>1, <3>2
  <2>4. Len(told[o]) \in Nat BY <2>2
  <2> HIDE DEF Pending
  <2>5. Len(told[o]) <= 2 + deaths BY <2>1, <2>2, <2>3, <2>4 DEF Reckoned
  <2> QED BY <2>1, <2>5 DEF Recorded, Closed
<1> QED BY <1>1, RemStarts, RemStepKeeps, PTL DEF RemSpec
=============================================================================
