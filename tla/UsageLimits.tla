---------------------------- MODULE UsageLimits -----------------------------
(***************************************************************************)
(* What a shop may use.  A paid plan has a number of conversations a month:*)
(* an hourly task warns the shop at 80 % and at 100 %; beyond, Bob goes on *)
(* or waits for the next month, as the administrators chose.  A customer   *)
(* who writes too much in an hour is told so once.  The cost of the AI of  *)
(* a month is told to the administrators once.                             *)
(*                                                                         *)
(* One shop, one of its customers.  Levels are 0, 80 and 100.              *)
(***************************************************************************)
EXTENDS Integers, Sequences, FiniteSets

CONSTANTS
    PlanCount, PlanQuota,   \* the paid plans, 1..PlanCount, by size; their conversations a month, 0 for no limit
    FreeQuota,              \* those of the free plan, which is 0
    BudgetAt,               \* conversations whose cost is over the budget of a month
    PerHour, HourLength,    \* messages of a customer that are answered in an hour; its length
    Checks,                 \* the hourly runs that may be under way together
    UsageHorizon, MonthLength, UsedMax, SaidMax, UsageDeaths, PlanChanges   \* bounds, and the length of a month

ASSUME UsageAssumption ==
    /\ PlanCount \in Nat \ {0} /\ PlanQuota \in [1..PlanCount -> Nat]
    /\ {FreeQuota, BudgetAt, HourLength, UsageHorizon, UsedMax, SaidMax, UsageDeaths, PlanChanges} \subseteq Nat
    /\ {PerHour, MonthLength} \subseteq Nat \ {0}

VARIABLES
    plan, pauses,       \* the plan; beyond its limit Bob waits (mode PAUSE)
    usageClock,
    used,               \* conversations begun this month
    alertMonth, alertLevel,   \* the last alert recorded
    check,              \* each run of the task
    overBudget,         \* the months reserved for an alert of budget
    said, noticed,      \* the times of the customer's messages, and of the notices he got
    answered,           \* history: the times of the answers the AI wrote for him
    warnings,           \* history: the warnings sent
    budgetMails,        \* history: the months told to the administrators
    together,           \* history: two runs, or two answers, were under way at once
    died, planMoves,
    turn                \* the webhooks that have stored a message and not yet answered

usageVars ==
    <<plan, pauses, usageClock, used, alertMonth, alertLevel, check, overBudget, said, noticed, answered,
      warnings, budgetMails, together, died, planMoves, turn>>

NoCheck == [at |-> "idle"]
ThisMonth == usageClock \div MonthLength
LimitOf(p) == IF p = 0 THEN FreeQuota ELSE PlanQuota[p]

UsageInit ==
    /\ plan \in 0..PlanCount /\ pauses \in BOOLEAN
    /\ usageClock = 0 /\ used = 0 /\ alertMonth = -1 /\ alertLevel = 0
    /\ check = [r \in Checks |-> NoCheck] /\ overBudget = {}
    /\ said = <<>> /\ noticed = <<>> /\ answered = <<>> /\ warnings = <<>> /\ budgetMails = <<>>
    /\ together = FALSE /\ died = 0 /\ planMoves = 0 /\ turn = 0

theShop == <<plan, pauses, used, planMoves>>
thePeople == <<said, noticed, answered, turn>>
theAlerts == <<alertMonth, alertLevel, warnings>>
theBudget == <<overBudget, budgetMails>>

-----------------------------------------------------------------------------
(* The levels.                                                             *)

LevelOf(n, limit) ==
    IF limit = 0 THEN 0 ELSE IF n * 100 >= 100 * limit THEN 100 ELSE IF n * 100 >= 80 * limit THEN 80 ELSE 0

\* The first plan above whose limit covers what is used, none at the top.
Suggested(p, n) ==
    LET fits == {q \in (p + 1)..PlanCount : PlanQuota[q] = 0 \/ PlanQuota[q] >= n}
    IN IF p = 0 \/ fits = {} THEN 0 ELSE CHOOSE q \in fits : \A r \in fits : q <= r

\* The free plan always waits beyond its limit, a paid one if so chosen.
QuotaExceeded == LimitOf(plan) > 0 /\ used > LimitOf(plan) /\ (plan = 0 \/ pauses)

-----------------------------------------------------------------------------
(* The hourly run.                                                         *)

\* The shop is loaded once, with the alert it remembers.
StartCheck(r) ==
    /\ check[r] = NoCheck
    /\ check' = [check EXCEPT ![r] =
          [at |-> "loaded", plan |-> plan, pauses |-> pauses, month |-> ThisMonth,
           already |-> IF alertMonth = ThisMonth THEN alertLevel ELSE 0]]
    /\ together' = (together \/ \E s \in Checks \ {r} : check[s].at = "loaded" \/ check[s].at = "sent")
    /\ UNCHANGED <<usageClock, theShop, theAlerts, theBudget, thePeople, died>>

\* Faulty variant: at each run above the threshold.
WarningDueAgain(c) == LevelOf(used, LimitOf(c.plan)) > 0 /\ c.plan > 0

\* The conversations are counted when its turn comes.
WarningDue(c) == LevelOf(used, LimitOf(c.plan)) > c.already /\ c.plan > 0

WarnShop(r) ==
    /\ check[r].at = "loaded"
    /\ IF WarningDue(check[r])
       THEN \E accepted \in BOOLEAN :     \* the mail server takes it, or not
              LET level == LevelOf(used, LimitOf(check[r].plan)) IN
              /\ warnings' = IF accepted
                             THEN Append(warnings, [month |-> check[r].month, level |-> level, plan |-> check[r].plan,
                                                    waits |-> check[r].pauses /\ used > LimitOf(check[r].plan),
                                                    advice |-> Suggested(check[r].plan, used)])
                             ELSE warnings
              /\ check' = [check EXCEPT ![r] =
                    IF accepted THEN [at |-> "sent", month |-> check[r].month, level |-> level] ELSE NoCheck]
       ELSE check' = [check EXCEPT ![r] = NoCheck] /\ UNCHANGED warnings
    /\ UNCHANGED <<usageClock, theShop, alertMonth, alertLevel, theBudget, thePeople, together, died>>

RecordWarning(r) ==
    /\ check[r].at = "sent"
    /\ alertMonth' = check[r].month /\ alertLevel' = check[r].level
    /\ check' = [check EXCEPT ![r] = NoCheck]
    /\ UNCHANGED <<usageClock, theShop, warnings, theBudget, thePeople, together, died>>

BreakCheck(r) ==
    /\ check[r] # NoCheck /\ died < UsageDeaths
    /\ died' = died + 1 /\ check' = [check EXCEPT ![r] = NoCheck]
    /\ UNCHANGED <<usageClock, theShop, theAlerts, theBudget, thePeople, together>>

-----------------------------------------------------------------------------
(* The budget: the month is reserved and committed before the email.       *)

ReserveMonth(r) ==
    /\ check[r] = NoCheck /\ used > BudgetAt /\ ThisMonth \notin overBudget
    /\ overBudget' = overBudget \cup {ThisMonth}
    /\ check' = [check EXCEPT ![r] = [at |-> "reserved", month |-> ThisMonth]]
    /\ UNCHANGED <<usageClock, theShop, theAlerts, budgetMails, thePeople, together, died>>

TellBudget(r) ==
    /\ check[r].at = "reserved"
    /\ budgetMails' = Append(budgetMails, check[r].month)
    /\ check' = [check EXCEPT ![r] = NoCheck]
    /\ UNCHANGED <<usageClock, theShop, theAlerts, overBudget, thePeople, together, died>>

-----------------------------------------------------------------------------
(* A customer's message: stored and committed, then weighed.               *)

Within(times) == Cardinality({i \in DOMAIN times : times[i] >= usageClock - HourLength})

StoreMessage ==
    /\ Len(said) < SaidMax
    /\ said' = Append(said, usageClock) /\ turn' = turn + 1
    /\ together' = (together \/ turn > 0)
    /\ UNCHANGED <<plan, pauses, used, planMoves, usageClock, theAlerts, theBudget, noticed, answered, check, died>>

CustomerRate == IF Within(said) <= PerHour THEN "OK" ELSE IF Within(noticed) > 0 THEN "SILENT" ELSE "NOTIFY"

\* Silence; the notice; the message of a plan at its limit; an answer.
AnswerMessage ==
    /\ turn > 0 /\ turn' = turn - 1
    /\ noticed' = IF CustomerRate = "NOTIFY" THEN Append(noticed, usageClock) ELSE noticed
    /\ answered' = IF CustomerRate = "OK" /\ ~QuotaExceeded THEN Append(answered, usageClock) ELSE answered
    /\ UNCHANGED <<usageClock, theShop, theAlerts, theBudget, said, check, together, died>>

-----------------------------------------------------------------------------
(* The shop, the administrators and the clock.                             *)

BeginConversation ==
    /\ used < UsedMax /\ used' = used + 1
    /\ UNCHANGED <<plan, pauses, planMoves, usageClock, theAlerts, theBudget, thePeople, check, together, died>>

ChangePlan ==
    /\ planMoves < PlanChanges /\ planMoves' = planMoves + 1
    /\ \/ plan' \in (0..PlanCount) \ {plan} /\ UNCHANGED pauses
       \/ pauses' = ~pauses /\ UNCHANGED plan
    /\ UNCHANGED <<used, usageClock, theAlerts, theBudget, thePeople, check, together, died>>

TimeGoesOn ==
    /\ usageClock < UsageHorizon /\ turn = 0     \* a message is weighed within the hour
    /\ usageClock' = usageClock + 1
    /\ used' = IF (usageClock + 1) \div MonthLength = ThisMonth THEN used ELSE 0
    /\ UNCHANGED <<plan, pauses, planMoves, theAlerts, theBudget, thePeople, check, together, died>>

UsageNext ==
    \/ \E r \in Checks : \/ StartCheck(r) \/ WarnShop(r) \/ RecordWarning(r) \/ BreakCheck(r)
                         \/ ReserveMonth(r) \/ TellBudget(r)
    \/ StoreMessage \/ AnswerMessage \/ BeginConversation \/ ChangePlan \/ TimeGoesOn

UsageSpec == UsageInit /\ [][UsageNext]_usageVars

-----------------------------------------------------------------------------
(* Properties.                                                             *)

UsageTypeOK ==
    /\ plan \in 0..PlanCount /\ pauses \in BOOLEAN /\ usageClock \in 0..UsageHorizon /\ used \in 0..UsedMax
    /\ alertMonth \in Int /\ alertLevel \in {0, 80, 100}
    /\ \A r \in Checks : check[r].at \in {"idle", "loaded", "sent", "reserved"}
    /\ turn \in 0..SaidMax /\ died \in 0..UsageDeaths /\ planMoves \in 0..PlanChanges

\* "un email par seuil (80 %, puis 100 %) et par mois, jamais deux fois":
\* whatever happens to the plan, and unless a run died between the email and
\* its record or two overlapped, the warnings of a month only rise.
WarningsRise ==
    died > 0 \/ together \/
    \A i, j \in DOMAIN warnings :
        i < j /\ warnings[i].month = warnings[j].month => warnings[i].level < warnings[j].level

\* "jamais deux fois": here the month is reserved first, so that not even
\* runs that overlap or die tell a budget twice.
BudgetToldOnce == \A i, j \in DOMAIN budgetMails : budgetMails[i] = budgetMails[j] => i = j

\* In no hour does the AI answer a customer more than PerHour times, however
\* many of his messages are weighed at once: each counts all those stored.
AnswersBounded ==
    \A i \in DOMAIN answered :
        Cardinality({j \in DOMAIN answered : answered[j] \in (answered[i] - HourLength)..answered[i]}) <= PerHour

\* A customer is told once in an hour that he writes too much, unless two of
\* his messages were weighed at once.
NoticesApart ==
    together \/ \A i, j \in DOMAIN noticed : i < j => noticed[j] - noticed[i] > HourLength

QuotasRight == WarningsRise /\ BudgetToldOnce /\ AnswersBounded /\ NoticesApart
=============================================================================
