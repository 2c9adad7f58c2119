SPECIFICATION WorkersSpec
CONSTANTS
  o1 = o1 o2 = o2 customer = customer
  p1 = p1 p2 = p2 b1 = b1 b2 = b2 e1 = e1 e2 = e2
  Orders = {o1, o2}
  Buyer <- Buyer_
  FirstAfter = 0 FirstUntil = 2 SecondAfter = 1 SecondUntil = 3 MinGap = 1
  RemHorizon = 2 RemDeaths = 1
  Prospects = {p1, p2} Senders = {s1} Steps = 2 DailyLimit = 2 Day = 1 StepDelay = 1 FailuresBeforeInvalid = 1
  MailHorizon = 1 MailDeaths = 1 MailErasures = 1 InboxMax = 1
  Listings = {b1, b2} Contacts = {k1, k2} Prices = {1, 2} Runs = {m1}
  Budget <- Budget_
  MonthQuota = 1 WeeklyMax = 1 Week = 0 Month = 2 NewDays = 0 AlertHorizon = 1 AlertDeaths = 1
  DueDates = {2, 4} GraceDays = 1 WarningDays = 1 NearDays = 2 MonthDays = 2 ReportGap = 2 Together = 1
  Deeds = 2 LastDay = 5 BillingDeaths = 1
  Numbers = {n1} GivenEffects = {2} RowEffects = {2} AlertDays = 1 RemindDays = 0 LateDays = 0
  MaxPolicies = 2 RegisterDays = 1
  Errors = {e1, e2} Csp = {} EventMax = 2 QueueMax = 2 SpikeAt = 1 SpikeSpan = 0 Cooldown = 1 Realert = 1 Retention = 1
  WatchHorizon = 2 WatchDeaths = 1 HandsMax = 1
  Checks = {r1, r2} PlanCount = 2 PlanQuota <- Quotas_ FreeQuota = 1 BudgetAt = 2 PerHour = 1 HourLength = 0
  UsageHorizon = 1 MonthLength = 1 UsedMax = 3 SaidMax = 2 UsageDeaths = 1 PlanChanges = 1
INVARIANTS WorkersTypeOK RemindersRight ProspectsSpared     
CHECK_DEADLOCK FALSE
