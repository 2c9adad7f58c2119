SPECIFICATION FlowsSpec
CONSTANTS
  MaxQty = 2 MinOrder = 2 MaxPlaced = 2
  Communes = {a1} MealModes = {{"DELIVERY"}, {"PICKUP", "DINE_IN"}} MaxMeals = 2
  g1 = g1 Goods = {g1} Contents <- Contents_ Callers = {c1} Backoff <- Backoff_ PerPass = 1 MaxCodes = 1 MaxSaves = 3 PassDeaths = 0
  Sales = {o1} Cap = 2 Reserve = 1 Retries = 1 BoxMax = 3 BoxDeaths = 0
  Hands = {w1, w2} Beat = w1 MaxNotes = 2 HandDeaths = 1
  t1 = t1 Requests = {r1, r2} MaxEmails = 2 Readers = {t1, t2} People = {a1} MonthLimit = 1 HourLimit = 1 LeadDeaths = 1
  j1 = j1 Webhooks = {j1, j2} Advisers = {d1} Branches = {"AUTO"} MaxQuotes = 2 MaxFiled = 2 MaxHeard = 4 MaxDesk = 2
  MaxRows = 2 Page = 2 StockOf <- StockOf_
  Moments = {t1} Models = {"m", "n"} Lots = {"p"} MaxAsked = 2 MaxWords = 2 MaxQuestions = 2
  Sessions = {t1, t2} GuidedTurns <- GuidedTurns_ MaxTurns = 1 MaxReports = 2 SessionDeaths = 1
INVARIANTS FlowsTypeOK    LeadsRight  
PROPERTIES OrderedAsRecapped TableIsOfThisMeal EventsSettled
CHECK_DEADLOCK FALSE
