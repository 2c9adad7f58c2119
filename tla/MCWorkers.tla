------------------------------ MODULE MCWorkers -----------------------------
(***************************************************************************)
(* The tasks that beat starts and that write to customers, prospects,      *)
(* contacts, shops and administrators: one run, a scene for each, chosen   *)
(* at the start.  The scenes share nothing.  Where a process may die, or   *)
(* an address be erased, the scene has one order, prospect or error only.  *)
(***************************************************************************)
EXTENDS Workers, TLC

CONSTANTS o1, o2, p1, p2, b1, b2, e1, e2, customer

VARIABLE scene

Buyer_  == [o \in Orders |-> customer]
Budget_ == [c \in Contacts |-> 2]
Quotas_ == <<2, 4>>

Scenes == {"reminders", "reminders, one order", "mail", "mail, one prospect", "alerts", "billing", "contracts",
           "errors", "one error", "conversations", "messages"}

WorkersInit ==
    /\ scene \in Scenes
    /\ RemInit /\ MailInit /\ AlertInit /\ BillInit /\ PolicyInit /\ WatchInit /\ UsageInit
    /\ scene # "alerts" => ~pro /\ \A l \in Listings : \A x \in Prices : asking[l] <= x
    /\ scene \notin {"conversations", "messages"} => plan = 0 /\ ~pauses

OrderScene ==
    /\ scene \in {"reminders", "reminders, one order"} /\ RemNext
    /\ \/ scene = "reminders" /\ deaths' = 0 /\ hour' <= 1
       \/ scene = "reminders, one order" /\ order'[o2] = order[o2]
    /\ UNCHANGED <<mailVars, alertVars, billVars, policyVars, watchVars, usageVars>>

MailScene ==
    /\ scene \in {"mail", "mail, one prospect"} /\ MailNext
    /\ \/ scene = "mail" /\ killed' = 0 /\ erased' = 0 /\ prospect'[p2].status \in {"NONE", "ACTIVE"} /\ ~\E m \in inbox' : m.p = p2
       \/ scene = "mail, one prospect" /\ prospect'[p2] = prospect[p2]
    /\ UNCHANGED <<remVars, alertVars, billVars, policyVars, watchVars, usageVars>>

AlertScene ==
    /\ scene = "alerts" /\ AlertNext /\ asking'[b2] = asking[b2]
    /\ UNCHANGED <<remVars, mailVars, billVars, policyVars, watchVars, usageVars>>

BillingScene ==
    /\ scene = "billing" /\ BillNext
    /\ UNCHANGED <<remVars, mailVars, alertVars, policyVars, watchVars, usageVars>>

ContractScene ==
    /\ scene = "contracts" /\ PolicyNext
    /\ UNCHANGED <<remVars, mailVars, alertVars, billVars, watchVars, usageVars>>

ErrorScene ==
    /\ scene \in {"errors", "one error"} /\ WatchNext
    /\ \/ scene = "errors" /\ fell' = 0 /\ hands' = 0
       \/ scene = "one error" /\ issue'[e2] = issue[e2] /\ captured'[e2] = 0
    /\ UNCHANGED <<remVars, mailVars, alertVars, billVars, policyVars, usageVars>>

UsageScene ==
    /\ scene \in {"conversations", "messages"} /\ UsageNext
    /\ \/ scene = "conversations" /\ ~together' /\ <<said, noticed, answered, turn>>' = <<said, noticed, answered, turn>>
       \/ scene = "messages" /\ <<check, planMoves>>' = <<check, planMoves>>
    /\ UNCHANGED <<remVars, mailVars, alertVars, billVars, policyVars, watchVars>>

WorkersNext == (OrderScene \/ MailScene \/ AlertScene \/ BillingScene \/ ContractScene \/ ErrorScene \/ UsageScene) /\ UNCHANGED scene

WorkersSpec ==
    WorkersInit /\ [][WorkersNext]_<<scene, remVars, mailVars, alertVars, billVars, policyVars, watchVars, usageVars>>
=============================================================================
