------------------------------- MODULE Workers -------------------------------
(***************************************************************************)
(* The tasks that beat starts, side by side: each works on rows of its own. *)
(***************************************************************************)
EXTENDS OrderReminders, ProspectMailer, PropertyAlerts, BillingNotices, Contracts, Monitoring, UsageLimits

WorkersTypeOK == RemTypeOK /\ MailTypeOK /\ AlertTypeOK /\ BillTypeOK /\ PolicyTypeOK /\ WatchTypeOK /\ UsageTypeOK
=============================================================================
