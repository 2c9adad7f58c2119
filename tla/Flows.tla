-------------------------------- MODULE Flows --------------------------------
(***************************************************************************)
(* What customers and merchants do with buttons and messages, the desk of  *)
(* an insurer and the link with Naomy, side by side: they share no row.    *)
(***************************************************************************)
EXTENDS CartFlow, RestoFlow, NaomyBridge, AssistantOutbox, MerchantChat, InboundLeads, InsuranceDesk, GuidedFlows

FlowsTypeOK == CartTypeOK /\ RestoTypeOK /\ NaomyTypeOK /\ BoxTypeOK /\ ChatTypeOK /\ LeadsTypeOK /\ InsuranceTypeOK
               /\ BrowseTypeOK /\ TradeTypeOK /\ DeliveryTypeOK
=============================================================================
