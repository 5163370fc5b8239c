---------------------------- MODULE MCLeadImport ----------------------------
(* Instances of LeadImport for TLC: two leads of one campaign, imported one *)
(* by one, in a list, and twice in a list.                                  *)
EXTENDS LeadImport

CONSTANTS c1, l1, l2

MCCampaignOf == [l \in Leads |-> c1]
MCBodies == {<<l1>>, <<l1, l2>>, <<l1, l1>>}
=============================================================================
