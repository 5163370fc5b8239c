---------------------------- MODULE MCLeadQuery -----------------------------
(* Instances of LeadQuery for TLC: three leads of one campaign, of which two *)
(* have the same score and are interchangeable.                              *)
EXTENDS LeadQuery

CONSTANTS c1, l1, l2, l3

MCCampaignOf == [l \in Leads |-> c1]
MCScore == [l \in Leads |-> IF l = l1 THEN 2 ELSE 1]
MCFilters == {Leads, {l1, l2}, {l1, l3}}
MCPageParams == {-1, 2}
Twins == Permutations({l2, l3})
=============================================================================
