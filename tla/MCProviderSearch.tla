-------------------------- MODULE MCProviderSearch --------------------------
(* Instances of ProviderSearch for TLC. The pages of the code hold 100, 50, *)
(* 25 or 20 items; three and two keep what matters, several pages and a     *)
(* last one that is cut.                                                    *)
EXTENDS ProviderSearch

MCPageSize ==
  [a \in Adapters |-> IF a \in {"yelp", "product_hunt", "crunchbase"} THEN 2 ELSE 3]
=============================================================================
