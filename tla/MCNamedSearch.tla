--------------------------- MODULE MCNamedSearch ----------------------------
(* Instances of NamedSearch for TLC: names of which two differ in case only. *)
EXTENDS NamedSearch

CONSTANTS a, A, b, c

MCLower == [n \in Names |-> IF n = A THEN a ELSE n]
MCLimits == {-1, 1, 2}
=============================================================================
