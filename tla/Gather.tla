------------------------------- MODULE Gather -------------------------------
(***************************************************************************)
(* What the fan-out of ProcessCampaign promises, without goroutines, a     *)
(* channel or a WaitGroup: the answer of every requested provider is taken *)
(* exactly once, in any order, and the leads are deduplicated after that.  *)
(***************************************************************************)
EXTENDS LeadDedup

CONSTANTS
  Requested,  \* the provider ids of the job, in order; one may occur twice
  Answers     \* Answers[p]: the lead lists that a search of p may contribute

Slots == 1..Len(Requested)

VARIABLES
  pending,  \* the slots whose answer has not been taken
  all,      \* the leads taken so far
  unique    \* None, then the leads that are left of them

gatherVars == <<pending, all, unique>>

GatherInit == pending = Slots /\ all = <<>> /\ unique = None

\* A provider that errs, is unknown, or has no key contributes nothing.
Take(i) ==
  /\ i \in pending
  /\ pending' = pending \ {i}
  /\ \E leads \in Answers[Requested[i]] \cup {<<>>} : all' = all \o leads
  /\ UNCHANGED unique

Finish ==
  /\ pending = {} /\ unique = None
  /\ unique' = dedup(all)
  /\ UNCHANGED <<pending, all>>

GatherNext == (\E i \in Slots : Take(i)) \/ Finish

GatherSpec == GatherInit /\ [][GatherNext]_gatherVars /\ WF_gatherVars(GatherNext)
=============================================================================
