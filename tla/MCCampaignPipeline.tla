------------------------- MODULE MCCampaignPipeline -------------------------
(* Instances of CampaignPipeline for TLC.                                  *)
EXTENDS CampaignPipeline, TLC

\* Ids, requests and worker goroutines are interchangeable: sound for the
\* safety runs, and used by no run that checks a liveness property.
Symmetry == Permutations(Campaigns) \cup Permutations(Requests) \cup Permutations(Workers)
=============================================================================
