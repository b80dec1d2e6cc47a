----------------------------- MODULE CampaignsMC -----------------------------
(***************************************************************************)
(* Instances of Campaigns for TLC.                                         *)
(***************************************************************************)
EXTENDS Campaigns, TLC

CONSTANTS c1, c2, w1, w2, call, r1

WorkerSymmetry == Permutations({w1, w2})
===============================================================================
