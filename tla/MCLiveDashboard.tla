------------------------- MODULE MCLiveDashboard -------------------------
(* Instances of LiveDashboard for TLC *)
EXTENDS LiveDashboard, TLC

RequestSymmetry == Permutations(Requests)
=============================================================================
