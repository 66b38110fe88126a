-------------------------- MODULE MCTrainingRunner --------------------------
EXTENDS TrainingRunner, TLC

CONSTANTS r1, r2, r3

MCReportId == [r \in {r1, r2, r3} |-> IF r = r1 THEN "a" ELSE "b"]

(* Of the two trainings that are given the same id, either may be first.   *)
MCSymmetry == Permutations({r2, r3})
=============================================================================
