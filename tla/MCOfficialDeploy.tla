-------------------------- MODULE MCOfficialDeploy --------------------------
EXTENDS OfficialDeploy, TLC

CONSTANTS r1, r2, r3, c1, c2, main, other, f1, f2, f3

MCSymmetry ==
  Permutations(Commits) \cup Permutations(Runs) \cup Permutations(Branches)
    \cup Permutations(Files \ {DefaultFile})

\* With FreshFiles every run has a file, and DefaultFile is one like the others.
MCFreshSymmetry == MCSymmetry \cup Permutations(Files)
=============================================================================
