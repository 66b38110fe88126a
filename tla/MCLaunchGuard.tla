--------------------------- MODULE MCLaunchGuard ---------------------------
EXTENDS LaunchGuard, TLC

MCSymmetry == Permutations(Runs)
=============================================================================
