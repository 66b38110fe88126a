-------------------------- MODULE MCAlertSupervisor --------------------------
EXTENDS AlertSupervisor, TLC

MCSymmetry == Permutations(Runs)
=============================================================================
