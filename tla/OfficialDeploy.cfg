CONSTANTS
  r1 = r1
  r2 = r2
  r3 = r3
  c1 = c1
  c2 = c2
  main = main
  other = other
  f1 = f1
  f2 = f2
  f3 = f3
  None = None
  Runs = {r1, r2, r3}
  Commits = {c1, c2}
  Branches = {main, other}
  Files = {f1, f2, f3}
  DefaultFile = f1
  MaxPolls = 2
  OneAtATime = TRUE
  CleanBuild = TRUE
  FreshFiles = TRUE
  ActivateChoices = {TRUE}
  RollbackChoices = {TRUE, FALSE}
  ActivatedRollbacks = TRUE
SPECIFICATION Spec
INVARIANTS
  TypeOK
  RollsBackToProvenBundle
  PicksNewestProven
  EvidenceDescribesAccount
PROPERTIES
  ImplementsSafeRollout
  EveryStepAdvances
SYMMETRY MCFreshSymmetry
