SPECIFICATION FairSpec
CONSTANTS
  Refreshers = {startup, auto}
  Requests = {r1}
  MaxCycles = 2
  None = None
INVARIANTS ReadsAreExclusive FlagIsOwned
PROPERTY ProgressEnds
