CONSTANTS
  c1 = c1
  c2 = c2
  Controllers = {c1, c2}
  MaxPolls = 2
  MaxWorkers = 1
  MaxSignals = 2
SPECIFICATION FairSpec
INVARIANTS
  TypeOK
  LeakIsDeclared
  CompletedWorkerIsGone
PROPERTIES
  ImplementsPaidCapacity
  EveryRunEnds
  CapacityReturned
