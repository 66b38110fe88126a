CONSTANTS
  Runs <- MCRuns
  RunId <- MCRunId
  Workers <- MCWorkers
  Variants <- MCVariants
  Base <- MCBase
  Override = {}
  WorkerToken <- MCWorkerToken
  ScaleMin = 2
  MaxRetries = 1
  Scans = 3
  MaxPair = 3
  MaxFaults = 2
SPECIFICATION FairSpec
CHECK_DEADLOCK FALSE
INVARIANTS
  TypeOK
  WorkersNeverShareAPort
  OkRowsAreReal
  NothingLeftUnexplained
PROPERTIES
  ServersAreUndisturbed
  RunsEnd
