CONSTANTS
  construction = construction
  remote = remote
  constructionIncumbent = constructionIncumbent
  constructionShadow = constructionShadow
  remoteIncumbent = remoteIncumbent
  remoteShadow = remoteShadow
  tuned = tuned
  None = None
  Good = 2
  Worst = 0
  Families <- MCFamilies
  Entries <- MCEntries
  Order <- MCOrder
  FamilyOf <- MCFamilyOf
  DefaultStatus <- MCDefaultStatus
  RollbackTo <- MCRollbackTo
  Payloads <- MCAllPayloads
  Metrics <- MCMetrics
  Windows <- MCWindows
  DropThreshold <- MCThreshold
  MinWindow = 2
  MaxRecent = 3
  HistoryLimit = 2
  SummaryInterval = 2
  Disturbances = {"unmonitored", "event", "noColony", "reload"}
SPECIFICATION FairSpec
INVARIANTS
  TypeOK
  NothingStranded
  TargetIsIncumbent
PROPERTIES
  WithdrawnStaysWithdrawn
  BaselineIsFixed
  ImplementsConfirmedRollback
  EventfulRegressionIsRolledBack
