CONSTANTS
  construction = construction
  remote = remote
  constructionIncumbent = constructionIncumbent
  constructionShadow = constructionShadow
  remoteIncumbent = remoteIncumbent
  remoteShadow = remoteShadow
  tuned = tuned
  None = None
  Good = 2
  Worst = 0
  Families <- MCOneFamily
  Entries <- MCTwoEntries
  Order <- MCShortOrder
  FamilyOf <- MCFamilyOf
  DefaultStatus <- MCDefaultStatus
  RollbackTo <- MCRollbackTo
  Payloads <- MCConstructionPayloads
  Metrics <- MCMetrics
  Windows <- MCWideWindows
  DropThreshold <- MCThreshold
  MinWindow = 2
  MaxRecent = 3
  HistoryLimit = 2
  SummaryInterval = 2
  Disturbances = {}
SPECIFICATION FairSpec
PROPERTY RegressionIsRolledBack
