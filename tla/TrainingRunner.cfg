CONSTANTS
  r1 = r1
  r2 = r2
  r3 = r3
  Trainings = {r1, r2, r3}
  ReportIds = {"a", "b"}
  ReportId <- MCReportId
  MaxSignals = 2
  MaxFaults = 2
  None = None
SPECIFICATION Spec
SYMMETRY MCSymmetry
CHECK_DEADLOCK FALSE
INVARIANTS
  TypeOK
  OnlyReportedGradients
  FailureLeavesState
