CONSTANTS
  Runs = {r1, r2, r3, r4, r5}
  Threshold = 1
  Limit = 2
  MaxOverlap = 2
  MaxStops = 2
SPECIFICATION Spec
SYMMETRY MCSymmetry
CHECK_DEADLOCK FALSE
INVARIANTS
  TypeOK
  ValidationsAreRationed
  WasteIsBounded
