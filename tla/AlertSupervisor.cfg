SPECIFICATION Spec
CONSTANTS
  Runs = {r1, r2, r3}
  Rooms = {a, b}
  Sighted = {b}
  Debounce = 2
  MaxTime = 3
  MaxDamage = 2
  MaxOverlap = 2
  MaxFaults = 1
INVARIANTS TypeOK StateFollowsReports DebounceHolds
SYMMETRY MCSymmetry
CHECK_DEADLOCK FALSE
