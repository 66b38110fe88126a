SPECIFICATION Spec
CONSTANTS
  Refreshers = {auto}
  Requests = {r1, r2}
  MaxCycles = 2
  None = None
SYMMETRY RequestSymmetry
INVARIANTS TypeOK AnswersAreFresh StampsAreHonest
