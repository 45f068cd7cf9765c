SPECIFICATION KeySpec
CONSTANTS
  c1 = c1
  c2 = c2
  c3 = c3
  Calls = {c1, c2, c3}
  None = None
  MaxFaults = 2
INVARIANTS
  KeyTypeOK
  SameOutcome
  SuccessIsReal
SYMMETRY Symmetry
CHECK_DEADLOCK FALSE
