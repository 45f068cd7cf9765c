SPECIFICATION Spec
CONSTANTS
  p1 = p1
  p2 = p2
  p3 = p3
  u1 = u1
  Procs = {p1, p2, p3}
  Users = {u1}
  Amounts = {1, 2}
  Opening = 1
  Faults = {}
  Free = Free
INVARIANTS
  BalanceMatchesLedger
SYMMETRY Symmetry
CHECK_DEADLOCK FALSE
