SPECIFICATION Spec
CONSTANTS
  p1 = p1
  p2 = p2
  p3 = p3
  u1 = u1
  Procs = {p1, p2}
  Users = {u1}
  Amounts = {1, 2}
  Opening = 2
  Faults = {"slow", "mongo", "redis", "crash"}
  Free = Free
INVARIANTS
  TypeOK
  NonNegative
  Reconciled
PROPERTIES
  MovesAtOnce
CHECK_DEADLOCK FALSE
