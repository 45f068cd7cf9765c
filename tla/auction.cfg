SPECIFICATION Spec
CONSTANTS
  b1 = b1
  b2 = b2
  c1 = c1
  c2 = c2
  c3 = c3
  Bidders = {b1, b2}
  Creator = Creator
  Procs = {c1, c2, c3}
  Handles <- MCHandles
  Enforcers = {e1, e2}
  Amounts = {1, 2}
  StartBid = 1
  Opening = 2
  MoveLimit = 1
  FaultLimit = 1
  LapseLimit = 1
  Nobody = Nobody
SYMMETRY Symmetry
INVARIANTS
  TypeOK
  
  HeldMatchesBids
  BidsRise
  CreatorGetsStandingBid
  PenaltiesForLapses
  WinnerOwesOwnBid
PROPERTIES
  EndedIsFinal
CHECK_DEADLOCK FALSE
