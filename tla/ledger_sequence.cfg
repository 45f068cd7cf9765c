SPECIFICATION Spec
CONSTANTS
  w1 = w1
  w2 = w2
  w3 = w3
  Writers <- MCWriters
  Legacy <- MCLegacy
  Missing = Missing
  NoEntry = NoEntry
  SeekLimit = 2
  InsertLimit = 3
  MaxLosses = 1
INVARIANTS
  TypeOK
  NoSharedNumber
PROPERTIES
  EveryCallEnds
  AppendsOnce
CHECK_DEADLOCK FALSE
