SPECIFICATION Spec
CONSTANTS
  NumPoints = 2
  SettleZero = FALSE
  MaxFaults = 0
INVARIANTS
  DoneIsPainted
CHECK_DEADLOCK FALSE
