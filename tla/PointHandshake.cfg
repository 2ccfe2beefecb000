SPECIFICATION FairSpec
CONSTANTS
  NumPoints = 2
  SettleZero = FALSE
  MaxFaults = 1
  Paths <- MCPaths
  Errors <- MCErrors
  WindowBack = 1
  WindowFwd = 2
  Reacquire = 2
  OpenDelay = 1
  CloseDelay = 1
  Clear = 0
  Trip = 1
  MinOff = 1
  Hold = 1
  ProgressTimeout = 1
  Epsilon = 1
  OnDistance = 2
  OffDistance = 1
  JumpFactor = 2
  AcceptAfter = 2
  MaxDisturbances = 1
INVARIANTS
  TypeOK
  DwellIsAnnounced
  ReleaseIsProven
  OperatorReleases
  LineHolds
PROPERTIES
  MissionEnds
  MeterFinishes
CHECK_DEADLOCK FALSE
