SPECIFICATION PlanningSpec
CONSTANTS
  Drawings <- MCDrawings
  Positions <- MCPositions
  NoPosition = nowhere
  Origin <- MCOrigin
  Spacing = 5
  PreReach = 10
  AftReach = 10
  MaxMoves = 1
INVARIANTS MustHitIsSource
CHECK_DEADLOCK FALSE
