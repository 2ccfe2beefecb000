SPECIFICATION MCSpec
CONSTANTS
  Workers = {w1}
  Loop = loop
  Stale = 1
  RcLoss = 2
  FlushFrames = 3
  BarrierFrames = 1
  MaxStall = 2
  Order <- MCOrder
  Critical = {c1, c2}
  FailWindow = 4
  MaxFails = 3
  BackoffCap = 2
  ResetAfter = 3
  MaxCount = 3
  c1 = c1
  c2 = c2
  a1 = a1
  Grace = 1
  Cooldown = 2
  MaxRecoveries = 2
  RecoveryWindow = 12
  StopTimeout = 1
  RestartTimeout = 2
  ReadyTimeout = 4
  ReadyWait = 3
  ProbeTime = 2
  FreeTime = 2
  ApplyTime = 1
  ValidateTime = 2
  RestartDelay = 1
  FailDelay = 2
  TermGrace = 2
  Headings = {"north", "east"}
  InputMaxAge = 0
  YawRateMaxAge = 1
  ExecutorStall = 1
  MaxLoads = 1
  Connector = 4
  ShortTransit = 2
  Paths <- MCPaths
  Profiles = {"auto"}
  Missions <- MCMissions
  Dwell = 2
  MaxHold = 2
  PivotTimeout = 1
  AlignSettle = 1
  EndpointMax = 1
  Trigger = 0
  MinGoalTravel = 2
  Gates = {"STALE"}
  MayObey = FALSE
  m1 = m1
  m2 = m2
  StagedIds = {m1, m2}
  Mode <- MCMode
  Surveyed = {m1}
  Starters = {s1}
  Raw = raw
  NoMission = none
  MaxRespawns = 1
  Drawings <- MCDrawings
  Positions <- MCPositions
  NoPosition = nowhere
  Origin <- MCOrigin
  Spacing = 5
  PreReach = 10
  AftReach = 10
  MaxMoves = 1
INVARIANTS
  ServicesTypeOK BoundedRunaway DeactivationHolds SupervisionHolds RecoveryBounded LaunchHolds
  SilenceStops IntakeKeepsDrawing EndsAreEarned
  PlanKeepsDrawing SourceStaysMustHit
PROPERTIES  CommitHolds
CHECK_DEADLOCK FALSE
