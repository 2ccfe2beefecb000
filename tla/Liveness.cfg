SPECIFICATION MCSpec
CONSTANTS
  Missions <- MCLive
  Dwell = 1
  MaxHold = 2
  PivotTimeout = 1
  AlignSettle = 1
  EndpointMax = 1
  Trigger = 0
  MinGoalTravel = 2
  Gates = {"STALE"}
  MayObey = TRUE
  Requests = {r1, r2, r3}
  Sources = {"ntrip", "lora"}
  ChildLimit = 3
  Place <- MCPlace
  FreshAge = 1
  StateTimeout = 1
  LinkGap = 2
  Tries = 2
  MaxRestarts = 1
PROPERTIES MissionEnds OneChild RtkAnswers OriginHolds
CHECK_DEADLOCK FALSE
