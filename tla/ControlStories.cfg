SPECIFICATION StorySpec
CONSTANTS
  Clients = {c1, c2}
  Attempts = {1}
  Releases = {r1}
  Loads = {l1}
  DirectLoads = {d1}
  Starts = {s1, s2}
  Stops = {p1}
  Aborts = {b1}
  Clears = {k1}
  Estops = {}
  Safety = safety
  Watchdog = watchdog
  Telemetry = telemetry
  None = none
  MaxFaults = 1
  MaxInputs = 1
CONSTRAINT FaultsOrLoads
SYMMETRY Symmetry
INVARIANTS
  TypeOK
  SingleOwner
  OwnershipLives
  TransitionHoldsLock
  DrivenIsTracked
CHECK_DEADLOCK FALSE
