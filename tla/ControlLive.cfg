SPECIFICATION MCFairSpec
CONSTANTS
  Clients = {c1}
  Attempts = {1}
  Releases = {}
  Loads = {}
  DirectLoads = {}
  Starts = {s1, s2}
  Stops = {}
  Aborts = {}
  Clears = {}
  Estops = {e1}
  Safety = safety
  Watchdog = watchdog
  Telemetry = telemetry
  None = none
  MaxFaults = 1
  MaxInputs = 1
PROPERTIES
  LifecycleCallsReturn
  SilentLeaseRevoked
  UnhealthyMissionStopped
CHECK_DEADLOCK FALSE
