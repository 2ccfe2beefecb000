SPECIFICATION PosedSpec
CONSTANTS
  Clients = {c1}
  Attempts = {1}
  Releases = {}
  Loads = {}
  DirectLoads = {}
  Starts = {s1, s2}
  Stops = {}
  Aborts = {}
  Clears = {}
  Estops = {}
  Safety = safety
  Watchdog = watchdog
  Telemetry = telemetry
  None = none
  MaxFaults = 1
  MaxInputs = 0
INVARIANTS
  SingleOwner
CHECK_DEADLOCK FALSE
