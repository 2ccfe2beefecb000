SPECIFICATION PosedSpec
CONSTANTS
  Clients = {c1, c2}
  Attempts = {1}
  Releases = {r1}
  Loads = {}
  DirectLoads = {}
  Starts = {}
  Stops = {}
  Aborts = {}
  Clears = {}
  Estops = {}
  Safety = safety
  Watchdog = watchdog
  Telemetry = telemetry
  None = none
  MaxFaults = 0
  MaxInputs = 0
INVARIANTS
  ClearsOnlyItsOwn
CHECK_DEADLOCK FALSE
