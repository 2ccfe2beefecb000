SPECIFICATION PosedSpec
CONSTANTS
  Clients = {}
  Attempts = {}
  Releases = {}
  Loads = {}
  DirectLoads = {}
  Starts = {s1}
  Stops = {}
  Aborts = {}
  Clears = {}
  Estops = {e1}
  Safety = safety
  Watchdog = watchdog
  Telemetry = telemetry
  None = none
  MaxFaults = 0
  MaxInputs = 0
INVARIANTS
  DrivingIsTracked
CHECK_DEADLOCK FALSE
