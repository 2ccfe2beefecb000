SPECIFICATION DisabledSpec
CONSTANTS
  AckTimeout = 1
  BackoffBase = 1
  BackoffMax = 2
  FloatExpLimit = 1024
  DebounceSamples = 1
  ManualTimeout = 1
  MaxLink = 2
  MaxSuppressed = 1030
  MaxFaults = 2
  MaxInputs = 3
INVARIANT BackoffAlwaysDefined
