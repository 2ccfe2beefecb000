SPECIFICATION MCFairSpec
CONSTANTS
  AckTimeout = 1
  BackoffBase = 1
  BackoffMax = 2
  FloatExpLimit = 1024
  DebounceSamples = 1
  ManualTimeout = 1
  MaxLink = 2
  MaxSuppressed = 2
  MaxFaults = 1
  MaxInputs = 3
INVARIANTS
  TypeOK
  OffConfirmedMeansClosed
  SprayingMeansOpen
PROPERTIES
  IndicationSpec
  CommandDiscipline
  DisarmedEventuallyClosed
  MarkEventuallyPainted
  OverridesEnd
