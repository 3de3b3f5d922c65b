SPECIFICATION Spec
CONSTANTS
  LED <- OneLED
  Dev = dev
  MaxBatch = 2
  QueueDepth = 2
  MaxCapsFailures = 2
  Declared = TRUE
  Flaky = FALSE
  MayReset = FALSE
  MaxWrites = 2
  MaxPlugs = 2
PROPERTY NotClosedInUse
