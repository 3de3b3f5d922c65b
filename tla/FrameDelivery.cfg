SPECIFICATION Spec
CONSTANTS
  LED <- LEDs
  Dev = dev
  MaxBatch = 2
  QueueDepth = 2
  MaxCapsFailures = 2
  Declared = FALSE
  Flaky = TRUE
  MayReset = TRUE
  MaxWrites = 2
  MaxPlugs = 2
INVARIANTS TypeOK NewestIsHeld
PROPERTY ImplementsDisplay
