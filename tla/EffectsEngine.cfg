\* All pairs of small definitions, and two keys at the effects of one library.
SPECIFICATION Spec
CONSTANTS
  e1 = e1
  e2 = e2
  steady = steady
  unknown = unknown
  k1 = k1
  k2 = k2
  A = A
  B = B
  Targets = {k1, k2}
  Requests <- MCRequests
  MaxClock = 3
  Horizon = 8
  Invalid = Invalid
  NoTag = NoTag
  None = None
INVARIANTS CompilesSoundSets TimelinesAreScripts RunsAreRecorded FramesAreDue StatusIsTrue
PROPERTY FiniteEffectsEnd
CHECK_DEADLOCK FALSE
