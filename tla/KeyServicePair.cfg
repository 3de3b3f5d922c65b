\* Two handlers at a time, and a device that may be evicted and come back.
SPECIFICATION Spec
CONSTANTS
  n1 = n1
  n2 = n2
  A = A
  B = B
  Names <- MCNames
  LED <- MCLED
  Board <- MCBoard
  Layouts <- MCDisplace
  MaxAge = 0
  Unowned = Unowned
  Direct = Direct
  NoKey = NoKey
  NoCaps = NoCaps
  Clients = {c1, c2}
  Requests <- RaceRequests
  MaxInFlight = 2
  MayEvict = TRUE
  SweepOverlaps = TRUE
  Dark = Dark
  NoTag = NoTag
  None = None
SYMMETRY ClientSymmetry
INVARIANTS LitKeysAreRecorded
PROPERTIES TaggedClearSparesOthers DisplaceLosesNothing
