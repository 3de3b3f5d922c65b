\* Requests one at a time, interleaved with ticks and the sweep.
SPECIFICATION FairSpec
CONSTANTS
  n1 = n1
  n2 = n2
  A = A
  B = B
  Names <- MCNames
  LED <- MCLED
  Board <- MCBoard
  Layouts <- MCLayouts
  MaxAge = 0
  Unowned = Unowned
  Direct = Direct
  NoKey = NoKey
  NoCaps = NoCaps
  Clients = {c1}
  Requests <- MCRequests
  MaxInFlight = 1
  MayEvict = FALSE
  SweepOverlaps = FALSE
  Dark = Dark
  NoTag = NoTag
  None = None
INVARIANT KeysShowTheirOwners
PROPERTIES DisplacedRequestFollows AbandonedKeysGoDark
