\* The sweep releasing a claim that a direct write is moving.
SPECIFICATION Spec
CONSTANTS
  n1 = n1
  n2 = n2
  A = A
  B = B
  Names <- MCNames
  LED <- MCLED
  Board <- MCBoard
  Layouts <- MCLayouts
  MaxAge = 0
  Unowned = Unowned
  Direct = Direct
  NoKey = NoKey
  NoCaps = NoCaps
  Clients = {c1}
  Requests <- PairRequests
  MaxInFlight = 1
  MayEvict = FALSE
  SweepOverlaps = TRUE
  Dark = Dark
  NoTag = NoTag
  None = None
INVARIANT NoOrphanedKey
