\* One board and three names on at most three pool keys, under each layout.
SPECIFICATION FairSpec
CONSTANTS
  n1 = n1
  n2 = n2
  n3 = n3
  Names <- MCNames
  LED <- MCLED
  Matrices <- MCMatrices
  Layouts <- MCLayouts
  MaxAge = 1
  PendAddrs <- MCPendAddrs
  Unowned = Unowned
  Direct = Direct
  NoKey = NoKey
  NoCaps = NoCaps
INVARIANTS TypeOK MapsAgree ClaimsInPool
  RefusedOnlyWhenFull
PROPERTIES IdleClaimsEnd DirectStays ClaimsMoveOnlyWhenDisplaced
  ImplementsLeases
