\* Twins and a board without a UID on two paths; probes, opens and enumerations fail.
SPECIFICATION FairSpec
CONSTANTS
  twinA = twinA
  twinB = twinB
  other = other
  uid = uid
  path1 = path1
  path2 = path2
  Boards = {twinA, twinB, other}
  Paths = {1, 2}
  UidOf <- MCUidOf
  PathBase <- MCPathBase
  Declared <- MCDeclared
  MaxAge = 2
  Flaky = TRUE
  MaxSuffix = 4
  None = None
  NoBoard = NoBoard
INVARIANTS TypeOK Wired SuffixesStayLow
PROPERTIES SoleSlotIsKept NamesAreFreed StayersAreServed
