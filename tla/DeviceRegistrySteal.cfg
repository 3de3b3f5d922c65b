\* A second board of a base coming in on a lower path.
SPECIFICATION Spec
CONSTANTS
  twinA = twinA
  twinB = twinB
  other = other
  uid = uid
  path1 = path1
  path2 = path2
  Boards = {twinA, twinB}
  Paths = {1, 2}
  UidOf <- MCUidOf
  PathBase <- MCPathBase
  Declared = {}
  MaxAge = 1
  Flaky = FALSE
  MaxSuffix = 4
  None = None
  NoBoard = NoBoard
PROPERTY NeverStolen
