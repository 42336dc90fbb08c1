CONSTANTS
  Size = 2
  Data = {1, 2, 3, 4, 5}
  NoData = NoData
SPECIFICATION Spec
INVARIANT NothingLost
CHECK_DEADLOCK FALSE
