SPECIFICATION RegionSpec
CONSTANTS
  Threads = {q1, q2, q3}
  Blocks = {b1, b2, b3, b4}
  None = None
  N = 2048
  r = 8
  p = 1
  t = 0
  SBoxBytes = 8192
INVARIANTS
  RegionTypeOK
  RegionsLive
  NothingElseLost
  RoomToCompute
CHECK_DEADLOCK FALSE
