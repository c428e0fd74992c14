SPECIFICATION FairAppSpec
CONSTANTS
  n1 = n1
  d1 = d1
  d2 = d2
  d3 = d3
  d4 = d4
  Names = {n1}
  Bdevs = {b1, b2}
  Workers = {w1, w2}
  NoBdev = NoBdev
  Foreign = Foreign
  Disks = {d1, d2, d3, d4}
  BlockLen <- MCBlockLen
  Blocks <- MCBlocks
  Requests <- MCRequests
  NoRequest = NoRequest
  KB = 4
  OnShutdown = TRUE
  LowerList <- MCLowerList
  Removable = {d1}
  MaxRemovals = 1
  U32 = 32
INVARIANTS
  AppTypeOK
  TablesAgree
  IoFindsChannel
  NoneLost
  OnChildren
  NothingLeft
PROPERTIES
  RemovalEnds
  StopEnds
CHECK_DEADLOCK FALSE
