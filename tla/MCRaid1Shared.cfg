SPECIFICATION Spec
CONSTANTS
  r1 = r1
  r2 = r2
  r3 = r3
  c1 = c1
  b1 = b1
  NoShape = NoShape
  NoReq = NoReq
  N = 2
  Blocks <- OneBlock
  Channels <- OneChannel
  Reqs <- TwoReqs
  MaxDead = 1
  MaxReadErrors = 0
  MaxWriteErrors = 0
INVARIANTS
  AllDisksFailed
CHECK_DEADLOCK FALSE
