SPECIFICATION FairSpec
CONSTANTS
  r1 = r1
  r2 = r2
  r3 = r3
  c1 = c1
  b1 = b1
  NoShape = NoShape
  NoReq = NoReq
  N = 2
  Blocks <- OneBlock
  Channels <- OneChannel
  Reqs <- ThreeReqs
  MaxDead = 2
  MaxReadErrors = 1
  MaxWriteErrors = 1
INVARIANTS
  TypeOK
  ReadsFresh
  Mirrored
  FailsOnlyIfAllFail
PROPERTIES
  Answered
CHECK_DEADLOCK FALSE
