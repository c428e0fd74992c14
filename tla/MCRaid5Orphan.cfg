SPECIFICATION Spec
CONSTANTS
  r1 = r1
  r2 = r2
  NDisks = 3
  StripBlocks = 2
  NStripes = 1
  NWorkers = 1
  Reqs <- TwoReqs
  Shapes <- OneStripeShapes
  NoShape = NoShape
  NoReq = NoReq
  MaxDead = 1
  MaxReadErrors = 1
  MaxWriteErrors = 0
  MaxCrashes = 0
  MaxFaults = 2
  Unsynced <- NoStripes
  LateDma = FALSE
INVARIANTS
  NoOrphan
CHECK_DEADLOCK FALSE
