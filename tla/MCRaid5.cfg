SPECIFICATION FairSpec
CONSTANTS
  r1 = r1
  r2 = r2
  NDisks = 3
  StripBlocks = 2
  NStripes = 2
  NWorkers = 2
  Reqs <- TwoReqs
  Shapes <- TwoStripeShapes
  NoShape = NoShape
  NoReq = NoReq
  MaxDead = 1
  MaxReadErrors = 1
  MaxWriteErrors = 1
  MaxCrashes = 1
  MaxFaults = 2
  Unsynced <- FirstStripe
  LateDma = FALSE
INVARIANTS
  TypeOK
  OneDrainer
  Redundant
PROPERTIES
  Implements
  Answered
CHECK_DEADLOCK FALSE
