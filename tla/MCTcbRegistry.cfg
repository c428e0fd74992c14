SPECIFICATION FairSpec
CONSTANTS
  r1 = r1  r2 = r2  a1 = a1  a2 = a2
  None = None
  Main = r1
  Reactors = {r1, r2}
  Addrs = {a1, a2}
  MaxThreads = 2
  MaxBlocks = 3
  TLS_SLOTS = 2
  MaxValues = 2
  LateSets = FALSE
INVARIANTS TypeOK RegistryMatches DroppedOnce ReadsStored
PROPERTIES Implements ExitEnds
CHECK_DEADLOCK FALSE
