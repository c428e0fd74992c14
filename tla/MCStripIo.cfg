SPECIFICATION StripSpec
CONSTANTS
  NDisks = 4
  StripBlocks = 2
  NStripes = 4
  BlockLen = 2
  MaxIovs = 3
INVARIANTS
  StripTypeOK
  Placed
  Restored
  Written
CHECK_DEADLOCK FALSE
