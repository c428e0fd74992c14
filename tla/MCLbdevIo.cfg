SPECIFICATION FairSpec
CONSTANTS
  N = 4
  Rounds = 2
  Reuse = TRUE
INVARIANTS
  TypeOK
  
  WillBeWoken
PROPERTIES
  BatchesEnd
CHECK_DEADLOCK FALSE
