SPECIFICATION FairSpec
CONSTANTS
  t1 = t1
  t2 = t2
  f1 = f1
  f2 = f2
  f3 = f3
  Tasks <- TwoTasks
  Futs <- ThreeFuts
  Awaiter <- AwaitThree
  NoTask = NoTask
  Join = FALSE
  MaxYields = 2
INVARIANTS
  TypeOK
  NoLostWakeup
  NeverResumed
  QueuedOnce
  ShutdownOnce
PROPERTIES
  WokenIsPolled
  ExitCompletes
CHECK_DEADLOCK FALSE
