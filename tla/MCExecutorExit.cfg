SPECIFICATION Spec
CONSTANTS
  t1 = t1
  t2 = t2
  f1 = f1
  f2 = f2
  f3 = f3
  Tasks <- OneTask
  Futs <- OneFut
  Awaiter <- AwaitOne
  NoTask = NoTask
  Join = FALSE
  MaxYields = 0
INVARIANTS
  ShutdownFinds
CHECK_DEADLOCK FALSE
