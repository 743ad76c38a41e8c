\* A stop request that is made before run() is called.
CONSTANTS
  r1 = r1
  r2 = r2
  t1 = t1
  t2 = t2
  t3 = t3
  Refs <- OneRef
  Timers <- NoTimer
  SingleShots <- NoTimer
  Foreign <- NoTimer
  Threads = {}
  Intervals = {1}
  MaxMessages = 1
  MaxDepth = 1
  MaxTime = 1
SPECIFICATION Spec
INVARIANTS
  StopKept
CHECK_DEADLOCK FALSE
