\* A timer of the loop's thread, a single-shot one and one of another thread,
\* which are due at different times.
CONSTANTS
  r1 = r1
  r2 = r2
  t1 = t1
  t2 = t2
  t3 = t3
  Refs <- NoTimer
  Timers <- AllTimers
  SingleShots <- JustSingleShot
  Foreign <- JustForeign
  Threads = {}
  Intervals = {1, 2}
  MaxMessages = 0
  MaxDepth = 1
  MaxTime = 2
SPECIFICATION Spec
INVARIANTS
  OnlyLiveCallbacks
  WakesInTime
  TimerRate
CHECK_DEADLOCK FALSE
