\* Two posters, two senders and nested calls of process_events.
CONSTANTS
  r1 = r1
  r2 = r2
  t1 = t1
  t2 = t2
  t3 = t3
  Refs <- TwoRefs
  Timers <- NoTimer
  SingleShots <- NoTimer
  Foreign <- NoTimer
  Threads = {"w1", "w2"}
  Intervals = {1}
  MaxMessages = 3
  MaxDepth = 2
  MaxTime = 2
SPECIFICATION FairSpec
INVARIANTS
  NoLostWakeup
  OnlyLiveCallbacks
  SendServedOnce
PROPERTIES
  EveryMessageServed
CHECK_DEADLOCK FALSE
