------------------------- MODULE MessageLoopProofs -------------------------
(***************************************************************************)
(* Proofs about MessageLoop, for every set of refs, timers and threads,    *)
(* every nesting depth and every clock.  IInv is the inductive invariant.   *)
(***************************************************************************)
EXTENDS MessageLoop, FiniteSetTheorems, WellFoundedInduction, TLAPS

\* From the tests of process_events to the wait there is nothing to run: only a
\* signal handler gets past the mutex.
WaitInv ==
  pc \in {"locked", "wait"} =>
    messages = {} /\ (stopped => request = "signal")

\* A timer in the set is due one interval after it last fired or was started,
\* and one that fires once has not done so yet.
TimerInv ==
  \A t \in Timers :
    t \in timers =>
      /\ next[t] = started[t] + fired[t] * interval[t] + interval[t]
      /\ once[t] => fired[t] = 0

\* Messages of send() have no messageloop_ref.
SenderInv == \A m \in messages : m.sender # NoOne => m.ref = NoOne

queued(t) == {m \in messages : m.sender = t}
begun(t)  == {d \in InProgress : running[d].sender = t}

\* Where the one message of a thread in send() is.
Served(t) ==
  IF sender[t] = "waiting"
  THEN \/ (\E m : queued(t) = {m}) /\ begun(t) = {}
       \/ queued(t) = {} /\ (\E d : begun(t) = {d})
  ELSE queued(t) = {} /\ begun(t) = {}

ServedInv == SenderInv /\ \A t \in Threads : Served(t)

-----------------------------------------------------------------------------
\* The earliest of a set of times.
LEMMA Minimum ==
  ASSUME NEW S, S \subseteq Nat, S # {}
  PROVE  LET least == CHOOSE n \in S : \A m \in S : n <= m
         IN  least \in S /\ \A m \in S : least <= m
<1> DEFINE R == OpToRel(<, Nat)
<1>1. PICK n \in S : \A m \in S : ~ (<<m, n>> \in R)
  BY WFMin, NatLessThanWellFounded
<1>2. ASSUME NEW m \in S PROVE n <= m
  <2>1. m < n => <<m, n>> \in R
    BY DEF OpToRel
  <2> HIDE DEF R
  <2> QED
    BY <1>1, <2>1
<1> QED
  BY <1>2

-----------------------------------------------------------------------------
(* Type correctness.                                                       *)

\* The loop starts in a state of its type.
LEMMA InitTypeOK == Init => TypeOK
<1> SUFFICES ASSUME Init PROVE TypeOK
  OBVIOUS
<1> USE DEF Init, Never, NoOne
<1>1. deadline \in [1 .. MaxDepth -> Nat \cup {Never}]
  OBVIOUS
<1>2. running \in [1 .. MaxDepth ->
        [ref : Refs \cup Timers \cup {NoOne}, sender : Threads \cup {NoOne},
         serial : Nat]]
  BY DEF Callback
<1>3. depth \in 0 .. MaxDepth
  BY MessageLoopAssumption
<1> QED
  BY <1>1, <1>2, <1>3, MessageLoopAssumption DEF TypeOK

\* Every step keeps the type.
LEMMA NextTypeOK == TypeOK /\ [Next]_vars => TypeOK'
<1> SUFFICES ASSUME TypeOK, [Next]_vars PROVE TypeOK'
  OBVIOUS
<1> USE MessageLoopAssumption
<1> USE DEF TypeOK, queueVars, timerVars, stopVars, callVars, Notified, Never,
            NoOne
<1>1. CASE ReturnStopped \/ ReturnExpired
  <2>1. Return /\ pc = "top"
    BY <1>1 DEF ReturnStopped, ReturnExpired, NothingToRun
  <2>2. depth' \in 0 .. MaxDepth
    BY <2>1 DEF Return
  <2>3. deadline' \in [1 .. MaxDepth -> Nat \cup {Never}]
    BY <2>1 DEF Return
  <2> QED
    BY <1>1, <2>1, <2>2, <2>3 DEF ReturnStopped, ReturnExpired, Return
<1>2. CASE RunMessage
  BY <1>2 DEF RunMessage, Run
<1>3. CASE RunTimer
  <2> PICK t \in Due :
        /\ Run(Callback(t))
        /\ timers' = IF once[t] THEN timers \ {t} ELSE timers
        /\ next' = IF once[t] THEN next ELSE [next EXCEPT ![t] = NextTime(t)]
        /\ fired' = [fired EXCEPT ![t] = @ + 1]
    BY <1>3 DEF RunTimer
  <2>1. t \in Timers /\ next[t] + interval[t] \in Nat /\ fired[t] + 1 \in Nat
    BY DEF Due
  <2>2. next' \in [Timers -> Nat] /\ fired' \in [Timers -> Nat]
    BY <2>1 DEF NextTime
  <2> QED
    BY <1>3, <2>1, <2>2 DEF RunTimer, Run, Callback
<1>4. CASE PrepareWait
  <2>1. WakeTimes \subseteq Nat
    BY <1>4 DEF PrepareWait, NothingToRun, WakeTimes
  <2> QED
    BY <1>4, <2>1, Minimum DEF PrepareWait, NothingToRun, Earliest
<1>5. CASE Wait \/ WaitReturned
  BY <1>5 DEF Wait, WaitReturned
<1>6. CASE FunctionReturned
  <2>1. sender' \in [Threads -> {"idle", "waiting", "finished"}]
    BY <1>6 DEF FunctionReturned
  <2>2. running' \in [1 .. MaxDepth ->
          [ref : Refs \cup Timers \cup {NoOne}, sender : Threads \cup {NoOne},
           serial : Nat]]
    BY <1>6 DEF FunctionReturned, Callback
  <2> QED
    BY <1>6, <2>1, <2>2 DEF FunctionReturned
<1>7. CASE stop \/ signal_handler
  BY <1>7 DEF stop, signal_handler
<1>8. CASE Destroy \/ Tick
  <2>1. now' \in Nat
    BY <1>8 DEF Destroy, Tick
  <2>2. destroyed' \in BOOLEAN
    BY <1>8 DEF Destroy, Tick
  <2> QED
    BY <1>8, <2>1, <2>2 DEF Destroy, Tick
<1>9. ASSUME NEW r \in Refs, post(r)
      PROVE  TypeOK'
  <2>1. Message(r, NoOne) \in
          [ref : Refs \cup {NoOne}, sender : Threads \cup {NoOne}, serial : Nat]
    BY DEF Message
  <2> QED
    BY <1>9, <2>1 DEF post
<1>10. ASSUME NEW r \in Refs, abort(r)
       PROVE  TypeOK'
  BY <1>10 DEF abort, Aborted
<1>11. ASSUME NEW t \in Threads, send(t)
      PROVE  TypeOK'
  <2>1. Message(NoOne, t) \in
          [ref : Refs \cup {NoOne}, sender : Threads \cup {NoOne}, serial : Nat]
    BY DEF Message
  <2> QED
    BY <1>11, <2>1 DEF send
<1>12. ASSUME NEW t \in Threads, SendReturned(t)
       PROVE  TypeOK'
  BY <1>12 DEF SendReturned
<1>13. ASSUME NEW t \in Timers, NEW iv \in Intervals, NEW o \in BOOLEAN,
              timer_add(t, iv, o)
       PROVE  TypeOK'
  <2>1. iv \in Nat /\ now + iv \in Nat
    OBVIOUS
  <2>2. /\ next' \in [Timers -> Nat] /\ interval' \in [Timers -> Nat]
        /\ started' \in [Timers -> Nat] /\ fired' \in [Timers -> Nat]
    BY <1>13, <2>1 DEF timer_add
  <2>3. once' \in [Timers -> BOOLEAN]
    BY <1>13 DEF timer_add
  <2>4. timers' \subseteq Timers /\ alive' \subseteq Refs \cup Timers
    BY <1>13 DEF timer_add
  <2>5. UNCHANGED <<messages, sender, running>>
    BY <1>13 DEF timer_add
  <2> QED
    BY <1>13, <2>2, <2>3, <2>4, <2>5 DEF timer_add
<1>14. ASSUME NEW t \in Timers, NEW gone \in BOOLEAN, timer_remove(t, gone)
       PROVE  TypeOK'
  <2>1. timers' \subseteq Timers /\ alive' \subseteq Refs \cup Timers
    BY <1>14 DEF timer_remove, Erased
  <2> QED
    BY <1>14, <2>1 DEF timer_remove, Erased
<1>15. ASSUME NEW d \in Intervals \cup {Never}, process_events(d)
       PROVE  TypeOK'
  <2>1. deadline' \in [1 .. MaxDepth -> Nat \cup {Never}]
    <3>1. (IF d = Never THEN Never ELSE now + d) \in Nat \cup {Never}
      OBVIOUS
    <3> QED
      BY <1>15, <3>1 DEF process_events
  <2>2. depth' \in 0 .. MaxDepth /\ depth' > 0
    BY <1>15 DEF process_events
  <2> QED
    BY <1>15, <2>1, <2>2 DEF process_events
<1>16. CASE UNCHANGED vars
  BY <1>16 DEF vars
<1> HIDE DEF TypeOK
<1> QED
  BY <1>1, <1>2, <1>3, <1>4, <1>5, <1>6, <1>7, <1>8, <1>9, <1>10, <1>11, <1>12,
     <1>13, <1>14, <1>15, <1>16 DEF Next, Iterate

\* Every variable of the loop keeps its type.
THEOREM LoopTypeCorrectness == Spec => []TypeOK
  BY InitTypeOK, NextTypeOK, PTL DEF Spec

-----------------------------------------------------------------------------
(* Wake-ups.                                                               *)

\* Between the tests and the wait only a signal handler changes anything.
LEMMA NextWaitInv == WaitInv /\ [Next]_vars => WaitInv'
<1> SUFFICES ASSUME WaitInv, [Next]_vars PROVE WaitInv'
  OBVIOUS
<1> USE DEF WaitInv, queueVars, stopVars, MutexFree, Notified
<1>1. CASE ReturnStopped \/ ReturnExpired
  BY <1>1 DEF ReturnStopped, ReturnExpired, Return
<1>2. CASE RunMessage \/ RunTimer
  BY <1>2 DEF RunMessage, RunTimer, Run
<1>3. CASE PrepareWait
  BY <1>3 DEF PrepareWait, NothingToRun
<1>4. CASE Wait \/ WaitReturned \/ FunctionReturned
  BY <1>4 DEF Wait, WaitReturned, FunctionReturned
<1>5. CASE stop
  BY <1>5 DEF stop
<1>6. CASE signal_handler
  BY <1>6 DEF signal_handler
<1>7. CASE Destroy \/ Tick
  BY <1>7 DEF Destroy, Tick
<1>8. ASSUME NEW r \in Refs, post(r) \/ abort(r)
      PROVE  WaitInv'
  BY <1>8 DEF post, abort
<1>9. ASSUME NEW t \in Threads, send(t) \/ SendReturned(t)
      PROVE  WaitInv'
  BY <1>9 DEF send, SendReturned
<1>10. ASSUME NEW t \in Timers, NEW iv \in Intervals, NEW o \in BOOLEAN,
              timer_add(t, iv, o)
       PROVE  WaitInv'
  BY <1>10 DEF timer_add
<1>11. ASSUME NEW t \in Timers, NEW gone \in BOOLEAN, timer_remove(t, gone)
       PROVE  WaitInv'
  BY <1>11 DEF timer_remove, Erased
<1>12. ASSUME NEW d \in Intervals \cup {Never}, process_events(d)
       PROVE  WaitInv'
  BY <1>12 DEF process_events
<1>13. CASE UNCHANGED vars
  BY <1>13 DEF vars
<1> HIDE DEF WaitInv
<1> QED
  BY <1>1, <1>2, <1>3, <1>4, <1>5, <1>6, <1>7, <1>8, <1>9, <1>10, <1>11, <1>12,
     <1>13 DEF Next, Iterate

\* No call of post(), send() or stop() is slept through, at any nesting depth
\* and for any number of threads.
THEOREM WakeupNotLost == Spec => []NoLostWakeup
<1>1. Init => WaitInv
  BY DEF Init, WaitInv
<1>2. WaitInv => NoLostWakeup
  BY DEF WaitInv, NoLostWakeup
<1> QED
  BY <1>1, <1>2, NextWaitInv, PTL DEF Spec

\* The time of the wait is computed from all timers in the set, and the loop's
\* own thread adds none before it waits.
LEMMA NextWakesInTime == TypeOK /\ WakesInTime /\ [Next]_vars => WakesInTime'
<1> SUFFICES ASSUME TypeOK, WakesInTime, [Next]_vars PROVE WakesInTime'
  OBVIOUS
<1> USE DEF WakesInTime, timerVars, callVars, Notified
<1>1. CASE ReturnStopped \/ ReturnExpired
  BY <1>1 DEF ReturnStopped, ReturnExpired, Return
<1>2. CASE RunMessage \/ RunTimer
  BY <1>2 DEF RunMessage, RunTimer, Run
<1>3. CASE PrepareWait
  <2>1. WakeTimes \subseteq Nat
    BY <1>3, MessageLoopAssumption
    DEF PrepareWait, NothingToRun, WakeTimes, TypeOK, Never
  <2>2. ASSUME NEW m \in WakeTimes PROVE until' # Never /\ until' <= m
    <3>1. until' = CHOOSE n \in WakeTimes : \A k \in WakeTimes : n <= k
      BY <1>3, <2>2 DEF PrepareWait, Earliest
    <3> HIDE DEF WakesInTime
    <3>2. until' \in WakeTimes /\ \A k \in WakeTimes : until' <= k
      BY <2>1, <2>2, <3>1, Minimum
    <3> QED
      BY <2>1, <2>2, <3>2 DEF Never
  <2>3. \A t \in timers : next[t] \in WakeTimes
    BY DEF WakeTimes
  <2>4. deadline[depth] # Never => deadline[depth] \in WakeTimes
    BY DEF WakeTimes
  <2> QED
    BY <1>3, <2>2, <2>3, <2>4 DEF PrepareWait
<1>4. CASE Wait \/ WaitReturned \/ FunctionReturned
  BY <1>4 DEF Wait, WaitReturned, FunctionReturned
<1>5. CASE stop \/ signal_handler
  BY <1>5 DEF stop, signal_handler
<1>6. CASE Destroy \/ Tick
  BY <1>6 DEF Destroy, Tick
<1>7. ASSUME NEW r \in Refs, post(r) \/ abort(r)
      PROVE  WakesInTime'
  BY <1>7 DEF post, abort
<1>8. ASSUME NEW t \in Threads, send(t) \/ SendReturned(t)
      PROVE  WakesInTime'
  BY <1>8 DEF send, SendReturned
<1>9. ASSUME NEW t \in Timers, NEW iv \in Intervals, NEW o \in BOOLEAN,
             timer_add(t, iv, o)
      PROVE  WakesInTime'
  BY <1>9 DEF timer_add, TypeOK
<1>10. ASSUME NEW t \in Timers, NEW gone \in BOOLEAN, timer_remove(t, gone)
       PROVE  WakesInTime'
  BY <1>10 DEF timer_remove, Erased
<1>11. ASSUME NEW d \in Intervals \cup {Never}, process_events(d)
       PROVE  WakesInTime'
  BY <1>11 DEF process_events
<1>12. CASE UNCHANGED vars
  BY <1>12 DEF vars
<1> HIDE DEF WakesInTime
<1> QED
  BY <1>1, <1>2, <1>3, <1>4, <1>5, <1>6, <1>7, <1>8, <1>9, <1>10, <1>11, <1>12
  DEF Next, Iterate

\* process_events wakes up in time for every timer its own thread started and
\* for its own deadline, whatever the number of timers and their intervals.
THEOREM LoopWakesInTime == Spec => []WakesInTime
<1>1. Init => WakesInTime
  BY DEF Init, WakesInTime
<1> QED
  BY <1>1, InitTypeOK, NextTypeOK, NextWakesInTime, PTL DEF Spec

-----------------------------------------------------------------------------
(* Destroyed objects.                                                      *)

\* abort() and timer_remove() leave nothing behind of what they are for.
LEMMA NextOnlyLiveCallbacks ==
  TypeOK /\ OnlyLiveCallbacks /\ [Next]_vars => OnlyLiveCallbacks'
<1> SUFFICES ASSUME TypeOK, OnlyLiveCallbacks, [Next]_vars
             PROVE  OnlyLiveCallbacks'
  OBVIOUS
<1> USE DEF OnlyLiveCallbacks, queueVars, timerVars
<1>1. CASE ReturnStopped \/ ReturnExpired \/ RunMessage
  BY <1>1 DEF ReturnStopped, ReturnExpired, RunMessage
<1>2. CASE RunTimer
  BY <1>2 DEF RunTimer
<1>3. CASE PrepareWait \/ Wait \/ WaitReturned \/ FunctionReturned
  BY <1>3 DEF PrepareWait, Wait, WaitReturned, FunctionReturned
<1>4. CASE stop \/ signal_handler \/ Destroy \/ Tick
  BY <1>4 DEF stop, signal_handler, Destroy, Tick
<1>5. ASSUME NEW r \in Refs, post(r)
      PROVE  OnlyLiveCallbacks'
  BY <1>5 DEF post, Message
<1>6. ASSUME NEW r \in Refs, abort(r)
      PROVE  OnlyLiveCallbacks'
  BY <1>6, MessageLoopAssumption DEF abort, Aborted, TypeOK
<1>7. ASSUME NEW t \in Threads, send(t) \/ SendReturned(t)
      PROVE  OnlyLiveCallbacks'
  BY <1>7 DEF send, SendReturned, Message
<1>8. ASSUME NEW t \in Timers, NEW iv \in Intervals, NEW o \in BOOLEAN,
             timer_add(t, iv, o)
      PROVE  OnlyLiveCallbacks'
  BY <1>8 DEF timer_add
<1>9. ASSUME NEW t \in Timers, NEW gone \in BOOLEAN, timer_remove(t, gone)
      PROVE  OnlyLiveCallbacks'
  BY <1>9, MessageLoopAssumption DEF timer_remove, Erased, TypeOK, NoOne
<1>10. ASSUME NEW d \in Intervals \cup {Never}, process_events(d)
       PROVE  OnlyLiveCallbacks'
  BY <1>10 DEF process_events
<1>11. CASE UNCHANGED vars
  BY <1>11 DEF vars
<1> HIDE DEF OnlyLiveCallbacks
<1> QED
  BY <1>1, <1>2, <1>3, <1>4, <1>5, <1>6, <1>7, <1>8, <1>9, <1>10, <1>11
  DEF Next, Iterate

\* No message and no timer in the loop belongs to a destroyed object.
THEOREM CallbacksLive == Spec => []OnlyLiveCallbacks
<1>1. Init => OnlyLiveCallbacks
  BY DEF Init, OnlyLiveCallbacks
<1> QED
  BY <1>1, InitTypeOK, NextTypeOK, NextOnlyLiveCallbacks, PTL DEF Spec

-----------------------------------------------------------------------------
(* Timers.                                                                 *)

\* Counting one more interval.
LEMMA OneMore ==
  ASSUME NEW n \in Nat, NEW i \in Nat
  PROVE  n * i \in Nat /\ (n + 1) * i = n * i + i /\ 0 * i = 0
  OBVIOUS

\* next moves by one interval each time the timer fires, from the start.
LEMMA NextTimerRate ==
  TypeOK /\ TimerInv /\ TimerRate /\ [Next]_vars => TimerInv' /\ TimerRate'
<1> SUFFICES ASSUME TypeOK, TimerInv, TimerRate, [Next]_vars
             PROVE  TimerInv' /\ TimerRate'
  OBVIOUS
<1> USE DEF TimerInv, TimerRate, timerVars
<1>1. CASE UNCHANGED <<timerVars, now>>
  BY <1>1
<1>2. CASE Tick
  <2>1. \A t \in Timers : started[t] \in Nat /\ fired[t] * interval[t] \in Nat
    BY OneMore DEF TypeOK
  <2> QED
    BY <1>2, <2>1 DEF Tick, TypeOK
<1>3. CASE RunTimer
  <2> PICK t \in Due :
        /\ Run(Callback(t))
        /\ timers' = IF once[t] THEN timers \ {t} ELSE timers
        /\ next' = IF once[t] THEN next ELSE [next EXCEPT ![t] = NextTime(t)]
        /\ fired' = [fired EXCEPT ![t] = @ + 1]
    BY <1>3 DEF RunTimer
  <2>1. t \in Timers /\ t \in timers /\ next[t] <= now
    BY DEF Due, TypeOK
  <2>2. UNCHANGED <<interval, once, started, now>>
    BY <1>3 DEF RunTimer
  <2>3. ASSUME NEW u \in Timers, u # t
        PROVE  /\ next'[u] = next[u] /\ fired'[u] = fired[u]
               /\ u \in timers' <=> u \in timers
    BY <2>1, <2>3 DEF TypeOK
  <2>4. /\ fired'[t] = fired[t] + 1
        /\ once[t] => t \notin timers'
        /\ ~once[t] => next'[t] = next[t] + interval[t]
    BY <2>1 DEF TypeOK, NextTime
  <2>5. (fired[t] + 1) * interval[t] = fired[t] * interval[t] + interval[t]
    BY <2>1, OneMore DEF TypeOK
  <2>6. /\ fired[t] * interval[t] \in Nat /\ interval[t] \in Nat
        /\ fired[t] \in Nat /\ started[t] \in Nat /\ now \in Nat
        /\ next[t] = started[t] + fired[t] * interval[t] + interval[t]
        /\ once[t] => fired[t] = 0
    BY <2>1, OneMore DEF TypeOK
  <2>7. /\ fired'[t] * interval'[t] <= now' - started'[t]
        /\ once'[t] => fired'[t] <= 1
    BY <2>1, <2>2, <2>4, <2>5, <2>6
  <2>8. t \in timers' =>
          /\ next'[t] = started'[t] + fired'[t] * interval'[t] + interval'[t]
          /\ once'[t] => fired'[t] = 0
    <3>1. t \in timers' => ~once[t] /\ ~once'[t]
      BY <2>2, <2>4
    <3>2. fired'[t] * interval'[t] = fired[t] * interval[t] + interval[t]
      <4> HIDE DEF TimerInv, TimerRate
      <4>1. fired'[t] = fired[t] + 1 /\ interval'[t] = interval[t]
        BY <2>2, <2>4
      <4> QED
        BY <2>5, <4>1, Zenon
    <3>3. ~once[t] =>
            next'[t] = started[t] + (fired[t] * interval[t] + interval[t])
                         + interval[t]
      BY <2>4, <2>6
    <3> HIDE DEF TimerInv, TimerRate
    <3> QED
      BY <2>2, <3>1, <3>2, <3>3
  <2> QED
    BY <2>2, <2>3, <2>7, <2>8
<1>4. ASSUME NEW t \in Timers, NEW iv \in Intervals, NEW o \in BOOLEAN,
             timer_add(t, iv, o)
      PROVE  TimerInv' /\ TimerRate'
  <2>1. ASSUME NEW u \in Timers, u # t
        PROVE  /\ next'[u] = next[u] /\ fired'[u] = fired[u]
               /\ interval'[u] = interval[u] /\ started'[u] = started[u]
               /\ once'[u] = once[u] /\ (u \in timers' <=> u \in timers)
    BY <1>4, <2>1 DEF timer_add, TypeOK
  <2>2. /\ next'[t] = now + iv /\ fired'[t] = 0 /\ interval'[t] = iv
        /\ started'[t] = now /\ now' = now
    BY <1>4 DEF timer_add, TypeOK
  <2>3. iv \in Nat /\ now \in Nat /\ 0 * iv = 0
    BY MessageLoopAssumption, OneMore DEF TypeOK
  <2> QED
    BY <2>1, <2>2, <2>3
<1>5. ASSUME NEW t \in Timers, NEW gone \in BOOLEAN, timer_remove(t, gone)
      PROVE  TimerInv' /\ TimerRate'
  BY <1>5 DEF timer_remove, Erased
<1>6. ASSUME NEW r \in Refs, post(r) \/ abort(r)
      PROVE  UNCHANGED <<timerVars, now>>
  BY <1>6 DEF post, abort
<1>7. ASSUME NEW t \in Threads, send(t) \/ SendReturned(t)
      PROVE  UNCHANGED <<timerVars, now>>
  BY <1>7 DEF send, SendReturned
<1>8. ASSUME NEW d \in Intervals \cup {Never}, process_events(d)
      PROVE  UNCHANGED <<timerVars, now>>
  BY <1>8 DEF process_events
<1>9. CASE FunctionReturned \/ stop \/ signal_handler \/ Destroy
  <2>1. UNCHANGED <<timerVars, now>>
    BY <1>9 DEF FunctionReturned, stop, signal_handler, Destroy
  <2> QED
    BY <1>1, <2>1
<1>10. CASE Iterate
  <2>1. RunTimer \/ UNCHANGED <<timerVars, now>>
    BY <1>10 DEF Iterate, ReturnStopped, RunMessage, ReturnExpired,
         PrepareWait, Wait, WaitReturned
  <2> QED
    BY <1>1, <1>3, <2>1
<1>11. CASE UNCHANGED vars
  BY <1>1, <1>11 DEF vars
<1> HIDE DEF TimerInv, TimerRate
<1> QED
  BY <1>1, <1>2, <1>3, <1>4, <1>5, <1>6, <1>7, <1>8, <1>9, <1>10, <1>11
  DEF Next

\* No timer fires early and no periodic timer gains on the clock, however late
\* the loop looks at it and however often it is started again.
THEOREM TimersKeepTheirRate == Spec => []TimerRate
<1>1. Init => TimerInv /\ TimerRate
  BY DEF Init, TimerInv, TimerRate
<1> QED
  BY <1>1, InitTypeOK, NextTypeOK, NextTimerRate, PTL DEF Spec

-----------------------------------------------------------------------------
(* send().                                                                 *)

\* The calls of process_events that run a function: all, or all but the
\* innermost.
LEMMA InProgressIs ==
  /\ TypeOK => InProgress = 1 .. (IF pc = "run" THEN depth ELSE depth - 1)
  /\ TypeOK' => InProgress' = 1 .. (IF pc' = "run" THEN depth' ELSE depth' - 1)
  BY DEF TypeOK, InProgress

\* What does not touch the messages and functions of a thread.
LEMMA ServedUntouched ==
  ASSUME NEW t \in Threads, Served(t), sender'[t] = sender[t],
         queued(t)' = queued(t), begun(t)' = begun(t)
  PROVE  Served(t)'
  BY DEF Served

\* Calls, returns and wake-ups do not change which functions are under way.
LEMMA BegunUntouched ==
  ASSUME TypeOK, TypeOK', UNCHANGED running,
         (IF pc = "run" THEN depth ELSE depth - 1)
           = (IF pc' = "run" THEN depth' ELSE depth' - 1)
  PROVE  \A t \in Threads : begun(t)' = begun(t)
<1>1. InProgress' = InProgress
  BY InProgressIs
<1> QED
  BY <1>1 DEF begun

\* A message is added by send(), taken to run, and its function returns.
LEMMA NextServed ==
  TypeOK /\ TypeOK' /\ ServedInv /\ [Next]_vars => ServedInv'
<1> SUFFICES ASSUME TypeOK, TypeOK', ServedInv, [Next]_vars
             PROVE  ServedInv'
  OBVIOUS
<1> USE DEF ServedInv, queueVars, callVars, NoOne
<1>0. ASSUME UNCHANGED <<queueVars, running>>,
             (IF pc = "run" THEN depth ELSE depth - 1)
               = (IF pc' = "run" THEN depth' ELSE depth' - 1)
      PROVE  ServedInv'
  BY <1>0, BegunUntouched, ServedUntouched DEF queued, SenderInv
<1>1. CASE ReturnStopped \/ ReturnExpired
  BY <1>0, <1>1 DEF ReturnStopped, ReturnExpired, NothingToRun, Return, TypeOK
<1>2. CASE PrepareWait \/ Wait \/ WaitReturned \/ Destroy \/ Tick
  BY <1>0, <1>2
  DEF PrepareWait, NothingToRun, Wait, WaitReturned, Destroy, Tick
<1>3. CASE stop \/ signal_handler
  BY <1>0, <1>3 DEF stop, signal_handler, Notified
<1>4. ASSUME NEW d \in Intervals \cup {Never}, process_events(d)
      PROVE  ServedInv'
  BY <1>0, <1>4 DEF process_events, TypeOK
<1>5. ASSUME NEW t \in Timers,
             \/ \E iv \in Intervals, o \in BOOLEAN : timer_add(t, iv, o)
             \/ \E gone \in BOOLEAN : timer_remove(t, gone)
      PROVE  ServedInv'
  BY <1>0, <1>5 DEF timer_add, timer_remove
<1>6. CASE UNCHANGED vars
  BY <1>0, <1>6 DEF vars
<1>7. CASE RunMessage
  <2> PICK m \in messages : messages' = messages \ {m} /\ Run(m)
    BY <1>7 DEF RunMessage
  <2>1. /\ depth \in 1 .. MaxDepth /\ UNCHANGED <<sender, depth>>
        /\ InProgress = 1 .. (depth - 1) /\ InProgress' = 1 .. depth
    BY <1>7, InProgressIs DEF RunMessage, Run, TypeOK
  <2>2. \A d \in 1 .. depth :
           running'[d] = IF d = depth THEN m ELSE running[d]
    BY <2>1 DEF Run, TypeOK
  <2>3. ASSUME NEW t \in Threads PROVE Served(t)'
    <3>1. CASE m.sender = t
      <4>1. queued(t) = {m} /\ begun(t) = {} /\ sender[t] = "waiting"
        BY <3>1 DEF Served, queued
      <4>2. queued(t)' = {}
        BY <4>1 DEF queued
      <4>3. begun(t)' = {depth}
        BY <2>1, <2>2, <3>1, <4>1 DEF begun
      <4> QED
        BY <2>1, <4>1, <4>2, <4>3 DEF Served
    <3>2. CASE m.sender # t
      <4>1. queued(t)' = queued(t)
        BY <3>2 DEF queued
      <4>2. begun(t)' = begun(t)
        BY <2>1, <2>2, <3>2 DEF begun
      <4> QED
        BY <2>1, <4>1, <4>2, ServedUntouched
    <3> QED
      BY <3>1, <3>2
  <2> QED
    BY <2>3 DEF SenderInv
<1>8. CASE RunTimer
  <2> PICK u \in Due : Run(Callback(u))
    BY <1>8 DEF RunTimer
  <2>1. /\ depth \in 1 .. MaxDepth /\ UNCHANGED <<queueVars, depth>>
        /\ InProgress = 1 .. (depth - 1) /\ InProgress' = 1 .. depth
    <3>1. depth \in 1 .. MaxDepth
      BY <1>8 DEF RunTimer, TypeOK
    <3> QED
      BY <1>8, <3>1, InProgressIs DEF RunTimer, Run
  <2>2. \A d \in 1 .. depth :
           running'[d] = IF d = depth THEN Callback(u) ELSE running[d]
    BY <2>1 DEF Run, TypeOK
  <2>3. \A t \in Threads : begun(t)' = begun(t)
    BY <2>1, <2>2, MessageLoopAssumption DEF begun, Callback
  <2> QED
    BY <2>1, <2>3, ServedUntouched DEF queued, SenderInv
<1>9. CASE FunctionReturned
  <2>1. /\ depth \in 1 .. MaxDepth /\ UNCHANGED <<messages, depth>>
        /\ InProgress = 1 .. depth /\ InProgress' = 1 .. (depth - 1)
    BY <1>9, InProgressIs DEF FunctionReturned, TypeOK
  <2>2. \A d \in 1 .. (depth - 1) : running'[d] = running[d]
    BY <1>9, <2>1 DEF FunctionReturned, TypeOK
  <2>3. ASSUME NEW t \in Threads PROVE Served(t)'
    <3>1. queued(t)' = queued(t)
      BY <2>1 DEF queued
    <3>2. CASE running[depth].sender = t
      <4>1. depth \in begun(t)
        BY <2>1, <3>2 DEF begun
      <4>2. queued(t) = {} /\ begun(t) = {depth}
        BY <4>1 DEF Served
      <4>3. begun(t)' = {}
        BY <2>1, <2>2, <4>2 DEF begun
      <4>4. sender'[t] = "finished"
        BY <1>9, <3>2 DEF FunctionReturned
      <4> QED
        BY <3>1, <4>2, <4>3, <4>4 DEF Served
    <3>3. CASE running[depth].sender # t
      <4>1. begun(t)' = begun(t)
        BY <2>1, <2>2, <3>3 DEF begun
      <4>2. sender'[t] = sender[t]
        BY <1>9, <3>3 DEF FunctionReturned
      <4> QED
        BY <3>1, <4>1, <4>2, ServedUntouched
    <3> QED
      BY <3>2, <3>3
  <2> QED
    BY <2>1, <2>3 DEF SenderInv
<1>10. ASSUME NEW r \in Refs, post(r) \/ abort(r)
       PROVE  ServedInv'
  <2>1. \A t \in Threads : begun(t)' = begun(t)
    BY <1>10, BegunUntouched DEF post, abort, Notified
  <2>2. \A t \in Threads : queued(t)' = queued(t)
    BY <1>10, MessageLoopAssumption
    DEF post, abort, Message, Aborted, queued, SenderInv
  <2>3. SenderInv'
    BY <1>10 DEF post, abort, Message, Aborted, SenderInv
  <2>4. sender' = sender
    BY <1>10 DEF post, abort
  <2> QED
    BY <2>1, <2>2, <2>3, <2>4, ServedUntouched
<1>11. ASSUME NEW u \in Threads, send(u)
       PROVE  ServedInv'
  <2>1. \A t \in Threads : begun(t)' = begun(t)
    BY <1>11, BegunUntouched DEF send, Notified
  <2>2. \A t \in Threads \ {u} :
           queued(t)' = queued(t) /\ sender'[t] = sender[t]
    BY <1>11 DEF send, Message, queued, TypeOK
  <2>3. Served(u)'
    <3>1. queued(u) = {} /\ begun(u) = {}
      BY <1>11 DEF send, Served
    <3>2. queued(u)' = {Message(NoOne, u)}
      BY <1>11, <3>1 DEF send, queued, Message
    <3>3. sender'[u] = "waiting"
      BY <1>11 DEF send, TypeOK
    <3> QED
      BY <2>1, <3>1, <3>2, <3>3 DEF Served
  <2>4. SenderInv'
    BY <1>11 DEF send, Message, SenderInv
  <2> QED
    BY <2>1, <2>2, <2>3, <2>4, ServedUntouched
<1>12. ASSUME NEW u \in Threads, SendReturned(u)
       PROVE  ServedInv'
  <2>1. \A t \in Threads : begun(t)' = begun(t) /\ queued(t)' = queued(t)
    BY <1>12, BegunUntouched DEF SendReturned, queued
  <2>2. \A t \in Threads : sender'[t] = "waiting" <=> sender[t] = "waiting"
    BY <1>12 DEF SendReturned, TypeOK
  <2>3. SenderInv'
    BY <1>12 DEF SendReturned, SenderInv
  <2> QED
    BY <2>1, <2>2, <2>3 DEF Served
<1> HIDE DEF ServedInv
<1> QED
  BY <1>1, <1>2, <1>3, <1>4, <1>5, <1>6, <1>7, <1>8, <1>9, <1>10, <1>11, <1>12
  DEF Next, Iterate

\* A message of send() is neither lost nor run twice, whatever is destroyed in
\* the meantime and however deep process_events is nested.
THEOREM SendIsServedOnce == Spec => []SendServedOnce
<1>1. Init => ServedInv
  <2> SUFFICES ASSUME Init PROVE ServedInv
    OBVIOUS
  <2>1. InProgress = {} /\ messages = {}
    BY DEF Init, InProgress
  <2> QED
    BY <2>1 DEF Init, ServedInv, SenderInv, Served, queued, begun
<1>2. ServedInv => SendServedOnce
  <2> SUFFICES ASSUME ServedInv, NEW t \in Threads
               PROVE  Cardinality(queued(t)) + Cardinality(begun(t))
                        = IF sender[t] = "waiting" THEN 1 ELSE 0
    BY DEF SendServedOnce, queued, begun
  <2>1. Cardinality({}) = 0 /\ \A x : Cardinality({x}) = 1
    BY FS_EmptySet, FS_Singleton
  <2>2. CASE sender[t] = "waiting"
    <3>1. CASE (\E m : queued(t) = {m}) /\ begun(t) = {}
      <4>1. Cardinality(queued(t)) = 1 /\ Cardinality(begun(t)) = 0
        BY <2>1, <3>1, Zenon
      <4> QED
        BY <2>2, <4>1
    <3>2. CASE queued(t) = {} /\ (\E d : begun(t) = {d})
      <4>1. Cardinality(queued(t)) = 0 /\ Cardinality(begun(t)) = 1
        BY <2>1, <3>2, Zenon
      <4> QED
        BY <2>2, <4>1
    <3> QED
      BY <2>2, <3>1, <3>2 DEF ServedInv, Served
  <2>3. CASE sender[t] # "waiting"
    BY <2>1, <2>3 DEF ServedInv, Served
  <2> QED
    BY <2>2, <2>3
<1> QED
  BY <1>1, <1>2, InitTypeOK, NextTypeOK, NextServed, PTL DEF Spec

=============================================================================
