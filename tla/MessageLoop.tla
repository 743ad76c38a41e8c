---------------------------- MODULE MessageLoop ----------------------------
(***************************************************************************)
(* platform::messageloop (src/platform/messageloop.cpp, the Unix build):    *)
(* the main thread runs posted and sent functions and timers, one at a      *)
(* time, in process_events(); a function that runs may call                 *)
(* process_events() again.  Other threads post, send, stop and destroy      *)
(* messageloop_refs and timers; a signal may request a stop at any moment.  *)
(*                                                                          *)
(* The std::list of messages is the set of its elements, each with the      *)
(* serial number of its push_back(): the list is ordered by serial numbers. *)
(* An action is one critical section, or one access without the mutex.      *)
(* Time is counted in ticks of the steady clock.                            *)
(***************************************************************************)
EXTENDS Integers, FiniteSets

CONSTANTS
  Refs,         \* messageloop_ref objects
  Timers,       \* timer objects,
  SingleShots,  \*   those made by timer::single_shot, which own themselves,
  Foreign,      \*   and those that another thread than the loop's starts
  Threads,      \* the other threads
  Intervals,    \* intervals of timers and durations of process_events
  MaxMessages,  \* bound on the number of posts and sends
  MaxDepth,     \* bound on the nesting of process_events
  MaxTime       \* bound on the clock

ASSUME MessageLoopAssumption ==
  /\ IsFiniteSet(Timers) /\ SingleShots \subseteq Timers
  /\ Foreign \subseteq Timers \ SingleShots
  /\ Refs \cap Timers = {} /\ "none" \notin Refs \cup Timers \cup Threads
  /\ Intervals \subseteq Nat \ {0}
  /\ MaxMessages \in Nat /\ MaxDepth \in Nat \ {0} /\ MaxTime \in Nat

VARIABLES
  messages,   \* the list of messages
  serial,     \* number of messages ever added to it
  timers,     \* the std::set of started timers
  next, interval, once,  \* members of each timer
  started, fired,  \* when it was started, how often it fired since then
  stopped,
  request,    \* the stop request that no process_events() has answered yet
  depth,      \* number of calls of process_events() under way
  pc,         \* where the innermost call is; "run" outside of any call
  deadline,   \* start + duration of each call, Never for run()
  until,      \* the time its wait ends, Never if it has none
  running,    \* the function each call runs
  sender,     \* state of each other thread: in send() or not
  alive,      \* messageloop_refs and timers that are not destroyed
  now,        \* clock.now()
  destroyed   \* ~messageloop has been called

queueVars == <<messages, serial, sender>>
timerVars == <<timers, next, interval, once, started, fired>>
stopVars  == <<stopped, request>>
callVars  == <<depth, deadline, until, running>>
vars == <<queueVars, timerVars, stopVars, callVars, pc, alive, now, destroyed>>

Never == -1
NoOne == "none"

Message(r, t) == [ref |-> r, sender |-> t, serial |-> serial]

Callback(t) == [ref |-> t, sender |-> NoOne, serial |-> 0]

Init ==
  /\ messages = {} /\ serial = 0 /\ sender = [t \in Threads |-> "idle"]
  /\ timers = {} /\ next = [t \in Timers |-> 0]
  /\ interval = [t \in Timers |-> 0] /\ once = [t \in Timers |-> FALSE]
  /\ started = [t \in Timers |-> 0] /\ fired = [t \in Timers |-> 0]
  /\ stopped = FALSE /\ request = "none"
  /\ depth = 0 /\ deadline = [d \in 1 .. MaxDepth |-> Never]
  /\ until = Never /\ running = [d \in 1 .. MaxDepth |-> Callback(NoOne)]
  /\ pc = "run"
  /\ alive = Refs \cup (Timers \ SingleShots)
  /\ now = 0 /\ destroyed = FALSE

\* Everyone but a signal handler waits while process_events has the mutex.
MutexFree == pc # "locked" /\ ~destroyed

\* Mutant of Notified: the notification is missing.
NotifiedNever == IF pc = "wait" THEN pc ELSE pc

\* message_added.notify_one(): only the loop's thread waits on it.
Notified == IF pc = "wait" THEN "top" ELSE pc

-----------------------------------------------------------------------------
(* What any thread does: post, send, stop, ~messageloop_ref, ~timer.       *)

post(r) ==
  /\ MutexFree /\ r \in alive /\ serial < MaxMessages
  /\ messages' = messages \cup {Message(r, NoOne)}
  /\ serial' = serial + 1
  /\ pc' = Notified
  /\ UNCHANGED <<sender, timerVars, stopVars, callVars, alive, now, destroyed>>

send(t) ==
  /\ MutexFree /\ sender[t] = "idle" /\ serial < MaxMessages
  /\ messages' = messages \cup {Message(NoOne, t)}
  /\ serial' = serial + 1
  /\ sender' = [sender EXCEPT ![t] = "waiting"]
  /\ pc' = Notified
  /\ UNCHANGED <<timerVars, stopVars, callVars, alive, now, destroyed>>

\* The loop `while (!finished)' of send() ends.
SendReturned(t) ==
  /\ MutexFree /\ sender[t] = "finished"
  /\ sender' = [sender EXCEPT ![t] = "idle"]
  /\ UNCHANGED <<messages, serial, timerVars, stopVars, callVars, pc, alive,
                 now, destroyed>>

stop ==
  /\ MutexFree
  /\ stopped' = TRUE /\ request' = "call"
  /\ pc' = Notified
  /\ UNCHANGED <<queueVars, timerVars, callVars, alive, now, destroyed>>

\* The handler of SIGINT and SIGTERM does not lock the mutex.
signal_handler ==
  /\ ~destroyed
  /\ stopped' = TRUE /\ request' = "signal"
  /\ pc' = Notified
  /\ UNCHANGED <<queueVars, timerVars, callVars, alive, now, destroyed>>

\* Mutant of Aborted: messages without a ref, those of send(), go too.
AbortedLoosely(r) == {m \in messages : m.ref \in {r, NoOne}}

\* Mutant of Aborted: nothing is removed.
AbortedNone(r) == {m \in messages : m.ref = r /\ r \notin Refs}

Aborted(r) == {m \in messages : m.ref = r}

\* ~messageloop_ref
abort(r) ==
  /\ MutexFree /\ r \in alive \cap Refs
  /\ messages' = messages \ Aborted(r)
  /\ alive' = alive \ {r}
  /\ UNCHANGED <<serial, sender, timerVars, stopVars, callVars, pc, now,
                 destroyed>>

\* timer::start: the loop is not notified.
timer_add(t, iv, o) ==
  /\ MutexFree /\ t \in alive \cup SingleShots
  /\ t \notin Foreign => pc = "run"
  /\ t \in SingleShots => o /\ t \notin timers
  /\ timers' = timers \cup {t}
  /\ interval' = [interval EXCEPT ![t] = iv]
  /\ next' = [next EXCEPT ![t] = now + iv]
  /\ once' = [once EXCEPT ![t] = o]
  /\ started' = [started EXCEPT ![t] = now]
  /\ fired' = [fired EXCEPT ![t] = 0]
  /\ UNCHANGED <<queueVars, stopVars, callVars, pc, alive, now, destroyed>>

\* Mutant of Erased: the timer stays in the set.
ErasedNot(t) == timers \cap Timers

Erased(t) == timers \ {t}

\* timer::stop, and ~timer if the timer is destroyed too.
timer_remove(t, gone) ==
  /\ MutexFree /\ t \in alive \cap Timers
  /\ timers' = Erased(t)
  /\ alive' = IF gone THEN alive \ {t} ELSE alive
  /\ UNCHANGED <<queueVars, next, interval, once, started, fired, stopVars,
                 callVars, pc, now, destroyed>>

-----------------------------------------------------------------------------
(* process_events, on the loop's thread.                                   *)

\* Called by main() or, with a duration, by a function that runs; stopped is
\* reset without the mutex.
process_events(d) ==
  /\ pc = "run" /\ ~destroyed /\ depth < MaxDepth
  /\ IF d = Never THEN depth = 0 ELSE now + d < MaxTime
  /\ stopped' = FALSE /\ UNCHANGED request
  /\ depth' = depth + 1
  /\ deadline' = [deadline EXCEPT ![depth + 1] =
                    IF d = Never THEN Never ELSE now + d]
  /\ pc' = "top"
  /\ UNCHANGED <<queueVars, timerVars, until, running, alive, now, destroyed>>

\* Return to the caller; the local variables of the call are gone.
Return ==
  /\ depth' = depth - 1 /\ pc' = "run"
  /\ deadline' = [deadline EXCEPT ![depth] = Never]

ReturnStopped ==
  /\ pc = "top" /\ stopped
  /\ Return
  /\ request' = "none" /\ UNCHANGED stopped
  /\ UNCHANGED <<queueVars, timerVars, until, running, alive, now, destroyed>>

Run(m) == pc' = "run" /\ running' = [running EXCEPT ![depth] = m]

First(m) == \A n \in messages : m.serial <= n.serial

RunMessage ==
  /\ pc = "top" /\ ~stopped
  /\ \E m \in messages :
       /\ First(m)
       /\ messages' = messages \ {m}
       /\ Run(m)
  /\ UNCHANGED <<serial, sender, timerVars, stopVars, depth, deadline, until,
                 alive, now, destroyed>>

Due == {t \in timers : next[t] <= now}

\* Mutant of NextTime: the timer stays due.
NextTimeStays(t) == next[t]

NextTime(t) == next[t] + interval[t]

\* The first due timer in the std::set, which orders timers by address.
RunTimer ==
  /\ pc = "top" /\ ~stopped /\ messages = {}
  /\ \E t \in Due :
       /\ Run(Callback(t))
       /\ timers' = IF once[t] THEN timers \ {t} ELSE timers
       /\ next' = IF once[t] THEN next ELSE [next EXCEPT ![t] = NextTime(t)]
       /\ fired' = [fired EXCEPT ![t] = @ + 1]
  /\ UNCHANGED <<queueVars, interval, once, started, stopVars, depth, deadline,
                 until, alive, now, destroyed>>

NothingToRun == pc = "top" /\ ~stopped /\ messages = {} /\ Due = {}

Expired == deadline[depth] # Never /\ deadline[depth] < now

ReturnExpired ==
  /\ NothingToRun /\ Expired
  /\ Return
  /\ UNCHANGED <<queueVars, timerVars, stopVars, until, running, alive, now,
                 destroyed>>

WakeTimes ==
  {next[t] : t \in timers}
    \cup (IF deadline[depth] = Never THEN {} ELSE {deadline[depth]})

\* Mutant of Earliest: the last of them.
Latest(times) == CHOOSE n \in times : \A m \in times : m <= n

Earliest(times) == CHOOSE n \in times : \A m \in times : n <= m

\* next_timeout is computed; the mutex is still held.
PrepareWait ==
  /\ NothingToRun /\ ~Expired
  /\ until' = IF WakeTimes = {} THEN Never ELSE Earliest(WakeTimes)
  /\ pc' = "locked"
  /\ UNCHANGED <<queueVars, timerVars, stopVars, depth, deadline, running,
                 alive, now, destroyed>>

\* message_added.wait() or wait_until(): the mutex is released.
Wait ==
  /\ pc = "locked" /\ pc' = "wait"
  /\ UNCHANGED <<queueVars, timerVars, stopVars, callVars, alive, now,
                 destroyed>>

WaitReturned ==
  /\ pc = "wait" /\ until # Never /\ until <= now
  /\ pc' = "top"
  /\ UNCHANGED <<queueVars, timerVars, stopVars, callVars, alive, now,
                 destroyed>>

\* The function that runs returns; that of a send() sets `finished'.
FunctionReturned ==
  /\ pc = "run" /\ depth > 0
  /\ pc' = "top"
  /\ sender' = [t \in Threads |->
       IF t = running[depth].sender THEN "finished" ELSE sender[t]]
  /\ running' = [running EXCEPT ![depth] = Callback(NoOne)]
  /\ UNCHANGED <<messages, serial, timerVars, stopVars, depth, deadline, until,
                 alive, now, destroyed>>

\* ~messageloop, after the objects that have a reference to it are gone.  Its
\* assert(timers.empty()) does not hold here: nobody removes a single shot that
\* has not fired.  A build without assertions goes on as follows.
Destroy ==
  /\ pc = "run" /\ depth = 0 /\ ~destroyed
  /\ alive = {} /\ \A t \in Threads : sender[t] = "idle"
  /\ destroyed' = TRUE
  /\ UNCHANGED <<queueVars, timerVars, stopVars, callVars, pc, alive, now>>

Tick ==
  /\ now < MaxTime
  /\ now' = now + 1
  /\ UNCHANGED <<queueVars, timerVars, stopVars, callVars, pc, alive,
                 destroyed>>

-----------------------------------------------------------------------------
\* One iteration of the loop in process_events.
Iterate ==
  \/ ReturnStopped \/ RunMessage \/ RunTimer \/ ReturnExpired
  \/ PrepareWait \/ Wait \/ WaitReturned

Next ==
  \/ Iterate \/ FunctionReturned \/ stop \/ signal_handler \/ Destroy \/ Tick
  \/ \E r \in Refs : post(r) \/ abort(r)
  \/ \E t \in Threads : send(t) \/ SendReturned(t)
  \/ \E t \in Timers :
       \/ \E iv \in Intervals, o \in BOOLEAN : timer_add(t, iv, o)
       \/ \E gone \in BOOLEAN : timer_remove(t, gone)
  \/ \E d \in Intervals \cup {Never} : process_events(d)

Spec == Init /\ [][Next]_vars

\* The threads keep running and every function the loop runs returns.
Fairness ==
  /\ WF_vars(Iterate) /\ SF_vars(FunctionReturned) /\ WF_vars(Tick)
  /\ \A t \in Threads : SF_vars(SendReturned(t))

FairSpec == Spec /\ Fairness

-----------------------------------------------------------------------------
(* Properties.                                                             *)

TypeOK ==
  /\ messages \subseteq [ref : Refs \cup {NoOne}, sender : Threads \cup {NoOne},
                         serial : Nat]
  /\ serial \in Nat /\ sender \in [Threads -> {"idle", "waiting", "finished"}]
  /\ timers \subseteq Timers /\ next \in [Timers -> Nat]
  /\ interval \in [Timers -> Nat] /\ once \in [Timers -> BOOLEAN]
  /\ started \in [Timers -> Nat] /\ fired \in [Timers -> Nat]
  /\ stopped \in BOOLEAN /\ request \in {"none", "call", "signal"}
  /\ depth \in 0 .. MaxDepth /\ pc \in {"run", "top", "locked", "wait"}
  /\ pc # "run" => depth > 0
  /\ deadline \in [1 .. MaxDepth -> Nat \cup {Never}]
  /\ until \in Nat \cup {Never}
  /\ running \in [1 .. MaxDepth ->
       [ref : Refs \cup Timers \cup {NoOne}, sender : Threads \cup {NoOne},
        serial : Nat]]
  /\ alive \subseteq Refs \cup Timers
  /\ now \in Nat /\ destroyed \in BOOLEAN

\* The loop never sleeps while a message is in the list or after a call of
\* stop(): no wake-up is lost between the tests in process_events and the
\* wait.  (The signal handler has no mutex: its wake-up may be lost.)
NoLostWakeup ==
  pc = "wait" => messages = {} /\ (stopped => request = "signal")

\* The loop never sleeps past the time at which its deadline or a timer that
\* its own thread started is due.
WakesInTime ==
  pc \in {"locked", "wait"} =>
    /\ \A t \in timers \ Foreign : until # Never /\ until <= next[t]
    /\ deadline[depth] # Never => until # Never /\ until <= deadline[depth]

\* Nothing is left in the loop that would call back into a messageloop_ref or
\* a timer that is destroyed.  (Single shots are timers that no object owns:
\* nothing is known of what their functions call, and they may be left in the
\* loop when it ends.)
OnlyLiveCallbacks ==
  /\ \A m \in messages : m.ref \in alive \cup {NoOne}
  /\ timers \subseteq alive \cup SingleShots

\* The functions that are under way, innermost last.
InProgress == {d \in 1 .. depth : d < depth \/ pc = "run"}

\* A thread that waits in send() has exactly one message in the loop, in the
\* list or under way: it is neither dropped nor run twice, and send() does not
\* return before the function has returned.
SendServedOnce ==
  \A t \in Threads :
    LET queued == {m \in messages : m.sender = t}
        begun  == {d \in InProgress : running[d].sender = t}
    IN  Cardinality(queued) + Cardinality(begun)
          = IF sender[t] = "waiting" THEN 1 ELSE 0

\* A timer does not fire early, and a periodic one does not drift: it has not
\* fired more often than whole intervals have passed since it was started.
TimerRate ==
  \A t \in Timers :
    /\ fired[t] * interval[t] <= now - started[t]
    /\ once[t] => fired[t] <= 1

\* A message that was posted is run, unless its messageloop_ref is destroyed,
\* and send() returns, as long as the loop is neither stopped nor left.
EveryMessageServed ==
  /\ \A n \in 0 .. MaxMessages :
       (\E m \in messages : m.serial = n)
         ~> ((\A m \in messages : m.serial # n) \/ stopped \/ depth = 0)
  /\ \A t \in Threads :
       (sender[t] # "idle") ~> (sender[t] = "idle" \/ stopped \/ depth = 0)

\* "failed to initialize server; stopping." (main.cpp): a call of stop() is not
\* forgotten before a call of process_events() has returned because of it.
StopKept == request = "call" => stopped

=============================================================================
