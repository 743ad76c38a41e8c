--------------------------- MODULE TranscodeStream ---------------------------
(***************************************************************************)
(* vlc::transcode_stream (src/vlc/transcode_stream.cpp): a child process   *)
(* plays a file with libvlc, which writes the transcoded blocks into the   *)
(* pipe to the parent and reports its progress through callbacks; position *)
(* and end go to the parent in shared memory, which the parent polls.      *)
(*                                                                          *)
(* Three threads of the parent take part: the message loop (open, close and *)
(* the timer), the reader (connection_proxy's consume thread, which has     *)
(* been joined when close() is called) and the thread that close() makes to *)
(* empty the pipe.  In the child, libvlc's thread calls back while the main *)
(* thread waits on t.condition; what one of them does with t.mutex locked   *)
(* is one action.                                                           *)
(***************************************************************************)
EXTENDS Process, Integers

CONSTANTS
  MaxBlocks,  \* bound on the number of blocks of a transcoded file
  MaxOpens    \* bound on the number of calls of open()

ASSUME TranscodeStreamAssumption == MaxBlocks \in Nat /\ MaxOpens \in Nat

VARIABLES
  \* the parent
  phase,      \* "none", "open", or the step of close() that is next
  process,    \* the child and the pipes
  reader,     \* whether the reader still reads or was told the end-of-file
  flushed,    \* whether the thread that empties the pipe has ended
  timer,      \* whether update_info_timer runs
  seen,       \* the position that update_info() copied, None outside of it
  last_info,  \* what update_info() found the last time
  opens,      \* number of calls of open()
  \* shared memory
  info,       \* shared_info
  \* the child
  term,       \* term_received
  child,      \* where transcode_process is
  started, end_reached, encountered_error,  \* the flags of struct T
  player,     \* what libvlc's thread does
  blocks,     \* number of blocks it has yet to write
  \* since open() (history): what the user of the stream was told, and whether
  \* the last event missed the child's main thread
  reported,   \* the last position
  ends,       \* number of calls of on_end_reached
  missed

parentVars == <<phase, flushed, timer, opens>>
infoVars   == <<seen, last_info, reported, ends>>
flagVars   == <<started, end_reached, encountered_error>>
childVars  == <<term, child, flagVars, player, blocks>>
vars == <<parentVars, process, reader, infoVars, info, childVars, missed>>

None   == -1
NoInfo == [time |-> 0, end |-> FALSE]

Init ==
  /\ phase = "none" /\ process = Null /\ reader = "gone" /\ flushed = FALSE
  /\ timer = FALSE /\ seen = None /\ last_info = NoInfo /\ opens = 0
  /\ info = NoInfo /\ term = FALSE /\ child = "done"
  /\ started = FALSE /\ end_reached = FALSE /\ encountered_error = FALSE
  /\ player = "none" /\ blocks = 0 /\ reported = 0 /\ ends = 0
  /\ missed = FALSE

-----------------------------------------------------------------------------
(* The child's main thread: transcode_process.                             *)

\* The arguments are read and playing is begun, if libvlc can.
Play ==
  /\ child = "arguments" /\ MayTake(process)
  /\ \/ /\ process' = Taken(process)
        /\ child' = "lock" /\ player' = "opening"
     \/ /\ process' = Exited(Taken(process))
        /\ child' = "done" /\ UNCHANGED player
  /\ UNCHANGED <<parentVars, reader, infoVars, info, term, flagVars, blocks,
                 missed>>

\* Mutant of Over: an end of the file does not end the loop.
OverNotAtEnd == encountered_error \/ term

\* The condition that ends the loop; `process' is false once term is set.
Over == end_reached \/ encountered_error \/ term

\* The head of the loop, from locking t.mutex (at first, or on the return from
\* condition.wait) to releasing it.
Test ==
  /\ child = "lock"
  /\ child' = IF Over THEN "stop" ELSE IF started THEN "seek" ELSE "wait"
  /\ UNCHANGED <<parentVars, process, reader, infoVars, info, term, flagVars,
                 player, blocks, missed>>

\* Chapter, position and rate were set without the mutex.  It is locked again,
\* and the wait begins without another look at the condition of the loop.
Seek ==
  /\ child = "seek"
  /\ started' = FALSE /\ child' = "wait"
  /\ UNCHANGED <<parentVars, process, reader, infoVars, info, term, end_reached,
                 encountered_error, player, blocks, missed>>

\* libvlc_media_player_stop waits for the thread that writes; then the child
\* exits, which closes its end of the pipe.
Stop ==
  /\ child = "stop" /\ player # "writing"
  /\ child' = "done" /\ player' = "stopped"
  /\ process' = Exited(process)
  /\ UNCHANGED <<parentVars, reader, infoVars, info, term, flagVars, blocks,
                 missed>>

\* libvlc takes the whole child with it.
Crash ==
  /\ child # "done"
  /\ child' = "done" /\ player' = "stopped"
  /\ process' = Crashed(process)
  /\ UNCHANGED <<parentVars, reader, infoVars, info, term, flagVars, blocks,
                 missed>>

-----------------------------------------------------------------------------
(* libvlc's thread (external), and T::callback for its events.             *)

\* t.condition.notify_one()
Notified == IF child = "wait" THEN "lock" ELSE child

OnPlaying ==
  /\ player = "opening" /\ player' = "playing"
  /\ started' = TRUE /\ child' = Notified
  /\ UNCHANGED <<parentVars, process, reader, infoVars, info, term, end_reached,
                 encountered_error, blocks, missed>>

\* A block is ready; its write() blocks while the pipe is full.
BeginWrite ==
  /\ player = "playing" /\ blocks > 0 /\ player' = "writing"
  /\ UNCHANGED <<parentVars, process, reader, infoVars, info, term, child,
                 flagVars, blocks, missed>>

\* It is written, and libvlc reports the new time.
OnTimeChanged ==
  /\ player = "writing" /\ MayPut(process)
  /\ process' = Put(process, blocks)
  /\ player' = "playing" /\ blocks' = blocks - 1
  /\ info' = [info EXCEPT !.time = @ + 1] /\ child' = Notified
  /\ UNCHANGED <<parentVars, reader, infoVars, term, flagVars, missed>>

OnEndReached ==
  /\ player = "playing" /\ blocks = 0 /\ player' = "over"
  /\ end_reached' = TRUE /\ info' = [info EXCEPT !.end = TRUE]
  /\ child' = Notified /\ missed' = (child = "seek")
  /\ UNCHANGED <<parentVars, process, reader, infoVars, term, started,
                 encountered_error, blocks>>

OnEncounteredError ==
  /\ player \in {"opening", "playing"} /\ player' = "over"
  /\ encountered_error' = TRUE /\ child' = Notified
  /\ missed' = (child = "seek")
  /\ UNCHANGED <<parentVars, process, reader, infoVars, info, term, started,
                 end_reached, blocks>>

Player ==
  OnPlaying \/ BeginWrite \/ OnTimeChanged \/ OnEndReached \/ OnEncounteredError

-----------------------------------------------------------------------------
(* The parent.                                                             *)

\* A new child gets its arguments and new shared memory.
open ==
  /\ phase = "none" /\ opens < MaxOpens
  /\ phase' = "open" /\ opens' = opens + 1
  /\ process' = Written(Spawned, "arguments")
  /\ reader' = "reading" /\ flushed' = FALSE
  /\ timer' = TRUE /\ last_info' = NoInfo /\ info' = NoInfo
  /\ child' = "arguments" /\ term' = FALSE
  /\ started' = FALSE /\ end_reached' = FALSE /\ encountered_error' = FALSE
  /\ player' = "none" /\ blocks' \in 0 .. MaxBlocks
  /\ reported' = 0 /\ ends' = 0 /\ missed' = FALSE
  /\ UNCHANGED seen

\* The reader takes a block from the pipe, or sees its end.
Read1 ==
  /\ phase = "open" /\ reader = "reading"
  /\ \/ MayRead(process) /\ process' = Read(process) /\ UNCHANGED reader
     \/ AtEof(process) /\ reader' = "eof" /\ UNCHANGED process
  /\ UNCHANGED <<parentVars, infoVars, info, childVars,
                 missed>>

\* Mutant of Reported: the position is forgotten when the end is reported.
ReportedUnlessEnd(new) ==
  /\ reported' = IF new.time # last_info.time /\ ~new.end THEN new.time
                 ELSE reported
  /\ ends' = IF new.end # last_info.end THEN ends + 1 ELSE ends
  /\ last_info' = new

\* update_info() calls back with what differs from the last time.
Reported(new) ==
  /\ reported' = IF new.time # last_info.time THEN new.time ELSE reported
  /\ ends' = IF new.end # last_info.end THEN ends + 1 ELSE ends
  /\ last_info' = new

\* The timer: shared_info is copied field by field while the child writes it.
CopyTime ==
  /\ phase = "open" /\ timer /\ seen = None
  /\ seen' = info.time
  /\ UNCHANGED <<parentVars, process, reader, last_info, reported, ends, info,
                 childVars, missed>>

CopyEnd ==
  /\ seen # None
  /\ Reported([time |-> seen, end |-> info.end]) /\ seen' = None
  /\ UNCHANGED <<parentVars, process, reader, info, childVars,
                 missed>>

\* close(): the timer is stopped and a thread begins to empty the pipe, ...
BeginClose ==
  /\ phase = "open" /\ seen = None
  /\ phase' = "term" /\ timer' = FALSE /\ reader' = "gone"
  /\ UNCHANGED <<process, flushed, opens, infoVars, info, childVars,
                 missed>>

\* Mutant of flush: the pipe is not emptied.
flush_not ==
  /\ phase \in {"term", "join", "flush"} /\ ~flushed
  /\ AtEof(process) /\ flushed' = TRUE /\ UNCHANGED process
  /\ UNCHANGED <<phase, timer, opens, reader, infoVars, info, childVars,
                 missed>>

flush ==
  /\ phase \in {"term", "join", "flush"} /\ ~flushed
  /\ \/ MayRead(process) /\ process' = Read(process) /\ UNCHANGED flushed
     \/ AtEof(process) /\ flushed' = TRUE /\ UNCHANGED process
  /\ UNCHANGED <<phase, timer, opens, reader, infoVars, info, childVars,
                 missed>>

\* ... SIGTERM is sent: its handler sets a flag and wakes nobody, ...
send_term ==
  /\ phase = "term" /\ phase' = "join"
  /\ term' = TRUE
  /\ UNCHANGED <<flushed, timer, opens, process, reader, infoVars, info, child,
                 flagVars, player, blocks, missed>>

\* ... the child's end is waited for, ...
join ==
  /\ phase = "join" /\ MayJoin(process) /\ phase' = "flush"
  /\ UNCHANGED <<flushed, timer, opens, process, reader, infoVars, info,
                 childVars, missed>>

\* ... then that of the thread; the last position is reported.
EndClose ==
  /\ phase = "flush" /\ flushed
  /\ Reported(info)
  /\ phase' = "none" /\ process' = Null
  /\ UNCHANGED <<flushed, timer, opens, reader, seen, info, childVars,
                 missed>>

-----------------------------------------------------------------------------
Child   == Play \/ Test \/ Seek \/ Stop
Closing == send_term \/ join \/ EndClose

Next ==
  \/ Child \/ Player \/ Crash
  \/ open \/ Read1 \/ CopyTime \/ CopyEnd \/ BeginClose \/ flush \/ Closing

Spec == Init /\ [][Next]_vars

\* The threads of parent and child go on; libvlc goes on as long as its write
\* does not block; the reader reads.
FairSpec ==
  /\ Spec
  /\ WF_vars(Child) /\ WF_vars(Player) /\ WF_vars(Read1) /\ WF_vars(CopyEnd)
  /\ WF_vars(flush) /\ WF_vars(Closing)

-----------------------------------------------------------------------------
(* Properties.                                                             *)

\* close() returns although the child may be blocked on a full pipe when it is
\* called and looks at SIGTERM only after libvlc's next event.  It may not if
\* the last event, an end or an error, came while the child's main thread was
\* between l.unlock() and l.lock(): that thread then waits for one more.
CloseReturns ==
  (phase \in {"term", "join", "flush"}) ~> (phase = "none" \/ missed)

\* A reader that keeps reading gets to the end-of-file, except if the child
\* missed the last event and stays.
ReaderEnds ==
  (reader = "reading") ~> (reader # "reading" \/ missed)

\* When close() has returned the user of the stream knows the last position the
\* child reported, and knows of the end, once, exactly if it was reached:
\* whatever was copied while the child was writing it.
LastReported ==
  phase = "none" => /\ reported = info.time
                    /\ ends = IF info.end THEN 1 ELSE 0

=============================================================================
