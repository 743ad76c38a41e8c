-------------------------- MODULE ConnectionProxy --------------------------
(***************************************************************************)
(* pupnp::connection_proxy (src/pupnp/connection_proxy.cpp): one thread,    *)
(* source::consume, copies an input stream into a ring buffer, block by     *)
(* block; every attached connection_proxy is an istream whose streambuf     *)
(* hands out windows ON that ring buffer.  The mutex protects only the      *)
(* bookkeeping: consume fills its block, and the readers use their windows, *)
(* without holding it.                                                      *)
(*                                                                          *)
(* Byte number p of the input is modelled by the number p, so a slot of the *)
(* ring buffer tells which byte it holds.  An action is one critical        *)
(* section (from acquiring the mutex to releasing it or waiting on          *)
(* buffer_condition) or one access the code makes without the mutex.        *)
(***************************************************************************)
EXTENDS Integers, FiniteSets

CONSTANTS
  Readers,      \* connection_proxy objects that share the source
  Owner,        \* the one constructed with the input stream
  BlockSize,    \* block_size; 1048576 in the code
  DataRate,     \* data_rate in bytes/s; 0 means "keep everything, seekable"
  Duration,     \* seconds the ring buffer holds; 30 in the code
  PreloadPart,  \* the preload is this part of the buffer; 10 in the code
  MaxLength     \* bound on the length of the input stream

ASSUME ReadersAssumption ==
  IsFiniteSet(Readers) /\ Owner \in Readers /\ "consumer" \notin Readers

ASSUME SizeAssumption ==
  /\ BlockSize \in Nat \ {0} /\ Duration \in Nat \ {0}
  /\ PreloadPart \in Nat \ {0}
  /\ DataRate \in Nat /\ MaxLength \in Nat

VARIABLES
  length,         \* number of bytes in the input stream,
  input,          \*   those of it that consume() has not read yet,
  good,           \*   and bool(*input)
  consumer,       \* where consume_thread is
  write_block,    \* slot its input->read() writes to
  buffer,         \* the std::vector: slot |-> byte number or Junk
  buffer_size,    \* buffer.size()
  buffer_offset,  \* stream position of the oldest byte kept
  buffer_used,    \* number of bytes kept
  stream_end,
  waiting,        \* threads blocked in buffer_condition.wait()
  status,         \* life cycle of each connection_proxy
  pc,             \* where the thread that uses a connection_proxy is
  off, avail,     \* streambuf.buffer_offset and buffer_available
  taken,          \* gptr() - eback(): bytes taken out of the window
  dangling,       \* streambufs whose window points into a freed vector
  on_detach,      \* whether the on_detach subscription is left
  detach_posted,  \* number of on_detach callbacks posted
  close_posted,   \* number of on_close callbacks posted
  source,         \* life cycle of the shared source object
  last, eof,      \* last byte got by each reader; readers told end-of-file
  probed          \* readers that have moved with seekoff() or seekpos()

inputVars  == <<length, input, good>>
ringVars   == <<consumer, write_block, buffer, buffer_size>>
markVars   == <<buffer_offset, buffer_used>>
windowVars == <<avail, taken, dangling>>
eventVars  == <<on_detach, detach_posted, close_posted>>
vars == <<inputVars, ringVars, markVars, stream_end, waiting, status, pc,
          off, windowVars, eventVars, source, last, eof, probed>>

Junk == -2   \* a slot whose contents are undefined
None == -1   \* no byte delivered yet

Lesser(a, b)  == IF a <= b THEN a ELSE b
Greater(a, b) == IF a >= b THEN a ELSE b

-----------------------------------------------------------------------------
(* connection_proxy::source::source.                                       *)

BlockCount == (DataRate * Duration + BlockSize - 1) \div BlockSize

PreloadThreshold ==
  IF DataRate > 0 THEN Greater(BlockCount \div PreloadPart, 1) * BlockSize
                  ELSE BlockSize

DetachThreshold ==
  IF DataRate > 0 THEN PreloadThreshold + BlockSize ELSE BlockSize * 2

InitialSize ==
  IF DataRate > 0
  THEN Greater(BlockCount * BlockSize, DetachThreshold + BlockSize)
  ELSE BlockSize

Slots(size) == 0 .. (size - 1)

streambufs == {r \in Readers : status[r] = "attached"}

\* Who has a std::shared_ptr to the source.
Holders == {r \in Readers : status[r] \in {"attached", "detached"}}

\* The constructor attaches the owner; connection_manager subscribes to both
\* events before the proxy is given to a client.
Init ==
  /\ length \in 0 .. MaxLength /\ input = length /\ good = TRUE
  /\ consumer = "loop" /\ write_block = 0
  /\ buffer = [s \in Slots(InitialSize) |-> Junk] /\ buffer_size = InitialSize
  /\ buffer_offset = 0 /\ buffer_used = 0
  /\ stream_end = FALSE /\ waiting = {}
  /\ status = [r \in Readers |-> IF r = Owner THEN "attached" ELSE "fresh"]
  /\ pc = [r \in Readers |-> "idle"]
  /\ off = [r \in Readers |-> 0] /\ avail = [r \in Readers |-> 0]
  /\ taken = [r \in Readers |-> 0] /\ dangling = {}
  /\ on_detach = TRUE /\ detach_posted = 0 /\ close_posted = 0
  /\ source = "open"
  /\ last = [r \in Readers |-> None] /\ eof = {} /\ probed = {}

-----------------------------------------------------------------------------
(* recompute_buffer_offset, for streambufs sbs at the offsets o.           *)

\* Mutant of LowestOffset: std::max for std::min.
HighestOffset(o, sbs) ==
  CHOOSE n \in {o[r] : r \in sbs} : \A r \in sbs : n >= o[r]

LowestOffset(o, sbs) ==
  CHOOSE n \in {o[r] : r \in sbs} : \A r \in sbs : n <= o[r]

MayProceed(o, sbs) ==
  /\ DataRate # 0
  /\ sbs # {}
  /\ LowestOffset(o, sbs) >= buffer_offset + BlockSize
  /\ buffer_offset > 0 \/ LowestOffset(o, sbs) >= DetachThreshold

\* Mutant of WholeBlocks: rounds up.
WholeBlocksUp(n) == n + ((-n) % BlockSize)

\* n & ~(block_size - 1)
WholeBlocks(n) == n - (n % BlockSize)

\* How far the oldest byte kept moves up; 0 when it does not.
Proceed(o, sbs) ==
  IF MayProceed(o, sbs)
  THEN WholeBlocks(LowestOffset(o, sbs) - buffer_offset) ELSE 0

\* Mutant of recompute_buffer_offset: buffer_used is not reduced.
RecomputeKeepsUsed(proceed) ==
  buffer_offset' = buffer_offset + proceed /\ buffer_used' = buffer_used

recompute_buffer_offset(proceed) ==
  /\ buffer_offset' = buffer_offset + proceed
  /\ buffer_used' = buffer_used - proceed

\* Mutant of StillWaiting: without the notify_all().
StillWaitingAll(proceed) == IF proceed > 0 THEN waiting ELSE waiting

\* Threads that sleep on after the notify_all() in recompute_buffer_offset.
StillWaiting(proceed) == IF proceed > 0 THEN {} ELSE waiting

\* Mutant of LeavesStart: the callbacks are never posted.
LeavesStartSilently(proceed) == proceed > 0 /\ buffer_offset < 0

\* The first byte goes, so that no streambuf can attach any more.
LeavesStart(proceed) == proceed > 0 /\ buffer_offset = 0

\* Post the on_detach callbacks and clear the list, if `fires' holds.
PostDetach(fires) ==
  /\ on_detach' = (on_detach /\ ~fires)
  /\ detach_posted' = detach_posted + (IF fires /\ on_detach THEN 1 ELSE 0)
  /\ UNCHANGED close_posted

-----------------------------------------------------------------------------
(* source::consume, the thread that fills the ring buffer.                 *)

StreamPos == buffer_offset + buffer_used

HasSpace == buffer_used + BlockSize <= buffer_size

WriteSize(at, size) == Lesser(BlockSize, size - at)

Block(at, n) == at .. (at + n - 1)

ConsumerRuns == consumer = "loop" /\ "consumer" \notin waiting

\* Unlock and call input->read() on a block of a vector of `size' slots with
\* contents `old'; until it returns, the contents of the block are undefined.
BeginBlock(old, size) ==
  LET at == StreamPos % size
  IN  /\ write_block' = at
      /\ buffer' = [s \in Slots(size) |->
           IF s \in Block(at, WriteSize(at, size)) THEN Junk ELSE old[s]]
      /\ buffer_size' = size
      /\ consumer' = "reading"

ConsumeBegin ==
  /\ ConsumerRuns /\ ~stream_end /\ good /\ HasSpace
  /\ BeginBlock(buffer, buffer_size)
  /\ UNCHANGED <<inputVars, markVars, stream_end, waiting, status, pc, off,
                 windowVars, eventVars, source, last, eof, probed>>

\* buffer.resize() moves the vector, and every window on it dangles.
ConsumeGrow ==
  /\ ConsumerRuns /\ ~stream_end /\ good /\ ~HasSpace /\ DataRate = 0
  /\ LET size == buffer_size + BlockSize
     IN  BeginBlock([s \in Slots(size) |->
                       IF s < buffer_size THEN buffer[s] ELSE Junk], size)
  /\ dangling' = {r \in Readers : avail[r] > 0}
  /\ UNCHANGED <<inputVars, markVars, stream_end, waiting, status, pc, off,
                 avail, taken, eventVars, source, last, eof, probed>>

ConsumeWait ==
  /\ ConsumerRuns /\ ~stream_end /\ good /\ ~HasSpace /\ DataRate # 0
  /\ waiting' = waiting \cup {"consumer"}
  /\ UNCHANGED <<inputVars, ringVars, markVars, stream_end, status, pc, off,
                 windowVars, eventVars, source, last, eof, probed>>

\* input->read() returns n = gcount() bytes; it fails when they are too few.
ConsumeEnd ==
  /\ consumer = "reading"
  /\ LET asked == WriteSize(write_block, buffer_size)
         n     == Lesser(asked, input)
     IN  /\ buffer' = [s \in Slots(buffer_size) |->
              IF s \in Block(write_block, n)
              THEN (length - input) + (s - write_block) ELSE buffer[s]]
         /\ buffer_used' = buffer_used + n
         /\ input' = input - n
         /\ good' = (n = asked)
  /\ waiting' = {}
  /\ consumer' = "loop"
  /\ UNCHANGED <<length, write_block, buffer_size, buffer_offset, stream_end,
                 status, pc, off, windowVars, eventVars, source, last, eof,
                 probed>>

\* Mutant of ConsumeExit: the last notify_all() is missing.
ConsumeExitSilently ==
  /\ ConsumerRuns /\ (stream_end \/ ~good)
  /\ consumer' = "ended" /\ stream_end' = TRUE
  /\ UNCHANGED <<inputVars, write_block, buffer, buffer_size, markVars, status,
                 waiting, pc, off, windowVars, eventVars, source, last, eof,
                 probed>>

ConsumeExit ==
  /\ ConsumerRuns /\ (stream_end \/ ~good)
  /\ consumer' = "ended" /\ stream_end' = TRUE
  /\ waiting' = {}
  /\ UNCHANGED <<inputVars, write_block, buffer, buffer_size, markVars, status,
                 pc, off, windowVars, eventVars, source, last, eof, probed>>

consume ==
  ConsumeBegin \/ ConsumeGrow \/ ConsumeWait \/ ConsumeEnd \/ ConsumeExit

-----------------------------------------------------------------------------
(* streambuf::underflow and source::read, for a streambuf at offset o.     *)

\* Mutant of MustWait: < for <=.
MustWaitOffByOne(o, bo) ==
  /\ ~stream_end
  /\ StreamPos < o \/ (bo = 0 /\ StreamPos < PreloadThreshold)

\* The condition of the loop in read(), when the ring buffer starts at bo.
MustWait(o, bo) ==
  /\ ~stream_end
  /\ StreamPos <= o \/ (bo = 0 /\ StreamPos < PreloadThreshold)

WindowSize(o) ==
  Lesser(Lesser(buffer_size - (o % buffer_size), StreamPos - o), BlockSize)

\* setg() on the window at stream position o, `skip' bytes of it used up.
SetWindow(r, o, skip) ==
  /\ avail' = [avail EXCEPT ![r] = WindowSize(o)]
  /\ taken' = [taken EXCEPT ![r] = skip]
  /\ dangling' = dangling \ {r}

ClearWindow(r) ==
  /\ avail' = [avail EXCEPT ![r] = 0]
  /\ taken' = [taken EXCEPT ![r] = 0]
  /\ UNCHANGED dangling

ReadBlocks(r, o, proceed) ==
  /\ MustWait(o, buffer_offset + proceed)
  /\ ClearWindow(r)
  /\ PostDetach(LeavesStart(proceed))
  /\ pc' = [pc EXCEPT ![r] = "read"]
  /\ waiting' = StillWaiting(proceed) \cup {r}
  /\ UNCHANGED eof

ReadDelivers(r, o, proceed) ==
  /\ ~MustWait(o, buffer_offset + proceed) /\ StreamPos > o
  /\ SetWindow(r, o, 0)
  /\ PostDetach(LeavesStart(proceed))
  /\ pc' = [pc EXCEPT ![r] = "idle"]
  /\ waiting' = StillWaiting(proceed)
  /\ UNCHANGED eof

ReadEnds(r, o, proceed) ==
  /\ ~MustWait(o, buffer_offset + proceed) /\ StreamPos <= o
  /\ ClearWindow(r)
  /\ PostDetach(TRUE)
  /\ pc' = [pc EXCEPT ![r] = "idle"]
  /\ waiting' = StillWaiting(proceed)
  /\ eof' = eof \cup {r}

ReadOutcome(r, o, proceed) ==
  \/ ReadBlocks(r, o, proceed)
  \/ ReadDelivers(r, o, proceed)
  \/ ReadEnds(r, o, proceed)

Idle(r) == status[r] = "attached" /\ pc[r] = "idle"

read(r) ==
  LET o       == off[r] + avail[r]
      moved   == [off EXCEPT ![r] = o]
      proceed == Proceed(moved, streambufs)
  IN  /\ Idle(r)
      /\ taken[r] = avail[r]
      /\ off' = moved
      /\ recompute_buffer_offset(proceed)
      /\ ReadOutcome(r, o, proceed)
      /\ UNCHANGED <<inputVars, ringVars, stream_end, status, source, last,
                     probed>>

\* The thread left buffer_condition.wait() and tests the condition again.
ReadWoken(r) ==
  /\ pc[r] = "read" /\ r \notin waiting
  /\ ReadOutcome(r, off[r], 0)
  /\ UNCHANGED <<inputVars, ringVars, markVars, stream_end, status, off,
                 source, last, probed>>

\* The reader takes a byte out of its window, without the mutex.
Take(r) ==
  /\ Idle(r)
  /\ taken[r] < avail[r]
  /\ last' = [last EXCEPT ![r] =
       IF r \in dangling THEN Junk
                         ELSE buffer[(off[r] % buffer_size) + taken[r]]]
  /\ taken' = [taken EXCEPT ![r] = @ + 1]
  /\ UNCHANGED <<inputVars, ringVars, markVars, stream_end, waiting, status,
                 pc, off, avail, dangling, eventVars, source, eof, probed>>

-----------------------------------------------------------------------------
(* streambuf::seekoff / seekpos and source::size / seek.                   *)

\* size() of a source that keeps everything waits for the end of the stream.
SizeBlocks(r) ==
  /\ DataRate = 0
  /\ Idle(r) \/ (pc[r] = "size" /\ r \notin waiting)
  /\ ~stream_end
  /\ pc' = [pc EXCEPT ![r] = "size"]
  /\ waiting' = waiting \cup {r}
  /\ UNCHANGED <<inputVars, ringVars, markVars, stream_end, status, off,
                 windowVars, eventVars, source, last, eof, probed>>

SizeReturned(r) ==
  /\ pc[r] = "size" /\ r \notin waiting
  /\ stream_end
  /\ pc' = [pc EXCEPT ![r] = "idle"]
  /\ UNCHANGED <<inputVars, ringVars, markVars, stream_end, waiting, status,
                 off, windowVars, eventVars, source, last, eof, probed>>

\* Mutant of SizeKnown: size() does not wait for the end of the stream.
SizeSoFar == DataRate = 0 /\ StreamPos > 0

\* size() returns at once, and not 0: seekoff() and seekpos() go on to seek().
SizeKnown == DataRate = 0 /\ stream_end /\ StreamPos > 0

SeekInRange(p) == WholeBlocks(p) >= buffer_offset /\ p <= StreamPos

\* A seek to p that succeeds, tellg() included, which seeks to the position
\* it returns; one that fails changes nothing.
seek(r, p) ==
  /\ Idle(r) /\ SizeKnown
  /\ SeekInRange(p)
  /\ probed' = probed \cup {r}
  /\ off' = [off EXCEPT ![r] = WholeBlocks(p)]
  /\ SetWindow(r, WholeBlocks(p), p % BlockSize)
  /\ last' = [last EXCEPT ![r] = None]
  /\ eof' = eof \ {r}
  /\ UNCHANGED <<inputVars, ringVars, markVars, stream_end, waiting, status,
                 pc, eventVars, source>>

-----------------------------------------------------------------------------
(* connection_proxy::attach and the destructors.                           *)

\* Mutant of CanAttach: buffer_offset is not tested.
CanAlwaysAttach == buffer_offset >= 0

CanAttach == buffer_offset = 0

\* A new proxy attaches to one that is in use.
attach(r) ==
  /\ status[r] = "fresh" /\ streambufs # {}
  /\ status' = [status EXCEPT ![r] = IF CanAttach THEN "attached" ELSE "refused"]
  /\ UNCHANGED <<inputVars, ringVars, markVars, stream_end, waiting, pc, off,
                 windowVars, eventVars, source, last, eof, probed>>

\* ~connection_proxy: source->detach() ...
detach(r) ==
  LET proceed == Proceed(off, streambufs \ {r})
  IN  /\ Idle(r)
      /\ status' = [status EXCEPT ![r] = "detached"]
      /\ recompute_buffer_offset(proceed)
      /\ waiting' = StillWaiting(proceed)
      /\ PostDetach(LeavesStart(proceed))
      /\ UNCHANGED <<inputVars, ringVars, stream_end, pc, off, windowVars,
                     source, last, eof, probed>>

\* Mutant of CloseSource: the consume thread is not woken.
CloseSourceSilently ==
  source' = "closing" /\ stream_end' = TRUE /\ UNCHANGED waiting

CloseSource == source' = "closing" /\ stream_end' = TRUE /\ waiting' = {}

\* ... then source = nullptr; the last holder enters ~source.
Release(r) ==
  /\ status[r] = "detached"
  /\ status' = [status EXCEPT ![r] = "gone"]
  /\ IF Holders = {r} THEN CloseSource
                      ELSE UNCHANGED <<source, stream_end, waiting>>
  /\ UNCHANGED <<inputVars, ringVars, markVars, pc, off, windowVars, eventVars,
                 last, eof, probed>>

\* Mutant of CanJoin: the thread is not joined.
CanAlwaysJoin == source = "closing"

CanJoin == source = "closing" /\ consumer = "ended"

\* consume_thread->join() returns and the on_close callbacks are posted.
Join ==
  /\ CanJoin
  /\ source' = "closed"
  /\ close_posted' = close_posted + 1
  /\ UNCHANGED <<inputVars, ringVars, markVars, stream_end, waiting, status,
                 pc, off, windowVars, on_detach, detach_posted, last, eof,
                 probed>>

\* std::condition_variable::wait may return without a notification.
Spurious(t) ==
  /\ t \in waiting
  /\ waiting' = waiting \ {t}
  /\ UNCHANGED <<inputVars, ringVars, markVars, stream_end, status, pc, off,
                 windowVars, eventVars, source, last, eof, probed>>

-----------------------------------------------------------------------------
\* The webserver thread that serves reader r.
Serve(r) == read(r) \/ ReadWoken(r) \/ Take(r) \/ SizeBlocks(r) \/ SizeReturned(r)

Next ==
  \/ consume
  \/ Join
  \/ \E r \in Readers :
       \/ Serve(r) \/ attach(r) \/ detach(r) \/ Release(r)
       \/ \E p \in 0 .. MaxLength : seek(r, p)
  \/ \E t \in Readers \cup {"consumer"} : Spurious(t)

Spec == Init /\ [][Next]_vars

\* Threads keep running, the input stream delivers or ends, and an attached
\* client keeps asking for data.  A client need not ever detach.
Fairness ==
  /\ WF_vars(consume) /\ WF_vars(Join)
  /\ \A r \in Readers : WF_vars(Serve(r)) /\ WF_vars(Release(r))

FairSpec == Spec /\ Fairness

-----------------------------------------------------------------------------
(* Properties.                                                             *)

\* Every variable has the type its declaration gives it; in particular the
\* unsigned buffer_used and buffer_available never wrap below zero.
TypeOK ==
  /\ length \in Nat /\ input \in 0 .. length /\ good \in BOOLEAN
  /\ consumer \in {"loop", "reading", "ended"}
  /\ buffer_size \in Nat \ {0} /\ write_block \in Slots(buffer_size)
  /\ buffer \in [Slots(buffer_size) -> Int]
  /\ buffer_offset \in Nat /\ buffer_used \in Nat
  /\ stream_end \in BOOLEAN /\ waiting \subseteq Readers \cup {"consumer"}
  /\ status \in
       [Readers -> {"fresh", "attached", "refused", "detached", "gone"}]
  /\ pc \in [Readers -> {"idle", "read", "size"}]
  /\ off \in [Readers -> Nat] /\ avail \in [Readers -> Nat]
  /\ taken \in [Readers -> Nat] /\ dangling \subseteq Readers
  /\ on_detach \in BOOLEAN /\ detach_posted \in Nat /\ close_posted \in Nat
  /\ source \in {"open", "closing", "closed"}
  /\ last \in [Readers -> Int] /\ eof \subseteq Readers
  /\ probed \subseteq Readers

\* Slots that reader r may still read without the mutex.
Unread(r) == Block((off[r] % buffer_size) + taken[r], avail[r] - taken[r])

\* The readers whose window no buffer.resize() can free: every reader of a
\* ring buffer; of a stream that is kept completely those that moved with
\* seekoff() or seekpos(), as get_info() does, before they went on reading.
Promised == IF DataRate > 0 THEN Readers ELSE probed

\* consume() fills its block without the mutex while readers use their
\* windows without the mutex: the two never overlap, and no promised reader
\* uses a window that a buffer.resize() has freed.
NoDataRace ==
  \A r \in streambufs :
    taken[r] < avail[r] =>
      /\ r \in Promised => r \notin dangling
      /\ consumer = "reading" =>
           Unread(r) \cap Block(write_block, WriteSize(write_block, buffer_size))
             = {}

\* Stream position of the next byte for reader r; what tellg() returns.
Position == [r \in Readers |-> off[r] + taken[r]]

\* What a promised reader takes out of the buffer is the byte of the input
\* stream at its own position, whatever the other readers and consume() do.
DeliveredInOrder == \A r \in Promised : last[r] \in {None, Position[r] - 1}

\* underflow() reports end-of-file only to a reader that has had every byte.
CompleteAtEof == \A r \in streambufs : r \in eof => Position[r] = length

\* The connection manager hears of it, exactly once, as soon as the source
\* leaves offset 0 and refuses new readers (recompute_buffer_offset).
DetachAnnounced ==
  /\ detach_posted = IF on_detach THEN 0 ELSE 1
  /\ buffer_offset > 0 => ~on_detach

\* The close event is posted once, when no proxy holds the source any more,
\* the consume thread has ended and nobody sleeps on its condition variable.
ClosedIsQuiet ==
  /\ close_posted = IF source = "closed" THEN 1 ELSE 0
  /\ source = "closed" => consumer = "ended" /\ Holders = {} /\ waiting = {}

\* The last byte of each promised reader; what the others get is not told.
Told == [r \in Readers |-> IF r \in Promised THEN last[r] ELSE None]

Fanout == INSTANCE StreamFanout
            WITH joined <- streambufs, pos <- Position, ended <- eof,
                 sure <- Promised, last <- Told, Seekable <- DataRate = 0

\* connection_proxy implements the fan-out of one stream to many readers,
\* each of which gets every byte once, in order, from the first one on; the
\* bytes are the right ones for every reader that is promised them.
Implements == Fanout!FanoutSpec

\* Every attached client that keeps reading gets to the end of the stream,
\* unless it goes away: no lost wake-up, no full buffer everyone waits on.
EveryReaderFinishes ==
  \A r \in Readers :
    status[r] = "attached" ~> (r \in eof \/ status[r] # "attached")

\* A call of size() returns once the input stream has been read completely.
SizeReturns == \A r \in Readers : (pc[r] = "size") ~> (pc[r] # "size")

\* ~source terminates: the consume thread, even if it sleeps, is joined.
CloseCompletes == (source = "closing") ~> (source = "closed")

=============================================================================
