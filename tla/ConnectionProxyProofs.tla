----------------------- MODULE ConnectionProxyProofs -----------------------
(***************************************************************************)
(* Proofs about ConnectionProxy, for every set of readers, block size, data *)
(* rate and stream length.  IInv is the inductive invariant.                *)
(***************************************************************************)
EXTENDS ConnectionProxy, WellFoundedInduction, TLAPS

\* The ring buffer: what is kept fits, and each byte is in its slot.
RingInv ==
  /\ DataRate # 0 => buffer_size = InitialSize
  /\ DataRate = 0 => buffer_offset = 0
  /\ buffer_used <= buffer_size
  /\ \A p \in Nat :
       buffer_offset <= p /\ p < StreamPos => buffer[p % buffer_size] = p

\* consume(): the ring buffer ends where the input goes on, and the block
\* being filled starts there even if readers moved the start meanwhile.
ConsumeInv ==
  /\ StreamPos = length - input
  /\ ~good => input = 0
  /\ consumer = "reading" => HasSpace /\ write_block = StreamPos % buffer_size
  /\ consumer = "ended" => stream_end
  /\ stream_end /\ source = "open" => consumer = "ended" /\ ~good

\* Attached streambufs: the window lies in the part of the stream kept.
WindowInv ==
  \A r \in streambufs :
    /\ buffer_offset <= off[r]
    /\ off[r] + avail[r] <= StreamPos
    /\ (off[r] % buffer_size) + avail[r] <= buffer_size
    /\ taken[r] <= avail[r]
    /\ pc[r] = "read" => avail[r] = 0
    /\ r \in eof => stream_end /\ off[r] + taken[r] = length

\* A vector is never resized under the window of a reader that has probed:
\* it has waited for the end of the stream, after which nothing is resized.
NoResizeInv ==
  /\ DataRate # 0 => dangling = {}
  /\ probed # {} => DataRate = 0 /\ stream_end
  /\ dangling \cap probed = {}

\* Life cycle of proxies and source.
LifeInv ==
  /\ source = "open" <=> Holders # {}
  /\ \A r \in Readers :
       /\ status[r] = "fresh" =>
            /\ off[r] = 0 /\ avail[r] = 0 /\ taken[r] = 0
            /\ r \notin eof /\ pc[r] = "idle"
       /\ pc[r] # "idle" => status[r] = "attached"
       /\ r \in waiting => pc[r] # "idle"
  /\ "consumer" \in waiting => consumer = "loop"
  /\ source = "closed" => consumer = "ended"
  /\ close_posted = IF source = "closed" THEN 1 ELSE 0

IInv ==
  /\ TypeOK /\ RingInv /\ ConsumeInv /\ WindowInv /\ NoResizeInv /\ LifeInv
  /\ DeliveredInOrder /\ DetachAnnounced

-----------------------------------------------------------------------------
(* Arithmetic modulo the buffer size.                                      *)

\* Quotient and remainder determine a number.
LEMMA DivMod ==
  ASSUME NEW a \in Nat, NEW n \in Nat, n > 0
  PROVE  /\ a \div n \in Nat /\ a % n \in Nat /\ a % n < n
         /\ a = n * (a \div n) + (a % n)
  OBVIOUS

\* The only multiple of n between -n and n is 0.
LEMMA SmallMultiple ==
  ASSUME NEW n \in Nat, NEW d \in Int, n > 0, n * d < n, -n < n * d
  PROVE  d = 0
<1>1. CASE d >= 1
  BY <1>1
<1>2. CASE d <= -1
  BY <1>2
<1> QED
  BY <1>1, <1>2

\* Stream positions less than n apart are in different slots.
LEMMA ModDistinct ==
  ASSUME NEW p \in Nat, NEW q \in Nat, NEW n \in Nat, n > 0, p < q, q < p + n
  PROVE  p % n # q % n
<1> SUFFICES ASSUME p % n = q % n PROVE FALSE
  OBVIOUS
<1> DEFINE d == (q \div n) - (p \div n)
<1>1. d \in Int /\ q - p = n * d
  BY DivMod
<1>2. d = 0
  BY <1>1, SmallMultiple
<1> QED
  BY <1>1, <1>2

\* Consecutive stream positions are in consecutive slots up to the end.
LEMMA ModAdd ==
  ASSUME NEW a \in Nat, NEW i \in Nat, NEW n \in Nat, n > 0, (a % n) + i < n
  PROVE  (a + i) % n = (a % n) + i
<1> DEFINE d == ((a + i) \div n) - (a \div n)
<1>0. a + i \in Nat
  OBVIOUS
<1>1. d \in Int /\ n * d = ((a % n) + i) - ((a + i) % n)
  BY <1>0, DivMod
<1>2. -n < n * d /\ n * d < n
  BY <1>0, <1>1, DivMod
<1>3. d = 0
  BY <1>1, <1>2, SmallMultiple
<1> QED
  BY <1>1, <1>3, <1>0, DivMod

\* A number below the modulus is its own remainder.
LEMMA ModSmall ==
  ASSUME NEW a \in Nat, NEW n \in Nat, a < n
  PROVE  a % n = a
  OBVIOUS

-----------------------------------------------------------------------------
(* The operators of the model.                                             *)

\* The sizes computed by the constructor; a ring buffer holds a block at least.
LEMMA Sizes ==
  /\ BlockCount \in Nat
  /\ PreloadThreshold \in Nat /\ DetachThreshold \in Nat
  /\ InitialSize \in Nat /\ InitialSize >= BlockSize
<1>1. DataRate * Duration + BlockSize - 1 \in Nat
  BY SizeAssumption
<1>2. BlockCount \in Nat
  BY <1>1, DivMod, SizeAssumption DEF BlockCount
<1>3. BlockCount \div PreloadPart \in Nat
  BY <1>2, DivMod, SizeAssumption
<1>4. PreloadThreshold \in Nat /\ DetachThreshold \in Nat
  BY <1>3, SizeAssumption DEF PreloadThreshold, DetachThreshold, Greater
<1> QED
  BY <1>2, <1>4, SizeAssumption DEF InitialSize, Greater, DetachThreshold

\* new_offset is the least of the offsets of the streambufs.
LEMMA LowestOffsetIsLowest ==
  ASSUME NEW o \in [Readers -> Nat], NEW sbs \in SUBSET Readers, sbs # {}
  PROVE  /\ LowestOffset(o, sbs) \in Nat
         /\ \E r \in sbs : LowestOffset(o, sbs) = o[r]
         /\ \A r \in sbs : LowestOffset(o, sbs) <= o[r]
<1> DEFINE T == {o[r] : r \in sbs}
           R == OpToRel(<, Nat)
<1>1. T \subseteq Nat /\ T # {}
  OBVIOUS
<1>2. PICK n \in T : \A m \in T : ~ (<<m, n>> \in R)
  BY <1>1, WFMin, NatLessThanWellFounded
<1>3. ASSUME NEW m \in T PROVE n <= m
  <2>1. m \in Nat /\ n \in Nat
    BY <1>1
  <2>2. m < n => <<m, n>> \in R
    BY <2>1 DEF OpToRel
  <2> HIDE DEF R
  <2> QED
    BY <1>2, <2>1, <2>2
<1>4. \E k \in T : \A r \in sbs : k <= o[r]
  BY <1>3
<1> QED
  BY <1>1, <1>4 DEF LowestOffset

\* recompute_buffer_offset never passes a streambuf, nor the end of the data.
LEMMA ProceedIsSafe ==
  ASSUME TypeOK, NEW o \in [Readers -> Nat], NEW sbs \in SUBSET Readers,
         \A r \in sbs : buffer_offset <= o[r] /\ o[r] <= StreamPos
  PROVE  /\ Proceed(o, sbs) \in Nat
         /\ Proceed(o, sbs) <= buffer_used
         /\ Proceed(o, sbs) > 0 => DataRate # 0
         /\ \A r \in sbs : buffer_offset + Proceed(o, sbs) <= o[r]
<1>1. CASE ~MayProceed(o, sbs)
  BY <1>1 DEF Proceed, TypeOK
<1>2. CASE MayProceed(o, sbs)
  <2> DEFINE new == LowestOffset(o, sbs)
  <2>1. /\ sbs # {} /\ DataRate # 0
        /\ new \in Nat
        /\ \E r \in sbs : new = o[r]
        /\ \A r \in sbs : new <= o[r]
    BY <1>2, LowestOffsetIsLowest DEF MayProceed
  <2>2. new - buffer_offset \in Nat /\ new <= StreamPos
    BY <2>1 DEF TypeOK
  <2>3. /\ Proceed(o, sbs) \in Nat
        /\ Proceed(o, sbs) <= new - buffer_offset
    BY <1>2, <2>2, SizeAssumption, DivMod DEF Proceed, WholeBlocks
  <2> HIDE DEF new
  <2> QED
    BY <2>1, <2>2, <2>3 DEF TypeOK, StreamPos
<1> QED
  BY <1>1, <1>2

-----------------------------------------------------------------------------
(* IInv is inductive: the initial states, and one lemma per action.        *)

\* The proxy starts with an empty buffer.
LEMMA InitIInv == Init => IInv
<1> SUFFICES ASSUME Init PROVE IInv
  OBVIOUS
<1> USE DEF Init
<1>1. TypeOK
  <2>1. /\ InitialSize \in Nat \ {0}
        /\ buffer \in [Slots(InitialSize) -> Int] /\ 0 \in Slots(InitialSize)
    BY Sizes, SizeAssumption DEF Slots, Junk
  <2>2. length \in Nat /\ input \in 0 .. length
    BY SizeAssumption
  <2>3. /\ off \in [Readers -> Nat] /\ avail \in [Readers -> Nat]
        /\ taken \in [Readers -> Nat] /\ last \in [Readers -> Int]
    BY DEF None
  <2>4. /\ pc \in [Readers -> {"idle", "read", "size"}]
        /\ status \in
             [Readers -> {"fresh", "attached", "refused", "detached", "gone"}]
    OBVIOUS
  <2> QED
    BY <2>1, <2>2, <2>3, <2>4 DEF TypeOK
<1>2. RingInv /\ ConsumeInv
  BY Sizes, SizeAssumption DEF RingInv, ConsumeInv, StreamPos
<1>3. WindowInv
  BY Sizes, SizeAssumption, ModSmall DEF WindowInv, StreamPos, streambufs
<1>4. NoResizeInv /\ LifeInv
  BY ReadersAssumption DEF NoResizeInv, LifeInv, Holders
<1>5. DeliveredInOrder /\ DetachAnnounced
  BY DEF DeliveredInOrder, Promised, DetachAnnounced
<1> QED
  BY <1>1, <1>2, <1>3, <1>4, <1>5 DEF IInv

\* The consumer waits for room.
LEMMA ConsumeWaitIInv ==
  ASSUME IInv, ConsumeWait
  PROVE  IInv'
<1> USE DEF ConsumeWait, ConsumerRuns, inputVars, ringVars, markVars, windowVars, eventVars
<1>1. TypeOK'
  BY DEF IInv, TypeOK
<1>2. RingInv' /\ ConsumeInv'
  BY DEF IInv, TypeOK, RingInv, ConsumeInv, LifeInv, StreamPos, HasSpace, Holders
<1>3. WindowInv' /\ NoResizeInv'
  BY DEF IInv, TypeOK, WindowInv, NoResizeInv, StreamPos, streambufs
<1>4. LifeInv'
  BY ReadersAssumption DEF IInv, TypeOK, LifeInv, Holders
<1>5. DeliveredInOrder' /\ DetachAnnounced'
  BY DEF IInv, TypeOK, DeliveredInOrder, Promised, DetachAnnounced, Position
<1> QED
  BY <1>1, <1>2, <1>3, <1>4, <1>5 DEF IInv

\* The consumer ends.
LEMMA ConsumeExitIInv ==
  ASSUME IInv, ConsumeExit
  PROVE  IInv'
<1> USE DEF ConsumeExit, ConsumerRuns, inputVars, ringVars, markVars, windowVars, eventVars
<1>1. TypeOK'
  BY DEF IInv, TypeOK
<1>2. RingInv' /\ ConsumeInv'
  BY DEF IInv, TypeOK, RingInv, ConsumeInv, LifeInv, StreamPos, HasSpace, Holders
<1>3. WindowInv' /\ NoResizeInv'
  BY DEF IInv, TypeOK, WindowInv, NoResizeInv, StreamPos, streambufs
<1>4. LifeInv'
  BY ReadersAssumption DEF IInv, TypeOK, LifeInv, Holders
<1>5. DeliveredInOrder' /\ DetachAnnounced'
  BY DEF IInv, TypeOK, DeliveredInOrder, Promised, DetachAnnounced, Position
<1> QED
  BY <1>1, <1>2, <1>3, <1>4, <1>5 DEF IInv

\* A reader that asks for the size blocks.
LEMMA SizeBlocksIInv ==
  ASSUME IInv, NEW r \in Readers, SizeBlocks(r)
  PROVE  IInv'
<1> USE DEF SizeBlocks, Idle, inputVars, ringVars, markVars, windowVars, eventVars
<1>1. TypeOK'
  BY DEF IInv, TypeOK
<1>2. RingInv' /\ ConsumeInv'
  BY DEF IInv, TypeOK, RingInv, ConsumeInv, LifeInv, StreamPos, HasSpace, Holders
<1>3. WindowInv' /\ NoResizeInv'
  BY DEF IInv, TypeOK, WindowInv, NoResizeInv, StreamPos, streambufs
<1>4. LifeInv'
  BY ReadersAssumption DEF IInv, TypeOK, LifeInv, Holders
<1>5. DeliveredInOrder' /\ DetachAnnounced'
  BY DEF IInv, TypeOK, DeliveredInOrder, Promised, DetachAnnounced, Position
<1> QED
  BY <1>1, <1>2, <1>3, <1>4, <1>5 DEF IInv

\* A reader that asked for the size returns.
LEMMA SizeReturnedIInv ==
  ASSUME IInv, NEW r \in Readers, SizeReturned(r)
  PROVE  IInv'
<1> USE DEF SizeReturned, inputVars, ringVars, markVars, windowVars, eventVars
<1>1. TypeOK'
  BY DEF IInv, TypeOK
<1>2. RingInv' /\ ConsumeInv'
  BY DEF IInv, TypeOK, RingInv, ConsumeInv, LifeInv, StreamPos, HasSpace, Holders
<1>3. WindowInv' /\ NoResizeInv'
  BY DEF IInv, TypeOK, WindowInv, NoResizeInv, StreamPos, streambufs
<1>4. LifeInv'
  BY ReadersAssumption DEF IInv, TypeOK, LifeInv, Holders
<1>5. DeliveredInOrder' /\ DetachAnnounced'
  BY DEF IInv, TypeOK, DeliveredInOrder, Promised, DetachAnnounced, Position
<1> QED
  BY <1>1, <1>2, <1>3, <1>4, <1>5 DEF IInv

\* A thread wakes up without being notified.
LEMMA SpuriousIInv ==
  ASSUME IInv, NEW t \in Readers \cup {"consumer"}, Spurious(t)
  PROVE  IInv'
<1> USE DEF Spurious, inputVars, ringVars, markVars, windowVars, eventVars
<1>1. TypeOK'
  BY DEF IInv, TypeOK
<1>2. RingInv' /\ ConsumeInv'
  BY DEF IInv, TypeOK, RingInv, ConsumeInv, LifeInv, StreamPos, HasSpace, Holders
<1>3. WindowInv' /\ NoResizeInv'
  BY DEF IInv, TypeOK, WindowInv, NoResizeInv, StreamPos, streambufs
<1>4. LifeInv'
  BY ReadersAssumption DEF IInv, TypeOK, LifeInv, Holders
<1>5. DeliveredInOrder' /\ DetachAnnounced'
  BY DEF IInv, TypeOK, DeliveredInOrder, Promised, DetachAnnounced, Position
<1> QED
  BY <1>1, <1>2, <1>3, <1>4, <1>5 DEF IInv

\* A reader is attached.
LEMMA attachIInv ==
  ASSUME IInv, NEW r \in Readers, attach(r)
  PROVE  IInv'
<1> USE DEF attach, CanAttach, inputVars, ringVars, markVars, windowVars, eventVars
<1>1. TypeOK'
  BY DEF IInv, TypeOK
<1>2. RingInv' /\ ConsumeInv'
  BY DEF IInv, TypeOK, RingInv, ConsumeInv, LifeInv, StreamPos, HasSpace, Holders
<1>3. WindowInv' /\ NoResizeInv'
  <2>1. status[r] = "fresh" => off[r] = 0 /\ avail[r] = 0 /\ taken[r] = 0
                                 /\ r \notin eof /\ pc[r] = "idle"
    BY DEF IInv, LifeInv
  <2>2. 0 % buffer_size = 0
    BY ModSmall DEF IInv, TypeOK
  <2> QED
    BY <2>1, <2>2 DEF IInv, TypeOK, WindowInv, NoResizeInv, StreamPos, streambufs
<1>4. LifeInv'
  <2>1. Holders # {} /\ Holders' # {}
    BY DEF IInv, TypeOK, Holders, streambufs
  <2> QED
    BY <2>1, ReadersAssumption DEF IInv, TypeOK, LifeInv, Holders
<1>5. DeliveredInOrder' /\ DetachAnnounced'
  BY DEF IInv, TypeOK, DeliveredInOrder, Promised, DetachAnnounced, Position
<1> QED
  BY <1>1, <1>2, <1>3, <1>4, <1>5 DEF IInv

\* A reader lets go of its source, and the last one closes it.
LEMMA ReleaseIInv ==
  ASSUME IInv, NEW r \in Readers, Release(r)
  PROVE  IInv'
<1> USE DEF Release, CloseSource, inputVars, ringVars, markVars, windowVars, eventVars
<1>1. TypeOK'
  BY DEF IInv, TypeOK
<1>2. RingInv' /\ ConsumeInv'
  BY DEF IInv, TypeOK, RingInv, ConsumeInv, LifeInv, StreamPos, HasSpace, Holders
<1>3. WindowInv' /\ NoResizeInv'
  BY DEF IInv, TypeOK, WindowInv, NoResizeInv, StreamPos, streambufs
<1>4. LifeInv'
  BY ReadersAssumption DEF IInv, TypeOK, LifeInv, Holders
<1>5. DeliveredInOrder' /\ DetachAnnounced'
  BY DEF IInv, TypeOK, DeliveredInOrder, Promised, DetachAnnounced, Position
<1> QED
  BY <1>1, <1>2, <1>3, <1>4, <1>5 DEF IInv

\* The consumer is joined.
LEMMA JoinIInv ==
  ASSUME IInv, Join
  PROVE  IInv'
<1> USE DEF Join, CanJoin, inputVars, ringVars, markVars, windowVars, eventVars
<1>1. TypeOK'
  BY DEF IInv, TypeOK
<1>2. RingInv' /\ ConsumeInv'
  BY DEF IInv, TypeOK, RingInv, ConsumeInv, LifeInv, StreamPos, HasSpace, Holders
<1>3. WindowInv' /\ NoResizeInv'
  BY DEF IInv, TypeOK, WindowInv, NoResizeInv, StreamPos, streambufs
<1>4. LifeInv'
  BY ReadersAssumption DEF IInv, TypeOK, LifeInv, Holders
<1>5. DeliveredInOrder' /\ DetachAnnounced'
  BY DEF IInv, TypeOK, DeliveredInOrder, Promised, DetachAnnounced, Position
<1> QED
  BY <1>1, <1>2, <1>3, <1>4, <1>5 DEF IInv

\* The next byte in a window is the one at the reader's position.
LEMMA WindowHolds ==
  ASSUME IInv, NEW r \in streambufs, taken[r] < avail[r]
  PROVE  /\ off[r] + taken[r] < StreamPos
         /\ buffer[(off[r] % buffer_size) + taken[r]] = off[r] + taken[r]
<1> DEFINE p == off[r] + taken[r]
<1>1. /\ r \in Readers
      /\ off[r] \in Nat /\ taken[r] \in Nat /\ avail[r] \in Nat
      /\ buffer_size \in Nat /\ buffer_size > 0
  BY DEF IInv, TypeOK, streambufs
<1>2. /\ buffer_offset <= p /\ p < StreamPos
      /\ (off[r] % buffer_size) + taken[r] < buffer_size
  BY <1>1, DivMod DEF IInv, TypeOK, WindowInv, StreamPos
<1>3. (off[r] % buffer_size) + taken[r] = p % buffer_size
  BY <1>1, <1>2, ModAdd
<1>4. buffer[p % buffer_size] = p
  BY <1>1, <1>2 DEF IInv, RingInv
<1> QED
  BY <1>1, <1>2, <1>3, <1>4

\* The window of a promised reader is never on a freed vector.
LEMMA PromisedDontDangle ==
  ASSUME IInv, NEW r \in Promised
  PROVE  r \in Readers /\ r \notin dangling
  BY SizeAssumption DEF IInv, TypeOK, NoResizeInv, Promised

\* A reader takes a byte out of its window.
LEMMA TakeIInv ==
  ASSUME IInv, NEW r \in Readers, Take(r)
  PROVE  IInv'
<1> USE DEF Take, Idle, inputVars, ringVars, markVars, windowVars, eventVars
<1>1. /\ r \in streambufs
      /\ off[r] \in Nat /\ taken[r] \in Nat /\ avail[r] \in Nat
  BY DEF IInv, TypeOK, streambufs
<1>5. /\ \E b \in Int : last' = [last EXCEPT ![r] = b]
      /\ r \in Promised => last' = [last EXCEPT ![r] = off[r] + taken[r]]
  <2> DEFINE b == IF r \in dangling THEN Junk
                  ELSE buffer[(off[r] % buffer_size) + taken[r]]
  <2>1. buffer[(off[r] % buffer_size) + taken[r]] = off[r] + taken[r]
    BY <1>1, WindowHolds
  <2>2. b \in Int /\ last' = [last EXCEPT ![r] = b]
    BY <1>1, <2>1 DEF Junk
  <2>3. r \in Promised => b = off[r] + taken[r]
    BY <2>1, PromisedDontDangle
  <2> QED
    BY <2>2, <2>3
<1>6. TypeOK'
  BY <1>1, <1>5 DEF IInv, TypeOK
<1>7. RingInv' /\ ConsumeInv'
  BY DEF IInv, TypeOK, RingInv, ConsumeInv, LifeInv, StreamPos, HasSpace, Holders
<1>8. WindowInv' /\ NoResizeInv'
  <2>1. \A q \in streambufs : q \in eof => taken[q] = avail[q]
    BY DEF IInv, TypeOK, WindowInv, ConsumeInv, streambufs
  <2> QED
    BY <1>1, <2>1 DEF IInv, TypeOK, WindowInv, NoResizeInv, StreamPos, streambufs
<1>9. LifeInv'
  BY DEF IInv, TypeOK, LifeInv, Holders
<1>10. DeliveredInOrder'
  <2>1. Promised' = Promised /\ Promised \subseteq Readers
    BY DEF IInv, TypeOK, Promised
  <2>2. ASSUME NEW q \in Promised
        PROVE  last'[q] \in {None, Position'[q] - 1}
    <3>1. q \in Readers /\ Position[q] = off[q] + taken[q]
          /\ Position'[q] = off[q] + taken'[q]
      BY <2>1 DEF Position
    <3>2. CASE q = r
      <4>1. last'[r] = off[r] + taken[r] /\ taken'[r] = taken[r] + 1
        BY <1>5, <3>1, <3>2 DEF IInv, TypeOK
      <4> QED
        BY <1>1, <3>1, <3>2, <4>1
    <3>3. CASE q # r
      BY <1>5, <3>1, <3>3 DEF IInv, TypeOK, DeliveredInOrder
    <3> QED
      BY <3>2, <3>3
  <2> QED
    BY <2>1, <2>2 DEF DeliveredInOrder
<1>11. DetachAnnounced'
  BY DEF IInv, DetachAnnounced
<1> QED
  BY <1>6, <1>7, <1>8, <1>9, <1>10, <1>11 DEF IInv

\* The block is outside the part of the ring buffer that is in use.
LEMMA BlockIsFree ==
  ASSUME IInv, HasSpace, NEW p \in Nat, buffer_offset <= p, p < StreamPos
  PROVE  p % buffer_size
           \notin Block(StreamPos % buffer_size,
                        WriteSize(StreamPos % buffer_size, buffer_size))
<1> DEFINE at == StreamPos % buffer_size
<1>1. /\ StreamPos \in Nat /\ buffer_size \in Nat /\ buffer_size > 0
      /\ at \in Nat /\ at < buffer_size
  BY DivMod DEF IInv, TypeOK, StreamPos
<1> SUFFICES ASSUME NEW s \in Block(at, WriteSize(at, buffer_size)),
                    s = p % buffer_size
             PROVE  FALSE
  OBVIOUS
<1>2. /\ s \in Nat /\ s < buffer_size /\ s - at \in Nat /\ s - at < BlockSize
  BY <1>1, SizeAssumption DEF Block, WriteSize, Lesser
<1>3. (StreamPos + (s - at)) % buffer_size = s
  BY <1>1, <1>2, ModAdd
<1>4. /\ StreamPos + (s - at) \in Nat /\ p < StreamPos + (s - at)
      /\ StreamPos + (s - at) < p + buffer_size
  BY <1>1, <1>2, SizeAssumption DEF HasSpace, StreamPos, IInv, TypeOK
<1> QED
  BY <1>1, <1>3, <1>4, ModDistinct

\* The consumer begins to read its source.
LEMMA ConsumeBeginIInv ==
  ASSUME IInv, ConsumeBegin
  PROVE  IInv'
<1> USE DEF ConsumeBegin, ConsumerRuns, inputVars, markVars, windowVars, eventVars
<1> DEFINE at == StreamPos % buffer_size
<1>1. /\ StreamPos \in Nat /\ buffer_size \in Nat /\ buffer_size > 0
      /\ at \in Nat /\ at < buffer_size /\ StreamPos' = StreamPos
  BY DivMod DEF IInv, TypeOK, StreamPos
<1>2. /\ write_block' = at /\ buffer_size' = buffer_size /\ consumer' = "reading"
      /\ buffer' = [s \in Slots(buffer_size) |->
           IF s \in Block(at, WriteSize(at, buffer_size)) THEN Junk
                                                          ELSE buffer[s]]
  BY DEF BeginBlock
<1>3. TypeOK'
  <2>1. buffer' \in [Slots(buffer_size) -> Int]
    BY <1>2 DEF IInv, TypeOK, Junk
  <2> QED
    BY <1>1, <1>2, <2>1 DEF IInv, TypeOK, Slots
<1>4. RingInv'
  <2>1. ASSUME NEW p \in Nat, buffer_offset <= p, p < StreamPos
        PROVE  buffer'[p % buffer_size] = p
    <3>1. p % buffer_size \in Slots(buffer_size)
      BY <1>1, DivMod DEF Slots
    <3> QED
      BY <1>2, <2>1, <3>1, BlockIsFree DEF IInv, RingInv
  <2> QED
    BY <1>1, <1>2, <2>1 DEF IInv, RingInv
<1>5. ConsumeInv' /\ WindowInv' /\ NoResizeInv'
  BY <1>1, <1>2 DEF IInv, ConsumeInv, WindowInv, NoResizeInv, HasSpace, streambufs
<1>6. LifeInv'
  BY <1>2 DEF IInv, TypeOK, LifeInv, Holders
<1>7. DeliveredInOrder' /\ DetachAnnounced'
  BY DEF IInv, DeliveredInOrder, Promised, DetachAnnounced, Position
<1> QED
  BY <1>3, <1>4, <1>5, <1>6, <1>7 DEF IInv

\* buffer.resize() happens while no reader has probed; positions keep their
\* slots, as nothing wraps in a buffer that keeps everything.
LEMMA ConsumeGrowIInv ==
  ASSUME IInv, ConsumeGrow
  PROVE  IInv'
<1> USE DEF ConsumeGrow, ConsumerRuns, inputVars, markVars, eventVars
<1> DEFINE size == buffer_size + BlockSize
           old  == [s \in Slots(size) |->
                      IF s < buffer_size THEN buffer[s] ELSE Junk]
<1>1. /\ buffer_offset = 0 /\ StreamPos = buffer_used /\ StreamPos' = StreamPos
      /\ buffer_used \in Nat /\ buffer_used <= buffer_size /\ buffer_used < size
      /\ buffer_size \in Nat /\ buffer_size > 0 /\ size \in Nat
  BY SizeAssumption DEF IInv, TypeOK, RingInv, StreamPos
<1>2. StreamPos % size = buffer_used
  BY <1>1, ModSmall
<1>3. /\ write_block' = buffer_used /\ buffer_size' = size
      /\ consumer' = "reading"
      /\ buffer' = [s \in Slots(size) |->
           IF s \in Block(buffer_used, WriteSize(buffer_used, size))
           THEN Junk ELSE old[s]]
  BY <1>2 DEF BeginBlock
<1>4. probed = {}
  BY DEF IInv, NoResizeInv
<1>5. dangling' \subseteq Readers
  OBVIOUS
<1> HIDE DEF size
<1>6. TypeOK'
  <2>1. old \in [Slots(size) -> Int]
    BY <1>1 DEF IInv, TypeOK, Slots, Junk
  <2> HIDE DEF old
  <2>2. buffer' \in [Slots(size) -> Int]
    BY <1>3, <2>1 DEF Junk
  <2> QED
    BY <1>1, <1>3, <1>5, <2>2 DEF IInv, TypeOK, Slots
<1>7. RingInv'
  <2>1. ASSUME NEW p \in Nat, p < buffer_used
        PROVE  buffer'[p % size] = p
    <3>1. p % size = p /\ p % buffer_size = p
      BY <1>1, <2>1, ModSmall
    <3>2. p \in Slots(size) /\ p < buffer_size /\ buffer[p] = p
      BY <1>1, <2>1, <3>1 DEF IInv, RingInv, Slots
    <3>3. p \notin Block(buffer_used, WriteSize(buffer_used, size))
      BY <1>1, <2>1 DEF Block
    <3> QED
      BY <1>3, <3>1, <3>2, <3>3
  <2> QED
    BY <1>1, <1>3, <2>1 DEF IInv, RingInv
<1>8. ConsumeInv'
  <2>1. HasSpace'
    BY <1>1, <1>3, SizeAssumption DEF HasSpace, size
  <2> QED
    BY <1>1, <1>2, <1>3, <2>1 DEF IInv, ConsumeInv
<1>9. WindowInv' /\ NoResizeInv'
  <2>1. ASSUME NEW r \in streambufs
        PROVE  (off[r] % size) + avail[r] <= size
    <3>1. /\ off[r] \in Nat /\ avail[r] \in Nat
          /\ off[r] + avail[r] <= buffer_used
      BY <1>1 DEF IInv, TypeOK, WindowInv, streambufs
    <3>2. off[r] % size = off[r]
      BY <1>1, <3>1, ModSmall
    <3> QED
      BY <1>1, <3>1, <3>2
  <2>2. WindowInv'
    BY <1>1, <1>3, <2>1 DEF IInv, WindowInv, streambufs
  <2>3. NoResizeInv'
    BY <1>4 DEF NoResizeInv
  <2> QED
    BY <2>2, <2>3
<1>10. LifeInv'
  BY <1>3 DEF IInv, TypeOK, LifeInv, Holders
<1>11. DeliveredInOrder' /\ DetachAnnounced'
  BY DEF IInv, DeliveredInOrder, Promised, DetachAnnounced, Position
<1> QED
  BY <1>6, <1>7, <1>8, <1>9, <1>10, <1>11 DEF IInv

\* The bytes read go to the slots of their stream positions.
LEMMA ConsumeEndIInv ==
  ASSUME IInv, ConsumeEnd
  PROVE  IInv'
<1> USE DEF ConsumeEnd, windowVars, eventVars
<1> DEFINE asked == WriteSize(write_block, buffer_size)
           n     == Lesser(asked, input)
<1>1. /\ StreamPos \in Nat /\ buffer_size \in Nat /\ buffer_size > 0
      /\ HasSpace /\ write_block = StreamPos % buffer_size
      /\ write_block \in Nat /\ write_block < buffer_size
      /\ StreamPos = length - input /\ input \in Nat /\ length \in Nat
  BY DivMod DEF IInv, TypeOK, StreamPos, ConsumeInv
<1>2. /\ asked \in Nat /\ asked <= BlockSize
      /\ write_block + asked <= buffer_size
      /\ n \in Nat /\ n <= asked /\ n <= input /\ (n = asked \/ n = input)
  BY <1>1, SizeAssumption DEF WriteSize, Lesser
<1>3. /\ buffer' = [s \in Slots(buffer_size) |->
           IF s \in Block(write_block, n)
           THEN (length - input) + (s - write_block) ELSE buffer[s]]
      /\ buffer_used' = buffer_used + n /\ input' = input - n
      /\ good' = (n = asked)
  OBVIOUS
<1> HIDE DEF n, asked
<1>4. StreamPos' = StreamPos + n
  BY <1>2, <1>3 DEF IInv, TypeOK, StreamPos
<1>5. TypeOK'
  <2>1. buffer' \in [Slots(buffer_size) -> Int]
    BY <1>1, <1>2, <1>3 DEF IInv, TypeOK, Slots, Block
  <2>2. input' \in 0 .. length /\ buffer_used' \in Nat
    BY <1>1, <1>2, <1>3 DEF IInv, TypeOK
  <2> QED
    BY <1>3, <2>1, <2>2 DEF IInv, TypeOK
<1>6. RingInv'
  <2>1. ASSUME NEW p \in Nat, buffer_offset <= p, p < StreamPos + n
        PROVE  buffer'[p % buffer_size] = p
    <3>1. p % buffer_size \in Slots(buffer_size)
      BY <1>1, DivMod DEF Slots
    <3>2. CASE p < StreamPos
      <4>1. p % buffer_size \notin Block(write_block, asked)
        BY <1>1, <2>1, <3>2, BlockIsFree DEF asked
      <4>2. p % buffer_size \notin Block(write_block, n)
        BY <1>1, <1>2, <3>1, <4>1 DEF Block, Slots
      <4> QED
        BY <1>3, <2>1, <3>1, <3>2, <4>2 DEF IInv, RingInv
    <3>3. CASE p >= StreamPos
      <4> DEFINE i == p - StreamPos
      <4>1. i \in Nat /\ i < n /\ p = StreamPos + i
        BY <1>1, <1>2, <2>1, <3>3
      <4>2. p % buffer_size = write_block + i
        BY <1>1, <1>2, <4>1, ModAdd
      <4>3. write_block + i \in Block(write_block, n)
        BY <1>1, <1>2, <4>1 DEF Block
      <4> QED
        BY <1>1, <1>3, <3>1, <4>1, <4>2, <4>3
    <3> QED
      BY <1>1, <3>2, <3>3
  <2>2. buffer_used' <= buffer_size
    BY <1>1, <1>2, <1>3, SizeAssumption DEF IInv, TypeOK, HasSpace
  <2> QED
    BY <1>4, <2>1, <2>2 DEF IInv, RingInv
<1>7. ConsumeInv'
  BY <1>1, <1>2, <1>3, <1>4 DEF IInv, TypeOK, ConsumeInv
<1>8. WindowInv' /\ NoResizeInv'
  BY <1>1, <1>2, <1>4 DEF IInv, TypeOK, WindowInv, NoResizeInv, streambufs
<1>9. LifeInv'
  BY DEF IInv, TypeOK, LifeInv, Holders
<1>10. DeliveredInOrder' /\ DetachAnnounced'
  BY DEF IInv, DeliveredInOrder, Promised, DetachAnnounced, Position
<1> QED
  BY <1>5, <1>6, <1>7, <1>8, <1>9, <1>10 DEF IInv

\* recompute_buffer_offset keeps what it must, and consume() is not disturbed.
LEMMA RecomputeKeeps ==
  ASSUME IInv, NEW k \in Nat, k <= buffer_used, k > 0 => DataRate # 0,
         recompute_buffer_offset(k),
         UNCHANGED <<inputVars, ringVars, stream_end, source>>
  PROVE  /\ StreamPos' = StreamPos /\ StreamPos \in Nat
         /\ buffer_offset' \in Nat /\ buffer_used' \in Nat
         /\ RingInv' /\ ConsumeInv'
<1> USE DEF recompute_buffer_offset, inputVars, ringVars
<1>1. /\ StreamPos' = StreamPos /\ StreamPos \in Nat
      /\ buffer_offset' \in Nat /\ buffer_used' \in Nat
      /\ buffer_offset <= buffer_offset' /\ buffer_used' <= buffer_used
  BY DEF IInv, TypeOK, StreamPos
<1>2. RingInv'
  BY <1>1 DEF IInv, TypeOK, RingInv
<1>3. ConsumeInv'
  BY <1>1, SizeAssumption DEF IInv, TypeOK, ConsumeInv, HasSpace
<1> QED
  BY <1>1, <1>2, <1>3

\* The on_detach callbacks are posted when offset 0 is left, and only once.
LEMMA DetachStaysAnnounced ==
  ASSUME IInv, NEW k \in Nat, buffer_offset' = buffer_offset + k,
         NEW fires \in BOOLEAN, PostDetach(fires), LeavesStart(k) => fires
  PROVE  DetachAnnounced'
<1>1. buffer_offset \in Nat /\ on_detach \in BOOLEAN /\ detach_posted \in Nat
  BY DEF IInv, TypeOK
<1>2. CASE fires
  <2>1. ~on_detach'
    BY <1>2 DEF PostDetach
  <2>2. detach_posted' = IF on_detach THEN detach_posted + 1 ELSE detach_posted
    BY <1>1, <1>2 DEF PostDetach
  <2> QED
    BY <1>1, <2>1, <2>2 DEF IInv, DetachAnnounced
<1>3. CASE ~fires
  <2>1. on_detach' = on_detach /\ detach_posted' = detach_posted
    BY <1>1, <1>3 DEF PostDetach
  <2>2. k = 0 \/ buffer_offset > 0
    BY <1>1, <1>3 DEF LeavesStart
  <2> QED
    BY <1>1, <2>1, <2>2 DEF IInv, DetachAnnounced
<1> QED
  BY <1>2, <1>3

\* A window is the smallest of three sizes, so it fits all of them.
LEMMA LeastOfThree ==
  ASSUME NEW a \in Int, NEW b \in Int, NEW c \in Int, NEW d \in Int
  PROVE  /\ d <= a /\ d <= b /\ d <= c => d <= Lesser(Lesser(a, b), c)
         /\ Lesser(Lesser(a, b), c) <= a
         /\ Lesser(Lesser(a, b), c) <= b
         /\ Lesser(Lesser(a, b), c) <= c
         /\ a >= 0 /\ b >= 0 /\ c >= 0 => Lesser(Lesser(a, b), c) \in Nat
BY DEF Lesser

\* What a reader has yet to read fits in the buffer.
LEMMA WindowFits ==
  ASSUME NEW o \in Nat, StreamPos \in Nat, o <= StreamPos,
         buffer_size \in Nat, o % buffer_size \in Nat,
         o % buffer_size < buffer_size
  PROVE  /\ WindowSize(o) \in Nat /\ WindowSize(o) <= StreamPos - o
         /\ (o % buffer_size) + WindowSize(o) <= buffer_size
<1> DEFINE room == buffer_size - (o % buffer_size)
           left == StreamPos - o
           w    == Lesser(Lesser(room, left), BlockSize)
<1>1. room \in Int /\ room >= 0 /\ left \in Int /\ left >= 0
  OBVIOUS
<1>2. BlockSize \in Int /\ BlockSize >= 0
  BY SizeAssumption
<1>3. w \in Nat /\ w <= room /\ w <= left
  <2> HIDE DEF room, left
  <2> QED
    BY <1>1, <1>2, LeastOfThree
<1>4. WindowSize(o) = w
  BY DEF WindowSize
<1>5. (o % buffer_size) + w <= buffer_size
  <2> HIDE DEF w
  <2> QED
    BY <1>3
<1> QED
  BY <1>3, <1>4, <1>5

\* The loop of read() and what follows it, after recompute_buffer_offset.
LEMMA ReadOutcomeIInv ==
  ASSUME IInv, NEW r \in streambufs, r \notin waiting,
         taken[r] = avail[r],
         NEW k \in Nat, k <= buffer_used, k > 0 => DataRate # 0,
         NEW o \in Nat, o = off[r] + avail[r],
         off' = [off EXCEPT ![r] = o],
         \A s \in streambufs : buffer_offset + k <= off'[s],
         recompute_buffer_offset(k), ReadOutcome(r, o, k),
         UNCHANGED <<inputVars, ringVars, stream_end, status, source, last,
                     probed>>
  PROVE  IInv'
<1> USE DEF inputVars, ringVars
<1>1. /\ StreamPos' = StreamPos /\ StreamPos \in Nat
      /\ buffer_offset' \in Nat /\ buffer_used' \in Nat
      /\ buffer_offset' = buffer_offset + k
      /\ RingInv' /\ ConsumeInv'
  BY RecomputeKeeps DEF recompute_buffer_offset
<1>2. /\ r \in Readers /\ o <= StreamPos
      /\ buffer_size \in Nat /\ buffer_size > 0
      /\ o % buffer_size \in Nat /\ o % buffer_size < buffer_size
      /\ buffer_size' = buffer_size
  BY DivMod DEF IInv, TypeOK, WindowInv, streambufs
<1>3. PICK n \in Nat :
        /\ avail' = [avail EXCEPT ![r] = n]
        /\ n <= StreamPos - o
        /\ (o % buffer_size) + n <= buffer_size
        /\ n > 0 => ReadDelivers(r, o, k)
        /\ ReadBlocks(r, o, k) \/ ReadDelivers(r, o, k) \/ ReadEnds(r, o, k)
  <2>1. CASE ReadDelivers(r, o, k)
    <3>1. /\ WindowSize(o) \in Nat /\ WindowSize(o) <= StreamPos - o
          /\ (o % buffer_size) + WindowSize(o) <= buffer_size
      BY <1>1, <1>2, WindowFits
    <3>2. avail' = [avail EXCEPT ![r] = WindowSize(o)]
      BY <2>1 DEF ReadDelivers, SetWindow
    <3> QED
      BY <2>1, <3>1, <3>2
  <2>2. CASE ReadBlocks(r, o, k) \/ ReadEnds(r, o, k)
    <3>1. avail' = [avail EXCEPT ![r] = 0]
      BY <2>2 DEF ReadBlocks, ReadEnds, ClearWindow
    <3>2. 0 <= StreamPos - o /\ (o % buffer_size) + 0 <= buffer_size
      BY <1>1, <1>2
    <3> WITNESS 0 \in Nat
    <3> QED
      BY <2>2, <3>1, <3>2
  <2> QED
    BY <2>1, <2>2 DEF ReadOutcome
<1>4. /\ taken' = [taken EXCEPT ![r] = 0]
      /\ dangling' \subseteq dangling
  BY <1>3 DEF ReadBlocks, ReadDelivers, ReadEnds, SetWindow, ClearWindow
<1>5. /\ pc' \in [Readers -> {"idle", "read", "size"}]
      /\ \A q \in Readers : q # r => pc'[q] = pc[q]
      /\ pc'[r] = "read" => MustWait(o, buffer_offset + k) /\ n = 0
      /\ pc'[r] \in {"idle", "read"}
      /\ waiting' \subseteq waiting \cup {r}
      /\ r \in waiting' => pc'[r] = "read"
  <2>0. pc \in [Readers -> {"idle", "read", "size"}] /\ avail \in [Readers -> Nat]
    BY DEF IInv, TypeOK
  <2>1. CASE ReadBlocks(r, o, k)
    <3>1. avail'[r] = n /\ avail'[r] = 0
      BY <1>2, <1>3, <2>0, <2>1 DEF ReadBlocks, ClearWindow
    <3> QED
      BY <1>2, <2>0, <2>1, <3>1 DEF ReadBlocks, StillWaiting
  <2>2. CASE ReadDelivers(r, o, k)
    BY <1>2, <2>0, <2>2 DEF ReadDelivers, StillWaiting
  <2>3. CASE ReadEnds(r, o, k)
    BY <1>2, <2>0, <2>3 DEF ReadEnds, StillWaiting
  <2> QED
    BY <1>3, <2>1, <2>2, <2>3
<1>6. /\ eof' \subseteq eof \cup {r}
      /\ eof' # eof => ~MustWait(o, buffer_offset + k) /\ StreamPos <= o
  BY <1>3 DEF ReadBlocks, ReadDelivers, ReadEnds
<1>7. \E fires \in BOOLEAN : PostDetach(fires) /\ (LeavesStart(k) => fires)
  BY <1>3 DEF ReadBlocks, ReadDelivers, ReadEnds, LeavesStart
<1>8. on_detach' \in BOOLEAN /\ detach_posted' \in Nat /\ close_posted' = close_posted
  BY <1>7 DEF IInv, TypeOK, PostDetach
<1>9. TypeOK'
  <2>1. /\ off' \in [Readers -> Nat] /\ avail' \in [Readers -> Nat]
        /\ taken' \in [Readers -> Nat] /\ dangling' \subseteq Readers
    BY <1>2, <1>3, <1>4 DEF IInv, TypeOK
  <2>2. eof' \subseteq Readers /\ waiting' \subseteq Readers \cup {"consumer"}
    BY <1>2, <1>5, <1>6 DEF IInv, TypeOK
  <2> QED
    BY <1>1, <1>5, <1>8, <2>1, <2>2 DEF IInv, TypeOK
<1>10. WindowInv'
  <2> SUFFICES ASSUME NEW q \in streambufs
               PROVE  (/\ buffer_offset <= off[q]
                       /\ off[q] + avail[q] <= StreamPos
                       /\ (off[q] % buffer_size) + avail[q] <= buffer_size
                       /\ taken[q] <= avail[q]
                       /\ pc[q] = "read" => avail[q] = 0
                       /\ q \in eof => stream_end /\ off[q] + taken[q] = length)'
    BY DEF WindowInv, streambufs
  <2>0. q \in Readers /\ off[q] \in Nat /\ avail[q] \in Nat /\ taken[q] \in Nat
        /\ buffer_offset \in Nat
    BY DEF streambufs, IInv, TypeOK
  <2>1. CASE q # r
    BY <1>1, <1>2, <1>3, <1>4, <1>5, <1>6, <2>0, <2>1 DEF IInv, TypeOK, WindowInv
  <2>2. CASE q = r
    <3>1. /\ off'[r] = o /\ avail'[r] = n /\ taken'[r] = 0
      BY <1>2, <1>3, <1>4, <2>0, <2>2 DEF IInv, TypeOK
    <3>2. r \in eof => stream_end /\ o = length
      BY <1>2, <2>2 DEF IInv, TypeOK, WindowInv
    <3>3. stream_end => StreamPos = length
      BY <1>2, <2>2 DEF IInv, TypeOK, ConsumeInv, LifeInv, Holders, streambufs
    <3>4. eof' # eof => stream_end /\ StreamPos = o
      BY <1>1, <1>2, <1>6 DEF MustWait
    <3>5. r \in eof' => stream_end /\ o = length
      BY <1>6, <3>2, <3>3, <3>4
    <3> QED
      BY <1>1, <1>2, <1>3, <1>5, <2>2, <3>1, <3>5
  <2> QED
    BY <2>1, <2>2
<1>11. NoResizeInv'
  BY <1>4 DEF IInv, NoResizeInv
<1>12. LifeInv'
  <2>1. status[r] = "attached"
    BY DEF streambufs
  <2> QED
    BY <1>2, <1>3, <1>4, <1>5, <1>6, <1>8, <2>1, ReadersAssumption
       DEF IInv, TypeOK, LifeInv, Holders
<1>13. DeliveredInOrder'
  <2>1. Position' = Position
    BY <1>2, <1>4 DEF IInv, TypeOK, Position
  <2> QED
    BY <2>1 DEF IInv, DeliveredInOrder, Promised
<1>14. DetachAnnounced'
  BY <1>1, <1>7, DetachStaysAnnounced
<1> QED
  BY <1>1, <1>9, <1>10, <1>11, <1>12, <1>13, <1>14 DEF IInv

\* A read keeps the invariant.
LEMMA readIInv ==
  ASSUME IInv, NEW r \in Readers, read(r)
  PROVE  IInv'
<1> DEFINE o     == off[r] + avail[r]
           moved == [off EXCEPT ![r] = o]
           k     == Proceed(moved, streambufs)
<1>1. r \in streambufs /\ taken[r] = avail[r] /\ r \notin waiting
  BY DEF read, Idle, streambufs, IInv, LifeInv
<1>2. o \in Nat /\ moved \in [Readers -> Nat] /\ streambufs \in SUBSET Readers
  BY DEF IInv, TypeOK, streambufs
<1>3. \A s \in streambufs : buffer_offset <= moved[s] /\ moved[s] <= StreamPos
  BY <1>1, <1>2 DEF IInv, TypeOK, WindowInv, StreamPos, streambufs
<1>4. /\ k \in Nat /\ k <= buffer_used /\ (k > 0 => DataRate # 0)
      /\ \A s \in streambufs : buffer_offset + k <= moved[s]
  BY <1>2, <1>3, ProceedIsSafe DEF IInv
<1>5. /\ off' = moved /\ recompute_buffer_offset(k) /\ ReadOutcome(r, o, k)
      /\ UNCHANGED <<inputVars, ringVars, stream_end, status, source, last,
                     probed>>
  BY DEF read
<1> HIDE DEF k
<1> QED
  BY <1>1, <1>2, <1>4, <1>5, ReadOutcomeIInv

\* A reader that waited for data is woken.
LEMMA ReadWokenIInv ==
  ASSUME IInv, NEW r \in Readers, ReadWoken(r)
  PROVE  IInv'
<1> DEFINE k == 0
           o == off[r]
<1>1. /\ r \in streambufs /\ r \notin waiting
      /\ avail[r] = 0 /\ taken[r] = 0 /\ off[r] \in Nat
  BY DEF ReadWoken, streambufs, IInv, TypeOK, LifeInv, WindowInv
<1>3. off' = [off EXCEPT ![r] = o] /\ o = off[r] + avail[r] /\ o \in Nat
  BY <1>1 DEF ReadWoken, IInv, TypeOK
<1>4. recompute_buffer_offset(k) /\ k \in Nat /\ k <= buffer_used /\ ~(k > 0)
  BY DEF ReadWoken, recompute_buffer_offset, markVars, IInv, TypeOK
<1>5. \A s \in streambufs : buffer_offset + k <= off'[s]
  BY DEF ReadWoken, IInv, TypeOK, WindowInv
<1>6. /\ ReadOutcome(r, o, k)
      /\ UNCHANGED <<inputVars, ringVars, stream_end, status, source, last,
                     probed>>
  BY DEF ReadWoken
<1> HIDE DEF k, o
<1> QED
  BY <1>1, <1>3, <1>4, <1>5, <1>6, ReadOutcomeIInv

\* A reader is detached.
LEMMA detachIInv ==
  ASSUME IInv, NEW r \in Readers, detach(r)
  PROVE  IInv'
<1> USE DEF inputVars, ringVars, windowVars
<1> DEFINE rest == streambufs \ {r}
           k    == Proceed(off, rest)
<1>1. /\ off \in [Readers -> Nat] /\ rest \in SUBSET Readers
      /\ \A s \in rest : buffer_offset <= off[s] /\ off[s] <= StreamPos
  BY DEF IInv, TypeOK, WindowInv, StreamPos, streambufs
<1>2. /\ k \in Nat /\ k <= buffer_used /\ (k > 0 => DataRate # 0)
      /\ \A s \in rest : buffer_offset + k <= off[s]
  BY <1>1, ProceedIsSafe DEF IInv
<1>3. /\ status[r] = "attached" /\ pc[r] = "idle"
      /\ status' = [status EXCEPT ![r] = "detached"]
      /\ recompute_buffer_offset(k)
      /\ waiting' = StillWaiting(k) /\ PostDetach(LeavesStart(k))
      /\ UNCHANGED <<inputVars, ringVars, stream_end, pc, off, windowVars,
                     source, last, eof, probed>>
  BY DEF detach, Idle
<1> HIDE DEF k
<1>4. /\ StreamPos' = StreamPos /\ StreamPos \in Nat
      /\ buffer_offset' \in Nat /\ buffer_used' \in Nat
      /\ buffer_offset' = buffer_offset + k
      /\ RingInv' /\ ConsumeInv'
  BY <1>2, <1>3, RecomputeKeeps DEF recompute_buffer_offset
<1>5. waiting' \subseteq waiting
  BY <1>3 DEF StillWaiting
<1>6. streambufs' = rest /\ Holders' = Holders
  BY <1>3 DEF streambufs, Holders, IInv, TypeOK
<1>7. TypeOK'
  <2>1. /\ on_detach' \in BOOLEAN /\ detach_posted' \in Nat
        /\ close_posted' \in Nat
    BY <1>3 DEF PostDetach, IInv, TypeOK
  <2> QED
    BY <1>3, <1>4, <1>5, <2>1 DEF IInv, TypeOK
<1>8. WindowInv' /\ NoResizeInv'
  BY <1>2, <1>3, <1>4, <1>6 DEF IInv, WindowInv, NoResizeInv
<1>9. LifeInv'
  BY <1>3, <1>5, <1>6 DEF IInv, TypeOK, LifeInv, PostDetach
<1>10. DeliveredInOrder'
  BY <1>3 DEF IInv, DeliveredInOrder, Promised, Position
<1>11. DetachAnnounced'
  BY <1>2, <1>3, <1>4, DetachStaysAnnounced DEF LeavesStart
<1> QED
  BY <1>4, <1>7, <1>8, <1>9, <1>10, <1>11 DEF IInv

\* A seek in a stream that is kept completely ends up inside its window.
LEMMA seekIInv ==
  ASSUME IInv, NEW r \in Readers, NEW p \in Nat, seek(r, p)
  PROVE  IInv'
<1> USE DEF inputVars, ringVars, markVars, eventVars
<1> DEFINE a    == WholeBlocks(p)
           skip == p % BlockSize
           n    == WindowSize(a)
<1>1. /\ r \in streambufs /\ pc[r] = "idle" /\ DataRate = 0 /\ stream_end
      /\ p <= StreamPos /\ buffer_offset = 0
      /\ StreamPos = buffer_used /\ StreamPos \in Nat /\ StreamPos <= buffer_size
      /\ buffer_size \in Nat /\ buffer_size > 0
  BY DEF seek, Idle, SizeKnown, SeekInRange, streambufs, IInv, TypeOK, RingInv, StreamPos
<1>2. a \in Nat /\ skip \in Nat /\ skip < BlockSize /\ p = a + skip
  BY DivMod, SizeAssumption DEF WholeBlocks
<1>3. /\ a % buffer_size \in Nat /\ a % buffer_size < buffer_size
      /\ skip <= buffer_size - (a % buffer_size)
  <2>1. a % buffer_size \in Nat /\ a % buffer_size < buffer_size
    BY <1>1, <1>2, DivMod
  <2>2. CASE a < buffer_size
    BY <1>1, <1>2, <2>2, ModSmall
  <2>3. CASE a >= buffer_size
    BY <1>1, <1>2, <2>1, <2>3
  <2> QED
    BY <1>1, <1>2, <2>1, <2>2, <2>3
<1>4. /\ off' = [off EXCEPT ![r] = a] /\ avail' = [avail EXCEPT ![r] = n]
      /\ taken' = [taken EXCEPT ![r] = skip] /\ dangling' = dangling \ {r}
      /\ last' = [last EXCEPT ![r] = None] /\ eof' = eof \ {r}
      /\ probed' = probed \cup {r}
      /\ UNCHANGED <<inputVars, ringVars, markVars, stream_end, waiting,
                     status, pc, eventVars, source>>
  BY DEF seek, SetWindow
<1>5. /\ n \in Nat /\ skip <= n /\ a + n <= StreamPos
      /\ (a % buffer_size) + n <= buffer_size
  <2> DEFINE room == buffer_size - (a % buffer_size)
             left == StreamPos - a
  <2>1. /\ n \in Nat /\ n <= left
        /\ (a % buffer_size) + n <= buffer_size
    <3> HIDE DEF a, skip
    <3> QED
      BY <1>1, <1>2, <1>3, WindowFits
  <2>2. /\ room \in Int /\ left \in Int /\ BlockSize \in Int /\ skip \in Int
        /\ skip <= room /\ skip <= left /\ skip <= BlockSize
    <3> HIDE DEF a, skip
    <3> QED
      BY <1>1, <1>2, <1>3, SizeAssumption
  <2>3. skip <= Lesser(Lesser(room, left), BlockSize)
    <3> HIDE DEF room, left, skip
    <3> QED
      BY <2>2, LeastOfThree
  <2>4. skip <= n
    <3> HIDE DEF a, skip
    <3> QED
      BY <2>3 DEF WindowSize
  <2> HIDE DEF a, skip, n
  <2> QED
    BY <1>1, <1>2, <2>1, <2>4
<1> HIDE DEF a, skip, n
<1>6. TypeOK'
  BY <1>2, <1>4, <1>5 DEF IInv, TypeOK, None
<1>7. RingInv' /\ ConsumeInv'
  BY <1>4 DEF IInv, RingInv, ConsumeInv, StreamPos, HasSpace
<1>8. WindowInv' /\ NoResizeInv'
  BY <1>1, <1>2, <1>4, <1>5
     DEF IInv, TypeOK, WindowInv, NoResizeInv, StreamPos, streambufs
<1>9. LifeInv'
  BY <1>1, <1>4 DEF IInv, TypeOK, LifeInv, Holders, streambufs
<1>10. DeliveredInOrder'
  <2>1. Promised = probed /\ Promised' = probed \cup {r} /\ r \in Readers
    BY <1>1, <1>4 DEF Promised
  <2>2. ASSUME NEW q \in probed, q # r
        PROVE  Position'[q] = Position[q] /\ last'[q] = last[q]
    BY <1>4, <2>2 DEF IInv, TypeOK, Position
  <2>3. last'[r] = None
    BY <1>4, <2>1 DEF IInv, TypeOK
  <2> QED
    BY <2>1, <2>2, <2>3 DEF IInv, DeliveredInOrder
<1>11. DetachAnnounced'
  BY <1>4 DEF IInv, DetachAnnounced
<1> QED
  BY <1>6, <1>7, <1>8, <1>9, <1>10, <1>11 DEF IInv

\* Every step preserves the inductive invariant.
LEMMA NextIInv == IInv /\ [Next]_vars => IInv'
<1> SUFFICES ASSUME IInv, [Next]_vars PROVE IInv'
  OBVIOUS
<1>1. CASE consume
  BY <1>1, ConsumeBeginIInv, ConsumeGrowIInv, ConsumeWaitIInv, ConsumeEndIInv,
     ConsumeExitIInv DEF consume
<1>2. CASE Join
  BY <1>2, JoinIInv
<1>3. ASSUME NEW r \in Readers, Serve(r)
      PROVE  IInv'
  BY <1>3, readIInv, ReadWokenIInv, TakeIInv, SizeBlocksIInv, SizeReturnedIInv
     DEF Serve
<1>4. ASSUME NEW r \in Readers, attach(r) \/ detach(r) \/ Release(r)
      PROVE  IInv'
  BY <1>4, attachIInv, detachIInv, ReleaseIInv
<1>5. ASSUME NEW r \in Readers, NEW p \in 0 .. MaxLength, seek(r, p)
      PROVE  IInv'
  BY <1>5, SizeAssumption, seekIInv
<1>6. ASSUME NEW t \in Readers \cup {"consumer"}, Spurious(t)
      PROVE  IInv'
  BY <1>6, SpuriousIInv
<1>7. CASE UNCHANGED vars
  <2>1. UNCHANGED <<Position, Promised, last>>
    BY <1>7 DEF vars, windowVars, Position, Promised
  <2> QED
    BY <1>7, <2>1 DEF vars, inputVars, ringVars, markVars, windowVars, eventVars, IInv,
       TypeOK, RingInv, ConsumeInv, WindowInv, NoResizeInv, LifeInv, StreamPos,
       HasSpace, streambufs, Holders, DeliveredInOrder, DetachAnnounced
<1> QED
  BY <1>1, <1>2, <1>3, <1>4, <1>5, <1>6, <1>7 DEF Next

-----------------------------------------------------------------------------
(* What follows from IInv.                                                 *)

\* The slots of an unread window hold bytes kept, so none is being written.
LEMMA WindowsAreSafe == IInv => NoDataRace
<1> SUFFICES ASSUME IInv, NEW r \in streambufs, taken[r] < avail[r]
             PROVE  /\ r \in Promised => r \notin dangling
                    /\ consumer = "reading" =>
                         Unread(r) \cap Block(write_block,
                                         WriteSize(write_block, buffer_size)) = {}
  BY DEF NoDataRace
<1>1. r \in Promised => r \notin dangling
  BY PromisedDontDangle
<1>2. ASSUME consumer = "reading", NEW s \in Unread(r),
             s \in Block(write_block, WriteSize(write_block, buffer_size))
      PROVE  FALSE
  <2> DEFINE i == s - (off[r] % buffer_size)
  <2>1. /\ r \in Readers /\ off[r] \in Nat /\ taken[r] \in Nat
        /\ avail[r] \in Nat /\ buffer_size \in Nat /\ buffer_size > 0
        /\ off[r] % buffer_size \in Nat
        /\ (off[r] % buffer_size) + avail[r] <= buffer_size
        /\ buffer_offset <= off[r] /\ off[r] + avail[r] <= StreamPos
        /\ buffer_offset \in Nat /\ StreamPos \in Nat
    BY DivMod DEF IInv, TypeOK, WindowInv, streambufs, StreamPos
  <2>2. i \in Nat /\ i < avail[r] /\ s = (off[r] % buffer_size) + i
    BY <1>2, <2>1 DEF Unread, Block
  <2> HIDE DEF i
  <2>3. s = (off[r] + i) % buffer_size
    <3>1. (off[r] % buffer_size) + i < buffer_size
      BY <2>1, <2>2
    <3> QED
      BY <2>1, <2>2, <3>1, ModAdd
  <2>4. /\ off[r] + i \in Nat /\ buffer_offset <= off[r] + i
        /\ off[r] + i < StreamPos
    BY <2>1, <2>2
  <2>5. HasSpace /\ write_block = StreamPos % buffer_size
    BY <1>2 DEF IInv, ConsumeInv
  <2> QED
    BY <1>2, <2>3, <2>4, <2>5, BlockIsFree
<1> QED
  BY <1>1, <1>2

\* The invariant implies that a closed proxy is quiet.
LEMMA ClosedFollows == IInv => ClosedIsQuiet
<1> SUFFICES ASSUME IInv PROVE ClosedIsQuiet
  OBVIOUS
<1>1. ASSUME source = "closed"
      PROVE  consumer = "ended" /\ Holders = {} /\ waiting = {}
  <2>1. consumer = "ended" /\ Holders = {}
    BY <1>1 DEF IInv, LifeInv
  <2>2. \A r \in Readers : r \notin waiting
    BY <2>1 DEF IInv, LifeInv, Holders
  <2> QED
    BY <2>1, <2>2 DEF IInv, TypeOK, LifeInv
<1> QED
  BY <1>1 DEF ClosedIsQuiet, IInv, LifeInv

\* The inductive invariant holds in every reachable state.
THEOREM Invariance == Spec => []IInv
  BY InitIInv, NextIInv, PTL DEF Spec

\* The unsigned counters of connection_proxy::source never wrap around.
THEOREM TypeCorrectness == Spec => []TypeOK
<1>1. IInv => TypeOK
  BY DEF IInv
<1> QED
  BY <1>1, Invariance, PTL

\* consume() never writes where a reader still reads, and no reader of a ring
\* buffer, nor one that has probed a stream that is kept completely, uses a
\* window on a vector that was resized.
THEOREM RaceFreedom == Spec => []NoDataRace
  BY WindowsAreSafe, Invariance, PTL

\* Promised readers get the bytes of the input stream in order.
THEOREM OrderedDelivery == Spec => []DeliveredInOrder
<1>1. IInv => DeliveredInOrder
  BY DEF IInv
<1> QED
  BY <1>1, Invariance, PTL

\* End-of-file is reported only after the last byte.
THEOREM CompleteDelivery == Spec => []CompleteAtEof
<1>1. IInv => CompleteAtEof
  BY DEF IInv, WindowInv, CompleteAtEof, Position, streambufs
<1> QED
  BY <1>1, Invariance, PTL

\* The on_detach callbacks are posted once, before an attach is refused.
THEOREM DetachAnnouncement == Spec => []DetachAnnounced
<1>1. IInv => DetachAnnounced
  BY DEF IInv
<1> QED
  BY <1>1, Invariance, PTL

\* The on_close callbacks are posted once, when nothing runs any more.
THEOREM QuietClose == Spec => []ClosedIsQuiet
  BY ClosedFollows, Invariance, PTL

-----------------------------------------------------------------------------
(* connection_proxy implements StreamFanout.                               *)

\* The proxy starts as the abstract stream does.
LEMMA InitFanout == Init => Fanout!FanoutInit
  BY SizeAssumption
     DEF Init, Fanout!FanoutInit, streambufs, Position, None, Promised, Told

\* Reading a window moves nothing that a reader can see, except end-of-file.
LEMMA ReadFanout ==
  ASSUME IInv, IInv', NEW r \in streambufs, NEW o \in Nat, NEW k,
         o = off[r] + avail[r], taken[r] = avail[r],
         off' = [off EXCEPT ![r] = o], ReadOutcome(r, o, k),
         UNCHANGED <<inputVars, status, last, probed>>
  PROVE  UNCHANGED Fanout!fanout \/ Fanout!EndOfFile(r)
<1>0. r \in Readers
  BY DEF streambufs
<1>1. /\ taken' = [taken EXCEPT ![r] = 0]
      /\ eof' = eof \/ eof' = eof \cup {r}
  BY DEF ReadOutcome, ReadBlocks, ReadDelivers, ReadEnds, SetWindow, ClearWindow
<1>2. /\ streambufs' = streambufs /\ length' = length
      /\ Promised' = Promised /\ Told' = Told
  BY DEF streambufs, inputVars, Promised, Told
<1>3. Position' = Position
  BY <1>0, <1>1 DEF Position, IInv, TypeOK
<1>4. CASE eof' = eof
  BY <1>2, <1>3, <1>4 DEF Fanout!fanout
<1>5. CASE eof' = eof \cup {r}
  <2>1. Position'[r] = length'
    BY <1>0, <1>2, <1>5 DEF IInv, WindowInv, Position
  <2> QED
    BY <1>2, <1>3, <1>5, <2>1 DEF Fanout!EndOfFile
<1> QED
  BY <1>1, <1>4, <1>5

\* A read is a delivery of the abstract stream, or nothing.
LEMMA ServeFanout ==
  ASSUME IInv, IInv', NEW r \in Readers, Serve(r)
  PROVE  [Fanout!FanoutNext]_(Fanout!fanout)
<1> SUFFICES \/ UNCHANGED Fanout!fanout
             \/ Fanout!EndOfFile(r) \/ Fanout!Deliver(r)
  BY DEF Fanout!FanoutNext
<1>1. CASE read(r)
  <2>1. /\ r \in streambufs /\ off[r] + avail[r] \in Nat
        /\ taken[r] = avail[r]
    BY <1>1 DEF read, Idle, streambufs, IInv, TypeOK
  <2> QED
    BY <1>1, <2>1, ReadFanout DEF read
<1>2. CASE ReadWoken(r)
  <2>1. /\ r \in streambufs /\ off[r] + avail[r] \in Nat
        /\ taken[r] = avail[r] /\ off[r] = off[r] + avail[r]
        /\ off' = [off EXCEPT ![r] = off[r] + avail[r]]
    BY <1>2 DEF ReadWoken, streambufs, IInv, TypeOK, LifeInv, WindowInv
  <2> QED
    BY <1>2, <2>1, ReadFanout DEF ReadWoken
<1>3. CASE Take(r)
  <2>1. /\ r \in streambufs /\ off[r] \in Nat /\ taken[r] \in Nat
        /\ taken[r] < avail[r] /\ StreamPos <= length /\ StreamPos \in Nat
    BY <1>3 DEF Take, Idle, streambufs, IInv, TypeOK, ConsumeInv, StreamPos
  <2>2. Position' = [Position EXCEPT ![r] = @ + 1]
    <3>1. off' = off /\ taken' = [taken EXCEPT ![r] = @ + 1]
      BY <1>3 DEF Take
    <3>2. \A q \in Readers : off'[q] + taken'[q] =
            IF q = r THEN off[q] + taken[q] + 1 ELSE off[q] + taken[q]
      BY <2>1, <3>1 DEF IInv, TypeOK
    <3> QED
      BY <3>2 DEF Position
  <2>3. Promised' = Promised
    BY <1>3 DEF Take, Promised
  <2>4. /\ Told' = [Told EXCEPT ![r] = IF r \in Promised THEN Position[r] ELSE -1]
        /\ Position[r] < length
    <3>1. Position[r] = off[r] + taken[r]
      BY DEF Position
    <3>2. length \in Nat
      BY DEF IInv, TypeOK
    <3>3. off[r] + taken[r] < StreamPos
      BY <2>1, WindowHolds
    <3>4. /\ \A q \in Readers : q # r => last'[q] = last[q]
          /\ r \in Promised => last'[r] = off[r] + taken[r]
      BY <1>3, <2>1, WindowHolds, PromisedDontDangle DEF Take, IInv, TypeOK
    <3>5. Told' = [Told EXCEPT ![r] = IF r \in Promised THEN Position[r] ELSE -1]
      BY <2>3, <3>1, <3>4 DEF Told, None
    <3> QED
      BY <2>1, <3>1, <3>2, <3>3, <3>5
  <2>5. streambufs' = streambufs /\ length' = length /\ eof' = eof
    BY <1>3 DEF Take, streambufs, inputVars
  <2> QED
    BY <2>1, <2>2, <2>3, <2>4, <2>5 DEF Fanout!Deliver
<1>4. CASE SizeBlocks(r) \/ SizeReturned(r)
  BY <1>4 DEF SizeBlocks, SizeReturned, Fanout!fanout, inputVars, windowVars,
     streambufs, Position, Promised, Told
<1> QED
  BY <1>1, <1>2, <1>3, <1>4 DEF Serve

\* Every step is a step of StreamFanout or leaves its state alone.
LEMMA NextFanout ==
  IInv /\ IInv' /\ [Next]_vars => [Fanout!FanoutNext]_(Fanout!fanout)
<1> SUFFICES ASSUME IInv, IInv', [Next]_vars
             PROVE  [Fanout!FanoutNext]_(Fanout!fanout)
  OBVIOUS
<1> USE DEF inputVars, ringVars, markVars, windowVars, eventVars
<1>1. CASE consume \/ Join
  BY <1>1 DEF consume, ConsumeBegin, ConsumeGrow, ConsumeWait, ConsumeEnd,
     ConsumeExit, Join, Fanout!fanout, streambufs, Position, Promised, Told
<1>2. ASSUME NEW r \in Readers, Serve(r)
      PROVE  [Fanout!FanoutNext]_(Fanout!fanout)
  BY <1>2, ServeFanout
<1>3. ASSUME NEW r \in Readers, attach(r)
      PROVE  [Fanout!FanoutNext]_(Fanout!fanout)
  <2>1. Position' = Position /\ UNCHANGED <<length, eof, Promised, Told>>
    BY <1>3 DEF attach, Position, Promised, Told
  <2>2. CASE CanAttach
    <3>1. r \notin streambufs /\ streambufs' = streambufs \cup {r}
      BY <1>3, <2>2 DEF attach, streambufs, IInv, TypeOK
    <3>2. Position[r] = 0
      BY <1>3 DEF attach, Position, IInv, LifeInv
    <3> QED
      BY <2>1, <3>1, <3>2 DEF Fanout!FanoutNext, Fanout!Join
  <2>3. CASE ~CanAttach
    <3>1. streambufs' = streambufs
      BY <1>3, <2>3 DEF attach, streambufs, IInv, TypeOK
    <3> QED
      BY <2>1, <3>1 DEF Fanout!fanout
  <2> QED
    BY <2>2, <2>3
<1>4. ASSUME NEW r \in Readers, detach(r)
      PROVE  [Fanout!FanoutNext]_(Fanout!fanout)
  <2>1. Position' = Position /\ UNCHANGED <<length, eof, Promised, Told>>
    BY <1>4 DEF detach, Position, Promised, Told
  <2>2. r \in streambufs /\ streambufs' = streambufs \ {r}
    BY <1>4 DEF detach, Idle, streambufs, IInv, TypeOK
  <2> QED
    BY <2>1, <2>2 DEF Fanout!FanoutNext, Fanout!Leave
<1>5. ASSUME NEW r \in Readers, Release(r)
      PROVE  [Fanout!FanoutNext]_(Fanout!fanout)
  <2>1. Position' = Position /\ UNCHANGED <<length, eof, Promised, Told>>
    BY <1>5 DEF Release, Position, Promised, Told
  <2>2. streambufs' = streambufs
    BY <1>5 DEF Release, streambufs, IInv, TypeOK
  <2> QED
    BY <2>1, <2>2 DEF Fanout!fanout
<1>6. ASSUME NEW r \in Readers, NEW p \in 0 .. MaxLength, seek(r, p)
      PROVE  [Fanout!FanoutNext]_(Fanout!fanout)
  <2>1. /\ r \in streambufs /\ streambufs' = streambufs /\ DataRate = 0
        /\ length' = length /\ eof' = eof \ {r}
        /\ Promised' = Promised \cup {r}
        /\ Told' = [Told EXCEPT ![r] = -1]
    <3>1. /\ last' = [last EXCEPT ![r] = None] /\ probed' = probed \cup {r}
          /\ DataRate = 0 /\ r \in streambufs /\ streambufs' = streambufs
          /\ length' = length /\ eof' = eof \ {r}
      BY <1>6 DEF seek, SizeKnown, Idle, streambufs
    <3>2. Promised' = Promised \cup {r}
      BY <3>1 DEF Promised
    <3>3. Told' = [Told EXCEPT ![r] = -1]
      BY <3>1, <3>2 DEF Told, None, IInv, TypeOK
    <3> QED
      BY <3>1, <3>2, <3>3
  <2>2. p \in Nat /\ p <= length
    BY <1>6, SizeAssumption DEF seek, SeekInRange, IInv, TypeOK, ConsumeInv
  <2>3. p = WholeBlocks(p) + (p % BlockSize)
    BY <2>2, DivMod, SizeAssumption DEF WholeBlocks
  <2>4. \A q \in Readers :
          off'[q] + taken'[q] = IF q = r THEN p ELSE off[q] + taken[q]
    BY <1>6, <2>3 DEF seek, SetWindow, IInv, TypeOK
  <2>5. Position' = [Position EXCEPT ![r] = p]
    BY <2>4 DEF Position
  <2>6. p \in 0 .. length
    BY <2>2 DEF IInv, TypeOK
  <2> QED
    BY <2>1, <2>5, <2>6 DEF Fanout!FanoutNext, Fanout!Reposition
<1>7. CASE (\E t \in Readers \cup {"consumer"} : Spurious(t)) \/ UNCHANGED vars
  BY <1>7 DEF Spurious, vars, Fanout!fanout, streambufs, Position, Promised, Told
<1> QED
  BY <1>1, <1>2, <1>3, <1>4, <1>5, <1>6, <1>7 DEF Next

\* connection_proxy implements the fan-out of one stream to many readers.
THEOREM Refinement == Spec => Implements
  BY InitFanout, NextFanout, Invariance, PTL
     DEF Spec, Implements, Fanout!FanoutSpec

=============================================================================
