----------------------- MODULE TranscodeStreamProofs -----------------------
(***************************************************************************)
(* Proofs about TranscodeStream, for every length of file, every pipe and  *)
(* any number of calls of open().                                           *)
(***************************************************************************)
EXTENDS TranscodeStream, TLAPS

Processes ==
  [run : {"up", "exited", "crashed"}, good : BOOLEAN,
   inp : Seq({"arguments"}), out : Seq(Nat)]

Infos == [time : Nat, end : BOOLEAN]

TypeOK ==
  /\ phase \in {"none", "open", "term", "join", "flush"}
  /\ phase # "none" => process \in Processes
  /\ seen \in Nat \cup {None} /\ last_info \in Infos /\ info \in Infos
  /\ child \in {"arguments", "lock", "seek", "wait", "stop", "done"}
  /\ player \in {"none", "opening", "playing", "writing", "over", "stopped"}
  /\ player = "writing" => blocks > 0
  /\ blocks \in Nat /\ reported \in Nat /\ ends \in Nat

\* The child and its process end together, libvlc's thread ends with them, and
\* join() has seen that before close() goes on.
ChildInv ==
  /\ phase # "none" => (process.run = "up" <=> child # "done")
  /\ phase \in {"none", "flush"} => child = "done"
  /\ child = "arguments" => player = "none"
  /\ player \in {"opening", "playing", "writing", "over"} => child # "done"

\* The user of the stream knows what update_info() found the last time; the end
\* is never taken back; after close() that is all there is to know.
InfoInv ==
  /\ reported = last_info.time /\ ends = IF last_info.end THEN 1 ELSE 0
  /\ last_info.end => info.end
  /\ seen # None => phase = "open"
  /\ phase = "none" => last_info = info

IInv == TypeOK /\ ChildInv /\ InfoInv

-----------------------------------------------------------------------------
\* What the operations on a process do to it: it stays one, and only its end
\* changes whether it runs.
LEMMA ProcessOperations ==
  ASSUME NEW p \in Processes
  PROVE  /\ p.inp # <<>> => Taken(p) \in Processes /\ Taken(p).run = p.run
         /\ p.out # <<>> => Read(p) \in Processes /\ Read(p).run = p.run
         /\ \A n \in Nat : Put(p, n) \in Processes /\ Put(p, n).run = p.run
         /\ Exited(p) \in Processes /\ Exited(p).run = "exited"
         /\ Crashed(p) \in Processes /\ Crashed(p).run = "crashed"
<1> USE DEF Processes
<1>1. ASSUME p.inp # <<>>
      PROVE  Taken(p) \in Processes /\ Taken(p).run = p.run
  <2>1. Tail(p.inp) \in Seq({"arguments"})
    BY <1>1
  <2> QED
    BY <2>1 DEF Taken
<1>2. ASSUME p.out # <<>>
      PROVE  Read(p) \in Processes /\ Read(p).run = p.run
  <2>1. Tail(p.out) \in Seq(Nat)
    BY <1>2
  <2> QED
    BY <2>1 DEF Read
<1>3. ASSUME NEW n \in Nat
      PROVE  Put(p, n) \in Processes /\ Put(p, n).run = p.run
  <2>1. Append(p.out, n) \in Seq(Nat)
    OBVIOUS
  <2> QED
    BY <2>1 DEF Put
<1>4. Exited(p) \in Processes /\ Exited(p).run = "exited"
  BY DEF Exited
<1>5. Crashed(p) \in Processes /\ Crashed(p).run = "crashed"
  BY DEF Crashed
<1> QED
  BY <1>1, <1>2, <1>3, <1>4, <1>5

\* A process that was just started and given its arguments.
LEMMA NewProcess ==
  /\ Written(Spawned, "arguments") \in Processes
  /\ Written(Spawned, "arguments").run = "up"
<1>1. <<>> \in Seq({"arguments"}) /\ <<>> \in Seq(Nat)
  OBVIOUS
<1>2. Append(<<>>, "arguments") \in Seq({"arguments"})
  BY <1>1
<1>3. Spawned \in Processes /\ Spawned.good /\ Spawned.inp = <<>>
  BY <1>1 DEF Spawned, Processes
<1>4. Written(Spawned, "arguments")
        = [Spawned EXCEPT !.inp = Append(<<>>, "arguments")]
  BY <1>3 DEF Written
<1>5. Spawned.run = "up"
  BY DEF Spawned
<1> HIDE DEF Spawned
<1> QED
  BY <1>2, <1>3, <1>4, <1>5 DEF Processes

\* update_info() keeps its books for whatever it copied.
LEMMA ReportedKeeps ==
  ASSUME IInv, NEW new \in Infos, last_info.end => new.end, Reported(new)
  PROVE  /\ last_info' = new /\ reported' = new.time /\ reported' \in Nat
         /\ ends' = (IF new.end THEN 1 ELSE 0) /\ ends' \in Nat
  BY DEF IInv, TypeOK, InfoInv, Reported, Infos

-----------------------------------------------------------------------------
\* A stream starts without a child.
LEMMA InitIInv == Init => IInv
  BY DEF Init, IInv, TypeOK, ChildInv, InfoInv, NoInfo, None, Infos

\* One step per thread of parent and child.
LEMMA NextIInv == IInv /\ [Next]_vars => IInv'
<1> SUFFICES ASSUME IInv, [Next]_vars PROVE IInv'
  OBVIOUS
<1> USE TranscodeStreamAssumption
<1> USE DEF IInv, TypeOK, ChildInv, InfoInv, parentVars, infoVars, flagVars,
            childVars
<1>1. CASE Play
  <2>1. phase # "none" /\ process \in Processes /\ process.inp # <<>>
    BY <1>1 DEF Play, MayTake
  <2>2. /\ Taken(process) \in Processes /\ Taken(process).run = process.run
        /\ Exited(Taken(process)) \in Processes
        /\ Exited(Taken(process)).run = "exited"
    BY <2>1, ProcessOperations
  <2>3. CASE process' = Taken(process) /\ child' = "lock" /\ player' = "opening"
    BY <1>1, <2>1, <2>2, <2>3 DEF Play
  <2>4. CASE /\ process' = Exited(Taken(process))
             /\ child' = "done" /\ UNCHANGED player
    BY <1>1, <2>1, <2>2, <2>4 DEF Play
  <2> QED
    BY <1>1, <2>3, <2>4 DEF Play
<1>2. CASE Test \/ Seek
  BY <1>2 DEF Test, Seek
<1>3. CASE Stop
  BY <1>3, ProcessOperations DEF Stop
<1>4. CASE Crash
  BY <1>4, ProcessOperations DEF Crash
<1>5. CASE OnPlaying \/ BeginWrite \/ OnEncounteredError
  BY <1>5 DEF OnPlaying, BeginWrite, OnEncounteredError, Notified
<1>6. CASE OnTimeChanged
  <2>1. phase \notin {"none", "flush"} /\ process \in Processes
    BY <1>6 DEF OnTimeChanged
  <2>2. process' \in Processes /\ process'.run = process.run
    <3>1. blocks \in Nat /\ process' = Put(process, blocks)
      BY <1>6 DEF OnTimeChanged
    <3>2. \A n \in Nat : /\ Put(process, n) \in Processes
                         /\ Put(process, n).run = process.run
      BY <2>1, ProcessOperations
    <3> QED
      BY <3>1, <3>2
  <2>3. info' \in Infos /\ info'.end = info.end /\ blocks' \in Nat
    <3>1. blocks > 0
      BY <1>6 DEF OnTimeChanged
    <3> QED
      BY <1>6, <3>1 DEF OnTimeChanged, Infos
  <2> QED
    BY <1>6, <2>1, <2>2, <2>3 DEF OnTimeChanged, Notified
<1>7. CASE OnEndReached
  BY <1>7 DEF OnEndReached, Notified, Infos
<1>8. CASE open
  BY <1>8, NewProcess DEF open, NoInfo, Infos
<1>9. CASE Read1
  <2>1. phase # "none" /\ process \in Processes
    BY <1>9 DEF Read1
  <2>2. process' = process \/ (process.out # <<>> /\ process' = Read(process))
    BY <1>9 DEF Read1, MayRead
  <2>3. process' \in Processes /\ process'.run = process.run
    <3> HIDE DEF IInv
    <3>1. process.out # <<>> =>
            Read(process) \in Processes /\ Read(process).run = process.run
      BY <2>1, ProcessOperations
    <3> QED
      BY <2>1, <2>2, <3>1
  <2> QED
    BY <1>9, <2>1, <2>3 DEF Read1
<1>10. CASE CopyTime
  BY <1>10 DEF CopyTime, Infos
<1>11. CASE CopyEnd
  BY <1>11, ReportedKeeps DEF CopyEnd, Infos, None
<1>12. CASE BeginClose
  BY <1>12 DEF BeginClose
<1>13. CASE flush
  <2>1. phase # "none" /\ process \in Processes
    BY <1>13 DEF flush
  <2>2. process' = process \/ (process.out # <<>> /\ process' = Read(process))
    BY <1>13 DEF flush, MayRead
  <2>3. process' \in Processes /\ process'.run = process.run
    <3> HIDE DEF IInv
    <3>1. process.out # <<>> =>
            Read(process) \in Processes /\ Read(process).run = process.run
      BY <2>1, ProcessOperations
    <3> QED
      BY <2>1, <2>2, <3>1
  <2> QED
    BY <1>13, <2>1, <2>3 DEF flush
<1>14. CASE send_term
  BY <1>14 DEF send_term
<1>15. CASE join
  BY <1>15 DEF join, MayJoin, IsEnded
<1>16. CASE EndClose
  BY <1>16, ReportedKeeps DEF EndClose
<1>17. CASE UNCHANGED vars
  BY <1>17 DEF vars
<1> HIDE DEF IInv
<1> QED
  BY <1>1, <1>2, <1>3, <1>4, <1>5, <1>6, <1>7, <1>8, <1>9, <1>10, <1>11, <1>12,
     <1>13, <1>14, <1>15, <1>16, <1>17 DEF Next, Child, Player, Closing

\* Every time close() returns, the user of the stream has been told the child's
\* last position and, once, its end, for every interleaving of the child's
\* writes to shared memory with the two copies that update_info() makes.
THEOREM LastIsReported == Spec => []LastReported
<1>1. IInv => LastReported
  BY DEF IInv, InfoInv, LastReported
<1> QED
  BY <1>1, InitIInv, NextIInv, PTL DEF Spec

\* close() leaves no child behind, whether the child ended, crashed or was
\* blocked on a full pipe when close() was called.
THEOREM ChildIsJoined == Spec => [](phase = "none" => child = "done")
<1>1. IInv => (phase = "none" => child = "done")
  BY DEF IInv, ChildInv
<1> QED
  BY <1>1, InitIInv, NextIInv, PTL DEF Spec

=============================================================================
