------------------------------ MODULE Process ------------------------------
(***************************************************************************)
(* platform::process (src/platform/process.cpp, the fork build): a child   *)
(* that runs a registered function, and two pipes.  A process is a record  *)
(* of what both sides see; the children's functions are in the modules of  *)
(* the classes that register them.                                         *)
(***************************************************************************)
EXTENDS Naturals, Sequences

CONSTANT PipeSize  \* how much a pipe holds before a writer blocks

ASSUME ProcessAssumption == PipeSize \in Nat \ {0}

Null == [run |-> "null"]  \* no process

\* A process that was forked: the parent has not seen its stream fail.
Spawned == [run |-> "up", good |-> TRUE, inp |-> <<>>, out |-> <<>>]

IsUp(p)    == p.run = "up"
IsEnded(p) == p.run \in {"exited", "crashed"}

\* The parent's stream is usable: operator bool of the parent's side.
IsGood(p) == p # Null /\ p.good

\* The parent writes.  A stream that failed ignores what is written to it; a
\* pipe without a reader raises SIGPIPE.
MayWrite(p) == ~p.good \/ (IsUp(p) /\ Len(p.inp) < PipeSize)
Written(p, token) ==
  IF p.good THEN [p EXCEPT !.inp = Append(@, token)] ELSE p

\* The parent reads: it gets the next token, or sees the end of a child.
MayRead(p) == p.out # <<>>
AtEof(p)   == p.out = <<>> /\ IsEnded(p)
Read(p)    == [p EXCEPT !.out = Tail(@)]
Failed(p)  == [p EXCEPT !.good = FALSE]

\* join() returns when the child has ended.
MayJoin(p) == IsEnded(p)

\* The child's side of the pipes, and its end.
MayTake(p) == IsUp(p) /\ p.inp # <<>>
Taken(p)   == [p EXCEPT !.inp = Tail(@)]
MayPut(p)  == IsUp(p) /\ Len(p.out) < PipeSize
Put(p, token) == [p EXCEPT !.out = Append(@, token)]
Exited(p)  == [p EXCEPT !.run = "exited"]
Crashed(p) == [p EXCEPT !.run = "crashed"]
=============================================================================
