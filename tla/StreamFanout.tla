---------------------------- MODULE StreamFanout ----------------------------
(***************************************************************************)
(* What pupnp::connection_proxy promises to its readers, without buffers,   *)
(* threads or locks: one input stream of `length' bytes is fanned out to a  *)
(* set of readers.  A reader joins at the first byte of the stream, gets    *)
(* every byte once and in stream order, and is told "end of file" only when *)
(* it has had the last byte.  In a seekable stream a reader may move, and   *)
(* only a reader that has moved is sure to be given the right bytes.        *)
(*                                                                          *)
(* Byte number p of the stream is modelled by the number p.                 *)
(***************************************************************************)
EXTENDS Integers

CONSTANTS
  Readers,    \* connection_proxy objects, each with its own streambuf
  MaxLength,  \* bound on the number of bytes of the input stream
  Seekable    \* whether readers may seek (data_rate = 0 in the code)

VARIABLES
  length,     \* number of bytes in the input stream
  joined,     \* readers attached to the stream
  pos,        \* pos[r]: stream position of the next byte for reader r
  sure,       \* readers that are promised the right bytes
  last,       \* last[r]: the byte a sure r was given most recently, or -1
  ended       \* readers that were told "end of file"

fanout == <<length, joined, pos, sure, last, ended>>

FanoutInit ==
  /\ length \in 0 .. MaxLength
  /\ joined \in SUBSET Readers
  /\ pos = [r \in Readers |-> 0]
  /\ sure = IF Seekable THEN {} ELSE Readers
  /\ last = [r \in Readers |-> -1]
  /\ ended = {}

\* A reader that has not read anything joins: it will see the whole stream.
Join(r) ==
  /\ r \notin joined
  /\ pos[r] = 0
  /\ joined' = joined \cup {r}
  /\ UNCHANGED <<length, pos, sure, last, ended>>

Leave(r) ==
  /\ r \in joined
  /\ joined' = joined \ {r}
  /\ UNCHANGED <<length, pos, sure, last, ended>>

Deliver(r) ==
  /\ r \in joined
  /\ pos[r] < length
  /\ last' = [last EXCEPT ![r] = IF r \in sure THEN pos[r] ELSE -1]
  /\ pos' = [pos EXCEPT ![r] = @ + 1]
  /\ UNCHANGED <<length, joined, sure, ended>>

EndOfFile(r) ==
  /\ r \in joined
  /\ pos[r] = length
  /\ ended' = ended \cup {r}
  /\ UNCHANGED <<length, joined, pos, sure, last>>

Reposition(r) ==
  /\ Seekable
  /\ r \in joined
  /\ \E p \in 0 .. length : pos' = [pos EXCEPT ![r] = p]
  /\ sure' = sure \cup {r}
  /\ last' = [last EXCEPT ![r] = -1]
  /\ ended' = ended \ {r}
  /\ UNCHANGED <<length, joined>>

FanoutNext ==
  \E r \in Readers :
    Join(r) \/ Leave(r) \/ Deliver(r) \/ EndOfFile(r) \/ Reposition(r)

FanoutSpec == FanoutInit /\ [][FanoutNext]_fanout

=============================================================================
