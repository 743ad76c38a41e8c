-------------------------- MODULE ConnectionManager --------------------------
(***************************************************************************)
(* pupnp::connection_manager (src/pupnp/connection_manager.cpp) and its use *)
(* by server::files: the list of output connections, the connection_proxies *)
(* that keep a new stream open for further clients, and the events by which *)
(* a stream tells that it moved on or was closed.                           *)
(*                                                                          *)
(* A request, a posted message and a timer run on the message loop, one at  *)
(* a time; a client reads, finishes and leaves on a thread of its own.  Of  *)
(* a stream (module ConnectionProxy) only this is kept: whether it is still *)
(* at offset 0, whether its on_detach event was posted, and who holds it.   *)
(* The proxy that is made for the first client, the owner, is the one that  *)
(* is put into connection_proxies: client and map share it.                 *)
(***************************************************************************)
EXTENDS Integers, FiniteSets, Sequences

CONSTANTS
  Clients,         \* HTTP requests for a stream
  Keys,            \* protocol, mrl, endpoint and options of a request
  MaxConnections,  \* bound on connection_id_counter
  MaxCloses        \* bound on the number of calls of close()

ASSUME ConnectionManagerAssumption ==
  IsFiniteSet(Clients) /\ MaxConnections \in Nat /\ MaxCloses \in Nat

Ids == 1 .. MaxConnections

VARIABLES
  counter,             \* connection_id_counter
  connections,         \* the ids in connections,
  key,                 \*   and what each connection is for
  connection_proxies,  \* the ids in connection_proxies
  single_shots,        \* ids whose 10 s timer is pending
  posted,              \* messages posted to the loop, oldest first
  stream,              \* state of the stream of each id
  long,                \* whether it does not fit the ring buffer
  on_detach,           \* whether its on_detach subscription is left
  use, owner,          \* the id each client uses, and whether by the owner
  finished,            \* clients that got the end of the stream
  told,                \* what numconnections_changed was called with last
  evented,             \* CurrentConnectionIDs as the subscribers know them
  cleared,             \* ids that close() removed from connections
  closes               \* number of calls of close()

mapVars    == <<counter, connections, key, connection_proxies, single_shots>>
streamVars == <<stream, long, on_detach>>
clientVars == <<use, owner, finished>>
reportVars == <<told, evented>>
vars == <<mapVars, posted, streamVars, clientVars, reportVars, cleared, closes>>

Nobody == 0

Emit        == [kind |-> "emit", id |-> 0]
Detach(id)  == [kind |-> "detach", id |-> id]
Closed(id)  == [kind |-> "close", id |-> id]
Pending(m)  == \E n \in 1 .. Len(posted) : posted[n] = m

UsedBy(id)  == {c \in Clients : use[c] = id}

\* Whether someone keeps a proxy of id, when the map holds the proxies `map'
\* and clients use `u'.
Held(id, map, u) == id \in map \/ \E c \in Clients : u[c] = id

\* The owner is kept by the map alone: it is attached and nobody reads from it.
OwnerIdle(id) ==
  id \in connection_proxies /\ ~\E c \in Clients : use[c] = id /\ owner[c]

Init ==
  /\ counter = 0 /\ connections = {} /\ key \in [Ids -> Keys]
  /\ connection_proxies = {} /\ single_shots = {} /\ posted = <<>>
  /\ stream = [id \in Ids |-> "none"] /\ long \in [Ids -> BOOLEAN]
  /\ on_detach = [id \in Ids |-> TRUE]
  /\ use = [c \in Clients |-> Nobody] /\ owner = [c \in Clients |-> FALSE]
  /\ finished = {} /\ told = 0 /\ evented = {} /\ cleared = {} /\ closes = 0

-----------------------------------------------------------------------------
(* The end of a stream: ~source posts on_close when the last proxy goes.   *)

\* What is posted by the ends of the streams in `ids' (at most one).
CloseEvents(ids) ==
  IF ids = {} THEN <<>> ELSE <<Closed(CHOOSE id \in ids : TRUE)>>

\* The proxies kept become `map' and `u'; then `more' is posted.
Keep(map, u, more) ==
  LET over == {id \in Ids : /\ stream[id] \in {"start", "moved"}
                            /\ ~Held(id, map, u)}
  IN  /\ stream' = [id \in Ids |-> IF id \in over THEN "closed" ELSE stream[id]]
      /\ posted' = more \o CloseEvents(over)

-----------------------------------------------------------------------------
(* Requests, on the message loop.                                          *)

\* Mutant of Attachable: the result of attach() is taken the wrong way round.
AttachableInverted(k) ==
  {id \in connection_proxies :
     id \in connections /\ key[id] = k /\ stream[id] # "start"}

\* The proxies to which try_attach_output_connection can attach.
Attachable(k) ==
  {id \in connection_proxies :
     id \in connections /\ key[id] = k /\ stream[id] = "start"}

try_attach_output_connection(c, k) ==
  /\ use[c] = Nobody /\ c \notin finished
  /\ \E id \in Attachable(k) :
       /\ \A other \in Attachable(k) : id <= other
       /\ use' = [use EXCEPT ![c] = id]
  /\ UNCHANGED <<mapVars, posted, streamVars, owner, finished, reportVars,
                 cleared, closes>>

\* Mutant of Shots: no timer is started.
NoShots(id) == single_shots \ {id}

\* The single-shot timer that add_output_connection starts.
Shots(id) == single_shots \cup {id}

\* Nothing to attach to: the client gets a new stream and its owner.
add_output_connection(c, k) ==
  LET id == counter + 1
  IN  /\ use[c] = Nobody /\ c \notin finished /\ Attachable(k) = {}
      /\ counter < MaxConnections /\ key[id] = k
      /\ counter' = id
      /\ connections' = connections \cup {id}
      /\ connection_proxies' = connection_proxies \cup {id}
      /\ single_shots' = Shots(id)
      /\ stream' = [stream EXCEPT ![id] = "start"]
      /\ use' = [use EXCEPT ![c] = id]
      /\ owner' = [owner EXCEPT ![c] = TRUE]
      /\ posted' = Append(posted, Emit)
      /\ told' = Cardinality(connections')
      /\ UNCHANGED <<key, long, on_detach, finished, evented, cleared, closes>>

-----------------------------------------------------------------------------
(* Messages and timers.                                                    *)

\* The timer of add_output_connection.
SingleShot(id) ==
  /\ id \in single_shots
  /\ single_shots' = single_shots \ {id}
  /\ connection_proxies' = connection_proxies \ {id}
  /\ Keep(connection_proxies', use, posted)
  /\ UNCHANGED <<counter, connections, key, long, on_detach, clientVars,
                 reportVars, cleared, closes>>

\* rootdevice.emit_event: subscribers get the list as it is now.
EmitEvent ==
  /\ posted # <<>> /\ Head(posted) = Emit
  /\ posted' = Tail(posted)
  /\ evented' = connections
  /\ UNCHANGED <<mapVars, streamVars, clientVars, told, cleared, closes>>

Detached(id) == connection_proxies \ {id}

OnDetach ==
  /\ posted # <<>> /\ Head(posted).kind = "detach"
  /\ connection_proxies' = Detached(Head(posted).id)
  /\ Keep(connection_proxies', use, Tail(posted))
  /\ UNCHANGED <<counter, connections, key, single_shots, long, on_detach,
                 clientVars, reportVars, cleared, closes>>

\* Mutant of Remaining: the connection is not erased.
RemainingAll(id) == connections \cup (connections \cap {id})

Remaining(id) == connections \ {id}

\* Mutant of AfterRemove: no event is posted.
AfterRemoveSilent(rest) == rest \o <<>>

AfterRemove(rest) == Append(rest, Emit)

ToldByRemove(id) == Cardinality(Remaining(id))

\* The callback of subscribe_close.
remove_output_connection ==
  /\ posted # <<>> /\ Head(posted).kind = "close"
  /\ LET id == Head(posted).id
     IN  /\ connection_proxies' = connection_proxies \ {id}
         /\ connections' = Remaining(id)
         /\ told' = ToldByRemove(id)
  /\ posted' = AfterRemove(Tail(posted))
  /\ UNCHANGED <<counter, key, single_shots, streamVars, clientVars, evented,
                 cleared, closes>>

ToldByClose == 0

\* connection_manager::close, when the root device is closed; that ends the
\* subscriptions, and a new one starts with the current state.
close ==
  /\ closes < MaxCloses
  /\ closes' = closes + 1
  /\ connections' = {} /\ evented' = {}
  /\ cleared' = cleared \cup connections
  /\ told' = ToldByClose
  /\ UNCHANGED <<counter, key, connection_proxies, single_shots, posted,
                 streamVars, clientVars>>

-----------------------------------------------------------------------------
(* Clients, each on its own thread.                                        *)

\* on_detach is posted once, with the first of the events that do so.
PostDetach(id) ==
  /\ on_detach' = [on_detach EXCEPT ![id] = FALSE]
  /\ posted' = IF on_detach[id] THEN Append(posted, Detach(id)) ELSE posted

\* The slowest reader has left the first blocks behind.
Move(id) ==
  /\ stream[id] = "start" /\ long[id] /\ ~OwnerIdle(id)
  /\ stream' = [stream EXCEPT ![id] = "moved"]
  /\ PostDetach(id)
  /\ UNCHANGED <<mapVars, long, clientVars, reportVars, cleared, closes>>

\* A client gets the end of the stream.  It cannot get there while a proxy
\* that nobody reads from holds back a stream that exceeds the buffer.
Finish(c) ==
  LET id == use[c]
  IN  /\ id # Nobody /\ c \notin finished
      /\ long[id] => stream[id] = "moved" /\ ~OwnerIdle(id)
      /\ finished' = finished \cup {c}
      /\ PostDetach(id)
      /\ UNCHANGED <<mapVars, stream, long, use, owner, reportVars, cleared,
                     closes>>

\* A client goes, finished or not, and its proxy with it unless shared.
Leave(c) ==
  /\ use[c] # Nobody
  /\ use' = [use EXCEPT ![c] = Nobody]
  /\ finished' = finished \cup {c}
  /\ Keep(connection_proxies, use', posted)
  /\ UNCHANGED <<mapVars, long, on_detach, owner, reportVars, cleared, closes>>

-----------------------------------------------------------------------------
Messages == EmitEvent \/ OnDetach \/ remove_output_connection

Next ==
  \/ Messages \/ close
  \/ \E id \in Ids : SingleShot(id) \/ Move(id)
  \/ \E c \in Clients :
       \/ Finish(c) \/ Leave(c)
       \/ \E k \in Keys :
            try_attach_output_connection(c, k) \/ add_output_connection(c, k)

Spec == Init /\ [][Next]_vars

\* The loop runs its messages and timers; clients keep reading, and one that
\* has everything closes its connection.
Fairness ==
  /\ WF_vars(Messages)
  /\ \A id \in Ids : WF_vars(SingleShot(id)) /\ WF_vars(Move(id))
  /\ \A c \in Clients :
       WF_vars(Finish(c)) /\ WF_vars(c \in finished /\ Leave(c))

FairSpec == Spec /\ Fairness

-----------------------------------------------------------------------------
(* Properties.                                                             *)

TypeOK ==
  /\ counter \in 0 .. MaxConnections
  /\ connections \subseteq 1 .. counter
  /\ connection_proxies \subseteq 1 .. counter
  /\ single_shots \subseteq 1 .. counter
  /\ posted \in Seq([kind : {"emit", "detach", "close"}, id : 0 .. counter])
  /\ stream \in [Ids -> {"none", "start", "moved", "closed"}]
  /\ key \in [Ids -> Keys] /\ long \in [Ids -> BOOLEAN]
  /\ on_detach \in [Ids -> BOOLEAN]
  /\ use \in [Clients -> {Nobody} \cup 1 .. counter]
  /\ owner \in [Clients -> BOOLEAN] /\ finished \subseteq Clients
  /\ told \in Nat /\ evented \subseteq Ids /\ cleared \subseteq Ids
  /\ closes \in 0 .. MaxCloses

ListedWhileOpen ==
  \A id \in Ids :
    /\ stream[id] \in {"start", "moved"} => id \in connections \cup cleared
    /\ id \in connections =>
         stream[id] \in {"start", "moved"} \/ Pending(Closed(id))

ListenersAgree ==
  /\ told = Cardinality(connections)
  /\ evented = connections \/ Pending(Emit)

\* The list of connections tells the truth, and others are told of it: a stream
\* that is open is listed (unless close() cleared the list), a connection that
\* is listed has an open stream or is about to be removed, the listeners of
\* numconnections_changed (content_directory, server) have the number, and
\* subscribers have the list of ids or an event is on its way to them.
ListAgrees == TypeOK /\ ListedWhileOpen /\ ListenersAgree

\* Clients that ask for the same thing while a stream can still be attached to
\* share it: there are never two such streams.
OneStreamPerKey ==
  \A i, j \in connection_proxies \cap connections :
    key[i] = key[j] /\ stream[i] = "start" /\ stream[j] = "start" => i = j

\* A client that keeps reading gets to the end of its stream, even if the client
\* for which the stream was opened, whose proxy the map shares, went away.
ClientsFinish ==
  \A c \in Clients : (use[c] # Nobody) ~> (c \in finished)

\* A connection does not stay in the list when no client uses it.
ConnectionsEnd ==
  \A id \in Ids :
    (id \in connections) ~> (id \notin connections \/ UsedBy(id) # {})

=============================================================================
