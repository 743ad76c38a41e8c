---------------------- MODULE ConnectionManagerProofs ----------------------
(***************************************************************************)
(* Proofs about ConnectionManager, for every set of clients and keys and   *)
(* any number of connections and calls of close().                          *)
(***************************************************************************)
EXTENDS ConnectionManager, FiniteSetTheorems, TLAPS

Posts == [kind : {"emit", "detach", "close"}, id : 0 .. counter]

Open(id) == stream[id] \in {"start", "moved"}

\* A stream is made with its id, and lives only as long as someone has a proxy
\* of it: so one that is given up ends at most one stream.
StreamInv ==
  \A id \in Ids :
    /\ stream[id] # "none" <=> id \in 1 .. counter
    /\ Open(id) => Held(id, connection_proxies, use)

\* A stream whose close is posted is closed.
PostInv ==
  \A n \in 1 .. Len(posted) :
    /\ posted[n].kind # "emit" => posted[n].id \in 1 .. counter
    /\ posted[n].kind = "close" => stream[posted[n].id] = "closed"

Inv == ListAgrees /\ StreamInv /\ PostInv

-----------------------------------------------------------------------------
(* The messages that were posted.                                          *)

Has(s, m) == \E n \in 1 .. Len(s) : s[n] = m

\* What a queue holds after a message is put in it.
LEMMA HasAppend ==
  ASSUME NEW S, NEW s \in Seq(S), NEW m \in S
  PROVE  /\ Append(s, m) \in Seq(S)
         /\ \A x : Has(Append(s, m), x) <=> Has(s, x) \/ x = m
<1>1. /\ Append(s, m) \in Seq(S) /\ Len(Append(s, m)) = Len(s) + 1
      /\ \A n \in 1 .. Len(s) : Append(s, m)[n] = s[n]
      /\ Append(s, m)[Len(s) + 1] = m
      /\ \A n \in 1 .. Len(s) + 1 : n \in 1 .. Len(s) \/ n = Len(s) + 1
      /\ Len(s) + 1 \in 1 .. Len(s) + 1 /\ 1 .. Len(s) \subseteq 1 .. Len(s) + 1
  OBVIOUS
<1> QED
  BY <1>1 DEF Has

\* What a queue holds after its first message is taken.
LEMMA HasTail ==
  ASSUME NEW S, NEW s \in Seq(S), s # <<>>
  PROVE  /\ Tail(s) \in Seq(S) /\ Head(s) \in S /\ Has(s, Head(s))
         /\ \A x : Has(s, x) <=> Has(Tail(s), x) \/ x = Head(s)
<1>1. /\ Tail(s) \in Seq(S) /\ Len(Tail(s)) = Len(s) - 1
      /\ Head(s) = s[1] /\ 1 \in 1 .. Len(s) /\ Head(s) \in S
      /\ \A n \in 1 .. Len(Tail(s)) :
           n + 1 \in 1 .. Len(s) /\ Tail(s)[n] = s[n + 1]
      /\ \A n \in 1 .. Len(s) :
           n = 1 \/ (n - 1 \in 1 .. Len(Tail(s)) /\ Tail(s)[n - 1] = s[n])
  OBVIOUS
<1>2. ASSUME NEW x, Has(s, x), x # Head(s) PROVE Has(Tail(s), x)
  <2>1. PICK n \in 1 .. Len(s) : s[n] = x
    BY <1>2 DEF Has
  <2>2. n - 1 \in 1 .. Len(Tail(s)) /\ Tail(s)[n - 1] = x
    BY <1>1, <1>2, <2>1
  <2> QED
    BY <2>2 DEF Has
<1>3. ASSUME NEW x, Has(Tail(s), x) PROVE Has(s, x)
  BY <1>1, <1>3 DEF Has
<1>4. Has(s, Head(s))
  BY <1>1 DEF Has
<1> QED
  BY <1>1, <1>2, <1>3, <1>4

\* A sequence of one element at the end of another.
LEMMA ConcatOne ==
  ASSUME NEW S, NEW s \in Seq(S), NEW x \in S
  PROVE  s \o <<>> = s /\ s \o <<x>> = Append(s, x)
  OBVIOUS

\* The invariant in terms of what was posted.
LEMMA PostInvHas ==
  /\ PostInv <=> \A m : Has(posted, m) =>
                   /\ m.kind # "emit" => m.id \in 1 .. counter
                   /\ m.kind = "close" => stream[m.id] = "closed"
  /\ \A m : Pending(m) <=> Has(posted, m)
  BY DEF PostInv, Has, Pending

-----------------------------------------------------------------------------
\* Giving up one proxy ends its stream or nothing.
LEMMA KeepOne ==
  ASSUME Inv, NEW i \in 1 .. counter, NEW map, NEW u, NEW more \in Seq(Posts),
         \A id \in Ids \ {i} :
           Held(id, connection_proxies, use) => Held(id, map, u),
         Keep(map, u, more)
  PROVE  /\ stream' \in [Ids -> {"none", "start", "moved", "closed"}]
         /\ \A id \in Ids \ {i} : stream'[id] = stream[id]
         /\ \A id \in Ids : Open(id)' => Held(id, map, u)
         /\ \/ stream'[i] = stream[i] /\ posted' = more
            \/ stream'[i] = "closed" /\ posted' = Append(more, Closed(i))
<1> DEFINE over == {id \in Ids : /\ stream[id] \in {"start", "moved"}
                                 /\ ~Held(id, map, u)}
<1>1. /\ i \in Ids
      /\ stream' = [id \in Ids |-> IF id \in over THEN "closed" ELSE stream[id]]
      /\ posted' = more \o CloseEvents(over)
  <2>1. i \in Ids
    BY ConnectionManagerAssumption DEF Inv, ListAgrees, TypeOK, Ids
  <2> QED
    BY <2>1, Zenon DEF Keep
<1>2. over = {} \/ over = {i}
  BY <1>1 DEF Inv, StreamInv, Open
<1>3. stream' \in [Ids -> {"none", "start", "moved", "closed"}]
  BY <1>1 DEF Inv, ListAgrees, TypeOK
<1>4. \A id \in Ids : Open(id)' => Held(id, map, u)
  BY <1>1 DEF Open
<1>5. Closed(i) \in Posts
  BY DEF Closed, Posts, Inv, ListAgrees, TypeOK
<1> HIDE DEF over
<1>6. CASE over = {}
  <2>1. posted' = more
    BY <1>1, <1>6, ConcatOne, <1>5 DEF CloseEvents
  <2> QED
    BY <1>1, <1>3, <1>4, <1>6, <2>1
<1>7. CASE over = {i}
  <2>1. (CHOOSE id \in over : TRUE) = i /\ over # {}
    BY <1>7
  <2>2. posted' = Append(more, Closed(i))
    BY <1>1, <1>5, <2>1, ConcatOne DEF CloseEvents
  <2> QED
    BY <1>1, <1>3, <1>4, <1>7, <2>2
<1> QED
  BY <1>2, <1>6, <1>7

\* What a step does that gives up one proxy, after the messages `more'.
LEMMA KeepInv ==
  ASSUME Inv, NEW i \in 1 .. counter, NEW more \in Seq(Posts),
         \A id \in Ids \ {i} :
           Held(id, connection_proxies, use)
             => Held(id, connection_proxies', use'),
         Keep(connection_proxies', use', more),
         \A m : Has(more, m) => Has(posted, m),
         \A m : Has(posted, m) /\ m.kind # "detach" => Has(more, m),
         UNCHANGED <<counter, connections, key, long, on_detach, owner,
                     reportVars, cleared, closes>>,
         connection_proxies' \subseteq connection_proxies,
         single_shots' \subseteq single_shots,
         use' \in [Clients -> {Nobody} \cup 1 .. counter],
         finished' \subseteq Clients
  PROVE  Inv'
<1>1. /\ stream' \in [Ids -> {"none", "start", "moved", "closed"}]
      /\ \A id \in Ids \ {i} : stream'[id] = stream[id]
      /\ \A id \in Ids : Open(id)' => Held(id, connection_proxies', use')
      /\ \/ stream'[i] = stream[i] /\ posted' = more
         \/ stream'[i] = "closed" /\ posted' = Append(more, Closed(i))
  BY KeepOne
<1>2. i \in Ids /\ Closed(i) \in Posts
  BY ConnectionManagerAssumption
  DEF Inv, ListAgrees, TypeOK, Ids, Closed, Posts
<1>3. posted' \in Seq(Posts)
  BY <1>1, <1>2, HasAppend
<1>4. /\ \A m : Has(more, m) => Has(posted', m)
      /\ \A m : Has(posted', m) =>
              \/ Has(more, m)
              \/ m = Closed(i) /\ stream'[i] = "closed"
      /\ stream'[i] = stream[i] \/ Has(posted', Closed(i))
  <2>1. CASE stream'[i] = stream[i] /\ posted' = more
    BY <2>1
  <2>2. CASE stream'[i] = "closed" /\ posted' = Append(more, Closed(i))
    <3>1. \A x : Has(posted', x) <=> Has(more, x) \/ x = Closed(i)
      BY <1>2, <2>2, HasAppend
    <3> QED
      BY <2>2, <3>1
  <2> QED
    BY <1>1, <2>1, <2>2
<1>5. TypeOK'
  BY <1>1, <1>3 DEF Inv, ListAgrees, TypeOK, reportVars, Posts
<1>6. ListedWhileOpen'
  <2>1. ASSUME NEW id \in Ids, Open(id)'
        PROVE  id \in connections' \cup cleared'
    BY <1>1, <1>2, <2>1 DEF Open, Inv, ListAgrees, ListedWhileOpen
  <2>2. ASSUME NEW id \in Ids, id \in connections'
        PROVE  Open(id)' \/ Has(posted', Closed(id))
    <3>1. Open(id) \/ Has(posted, Closed(id))
      BY <2>2, PostInvHas DEF Open, Inv, ListAgrees, ListedWhileOpen
    <3>2. CASE Has(posted, Closed(id))
      BY <1>4, <3>2 DEF Closed
    <3>3. CASE Open(id)
      BY <1>1, <1>4, <3>3 DEF Open
    <3> QED
      BY <3>1, <3>2, <3>3
  <2> QED
    BY <2>1, <2>2 DEF ListedWhileOpen, Open, Pending, Has
<1>7. ListenersAgree'
  <2>1. Has(posted, Emit) => Has(posted', Emit)
    BY <1>4 DEF Emit
  <2> QED
    BY <2>1 DEF Inv, ListAgrees, ListenersAgree, reportVars, Pending, Has
<1>8. StreamInv'
  <2>1. \A id \in Ids : stream'[id] # "none" <=> stream[id] # "none"
    BY <1>1, <1>2 DEF Inv, StreamInv
  <2> QED
    BY <1>1, <2>1 DEF Inv, StreamInv
<1>9. PostInv'
  <2>1. ASSUME NEW m, Has(posted', m)
        PROVE  /\ m.kind # "emit" => m.id \in 1 .. counter
               /\ m.kind = "close" => stream'[m.id] = "closed"
    <3>1. CASE Has(more, m)
      <4>1. /\ m.kind # "emit" => m.id \in 1 .. counter
            /\ m.kind = "close" => stream[m.id] = "closed"
        BY <3>1, PostInvHas DEF Inv
      <4>2. 1 .. counter \subseteq Ids
        BY ConnectionManagerAssumption DEF Inv, ListAgrees, TypeOK, Ids
      <4> QED
        BY <1>1, <4>1, <4>2
    <3>2. CASE m = Closed(i) /\ stream'[i] = "closed"
      BY <3>2 DEF Closed
    <3> QED
      BY <1>4, <2>1, <3>1, <3>2
  <2> QED
    BY <2>1 DEF PostInv, Has
<1> QED
  BY <1>5, <1>6, <1>7, <1>8, <1>9 DEF Inv, ListAgrees

-----------------------------------------------------------------------------
\* The list of connections is finite.
LEMMA FiniteConnections ==
  Inv => /\ IsFiniteSet(connections) /\ Cardinality(connections) \in Nat
         /\ \A id : /\ IsFiniteSet(connections \cup {id})
                    /\ Cardinality(connections \cup {id}) \in Nat
                    /\ Cardinality(connections \ {id}) \in Nat
<1> SUFFICES ASSUME Inv
             PROVE  /\ IsFiniteSet(connections)
                    /\ Cardinality(connections) \in Nat
                    /\ \A id : /\ IsFiniteSet(connections \cup {id})
                               /\ Cardinality(connections \cup {id}) \in Nat
                               /\ Cardinality(connections \ {id}) \in Nat
  OBVIOUS
<1>1. counter \in Nat /\ connections \subseteq 1 .. counter
  BY ConnectionManagerAssumption DEF Inv, ListAgrees, TypeOK
<1>2. IsFiniteSet(1 .. counter)
  BY <1>1, FS_Interval
<1>3. IsFiniteSet(connections)
  BY <1>1, <1>2, FS_Subset
<1> QED
  BY <1>3, FS_AddElement, FS_RemoveElement, FS_CardinalityType

\* The manager starts without connections.
LEMMA InitInv == Init => Inv
<1> SUFFICES ASSUME Init PROVE Inv
  OBVIOUS
<1> USE ConnectionManagerAssumption DEF Init
<1>1. TypeOK
  <2>1. /\ stream \in [Ids -> {"none", "start", "moved", "closed"}]
        /\ use \in [Clients -> {Nobody} \cup 1 .. counter]
        /\ owner \in [Clients -> BOOLEAN] /\ on_detach \in [Ids -> BOOLEAN]
    OBVIOUS
  <2>2. posted \in Seq([kind : {"emit", "detach", "close"}, id : 0 .. counter])
    OBVIOUS
  <2>3. counter \in 0 .. MaxConnections /\ closes \in 0 .. MaxCloses
    OBVIOUS
  <2> QED
    BY <2>1, <2>2, <2>3 DEF TypeOK
<1>2. ListedWhileOpen
  BY DEF ListedWhileOpen
<1>3. ListenersAgree
  BY FS_EmptySet DEF ListenersAgree
<1>4. StreamInv
  BY DEF StreamInv, Open, Ids
<1>5. PostInv
  BY DEF PostInv
<1> QED
  BY <1>1, <1>2, <1>3, <1>4, <1>5 DEF Inv, ListAgrees

-----------------------------------------------------------------------------
(* Requests.                                                               *)

\* A connection that is attached is listed and keeps its stream.
LEMMA AttachInv ==
  ASSUME Inv, NEW c \in Clients, NEW k \in Keys,
         try_attach_output_connection(c, k)
  PROVE  Inv'
<1> USE DEF try_attach_output_connection, mapVars, streamVars, reportVars
<1>1. PICK id \in Attachable(k) : use' = [use EXCEPT ![c] = id]
  OBVIOUS
<1>2. id \in 1 .. counter
  BY <1>1 DEF Attachable, Inv, ListAgrees, TypeOK
<1>3. use' \in [Clients -> {Nobody} \cup 1 .. counter]
  BY <1>1, <1>2 DEF Inv, ListAgrees, TypeOK
<1>4. TypeOK'
  BY <1>3 DEF Inv, ListAgrees, TypeOK
<1>5. StreamInv'
  <2>1. ASSUME NEW i \in Ids, Held(i, connection_proxies, use)
        PROVE  Held(i, connection_proxies, use')
    <3>1. \A d \in Clients : use[d] = i => d # c
      BY DEF Ids, Nobody
    <3> QED
      BY <1>1, <2>1, <3>1 DEF Held, Inv, ListAgrees, TypeOK
  <2> QED
    BY <2>1 DEF Inv, StreamInv, Open
<1>6. ListedWhileOpen' /\ ListenersAgree' /\ PostInv'
  BY DEF Inv, ListAgrees, ListedWhileOpen, ListenersAgree, PostInv, Pending
<1> QED
  BY <1>4, <1>5, <1>6 DEF Inv, ListAgrees

\* A client that finds nothing to attach to opens a stream.
LEMMA AddInv ==
  ASSUME Inv, NEW c \in Clients, NEW k \in Keys, add_output_connection(c, k)
  PROVE  Inv'
<1> DEFINE id == counter + 1
<1> USE DEF add_output_connection
<1>1. /\ id \in Ids /\ counter' = id /\ counter \in Nat
      /\ 1 .. counter' = (1 .. counter) \cup {id} /\ id \notin 1 .. counter
      /\ counter' \in 0 .. MaxConnections
      /\ 0 .. counter \subseteq 0 .. counter'
  BY ConnectionManagerAssumption DEF Inv, ListAgrees, TypeOK, Ids
<1>2. /\ stream' \in [Ids -> {"none", "start", "moved", "closed"}]
      /\ stream'[id] = "start"
      /\ \A i \in Ids \ {id} : stream'[i] = stream[i]
  BY <1>1 DEF Inv, ListAgrees, TypeOK
<1>3. /\ use' \in [Clients -> {Nobody} \cup 1 .. counter']
      /\ \A d \in Clients \ {c} : use'[d] = use[d]
  BY <1>1 DEF Inv, ListAgrees, TypeOK
<1>4. /\ posted' \in Seq([kind : {"emit", "detach", "close"},
                          id : 0 .. counter'])
      /\ \A x : Has(posted', x) <=> Has(posted, x) \/ x = Emit
  <2> DEFINE S == [kind : {"emit", "detach", "close"}, id : 0 .. counter']
  <2>1. posted \in Seq(S)
    <3>1. Posts \subseteq S
      BY <1>1 DEF Posts
    <3>2. posted \in Seq(Posts)
      BY DEF Inv, ListAgrees, TypeOK, Posts
    <3> HIDE DEF S
    <3> QED
      BY <3>1, <3>2
  <2>2. Emit \in S
    BY <1>1 DEF Emit
  <2>3. posted' = Append(posted, Emit)
    OBVIOUS
  <2> HIDE DEF S
  <2>4. /\ posted' \in Seq(S)
        /\ \A x : Has(posted', x) <=> Has(posted, x) \/ x = Emit
    BY <2>1, <2>2, <2>3, HasAppend
  <2> QED
    BY <2>4 DEF S
<1>5. TypeOK'
  <2>1. /\ connections' \subseteq 1 .. counter'
        /\ connection_proxies' \subseteq 1 .. counter'
        /\ single_shots' \subseteq 1 .. counter'
    BY <1>1 DEF Shots, Inv, ListAgrees, TypeOK
  <2>2. owner' \in [Clients -> BOOLEAN]
    BY DEF Inv, ListAgrees, TypeOK
  <2>3. told' \in Nat
    BY FiniteConnections
  <2> QED
    BY <1>1, <1>2, <1>3, <1>4, <2>1, <2>2, <2>3 DEF Inv, ListAgrees, TypeOK
<1>6. ListedWhileOpen'
  <2>1. ASSUME NEW i \in Ids, Open(i)'
        PROVE  i \in connections' \cup cleared'
    BY <1>1, <1>2, <2>1 DEF Open, Inv, ListAgrees, ListedWhileOpen
  <2>2. ASSUME NEW i \in Ids, i \in connections'
        PROVE  Open(i)' \/ Has(posted', Closed(i))
    BY <1>1, <1>2, <1>4, <2>2, PostInvHas
    DEF Open, Inv, ListAgrees, ListedWhileOpen
  <2> QED
    BY <2>1, <2>2 DEF ListedWhileOpen, Open, Pending, Has
<1>7. ListenersAgree'
  BY <1>4 DEF ListenersAgree, Pending, Has
<1>8. StreamInv'
  <2>1. ASSUME NEW i \in Ids \ {id}, Held(i, connection_proxies, use)
        PROVE  Held(i, connection_proxies', use')
    <3>1. \A d \in Clients : use[d] = i => d # c
      BY DEF Ids, Nobody
    <3> QED
      BY <1>3, <2>1, <3>1 DEF Held
  <2>2. Held(id, connection_proxies', use')
    BY DEF Held
  <2> HIDE DEF add_output_connection
  <2> QED
    BY <1>1, <1>2, <2>1, <2>2 DEF Inv, StreamInv, Open
<1>9. PostInv'
  <2>1. ASSUME NEW m, Has(posted', m)
        PROVE  /\ m.kind # "emit" => m.id \in 1 .. counter'
               /\ m.kind = "close" => stream'[m.id] = "closed"
    <3>1. CASE m = Emit
      BY <3>1 DEF Emit
    <3>2. CASE Has(posted, m)
      <4>1. /\ m.kind # "emit" => m.id \in 1 .. counter
            /\ m.kind = "close" => stream[m.id] = "closed"
        BY <3>2, PostInvHas DEF Inv
      <4>2. 1 .. counter \subseteq Ids
        BY ConnectionManagerAssumption DEF Inv, ListAgrees, TypeOK, Ids
      <4> QED
        BY <1>1, <1>2, <4>1, <4>2
    <3> QED
      BY <1>4, <2>1, <3>1, <3>2
  <2> QED
    BY <2>1 DEF PostInv, Has
<1> QED
  BY <1>5, <1>6, <1>7, <1>8, <1>9 DEF Inv, ListAgrees

-----------------------------------------------------------------------------
(* Messages and timers.                                                    *)

\* The messages of the loop keep the invariant.
LEMMA MessagesInv == Inv /\ Messages => Inv'
<1> SUFFICES ASSUME Inv, Messages PROVE Inv'
  OBVIOUS
<1>1. posted \in Seq(Posts) /\ posted # <<>>
  BY DEF Inv, ListAgrees, TypeOK, Posts, Messages, EmitEvent, OnDetach,
     remove_output_connection
<1>2. /\ Tail(posted) \in Seq(Posts) /\ Head(posted) \in Posts
      /\ Has(posted, Head(posted))
      /\ \A x : Has(posted, x) <=> Has(Tail(posted), x) \/ x = Head(posted)
  BY <1>1, HasTail
<1>3. /\ Head(posted).kind # "emit" => Head(posted).id \in 1 .. counter
      /\ Head(posted).kind = "close" => stream[Head(posted).id] = "closed"
  BY <1>2, PostInvHas DEF Inv
<1>4. CASE EmitEvent
  <2> USE DEF EmitEvent, mapVars, streamVars, clientVars
  <2>1. TypeOK'
    <3>1. evented' \subseteq Ids
      BY <1>4, ConnectionManagerAssumption DEF Inv, ListAgrees, TypeOK, Ids
    <3> QED
      BY <1>2, <1>4, <3>1 DEF Inv, ListAgrees, TypeOK, Posts
  <2>2. ListedWhileOpen'
    <3>1. \A id : Has(posted, Closed(id)) => Has(posted', Closed(id))
      BY <1>2, <1>4 DEF Emit, Closed
    <3> QED
      BY <1>4, <3>1
      DEF Inv, ListAgrees, ListedWhileOpen, Pending, Has
  <2>3. ListenersAgree'
    BY <1>4 DEF Inv, ListAgrees, ListenersAgree
  <2>4. StreamInv'
    BY <1>4 DEF Inv, StreamInv, Open
  <2>5. PostInv'
    <3>1. \A m : Has(posted', m) => Has(posted, m)
      BY <1>2, <1>4
    <3>2. \A m : Has(posted', m) =>
             /\ m.kind # "emit" => m.id \in 1 .. counter'
             /\ m.kind = "close" => stream'[m.id] = "closed"
      BY <1>4, <3>1, PostInvHas DEF Inv
    <3> QED
      BY <3>2 DEF PostInv, Has
  <2> QED
    BY <2>1, <2>2, <2>3, <2>4, <2>5 DEF Inv, ListAgrees
<1>5. CASE OnDetach
  <2> DEFINE i == Head(posted).id
  <2>1. i \in 1 .. counter /\ connection_proxies' = connection_proxies \ {i}
    BY <1>3, <1>5 DEF OnDetach, Detached
  <2>2. \A id \in Ids \ {i} : Held(id, connection_proxies, use)
                               => Held(id, connection_proxies', use')
    BY <1>5, <2>1 DEF OnDetach, clientVars, Held
  <2>3. Keep(connection_proxies', use', Tail(posted))
    BY <1>5 DEF OnDetach, clientVars
  <2>4. \A m : Has(posted, m) /\ m.kind # "detach" => Has(Tail(posted), m)
    BY <1>2, <1>5 DEF OnDetach
  <2> HIDE DEF i
  <2> QED
    BY <1>2, <1>5, <2>1, <2>2, <2>3, <2>4, KeepInv
    DEF OnDetach, clientVars, Inv, ListAgrees, TypeOK
<1>6. CASE remove_output_connection
  <2> USE DEF remove_output_connection, streamVars, clientVars
  <2> DEFINE i == Head(posted).id
  <2>1. /\ i \in 1 .. counter /\ stream[i] = "closed"
        /\ connection_proxies' = connection_proxies \ {i}
        /\ connections' = connections \ {i}
    BY <1>3, <1>6 DEF Remaining
  <2>2. /\ posted' \in Seq(Posts)
        /\ \A x : Has(posted', x) <=> Has(Tail(posted), x) \/ x = Emit
    <3>1. Emit \in Posts
      BY ConnectionManagerAssumption DEF Emit, Posts, Inv, ListAgrees, TypeOK
    <3> QED
      BY <1>2, <1>6, <3>1, HasAppend DEF AfterRemove
  <2>3. TypeOK'
    <3>1. told' \in Nat
      BY <1>6, FiniteConnections DEF ToldByRemove, Remaining
    <3> QED
      BY <1>6, <2>1, <2>2, <3>1 DEF Inv, ListAgrees, TypeOK, Posts
  <2> HIDE DEF i
  <2>4. ListedWhileOpen'
    <3>1. ASSUME NEW id \in Ids, id \in connections'
          PROVE  Open(id) \/ Has(posted', Closed(id))
      <4>1. id # i /\ id \in connections
        BY <2>1, <3>1
      <4>2. CASE Has(posted, Closed(id))
        BY <1>2, <2>2, <4>1, <4>2 DEF Closed, i
      <4> QED
        BY <4>1, <4>2, PostInvHas DEF Inv, ListAgrees, ListedWhileOpen, Open
    <3>2. ASSUME NEW id \in Ids, Open(id)
          PROVE  id \in connections' \cup cleared
      BY <2>1, <3>2 DEF Open, Inv, ListAgrees, ListedWhileOpen
    <3> QED
      BY <1>6, <3>1, <3>2 DEF ListedWhileOpen, Pending, Has, Open
  <2>5. ListenersAgree'
    <3>1. Has(posted', Emit) /\ told' = Cardinality(connections')
      BY <1>6, <2>1, <2>2 DEF ToldByRemove, Remaining, i
    <3> QED
      BY <3>1 DEF ListenersAgree, Pending, Has
  <2>6. StreamInv'
    BY <1>6, <2>1 DEF Inv, StreamInv, Open, Held
  <2>7. PostInv'
    <3>1. \A m : Has(posted', m) => Has(posted, m) \/ m = Emit
      BY <1>2, <2>2
    <3>2. Emit.kind = "emit"
      BY DEF Emit
    <3>3. \A m : Has(posted', m) =>
             /\ m.kind # "emit" => m.id \in 1 .. counter'
             /\ m.kind = "close" => stream'[m.id] = "closed"
      BY <1>6, <3>1, <3>2, PostInvHas DEF Inv
    <3> QED
      BY <3>3 DEF PostInv, Has
  <2> QED
    BY <2>3, <2>4, <2>5, <2>6, <2>7 DEF Inv, ListAgrees
<1> QED
  BY <1>4, <1>5, <1>6 DEF Messages

\* The timer of add_output_connection fires.
LEMMA SingleShotInv ==
  ASSUME Inv, NEW i \in Ids, SingleShot(i)
  PROVE  Inv'
<1> USE DEF SingleShot, clientVars
<1>1. i \in 1 .. counter
  BY DEF Inv, ListAgrees, TypeOK
<1>2. \A id \in Ids \ {i} : Held(id, connection_proxies, use)
                             => Held(id, connection_proxies', use')
  BY DEF Held
<1>3. posted \in Seq(Posts)
  BY DEF Inv, ListAgrees, TypeOK, Posts
<1> QED
  BY <1>1, <1>2, <1>3, KeepInv DEF Inv, ListAgrees, TypeOK

\* Closing the manager keeps the invariant.
LEMMA CloseInv == Inv /\ close => Inv'
<1> SUFFICES ASSUME Inv, close PROVE Inv'
  OBVIOUS
<1> USE DEF close, streamVars, clientVars
<1>1. TypeOK'
  <2>1. closes' \in 0 .. MaxCloses /\ told' \in Nat
    BY ConnectionManagerAssumption DEF Inv, ListAgrees, TypeOK, ToldByClose
  <2>2. cleared' \subseteq Ids
    BY ConnectionManagerAssumption DEF Inv, ListAgrees, TypeOK, Ids
  <2> QED
    BY <2>1, <2>2 DEF Inv, ListAgrees, TypeOK
<1>2. ListedWhileOpen'
  BY DEF Inv, ListAgrees, ListedWhileOpen
<1>3. ListenersAgree'
  BY FS_EmptySet DEF ListenersAgree, ToldByClose
<1>4. StreamInv' /\ PostInv'
  BY DEF Inv, StreamInv, Open, PostInv
<1> QED
  BY <1>1, <1>2, <1>3, <1>4 DEF Inv, ListAgrees

-----------------------------------------------------------------------------
(* Clients.                                                                *)

\* What PostDetach adds.
LEMMA PostDetachHas ==
  ASSUME Inv, NEW i \in 1 .. counter, PostDetach(i)
  PROVE  /\ posted' \in Seq(Posts) /\ on_detach' \in [Ids -> BOOLEAN]
         /\ \A m : Has(posted, m) => Has(posted', m)
         /\ \A m : Has(posted', m) => Has(posted, m) \/ m = Detach(i)
<1>1. posted \in Seq(Posts)
  BY DEF Inv, ListAgrees, TypeOK, Posts
<1>2. Detach(i) \in Posts
  BY ConnectionManagerAssumption DEF Detach, Posts, Inv, ListAgrees, TypeOK
<1>3. on_detach' \in [Ids -> BOOLEAN]
  BY DEF PostDetach, Inv, ListAgrees, TypeOK
<1>4. posted' = posted \/ posted' = Append(posted, Detach(i))
  BY DEF PostDetach
<1>5. CASE posted' = posted
  BY <1>1, <1>3, <1>5
<1>6. CASE posted' = Append(posted, Detach(i))
  <2>1. /\ posted' \in Seq(Posts)
        /\ \A m : Has(posted', m) <=> Has(posted, m) \/ m = Detach(i)
    BY <1>1, <1>2, <1>6, HasAppend
  <2> QED
    BY <1>3, <2>1
<1> QED
  BY <1>4, <1>5, <1>6

\* A client that moves a stream on or finishes: at most from start to moved.
LEMMA ReadInv ==
  ASSUME Inv, NEW i \in 1 .. counter, PostDetach(i),
         UNCHANGED <<mapVars, long, use, owner, reportVars, cleared, closes>>,
         finished' \subseteq Clients,
         stream' = stream
           \/ (stream[i] = "start" /\ stream' = [stream EXCEPT ![i] = "moved"])
  PROVE  Inv'
<1> USE DEF mapVars, reportVars
<1>1. /\ posted' \in Seq(Posts) /\ on_detach' \in [Ids -> BOOLEAN]
      /\ \A m : Has(posted, m) => Has(posted', m)
      /\ \A m : Has(posted', m) => Has(posted, m) \/ m = Detach(i)
  BY PostDetachHas
<1>2. 1 .. counter \subseteq Ids
  BY ConnectionManagerAssumption DEF Inv, ListAgrees, TypeOK, Ids
<1>3. /\ stream' \in [Ids -> {"none", "start", "moved", "closed"}]
      /\ \A id \in Ids : /\ stream'[id] # "none" <=> stream[id] # "none"
                         /\ stream'[id] = "closed" <=> stream[id] = "closed"
                         /\ Open(id)' <=> Open(id)
  BY <1>2 DEF Inv, ListAgrees, TypeOK, Open
<1>4. TypeOK'
  BY <1>1, <1>3 DEF Inv, ListAgrees, TypeOK, Posts
<1>5. ListedWhileOpen'
  <2>1. \A id \in Ids : Open(id) => id \in connections \cup cleared
    BY DEF Open, Inv, ListAgrees, ListedWhileOpen
  <2>2. \A id \in connections \cap Ids : Open(id) \/ Has(posted, Closed(id))
    BY PostInvHas DEF Open, Inv, ListAgrees, ListedWhileOpen
  <2>3. ASSUME NEW id \in Ids, Open(id)'
        PROVE  id \in connections' \cup cleared'
    BY <1>3, <2>1, <2>3
  <2>4. ASSUME NEW id \in Ids, id \in connections'
        PROVE  Open(id)' \/ Has(posted', Closed(id))
    BY <1>1, <1>3, <2>2, <2>4
  <2> QED
    BY <2>3, <2>4 DEF ListedWhileOpen, Open, Pending, Has
<1>6. ListenersAgree'
  <2>1. evented = connections \/ Has(posted', Emit)
    BY <1>1, PostInvHas DEF Inv, ListAgrees, ListenersAgree
  <2> QED
    BY <2>1 DEF Inv, ListAgrees, ListenersAgree, Pending, Has
<1>7. StreamInv'
  BY <1>3 DEF Inv, StreamInv
<1>8. PostInv'
  <2>1. Detach(i).kind = "detach" /\ Detach(i).id = i
    BY DEF Detach
  <2>2. \A m : Has(posted', m) =>
           /\ m.kind # "emit" => m.id \in 1 .. counter'
           /\ m.kind = "close" => stream'[m.id] = "closed"
    BY <1>1, <1>2, <1>3, <2>1, PostInvHas DEF Inv
  <2> QED
    BY <2>2 DEF PostInv, Has
<1> QED
  BY <1>4, <1>5, <1>6, <1>7, <1>8 DEF Inv, ListAgrees

\* A client that leaves keeps the invariant.
LEMMA LeaveInv ==
  ASSUME Inv, NEW c \in Clients, Leave(c)
  PROVE  Inv'
<1> USE DEF Leave, mapVars
<1> DEFINE i == use[c]
<1>1. i \in 1 .. counter
  BY DEF Inv, ListAgrees, TypeOK
<1>2. /\ use' \in [Clients -> {Nobody} \cup 1 .. counter]
      /\ \A d \in Clients \ {c} : use'[d] = use[d]
  BY DEF Inv, ListAgrees, TypeOK
<1>3. \A id \in Ids \ {i} : Held(id, connection_proxies, use)
                             => Held(id, connection_proxies', use')
  BY <1>2 DEF Held
<1>4. posted \in Seq(Posts) /\ finished' \subseteq Clients
  BY DEF Inv, ListAgrees, TypeOK, Posts
<1>5. Keep(connection_proxies', use', posted)
  OBVIOUS
<1> HIDE DEF i
<1> QED
  BY <1>1, <1>2, <1>3, <1>4, <1>5, KeepInv

-----------------------------------------------------------------------------
\* Every step keeps the invariant.
LEMMA NextInv == Inv /\ [Next]_vars => Inv'
<1> SUFFICES ASSUME Inv, [Next]_vars PROVE Inv'
  OBVIOUS
<1>1. ASSUME NEW i \in Ids, Move(i)
      PROVE  Inv'
  <2>1. i \in 1 .. counter
    BY <1>1 DEF Move, Inv, StreamInv
  <2> QED
    BY <1>1, <2>1, ReadInv DEF Move, clientVars, Inv, ListAgrees, TypeOK
<1>2. ASSUME NEW c \in Clients, Finish(c)
      PROVE  Inv'
  <2>1. use[c] \in 1 .. counter /\ finished' \subseteq Clients
    BY <1>2 DEF Finish, Inv, ListAgrees, TypeOK
  <2> QED
    BY <1>2, <2>1, ReadInv DEF Finish
<1>3. CASE UNCHANGED vars
  BY <1>3 DEF vars, mapVars, streamVars, clientVars, reportVars, Inv,
     ListAgrees, TypeOK, ListedWhileOpen, ListenersAgree, StreamInv, PostInv,
     Open, Pending
<1> QED
  BY <1>1, <1>2, <1>3, MessagesInv, CloseInv, SingleShotInv, LeaveInv,
     AttachInv, AddInv DEF Next

\* For any number of clients and connections: what is listed and what is told
\* of it is true, whatever order requests, timers, events and close() come in.
THEOREM ListIsTrue == Spec => []ListAgrees
<1>1. Inv => ListAgrees
  BY DEF Inv
<1> QED
  BY <1>1, InitInv, NextInv, PTL DEF Spec

-----------------------------------------------------------------------------
(* One stream per key.                                                     *)

\* What a client could attach to comes from add_output_connection alone, and
\* that is only called if there is nothing to attach to.
LEMMA NextOneStreamPerKey ==
  Inv /\ OneStreamPerKey /\ [Next]_vars => OneStreamPerKey'
<1> SUFFICES ASSUME Inv, OneStreamPerKey, [Next]_vars PROVE OneStreamPerKey'
  OBVIOUS
<1> USE DEF mapVars, streamVars
<1>1. ASSUME connection_proxies' \subseteq connection_proxies,
             connections' \subseteq connections, UNCHANGED key,
             \A i \in Ids : stream'[i] = "start" => stream[i] = "start"
      PROVE  OneStreamPerKey'
  <2>1. connections \subseteq Ids
    BY ConnectionManagerAssumption DEF Inv, ListAgrees, TypeOK, Ids
  <2> QED
    BY <1>1, <2>1 DEF OneStreamPerKey
<1>2. ASSUME NEW map, NEW u, NEW more, Keep(map, u, more)
      PROVE  \A i \in Ids : stream'[i] = "start" => stream[i] = "start"
  BY <1>2 DEF Keep
<1>3. CASE EmitEvent \/ close
  BY <1>1, <1>3 DEF EmitEvent, close
<1>4. CASE OnDetach
  BY <1>1, <1>2, <1>4 DEF OnDetach, Detached
<1>5. CASE remove_output_connection
  BY <1>1, <1>5 DEF remove_output_connection, Remaining
<1>6. ASSUME NEW i \in Ids, SingleShot(i) \/ Move(i)
      PROVE  OneStreamPerKey'
  <2>1. CASE SingleShot(i)
    BY <1>1, <1>2, <2>1 DEF SingleShot
  <2>2. CASE Move(i)
    BY <1>1, <2>2 DEF Move, Inv, ListAgrees, TypeOK
  <2> QED
    BY <1>6, <2>1, <2>2
<1>7. ASSUME NEW c \in Clients, Finish(c) \/ Leave(c)
      PROVE  OneStreamPerKey'
  <2>1. CASE Finish(c)
    BY <1>1, <2>1 DEF Finish
  <2>2. CASE Leave(c)
    BY <1>1, <1>2, <2>2 DEF Leave
  <2> QED
    BY <1>7, <2>1, <2>2
<1>8. ASSUME NEW c \in Clients, NEW k \in Keys,
             try_attach_output_connection(c, k)
      PROVE  OneStreamPerKey'
  BY <1>1, <1>8 DEF try_attach_output_connection
<1>9. ASSUME NEW c \in Clients, NEW k \in Keys, add_output_connection(c, k)
      PROVE  OneStreamPerKey'
  <2> DEFINE id == counter + 1
  <2>1. /\ connections' = connections \cup {id} /\ key[id] = k /\ key' = key
        /\ connection_proxies' = connection_proxies \cup {id}
        /\ stream' = [stream EXCEPT ![id] = "start"] /\ Attachable(k) = {}
    BY <1>9 DEF add_output_connection
  <2>2. \A i \in connections \cap connection_proxies :
           key[i] = k => stream[i] # "start"
    BY <2>1 DEF Attachable
  <2>3. connections \subseteq Ids /\ id \notin connections
    BY ConnectionManagerAssumption DEF Inv, ListAgrees, TypeOK, Ids
  <2>4. \A i \in connections : stream'[i] = stream[i]
    BY <2>1, <2>3 DEF Inv, ListAgrees, TypeOK
  <2> HIDE DEF id
  <2> QED
    BY <2>1, <2>2, <2>4 DEF OneStreamPerKey
<1>10. CASE UNCHANGED vars
  BY <1>1, <1>10 DEF vars
<1> QED
  BY <1>3, <1>4, <1>5, <1>6, <1>7, <1>8, <1>9, <1>10 DEF Next, Messages

\* However many clients ask for the same thing, there is at most one stream
\* that the next of them could attach to.
THEOREM StreamsAreShared == Spec => []OneStreamPerKey
<1>1. Init => OneStreamPerKey
  BY DEF Init, OneStreamPerKey
<1> QED
  BY <1>1, InitInv, NextInv, NextOneStreamPerKey, PTL DEF Spec

=============================================================================
