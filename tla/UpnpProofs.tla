----------------------------- MODULE UpnpProofs -----------------------------
(***************************************************************************)
(* Proofs about Upnp, for every set of requests and paths and any number    *)
(* of streams and calls of initialize().                                    *)
(***************************************************************************)
EXTENDS Upnp, TLAPS

Messages == [kind : {"handle", "insert", "erase"}, req : Requests,
             file : 0 .. made]

\* What the loop's thread has yet to do is possible.
PhaseInv ==
  /\ phase = "starting" => serving
  /\ phase = "renewing" => inits < MaxInits

\* A thread whose response is its own, not the one kept for the path.
Holds(r) == pc[r] \in {"store", "insert", "inserting", "reading"}

\* A message of a thread that waits for it, or the erase after a close().
Answerable(m) ==
  /\ m.kind = "handle" => pc[m.req] \in {"info", "opening"}
  /\ m.kind = "insert" => pc[m.req] = "inserting" /\ stream[m.req] = m.file

\* Each thread waits for one message.
QueueInv ==
  /\ \A n \in 1 .. Len(queue) : Answerable(queue[n])
  /\ \A n, m \in 1 .. Len(queue) :
       n # m /\ queue[n].kind # "erase" /\ queue[m].kind # "erase"
       => queue[n].req # queue[m].req

\* Where a thread has no response.
IdleInv ==
  \A r \in Requests :
    /\ pc[r] \in {"new", "info", "open", "opening"} => stream[r] = Null
    /\ pc[r] = "reading" => stream[r] # Null

\* A stream has one owner: a thread, a path, or a message that erases it.
OwnInv ==
  /\ \A r, q \in Requests :
       r # q /\ Holds(r) /\ Holds(q) /\ stream[r] # Null
       => stream[r] # stream[q]
  /\ \A r \in Requests, p \in Paths :
       Holds(r) /\ stream[r] # Null => responses[p] # stream[r]
  /\ \A p, q \in Paths :
       p # q /\ responses[p] \notin {Absent, Null}
       => responses[p] # responses[q]
  /\ \A n \in 1 .. Len(queue) :
       queue[n].kind = "erase" =>
         /\ queue[n].file # Null
         /\ \A r \in Requests : Holds(r) => stream[r] # queue[n].file
         /\ \A p \in Paths : responses[p] # queue[n].file

\* The timer is already running when the response is put down.
StoreInv ==
  \A r \in Requests :
    pc[r] = "store" /\ stream[r] # Null => clear_responses_timer

Inv ==
  /\ TypeOK /\ PhaseInv /\ QueueInv /\ IdleInv /\ OwnInv /\ StoreInv
  /\ StreamsHaveTimer /\ ClosedIsQuiet /\ HeldWhileOpen

-----------------------------------------------------------------------------
(* The queue.                                                              *)

\* What is left after the first message.
LEMMA QueueTail ==
  ASSUME NEW S, NEW s \in Seq(S), s # <<>>
  PROVE  /\ Head(s) = s[1] /\ 1 \in 1 .. Len(s) /\ Head(s) \in S
         /\ Tail(s) \in Seq(S) /\ Len(Tail(s)) = Len(s) - 1
         /\ \A n \in 1 .. Len(Tail(s)) :
              n + 1 \in 1 .. Len(s) /\ n + 1 # 1 /\ Tail(s)[n] = s[n + 1]
  OBVIOUS

\* What there is after one more.
LEMMA QueueAppend ==
  ASSUME NEW S, NEW s \in Seq(S), NEW m \in S
  PROVE  /\ Append(s, m) \in Seq(S) /\ Len(Append(s, m)) = Len(s) + 1
         /\ \A n \in 1 .. Len(s) : Append(s, m)[n] = s[n]
         /\ Append(s, m)[Len(s) + 1] = m
         /\ \A n \in 1 .. Len(Append(s, m)) :
              n \in 1 .. Len(s) \/ n = Len(s) + 1
  OBVIOUS

\* More streams may be in a message when there are more.
LEMMA QueueGrows ==
  ASSUME NEW S, NEW T, S \subseteq T, NEW s \in Seq(S)
  PROVE  s \in Seq(T)
  OBVIOUS

-----------------------------------------------------------------------------
\* The web server starts without responses.
LEMMA InitInv == Init => Inv
<1> SUFFICES ASSUME Init PROVE Inv
  OBVIOUS
<1> USE DEF Init
<1>1. TypeOK
  <2>1. responses \in [Paths -> {Absent} \cup 0 .. made]
    OBVIOUS
  <2>2. pc \in [Requests -> Labels] /\ stream \in [Requests -> 0 .. made]
    BY DEF Labels, Null
  <2>3. queue \in Seq([kind : {"handle", "insert", "erase"}, req : Requests,
                       file : 0 .. made])
    OBVIOUS
  <2> QED
    <3>1. /\ inits \in 0 .. MaxInits /\ made \in 0 .. MaxStreams
          /\ handles \subseteq 0 .. made
      BY UpnpAssumption
    <3> QED
      BY <2>1, <2>2, <2>3, <3>1 DEF TypeOK
<1>2. PhaseInv /\ QueueInv /\ IdleInv /\ StoreInv
  BY DEF PhaseInv, QueueInv, IdleInv, StoreInv
<1>3. OwnInv
  BY DEF OwnInv, Holds, Null, Absent
<1>4. StreamsHaveTimer /\ ClosedIsQuiet /\ HeldWhileOpen
  BY DEF StreamsHaveTimer, ClosedIsQuiet, HeldWhileOpen, Reading, Null, Absent
<1> QED
  BY <1>1, <1>2, <1>3, <1>4 DEF Inv

-----------------------------------------------------------------------------
(* Types.                                                                  *)

\* A message that is appended.
LEMMA MessageTypes ==
  ASSUME TypeOK, NEW r \in Requests
  PROVE  /\ Handle(r) \in Messages /\ Insert(r) \in Messages
         /\ Erase(r) \in Messages
  BY DEF TypeOK, Handle, Insert, Erase, Messages, Null

\* InitLibupnp, from whatever called it.
LEMMA InitLibupnpTypes ==
  ASSUME TypeOK, inits < MaxInits, NEW was \in BOOLEAN, InitLibupnp(was)
  PROVE  /\ initialized' \in BOOLEAN /\ serving' \in BOOLEAN
         /\ inits' \in 0 .. MaxInits /\ phase' \in {"idle", "starting"}
         /\ initialized' => serving'
         /\ phase' = "starting" => serving'
<1>1. inits' \in 0 .. MaxInits
  BY UpnpAssumption DEF TypeOK, InitLibupnp
<1>2. CASE ~was /\ initialized' = TRUE /\ serving' = TRUE /\ phase' = "starting"
  BY <1>1, <1>2
<1>3. CASE initialized' = FALSE /\ serving' = was /\ phase' = "idle"
  BY <1>1, <1>3
<1> QED
  BY <1>2, <1>3 DEF InitLibupnp

\* Every step keeps the type and the phase.
LEMMA NextTypeOK == TypeOK /\ PhaseInv /\ [Next]_vars => TypeOK' /\ PhaseInv'
<1> SUFFICES ASSUME TypeOK, PhaseInv, [Next]_vars PROVE TypeOK' /\ PhaseInv'
  OBVIOUS
<1> USE UpnpAssumption DEF loopVars
<1>1. queue \in Seq(Messages)
  BY DEF TypeOK, Messages
<1>2. ASSUME UNCHANGED <<loopVars, made>>,
             responses' \in [Paths -> {Absent} \cup 0 .. made],
             clear_responses_timer' \in BOOLEAN, handles' \subseteq 0 .. made,
             queue' \in Seq(Messages), pc' \in [Requests -> Labels],
             stream' \in [Requests -> 0 .. made]
      PROVE  TypeOK' /\ PhaseInv'
  BY <1>2 DEF TypeOK, PhaseInv, Messages
<1>3. CASE HandleRequest
  <2> DEFINE r == Head(queue).req
  <2>1. r \in Requests /\ Tail(queue) \in Seq(Messages)
    <3>1. Head(queue) \in Messages /\ Tail(queue) \in Seq(Messages)
      BY <1>1, <1>3, QueueTail DEF HandleRequest
    <3> QED
      BY <3>1 DEF Messages
  <2>2. CASE HandleFound(r)
    <3>1. made' = made + 1 /\ made' \in 0 .. MaxStreams
      BY <2>2 DEF HandleFound, TypeOK
    <3>2. queue' \in Seq([kind : {"handle", "insert", "erase"}, req : Requests,
                          file : 0 .. made'])
      <4>1. Messages \subseteq
              [kind : {"handle", "insert", "erase"}, req : Requests,
               file : 0 .. made']
        BY <3>1 DEF Messages, TypeOK
      <4> QED
        BY <1>3, <2>1, <4>1, QueueGrows DEF HandleRequest
    <3>3. stream' \in [Requests -> 0 .. made']
      BY <2>1, <2>2, <3>1 DEF HandleFound, TypeOK
    <3>4. pc' \in [Requests -> Labels]
      BY <2>1, <2>2 DEF HandleFound, TypeOK, Goto, Asked, Labels
    <3>5. clear_responses_timer' \in BOOLEAN
      BY <2>2 DEF HandleFound, TypeOK, TimerAfter
    <3>6. /\ responses' \in [Paths -> {Absent} \cup 0 .. made']
          /\ handles' \subseteq 0 .. made'
      BY <1>3, <3>1 DEF HandleRequest, TypeOK
    <3> QED
      BY <1>3, <3>1, <3>2, <3>3, <3>4, <3>5, <3>6
      DEF HandleRequest, TypeOK, PhaseInv
  <2>3. CASE HandleNotFound(r) \/ HandleEmpty(r)
    <3>1. pc' \in [Requests -> Labels]
      BY <2>1, <2>3 DEF HandleNotFound, HandleEmpty, Goto, Labels, TypeOK
    <3> QED
      BY <1>2, <1>3, <2>1, <2>3, <3>1
      DEF HandleRequest, HandleNotFound, HandleEmpty, TypeOK
  <2> QED
    BY <1>3, <2>2, <2>3 DEF HandleRequest
<1>4. CASE HandleInsert
  <2>1. /\ Head(queue).req \in Requests /\ Head(queue).file \in 0 .. made
        /\ Tail(queue) \in Seq(Messages)
    <3>1. Head(queue) \in Messages /\ Tail(queue) \in Seq(Messages)
      BY <1>1, <1>4, QueueTail DEF HandleInsert
    <3> QED
      BY <3>1 DEF Messages
  <2>2. pc' \in [Requests -> Labels]
    BY <1>4, <2>1 DEF HandleInsert, Goto, Labels, TypeOK
  <2>3. handles' \subseteq 0 .. made
    BY <1>4, <2>1 DEF HandleInsert, Inserted, TypeOK
  <2> QED
    BY <1>2, <1>4, <2>1, <2>2, <2>3 DEF HandleInsert, TypeOK
<1>5. CASE HandleErase
  <2>1. Tail(queue) \in Seq(Messages) /\ handles' \subseteq 0 .. made
    BY <1>1, <1>5, QueueTail DEF HandleErase, Erased, TypeOK
  <2> QED
    BY <1>2, <1>5, <2>1 DEF HandleErase, TypeOK
<1>6. CASE clear_responses
  BY <1>1, <1>2, <1>6 DEF clear_responses, TypeOK
<1>7. ASSUME NEW then \in {"closing", "renewing"}, BeginClose(then),
             then = "renewing" => inits < MaxInits
      PROVE  TypeOK' /\ PhaseInv'
  BY <1>7 DEF BeginClose, TypeOK, PhaseInv
<1>8. CASE EndClose
  <2>1. CASE phase = "renewing"
    <3>1. inits < MaxInits /\ InitLibupnp(FALSE)
      BY <1>8, <2>1 DEF EndClose, PhaseInv
    <3>2. /\ initialized' \in BOOLEAN /\ serving' \in BOOLEAN
          /\ inits' \in 0 .. MaxInits /\ phase' \in {"idle", "starting"}
          /\ initialized' => serving'
          /\ phase' = "starting" => serving'
      BY <3>1, InitLibupnpTypes
    <3>3. responses' \in [Paths -> {Absent} \cup 0 .. made']
      BY <1>8 DEF EndClose
    <3> QED
      BY <1>8, <3>2, <3>3 DEF EndClose, TypeOK, PhaseInv
  <2>2. CASE phase = "closing"
    BY <1>8, <2>2 DEF EndClose, TypeOK, PhaseInv
  <2> QED
    BY <1>8, <2>1, <2>2 DEF EndClose, Finished
<1>9. CASE initialize
  <2>1. /\ initialized' \in BOOLEAN /\ serving' \in BOOLEAN
        /\ inits' \in 0 .. MaxInits /\ phase' \in {"idle", "starting"}
        /\ initialized' => serving'
        /\ phase' = "starting" => serving'
    BY <1>9, InitLibupnpTypes DEF initialize, TypeOK
  <2> QED
    BY <1>9, <2>1 DEF initialize, TypeOK, PhaseInv
<1>10. CASE ChildrenDone
  BY <1>10 DEF ChildrenDone, TypeOK, PhaseInv
<1>11. ASSUME NEW r \in Requests, Thread(r)
       PROVE  TypeOK' /\ PhaseInv'
  <2>1. Path[r] \in Paths
    BY DEF Paths
  <2>2. responses[Path[r]] # Absent => responses[Path[r]] \in 0 .. made
    BY <2>1 DEF TypeOK
  <2>3. CASE get_info(r) \/ open(r)
    <3>1. pc' \in [Requests -> Labels]
      BY <2>3 DEF get_info, open, Hit, Miss, Goto, Labels, TypeOK
    <3>2. stream' \in [Requests -> 0 .. made]
      BY <2>2, <2>3 DEF get_info, open, Hit, Miss, TypeOK
    <3>3. queue' \in Seq(Messages)
      BY <1>1, <2>3, MessageTypes, QueueAppend DEF get_info, open, Hit, Miss
    <3>4. responses' \in [Paths -> {Absent} \cup 0 .. made]
      BY <2>3 DEF get_info, open, Taken, TypeOK
    <3> QED
      BY <1>2, <2>3, <3>1, <3>2, <3>3, <3>4 DEF get_info, open, TypeOK
  <2>4. CASE Store(r)
    <3>1. /\ pc' \in [Requests -> Labels]
          /\ responses' \in [Paths -> {Absent} \cup 0 .. made]
      BY <2>1, <2>4 DEF Store, Goto, Labels, TypeOK
    <3> QED
      BY <1>1, <1>2, <2>4, <3>1 DEF Store, TypeOK
  <2>5. CASE SendInsert(r) \/ CloseFile(r)
    <3>1. pc' \in [Requests -> Labels]
      BY <2>5 DEF SendInsert, CloseFile, Goto, Labels, TypeOK
    <3>2. queue' \in Seq(Messages)
      BY <1>1, <2>5, MessageTypes, QueueAppend DEF SendInsert, CloseFile
    <3> QED
      BY <1>2, <2>5, <3>1, <3>2 DEF SendInsert, CloseFile, TypeOK
  <2>6. ASSUME NEW head \in BOOLEAN, InfoReturned(r, head)
        PROVE  TypeOK' /\ PhaseInv'
    <3>1. pc' \in [Requests -> Labels] /\ stream' \in [Requests -> 0 .. made]
      BY <2>6 DEF InfoReturned, Goto, Labels, TypeOK, Null
    <3> QED
      BY <1>1, <1>2, <2>6, <3>1 DEF InfoReturned, TypeOK
  <2> QED
    BY <1>11, <2>3, <2>4, <2>5, <2>6 DEF Thread
<1>12. CASE UNCHANGED vars
  BY <1>12 DEF vars, TypeOK, PhaseInv
<1> QED
  BY <1>3, <1>4, <1>5, <1>6, <1>7, <1>8, <1>9, <1>10, <1>11, <1>12
  DEF Next, process_events, update_interfaces, Reinitialize

-----------------------------------------------------------------------------
(* Messages and the threads that wait for them.                            *)

\* The fields of the messages in the queue.
LEMMA QueueFields ==
  TypeOK => \A n \in 1 .. Len(queue) :
              /\ queue[n].kind \in {"handle", "insert", "erase"}
              /\ queue[n].req \in Requests /\ queue[n].file \in 0 .. made
<1> SUFFICES ASSUME TypeOK, NEW n \in 1 .. Len(queue)
             PROVE  queue[n] \in Messages
  BY DEF Messages
<1>1. queue \in Seq(Messages)
  BY DEF TypeOK, Messages
<1> QED
  BY <1>1

\* Without the first message, which was that of r, and with r gone on.
LEMMA QueueInvTail ==
  ASSUME TypeOK, QueueInv, queue # <<>>, queue' = Tail(queue),
         NEW r \in Requests, Head(queue).kind # "erase" => Head(queue).req = r,
         Head(queue).kind = "erase" => UNCHANGED <<pc, stream>>,
         \A q \in Requests \ {r} : pc'[q] = pc[q] /\ stream'[q] = stream[q]
  PROVE  QueueInv'
<1>1. /\ Head(queue) = queue[1] /\ 1 \in 1 .. Len(queue)
      /\ \A n \in 1 .. Len(queue') :
           n + 1 \in 1 .. Len(queue) /\ n + 1 # 1 /\ queue'[n] = queue[n + 1]
  BY QueueTail DEF TypeOK
<1>2. ASSUME NEW n \in 1 .. Len(queue')
      PROVE  Answerable(queue[n])'
  <2> DEFINE m == queue[n + 1]
  <2>1. /\ queue'[n] = m /\ m.req \in Requests /\ Answerable(m)
        /\ queue[1].kind # "erase" /\ m.kind # "erase" => m.req # queue[1].req
    BY <1>1, QueueFields DEF QueueInv
  <2>2. m.kind # "erase" =>
          pc'[m.req] = pc[m.req] /\ stream'[m.req] = stream[m.req]
    BY <1>1, <2>1
  <2> HIDE DEF m
  <2> QED
    BY <2>1, <2>2 DEF Answerable
<1>3. ASSUME NEW n \in 1 .. Len(queue'), NEW m \in 1 .. Len(queue'), n # m,
             queue'[n].kind # "erase", queue'[m].kind # "erase"
      PROVE  queue'[n].req # queue'[m].req
  BY <1>1, <1>3 DEF QueueInv
<1> QED
  BY <1>2, <1>3 DEF QueueInv

\* r goes on that waited for no message, and may append one.
LEMMA QueueInvThread ==
  ASSUME TypeOK, QueueInv, NEW r \in Requests,
         pc[r] \notin {"info", "opening", "inserting"},
         \A q \in Requests \ {r} : pc'[q] = pc[q] /\ stream'[q] = stream[q],
         \/ queue' = queue
         \/ \E m \in Messages :
              queue' = Append(queue, m) /\ m.req = r /\ Answerable(m)'
  PROVE  QueueInv'
<1>1. \A n \in 1 .. Len(queue) :
         queue[n].kind # "erase" => queue[n].req \in Requests \ {r}
  BY QueueFields DEF QueueInv, Answerable
<1>2. CASE queue' = queue
  BY <1>1, <1>2, QueueFields DEF QueueInv, Answerable
<1>3. ASSUME NEW m \in Messages, queue' = Append(queue, m), m.req = r,
             Answerable(m)'
      PROVE  QueueInv'
  <2>1. /\ \A n \in 1 .. Len(queue) : queue'[n] = queue[n]
        /\ queue'[Len(queue) + 1] = m
        /\ \A n \in 1 .. Len(queue') :
             n \in 1 .. Len(queue) \/ n = Len(queue) + 1
    BY <1>3, QueueAppend DEF TypeOK, Messages
  <2>2. ASSUME NEW n \in 1 .. Len(queue')
        PROVE  Answerable(queue[n])'
    BY <1>1, <1>3, <2>1, QueueFields DEF QueueInv, Answerable
  <2>3. ASSUME NEW n \in 1 .. Len(queue'), NEW k \in 1 .. Len(queue'), n # k,
               queue'[n].kind # "erase", queue'[k].kind # "erase"
        PROVE  queue'[n].req # queue'[k].req
    BY <1>1, <1>3, <2>1, <2>3 DEF QueueInv
  <2> QED
    BY <2>2, <2>3 DEF QueueInv
<1> QED
  BY <1>2, <1>3

\* Every step keeps what the queue holds.
LEMMA NextQueueInv ==
  TypeOK /\ QueueInv /\ IdleInv /\ [Next]_vars => QueueInv' /\ IdleInv'
<1> SUFFICES ASSUME TypeOK, QueueInv, IdleInv, [Next]_vars
             PROVE  QueueInv' /\ IdleInv'
  OBVIOUS
<1>1. ASSUME UNCHANGED <<queue, pc, stream>> PROVE QueueInv' /\ IdleInv'
  BY <1>1 DEF QueueInv, Answerable, IdleInv
<1>2. CASE process_events
  <2> DEFINE r == Head(queue).req
  <2>1. queue # <<>> /\ queue' = Tail(queue)
    BY <1>2 DEF process_events, HandleRequest, HandleInsert, HandleErase
  <2>2. Head(queue) = queue[1] /\ 1 \in 1 .. Len(queue)
    BY <2>1, QueueTail DEF TypeOK
  <2>3. r \in Requests /\ Answerable(queue[1])
    BY <2>2, QueueFields DEF QueueInv
  <2>4. \A q \in Requests \ {r} : pc'[q] = pc[q] /\ stream'[q] = stream[q]
    BY <1>2, <2>3
    DEF process_events, HandleRequest, HandleInsert, HandleErase, HandleFound,
        HandleNotFound, HandleEmpty, Goto, TypeOK
  <2>5. Head(queue).kind = "erase" => UNCHANGED <<pc, stream>>
    BY <1>2 DEF process_events, HandleRequest, HandleInsert, HandleErase
  <2>6. QueueInv'
    BY <2>1, <2>3, <2>4, <2>5, QueueInvTail
  <2>7. CASE HandleRequest
    <3>1. pc[r] \in {"info", "opening"} /\ stream[r] = Null
      BY <2>2, <2>3, <2>7 DEF HandleRequest, Answerable, IdleInv
    <3>2. pc'[r] \in {"store", "insert", "done"}
      BY <2>3, <2>7 DEF HandleRequest, HandleFound, HandleNotFound, HandleEmpty,
           Goto, Asked, TypeOK
    <3> QED
      BY <2>3, <2>4, <2>6, <3>2 DEF IdleInv
  <2>8. CASE HandleInsert
    <3>1. stream[r] = Head(queue).file /\ UNCHANGED stream
      BY <2>2, <2>3, <2>8 DEF HandleInsert, Answerable
    <3>2. pc'[r] = IF Head(queue).file = Null THEN "done" ELSE "reading"
      BY <2>3, <2>8 DEF HandleInsert, Goto, TypeOK
    <3> QED
      BY <2>3, <2>4, <2>6, <3>1, <3>2 DEF IdleInv
  <2>9. CASE HandleErase
    BY <2>6, <2>9 DEF HandleErase, IdleInv
  <2> QED
    BY <1>2, <2>7, <2>8, <2>9 DEF process_events
<1>3. ASSUME NEW r \in Requests, Thread(r)
      PROVE  QueueInv' /\ IdleInv'
  <2>1. \A q \in Requests \ {r} : pc'[q] = pc[q] /\ stream'[q] = stream[q]
    BY <1>3 DEF Thread, get_info, Store, InfoReturned, open, SendInsert,
         CloseFile, Hit, Miss, Goto, TypeOK
  <2>2. pc[r] \notin {"info", "opening", "inserting"}
    BY <1>3 DEF Thread, get_info, Store, InfoReturned, open, SendInsert,
         CloseFile
  <2>3. \/ queue' = queue
        \/ \E m \in Messages :
             queue' = Append(queue, m) /\ m.req = r /\ Answerable(m)'
    <3>1. CASE get_info(r) \/ open(r)
      BY <3>1, MessageTypes DEF get_info, open, Hit, Miss, Handle, Answerable,
           Goto, TypeOK
    <3>2. CASE SendInsert(r)
      BY <3>2, MessageTypes DEF SendInsert, Insert, Answerable, Goto, TypeOK
    <3>3. CASE CloseFile(r)
      BY <3>3, MessageTypes DEF CloseFile, Erase, Answerable
    <3> QED
      BY <1>3, <3>1, <3>2, <3>3 DEF Thread, Store, InfoReturned
  <2>4. QueueInv'
    BY <2>1, <2>2, <2>3, QueueInvThread
  <2>5. /\ pc'[r] \in {"new", "info", "open", "opening"} => stream'[r] = Null
        /\ pc'[r] # "reading"
    BY <1>3 DEF Thread, get_info, Store, InfoReturned, open, SendInsert,
         CloseFile, Hit, Miss, Goto, TypeOK, IdleInv
  <2> QED
    BY <2>1, <2>4, <2>5 DEF IdleInv
<1>4. CASE clear_responses \/ EndClose \/ initialize \/ ChildrenDone
  BY <1>1, <1>4 DEF clear_responses, EndClose, initialize, ChildrenDone
<1>5. ASSUME NEW then, BeginClose(then)
      PROVE  QueueInv' /\ IdleInv'
  BY <1>1, <1>5 DEF BeginClose
<1> QED
  BY <1>1, <1>2, <1>3, <1>4, <1>5
  DEF Next, vars, update_interfaces, Reinitialize

-----------------------------------------------------------------------------
(* Streams and their owners.                                               *)

\* What is left of the queue erases the streams it did before.
LEMMA ErasesTail ==
  ASSUME TypeOK, queue # <<>>, queue' = Tail(queue),
         NEW n \in 1 .. Len(queue')
  PROVE  n + 1 \in 1 .. Len(queue) /\ queue'[n] = queue[n + 1]
  BY QueueTail DEF TypeOK

\* A stream that nobody can have.
LEMMA FreshStream ==
  ASSUME TypeOK
  PROVE  /\ \A r \in Requests : stream[r] # made + 1
         /\ \A p \in Paths : responses[p] # made + 1
         /\ \A n \in 1 .. Len(queue) : queue[n].file # made + 1
         /\ made + 1 # Null /\ made + 1 # Absent
  BY QueueFields DEF TypeOK, Null, Absent

\* Every step keeps who owns a response.
LEMMA NextOwnInv ==
  TypeOK /\ QueueInv /\ IdleInv /\ OwnInv /\ [Next]_vars => OwnInv'
<1> SUFFICES ASSUME TypeOK, QueueInv, IdleInv, OwnInv, [Next]_vars
             PROVE  OwnInv'
  OBVIOUS
<1>1. ASSUME UNCHANGED <<responses, queue, pc, stream>> PROVE OwnInv'
  BY <1>1 DEF OwnInv, Holds
<1>2. CASE HandleRequest
  <2> DEFINE r == Head(queue).req
  <2>1. queue # <<>> /\ queue' = Tail(queue) /\ UNCHANGED responses
    BY <1>2 DEF HandleRequest
  <2>2. Head(queue) = queue[1] /\ 1 \in 1 .. Len(queue)
    BY <2>1, QueueTail DEF TypeOK
  <2>3. r \in Requests /\ ~Holds(r) /\ stream[r] = Null
    BY <1>2, <2>2, QueueFields
    DEF HandleRequest, QueueInv, Answerable, Holds, IdleInv
  <2>4. \A q \in Requests \ {r} :
           /\ stream'[q] = stream[q] /\ pc'[q] = pc[q]
           /\ Holds(q)' <=> Holds(q)
    BY <1>2, <2>3 DEF HandleRequest, HandleFound, HandleNotFound, HandleEmpty,
         Goto, TypeOK, Holds
  <2>5. stream'[r] \in {Null, made + 1}
    BY <1>2, <2>3
    DEF HandleRequest, HandleFound, HandleNotFound, HandleEmpty, TypeOK
  <2>6. \A n \in 1 .. Len(queue') :
           n + 1 \in 1 .. Len(queue) /\ queue'[n] = queue[n + 1]
    BY <2>1, ErasesTail
  <2> HIDE DEF r
  <2>7. \A n \in 1 .. Len(queue') :
           queue'[n].kind = "erase" =>
             /\ queue'[n].file # Null
             /\ \A q \in Requests : Holds(q)' => stream'[q] # queue'[n].file
             /\ \A p \in Paths : responses'[p] # queue'[n].file
    BY <2>1, <2>3, <2>4, <2>5, <2>6, FreshStream DEF OwnInv
  <2>8. \A p, q \in Requests :
           p # q /\ Holds(p)' /\ Holds(q)' /\ stream'[p] # Null
           => stream'[p] # stream'[q]
    BY <2>3, <2>4, <2>5, FreshStream DEF OwnInv
  <2>9. \A q \in Requests, p \in Paths :
           Holds(q)' /\ stream'[q] # Null => responses'[p] # stream'[q]
    BY <2>1, <2>3, <2>4, <2>5, FreshStream DEF OwnInv
  <2> QED
    BY <2>1, <2>7, <2>8, <2>9 DEF OwnInv
<1>3. CASE HandleInsert \/ HandleErase
  <2>1. queue # <<>> /\ queue' = Tail(queue) /\ UNCHANGED <<responses, stream>>
    BY <1>3 DEF HandleInsert, HandleErase
  <2>2. Head(queue) = queue[1] /\ 1 \in 1 .. Len(queue)
    BY <2>1, QueueTail DEF TypeOK
  <2>3. \A q \in Requests : Holds(q)' => Holds(q)
    BY <1>3, <2>2, QueueFields
    DEF HandleInsert, HandleErase, Goto, Holds, QueueInv, Answerable, TypeOK
  <2>4. \A n \in 1 .. Len(queue') :
           n + 1 \in 1 .. Len(queue) /\ queue'[n] = queue[n + 1]
    BY <2>1, ErasesTail
  <2> QED
    BY <2>1, <2>3, <2>4 DEF OwnInv
<1>4. CASE clear_responses \/ EndClose
  <2>1. /\ UNCHANGED <<queue, pc, stream>>
        /\ \A p \in Paths : responses'[p] = Absent
    BY <1>4 DEF clear_responses, EndClose
  <2>2. \A r \in Requests : stream[r] # Absent
    BY DEF TypeOK, Absent
  <2>3. \A n \in 1 .. Len(queue) : queue[n].file # Absent
    BY QueueFields DEF Absent, TypeOK
  <2> QED
    BY <2>1, <2>2, <2>3 DEF OwnInv, Holds
<1>5. ASSUME NEW r \in Requests, Thread(r)
      PROVE  OwnInv'
  <2>1. \A q \in Requests \ {r} :
           /\ pc'[q] = pc[q] /\ stream'[q] = stream[q]
           /\ Holds(q)' <=> Holds(q)
    BY <1>5 DEF Thread, get_info, Store, InfoReturned, open, SendInsert,
         CloseFile, Hit, Miss, Goto, TypeOK, Holds
  <2>2. Path[r] \in Paths
    BY DEF Paths
  <2>3. ASSUME NEW m \in Messages, queue' = Append(queue, m)
        PROVE  /\ \A n \in 1 .. Len(queue') :
                    \/ n \in 1 .. Len(queue) /\ queue'[n] = queue[n]
                    \/ queue'[n] = m
    BY <2>3, QueueAppend DEF TypeOK, Messages
  <2>4. CASE ~Holds(r)' /\ UNCHANGED <<responses, queue>>
    BY <2>1, <2>4 DEF OwnInv
  <2>5. CASE /\ ~Holds(r)' /\ UNCHANGED responses
             /\ queue' = Append(queue, Handle(r))
    <3>1. \A n \in 1 .. Len(queue') :
             queue'[n].kind = "erase" =>
               n \in 1 .. Len(queue) /\ queue'[n] = queue[n]
      BY <2>3, <2>5, MessageTypes DEF Handle
    <3> QED
      BY <2>1, <2>5, <3>1 DEF OwnInv
  <2>6. CASE get_info(r)
    <3>1. ~Holds(r)' /\ UNCHANGED responses
      BY <2>6 DEF get_info, Hit, Miss, Goto, Holds, TypeOK
    <3> QED
      BY <2>4, <2>5, <2>6, <3>1 DEF get_info, Miss
  <2>7. ASSUME NEW head \in BOOLEAN, InfoReturned(r, head)
        PROVE  OwnInv'
    BY <2>4, <2>7 DEF InfoReturned, Goto, Holds, TypeOK
  <2>8. CASE Store(r)
    <3>1. Holds(r) /\ ~Holds(r)' /\ UNCHANGED <<queue, stream>>
      BY <2>8 DEF Store, Goto, Holds, TypeOK
    <3>2. /\ responses'[Path[r]] = stream[r]
          /\ \A p \in Paths \ {Path[r]} : responses'[p] = responses[p]
      BY <2>2, <2>8 DEF Store, TypeOK
    <3> QED
      BY <2>1, <2>2, <3>1, <3>2 DEF OwnInv
  <2>9. CASE open(r)
    <3>1. CASE Hit(r, "insert") /\ responses' = Taken(Path[r]) /\ queue' = queue
      <4>1. /\ ~Holds(r) /\ stream'[r] = responses[Path[r]]
            /\ responses[Path[r]] # Absent /\ responses'[Path[r]] = Absent
            /\ \A p \in Paths \ {Path[r]} : responses'[p] = responses[p]
        BY <2>2, <2>9, <3>1 DEF open, Hit, Taken, TypeOK, Holds
      <4>2. \A q \in Requests : stream[q] # Absent
        BY DEF TypeOK, Absent
      <4>3. \A n \in 1 .. Len(queue) : queue[n].file # Absent
        <5>1. \A n \in 1 .. Len(queue) : queue[n].file \in 0 .. made
          BY QueueFields
        <5> QED
          BY <5>1 DEF TypeOK, Absent
      <4> QED
        BY <2>1, <2>2, <3>1, <4>1, <4>2, <4>3 DEF OwnInv
    <3>2. CASE Miss(r, "opening") /\ UNCHANGED <<stream, responses>>
      BY <2>5, <2>9, <3>2 DEF Miss, Goto, Holds, TypeOK
    <3> QED
      BY <2>9, <3>1, <3>2 DEF open
  <2>10. CASE SendInsert(r)
    <3>1. Holds(r) /\ UNCHANGED <<stream, responses>>
      BY <2>10 DEF SendInsert, Holds
    <3>2. \A n \in 1 .. Len(queue') :
             queue'[n].kind = "erase" =>
               n \in 1 .. Len(queue) /\ queue'[n] = queue[n]
      BY <2>3, <2>10, MessageTypes DEF SendInsert, Insert
    <3> QED
      BY <2>1, <3>1, <3>2 DEF OwnInv
  <2>11. CASE CloseFile(r)
    <3>1. /\ Holds(r) /\ ~Holds(r)' /\ UNCHANGED <<stream, responses>>
          /\ stream[r] # Null
      BY <2>11 DEF CloseFile, Holds, Goto, IdleInv, TypeOK
    <3>2. \A n \in 1 .. Len(queue') :
             \/ n \in 1 .. Len(queue) /\ queue'[n] = queue[n]
             \/ queue'[n].file = stream[r]
      BY <2>3, <2>11, MessageTypes DEF CloseFile, Erase
    <3> QED
      BY <2>1, <3>1, <3>2 DEF OwnInv
  <2> QED
    BY <1>5, <2>6, <2>7, <2>8, <2>9, <2>10, <2>11 DEF Thread
<1>6. CASE initialize \/ ChildrenDone
  BY <1>1, <1>6 DEF initialize, ChildrenDone
<1>7. ASSUME NEW then, BeginClose(then)
      PROVE  OwnInv'
  BY <1>1, <1>7 DEF BeginClose
<1> QED
  BY <1>1, <1>2, <1>3, <1>4, <1>5, <1>6, <1>7
  DEF Next, vars, process_events, update_interfaces, Reinitialize

-----------------------------------------------------------------------------
(* Kept responses, and quiet after close().                                *)

\* Every step keeps what the responses hold.
LEMMA NextResponses ==
  Inv /\ [Next]_vars => StoreInv' /\ StreamsHaveTimer' /\ ClosedIsQuiet'
<1> SUFFICES ASSUME Inv, [Next]_vars
             PROVE  StoreInv' /\ StreamsHaveTimer' /\ ClosedIsQuiet'
  OBVIOUS
<1> USE DEF StoreInv, StreamsHaveTimer, ClosedIsQuiet
<1>1. ASSUME UNCHANGED <<responses, clear_responses_timer, pc, stream>>,
             serving => serving'
      PROVE  StoreInv' /\ StreamsHaveTimer' /\ ClosedIsQuiet'
  BY <1>1 DEF Inv
<1>2. CASE process_events
  <2> DEFINE r == Head(queue).req
  <2>1. queue # <<>> /\ UNCHANGED <<loopVars, responses>>
    BY <1>2 DEF process_events, HandleRequest, HandleInsert, HandleErase
  <2>2. Head(queue) = queue[1] /\ 1 \in 1 .. Len(queue)
    BY <2>1, QueueTail DEF Inv, TypeOK
  <2>3. r \in Requests /\ Answerable(queue[1])
    BY <2>2, QueueFields DEF Inv, QueueInv
  <2>4. CASE HandleRequest
    <3>1. pc[r] \in {"info", "opening"} /\ stream[r] = Null
      BY <2>2, <2>3, <2>4 DEF HandleRequest, Answerable, Inv, IdleInv
    <3>2. serving
      BY <2>3, <3>1 DEF Inv
    <3>3. clear_responses_timer => clear_responses_timer'
      BY <2>4 DEF HandleRequest, HandleFound, HandleNotFound, HandleEmpty,
           TimerAfter
    <3>4. \A q \in Requests \ {r} : pc'[q] = pc[q] /\ stream'[q] = stream[q]
      BY <2>3, <2>4 DEF HandleRequest, HandleFound, HandleNotFound, HandleEmpty,
           Goto, Inv, TypeOK
    <3>5. pc'[r] = "store" /\ stream'[r] # Null => clear_responses_timer'
      BY <2>3, <2>4, <3>1 DEF HandleRequest, HandleFound, HandleNotFound,
           HandleEmpty, TimerAfter, Asked, Goto, Inv, TypeOK
    <3> QED
      BY <2>1, <2>3, <3>2, <3>3, <3>4, <3>5 DEF Inv, loopVars
  <2>5. CASE HandleInsert
    <3>1. pc[r] = "inserting" /\ UNCHANGED <<clear_responses_timer, stream>>
      BY <2>2, <2>3, <2>5 DEF HandleInsert, Answerable
    <3>2. serving
      BY <2>3, <3>1 DEF Inv
    <3>3. \A q \in Requests : pc'[q] = "store" => pc[q] = "store"
      BY <2>3, <2>5 DEF HandleInsert, Goto, Inv, TypeOK
    <3> QED
      BY <2>1, <3>1, <3>2, <3>3 DEF Inv, loopVars
  <2>6. CASE HandleErase
    BY <1>1, <2>6 DEF HandleErase, loopVars
  <2> QED
    BY <1>2, <2>4, <2>5, <2>6 DEF process_events
<1>3. CASE clear_responses
  BY <1>3 DEF clear_responses, Inv, loopVars
<1>4. CASE EndClose
  BY <1>4 DEF EndClose, Finished, Inv
<1>5. ASSUME NEW r \in Requests, Thread(r)
      PROVE  StoreInv' /\ StreamsHaveTimer' /\ ClosedIsQuiet'
  <2>1. serving /\ UNCHANGED <<loopVars, clear_responses_timer>>
    BY <1>5 DEF Thread, get_info, Store, InfoReturned, open, SendInsert,
         CloseFile, Inv
  <2>2. \A q \in Requests \ {r} : pc'[q] = pc[q] /\ stream'[q] = stream[q]
    BY <1>5 DEF Thread, get_info, Store, InfoReturned, open, SendInsert,
         CloseFile, Hit, Miss, Goto, Inv, TypeOK
  <2>3. pc'[r] # "store"
    BY <1>5 DEF Thread, get_info, Store, InfoReturned, open, SendInsert,
         CloseFile, Hit, Miss, Goto, Inv, TypeOK
  <2>4. StreamsHaveTimer'
    <3>1. CASE Store(r)
      BY <2>1, <3>1 DEF Store, Inv, TypeOK
    <3>2. CASE open(r)
      BY <2>1, <3>2 DEF open, Taken, Inv, TypeOK
    <3>3. CASE UNCHANGED responses
      BY <2>1, <3>3 DEF Inv
    <3> QED
      BY <1>5, <3>1, <3>2, <3>3 DEF Thread, get_info, InfoReturned, SendInsert,
           CloseFile
  <2> QED
    BY <2>1, <2>2, <2>3, <2>4 DEF Inv, loopVars
<1>6. CASE initialize
  BY <1>1, <1>6 DEF initialize, InitLibupnp
<1>7. CASE ChildrenDone
  BY <1>1, <1>7 DEF ChildrenDone
<1>8. ASSUME NEW then, BeginClose(then)
      PROVE  StoreInv' /\ StreamsHaveTimer' /\ ClosedIsQuiet'
  BY <1>1, <1>8 DEF BeginClose
<1>9. CASE UNCHANGED vars
  BY <1>1, <1>9 DEF vars, loopVars
<1> HIDE DEF StoreInv, StreamsHaveTimer, ClosedIsQuiet
<1> QED
  BY <1>2, <1>3, <1>4, <1>5, <1>6, <1>7, <1>8, <1>9
  DEF Next, update_interfaces, Reinitialize

-----------------------------------------------------------------------------
(* Open files.                                                             *)

\* Every step keeps a stream held while it is open.
LEMMA NextHeldWhileOpen == Inv /\ [Next]_vars => HeldWhileOpen'
<1> SUFFICES ASSUME Inv, [Next]_vars PROVE HeldWhileOpen'
  OBVIOUS
<1>1. ASSUME UNCHANGED <<handles, queue, pc, stream>> PROVE HeldWhileOpen'
  BY <1>1 DEF Inv, HeldWhileOpen, Reading
<1>2. CASE process_events
  <2> DEFINE r == Head(queue).req
  <2>1. queue # <<>> /\ queue' = Tail(queue)
    BY <1>2 DEF process_events, HandleRequest, HandleInsert, HandleErase
  <2>2. Head(queue) = queue[1] /\ 1 \in 1 .. Len(queue)
    BY <2>1, QueueTail DEF Inv, TypeOK
  <2>3. r \in Requests /\ Answerable(queue[1])
    BY <2>2, QueueFields DEF Inv, QueueInv
  <2>4. \A q \in Requests \ {r} : pc'[q] = pc[q] /\ stream'[q] = stream[q]
    BY <1>2, <2>3
    DEF process_events, HandleRequest, HandleInsert, HandleErase, HandleFound,
        HandleNotFound, HandleEmpty, Goto, Inv, TypeOK
  <2>5. ASSUME NEW n \in 1 .. Len(queue), n # 1
        PROVE  n - 1 \in 1 .. Len(queue') /\ queue'[n - 1] = queue[n]
    BY <2>1, <2>5 DEF Inv, TypeOK
  <2>6. CASE HandleRequest
    <3>1. pc[r] \in {"info", "opening"} /\ queue[1].kind # "erase"
      BY <2>2, <2>3, <2>6 DEF HandleRequest, Answerable
    <3>2. pc'[r] \in {"store", "insert", "done"} /\ UNCHANGED handles
      BY <2>3, <2>6 DEF HandleRequest, HandleFound, HandleNotFound, HandleEmpty,
           Goto, Asked, Inv, TypeOK
    <3> HIDE DEF r
    <3>3. \A q \in Reading' : stream'[q] \in handles'
      BY <2>4, <3>2 DEF Inv, HeldWhileOpen, Reading
    <3>4. ASSUME NEW s \in handles' \ {Null}
          PROVE  \/ \E q \in Requests :
                       pc'[q] \in {"inserting", "reading"} /\ stream'[q] = s
                 \/ \E n \in 1 .. Len(queue') :
                       queue'[n].kind = "erase" /\ queue'[n].file = s
      BY <2>3, <2>4, <2>5, <3>1, <3>2 DEF Inv, HeldWhileOpen
    <3> QED
      BY <3>3, <3>4 DEF HeldWhileOpen
  <2>7. CASE HandleInsert
    <3>1. /\ stream[r] = queue[1].file /\ UNCHANGED stream
          /\ queue[1].kind # "erase" /\ handles' = handles \cup {stream[r]}
          /\ pc'[r] = IF stream[r] = Null THEN "done" ELSE "reading"
      BY <2>2, <2>3, <2>7
      DEF HandleInsert, Inserted, Answerable, Goto, Inv, TypeOK
    <3> HIDE DEF r
    <3>2. \A q \in Reading' : stream'[q] \in handles'
      BY <2>4, <3>1 DEF Inv, HeldWhileOpen, Reading
    <3>3. ASSUME NEW s \in handles' \ {Null}
          PROVE  \/ \E q \in Requests :
                       pc'[q] \in {"inserting", "reading"} /\ stream'[q] = s
                 \/ \E n \in 1 .. Len(queue') :
                       queue'[n].kind = "erase" /\ queue'[n].file = s
      BY <2>3, <2>4, <2>5, <3>1 DEF Inv, HeldWhileOpen
    <3> QED
      BY <3>2, <3>3 DEF HeldWhileOpen
  <2>8. CASE HandleErase
    <3>1. /\ queue[1].kind = "erase" /\ UNCHANGED <<pc, stream>>
          /\ handles' = handles \ {queue[1].file}
      BY <2>2, <2>8 DEF HandleErase, Erased
    <3>2. \A q \in Reading : stream[q] # queue[1].file
      BY <2>2, <3>1 DEF Inv, OwnInv, Reading, Holds
    <3>3. \A q \in Reading' : stream'[q] \in handles'
      BY <3>1, <3>2 DEF Inv, HeldWhileOpen, Reading
    <3>4. ASSUME NEW s \in handles' \ {Null}
          PROVE  \/ \E q \in Requests :
                       pc'[q] \in {"inserting", "reading"} /\ stream'[q] = s
                 \/ \E n \in 1 .. Len(queue') :
                       queue'[n].kind = "erase" /\ queue'[n].file = s
      BY <2>5, <3>1 DEF Inv, HeldWhileOpen
    <3> QED
      BY <3>3, <3>4 DEF HeldWhileOpen
  <2> QED
    BY <1>2, <2>6, <2>7, <2>8 DEF process_events
<1>3. ASSUME NEW r \in Requests, Thread(r)
      PROVE  HeldWhileOpen'
  <2>1. /\ \A q \in Requests \ {r} : pc'[q] = pc[q] /\ stream'[q] = stream[q]
        /\ UNCHANGED handles
    BY <1>3 DEF Thread, get_info, Store, InfoReturned, open, SendInsert,
         CloseFile, Hit, Miss, Goto, Inv, TypeOK
  <2>2. ASSUME NEW n \in 1 .. Len(queue)
        PROVE  n \in 1 .. Len(queue') /\ queue'[n] = queue[n]
    <3>1. UNCHANGED queue \/ \E m \in Messages : queue' = Append(queue, m)
      BY <1>3, MessageTypes DEF Thread, get_info, Store, InfoReturned, open,
           SendInsert, CloseFile, Hit, Miss, Inv
    <3>2. queue \in Seq(Messages)
      BY DEF Inv, TypeOK, Messages
    <3>3. ASSUME NEW m \in Messages, queue' = Append(queue, m)
          PROVE  n \in 1 .. Len(queue') /\ queue'[n] = queue[n]
      BY <3>2, <3>3, QueueAppend
    <3> QED
      BY <3>1, <3>3
  <2>3. pc'[r] # "reading" /\ pc[r] # "inserting"
    BY <1>3 DEF Thread, get_info, Store, InfoReturned, open, SendInsert,
         CloseFile, Hit, Miss, Goto, Inv, TypeOK
  <2>4. pc[r] = "reading" =>
          \E n \in 1 .. Len(queue') :
            queue'[n].kind = "erase" /\ queue'[n].file = stream[r]
    <3>1. SUFFICES ASSUME CloseFile(r)
                   PROVE  \E n \in 1 .. Len(queue') :
                            /\ queue'[n].kind = "erase"
                            /\ queue'[n].file = stream[r]
      BY <1>3 DEF Thread, get_info, Store, InfoReturned, open, SendInsert
    <3>2. /\ Len(queue) + 1 \in 1 .. Len(queue')
          /\ queue'[Len(queue) + 1] = Erase(r)
      BY <3>1 DEF CloseFile, Inv, TypeOK
    <3> QED
      BY <3>2 DEF Erase
  <2>5. \A q \in Reading' : stream'[q] \in handles'
    BY <2>1, <2>3 DEF Inv, HeldWhileOpen, Reading
  <2>6. ASSUME NEW s \in handles' \ {Null}
        PROVE  \/ \E q \in Requests :
                     pc'[q] \in {"inserting", "reading"} /\ stream'[q] = s
               \/ \E n \in 1 .. Len(queue') :
                     queue'[n].kind = "erase" /\ queue'[n].file = s
    BY <2>1, <2>2, <2>3, <2>4 DEF Inv, HeldWhileOpen
  <2> QED
    BY <2>5, <2>6 DEF HeldWhileOpen
<1>4. CASE clear_responses \/ EndClose \/ initialize \/ ChildrenDone
  BY <1>1, <1>4 DEF clear_responses, EndClose, initialize, ChildrenDone
<1>5. ASSUME NEW then, BeginClose(then)
      PROVE  HeldWhileOpen'
  BY <1>1, <1>5 DEF BeginClose
<1> QED
  BY <1>1, <1>2, <1>3, <1>4, <1>5
  DEF Next, vars, update_interfaces, Reinitialize

-----------------------------------------------------------------------------
\* Every step keeps the invariant.
LEMMA NextInv == Inv /\ [Next]_vars => Inv'
  BY NextTypeOK, NextQueueInv, NextOwnInv, NextResponses, NextHeldWhileOpen
  DEF Inv

\* libupnp never reads from a stream that handles has let go of, and handles
\* keeps no stream beyond its close(), for any number of requests.
THEOREM StreamsAreHeld == Spec => []HeldWhileOpen
<1>1. Inv => HeldWhileOpen
  BY DEF Inv
<1> QED
  BY <1>1, InitInv, NextInv, PTL DEF Spec

\* No two requests read one stream, nor can a later request be given a stream
\* that is being read.
THEOREM StreamsHaveOneReader == Spec => []OneReader
<1>1. Inv => OneReader
  <2> SUFFICES ASSUME Inv, NEW r \in Reading
               PROVE  /\ \A q \in Reading : q # r => stream[q] # stream[r]
                      /\ \A p \in Paths : responses[p] # stream[r]
    BY DEF OneReader
  <2> QED
    BY DEF Inv, OwnInv, IdleInv, Holds, Reading
<1> QED
  BY <1>1, InitInv, NextInv, PTL DEF Spec

\* A kept stream has the timer that drops it if nobody opens it, a closed
\* libupnp has neither threads nor responses of any kind, and upnp is
\* initialized only while libupnp is.  (A response without a stream has no
\* timer: it is kept until it is opened or libupnp is closed.)
THEOREM ResponsesAreDropped == Spec => []ResponsesEnd
<1>1. Inv => ResponsesEnd
  BY DEF Inv, ResponsesEnd
<1> QED
  BY <1>1, InitInv, NextInv, PTL DEF Spec

=============================================================================
