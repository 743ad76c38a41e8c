-------------------------------- MODULE Upnp --------------------------------
(***************************************************************************)
(* The webserver side of pupnp::upnp (src/pupnp/upnp.cpp): libupnp serves   *)
(* every HTTP request on a thread of its own with the callbacks get_info,   *)
(* open, read and close; the request itself is handled on the message loop, *)
(* and the response made for get_info is kept for the open that follows.    *)
(* close() lets the loop go on while UpnpFinish waits for those threads.    *)
(*                                                                          *)
(* libupnp gets a raw pointer to the stream it reads from: only `handles'   *)
(* keeps that stream alive.                                                 *)
(***************************************************************************)
EXTENDS Integers, FiniteSets, Sequences

CONSTANTS
  Requests,    \* HTTP requests, each served by one thread
  Path,        \* the url.path of each request
  MaxStreams,  \* bound on the number of streams that are made
  MaxInits     \* bound on the number of calls of initialize()

ASSUME UpnpAssumption == MaxStreams \in Nat /\ MaxInits \in Nat

VARIABLES
  initialized,
  serving,      \* whether libupnp is initialized and serves requests
  phase,        \* what the loop's thread does: initialize, close, neither
  inits,        \* number of calls of initialize()
  responses,    \* the response kept for each path, if any
  clear_responses_timer,  \* whether it is started
  handles,      \* streams that libupnp has a pointer to
  queue,        \* messages sent and posted to the loop
  made,         \* number of streams made
  pc,           \* where the thread of each request is
  stream        \* the response that thread holds

loopVars == <<initialized, serving, phase, inits>>
vars == <<loopVars, responses, clear_responses_timer, handles, queue, made, pc,
          stream>>

Absent == -1   \* no response for a path
Null   == 0    \* a response without a stream

Paths == {Path[r] : r \in Requests}

Handle(r) == [kind |-> "handle", req |-> r, file |-> Null]
Insert(r) == [kind |-> "insert", req |-> r, file |-> stream[r]]
Erase(r)  == [kind |-> "erase",  req |-> r, file |-> stream[r]]

Init ==
  /\ initialized = FALSE /\ serving = FALSE /\ phase = "idle" /\ inits = 0
  /\ responses = [p \in Paths |-> Absent] /\ clear_responses_timer = FALSE
  /\ handles = {} /\ queue = <<>> /\ made = 0
  /\ pc = [r \in Requests |-> "new"] /\ stream = [r \in Requests |-> Null]

Goto(r, label) == pc' = [pc EXCEPT ![r] = label]

-----------------------------------------------------------------------------
(* get_response, called by get_info (erase = false) and open (erase = true).*)

\* The first critical section finds a response.
Hit(r, found) ==
  /\ responses[Path[r]] # Absent
  /\ stream' = [stream EXCEPT ![r] = responses[Path[r]]]
  /\ Goto(r, found)

\* It does not: the request is sent to the loop.
Miss(r, wait) ==
  /\ responses[Path[r]] = Absent
  /\ queue' = Append(queue, Handle(r))
  /\ Goto(r, wait)

\* libupnp starts to serve a request.
get_info(r) ==
  /\ pc[r] = "new" /\ serving
  /\ \/ Hit(r, "probe") /\ UNCHANGED queue
     \/ Miss(r, "info") /\ UNCHANGED stream
  /\ UNCHANGED <<loopVars, responses, clear_responses_timer, handles, made>>

\* The second critical section keeps what the loop answered.
Store(r) ==
  /\ pc[r] = "store"
  /\ responses' = [responses EXCEPT ![Path[r]] = stream[r]]
  /\ Goto(r, "probe")
  /\ UNCHANGED <<loopVars, clear_responses_timer, handles, queue, made, stream>>

\* get_info asked the stream for its length and returns.  A HEAD request ends
\* here; the thread gives up its reference either way.
InfoReturned(r, head) ==
  /\ pc[r] = "probe"
  /\ stream' = [stream EXCEPT ![r] = Null]
  /\ Goto(r, IF head THEN "done" ELSE "open")
  /\ UNCHANGED <<loopVars, responses, clear_responses_timer, handles, queue,
                 made>>

\* Mutant of Taken: the response stays where it is.
TakenKept(p) == responses

\* What open() leaves of the responses.
Taken(p) == [responses EXCEPT ![p] = Absent]

open(r) ==
  /\ pc[r] = "open"
  /\ \/ /\ Hit(r, "insert")
        /\ responses' = Taken(Path[r])
        /\ UNCHANGED queue
     \/ Miss(r, "opening") /\ UNCHANGED <<stream, responses>>
  /\ UNCHANGED <<loopVars, clear_responses_timer, handles, made>>

\* open() has a response and sends a message that puts it into handles.
SendInsert(r) ==
  /\ pc[r] = "insert"
  /\ queue' = Append(queue, Insert(r))
  /\ Goto(r, "inserting")
  /\ UNCHANGED <<loopVars, responses, clear_responses_timer, handles, made,
                 stream>>

\* read() and seek() use the stream; then libupnp calls close().
CloseFile(r) ==
  /\ pc[r] = "reading"
  /\ queue' = Append(queue, Erase(r))
  /\ Goto(r, "done")
  /\ UNCHANGED <<loopVars, responses, clear_responses_timer, handles, made,
                 stream>>

-----------------------------------------------------------------------------
(* The message loop.                                                       *)

Asked(r) == IF pc[r] = "info" THEN "store" ELSE "insert"

\* The timer is started for a response that will be kept.
TimerAfter(r) == clear_responses_timer \/ pc[r] = "info"

\* handle_http_request finds a callback that makes a stream, ...
HandleFound(r) ==
  /\ initialized /\ made < MaxStreams
  /\ made' = made + 1
  /\ stream' = [stream EXCEPT ![r] = made']
  /\ clear_responses_timer' = TimerAfter(r)
  /\ Goto(r, Asked(r))

\* ... or answers http_not_found; ...
HandleNotFound(r) ==
  /\ initialized
  /\ Goto(r, "done")
  /\ UNCHANGED <<made, stream, clear_responses_timer>>

\* ... or http_no_content.  After close() it is http_internal_server_error.
\* Neither has a stream: get_info keeps that as a response, open refuses it.
HandleEmpty(r) ==
  /\ Goto(r, IF pc[r] = "info" THEN "store" ELSE "done")
  /\ UNCHANGED <<made, stream, clear_responses_timer>>

HandleRequest ==
  /\ queue # <<>> /\ Head(queue).kind = "handle"
  /\ LET r == Head(queue).req
     IN  HandleFound(r) \/ HandleNotFound(r) \/ HandleEmpty(r)
  /\ queue' = Tail(queue)
  /\ UNCHANGED <<loopVars, responses, handles>>

\* Mutant of Inserted: the stream is not put into handles.
InsertedNot(s) == handles \cup (handles \cap {s})

Inserted(s) == handles \cup {s}

\* open() returns the pointer; libupnp takes a null pointer for a failure.
HandleInsert ==
  /\ queue # <<>> /\ Head(queue).kind = "insert"
  /\ handles' = Inserted(Head(queue).file)
  /\ Goto(Head(queue).req,
          IF Head(queue).file = Null THEN "done" ELSE "reading")
  /\ queue' = Tail(queue)
  /\ UNCHANGED <<loopVars, responses, clear_responses_timer, made, stream>>

Erased(s) == handles \ {s}

HandleErase ==
  /\ queue # <<>> /\ Head(queue).kind = "erase"
  /\ handles' = Erased(Head(queue).file)
  /\ queue' = Tail(queue)
  /\ UNCHANGED <<loopVars, responses, clear_responses_timer, made, pc, stream>>

\* Mutant of process_events: close() does not let the loop run.
process_events_unless_closing ==
  phase # "closing" /\ (HandleRequest \/ HandleInsert \/ HandleErase)

process_events == HandleRequest \/ HandleInsert \/ HandleErase

\* The 15 s timer; 15 s are longer than a thread takes from the answer of the
\* loop to the end of get_response.
clear_responses ==
  /\ clear_responses_timer /\ \A r \in Requests : pc[r] # "store"
  /\ clear_responses_timer' = FALSE
  /\ responses' = [p \in Paths |-> Absent]
  /\ UNCHANGED <<loopVars, handles, queue, made, pc, stream>>

-----------------------------------------------------------------------------
(* initialize and close.                                                   *)

\* close() up to the call of UpnpFinish, which another thread makes.
BeginClose(then) ==
  /\ initialized /\ phase = "idle"
  /\ initialized' = FALSE /\ phase' = then
  /\ UNCHANGED <<serving, inits, responses, clear_responses_timer, handles,
                 queue, made, pc, stream>>

\* A new network interface was found and no file is open: close(), then
\* initialize().
update_interfaces ==
  handles = {} /\ inits < MaxInits /\ BeginClose("renewing")

\* UpnpInit3 may fail, and then also without a fixed port; it does fail while
\* libupnp is initialized already.  Otherwise the children are initialized.
InitLibupnp(was) ==
  /\ inits' = inits + 1
  /\ \/ /\ ~was
        /\ initialized' = TRUE /\ serving' = TRUE /\ phase' = "starting"
     \/ initialized' = FALSE /\ serving' = was /\ phase' = "idle"

initialize ==
  /\ ~initialized /\ phase = "idle" /\ inits < MaxInits
  /\ InitLibupnp(serving)
  /\ UNCHANGED <<responses, clear_responses_timer, handles, queue, made, pc,
                 stream>>

\* initialize() with another port closes first.
Reinitialize == inits < MaxInits /\ BeginClose("renewing")

\* The rootdevice, a child, processes events until it is registered; when that
\* failed initialized is cleared again.
ChildrenDone ==
  /\ phase = "starting" /\ phase' = "idle"
  /\ initialized' \in BOOLEAN
  /\ UNCHANGED <<serving, inits, responses, clear_responses_timer, handles,
                 queue, made, pc, stream>>

\* Mutant of Finished: UpnpFinish is not waited for.
FinishedAtOnce == phase \in {"closing", "renewing"}

\* UpnpFinish returns when no thread is in a callback.
Finished ==
  /\ phase \in {"closing", "renewing"}
  /\ \A r \in Requests : pc[r] \in {"new", "done"}

EndClose ==
  /\ Finished
  /\ responses' = [p \in Paths |-> Absent]
  /\ IF phase = "renewing"
     THEN InitLibupnp(FALSE)
     ELSE /\ phase' = "idle" /\ serving' = FALSE
          /\ UNCHANGED <<initialized, inits>>
  /\ UNCHANGED <<clear_responses_timer, handles, queue, made, pc, stream>>

-----------------------------------------------------------------------------
Thread(r) ==
  \/ get_info(r) \/ Store(r) \/ open(r) \/ SendInsert(r) \/ CloseFile(r)
  \/ \E head \in BOOLEAN : InfoReturned(r, head)

Next ==
  \/ process_events \/ clear_responses
  \/ BeginClose("closing") \/ update_interfaces \/ EndClose
  \/ initialize \/ Reinitialize \/ ChildrenDone
  \/ \E r \in Requests : Thread(r)

Spec == Init /\ [][Next]_vars

\* The loop and the threads run on; a client reads to the end or goes away;
\* libupnp gives up a registration that takes too long.
Fairness ==
  /\ WF_vars(process_events) /\ WF_vars(clear_responses) /\ WF_vars(EndClose)
  /\ WF_vars(ChildrenDone)
  /\ \A r \in Requests : WF_vars(pc[r] # "new" /\ Thread(r))

FairSpec == Spec /\ Fairness

-----------------------------------------------------------------------------
(* Properties.                                                             *)

Labels == {"new", "info", "store", "probe", "open", "opening", "insert",
           "inserting", "reading", "done"}

TypeOK ==
  /\ initialized \in BOOLEAN /\ serving \in BOOLEAN /\ inits \in 0 .. MaxInits
  /\ phase \in {"idle", "starting", "closing", "renewing"}
  /\ phase \in {"closing", "renewing"} => serving /\ ~initialized
  /\ initialized => serving
  /\ responses \in [Paths -> {Absent} \cup 0 .. made]
  /\ clear_responses_timer \in BOOLEAN
  /\ handles \subseteq 0 .. made /\ made \in 0 .. MaxStreams
  /\ queue \in Seq([kind : {"handle", "insert", "erase"}, req : Requests,
                    file : 0 .. made])
  /\ pc \in [Requests -> Labels] /\ stream \in [Requests -> 0 .. made]

Reading == {r \in Requests : pc[r] = "reading"}

\* A stream that libupnp reads from is kept alive by handles until its file is
\* closed, whatever expires, is closed or is asked for meanwhile; and nothing
\* but open files and files being closed is kept there.
HeldWhileOpen ==
  /\ \A r \in Reading : stream[r] \in handles
  /\ \A s \in handles \ {Null} :
       \/ \E r \in Requests :
            pc[r] \in {"inserting", "reading"} /\ stream[r] = s
       \/ \E n \in 1 .. Len(queue) :
            queue[n].kind = "erase" /\ queue[n].file = s

\* Two open files never share a stream, and a stream that is read is not kept
\* for another request.
OneReader ==
  \A r \in Reading :
    /\ \A q \in Reading : q # r => stream[q] # stream[r]
    /\ \A p \in Paths : responses[p] # stream[r]

\* The callback that made the stream started the timer; see TimerAfter.
StreamsHaveTimer ==
  \A p \in Paths : responses[p] \notin {Absent, Null} => clear_responses_timer

ClosedIsQuiet ==
  ~serving => /\ \A r \in Requests : pc[r] \in {"new", "done"}
              /\ \A p \in Paths : responses[p] = Absent

\* No stream is kept for a client that never opens it: whenever one is kept, the
\* timer that drops it is running.  (A response without a stream is kept with no
\* timer started for it, until it is opened or libupnp is closed.)  No response
\* of either kind survives a close: while libupnp is closed no thread is in a
\* callback and nothing is kept that would answer a request after the next
\* initialize(); and upnp takes itself for initialized only while libupnp is.
ResponsesEnd == TypeOK /\ StreamsHaveTimer /\ ClosedIsQuiet

\* close() completes: the threads that UpnpFinish waits for are themselves
\* waiting for the loop, which goes on meanwhile.
CloseCompletes == (phase # "idle") ~> (phase = "idle")

=============================================================================
