------------------------------- MODULE Server -------------------------------
(***************************************************************************)
(* The life of class server (src/server/server.cpp) in run_server()         *)
(* (src/main.cpp), with what its parts do while it comes and goes:          *)
(* rootdevice (registering the device with libupnp, src/pupnp/              *)
(* rootdevice.cpp), upnp::initialize and close (src/pupnp/upnp.cpp) and the *)
(* update events of content_directory (src/pupnp/content_directory.cpp).    *)
(*                                                                          *)
(* All of it runs on the message loop's thread, but upnp::close and         *)
(* rootdevice::enable_rootdevice let the loop go on while a thread of       *)
(* libupnp does their work: `stack' has those calls that have not returned. *)
(* A message or a timer is run by the innermost of them, or by run(), and   *)
(* may begin another call, while the threads of the others go on.           *)
(* Replacing the server from there destroys objects whose methods are still *)
(* on the stack; what the program does after that is not modelled.          *)
(***************************************************************************)
EXTENDS Naturals, FiniteSets, Sequences, SequencesExt

CONSTANTS
  Ports,        \* values of the setting http_port; 0 is any port
  MaxServers,   \* bound on the number of servers that are made
  MaxFailures,  \* bound on the failures of libupnp
  MaxChanges,   \* bound on the number of new network interfaces
  MaxOverlaps   \* bound on the overlaps (see there) that periodic timers make

ASSUME ServerAssumption ==
  /\ MaxServers \in Nat /\ MaxFailures \in Nat /\ MaxChanges \in Nat
  /\ MaxOverlaps \in Nat

VARIABLES
  mode,         \* run_server(): "starting", "running", "stopped", "ended"
  saved,        \* the settings http_port and republish_rootdevice
  unclean,      \* whether the single-shot timer of run_server() is pending
  made,         \* number of servers made: the server's own number
  server_ptr,   \* the server that exists, None if there is none
  recreate,     \* whether recreate_server_timer runs
  republish,    \* what server::initialize sets up: item sources, listeners,
                \*   republish_required and republish_timer
  device,       \* the rootdevice: initialized, registred, announced as alive
  content,      \* content_directory: allow_process_pending_updates, update_
                \*   timer (0, or how often it was started modulo 2, plus 1)
                \*   and how far its latest update is: "pending", "posted" to
                \*   the loop or "sent"; "none" when it is made and closed
  connections,  \* whether connection_manager lists a connection
  streams,      \* servers with a stream that a client uses
  upnp,         \* initialized, port, update_interfaces_timer and the library:
                \*   "down", "up" (with its webserver) or "finishing"
  registered,   \* servers whose device libupnp has, and its device the handle
  stack,        \* calls that process events, innermost last, and what has
                \*   become of the thread that each of them waits for
  queue,        \* messages posted to the loop
  failures, changes,  \* number of failures and of new interfaces
  broken,       \* a method of a destroyed object has been run
  lost,         \* servers whose device libupnp has, but nobody the handle
  overlaps      \* number of times that a device was closed or registered again
                \*   while one was being registered

serverVars == <<made, server_ptr, recreate, unclean>>
streamVars == <<connections, streams>>
faultVars  == <<failures, changes>>
lossVars   == <<lost, overlaps>>
vars == <<mode, saved, serverVars, republish, device, content, streamVars,
          upnp, registered, stack, queue, faultVars, broken, lossVars>>

None == 0

Initialize(s) == [kind |-> "initialize", server |-> s]
Advertise     == [kind |-> "advertise", server |-> server_ptr]
EmitEvent     == [kind |-> "emit", server |-> server_ptr]
Recreate      == [kind |-> "recreate", server |-> server_ptr]

Call(at, then) == [at |-> at, then |-> then, thread |-> "running"]

Idle      == [sources |-> FALSE, listening |-> FALSE, required |-> FALSE,
              timer |-> FALSE]
NoDevice  == [initialized |-> FALSE, registred |-> FALSE, announced |-> FALSE]
NoContent == [allow |-> TRUE, timer |-> 0, update |-> "none"]

\* run_server(), after its upnp.close().
Init ==
  /\ mode = "starting" /\ saved \in [port : Ports, republish : BOOLEAN]
  /\ unclean = FALSE /\ made = 0 /\ server_ptr = None /\ recreate = FALSE
  /\ republish = Idle /\ device = NoDevice /\ content = NoContent
  /\ connections = FALSE /\ streams = {}
  /\ upnp = [initialized |-> FALSE, port |-> 0, timer |-> FALSE,
             library |-> "down"]
  /\ registered = {} /\ stack = <<>> /\ queue = <<>>
  /\ failures = 0 /\ changes = 0 /\ broken = FALSE
  /\ lost = {} /\ overlaps = 0

\* The loop runs messages and timers: in run() or in a call on the stack.
Looping == ~broken /\ (stack # <<>> \/ mode = "running")

\* Timers are looked at when there is no message.
TimerTurn == Looping /\ queue = <<>>

\* Whether a device is being registered.
Registering == \E n \in 1 .. Len(stack) : stack[n].at = "register"

\* A periodic timer that is due, perhaps more than once, runs in a call, too.
PeriodicTurn == TimerTurn /\ (Registering => overlaps < MaxOverlaps)

-----------------------------------------------------------------------------
(* The listeners of numconnections_changed.                                *)

\* Mutant of Listened: the timer is not stopped.
ListenedNoStop(open) ==
  IF republish.listening
  THEN [republish EXCEPT !.required = ~open, !.timer = @ \/ ~open]
  ELSE republish

\* The one of server::initialize.
Listened(open) ==
  IF republish.listening
  THEN [republish EXCEPT !.required = ~open, !.timer = ~open]
  ELSE republish

\* update_timer.start(), which puts off a timer that runs already.
Restarted == IF content.timer = 1 THEN 2 ELSE 1

\* Mutant of num_connections_changed: the timer is not started.
num_connections_same(open) == [content EXCEPT !.allow = ~open]

\* That of content_directory.
num_connections_changed(open) ==
  [content EXCEPT !.allow = ~open, !.timer = IF open THEN @ ELSE Restarted]

-----------------------------------------------------------------------------
(* rootdevice::initialize and close.                                       *)

\* Mutant of Unregistered: the handles are not unregistered.
UnregisteredNot == registered \cap 1 .. made

\* What libupnp has left of the devices when that of server_ptr is closed: the
\* one that is being registered is not registred yet.
Unregistered ==
  IF device.initialized /\ device.registred THEN registered \ {server_ptr}
                                            ELSE registered

ClosedDevice == IF device.initialized THEN NoDevice ELSE device

\* rootdevice::close, and with it the services: connection_manager forgets the
\* connections and tells its listeners, then content_directory forgets the
\* updates.
CloseServices ==
  IF device.initialized
  THEN /\ connections' = FALSE /\ UNCHANGED streams
       /\ content' = NoContent
  ELSE UNCHANGED <<streamVars, content>>

ClosedRepublish == IF device.initialized THEN Listened(FALSE) ELSE republish

\* For `overlaps': the device is closed, or registered, in this step.
Overlaps(does) ==
  overlaps' = IF does /\ Registering THEN overlaps + 1 ELSE overlaps

\* server::initialize, when upnp.initialize() has returned true.
Watching ==
  [sources |-> TRUE, listening |-> saved.republish,
   required |-> saved.republish, timer |-> saved.republish]

\* recreate_server, when server::initialize has returned false: stop(1).  It
\* is forgotten if the loop is not run yet, or by the next process_events() of
\* a call on the stack.
Failed(calls) == IF calls = <<>> /\ mode = "running" THEN "stopped" ELSE mode

\* upnp::initialize from the call of UpnpInit3 on, with `calls' on the stack,
\* for the device d and the republishing r.  The children are initialized: a
\* device that has been already says so.  UpnpInit3 fails if libupnp has been
\* initialized.
InitUpnp(port, then, calls, d, r) ==
  \/ /\ upnp.library = "down"
     /\ upnp' = [initialized |-> TRUE, port |-> port, timer |-> TRUE,
                 library |-> "up"]
     /\ device' = [d EXCEPT !.initialized = TRUE]
     /\ IF d.initialized
        THEN /\ stack' = calls
             /\ republish' = IF then = "server" THEN Watching ELSE r
        ELSE /\ stack' = Append(calls, Call("register", then))
             /\ republish' = IF then = "server" THEN Idle ELSE r
     /\ UNCHANGED <<mode, failures>>
  \/ /\ \/ upnp.library # "down" /\ UNCHANGED failures
        \/ failures < MaxFailures /\ failures' = failures + 1
     /\ upnp' = [upnp EXCEPT !.initialized = FALSE, !.port = port,
                             !.timer = TRUE]
     /\ device' = d /\ stack' = calls
     /\ republish' = IF then = "server" THEN Idle ELSE r
     /\ mode' = IF then = "server" THEN Failed(calls) ELSE mode

\* upnp::close while libupnp is initialized, up to the thread that runs
\* UpnpFinish.
CloseUpnp(then) ==
  /\ upnp' = [upnp EXCEPT !.initialized = FALSE, !.timer = FALSE,
                          !.library = "finishing"]
  /\ stack' = Append(stack, Call("finish", then))

-----------------------------------------------------------------------------
(* recreate_server.                                                        *)

\* Whether a call on the stack returns to a method of the server or its device.
InUse == \E n \in 1 .. Len(stack) :
           stack[n].at = "register" \/ stack[n].then = "server"

\* ~messageloop_ref of the old server; child_add posts with that of upnp.
Aborted ==
  LET kept == {n \in 1 .. Len(queue) : queue[n].kind = "initialize"}
  IN  [i \in 1 .. Cardinality(kept) |->
         queue[CHOOSE n \in kept : Cardinality({k \in kept : k <= n}) = i]]

\* Whether upnp::initialize closes libupnp first.
Rebind == saved.port \notin {upnp.port, 0}

\* The old server is destroyed and a new one is made, with its own rootdevice,
\* and initialized.
Replace(rest) ==
  /\ made' = made + 1 /\ server_ptr' = made + 1
  /\ recreate' = FALSE /\ registered' = Unregistered
  /\ content' = NoContent /\ connections' = FALSE
  /\ UNCHANGED <<saved, streams, changes, broken, lossVars>>
  /\ \/ /\ upnp.initialized
        /\ queue' = Append(rest, Initialize(made + 1))
        /\ device' = NoDevice
        /\ IF Rebind
           THEN CloseUpnp("server") /\ republish' = Idle
           ELSE republish' = Watching /\ UNCHANGED <<upnp, stack>>
        /\ UNCHANGED <<mode, failures>>
     \/ /\ ~upnp.initialized
        /\ queue' = rest
        /\ InitUpnp(saved.port, "server", stack, NoDevice, Idle)

\* Objects are used after their destruction: of what follows nothing is known,
\* and nothing of the state is kept.
Break ==
  /\ broken' = TRUE
  /\ unclean' = FALSE /\ recreate' = FALSE
  /\ republish' = Idle /\ device' = NoDevice /\ content' = NoContent
  /\ connections' = FALSE /\ streams' = {}
  /\ registered' = {} /\ stack' = <<>> /\ queue' = <<>> /\ lost' = {}
  /\ upnp' = [upnp EXCEPT !.initialized = FALSE, !.timer = FALSE,
                          !.library = "down"]
  /\ UNCHANGED <<mode, saved, made, server_ptr, faultVars, overlaps>>

\* run_server() calls it before the loop runs, ...
Start ==
  /\ mode = "starting" /\ server_ptr = None
  /\ Replace(<<>>) /\ UNCHANGED unclean

Run ==
  /\ mode = "starting" /\ server_ptr # None /\ stack = <<>> /\ ~broken
  /\ mode' = "running" /\ unclean' \in BOOLEAN
  /\ UNCHANGED <<saved, made, server_ptr, recreate, republish, device, content,
                 streamVars, upnp, registered, stack, queue, faultVars, broken,
                 lossVars>>

\* ... the timer that follows an unclean exit does, ...
RecreateUnclean ==
  /\ TimerTurn /\ unclean
  /\ \/ InUse /\ Break
     \/ ~InUse /\ unclean' = FALSE /\ Replace(<<>>)

\* ... and the message that recreate_server_timer posts.
HandleRecreate ==
  /\ Looping /\ queue # <<>> /\ Head(queue).kind = "recreate"
  /\ \/ InUse /\ Break
     \/ ~InUse /\ Replace(Aborted) /\ UNCHANGED unclean

\* The loop is stopped; run_server() destroys the server.
Exit ==
  /\ ~broken /\ stack = <<>> /\ mode \in {"running", "stopped"}
  /\ mode' = "ended" /\ server_ptr' = None /\ recreate' = FALSE
  /\ unclean' = FALSE
  /\ registered' = Unregistered /\ device' = NoDevice /\ republish' = Idle
  /\ content' = NoContent /\ connections' = FALSE /\ queue' = Aborted
  /\ UNCHANGED <<saved, made, streams, upnp, stack, faultVars, broken,
                 lossVars>>

-----------------------------------------------------------------------------
(* The threads of the calls on the stack end, and the calls return.        *)

Runs(n, at) ==
  /\ ~broken /\ n <= Len(stack)
  /\ stack[n].at = at /\ stack[n].thread = "running"

Ends(n, how) == stack' = [stack EXCEPT ![n].thread = how]

\* The thread of enable_rootdevice.  libupnp gets the description of the device
\* from the webserver.  Either way rootdevice_handles[host] is overwritten:
\* the handle of a device that was registered before is lost.
RegisterThread(n, ok) ==
  /\ Runs(n, "register")
  /\ IF ok THEN upnp.library = "up" /\ UNCHANGED failures
     ELSE \/ upnp.library # "up" /\ UNCHANGED failures
          \/ /\ upnp.library = "up" /\ failures < MaxFailures
             /\ failures' = failures + 1
  /\ Ends(n, IF ok THEN "ok" ELSE "failed")
  /\ lost' = lost \cup (registered \cap {server_ptr})
  /\ registered' = IF ok THEN registered \cup {server_ptr}
                   ELSE registered \ {server_ptr}
  /\ UNCHANGED <<mode, saved, serverVars, republish, device, content,
                 streamVars, upnp, queue, changes, broken, overlaps>>

\* The thread of upnp::close: UpnpFinish unregisters what there is.
FinishThread(n) ==
  /\ Runs(n, "finish")
  /\ Ends(n, "ok")
  /\ registered' = {} /\ lost' = {}
  /\ upnp' = [upnp EXCEPT !.library = "down"]
  /\ device' = [device EXCEPT !.announced = FALSE]
  /\ UNCHANGED <<mode, saved, serverVars, republish, content, streamVars,
                 queue, faultVars, broken, overlaps>>

\* The innermost call sees that its thread has ended.
Ended(at) ==
  /\ ~broken /\ stack # <<>>
  /\ Last(stack).at = at /\ Last(stack).thread # "running"

\* enable_rootdevice returns.  A device that was closed meanwhile will not
\* unregister what has been registered.
RegisterDone ==
  LET ok   == Last(stack).thread = "ok"
      then == Last(stack).then
  IN  /\ Ended("register")
      /\ stack' = Front(stack)
      /\ device' = [device EXCEPT !.registred = @ \/ ok]
      /\ queue' = IF ok THEN Append(queue, Advertise) ELSE queue
      /\ IF ok /\ ~device.initialized
         THEN /\ lost' = lost \cup (registered \cap {server_ptr})
              /\ registered' = registered \ {server_ptr}
         ELSE UNCHANGED <<lost, registered>>
      /\ upnp' = IF then = "none" \/ ok THEN upnp
                 ELSE [upnp EXCEPT !.initialized = FALSE]
      /\ republish' = IF then = "server" /\ ok THEN Watching ELSE republish
      /\ mode' = IF then = "server" /\ ~ok THEN Failed(stack') ELSE mode
      /\ UNCHANGED <<saved, serverVars, content, streamVars, faultVars, broken,
                     overlaps>>

\* upnp::close returns.  Its caller calls UpnpInit3, but update_interfaces only
\* if upnp has not been initialized meanwhile.
FinishDone ==
  LET then == Last(stack).then
  IN  /\ Ended("finish")
      /\ IF then = "interfaces" /\ upnp.initialized
         THEN stack' = Front(stack) /\ UNCHANGED <<mode, republish, device,
                                                   upnp, failures, overlaps>>
         ELSE /\ InitUpnp(IF then = "server" THEN saved.port ELSE upnp.port,
                         then, Front(stack), device, republish)
              /\ Overlaps(~device.initialized)
      /\ UNCHANGED <<saved, serverVars, content, streamVars, registered, queue,
                     changes, broken, lost>>

-----------------------------------------------------------------------------
(* Other messages and timers.                                              *)

\* The message of upnp::child_add.
HandleInitialize ==
  /\ Looping /\ queue # <<>> /\ Head(queue).kind = "initialize"
  /\ queue' = Tail(queue)
  /\ IF Head(queue).server = server_ptr /\ ~device.initialized
     THEN /\ device' = [device EXCEPT !.initialized = TRUE]
          /\ stack' = Append(stack, Call("register", "none"))
          /\ Overlaps(TRUE)
     ELSE UNCHANGED <<device, stack, overlaps>>
  /\ UNCHANGED <<mode, saved, serverVars, republish, content, streamVars, upnp,
                 registered, faultVars, broken, lost>>

\* UpnpSendAdvertisement, posted by enable_rootdevice.
HandleAdvertise ==
  /\ Looping /\ queue # <<>> /\ Head(queue).kind = "advertise"
  /\ queue' = Tail(queue)
  /\ device' = [device EXCEPT !.announced =
                  device.registred /\ server_ptr \in registered]
  /\ UNCHANGED <<mode, saved, serverVars, republish, content, streamVars, upnp,
                 registered, stack, faultVars, broken, lossVars>>

\* rootdevice::emit_event, posted by process_pending_updates.
HandleEmit ==
  /\ Looping /\ queue # <<>> /\ Head(queue).kind = "emit"
  /\ queue' = Tail(queue)
  /\ content' = [content EXCEPT !.update = IF @ = "posted" THEN "sent" ELSE @]
  /\ UNCHANGED <<mode, saved, serverVars, republish, device, streamVars, upnp,
                 registered, stack, faultVars, broken, lossVars>>

\* Mutant of republish_rootdevice: the device is not closed first.
republish_rootdevice_open ==
  /\ PeriodicTurn /\ republish.timer /\ republish.required
  /\ UNCHANGED vars

\* The device is closed and registered again; the timer is periodic.
republish_rootdevice ==
  /\ PeriodicTurn /\ republish.timer /\ republish.required
  /\ CloseServices /\ republish' = ClosedRepublish
  /\ device' = [ClosedDevice EXCEPT !.initialized = TRUE]
  /\ registered' = Unregistered
  /\ stack' = Append(stack, Call("register", "none"))
  /\ Overlaps(TRUE)
  /\ UNCHANGED <<mode, saved, serverVars, upnp, queue, faultVars, broken,
                 lost>>

\* upnp::update_interfaces has found one; no file is open.  (A stream that is
\* kept for others, but that nobody reads, is taken for closed.)
update_interfaces ==
  /\ PeriodicTurn /\ upnp.timer /\ streams = {} /\ changes < MaxChanges
  /\ changes' = changes + 1
  /\ CloseServices /\ registered' = Unregistered
  /\ \/ /\ upnp.initialized
        /\ CloseUpnp("interfaces")
        /\ device' = ClosedDevice /\ republish' = ClosedRepublish
        /\ UNCHANGED <<mode, failures>>
     \/ /\ ~upnp.initialized
        /\ InitUpnp(upnp.port, "interfaces", stack, ClosedDevice,
                    ClosedRepublish)
  /\ Overlaps(device.initialized \/ stack' # stack)
  /\ UNCHANGED <<saved, serverVars, queue, broken, lost>>

RecreateTimer ==
  /\ TimerTurn /\ recreate
  /\ recreate' = FALSE /\ queue' = Append(queue, Recreate)
  /\ UNCHANGED <<mode, saved, unclean, made, server_ptr, republish, device,
                 content, streamVars, upnp, registered, stack, faultVars,
                 broken, lossVars>>

\* update_timer, once: the event is posted, unless a stream is open again.
process_pending_updates ==
  /\ TimerTurn /\ content.timer # 0
  /\ IF content.allow
     THEN /\ content' = [content EXCEPT !.timer = 0, !.update =
                           IF @ = "pending" THEN "posted" ELSE @]
          /\ queue' = Append(queue, EmitEvent)
     ELSE content' = [content EXCEPT !.timer = 0] /\ UNCHANGED queue
  /\ UNCHANGED <<mode, saved, serverVars, republish, device, streamVars, upnp,
                 registered, stack, faultVars, broken, lossVars>>

-----------------------------------------------------------------------------
(* Requests.                                                               *)

\* Pages are there while upnp is initialized, ...
Serving == Looping /\ upnp.initialized

\* ... the items of the sources while the device is, too.
Browsable == Serving /\ device.initialized /\ republish.sources

\* Recreations that are under way, for the bound.
Owed == Cardinality({x \in {"unclean", "timer"} :
                       IF x = "unclean" THEN unclean ELSE recreate})
          + Cardinality({n \in 1 .. Len(queue) :
                           queue[n].kind = "recreate"})

MayRecreate == recreate \/ made + Owed < MaxServers

\* apply_settings() returns true.
MayApply == ~connections

\* The form of the settings page is saved.  "Cannot apply settings while
\* streaming." takes the port back, the other settings stay.
render_headers(port, on) ==
  /\ Serving /\ MayRecreate
  /\ saved' = [port |-> IF MayApply THEN port ELSE saved.port,
                republish |-> on]
  /\ recreate' = (recreate \/ MayApply)
  /\ UNCHANGED <<mode, unclean, made, server_ptr, republish, device, content,
                 streamVars, upnp, registered, stack, queue, faultVars, broken,
                 lossVars>>

\* The setup pages do not ask whether a client streams.
force_apply_settings ==
  /\ Serving /\ MayRecreate
  /\ recreate' = TRUE
  /\ UNCHANGED <<mode, saved, unclean, made, server_ptr, republish, device,
                 content, streamVars, upnp, registered, stack, queue,
                 faultVars, broken, lossVars>>

\* add_output_connection
StreamBegins ==
  /\ Browsable /\ server_ptr \notin streams
  /\ streams' = streams \cup {server_ptr} /\ connections' = TRUE
  /\ republish' = Listened(TRUE) /\ content' = num_connections_changed(TRUE)
  /\ UNCHANGED <<mode, saved, serverVars, device, upnp, registered, stack,
                 queue, faultVars, broken, lossVars>>

\* remove_output_connection
StreamEnds ==
  /\ Looping /\ server_ptr \in streams
  /\ streams' = streams \ {server_ptr} /\ connections' = FALSE
  /\ republish' = Listened(FALSE) /\ content' = num_connections_changed(FALSE)
  /\ UNCHANGED <<mode, saved, serverVars, device, upnp, registered, stack,
                 queue, faultVars, broken, lossVars>>

\* The stream of a server that is destroyed calls back: with its position, or
\* when it is closed.
OrphanReports == ~broken /\ streams \ {server_ptr} # {} /\ Break

\* update_path, or a browse that finds another number of items.  The timer is
\* started again, if it runs already: the event waits for two quiet seconds.
update_path ==
  /\ Browsable
  /\ content' = [content EXCEPT
                   !.update = "pending",
                   !.timer = IF content.allow THEN Restarted ELSE @]
  /\ UNCHANGED <<mode, saved, serverVars, republish, device, streamVars, upnp,
                 registered, stack, queue, faultVars, broken, lossVars>>

-----------------------------------------------------------------------------
Messages == HandleRecreate \/ HandleInitialize \/ HandleAdvertise \/ HandleEmit
Returns  == FinishDone \/ RegisterDone
Thread(n) == FinishThread(n) \/ \E ok \in BOOLEAN : RegisterThread(n, ok)
Requests ==
  \/ force_apply_settings
  \/ \E p \in Ports, on \in BOOLEAN : render_headers(p, on)
  \/ StreamBegins \/ StreamEnds \/ update_path

Next ==
  \/ Start \/ Run \/ Exit \/ Messages \/ Returns \/ Requests \/ OrphanReports
  \/ RecreateUnclean \/ RecreateTimer \/ republish_rootdevice
  \/ update_interfaces \/ process_pending_updates
  \/ \E n \in 1 .. Len(stack) : Thread(n)

Spec == Init /\ [][Next]_vars

\* The loop runs its messages and timers, and libupnp's threads end.  The
\* update timer expires unless it is started again for ever.
FairSpec ==
  /\ Spec
  /\ WF_vars(Messages) /\ WF_vars(Run \/ Returns)
  /\ WF_vars(\E n \in 1 .. Len(stack) : Thread(n))
  /\ WF_vars(RecreateTimer) /\ SF_vars(republish_rootdevice)
  /\ []<><<update_path>>_vars \/ SF_vars(process_pending_updates)

-----------------------------------------------------------------------------
(* Properties.                                                             *)

\* The program still runs with an initialized libupnp.
Up == mode = "running" /\ upnp.initialized /\ ~broken

\* A server that republishes is announced on the network again after every
\* change of port or interface, although a device that was initialized while
\* libupnp was being closed stays unregistered: upnp::initialize takes it for
\* done.  (Not while a client streams.)
Announced ==
  (Up /\ republish.listening)
    ~> (device.announced \/ connections \/ ~Up \/ ~republish.listening)

\* The handles of libupnp's devices are those of the server that exists, whose
\* destructor unregisters them: no callback is called with a dangling pointer.
\* A handle is lost only if the device was closed or registered again while it
\* was being registered; otherwise libupnp has every device that takes itself
\* for registered.
NoStaleDevice ==
  ~broken => /\ registered \subseteq {server_ptr} \ {None}
             /\ overlaps = 0 =>
                  lost = {} /\ (device.registred => server_ptr \in registered)

\* assert(republish_required) in republish_rootdevice() holds: the timer runs
\* only while there is no connection.
RepublishAsserted ==
  republish.timer => republish.required /\ ~connections

\* A pending update of a container is evented once the connections are gone
\* and the updates pause for two seconds, unless the service is closed.
UpdatesAnnounced ==
  \/ []<><<update_path>>_vars
  \/ (content.update = "pending")
       ~> (content.update \in {"sent", "none"} \/ connections \/ ~Up)

=============================================================================
