# LXiMedia in TLA+

LXiMedia is a UPnP/DLNA media server: it publishes the media files of a
computer in the network, transcodes them with libvlc in child processes and
streams the result to televisions and other players.  This directory holds
TLA+ models of its concurrent core, TLC configurations that check them on
small instances, and TLAPS proofs.  Source paths below are relative to `src/src/`.

## 1. Inventory

### Threads and how the parts interact

    libupnp threads          message loop (main thread)           other threads
    ---------------          --------------------------           -------------
    get_info ---- send ----> upnp -> content_directory
    open     ---- send ---->         -> files -> media_cache ---> child processes
    read     (stream)                -> connection_manager
    close    ---- post ---->                  |  ^
        \                                     v  | posts on_detach / on_close
         `------ reads from ---------> connection_proxy <------- consume thread
                                                                   reads from
                                              transcode_stream --> child process

Everything that changes server state runs on the *message loop*.  libupnp calls
back on threads of its own, which `send` a function to the loop and wait for
it.  Each stream has a `consume` thread.  Loop functions may process events
recursively (`upnp::close`, `rootdevice::enable_rootdevice`).

| Component | State | Operations | Hard behaviour | What makes it correct |
|---|---|---|---|---|
| `platform/messageloop` | message list, timers, `stopped`, nesting | post, send, stop, signal, timers, process_events, destruction of refs | posts against the wait; nested loops; refs destroyed with messages pending | no lost wake-up; sends served once and returning; no call into destroyed objects; timers in time |
| `pupnp/connection_proxy` | ring buffer, offset, windows of readers, stream end | consume, read, seek, size, attach, detach, close | unlocked copying in both directions, wake-ups, wrap-around, resize | readers get every byte once and in order; no race; everyone finishes |
| `pupnp/connection_manager` | connections, proxies kept for further clients, listeners | add, attach, detach, closed, 10 s timer, close | events of streams in any order; a shared proxy nobody reads | list, count and events tell the truth; streams are shared; nobody starves |
| `pupnp/upnp` | `responses`, `handles`, `initialized` | get_info, open, read, close of files; initialize, close, update_interfaces | raw pointers given to libupnp; close waits for threads that wait for the loop | a stream that is read is held; one reader per stream; close completes |
| `platform/inifile` | values, dirty marks, kind of pending save, file | write, erase, save in place, save in full, load | crash or failure between steps, offsets that become stale | file and object agree; the only copy is never destroyed |
| `server/settings` | the clean-exit mark among the settings | start, exit, change | crash at any point | the next run knows how this one ended, once it has saved |
| `vlc/media_cache`, `platform/process` | hashes, descriptions, pool of children, pipes | scan_all, read_info, stop_process_pool | children that crash, full pipes, reuse of children | scans return; a crash costs one file only; pipes stay in step |
| `pupnp/rootdevice` | services, libupnp handles | register, initialize, close, emit_event, actions | registration on a thread with a nested loop | libupnp has no device of a destroyed server; a handle is lost only where registrations overlap; a device is announced in the end |
| `pupnp/content_directory` | item sources, update ids, pending updates | browse, update_path, connection count changes | delayed events while connections are open | no update is lost |
| `server/server`, `main` | republish and recreate timers, the server object | initialize, republish, apply_settings, recreate, exit | recreation from inside a nested loop | the device is announced; the republish timer runs only without connections; a failed start ends the program |
| `vlc/transcode_stream`, `image_stream` | child process, shared position, timer | open, close, update_info | terminate against a busy child; full pipes; libvlc's events against the child's wait | close returns; readers reach the end; the last position is reported |
| `mpeg` filters | partial packet, time stamps | streaming filter | packet boundaries anywhere in a buffer; 33-bit wrap | output independent of how the input is cut |
| `server/files`, `watchlist`, `recommended`, `setup`, `test` | items, watched positions | item_source interface | little concurrency | lists agree with the disk and the watchlist |
| `server/html`, `ixml_structures`, `client`, `mediareceiver_registrar`, `path`, `string`, `uuid`, `translator` | none | formatting, parsing | none | formats |

`PROJECT.json` lists every component with its status and every hazard with its
line in the code and the properties that watch it.

## 2. Plan

Done, in this order: connection_proxy (abstract specification, detailed one,
refinement, proofs), messageloop, connection_manager, upnp, inifile and
settings, media_cache with process, transcode_stream on top of process, and the
life of the server with rootdevice and the updates of content_directory.

Every invariant and every action property that a passing run checks is proved
(section 6).

Next:

1. Abstract specifications that the detailed ones implement, as StreamFanout is
   for ConnectionProxy: of settings (values that survive, or do not, as a whole)
   and of send() (a call that is run once between its begin and its return).
2. Pure algorithms against reference definitions: the program stream filter and
   its time stamps, the choice of protocols (`get_protocols`), escaping in inifile.

## 3. Modules

| Module | Models | Kind |
|---|---|---|
| `StreamFanout` | what connection_proxy promises | abstract specification |
| `ConnectionProxy` | `pupnp/connection_proxy.cpp` | component; implements StreamFanout |
| `MessageLoop` | `platform/messageloop.cpp`, Unix build | component |
| `ConnectionManager` | `pupnp/connection_manager.cpp`, the life of streams | component |
| `Upnp` | `pupnp/upnp.cpp` | component |
| `Inifile` | `platform/inifile.cpp` | component without a next-state relation of its own |
| `Settings` | the mark of `server/settings.cpp` | extends Inifile |
| `Process` | `platform/process.cpp`, pipes and end of a child | operators on a record |
| `MediaCache` | `vlc/media_cache.cpp` | component; extends Process |
| `TranscodeStream` | `vlc/transcode_stream.cpp`, both processes | component; extends Process |
| `Server` | `server/server.cpp`, `run_server` in `main.cpp`, `pupnp/rootdevice.cpp`, start and close of `pupnp/upnp.cpp`, updates of `pupnp/content_directory.cpp` | composition |
| `MC*` | | constants for TLC |
| `*Proofs` | | theorems about the module of that name |

### ConnectionProxy

Variables keep the names of the source (`buffer`, `buffer_offset`,
`buffer_used`, `stream_end`, ...).  Byte number p of the input is the number p,
so a slot tells which byte it holds.  One action is one critical section, or
one unlocked access.  `consume()` is four actions plus its exit: the block is
chosen under the lock (`ConsumeBegin`, `ConsumeGrow`, `ConsumeWait`), filled
without it and published (`ConsumeEnd`).  A reader takes bytes out of its window
without the lock (`Take`); `read`, `seek`, `size`, `attach` and `detach` are
critical sections, and a wait on the condition variable may end for no reason
(`Spurious`).  Any reader may read at any time, also of a stream that is
kept completely while its vector is resized (`ConsumeGrow`), which frees the
windows on the old one (`dangling`).  `seekoff()` and `seekpos()` wait for the
size, that is for the end of the stream (`SizeKnown`), after which nothing is
resized: `upnp::get_info` uses them before anything is read, and `probed` records
who did.  `Promised` are the readers whose bytes are right: all those of a ring
buffer, and of an image those that probed it.  To the others, which `upnp::open`
makes when it finds no response, the refinement promises their positions and the
end of the stream, not the bytes.

### MessageLoop

Messages are a set whose order is their serial numbers.  `process_events` is
followed from its entry (`process_events`) over its tests (`RunMessage`,
`RunTimer`, `ReturnStopped`, `ReturnExpired`, `PrepareWait`) to the wait; a
function that runs may call it again (`depth`).  Threads send and wait, refs and
timers are destroyed, a signal may arrive without the mutex.  Timers that
another thread starts are `Foreign`, because `timer_add` does not wake the loop.
`SingleShots` are owned by no object and stopped by nobody: they may be left when
the loop is destroyed (`Destroy`; see section 5).

### ConnectionManager

Of a stream only its life is kept: at offset 0, moved on, closed.  The messages
that ConnectionProxy posts are delivered here in order.  The proxy made for the
first client is also the one in `connection_proxies`; `Held` and `OwnerIdle`
state what that sharing means for the stream.

### Upnp

A request is served by a thread that walks through the callbacks of libupnp.
What these callbacks do on the loop are messages in `queue`.  `serving` is
libupnp's state, `initialized` the code's; they differ during a close.  A
response without a stream (`Null`) is kept like any other, but the timer is
started for a stream only (`TimerAfter`).

### Inifile and Settings

The file is a sequence of lines.  `Text` is what a full save writes: `Places` are
the keys with a value and the headers of their sections, in the order of the
maps (`InOrder`).  A save in place is one step per value; a full
save is truncate, write, copy (in pieces that end anywhere) and remove.  A crash
may happen between any two steps and an open may fail.  `Bad` is a value in a
last line that was cut: its length wraps and reading it throws.  Settings adds
the mark and histories (`saved`, `ended`) by which `ExitReported` is stated.

### Process and MediaCache

`Process` has what both ends of the two pipes see.  `MediaCache` follows
`process_tasks`: round, writes (`Send`, `SendAction`), turns over the pool,
answers.  `todo` has the files of the round that are still to be written, in the
order of their names, to each child in turn.  A child names a
file and describes it, and may crash (`Crash`) while it has files to work on,
before a file is named as well as after: libvlc runs in both, and the order in
which the code evaluates the two is the compiler's choice.

### TranscodeStream

The parent's loop thread opens and closes the stream and runs the 5 s timer, the
consume thread of connection_proxy reads (`Read1`), and the thread that close()
makes empties the pipe (`flush`).  In the child, `Test`, `Seek` and `Stop` are
the loop of `transcode_process`, cut where it takes and releases `t.mutex`; the
`On*` actions are `T::callback`, called by libvlc's thread, which also writes
blocks and blocks itself while the pipe is full.  `term` is the flag that the
signal handler sets: nobody is woken by it.  `shared_info` is written by the
child and copied by `update_info` in two steps (`CopyTime`, `CopyEnd`).
`reported`, `ends` and `missed` are histories.

### Server

One thread runs all of it, but `upnp::close` and `enable_rootdevice` process
events while a thread of libupnp does their work: `stack` holds those calls, each
with what its caller does next (`then`) and what has become of its thread
(`RegisterThread`, `FinishThread`).  Messages and timers, the periodic ones of
`update_interfaces` and `republish_rootdevice` included, run in whichever call is
innermost and may begin another, so that calls nest in any way.  `Replace` is
`recreate_server`, the destructors it runs included; it ends at once, in a
registration or in a close.  `RegisterDone` and `FinishDone` are the returns of
the calls.  A device that is closed or registered again while one is being
registered is an overlap (`overlaps`): both registrations write
`rootdevice_handles[host]`, and a handle that is overwritten, or that belongs to
a device that was closed meanwhile, is `lost`.

`queue` has the messages of `child_add`, `enable_rootdevice`,
`process_pending_updates` and `recreate_server_timer`, and `Aborted` is what
`~messageloop_ref` of the old server leaves of it.  An update of a container is
`pending` until the timer expires, `posted` until the message has run and then
`sent`; a close of the service drops it.  Where Upnp takes the children's success
for granted or not (`ChildrenDone`), Server has their registration; where
ConnectionManager has single connections, Server has whether there is one.
Requests other than those that apply settings, start or end a stream or change a
container are left to Upnp.

`broken` marks that a method of a destroyed object has been run: the server is
replaced from an event that one of its own calls processes, or a stream of a
replaced server calls back.  Nothing is known after that: the state is reset, and
nothing is claimed.

## 4. Runs

| Run | Instance | Shows |
|---|---|---|
| `proxy_stream` | 2 readers, ring of 4 blocks of 2 bytes, up to 11 bytes | no race, order, completeness, refinement, termination |
| `proxy_buffered` | 2 readers, everything kept, up to 5 bytes | no race and refinement with a growing buffer and seeks, for readers that probed the stream; size() returns |
| `loop_messages` | 2 refs, 2 senders, 3 messages, nesting 2 | no lost wake-up, one service per send, liveness |
| `loop_timers` | 3 timers of intervals 1 and 2, time 2 | timers in time, not too often, and not after their end |
| `loop_stop` | | violated: see findings |
| `connections` | 2 clients, 2 kinds, 2 streams, one close() | agreement, sharing, no starvation |
| `webserver` | 3 requests, 2 paths, 3 streams, 2 starts | handles, single readers, timers of kept streams, quiet close, termination |
| `settings` | 3 keys in 2 sections, 3 values, 3 changes, a crash | agreement of file and object, the mark |
| `inifile_assert` | the same | violated: see findings |
| `media_cache` | 4 files, 3 contents, 2 children, pipes of 2 tokens, 2 requests | no file forgotten, pipes in step, termination |
| `transcode` | 2 streams, up to 3 blocks, a pipe of 1 block | close returns, readers end, the last position is told once |
| `server` | 2 servers, 2 ports, 1 failure of libupnp, 1 new interface, 1 overlap | no stale device, announced again, updates announced |

The properties are stated with a comment each, at the end of their modules.

**Bounds.**  11 bytes are more than the 8 of the ring, so that the ring wraps and
the last block is partial; the ring has 4 blocks, the least that the constructor
makes for a preload of 2: one more to detach, and one to fill meanwhile.  Three messages are enough for a send between two posts inside
a nested call; two connections with two keys let a client miss a stream that
moved on and open another.  Three requests are two that compete for one kept
response and one that does not.  Three keys have two in one section and one in
another; two values of equal length and one of another length give both kinds of
changes.  Four files on two children leave a file behind the one that crashes.
Three blocks and a pipe of one leave the writer blocked with a block written and
one to come when close() begins; a second stream meets the remains of the first.
Two servers are one and its successor, which finds what the first has left; two
ports make a change of port while the first is replaced; one failure is of any of
the calls of libupnp, from which the timers have to recover; one overlap is a
device that is republished, or closed for a new interface, while it is being
registered.  Intervals of one and two give timers that are due at different
times, in either order.
Runs switch the deadlock check off because a bounded number of requests, or the
end of a program, lets the model stop.

**Fairness.**  Weak fairness of a thread's next step stands for the operating
system's scheduling.  Beyond that: a function that the loop runs returns, and a
sender whose function has returned gets the mutex in the end (strong fairness,
because nested calls and other threads interrupt them); the input stream
delivers or ends; a client that is attached keeps reading, or in Upnp reads to
the end or goes away; the 10 s and 15 s timers expire.  In TranscodeStream libvlc goes on unless its
write blocks, which also means that a player makes progress: one that hangs
inside libvlc is not woken by SIGTERM.  In Server the registration and UpnpFinish
return, and an expired timer is run when the message list is next empty (strong
fairness, because messages come in between); the timer of updates is started
again by every update and expires once they pause, and for this
`UpdatesAnnounced` excepts behaviours with updates for ever.  Actions of control points put the
republish timer off (`handled_action`), but only a registered device gets any,
and `Announced` needs the timer for one that is not.  `ScanReturns` excepts
children that crash again and again before they name their file.  No client is obliged to
leave, no child to crash, no owner to close.

## 5. Findings

* `loop_stop`: `run_server` calls `messageloop.stop(1)` when the server "failed
  to initialize", before `messageloop.run()`; `process_events` starts with
  `stopped = false`, so the program keeps running without a server.
* `inifile_assert`: a full save that cannot open `filename~` clears `touched`;
  the values stay dirty, and the next save in place meets values for which
  `save_file` asserts that it does not.

Both are marked as violations and their runs show the sequence of steps.

Met while modelling; the properties except exactly these cases, and say so:

* `transcode_process` unlocks its mutex to seek (lines 228-239) and then waits
  without testing its condition again.  An end or an error that libvlc reports in
  between is missed; no further event comes, the child stays, and close() waits
  for it on the loop's thread (`missed` in `CloseReturns` and `ReaderEnds`).
* After a change of the port, the initialize() that `child_add` posted for the
  new device runs inside `upnp::close`.  The device cannot be registered there,
  but stays `initialized`, so that `upnp::initialize` takes it for done.  It is
  published by the republish timer, or not at all if that setting is off
  (`Announced` is stated for servers that republish).
* A stream that begins within the 500 ms between apply_settings() and the
  replacement loses its server, although the page says "Cannot apply settings
  while streaming." (`server/html/settingspage.cpp:481`).  The model reaches it
  (`StreamBegins`, then `HandleRecreate` and `OrphanReports`).
* A timer that republishes the device or finds a new interface while
  `enable_rootdevice` processes events (`pupnp/rootdevice.cpp:445`) registers it a
  second time; one handle is overwritten and nobody can unregister it.  libupnp
  keeps the device object as its cookie, until UpnpFinish.  `NoStaleDevice` shows
  that this is the only way to lose a handle.
* `upnp::open` that finds no response (`pupnp/upnp.cpp:353`, 450-461) hands out a
  stream that was not probed.  If it is kept completely, `consume()` may resize
  its vector (`pupnp/connection_proxy.cpp:222`) while libupnp copies out of it.
* A response without a stream is kept with no timer of its own
  (`pupnp/upnp.cpp:456-466`), until it is opened or libupnp is closed.
* A child that crashes on a file before it names it (`vlc/media_cache.cpp:468-469`,
  478-480) is started again with the same file; if it crashes each time,
  scan_all does not return.
* `~messageloop` asserts that no timer is left (`platform/messageloop.cpp:186`).
  The single shots of `main.cpp:128` and `pupnp/connection_manager.cpp:355` are
  stopped by nobody, so that a program that ends within 1 s of its start after an
  unclean exit, or within 10 s of a stream's begin, violates it
  (`OnlyLiveCallbacks` is about timers that have an owner).
* If the device fails to register while the server is initialized, `upnp` is
  marked uninitialized but libupnp runs: every later UpnpInit3 fails.
* `content_directory` looks uuids up in `object_path_to_uuid` (line 797) and
  clears it, but never fills it: every browse makes new ones.

## 6. Proofs

Every theorem holds for every value of the constants that satisfies the ASSUMEs
of its module (`ReadersAssumption` and `SizeAssumption` of ConnectionProxy,
otherwise `<Module>Assumption`): bounds are natural numbers, sizes and intervals
are not zero, readers, clients, timers, keys and files are finite sets, and the
names of one kind are not those of another.  No theorem has further
hypotheses, but `TextIsRead`, which is about any values in memory that can be
read at all.  Each component has an inductive invariant (`Inv`, in ConnectionProxyProofs and
TranscodeStreamProofs `IInv`), one lemma per action that disturbs it, a lemma
that collects them, and the theorems that follow.

| Module | Theorem | States |
|---|---|---|
| `ConnectionProxyProofs` | `TypeCorrectness` | unsigned counters do not wrap |
| | `RaceFreedom` | the block being filled and the windows being read are disjoint, and no window of a promised reader outlives its vector |
| | `OrderedDelivery`, `CompleteDelivery` | a promised reader gets the bytes of the stream, in order; every reader is at its end before end-of-file |
| | `DetachAnnouncement`, `QuietClose` | events are posted once and at the right time |
| | `Refinement` | ConnectionProxy implements StreamFanout |
| `MessageLoopProofs` | `LoopTypeCorrectness` | `TypeOK` |
| | `WakeupNotLost`, `LoopWakesInTime` | the loop does not sleep while there is something to do, nor too long |
| | `CallbacksLive` | no message of a destroyed ref is in the loop, and of the timers without an object only single shots |
| | `TimersKeepTheirRate` | timers are not early and do not drift |
| | `SendIsServedOnce` | a send has one message, queued or under way, until it returns |
| `ConnectionManagerProofs` | `ListIsTrue` | list, number and events agree with the streams |
| | `StreamsAreShared` | one stream per key that can be attached to |
| `UpnpProofs` | `StreamsAreHeld`, `StreamsHaveOneReader` | a stream that is read is held, and read by one |
| | `ResponsesAreDropped` | a kept stream has the timer that drops it; no response survives a close of libupnp |
| `SettingsProofs` | `TextIsRead` | a full save is read back: `Parsed(Text(refs))` gives the values and their lines |
| | `SavedFileAgrees` | `SavedAgrees` |
| | `ExitIsReported` | `ExitReported`: the next run knows how this one ended, if it exited, or crashed after its first save and neither on its way out nor within a full save |
| | `CopyIsKept` | `OverwritesWithCopy`, an action property |
| | `AssertionsHoldBeforeFailure` | `AssertionsHold`, which `inifile_assert` violates, holds until a full save fails to open its files |
| `MediaCacheProofs` | `PipesAlwaysAgree` | pipes in step, no write to a child that has ended |
| | `NoFileIsForgotten` | a crash costs one file only |
| `TranscodeStreamProofs` | `LastIsReported`, `ChildIsJoined` | position and end are reported; a closed stream has left no child |
| `ServerProofs` | `DevicesAreFresh`, `RepublishIsRequired` | `NoStaleDevice`, `RepublishAsserted` |

Why the invariants need strengthening, and by what:

* **ConnectionProxy.**  `NoDataRace` is about slots, but actions move stream
  positions.  `IInv` says where each position is kept (`RingInv`: position p is in
  slot p mod size), that the producer's block begins at the end of what is kept
  although readers moved the start since it was chosen (`ConsumeInv`), that a
  window lies within what is kept and does not cross the end of the vector
  (`WindowInv`), that nothing is resized any more once a reader has probed the
  stream (`NoResizeInv`), and who holds the source (`LifeInv`).  Its arithmetic is in a
  few lemmas: positions less than the size apart are in different slots
  (`ModDistinct`), and what `recompute_buffer_offset` frees is nobody's window
  (`ProceedIsSafe`).
* **MessageLoop.**  `WaitInv` extends `NoLostWakeup` to the moment between the
  tests and the wait, when the mutex keeps the others out.  `TimerInv` relates the
  next time of a timer to how often it has fired.  `Served` tells where the one
  message of a waiting sender is, and `SenderInv` why destroying a ref does not
  drop it.
* **ConnectionManager.**  `StreamInv`: a stream is open only while someone has a
  proxy of it.  `PostInv`: a stream whose close is posted is closed, so that the
  message removes no connection that is in use.
* **Upnp.**  A stream has one owner, of a kept response, a thread between two
  callbacks, an open file or a message that erases it (`OwnInv`); a message is
  of a thread that waits for it, and of no two (`QueueInv`); `IdleInv`, `StoreInv`
  and `PhaseInv` say what a thread and the loop have before they do something
  with it.
* **Settings.**  `SyncInv`: a value that is not dirty is in the file, every `line`
  is right, and a dirty value fits where it will be written (`Synced`, `Placed`).
  `FileInv` and `CopyInv` say what file and copy hold at each step of a full save
  (`Whole`: no line is cut, and the last section has a value), `TouchInv` what
  `touched` promises, `MarkInv` and `EndInv` where the clean-exit mark is while a
  run goes on and after it.
* **MediaCache.**  `RestInv` says what a child that rests looks like, `PoolInv` what
  is in the two pipes of a child for each thing it may be doing, `RoundInv` how
  far the round has got, `ScanInv` that a file asked for is described, a task
  still, or lost; `StopInv` covers the end of the pool.
* **TranscodeStream.**  `InfoInv`: the user knows what `update_info` found the last
  time, and that is all there is when close() has returned.  `ChildInv`: by then
  the child, which could still store something, has ended.
* **Server.**  Calls nest in any way; `CallsInv` has what is left: one thread
  finishes libupnp at a time, and one call initializes a server.  `DeviceInv`: a
  handle is known to its device, or to a registration that has not returned.
  `LossInv`: as long as registrations have not overlapped there is at most one,
  of a device that is not registered yet, so that nothing is overwritten.
  `RepublishInv`: a server that is still being initialized has neither timer nor
  connection.

**Induction over data.**  The library's induction theorems take an operator as
parameter and cannot be used with these provers.  Where a proof needs induction
(`SettingsProofs`: that a finite set of places can be sorted, that sorted places
are unique, and which header is the last above a line) it takes the least
counterexample (`LeastNatural`, from `WFMin` and `NatLessThanWellFounded`)
and shows that there is a smaller one.

**Model-checked only.**  Liveness: `EveryReaderFinishes`, `CloseCompletes` (both),
`SizeReturns`, `EveryMessageServed`, `ClientsFinish`, `ConnectionsEnd`,
`ScanReturns`, `CloseReturns`, `ReaderEnds`, `Announced`, `UpdatesAnnounced`; these
need fairness and ENABLED, which the prover does not handle.  `StopKept` and
`AssertionsHold` are violated and have no proof.

## 7. Not modelled

Formats (HTML, XML, URLs, titles, percent encoding), libvlc and libupnp
themselves (their use is modelled where they call back or may crash), the
Windows build and the build that runs children as threads, log files and the
command line.  In Upnp, the contents and positions of streams; in MediaCache,
what is found in a file, and children that die while they rest or before they
read their first command.
In Server, what the program does once a destroyed
object has been called, and the item sources; in TranscodeStream, a stream whose
last reference is dropped by another thread than the loop's while the 5 s timer
runs.  `playlist_stream` is compiled but nothing opens one.  `image_stream` is
transcode_stream without seeking and without a timer.

The type invariants `TypeOK` of MessageLoop and Inifile are part of what is
proved; no run checks them by name.  Those of Server and TranscodeStream are in
their proof modules.
