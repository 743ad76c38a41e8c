---------------------------- MODULE ServerProofs ----------------------------
(***************************************************************************)
(* Proofs about Server, for every set of ports and any number of servers,  *)
(* failures of libupnp, new interfaces and overlapping registrations.      *)
(***************************************************************************)
EXTENDS Server, SequenceTheorems, TLAPS

\* upnp::close is waited for by whoever initializes libupnp again.
Calls ==
  {c \in [at : {"finish", "register"},
          then : {"none", "server", "interfaces"},
          thread : {"running", "ok", "failed"}] :
     c.at = "finish" => c.then # "none"}

Devices == [initialized : BOOLEAN, registred : BOOLEAN, announced : BOOLEAN]

Republishing ==
  [sources : BOOLEAN, listening : BOOLEAN, required : BOOLEAN, timer : BOOLEAN]

Upnps ==
  [initialized : BOOLEAN, port : Ports \cup {0}, timer : BOOLEAN,
   library : {"down", "up", "finishing"}]

TypeOK ==
  /\ mode \in {"starting", "running", "stopped", "ended"}
  /\ saved \in [port : Ports, republish : BOOLEAN]
  /\ made \in Nat /\ server_ptr \in Nat
  /\ republish \in Republishing /\ device \in Devices
  /\ connections \in BOOLEAN /\ upnp \in Upnps /\ overlaps \in Nat
  /\ stack \in Seq(Calls)

\* The calls of a stack: the registrations, those whose thread has registered
\* the device, the ones that wait for UpnpFinish, and the ones that return to
\* server::initialize.
Regs(s)  == {n \in 1 .. Len(s) : s[n].at = "register"}
Oks(s)   == {n \in 1 .. Len(s) : s[n].at = "register" /\ s[n].thread = "ok"}
Fins(s)  == {n \in 1 .. Len(s) : s[n].at = "finish" /\ s[n].thread = "running"}
Servs(s) == {n \in 1 .. Len(s) : s[n].then = "server"}

AtMostOne(S) == \A m, n \in S : m = n

\* Calls nest in any way, but one thread at a time finishes libupnp, and one
\* call at a time initializes a server.
CallsInv ==
  /\ AtMostOne(Fins(stack)) /\ AtMostOne(Servs(stack))
  /\ Fins(stack) # {} => upnp.library = "finishing"
  /\ upnp.initialized => upnp.library = "up"
  /\ (stack # <<>> \/ mode \in {"running", "stopped"}) => server_ptr # None
  /\ mode = "ended" => stack = <<>>

\* The handles are those of the device that exists: it knows that they are
\* registered, or a registration that has not returned yet does.
DeviceInv ==
  /\ registered \subseteq {server_ptr} \ {None}
  /\ registered # {} =>
       (device.registred /\ device.initialized) \/ Oks(stack) # {}

\* While registrations have not overlapped at most one is under way, of a
\* device that is initialized and not registered; libupnp has the device once
\* the thread has registered it, and has none when it is finished.
LossInv ==
  overlaps = 0 =>
    /\ lost = {} /\ AtMostOne(Regs(stack))
    /\ Regs(stack) # {} => device.initialized /\ ~device.registred
    /\ device.registred => device.initialized
    /\ device.registred \/ Oks(stack) # {} =>
         server_ptr \in registered /\ upnp.library # "finishing"

\* The timer runs only while the listener would start it, and a server that is
\* not initialized yet has neither timer nor streams.
RepublishInv ==
  /\ republish.timer =>
       republish.required /\ republish.listening /\ ~connections
  /\ Servs(stack) # {} => republish = Idle /\ ~connections

Inv == TypeOK /\ CallsInv /\ DeviceInv /\ LossInv /\ RepublishInv

-----------------------------------------------------------------------------
(* The stack.                                                              *)

\* No call is in progress.
LEMMA EmptyStack ==
  /\ <<>> \in Seq(Calls) /\ Regs(<<>>) = {} /\ Oks(<<>>) = {}
  /\ Fins(<<>>) = {} /\ Servs(<<>>) = {}
<1>1. 1 .. Len(<<>>) = {}
  OBVIOUS
<1>2. <<>> \in Seq(Calls)
  OBVIOUS
<1> QED
  BY <1>1, <1>2 DEF Regs, Oks, Fins, Servs

\* A thread that has registered the device is one of a registration.
LEMMA OksAreRegs == ASSUME NEW s PROVE Oks(s) \subseteq Regs(s)
  BY DEF Oks, Regs

\* A call is begun.
LEMMA Pushed ==
  ASSUME NEW s \in Seq(Calls), NEW at \in {"finish", "register"},
         NEW then \in {"none", "server", "interfaces"},
         at = "finish" => then # "none"
  PROVE  LET t == Append(s, Call(at, then))
             k == {Len(s) + 1}
         IN  /\ t \in Seq(Calls) /\ t # <<>> /\ t # s /\ Oks(t) = Oks(s)
             /\ Regs(t)  = Regs(s) \cup (IF at = "register" THEN k ELSE {})
             /\ Fins(t)  = Fins(s) \cup (IF at = "finish" THEN k ELSE {})
             /\ Servs(t) = Servs(s) \cup (IF then = "server" THEN k ELSE {})
<1> DEFINE c == Call(at, then)
           t == Append(s, c)
<1>1. c \in Calls /\ c.at = at /\ c.then = then /\ c.thread = "running"
  BY DEF Call, Calls
<1> HIDE DEF c
<1>2. /\ t \in Seq(Calls) /\ Len(t) = Len(s) + 1 /\ Len(s) \in Nat
      /\ \A n \in 1 .. Len(s) : t[n] = s[n]
      /\ t[Len(s) + 1] = c
  BY <1>1
<1> HIDE DEF t
<1>3. 1 .. Len(t) = (1 .. Len(s)) \cup {Len(s) + 1}
  BY <1>2
<1>4. Oks(t) = Oks(s)
  BY <1>1, <1>2, <1>3 DEF Oks
<1>5. Regs(t) = Regs(s) \cup (IF at = "register" THEN {Len(s) + 1} ELSE {})
  BY <1>1, <1>2, <1>3 DEF Regs
<1>6. Fins(t) = Fins(s) \cup (IF at = "finish" THEN {Len(s) + 1} ELSE {})
  BY <1>1, <1>2, <1>3 DEF Fins
<1>7. Servs(t) = Servs(s) \cup (IF then = "server" THEN {Len(s) + 1} ELSE {})
  BY <1>1, <1>2, <1>3 DEF Servs
<1>8. t # <<>> /\ t # s
  BY <1>2
<1> QED
  BY <1>2, <1>4, <1>5, <1>6, <1>7, <1>8 DEF t, c

\* The innermost call returns.
LEMMA Popped ==
  ASSUME NEW s \in Seq(Calls), s # <<>>
  PROVE  LET k == {Len(s)}
         IN  /\ Front(s) \in Seq(Calls) /\ Last(s) \in Calls
             /\ Len(s) \in 1 .. Len(s) /\ Last(s) = s[Len(s)]
             /\ Regs(Front(s)) = Regs(s) \ k /\ Oks(Front(s)) = Oks(s) \ k
             /\ Fins(Front(s)) = Fins(s) \ k
             /\ Servs(Front(s)) = Servs(s) \ k
<1> DEFINE N == Len(s)
           t == Front(s)
<1>1. N \in Nat /\ N >= 1 /\ N \in 1 .. N
  <2>1. N \in Nat /\ N # 0
    OBVIOUS
  <2> QED
    BY <2>1
<1>2. Last(s) = s[N] /\ Last(s) \in Calls
  BY <1>1 DEF Last
<1>3. \A i \in 1 .. N - 1 : s[i] \in Calls
  BY <1>1
<1>4. t = SubSeq(s, 1, N - 1)
  BY DEF Front
<1>5. /\ t \in Seq(Calls) /\ Len(t) = N - 1
      /\ \A i \in 1 .. N - 1 : t[i] = s[i]
  <2> HIDE DEF N, t
  <2> DEFINE u == SubSeq(s, 1, N - 1)
  <2>1. N - 1 \in Int /\ 1 \in Int
    BY <1>1
  <2>2. /\ u \in Seq(Calls) /\ Len(u) = IF 1 <= N - 1 THEN N - 1 - 1 + 1 ELSE 0
        /\ \A i \in 1 .. N - 1 - 1 + 1 : u[i] = s[1 + i - 1]
    BY <1>3, <2>1, SubSeqProperties
  <2> HIDE DEF u
  <2>3. Len(u) = N - 1 /\ \A i \in 1 .. N - 1 : u[i] = s[i]
    BY <1>1, <2>2
  <2> QED
    BY <1>4, <2>2, <2>3 DEF u
<1> HIDE DEF t
<1>6. 1 .. Len(t) = (1 .. N) \ {N}
  BY <1>1, <1>5
<1>7. \A i \in (1 .. N) \ {N} : t[i] = s[i]
  BY <1>5, <1>6
<1>8. Regs(t) = Regs(s) \ {N}
  BY <1>6, <1>7 DEF Regs
<1>9. Oks(t) = Oks(s) \ {N}
  BY <1>6, <1>7 DEF Oks
<1>10. Fins(t) = Fins(s) \ {N}
  BY <1>6, <1>7 DEF Fins
<1>11. Servs(t) = Servs(s) \ {N}
  BY <1>6, <1>7 DEF Servs
<1> QED
  BY <1>1, <1>2, <1>5, <1>8, <1>9, <1>10, <1>11 DEF t

\* The thread of a call ends.
LEMMA Marked ==
  ASSUME NEW s \in Seq(Calls), NEW n \in 1 .. Len(s),
         NEW how \in {"ok", "failed"}, s[n].thread = "running"
  PROVE  LET t == [s EXCEPT ![n].thread = how]
         IN  /\ t \in Seq(Calls) /\ t # <<>> /\ Regs(t) = Regs(s)
             /\ Servs(t) = Servs(s) /\ Fins(t) = Fins(s) \ {n}
             /\ Oks(t) = Oks(s) \cup (IF how = "ok" /\ s[n].at = "register"
                                      THEN {n} ELSE {})
<1> DEFINE c == [s[n] EXCEPT !.thread = how]
           t == [s EXCEPT ![n] = c]
<1>1. s[n] \in Calls
  OBVIOUS
<1>2. c \in Calls /\ c.at = s[n].at /\ c.then = s[n].then /\ c.thread = how
  BY <1>1 DEF Calls
<1> HIDE DEF c
<1>3. /\ t \in Seq(Calls) /\ Len(t) = Len(s) /\ t[n] = c
      /\ \A i \in 1 .. Len(s) : i # n => t[i] = s[i]
  BY <1>2
<1> HIDE DEF t
<1>4. Regs(t) = Regs(s)
  BY <1>2, <1>3 DEF Regs
<1>5. Servs(t) = Servs(s)
  BY <1>2, <1>3 DEF Servs
<1>6. Fins(t) = Fins(s) \ {n}
  BY <1>2, <1>3 DEF Fins
<1>7. Oks(t) = Oks(s) \cup (IF how = "ok" /\ s[n].at = "register"
                            THEN {n} ELSE {})
  BY <1>2, <1>3 DEF Oks
<1>8. t # <<>>
  BY <1>3
<1> QED
  BY <1>3, <1>4, <1>5, <1>6, <1>7, <1>8 DEF t, c

\* The model's own words for what is on the stack.
LEMMA OnStack ==
  /\ Registering <=> Regs(stack) # {}
  /\ ~InUse => Regs(stack) = {} /\ Servs(stack) = {}
  BY DEF Registering, InUse, Regs, Servs

-----------------------------------------------------------------------------
(* What the actions are made of.                                           *)

\* What is left when the device of server_ptr is unregistered.
LEMMA UnregisteredLeaves ==
  ASSUME Inv
  PROVE  /\ Unregistered \subseteq {server_ptr} \ {None}
         /\ Unregistered # {} => Oks(stack) # {}
         /\ Unregistered \subseteq registered
         /\ device.registred \/ Unregistered = registered
  BY DEF Inv, TypeOK, Devices, DeviceInv, Unregistered

\* Where new initializations of upnp begin, with `calls' on the stack.
LEMMA InitUpnpInv ==
  ASSUME Inv, mode # "ended", NEW port \in Ports \cup {0},
         NEW then \in {"server", "interfaces"}, NEW calls \in Seq(Calls),
         NEW d \in Devices, NEW r \in Republishing,
         InitUpnp(port, then, calls, d, r),
         UNCHANGED saved, made' \in Nat, server_ptr' \in Nat \ {None},
         connections' \in BOOLEAN, overlaps' \in Nat,
         AtMostOne(Fins(calls)), AtMostOne(Servs(calls)),
         Fins(calls) # {} => upnp.library = "finishing",
         then = "server" => Servs(calls) = {} /\ ~connections',
         Servs(calls) # {} => r = Idle /\ ~connections',
         r.timer => r.required /\ r.listening /\ ~connections',
         registered' \subseteq {server_ptr'},
         registered' # {} => (d.registred /\ d.initialized) \/ Oks(calls) # {},
         overlaps' = 0 =>
           /\ lost' = {} /\ AtMostOne(Regs(calls))
           /\ Regs(calls) # {} => d.initialized /\ ~d.registred
           /\ d.registred => d.initialized
           /\ d.registred \/ Oks(calls) # {} =>
                server_ptr' \in registered' /\ upnp.library # "finishing"
  PROVE  Inv'
<1>1. /\ Watching \in Republishing /\ Idle \in Republishing
      /\ Watching.timer => Watching.required /\ Watching.listening
      /\ ~Idle.timer
  BY DEF Watching, Idle, Republishing, Inv, TypeOK
<1>2. mode' \in {"starting", "running", "stopped"}
  BY DEF InitUpnp, Failed, Inv, TypeOK
<1>3. device' \in Devices /\ device'.registred = d.registred
      /\ (d.initialized => device'.initialized)
  BY DEF InitUpnp, Devices
<1>4. /\ upnp' \in Upnps
      /\ upnp'.initialized => upnp'.library = "up"
      /\ upnp'.library \in {upnp.library, "up"}
      /\ upnp'.library # upnp.library => upnp.library = "down"
  <2>1. CASE upnp' = [initialized |-> TRUE, port |-> port, timer |-> TRUE,
                      library |-> "up"] /\ upnp.library = "down"
    BY <2>1 DEF Upnps
  <2>2. CASE upnp' = [upnp EXCEPT !.initialized = FALSE, !.port = port,
                                  !.timer = TRUE]
    BY <2>2 DEF Upnps, Inv, TypeOK
  <2> QED
    BY <2>1, <2>2 DEF InitUpnp
<1>5. /\ republish' \in Republishing
      /\ republish'.timer =>
           republish'.required /\ republish'.listening /\ ~connections'
  BY <1>1 DEF InitUpnp
<1>6. CASE stack' = calls /\ republish' \in {Watching, Idle, r}
           /\ (then = "server" \/ republish' = r)
  <2>1. TypeOK'
    BY <1>2, <1>3, <1>4, <1>5, <1>6 DEF Inv, TypeOK
  <2>2. CallsInv'
    BY <1>2, <1>4, <1>6 DEF CallsInv
  <2>3. DeviceInv'
    BY <1>3, <1>6 DEF DeviceInv
  <2>4. LossInv'
    BY <1>3, <1>4, <1>6 DEF LossInv
  <2>5. RepublishInv'
    BY <1>5, <1>6 DEF RepublishInv
  <2> QED
    BY <2>1, <2>2, <2>3, <2>4, <2>5 DEF Inv
<1>7. CASE /\ stack' = Append(calls, Call("register", then))
           /\ ~d.initialized /\ device'.initialized
           /\ upnp.library = "down"
           /\ republish' = IF then = "server" THEN Idle ELSE r
  <2> DEFINE k == {Len(calls) + 1}
  <2>1. /\ stack' \in Seq(Calls) /\ stack' # <<>>
        /\ Regs(stack') = Regs(calls) \cup k /\ Oks(stack') = Oks(calls)
        /\ Fins(stack') = Fins(calls)
        /\ Servs(stack') = Servs(calls) \cup (IF then = "server" THEN k
                                              ELSE {})
    BY <1>7, Pushed
  <2> HIDE DEF k
  <2>2. AtMostOne(k)
    BY DEF k, AtMostOne
  <2>3. TypeOK'
    BY <1>2, <1>3, <1>4, <1>5, <2>1 DEF Inv, TypeOK
  <2>4. AtMostOne(Servs(stack'))
    BY <2>1, <2>2
  <2>5. CallsInv'
    BY <1>2, <1>4, <1>7, <2>1, <2>4 DEF CallsInv
  <2>6. DeviceInv'
    BY <1>3, <1>7, <2>1 DEF DeviceInv
  <2>7. overlaps' = 0 => AtMostOne(Regs(stack'))
    BY <1>7, <2>1, <2>2
  <2>8. LossInv'
    BY <1>3, <1>4, <1>7, <2>1, <2>7 DEF LossInv
  <2>9. RepublishInv'
    BY <1>5, <1>7, <2>1 DEF RepublishInv
  <2> QED
    BY <2>3, <2>5, <2>6, <2>8, <2>9 DEF Inv
<1> QED
  <2>1. CASE upnp.library = "down" /\ ~d.initialized
             /\ stack' = Append(calls, Call("register", then))
    BY <1>7, <2>1 DEF InitUpnp, Devices
  <2>2. CASE stack' = calls
    BY <1>6, <2>2, Pushed DEF InitUpnp
  <2> QED
    BY <2>1, <2>2 DEF InitUpnp

\* connection_manager's list changes, or is forgotten.
LEMMA ListenedInv ==
  ASSUME Inv, NEW open \in BOOLEAN, NEW r, r = Listened(open)
  PROVE  /\ r \in Republishing
         /\ r.timer => r.required /\ r.listening /\ ~open
         /\ republish = Idle => r = Idle
<1>1. CASE republish.listening
  <2>1. r = [republish EXCEPT !.required = ~open, !.timer = ~open]
    BY <1>1 DEF Listened
  <2>2. (~open) \in BOOLEAN
    OBVIOUS
  <2>3. /\ r \in Republishing
        /\ r.required = ~open /\ r.timer = ~open /\ r.listening
    BY <1>1, <2>1, <2>2 DEF Inv, TypeOK, Republishing
  <2>4. republish # Idle
    BY <1>1 DEF Idle
  <2> QED
    BY <2>3, <2>4
<1>2. CASE ~republish.listening
  BY <1>2 DEF Listened, Inv, TypeOK, RepublishInv
<1> QED
  BY <1>1, <1>2

\* rootdevice::close(): the listeners are told, and the device is not known to
\* be registered any more.
LEMMA ClosedInv ==
  ASSUME Inv, CloseServices
  PROVE  /\ ClosedRepublish \in Republishing /\ connections' \in BOOLEAN
         /\ ClosedRepublish.timer =>
              /\ ClosedRepublish.required /\ ClosedRepublish.listening
              /\ ~connections'
         /\ Servs(stack) # {} => ClosedRepublish = Idle /\ ~connections'
         /\ ClosedDevice \in Devices /\ ~ClosedDevice.initialized
         /\ overlaps = 0 => ~ClosedDevice.registred
<1>1. CASE device.initialized
  <2>1. ClosedRepublish = Listened(FALSE) /\ connections' = FALSE
    BY <1>1 DEF ClosedRepublish, CloseServices
  <2>2. ClosedDevice = NoDevice
    BY <1>1 DEF ClosedDevice
  <2> QED
    BY <2>1, <2>2, ListenedInv DEF Inv, RepublishInv, NoDevice, Devices
<1>2. CASE ~device.initialized
  <2>1. ClosedRepublish = republish /\ connections' = connections
    BY <1>2 DEF ClosedRepublish, CloseServices, streamVars
  <2>2. ClosedDevice = device
    BY <1>2 DEF ClosedDevice
  <2> QED
    BY <1>2, <2>1, <2>2 DEF Inv, TypeOK, LossInv, RepublishInv
<1> QED
  BY <1>1, <1>2 DEF Inv, TypeOK, Devices

\* A registration is begun that nobody waits for.
LEMMA RegisterBegins ==
  ASSUME Inv, mode # "ended", server_ptr # None, Overlaps(TRUE),
         stack' = Append(stack, Call("register", "none")),
         UNCHANGED <<mode, saved, made, server_ptr, upnp, lost>>,
         device' \in Devices, device'.initialized,
         overlaps = 0 /\ Regs(stack) = {} => ~device'.registred,
         republish' \in Republishing, connections' \in BOOLEAN,
         republish'.timer =>
           republish'.required /\ republish'.listening /\ ~connections',
         Servs(stack) # {} => republish' = Idle /\ ~connections',
         registered' \subseteq {server_ptr},
         registered' # {} => device'.registred \/ Oks(stack) # {}
  PROVE  Inv'
<1> DEFINE k == {Len(stack) + 1}
<1>1. /\ stack' \in Seq(Calls) /\ stack' # <<>>
      /\ Regs(stack') = Regs(stack) \cup k /\ Oks(stack') = Oks(stack)
      /\ Fins(stack') = Fins(stack) /\ Servs(stack') = Servs(stack)
  BY Pushed DEF Inv, TypeOK
<1> HIDE DEF k
<1>2. AtMostOne(k)
  BY DEF k, AtMostOne
<1>3. /\ overlaps' \in Nat
      /\ overlaps' = 0 => overlaps = 0 /\ Regs(stack) = {}
  BY OnStack DEF Overlaps, Inv, TypeOK
<1>4. TypeOK'
  BY <1>1, <1>3 DEF Inv, TypeOK
<1>5. CallsInv'
  BY <1>1 DEF Inv, CallsInv
<1>6. DeviceInv'
  BY <1>1 DEF DeviceInv
<1>7. overlaps' = 0 => AtMostOne(Regs(stack')) /\ Oks(stack') = {}
  BY <1>1, <1>2, <1>3, OksAreRegs
<1>8. LossInv'
  BY <1>3, <1>7 DEF Inv, LossInv
<1>9. RepublishInv'
  BY <1>1 DEF RepublishInv
<1> QED
  BY <1>4, <1>5, <1>6, <1>8, <1>9 DEF Inv

\* upnp::close() begins to finish libupnp.
LEMMA CloseBegins ==
  ASSUME Inv, mode # "ended", upnp.initialized, UNCHANGED <<mode, saved>>,
         NEW then \in {"server", "interfaces"}, CloseUpnp(then),
         made' \in Nat, server_ptr' \in Nat \ {None}, overlaps' \in Nat,
         device' \in Devices,
         republish' \in Republishing, connections' \in BOOLEAN,
         republish'.timer =>
           republish'.required /\ republish'.listening /\ ~connections',
         Servs(stack) # {} => then # "server",
         Servs(stack) # {} \/ then = "server" =>
           republish' = Idle /\ ~connections',
         registered' \subseteq {server_ptr'},
         registered' # {} => Oks(stack) # {},
         overlaps' = 0 => lost' = {} /\ Regs(stack) = {} /\ ~device'.registred
  PROVE  Inv'
<1> DEFINE k == {Len(stack) + 1}
<1>1. /\ stack' \in Seq(Calls) /\ stack' # <<>>
      /\ Regs(stack') = Regs(stack) /\ Oks(stack') = Oks(stack)
      /\ Fins(stack') = Fins(stack) \cup k
      /\ Servs(stack') = Servs(stack) \cup (IF then = "server" THEN k ELSE {})
  BY Pushed DEF Inv, TypeOK, CloseUpnp
<1> HIDE DEF k
<1>2. AtMostOne(k) /\ AtMostOne({})
  BY DEF k, AtMostOne
<1>3. Fins(stack) = {}
  BY DEF Inv, CallsInv
<1>4. upnp' \in Upnps /\ ~upnp'.initialized /\ upnp'.library = "finishing"
  BY DEF CloseUpnp, Inv, TypeOK, Upnps
<1>5. TypeOK'
  BY <1>1, <1>4 DEF Inv, TypeOK
<1>6. CallsInv'
  BY <1>1, <1>2, <1>3, <1>4 DEF Inv, CallsInv
<1>7. DeviceInv'
  BY <1>1 DEF DeviceInv
<1>8. LossInv'
  BY <1>1, <1>2, OksAreRegs DEF LossInv
<1>9. RepublishInv'
  BY <1>1 DEF RepublishInv
<1> QED
  BY <1>5, <1>6, <1>7, <1>8, <1>9 DEF Inv

-----------------------------------------------------------------------------
(* The actions.                                                            *)

\* run_server() begins with nothing.
LEMMA InitInv == Init => Inv
<1> SUFFICES ASSUME Init PROVE Inv
  OBVIOUS
<1>1. stack = <<>>
  BY DEF Init
<1>2. /\ stack \in Seq(Calls) /\ Regs(stack) = {} /\ Oks(stack) = {}
      /\ Fins(stack) = {} /\ Servs(stack) = {} /\ AtMostOne({})
  BY <1>1, EmptyStack DEF AtMostOne
<1>3. TypeOK
  BY <1>2 DEF Init, TypeOK, None, Idle, NoDevice, Republishing, Devices, Upnps
<1>4. CallsInv
  BY <1>2 DEF Init, CallsInv
<1>5. DeviceInv /\ LossInv
  BY <1>2 DEF Init, DeviceInv, LossInv, NoDevice
<1>6. RepublishInv
  BY <1>2 DEF Init, RepublishInv, Idle
<1> QED
  BY <1>3, <1>4, <1>5, <1>6 DEF Inv

\* The server is replaced, by what is not begun inside of its own methods.
LEMMA ReplaceInv ==
  ASSUME Inv, NEW rest, Replace(rest), mode # "ended",
         Regs(stack) = {}, Servs(stack) = {}
  PROVE  Inv'
<1>1. Oks(stack) = {}
  BY OksAreRegs
<1>2. /\ made' \in Nat /\ server_ptr' \in Nat \ {None} /\ UNCHANGED saved
      /\ connections' = FALSE /\ registered' = {}
      /\ UNCHANGED <<lost, overlaps>>
  <2>1. registered' = Unregistered
    BY DEF Replace
  <2> QED
    BY <1>1, <2>1, UnregisteredLeaves DEF Replace, Inv, TypeOK, None, lossVars
<1>3. saved.port \in Ports /\ saved.republish \in BOOLEAN
      /\ overlaps \in Nat /\ stack \in Seq(Calls)
  BY DEF Inv, TypeOK
<1>4. NoDevice \in Devices /\ ~NoDevice.registred /\ ~NoDevice.initialized
  BY DEF NoDevice, Devices
<1>5. /\ Idle \in Republishing /\ ~Idle.timer
      /\ Watching \in Republishing
      /\ Watching.timer => Watching.required /\ Watching.listening
  BY <1>3 DEF Idle, Watching, Republishing
<1>6. /\ AtMostOne({}) /\ AtMostOne(Fins(stack))
      /\ Fins(stack) # {} => upnp.library = "finishing"
  BY DEF AtMostOne, Inv, CallsInv
<1>7. overlaps = 0 => lost = {}
  BY DEF Inv, LossInv
<1>8. CASE device' = NoDevice /\ republish' = Watching
           /\ UNCHANGED <<mode, upnp, stack>>
  <2>1. TypeOK'
    BY <1>2, <1>4, <1>5, <1>8 DEF Inv, TypeOK
  <2>2. CallsInv'
    BY <1>2, <1>8 DEF Inv, CallsInv
  <2>3. DeviceInv' /\ LossInv'
    BY <1>1, <1>2, <1>4, <1>6, <1>7, <1>8 DEF DeviceInv, LossInv
  <2>4. RepublishInv'
    BY <1>2, <1>5, <1>8 DEF RepublishInv
  <2> QED
    BY <2>1, <2>2, <2>3, <2>4 DEF Inv
<1>9. CASE /\ upnp.initialized /\ device' = NoDevice /\ republish' = Idle
           /\ CloseUpnp("server") /\ UNCHANGED mode
  BY <1>2, <1>3, <1>4, <1>5, <1>7, <1>9, CloseBegins
<1>10. CASE InitUpnp(saved.port, "server", stack, NoDevice, Idle)
  BY <1>1, <1>2, <1>3, <1>4, <1>5, <1>6, <1>7, <1>10, InitUpnpInv
<1> QED
  BY <1>8, <1>9, <1>10 DEF Replace

\* Nothing is left of a program that uses destroyed objects.
LEMMA BreakInv ==
  ASSUME Inv, Break
  PROVE  Inv'
<1>1. stack' = <<>> /\ UNCHANGED <<mode, saved, made, server_ptr, overlaps>>
  BY DEF Break
<1>2. /\ stack' \in Seq(Calls) /\ Regs(stack') = {} /\ Oks(stack') = {}
      /\ Fins(stack') = {} /\ Servs(stack') = {} /\ AtMostOne({})
  BY <1>1, EmptyStack DEF AtMostOne
<1>3. /\ registered' = {} /\ lost' = {} /\ connections' = FALSE
      /\ upnp' \in Upnps /\ ~upnp'.initialized
      /\ device' \in Devices /\ ~device'.registred
      /\ republish' \in Republishing /\ ~republish'.timer
  BY DEF Break, NoDevice, Idle, Devices, Republishing, Upnps, Inv, TypeOK
<1>4. TypeOK'
  BY <1>1, <1>2, <1>3 DEF Inv, TypeOK
<1>5. CallsInv'
  BY <1>1, <1>2, <1>3 DEF Inv, CallsInv
<1>6. DeviceInv' /\ LossInv'
  BY <1>2, <1>3 DEF DeviceInv, LossInv
<1>7. RepublishInv'
  BY <1>2, <1>3 DEF RepublishInv
<1> QED
  BY <1>4, <1>5, <1>6, <1>7 DEF Inv

\* run_server() ends.
LEMMA ExitInv ==
  ASSUME Inv, Exit
  PROVE  Inv'
<1>1. /\ stack = <<>> /\ stack' = <<>> /\ mode' = "ended"
      /\ UNCHANGED <<saved, made, upnp, lost, overlaps>>
  BY DEF Exit, lossVars
<1>2. /\ stack' \in Seq(Calls) /\ Regs(stack') = {} /\ Oks(stack') = {}
      /\ Fins(stack') = {} /\ Servs(stack') = {} /\ AtMostOne({})
      /\ Oks(stack) = {}
  BY <1>1, EmptyStack DEF AtMostOne
<1>3. registered' = {} /\ server_ptr' = None /\ connections' = FALSE
  BY <1>2, UnregisteredLeaves DEF Exit
<1>4. /\ device' \in Devices /\ ~device'.registred
      /\ republish' = Idle /\ ~republish'.timer /\ republish' \in Republishing
  BY DEF Exit, NoDevice, Idle, Devices, Republishing
<1>5. TypeOK'
  BY <1>1, <1>2, <1>3, <1>4 DEF Inv, TypeOK, None
<1>6. CallsInv'
  BY <1>1, <1>2 DEF Inv, CallsInv
<1>7. DeviceInv' /\ LossInv'
  BY <1>1, <1>2, <1>3, <1>4 DEF Inv, DeviceInv, LossInv
<1>8. RepublishInv'
  BY <1>2, <1>4 DEF RepublishInv
<1> QED
  BY <1>5, <1>6, <1>7, <1>8 DEF Inv

\* The thread of enable_rootdevice() ends.
LEMMA RegisterThreadInv ==
  ASSUME Inv, NEW n \in 1 .. Len(stack), NEW ok \in BOOLEAN,
         RegisterThread(n, ok)
  PROVE  Inv'
<1> DEFINE how == IF ok THEN "ok" ELSE "failed"
<1>1. /\ stack[n].at = "register" /\ stack[n].thread = "running"
      /\ stack' = [stack EXCEPT ![n].thread = how]
  BY DEF RegisterThread, Runs, Ends
<1>2. UNCHANGED <<mode, saved, made, server_ptr, republish, device,
                  connections, upnp, overlaps>>
  BY DEF RegisterThread, serverVars, streamVars
<1>3. /\ lost' = lost \cup (registered \cap {server_ptr})
      /\ registered' = IF ok THEN registered \cup {server_ptr}
                       ELSE registered \ {server_ptr}
      /\ ok => upnp.library = "up"
  BY DEF RegisterThread
<1>4. /\ stack' \in Seq(Calls) /\ stack' # <<>> /\ Regs(stack') = Regs(stack)
      /\ Servs(stack') = Servs(stack) /\ Fins(stack') = Fins(stack) \ {n}
      /\ Oks(stack') = Oks(stack) \cup (IF ok THEN {n} ELSE {})
  <2>1. how \in {"ok", "failed"} /\ (how = "ok" <=> ok)
    OBVIOUS
  <2> QED
    BY <1>1, <2>1, Marked DEF Inv, TypeOK
<1>5. n \in Regs(stack) /\ n \notin Oks(stack) /\ stack # <<>>
  BY <1>1 DEF Regs, Oks
<1>6. server_ptr # None /\ mode # "ended"
  BY <1>5 DEF Inv, CallsInv
<1>7. TypeOK'
  BY <1>2, <1>4 DEF Inv, TypeOK
<1>8. AtMostOne(Fins(stack'))
  BY <1>4 DEF Inv, CallsInv, AtMostOne
<1>9. CallsInv'
  BY <1>2, <1>4, <1>6, <1>8 DEF Inv, CallsInv
<1>10. registered' = IF ok THEN {server_ptr} ELSE {}
  BY <1>3 DEF Inv, DeviceInv
<1>11. DeviceInv'
  BY <1>2, <1>4, <1>6, <1>10 DEF DeviceInv
<1>12. LossInv'
  <2> SUFFICES ASSUME overlaps = 0 PROVE LossInv'
    BY <1>2 DEF LossInv
  <2>1. /\ AtMostOne(Regs(stack)) /\ lost = {}
        /\ device.initialized /\ ~device.registred
    BY <1>5 DEF Inv, LossInv
  <2>2. Oks(stack) = {}
    BY <1>5, <2>1, OksAreRegs DEF AtMostOne
  <2>3. registered = {}
    BY <2>1, <2>2 DEF Inv, DeviceInv
  <2>4. lost' = {}
    BY <1>3, <2>1, <2>3
  <2>5. Oks(stack') # {} => ok
    BY <1>4, <2>2
  <2> QED
    BY <1>2, <1>3, <1>4, <1>10, <2>1, <2>4, <2>5 DEF LossInv
<1>13. RepublishInv'
  BY <1>2, <1>4 DEF Inv, RepublishInv
<1> QED
  BY <1>7, <1>9, <1>11, <1>12, <1>13 DEF Inv

\* UpnpFinish() returns in its thread.
LEMMA FinishThreadInv ==
  ASSUME Inv, NEW n \in 1 .. Len(stack), FinishThread(n)
  PROVE  Inv'
<1>1. /\ stack[n].at = "finish" /\ stack[n].thread = "running"
      /\ stack' = [stack EXCEPT ![n].thread = "ok"]
  BY DEF FinishThread, Runs, Ends
<1>2. UNCHANGED <<mode, saved, made, server_ptr, republish, connections,
                  overlaps>>
  BY DEF FinishThread, serverVars, streamVars
<1>3. /\ registered' = {} /\ lost' = {}
      /\ upnp' = [upnp EXCEPT !.library = "down"]
      /\ device' = [device EXCEPT !.announced = FALSE]
  BY DEF FinishThread
<1>4. /\ stack' \in Seq(Calls) /\ stack' # <<>> /\ Regs(stack') = Regs(stack)
      /\ Servs(stack') = Servs(stack) /\ Fins(stack') = Fins(stack) \ {n}
      /\ Oks(stack') = Oks(stack)
  BY <1>1, Marked DEF Inv, TypeOK
<1>5. n \in Fins(stack) /\ stack # <<>>
  BY <1>1 DEF Fins
<1>6. Fins(stack') = {} /\ upnp.library = "finishing"
  BY <1>4, <1>5 DEF Inv, CallsInv, AtMostOne
<1>7. /\ upnp' \in Upnps /\ ~upnp'.initialized /\ upnp'.library = "down"
  BY <1>3, <1>6 DEF Inv, TypeOK, CallsInv, Upnps
<1>8. /\ device' \in Devices /\ device'.registred = device.registred
      /\ device'.initialized = device.initialized
  BY <1>3 DEF Inv, TypeOK, Devices
<1>9. TypeOK'
  BY <1>2, <1>4, <1>7, <1>8 DEF Inv, TypeOK
<1>10. CallsInv'
  BY <1>2, <1>4, <1>5, <1>6, <1>7 DEF Inv, CallsInv, AtMostOne
<1>11. DeviceInv'
  BY <1>3 DEF DeviceInv
<1>12. overlaps = 0 => Oks(stack) = {} /\ ~device.registred
  BY <1>6 DEF Inv, LossInv
<1>13. LossInv'
  BY <1>2, <1>3, <1>4, <1>8, <1>12 DEF Inv, LossInv
<1>14. RepublishInv'
  BY <1>2, <1>4 DEF Inv, RepublishInv
<1> QED
  BY <1>9, <1>10, <1>11, <1>13, <1>14 DEF Inv

\* enable_rootdevice() returns.
LEMMA RegisterDoneInv ==
  ASSUME Inv, RegisterDone
  PROVE  Inv'
<1> DEFINE then == Last(stack).then
           ok   == Last(stack).thread = "ok"
           k    == Len(stack)
<1>1. /\ stack # <<>> /\ Last(stack).at = "register"
      /\ stack' = Front(stack)
  BY DEF RegisterDone, Ended
<1>2. /\ stack' \in Seq(Calls) /\ Last(stack) \in Calls
      /\ k \in 1 .. Len(stack) /\ Last(stack) = stack[k]
      /\ Regs(stack') = Regs(stack) \ {k} /\ Oks(stack') = Oks(stack) \ {k}
      /\ Fins(stack') = Fins(stack) \ {k}
      /\ Servs(stack') = Servs(stack) \ {k}
  BY <1>1, Popped DEF Inv, TypeOK
<1>3. /\ k \in Regs(stack) /\ k \notin Fins(stack)
      /\ k \in Oks(stack) <=> ok
      /\ k \in Servs(stack) <=> then = "server"
  BY <1>1, <1>2 DEF Regs, Oks, Fins, Servs
<1>4. server_ptr # None /\ mode # "ended"
  BY <1>1 DEF Inv, CallsInv
<1>5. /\ device' = [device EXCEPT !.registred = @ \/ ok]
      /\ upnp' = IF then = "none" \/ ok THEN upnp
                 ELSE [upnp EXCEPT !.initialized = FALSE]
      /\ republish' = IF then = "server" /\ ok THEN Watching ELSE republish
      /\ mode' = IF then = "server" /\ ~ok THEN Failed(stack') ELSE mode
      /\ UNCHANGED <<saved, made, server_ptr, connections, overlaps>>
  BY DEF RegisterDone, serverVars, streamVars
<1>6. /\ ok /\ ~device.initialized =>
           /\ lost' = lost \cup (registered \cap {server_ptr})
           /\ registered' = registered \ {server_ptr}
      /\ ~(ok /\ ~device.initialized) => UNCHANGED <<lost, registered>>
  BY DEF RegisterDone
<1> HIDE DEF then, ok, k
<1>7. ok \in BOOLEAN
  BY DEF ok
<1>8. /\ device' \in Devices /\ device'.initialized = device.initialized
      /\ device'.registred = (device.registred \/ ok)
  BY <1>5, <1>7 DEF Inv, TypeOK, Devices
<1>9. /\ upnp' \in Upnps /\ upnp'.library = upnp.library
      /\ upnp'.initialized => upnp.initialized
  BY <1>5 DEF Inv, TypeOK, Upnps
<1>10. mode' \in {"starting", "running", "stopped"}
  BY <1>4, <1>5 DEF Failed, Inv, TypeOK
<1>11. /\ Watching \in Republishing
       /\ Watching.timer => Watching.required /\ Watching.listening
  BY DEF Watching, Republishing, Inv, TypeOK
<1>12. TypeOK'
  BY <1>2, <1>5, <1>8, <1>9, <1>10, <1>11 DEF Inv, TypeOK
<1>13. AtMostOne(Fins(stack')) /\ AtMostOne(Servs(stack'))
  BY <1>2 DEF Inv, CallsInv, AtMostOne
<1>14. CallsInv'
  BY <1>2, <1>4, <1>5, <1>9, <1>10, <1>13 DEF Inv, CallsInv
<1>15. DeviceInv'
  <2>1. CASE ok /\ ~device.initialized
    <3>1. registered' = {}
      BY <1>6, <2>1 DEF Inv, DeviceInv
    <3> QED
      BY <3>1 DEF DeviceInv
  <2>2. CASE ok /\ device.initialized
    BY <1>5, <1>6, <1>8, <2>2 DEF Inv, DeviceInv
  <2>3. CASE ~ok
    <3>1. Oks(stack') = Oks(stack) /\ registered' = registered
      BY <1>2, <1>3, <1>6, <2>3
    <3> QED
      BY <1>5, <1>8, <2>3, <3>1 DEF Inv, DeviceInv
  <2> QED
    BY <2>1, <2>2, <2>3
<1>16. LossInv'
  <2> SUFFICES ASSUME overlaps = 0 PROVE LossInv'
    BY <1>5 DEF LossInv
  <2>1. /\ AtMostOne(Regs(stack)) /\ lost = {}
        /\ device.initialized /\ ~device.registred
        /\ ok => server_ptr \in registered /\ upnp.library # "finishing"
    BY <1>3 DEF Inv, LossInv
  <2>2. Regs(stack') = {} /\ AtMostOne(Regs(stack'))
    BY <1>2, <1>3, <2>1 DEF AtMostOne
  <2>3. Oks(stack') = {}
    BY <2>2, OksAreRegs
  <2> QED
    BY <1>5, <1>6, <1>8, <1>9, <2>1, <2>2, <2>3 DEF LossInv
<1>17. RepublishInv'
  <2>1. CASE then = "server" /\ ok
    <3>1. Servs(stack') = {} /\ ~connections
      BY <1>2, <1>3, <2>1 DEF Inv, CallsInv, RepublishInv, AtMostOne
    <3> QED
      BY <1>5, <1>11, <2>1, <3>1 DEF RepublishInv
  <2>2. CASE ~(then = "server" /\ ok)
    <3>1. UNCHANGED <<republish, connections>>
      BY <1>5, <2>2
    <3> QED
      BY <1>2, <3>1 DEF Inv, RepublishInv
  <2> QED
    BY <2>1, <2>2
<1> QED
  BY <1>12, <1>14, <1>15, <1>16, <1>17 DEF Inv

\* upnp::close() returns: libupnp is initialized again, unless it has been.
LEMMA FinishDoneInv ==
  ASSUME Inv, FinishDone
  PROVE  Inv'
<1> DEFINE then == Last(stack).then
           k    == Len(stack)
           port == IF then = "server" THEN saved.port ELSE upnp.port
           s    == Front(stack)
<1>1. /\ stack # <<>> /\ Last(stack).at = "finish"
      /\ Last(stack).thread # "running"
  BY DEF FinishDone, Ended
<1>2. /\ s \in Seq(Calls) /\ Last(stack) \in Calls
      /\ k \in 1 .. Len(stack) /\ Last(stack) = stack[k]
      /\ Regs(s) = Regs(stack) \ {k} /\ Oks(s) = Oks(stack) \ {k}
      /\ Fins(s) = Fins(stack) \ {k} /\ Servs(s) = Servs(stack) \ {k}
  BY <1>1, Popped DEF Inv, TypeOK
<1>3. /\ then \in {"server", "interfaces"}
      /\ k \notin Regs(stack) /\ k \notin Oks(stack) /\ k \notin Fins(stack)
      /\ k \in Servs(stack) <=> then = "server"
  BY <1>1, <1>2 DEF Regs, Oks, Fins, Servs, Calls
<1>4. server_ptr # None /\ mode # "ended"
  BY <1>1 DEF Inv, CallsInv
<1>5. UNCHANGED <<saved, made, server_ptr, connections, registered, lost>>
  BY DEF FinishDone, serverVars, streamVars
<1>6. \/ /\ then = "interfaces" /\ stack' = s
         /\ UNCHANGED <<mode, republish, device, upnp, overlaps>>
      \/ /\ InitUpnp(port, then, s, device, republish)
         /\ Overlaps(~device.initialized)
  BY DEF FinishDone
<1> HIDE DEF then, k, port, s
<1>7. /\ Regs(s) = Regs(stack) /\ Oks(s) = Oks(stack)
      /\ Fins(s) = Fins(stack)
      /\ then = "interfaces" => Servs(s) = Servs(stack)
      /\ AtMostOne(Servs(s))
  BY <1>2, <1>3 DEF Inv, CallsInv, AtMostOne
<1>8. CASE /\ then = "interfaces" /\ stack' = s
           /\ UNCHANGED <<mode, republish, device, upnp, overlaps>>
  <2>1. TypeOK'
    BY <1>2, <1>5, <1>8 DEF Inv, TypeOK
  <2>2. CallsInv'
    BY <1>4, <1>5, <1>7, <1>8 DEF Inv, CallsInv
  <2>3. DeviceInv' /\ LossInv'
    BY <1>5, <1>7, <1>8 DEF Inv, DeviceInv, LossInv
  <2>4. RepublishInv'
    BY <1>5, <1>7, <1>8 DEF Inv, RepublishInv
  <2> QED
    BY <2>1, <2>2, <2>3, <2>4 DEF Inv
<1>9. CASE /\ InitUpnp(port, then, s, device, republish)
           /\ Overlaps(~device.initialized)
  <2>1. /\ device \in Devices /\ republish \in Republishing
        /\ made' \in Nat /\ server_ptr' \in Nat \ {None}
        /\ connections' \in BOOLEAN /\ port \in Ports \cup {0}
    BY <1>4, <1>5 DEF Inv, TypeOK, Upnps, port
  <2>2. overlaps' \in Nat /\ (overlaps' = 0 => overlaps = 0)
    BY <1>9 DEF Overlaps, Inv, TypeOK
  <2>3. AtMostOne(Fins(s)) /\ (Fins(s) # {} => upnp.library = "finishing")
    BY <1>7 DEF Inv, CallsInv
  <2>4. /\ then = "server" => Servs(s) = {} /\ ~connections'
        /\ Servs(s) # {} => republish = Idle /\ ~connections'
        /\ republish.timer =>
             republish.required /\ republish.listening /\ ~connections'
    BY <1>2, <1>3, <1>5 DEF Inv, CallsInv, RepublishInv, AtMostOne
  <2>5. /\ registered' \subseteq {server_ptr'}
        /\ registered' # {} =>
             (device.registred /\ device.initialized) \/ Oks(s) # {}
    BY <1>5, <1>7 DEF Inv, DeviceInv
  <2>6. overlaps' = 0 =>
          /\ lost' = {} /\ AtMostOne(Regs(s))
          /\ Regs(s) # {} => device.initialized /\ ~device.registred
          /\ device.registred => device.initialized
          /\ device.registred \/ Oks(s) # {} =>
               server_ptr' \in registered' /\ upnp.library # "finishing"
    BY <1>5, <1>7, <2>2 DEF Inv, LossInv
  <2>7. /\ mode # "ended" /\ then \in {"server", "interfaces"}
        /\ s \in Seq(Calls) /\ AtMostOne(Servs(s)) /\ UNCHANGED saved
        /\ InitUpnp(port, then, s, device, republish)
    BY <1>2, <1>3, <1>4, <1>5, <1>7, <1>9
  <2> QED
    BY <2>1, <2>2, <2>3, <2>4, <2>5, <2>6, <2>7, InitUpnpInv
<1> QED
  BY <1>6, <1>8, <1>9

\* The loop runs while there is a server.
LEMMA LoopingHasServer ==
  ASSUME Inv, Looping PROVE mode # "ended" /\ server_ptr # None
  BY DEF Looping, Inv, CallsInv

\* The message of child_add begins a registration, even inside of a close().
LEMMA HandleInitializeInv ==
  ASSUME Inv, HandleInitialize
  PROVE  Inv'
<1>1. /\ UNCHANGED <<mode, saved, made, server_ptr, republish, connections,
                     upnp, registered, lost>>
      /\ mode # "ended" /\ server_ptr # None
  BY LoopingHasServer DEF HandleInitialize, serverVars, streamVars
<1>2. CASE UNCHANGED <<device, stack, overlaps>>
  BY <1>1, <1>2
     DEF Inv, TypeOK, CallsInv, DeviceInv, LossInv, RepublishInv
<1>3. CASE /\ ~device.initialized /\ Overlaps(TRUE)
           /\ device' = [device EXCEPT !.initialized = TRUE]
           /\ stack' = Append(stack, Call("register", "none"))
  <2>1. /\ device' \in Devices /\ device'.initialized
        /\ device'.registred = device.registred
    BY <1>3 DEF Inv, TypeOK, Devices
  <2>2. overlaps = 0 => ~device'.registred
    BY <1>3, <2>1 DEF Inv, LossInv
  <2>3. /\ republish' \in Republishing /\ connections' \in BOOLEAN
        /\ republish'.timer =>
             republish'.required /\ republish'.listening /\ ~connections'
        /\ Servs(stack) # {} => republish' = Idle /\ ~connections'
    BY <1>1 DEF Inv, TypeOK, RepublishInv
  <2>4. /\ registered' \subseteq {server_ptr}
        /\ registered' # {} => device'.registred \/ Oks(stack) # {}
    BY <1>1, <2>1 DEF Inv, DeviceInv
  <2> QED
    BY <1>1, <1>3, <2>1, <2>2, <2>3, <2>4, RegisterBegins
<1> QED
  BY <1>2, <1>3 DEF HandleInitialize

\* republish_rootdevice() closes the device and begins to register it again.
LEMMA RepublishRootdeviceInv ==
  ASSUME Inv, republish_rootdevice
  PROVE  Inv'
<1>1. /\ UNCHANGED <<mode, saved, made, server_ptr, upnp, lost>>
      /\ mode # "ended" /\ server_ptr # None
  BY LoopingHasServer
     DEF republish_rootdevice, PeriodicTurn, TimerTurn, serverVars
<1>2. /\ CloseServices /\ republish' = ClosedRepublish
      /\ device' = [ClosedDevice EXCEPT !.initialized = TRUE]
      /\ registered' = Unregistered /\ Overlaps(TRUE)
      /\ stack' = Append(stack, Call("register", "none"))
  BY DEF republish_rootdevice
<1>3. /\ republish' \in Republishing /\ connections' \in BOOLEAN
      /\ republish'.timer =>
           republish'.required /\ republish'.listening /\ ~connections'
      /\ Servs(stack) # {} => republish' = Idle /\ ~connections'
      /\ ClosedDevice \in Devices
      /\ overlaps = 0 => ~ClosedDevice.registred
  BY <1>2, ClosedInv
<1>4. /\ device' \in Devices /\ device'.initialized
      /\ device'.registred = ClosedDevice.registred
  BY <1>2, <1>3 DEF Devices
<1>5. /\ registered' \subseteq {server_ptr}
      /\ registered' # {} => Oks(stack) # {}
  BY <1>2, UnregisteredLeaves
<1> QED
  BY <1>1, <1>2, <1>3, <1>4, <1>5, RegisterBegins

\* update_interfaces() closes libupnp, or initializes it if that had failed.
LEMMA UpdateInterfacesInv ==
  ASSUME Inv, update_interfaces
  PROVE  Inv'
<1>1. /\ UNCHANGED <<saved, made, server_ptr, lost>>
      /\ mode # "ended" /\ server_ptr # None
  BY LoopingHasServer
     DEF update_interfaces, PeriodicTurn, TimerTurn, serverVars
<1>2. /\ CloseServices /\ registered' = Unregistered
      /\ Overlaps(device.initialized \/ stack' # stack)
  BY DEF update_interfaces
<1>3. /\ ClosedRepublish \in Republishing /\ connections' \in BOOLEAN
      /\ ClosedRepublish.timer =>
           /\ ClosedRepublish.required /\ ClosedRepublish.listening
           /\ ~connections'
      /\ Servs(stack) # {} => ClosedRepublish = Idle /\ ~connections'
      /\ ClosedDevice \in Devices /\ ~ClosedDevice.initialized
      /\ overlaps = 0 => ~ClosedDevice.registred
  BY <1>2, ClosedInv
<1>4. /\ registered' \subseteq {server_ptr'}
      /\ registered' # {} => Oks(stack) # {}
  BY <1>1, <1>2, UnregisteredLeaves
<1>5. overlaps' \in Nat
      /\ (overlaps' = 0 => overlaps = 0 /\ Regs(stack) = {})
  BY <1>2, OnStack DEF Overlaps, Inv, TypeOK, LossInv
<1>6. /\ made' \in Nat /\ server_ptr' \in Nat \ {None}
      /\ upnp.port \in Ports \cup {0} /\ stack \in Seq(Calls)
  BY <1>1 DEF Inv, TypeOK, Upnps
<1>7. overlaps' = 0 =>
        /\ lost' = {} /\ Oks(stack) = {} /\ AtMostOne(Regs(stack))
        /\ ~ClosedDevice.registred
  BY <1>1, <1>3, <1>5, OksAreRegs DEF Inv, LossInv
<1>8. CASE /\ upnp.initialized /\ CloseUpnp("interfaces")
           /\ device' = ClosedDevice /\ republish' = ClosedRepublish
           /\ UNCHANGED mode
  BY <1>1, <1>3, <1>4, <1>5, <1>6, <1>7, <1>8, CloseBegins
<1>9. CASE InitUpnp(upnp.port, "interfaces", stack, ClosedDevice,
                    ClosedRepublish)
  <2>1. /\ AtMostOne(Fins(stack)) /\ AtMostOne(Servs(stack))
        /\ Fins(stack) # {} => upnp.library = "finishing"
    BY DEF Inv, CallsInv
  <2> QED
    BY <1>1, <1>3, <1>4, <1>5, <1>6, <1>7, <1>9, <2>1, InitUpnpInv
<1> QED
  BY <1>8, <1>9 DEF update_interfaces

\* A connection comes or goes.
LEMMA ConnectionInv ==
  ASSUME Inv, NEW open \in BOOLEAN, connections' = open,
         republish' = Listened(open), ~open \/ Servs(stack) = {},
         UNCHANGED <<mode, saved, serverVars, device, upnp, registered, stack,
                     lossVars>>
  PROVE  Inv'
<1>1. /\ republish' \in Republishing
      /\ republish'.timer =>
           republish'.required /\ republish'.listening /\ ~open
      /\ republish = Idle => republish' = Idle
  BY ListenedInv
<1>2. TypeOK'
  BY <1>1 DEF Inv, TypeOK, serverVars, lossVars
<1>3. CallsInv' /\ DeviceInv' /\ LossInv'
  BY DEF Inv, CallsInv, DeviceInv, LossInv, serverVars, lossVars
<1>4. RepublishInv'
  BY <1>1 DEF Inv, RepublishInv
<1> QED
  BY <1>2, <1>3, <1>4 DEF Inv

-----------------------------------------------------------------------------
\* Every step of the server keeps the invariant.
LEMMA NextInv == Inv /\ [Next]_vars => Inv'
<1> SUFFICES ASSUME Inv, [Next]_vars PROVE Inv'
  OBVIOUS
<1>1. ASSUME UNCHANGED <<mode, saved, made, server_ptr, republish, device,
                         connections, upnp, registered, stack, lost, overlaps>>
      PROVE  Inv'
  BY <1>1 DEF Inv, TypeOK, CallsInv, DeviceInv, LossInv, RepublishInv
<1>2. CASE Start
  <2>1. stack = <<>> /\ mode # "ended"
    BY <1>2 DEF Start, Inv, CallsInv
  <2>2. Regs(stack) = {} /\ Servs(stack) = {}
    BY <2>1, EmptyStack
  <2>3. Replace(<<>>)
    BY <1>2 DEF Start
  <2> QED
    BY <2>1, <2>2, <2>3, ReplaceInv
<1>3. CASE Run
  BY <1>3 DEF Run, streamVars, lossVars, Inv, TypeOK, CallsInv, DeviceInv,
              LossInv, RepublishInv
<1>4. ASSUME NEW rest, ~InUse, Looping, Replace(rest)
      PROVE  Inv'
  BY <1>4, LoopingHasServer, OnStack, ReplaceInv
<1>5. CASE Break
  BY <1>5, BreakInv
<1>6. CASE RecreateUnclean
  BY <1>4, <1>5, <1>6 DEF RecreateUnclean, TimerTurn
<1>7. CASE HandleRecreate
  BY <1>4, <1>5, <1>7 DEF HandleRecreate
<1>8. CASE Exit
  BY <1>8, ExitInv
<1>9. CASE Returns
  BY <1>9, RegisterDoneInv, FinishDoneInv DEF Returns
<1>10. CASE HandleInitialize
  BY <1>10, HandleInitializeInv
<1>11. CASE HandleAdvertise
  <2>1. device' = [device EXCEPT !.announced =
                     device.registred /\ server_ptr \in registered]
    BY <1>11 DEF HandleAdvertise
  <2>2. (device.registred /\ server_ptr \in registered) \in BOOLEAN
    OBVIOUS
  <2>3. device' \in Devices /\ device'.registred = device.registred
        /\ device'.initialized = device.initialized
    BY <2>1, <2>2 DEF Inv, TypeOK, Devices
  <2>4. UNCHANGED <<mode, saved, made, server_ptr, republish, connections,
                    upnp, registered, stack, lost, overlaps>>
    BY <1>11 DEF HandleAdvertise, serverVars, streamVars, lossVars
  <2> QED
    BY <2>3, <2>4
       DEF Inv, TypeOK, CallsInv, DeviceInv, LossInv, RepublishInv
<1>12. CASE force_apply_settings
  BY <1>1, <1>12 DEF force_apply_settings, streamVars, lossVars
<1>13. ASSUME NEW p \in Ports, NEW on \in BOOLEAN, render_headers(p, on)
       PROVE  Inv'
  <2>1. saved' \in [port : Ports, republish : BOOLEAN]
    BY <1>13 DEF render_headers, Inv, TypeOK
  <2>2. UNCHANGED <<mode, made, server_ptr, republish, device, connections,
                    upnp, registered, stack, lost, overlaps>>
    BY <1>13 DEF render_headers, streamVars, lossVars
  <2> QED
    BY <2>1, <2>2
       DEF Inv, TypeOK, CallsInv, DeviceInv, LossInv, RepublishInv
<1>14. CASE StreamBegins
  <2>1. republish # Idle
    BY <1>14 DEF StreamBegins, Browsable, Idle
  <2>2. Servs(stack) = {}
    BY <2>1 DEF Inv, RepublishInv
  <2>3. /\ connections' = TRUE /\ republish' = Listened(TRUE)
        /\ UNCHANGED <<mode, saved, serverVars, device, upnp, registered,
                       stack, lossVars>>
    BY <1>14 DEF StreamBegins
  <2> QED
    BY <2>2, <2>3, ConnectionInv
<1>15. CASE StreamEnds
  <2>1. /\ connections' = FALSE /\ republish' = Listened(FALSE)
        /\ UNCHANGED <<mode, saved, serverVars, device, upnp, registered,
                       stack, lossVars>>
    BY <1>15 DEF StreamEnds
  <2> QED
    BY <2>1, ConnectionInv
<1>16. CASE update_path \/ HandleEmit \/ process_pending_updates
  BY <1>1, <1>16 DEF update_path, HandleEmit, process_pending_updates,
                     serverVars, streamVars, lossVars
<1>17. CASE OrphanReports
  BY <1>5, <1>17 DEF OrphanReports
<1>18. CASE RecreateTimer
  BY <1>1, <1>18 DEF RecreateTimer, streamVars, lossVars
<1>19. CASE \E n \in 1 .. Len(stack) : Thread(n)
  BY <1>19, RegisterThreadInv, FinishThreadInv DEF Thread
<1>20. CASE republish_rootdevice
  BY <1>20, RepublishRootdeviceInv
<1>21. CASE update_interfaces
  BY <1>21, UpdateInterfacesInv
<1>22. CASE UNCHANGED vars
  BY <1>1, <1>22 DEF vars, serverVars, streamVars, lossVars
<1>23. Messages => Inv'
  BY <1>7, <1>10, <1>11, <1>16 DEF Messages
<1>24. Requests => Inv'
  BY <1>12, <1>13, <1>14, <1>15, <1>16 DEF Requests
<1> QED
  BY <1>2, <1>3, <1>6, <1>8, <1>9, <1>16, <1>17, <1>18, <1>19, <1>20, <1>21,
     <1>22, <1>23, <1>24 DEF Next

\* The server keeps its invariant, however its calls nest.
THEOREM ServerInvariant == Spec => []Inv
  BY InitInv, NextInv, PTL DEF Spec

\* The handles that rootdevice keeps are those of the server that exists, and
\* are unregistered with it; libupnp has a device without a handle only if one
\* was closed or registered again while it was being registered, and otherwise
\* has every device that takes itself for registered: whatever messages and
\* timers are run while rootdevice and upnp wait for libupnp's threads.
THEOREM DevicesAreFresh == Spec => []NoStaleDevice
<1>1. Inv => NoStaleDevice
  BY DEF Inv, DeviceInv, LossInv, NoStaleDevice
<1> QED
  BY <1>1, ServerInvariant, PTL

\* The assertion of republish_rootdevice() holds whenever its timer expires.
THEOREM RepublishIsRequired == Spec => []RepublishAsserted
<1>1. Inv => RepublishAsserted
  BY DEF Inv, RepublishInv, RepublishAsserted
<1> QED
  BY <1>1, ServerInvariant, PTL

=============================================================================
