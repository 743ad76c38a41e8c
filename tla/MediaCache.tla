----------------------------- MODULE MediaCache -----------------------------
(***************************************************************************)
(* vlc::media_cache (src/vlc/media_cache.cpp): what libvlc finds in media  *)
(* files, kept by the hash of their contents.  Files are looked at in a    *)
(* pool of child processes, because libvlc may crash on one: a child names *)
(* the file before it works on it, so that its parent does not hand out    *)
(* that file again; it cannot know the file if the child crashes earlier.  *)
(***************************************************************************)
EXTENDS Process, Integers, FiniteSets, FiniteSetsExt

CONSTANTS
  Mrls,      \* files; numbers, in the order of their names
  Uuid,      \* the hash of the contents of each file
  PoolSize,  \* hardware_concurrency
  MaxScans   \* bound on the number of requests

ASSUME MediaCacheAssumption ==
  /\ Mrls \subseteq Nat /\ IsFiniteSet(Mrls) /\ Uuid \in [Mrls -> Nat]
  /\ PoolSize \in Nat \ {0} /\ MaxScans \in Nat

VARIABLES
  uuids,    \* the hash of each file that has been looked at
  section,  \* by hash: the file whose description is stored
  process_pool, \* the processes, by index
  worker,   \* what the child at each index is doing
  pc,       \* where the message loop's thread is
  asked,    \* the files of this scan_all
  action,   \* the process_tasks of this scan_all: "uuid" or "scan"
  tasks,    \* files that process_tasks has yet to hear of
  todo,     \* files that it has yet to write
  pool,     \* the processes of this round that it still reads from
  index,    \* the one it writes to, reads from or stops
  done,     \* whether this turn over the pool brought nothing
  mrl,      \* the file it reads about
  timer,    \* whether stop_process_pool_timer runs
  scans,    \* number of requests
  lost      \* files on which a child crashed during this scan_all (history)

vars == <<uuids, section, process_pool, worker, pc, asked, action, tasks, todo,
          pool, index, done, mrl, timer, scans, lost>>
cacheVars  == <<uuids, section>>
childVars  == <<process_pool, worker>>
scanVars   == <<asked, action, tasks, lost>>
roundVars  == <<todo, pool, index, done, mrl>>

Slots == 0 .. PoolSize - 1
Uuids == {Uuid[m] : m \in Mrls}
NoFile == -1
Unknown == -1  \* no hash yet

\* What is written to a pipe: a word, or a file or a hash of that kind.
Word(word) == <<word, 0>>
File(m)    == <<"mrl", m>>
Done       == Word("(done)")

Resting == [mode |-> "cmd", mrls |-> <<>>, named |-> FALSE]

Init ==
  /\ uuids = [m \in Mrls |-> Unknown]
  /\ section = [u \in Uuids |-> NoFile]
  /\ process_pool = [s \in Slots |-> Null]
  /\ worker = [s \in Slots |-> Resting]
  /\ pc = "idle" /\ asked = {} /\ action = "scan" /\ tasks = {} /\ todo = {}
  /\ pool = {} /\ index = 0 /\ done = TRUE /\ mrl = NoFile
  /\ timer = FALSE /\ scans = 0 /\ lost = {}

-----------------------------------------------------------------------------
(* scan_all_process, the function of a child.                              *)

\* A command: a file to remember, the action for all of them, or the end.
Command(s) ==
  LET p == process_pool[s]
      cmd == Head(p.inp)[1]
  IN  /\ MayTake(p) /\ worker[s].mode = "cmd"
      /\ process_pool' = [process_pool EXCEPT ![s] =
           IF cmd = "exit" THEN Exited(Taken(p)) ELSE Taken(p)]
      /\ worker' =
           CASE cmd = "exit" -> worker
             [] cmd \in {"uuid", "scan"} -> [worker EXCEPT ![s].mode = cmd]
             [] OTHER -> [worker EXCEPT ![s].mrls = Append(@, Head(p.inp)[2])]

\* The name of the next file is written and flushed, ...
Name(s) ==
  LET w == worker[s]
  IN  /\ w.mode # "cmd" /\ w.mrls # <<>> /\ ~w.named
      /\ MayPut(process_pool[s])
      /\ process_pool' = [process_pool EXCEPT ![s] = Put(@, File(Head(w.mrls)))]
      /\ worker' = [worker EXCEPT ![s].named = TRUE]

Answer(m, act) ==
  IF act = "uuid" THEN <<"uuid", Uuid[m]>> ELSE <<"media_info", m>>

\* ... then what was found in it, ...
Work(s) ==
  LET w == worker[s]
  IN  /\ w.named /\ MayPut(process_pool[s])
      /\ process_pool' = [process_pool EXCEPT
           ![s] = Put(@, Answer(Head(w.mrls), w.mode))]
      /\ worker' = [worker EXCEPT ![s].named = FALSE, ![s].mrls = Tail(@)]

\* ... unless that ends the child: perhaps before the file is named, as libvlc
\* is called in media::from_mrl, and C++11 leaves it open whether the operands
\* of << are evaluated before the name is written, ...
Crash(s) ==
  /\ worker[s].mode # "cmd" /\ worker[s].mrls # <<>>
  /\ IsUp(process_pool[s])
  /\ process_pool' = [process_pool EXCEPT ![s] = Crashed(@)]
  /\ UNCHANGED worker

\* ... and that there are no more.
Finish(s) ==
  /\ worker[s].mode # "cmd" /\ worker[s].mrls = <<>>
  /\ MayPut(process_pool[s])
  /\ process_pool' = [process_pool EXCEPT ![s] = Put(@, Done)]
  /\ worker' = [worker EXCEPT ![s].mode = "cmd"]

Child(s) == Command(s) \/ Name(s) \/ Work(s) \/ Finish(s)

-----------------------------------------------------------------------------
(* scan_all, and what reads one file.                                      *)

HasValue(u) == u # Unknown /\ section[u] # NoFile

scan_all(files, known) ==
  /\ asked' = files
  /\ tasks' = {m \in files : known[m] = Unknown}
  /\ action' = "uuid" /\ pc' = "round" /\ lost' = {}

ScanAll(files) ==
  /\ pc = "idle" /\ scans < MaxScans /\ scans' = scans + 1
  /\ scan_all(files, uuids)
  /\ UNCHANGED <<cacheVars, childVars, roundVars, timer>>

\* read_info: its own process computes the hash.
read_info(m) ==
  /\ pc = "idle" /\ scans < MaxScans /\ scans' = scans + 1
  /\ uuids' = [uuids EXCEPT ![m] = Uuid[m]]
  /\ IF HasValue(Uuid[m]) THEN UNCHANGED <<pc, scanVars>>
                          ELSE scan_all({m}, uuids')
  /\ UNCHANGED <<section, childVars, roundVars, timer>>

\* The second process_tasks of scan_all, and its end.
NextAction ==
  /\ pc = "round" /\ tasks = {}
  /\ \/ /\ action = "uuid" /\ action' = "scan"
        /\ tasks' = {m \in asked : /\ uuids[m] # Unknown
                                   /\ ~HasValue(uuids[m])}
        /\ UNCHANGED pc
     \/ /\ action = "scan" /\ pc' = "idle"
        /\ UNCHANGED <<action, tasks>>
  /\ UNCHANGED <<cacheVars, childVars, roundVars, asked, lost, timer, scans>>

-----------------------------------------------------------------------------
(* process_tasks.                                                          *)

\* get_process_from_pool makes a new process when the last one is of no use.
NeedsNew(p) == ~IsGood(p)

\* A round takes as many processes as it needs; one that has failed is joined
\* first, which waits for its child.
Round ==
  LET n == Min({Cardinality(tasks), PoolSize})
      new == {s \in 0 .. n - 1 : NeedsNew(process_pool[s])}
  IN  /\ pc = "round" /\ tasks # {}
      /\ \A s \in new : process_pool[s] # Null => MayJoin(process_pool[s])
      /\ process_pool' = [s \in Slots |-> IF s \in new THEN Spawned
                                          ELSE process_pool[s]]
      /\ worker' = [s \in Slots |-> IF s \in new THEN Resting ELSE worker[s]]
      /\ todo' = tasks /\ pool' = 0 .. n - 1 /\ index' = 0
      /\ timer' = TRUE /\ pc' = "send"
      /\ UNCHANGED <<cacheVars, scanVars, done, mrl, scans>>

\* The files are written, in the order of their names, to each in turn, ...
Send ==
  /\ pc = "send" /\ MayWrite(process_pool[index])
  /\ \E m \in todo :
       /\ \A q \in todo : m <= q
       /\ process_pool' = [process_pool EXCEPT ![index] = Written(@, File(m))]
       /\ todo' = todo \ {m}
  /\ index' = IF todo' # {} /\ index + 1 \in pool THEN index + 1 ELSE 0
  /\ pc' = IF todo' = {} THEN "start" ELSE "send"
  /\ UNCHANGED <<cacheVars, scanVars, worker, pool, done, mrl, timer, scans>>

\* ... then the action to each.
SendAction ==
  /\ pc = "start" /\ index \in pool /\ MayWrite(process_pool[index])
  /\ process_pool' = [process_pool EXCEPT ![index] = Written(@, Word(action))]
  /\ index' = index + 1
  /\ UNCHANGED <<cacheVars, scanVars, worker, pc, todo, pool, done, mrl, timer,
                 scans>>

\* A turn over the pool begins.
Turn ==
  /\ \/ pc = "start" /\ index \notin pool
     \/ pc = "collect" /\ index = PoolSize /\ ~done
  /\ pc' = "collect" /\ index' = 0 /\ done' = TRUE
  /\ UNCHANGED <<cacheVars, childVars, scanVars, todo, pool, mrl, timer, scans>>

\* The process sends no more in this round: i = nullptr.
Drop ==
  /\ pool' = pool \ {index} /\ index' = index + 1
  /\ UNCHANGED <<pc, tasks, mrl>>

\* Mutant of Heard: the file stays a task.
HeardNot(name) == tasks

Heard(name) == tasks \ {name}

CollectName ==
  LET p == process_pool[index]
  IN  /\ pc = "collect" /\ index \in pool
      /\ \/ /\ MayRead(p)
            /\ process_pool' = [process_pool EXCEPT ![index] = Read(@)]
            /\ \/ Head(p.out) = Done /\ Drop
               \/ /\ Head(p.out) # Done
                  /\ mrl' = Head(p.out)[2] /\ tasks' = Heard(mrl')
                  /\ pc' = "answer"
                  /\ UNCHANGED <<pool, index>>
         \/ /\ AtEof(p)
            /\ process_pool' = [process_pool EXCEPT ![index] = Failed(@)]
            /\ Drop
      /\ UNCHANGED <<cacheVars, worker, asked, action, lost, todo, done, timer,
                     scans>>

\* A process that is gone from the pool is passed over.
Skip ==
  /\ pc = "collect" /\ index < PoolSize /\ index \notin pool
  /\ index' = index + 1
  /\ UNCHANGED <<cacheVars, childVars, scanVars, pc, todo, pool, done, mrl,
                 timer, scans>>

\* The function that process_tasks calls: the answer is read and kept.
CollectAnswer ==
  LET p == process_pool[index]
      answer == Head(p.out)[2]
  IN  /\ pc = "answer"
      /\ \/ /\ MayRead(p)
            /\ process_pool' = [process_pool EXCEPT ![index] = Read(@)]
            /\ \/ /\ action = "uuid"
                  /\ uuids' = [uuids EXCEPT ![mrl] = answer]
                  /\ UNCHANGED section
               \/ /\ action = "scan"
                  /\ section' = [section EXCEPT ![uuids[mrl]] = answer]
                  /\ UNCHANGED uuids
            /\ UNCHANGED lost
         \/ /\ AtEof(p)
            /\ process_pool' = [process_pool EXCEPT ![index] = Failed(@)]
            /\ lost' = lost \cup {mrl}
            /\ UNCHANGED cacheVars
      /\ pc' = "collect" /\ index' = index + 1 /\ done' = FALSE
      /\ mrl' = NoFile
      /\ UNCHANGED <<worker, asked, action, tasks, todo, pool, timer, scans>>

\* Mutant of Rest: what a child did not get to is given up.
RestNone == {}

\* What is left is for the next round.
Rest == tasks

\* Mutant of EndRound: the round ends with the last task.
EndRoundEarly ==
  /\ pc = "collect" /\ (tasks = {} \/ (index = PoolSize /\ done))
  /\ pc' = "round" /\ tasks' = Rest
  /\ UNCHANGED <<cacheVars, childVars, asked, action, lost, roundVars, timer,
                 scans>>

EndRound ==
  /\ pc = "collect" /\ index = PoolSize /\ done
  /\ pc' = "round" /\ tasks' = Rest
  /\ UNCHANGED <<cacheVars, childVars, asked, action, lost, roundVars, timer,
                 scans>>

process_tasks ==
  \/ Round \/ Send \/ SendAction \/ Turn \/ CollectName \/ Skip
  \/ CollectAnswer \/ EndRound

-----------------------------------------------------------------------------
(* stop_process_pool, 15 seconds after the last use or when the cache is   *)
(* destroyed.                                                              *)

stop_process_pool ==
  /\ pc = "idle" /\ timer
  /\ pc' = "stop" /\ index' = 0 /\ timer' = FALSE
  /\ UNCHANGED <<cacheVars, childVars, scanVars, todo, pool, done, mrl, scans>>

StopNext ==
  /\ pc = "stop" /\ index < PoolSize
  /\ \/ /\ process_pool[index] = Null
        /\ index' = index + 1
        /\ UNCHANGED <<process_pool, pc>>
     \/ /\ process_pool[index] # Null /\ MayWrite(process_pool[index])
        /\ process_pool' = [process_pool EXCEPT ![index] = Written(@, Word("exit"))]
        /\ pc' = "join"
        /\ UNCHANGED index
  /\ UNCHANGED <<cacheVars, scanVars, worker, todo, pool, done, mrl, timer,
                 scans>>

Join ==
  /\ pc = "join" /\ MayJoin(process_pool[index])
  /\ process_pool' = [process_pool EXCEPT ![index] = Null]
  /\ index' = index + 1 /\ pc' = "stop"
  /\ UNCHANGED <<cacheVars, scanVars, worker, todo, pool, done, mrl, timer,
                 scans>>

Stopped ==
  /\ pc = "stop" /\ index = PoolSize
  /\ pc' = "idle"
  /\ UNCHANGED <<cacheVars, childVars, scanVars, roundVars, timer, scans>>

-----------------------------------------------------------------------------

Loop == NextAction \/ process_tasks \/ StopNext \/ Join \/ Stopped

ChildStep(s) ==
  /\ Child(s)
  /\ UNCHANGED <<cacheVars, scanVars, roundVars, pc, timer, scans>>

ChildCrash(s) ==
  /\ Crash(s)
  /\ UNCHANGED <<cacheVars, scanVars, roundVars, pc, timer, scans>>

Next ==
  \/ \E files \in SUBSET Mrls : ScanAll(files)
  \/ \E m \in Mrls : read_info(m)
  \/ Loop \/ stop_process_pool
  \/ \E s \in Slots : ChildStep(s) \/ ChildCrash(s)

\* The parent's thread and the children run; nothing obliges a child to crash.
Spec == Init /\ [][Next]_vars
FairSpec == Spec /\ WF_vars(Loop) /\ \A s \in Slots : WF_vars(ChildStep(s))

-----------------------------------------------------------------------------
(* Properties.                                                             *)

Tokens ==
  {Done} \cup ({"mrl", "media_info"} \X Mrls) \cup ({"uuid"} \X Uuids)
Commands ==
  ({"mrl"} \X Mrls) \cup {Word("uuid"), Word("scan"), Word("exit")}
Processes ==
  {Null} \cup [run : {"up", "exited", "crashed"}, good : BOOLEAN,
               inp : Seq(Commands), out : Seq(Tokens)]

TypeOK ==
  /\ uuids \in [Mrls -> Uuids \cup {Unknown}]
  /\ section \in [Uuids -> Mrls \cup {NoFile}]
  /\ process_pool \in [Slots -> Processes]
  /\ worker \in [Slots -> [mode : {"cmd", "uuid", "scan"}, mrls : Seq(Mrls),
                           named : BOOLEAN]]
  /\ pc \in {"idle", "round", "send", "start", "collect", "answer", "stop",
             "join"}
  /\ asked \subseteq Mrls /\ tasks \subseteq asked /\ lost \subseteq asked
  /\ action \in {"uuid", "scan"} /\ todo \subseteq asked
  /\ pool \subseteq Slots /\ index \in 0 .. PoolSize
  /\ done \in BOOLEAN /\ mrl \in Mrls \cup {NoFile}
  /\ timer \in BOOLEAN /\ scans \in 0 .. MaxScans

PipesInStep ==
  pc \in {"idle", "round"} =>
    \A s \in Slots : process_pool[s] # Null =>
      LET p == process_pool[s]
      IN  IF p.good THEN /\ IsUp(p) /\ p.inp = <<>> /\ p.out = <<>>
                         /\ worker[s] = Resting
          ELSE IsEnded(p)

NoBrokenPipe ==
  /\ pc = "send" => \A s \in pool : IsUp(process_pool[s])
  /\ pc = "start" => \A s \in pool : s >= index => IsUp(process_pool[s])
  /\ pc = "stop" => \A s \in index .. PoolSize - 1 :
       IsGood(process_pool[s]) => IsUp(process_pool[s])

\* Parent and children never misunderstand each other.  Between rounds a process
\* that the parent would use again has nothing unread in its pipes and waits for
\* a command, and one whose stream has failed has ended, so that joining it
\* returns; and the server never writes to a process that has ended: SIGPIPE,
\* which it does not handle, would end the server.
PipesAgree == TypeOK /\ PipesInStep /\ NoBrokenPipe

\* Files on which libvlc crashes cost no other file its entry: when scan_all
\* returns, every file it was asked for is described in the cache, but those on
\* which a child crashed.
NoneForgotten ==
  pc = "idle" =>
    \A m \in asked \ lost : uuids[m] # Unknown /\ HasValue(uuids[m])

\* A child crashes on a file that it has not named.
CrashUnnamed == \E s \in Slots : ~worker[s].named /\ ChildCrash(s)

\* scan_all returns, and so does stop_process_pool, on whichever files the
\* children crash: the loop's thread does not hang in them, unless children
\* crash for ever before they name their file, which is handed out again.
ScanReturns == []<><<CrashUnnamed>>_vars \/ (pc # "idle" ~> pc = "idle")
=============================================================================
