-------------------------- MODULE MediaCacheProofs --------------------------
(***************************************************************************)
(* Proofs about MediaCache, for every set of files, size of the pool and   *)
(* of the pipes and number of requests.                                    *)
(***************************************************************************)
EXTENDS MediaCache, FiniteSetTheorems, SequenceTheorems, TLAPS

Records ==
  [run : {"up", "exited", "crashed"}, good : BOOLEAN, inp : Seq(Commands),
   out : Seq(Tokens)]
Workers == [mode : {"cmd", "uuid", "scan"}, mrls : Seq(Mrls), named : BOOLEAN]

-----------------------------------------------------------------------------
(* A process p and its worker w in a round with action act on files of W.  *)
(* The parent waits for the answer about the file `name', or for nothing   *)
(* if that is NoFile.                                                      *)

\* The process can be used in another round, or has ended and been seen to.
Quiet(p, w) ==
  p # Null => IF p.good THEN /\ IsUp(p) /\ p.inp = <<>> /\ p.out = <<>>
                             /\ w = Resting
              ELSE IsEnded(p)

\* The child remembers files.
Listening(p, w, W) ==
  /\ IsUp(p) /\ p.good /\ p.out = <<>>
  /\ w.mode = "cmd" /\ ~w.named /\ w.mrls \in Seq(W)

FilesIn(inp, n, W) ==
  \A i \in 1 .. n : inp[i][1] = "mrl" /\ inp[i][2] \in W

\* The action has not been written yet, ...
Waiting(p, w, W) ==
  Listening(p, w, W) /\ FilesIn(p.inp, Len(p.inp), W)

\* ... or has been, behind the files.
Asked(p, w, W, act) ==
  /\ Listening(p, w, W) /\ p.inp # <<>>
  /\ FilesIn(p.inp, Len(p.inp) - 1, W) /\ p.inp[Len(p.inp)] = Word(act)

\* A name is followed by its answer, that by a name or the end.
Follows(t, u, act) ==
  /\ t # Done
  /\ IF t[1] = "mrl" THEN u = Answer(t[2], act)
     ELSE u[1] = "mrl" \/ u = Done

Answers(out, W, act, name) ==
  /\ out # <<>> => IF name # NoFile THEN out[1] = Answer(name, act)
                   ELSE out[1][1] = "mrl" \/ out[1] = Done
  /\ \A i \in 1 .. Len(out) : out[i][1] = "mrl" => out[i][2] \in W
  /\ \A i \in 1 .. Len(out) - 1 : Follows(out[i], out[i + 1], act)

\* The last thing the child said: the name of its file, or an answer.
SaysName(out, w, name) ==
  /\ w.mrls # <<>>
  /\ IF out = <<>> THEN name = Head(w.mrls)
     ELSE out[Len(out)] = File(Head(w.mrls))

SaysAnswer(out, name) ==
  IF out = <<>> THEN name = NoFile
  ELSE out[Len(out)][1] \in {"uuid", "media_info"}

\* The child works on its files, or crashed on one, ...
Working(p, w, W, act, name) ==
  /\ p.good /\ p.inp = <<>> /\ w.mode = act /\ w.mrls \in Seq(W)
  /\ p.run \in {"up", "crashed"}
  /\ Answers(p.out, W, act, name)
  /\ IF w.named THEN SaysName(p.out, w, name) ELSE SaysAnswer(p.out, name)

\* ... has no more, ...
Finished(p, w, W, act, name) ==
  /\ p.good /\ p.inp = <<>> /\ IsUp(p) /\ w = Resting
  /\ Answers(p.out, W, act, name)
  /\ p.out # <<>> /\ p.out[Len(p.out)] = Done

\* ... or crashed, and the parent has seen it.
Dead(p) == ~p.good /\ p.run = "crashed" /\ p.out = <<>>

SlotOK(p, w, W, act, told, name) ==
  /\ p \in Records /\ w \in Workers
  /\ IF ~told THEN Waiting(p, w, W) /\ name = NoFile
     ELSE \/ Asked(p, w, W, act) /\ name = NoFile
          \/ Working(p, w, W, act, name)
          \/ Finished(p, w, W, act, name)
          \/ Dead(p) /\ name = NoFile

\* A step of the child keeps to the protocol of every round.
Keeps(p, w, q, v) ==
  \A W \in SUBSET Mrls, act \in {"uuid", "scan"}, told \in BOOLEAN,
     name \in Mrls \cup {NoFile} :
    SlotOK(p, w, W, act, told, name) => SlotOK(q, v, W, act, told, name)

\* The process has been told to exit.
Leaving(p, w) ==
  /\ p \in Records /\ w \in Workers
  /\ \/ IsUp(p) /\ p.inp = <<Word("exit")>> /\ w = Resting
     \/ IsEnded(p)

-----------------------------------------------------------------------------
InRound == pc \in {"send", "start", "collect", "answer"}

\* Files that may be handed out.
Wanted == {m \in asked : action = "scan" => uuids[m] # Unknown}

Told(s) == pc \in {"collect", "answer"} \/ (pc = "start" /\ s < index)
About(s) == IF pc = "answer" /\ index = s THEN mrl ELSE NoFile

PoolInv ==
  InRound => \A s \in Slots :
    IF s \in pool
    THEN SlotOK(process_pool[s], worker[s], Wanted, action, Told(s), About(s))
    ELSE Quiet(process_pool[s], worker[s])

RestInv ==
  pc \in {"idle", "round"} =>
    \A s \in Slots : Quiet(process_pool[s], worker[s])

StopInv ==
  pc \in {"stop", "join"} =>
    \A s \in Slots :
      /\ s < index => process_pool[s] = Null
      /\ s > index => Quiet(process_pool[s], worker[s])
      /\ s = index => IF pc = "stop" THEN Quiet(process_pool[s], worker[s])
                      ELSE Leaving(process_pool[s], worker[s])

RoundInv ==
  /\ pc = "send" => index \in pool
  /\ pc # "send" => todo = {}
  /\ todo \subseteq tasks
  /\ pc \in {"send", "start"} =>
       \E n \in 0 .. PoolSize : pool = 0 .. n - 1 /\ index <= n
  /\ pc = "collect" /\ done => \A s \in pool : s >= index
  /\ pc = "answer" => index \in pool /\ mrl \in Wanted
  /\ pc = "join" => index \in Slots

\* Every file asked for is still a task, or being heard of, or known.
Heeded(m) == m \in tasks \/ (pc = "answer" /\ mrl = m)

ScanInv ==
  /\ \A m \in Mrls : uuids[m] \in {Unknown, Uuid[m]}
  /\ tasks \subseteq Wanted
  /\ \A m \in asked \ lost :
       IF pc \in {"idle", "stop", "join"}
       THEN uuids[m] # Unknown /\ HasValue(uuids[m])
       ELSE IF action = "uuid" THEN uuids[m] # Unknown \/ Heeded(m)
       ELSE uuids[m] # Unknown /\ (HasValue(uuids[m]) \/ Heeded(m))

Inv ==
  TypeOK /\ PoolInv /\ RestInv /\ StopInv /\ RoundInv /\ ScanInv

-----------------------------------------------------------------------------
(* What goes through the pipes.                                            *)

\* Names, answers, commands and the end are told apart.
LEMMA Kinds ==
  ASSUME NEW m, NEW act
  PROVE  /\ File(m)[1] = "mrl" /\ File(m)[2] = m
         /\ Answer(m, act)[1] \in {"uuid", "media_info"}
         /\ Done[1] = "(done)" /\ Word(act)[1] = act
  BY DEF File, Answer, Done, Word

\* A process that exists is not Null.
LEMMA Exists ==
  /\ Processes = {Null} \cup Records
  /\ \A p \in Records : p # Null
  /\ ~IsUp(Null)
  BY DEF Processes, Records, Null, IsUp

\* The child writes a token that may follow what it wrote before.
LEMMA Extended ==
  ASSUME NEW T, NEW out \in Seq(T), NEW t \in T, NEW W, NEW act, NEW name,
         Answers(out, W, act, name),
         t[1] = "mrl" => t[2] \in W,
         out = <<>> => IF name # NoFile THEN t = Answer(name, act)
                       ELSE t[1] = "mrl" \/ t = Done,
         out # <<>> => Follows(out[Len(out)], t, act)
  PROVE  /\ Answers(Append(out, t), W, act, name)
         /\ Append(out, t) # <<>>
         /\ Append(out, t)[Len(Append(out, t))] = t
<1> DEFINE new == Append(out, t)
<1>1. /\ new \in Seq(T) /\ Len(new) = Len(out) + 1 /\ new[Len(new)] = t
      /\ \A i \in 1 .. Len(out) : new[i] = out[i]
      /\ Len(out) \in Nat /\ (out = <<>> <=> Len(out) = 0)
  OBVIOUS
<1> HIDE DEF new
<1>2. new # <<>>
  BY <1>1
<1>3. IF name # NoFile THEN new[1] = Answer(name, act)
      ELSE new[1][1] = "mrl" \/ new[1] = Done
  <2>1. CASE out = <<>>
    <3>1. new[1] = t
      BY <1>1, <2>1
    <3> QED
      BY <2>1, <3>1
  <2>2. CASE out # <<>>
    <3>1. new[1] = out[1]
      BY <1>1, <2>2
    <3> QED
      BY <2>2, <3>1 DEF Answers
  <2> QED
    BY <2>1, <2>2
<1>4. ASSUME NEW i \in 1 .. Len(new), new[i][1] = "mrl"
      PROVE  new[i][2] \in W
  <2>1. CASE i = Len(new)
    BY <1>1, <1>4, <2>1
  <2>2. CASE i # Len(new)
    <3>1. i \in 1 .. Len(out) /\ new[i] = out[i]
      BY <1>1, <2>2
    <3> QED
      BY <1>4, <3>1 DEF Answers
  <2> QED
    BY <2>1, <2>2
<1>5. ASSUME NEW i \in 1 .. Len(new) - 1
      PROVE  Follows(new[i], new[i + 1], act)
  <2>1. CASE i = Len(out)
    <3>1. new[i] = out[Len(out)] /\ new[i + 1] = t /\ out # <<>>
      BY <1>1, <2>1
    <3> QED
      BY <3>1
  <2>2. CASE i # Len(out)
    <3>1. /\ i \in 1 .. Len(out) - 1
          /\ new[i] = out[i] /\ new[i + 1] = out[i + 1]
      BY <1>1, <2>2
    <3> QED
      BY <3>1 DEF Answers
  <2> QED
    BY <2>1, <2>2
<1>6. Answers(new, W, act, name)
  BY <1>3, <1>4, <1>5 DEF Answers
<1> QED
  BY <1>1, <1>2, <1>6 DEF new

\* The parent reads a token, and waits then for `next'.
LEMMA Consumed ==
  ASSUME NEW T, NEW out \in Seq(T), out # <<>>, NEW W, NEW act, NEW name,
         NEW next, Answers(out, W, act, name),
         Len(out) > 1 => IF next # NoFile THEN out[2] = Answer(next, act)
                         ELSE out[2][1] = "mrl" \/ out[2] = Done
  PROVE  /\ Answers(Tail(out), W, act, next)
         /\ Tail(out) = <<>> <=> Len(out) = 1
         /\ Tail(out) # <<>> => Tail(out)[Len(Tail(out))] = out[Len(out)]
<1> DEFINE new == Tail(out)
<1>1. /\ new \in Seq(T) /\ Len(new) = Len(out) - 1 /\ Len(out) \in Nat \ {0}
      /\ \A i \in 1 .. Len(new) : new[i] = out[i + 1]
      /\ new = <<>> <=> Len(new) = 0
  <2>1. /\ new \in Seq(T) /\ Len(new) = Len(out) - 1
        /\ \A i \in 1 .. Len(new) : new[i] = out[i + 1]
    BY HeadTailProperties
  <2>2. Len(out) \in Nat \ {0}
    OBVIOUS
  <2> HIDE DEF new
  <2>3. new = <<>> <=> Len(new) = 0
    BY <2>1
  <2> QED
    BY <2>1, <2>2, <2>3
<1> HIDE DEF new
<1>2. ASSUME new # <<>>
      PROVE  /\ IF next # NoFile THEN new[1] = Answer(next, act)
                ELSE new[1][1] = "mrl" \/ new[1] = Done
             /\ new[Len(new)] = out[Len(out)]
  <2>1. new[1] = out[2] /\ Len(out) > 1 /\ new[Len(new)] = out[Len(out)]
    BY <1>1, <1>2
  <2> QED
    BY <2>1
<1>3. ASSUME NEW i \in 1 .. Len(new), new[i][1] = "mrl"
      PROVE  new[i][2] \in W
  <2>1. i + 1 \in 1 .. Len(out) /\ new[i] = out[i + 1]
    BY <1>1
  <2> QED
    BY <1>3, <2>1 DEF Answers
<1>4. ASSUME NEW i \in 1 .. Len(new) - 1
      PROVE  Follows(new[i], new[i + 1], act)
  <2>1. /\ i + 1 \in 1 .. Len(out) - 1 /\ (i + 1) + 1 = i + 2
        /\ new[i] = out[i + 1] /\ new[i + 1] = out[i + 2]
    BY <1>1, SMTT(30)
  <2>2. Follows(out[i + 1], out[(i + 1) + 1], act)
    BY <2>1 DEF Answers
  <2> QED
    BY <2>1, <2>2
<1>5. Answers(new, W, act, next)
  BY <1>2, <1>3, <1>4 DEF Answers
<1> QED
  BY <1>1, <1>2, <1>5 DEF new

\* The tokens that are written are those the types name.
LEMMA TokenTypes ==
  ASSUME NEW m \in Mrls, NEW act \in {"uuid", "scan"}
  PROVE  /\ File(m) \in Tokens /\ Answer(m, act) \in Tokens /\ Done \in Tokens
         /\ File(m) \in Commands /\ Word(act) \in Commands
         /\ Word("exit") \in Commands
<1>1. Uuid[m] \in Uuids
  BY DEF Uuids
<1> QED
  BY <1>1 DEF Tokens, Commands, File, Answer, Done, Word

\* What the child's writing does to the process.
LEMMA PutRecord ==
  ASSUME NEW p \in Records, NEW t \in Tokens
  PROVE  /\ Put(p, t) \in Records /\ Put(p, t).out = Append(p.out, t)
         /\ Put(p, t).inp = p.inp /\ Put(p, t).run = p.run
         /\ Put(p, t).good = p.good
<1> DEFINE o == Append(p.out, t)
<1>1. o \in Seq(Tokens)
  BY DEF Records
<1>2. Put(p, t) = [p EXCEPT !.out = o]
  BY DEF Put
<1> HIDE DEF o
<1>3. /\ Put(p, t) \in Records /\ Put(p, t).out = o
      /\ Put(p, t).inp = p.inp /\ Put(p, t).run = p.run
      /\ Put(p, t).good = p.good
  BY <1>1, <1>2 DEF Records
<1> QED
  BY <1>3 DEF o

\* What its taking a command does.
LEMMA TakenRecord ==
  ASSUME NEW p \in Records, p.inp # <<>>
  PROVE  /\ Taken(p) \in Records /\ Taken(p).inp = Tail(p.inp)
         /\ Taken(p).out = p.out /\ Taken(p).run = p.run
         /\ Taken(p).good = p.good
<1> DEFINE o == Tail(p.inp)
<1>1. o \in Seq(Commands)
  BY DEF Records
<1>2. Taken(p) = [p EXCEPT !.inp = o]
  BY DEF Taken
<1> HIDE DEF o
<1>3. /\ Taken(p) \in Records /\ Taken(p).inp = o
      /\ Taken(p).out = p.out /\ Taken(p).run = p.run
      /\ Taken(p).good = p.good
  BY <1>1, <1>2 DEF Records
<1> QED
  BY <1>3 DEF o

-----------------------------------------------------------------------------
(* The steps of a child in a round.                                        *)

\* What a command other than "exit" does to the worker.
Obeyed(w, cmd) ==
  IF cmd[1] \in {"uuid", "scan"} THEN [w EXCEPT !.mode = cmd[1]]
  ELSE [w EXCEPT !.mrls = Append(@, cmd[2])]

\* It takes a command: a file, or the action behind the files.
LEMMA CommandSlot ==
  ASSUME NEW p, NEW w, NEW W \in SUBSET Mrls, NEW act \in {"uuid", "scan"},
         NEW told \in BOOLEAN, NEW name \in Mrls \cup {NoFile},
         SlotOK(p, w, W, act, told, name), MayTake(p)
  PROVE  /\ Head(p.inp)[1] # "exit"
         /\ SlotOK(Taken(p), Obeyed(w, Head(p.inp)), W, act, told, name)
<1> DEFINE q == Taken(p)
           cmd == Head(p.inp)[1]
           v == Obeyed(w, Head(p.inp))
<1>0. /\ cmd = Head(p.inp)[1]
      /\ v = IF cmd \in {"uuid", "scan"} THEN [w EXCEPT !.mode = cmd]
            ELSE [w EXCEPT !.mrls = Append(@, Head(p.inp)[2])]
  BY DEF Obeyed
<1> HIDE DEF cmd, v
<1>1. /\ p \in Records /\ w \in Workers /\ p.inp \in Seq(Commands)
      /\ p.inp # <<>> /\ IsUp(p)
  BY DEF SlotOK, Records, MayTake
<1>2. /\ q \in Records /\ q.inp = Tail(p.inp) /\ q.out = p.out
      /\ q.run = p.run /\ q.good = p.good
  BY <1>1, TakenRecord
<1>3. /\ Len(p.inp) \in Nat \ {0} /\ Len(q.inp) = Len(p.inp) - 1
      /\ Head(p.inp) = p.inp[1] /\ q.inp \in Seq(Commands)
      /\ \A i \in 1 .. Len(q.inp) : q.inp[i] = p.inp[i + 1]
  <2>1. Len(p.inp) \in Nat \ {0} /\ Head(p.inp) = p.inp[1]
    BY <1>1
  <2> QED
    BY <1>1, <1>2, <2>1, HeadTailProperties
<1> HIDE DEF q
<1>4. ASSUME Listening(p, w, W), FilesIn(p.inp, 1, W)
      PROVE  Listening(q, v, W) /\ v \in Workers /\ cmd = "mrl"
  <2>1. p.inp[1][1] = "mrl" /\ p.inp[1][2] \in W
    BY <1>4 DEF FilesIn
  <2>2. /\ cmd = "mrl" /\ w.mrls \in Seq(W)
        /\ v = [w EXCEPT !.mrls = Append(@, p.inp[1][2])]
    BY <1>0, <1>3, <1>4, <2>1 DEF Listening
  <2>3. /\ Append(w.mrls, p.inp[1][2]) \in Seq(W)
        /\ Append(w.mrls, p.inp[1][2]) \in Seq(Mrls)
    BY <2>1, <2>2
  <2>4. /\ v \in Workers /\ v.mode = w.mode /\ v.named = w.named
        /\ v.mrls \in Seq(W)
    BY <1>1, <2>2, <2>3 DEF Workers
  <2> QED
    BY <1>2, <1>4, <2>2, <2>4 DEF Listening, IsUp
<1>5. ASSUME NEW n \in Nat, n <= Len(p.inp), n > 0, FilesIn(p.inp, n, W)
      PROVE  FilesIn(p.inp, 1, W) /\ FilesIn(q.inp, n - 1, W)
  <2>1. ASSUME NEW i \in 1 .. n - 1
        PROVE  q.inp[i][1] = "mrl" /\ q.inp[i][2] \in W
    <3>1. i + 1 \in 1 .. n /\ i \in 1 .. Len(q.inp)
      BY <1>3, <1>5
    <3>2. q.inp[i] = p.inp[i + 1]
      BY <1>3, <3>1
    <3> QED
      BY <1>5, <3>1, <3>2 DEF FilesIn
  <2>2. 1 \in 1 .. n /\ 1 .. 1 = {1}
    BY <1>5
  <2> QED
    BY <1>5, <2>1, <2>2 DEF FilesIn
<1>6. CASE ~told
  <2>1. Listening(p, w, W) /\ FilesIn(p.inp, Len(p.inp), W) /\ name = NoFile
    BY <1>6 DEF SlotOK, Waiting
  <2>2. FilesIn(p.inp, 1, W) /\ FilesIn(q.inp, Len(q.inp), W)
    BY <1>3, <1>5, <2>1
  <2> QED
    BY <1>2, <1>4, <1>6, <2>1, <2>2 DEF SlotOK, Waiting, q, cmd, v
<1>7. CASE told
  <2>1. Asked(p, w, W, act) /\ name = NoFile
    BY <1>1, <1>7 DEF SlotOK, Working, Finished, Dead, IsUp
  <2>2. CASE Len(p.inp) > 1
    <3>1. FilesIn(p.inp, 1, W) /\ FilesIn(q.inp, Len(q.inp) - 1, W)
      BY <1>3, <1>5, <2>1, <2>2 DEF Asked
    <3>2. q.inp # <<>> /\ q.inp[Len(q.inp)] = Word(act)
      BY <1>3, <2>1, <2>2 DEF Asked
    <3>3. Asked(q, v, W, act)
      BY <1>4, <2>1, <3>1, <3>2 DEF Asked
    <3> QED
      BY <1>2, <1>4, <1>7, <2>1, <3>1, <3>3 DEF SlotOK, Asked, q, cmd, v
  <2>3. CASE Len(p.inp) = 1
    <3>1. cmd = act /\ v = [w EXCEPT !.mode = act]
      <4>1. Head(p.inp) = Word(act)
        BY <1>3, <2>1, <2>3 DEF Asked
      <4>2. cmd = act
        BY <1>0, <4>1, Kinds
      <4> QED
        BY <1>0, <4>2
    <3>2. q.inp = <<>> /\ q.out = <<>>
      <4>1. \A s \in Seq(Commands) : Len(s) = 1 - 1 => s = <<>>
        OBVIOUS
      <4>2. q.inp = <<>>
        BY <1>3, <2>3, <4>1
      <4> QED
        BY <1>2, <2>1, <4>2 DEF Asked, Listening
    <3>3. /\ v \in Workers /\ v.mode = act /\ ~v.named /\ v.mrls \in Seq(W)
      BY <1>1, <2>1, <3>1 DEF Workers, Asked, Listening
    <3>4. Answers(q.out, W, act, name)
      BY <3>2 DEF Answers
    <3>5. Working(q, v, W, act, name)
      BY <1>1, <1>2, <2>1, <3>2, <3>3, <3>4
         DEF Working, SaysAnswer, Asked, Listening, IsUp
    <3> QED
      BY <1>2, <1>7, <3>1, <3>3, <3>5 DEF SlotOK, q, cmd, v
  <2>4. Len(p.inp) > 1 \/ Len(p.inp) = 1
    <3>1. Len(p.inp) \in Nat \ {0}
      BY <1>3
    <3>2. \A n \in Nat \ {0} : n > 1 \/ n = 1
      OBVIOUS
    <3> QED
      BY <3>1, <3>2, Zenon
  <2> QED
    BY <2>2, <2>3, <2>4
<1> QED
  BY <1>6, <1>7

\* It names its next file.
LEMMA NameSlot ==
  ASSUME NEW p, NEW w, NEW W \in SUBSET Mrls, NEW act \in {"uuid", "scan"},
         NEW told \in BOOLEAN, NEW name \in Mrls \cup {NoFile},
         SlotOK(p, w, W, act, told, name), MayPut(p),
         w.mode # "cmd", w.mrls # <<>>, ~w.named
  PROVE  SlotOK(Put(p, File(Head(w.mrls))), [w EXCEPT !.named = TRUE],
                W, act, told, name)
<1> DEFINE t == File(Head(w.mrls))
           q == Put(p, t)
           v == [w EXCEPT !.named = TRUE]
<1>1. told /\ Working(p, w, W, act, name) /\ p \in Records /\ w \in Workers
  BY DEF SlotOK, Waiting, Asked, Listening, Finished, Dead, Resting, MayPut,
         IsUp
<1>2. Head(w.mrls) \in W /\ p.out \in Seq(Tokens)
  BY <1>1 DEF Working, Records
<1>3. t \in Tokens /\ t[1] = "mrl" /\ t[2] \in W /\ t = File(Head(w.mrls))
  BY <1>2, TokenTypes, Kinds
<1> HIDE DEF t
<1>4. /\ q \in Records /\ q.inp = p.inp /\ q.out = Append(p.out, t)
      /\ q.run = p.run /\ q.good = p.good
  BY <1>1, <1>3, PutRecord
<1>5. /\ v \in Workers /\ v.mode = w.mode /\ v.named /\ v.mrls = w.mrls
  BY <1>1 DEF Workers
<1>6. Answers(p.out, W, act, name) /\ SaysAnswer(p.out, name)
  BY <1>1 DEF Working
<1>7. /\ p.out # <<>> => Follows(p.out[Len(p.out)], t, act)
      /\ p.out = <<>> => name = NoFile
  BY <1>3, <1>6, Kinds DEF SaysAnswer, Follows
<1>8. /\ Answers(q.out, W, act, name) /\ q.out # <<>>
      /\ q.out[Len(q.out)] = t
  <2> DEFINE o == Append(p.out, t)
  <2>1. Answers(o, W, act, name) /\ o # <<>> /\ o[Len(o)] = t
    BY <1>2, <1>3, <1>6, <1>7, Extended
  <2> HIDE DEF o, q
  <2>2. q.out = o
    BY <1>4 DEF o
  <2> QED
    BY <2>1, <2>2
<1> HIDE DEF q, v
<1>9. Working(q, v, W, act, name)
  BY <1>1, <1>3, <1>4, <1>5, <1>8 DEF Working, SaysName, IsUp, MayPut
<1>10. SlotOK(q, v, W, act, told, name)
  BY <1>1, <1>4, <1>5, <1>9 DEF SlotOK
<1> QED
  BY <1>10 DEF q, v, t

\* It tells what it found.
LEMMA WorkSlot ==
  ASSUME NEW p, NEW w, NEW W \in SUBSET Mrls, NEW act \in {"uuid", "scan"},
         NEW told \in BOOLEAN, NEW name \in Mrls \cup {NoFile},
         SlotOK(p, w, W, act, told, name), MayPut(p), w.named
  PROVE  SlotOK(Put(p, Answer(Head(w.mrls), w.mode)),
                [w EXCEPT !.named = FALSE, !.mrls = Tail(@)],
                W, act, told, name)
<1> DEFINE t == Answer(Head(w.mrls), w.mode)
           q == Put(p, t)
           v == [w EXCEPT !.named = FALSE, !.mrls = Tail(@)]
<1>1. told /\ Working(p, w, W, act, name) /\ p \in Records /\ w \in Workers
  BY DEF SlotOK, Waiting, Asked, Listening, Finished, Dead, Resting, MayPut,
         IsUp
<1>2. SaysName(p.out, w, name) /\ Answers(p.out, W, act, name)
  BY <1>1 DEF Working
<1>3. /\ Head(w.mrls) \in W /\ p.out \in Seq(Tokens) /\ w.mode = act
      /\ Tail(w.mrls) \in Seq(W) /\ Tail(w.mrls) \in Seq(Mrls)
  BY <1>1, <1>2 DEF Working, SaysName, Records, Workers
<1>4. /\ t \in Tokens /\ t[1] \in {"uuid", "media_info"}
      /\ t = Answer(Head(w.mrls), act)
  BY <1>3, TokenTypes, Kinds
<1> HIDE DEF t
<1>5. /\ q \in Records /\ q.inp = p.inp /\ q.out = Append(p.out, t)
      /\ q.run = p.run /\ q.good = p.good
  BY <1>1, <1>4, PutRecord
<1>6. /\ v \in Workers /\ v.mode = act /\ ~v.named /\ v.mrls \in Seq(W)
  BY <1>1, <1>3 DEF Workers
<1>7. p.out # <<>> => Follows(p.out[Len(p.out)], t, act)
  BY <1>2, <1>4, Kinds DEF SaysName, Follows
<1>8. p.out = <<>> => t = Answer(name, act) /\ name # NoFile
  BY <1>2, <1>3, <1>4, MediaCacheAssumption DEF SaysName, NoFile
<1>9. /\ Answers(q.out, W, act, name) /\ q.out # <<>>
      /\ q.out[Len(q.out)] = t
  <2> DEFINE o == Append(p.out, t)
  <2>1. t[1] # "mrl"
    BY <1>4
  <2>2. Answers(o, W, act, name) /\ o # <<>> /\ o[Len(o)] = t
    BY <1>2, <1>3, <1>4, <1>7, <1>8, <2>1, Extended
  <2> HIDE DEF o, q
  <2>3. q.out = o
    BY <1>5 DEF o
  <2> QED
    BY <2>2, <2>3
<1> HIDE DEF q, v
<1>10. Working(q, v, W, act, name)
  BY <1>1, <1>4, <1>5, <1>6, <1>9 DEF Working, SaysAnswer, IsUp, MayPut
<1>11. SlotOK(q, v, W, act, told, name)
  BY <1>1, <1>5, <1>6, <1>10 DEF SlotOK
<1> QED
  BY <1>11 DEF q, v, t

\* It has no more files.
LEMMA FinishSlot ==
  ASSUME NEW p, NEW w, NEW W \in SUBSET Mrls, NEW act \in {"uuid", "scan"},
         NEW told \in BOOLEAN, NEW name \in Mrls \cup {NoFile},
         SlotOK(p, w, W, act, told, name), MayPut(p),
         w.mode # "cmd", w.mrls = <<>>
  PROVE  SlotOK(Put(p, Done), [w EXCEPT !.mode = "cmd"], W, act, told, name)
<1> DEFINE q == Put(p, Done)
           v == [w EXCEPT !.mode = "cmd"]
<1>1. told /\ Working(p, w, W, act, name) /\ p \in Records /\ w \in Workers
  BY DEF SlotOK, Waiting, Asked, Listening, Finished, Dead, Resting, MayPut,
         IsUp
<1>2. ~w.named /\ SaysAnswer(p.out, name) /\ Answers(p.out, W, act, name)
  BY <1>1 DEF Working, SaysName
<1>3. Done \in Tokens /\ Done[1] = "(done)" /\ p.out \in Seq(Tokens)
  BY <1>1, Kinds DEF Tokens, Records
<1>4. /\ q \in Records /\ q.inp = p.inp /\ q.out = Append(p.out, Done)
      /\ q.run = p.run /\ q.good = p.good
  BY <1>1, <1>3, PutRecord
<1>5. v \in Workers /\ v = Resting
  <2>1. v \in Workers /\ v.mode = "cmd" /\ v.mrls = <<>> /\ v.named = FALSE
    BY <1>1, <1>2 DEF Workers
  <2>2. v = [mode |-> v.mode, mrls |-> v.mrls, named |-> v.named]
    BY <2>1 DEF Workers
  <2> QED
    BY <2>1, <2>2 DEF Resting
<1>6. /\ p.out # <<>> => Follows(p.out[Len(p.out)], Done, act)
      /\ p.out = <<>> => name = NoFile
  BY <1>2, <1>3 DEF SaysAnswer, Follows
<1>7. /\ Answers(q.out, W, act, name) /\ q.out # <<>>
      /\ q.out[Len(q.out)] = Done
  BY <1>2, <1>3, <1>4, <1>6, Extended
<1> HIDE DEF q, v
<1>8. Finished(q, v, W, act, name)
  BY <1>1, <1>4, <1>5, <1>7 DEF Finished, Working, IsUp, MayPut
<1>9. SlotOK(q, v, W, act, told, name)
  BY <1>1, <1>4, <1>5, <1>8 DEF SlotOK
<1> QED
  BY <1>9 DEF q, v

\* It crashes on a file, named or not.
LEMMA CrashSlot ==
  ASSUME NEW p, NEW w, NEW W \in SUBSET Mrls, NEW act \in {"uuid", "scan"},
         NEW told \in BOOLEAN, NEW name \in Mrls \cup {NoFile},
         SlotOK(p, w, W, act, told, name), IsUp(p), w.mode # "cmd"
  PROVE  SlotOK(Crashed(p), w, W, act, told, name)
<1> DEFINE q == Crashed(p)
<1>1. told /\ Working(p, w, W, act, name) /\ p \in Records /\ w \in Workers
  BY DEF SlotOK, Waiting, Asked, Listening, Finished, Dead, Resting, IsUp
<1>2. /\ q \in Records /\ q.inp = p.inp /\ q.out = p.out
      /\ q.run = "crashed" /\ q.good = p.good
  BY <1>1 DEF Crashed, Records
<1> HIDE DEF q
<1>3. Working(q, w, W, act, name)
  BY <1>1, <1>2 DEF Working
<1>4. SlotOK(q, w, W, act, told, name)
  BY <1>1, <1>2, <1>3 DEF SlotOK
<1> QED
  BY <1>4 DEF q

-----------------------------------------------------------------------------
(* The steps of the parent in a round.                                     *)

\* What the parent's writing does to a process whose stream is good.
LEMMA WrittenRecord ==
  ASSUME NEW p \in Records, p.good, NEW t \in Commands
  PROVE  /\ Written(p, t) \in Records /\ Written(p, t).inp = Append(p.inp, t)
         /\ Written(p, t).out = p.out /\ Written(p, t).run = p.run
         /\ Written(p, t).good
<1> DEFINE o == Append(p.inp, t)
<1>1. o \in Seq(Commands)
  BY DEF Records
<1>2. Written(p, t) = [p EXCEPT !.inp = o]
  BY DEF Written
<1> HIDE DEF o
<1>3. /\ Written(p, t) \in Records /\ Written(p, t).inp = o
      /\ Written(p, t).out = p.out /\ Written(p, t).run = p.run
      /\ Written(p, t).good
  BY <1>1, <1>2 DEF Records
<1> QED
  BY <1>3 DEF o

\* What its reading does.
LEMMA ReadRecord ==
  ASSUME NEW p \in Records, p.out # <<>>
  PROVE  /\ Read(p) \in Records /\ Read(p).inp = p.inp
         /\ Read(p).out = Tail(p.out) /\ Read(p).run = p.run
         /\ Read(p).good = p.good
<1> DEFINE o == Tail(p.out)
<1>1. o \in Seq(Tokens)
  BY DEF Records
<1>2. Read(p) = [p EXCEPT !.out = o]
  BY DEF Read
<1> HIDE DEF o
<1>3. /\ Read(p) \in Records /\ Read(p).inp = p.inp
      /\ Read(p).out = o /\ Read(p).run = p.run
      /\ Read(p).good = p.good
  BY <1>1, <1>2 DEF Records
<1> QED
  BY <1>3 DEF o

\* It writes a file.
LEMMA SendSlot ==
  ASSUME NEW p, NEW w, NEW W \in SUBSET Mrls, NEW act \in {"uuid", "scan"},
         SlotOK(p, w, W, act, FALSE, NoFile), NEW m \in W
  PROVE  SlotOK(Written(p, File(m)), w, W, act, FALSE, NoFile)
<1> DEFINE q == Written(p, File(m))
<1>1. /\ p \in Records /\ w \in Workers /\ Listening(p, w, W)
      /\ FilesIn(p.inp, Len(p.inp), W) /\ p.good /\ p.inp \in Seq(Commands)
  BY DEF SlotOK, Waiting, Listening, Records
<1>2. File(m) \in Commands /\ File(m)[1] = "mrl" /\ File(m)[2] = m
  BY TokenTypes, Kinds
<1>3. /\ q \in Records /\ q.inp = Append(p.inp, File(m)) /\ q.out = p.out
      /\ q.run = p.run /\ q.good
  BY <1>1, <1>2, WrittenRecord
<1>4. /\ Len(q.inp) = Len(p.inp) + 1 /\ q.inp[Len(q.inp)] = File(m)
      /\ \A i \in 1 .. Len(p.inp) : q.inp[i] = p.inp[i]
      /\ Len(p.inp) \in Nat
  BY <1>1, <1>2, <1>3
<1> HIDE DEF q
<1>5. FilesIn(q.inp, Len(q.inp), W)
  <2> SUFFICES ASSUME NEW i \in 1 .. Len(q.inp)
               PROVE  q.inp[i][1] = "mrl" /\ q.inp[i][2] \in W
    BY DEF FilesIn
  <2>1. CASE i = Len(q.inp)
    BY <1>2, <1>4, <2>1
  <2>2. CASE i # Len(q.inp)
    <3>1. i \in 1 .. Len(p.inp) /\ q.inp[i] = p.inp[i]
      BY <1>4, <2>2
    <3> QED
      BY <1>1, <3>1 DEF FilesIn
  <2> QED
    BY <2>1, <2>2
<1>6. SlotOK(q, w, W, act, FALSE, NoFile)
  BY <1>1, <1>3, <1>5 DEF SlotOK, Waiting, Listening, IsUp
<1> QED
  BY <1>6 DEF q

\* It writes the action.
LEMMA SendActionSlot ==
  ASSUME NEW p, NEW w, NEW W \in SUBSET Mrls, NEW act \in {"uuid", "scan"},
         SlotOK(p, w, W, act, FALSE, NoFile)
  PROVE  SlotOK(Written(p, Word(act)), w, W, act, TRUE, NoFile)
<1> DEFINE q == Written(p, Word(act))
<1>1. /\ p \in Records /\ w \in Workers /\ Listening(p, w, W)
      /\ FilesIn(p.inp, Len(p.inp), W) /\ p.good /\ p.inp \in Seq(Commands)
  BY DEF SlotOK, Waiting, Listening, Records
<1>2. Word(act) \in Commands
  BY DEF Commands
<1>3. /\ q \in Records /\ q.inp = Append(p.inp, Word(act)) /\ q.out = p.out
      /\ q.run = p.run /\ q.good
  BY <1>1, <1>2, WrittenRecord
<1>4. /\ Len(q.inp) = Len(p.inp) + 1 /\ q.inp[Len(q.inp)] = Word(act)
      /\ \A i \in 1 .. Len(p.inp) : q.inp[i] = p.inp[i]
      /\ Len(p.inp) \in Nat /\ q.inp # <<>>
  BY <1>1, <1>2, <1>3
<1> HIDE DEF q
<1>5. FilesIn(q.inp, Len(q.inp) - 1, W)
  <2>1. Len(q.inp) - 1 = Len(p.inp)
    BY <1>4
  <2> QED
    BY <1>1, <1>4, <2>1 DEF FilesIn
<1>6. Asked(q, w, W, act)
  BY <1>1, <1>3, <1>4, <1>5 DEF Asked, Listening, IsUp
<1>7. SlotOK(q, w, W, act, TRUE, NoFile)
  BY <1>1, <1>3, <1>6 DEF SlotOK
<1> QED
  BY <1>7 DEF q

\* It reads the end, behind which there is nothing: the process can be used
\* again.
LEMMA ReadDoneSlot ==
  ASSUME NEW p, NEW w, NEW W \in SUBSET Mrls, NEW act \in {"uuid", "scan"},
         SlotOK(p, w, W, act, TRUE, NoFile), MayRead(p), Head(p.out) = Done
  PROVE  Read(p) \in Records /\ Quiet(Read(p), w)
<1>1. /\ p \in Records /\ p.out \in Seq(Tokens) /\ p.out # <<>>
      /\ p.out[1] = Done /\ Len(p.out) \in Nat \ {0}
  BY DEF SlotOK, Records, MayRead
<1>2. \/ Working(p, w, W, act, NoFile) \/ Finished(p, w, W, act, NoFile)
  BY <1>1 DEF SlotOK, Asked, Listening, Dead
<1>3. Answers(p.out, W, act, NoFile)
  BY <1>2 DEF Working, Finished
<1>4. Len(p.out) = 1
  <2>1. SUFFICES ASSUME Len(p.out) # 1 PROVE FALSE
    OBVIOUS
  <2>2. 1 \in 1 .. Len(p.out) - 1
    <3>1. \A n \in Nat \ {0} : n # 1 => 1 \in 1 .. n - 1
      OBVIOUS
    <3> QED
      BY <1>1, <2>1, <3>1, Zenon
  <2> QED
    BY <1>1, <1>3, <2>2 DEF Answers, Follows
<1>5. ~Working(p, w, W, act, NoFile)
  BY <1>1, <1>4, Kinds DEF Working, SaysName, SaysAnswer
<1>6. /\ Read(p) \in Records /\ Read(p).inp = p.inp
      /\ Read(p).out = Tail(p.out) /\ Read(p).run = p.run
      /\ Read(p).good = p.good
  BY <1>1, ReadRecord
<1>7. Tail(p.out) = <<>>
  <2>1. Tail(p.out) \in Seq(Tokens) /\ Len(Tail(p.out)) = Len(p.out) - 1
    BY <1>1, HeadTailProperties
  <2>2. \A s \in Seq(Tokens) : Len(s) = 1 - 1 => s = <<>>
    OBVIOUS
  <2> QED
    BY <1>4, <2>1, <2>2
<1> QED
  BY <1>2, <1>5, <1>6, <1>7 DEF Finished, Quiet, IsUp

\* It reads the name of a file, and waits for the answer.
LEMMA ReadNameSlot ==
  ASSUME NEW p, NEW w, NEW W \in SUBSET Mrls, NEW act \in {"uuid", "scan"},
         SlotOK(p, w, W, act, TRUE, NoFile), MayRead(p), Head(p.out) # Done
  PROVE  /\ Head(p.out)[2] \in W
         /\ SlotOK(Read(p), w, W, act, TRUE, Head(p.out)[2])
<1> DEFINE q == Read(p)
           m == Head(p.out)[2]
<1>1. /\ p \in Records /\ w \in Workers /\ p.out \in Seq(Tokens)
      /\ p.out # <<>> /\ p.out[1] # Done /\ Len(p.out) \in Nat \ {0}
      /\ m = p.out[1][2]
  BY DEF SlotOK, Records, MayRead
<1> HIDE DEF m
<1>2. \/ Working(p, w, W, act, NoFile) \/ Finished(p, w, W, act, NoFile)
  BY <1>1 DEF SlotOK, Asked, Listening, Dead
<1>3. Answers(p.out, W, act, NoFile)
  BY <1>2 DEF Working, Finished
<1>4. p.out[1][1] = "mrl" /\ m \in W /\ m # NoFile
  BY <1>1, <1>3, MediaCacheAssumption DEF Answers, NoFile
<1>5. Len(p.out) > 1 => p.out[2] = Answer(m, act)
  BY <1>1, <1>3, <1>4 DEF Answers, Follows
<1>6. /\ q \in Records /\ q.inp = p.inp /\ q.out = Tail(p.out)
      /\ q.run = p.run /\ q.good = p.good
  BY <1>1, ReadRecord
<1>7. /\ Answers(Tail(p.out), W, act, m)
      /\ Tail(p.out) = <<>> <=> Len(p.out) = 1
      /\ Tail(p.out) # <<>> =>
           Tail(p.out)[Len(Tail(p.out))] = p.out[Len(p.out)]
  BY <1>1, <1>3, <1>4, <1>5, Consumed
<1> HIDE DEF q
<1>8. ASSUME Working(p, w, W, act, NoFile)
      PROVE  Working(q, w, W, act, m)
  <2>1. IF w.named THEN SaysName(p.out, w, NoFile)
        ELSE SaysAnswer(p.out, NoFile)
    BY <1>8 DEF Working
  <2>2. CASE Len(p.out) = 1
    <3>1. w.named /\ w.mrls # <<>> /\ p.out[1] = File(Head(w.mrls))
      BY <1>1, <1>4, <2>1, <2>2 DEF SaysName, SaysAnswer
    <3>2. m = Head(w.mrls)
      BY <1>1, <3>1, Kinds
    <3>3. SaysName(q.out, w, m)
      BY <1>6, <1>7, <2>2, <3>1, <3>2 DEF SaysName
    <3> QED
      BY <1>6, <1>7, <1>8, <3>1, <3>3 DEF Working, IsUp
  <2>3. CASE Len(p.out) # 1
    <3>1. q.out # <<>> /\ q.out[Len(q.out)] = p.out[Len(p.out)]
      BY <1>6, <1>7, <2>3
    <3>2. IF w.named THEN SaysName(q.out, w, m) ELSE SaysAnswer(q.out, m)
      BY <1>1, <2>1, <3>1 DEF SaysName, SaysAnswer
    <3> QED
      BY <1>6, <1>7, <1>8, <3>2 DEF Working, IsUp
  <2> QED
    BY <2>2, <2>3
<1>9. ASSUME Finished(p, w, W, act, NoFile)
      PROVE  Finished(q, w, W, act, m)
  <2>1. p.out[Len(p.out)] = Done
    BY <1>9 DEF Finished
  <2>2. Len(p.out) # 1
    BY <1>1, <2>1
  <2>3. q.out # <<>> /\ q.out[Len(q.out)] = Done
    BY <1>6, <1>7, <2>1, <2>2
  <2> QED
    BY <1>6, <1>7, <1>9, <2>3 DEF Finished, IsUp
<1>10. SlotOK(q, w, W, act, TRUE, m)
  BY <1>1, <1>2, <1>6, <1>8, <1>9 DEF SlotOK
<1> QED
  BY <1>4, <1>10 DEF q, m

\* It reads the answer that it waits for.
LEMMA ReadAnswerSlot ==
  ASSUME NEW p, NEW w, NEW W \in SUBSET Mrls, NEW act \in {"uuid", "scan"},
         NEW m \in W, SlotOK(p, w, W, act, TRUE, m), MayRead(p)
  PROVE  /\ Head(p.out) = Answer(m, act)
         /\ SlotOK(Read(p), w, W, act, TRUE, NoFile)
<1> DEFINE q == Read(p)
<1>1. /\ p \in Records /\ w \in Workers /\ p.out \in Seq(Tokens)
      /\ p.out # <<>> /\ Len(p.out) \in Nat \ {0} /\ Head(p.out) = p.out[1]
  BY DEF SlotOK, Records, MayRead
<1>2. m # NoFile
  BY MediaCacheAssumption DEF NoFile
<1>3. \/ Working(p, w, W, act, m) \/ Finished(p, w, W, act, m)
  BY <1>2 DEF SlotOK
<1>4. Answers(p.out, W, act, m)
  BY <1>3 DEF Working, Finished
<1>5. p.out[1] = Answer(m, act) /\ p.out[1][1] \in {"uuid", "media_info"}
  BY <1>1, <1>2, <1>4, Kinds DEF Answers
<1>6. Len(p.out) > 1 => p.out[2][1] = "mrl" \/ p.out[2] = Done
  BY <1>1, <1>4, <1>5 DEF Answers, Follows
<1>7. /\ q \in Records /\ q.inp = p.inp /\ q.out = Tail(p.out)
      /\ q.run = p.run /\ q.good = p.good
  BY <1>1, ReadRecord
<1>8. /\ Answers(Tail(p.out), W, act, NoFile)
      /\ Tail(p.out) = <<>> <=> Len(p.out) = 1
      /\ Tail(p.out) # <<>> =>
           Tail(p.out)[Len(Tail(p.out))] = p.out[Len(p.out)]
  BY <1>1, <1>4, <1>6, Consumed
<1> HIDE DEF q
<1>9. ASSUME Working(p, w, W, act, m)
      PROVE  Working(q, w, W, act, NoFile)
  <2>1. IF w.named THEN SaysName(p.out, w, m) ELSE SaysAnswer(p.out, m)
    BY <1>9 DEF Working
  <2>2. CASE Len(p.out) = 1
    <3>1. ~w.named
      BY <1>1, <1>5, <2>1, <2>2, Kinds DEF SaysName
    <3>2. SaysAnswer(q.out, NoFile)
      BY <1>7, <1>8, <2>2 DEF SaysAnswer
    <3> QED
      BY <1>7, <1>8, <1>9, <3>1, <3>2 DEF Working, IsUp
  <2>3. CASE Len(p.out) # 1
    <3>1. q.out # <<>> /\ q.out[Len(q.out)] = p.out[Len(p.out)]
      BY <1>7, <1>8, <2>3
    <3>2. IF w.named THEN SaysName(q.out, w, NoFile)
          ELSE SaysAnswer(q.out, NoFile)
      BY <1>1, <2>1, <3>1 DEF SaysName, SaysAnswer
    <3> QED
      BY <1>7, <1>8, <1>9, <3>2 DEF Working, IsUp
  <2> QED
    BY <2>2, <2>3
<1>10. ASSUME Finished(p, w, W, act, m)
       PROVE  Finished(q, w, W, act, NoFile)
  <2>1. p.out[Len(p.out)] = Done
    BY <1>10 DEF Finished
  <2>2. Len(p.out) # 1
    BY <1>1, <1>5, <2>1, Kinds
  <2>3. q.out # <<>> /\ q.out[Len(q.out)] = Done
    BY <1>7, <1>8, <2>1, <2>2
  <2> QED
    BY <1>7, <1>8, <1>10, <2>3 DEF Finished, IsUp
<1>11. SlotOK(q, w, W, act, TRUE, NoFile)
  BY <1>1, <1>3, <1>7, <1>9, <1>10 DEF SlotOK
<1> QED
  BY <1>1, <1>5, <1>11 DEF q

\* It sees the end of a child: one that crashed on the file it waits for, or
\* one of which it knows that already.
LEMMA EofSlot ==
  ASSUME NEW p, NEW w, NEW W \in SUBSET Mrls, NEW act \in {"uuid", "scan"},
         NEW m, SlotOK(p, w, W, act, TRUE, m), AtEof(p)
  PROVE  /\ Failed(p) \in Records /\ Quiet(Failed(p), w)
         /\ SlotOK(Failed(p), w, W, act, TRUE, NoFile)
<1> DEFINE q == Failed(p)
<1>1. p \in Records /\ w \in Workers /\ p.out = <<>> /\ p.run # "up"
  BY DEF SlotOK, AtEof, IsEnded
<1>2. p.run = "crashed"
  BY <1>1 DEF SlotOK, Asked, Listening, Working, Finished, Dead, IsUp
<1>3. /\ q \in Records /\ q.out = p.out /\ q.run = p.run /\ q.good = FALSE
  BY <1>1 DEF Failed, Records
<1> HIDE DEF q
<1>4. Dead(q) /\ Quiet(q, w)
  BY <1>1, <1>2, <1>3 DEF Dead, Quiet, IsEnded
<1>5. SlotOK(q, w, W, act, TRUE, NoFile)
  BY <1>1, <1>3, <1>4 DEF SlotOK
<1> QED
  BY <1>3, <1>4, <1>5 DEF q

-----------------------------------------------------------------------------
(* The steps of the children.                                              *)

\* The types that the steps of a process are about.
LEMMA SlotTypes ==
  ASSUME TypeOK
  PROVE  /\ Wanted \in SUBSET Mrls /\ action \in {"uuid", "scan"}
         /\ \A s \in Slots : /\ process_pool[s] \in {Null} \cup Records
                             /\ worker[s] \in Workers /\ Told(s) \in BOOLEAN
                             /\ About(s) \in Mrls \cup {NoFile}
<1>1. Wanted \in SUBSET Mrls /\ action \in {"uuid", "scan"}
  BY DEF TypeOK, Wanted
<1>2. ASSUME NEW s \in Slots
      PROVE  /\ process_pool[s] \in {Null} \cup Records
             /\ worker[s] \in Workers
  BY Exists DEF TypeOK, Workers
<1>3. ASSUME NEW s \in Slots
      PROVE  Told(s) \in BOOLEAN /\ About(s) \in Mrls \cup {NoFile}
  BY DEF TypeOK, Told, About
<1> QED
  BY <1>1, <1>2, <1>3

\* A child keeps to the protocol; one that waits between two rounds does
\* nothing.
LEMMA ChildSlot ==
  ASSUME TypeOK, NEW s \in Slots, Child(s) \/ Crash(s),
         NEW p, p = process_pool[s], NEW w, w = worker[s]
  PROVE  \E q, v :
           /\ process_pool' = [process_pool EXCEPT ![s] = q]
           /\ worker' = [worker EXCEPT ![s] = v]
           /\ ~Quiet(p, w) /\ p # Null
           /\ Leaving(p, w) => Leaving(q, v)
           /\ Keeps(p, w, q, v)
<1>1. /\ p \in {Null} \cup Records /\ w \in Workers
      /\ worker = [worker EXCEPT ![s] = w]
  BY SlotTypes DEF TypeOK
<1>2. ASSUME IsUp(p) PROVE p # Null /\ p \in Records /\ ~IsEnded(p)
  BY <1>1, <1>2, Exists DEF IsUp, IsEnded
<1>3. Resting.mode = "cmd" /\ Resting.named = FALSE
  BY DEF Resting
<1>4. CASE Command(s)
  <2> DEFINE cmd == Head(p.inp)[1]
             q == IF cmd = "exit" THEN Exited(Taken(p)) ELSE Taken(p)
             v == CASE cmd = "exit" -> w
                    [] cmd \in {"uuid", "scan"} -> [w EXCEPT !.mode = cmd]
                    [] OTHER -> [w EXCEPT !.mrls = Append(@, Head(p.inp)[2])]
  <2>1. MayTake(p) /\ w.mode = "cmd" /\ IsUp(p) /\ p.inp # <<>>
    BY <1>4 DEF Command, MayTake
  <2>2. process_pool' = [process_pool EXCEPT ![s] = q]
    BY <1>4 DEF Command
  <2>3. worker' = [worker EXCEPT ![s] = v]
    <3>1. worker' =
            CASE cmd = "exit" -> worker
              [] cmd \in {"uuid", "scan"} -> [worker EXCEPT ![s].mode = cmd]
              [] OTHER -> [worker EXCEPT
                             ![s].mrls = Append(@, Head(p.inp)[2])]
      BY <1>4 DEF Command
    <3> HIDE DEF cmd
    <3>2. CASE cmd = "exit"
      BY <1>1, <3>1, <3>2
    <3>3. CASE cmd # "exit" /\ cmd \in {"uuid", "scan"}
      BY <3>1, <3>3
    <3>4. CASE cmd # "exit" /\ cmd \notin {"uuid", "scan"}
      BY <3>1, <3>4
    <3> QED
      BY <3>2, <3>3, <3>4
  <2>4. p # Null /\ ~Quiet(p, w)
    BY <1>2, <2>1 DEF Quiet
  <2>5. ASSUME Leaving(p, w) PROVE Leaving(q, v)
    <3>1. p \in Records /\ w \in Workers /\ p.inp = <<Word("exit")>>
      BY <1>2, <2>1, <2>5 DEF Leaving
    <3>2. cmd = "exit"
      BY <3>1, Kinds
    <3>3. q = Exited(Taken(p)) /\ v = w
      BY <3>2
    <3>4. Taken(p) \in Records
      BY <2>1, <3>1, TakenRecord
    <3>5. Exited(Taken(p)) \in Records /\ IsEnded(Exited(Taken(p)))
      BY <3>4 DEF Exited, Records, IsEnded
    <3> HIDE DEF q, v
    <3> QED
      BY <3>1, <3>3, <3>5 DEF Leaving
  <2>6. ASSUME NEW W \in SUBSET Mrls, NEW act \in {"uuid", "scan"},
               NEW told \in BOOLEAN, NEW name \in Mrls \cup {NoFile},
               SlotOK(p, w, W, act, told, name)
        PROVE  SlotOK(q, v, W, act, told, name)
    <3>1. /\ cmd # "exit"
          /\ SlotOK(Taken(p), Obeyed(w, Head(p.inp)), W, act, told, name)
      BY <2>1, <2>6, CommandSlot
    <3>2. q = Taken(p) /\ v = Obeyed(w, Head(p.inp))
      BY <3>1 DEF Obeyed
    <3> HIDE DEF q, v
    <3> QED
      BY <3>1, <3>2
  <2> HIDE DEF q, v
  <2>7. Keeps(p, w, q, v)
    BY <2>6 DEF Keeps
  <2> QED
    BY <2>2, <2>3, <2>4, <2>5, <2>7
<1>5. ASSUME NEW q, NEW v, IsUp(p), w # Resting,
             process_pool' = [process_pool EXCEPT ![s] = q],
             worker' = [worker EXCEPT ![s] = v],
             Keeps(p, w, q, v)
      PROVE  \E q_1, v_1 :
               /\ process_pool' = [process_pool EXCEPT ![s] = q_1]
               /\ worker' = [worker EXCEPT ![s] = v_1]
               /\ ~Quiet(p, w) /\ p # Null
               /\ Leaving(p, w) => Leaving(q_1, v_1)
               /\ Keeps(p, w, q_1, v_1)
  <2>1. p # Null /\ ~Quiet(p, w) /\ ~Leaving(p, w)
    BY <1>2, <1>5 DEF Quiet, Leaving
  <2> QED
    BY <1>5, <2>1
<1>6. CASE Name(s)
  <2> DEFINE q == Put(p, File(Head(w.mrls)))
             v == [w EXCEPT !.named = TRUE]
  <2>1. /\ w.mode # "cmd" /\ w.mrls # <<>> /\ ~w.named /\ MayPut(p)
        /\ process_pool' = [process_pool EXCEPT ![s] = q]
        /\ worker' = [worker EXCEPT ![s] = v]
    BY <1>6 DEF Name
  <2>2. IsUp(p) /\ w # Resting
    BY <1>3, <2>1 DEF MayPut
  <2>3. Keeps(p, w, q, v)
    BY <2>1, NameSlot DEF Keeps
  <2> HIDE DEF q, v
  <2> QED
    BY <1>5, <2>1, <2>2, <2>3
<1>7. CASE Work(s)
  <2> DEFINE q == Put(p, Answer(Head(w.mrls), w.mode))
             v == [w EXCEPT !.named = FALSE, !.mrls = Tail(@)]
  <2>1. /\ w.named /\ MayPut(p)
        /\ process_pool' = [process_pool EXCEPT ![s] = q]
    BY <1>7 DEF Work
  <2>2. worker' = [worker EXCEPT ![s] = v]
    BY <1>7 DEF Work, TypeOK
  <2>3. IsUp(p) /\ w # Resting
    BY <1>3, <2>1 DEF MayPut
  <2>4. Keeps(p, w, q, v)
    BY <2>1, WorkSlot DEF Keeps
  <2> HIDE DEF q, v
  <2> QED
    BY <1>5, <2>1, <2>2, <2>3, <2>4
<1>8. CASE Finish(s)
  <2> DEFINE q == Put(p, Done)
             v == [w EXCEPT !.mode = "cmd"]
  <2>1. /\ w.mode # "cmd" /\ w.mrls = <<>> /\ MayPut(p)
        /\ process_pool' = [process_pool EXCEPT ![s] = q]
        /\ worker' = [worker EXCEPT ![s] = v]
    BY <1>8 DEF Finish
  <2>2. IsUp(p) /\ w # Resting
    BY <1>3, <2>1 DEF MayPut
  <2>3. Keeps(p, w, q, v)
    BY <2>1, FinishSlot DEF Keeps
  <2> HIDE DEF q, v
  <2> QED
    BY <1>5, <2>1, <2>2, <2>3
<1>9. CASE Crash(s)
  <2> DEFINE q == Crashed(p)
  <2>1. /\ w.mode # "cmd" /\ IsUp(p) /\ worker' = [worker EXCEPT ![s] = w]
        /\ process_pool' = [process_pool EXCEPT ![s] = q]
    BY <1>1, <1>9 DEF Crash
  <2>2. w # Resting
    BY <1>3, <2>1
  <2>3. Keeps(p, w, q, w)
    BY <2>1, CrashSlot DEF Keeps
  <2> HIDE DEF q
  <2> QED
    BY <1>5, <2>1, <2>2, <2>3
<1> QED
  BY <1>4, <1>6, <1>7, <1>8, <1>9 DEF Child

\* The steps of a child keep the invariant.
LEMMA ChildStepInv ==
  ASSUME Inv, NEW s \in Slots, ChildStep(s) \/ ChildCrash(s)
  PROVE  Inv'
<1> DEFINE p == process_pool[s]
           w == worker[s]
<1>1. /\ UNCHANGED <<uuids, section, asked, action, tasks, lost, todo, pool,
                     index, done, mrl, pc, timer, scans>>
      /\ Child(s) \/ Crash(s)
  BY DEF ChildStep, ChildCrash, cacheVars, scanVars, roundVars
<1>2. PICK q, v :
        /\ process_pool' = [process_pool EXCEPT ![s] = q]
        /\ worker' = [worker EXCEPT ![s] = v]
        /\ ~Quiet(p, w) /\ p # Null
        /\ Leaving(p, w) => Leaving(q, v)
        /\ Keeps(p, w, q, v)
  BY <1>1, ChildSlot DEF Inv
<1>3. /\ process_pool'[s] = q /\ worker'[s] = v
      /\ \A r \in Slots \ {s} : /\ process_pool'[r] = process_pool[r]
                                /\ worker'[r] = worker[r]
  BY <1>2 DEF Inv, TypeOK
<1>4. Wanted' = Wanted /\ InRound' = InRound
  BY <1>1 DEF Wanted, InRound
<1>5. \A r \in Slots : Told(r)' = Told(r) /\ About(r)' = About(r)
  BY <1>1 DEF Told, About
<1>6. ScanInv'
  BY <1>1, <1>4 DEF Inv, ScanInv, HasValue, Heeded
<1>7. RoundInv'
  BY <1>1, <1>4 DEF Inv, RoundInv
<1>8. ASSUME q \in Records, v \in Workers PROVE TypeOK'
  <2>1. process_pool' \in [Slots -> Processes]
    BY <1>2, <1>8, Exists DEF Inv, TypeOK
  <2>2. worker' \in [Slots -> Workers]
    BY <1>2, <1>8 DEF Inv, TypeOK, Workers
  <2> QED
    BY <1>1, <2>1, <2>2 DEF Inv, TypeOK, Workers
<1>9. CASE InRound
  <2>1. s \in pool /\ SlotOK(p, w, Wanted, action, Told(s), About(s))
    BY <1>2, <1>9 DEF Inv, PoolInv
  <2>2. SlotOK(q, v, Wanted, action, Told(s), About(s))
    BY <1>2, <2>1, SlotTypes DEF Keeps, Inv
  <2>3. q \in Records /\ v \in Workers
    BY <2>2 DEF SlotOK
  <2>4. PoolInv'
    <3> SUFFICES ASSUME NEW r \in Slots
                 PROVE  IF r \in pool
                        THEN SlotOK(process_pool'[r], worker'[r], Wanted,
                                    action, Told(r), About(r))
                        ELSE Quiet(process_pool'[r], worker'[r])
      BY <1>1, <1>4, <1>5 DEF PoolInv
    <3>1. CASE r = s
      BY <1>3, <2>1, <2>2, <3>1
    <3>2. CASE r # s
      BY <1>3, <1>9, <3>2 DEF Inv, PoolInv
    <3> QED
      BY <3>1, <3>2
  <2>5. RestInv' /\ StopInv'
    BY <1>1, <1>9 DEF InRound, RestInv, StopInv
  <2> QED
    BY <1>6, <1>7, <1>8, <2>3, <2>4, <2>5 DEF Inv
<1>10. pc \notin {"idle", "round"}
  BY <1>2 DEF Inv, RestInv
<1>11. CASE pc \in {"stop", "join"}
  <2>1. pc = "join" /\ s = index /\ Leaving(p, w)
    BY <1>2, <1>11, MediaCacheAssumption DEF Inv, StopInv, TypeOK, Slots
  <2>2. Leaving(q, v) /\ q \in Records /\ v \in Workers
    BY <1>2, <2>1 DEF Leaving
  <2>3. StopInv'
    <3> SUFFICES ASSUME NEW r \in Slots
                 PROVE  /\ r < index => process_pool'[r] = Null
                        /\ r > index => Quiet(process_pool'[r], worker'[r])
                        /\ r = index => Leaving(process_pool'[r], worker'[r])
      BY <1>1, <2>1 DEF StopInv
    <3>1. CASE r = s
      BY <1>3, <2>1, <2>2, <3>1 DEF Slots
    <3>2. CASE r # s
      <4>1. /\ process_pool'[r] = process_pool[r] /\ worker'[r] = worker[r]
            /\ r # index
        BY <1>3, <2>1, <3>2
      <4> QED
        BY <1>11, <4>1 DEF Inv, StopInv
    <3> QED
      BY <3>1, <3>2
  <2>4. PoolInv' /\ RestInv'
    BY <1>1, <2>1 DEF PoolInv, InRound, RestInv
  <2> QED
    BY <1>6, <1>7, <1>8, <2>2, <2>3, <2>4 DEF Inv
<1> QED
  BY <1>9, <1>10, <1>11 DEF Inv, TypeOK, InRound

-----------------------------------------------------------------------------
(* scan_all and read_info.                                                 *)

\* Nothing has been looked at when the cache is made.
LEMMA InitInv == Init => Inv
<1> SUFFICES ASSUME Init PROVE Inv
  OBVIOUS
<1>1. TypeOK
  <2>1. /\ process_pool \in [Slots -> Processes]
        /\ uuids \in [Mrls -> Uuids \cup {Unknown}]
        /\ section \in [Uuids -> Mrls \cup {NoFile}]
    BY DEF Init, Processes
  <2>2. Resting \in Workers
    BY DEF Resting, Workers
  <2>3. worker \in [Slots -> Workers]
    BY <2>2 DEF Init
  <2>4. index \in 0 .. PoolSize /\ scans \in 0 .. MaxScans
    BY MediaCacheAssumption DEF Init
  <2> QED
    BY <2>1, <2>3, <2>4 DEF Init, TypeOK, Workers
<1>2. PoolInv /\ StopInv /\ RoundInv
  BY DEF Init, PoolInv, InRound, StopInv, RoundInv
<1>3. RestInv
  BY DEF Init, RestInv, Quiet
<1>4. ScanInv
  BY DEF Init, ScanInv, Wanted
<1> QED
  BY <1>1, <1>2, <1>3, <1>4 DEF Inv

\* A scan begins.
LEMMA ScanAllInv ==
  ASSUME Inv, pc = "idle", NEW files \in SUBSET Mrls, scan_all(files, uuids'),
         uuids' \in [Mrls -> Uuids \cup {Unknown}],
         \A m \in Mrls : uuids'[m] \in {Unknown, Uuid[m]},
         scans' \in 0 .. MaxScans,
         UNCHANGED <<section, childVars, roundVars, timer>>
  PROVE  Inv'
<1>1. /\ asked' = files /\ tasks' = {m \in files : uuids'[m] = Unknown}
      /\ action' = "uuid" /\ pc' = "round" /\ lost' = {}
      /\ UNCHANGED <<section, process_pool, worker, todo, pool, index, done,
                     mrl, timer>>
  BY DEF scan_all, childVars, roundVars
<1>2. todo = {}
  BY DEF Inv, RoundInv
<1>3. TypeOK'
  BY <1>1, <1>2 DEF Inv, TypeOK
<1>4. PoolInv' /\ StopInv' /\ RoundInv'
  BY <1>1, <1>2 DEF PoolInv, InRound, StopInv, RoundInv
<1>5. RestInv'
  BY <1>1 DEF Inv, RestInv
<1>6. ScanInv'
  BY <1>1 DEF ScanInv, Wanted, Heeded
<1> QED
  BY <1>3, <1>4, <1>5, <1>6 DEF Inv

\* read_info() knows the hash of its file, and what is stored if it scans none.
LEMMA ReadInfoInv ==
  ASSUME Inv, NEW m \in Mrls, read_info(m)
  PROVE  Inv'
<1>1. /\ pc = "idle" /\ scans' = scans + 1 /\ scans < MaxScans
      /\ uuids' = [uuids EXCEPT ![m] = Uuid[m]]
      /\ UNCHANGED <<section, childVars, roundVars, timer>>
  BY DEF read_info
<1>2. Uuid[m] \in Uuids /\ Uuid[m] # Unknown
  BY MediaCacheAssumption DEF Uuids, Unknown
<1>3. /\ uuids' \in [Mrls -> Uuids \cup {Unknown}]
      /\ \A k \in Mrls : uuids'[k] \in {Unknown, Uuid[k]}
      /\ \A k \in Mrls : uuids[k] # Unknown => uuids'[k] = uuids[k]
      /\ uuids'[m] = Uuid[m]
  BY <1>1, <1>2 DEF Inv, TypeOK, ScanInv
<1>4. scans' \in 0 .. MaxScans
  BY <1>1, MediaCacheAssumption DEF Inv, TypeOK
<1>5. CASE UNCHANGED <<pc, scanVars>> /\ HasValue(Uuid[m])
  <2>1. UNCHANGED <<section, process_pool, worker, asked, action, tasks, lost,
                    todo, pool, index, done, mrl, timer, pc>>
    BY <1>1, <1>5 DEF scanVars, childVars, roundVars
  <2>2. TypeOK'
    BY <1>3, <1>4, <2>1 DEF Inv, TypeOK
  <2>3. PoolInv' /\ StopInv' /\ RoundInv'
    BY <1>1, <2>1 DEF Inv, PoolInv, InRound, StopInv, RoundInv
  <2>4. RestInv'
    BY <2>1 DEF Inv, RestInv
  <2>5. tasks' \subseteq Wanted'
    BY <1>3, <2>1 DEF Inv, TypeOK, ScanInv, Wanted
  <2>6. ASSUME NEW k \in asked \ lost
        PROVE  uuids'[k] # Unknown /\ HasValue(uuids'[k])
    BY <1>1, <1>2, <1>3, <1>5 DEF Inv, TypeOK, ScanInv, HasValue
  <2>7. ScanInv'
    BY <1>1, <1>3, <2>1, <2>5, <2>6 DEF ScanInv, HasValue
  <2> QED
    BY <2>2, <2>3, <2>4, <2>7 DEF Inv
<1>6. CASE scan_all({m}, uuids')
  BY <1>1, <1>3, <1>4, <1>6, ScanAllInv
<1> QED
  BY <1>5, <1>6 DEF read_info

\* The second pass is over the files whose hash is known and not stored.
LEMMA NextActionInv ==
  ASSUME Inv, NextAction
  PROVE  Inv'
<1>1. /\ pc = "round" /\ tasks = {} /\ todo = {}
      /\ UNCHANGED <<uuids, section, process_pool, worker, asked, lost, todo,
                     pool, index, done, mrl, timer, scans>>
  BY DEF NextAction, cacheVars, childVars, roundVars, Inv, RoundInv
<1>2. CASE /\ action = "uuid" /\ action' = "scan" /\ pc' = pc
           /\ tasks' = {m \in asked : /\ uuids[m] # Unknown
                                      /\ ~HasValue(uuids[m])}
  <2>1. TypeOK'
    BY <1>1, <1>2 DEF Inv, TypeOK
  <2>2. PoolInv' /\ StopInv' /\ RoundInv'
    BY <1>1, <1>2 DEF PoolInv, InRound, StopInv, RoundInv
  <2>3. RestInv'
    BY <1>1, <1>2 DEF Inv, RestInv
  <2>4. ASSUME NEW m \in asked \ lost PROVE uuids[m] # Unknown
    BY <1>1, <1>2 DEF Inv, ScanInv, Heeded
  <2>5. ScanInv'
    BY <1>1, <1>2, <2>4 DEF Inv, ScanInv, Wanted, Heeded, HasValue
  <2> QED
    BY <2>1, <2>2, <2>3, <2>5 DEF Inv
<1>3. CASE action = "scan" /\ pc' = "idle" /\ UNCHANGED <<action, tasks>>
  <2>1. TypeOK'
    BY <1>1, <1>3 DEF Inv, TypeOK
  <2>2. PoolInv' /\ StopInv' /\ RoundInv'
    BY <1>1, <1>3 DEF PoolInv, InRound, StopInv, RoundInv
  <2>3. RestInv'
    BY <1>1, <1>3 DEF Inv, RestInv
  <2>4. ScanInv'
    BY <1>1, <1>3 DEF Inv, ScanInv, Wanted, Heeded, HasValue
  <2> QED
    BY <2>1, <2>2, <2>3, <2>4 DEF Inv
<1> QED
  BY <1>2, <1>3 DEF NextAction

-----------------------------------------------------------------------------
(* process_tasks.                                                          *)

\* A step of a round that is about one process of the pool.
LEMMA OneSlot ==
  ASSUME Inv, InRound, InRound', NEW i \in pool, NEW q \in Records,
         process_pool' = [process_pool EXCEPT ![i] = q],
         worker' = worker, action' = action, Wanted' = Wanted,
         \/ /\ pool' = pool
            /\ SlotOK(q, worker[i], Wanted, action, Told(i)',
                      About(i)')
         \/ pool' = pool \ {i} /\ Quiet(q, worker[i]),
         \A s \in pool \ {i} : Told(s)' = Told(s) /\ About(s)' = About(s)
  PROVE  /\ PoolInv' /\ RestInv' /\ StopInv'
         /\ process_pool' \in [Slots -> Processes]
<1>1. i \in Slots /\ pool \subseteq Slots
  BY DEF Inv, TypeOK
<1>2. /\ process_pool'[i] = q
      /\ \A s \in Slots \ {i} : process_pool'[s] = process_pool[s]
      /\ process_pool' \in [Slots -> Processes]
  BY <1>1, Exists DEF Inv, TypeOK
<1>3. PoolInv'
  <2> SUFFICES ASSUME NEW s \in Slots
               PROVE  IF s \in pool'
                      THEN SlotOK(process_pool'[s], worker[s], Wanted, action,
                                  Told(s)', About(s)')
                      ELSE Quiet(process_pool'[s], worker[s])
    BY DEF PoolInv
  <2>1. CASE s = i
    <3>1. process_pool'[s] = q /\ worker[s] = worker[i]
      BY <1>2, <2>1
    <3>2. CASE /\ pool' = pool
               /\ SlotOK(q, worker[i], Wanted, action, Told(i)', About(i)')
      <4>1. Told(s)' = Told(i)' /\ About(s)' = About(i)' /\ s \in pool'
        BY <2>1, <3>2
      <4> QED
        BY <3>1, <3>2, <4>1
    <3>3. CASE pool' = pool \ {i} /\ Quiet(q, worker[i])
      BY <2>1, <3>1, <3>3
    <3> QED
      BY <3>2, <3>3
  <2>2. CASE s # i /\ s \in pool
    <3>1. /\ Told(s)' = Told(s) /\ About(s)' = About(s) /\ s \in pool'
          /\ process_pool'[s] = process_pool[s]
      BY <1>2, <2>2
    <3>2. SlotOK(process_pool[s], worker[s], Wanted, action, Told(s), About(s))
      BY <2>2 DEF Inv, PoolInv
    <3> QED
      BY <3>1, <3>2
  <2>3. CASE s # i /\ s \notin pool
    <3>1. s \notin pool' /\ process_pool'[s] = process_pool[s]
      BY <1>2, <2>3
    <3> QED
      BY <2>3, <3>1 DEF Inv, PoolInv
  <2> QED
    BY <2>1, <2>2, <2>3
<1>4. RestInv' /\ StopInv'
  BY DEF InRound, RestInv, StopInv
<1> QED
  BY <1>2, <1>3, <1>4

\* A process that is fresh or quiet takes part in a round.
LEMMA FreshSlot ==
  ASSUME NEW p \in Records, IsUp(p), p.good, p.inp = <<>>, p.out = <<>>,
         NEW W, NEW act
  PROVE  SlotOK(p, Resting, W, act, FALSE, NoFile)
<1>1. Resting \in Workers /\ Resting.mode = "cmd" /\ ~Resting.named
      /\ Resting.mrls \in Seq(W)
  BY DEF Resting, Workers
<1>2. FilesIn(p.inp, Len(p.inp), W)
  BY DEF FilesIn
<1> QED
  BY <1>1, <1>2 DEF SlotOK, Waiting, Listening

\* A round begins.
LEMMA RoundStartInv ==
  ASSUME Inv, Round
  PROVE  Inv'
<1> DEFINE n == Min({Cardinality(tasks), PoolSize})
           new == {s \in 0 .. n - 1 : NeedsNew(process_pool[s])}
<1>1. /\ pc = "round" /\ tasks # {} /\ pc' = "send"
      /\ process_pool' = [s \in Slots |-> IF s \in new THEN Spawned
                                          ELSE process_pool[s]]
      /\ worker' = [s \in Slots |-> IF s \in new THEN Resting ELSE worker[s]]
      /\ todo' = tasks /\ pool' = 0 .. n - 1 /\ index' = 0 /\ timer' = TRUE
      /\ UNCHANGED <<uuids, section, asked, action, tasks, lost, done, mrl,
                     scans>>
  BY DEF Round, cacheVars, scanVars
<1>2. n \in 1 .. PoolSize
  <2>1. IsFiniteSet(tasks)
    BY FS_Subset, MediaCacheAssumption DEF Inv, TypeOK
  <2>2. Cardinality(tasks) \in Nat \ {0}
    BY <1>1, <2>1, FS_CardinalityType, FS_EmptySet
  <2> DEFINE c == Cardinality(tasks)
  <2>3. c \in Nat \ {0} /\ PoolSize \in Nat \ {0}
    BY <2>2, MediaCacheAssumption
  <2> HIDE DEF c
  <2>4. \E x \in {c, PoolSize} : \A y \in {c, PoolSize} : x <= y
    <3>1. CASE c <= PoolSize
      BY <2>3, <3>1
    <3>2. CASE PoolSize <= c
      BY <2>3, <3>2
    <3> QED
      BY <2>3, <3>1, <3>2
  <2>5. /\ Min({c, PoolSize}) \in {c, PoolSize}
        /\ \A y \in {c, PoolSize} : Min({c, PoolSize}) <= y
    BY <2>4 DEF Min
  <2> QED
    BY <2>3, <2>5 DEF c
<1> HIDE DEF n
<1>3. 0 .. n - 1 \subseteq Slots /\ 0 \in 0 .. n - 1 /\ new \subseteq Slots
  BY <1>2, MediaCacheAssumption DEF Slots
<1>4. \A s \in Slots :
        /\ process_pool'[s] = IF s \in new THEN Spawned ELSE process_pool[s]
        /\ worker'[s] = IF s \in new THEN Resting ELSE worker[s]
  BY <1>1
<1>5. /\ Spawned \in Records /\ IsUp(Spawned) /\ Spawned.good
      /\ Spawned.inp = <<>> /\ Spawned.out = <<>> /\ Resting \in Workers
  BY DEF Spawned, Records, IsUp, Resting, Workers
<1>6. TypeOK'
  <2>1. process_pool' \in [Slots -> Processes]
    BY <1>1, <1>5, Exists DEF Inv, TypeOK
  <2>2. worker' \in [Slots -> Workers]
    BY <1>1, <1>5 DEF Inv, TypeOK, Workers
  <2>3. index' \in 0 .. PoolSize
    BY <1>1, MediaCacheAssumption
  <2> QED
    BY <1>1, <1>3, <2>1, <2>2, <2>3 DEF Inv, TypeOK, Workers
<1>7. Wanted' = Wanted
  BY <1>1 DEF Wanted
<1>8. \A s \in Slots : Told(s)' = FALSE /\ About(s)' = NoFile
  BY <1>1 DEF Told, About
<1>9. \A s \in Slots : Quiet(process_pool[s], worker[s])
  BY <1>1 DEF Inv, RestInv
<1>10. PoolInv'
  <2> SUFFICES ASSUME NEW s \in Slots
               PROVE  IF s \in 0 .. n - 1
                      THEN SlotOK(process_pool'[s], worker'[s], Wanted, action,
                                  FALSE, NoFile)
                      ELSE Quiet(process_pool'[s], worker'[s])
    BY <1>1, <1>7, <1>8 DEF PoolInv
  <2>1. CASE s \in new
    BY <1>4, <1>5, <2>1, FreshSlot
  <2>2. CASE s \notin new /\ s \in 0 .. n - 1
    <3>1. process_pool[s] # Null /\ process_pool[s].good
      BY <2>2 DEF NeedsNew, IsGood
    <3>2. /\ process_pool[s] \in Records /\ IsUp(process_pool[s])
          /\ process_pool[s].inp = <<>> /\ process_pool[s].out = <<>>
          /\ worker[s] = Resting
      BY <1>9, <3>1, SlotTypes DEF Quiet, Inv
    <3>3. SlotOK(process_pool[s], Resting, Wanted, action, FALSE, NoFile)
      BY <3>1, <3>2, FreshSlot
    <3> QED
      BY <1>4, <2>2, <3>2, <3>3
  <2>3. CASE s \notin new /\ s \notin 0 .. n - 1
    BY <1>4, <1>9, <2>3
  <2> QED
    BY <2>1, <2>2, <2>3
<1>11. RestInv' /\ StopInv'
  BY <1>1 DEF RestInv, StopInv
<1>12. RoundInv'
  <2>1. \E k \in 0 .. PoolSize : pool' = 0 .. k - 1 /\ index' <= k
    BY <1>1, <1>2
  <2> QED
    BY <1>1, <1>3, <2>1 DEF RoundInv
<1>13. ScanInv'
  BY <1>1, <1>7 DEF Inv, ScanInv, Heeded, HasValue
<1> QED
  BY <1>6, <1>10, <1>11, <1>12, <1>13 DEF Inv

\* A file is written.
LEMMA SendInv ==
  ASSUME Inv, Send
  PROVE  Inv'
<1>1. PICK m \in todo :
        /\ pc = "send"
        /\ process_pool' = [process_pool EXCEPT
                              ![index] = Written(process_pool[index], File(m))]
        /\ todo' = todo \ {m}
        /\ index' = IF todo' # {} /\ index + 1 \in pool THEN index + 1 ELSE 0
        /\ pc' = IF todo' = {} THEN "start" ELSE "send"
        /\ UNCHANGED <<uuids, section, asked, action, tasks, lost, worker,
                       pool, done, mrl, timer, scans>>
  BY DEF Send, cacheVars, scanVars
<1>2. PICK n \in 0 .. PoolSize : pool = 0 .. n - 1 /\ index <= n
  BY <1>1 DEF Inv, RoundInv
<1>3. /\ index \in pool /\ index \in Slots /\ pool \subseteq Slots
      /\ m \in Wanted /\ index \in Nat
  BY <1>1 DEF Inv, TypeOK, RoundInv, ScanInv
<1>4. 0 \in pool /\ index' \in pool /\ index' \in 0 .. PoolSize /\ index' <= n
  BY <1>1, <1>2, <1>3, MediaCacheAssumption
<1>5. Wanted' = Wanted /\ InRound /\ InRound'
  BY <1>1 DEF Wanted, InRound
<1>6. \A s \in Slots : /\ Told(s) = FALSE /\ Told(s)' = FALSE
                       /\ About(s) = NoFile /\ About(s)' = NoFile
  BY <1>1 DEF Told, About, Slots
<1>7. SlotOK(process_pool[index], worker[index], Wanted, action, FALSE, NoFile)
  BY <1>3, <1>5, <1>6 DEF Inv, PoolInv
<1> DEFINE q == Written(process_pool[index], File(m))
<1>8. SlotOK(q, worker[index], Wanted, action, FALSE, NoFile)
  BY <1>3, <1>7, SendSlot, SlotTypes DEF Inv
<1>9. q \in Records
  BY <1>8 DEF SlotOK
<1>10. process_pool' = [process_pool EXCEPT ![index] = q]
  BY <1>1
<1> HIDE DEF q
<1>11. /\ PoolInv' /\ RestInv' /\ StopInv'
       /\ process_pool' \in [Slots -> Processes]
  <2> PICK i : i = index
    OBVIOUS
  <2>1. i \in pool /\ i \in Slots
    BY <1>3
  <2>2. process_pool' = [process_pool EXCEPT ![i] = q]
    BY <1>10
  <2>3. SlotOK(q, worker[i], Wanted, action, Told(i)', About(i)')
    BY <1>6, <1>8, <2>1
  <2>4. \A s \in pool \ {i} : Told(s)' = Told(s) /\ About(s)' = About(s)
    BY <1>3, <1>6
  <2> QED
    BY <1>1, <1>5, <1>9, <2>1, <2>2, <2>3, <2>4, OneSlot
<1>12. TypeOK'
  BY <1>1, <1>4, <1>11 DEF Inv, TypeOK
<1>13. RoundInv'
  BY <1>1, <1>2, <1>4 DEF Inv, RoundInv
<1>14. ScanInv'
  BY <1>1, <1>5 DEF Inv, ScanInv, Heeded, HasValue
<1> QED
  BY <1>11, <1>12, <1>13, <1>14 DEF Inv

\* The action is written.
LEMMA SendActionInv ==
  ASSUME Inv, SendAction
  PROVE  Inv'
<1>1. /\ pc = "start" /\ index \in pool /\ index' = index + 1
      /\ process_pool' = [process_pool EXCEPT
           ![index] = Written(process_pool[index], Word(action))]
      /\ UNCHANGED <<uuids, section, asked, action, tasks, lost, worker, pc,
                     todo, pool, done, mrl, timer, scans>>
  BY DEF SendAction, cacheVars, scanVars
<1>2. PICK n \in 0 .. PoolSize : pool = 0 .. n - 1 /\ index <= n
  BY <1>1 DEF Inv, RoundInv
<1>3. index \in Slots /\ pool \subseteq Slots /\ index \in Nat
  BY <1>1 DEF Inv, TypeOK
<1>4. index' \in 0 .. PoolSize /\ index' <= n
  BY <1>1, <1>2, <1>3, MediaCacheAssumption
<1>5. Wanted' = Wanted /\ InRound /\ InRound'
  BY <1>1 DEF Wanted, InRound
<1>6. /\ \A s \in Slots : About(s) = NoFile /\ About(s)' = NoFile
      /\ \A s \in Slots : IF s = index THEN ~Told(s) /\ Told(s)' = TRUE
                           ELSE Told(s)' = Told(s)
  BY <1>1, <1>3 DEF Told, About, Slots
<1>7. SlotOK(process_pool[index], worker[index], Wanted, action, FALSE, NoFile)
  <2>1. Told(index) = FALSE
    BY <1>1, <1>3 DEF Told
  <2> QED
    BY <1>1, <1>3, <1>5, <1>6, <2>1 DEF Inv, PoolInv
<1> DEFINE q == Written(process_pool[index], Word(action))
<1>8. SlotOK(q, worker[index], Wanted, action, TRUE, NoFile)
  BY <1>7, SendActionSlot, SlotTypes DEF Inv
<1>9. q \in Records
  BY <1>8 DEF SlotOK
<1>10. process_pool' = [process_pool EXCEPT ![index] = q]
  BY <1>1
<1> HIDE DEF q
<1>11. /\ PoolInv' /\ RestInv' /\ StopInv'
       /\ process_pool' \in [Slots -> Processes]
  <2> PICK i : i = index
    OBVIOUS
  <2>1. i \in pool /\ i \in Slots
    BY <1>1, <1>3
  <2>2. process_pool' = [process_pool EXCEPT ![i] = q]
    BY <1>10
  <2>3. SlotOK(q, worker[i], Wanted, action, Told(i)', About(i)')
    BY <1>6, <1>8, <2>1
  <2>4. \A s \in pool \ {i} : Told(s)' = Told(s) /\ About(s)' = About(s)
    BY <1>3, <1>6
  <2> QED
    BY <1>1, <1>5, <1>9, <2>1, <2>2, <2>3, <2>4, OneSlot
<1>12. TypeOK'
  BY <1>1, <1>4, <1>11 DEF Inv, TypeOK
<1>13. RoundInv'
  BY <1>1, <1>2, <1>4 DEF Inv, RoundInv
<1>14. ScanInv'
  BY <1>1, <1>5 DEF Inv, ScanInv, Heeded, HasValue
<1> QED
  BY <1>11, <1>12, <1>13, <1>14 DEF Inv

\* A turn over the pool begins: the action has been written to all.
LEMMA TurnInv ==
  ASSUME Inv, Turn
  PROVE  Inv'
<1>1. /\ \/ pc = "start" /\ index \notin pool
         \/ pc = "collect" /\ index = PoolSize /\ ~done
      /\ pc' = "collect" /\ index' = 0 /\ done' = TRUE
      /\ UNCHANGED <<uuids, section, process_pool, worker, asked, action,
                     tasks, lost, todo, pool, mrl, timer, scans>>
  BY DEF Turn, cacheVars, childVars, scanVars
<1>2. \A s \in pool : Told(s)
  <2>1. CASE pc = "start" /\ index \notin pool
    <3>1. PICK n \in 0 .. PoolSize : pool = 0 .. n - 1 /\ index <= n
      BY <2>1 DEF Inv, RoundInv
    <3>2. index \in 0 .. PoolSize
      BY DEF Inv, TypeOK
    <3>3. \A s \in pool : s < index
      BY <2>1, <3>1, <3>2, MediaCacheAssumption
    <3> QED
      BY <2>1, <3>3 DEF Told
  <2>2. CASE pc = "collect"
    BY <2>2 DEF Told
  <2> QED
    BY <1>1, <2>1, <2>2
<1>3. Wanted' = Wanted /\ InRound /\ pool \subseteq Slots
  BY <1>1 DEF Wanted, InRound, Inv, TypeOK
<1>4. \A s \in Slots : /\ Told(s)' = TRUE
                       /\ About(s) = NoFile /\ About(s)' = NoFile
  BY <1>1 DEF Told, About
<1>5. PoolInv'
  <2>1. \A s \in pool : Told(s) = TRUE
    BY <1>2, <1>3, SlotTypes DEF Inv
  <2> QED
    BY <1>1, <1>3, <1>4, <2>1 DEF Inv, PoolInv
<1>6. RestInv' /\ StopInv'
  BY <1>1 DEF RestInv, StopInv
<1>7. TypeOK'
  <2>1. index' \in 0 .. PoolSize
    BY <1>1, MediaCacheAssumption
  <2> QED
    BY <1>1, <2>1 DEF Inv, TypeOK
<1>8. RoundInv'
  <2>1. \A s \in pool : s >= 0
    BY <1>3 DEF Slots
  <2>2. pc # "send"
    BY <1>1
  <2> QED
    BY <1>1, <2>1, <2>2 DEF Inv, RoundInv
<1>9. ScanInv'
  BY <1>1, <1>3 DEF Inv, ScanInv, Heeded, HasValue
<1> QED
  BY <1>5, <1>6, <1>7, <1>8, <1>9 DEF Inv

\* A process that is gone from the pool is passed over.
LEMMA SkipInv ==
  ASSUME Inv, Skip
  PROVE  Inv'
<1>1. /\ pc = "collect" /\ index < PoolSize /\ index \notin pool
      /\ index' = index + 1
      /\ UNCHANGED <<uuids, section, process_pool, worker, asked, action,
                     tasks, lost, pc, todo, pool, done, mrl, timer, scans>>
  BY DEF Skip, cacheVars, childVars, scanVars
<1>2. index \in 0 .. PoolSize /\ index' \in 0 .. PoolSize
      /\ pool \subseteq Slots
  BY <1>1, MediaCacheAssumption DEF Inv, TypeOK
<1>3. Wanted' = Wanted /\ InRound
  BY <1>1 DEF Wanted, InRound
<1>4. \A s \in Slots : /\ Told(s) = TRUE /\ Told(s)' = TRUE
                       /\ About(s) = NoFile /\ About(s)' = NoFile
  BY <1>1 DEF Told, About
<1>5. PoolInv'
  BY <1>1, <1>2, <1>3, <1>4 DEF Inv, PoolInv
<1>6. RestInv' /\ StopInv'
  BY <1>1 DEF RestInv, StopInv
<1>7. TypeOK'
  BY <1>1, <1>2 DEF Inv, TypeOK
<1>8. done => \A s \in pool : s >= index + 1
  <2>1. done => \A s \in pool : s >= index /\ s # index
    BY <1>1 DEF Inv, RoundInv
  <2> QED
    BY <1>2, <2>1 DEF Slots
<1>9. RoundInv'
  BY <1>1, <1>8 DEF Inv, RoundInv
<1>10. ScanInv'
  BY <1>1, <1>3 DEF Inv, ScanInv, Heeded, HasValue
<1> QED
  BY <1>5, <1>6, <1>7, <1>9, <1>10 DEF Inv

\* The name of a file is read, or that there are no more.
LEMMA CollectNameInv ==
  ASSUME Inv, CollectName
  PROVE  Inv'
<1> PICK i : i = index
  OBVIOUS
<1> DEFINE p == process_pool[i]
           w == worker[i]
<1>1. /\ pc = "collect" /\ i \in pool
      /\ UNCHANGED <<uuids, section, worker, asked, action, lost, todo, done,
                     timer, scans>>
  BY DEF CollectName, cacheVars
<1>2. i \in Slots /\ pool \subseteq Slots /\ i \in Nat /\ i < PoolSize
  BY <1>1, MediaCacheAssumption DEF Inv, TypeOK, Slots
<1>3. Wanted' = Wanted /\ InRound
  BY <1>1 DEF Wanted, InRound
<1>4. \A s \in Slots : Told(s) = TRUE /\ About(s) = NoFile
  BY <1>1 DEF Told, About
<1>5. SlotOK(p, w, Wanted, action, TRUE, NoFile)
  BY <1>1, <1>2, <1>3, <1>4 DEF Inv, PoolInv
<1>6. Wanted \in SUBSET Mrls /\ action \in {"uuid", "scan"}
  BY SlotTypes DEF Inv
<1>7. todo = {}
  BY <1>1 DEF Inv, RoundInv
<1>8. ASSUME NEW q \in Records, Quiet(q, w), Drop,
             process_pool' = [process_pool EXCEPT ![i] = q]
      PROVE  Inv'
  <2>1. /\ pool' = pool \ {i} /\ index' = i + 1
        /\ UNCHANGED <<pc, tasks, mrl>>
    BY <1>8 DEF Drop
  <2>2. InRound' /\ \A s \in Slots : Told(s)' = TRUE /\ About(s)' = NoFile
    BY <1>1, <2>1 DEF InRound, Told, About
  <2>3. \A s \in pool \ {i} : Told(s)' = Told(s) /\ About(s)' = About(s)
    BY <1>2, <1>4, <2>2
  <2>4. /\ PoolInv' /\ RestInv' /\ StopInv'
        /\ process_pool' \in [Slots -> Processes]
    BY <1>1, <1>3, <1>8, <2>1, <2>2, <2>3, OneSlot
  <2>5. index' \in 0 .. PoolSize
    BY <1>2, <2>1, MediaCacheAssumption
  <2>6. TypeOK'
    BY <1>1, <2>1, <2>4, <2>5 DEF Inv, TypeOK
  <2>7. done => \A s \in pool' : s >= i + 1
    <3>1. done => \A s \in pool' : s >= i /\ s # i
      BY <1>1, <2>1 DEF Inv, RoundInv
    <3> QED
      BY <1>2, <2>1, <3>1 DEF Slots
  <2>8. RoundInv'
    BY <1>1, <1>7, <2>1, <2>7 DEF RoundInv
  <2>9. ScanInv'
    BY <1>1, <1>3, <2>1 DEF Inv, ScanInv, Heeded, HasValue
  <2> QED
    BY <2>4, <2>6, <2>8, <2>9 DEF Inv
<1>9. CASE AtEof(p) /\ Drop
           /\ process_pool' = [process_pool EXCEPT ![i] = Failed(p)]
  <2>1. Failed(p) \in Records /\ Quiet(Failed(p), w)
    <3>1. AtEof(p)
      BY <1>9
    <3> HIDE DEF p, w
    <3> QED
      BY <1>5, <1>6, <3>1, EofSlot
  <2> QED
    BY <1>8, <1>9, <2>1
<1>10. CASE /\ MayRead(p) /\ Head(p.out) = Done /\ Drop
            /\ process_pool' = [process_pool EXCEPT ![i] = Read(p)]
  <2>1. Read(p) \in Records /\ Quiet(Read(p), w)
    BY <1>5, <1>6, <1>10, ReadDoneSlot
  <2> QED
    BY <1>8, <1>10, <2>1
<1>11. CASE /\ MayRead(p) /\ Head(p.out) # Done
            /\ process_pool' = [process_pool EXCEPT ![i] = Read(p)]
            /\ mrl' = Head(p.out)[2] /\ tasks' = Heard(mrl')
            /\ pc' = "answer" /\ UNCHANGED <<pool, index>>
  <2>1. mrl' \in Wanted /\ SlotOK(Read(p), w, Wanted, action, TRUE, mrl')
    BY <1>5, <1>6, <1>11, ReadNameSlot
  <2>2. Read(p) \in Records
    BY <2>1 DEF SlotOK
  <2>3. /\ InRound' /\ Told(i)' = TRUE /\ About(i)' = mrl'
        /\ \A s \in Slots \ {i} : Told(s)' = TRUE /\ About(s)' = NoFile
    BY <1>11 DEF InRound, Told, About
  <2>4. \A s \in pool \ {i} : Told(s)' = Told(s) /\ About(s)' = About(s)
    BY <1>2, <1>4, <2>3
  <2>5. SlotOK(Read(p), w, Wanted, action, Told(i)', About(i)')
    BY <2>1, <2>3
  <2> DEFINE q == Read(p)
  <2>6. process_pool' = [process_pool EXCEPT ![i] = q]
    BY <1>11
  <2> HIDE DEF q
  <2>7. SlotOK(q, worker[i], Wanted, action, Told(i)', About(i)')
    BY <2>5 DEF q
  <2>8. q \in Records /\ pool' = pool
    BY <1>11, <2>2 DEF q
  <2>9. /\ PoolInv' /\ RestInv' /\ StopInv'
        /\ process_pool' \in [Slots -> Processes]
    BY <1>1, <1>3, <2>3, <2>4, <2>6, <2>7, <2>8, OneSlot
  <2>10. tasks' = tasks \ {mrl'} /\ mrl' \in Mrls
    BY <1>6, <1>11, <2>1 DEF Heard
  <2>11. TypeOK'
    BY <1>1, <1>7, <1>11, <2>9, <2>10 DEF Inv, TypeOK
  <2>12. RoundInv'
    BY <1>1, <1>3, <1>7, <1>11, <2>1 DEF RoundInv
  <2>13. ScanInv'
    BY <1>1, <1>3, <1>11, <2>10 DEF Inv, ScanInv, Heeded, HasValue
  <2> QED
    BY <2>9, <2>11, <2>12, <2>13 DEF Inv
<1> QED
  BY <1>9, <1>10, <1>11 DEF CollectName

\* The answer about a file is read, or that the child crashed on it.
LEMMA CollectAnswerInv ==
  ASSUME Inv, CollectAnswer
  PROVE  Inv'
<1> PICK i : i = index
  OBVIOUS
<1> DEFINE p == process_pool[i]
           w == worker[i]
<1>1. /\ pc = "answer" /\ pc' = "collect" /\ index' = i + 1 /\ done' = FALSE
      /\ mrl' = NoFile
      /\ UNCHANGED <<worker, asked, action, tasks, todo, pool, timer, scans>>
  BY DEF CollectAnswer
<1>2. /\ i \in pool /\ mrl \in Wanted /\ todo = {}
  BY <1>1 DEF Inv, RoundInv
<1>3. /\ i \in Slots /\ pool \subseteq Slots /\ i \in Nat /\ i < PoolSize
      /\ mrl \in Mrls /\ mrl # NoFile /\ mrl \in asked
  BY <1>2, MediaCacheAssumption DEF Inv, TypeOK, Slots, Wanted, NoFile
<1>4. Wanted \in SUBSET Mrls /\ action \in {"uuid", "scan"}
  BY SlotTypes DEF Inv
<1>5. /\ InRound /\ InRound' /\ Told(i) = TRUE /\ About(i) = mrl
      /\ \A s \in Slots \ {i} : Told(s) = TRUE /\ About(s) = NoFile
      /\ \A s \in Slots : Told(s)' = TRUE /\ About(s)' = NoFile
  BY <1>1 DEF InRound, Told, About
<1>6. SlotOK(p, w, Wanted, action, TRUE, mrl)
  BY <1>2, <1>3, <1>5 DEF Inv, PoolInv
<1>7. index' \in 0 .. PoolSize
  BY <1>1, <1>3, MediaCacheAssumption
<1>8. ASSUME NEW q, SlotOK(q, w, Wanted, action, TRUE, NoFile),
             process_pool' = [process_pool EXCEPT ![i] = q], Wanted' = Wanted
      PROVE  /\ PoolInv' /\ RestInv' /\ StopInv' /\ RoundInv'
             /\ process_pool' \in [Slots -> Processes]
  <2>1. q \in Records
    BY <1>8 DEF SlotOK
  <2>2. \A s \in pool \ {i} : Told(s)' = Told(s) /\ About(s)' = About(s)
    BY <1>3, <1>5
  <2>3. SlotOK(q, worker[i], Wanted, action, Told(i)', About(i)')
    BY <1>3, <1>5, <1>8
  <2>4. /\ PoolInv' /\ RestInv' /\ StopInv'
        /\ process_pool' \in [Slots -> Processes]
    BY <1>1, <1>2, <1>5, <1>8, <2>1, <2>2, <2>3, OneSlot
  <2>5. RoundInv'
    BY <1>1, <1>2 DEF RoundInv
  <2> QED
    BY <2>4, <2>5
<1>9. CASE /\ AtEof(p) /\ lost' = lost \cup {mrl} /\ UNCHANGED cacheVars
           /\ process_pool' = [process_pool EXCEPT ![i] = Failed(p)]
  <2>1. SlotOK(Failed(p), w, Wanted, action, TRUE, NoFile)
    <3>1. AtEof(p) /\ mrl \in Wanted \cup {NoFile}
      BY <1>2, <1>9
    <3> HIDE DEF p, w
    <3> QED
      BY <1>4, <1>6, <3>1, EofSlot
  <2>2. Wanted' = Wanted /\ UNCHANGED <<uuids, section>>
    BY <1>1, <1>9 DEF Wanted, cacheVars
  <2>3. /\ PoolInv' /\ RestInv' /\ StopInv' /\ RoundInv'
        /\ process_pool' \in [Slots -> Processes]
    BY <1>8, <1>9, <2>1, <2>2
  <2>4. TypeOK'
    BY <1>1, <1>3, <1>7, <1>9, <2>2, <2>3 DEF Inv, TypeOK
  <2>5. ScanInv'
    BY <1>1, <1>9, <2>2 DEF Inv, ScanInv, Heeded, HasValue
  <2> QED
    BY <2>3, <2>4, <2>5 DEF Inv
<1>10. CASE /\ MayRead(p) /\ lost' = lost
            /\ process_pool' = [process_pool EXCEPT ![i] = Read(p)]
            /\ \/ /\ action = "uuid" /\ section' = section
                  /\ uuids' = [uuids EXCEPT ![mrl] = Head(p.out)[2]]
               \/ /\ action = "scan" /\ uuids' = uuids
                  /\ section' = [section EXCEPT
                                   ![uuids[mrl]] = Head(p.out)[2]]
  <2>1. /\ Head(p.out) = Answer(mrl, action)
        /\ SlotOK(Read(p), w, Wanted, action, TRUE, NoFile)
    <3>1. MayRead(p)
      BY <1>10
    <3> HIDE DEF p, w
    <3> QED
      BY <1>2, <1>4, <1>6, <3>1, ReadAnswerSlot
  <2>2. Head(p.out)[2] = IF action = "uuid" THEN Uuid[mrl] ELSE mrl
    BY <2>1 DEF Answer
  <2>3. Uuid[mrl] \in Uuids /\ Uuid[mrl] # Unknown
    BY <1>3, MediaCacheAssumption DEF Uuids, Unknown
  <2>4. CASE /\ action = "uuid" /\ section' = section
             /\ uuids' = [uuids EXCEPT ![mrl] = Uuid[mrl]]
    <3>1. Wanted' = Wanted
      BY <1>1, <2>4 DEF Wanted
    <3>2. /\ PoolInv' /\ RestInv' /\ StopInv' /\ RoundInv'
          /\ process_pool' \in [Slots -> Processes]
      BY <1>8, <1>10, <2>1, <3>1
    <3>3. /\ uuids' \in [Mrls -> Uuids \cup {Unknown}]
          /\ uuids'[mrl] = Uuid[mrl]
          /\ \A k \in Mrls \ {mrl} : uuids'[k] = uuids[k]
      BY <1>3, <2>3, <2>4 DEF Inv, TypeOK
    <3>4. TypeOK'
      BY <1>1, <1>2, <1>7, <1>10, <2>4, <3>2, <3>3 DEF Inv, TypeOK, NoFile
    <3>5. ASSUME NEW k \in asked \ lost
          PROVE  uuids'[k] # Unknown \/ k \in tasks
      <4>1. k \in Mrls /\ (uuids[k] # Unknown \/ Heeded(k))
        BY <1>1, <2>4 DEF Inv, TypeOK, ScanInv
      <4> QED
        BY <2>3, <3>3, <4>1 DEF Heeded
    <3>6. \A k \in Mrls : uuids'[k] \in {Unknown, Uuid[k]}
      BY <3>3 DEF Inv, ScanInv
    <3>7. ScanInv'
      BY <1>1, <1>10, <2>4, <3>1, <3>5, <3>6 DEF Inv, ScanInv, Heeded
    <3> QED
      BY <3>2, <3>4, <3>7 DEF Inv
  <2>5. CASE /\ action = "scan" /\ uuids' = uuids
             /\ section' = [section EXCEPT ![uuids[mrl]] = mrl]
    <3>1. Wanted' = Wanted
      BY <1>1, <2>5 DEF Wanted
    <3>2. /\ PoolInv' /\ RestInv' /\ StopInv' /\ RoundInv'
          /\ process_pool' \in [Slots -> Processes]
      BY <1>8, <1>10, <2>1, <3>1
    <3>3. uuids[mrl] \in Uuids /\ uuids[mrl] # Unknown
      BY <1>2, <1>3, <2>5 DEF Inv, TypeOK, Wanted
    <3>4. /\ section' \in [Uuids -> Mrls \cup {NoFile}]
          /\ section'[uuids[mrl]] = mrl
          /\ \A u \in Uuids : section[u] # NoFile => section'[u] # NoFile
      BY <1>3, <2>5, <3>3 DEF Inv, TypeOK
    <3>5. TypeOK'
      BY <1>1, <1>2, <1>7, <1>10, <2>5, <3>2, <3>4 DEF Inv, TypeOK, NoFile
    <3>6. ASSUME NEW k \in asked \ lost
          PROVE  uuids[k] # Unknown /\ (section'[uuids[k]] # NoFile \/ k \in tasks)
      <4>1. /\ k \in Mrls /\ uuids[k] # Unknown
            /\ HasValue(uuids[k]) \/ Heeded(k)
        BY <1>1, <2>5 DEF Inv, TypeOK, ScanInv
      <4>2. uuids[k] \in Uuids
        BY <4>1 DEF Inv, TypeOK
      <4> QED
        BY <1>3, <3>4, <4>1, <4>2 DEF Heeded, HasValue
    <3>7. ScanInv'
      BY <1>1, <1>10, <2>5, <3>1, <3>6 DEF Inv, ScanInv, Heeded, HasValue
    <3> QED
      BY <3>2, <3>5, <3>7 DEF Inv
  <2> QED
    BY <1>10, <2>2, <2>4, <2>5
<1> QED
  BY <1>9, <1>10 DEF CollectAnswer

\* The round ends when every process has been dropped from the pool.
LEMMA EndRoundInv ==
  ASSUME Inv, EndRound
  PROVE  Inv'
<1>1. /\ pc = "collect" /\ index = PoolSize /\ done /\ pc' = "round"
      /\ UNCHANGED <<uuids, section, process_pool, worker, asked, action,
                     tasks, lost, todo, pool, index, done, mrl, timer, scans>>
  BY DEF EndRound, Rest, cacheVars, childVars, roundVars
<1>2. pool = {} /\ todo = {}
  <2>1. \A s \in pool : s \in Slots /\ s >= PoolSize
    BY <1>1 DEF Inv, RoundInv, TypeOK
  <2> QED
    BY <1>1, <2>1, MediaCacheAssumption DEF Slots, Inv, RoundInv
<1>3. RestInv'
  BY <1>1, <1>2 DEF Inv, PoolInv, InRound, RestInv
<1>4. PoolInv' /\ StopInv' /\ RoundInv'
  BY <1>1, <1>2 DEF PoolInv, InRound, StopInv, RoundInv
<1>5. TypeOK'
  BY <1>1 DEF Inv, TypeOK
<1>6. ScanInv'
  BY <1>1 DEF Inv, ScanInv, Wanted, Heeded, HasValue
<1> QED
  BY <1>3, <1>4, <1>5, <1>6 DEF Inv

-----------------------------------------------------------------------------
(* stop_process_pool.                                                      *)

\* The timer expires.
LEMMA StopPoolInv ==
  ASSUME Inv, stop_process_pool
  PROVE  Inv'
<1>1. /\ pc = "idle" /\ pc' = "stop" /\ index' = 0 /\ timer' = FALSE
      /\ UNCHANGED <<uuids, section, process_pool, worker, asked, action,
                     tasks, lost, todo, pool, done, mrl, scans>>
  BY DEF stop_process_pool, cacheVars, childVars, scanVars
<1>2. StopInv'
  BY <1>1, MediaCacheAssumption DEF Inv, RestInv, StopInv, Slots
<1>3. PoolInv' /\ RestInv' /\ RoundInv'
  BY <1>1 DEF PoolInv, InRound, RestInv, Inv, RoundInv
<1>4. TypeOK'
  <2>1. index' \in 0 .. PoolSize
    BY <1>1, MediaCacheAssumption
  <2> QED
    BY <1>1, <2>1 DEF Inv, TypeOK
<1>5. ScanInv'
  BY <1>1 DEF Inv, ScanInv, Wanted, HasValue, Heeded
<1> QED
  BY <1>2, <1>3, <1>4, <1>5 DEF Inv

\* A process is told to exit, ...
LEMMA StopNextInv ==
  ASSUME Inv, StopNext
  PROVE  Inv'
<1> PICK i : i = index
  OBVIOUS
<1>1. /\ pc = "stop" /\ i < PoolSize
      /\ UNCHANGED <<uuids, section, worker, asked, action, tasks, lost,
                     todo, pool, done, mrl, timer, scans>>
  BY DEF StopNext, cacheVars, scanVars
<1>2. i \in Slots /\ i \in Nat /\ i + 1 \in 0 .. PoolSize /\ i \in 0 .. PoolSize
  BY <1>1, MediaCacheAssumption DEF Inv, TypeOK, Slots
<1>3. \A s \in Slots : s \in Nat
  BY MediaCacheAssumption DEF Slots
<1>4. todo = {} /\ Quiet(process_pool[i], worker[i])
  BY <1>1, <1>2 DEF Inv, RoundInv, StopInv
<1>5. CASE /\ process_pool[i] = Null /\ index' = i + 1
           /\ UNCHANGED <<process_pool, pc>>
  <2>1. StopInv'
    BY <1>1, <1>2, <1>3, <1>5 DEF Inv, StopInv
  <2>2. PoolInv' /\ RestInv' /\ RoundInv'
    BY <1>1, <1>4, <1>5 DEF PoolInv, InRound, RestInv, RoundInv
  <2>3. TypeOK'
    BY <1>1, <1>2, <1>5 DEF Inv, TypeOK
  <2>4. ScanInv'
    BY <1>1, <1>5 DEF Inv, ScanInv, Wanted, HasValue, Heeded
  <2> QED
    BY <2>1, <2>2, <2>3, <2>4 DEF Inv
<1>6. CASE /\ process_pool[i] # Null /\ pc' = "join" /\ index' = i
           /\ process_pool' = [process_pool EXCEPT
                ![i] = Written(process_pool[i], Word("exit"))]
  <2> DEFINE p == process_pool[i]
             q == Written(p, Word("exit"))
  <2>1. p \in Records /\ worker[i] \in Workers
    BY <1>2, <1>6, SlotTypes DEF Inv
  <2>2. Leaving(q, worker[i])
    <3>1. CASE p.good
      <4>1. IsUp(p) /\ p.inp = <<>> /\ worker[i] = Resting
        BY <1>4, <1>6, <3>1 DEF Quiet
      <4>2. Word("exit") \in Commands
        BY DEF Commands
      <4>3. /\ q \in Records /\ q.inp = Append(p.inp, Word("exit"))
            /\ q.run = p.run
        BY <2>1, <3>1, <4>2, WrittenRecord
      <4>4. Append(<<>>, Word("exit")) = <<Word("exit")>>
        OBVIOUS
      <4> HIDE DEF p, q
      <4> QED
        BY <2>1, <4>1, <4>3, <4>4 DEF Leaving, IsUp
    <3>2. CASE ~p.good
      <4>1. q = p /\ IsEnded(p)
        BY <1>4, <1>6, <3>2 DEF Quiet, Written
      <4> QED
        BY <2>1, <4>1 DEF Leaving
    <3> QED
      BY <3>1, <3>2
  <2>3. q \in Records /\ process_pool' = [process_pool EXCEPT ![i] = q]
    BY <1>6, <2>2 DEF Leaving
  <2> HIDE DEF q
  <2>4. /\ process_pool' \in [Slots -> Processes] /\ process_pool'[i] = q
        /\ \A s \in Slots \ {i} : process_pool'[s] = process_pool[s]
    BY <1>2, <2>3, Exists DEF Inv, TypeOK
  <2>5. StopInv'
    BY <1>1, <1>2, <1>3, <1>6, <2>2, <2>4 DEF Inv, StopInv
  <2>6. PoolInv' /\ RestInv' /\ RoundInv'
    BY <1>1, <1>2, <1>4, <1>6 DEF PoolInv, InRound, RestInv, RoundInv
  <2>7. TypeOK'
    BY <1>1, <1>2, <1>6, <2>4 DEF Inv, TypeOK
  <2>8. ScanInv'
    BY <1>1, <1>6 DEF Inv, ScanInv, Wanted, HasValue, Heeded
  <2> QED
    BY <2>5, <2>6, <2>7, <2>8 DEF Inv
<1> QED
  BY <1>5, <1>6 DEF StopNext

\* ... and joined.
LEMMA JoinInv ==
  ASSUME Inv, Join
  PROVE  Inv'
<1> PICK i : i = index
  OBVIOUS
<1>1. /\ pc = "join" /\ pc' = "stop" /\ index' = i + 1
      /\ process_pool' = [process_pool EXCEPT ![i] = Null]
      /\ UNCHANGED <<uuids, section, worker, asked, action, tasks, lost,
                     todo, pool, done, mrl, timer, scans>>
  BY DEF Join, cacheVars, scanVars
<1>2. i \in Slots /\ i \in Nat /\ i + 1 \in 0 .. PoolSize /\ todo = {}
  BY <1>1, MediaCacheAssumption DEF Inv, RoundInv, TypeOK, Slots
<1>3. \A s \in Slots : s \in Nat
  BY MediaCacheAssumption DEF Slots
<1>4. /\ process_pool' \in [Slots -> Processes] /\ process_pool'[i] = Null
      /\ \A s \in Slots \ {i} : process_pool'[s] = process_pool[s]
  BY <1>1, <1>2, Exists DEF Inv, TypeOK
<1>5. StopInv'
  <2> SUFFICES ASSUME NEW s \in Slots
               PROVE  /\ s < i + 1 => process_pool'[s] = Null
                      /\ s >= i + 1 => Quiet(process_pool'[s], worker'[s])
    BY <1>1, <1>2, <1>3 DEF StopInv
  <2>1. CASE s = i
    BY <1>2, <1>4, <2>1
  <2>2. CASE s # i
    <3>1. process_pool'[s] = process_pool[s] /\ worker'[s] = worker[s]
      BY <1>1, <1>4, <2>2
    <3>2. (s < i + 1 => s < i) /\ (s >= i + 1 => s > i)
      BY <1>2, <1>3, <2>2
    <3> QED
      BY <1>1, <3>1, <3>2 DEF Inv, StopInv
  <2> QED
    BY <2>1, <2>2
<1>6. PoolInv' /\ RestInv' /\ RoundInv'
  BY <1>1, <1>2 DEF PoolInv, InRound, RestInv, RoundInv
<1>7. TypeOK'
  BY <1>1, <1>2, <1>4 DEF Inv, TypeOK
<1>8. ScanInv'
  BY <1>1 DEF Inv, ScanInv, Wanted, HasValue, Heeded
<1> QED
  BY <1>5, <1>6, <1>7, <1>8 DEF Inv

\* All are.
LEMMA StoppedInv ==
  ASSUME Inv, Stopped
  PROVE  Inv'
<1>1. /\ pc = "stop" /\ index = PoolSize /\ pc' = "idle"
      /\ UNCHANGED <<uuids, section, process_pool, worker, asked, action,
                     tasks, lost, todo, pool, index, done, mrl, timer, scans>>
  BY DEF Stopped, cacheVars, childVars, scanVars, roundVars
<1>2. \A s \in Slots : process_pool[s] = Null
  BY <1>1, MediaCacheAssumption DEF Inv, StopInv, Slots
<1>3. RestInv'
  BY <1>1, <1>2 DEF RestInv, Quiet
<1>4. PoolInv' /\ StopInv' /\ RoundInv'
  BY <1>1 DEF PoolInv, InRound, StopInv, Inv, RoundInv
<1>5. TypeOK'
  BY <1>1 DEF Inv, TypeOK
<1>6. ScanInv'
  BY <1>1 DEF Inv, ScanInv, Wanted, HasValue, Heeded
<1> QED
  BY <1>3, <1>4, <1>5, <1>6 DEF Inv

-----------------------------------------------------------------------------
\* Every step keeps the invariant.
LEMMA NextInv == Inv /\ [Next]_vars => Inv'
<1> SUFFICES ASSUME Inv, [Next]_vars PROVE Inv'
  OBVIOUS
<1>1. ASSUME NEW files \in SUBSET Mrls, ScanAll(files) PROVE Inv'
  <2>1. /\ pc = "idle" /\ scans < MaxScans /\ scans' = scans + 1
        /\ scan_all(files, uuids) /\ uuids' = uuids
        /\ UNCHANGED <<section, childVars, roundVars, timer>>
    BY <1>1 DEF ScanAll, cacheVars
  <2>2. scans' \in 0 .. MaxScans
    BY <2>1, MediaCacheAssumption DEF Inv, TypeOK
  <2>3. /\ uuids' \in [Mrls -> Uuids \cup {Unknown}]
        /\ \A m \in Mrls : uuids'[m] \in {Unknown, Uuid[m]}
        /\ scan_all(files, uuids')
    BY <2>1 DEF Inv, TypeOK, ScanInv
  <2> QED
    BY <2>1, <2>2, <2>3, ScanAllInv
<1>2. ASSUME NEW m \in Mrls, read_info(m) PROVE Inv'
  BY <1>2, ReadInfoInv
<1>3. CASE Loop
  BY <1>3, NextActionInv, RoundStartInv, SendInv, SendActionInv, TurnInv,
     CollectNameInv, SkipInv, CollectAnswerInv, EndRoundInv, StopNextInv,
     JoinInv, StoppedInv DEF Loop, process_tasks
<1>4. CASE stop_process_pool
  BY <1>4, StopPoolInv
<1>5. ASSUME NEW s \in Slots, ChildStep(s) \/ ChildCrash(s) PROVE Inv'
  BY <1>5, ChildStepInv
<1>6. CASE UNCHANGED vars
  <2>1. TypeOK' /\ ScanInv'
    BY <1>6 DEF vars, Inv, TypeOK, ScanInv, Wanted, HasValue, Heeded
  <2>2. PoolInv'
    BY <1>6 DEF vars, Inv, PoolInv, InRound, Wanted, Told, About
  <2>3. RestInv' /\ StopInv' /\ RoundInv'
    BY <1>6 DEF vars, Inv, RestInv, StopInv, RoundInv, Wanted
  <2> QED
    BY <2>1, <2>2, <2>3 DEF Inv
<1> QED
  BY <1>1, <1>2, <1>3, <1>4, <1>5, <1>6 DEF Next

\* The cache and its children keep their invariant.
THEOREM MediaCacheInvariant == Spec => []Inv
  BY InitInv, NextInv, PTL DEF Spec

\* Whatever files the children crash on, parent and children never
\* misunderstand each other, and the server never writes to a child that has
\* ended.
THEOREM PipesAlwaysAgree == Spec => []PipesAgree
<1>1. Inv => PipesInStep
  BY DEF Inv, RestInv, PipesInStep, Quiet
<1>2. ASSUME Inv PROVE NoBrokenPipe
  <2>1. pc = "send" => \A s \in pool : IsUp(process_pool[s])
    <3> SUFFICES ASSUME pc = "send", NEW s \in pool
                 PROVE  IsUp(process_pool[s])
      OBVIOUS
    <3>1. s \in Slots /\ ~Told(s) /\ InRound
      BY <1>2 DEF Inv, TypeOK, Told, InRound
    <3> QED
      BY <1>2, <3>1 DEF Inv, PoolInv, SlotOK, Waiting, Listening
  <2>2. pc = "start" => \A s \in pool : s >= index => IsUp(process_pool[s])
    <3> SUFFICES ASSUME pc = "start", NEW s \in pool, s >= index
                 PROVE  IsUp(process_pool[s])
      OBVIOUS
    <3>1. s \in Slots /\ s \in Int /\ index \in Int /\ InRound
      BY <1>2, MediaCacheAssumption DEF Inv, TypeOK, Slots, InRound
    <3>2. ~Told(s)
      BY <3>1 DEF Told
    <3> QED
      BY <1>2, <3>1, <3>2 DEF Inv, PoolInv, SlotOK, Waiting, Listening
  <2>3. pc = "stop" => \A s \in index .. PoolSize - 1 :
          IsGood(process_pool[s]) => IsUp(process_pool[s])
    <3> SUFFICES ASSUME pc = "stop", NEW s \in index .. PoolSize - 1
                 PROVE  IsGood(process_pool[s]) => IsUp(process_pool[s])
      OBVIOUS
    <3>1. s \in Slots /\ (s > index \/ s = index)
      BY <1>2, MediaCacheAssumption DEF Inv, TypeOK, Slots
    <3> QED
      BY <1>2, <3>1 DEF Inv, StopInv, Quiet, IsGood
  <2> QED
    BY <2>1, <2>2, <2>3 DEF NoBrokenPipe
<1>3. Inv => PipesAgree
  BY <1>1, <1>2 DEF PipesAgree, Inv
<1> QED
  BY <1>3, MediaCacheInvariant, PTL

\* A file on which libvlc crashes costs no other file its entry: scan_all()
\* leaves every file that was asked for described, but those.
THEOREM NoFileIsForgotten == Spec => []NoneForgotten
<1>1. Inv => NoneForgotten
  BY DEF Inv, ScanInv, NoneForgotten
<1> QED
  BY <1>1, MediaCacheInvariant, PTL

=============================================================================
