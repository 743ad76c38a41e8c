------------------------------ MODULE Inifile ------------------------------
(***************************************************************************)
(* platform::inifile (src/platform/inifile.cpp): a file of sections, names *)
(* and values, of which the settings, the watchlist and the media cache    *)
(* are kept.  Values that changed without changing length are written in   *)
(* place and new values of an only section are appended (a soft save);     *)
(* otherwise the file is written anew by way of a copy, `filename~' (a     *)
(* hard save).  The process may crash between any two steps of a save.     *)
(***************************************************************************)
EXTENDS Integers, FiniteSets, Sequences, SequencesExt

CONSTANTS
  Keys,     \* pairs <<section, name>>; section 0 is the one without a header
  Values,   \* values that are written
  Length,   \* the length of each value, escaped
  MayFail,  \* whether opening a file for writing may fail
  MaxCrashes, \* bound on the number of crashes
  MaxChanges  \* bound on the number of changes

None    == "none"     \* no value for a key
Bad     == "bad"      \* a value in a last line without end: its length wraps
Garbage == "garbage"  \* such a value with another line glued to it

ASSUME InifileAssumption ==
  /\ Keys \subseteq Nat \X Nat /\ IsFiniteSet(Keys)
  /\ {None, Bad, Garbage} \cap Values = {}
  /\ Length \in [Values -> Nat] /\ MayFail \in BOOLEAN
  /\ MaxCrashes \in Nat /\ MaxChanges \in Nat

VARIABLES
  file,     \* the lines of the file `filename'
  backup,   \* the lines of the file `filename~'
  mem,      \* the object: its string_refs, touched, and the on_touched timer
  pc,       \* where the process is in save_file()
  todo,     \* keys that the soft save has yet to look at
  exiting,  \* whether ~inifile saves
  stale,    \* whether a full save was cut short by a crash or failed (history)
  crashes,  \* number of crashes
  changes   \* number of changes

diskVars == <<file, backup>>
iniVars  == <<file, backup, mem, pc, todo, exiting, stale, crashes, changes>>

Line(kind, id, val) == [kind |-> kind, id |-> id, val |-> val]
Header(s)   == Line("header", s, None)
Entry(n, v) == Line("entry", n, v)
CutLine     == Line("cut", 0, None)    \* a last line without `=' or `]'
Junk        == Line("junk", 0, None)   \* such a line with another glued to it
Missing     == <<Line("missing", 0, None)>>

NoRef == [val |-> None, dirty |-> FALSE, line |-> 0, len |-> 0]
LengthOf(v) == IF v \in Values THEN Length[v] ELSE -1

-----------------------------------------------------------------------------
(* load_file and the text that a hard save writes.                         *)

SectionAt(text, i) ==
  LET H == {h \in 1 .. i : text[h].kind = "header"}
  IN  IF H = {} THEN 0 ELSE text[Max(H)].id

\* The lines with a value for a key, of which the last one counts.
LinesOf(text, k) ==
  {i \in 1 .. Len(text) : /\ text[i].kind = "entry" /\ text[i].id = k[2]
                          /\ SectionAt(text, i) = k[1]}

LineOf(text, k) ==
  LET I == LinesOf(text, k) IN IF I = {} THEN 0 ELSE Max(I)

Parsed(text) ==
  [k \in Keys |->
     LET i == LineOf(text, k)
     IN  IF i = 0 THEN NoRef
         ELSE [val |-> text[i].val, dirty |-> FALSE, line |-> i,
               len |-> LengthOf(text[i].val)]]

load_file(text) == [refs |-> Parsed(text), touched |-> "none", armed |-> FALSE]

Present(refs)  == {k \in Keys : refs[k].val # None}
Sections(refs) == {k[1] : k \in Present(refs)}

\* The order of the maps: by section, then by name.
Before(p, q) == p[1] < q[1] \/ (p[1] = q[1] /\ p[2] < q[2])

\* SetToSortSeq, in one step.
InOrder(S) ==
  CHOOSE s \in [1 .. Cardinality(S) -> S] :
    \A i, j \in 1 .. Cardinality(S) : i < j => Before(s[i], s[j])

\* The places of the lines: a header, as name -1, comes before its names.
Places(refs) ==
  Present(refs) \cup {<<s, -1>> : s \in Sections(refs) \ {0}}

LineAt(refs, p) ==
  IF p[2] = -1 THEN Header(p[1]) ELSE Entry(p[2], refs[p].val)

Text(refs) ==
  LET places == InOrder(Places(refs))
  IN  [i \in DOMAIN places |-> LineAt(refs, places[i])]

-----------------------------------------------------------------------------
(* Changes of values in memory.                                            *)

soft_touch(m) ==
  [m EXCEPT !.touched = IF @ = "none" THEN "soft" ELSE @, !.armed = TRUE]

hard_touch(m) == [m EXCEPT !.touched = "hard", !.armed = TRUE]

Replaced(m, k, v) ==
  LET changed == [m EXCEPT !.refs[k].val = v, !.refs[k].dirty = TRUE]
  IN  IF LengthOf(v) = m.refs[k].len
      THEN soft_touch(changed) ELSE hard_touch(changed)

\* Mutant of Inserted: the new line is appended whatever section is last.
InsertedAtEnd(m, k, v) ==
  LET changed == [m EXCEPT !.refs[k] = [NoRef EXCEPT !.val = v, !.dirty = TRUE]]
  IN  IF k[1] \in Sections(m.refs)
      THEN soft_touch(changed) ELSE hard_touch(changed)

Inserted(m, k, v) ==
  LET changed == [m EXCEPT !.refs[k] = [NoRef EXCEPT !.val = v, !.dirty = TRUE]]
  IN  IF Sections(m.refs) = {k[1]}
      THEN soft_touch(changed) ELSE hard_touch(changed)

\* section::write.  Reading a Bad value throws: see Throw.
write(m, k, v) ==
  CASE m.refs[k].val = v    -> m
    [] m.refs[k].val = None -> Inserted(m, k, v)
    [] OTHER                -> Replaced(m, k, v)

\* section::erase, and erase_section for all keys of a section.
erase(m, gone) ==
  IF gone \cap Present(m.refs) = {} THEN m
  ELSE hard_touch([m EXCEPT !.refs =
         [k \in Keys |-> IF k \in gone THEN NoRef ELSE @[k]]])

Init ==
  /\ file = Missing /\ backup = Missing /\ mem = load_file(Missing)
  /\ pc = "down" /\ todo = {} /\ exiting = FALSE
  /\ stale = FALSE /\ crashes = 0 /\ changes = 0

Write(k, v) ==
  /\ pc = "idle" /\ mem.refs[k].val # Bad
  /\ changes < MaxChanges /\ changes' = changes + 1
  /\ mem' = write(mem, k, v)
  /\ UNCHANGED <<diskVars, pc, todo, exiting, stale, crashes>>

Erase(gone) ==
  /\ pc = "idle"
  /\ changes < MaxChanges /\ changes' = changes + 1
  /\ mem' = erase(mem, gone)
  /\ UNCHANGED <<diskVars, pc, todo, exiting, stale, crashes>>

-----------------------------------------------------------------------------
(* save_file, from the timer that on_touched starts or from ~inifile.      *)

Dirty(m) == {k \in Keys : m.refs[k].dirty}

Begin(m) ==
  /\ mem' = [m EXCEPT !.armed = FALSE]
  /\ todo' = IF m.touched = "soft" THEN Dirty(m) ELSE {}
  /\ pc' = IF m.touched = "none" THEN "done" ELSE m.touched

save ==
  /\ pc = "idle" /\ mem.armed /\ Begin(mem)
  /\ UNCHANGED <<diskVars, exiting, stale, crashes, changes>>

\* ~inifile, with what its owner leaves in it.
Exit(m) ==
  /\ pc = "idle" /\ Begin(m)
  /\ exiting' = TRUE
  /\ UNCHANGED <<diskVars, stale, crashes, changes>>

Unterminated(text) ==
  text # <<>> /\ (Last(text) = CutLine \/ Last(text).val = Bad)

\* A line written at the end of the file becomes part of a last line that has
\* no end.
Appended(text, l) ==
  IF ~Unterminated(text) THEN Append(text, l)
  ELSE Append(Front(text), IF Last(text) = CutLine THEN Junk
                           ELSE [Last(text) EXCEPT !.val = Garbage])

\* Writing in place changes a value, or some bytes of a glued line.
InPlace(text, i, v) ==
  IF text[i].kind = "entry" /\ text[i].val # Garbage
  THEN [text EXCEPT ![i].val = v] ELSE text

\* The next value of the soft save, in the order of the map.
FirstKey(S) == CHOOSE k \in S : \A q \in S \ {k} : Before(k, q)

Cleaned(m, k, line) ==
  [m EXCEPT !.refs[k] = [val |-> @.val, dirty |-> FALSE, line |-> line,
                         len |-> LengthOf(@.val)]]

\* One value of a soft save: it is on disk when the file seeks or flushes.
SoftStep ==
  /\ pc = "soft" /\ todo # {}
  /\ LET k == FirstKey(todo)
         r == mem.refs[k]
     IN  /\ todo' = todo \ {k}
         /\ \/ /\ r.line > 0 /\ LengthOf(r.val) = r.len
               /\ file' = InPlace(file, r.line, r.val)
               /\ mem' = Cleaned(mem, k, r.line)
            \/ /\ r.line = 0 /\ file # Missing
               /\ file' = Appended(file, Entry(k[2], r.val))
               /\ mem' = Cleaned(mem, k, Len(file'))
            \/ /\ IF r.line > 0 THEN LengthOf(r.val) # r.len
                                ELSE file = Missing
               /\ UNCHANGED <<file, mem>>
  /\ UNCHANGED <<backup, pc, exiting, stale, crashes, changes>>

\* Mutant of OpenCopy: `filename' is written without a copy.
OpenCopyInPlace ==
  /\ pc = "hard" /\ pc' = "truncated" /\ backup' = <<>> /\ file' = <<>>
  /\ UNCHANGED <<mem, todo, exiting, stale, crashes, changes>>

\* The copy is truncated, ...
OpenCopy ==
  /\ pc = "hard"
  /\ \/ pc' = "writing" /\ backup' = <<>>
     \/ MayFail /\ pc' = "done" /\ UNCHANGED backup
  /\ stale' = (stale \/ pc' = "done")
  /\ UNCHANGED <<file, mem, todo, exiting, crashes, changes>>

\* ... written (see Throw for Bad values) and flushed; ...
WriteCopy ==
  /\ pc = "writing" /\ \A k \in Keys : mem.refs[k].val # Bad
  /\ backup' = Text(mem.refs)
  /\ pc' = "written"
  /\ UNCHANGED <<file, mem, todo, exiting, stale, crashes, changes>>

\* ... then the file is truncated, or the object is left without a file, ...
Truncate ==
  /\ pc = "written"
  /\ \/ pc' = "truncated" /\ file' = <<>>
     \/ MayFail /\ pc' = "reload" /\ UNCHANGED file
  /\ stale' = (stale \/ pc' = "reload")
  /\ UNCHANGED <<backup, mem, todo, exiting, crashes, changes>>

\* What a line leaves when only its beginning is written.
Begun(l) ==
  {CutLine} \cup IF l.kind = "entry" THEN {[l EXCEPT !.val = Bad]} ELSE {}

\* ... and the copy is copied, in pieces that end anywhere, ...
CopyPart ==
  /\ pc = "truncated"
  /\ \E n \in 0 .. Len(backup) - 1 :
       LET copied == SubSeq(backup, 1, n)
       IN  \/ file' = copied
           \/ \E l \in Begun(backup[n + 1]) : file' = Append(copied, l)
  /\ UNCHANGED <<backup, mem, pc, todo, exiting, stale, crashes, changes>>

CopyEnd ==
  /\ pc = "truncated"
  /\ file' = backup /\ stale' = FALSE
  /\ pc' = "copied"
  /\ UNCHANGED <<backup, mem, todo, exiting, crashes, changes>>

\* ... and removed.
RemoveCopy ==
  /\ pc = "copied"
  /\ backup' = Missing
  /\ pc' = "reload"
  /\ UNCHANGED <<file, mem, todo, exiting, stale, crashes, changes>>

\* save() loads the file again when save_file has closed it.
AfterSave ==
  IF pc = "reload" THEN load_file(file) ELSE [mem EXCEPT !.touched = "none"]

\* The end of save_file.
EndSave ==
  /\ \/ pc = "soft" /\ todo = {}
     \/ pc \in {"done", "reload"}
  /\ mem' = IF exiting THEN load_file(Missing) ELSE AfterSave
  /\ pc' = IF exiting THEN "down" ELSE "idle"
  /\ exiting' = FALSE
  /\ UNCHANGED <<diskVars, todo, stale, crashes, changes>>

\* The process ends without ~inifile; what it wrote and flushed stays.
Die ==
  /\ pc' = "down" /\ stale' = (stale \/ pc = "truncated")
  /\ mem' = load_file(Missing) /\ todo' = {} /\ exiting' = FALSE
  /\ UNCHANGED diskVars

Crash ==
  /\ pc # "down" /\ crashes < MaxCrashes /\ crashes' = crashes + 1
  /\ Die
  /\ UNCHANGED changes

\* Reading a Bad value, to replace it or to save it, throws std::length_error,
\* which nothing catches.
Throw ==
  /\ pc \in {"idle", "writing"} /\ \E k \in Keys : mem.refs[k].val = Bad
  /\ Die
  /\ UNCHANGED <<crashes, changes>>

\* The constructor, and what its owner then does to it.
Start(m) ==
  /\ pc = "down" /\ pc' = "idle"
  /\ mem' = m
  /\ UNCHANGED <<diskVars, todo, exiting, stale, crashes, changes>>

SaveSteps ==
  \/ SoftStep \/ OpenCopy \/ WriteCopy \/ Truncate \/ CopyPart \/ CopyEnd
  \/ RemoveCopy \/ EndSave

\* What the owner of some of the keys does with them.
Change(keys) ==
  \/ \E k \in keys, v \in Values : Write(k, v)
  \/ \E k \in keys : Erase({k})
  \/ \E s \in Sections(mem.refs) :
       LET all == {k \in Keys : k[1] = s} IN all \subseteq keys /\ Erase(all)

-----------------------------------------------------------------------------
(* Properties.                                                             *)

Kinds == {"header", "entry", "cut", "junk", "missing"}
AnyValue == Values \cup {None, Bad, Garbage}
Lines == [kind : Kinds, id : Nat, val : AnyValue]
TextType == Seq(Lines)
Refs == [Keys -> [val : AnyValue, dirty : BOOLEAN, line : Nat, len : Int]]
Mem == [refs : Refs, touched : {"none", "soft", "hard"}, armed : BOOLEAN]

TypeOK ==
  /\ file \in TextType /\ backup \in TextType /\ mem \in Mem
  /\ pc \in {"down", "idle", "soft", "hard", "writing", "written", "truncated",
             "copied", "reload", "done"}
  /\ todo \subseteq Keys /\ exiting \in BOOLEAN /\ stale \in BOOLEAN
  /\ crashes \in 0 .. MaxCrashes /\ changes \in 0 .. MaxChanges
  /\ pc \notin {"truncated", "copied", "reload"} =>
       \A k \in Keys : mem.refs[k].line <= Len(file)

\* When no save is due, and when a full save has copied its copy, the file says
\* what the object says: after any sequence of changes, saves in place and full
\* saves, and crashes and restarts, reading the file gives every value, in its
\* section, and no other.  The exception, until the next full save, is one that
\* a crash cut short (its last line may be unfinished, its last section empty)
\* or that could not open a file.
SavedAgrees ==
  (pc = "idle" /\ ~mem.armed /\ ~stale) \/ pc = "copied" =>
    \A k \in Keys : Parsed(file)[k].val = mem.refs[k].val

Fits(k) ==
  IF mem.refs[k].line > 0 THEN LengthOf(mem.refs[k].val) = mem.refs[k].len
                          ELSE Cardinality(Sections(mem.refs)) = 1

\* The assertions of save_file: a value that is written in place has the length
\* of the value it overwrites, and a line is only appended when the file has
\* one section, so that it is read back into that section.
AssertionsHold == pc = "soft" => \A k \in todo : Fits(k)

\* A full save never destroys the only copy: the file is overwritten only while
\* `filename~' holds everything, so that a crash loses nothing on the disk.
OverwritesWithCopy ==
  [][file' # file /\ pc # "soft" => backup = Text(mem.refs)]_iniVars

=============================================================================
