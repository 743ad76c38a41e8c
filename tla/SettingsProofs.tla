--------------------------- MODULE SettingsProofs ---------------------------
(***************************************************************************)
(* The theorems of Settings and Inifile.  What a save in place relies on   *)
(* is that the object knows its file: where the line of each value is, how *)
(* long the value there is, and which section a line appended to the file  *)
(* falls into (Synced).  That is true of a file that was written as a      *)
(* whole (Whole), and every step keeps it, unless a full save fails or is  *)
(* cut short.  What a full save relies on is that the text it writes is    *)
(* read back as it was (TextIsRead).                                       *)
(***************************************************************************)
EXTENDS Settings, FiniteSetTheorems, SequenceTheorems, WellFoundedInduction,
        TLAPS

-----------------------------------------------------------------------------
(* The invariant.                                                          *)

ValueOf(text, k) == Parsed(text)[k].val
LastSection(text) == SectionAt(text, Len(text))

\* A file that no crash cut short: its lines are ended, and the last section
\* has a value, so that it is among those that load_file finds.
Whole(text) ==
  \/ text = Missing
  \/ /\ \A i \in 1 .. Len(text) :
          /\ text[i].kind \in {"header", "entry"}
          /\ text[i].kind = "entry" => text[i].val # None
          /\ text[i].val # Bad
     /\ text # <<>> =>
          \E k \in Keys : k[1] = LastSection(text) /\ LineOf(text, k) # 0

\* A changed value fits where it will be written.
Placed(refs, text, k) ==
  /\ refs[k].val \in Values
  /\ refs[k].line # 0 => LengthOf(refs[k].val) = refs[k].len
  /\ refs[k].line = 0 =>
       /\ text # Missing /\ text # <<>>
       /\ LastSection(text) = k[1] /\ Sections(refs) = {k[1]}

Synced(refs, text) ==
  \A k \in Keys :
    /\ refs[k].line = LineOf(text, k)
    /\ refs[k].line # 0 => refs[k].len = LengthOf(ValueOf(text, k))
    /\ ~refs[k].dirty => refs[k].val = ValueOf(text, k)
    /\ refs[k].dirty => Placed(refs, text, k)

Agrees(refs, text) == \A k \in Keys : refs[k].val = ValueOf(text, k)

FileInv == ~stale /\ pc # "truncated" => Whole(file)

CopyInv ==
  /\ pc \in {"written", "truncated", "copied"} =>
       /\ backup = Text(mem.refs)
       /\ \A k \in Keys : mem.refs[k].val # Bad
  /\ pc = "copied" => file = backup
  /\ pc \in {"copied", "reload"} /\ ~stale => Agrees(mem.refs, file)
  /\ pc = "copied" => ~stale

TouchInv ==
  /\ pc = "idle" => (mem.armed <=> mem.touched # "none")
  /\ pc \notin {"idle", "down"} => ~mem.armed
  /\ pc = "idle" /\ mem.touched = "none" /\ ~stale => Dirty(mem) = {}
  /\ pc = "done" /\ ~stale => Dirty(mem) = {}
  /\ pc = "soft" /\ ~stale => todo = Dirty(mem)

SyncInv ==
  /\ ~stale
  /\ pc \in {"soft", "done"} \/ (pc = "idle" /\ mem.touched # "hard")
  => Synced(mem.refs, file)

\* The mark of a run that is not over.
MarkInv ==
  /\ pc # "down" /\ saved # "failed" /\ ~exiting =>
       mem.refs[clean_exit].val = False
  /\ exiting => pc \notin {"idle", "down"} /\ mem.refs[clean_exit].val = None
  /\ pc = "reload" /\ saved # "failed" => ~stale
  /\ saved = "yes" /\ ~stale /\ ~exiting /\ pc \notin {"down", "truncated"} =>
       ValueOf(file, clean_exit) = False

EndInv ==
  pc = "down" =>
    /\ ended = "clean" => ValueOf(file, clean_exit) # False
    /\ ended = "crashed" => ValueOf(file, clean_exit) = False

HistoryOK ==
  /\ last_clean_exit \in BOOLEAN /\ saved \in {"no", "yes", "failed"}
  /\ ended \in {"first", "clean", "clean unsaved", "crashed",
                "crashed unsaved"}

Inv ==
  /\ TypeOK /\ HistoryOK /\ FileInv /\ CopyInv /\ TouchInv /\ SyncInv
  /\ MarkInv /\ EndInv /\ ExitReported

-----------------------------------------------------------------------------
(* Least and greatest elements.                                            *)

\* A set of naturals has a least one.
LEMMA LeastNatural ==
  ASSUME NEW T \in SUBSET Nat, T # {}
  PROVE  \E x \in T : \A y \in T : x <= y
<1>1. PICK x \in T : \A y \in T : ~(<<y, x>> \in OpToRel(<, Nat))
  BY NatLessThanWellFounded, WFMin
<1>2. \A y \in T : ~(y < x)
  BY <1>1 DEF OpToRel
<1> QED
  BY <1>2

\* A set of line numbers has a greatest one.
LEMMA GreatestLine ==
  ASSUME NEW n \in Nat, NEW S \in SUBSET (1 .. n), S # {}
  PROVE  Max(S) \in S /\ \A y \in S : y <= Max(S)
<1> DEFINE T == {m \in Nat : \A y \in S : y <= m}
<1>1. n \in T
  OBVIOUS
<1>2. PICK m \in T : \A y \in T : m <= y
  BY <1>1, LeastNatural
<1>3. m \in S
  <2> SUFFICES ASSUME m \notin S PROVE FALSE
    OBVIOUS
  <2>1. \A y \in S : y <= m - 1
    BY <1>2
  <2>2. m \in Nat /\ m # 0
    <3>1. PICK y : y \in S
      OBVIOUS
    <3>2. y \in 1 .. n /\ y <= m
      BY <1>2, <3>1
    <3> QED
      BY <1>2, <3>2
  <2>3. m - 1 \in T
    BY <2>1, <2>2
  <2> QED
    BY <1>2, <2>2, <2>3
<1>4. \A y \in S : m >= y
  BY <1>2
<1>5. \E x \in S : \A y \in S : x >= y
  BY <1>3, <1>4
<1>6. Max(S) \in S /\ \A y \in S : Max(S) >= y
  BY <1>5 DEF Max
<1> QED
  BY <1>6

\* The places of lines in the text.
Place == Nat \X (Nat \cup {-1})

\* A set of places has a first one in the order of the text.
LEMMA FirstPlace ==
  ASSUME NEW S \in SUBSET Place, S # {}
  PROVE  \E p \in S : \A q \in S \ {p} : Before(p, q)
<1> DEFINE T == {p[1] : p \in S}
<1>1. T \in SUBSET Nat /\ T # {}
  BY DEF Place
<1>2. PICK s \in T : \A y \in T : s <= y
  BY <1>1, LeastNatural
<1> DEFINE U == {p[2] + 1 : p \in {q \in S : q[1] = s}}
<1>3. U \in SUBSET Nat /\ U # {}
  BY <1>2 DEF Place
<1>4. PICK u \in U : \A y \in U : u <= y
  BY <1>3, LeastNatural
<1>5. PICK p \in S : p[1] = s /\ p[2] + 1 = u
  BY <1>4
<1>6. ASSUME NEW q \in S \ {p} PROVE Before(p, q)
  <2>1. /\ p \in Place /\ q \in Place /\ p[1] \in Nat /\ q[1] \in Nat
        /\ p[2] \in Int /\ q[2] \in Int
    BY DEF Place
  <2>2. p[1] <= q[1]
    BY <1>2, <1>5
  <2>3. CASE p[1] = q[1]
    <3>1. p[2] # q[2]
      BY <1>6, <2>1, <2>3 DEF Place
    <3>2. q[2] + 1 \in U
      BY <1>5, <2>3
    <3>3. p[2] + 1 <= q[2] + 1
      BY <1>4, <1>5, <3>2
    <3>4. p[2] < q[2]
      BY <2>1, <3>1, <3>3
    <3> QED
      BY <2>3, <3>4 DEF Before
  <2> QED
    BY <2>1, <2>2, <2>3 DEF Before
<1> QED
  BY <1>6

Sorts(s, S) ==
  /\ s \in [1 .. Cardinality(S) -> S]
  /\ \A i, j \in 1 .. Cardinality(S) : i < j => Before(s[i], s[j])

\* A finite set of places can be sorted: the smallest one that cannot is its
\* first place and a set that can.
LEMMA Sortable ==
  ASSUME NEW S \in SUBSET Place, IsFiniteSet(S)
  PROVE  \E s : Sorts(s, S)
<1> DEFINE No(R, n) == /\ IsFiniteSet(R) /\ Cardinality(R) = n
                       /\ ~\E s : Sorts(s, R)
           T == {n \in Nat : \E R \in SUBSET Place : No(R, n)}
<1> SUFFICES ASSUME ~\E s : Sorts(s, S) PROVE FALSE
  OBVIOUS
<1>1. Cardinality(S) \in T
  BY FS_CardinalityType
<1>2. PICK n \in T : \A y \in T : n <= y
  BY <1>1, LeastNatural
<1>3. PICK R \in SUBSET Place : No(R, n)
  BY <1>2
<1>4. n \in Nat
  BY <1>2
<1>5. R # {}
  <2> SUFFICES ASSUME R = {} PROVE FALSE
    OBVIOUS
  <2>1. n = 0
    BY <1>3, FS_EmptySet
  <2>2. [i \in 1 .. 0 |-> i] \in [1 .. Cardinality(R) -> R]
    BY <1>3, <2>1
  <2>3. Sorts([i \in 1 .. 0 |-> i], R)
    BY <1>3, <2>1, <2>2 DEF Sorts
  <2> QED
    BY <1>3, <2>3
<1>6. n > 0
  BY <1>3, <1>4, <1>5, FS_EmptySet
<1>7. PICK p \in R : \A q \in R \ {p} : Before(p, q)
  BY <1>5, FirstPlace
<1> DEFINE Q == R \ {p}
<1>8. IsFiniteSet(Q) /\ Cardinality(Q) = n - 1
  BY <1>3, <1>7, FS_RemoveElement
<1>9. PICK s : Sorts(s, Q)
  <2> SUFFICES ASSUME ~\E s : Sorts(s, Q) PROVE FALSE
    OBVIOUS
  <2>1. n - 1 \in T
    BY <1>4, <1>6, <1>8
  <2> QED
    BY <1>2, <1>4, <2>1
<1> DEFINE t == [i \in 1 .. n |-> IF i = 1 THEN p ELSE s[i - 1]]
<1>10. \A i \in 2 .. n : i - 1 \in 1 .. Cardinality(Q)
  BY <1>4, <1>8
<1>11. \A i \in 2 .. n : t[i] = s[i - 1] /\ t[i] \in Q
  <2> SUFFICES ASSUME NEW i \in 2 .. n
               PROVE  t[i] = s[i - 1] /\ t[i] \in Q
    OBVIOUS
  <2>1. i \in 1 .. n /\ i # 1
    BY <1>4
  <2>2. t[i] = s[i - 1]
    BY <2>1
  <2> QED
    BY <1>9, <1>10, <2>2 DEF Sorts
<1>12. t[1] = p /\ \A i \in 1 .. n : i = 1 \/ i \in 2 .. n
  BY <1>4, <1>6
<1>13. t \in [1 .. n -> R]
  BY <1>7, <1>11, <1>12
<1>14. ASSUME NEW i \in 1 .. n, NEW j \in 1 .. n, i < j
       PROVE  Before(t[i], t[j])
  <2>1. j \in 2 .. n
    BY <1>4, <1>14
  <2>2. CASE i = 1
    BY <1>7, <1>11, <1>12, <2>1, <2>2
  <2>3. CASE i \in 2 .. n
    <3>1. i - 1 < j - 1
      BY <1>4, <1>14
    <3> QED
      BY <1>9, <1>10, <1>11, <2>1, <2>3, <3>1 DEF Sorts
  <2> QED
    BY <1>12, <2>2, <2>3
<1>15. Sorts(t, R)
  BY <1>3, <1>13, <1>14 DEF Sorts
<1> QED
  BY <1>3, <1>15

\* InOrder lists a finite set of places in order, all of them.
LEMMA InOrderSorts ==
  ASSUME NEW S \in SUBSET Place, IsFiniteSet(S)
  PROVE  /\ Cardinality(S) \in Nat /\ Sorts(InOrder(S), S)
         /\ \A p \in S : \E i \in 1 .. Cardinality(S) : InOrder(S)[i] = p
<1> DEFINE n == Cardinality(S)
           s == InOrder(S)
<1>1. n \in Nat
  BY FS_CardinalityType
<1>2. Sorts(s, S)
  BY Sortable DEF Sorts, InOrder
<1>3. IsFiniteSet(1 .. n) /\ Cardinality(1 .. n) = n
  BY <1>1, FS_Interval
<1>4. ASSUME NEW i \in 1 .. n, NEW j \in 1 .. n, s[i] = s[j] PROVE i = j
  <2>1. s[i] \in Place /\ s[j] \in Place
    BY <1>2 DEF Sorts
  <2>2. ~Before(s[i], s[j]) /\ ~Before(s[j], s[i])
    BY <1>4, <2>1 DEF Before, Place
  <2>3. ~(i < j) /\ ~(j < i)
    BY <1>2, <2>2 DEF Sorts
  <2> QED
    BY <1>1, <2>3
<1>5. s \in Injection(1 .. n, S)
  BY <1>2, <1>4 DEF Sorts, Injection, IsInjective
<1>6. s \in Surjection(1 .. n, S)
  BY <1>3, <1>5, FS_Injection
<1>7. \A p \in S : \E i \in 1 .. n : s[i] = p
  BY <1>6 DEF Surjection
<1> QED
  BY <1>1, <1>2, <1>7

-----------------------------------------------------------------------------
(* Lines, sections and values of a text.                                   *)

\* A text is a sequence of lines.
LEMMA TextLines ==
  ASSUME NEW text \in TextType
  PROVE  /\ text \in Seq(Lines) /\ Len(text) \in Nat
         /\ text \in [1 .. Len(text) -> Lines]
         /\ \A i \in 1 .. Len(text) : text[i] \in Lines
<1>1. text \in Seq(Lines)
  BY DEF TextType, Lines
<1> HIDE DEF Lines
<1> QED
  BY <1>1

\* The section of a line is that of the last header before it.
LEMMA SectionOfHeader ==
  ASSUME NEW text, NEW i \in Nat, NEW h \in 1 .. i, text[h].kind = "header",
         \A g \in 1 .. i : text[g].kind = "header" => g <= h
  PROVE  SectionAt(text, i) = text[h].id
<1> DEFINE H == {g \in 1 .. i : text[g].kind = "header"}
<1>1. h \in H /\ H \in SUBSET (1 .. i)
  OBVIOUS
<1>2. Max(H) \in H /\ \A g \in H : g <= Max(H)
  BY <1>1, GreatestLine
<1>3. Max(H) = h
  BY <1>1, <1>2
<1> QED
  BY <1>1, <1>3 DEF SectionAt

\* Texts with the same headers have the same sections.
LEMMA SameSections ==
  ASSUME NEW a, NEW b, NEW i \in Nat,
         \A h \in 1 .. i : a[h].kind = b[h].kind /\ a[h].id = b[h].id
  PROVE  SectionAt(a, i) = SectionAt(b, i)
<1> DEFINE H == {g \in 1 .. i : a[g].kind = "header"}
           G == {g \in 1 .. i : b[g].kind = "header"}
<1>1. H = G /\ H \in SUBSET (1 .. i)
  OBVIOUS
<1>2. H # {} => Max(H) \in 1 .. i
  BY <1>1, GreatestLine
<1> QED
  BY <1>1, <1>2 DEF SectionAt

\* The line of a value is the last one with its name in its section.
LEMMA LineFacts ==
  ASSUME NEW text, Len(text) \in Nat, NEW k
  PROVE  /\ LineOf(text, k) \in 0 .. Len(text)
         /\ LineOf(text, k) # 0 <=> LinesOf(text, k) # {}
         /\ LineOf(text, k) # 0 =>
              /\ LineOf(text, k) \in LinesOf(text, k)
              /\ \A i \in LinesOf(text, k) : i <= LineOf(text, k)
<1> DEFINE I == LinesOf(text, k)
<1>1. I \in SUBSET (1 .. Len(text))
  BY DEF LinesOf
<1>2. I # {} => Max(I) \in I /\ \A i \in I : i <= Max(I)
  BY <1>1, GreatestLine
<1> HIDE DEF I
<1>3. LineOf(text, k) = IF I = {} THEN 0 ELSE Max(I)
  BY DEF LineOf, I
<1>4. CASE I = {}
  BY <1>3, <1>4 DEF I
<1>5. CASE I # {}
  BY <1>1, <1>2, <1>3, <1>5 DEF I
<1> QED
  BY <1>4, <1>5

\* What load_file makes of a value.
LEMMA ParsedFacts ==
  ASSUME NEW text, NEW k \in Keys
  PROVE  /\ LineOf(text, k) = 0 =>
              Parsed(text)[k] = NoRef /\ ValueOf(text, k) = None
         /\ LineOf(text, k) # 0 =>
              /\ Parsed(text)[k] =
                   [val |-> text[LineOf(text, k)].val, dirty |-> FALSE,
                    line |-> LineOf(text, k),
                    len |-> LengthOf(text[LineOf(text, k)].val)]
              /\ ValueOf(text, k) = text[LineOf(text, k)].val
<1>1. CASE LineOf(text, k) = 0
  BY <1>1 DEF Parsed, ValueOf, NoRef
<1>2. CASE LineOf(text, k) # 0
  BY <1>2 DEF Parsed, ValueOf
<1> QED
  BY <1>1, <1>2

\* The value of a key is that of its line.
LEMMA ValueFacts ==
  ASSUME NEW text, NEW k \in Keys
  PROVE  ValueOf(text, k) = IF LineOf(text, k) = 0 THEN None
                            ELSE text[LineOf(text, k)].val
BY ParsedFacts

\* What load_file returns has the type of an object.
LEMMA ParsedType ==
  ASSUME NEW text \in TextType
  PROVE  /\ Parsed(text) \in Refs
         /\ \A k \in Keys : Parsed(text)[k].line \in 0 .. Len(text)
<1>1. Len(text) \in Nat /\ \A i \in 1 .. Len(text) : text[i] \in Lines
  BY TextLines
<1>2. ASSUME NEW k \in Keys
      PROVE  /\ Parsed(text)[k] \in [val : AnyValue, dirty : BOOLEAN,
                                     line : Nat, len : Int]
             /\ Parsed(text)[k].line \in 0 .. Len(text)
  <2>1. LineOf(text, k) \in 0 .. Len(text)
    BY <1>1, LineFacts
  <2>2. CASE LineOf(text, k) = 0
    <3>1. Parsed(text)[k] = NoRef
      BY <2>2, ParsedFacts
    <3>2. NoRef \in [val : AnyValue, dirty : BOOLEAN, line : Nat, len : Int]
          /\ NoRef.line = 0
      BY DEF NoRef, AnyValue
    <3> QED
      BY <1>1, <3>1, <3>2
  <2>3. CASE LineOf(text, k) # 0
    <3>1. text[LineOf(text, k)].val \in AnyValue
      BY <1>1, <2>1, <2>3 DEF Lines
    <3>2. LengthOf(text[LineOf(text, k)].val) \in Int
      BY InifileAssumption DEF LengthOf
    <3>3. LineOf(text, k) \in Nat
      BY <1>1, <2>1
    <3>4. Parsed(text)[k] =
            [val |-> text[LineOf(text, k)].val, dirty |-> FALSE,
             line |-> LineOf(text, k),
             len |-> LengthOf(text[LineOf(text, k)].val)]
      BY <2>3, ParsedFacts
    <3> QED
      BY <2>1, <3>1, <3>2, <3>3, <3>4
  <2> QED
    BY <2>2, <2>3
<1>3. Parsed(text) \in Refs
  BY <1>2 DEF Parsed, Refs
<1> QED
  BY <1>2, <1>3

\* Two keys have no line in common.
LEMMA LinesDiffer ==
  ASSUME NEW text, Len(text) \in Nat, NEW k \in Keys, NEW q \in Keys, k # q,
         LineOf(text, k) # 0
  PROVE  LineOf(text, q) # LineOf(text, k)
<1> SUFFICES ASSUME LineOf(text, q) = LineOf(text, k) PROVE FALSE
  OBVIOUS
<1> DEFINE i == LineOf(text, k)
<1>1. i \in LinesOf(text, k) /\ i \in LinesOf(text, q)
  BY LineFacts
<1>2. k[1] = q[1] /\ k[2] = q[2]
  BY <1>1 DEF LinesOf
<1>3. k \in Nat \X Nat /\ q \in Nat \X Nat
  BY InifileAssumption
<1> QED
  BY <1>2, <1>3

\* There is no value in a file that is not there.
LEMMA MissingFacts ==
  /\ Missing \in TextType /\ Len(Missing) = 1
  /\ \A k \in Keys : LineOf(Missing, k) = 0 /\ ValueOf(Missing, k) = None
<1>1. /\ Missing \in TextType /\ Len(Missing) = 1 /\ Len(Missing) \in Nat
      /\ Missing[1].kind = "missing"
  BY DEF Missing, Line, TextType, Lines, Kinds, AnyValue
<1>2. ASSUME NEW k \in Keys PROVE LinesOf(Missing, k) = {}
  BY <1>1 DEF LinesOf
<1>3. ASSUME NEW k \in Keys
      PROVE  LineOf(Missing, k) = 0 /\ ValueOf(Missing, k) = None
  BY <1>1, <1>2, LineFacts, ParsedFacts
<1> QED
  BY <1>1, <1>3

-----------------------------------------------------------------------------
(* What a save in place makes of a text.                                   *)

\* A value is written over one of its length: it changes, and nothing else
\* does.
LEMMA InPlaceFacts ==
  ASSUME NEW text \in TextType, NEW k \in Keys, LineOf(text, k) # 0,
         ValueOf(text, k) # Garbage, NEW v \in Values, NEW b,
         b = InPlace(text, LineOf(text, k), v)
  PROVE  /\ b \in TextType /\ Len(b) = Len(text) /\ b # Missing
         /\ LastSection(b) = LastSection(text)
         /\ \A q \in Keys : LineOf(b, q) = LineOf(text, q)
         /\ ValueOf(b, k) = v
         /\ \A q \in Keys \ {k} : ValueOf(b, q) = ValueOf(text, q)
         /\ Whole(text) => Whole(b)
<1> DEFINE l == LineOf(text, k)
           n == Len(text)
<1>1. /\ text \in Seq(Lines) /\ n \in Nat /\ text \in [1 .. n -> Lines]
      /\ \A i \in 1 .. n : text[i] \in Lines
  BY TextLines
<1>2. l \in LinesOf(text, k) /\ l \in 1 .. n /\ text[l].kind = "entry"
  BY <1>1, LineFacts DEF LinesOf
<1>3. text[l].val # Garbage
  BY ParsedFacts
<1>4. b = [text EXCEPT ![l].val = v]
  BY <1>2, <1>3 DEF InPlace
<1> HIDE DEF l
<1>5. v \in AnyValue
  BY DEF AnyValue
<1>6. /\ b = [text EXCEPT ![l] = [text[l] EXCEPT !.val = v]]
      /\ [text[l] EXCEPT !.val = v] \in Lines
  BY <1>1, <1>2, <1>4, <1>5 DEF Lines
<1>7. b \in Seq(Lines) /\ Len(b) = n
  <2> HIDE DEF Lines
  <2> QED
    BY <1>1, <1>2, <1>6
<1>8. /\ \A i \in 1 .. n : b[i].kind = text[i].kind /\ b[i].id = text[i].id
      /\ \A i \in 1 .. n : i # l => b[i].val = text[i].val
      /\ b[l].val = v
  BY <1>1, <1>2, <1>4 DEF Lines
<1> HIDE DEF Lines
<1>9. \A i \in 0 .. n : SectionAt(b, i) = SectionAt(text, i)
  <2> SUFFICES ASSUME NEW i \in 0 .. n
               PROVE  SectionAt(b, i) = SectionAt(text, i)
    OBVIOUS
  <2>1. \A h \in 1 .. i : b[h].kind = text[h].kind /\ b[h].id = text[h].id
    BY <1>1, <1>8
  <2> QED
    BY <1>1, <2>1, SameSections
<1>10. \A q : LinesOf(b, q) = LinesOf(text, q)
  BY <1>1, <1>7, <1>8, <1>9 DEF LinesOf
<1>11. \A q : LineOf(b, q) = LineOf(text, q)
  BY <1>10 DEF LineOf
<1>12. LastSection(b) = LastSection(text)
  BY <1>1, <1>7, <1>9 DEF LastSection
<1>13. ValueOf(b, k) = v
  <2>1. LineOf(b, k) = l /\ l # 0
    BY <1>2, <1>11 DEF l
  <2>2. ValueOf(b, k) = b[LineOf(b, k)].val
    BY <2>1, ParsedFacts
  <2> QED
    BY <1>8, <2>1, <2>2
<1>14. ASSUME NEW q \in Keys \ {k} PROVE ValueOf(b, q) = ValueOf(text, q)
  <2>1. LineOf(text, q) \in 0 .. n /\ LineOf(text, q) # l
    BY <1>1, LineFacts, LinesDiffer DEF l
  <2>2. LineOf(text, q) # 0 =>
          b[LineOf(text, q)].val = text[LineOf(text, q)].val
    BY <1>1, <1>8, <2>1
  <2>3. LineOf(b, q) = LineOf(text, q)
    BY <1>11
  <2> QED
    BY <2>2, <2>3, ValueFacts
<1>15. text # Missing /\ b # Missing
  BY <1>11, MissingFacts DEF l
<1>16. ASSUME Whole(text) PROVE Whole(b)
  <2>1. \A i \in 1 .. Len(b) :
          /\ b[i].kind \in {"header", "entry"}
          /\ b[i].kind = "entry" => b[i].val # None
          /\ b[i].val # Bad
    BY <1>7, <1>8, <1>15, <1>16, InifileAssumption DEF Whole
  <2>2. text # <<>>
    BY <1>1, <1>2
  <2>3. \E q \in Keys : q[1] = LastSection(b) /\ LineOf(b, q) # 0
    BY <1>11, <1>12, <1>15, <1>16, <2>2 DEF Whole
  <2> QED
    BY <2>1, <2>3 DEF Whole
<1>17. b \in TextType
  BY <1>7 DEF TextType, Lines
<1> QED
  BY <1>7, <1>11, <1>12, <1>13, <1>14, <1>15, <1>16, <1>17

\* A line that is appended falls into the last section.
LEMMA AppendFacts ==
  ASSUME NEW text \in TextType, NEW k \in Keys, text # Missing, Whole(text),
         LineOf(text, k) = 0, LastSection(text) = k[1],
         NEW v \in Values, NEW b, b = Appended(text, Entry(k[2], v))
  PROVE  /\ b \in TextType /\ Len(b) = Len(text) + 1 /\ b # Missing
         /\ LastSection(b) = LastSection(text)
         /\ LineOf(b, k) = Len(b)
         /\ \A q \in Keys \ {k} : LineOf(b, q) = LineOf(text, q)
         /\ ValueOf(b, k) = v
         /\ \A q \in Keys \ {k} : ValueOf(b, q) = ValueOf(text, q)
         /\ Whole(b)
<1> DEFINE n == Len(text)
           e == Entry(k[2], v)
<1>1. /\ text \in Seq(Lines) /\ n \in Nat
      /\ \A i \in 1 .. n : text[i] \in Lines
  BY TextLines
<1>2. k \in Nat \X Nat
  BY InifileAssumption
<1>3. e \in Lines /\ e.kind = "entry" /\ e.id = k[2] /\ e.val = v
  BY <1>2 DEF Entry, Line, Lines, Kinds, AnyValue
<1>4. ~Unterminated(text)
  <2> SUFFICES ASSUME text # <<>>
               PROVE  Last(text) # CutLine /\ Last(text).val # Bad
    BY DEF Unterminated
  <2>1. n \in 1 .. n
    BY <1>1
  <2>2. text[n].kind \in {"header", "entry"} /\ text[n].val # Bad
    BY <2>1 DEF Whole
  <2> QED
    BY <2>2 DEF Last, CutLine, Line
<1>5. b = Append(text, e)
  BY <1>4 DEF Appended
<1> HIDE DEF e, Lines
<1>6. /\ b \in Seq(Lines) /\ Len(b) = n + 1 /\ b[n + 1] = e
      /\ \A i \in 1 .. n : b[i] = text[i]
  BY <1>1, <1>3, <1>5
<1>7. \A i \in 0 .. n : SectionAt(b, i) = SectionAt(text, i)
  <2> SUFFICES ASSUME NEW i \in 0 .. n
               PROVE  SectionAt(b, i) = SectionAt(text, i)
    OBVIOUS
  <2>1. \A h \in 1 .. i : b[h].kind = text[h].kind /\ b[h].id = text[h].id
    BY <1>1, <1>6
  <2> QED
    BY <1>1, <2>1, SameSections
<1>8. SectionAt(b, n + 1) = SectionAt(b, n)
  <2>1. {g \in 1 .. n + 1 : b[g].kind = "header"}
          = {g \in 1 .. n : b[g].kind = "header"}
    BY <1>1, <1>3, <1>6
  <2> QED
    BY <2>1 DEF SectionAt
<1>9. LastSection(b) = LastSection(text) /\ SectionAt(b, n + 1) = k[1]
  BY <1>1, <1>6, <1>7, <1>8 DEF LastSection
<1>10. \A q \in Keys \ {k} : LinesOf(b, q) = LinesOf(text, q)
  <2> SUFFICES ASSUME NEW q \in Keys \ {k}, NEW i \in 1 .. n + 1
               PROVE  i \in LinesOf(b, q) <=> i \in LinesOf(text, q)
    BY <1>1, <1>6 DEF LinesOf
  <2>1. CASE i \in 1 .. n
    BY <1>1, <1>6, <1>7, <2>1 DEF LinesOf
  <2>2. CASE i = n + 1
    <3>1. q \in Nat \X Nat
      BY InifileAssumption
    <3>2. q[1] # k[1] \/ q[2] # k[2]
      BY <1>2, <3>1
    <3> QED
      BY <1>1, <1>3, <1>6, <1>9, <2>2, <3>2 DEF LinesOf
  <2> QED
    BY <1>1, <2>1, <2>2
<1>11. \A q \in Keys \ {k} : LineOf(b, q) = LineOf(text, q)
  BY <1>10 DEF LineOf
<1>12. LineOf(b, k) = n + 1
  <2>1. n + 1 \in LinesOf(b, k)
    BY <1>1, <1>3, <1>6, <1>9 DEF LinesOf
  <2>2. Len(b) \in Nat
    BY <1>1, <1>6
  <2>3. n + 1 <= LineOf(b, k) /\ LineOf(b, k) \in 0 .. n + 1
    BY <1>6, <2>1, <2>2, LineFacts
  <2> QED
    BY <1>1, <2>3
<1>13. ValueOf(b, k) = v
  <2>1. LineOf(b, k) # 0
    BY <1>1, <1>12
  <2> QED
    BY <1>3, <1>6, <1>12, <2>1, ValueFacts
<1>14. ASSUME NEW q \in Keys \ {k} PROVE ValueOf(b, q) = ValueOf(text, q)
  <2>1. LineOf(text, q) \in 0 .. n
    BY <1>1, LineFacts
  <2>2. LineOf(text, q) # 0 =>
          b[LineOf(text, q)].val = text[LineOf(text, q)].val
    BY <1>1, <1>6, <2>1
  <2>3. LineOf(b, q) = LineOf(text, q)
    BY <1>11
  <2> QED
    BY <2>2, <2>3, ValueFacts
<1>15. b # Missing
  BY <1>1, <1>12, MissingFacts
<1>16. Whole(b)
  <2>1. ASSUME NEW i \in 1 .. Len(b)
        PROVE  /\ b[i].kind \in {"header", "entry"}
               /\ b[i].kind = "entry" => b[i].val # None
               /\ b[i].val # Bad
    <3>1. CASE i \in 1 .. n
      BY <1>6, <3>1 DEF Whole
    <3>2. CASE i = n + 1
      BY <1>3, <1>6, <3>2, InifileAssumption
    <3> QED
      BY <1>1, <1>6, <2>1, <3>1, <3>2
  <2>2. k[1] = LastSection(b) /\ LineOf(b, k) # 0
    BY <1>1, <1>9, <1>12
  <2> QED
    BY <2>1, <2>2 DEF Whole
<1>17. b \in TextType
  BY <1>6 DEF TextType, Lines
<1> QED
  BY <1>6, <1>9, <1>11, <1>12, <1>13, <1>14, <1>15, <1>16, <1>17

-----------------------------------------------------------------------------
(* The text of a full save.                                                *)

\* The places of the lines are a finite set.
LEMMA PlacesFacts ==
  ASSUME NEW refs \in Refs
  PROVE  /\ Places(refs) \in SUBSET Place /\ IsFiniteSet(Places(refs))
         /\ \A p \in Places(refs) :
              \/ /\ p \in Keys /\ p[2] \in Nat /\ p[2] # -1
                 /\ refs[p].val # None
                 /\ p[1] # 0 => <<p[1], -1>> \in Places(refs)
              \/ p = <<p[1], -1>> /\ p[2] = -1 /\ p[1] \in Nat \ {0}
         /\ \A k \in Keys : refs[k].val # None => k \in Places(refs)
<1> DEFINE H == {<<s, -1>> : s \in Sections(refs) \ {0}}
           N == Present(refs)
           G == {<<k[1], -1>> : k \in N}
           f == [k \in N |-> <<k[1], -1>>]
<1>1. Places(refs) = N \cup H
  BY DEF Places
<1>2. /\ N \subseteq Keys /\ N \subseteq Nat \X Nat
      /\ \A k \in N : k[1] \in Nat /\ k[2] \in Nat /\ refs[k].val # None
  BY InifileAssumption DEF Present
<1>3. Sections(refs) = {k[1] : k \in N} /\ Sections(refs) \subseteq Nat
  BY <1>2 DEF Sections
<1>4. N \subseteq Place /\ H \subseteq Place
  BY <1>2, <1>3 DEF Place
<1>5. IsFiniteSet(N)
  BY <1>2, InifileAssumption, FS_Subset
<1>6. f \in Surjection(N, G)
  BY DEF Surjection
<1>7. IsFiniteSet(G)
  BY <1>5, <1>6, FS_Surjection
<1>8. H \subseteq G
  BY <1>3
<1>9. IsFiniteSet(H)
  BY <1>7, <1>8, FS_Subset
<1>10. IsFiniteSet(N \cup H)
  BY <1>5, <1>9, FS_Union
<1>11. \A p \in N : p[1] # 0 => <<p[1], -1>> \in H
  BY <1>3
<1>12. \A p \in N : p[2] # -1
  BY <1>2
<1>13. \A p \in H : p = <<p[1], -1>> /\ p[2] = -1 /\ p[1] \in Nat \ {0}
  BY <1>3
<1>14. \A k \in Keys : refs[k].val # None => k \in N
  BY DEF Present
<1> HIDE DEF H, N
<1> QED
  BY <1>1, <1>2, <1>4, <1>10, <1>11, <1>12, <1>13, <1>14

\* A header and its parts.
LEMMA HeaderFacts ==
  ASSUME NEW x
  PROVE  /\ Header(x).kind = "header" /\ Header(x).id = x
         /\ x \in Nat => Header(x) \in Lines
BY DEF Header, Line, Lines, Kinds, AnyValue

\* A line with a value and its parts.
LEMMA EntryFacts ==
  ASSUME NEW x, NEW v
  PROVE  /\ Entry(x, v).kind = "entry" /\ Entry(x, v).id = x
         /\ Entry(x, v).val = v
         /\ x \in Nat /\ v \in AnyValue => Entry(x, v) \in Lines
BY DEF Entry, Line, Lines, Kinds

\* A full save writes one line for each place.
LEMMA TextFacts ==
  ASSUME NEW refs \in Refs, NEW n, n = Cardinality(Places(refs)),
         NEW s, s = InOrder(Places(refs)), NEW t, t = Text(refs)
  PROVE  /\ n \in Nat /\ t \in Seq(Lines) /\ Len(t) = n
         /\ Sorts(s, Places(refs))
         /\ \A p \in Places(refs) : \E i \in 1 .. n : s[i] = p
         /\ \A i \in 1 .. n :
              /\ s[i] \in Places(refs) /\ s[i] \in Place
              /\ s[i][2] = -1 => t[i] = Header(s[i][1])
              /\ s[i][2] # -1 => t[i] = Entry(s[i][2], refs[s[i]].val)
<1> DEFINE P == Places(refs)
<1>1. P \in SUBSET Place /\ IsFiniteSet(P)
  BY PlacesFacts
<1>2. n \in Nat /\ Sorts(s, P) /\ \A p \in P : \E i \in 1 .. n : s[i] = p
  BY <1>1, InOrderSorts
<1>3. s \in [1 .. n -> P]
  BY <1>2 DEF Sorts
<1>4. DOMAIN s = 1 .. n /\ \A i \in 1 .. n : s[i] \in P /\ s[i] \in Place
  BY <1>1, <1>3
<1>5. t = [i \in 1 .. n |-> LineAt(refs, s[i])]
  BY <1>4 DEF Text
<1>6. ASSUME NEW i \in 1 .. n
      PROVE  /\ s[i][2] = -1 => t[i] = Header(s[i][1])
             /\ s[i][2] # -1 => t[i] = Entry(s[i][2], refs[s[i]].val)
  BY <1>5 DEF LineAt
<1>7. ASSUME NEW i \in 1 .. n PROVE t[i] \in Lines
  <2>1. CASE s[i][2] = -1
    <3>1. s[i][1] \in Nat
      BY <1>4 DEF Place
    <3> QED
      BY <1>6, <2>1, <3>1, HeaderFacts
  <2>2. CASE s[i][2] # -1
    <3>1. s[i] \in Keys /\ s[i][2] \in Nat
      BY <1>4, <2>2, PlacesFacts
    <3>2. refs[s[i]].val \in AnyValue
      BY <3>1 DEF Refs
    <3> QED
      BY <1>6, <2>2, <3>1, <3>2, EntryFacts
  <2> QED
    BY <2>1, <2>2
<1>8. t \in Seq(Lines) /\ Len(t) = n
  <2> HIDE DEF Lines
  <2>1. t \in [1 .. n -> Lines]
    BY <1>5, <1>7
  <2> QED
    BY <1>2, <2>1
<1> QED
  BY <1>2, <1>4, <1>6, <1>8

\* A line of the text is in the section of its place.
LEMMA TextSections ==
  ASSUME NEW refs \in Refs, NEW s, s = InOrder(Places(refs)),
         NEW i \in 1 .. Cardinality(Places(refs))
  PROVE  SectionAt(Text(refs), i) = s[i][1]
<1> DEFINE n == Cardinality(Places(refs))
           t == Text(refs)
           P == Places(refs)
<1>1. /\ n \in Nat /\ Sorts(s, P)
      /\ \A p \in P : \E j \in 1 .. n : s[j] = p
      /\ \A j \in 1 .. n :
           /\ s[j] \in P /\ s[j] \in Place
           /\ s[j][2] = -1 => t[j] = Header(s[j][1])
           /\ s[j][2] # -1 => t[j] = Entry(s[j][2], refs[s[j]].val)
  BY TextFacts
<1> HIDE DEF n, t
<1>2. i \in 1 .. n /\ i \in Nat
  BY <1>1 DEF n
<1>3. \A j \in 1 .. n : t[j].kind = "header" <=> s[j][2] = -1
  <2> SUFFICES ASSUME NEW j \in 1 .. n
               PROVE  t[j].kind = "header" <=> s[j][2] = -1
    OBVIOUS
  <2>1. CASE s[j][2] = -1
    BY <1>1, <2>1, HeaderFacts
  <2>2. CASE s[j][2] # -1
    <3>1. t[j] = Entry(s[j][2], refs[s[j]].val)
      BY <1>1, <2>2
    <3>2. t[j].kind = "entry"
      BY <3>1, EntryFacts
    <3> QED
      BY <2>2, <3>2
  <2> QED
    BY <2>1, <2>2
<1>4. \A j \in 1 .. n : s[j][1] \in Nat /\ s[j][2] \in Int /\ s[j][2] >= -1
  BY <1>1 DEF Place
<1>5. \A g, h \in 1 .. n : g < h => Before(s[g], s[h])
  BY <1>1 DEF Sorts, n
<1>6. \A g \in 1 .. i : g \in 1 .. n /\ (g = i \/ g < i)
  BY <1>1, <1>2
<1>7. \A g \in 1 .. i : s[g][1] <= s[i][1]
  BY <1>2, <1>4, <1>5, <1>6 DEF Before
<1>8. CASE s[i][1] = 0
  <2>1. ASSUME NEW g \in 1 .. i PROVE t[g].kind # "header"
    <3>1. s[g][1] = 0
      BY <1>4, <1>6, <1>7, <1>8
    <3>2. s[g] \in P
      BY <1>1, <1>6
    <3>3. s[g][2] # -1
      BY <3>1, <3>2, PlacesFacts
    <3> QED
      BY <1>3, <1>6, <3>3
  <2> QED
    BY <1>8, <2>1 DEF SectionAt, t
<1>9. CASE s[i][1] # 0
  <2>1. s[i] \in P
    BY <1>1, <1>2
  <2>2. <<s[i][1], -1>> \in P
    BY <1>9, <2>1, PlacesFacts
  <2>3. PICK h \in 1 .. n : s[h] = <<s[i][1], -1>>
    BY <1>1, <2>2
  <2>4. s[h][1] = s[i][1] /\ s[h][2] = -1
    BY <2>3
  <2>5. ~(i < h)
    BY <1>2, <1>4, <1>5, <2>4 DEF Before
  <2>6. h \in 1 .. i
    BY <1>1, <1>2, <2>5
  <2>7. t[h].kind = "header" /\ t[h].id = s[i][1]
    BY <1>1, <2>4, HeaderFacts
  <2>8. ASSUME NEW g \in 1 .. i, t[g].kind = "header" PROVE g <= h
    <3>1. s[g][2] = -1 /\ s[g][1] <= s[i][1] /\ g \in 1 .. n
      BY <1>3, <1>6, <1>7, <2>8
    <3>2. ~(h < g)
      BY <1>4, <1>5, <2>4, <3>1 DEF Before
    <3> QED
      BY <1>1, <3>1, <3>2
  <2> QED
    BY <1>2, <2>6, <2>7, <2>8, SectionOfHeader DEF t
<1> QED
  BY <1>8, <1>9

\* What a full save writes is what load_file reads: every value, in its
\* section, and no other.
THEOREM TextIsRead ==
  ASSUME NEW refs \in Refs, \A k \in Keys : refs[k].val # Bad
  PROVE  /\ Text(refs) \in TextType /\ Whole(Text(refs))
         /\ Agrees(refs, Text(refs))
<1> DEFINE P == Places(refs)
           n == Cardinality(P)
           t == Text(refs)
           s == InOrder(P)
<1>1. /\ n \in Nat /\ t \in Seq(Lines) /\ Len(t) = n
      /\ \A p \in P : \E j \in 1 .. n : s[j] = p
      /\ \A j \in 1 .. n :
           /\ s[j] \in P /\ s[j] \in Place
           /\ s[j][2] = -1 => t[j] = Header(s[j][1])
           /\ s[j][2] # -1 => t[j] = Entry(s[j][2], refs[s[j]].val)
  BY TextFacts
<1>2. \A j \in 1 .. n : SectionAt(t, j) = s[j][1]
  BY TextSections
<1> HIDE DEF n, t, s, P
<1>3. \A j \in 1 .. n : \/ s[j] \in Keys /\ s[j][2] # -1
                        \/ s[j] = <<s[j][1], -1>> /\ s[j][2] = -1
  BY <1>1, PlacesFacts DEF P
<1>4. ASSUME NEW k \in Keys, NEW j \in LinesOf(t, k)
      PROVE  s[j] = k /\ t[j].val = refs[k].val /\ refs[k].val # None
  <2>1. j \in 1 .. n /\ t[j].kind = "entry" /\ t[j].id = k[2]
        /\ SectionAt(t, j) = k[1]
    BY <1>1, <1>4 DEF LinesOf
  <2>2. s[j][2] # -1
    BY <1>1, <2>1 DEF Header, Line
  <2>3. t[j] = Entry(s[j][2], refs[s[j]].val) /\ s[j] \in Keys /\ s[j] \in P
    BY <1>1, <1>3, <2>1, <2>2
  <2>4. s[j][1] = k[1] /\ s[j][2] = k[2]
    BY <1>2, <2>1, <2>3 DEF Entry, Line
  <2>5. s[j] \in Nat \X Nat /\ k \in Nat \X Nat
    BY <2>3, InifileAssumption
  <2>6. s[j] = k
    BY <2>4, <2>5
  <2>7. refs[k].val # None
    BY <2>2, <2>3, <2>6, PlacesFacts DEF P
  <2> QED
    BY <2>3, <2>6, <2>7 DEF Entry, Line
<1>5. ASSUME NEW j \in 1 .. n, s[j][2] # -1 PROVE j \in LinesOf(t, s[j])
  BY <1>1, <1>2, <1>5 DEF LinesOf, Entry, Line
<1>6. Len(t) \in Nat
  BY <1>1
<1>7. ASSUME NEW k \in Keys PROVE refs[k].val = ValueOf(t, k)
  <2>1. CASE LineOf(t, k) # 0
    <3>1. LineOf(t, k) \in LinesOf(t, k)
      BY <1>6, <2>1, LineFacts
    <3> QED
      BY <1>4, <2>1, <3>1, ValueFacts
  <2>2. CASE LineOf(t, k) = 0
    <3>1. LinesOf(t, k) = {}
      BY <1>6, <2>2, LineFacts
    <3> SUFFICES ASSUME refs[k].val # None PROVE FALSE
      BY <2>2, ValueFacts
    <3>2. k \in P
      BY PlacesFacts DEF P
    <3>3. PICK j \in 1 .. n : s[j] = k
      BY <1>1, <3>2
    <3>4. k \in Nat \X Nat
      BY InifileAssumption
    <3>5. s[j][2] # -1
      BY <3>3, <3>4
    <3> QED
      BY <1>5, <3>1, <3>3, <3>5
  <2> QED
    BY <2>1, <2>2
<1>8. ASSUME NEW j \in 1 .. n
      PROVE  /\ t[j].kind \in {"header", "entry"}
             /\ t[j].kind = "entry" => t[j].val # None
             /\ t[j].val # Bad
  <2>1. CASE s[j][2] = -1
    BY <1>1, <2>1 DEF Header, Line, None, Bad
  <2>2. CASE s[j][2] # -1
    <3>1. j \in LinesOf(t, s[j]) /\ s[j] \in Keys
      BY <1>3, <1>5, <2>2
    <3>2. t[j].val = refs[s[j]].val /\ refs[s[j]].val # None
      BY <1>4, <3>1
    <3>3. t[j].kind = "entry"
      BY <1>1, <2>2 DEF Entry, Line
    <3> QED
      BY <3>1, <3>2, <3>3
  <2> QED
    BY <2>1, <2>2
<1>9. ASSUME t # <<>>
      PROVE  \E k \in Keys : k[1] = LastSection(t) /\ LineOf(t, k) # 0
  <2>1. n \in 1 .. n
    BY <1>1, <1>9
  <2>2. LastSection(t) = s[n][1]
    BY <1>1, <1>2, <2>1 DEF LastSection
  <2>3. s[n] \in P
    BY <1>1, <2>1
  <2>4. PICK k \in Keys : k[1] = s[n][1] /\ refs[k].val # None
    <3>1. CASE s[n] \in Present(refs)
      BY <3>1 DEF Present
    <3>2. CASE s[n] \in {<<x, -1>> : x \in Sections(refs) \ {0}}
      BY <3>2 DEF Sections, Present
    <3> QED
      BY <2>3, <3>1, <3>2 DEF P, Places
  <2>5. LineOf(t, k) # 0
    BY <1>7, <2>4, ValueFacts
  <2> QED
    BY <2>2, <2>4, <2>5
<1>10. Whole(t)
  BY <1>1, <1>8, <1>9 DEF Whole
<1>11. t \in TextType
  BY <1>1 DEF TextType, Lines
<1> QED
  BY <1>7, <1>10, <1>11 DEF Agrees, t

-----------------------------------------------------------------------------
(* Loading, and changes of values.                                         *)

\* A value of a whole text is a value.
LEMMA WholeValue ==
  ASSUME NEW text \in TextType, Whole(text), NEW k \in Keys,
         LineOf(text, k) # 0
  PROVE  text # Missing /\ text # <<>> /\ ValueOf(text, k) # None
<1>1. text # Missing
  BY MissingFacts
<1>2. Len(text) \in Nat
  BY TextLines
<1>3. LineOf(text, k) \in LinesOf(text, k)
  BY <1>2, LineFacts
<1>4. LineOf(text, k) \in 1 .. Len(text) /\ text[LineOf(text, k)].kind = "entry"
  BY <1>3 DEF LinesOf
<1>5. text[LineOf(text, k)].val # None
  BY <1>1, <1>4 DEF Whole
<1>6. text # <<>>
  BY <1>4
<1> QED
  BY <1>1, <1>5, <1>6, ValueFacts

\* An object that has just been loaded knows its file.
LEMMA LoadFacts ==
  ASSUME NEW text \in TextType
  PROVE  /\ load_file(text) \in Mem /\ load_file(text).refs = Parsed(text)
         /\ load_file(text).touched = "none" /\ load_file(text).armed = FALSE
         /\ Synced(Parsed(text), text) /\ Agrees(Parsed(text), text)
         /\ Dirty(load_file(text)) = {}
         /\ \A k \in Keys : Parsed(text)[k].line <= Len(text)
<1>1. /\ Parsed(text) \in Refs
      /\ \A k \in Keys : Parsed(text)[k].line \in 0 .. Len(text)
  BY ParsedType
<1>2. /\ load_file(text) \in Mem /\ load_file(text).refs = Parsed(text)
      /\ load_file(text).touched = "none" /\ load_file(text).armed = FALSE
  BY <1>1 DEF load_file, Mem
<1>3. ASSUME NEW k \in Keys
      PROVE  /\ Parsed(text)[k].line = LineOf(text, k)
             /\ Parsed(text)[k].line # 0 =>
                  Parsed(text)[k].len = LengthOf(ValueOf(text, k))
             /\ Parsed(text)[k].dirty = FALSE
  <2>1. CASE LineOf(text, k) = 0
    <3>1. Parsed(text)[k] = NoRef
      BY <2>1, ParsedFacts
    <3> QED
      BY <2>1, <3>1 DEF NoRef
  <2>2. CASE LineOf(text, k) # 0
    <3>1. /\ Parsed(text)[k] =
               [val |-> text[LineOf(text, k)].val, dirty |-> FALSE,
                line |-> LineOf(text, k),
                len |-> LengthOf(text[LineOf(text, k)].val)]
          /\ ValueOf(text, k) = text[LineOf(text, k)].val
      BY <2>2, ParsedFacts
    <3> QED
      BY <3>1
  <2> QED
    BY <2>1, <2>2
<1>4. \A k \in Keys : Parsed(text)[k].val = ValueOf(text, k)
  BY DEF ValueOf
<1>5. Len(text) \in Nat
  BY TextLines
<1>6. Synced(Parsed(text), text) /\ Agrees(Parsed(text), text)
  BY <1>3, <1>4 DEF Synced, Agrees
<1>7. Dirty(load_file(text)) = {}
  BY <1>2, <1>3 DEF Dirty
<1>8. \A k \in Keys : Parsed(text)[k].line <= Len(text)
  BY <1>1, <1>5
<1> QED
  BY <1>2, <1>6, <1>7, <1>8

\* What touching leaves.
LEMMA TouchFacts ==
  ASSUME NEW m \in Mem
  PROVE  /\ soft_touch(m) \in Mem /\ soft_touch(m).refs = m.refs
         /\ soft_touch(m).armed = TRUE /\ soft_touch(m).touched # "none"
         /\ soft_touch(m).touched = "hard" <=> m.touched = "hard"
         /\ hard_touch(m) \in Mem /\ hard_touch(m).refs = m.refs
         /\ hard_touch(m).armed = TRUE /\ hard_touch(m).touched = "hard"
BY DEF soft_touch, hard_touch, Mem

\* The conditions under which a write leaves a save in place possible.
Soft(m, k, v) ==
  IF m.refs[k].val = None THEN Sections(m.refs) = {k[1]}
                          ELSE LengthOf(v) = m.refs[k].len

Written(m, w, k, v) ==
  /\ w.refs[k].val = v /\ w.refs[k].dirty = TRUE
  /\ m.refs[k].val = None => w.refs[k].line = 0
  /\ m.refs[k].val # None => /\ w.refs[k].line = m.refs[k].line
                             /\ w.refs[k].len = m.refs[k].len
  /\ \A q \in Keys \ {k} : w.refs[q] = m.refs[q]

\* Writing the value that a key has changes nothing.
LEMMA WriteSame ==
  ASSUME NEW m, NEW k \in Keys, NEW v \in Values, m.refs[k].val = v
  PROVE  write(m, k, v) = m
<1>1. v # None
  BY InifileAssumption
<1> QED
  BY <1>1 DEF write

\* What writing a value changes.
LEMMA WriteFacts ==
  ASSUME NEW m \in Mem, NEW k \in Keys, NEW v \in Values,
         NEW w, w = write(m, k, v), m.refs[k].val # v
  PROVE  /\ w \in Mem /\ w.armed = TRUE /\ w.touched # "none"
         /\ w.touched # "hard" => m.touched # "hard" /\ Soft(m, k, v)
         /\ Written(m, w, k, v)
<1>1. m.refs \in Refs /\ v \in AnyValue
  BY DEF Mem, AnyValue
<1>2. CASE m.refs[k].val = None
  <2> DEFINE r == [NoRef EXCEPT !.val = v, !.dirty = TRUE]
             c == [m EXCEPT !.refs[k] = r]
  <2>1. r \in [val : AnyValue, dirty : BOOLEAN, line : Nat, len : Int]
        /\ r.val = v /\ r.dirty = TRUE /\ r.line = 0
    <3>1. NoRef \in [val : AnyValue, dirty : BOOLEAN, line : Nat, len : Int]
          /\ NoRef.line = 0
      BY DEF NoRef, AnyValue
    <3> QED
      BY <1>1, <3>1
  <2>2. w = IF Sections(m.refs) = {k[1]} THEN soft_touch(c) ELSE hard_touch(c)
    BY <1>2 DEF write, Inserted
  <2> HIDE DEF r
  <2>3. c.refs = [m.refs EXCEPT ![k] = r] /\ c.touched = m.touched /\ c \in Mem
    BY <1>1, <2>1 DEF Mem, Refs
  <2>4. c.refs[k] = r /\ \A q \in Keys \ {k} : c.refs[q] = m.refs[q]
    BY <1>1, <2>3 DEF Refs
  <2> HIDE DEF c
  <2>5. w.refs = c.refs
    BY <2>2, <2>3, TouchFacts
  <2>6. /\ w \in Mem /\ w.armed = TRUE /\ w.touched # "none"
        /\ w.touched # "hard" => m.touched # "hard" /\ Soft(m, k, v)
    BY <1>2, <2>2, <2>3, TouchFacts DEF Soft
  <2> QED
    BY <1>2, <2>1, <2>4, <2>5, <2>6 DEF Written
<1>3. CASE m.refs[k].val # None
  <2> DEFINE r == [m.refs[k] EXCEPT !.val = v, !.dirty = TRUE]
             c == [m EXCEPT !.refs[k].val = v, !.refs[k].dirty = TRUE]
  <2>1. r \in [val : AnyValue, dirty : BOOLEAN, line : Nat, len : Int]
        /\ r.val = v /\ r.dirty = TRUE /\ r.line = m.refs[k].line
        /\ r.len = m.refs[k].len
    BY <1>1 DEF Refs
  <2>2. w = IF LengthOf(v) = m.refs[k].len
            THEN soft_touch(c) ELSE hard_touch(c)
    BY <1>3 DEF write, Replaced
  <2>3. c.refs = [m.refs EXCEPT ![k] = r] /\ c.touched = m.touched
        /\ c.armed = m.armed /\ c = [m EXCEPT !.refs = c.refs]
    BY <1>1 DEF Mem, Refs
  <2> HIDE DEF r
  <2>4. c \in Mem
    BY <1>1, <2>1, <2>3 DEF Mem, Refs
  <2>5. c.refs[k] = r /\ \A q \in Keys \ {k} : c.refs[q] = m.refs[q]
    BY <1>1, <2>3 DEF Refs
  <2> HIDE DEF c
  <2>6. w.refs = c.refs
    BY <2>2, <2>4, TouchFacts
  <2>7. /\ w \in Mem /\ w.armed = TRUE /\ w.touched # "none"
        /\ w.touched # "hard" => m.touched # "hard" /\ Soft(m, k, v)
    <3>1. CASE LengthOf(v) = m.refs[k].len
      <4>1. w = soft_touch(c)
        BY <2>2, <3>1
      <4>2. /\ w \in Mem /\ w.armed = TRUE /\ w.touched # "none"
            /\ w.touched = "hard" <=> c.touched = "hard"
        BY <2>4, <4>1, TouchFacts
      <4> QED
        BY <1>3, <2>3, <3>1, <4>2 DEF Soft
    <3>2. CASE LengthOf(v) # m.refs[k].len
      <4>1. w = hard_touch(c)
        BY <2>2, <3>2
      <4> QED
        BY <2>4, <4>1, TouchFacts
    <3> QED
      BY <3>1, <3>2
  <2> QED
    BY <1>3, <2>1, <2>5, <2>6, <2>7 DEF Written
<1> QED
  BY <1>2, <1>3

Erased(m, w, gone) ==
  /\ \A k \in gone : w.refs[k].val = None
  /\ \A k \in Keys \ gone : w.refs[k] = m.refs[k]
  /\ \/ w = m
     \/ w.touched = "hard" /\ w.armed = TRUE
  /\ \A k \in Keys : w.refs[k].line = m.refs[k].line
                     \/ w.refs[k].line = 0

\* What erasing values changes.
LEMMA EraseFacts ==
  ASSUME NEW m \in Mem, NEW gone \in SUBSET Keys, NEW w, w = erase(m, gone)
  PROVE  /\ w \in Mem
         /\ Erased(m, w, gone)
<1>1. m.refs \in Refs
  BY DEF Mem
<1>2. CASE gone \cap Present(m.refs) = {}
  BY <1>1, <1>2 DEF erase, Present, Erased
<1>3. CASE gone \cap Present(m.refs) # {}
  <2> DEFINE R == [k \in Keys |-> IF k \in gone THEN NoRef ELSE m.refs[k]]
             c == [m EXCEPT !.refs = R]
  <2>1. w = hard_touch(c)
    BY <1>3 DEF erase
  <2>2. NoRef \in [val : AnyValue, dirty : BOOLEAN, line : Nat, len : Int]
        /\ NoRef.val = None /\ NoRef.line = 0
    BY DEF NoRef, AnyValue
  <2>3. R \in Refs
    BY <1>1, <2>2 DEF Refs
  <2>4. /\ \A k \in gone : R[k] = NoRef
        /\ \A k \in Keys \ gone : R[k] = m.refs[k]
    OBVIOUS
  <2> HIDE DEF R
  <2>5. c \in Mem /\ c.refs = R
    BY <2>3 DEF Mem
  <2> HIDE DEF c
  <2>6. w.refs = R /\ w \in Mem /\ w.touched = "hard" /\ w.armed = TRUE
    BY <2>1, <2>5, TouchFacts
  <2> QED
    BY <2>2, <2>4, <2>6 DEF Erased
<1> QED
  BY <1>2, <1>3

\* An object that a write leaves to a save in place still knows its file.
LEMMA WriteSynced ==
  ASSUME NEW m \in Mem, NEW k \in Keys, NEW v \in Values,
         NEW w, w = write(m, k, v), NEW text \in TextType, Whole(text),
         m.touched # "hard" => Synced(m.refs, text), w.touched # "hard"
  PROVE  Synced(w.refs, text)
<1> DEFINE r == m.refs
           u == w.refs
<1>1. CASE r[k].val = v
  <2>1. w = m
    BY <1>1, WriteSame
  <2> QED
    BY <2>1
<1>2. CASE r[k].val # v
  <2>0. Synced(r, text) /\ Soft(m, k, v)
    <3>1. w.touched # "hard" => m.touched # "hard" /\ Soft(m, k, v)
      BY <1>2, WriteFacts
    <3> QED
      BY <3>1
  <2>1. /\ Synced(r, text) /\ Soft(m, k, v)
        /\ u[k].val = v /\ u[k].dirty = TRUE
        /\ r[k].val = None => u[k].line = 0
        /\ r[k].val # None => u[k].line = r[k].line /\ u[k].len = r[k].len
        /\ \A q \in Keys \ {k} : u[q] = r[q]
    <3>1. Written(m, w, k, v)
      BY <1>2, WriteFacts
    <3> QED
      BY <2>0, <3>1 DEF Written
  <2> HIDE DEF r, u
  <2>2. ASSUME NEW q \in Keys, r[q].line # 0
        PROVE  r[q].val # None /\ LineOf(text, q) # 0
    <3>1. LineOf(text, q) # 0
      BY <2>1, <2>2 DEF Synced
    <3>2. ValueOf(text, q) # None
      BY <3>1, WholeValue
    <3>3. r[q].val = ValueOf(text, q) \/ r[q].val \in Values
      BY <2>1 DEF Synced, Placed
    <3> QED
      BY <3>1, <3>2, <3>3, InifileAssumption
  <2>3. ASSUME NEW q \in Keys, r[q].line = 0, r[q].val # None
        PROVE  Placed(r, text, q)
    <3>1. LineOf(text, q) = 0
      BY <2>1, <2>3 DEF Synced
    <3>2. ValueOf(text, q) = None
      BY <3>1, ValueFacts
    <3> QED
      BY <2>1, <2>3, <3>2 DEF Synced
  <2>4. Sections(u) = Sections(r)
    <3>1. CASE r[k].val = None
      <4>1. Sections(r) = {k[1]}
        BY <2>1, <3>1 DEF Soft, r
      <4>2. Present(u) = Present(r) \cup {k}
        BY <2>1, InifileAssumption DEF Present
      <4> QED
        BY <4>1, <4>2 DEF Sections
    <3>2. CASE r[k].val # None
      <4>1. Present(u) = Present(r)
        BY <2>1, <3>2, InifileAssumption DEF Present
      <4> QED
        BY <4>1 DEF Sections
    <3> QED
      BY <3>1, <3>2
  <2>5. Placed(u, text, k)
    <3>1. CASE r[k].val = None
      <4>1. Sections(r) = {k[1]}
        BY <2>1, <3>1 DEF Soft, r
      <4>2. PICK q \in Present(r) : q[1] = k[1]
        BY <4>1 DEF Sections
      <4>3. q \in Keys /\ r[q].val # None
        BY DEF Present
      <4>4. text # Missing /\ text # <<>> /\ LastSection(text) = k[1]
        <5>1. CASE r[q].line = 0
          BY <2>3, <4>2, <4>3, <5>1 DEF Placed
        <5>2. CASE r[q].line # 0
          <6>1. text # Missing /\ text # <<>>
            BY <2>2, <4>3, <5>2, WholeValue
          <6>2. PICK p \in Keys :
                  p[1] = LastSection(text) /\ LineOf(text, p) # 0
            BY <6>1 DEF Whole
          <6>3. r[p].line # 0
            BY <2>1, <6>2 DEF Synced
          <6>4. p \in Present(r)
            BY <2>2, <6>3 DEF Present
          <6>5. p[1] \in Sections(r)
            BY <6>4 DEF Sections
          <6> QED
            BY <4>1, <6>1, <6>2, <6>5
        <5> QED
          BY <5>1, <5>2
      <4> QED
        BY <2>1, <2>4, <3>1, <4>1, <4>4 DEF Placed
    <3>2. CASE r[k].val # None
      <4>1. LengthOf(v) = r[k].len
        BY <2>1, <3>2 DEF Soft, r
      <4>2. r[k].line = 0 => Placed(r, text, k)
        BY <2>3, <3>2
      <4> QED
        BY <2>1, <2>4, <3>2, <4>1, <4>2 DEF Placed
    <3> QED
      BY <3>1, <3>2
  <2>6. ASSUME NEW q \in Keys \ {k}, u[q].dirty PROVE Placed(u, text, q)
    BY <2>1, <2>4, <2>6 DEF Synced, Placed
  <2>7. /\ u[k].line = LineOf(text, k)
        /\ u[k].line # 0 => u[k].len = LengthOf(ValueOf(text, k))
    <3>1. CASE r[k].val = None
      BY <2>1, <2>2, <3>1 DEF Synced
    <3>2. CASE r[k].val # None
      BY <2>1, <3>2 DEF Synced
    <3> QED
      BY <3>1, <3>2
  <2>8. ASSUME NEW q \in Keys
        PROVE  /\ u[q].line = LineOf(text, q)
               /\ u[q].line # 0 => u[q].len = LengthOf(ValueOf(text, q))
               /\ ~u[q].dirty => u[q].val = ValueOf(text, q)
               /\ u[q].dirty => Placed(u, text, q)
    <3>1. CASE q = k
      BY <2>1, <2>5, <2>7, <3>1
    <3>2. CASE q # k
      <4>1. u[q] = r[q]
        BY <2>1, <3>2
      <4>2. /\ r[q].line = LineOf(text, q)
            /\ r[q].line # 0 => r[q].len = LengthOf(ValueOf(text, q))
            /\ ~r[q].dirty => r[q].val = ValueOf(text, q)
        BY <2>1 DEF Synced
      <4> QED
        BY <2>6, <3>2, <4>1, <4>2
    <3> QED
      BY <3>1, <3>2
  <2>9. Synced(u, text)
    BY <2>8 DEF Synced
  <2> QED
    BY <2>9 DEF u
<1> QED
  BY <1>1, <1>2

-----------------------------------------------------------------------------
(* A save in place.                                                        *)

\* The value that the soft save writes next is one that it has yet to write.
LEMMA FirstKeyFacts ==
  ASSUME NEW S \in SUBSET Keys, S # {}
  PROVE  FirstKey(S) \in S /\ FirstKey(S) \in Keys
<1>1. S \in SUBSET Place
  BY InifileAssumption DEF Place
<1>2. \E k \in S : \A q \in S \ {k} : Before(k, q)
  BY <1>1, FirstPlace
<1> QED
  BY <1>2 DEF FirstKey

IsClean(m, w, k, line) ==
  /\ w.touched = m.touched /\ w.armed = m.armed
  /\ w.refs[k].val = m.refs[k].val /\ w.refs[k].dirty = FALSE
  /\ w.refs[k].line = line /\ w.refs[k].len = LengthOf(m.refs[k].val)
  /\ \A q \in Keys \ {k} : w.refs[q] = m.refs[q]

\* A value that has been written is known to be on its line.
LEMMA CleanedFacts ==
  ASSUME NEW m \in Mem, NEW k \in Keys, NEW line \in Nat,
         NEW w, w = Cleaned(m, k, line)
  PROVE  /\ w \in Mem /\ IsClean(m, w, k, line)
         /\ Dirty(w) = Dirty(m) \ {k}
         /\ Sections(w.refs) = Sections(m.refs)
<1> DEFINE r == [val |-> m.refs[k].val, dirty |-> FALSE, line |-> line,
                 len |-> LengthOf(m.refs[k].val)]
<1>1. m.refs \in Refs
  BY DEF Mem
<1>2. LengthOf(m.refs[k].val) \in Int
  BY InifileAssumption DEF LengthOf
<1>3. /\ r \in [val : AnyValue, dirty : BOOLEAN, line : Nat, len : Int]
      /\ r.val = m.refs[k].val /\ r.dirty = FALSE /\ r.line = line
      /\ r.len = LengthOf(m.refs[k].val)
  BY <1>1, <1>2 DEF Refs
<1>4. w = [m EXCEPT !.refs = [m.refs EXCEPT ![k] = r]]
  BY DEF Cleaned, Mem
<1> HIDE DEF r
<1>5. [m.refs EXCEPT ![k] = r] \in Refs
  BY <1>1, <1>3 DEF Refs
<1>6. /\ w \in Mem /\ w.touched = m.touched /\ w.armed = m.armed
      /\ w.refs = [m.refs EXCEPT ![k] = r]
  BY <1>4, <1>5 DEF Mem
<1>7. w.refs[k] = r /\ \A q \in Keys \ {k} : w.refs[q] = m.refs[q]
  BY <1>1, <1>6 DEF Refs
<1>8. \A q \in Keys : w.refs[q].val = m.refs[q].val
  BY <1>3, <1>7
<1>9. Sections(w.refs) = Sections(m.refs)
  BY <1>8 DEF Sections, Present
<1>10. Dirty(w) = Dirty(m) \ {k}
  BY <1>3, <1>7 DEF Dirty
<1> QED
  BY <1>3, <1>6, <1>7, <1>9, <1>10 DEF IsClean

\* The beginning of a text.
LEMMA Prefix ==
  ASSUME NEW text \in Seq(Lines), NEW j \in 0 .. Len(text)
  PROVE  SubSeq(text, 1, j) \in Seq(Lines) /\ Len(SubSeq(text, 1, j)) = j
<1> HIDE DEF Lines
<1>1. Len(text) \in Nat /\ j \in Nat /\ j \in Int /\ 1 \in Int
  OBVIOUS
<1>2. \A i \in 1 .. j : text[i] \in Lines
  BY <1>1
<1>3. /\ SubSeq(text, 1, j) \in Seq(Lines)
      /\ Len(SubSeq(text, 1, j)) = IF 1 <= j THEN j - 1 + 1 ELSE 0
  BY <1>1, <1>2, SubSeqProperties
<1> QED
  BY <1>1, <1>3

\* A line that is appended, or glued to the last one, leaves a text.
LEMMA AppendedType ==
  ASSUME NEW text \in TextType, NEW l \in Lines
  PROVE  /\ Appended(text, l) \in TextType
         /\ Len(Appended(text, l)) \in Nat
         /\ Len(Appended(text, l)) >= Len(text)
<1>1. /\ text \in Seq(Lines) /\ Len(text) \in Nat
      /\ \A i \in 1 .. Len(text) : text[i] \in Lines
  BY TextLines
<1>2. TextType = Seq(Lines)
  BY DEF TextType, Lines
<1>3. CASE ~Unterminated(text)
  <2>1. Appended(text, l) = Append(text, l)
    BY <1>3 DEF Appended
  <2> HIDE DEF Lines
  <2> QED
    BY <1>1, <1>2, <2>1
<1>4. CASE Unterminated(text)
  <2> DEFINE n == Len(text)
             g == IF Last(text) = CutLine THEN Junk
                  ELSE [Last(text) EXCEPT !.val = Garbage]
  <2>1. n \in 1 .. n /\ Last(text) \in Lines
    BY <1>1, <1>4 DEF Unterminated, Last
  <2>2. Garbage \in AnyValue /\ Junk \in Lines
    BY DEF AnyValue, Junk, Line, Lines, Kinds
  <2>3. g \in Lines
    BY <2>1, <2>2 DEF Lines
  <2>4. Appended(text, l) = Append(SubSeq(text, 1, n - 1), g)
    BY <1>4 DEF Appended, Front
  <2> HIDE DEF Lines, g
  <2>5. SubSeq(text, 1, n - 1) \in Seq(Lines)
        /\ Len(SubSeq(text, 1, n - 1)) = n - 1
    <3>1. n - 1 \in 0 .. Len(text)
      BY <1>1, <2>1
    <3> QED
      BY <1>1, <3>1, Prefix
  <2> QED
    BY <1>1, <1>2, <2>1, <2>3, <2>4, <2>5
<1> QED
  BY <1>3, <1>4

\* Writing over a value leaves a text of as many lines.
LEMMA InPlaceType ==
  ASSUME NEW text \in TextType, NEW i \in 1 .. Len(text), NEW v \in AnyValue
  PROVE  /\ InPlace(text, i, v) \in TextType
         /\ Len(InPlace(text, i, v)) = Len(text)
<1>1. /\ text \in Seq(Lines) /\ Len(text) \in Nat
      /\ \A j \in 1 .. Len(text) : text[j] \in Lines
  BY TextLines
<1>2. TextType = Seq(Lines)
  BY DEF TextType, Lines
<1> DEFINE r == [text[i] EXCEPT !.val = v]
<1>3. r \in Lines
  BY <1>1 DEF Lines
<1>4. InPlace(text, i, v) = text \/ InPlace(text, i, v) = [text EXCEPT ![i] = r]
  BY DEF InPlace
<1> HIDE DEF r, Lines
<1>5. [text EXCEPT ![i] = r] \in Seq(Lines)
      /\ Len([text EXCEPT ![i] = r]) = Len(text)
  BY <1>1, <1>3
<1> QED
  BY <1>1, <1>2, <1>4, <1>5

\* The value with which a soft save begins, and where it is written.
SoftWrite(m, text, k, w, b) ==
  LET r == m.refs[k]
  IN  \/ /\ r.line # 0 /\ LengthOf(r.val) = r.len
         /\ b = InPlace(text, r.line, r.val) /\ w = Cleaned(m, k, r.line)
      \/ /\ r.line = 0 /\ text # Missing
         /\ b = Appended(text, Entry(k[2], r.val))
         /\ w = Cleaned(m, k, Len(b))
      \/ /\ IF r.line # 0 THEN LengthOf(r.val) # r.len ELSE text = Missing
         /\ b = text /\ w = m

Kept(m, w) ==
  /\ w.touched = m.touched /\ w.armed = m.armed
  /\ \A q \in Keys : w.refs[q].val = m.refs[q].val

\* A step of a soft save leaves a file and an object.
LEMMA SoftWriteType ==
  ASSUME NEW m \in Mem, NEW text \in TextType, NEW k \in Keys,
         \A q \in Keys : m.refs[q].line <= Len(text),
         NEW w, NEW b, SoftWrite(m, text, k, w, b)
  PROVE  /\ w \in Mem /\ b \in TextType /\ Kept(m, w)
         /\ \A q \in Keys : w.refs[q].line <= Len(b)
<1> DEFINE r == m.refs[k]
<1>1. /\ m.refs \in Refs /\ Len(text) \in Nat
      /\ \A q \in Keys : m.refs[q].line \in Nat /\ m.refs[q].val \in AnyValue
  BY TextLines DEF Mem, Refs
<1>2. CASE /\ r.line # 0 /\ LengthOf(r.val) = r.len
           /\ b = InPlace(text, r.line, r.val) /\ w = Cleaned(m, k, r.line)
  <2>1. r.line \in 1 .. Len(text) /\ r.val \in AnyValue /\ r.line \in Nat
    BY <1>1, <1>2
  <2>2. b \in TextType /\ Len(b) = Len(text)
    BY <1>2, <2>1, InPlaceType
  <2>3. w \in Mem /\ IsClean(m, w, k, r.line)
    BY <1>2, <2>1, CleanedFacts
  <2> QED
    BY <2>2, <2>3 DEF Kept, IsClean
<1>3. CASE /\ r.line = 0 /\ text # Missing
           /\ b = Appended(text, Entry(k[2], r.val))
           /\ w = Cleaned(m, k, Len(b))
  <2>1. k[2] \in Nat /\ r.val \in AnyValue
    BY <1>1, InifileAssumption
  <2>2. Entry(k[2], r.val) \in Lines
    BY <2>1, EntryFacts
  <2>3. b \in TextType /\ Len(b) \in Nat /\ Len(b) >= Len(text)
    BY <1>3, <2>2, AppendedType
  <2>4. w \in Mem /\ IsClean(m, w, k, Len(b))
    BY <1>3, <2>3, CleanedFacts
  <2> QED
    BY <1>1, <2>3, <2>4 DEF Kept, IsClean
<1>4. CASE b = text /\ w = m
  BY <1>4 DEF Kept
<1> QED
  BY <1>2, <1>3, <1>4 DEF SoftWrite

\* A step of a soft save of an object that knows its file writes its value,
\* and no other.
LEMMA SoftWriteSynced ==
  ASSUME NEW m \in Mem, NEW text \in TextType, Whole(text),
         Synced(m.refs, text), NEW k \in Dirty(m),
         NEW w, NEW b, SoftWrite(m, text, k, w, b)
  PROVE  /\ Whole(b) /\ Synced(w.refs, b) /\ Dirty(w) = Dirty(m) \ {k}
         /\ \A q \in Keys : \/ ValueOf(b, q) = ValueOf(text, q)
                            \/ ValueOf(b, q) = m.refs[q].val
<1> DEFINE r == m.refs[k]
<1>1. k \in Keys /\ r.dirty
  BY DEF Dirty
<1>2. /\ Placed(m.refs, text, k) /\ r.val \in Values
      /\ r.line = LineOf(text, k) /\ r.line \in Nat /\ Len(text) \in Nat
      /\ r.line # 0 => r.len = LengthOf(ValueOf(text, k))
  BY <1>1, TextLines DEF Synced, Placed, Mem, Refs
<1>3. LengthOf(r.val) \in Nat
  BY <1>2, InifileAssumption DEF LengthOf
<1>4. ASSUME LineOf(b, k) \in Nat, w = Cleaned(m, k, LineOf(b, k)),
             b \in TextType, b # Missing, b # <<>>,
             LastSection(b) = LastSection(text),
             \A q \in Keys \ {k} : LineOf(b, q) = LineOf(text, q),
             ValueOf(b, k) = r.val,
             \A q \in Keys \ {k} : ValueOf(b, q) = ValueOf(text, q)
      PROVE  Synced(w.refs, b) /\ Dirty(w) = Dirty(m) \ {k}
  <2>0. /\ IsClean(m, w, k, LineOf(b, k)) /\ Dirty(w) = Dirty(m) \ {k}
        /\ Sections(w.refs) = Sections(m.refs)
    BY <1>1, <1>4, CleanedFacts
  <2>1. /\ w.refs[k].val = m.refs[k].val /\ w.refs[k].dirty = FALSE
        /\ w.refs[k].line = LineOf(b, k)
        /\ w.refs[k].len = LengthOf(m.refs[k].val)
        /\ \A q \in Keys \ {k} : w.refs[q] = m.refs[q]
        /\ Dirty(w) = Dirty(m) \ {k}
        /\ Sections(w.refs) = Sections(m.refs)
    BY <2>0 DEF IsClean
  <2>2. ASSUME NEW q \in Keys \ {k}, m.refs[q].dirty
        PROVE  Placed(w.refs, b, q)
    BY <1>4, <2>1, <2>2 DEF Synced, Placed
  <2>3. ASSUME NEW q \in Keys
        PROVE  /\ w.refs[q].line = LineOf(b, q)
               /\ w.refs[q].line # 0 => w.refs[q].len = LengthOf(ValueOf(b, q))
               /\ ~w.refs[q].dirty => w.refs[q].val = ValueOf(b, q)
               /\ w.refs[q].dirty => Placed(w.refs, b, q)
    <3>1. CASE q = k
      BY <1>4, <2>1, <3>1
    <3>2. CASE q # k
      <4>1. /\ w.refs[q] = m.refs[q] /\ LineOf(b, q) = LineOf(text, q)
            /\ ValueOf(b, q) = ValueOf(text, q)
        BY <1>4, <2>1, <3>2
      <4>2. /\ m.refs[q].line = LineOf(text, q)
            /\ m.refs[q].line # 0 =>
                 m.refs[q].len = LengthOf(ValueOf(text, q))
            /\ ~m.refs[q].dirty => m.refs[q].val = ValueOf(text, q)
        BY DEF Synced
      <4> QED
        BY <2>2, <3>2, <4>1, <4>2
    <3> QED
      BY <3>1, <3>2
  <2> QED
    BY <2>1, <2>3 DEF Synced
<1>5. CASE r.line # 0
  <2>1. LengthOf(r.val) = r.len
    BY <1>2, <1>5 DEF Placed
  <2>2. b = InPlace(text, LineOf(text, k), r.val) /\ w = Cleaned(m, k, r.line)
    BY <1>2, <1>5, <2>1 DEF SoftWrite
  <2>3. ValueOf(text, k) # Garbage
    <3>1. LengthOf(ValueOf(text, k)) # -1
      BY <1>2, <1>3, <1>5, <2>1
    <3> QED
      BY <3>1, InifileAssumption DEF LengthOf
  <2>4. /\ b \in TextType /\ Len(b) = Len(text) /\ b # Missing
        /\ LastSection(b) = LastSection(text)
        /\ \A q \in Keys : LineOf(b, q) = LineOf(text, q)
        /\ ValueOf(b, k) = r.val
        /\ \A q \in Keys \ {k} : ValueOf(b, q) = ValueOf(text, q)
        /\ Whole(b)
    <3>1. LineOf(text, k) # 0
      BY <1>2, <1>5
    <3> HIDE DEF r
    <3> QED
      BY <1>1, <1>2, <2>2, <2>3, <3>1, InPlaceFacts
  <2>5. b # <<>>
    <3>1. text # <<>>
      BY <1>1, <1>2, <1>5, WholeValue
    <3>2. Len(text) # 0
      BY <3>1, TextLines
    <3> QED
      BY <2>4, <3>2
  <2>6. Synced(w.refs, b) /\ Dirty(w) = Dirty(m) \ {k}
    <3>1. LineOf(b, k) = r.line /\ LineOf(b, k) \in Nat
      BY <1>1, <1>2, <2>4
    <3> QED
      BY <1>4, <2>2, <2>4, <2>5, <3>1
  <2> QED
    BY <2>4, <2>6
<1>6. CASE r.line = 0
  <2>1. /\ text # Missing /\ text # <<>> /\ LastSection(text) = k[1]
        /\ LineOf(text, k) = 0
    BY <1>2, <1>6 DEF Placed
  <2>2. b = Appended(text, Entry(k[2], r.val)) /\ w = Cleaned(m, k, Len(b))
    BY <1>6, <2>1 DEF SoftWrite
  <2>3. /\ b \in TextType /\ Len(b) = Len(text) + 1 /\ b # Missing
        /\ LastSection(b) = LastSection(text)
        /\ LineOf(b, k) = Len(b)
        /\ \A q \in Keys \ {k} : LineOf(b, q) = LineOf(text, q)
        /\ ValueOf(b, k) = r.val
        /\ \A q \in Keys \ {k} : ValueOf(b, q) = ValueOf(text, q)
        /\ Whole(b)
    <3> HIDE DEF r
    <3> QED
      BY <1>1, <1>2, <2>1, <2>2, AppendFacts
  <2>4. b # <<>> /\ Len(b) \in Nat
    BY <1>2, <2>3
  <2>5. Synced(w.refs, b) /\ Dirty(w) = Dirty(m) \ {k}
    BY <1>4, <2>2, <2>3, <2>4
  <2> QED
    BY <2>3, <2>5
<1> QED
  BY <1>5, <1>6

-----------------------------------------------------------------------------
(* Each action keeps the invariant.                                        *)

Lined(m, text) == \A k \in Keys : m.refs[k].line <= Len(text)
Touched(m) == m.armed <=> m.touched # "none"

\* The object after a write.
LEMMA WriteType ==
  ASSUME NEW m \in Mem, NEW k \in Keys, NEW v \in Values,
         NEW text \in TextType, Lined(m, text), Touched(m),
         NEW w, w = write(m, k, v)
  PROVE  /\ w \in Mem /\ Lined(w, text) /\ Touched(w)
         /\ w.touched = "none" => w = m
         /\ w.refs[k].val = v
         /\ \A q \in Keys \ {k} : w.refs[q].val = m.refs[q].val
<1>1. CASE m.refs[k].val = v
  <2>1. w = m
    BY <1>1, WriteSame
  <2> QED
    BY <1>1, <2>1
<1>2. CASE m.refs[k].val # v
  <2>1. /\ w \in Mem /\ w.armed = TRUE /\ w.touched # "none"
        /\ Written(m, w, k, v)
    BY <1>2, WriteFacts
  <2>2. Len(text) \in Nat
    BY TextLines
  <2>3. Lined(w, text)
    BY <2>1, <2>2 DEF Lined, Written
  <2> QED
    BY <2>1, <2>3 DEF Touched, Written
<1> QED
  BY <1>1, <1>2

\* Facts about a state in which a run has not begun or goes on.
LEMMA StateFacts ==
  ASSUME Inv
  PROVE  /\ file \in TextType /\ backup \in TextType /\ mem \in Mem
         /\ mem.refs \in Refs /\ clean_exit \in Keys /\ False \in Values
         /\ False # None /\ False # Bad /\ None # Bad
         /\ pc = "down" => exiting = FALSE
         /\ pc = "idle" => exiting = FALSE /\ Touched(mem)
         /\ pc \notin {"truncated", "copied", "reload"} => Lined(mem, file)
  BY SettingsAssumption, InifileAssumption
     DEF Inv, TypeOK, MarkInv, Mem, TouchInv, Touched, Lined, None, Bad

\* The constructor of the settings.
LEMMA ConstructInv ==
  ASSUME Inv, Construct
  PROVE  Inv'
<1> DEFINE m == load_file(file)
<1>1. /\ pc = "down" /\ pc' = "idle" /\ mem' = write(m, clean_exit, False)
      /\ last_clean_exit' = (m.refs[clean_exit].val # False) /\ saved' = "no"
      /\ UNCHANGED <<file, backup, todo, exiting, stale, crashes, changes,
                     ended>>
  BY DEF Construct, Start, was_clean_exit, diskVars
<1>2. /\ file \in TextType /\ clean_exit \in Keys /\ False \in Values
      /\ exiting = FALSE
  BY <1>1, StateFacts
<1>3. /\ m \in Mem /\ m.refs = Parsed(file) /\ m.touched = "none"
      /\ m.armed = FALSE /\ Synced(m.refs, file) /\ Dirty(m) = {}
      /\ \A k \in Keys : m.refs[k].line <= Len(file)
  BY <1>2, LoadFacts
<1>4. m.refs[clean_exit].val = ValueOf(file, clean_exit)
  BY <1>3 DEF ValueOf
<1> HIDE DEF m
<1>5. Lined(m, file) /\ Touched(m)
  BY <1>3 DEF Lined, Touched
<1>6. /\ mem' \in Mem /\ Lined(mem', file) /\ Touched(mem')
      /\ mem'.touched = "none" => mem' = m
      /\ mem'.refs[clean_exit].val = False
  BY <1>1, <1>2, <1>3, <1>5, WriteType
<1>7. TypeOK'
  BY <1>1, <1>6 DEF Inv, TypeOK, Lined
<1>8. FileInv'
  BY <1>1 DEF Inv, FileInv
<1>9. CopyInv'
  BY <1>1 DEF CopyInv
<1>10. TouchInv'
  <2>1. mem'.touched = "none" => Dirty(mem') = {}
    BY <1>3, <1>6
  <2> QED
    BY <1>1, <1>6, <2>1 DEF TouchInv, Touched
<1>11. SyncInv'
  <2> SUFFICES ASSUME ~stale, mem'.touched # "hard"
               PROVE  Synced(mem'.refs, file)
    BY <1>1 DEF SyncInv
  <2>1. Whole(file)
    BY <1>1 DEF Inv, FileInv
  <2> QED
    BY <1>1, <1>2, <1>3, <2>1, WriteSynced
<1>12. MarkInv'
  BY <1>1, <1>2, <1>6 DEF MarkInv
<1>13. EndInv' /\ HistoryOK'
  BY <1>1 DEF EndInv, Inv, HistoryOK
<1>14. ExitReported'
  BY <1>1, <1>4 DEF Inv, EndInv, ExitReported
<1> QED
  BY <1>7, <1>8, <1>9, <1>10, <1>11, <1>12, <1>13, <1>14 DEF Inv

\* A change of a value, but the mark.
LEMMA WriteInv ==
  ASSUME Inv, NEW k \in Keys \ {clean_exit}, NEW v \in Values, Write(k, v),
         UNCHANGED <<last_clean_exit, saved, ended>>
  PROVE  Inv'
<1>1. /\ pc = "idle" /\ mem' = write(mem, k, v)
      /\ changes < MaxChanges /\ changes' = changes + 1
      /\ UNCHANGED <<file, backup, pc, todo, exiting, stale, crashes,
                     last_clean_exit, saved, ended>>
  BY DEF Write, diskVars
<1>2. /\ file \in TextType /\ mem \in Mem /\ clean_exit \in Keys
      /\ exiting = FALSE /\ Touched(mem) /\ Lined(mem, file)
  BY <1>1, StateFacts
<1>3. /\ mem' \in Mem /\ Lined(mem', file) /\ Touched(mem')
      /\ mem'.touched = "none" => mem' = mem
      /\ \A q \in Keys \ {k} : mem'.refs[q].val = mem.refs[q].val
  BY <1>1, <1>2, WriteType
<1>4. changes' \in 0 .. MaxChanges
  BY <1>1, InifileAssumption DEF Inv, TypeOK
<1>5. TypeOK'
  BY <1>1, <1>3, <1>4 DEF Inv, TypeOK, Lined
<1>6. FileInv' /\ CopyInv' /\ EndInv' /\ HistoryOK' /\ ExitReported'
  <2>1. FileInv'
    BY <1>1 DEF Inv, FileInv
  <2>2. CopyInv' /\ EndInv'
    BY <1>1 DEF CopyInv, EndInv
  <2>3. HistoryOK'
    BY <1>1 DEF Inv, HistoryOK
  <2>4. ExitReported'
    BY <1>1 DEF Inv, ExitReported
  <2> QED
    BY <2>1, <2>2, <2>3, <2>4
<1>7. TouchInv'
  BY <1>1, <1>3 DEF Inv, TouchInv, Touched
<1>8. SyncInv'
  <2> SUFFICES ASSUME ~stale, mem'.touched # "hard"
               PROVE  Synced(mem'.refs, file)
    BY <1>1 DEF SyncInv
  <2>1. Whole(file) /\ (mem.touched # "hard" => Synced(mem.refs, file))
    BY <1>1 DEF Inv, FileInv, SyncInv
  <2> QED
    BY <1>1, <1>2, <2>1, WriteSynced
<1>9. MarkInv'
  <2>1. mem'.refs[clean_exit].val = mem.refs[clean_exit].val
    BY <1>2, <1>3
  <2> QED
    BY <1>1, <2>1 DEF Inv, MarkInv
<1> QED
  BY <1>5, <1>6, <1>7, <1>8, <1>9 DEF Inv

\* The object after values are erased.
LEMMA EraseType ==
  ASSUME NEW m \in Mem, NEW gone \in SUBSET Keys, NEW text \in TextType,
         Lined(m, text), Touched(m), NEW w, w = erase(m, gone)
  PROVE  /\ w \in Mem /\ Lined(w, text) /\ Touched(w)
         /\ w.touched # "hard" => w = m
         /\ \A k \in gone : w.refs[k].val = None
         /\ \A k \in Keys \ gone : w.refs[k].val = m.refs[k].val
<1>1. w \in Mem /\ Erased(m, w, gone)
  BY EraseFacts
<1>2. Len(text) \in Nat
  BY TextLines
<1>3. Lined(w, text) /\ Touched(w)
  BY <1>1, <1>2 DEF Erased, Lined, Touched
<1> QED
  BY <1>1, <1>3 DEF Erased

\* Values are erased, but the mark.
LEMMA EraseInv ==
  ASSUME Inv, NEW gone \in SUBSET (Keys \ {clean_exit}), Erase(gone),
         UNCHANGED <<last_clean_exit, saved, ended>>
  PROVE  Inv'
<1>1. /\ pc = "idle" /\ mem' = erase(mem, gone)
      /\ changes < MaxChanges /\ changes' = changes + 1
      /\ UNCHANGED <<file, backup, pc, todo, exiting, stale, crashes,
                     last_clean_exit, saved, ended>>
  BY DEF Erase, diskVars
<1>2. /\ file \in TextType /\ mem \in Mem /\ clean_exit \in Keys
      /\ exiting = FALSE /\ Touched(mem) /\ Lined(mem, file)
  BY <1>1, StateFacts
<1>3. /\ mem' \in Mem /\ Lined(mem', file) /\ Touched(mem')
      /\ mem'.touched # "hard" => mem' = mem
      /\ \A q \in Keys \ gone : mem'.refs[q].val = mem.refs[q].val
  BY <1>1, <1>2, EraseType
<1>4. changes' \in 0 .. MaxChanges
  BY <1>1, InifileAssumption DEF Inv, TypeOK
<1>5. TypeOK'
  BY <1>1, <1>3, <1>4 DEF Inv, TypeOK, Lined
<1>6. FileInv' /\ CopyInv' /\ EndInv' /\ HistoryOK' /\ ExitReported'
  <2>1. FileInv'
    BY <1>1 DEF Inv, FileInv
  <2>2. CopyInv' /\ EndInv'
    BY <1>1 DEF CopyInv, EndInv
  <2>3. HistoryOK'
    BY <1>1 DEF Inv, HistoryOK
  <2>4. ExitReported'
    BY <1>1 DEF Inv, ExitReported
  <2> QED
    BY <2>1, <2>2, <2>3, <2>4
<1>7. TouchInv' /\ SyncInv'
  BY <1>1, <1>3 DEF Inv, TouchInv, Touched, SyncInv
<1>8. MarkInv'
  <2>1. mem'.refs[clean_exit].val = mem.refs[clean_exit].val
    BY <1>2, <1>3
  <2> QED
    BY <1>1, <2>1 DEF Inv, MarkInv
<1> QED
  BY <1>5, <1>6, <1>7, <1>8 DEF Inv

\* save_file begins.
LEMMA BeginFacts ==
  ASSUME Inv, pc = "idle", NEW m \in Mem, Lined(m, file), Touched(m),
         ~stale /\ m.touched # "hard" => Synced(m.refs, file),
         ~stale /\ m.touched = "none" => Dirty(m) = {},
         Begin(m), UNCHANGED <<file, backup, stale, crashes, changes>>,
         exiting' \in BOOLEAN
  PROVE  /\ TypeOK' /\ FileInv' /\ CopyInv' /\ TouchInv' /\ SyncInv'
         /\ mem'.refs = m.refs /\ pc' \in {"done", "soft", "hard"}
<1>1. /\ mem' = [m EXCEPT !.armed = FALSE]
      /\ todo' = IF m.touched = "soft" THEN Dirty(m) ELSE {}
      /\ pc' = IF m.touched = "none" THEN "done" ELSE m.touched
  BY DEF Begin
<1>2. /\ mem' \in Mem /\ mem'.refs = m.refs /\ mem'.armed = FALSE
      /\ mem'.touched = m.touched /\ m.touched \in {"none", "soft", "hard"}
  BY <1>1 DEF Mem
<1>3. Dirty(mem') = Dirty(m) /\ Dirty(m) \in SUBSET Keys
  BY <1>2 DEF Dirty
<1>4. /\ m.touched = "none" => pc' = "done"
      /\ m.touched = "soft" => pc' = "soft" /\ todo' = Dirty(m)
      /\ m.touched = "hard" => pc' = "hard"
      /\ todo' \in SUBSET Keys
  BY <1>1, <1>3
<1>5. pc' \in {"done", "soft", "hard"}
  BY <1>2, <1>4
<1>6. Lined(mem', file')
  BY <1>2 DEF Lined
<1>7. TypeOK'
  BY <1>2, <1>4, <1>5, <1>6 DEF Inv, TypeOK, Lined
<1>8. FileInv'
  BY <1>5 DEF Inv, FileInv
<1>9. CopyInv'
  BY <1>5 DEF CopyInv
<1>10. TouchInv'
  BY <1>2, <1>3, <1>4 DEF TouchInv
<1>11. SyncInv'
  BY <1>2, <1>4 DEF SyncInv
<1> QED
  BY <1>2, <1>5, <1>7, <1>8, <1>9, <1>10, <1>11

\* The destructor of the settings, which erases the mark and saves.
LEMMA DestructInv ==
  ASSUME Inv, Destruct
  PROVE  Inv'
<1> DEFINE m == erase(mem, {clean_exit})
<1>1. /\ pc = "idle" /\ Begin(m) /\ exiting' = TRUE
      /\ UNCHANGED <<file, backup, stale, crashes, changes,
                     last_clean_exit, saved, ended>>
  BY DEF Destruct, Exit, diskVars
<1>2. /\ file \in TextType /\ mem \in Mem /\ {clean_exit} \in SUBSET Keys
      /\ Touched(mem) /\ Lined(mem, file)
  BY <1>1, StateFacts
<1>3. /\ m \in Mem /\ Lined(m, file) /\ Touched(m)
      /\ m.touched # "hard" => m = mem
      /\ \A k \in {clean_exit} : m.refs[k].val = None
  BY <1>2, EraseType
<1> HIDE DEF m
<1>4. /\ ~stale /\ m.touched # "hard" => Synced(m.refs, file)
      /\ ~stale /\ m.touched = "none" => Dirty(m) = {}
  BY <1>1, <1>3 DEF Inv, SyncInv, TouchInv
<1>5. /\ TypeOK' /\ FileInv' /\ CopyInv' /\ TouchInv' /\ SyncInv'
      /\ mem'.refs = m.refs /\ pc' \in {"done", "soft", "hard"}
  BY <1>1, <1>3, <1>4, BeginFacts
<1>6. MarkInv'
  BY <1>1, <1>3, <1>5 DEF MarkInv
<1>7. EndInv' /\ HistoryOK'
  BY <1>1, <1>5 DEF EndInv, Inv, HistoryOK
<1>8. ExitReported'
  BY <1>1, <1>5 DEF Inv, ExitReported
<1> QED
  BY <1>5, <1>6, <1>7, <1>8 DEF Inv

\* A step of a save that neither ends it nor fails to open the file leaves
\* the history.
LEMMA SavingHistory ==
  ASSUME Inv, Saving, UNCHANGED last_clean_exit, pc # "down",
         pc' \notin {"idle", "down", "reload"}
         \/ (pc = "copied" /\ pc' = "reload")
  PROVE  saved' = saved /\ ended' = ended /\ HistoryOK' /\ ExitReported'
<1>1. saved' = saved
  BY DEF Saving
<1>2. ended' = ended
  BY DEF Saving
<1>3. HistoryOK'
  BY <1>1, <1>2 DEF Inv, HistoryOK
<1>4. ExitReported'
  BY <1>2 DEF Inv, ExitReported
<1> QED
  BY <1>1, <1>2, <1>3, <1>4

\* The timer saves.
LEMMA SaveInv ==
  ASSUME Inv, Saving, save, UNCHANGED last_clean_exit
  PROVE  Inv'
<1>1. /\ pc = "idle" /\ Begin(mem)
      /\ UNCHANGED <<file, backup, exiting, stale, crashes, changes>>
  BY DEF save, diskVars
<1>2. mem \in Mem /\ Touched(mem) /\ Lined(mem, file) /\ exiting = FALSE
  BY <1>1, StateFacts
<1>3. /\ ~stale /\ mem.touched # "hard" => Synced(mem.refs, file)
      /\ ~stale /\ mem.touched = "none" => Dirty(mem) = {}
  BY <1>1 DEF Inv, SyncInv, TouchInv
<1>4. /\ TypeOK' /\ FileInv' /\ CopyInv' /\ TouchInv' /\ SyncInv'
      /\ mem'.refs = mem.refs /\ pc' \in {"done", "soft", "hard"}
  BY <1>1, <1>2, <1>3, BeginFacts
<1>5. saved' = saved /\ ended' = ended /\ HistoryOK' /\ ExitReported'
  BY <1>1, <1>4, SavingHistory
<1>6. MarkInv'
  BY <1>1, <1>2, <1>4, <1>5 DEF Inv, MarkInv
<1>7. EndInv'
  BY <1>4 DEF EndInv
<1> QED
  BY <1>4, <1>5, <1>6, <1>7 DEF Inv

\* A value is saved in place.
LEMMA SoftStepInv ==
  ASSUME Inv, Saving, SoftStep, UNCHANGED last_clean_exit
  PROVE  Inv'
<1> DEFINE k == FirstKey(todo)
<1>1. /\ pc = "soft" /\ todo # {} /\ todo' = todo \ {k}
      /\ UNCHANGED <<backup, pc, exiting, stale, crashes, changes>>
  BY DEF SoftStep
<1>2. /\ file \in TextType /\ mem \in Mem /\ mem.refs \in Refs
      /\ Lined(mem, file) /\ clean_exit \in Keys
  BY <1>1, StateFacts
<1>3. todo \in SUBSET Keys
  BY DEF Inv, TypeOK
<1>4. k \in todo /\ k \in Keys
  BY <1>1, <1>3, FirstKeyFacts
<1>5. mem.refs[k].line \in Nat
  BY <1>2, <1>4 DEF Refs
<1>6. SoftWrite(mem, file, k, mem', file')
  BY <1>5 DEF SoftStep, SoftWrite
<1> HIDE DEF k
<1>7. /\ mem' \in Mem /\ file' \in TextType /\ Kept(mem, mem')
      /\ Lined(mem', file')
  BY <1>2, <1>4, <1>6, SoftWriteType DEF Lined
<1>8. ASSUME ~stale
      PROVE  /\ Whole(file') /\ Synced(mem'.refs, file')
             /\ todo' = Dirty(mem')
             /\ \A q \in Keys : \/ ValueOf(file', q) = ValueOf(file, q)
                                \/ ValueOf(file', q) = mem.refs[q].val
  <2>1. Whole(file) /\ Synced(mem.refs, file) /\ todo = Dirty(mem)
    BY <1>1, <1>8 DEF Inv, FileInv, SyncInv, TouchInv
  <2>2. k \in Dirty(mem)
    BY <1>4, <2>1
  <2>3. Dirty(mem') = Dirty(mem) \ {k} /\ Whole(file')
        /\ Synced(mem'.refs, file')
        /\ \A q \in Keys : \/ ValueOf(file', q) = ValueOf(file, q)
                           \/ ValueOf(file', q) = mem.refs[q].val
    BY <1>2, <1>6, <2>1, <2>2, SoftWriteSynced
  <2> QED
    BY <1>1, <2>1, <2>3
<1>9. TypeOK'
  BY <1>1, <1>3, <1>7 DEF Inv, TypeOK, Lined
<1>10. FileInv' /\ SyncInv'
  BY <1>1, <1>8 DEF FileInv, SyncInv
<1>11. TouchInv'
  BY <1>1, <1>7, <1>8 DEF Inv, TouchInv, Kept
<1>12. CopyInv' /\ EndInv'
  BY <1>1 DEF CopyInv, EndInv
<1>13. saved' = saved /\ ended' = ended /\ HistoryOK' /\ ExitReported'
  BY <1>1, SavingHistory
<1>14. MarkInv'
  <2>1. mem'.refs[clean_exit].val = mem.refs[clean_exit].val
    BY <1>2, <1>7 DEF Kept
  <2>2. ASSUME saved = "yes", ~stale, ~exiting
        PROVE  ValueOf(file', clean_exit) = False
    <3>1. /\ mem.refs[clean_exit].val = False
          /\ ValueOf(file, clean_exit) = False
      BY <1>1, <2>2 DEF Inv, MarkInv
    <3>2. \/ ValueOf(file', clean_exit) = ValueOf(file, clean_exit)
          \/ ValueOf(file', clean_exit) = mem.refs[clean_exit].val
      BY <1>2, <1>8, <2>2
    <3> QED
      BY <3>1, <3>2
  <2> QED
    BY <1>1, <1>13, <2>1, <2>2 DEF Inv, MarkInv
<1> QED
  BY <1>9, <1>10, <1>11, <1>12, <1>13, <1>14 DEF Inv

\* The copy is opened, or not.
LEMMA OpenCopyInv ==
  ASSUME Inv, Saving, OpenCopy, UNCHANGED last_clean_exit
  PROVE  Inv'
<1>1. /\ pc = "hard" /\ pc' \in {"writing", "done"}
      /\ backup' \in {<<>>, backup} /\ stale' = (stale \/ pc' = "done")
      /\ UNCHANGED <<file, mem, todo, exiting, crashes, changes>>
  BY DEF OpenCopy
<1>2. <<>> \in TextType
  BY DEF TextType
<1>3. TypeOK'
  BY <1>1, <1>2 DEF Inv, TypeOK
<1>4. FileInv' /\ SyncInv'
  BY <1>1 DEF Inv, FileInv, SyncInv
<1>5. CopyInv' /\ EndInv'
  BY <1>1 DEF CopyInv, EndInv
<1>6. TouchInv'
  BY <1>1 DEF Inv, TouchInv
<1>7. saved' = saved /\ ended' = ended /\ HistoryOK' /\ ExitReported'
  BY <1>1, SavingHistory
<1>8. MarkInv'
  BY <1>1, <1>7 DEF Inv, MarkInv
<1> QED
  BY <1>3, <1>4, <1>5, <1>6, <1>7, <1>8 DEF Inv

\* The copy is written.
LEMMA WriteCopyInv ==
  ASSUME Inv, Saving, WriteCopy, UNCHANGED last_clean_exit
  PROVE  Inv'
<1>1. /\ pc = "writing" /\ pc' = "written" /\ backup' = Text(mem.refs)
      /\ \A k \in Keys : mem.refs[k].val # Bad
      /\ UNCHANGED <<file, mem, todo, exiting, stale, crashes, changes>>
  BY DEF WriteCopy
<1>2. backup' \in TextType
  BY <1>1, StateFacts, TextIsRead
<1>3. TypeOK'
  BY <1>1, <1>2 DEF Inv, TypeOK
<1>4. FileInv' /\ SyncInv'
  BY <1>1 DEF Inv, FileInv, SyncInv
<1>5. CopyInv' /\ EndInv'
  BY <1>1 DEF CopyInv, EndInv
<1>6. TouchInv'
  BY <1>1 DEF Inv, TouchInv
<1>7. saved' = saved /\ ended' = ended /\ HistoryOK' /\ ExitReported'
  BY <1>1, SavingHistory
<1>8. MarkInv'
  BY <1>1, <1>7 DEF Inv, MarkInv
<1> QED
  BY <1>3, <1>4, <1>5, <1>6, <1>7, <1>8 DEF Inv

\* The file is truncated, or cannot be opened.
LEMMA TruncateInv ==
  ASSUME Inv, Saving, Truncate, UNCHANGED last_clean_exit
  PROVE  Inv'
<1>1. /\ pc = "written" /\ stale' = (stale \/ pc' = "reload")
      /\ UNCHANGED <<backup, mem, todo, exiting, crashes, changes>>
  BY DEF Truncate
<1>2. CASE pc' = "truncated" /\ file' = <<>>
  <2>1. <<>> \in TextType
    BY DEF TextType
  <2>2. TypeOK'
    BY <1>1, <1>2, <2>1 DEF Inv, TypeOK
  <2>3. FileInv' /\ SyncInv' /\ EndInv'
    BY <1>2 DEF FileInv, SyncInv, EndInv
  <2>4. CopyInv'
    BY <1>1, <1>2 DEF Inv, CopyInv
  <2>5. TouchInv'
    BY <1>1, <1>2 DEF Inv, TouchInv
  <2>6. saved' = saved /\ ended' = ended /\ HistoryOK' /\ ExitReported'
    BY <1>1, <1>2, SavingHistory
  <2>7. MarkInv'
    BY <1>1, <1>2, <2>6 DEF Inv, MarkInv
  <2> QED
    BY <2>2, <2>3, <2>4, <2>5, <2>6, <2>7 DEF Inv
<1>3. CASE pc' = "reload" /\ file' = file
  <2>1. saved' = "failed" /\ ended' = ended
    BY <1>1, <1>3 DEF Saving
  <2>2. TypeOK'
    BY <1>1, <1>3 DEF Inv, TypeOK
  <2>3. FileInv' /\ SyncInv' /\ EndInv' /\ CopyInv'
    BY <1>1, <1>3 DEF FileInv, SyncInv, EndInv, CopyInv
  <2>4. TouchInv'
    BY <1>1, <1>3 DEF Inv, TouchInv
  <2>5. MarkInv'
    BY <1>1, <1>3, <2>1 DEF Inv, MarkInv
  <2>6. HistoryOK'
    BY <2>1 DEF Inv, HistoryOK
  <2>7. ExitReported'
    BY <1>1, <2>1 DEF Inv, ExitReported
  <2> QED
    BY <2>2, <2>3, <2>4, <2>5, <2>6, <2>7 DEF Inv
<1> QED
  BY <1>2, <1>3 DEF Truncate

\* Part of the copy is copied.
LEMMA CopyPartInv ==
  ASSUME Inv, Saving, CopyPart, UNCHANGED last_clean_exit
  PROVE  Inv'
<1>1. /\ pc = "truncated"
      /\ UNCHANGED <<backup, mem, pc, todo, exiting, stale, crashes, changes>>
  BY DEF CopyPart
<1>2. file' \in TextType
  <2>1. /\ backup \in Seq(Lines) /\ Len(backup) \in Nat
        /\ \A i \in 1 .. Len(backup) : backup[i] \in Lines
    BY TextLines DEF Inv, TypeOK
  <2>2. PICK n \in 0 .. Len(backup) - 1 :
          \/ file' = SubSeq(backup, 1, n)
          \/ \E l \in Begun(backup[n + 1]) :
               file' = Append(SubSeq(backup, 1, n), l)
    BY DEF CopyPart
  <2>3. n \in 0 .. Len(backup) /\ n + 1 \in 1 .. Len(backup)
    BY <2>1
  <2>4. SubSeq(backup, 1, n) \in Seq(Lines)
    BY <2>1, <2>3, Prefix
  <2>5. CutLine \in Lines /\ Bad \in AnyValue
    BY DEF CutLine, Line, Lines, Kinds, AnyValue
  <2>6. ASSUME NEW l \in Begun(backup[n + 1]) PROVE l \in Lines
    <3>1. backup[n + 1] \in Lines
      BY <2>1, <2>3
    <3>2. [backup[n + 1] EXCEPT !.val = Bad] \in Lines
      BY <2>5, <3>1 DEF Lines
    <3>3. l = CutLine \/ l = [backup[n + 1] EXCEPT !.val = Bad]
      BY DEF Begun
    <3> QED
      BY <2>5, <3>2, <3>3
  <2> HIDE DEF Lines
  <2> QED
    BY <2>2, <2>4, <2>6 DEF TextType
<1>3. TypeOK'
  BY <1>1, <1>2 DEF Inv, TypeOK
<1>4. FileInv' /\ SyncInv' /\ EndInv'
  BY <1>1 DEF FileInv, SyncInv, EndInv
<1>5. CopyInv'
  BY <1>1 DEF Inv, CopyInv
<1>6. TouchInv'
  BY <1>1 DEF Inv, TouchInv
<1>7. saved' = saved /\ ended' = ended /\ HistoryOK' /\ ExitReported'
  BY <1>1, SavingHistory
<1>8. MarkInv'
  BY <1>1, <1>7 DEF Inv, MarkInv
<1> QED
  BY <1>3, <1>4, <1>5, <1>6, <1>7, <1>8 DEF Inv

\* The copy has been copied: the file is whole again, and says what the
\* object says.
LEMMA CopyEndInv ==
  ASSUME Inv, Saving, CopyEnd, UNCHANGED last_clean_exit
  PROVE  Inv'
<1>1. /\ pc = "truncated" /\ pc' = "copied" /\ file' = backup
      /\ stale' = FALSE
      /\ UNCHANGED <<backup, mem, todo, exiting, crashes, changes>>
  BY DEF CopyEnd
<1>2. /\ backup = Text(mem.refs) /\ \A k \in Keys : mem.refs[k].val # Bad
  BY <1>1 DEF Inv, CopyInv
<1>3. /\ mem.refs \in Refs /\ clean_exit \in Keys
  BY StateFacts
<1>4. file' \in TextType /\ Whole(file') /\ Agrees(mem.refs, file')
  BY <1>1, <1>2, <1>3, TextIsRead
<1>5. TypeOK'
  BY <1>1, <1>4 DEF Inv, TypeOK
<1>6. FileInv' /\ SyncInv' /\ EndInv'
  BY <1>1, <1>4 DEF FileInv, SyncInv, EndInv
<1>7. CopyInv'
  BY <1>1, <1>2, <1>4 DEF CopyInv
<1>8. TouchInv'
  BY <1>1 DEF Inv, TouchInv
<1>9. saved' = saved /\ ended' = ended /\ HistoryOK' /\ ExitReported'
  BY <1>1, SavingHistory
<1>10. MarkInv'
  <2>1. mem.refs[clean_exit].val = ValueOf(file', clean_exit)
    BY <1>3, <1>4 DEF Agrees
  <2> QED
    BY <1>1, <1>9, <2>1 DEF Inv, MarkInv
<1> QED
  BY <1>5, <1>6, <1>7, <1>8, <1>9, <1>10 DEF Inv

\* The copy is removed.
LEMMA RemoveCopyInv ==
  ASSUME Inv, Saving, RemoveCopy, UNCHANGED last_clean_exit
  PROVE  Inv'
<1>1. /\ pc = "copied" /\ pc' = "reload" /\ backup' = Missing
      /\ UNCHANGED <<file, mem, todo, exiting, stale, crashes, changes>>
  BY DEF RemoveCopy
<1>2. TypeOK'
  BY <1>1, MissingFacts DEF Inv, TypeOK
<1>3. FileInv' /\ SyncInv' /\ EndInv'
  BY <1>1 DEF Inv, FileInv, SyncInv, EndInv
<1>4. CopyInv'
  BY <1>1 DEF Inv, CopyInv
<1>5. TouchInv'
  BY <1>1 DEF Inv, TouchInv
<1>6. saved' = saved /\ ended' = ended /\ HistoryOK' /\ ExitReported'
  BY <1>1, SavingHistory
<1>7. MarkInv'
  BY <1>1, <1>6 DEF Inv, MarkInv, CopyInv
<1> QED
  BY <1>2, <1>3, <1>4, <1>5, <1>6, <1>7 DEF Inv

\* No object refers to a line of a file that was not there.
LEMMA MissingMem ==
  ASSUME NEW text \in TextType
  PROVE  /\ load_file(Missing) \in Mem /\ Lined(load_file(Missing), text)
         /\ load_file(Missing).armed = FALSE
<1>1. /\ Missing \in TextType /\ \A k \in Keys : LineOf(Missing, k) = 0
  BY MissingFacts
<1>2. /\ load_file(Missing) \in Mem
      /\ load_file(Missing).refs = Parsed(Missing)
      /\ load_file(Missing).armed = FALSE
  BY <1>1, LoadFacts
<1>3. \A k \in Keys : Parsed(Missing)[k] = NoRef
  BY <1>1, ParsedFacts
<1>4. Len(text) \in Nat /\ NoRef.line = 0
  BY TextLines DEF NoRef
<1> QED
  BY <1>2, <1>3, <1>4 DEF Lined

\* What the end of a save finds: unless a save has failed, the file says what
\* the object says.
LEMMA EndFacts ==
  ASSUME Inv, ~stale, \/ pc = "soft" /\ todo = {}
                      \/ pc \in {"done", "reload"}
  PROVE  Agrees(mem.refs, file)
<1>1. CASE pc = "reload"
  BY <1>1 DEF Inv, CopyInv
<1>2. CASE (pc = "soft" /\ todo = {}) \/ pc = "done"
  <2>1. Synced(mem.refs, file) /\ Dirty(mem) = {}
    BY <1>2 DEF Inv, SyncInv, TouchInv
  <2>2. \A k \in Keys : ~mem.refs[k].dirty
    BY <2>1 DEF Dirty
  <2> QED
    BY <2>1, <2>2 DEF Synced, Agrees
<1> QED
  BY <1>1, <1>2

\* A save ends.
LEMMA EndSaveInv ==
  ASSUME Inv, Saving, EndSave, UNCHANGED last_clean_exit
  PROVE  Inv'
<1>1. /\ (pc = "soft" /\ todo = {}) \/ pc \in {"done", "reload"}
      /\ exiting' = FALSE
      /\ UNCHANGED <<file, backup, todo, stale, crashes, changes>>
  BY DEF EndSave, diskVars
<1>2. /\ file \in TextType /\ mem \in Mem /\ clean_exit \in Keys
      /\ False # None
      /\ pc # "reload" => Lined(mem, file)
  BY <1>1, StateFacts
<1>3. ~stale => Whole(file) /\ Agrees(mem.refs, file)
  BY <1>1, EndFacts DEF Inv, FileInv
<1>4. ~stale => ValueOf(file, clean_exit) = mem.refs[clean_exit].val
  BY <1>2, <1>3 DEF Agrees
<1>5. CASE exiting
  <2>1. pc' = "down" /\ mem' = load_file(Missing)
    BY <1>5 DEF EndSave
  <2>2. /\ saved' = saved
        /\ ended' = IF stale THEN "clean unsaved" ELSE "clean"
    BY <1>1, <2>1 DEF Saving
  <2>3. mem' \in Mem /\ Lined(mem', file) /\ mem'.armed = FALSE
    BY <1>2, <2>1, MissingMem
  <2>4. TypeOK'
    BY <1>1, <2>1, <2>3 DEF Inv, TypeOK, Lined
  <2>5. FileInv' /\ CopyInv' /\ TouchInv' /\ SyncInv'
    BY <1>1, <1>3, <2>1 DEF FileInv, CopyInv, TouchInv, SyncInv
  <2>6. MarkInv' /\ ExitReported'
    BY <1>1, <2>1 DEF MarkInv, ExitReported
  <2>7. mem.refs[clean_exit].val = None
    BY <1>5 DEF Inv, MarkInv
  <2>8. EndInv'
    BY <1>1, <1>2, <1>4, <2>1, <2>2, <2>7 DEF EndInv
  <2>9. HistoryOK'
    BY <2>2 DEF Inv, HistoryOK
  <2> QED
    BY <2>4, <2>5, <2>6, <2>8, <2>9 DEF Inv
<1>6. CASE ~exiting
  <2>1. /\ pc' = "idle"
        /\ mem' = IF pc = "reload" THEN load_file(file)
                  ELSE [mem EXCEPT !.touched = "none"]
    BY <1>6 DEF EndSave, AfterSave
  <2>2. /\ saved = "failed" => saved' = "failed"
        /\ saved # "failed" => saved' = "yes"
        /\ ended' = ended
    BY <1>1, <2>1 DEF Saving
  <2>3. /\ mem' \in Mem /\ Lined(mem', file) /\ mem'.armed = FALSE
        /\ mem'.touched = "none"
        /\ ~stale => Synced(mem'.refs, file) /\ Dirty(mem') = {}
    <3>1. CASE pc = "reload"
      BY <1>2, <2>1, <3>1, LoadFacts DEF Lined
    <3>2. CASE pc # "reload"
      <4>1. mem' = [mem EXCEPT !.touched = "none"]
        BY <2>1, <3>2
      <4>2. /\ mem' \in Mem /\ mem'.refs = mem.refs
            /\ mem'.armed = mem.armed /\ mem'.touched = "none"
        BY <1>2, <4>1 DEF Mem
      <4>3. mem.armed = FALSE
        BY <1>1 DEF Inv, TouchInv, TypeOK, Mem
      <4>4. ~stale => Synced(mem.refs, file) /\ Dirty(mem) = {}
        BY <1>1, <3>2 DEF Inv, SyncInv, TouchInv
      <4>5. Dirty(mem') = Dirty(mem) /\ Lined(mem', file)
        BY <1>2, <3>2, <4>2 DEF Dirty, Lined
      <4> QED
        BY <4>2, <4>3, <4>4, <4>5
    <3> QED
      BY <3>1, <3>2
  <2>4. TypeOK'
    BY <1>1, <2>1, <2>3 DEF Inv, TypeOK, Lined
  <2>5. FileInv' /\ CopyInv' /\ TouchInv' /\ SyncInv' /\ EndInv'
    BY <1>1, <1>3, <2>1, <2>3 DEF FileInv, CopyInv, TouchInv, SyncInv, EndInv
  <2>6. ASSUME saved # "failed"
        PROVE  /\ mem.refs[clean_exit].val = False
               /\ mem'.refs[clean_exit].val = False
    <3>1. mem.refs[clean_exit].val = False
      BY <1>1, <1>6, <2>6 DEF Inv, MarkInv
    <3>2. CASE pc = "reload"
      <4>1. ~stale
        BY <2>6, <3>2 DEF Inv, MarkInv
      <4>2. mem'.refs = Parsed(file)
        BY <1>2, <2>1, <3>2, LoadFacts
      <4> QED
        BY <1>4, <3>1, <4>1, <4>2 DEF ValueOf
    <3>3. CASE pc # "reload"
      BY <1>2, <2>1, <3>1, <3>3 DEF Mem
    <3> QED
      BY <3>1, <3>2, <3>3
  <2>7. MarkInv'
    BY <1>1, <1>4, <2>1, <2>2, <2>6 DEF MarkInv
  <2>8. HistoryOK'
    BY <2>2 DEF Inv, HistoryOK
  <2>9. ExitReported'
    BY <1>1, <2>2 DEF Inv, ExitReported
  <2> QED
    BY <2>4, <2>5, <2>7, <2>8, <2>9 DEF Inv
<1> QED
  BY <1>5, <1>6

\* The process dies.
LEMMA DyingInv ==
  ASSUME Inv, Dying, UNCHANGED last_clean_exit
  PROVE  Inv'
<1>1. /\ pc # "down" /\ pc' = "down" /\ stale' = (stale \/ pc = "truncated")
      /\ mem' = load_file(Missing) /\ todo' = {} /\ exiting' = FALSE
      /\ UNCHANGED <<file, backup, saved>>
  BY DEF Dying, Crash, Throw, Die, diskVars
<1>2. /\ ended' \in {"crashed", "crashed unsaved"}
      /\ ended' = "crashed" => saved = "yes" /\ ~exiting /\ ~stale'
  BY DEF Dying
<1>3. crashes' \in 0 .. MaxCrashes /\ changes' \in 0 .. MaxChanges
  <2>1. /\ crashes \in 0 .. MaxCrashes /\ changes \in 0 .. MaxChanges
        /\ MaxCrashes \in Nat
    BY InifileAssumption DEF Inv, TypeOK
  <2>2. /\ changes' = changes
        /\ \/ crashes' = crashes
           \/ crashes < MaxCrashes /\ crashes' = crashes + 1
    BY DEF Dying, Crash, Throw
  <2> QED
    BY <2>1, <2>2
<1>4. file \in TextType
  BY StateFacts
<1>5. mem' \in Mem /\ Lined(mem', file) /\ mem'.armed = FALSE
  BY <1>1, <1>4, MissingMem
<1>6. TypeOK'
  BY <1>1, <1>3, <1>5 DEF Inv, TypeOK, Lined
<1>7. FileInv'
  BY <1>1 DEF Inv, FileInv
<1>8. CopyInv' /\ TouchInv' /\ SyncInv' /\ MarkInv' /\ ExitReported'
  BY <1>1 DEF CopyInv, TouchInv, SyncInv, MarkInv, ExitReported
<1>9. EndInv'
  <2> SUFFICES ASSUME ended' = "crashed"
               PROVE  ValueOf(file, clean_exit) = False
    BY <1>1, <1>2 DEF EndInv
  <2>1. saved = "yes" /\ ~exiting /\ ~stale /\ pc # "truncated"
    BY <1>1, <1>2
  <2> QED
    BY <1>1, <2>1 DEF Inv, MarkInv
<1>10. HistoryOK'
  BY <1>1, <1>2 DEF Inv, HistoryOK
<1> QED
  BY <1>6, <1>7, <1>8, <1>9, <1>10 DEF Inv

\* The first run finds no file.
LEMMA InitInv ==
  ASSUME SInit
  PROVE  Inv
<1>1. /\ file = Missing /\ backup = Missing /\ mem = load_file(Missing)
      /\ pc = "down" /\ todo = {} /\ exiting = FALSE /\ stale = FALSE
      /\ crashes = 0 /\ changes = 0
      /\ last_clean_exit = TRUE /\ saved = "no" /\ ended = "first"
  BY DEF SInit, Init
<1>2. file \in TextType /\ backup \in TextType
  BY <1>1, MissingFacts
<1>3. mem \in Mem /\ Lined(mem, file)
  BY <1>1, <1>2, MissingMem
<1>4. TypeOK
  <2>1. crashes \in 0 .. MaxCrashes /\ changes \in 0 .. MaxChanges
    BY <1>1, InifileAssumption
  <2> QED
    BY <1>1, <1>2, <1>3, <2>1 DEF TypeOK, Lined
<1>5. FileInv
  BY <1>1 DEF FileInv, Whole
<1>6. CopyInv /\ TouchInv /\ SyncInv /\ MarkInv /\ EndInv
  BY <1>1 DEF CopyInv, TouchInv, SyncInv, MarkInv, EndInv
<1>7. HistoryOK /\ ExitReported
  BY <1>1 DEF HistoryOK, ExitReported
<1> QED
  BY <1>4, <1>5, <1>6, <1>7 DEF Inv

\* Nothing happens.
LEMMA StutterInv ==
  ASSUME Inv, UNCHANGED vars
  PROVE  Inv'
<1>1. UNCHANGED <<file, backup, mem, pc, todo, exiting, stale, crashes,
                  changes, last_clean_exit, saved, ended>>
  BY DEF vars, iniVars
<1>2. TypeOK' /\ HistoryOK'
  BY <1>1 DEF Inv, TypeOK, HistoryOK
<1>3. FileInv' /\ CopyInv' /\ SyncInv'
  BY <1>1 DEF Inv, FileInv, CopyInv, SyncInv
<1>4. TouchInv'
  BY <1>1 DEF Inv, TouchInv
<1>5. MarkInv' /\ EndInv' /\ ExitReported'
  BY <1>1 DEF Inv, MarkInv, EndInv, ExitReported
<1> QED
  BY <1>2, <1>3, <1>4, <1>5 DEF Inv

\* Every step keeps the invariant.
LEMMA NextInv ==
  ASSUME Inv, [SNext]_vars
  PROVE  Inv'
<1>1. CASE Construct
  BY <1>1, ConstructInv
<1>2. CASE Destruct
  BY <1>2, DestructInv
<1>3. CASE ChangeSettings /\ UNCHANGED <<last_clean_exit, saved, ended>>
  <2>1. ASSUME NEW k \in Keys \ {clean_exit}, NEW v \in Values, Write(k, v)
        PROVE  Inv'
    BY <1>3, <2>1, WriteInv
  <2>2. ASSUME NEW gone \in SUBSET (Keys \ {clean_exit}), Erase(gone)
        PROVE  Inv'
    BY <1>3, <2>2, EraseInv
  <2> QED
    BY <1>3, <2>1, <2>2 DEF ChangeSettings, Change
<1>4. CASE Saving /\ UNCHANGED last_clean_exit
  <2>1. save \/ SaveSteps
    BY <1>4 DEF Saving
  <2> QED
    BY <1>4, <2>1, SaveInv, SoftStepInv, OpenCopyInv, WriteCopyInv,
       TruncateInv, CopyPartInv, CopyEndInv, RemoveCopyInv, EndSaveInv
       DEF SaveSteps
<1>5. CASE Dying /\ UNCHANGED last_clean_exit
  BY <1>5, DyingInv
<1>6. CASE UNCHANGED vars
  BY <1>6, StutterInv
<1> QED
  BY <1>1, <1>2, <1>3, <1>4, <1>5, <1>6 DEF SNext

-----------------------------------------------------------------------------
(* The theorems.                                                           *)

\* The settings and their file keep their invariant.
THEOREM SettingsInvariant == SSpec => []Inv
  BY InitInv, NextInv, PTL DEF SSpec

\* Whatever is changed, saved in place, saved as a whole, and crashes, the
\* file says what the object says whenever no save is due.
THEOREM SavedFileAgrees == SSpec => []SavedAgrees
<1>1. ASSUME Inv PROVE SavedAgrees
  <2>1. CASE pc = "copied"
    <3>1. Agrees(mem.refs, file)
      BY <1>1, <2>1 DEF Inv, CopyInv
    <3> QED
      BY <3>1 DEF SavedAgrees, Agrees, ValueOf
  <2>2. CASE pc = "idle" /\ ~mem.armed /\ ~stale
    <3>1. mem.touched = "none" /\ Dirty(mem) = {}
      BY <1>1, <2>2 DEF Inv, TouchInv
    <3>2. Synced(mem.refs, file)
      BY <1>1, <2>2, <3>1 DEF Inv, SyncInv
    <3>3. \A k \in Keys : ~mem.refs[k].dirty
      BY <3>1 DEF Dirty
    <3> QED
      BY <3>2, <3>3 DEF SavedAgrees, Synced, ValueOf
  <2> QED
    BY <2>1, <2>2 DEF SavedAgrees
<1> QED
  BY <1>1, SettingsInvariant, PTL

\* The mark tells the next run that the run before it exited cleanly, or that
\* it crashed after its first save; not so if it crashed before that save, on
\* its way out or in a full save, or if its saves could not open their files.
THEOREM ExitIsReported == SSpec => []ExitReported
<1>1. Inv => ExitReported
  BY DEF Inv
<1> QED
  BY <1>1, SettingsInvariant, PTL

\* A full save only ever writes over the file while its copy holds everything.
THEOREM CopyIsKept == SSpec => OverwritesWithCopy
<1> DEFINE A == file' # file /\ pc # "soft" => backup = Text(mem.refs)
<1>1. ASSUME Inv, [SNext]_vars PROVE [A]_iniVars
  <2>1. CASE pc \in {"written", "truncated"}
    BY <1>1, <2>1 DEF Inv, CopyInv
  <2>2. CASE pc \notin {"written", "truncated"} /\ pc # "soft"
    <3>1. CASE UNCHANGED vars
      BY <3>1 DEF vars, iniVars
    <3>2. CASE Construct \/ Destruct
      BY <3>2 DEF Construct, Destruct, Start, Exit, diskVars
    <3>3. CASE ChangeSettings
      BY <3>3 DEF ChangeSettings, Change, Write, Erase, diskVars
    <3>4. CASE Saving
      BY <2>2, <3>4
         DEF Saving, save, SaveSteps, SoftStep, OpenCopy, WriteCopy, Truncate,
             CopyPart, CopyEnd, RemoveCopy, EndSave, diskVars
    <3>5. CASE Dying
      BY <3>5 DEF Dying, Crash, Throw, Die, diskVars
    <3> QED
      BY <1>1, <3>1, <3>2, <3>3, <3>4, <3>5 DEF SNext
  <2> QED
    BY <2>1, <2>2
<1> QED
  BY <1>1, SettingsInvariant, PTL DEF SSpec, OverwritesWithCopy

\* The assertions of save_file hold until a full save fails or is cut short.
THEOREM AssertionsHoldBeforeFailure == SSpec => [](~stale => AssertionsHold)
<1>1. ASSUME Inv, ~stale PROVE AssertionsHold
  <2> SUFFICES ASSUME pc = "soft", NEW k \in todo PROVE Fits(k)
    BY DEF AssertionsHold
  <2>1. Synced(mem.refs, file) /\ todo = Dirty(mem)
    BY <1>1 DEF Inv, SyncInv, TouchInv
  <2>2. k \in Keys /\ mem.refs[k].dirty
    BY <2>1 DEF Dirty
  <2>3. Placed(mem.refs, file, k)
    BY <2>1, <2>2 DEF Synced
  <2>4. mem.refs[k].line \in Nat
    BY <1>1, <2>2, StateFacts DEF Refs
  <2>5. CASE mem.refs[k].line # 0
    BY <2>3, <2>4, <2>5 DEF Placed, Fits
  <2>6. CASE mem.refs[k].line = 0
    <3>1. Sections(mem.refs) = {k[1]}
      BY <2>3, <2>6 DEF Placed
    <3>2. Cardinality(Sections(mem.refs)) = 1
      BY <3>1, FS_Singleton
    <3> QED
      BY <2>6, <3>2 DEF Fits
  <2> QED
    BY <2>5, <2>6
<1> QED
  BY <1>1, SettingsInvariant, PTL

=============================================================================
