---------------------------- MODULE SessionProofs ----------------------------
(***************************************************************************)
(* Proofs about the interactive mode, for every set of lines the user may  *)
(* type and however many of them: a new program's prompt finds no line     *)
(* left in the lexer, and lines are run in the order typed and once.       *)
(*                                                                         *)
(* Inputs are numbered as they come, so both follow from the order of the  *)
(* numbers: what waits in the parser and the lexer is later than whatever  *)
(* the main unit has run or holds, and the next input is later still.      *)
(***************************************************************************)
EXTENDS Session, SequenceTheorems, TLAPS

Sources == [read : Seq(Nat), ids : Seq(Nat), depth : Int, size : Int, bad : BOOLEAN,
            eof : BOOLEAN]
Mains == [ids : Seq(Nat), size : Int, wraps : Int, ret : {"no", "value", "empty"},
          kept : BOOLEAN, defined : SUBSET Nat, top : {"main", "callee", "freed"}]

Rising(s) == \A i, j \in DOMAIN s : i < j => s[i] < s[j]
\* The inputs a main unit was made of, now or before over the same table.
Past(m) == m.defined \cup ToSet(m.ids)
\* A sequence of inputs, in order, that are later than a unit's and not
\* later than a given one.
Later(s, m, k) ==
  /\ s \in Seq(Nat) /\ Rising(s)
  /\ \A i \in DOMAIN s : s[i] <= k /\ \A j \in Past(m) : j < s[i]

\* What waits is what the parser has read ahead and then what is lexed.
SourceOK(s, m, k) ==
  /\ s \in Sources
  /\ Later(s.read, m, k) /\ Later(s.ids, m, k)
  /\ \A i \in DOMAIN s.read, j \in DOMAIN s.ids : s.read[i] < s.ids[j]
MainOK(m, k) == m \in Mains /\ \A j \in Past(m) : j <= k

\* The inductive invariant.
SessionInv ==
  /\ n \in Nat
  /\ MainOK(main, n)
  /\ SourceOK(source, main, n)
  /\ ready \in BOOLEAN
  /\ ReadyIsClean

\* A step may replace the program only by one of later inputs.
Replaces(m) ==
  /\ MainOK(m, n + 1)
  /\ \/ m.ids = main.ids
     \/ Later(m.ids, main, n + 1)

-----------------------------------------------------------------------------
(* Sequences of inputs.                                                    *)

LEMMA EmptyLater ==
  ASSUME NEW m, NEW k
  PROVE  Later(<<>>, m, k) /\ ToSet(<<>>) = {}
  BY DEF Later, Rising, ToSet

\* The next input joins a sequence of earlier ones.
LEMMA AppendLater ==
  ASSUME NEW m, NEW k \in Nat, MainOK(m, k), NEW s, Later(s, m, k)
  PROVE  /\ Later(Append(s, k + 1), m, k + 1)
         /\ DOMAIN Append(s, k + 1) = 1..(Len(s) + 1)
         /\ DOMAIN s = 1..Len(s) /\ Len(s) \in Nat
         /\ \A i \in DOMAIN s : Append(s, k + 1)[i] = s[i]
         /\ Append(s, k + 1)[Len(s) + 1] = k + 1
  <1> DEFINE t == Append(s, k + 1)
  <1>1. /\ s \in Seq(Nat) /\ t \in Seq(Nat) /\ DOMAIN t = 1..(Len(s) + 1)
        /\ DOMAIN s = 1..Len(s) /\ Len(s) \in Nat
        /\ \A i \in DOMAIN s : t[i] = s[i]
        /\ t[Len(s) + 1] = k + 1
    BY AppendProperties, LenProperties DEF Later
  <1>2. \A i \in DOMAIN s : s[i] \in Nat /\ s[i] <= k
    BY <1>1, ElementOfSeq DEF Later
  <1>3. \A j \in Past(m) : j \in Nat /\ j <= k
    BY DEF MainOK, Mains, Past, ToSet
  <1> HIDE DEF t
  <1>4. Rising(t)
    <2> SUFFICES ASSUME NEW i \in DOMAIN t, NEW j \in DOMAIN t, i < j
                 PROVE  t[i] < t[j]
      BY DEF Rising
    <2>1. i \in DOMAIN s /\ t[i] = s[i]
      BY <1>1
    <2>2. CASE j = Len(s) + 1
      BY <1>1, <1>2, <2>1, <2>2
    <2>3. CASE j \in DOMAIN s
      BY <1>1, <2>1, <2>3 DEF Later, Rising
    <2> QED BY <1>1, <2>2, <2>3
  <1>5. \A i \in DOMAIN t : t[i] <= k + 1 /\ \A j \in Past(m) : j < t[i]
    BY <1>1, <1>2, <1>3 DEF Later
  <1> QED BY <1>1, <1>4, <1>5 DEF Later, t

\* A bound may be raised, and a unit replaced by one of fewer inputs.
LEMMA LaterWeakened ==
  ASSUME NEW m, NEW o, NEW k \in Nat, NEW s, Later(s, m, k), Past(o) \subseteq Past(m)
  PROVE  Later(s, o, k + 1) /\ Later(s, o, k)
  <1>1. \A i \in DOMAIN s : s[i] \in Nat /\ s[i] <= k + 1
    BY ElementOfSeq, LenProperties DEF Later
  <1> QED BY <1>1 DEF Later

LEMMA PrefixLater ==
  ASSUME NEW m, NEW k \in Nat, NEW s, Later(s, m, k), NEW d \in 0..Len(s)
  PROVE  Later(SubSeq(s, 1, d), m, k)
  <1> DEFINE t == SubSeq(s, 1, d)
  <1>1. /\ s \in Seq(Nat) /\ t \in Seq(Nat) /\ DOMAIN t = 1..d
        /\ DOMAIN s = 1..Len(s) /\ Len(s) \in Nat
        /\ \A i \in 1..d : t[i] = s[i]
    <2>1. s \in Seq(Nat) /\ DOMAIN s = 1..Len(s) /\ Len(s) \in Nat
      BY LenProperties DEF Later
    <2> QED BY <2>1, SubSeqProperties, LenProperties
  <1> HIDE DEF t
  <1> QED BY <1>1 DEF Later, Rising, t

\* The program a line completes: what was read ahead, then what was lexed.
LEMMA ConcatLater ==
  ASSUME NEW m, NEW k \in Nat, NEW s, NEW t, Later(s, m, k), Later(t, m, k),
         \A i \in DOMAIN s, j \in DOMAIN t : s[i] < t[j]
  PROVE  Later(s \o t, m, k)
  <1>1. /\ s \in Seq(Nat) /\ t \in Seq(Nat) /\ (s \o t) \in Seq(Nat)
        /\ DOMAIN s = 1..Len(s) /\ DOMAIN t = 1..Len(t)
        /\ Len(s) \in Nat /\ Len(t) \in Nat
        /\ Len(s \o t) = Len(s) + Len(t)
        /\ \A i \in 1..(Len(s) + Len(t)) :
             (s \o t)[i] = IF i <= Len(s) THEN s[i] ELSE t[i - Len(s)]
    BY ConcatProperties, LenProperties DEF Later
  <1> DEFINE c == s \o t
  <1>2. DOMAIN c = 1..(Len(s) + Len(t))
    BY <1>1, LenProperties
  <1> HIDE DEF c
  <1>3. \A i \in DOMAIN c : \/ i \in DOMAIN s /\ c[i] = s[i]
                            \/ i - Len(s) \in DOMAIN t /\ i > Len(s) /\ c[i] = t[i - Len(s)]
    BY <1>1, <1>2 DEF c
  <1>4. Rising(c)
    <2> SUFFICES ASSUME NEW i \in DOMAIN c, NEW j \in DOMAIN c, i < j
                 PROVE  c[i] < c[j]
      BY DEF Rising
    <2>1. CASE j \in DOMAIN s /\ c[j] = s[j]
      BY <2>1, <1>1, <1>2, <1>3 DEF Later, Rising
    <2>2. CASE j - Len(s) \in DOMAIN t /\ j > Len(s) /\ c[j] = t[j - Len(s)]
      <3>1. CASE i \in DOMAIN s /\ c[i] = s[i]
        BY <2>2, <3>1
      <3>2. CASE i - Len(s) \in DOMAIN t /\ i > Len(s) /\ c[i] = t[i - Len(s)]
        <4>1. i - Len(s) < j - Len(s)
          BY <1>1, <1>2
        <4> QED BY <2>2, <3>2, <4>1 DEF Later, Rising
      <3> QED BY <1>3, <3>1, <3>2
    <2> QED BY <1>3, <2>1, <2>2
  <1>5. \A i \in DOMAIN c : c[i] <= k /\ \A j \in Past(m) : j < c[i]
    BY <1>3 DEF Later
  <1> QED BY <1>1, <1>4, <1>5 DEF Later, c

-----------------------------------------------------------------------------
(* Lexing, loading, running.                                               *)

\* A source with nothing in it, or with nothing but what was read ahead.
LEMMA EmptySource ==
  ASSUME NEW m, NEW k, NEW s \in Sources, s.read = <<>>, s.ids = <<>>
  PROVE  SourceOK(s, m, k)
  BY EmptyLater DEF SourceOK

LEMMA LexOK ==
  ASSUME SessionInv, NEW kind
  PROVE  SourceOK(Lex(source, kind), main, n + 1)
  <1> DEFINE s == Lex(source, kind)
             ids == Append(source.ids, n + 1)
  <1>1. Opens(kind) \in Int /\ Counts(kind) \in Int
    BY DEF Opens, Counts
  <1>2. \A k \in Int : UpTo2(k) \in Int
    BY DEF UpTo2
  <1>3. source \in Sources /\ n \in Nat /\ Later(source.read, main, n) /\ Later(source.ids, main, n)
    BY DEF SessionInv, SourceOK
  <1>4. Later(ids, main, n + 1) /\ ids \in Seq(Nat)
    BY <1>3, AppendLater DEF SessionInv, Later
  <1>5. s.ids = ids /\ s.read = source.read
    BY <1>3 DEF Lex, Sources
  <1>6. s \in Sources
    <2>1. /\ source.depth + Opens(kind) \in Int
          /\ UpTo2(source.size + Counts(kind)) \in Int
          /\ (source.bad \/ kind = "bad" \/ source.depth + Opens(kind) < 0) \in BOOLEAN
      <3>1. source.depth \in Int /\ source.size \in Int
        BY <1>3 DEF Sources
      <3> QED BY <1>1, <1>2, <3>1
    <2> HIDE DEF ids
    <2> QED BY <2>1, <1>3, <1>4 DEF Lex, Sources, ids
  <1>7. Later(source.read, main, n + 1)
    BY <1>3, LaterWeakened
  <1>8. \A i \in DOMAIN source.read, j \in DOMAIN ids : source.read[i] < ids[j]
    <2>1. /\ DOMAIN ids = 1..(Len(source.ids) + 1)
          /\ DOMAIN source.ids = 1..Len(source.ids) /\ Len(source.ids) \in Nat
          /\ \A i \in DOMAIN source.ids : ids[i] = source.ids[i]
          /\ ids[Len(source.ids) + 1] = n + 1
      BY <1>3, AppendLater DEF SessionInv
    <2>2. \A i \in DOMAIN source.read : source.read[i] < n + 1
      <3>1. \A i \in DOMAIN source.read : source.read[i] \in Nat /\ source.read[i] <= n
        BY <1>3, ElementOfSeq, LenProperties DEF Later
      <3> QED BY <3>1, <1>3
    <2> HIDE DEF ids
    <2> QED BY <2>1, <2>2 DEF SessionInv, SourceOK
  <1> HIDE DEF s, ids
  <1> QED BY <1>4, <1>5, <1>6, <1>7, <1>8 DEF SourceOK, s

LEMMA LoadOK ==
  ASSUME SessionInv, NEW ids, Later(ids, main, n + 1), NEW size \in Int
  PROVE  Replaces(Load(main, ids, size)) /\ Load(main, ids, size).ids = ids
  <1> DEFINE l == Load(main, ids, size)
  <1>1. main \in Mains /\ n \in Nat /\ ids \in Seq(Nat) /\ MainOK(main, n)
    BY DEF SessionInv, MainOK, Later
  <1>2. /\ l \in Mains /\ l.ids = ids
        /\ l.defined = IF main.kept THEN main.defined ELSE {}
    <2> DEFINE ret == IF main.kept THEN main.ret ELSE "no"
               defined == IF main.kept THEN main.defined ELSE {}
    <2>1. ret \in {"no", "value", "empty"} /\ defined \in SUBSET Nat
      BY <1>1 DEF Mains
    <2>2. l = [main EXCEPT !.ids = ids, !.size = size, !.wraps = 0, !.top = "main",
                           !.ret = ret, !.defined = defined]
      BY DEF Load
    <2> HIDE DEF l, ret, defined
    <2>3. l = [ids |-> ids, size |-> size, wraps |-> 0, ret |-> ret, kept |-> main.kept,
               defined |-> defined, top |-> "main"]
      BY <1>1, <2>2 DEF Mains
    <2>4. main.kept \in BOOLEAN
      BY <1>1 DEF Mains
    <2>5. l \in Mains /\ l.ids = ids /\ l.defined = defined
      BY <1>1, <2>1, <2>3, <2>4 DEF Mains
    <2> QED BY <2>5 DEF defined
  <1> HIDE DEF l
  <1>3. \A j \in Past(l) : j <= n + 1
    <2>1. \A j \in ToSet(ids) : j <= n + 1
      BY DEF Later, ToSet
    <2>2. \A j \in l.defined : j \in Nat /\ j <= n
      BY <1>1, <1>2 DEF MainOK, Mains, Past
    <2> QED BY <1>1, <1>2, <2>1, <2>2 DEF Past
  <1> QED BY <1>2, <1>3 DEF Replaces, MainOK, Past, l

\* Running a program does not change what it was made of.
LEMMA AfterOK ==
  ASSUME NEW m \in Mains, NEW o, NEW d \in After(m, o)
  PROVE  d \in Mains /\ d.ids = m.ids /\ Past(d) \subseteq Past(m)
  <1> DEFINE e == [m EXCEPT !.defined = IF m.top = "main" THEN @ \cup ToSet(m.ids) ELSE @]
  <1>1. ToSet(m.ids) \in SUBSET Nat
    BY ElementOfSeq, LenProperties DEF Mains, ToSet
  <1>2. e \in Mains /\ e.ids = m.ids /\ e.defined \subseteq Past(m)
    BY <1>1 DEF Mains, Past
  <1>3. d \in Mains /\ d.ids = m.ids /\ d.defined \subseteq Past(m)
    <2>1. CASE d = m
      BY <2>1 DEF Past
    <2>2. CASE d # m
      <3>1. \/ d = e
            \/ d = [e EXCEPT !.top = "callee"] \/ d = [e EXCEPT !.top = "freed"]
            \/ d = [e EXCEPT !.ret = "value"] \/ d = [e EXCEPT !.ret = "empty"]
        BY <2>2 DEF After
      <3> HIDE DEF e
      <3> QED BY <1>2, <3>1 DEF Mains
    <2> QED BY <2>1, <2>2
  <1> QED BY <1>3 DEF Past

\* The program of a complete line replaces the one there is, or the one
\* there is stays.
LEMMA ParseOK ==
  ASSUME SessionInv, NEW s, SourceOK(s, main, n + 1)
  PROVE  Replaces(Parse(s))
  <1> DEFINE l == IF s.bad \/ s.eof THEN main ELSE Load(main, s.read \o s.ids, s.size)
             m == [l EXCEPT !.kept = TRUE]
             w == IF cas /\ m.size = 1 THEN UpTo2(m.wraps + 1) ELSE m.wraps
  <1>1. Replaces(l)
    <2>1. n + 1 \in Nat /\ s.size \in Int
      BY DEF SessionInv, SourceOK, Sources
    <2>2. Later(s.read \o s.ids, main, n + 1)
      BY <2>1, ConcatLater DEF SourceOK
    <2>3. Replaces(Load(main, s.read \o s.ids, s.size))
      BY <2>1, <2>2, LoadOK
    <2>4. Replaces(main)
      <3>1. \A j \in Past(main) : j \in Nat /\ j <= n
        BY DEF SessionInv, MainOK, Mains, Past, ToSet
      <3> QED BY <2>1, <3>1 DEF SessionInv, MainOK, Replaces, Past
    <2> QED BY <2>3, <2>4
  <1>2. l \in Mains
    BY <1>1 DEF Replaces, MainOK
  <1> HIDE DEF l
  <1>3. m \in Mains /\ m.ids = l.ids /\ m.defined = l.defined
    BY <1>2 DEF Mains
  <1> HIDE DEF m
  <1>4. w \in Int
    BY <1>3 DEF Mains, UpTo2
  <1>5. Parse(s) = [m EXCEPT !.wraps = w, !.ret = "no"]
    BY <1>3 DEF Parse, m, l, Mains
  <1> HIDE DEF w
  <1>6. Parse(s) \in Mains /\ Parse(s).ids = l.ids /\ Parse(s).defined = l.defined
    BY <1>3, <1>4, <1>5 DEF Mains
  <1> QED BY <1>1, <1>6 DEF Replaces, MainOK, Past

\* Running a program keeps what it was.
LEMMA RunMainOK ==
  ASSUME NEW m \in Mains, RunMain(m)
  PROVE  main' \in Mains /\ main'.ids = m.ids /\ Past(main') \subseteq Past(m)
  <1>1. CASE main' = m
    BY <1>1 DEF Past
  <1>2. CASE main' # m
    <2>1. PICK o \in Outcomes : main' \in After(m, o)
      BY <1>2 DEF RunMain
    <2> QED BY <2>1, AfterOK
  <1> QED BY <1>1, <1>2

\* A file's program, after what the parser had read ahead of it.
LEMMA LoadableOK ==
  ASSUME SessionInv, NEW m \in Loadable
  PROVE  Replaces(m) /\ m \in Mains
  <1>1. n \in Nat /\ n + 1 \in Nat /\ source \in Sources /\ Later(source.read, main, n)
        /\ MainOK(main, n)
    BY DEF SessionInv, SourceOK
  <1>2. CASE m = Load(main, <<>>, 0)
    <2>1. Later(<<>>, main, n + 1)
      BY EmptyLater
    <2>2. Replaces(m)
      BY <1>2, <2>1, LoadOK
    <2> QED BY <2>2 DEF Replaces, MainOK
  <1>3. CASE m # Load(main, <<>>, 0)
    <2>1. PICK k \in 0..Len(source.read) :
                 m = Load(main, Append(SubSeq(source.read, 1, k), n + 1), 2)
      BY <1>3 DEF Loadable, ReadAhead
    <2>2. Later(SubSeq(source.read, 1, k), main, n)
      BY <1>1, PrefixLater
    <2>3. Later(Append(SubSeq(source.read, 1, k), n + 1), main, n + 1)
      BY <1>1, <2>2, AppendLater
    <2> QED BY <2>1, <2>3, LoadOK DEF Replaces, MainOK
  <1> QED BY <1>2, <1>3

\* A file that cannot be loaded leaves in the source at most what was read
\* ahead and, if it cannot be lexed, itself.
LEMMA AfterFailureOK ==
  ASSUME SessionInv, NEW f, NEW s \in AfterFailure(f)
  PROVE  SourceOK(s, main, n + 1) /\ (ready => s.ids = <<>>)
  <1>0. NoSource \in Sources /\ NoSource.read = <<>> /\ NoSource.ids = <<>>
    BY DEF NoSource, Sources
  <1>1. n \in Nat /\ n + 1 \in Nat /\ source \in Sources /\ Later(source.read, main, n)
        /\ Later(source.ids, main, n) /\ MainOK(main, n)
    BY DEF SessionInv, SourceOK
  <1>2. CASE s = source
    BY <1>1, <1>2, LaterWeakened DEF SessionInv, ReadyIsClean, SourceOK
  <1>3. CASE s \in Sources /\ s.read = <<>> /\ s.ids = <<>>
    BY <1>3, EmptySource
  <1>4. CASE \E r \in ReadAhead, d \in {0, 1}, b \in BOOLEAN : s = Unlexed(r, d, b)
    <2>1. PICK r \in ReadAhead, d \in {0, 1}, b \in BOOLEAN : s = Unlexed(r, d, b)
      BY <1>4
    <2>2. PICK k \in 0..Len(source.read) : r = SubSeq(source.read, 1, k)
      BY DEF ReadAhead
    <2>3. Later(r, main, n)
      BY <1>1, <2>2, PrefixLater
    <2>4. Later(Append(r, n + 1), main, n + 1) /\ Append(r, n + 1) \in Seq(Nat)
      BY <1>1, <2>3, AppendLater DEF Later
    <2>5. source.eof \in BOOLEAN /\ d \in Int /\ 1 - d \in Int
      BY <1>1 DEF Sources
    <2>6. s \in Sources /\ s.read = Append(r, n + 1) /\ s.ids = <<>>
      BY <1>0, <2>1, <2>4, <2>5 DEF Unlexed, Sources
    <2> QED BY <2>4, <2>6, EmptyLater DEF SourceOK
  <1>5. \/ s = source
        \/ s \in Sources /\ s.read = <<>> /\ s.ids = <<>>
        \/ \E r \in ReadAhead, d \in {0, 1}, b \in BOOLEAN : s = Unlexed(r, d, b)
    <2>1. \A d \in {0, 1} :
            Abandoned(d) \in Sources /\ Abandoned(d).read = <<>> /\ Abandoned(d).ids = <<>>
      <3> TAKE d \in {0, 1}
      <3>1. d \in Int
        OBVIOUS
      <3>2. /\ Abandoned(d) \in Sources
            /\ Abandoned(d).read = NoSource.read /\ Abandoned(d).ids = NoSource.ids
        BY <1>0, <3>1 DEF Abandoned, Sources
      <3> QED BY <1>0, <3>2
    <2>2. \/ s = source
          \/ \E d \in {0, 1} : s = Abandoned(d)
          \/ \E r \in ReadAhead, d \in {0, 1}, b \in BOOLEAN : s = Unlexed(r, d, b)
      BY DEF AfterFailure
    <2> QED BY <2>1, <2>2
  <1> QED BY <1>2, <1>3, <1>4, <1>5

-----------------------------------------------------------------------------
(* The steps.                                                              *)

\* What every step does: the invariant is kept, and a program replaced only
\* by one of later inputs.
Steps == SessionInv' /\ (main'.ids = main.ids \/ Later(main'.ids, main, n'))

\* A program that was replaced has only the next input before what waits.
LEMMA StepOK ==
  ASSUME SessionInv, n' = n + 1, Replaces(main'), ready' \in BOOLEAN,
         SourceOK(source', main', n + 1), ready' => source'.ids = <<>>
  PROVE  Steps
  <1>1. n' \in Nat
    BY DEF SessionInv
  <1> QED BY <1>1 DEF SessionInv, Steps, Replaces, ReadyIsClean

\* The source is judged over what the main unit was.
LEMMA SourceKept ==
  ASSUME NEW s, NEW m, NEW o, NEW k \in Nat, SourceOK(s, m, k), Past(o) \subseteq Past(m)
  PROVE  SourceOK(s, o, k) /\ SourceOK(s, o, k + 1)
  BY LaterWeakened DEF SourceOK

LEMMA RunsReplaced ==
  ASSUME SessionInv, NEW m \in Mains, Replaces(m), NEW d \in Mains,
         d.ids = m.ids, Past(d) \subseteq Past(m)
  PROVE  Replaces(d)
  BY DEF Replaces, MainOK

LEMMA EnterSteps ==
  ASSUME SessionInv, Enter
  PROVE  Steps
  <1>1. n \in Nat /\ n' = n + 1 /\ source' = source /\ ready' = ready /\ main \in Mains
    BY DEF SessionInv, Enter, Typing, MainOK
  <1>2. main' \in Mains /\ main'.ids = main.ids /\ Past(main') \subseteq Past(main)
    BY <1>1, RunMainOK DEF Enter
  <1>3. SourceOK(source', main', n + 1)
    BY <1>1, <1>2, SourceKept DEF SessionInv
  <1>4. Replaces(main')
    <2>1. \A j \in Past(main) : j \in Nat /\ j <= n
      BY DEF SessionInv, MainOK, Mains, Past, ToSet
    <2> QED BY <1>1, <1>2, <2>1 DEF Replaces, MainOK
  <1> QED BY <1>1, <1>3, <1>4, StepOK DEF SessionInv, ReadyIsClean

\* A line of code that completes a program leaves nothing in the source.
LEMMA CodeLineSteps ==
  ASSUME SessionInv, n' = n + 1, NEW kind, CodeLine(kind)
  PROVE  Steps
  <1> DEFINE s == Lex(source, kind)
  <1>1. n \in Nat /\ n + 1 \in Nat
    BY DEF SessionInv
  <1>2. SourceOK(s, main, n + 1)
    BY LexOK
  <1>3. ready' \in BOOLEAN
    BY DEF CodeLine, Complete
  <1>4. CASE ready'
    <2>1. source' = NoSource /\ RunMain(Parse(s))
      BY <1>4 DEF CodeLine, Cleaned
    <2>2. Replaces(Parse(s)) /\ Parse(s) \in Mains
      BY <1>2, ParseOK DEF Replaces, MainOK
    <2>3. Replaces(main')
      <3> HIDE DEF s
      <3> QED BY <2>1, <2>2, RunMainOK, RunsReplaced
    <2>4. NoSource \in Sources /\ NoSource.read = <<>> /\ NoSource.ids = <<>>
      BY DEF NoSource, Sources
    <2> QED BY <1>3, <2>1, <2>3, <2>4, EmptySource, StepOK
  <1>5. CASE ~ready'
    <2>1. source' = s /\ main' = main
      BY <1>5 DEF CodeLine
    <2>2. Replaces(main')
      <3>1. \A j \in Past(main) : j \in Nat /\ j <= n
        BY DEF SessionInv, MainOK, Mains, Past, ToSet
      <3> QED BY <1>1, <2>1, <3>1 DEF Replaces, MainOK, SessionInv
    <2> QED BY <1>2, <1>3, <1>5, <2>1, <2>2, StepOK
  <1> QED BY <1>4, <1>5

\* Loading a file, and running it if it was loaded.
LEMMA LoadProgramSteps ==
  ASSUME SessionInv, n' = n + 1, ready' = ready, NEW f, NEW loaded \in BOOLEAN,
         NEW m \in Loadable, LoadProgram(f, loaded, m),
         main' \in Mains, main'.ids = m.ids, Past(main') \subseteq Past(m)
  PROVE  Steps
  <1>1. n \in Nat /\ n + 1 \in Nat /\ ready \in BOOLEAN
    BY DEF SessionInv
  <1>2. Replaces(m) /\ m \in Mains
    BY LoadableOK
  <1>3. Replaces(main')
    BY <1>2, RunsReplaced
  <1>4. CASE source' = NoSource
    <2>1. NoSource \in Sources /\ NoSource.read = <<>> /\ NoSource.ids = <<>>
      BY DEF NoSource, Sources
    <2> QED BY <1>1, <1>3, <1>4, <2>1, EmptySource, StepOK
  <1>5. CASE source' \in AfterFailure(f) /\ m = Load(main, <<>>, 0)
    <2>1. SourceOK(source', main, n + 1) /\ (ready => source'.ids = <<>>)
      BY <1>5, AfterFailureOK
    <2>2. Past(m) \subseteq Past(main)
      <3>1. main \in Mains
        BY DEF SessionInv, MainOK
      <3>2. m.ids = <<>> /\ m.defined = IF main.kept THEN main.defined ELSE {}
        BY <1>5, <3>1 DEF Load, Mains
      <3> QED BY <3>2, EmptyLater DEF Past
    <2>3. SourceOK(source', main', n + 1)
      BY <1>1, <2>1, <2>2, SourceKept
    <2> QED BY <1>1, <1>3, <2>1, <2>3, StepOK
  <1> QED BY <1>4, <1>5 DEF LoadProgram

\* A step that leaves the program and the source alone.
LEMMA OtherSteps ==
  ASSUME SessionInv, n' = n + 1, UNCHANGED <<source, main, ready>>
  PROVE  Steps
  <1>1. n \in Nat /\ n + 1 \in Nat /\ main \in Mains
    BY DEF SessionInv, MainOK
  <1>2. Replaces(main')
    <2>1. \A j \in Past(main) : j \in Nat /\ j <= n
      BY DEF SessionInv, MainOK, Mains, Past, ToSet
    <2> QED BY <1>1, <2>1 DEF Replaces, MainOK
  <1>3. SourceOK(source', main', n + 1)
    BY <1>1, SourceKept DEF SessionInv
  <1> QED BY <1>2, <1>3, StepOK DEF SessionInv, ReadyIsClean

LEMMA CommandSteps ==
  ASSUME SessionInv, NEW w, Command(w)
  PROVE  Steps
  <1>1. CASE NotACommand(w)
    BY <1>1, CodeLineSteps DEF NotACommand, Typing
  <1>2. CASE ToggleCas(w) \/ ResetCas(w) \/ TooFewArguments(w)
    BY <1>2, OtherSteps DEF ToggleCas, ResetCas, TooFewArguments, Typing
  <1>3. CASE LoadCommand(w)
    <2>1. PICK m \in Loadable, loaded \in BOOLEAN :
                 LoadProgram(Head(Arguments(w)), loaded, m) /\ main' = m
      BY <1>3 DEF LoadCommand
    <2> QED BY <1>3, <2>1, LoadableOK, LoadProgramSteps DEF LoadCommand, Typing
  <1>4. CASE RunCommand(w)
    <2>1. PICK m \in Loadable, loaded \in BOOLEAN :
                 /\ LoadProgram(Head(Arguments(w)), loaded, m)
                 /\ main' = m \/ \E o \in Outcomes : main' \in After(m, o)
      BY <1>4 DEF RunCommand
    <2>2. main' \in Mains /\ main'.ids = m.ids /\ Past(main') \subseteq Past(m)
      BY <2>1, LoadableOK, AfterOK
    <2> QED BY <1>4, <2>1, <2>2, LoadProgramSteps DEF RunCommand, Typing
  <1> QED BY <1>1, <1>2, <1>3, <1>4 DEF Command

LEMMA SessionInit ==
  ASSUME Init
  PROVE  SessionInv
  <1>1. NoMain \in Mains /\ Past(NoMain) = {}
    BY EmptyLater DEF NoMain, Mains, Past
  <1>2. NoSource \in Sources /\ NoSource.read = <<>> /\ NoSource.ids = <<>>
    BY DEF NoSource, Sources
  <1> QED BY <1>1, <1>2, EmptySource DEF Init, SessionInv, MainOK, ReadyIsClean

LEMMA SessionNext ==
  ASSUME SessionInv, [Next]_vars
  PROVE  Steps \/ UNCHANGED vars
  <1>1. CASE Enter
    BY <1>1, EnterSteps
  <1>2. CASE Unlexable
    BY <1>2, OtherSteps DEF Unlexable, Typing
  <1>3. ASSUME NEW kind \in LineKinds, Code(kind)
        PROVE  Steps
    BY <1>3, CodeLineSteps DEF Code, Typing
  <1>4. ASSUME NEW w \in CommandLines, Command(w)
        PROVE  Steps
    BY <1>4, CommandSteps
  <1> QED BY <1>1, <1>2, <1>3, <1>4 DEF Next, Idle

-----------------------------------------------------------------------------
\* Whatever is typed, loaded and run, the numbers of the inputs that wait or
\* were run stay in the order they were typed.
THEOREM SessionInductive == Spec => []SessionInv
  <1>1. Init => SessionInv
    BY SessionInit
  <1>2. SessionInv /\ [Next]_vars => SessionInv'
    <2> SUFFICES ASSUME SessionInv, [Next]_vars
                 PROVE  SessionInv'
      OBVIOUS
    <2>1. CASE Steps
      BY <2>1 DEF Steps
    <2>2. CASE UNCHANGED vars
      BY <2>2 DEF vars, SessionInv, MainOK, SourceOK, Later, Past, ReadyIsClean
    <2> QED BY <2>1, <2>2, SessionNext
  <1> QED BY <1>1, <1>2, PTL DEF Spec

\* The prompt of a new program never finds a line of an older one in the
\* lexer (load_line and start: is_ready, and what clear() and reset() leave).
THEOREM PromptIsClean == Spec => []ReadyIsClean
  <1>1. SessionInv => ReadyIsClean
    BY DEF SessionInv
  <1> QED BY <1>1, SessionInductive, PTL

\* Lines are run in the order typed and each belongs to one program at most,
\* however many are typed and whatever failed, was loaded or was left in
\* the parser in between (parse, load_line, load_program).
THEOREM LinesInOrder == Spec => LinesOnceInOrder
  <1> DEFINE Ordered ==
        main'.ids # main.ids /\ main'.ids # <<>> =>
          /\ \A i \in DOMAIN main'.ids, j \in 1..n :
               j \in main.defined \cup ToSet(main.ids) => j < main'.ids[i]
          /\ \A i, j \in DOMAIN main'.ids : i < j => main'.ids[i] < main'.ids[j]
  <1>1. SessionInv /\ [Next]_vars => [Ordered]_vars
    <2> SUFFICES ASSUME SessionInv, [Next]_vars, main'.ids # main.ids
                 PROVE  Ordered
      OBVIOUS
    <2>1. Later(main'.ids, main, n')
      BY SessionNext DEF Steps, vars
    <2> QED BY <2>1 DEF Later, Rising, Past
  <1> HIDE DEF Ordered
  <1>2. Spec => [][Ordered]_vars
    BY <1>1, SessionInductive, PTL DEF Spec
  <1> QED BY <1>2 DEF LinesOnceInOrder, Ordered
=============================================================================
