---------------------------- MODULE LaunchProofs -----------------------------
(***************************************************************************)
(* Proofs about a launch, for every command line, tree of directories,     *)
(* set of programs, libraries and modules, and every size of word: an open *)
(* File is read in order, the script finds itself, modules are found where *)
(* they are nearest, imports take nothing away, and the heap's accounting  *)
(* is exact up to the requests that failed.                                *)
(***************************************************************************)
EXTENDS Launch, SequenceTheorems, FiniteSetTheorems, WellFoundedInduction, TLAPS

\* What a launch does to the variables of Files: the operations of the program,
\* the directories of its script, and the end of its File object.
Directories == UNCHANGED <<disk, data, file, stream, seen>>
Gone ==
  /\ file' = NoFile /\ stream' = NoStream /\ seen' = NothingSeen
  /\ UNCHANGED <<disk, data>>

\* What is read after the end.
Blank == ""
Text == Lines \cup {Blank} \cup UNION {ToSet(c) : c \in Contents}

\* Nodes are numbered as they are created, and a file is one of them.
DiskOK ==
  /\ IsFiniteSet(DOMAIN data)
  /\ \A n \in DOMAIN data :
       data[n] \in Seq(Text) /\ n[2] \in Nat /\ n[2] < Cardinality(DOMAIN data)
  /\ \A q \in DOMAIN disk : disk[q] \in DOMAIN data

ObjectOK ==
  /\ file \in [name : {file.name}, io : BOOLEAN, eof : BOOLEAN]
  /\ stream \in [node : {stream.node}, pos : Nat, good : BOOLEAN]
  /\ seen \in [lines : Seq(Text), told : BOOLEAN, wrote : BOOLEAN]

\* The lines l are what reading the file of lines a gives.
Reads(l, a) == \A i \in 1..Len(l) : l[i] = IF i <= Len(a) THEN a[i] ELSE Blank

\* How far a stream s of the file a is: at the line after those read, or gone bad
\* at the end.
Follows(s, f, h, a) ==
  /\ s.pos <= Len(a)
  /\ ~h.wrote =>
       /\ Reads(h.lines, a)
       /\ s.good => Len(h.lines) = s.pos
       /\ ~s.good => s.pos = Len(a) /\ Len(h.lines) >= Len(a)
       /\ h.told => (f.eof <=> Len(h.lines) >= Len(a))

StreamOK == file.io => stream.node \in DOMAIN data /\ Follows(stream, file, seen, data[stream.node])

\* The inductive invariant.
FilesInv == DiskOK /\ ObjectOK /\ StreamOK

-----------------------------------------------------------------------------
(* Lines read.                                                             *)

LEMMA Smaller ==
  ASSUME NEW a \in Nat, NEW b \in Nat
  PROVE  Min({a, b}) = IF a <= b THEN a ELSE b
  <1> DEFINE m == IF a <= b THEN a ELSE b
  <1>1. m \in {a, b} /\ \A y \in {a, b} : m <= y
    OBVIOUS
  <1>2. \A n \in {a, b} : (\A y \in {a, b} : n <= y) => n = m
    OBVIOUS
  <1> HIDE DEF m
  <1>3. Min({a, b}) \in {a, b} /\ \A y \in {a, b} : Min({a, b}) <= y
    BY <1>1 DEF Min
  <1> QED BY <1>2, <1>3 DEF m

\* One more line.
LEMMA ReadsNext ==
  ASSUME NEW l \in Seq(Text), NEW a \in Seq(Text), Reads(l, a), NEW x \in Text,
         x = IF Len(l) < Len(a) THEN a[Len(l) + 1] ELSE Blank
  PROVE  LET r == l \o <<x>>
         IN r \in Seq(Text) /\ Len(r) = Len(l) + 1 /\ Reads(r, a)
  <1> DEFINE r == l \o <<x>>
  <1>1. <<x>> \in Seq(Text) /\ Len(<<x>>) = 1 /\ <<x>>[1] = x
    OBVIOUS
  <1>2. Len(l) \in Nat /\ Len(a) \in Nat
    BY LenProperties
  <1>3. /\ r \in Seq(Text) /\ Len(r) = Len(l) + 1
        /\ \A i \in 1..(Len(l) + 1) : r[i] = IF i <= Len(l) THEN l[i] ELSE <<x>>[i - Len(l)]
    BY <1>1, <1>2, ConcatProperties
  <1> HIDE DEF r
  <1>4. ASSUME NEW i \in 1..Len(r)
        PROVE  r[i] = IF i <= Len(a) THEN a[i] ELSE Blank
    <2>1. CASE i \in 1..Len(l)
      BY <1>2, <1>3, <2>1 DEF Reads
    <2>2. CASE i = Len(l) + 1
      <3>1. r[i] = x
        BY <1>1, <1>2, <1>3, <2>2
      <3> QED BY <1>2, <2>2, <3>1
    <2> QED BY <1>2, <1>3, <2>1, <2>2
  <1> QED BY <1>3, <1>4 DEF Reads, r

\* A stretch of the file.
LEMMA ReadsStretch ==
  ASSUME NEW l \in Seq(Text), NEW a \in Seq(Text), Reads(l, a),
         NEW n \in Nat, Len(l) + n <= Len(a)
  PROVE  LET r == l \o SubSeq(a, Len(l) + 1, Len(l) + n)
         IN r \in Seq(Text) /\ Len(r) = Len(l) + n /\ Reads(r, a)
  <1> DEFINE p == Len(l)
             t == SubSeq(a, p + 1, p + n)
             r == l \o t
  <1>1. p \in Nat /\ Len(a) \in Nat
    BY LenProperties
  <1>2. \A i \in (p + 1)..(p + n) : a[i] \in Text
    BY <1>1, ElementOfSeq
  <1>3. /\ t \in Seq(Text) /\ Len(t) = n
        /\ \A i \in 1..n : t[i] = a[p + i]
    <2> HIDE DEF p
    <2>1. p + 1 \in Int /\ p + n \in Int /\ (p + n) - (p + 1) + 1 = n
          /\ \A i \in 1..n : (p + 1) + i - 1 = p + i
      BY <1>1
    <2>2. /\ t \in Seq(Text)
          /\ Len(t) = IF p + 1 <= p + n THEN (p + n) - (p + 1) + 1 ELSE 0
          /\ \A i \in 1..((p + n) - (p + 1) + 1) : t[i] = a[(p + 1) + i - 1]
      BY <1>2, <2>1, SubSeqProperties
    <2> HIDE DEF t
    <2> QED BY <1>1, <2>1, <2>2
  <1> HIDE DEF t
  <1>4. /\ r \in Seq(Text) /\ Len(r) = p + n
        /\ \A i \in 1..(p + n) : r[i] = IF i <= p THEN l[i] ELSE t[i - p]
    BY <1>1, <1>3, ConcatProperties
  <1> HIDE DEF r
  <1>5. ASSUME NEW i \in 1..Len(r)
        PROVE  r[i] = IF i <= Len(a) THEN a[i] ELSE Blank
    <2>1. CASE i \in 1..p
      BY <1>1, <1>4, <2>1 DEF Reads
    <2>2. CASE i \in (p + 1)..(p + n)
      <3>1. i - p \in 1..n /\ p + (i - p) = i /\ i <= Len(a)
        BY <1>1, <2>2
      <3>2. r[i] = t[i - p]
        BY <1>1, <1>4, <2>2
      <3> QED BY <1>3, <3>1, <3>2
    <2> QED BY <1>1, <1>4, <2>1, <2>2
  <1> QED BY <1>4, <1>5 DEF Reads, r, t

-----------------------------------------------------------------------------
(* The fields of the objects.                                              *)

LEMMA NothingRead ==
  ASSUME NEW s, NEW f, NEW a \in Seq(Text), s.pos = 0, s.good = TRUE
  PROVE  Follows(s, f, NothingSeen, a)
  <1>1. NothingSeen.lines = <<>> /\ NothingSeen.told = FALSE /\ NothingSeen.wrote = FALSE
    BY DEF NothingSeen
  <1>2. Len(a) \in Nat /\ Len(<<>>) = 0
    BY LenProperties
  <1> QED BY <1>1, <1>2 DEF Follows, Reads

LEMMA NothingSeenOK ==
  NothingSeen \in [lines : Seq(Text), told : BOOLEAN, wrote : BOOLEAN]
BY DEF NothingSeen

\* What FilesInv says of the object.
LEMMA ObjectNow ==
  ASSUME FilesInv
  PROVE  /\ file.io \in BOOLEAN /\ file.eof \in BOOLEAN
         /\ stream.pos \in Nat /\ stream.good \in BOOLEAN
         /\ seen.lines \in Seq(Text) /\ seen.told \in BOOLEAN /\ seen.wrote \in BOOLEAN
         /\ Len(seen.lines) \in Nat
  <1>1. /\ file.io \in BOOLEAN /\ file.eof \in BOOLEAN
        /\ stream.pos \in Nat /\ stream.good \in BOOLEAN
        /\ seen.lines \in Seq(Text) /\ seen.told \in BOOLEAN /\ seen.wrote \in BOOLEAN
    BY DEF FilesInv, ObjectOK
  <1> QED BY <1>1, LenProperties

\* And of the file that is open.
LEMMA OpenNow ==
  ASSUME FilesInv, file.io
  PROVE  LET a == data[stream.node]
         IN /\ stream.node \in DOMAIN data /\ a \in Seq(Text) /\ Len(a) \in Nat
            /\ Left = Len(a) - stream.pos /\ Left \in Nat
            /\ Follows(stream, file, seen, a)
  <1>1. stream.node \in DOMAIN data /\ data[stream.node] \in Seq(Text)
        /\ Follows(stream, file, seen, data[stream.node])
    BY DEF FilesInv, StreamOK, DiskOK
  <1>2. Len(data[stream.node]) \in Nat
    BY <1>1, LenProperties
  <1>3. stream.pos <= Len(data[stream.node]) /\ stream.pos \in Nat
    BY <1>1, ObjectNow DEF Follows
  <1> QED BY <1>1, <1>2, <1>3 DEF Left

\* An object left alone, over a file left alone.
LEMMA Elsewhere ==
  ASSUME FilesInv, UNCHANGED <<stream, seen>>, file' \in [name : {file'.name}, io : BOOLEAN, eof : BOOLEAN],
         file'.io => file.io /\ file'.eof = file.eof,
         DiskOK',
         file'.io => stream.node \in DOMAIN data' /\ data'[stream.node] = data[stream.node]
  PROVE  FilesInv'
  <1>1. ObjectOK'
    BY DEF FilesInv, ObjectOK
  <1>2. StreamOK'
    BY DEF FilesInv, StreamOK, Follows
  <1> QED BY <1>1, <1>2 DEF FilesInv

\* The same when only the disk and its files change.
LEMMA OnDisk ==
  ASSUME FilesInv, UNCHANGED <<file, stream, seen>>, DiskOK',
         file.io => stream.node \in DOMAIN data' /\ data'[stream.node] = data[stream.node]
  PROVE  FilesInv'
  <1>1. file \in [name : {file.name}, io : BOOLEAN, eof : BOOLEAN]
    BY DEF FilesInv, ObjectOK
  <1> QED BY <1>1, Elsewhere

-----------------------------------------------------------------------------
(* Operations on the open file.                                            *)

LEMMA SetPathOK ==
  ASSUME FilesInv, NEW p, SetPath(p)
  PROVE  FilesInv'
  <1>1. file' = [file EXCEPT !.name = {Path(p)}] /\ UNCHANGED <<disk, data, stream, seen>>
    BY DEF SetPath
  <1>2. file' \in [name : {file'.name}, io : BOOLEAN, eof : BOOLEAN]
        /\ file'.io = file.io /\ file'.eof = file.eof
    BY <1>1 DEF FilesInv, ObjectOK
  <1>3. DiskOK' /\ (file.io => stream.node \in DOMAIN data)
    BY <1>1 DEF FilesInv, DiskOK, StreamOK
  <1> QED BY <1>1, <1>2, <1>3, Elsewhere

LEMMA OpenOK ==
  ASSUME FilesInv, Open
  PROVE  FilesInv'
  <1> PICK p \in file.name :
       LET place == AbsolutePath(p) IN
       IF IsFile(place)
       THEN /\ file' = [file EXCEPT !.io = TRUE, !.eof = FALSE]
            /\ stream' = [node |-> disk[place], pos |-> 0, good |-> TRUE]
            /\ seen' = NothingSeen
       ELSE /\ file' = [file EXCEPT !.io = FALSE]
            /\ UNCHANGED <<stream, seen>>
    BY DEF Open
  <1> DEFINE place == AbsolutePath(p)
  <1>1. UNCHANGED <<disk, data>> /\ DiskOK'
    BY DEF Open, FilesInv, DiskOK
  <1> HIDE DEF place
  <1>2. CASE IsFile(place)
    <2>1. /\ file' = [file EXCEPT !.io = TRUE, !.eof = FALSE]
          /\ stream' = [node |-> disk[place], pos |-> 0, good |-> TRUE]
          /\ seen' = NothingSeen
      BY <1>2 DEF place
    <2>2. disk[place] \in DOMAIN data /\ data[disk[place]] \in Seq(Text)
      BY <1>2 DEF FilesInv, DiskOK, IsFile
    <2>3. stream'.node = disk[place] /\ stream'.pos = 0 /\ stream'.good = TRUE
      BY <2>1
    <2>4. Follows(stream', file', seen', data'[stream'.node])
      BY <1>1, <2>1, <2>2, <2>3, NothingRead
    <2>5. ObjectOK'
      <3>1. file' \in [name : {file'.name}, io : BOOLEAN, eof : BOOLEAN]
        BY <2>1 DEF FilesInv, ObjectOK
      <3> QED BY <2>1, <3>1, NothingSeenOK DEF ObjectOK
    <2> QED BY <1>1, <2>2, <2>3, <2>4, <2>5 DEF FilesInv, StreamOK
  <1>3. CASE ~IsFile(place)
    <2>1. file' = [file EXCEPT !.io = FALSE] /\ UNCHANGED <<stream, seen>>
      BY <1>3 DEF place
    <2>2. file' \in [name : {file'.name}, io : BOOLEAN, eof : BOOLEAN] /\ file'.io = FALSE
      BY <2>1 DEF FilesInv, ObjectOK
    <2> QED BY <1>1, <2>1, <2>2, Elsewhere
  <1> QED BY <1>2, <1>3

LEMMA CloseOK ==
  ASSUME FilesInv, Close
  PROVE  FilesInv'
  <1>1. /\ file' = [file EXCEPT !.io = FALSE] /\ stream' = NoStream
        /\ UNCHANGED <<disk, data, seen>>
    BY DEF Close
  <1>2. file'.io = FALSE /\ ObjectOK'
    BY <1>1 DEF FilesInv, ObjectOK, NoStream
  <1> QED BY <1>1, <1>2 DEF FilesInv, DiskOK, StreamOK

LEMMA ResetOK ==
  ASSUME FilesInv, Reset
  PROVE  FilesInv'
  <1>1. /\ file.io /\ stream' = [stream EXCEPT !.pos = 0, !.good = TRUE] /\ seen' = NothingSeen
        /\ UNCHANGED <<disk, data, file>>
    BY DEF Reset
  <1>2. stream'.pos = 0 /\ stream'.good = TRUE /\ stream'.node = stream.node /\ ObjectOK'
    BY <1>1, NothingSeenOK DEF FilesInv, ObjectOK
  <1>3. stream.node \in DOMAIN data /\ data[stream.node] \in Seq(Text)
    BY <1>1, OpenNow
  <1>4. Follows(stream', file', seen', data'[stream'.node])
    BY <1>1, <1>2, <1>3, NothingRead
  <1> QED BY <1>1, <1>2, <1>3, <1>4 DEF FilesInv, DiskOK, StreamOK

LEMMA GoneOK ==
  ASSUME FilesInv, Gone
  PROVE  FilesInv'
  <1>1. /\ file' = NoFile /\ stream' = NoStream /\ seen' = NothingSeen
        /\ UNCHANGED <<disk, data>>
    BY DEF Gone
  <1>2. file'.io = FALSE /\ ObjectOK'
    BY <1>1, NothingSeenOK DEF ObjectOK, NoFile, NoStream
  <1> QED BY <1>1, <1>2 DEF FilesInv, DiskOK, StreamOK

\* What a read notes, and leaves of the stream.
LEMMA ReadOK ==
  ASSUME FilesInv, file.io, NEW ls \in Seq(Text), NEW told \in BOOLEAN, NEW eof \in BOOLEAN,
         NEW pos \in Nat, NEW good \in BOOLEAN,
         seen' = Noted(ls, told), file' = [file EXCEPT !.eof = eof],
         stream' = [stream EXCEPT !.pos = pos, !.good = good],
         UNCHANGED <<disk, data>>,
         LET a == data[stream.node]
             l == seen.lines \o ls
         IN /\ pos <= Len(a)
            /\ ~seen.wrote =>
                 /\ Reads(l, a)
                 /\ good => Len(l) = pos
                 /\ ~good => pos = Len(a) /\ Len(l) >= Len(a)
                 /\ told => (eof <=> Len(l) >= Len(a))
  PROVE  FilesInv'
  <1>1. file'.io = TRUE /\ file'.eof = eof /\ stream'.node = stream.node
        /\ stream'.pos = pos /\ stream'.good = good
    BY ObjectNow DEF FilesInv, ObjectOK
  <1>2. seen.lines \o ls \in Seq(Text)
    BY ObjectNow, ConcatProperties
  <1>3. CASE seen.wrote
    <2>1. seen' = seen
      BY <1>3 DEF Noted
    <2>2. ObjectOK'
      BY <2>1 DEF FilesInv, ObjectOK
    <2> QED BY <1>1, <1>3, <2>1, <2>2, OpenNow DEF FilesInv, DiskOK, StreamOK, Follows
  <1>4. CASE ~seen.wrote
    <2>1. /\ seen'.lines = seen.lines \o ls /\ seen'.told = told /\ seen'.wrote = FALSE
          /\ seen' \in [lines : Seq(Text), told : BOOLEAN, wrote : BOOLEAN]
      BY <1>2, <1>4 DEF Noted, FilesInv, ObjectOK
    <2>2. ObjectOK'
      BY <2>1 DEF FilesInv, ObjectOK
    <2> QED BY <1>1, <1>4, <2>1, <2>2, OpenNow DEF FilesInv, DiskOK, StreamOK, Follows
  <1> QED BY <1>3, <1>4

LEMMA ReadLineOK ==
  ASSUME FilesInv, ReadLine
  PROVE  FilesInv'
  <1> DEFINE a == data[stream.node]
             more == stream.good /\ Left > 0
             last == ~more \/ Left = 1
             x == IF more THEN a[stream.pos + 1] ELSE Blank
             pos == IF more THEN stream.pos + 1 ELSE stream.pos
             l == seen.lines \o <<x>>
  <1>1. /\ file.io /\ seen' = Noted(<<x>>, TRUE) /\ file' = [file EXCEPT !.eof = last]
        /\ stream' = [stream EXCEPT !.pos = IF more THEN @ + 1 ELSE @, !.good = ~last]
        /\ UNCHANGED <<disk, data>>
    BY DEF ReadLine, Blank
  <1>2. stream' = [stream EXCEPT !.pos = pos, !.good = ~last]
    BY <1>1
  <1>3. /\ a \in Seq(Text) /\ Len(a) \in Nat /\ Left = Len(a) - stream.pos /\ Left \in Nat
        /\ Follows(stream, file, seen, a) /\ stream.pos \in Nat /\ stream.good \in BOOLEAN
        /\ seen.lines \in Seq(Text) /\ Len(seen.lines) \in Nat
    BY <1>1, OpenNow, ObjectNow
  <1> HIDE DEF a
  <1>4. x \in Text
    <2>1. more => stream.pos + 1 \in 1..Len(a)
      BY <1>3
    <2> QED BY <1>3, <2>1, ElementOfSeq DEF Text
  <1>5. pos \in Nat /\ last \in BOOLEAN /\ pos <= Len(a)
    BY <1>3
  <1>6. ASSUME ~seen.wrote
        PROVE  /\ Reads(l, a)
               /\ ~last => Len(l) = pos
               /\ last => pos = Len(a) /\ Len(l) >= Len(a)
               /\ last <=> Len(l) >= Len(a)
    <2>1. /\ Reads(seen.lines, a)
          /\ stream.good => Len(seen.lines) = stream.pos
          /\ ~stream.good => stream.pos = Len(a) /\ Len(seen.lines) >= Len(a)
      BY <1>3, <1>6 DEF Follows
    <2>2. x = IF Len(seen.lines) < Len(a) THEN a[Len(seen.lines) + 1] ELSE Blank
      <3>1. more <=> Len(seen.lines) < Len(a)
        BY <1>3, <2>1
      <3>2. more => Len(seen.lines) = stream.pos
        BY <2>1
      <3> QED BY <3>1, <3>2
    <2> HIDE DEF x
    <2>3. l \in Seq(Text) /\ Len(l) = Len(seen.lines) + 1 /\ Reads(l, a)
      BY <1>3, <1>4, <2>1, <2>2, ReadsNext
    <2> QED BY <1>3, <2>1, <2>3
  <1>7. <<x>> \in Seq(Text)
    BY <1>4
  <1> HIDE DEF x, pos, last
  <1> QED BY <1>1, <1>2, <1>5, <1>6, <1>7, ReadOK DEF a

LEMMA ReadBufferOK ==
  ASSUME FilesInv, NEW k \in 1..MaxLines, ReadBuffer(k)
  PROVE  FilesInv'
  <1> DEFINE a == data[stream.node]
             m == IF stream.good THEN Min({k, Left}) ELSE 0
             t == SubSeq(a, stream.pos + 1, stream.pos + m)
             l == seen.lines \o t
             pos == stream.pos + m
             full == (m = k)
  <1>1. /\ file.io /\ seen' = Noted(t, FALSE) /\ file' = [file EXCEPT !.eof = full]
        /\ stream' = [stream EXCEPT !.pos = @ + m, !.good = full]
        /\ UNCHANGED <<disk, data>>
    BY DEF ReadBuffer
  <1>2. stream' = [stream EXCEPT !.pos = pos, !.good = full]
    BY <1>1
  <1>3. /\ a \in Seq(Text) /\ Len(a) \in Nat /\ Left = Len(a) - stream.pos /\ Left \in Nat
        /\ Follows(stream, file, seen, a) /\ stream.pos \in Nat /\ stream.good \in BOOLEAN
        /\ seen.lines \in Seq(Text) /\ Len(seen.lines) \in Nat
    BY <1>1, OpenNow, ObjectNow
  <1>4. k \in Nat /\ k >= 1
    BY FilesAssumption
  <1>5. /\ m \in Nat /\ m <= Left
        /\ stream.good /\ ~full => m = Left
        /\ ~stream.good => m = 0 /\ ~full
    BY <1>3, <1>4, Smaller
  <1> HIDE DEF a, m
  <1>6. pos \in Nat /\ full \in BOOLEAN /\ pos <= Len(a)
    BY <1>3, <1>5
  <1>7. t \in Seq(Text)
    <2>1. \A i \in (stream.pos + 1)..(stream.pos + m) : a[i] \in Text
      BY <1>3, <1>5, ElementOfSeq
    <2>2. stream.pos + 1 \in Int /\ stream.pos + m \in Int
      BY <1>3, <1>5
    <2> QED BY <2>1, <2>2, SubSeqProperties
  <1>8. ASSUME ~seen.wrote
        PROVE  /\ Reads(l, a)
               /\ full => Len(l) = pos
               /\ ~full => pos = Len(a) /\ Len(l) >= Len(a)
    <2>1. /\ Reads(seen.lines, a)
          /\ stream.good => Len(seen.lines) = stream.pos
          /\ ~stream.good => stream.pos = Len(a) /\ Len(seen.lines) >= Len(a)
      BY <1>3, <1>8 DEF Follows
    <2>2. CASE stream.good
      <3>1. Len(seen.lines) = stream.pos /\ Len(seen.lines) + m <= Len(a)
        BY <1>3, <1>5, <2>1, <2>2
      <3>2. Len(l) = Len(seen.lines) + m /\ Reads(l, a)
        <4>1. l = seen.lines \o SubSeq(a, Len(seen.lines) + 1, Len(seen.lines) + m)
          BY <3>1
        <4> HIDE DEF l
        <4> QED BY <1>3, <1>5, <2>1, <3>1, <4>1, ReadsStretch
      <3> HIDE DEF l
      <3> QED BY <1>3, <1>5, <2>2, <3>1, <3>2
    <2>3. CASE ~stream.good
      <3>1. m = 0 /\ ~full
        BY <1>5, <2>3
      <3>2. t = <<>>
        BY <1>3, <3>1, SubSeqEmpty
      <3> HIDE DEF t
      <3>3. l = seen.lines
        BY <1>3, <3>2
      <3> HIDE DEF l
      <3> QED BY <1>3, <2>1, <2>3, <3>1, <3>3
    <2> QED BY <1>3, <2>2, <2>3
  <1> HIDE DEF t, pos, full
  <1> QED BY <1>1, <1>2, <1>6, <1>7, <1>8, ReadOK DEF a

LEMMA WriteLineOK ==
  ASSUME FilesInv, NEW x \in Lines, WriteLine(x)
  PROVE  FilesInv'
  <1> DEFINE v == stream.node
             a == data[v]
             b == IF Left > 0 THEN [a EXCEPT ![stream.pos + 1] = x] ELSE Append(a, x)
  <1>1. /\ file.io /\ seen' = [NothingSeen EXCEPT !.wrote = TRUE]
        /\ UNCHANGED <<disk, file>>
    BY DEF WriteLine
  <1>2. \/ stream.good /\ data' = [data EXCEPT ![v] = b] /\ stream' = [stream EXCEPT !.pos = @ + 1]
        \/ UNCHANGED <<data, stream>>
    BY DEF WriteLine
  <1>3. /\ a \in Seq(Text) /\ Len(a) \in Nat /\ Left = Len(a) - stream.pos /\ Left \in Nat
        /\ stream.pos \in Nat /\ v \in DOMAIN data /\ stream.pos <= Len(a)
    BY <1>1, OpenNow, ObjectNow DEF Follows
  <1>4. seen'.wrote = TRUE /\ seen' \in [lines : Seq(Text), told : BOOLEAN, wrote : BOOLEAN]
    <2>1. seen' = [lines |-> <<>>, told |-> FALSE, wrote |-> TRUE]
      BY <1>1 DEF NothingSeen
    <2> QED BY <2>1
  <1>5. CASE UNCHANGED <<data, stream>>
    <2>1. ObjectOK'
      BY <1>1, <1>4, <1>5 DEF FilesInv, ObjectOK
    <2> QED BY <1>1, <1>3, <1>4, <1>5, <2>1 DEF FilesInv, DiskOK, StreamOK, Follows
  <1>6. CASE stream.good /\ data' = [data EXCEPT ![v] = b] /\ stream' = [stream EXCEPT !.pos = @ + 1]
    <2> HIDE DEF v, a
    <2>1. b \in Seq(Text) /\ stream.pos + 1 <= Len(b)
      <3>1. x \in Text
        BY DEF Text
      <3>2. CASE Left > 0
        <4> DEFINE p == stream.pos + 1
        <4>1. p \in 1..Len(a)
          BY <1>3, <3>2
        <4> HIDE DEF p
        <4>2. [a EXCEPT ![p] = x] \in Seq(Text) /\ Len([a EXCEPT ![p] = x]) = Len(a)
          BY <1>3, <3>1, <4>1, ExceptSeq
        <4> QED BY <1>3, <3>2, <4>1, <4>2 DEF p
      <3>3. CASE ~(Left > 0)
        <4>1. Append(a, x) \in Seq(Text) /\ Len(Append(a, x)) = Len(a) + 1
          BY <1>3, <3>1, AppendProperties
        <4> QED BY <1>3, <3>3, <4>1
      <3> QED BY <3>2, <3>3
    <2> HIDE DEF b
    <2>2. DOMAIN data' = DOMAIN data /\ data'[v] = b /\ \A n \in DOMAIN data \ {v} : data'[n] = data[n]
      BY <1>3, <1>6
    <2>3. DiskOK'
      BY <1>1, <2>1, <2>2 DEF FilesInv, DiskOK
    <2>4. stream'.node = v /\ stream'.pos = stream.pos + 1 /\ ObjectOK'
      <3>1. stream \in [node : {v}, pos : Nat, good : BOOLEAN] /\ stream.pos \in Nat
        BY DEF FilesInv, ObjectOK, v
      <3>2. /\ stream' \in [node : {v}, pos : Nat, good : BOOLEAN]
            /\ stream'.node = v /\ stream'.pos = stream.pos + 1
        BY <1>6, <3>1
      <3>3. file' \in [name : {file'.name}, io : BOOLEAN, eof : BOOLEAN]
        BY <1>1 DEF FilesInv, ObjectOK
      <3> QED BY <1>4, <3>2, <3>3 DEF ObjectOK
    <2> QED BY <1>3, <1>4, <2>1, <2>2, <2>3, <2>4 DEF FilesInv, StreamOK, Follows
  <1> QED BY <1>2, <1>5, <1>6

-----------------------------------------------------------------------------
(* Operations on the file system.                                          *)

LEMMA ContentsAreText ==
  ASSUME NEW c \in Contents
  PROVE  c \in Seq(Text)
  <1>1. c \in Seq(ToSet(c)) /\ ToSet(c) \subseteq Text
    BY FilesAssumption DEF Text
  <1>2. \A A, B : A \subseteq B /\ c \in Seq(A) => c \in Seq(B)
    OBVIOUS
  <1> QED BY <1>1, <1>2

\* A new node is none of those there are.
LEMMA NewNodeOK ==
  ASSUME FilesInv, NEW place, NEW lines \in Seq(Text), NewNode(place, lines),
         UNCHANGED <<file, stream, seen>>
  PROVE  FilesInv'
  <1> DEFINE c == Cardinality(DOMAIN data)
             node == <<place, c>>
  <1>1. /\ disk' = [q \in DOMAIN disk \cup {place} |-> IF q = place THEN node ELSE disk[q]]
        /\ data' = [n \in DOMAIN data \cup {node} |-> IF n = node THEN lines ELSE data[n]]
    BY DEF NewNode
  <1>2. /\ IsFiniteSet(DOMAIN data) /\ c \in Nat
        /\ \A n \in DOMAIN data : data[n] \in Seq(Text) /\ n[2] \in Nat /\ n[2] < c
        /\ \A q \in DOMAIN disk : disk[q] \in DOMAIN data
    BY FS_CardinalityType DEF FilesInv, DiskOK
  <1>3. node[2] = c
    OBVIOUS
  <1> HIDE DEF node, c
  <1>4. node \notin DOMAIN data
    BY <1>2, <1>3
  <1>5. /\ DOMAIN data' = DOMAIN data \cup {node}
        /\ data'[node] = lines /\ \A n \in DOMAIN data : data'[n] = data[n]
    BY <1>1, <1>4
  <1>6. /\ DOMAIN disk' = DOMAIN disk \cup {place}
        /\ disk'[place] = node /\ \A q \in DOMAIN disk : q # place => disk'[q] = disk[q]
    BY <1>1
  <1>7. IsFiniteSet(DOMAIN data') /\ Cardinality(DOMAIN data') = c + 1
    BY <1>2, <1>4, <1>5, FS_AddElement DEF c
  <1>8. DiskOK'
    <2>1. ASSUME NEW n \in DOMAIN data'
          PROVE  data'[n] \in Seq(Text) /\ n[2] \in Nat /\ n[2] < c + 1
      <3>1. CASE n = node
        BY <1>2, <1>3, <1>5, <3>1
      <3>2. CASE n \in DOMAIN data
        BY <1>2, <1>5, <3>2
      <3> QED BY <1>5, <3>1, <3>2
    <2>2. \A q \in DOMAIN disk' : disk'[q] \in DOMAIN data'
      BY <1>2, <1>5, <1>6
    <2> QED BY <1>7, <2>1, <2>2 DEF DiskOK
  <1>9. file.io => stream.node \in DOMAIN data' /\ data'[stream.node] = data[stream.node]
    BY <1>5, OpenNow
  <1> QED BY <1>8, <1>9, OnDisk

LEMMA WriteContentsOK ==
  ASSUME FilesInv, NEW p, NEW c \in Contents, WriteContents(p, c)
  PROVE  FilesInv'
  <1> DEFINE place == AbsolutePath(p)
             v == disk[place]
  <1>1. UNCHANGED <<file, stream, seen>>
    BY DEF WriteContents
  <1>2. \/ /\ IsFile(place) /\ v # stream.node
           /\ data' = [data EXCEPT ![v] = c] /\ UNCHANGED disk
        \/ NewNode(place, c)
    BY DEF WriteContents
  <1> HIDE DEF place
  <1>3. c \in Seq(Text)
    BY ContentsAreText
  <1>4. CASE /\ IsFile(place) /\ v # stream.node
             /\ data' = [data EXCEPT ![v] = c] /\ UNCHANGED disk
    <2>1. v \in DOMAIN data
      BY <1>4 DEF FilesInv, DiskOK, IsFile
    <2> HIDE DEF v
    <2>2. DOMAIN data' = DOMAIN data /\ data'[v] = c /\ \A n \in DOMAIN data \ {v} : data'[n] = data[n]
      BY <1>4, <2>1
    <2>3. DiskOK'
      BY <1>3, <1>4, <2>2 DEF FilesInv, DiskOK
    <2>4. file.io => stream.node \in DOMAIN data' /\ data'[stream.node] = data[stream.node]
      BY <1>4, <2>2, OpenNow
    <2> QED BY <1>1, <2>3, <2>4, OnDisk
  <1>5. CASE NewNode(place, c)
    BY <1>1, <1>3, <1>5, NewNodeOK
  <1> QED BY <1>2, <1>4, <1>5

LEMMA CopyToOK ==
  ASSUME FilesInv, NEW p, NEW to, CopyTo(p, to)
  PROVE  FilesInv'
  <1> DEFINE from == AbsolutePath(p)
             dest == AbsolutePath(to)
  <1>1. IsFile(from) /\ NewNode(dest, data[disk[from]]) /\ UNCHANGED <<file, stream, seen>>
    BY DEF CopyTo
  <1> HIDE DEF from, dest
  <1>2. data[disk[from]] \in Seq(Text)
    BY <1>1 DEF FilesInv, DiskOK, IsFile
  <1> QED BY <1>1, <1>2, NewNodeOK

\* Files that change their names or lose them.
LEMMA RenamedOK ==
  ASSUME FilesInv, UNCHANGED <<data, file, stream, seen>>,
         \A q \in DOMAIN disk' : disk'[q] \in DOMAIN data
  PROVE  FilesInv'
  <1>1. DiskOK'
    BY DEF FilesInv, DiskOK
  <1> QED BY <1>1, OpenNow, OnDisk

LEMMA RenameOK ==
  ASSUME FilesInv, NEW p, NEW to, Rename(p, to)
  PROVE  FilesInv'
  <1> DEFINE from == AbsolutePath(p)
             dest == AbsolutePath(to)
  <1>1. /\ IsFile(from) /\ UNCHANGED <<data, file, stream, seen>>
        /\ disk' = [q \in (DOMAIN disk \ {from}) \cup {dest} |->
                      IF q = dest THEN disk[from] ELSE disk[q]]
    BY DEF Rename
  <1> HIDE DEF from, dest
  <1>2. \A q \in DOMAIN disk : disk[q] \in DOMAIN data
    BY DEF FilesInv, DiskOK
  <1>3. \A q \in DOMAIN disk' : disk'[q] \in DOMAIN data
    BY <1>1, <1>2 DEF IsFile
  <1> QED BY <1>1, <1>3, RenamedOK

LEMMA RemoveFileOK ==
  ASSUME FilesInv, NEW p, RemoveFile(p)
  PROVE  FilesInv'
  <1>1. /\ UNCHANGED <<data, file, stream, seen>>
        /\ disk' = [q \in DOMAIN disk \ {AbsolutePath(p)} |-> disk[q]]
    BY DEF RemoveFile, Restrict
  <1>2. \A q \in DOMAIN disk' : disk'[q] \in DOMAIN data
    BY <1>1 DEF FilesInv, DiskOK
  <1> QED BY <1>1, <1>2, RenamedOK

LEMMA DirectoriesOK ==
  ASSUME FilesInv, Directories
  PROVE  FilesInv'
  BY RenamedOK DEF Directories, FilesInv, DiskOK

-----------------------------------------------------------------------------
LEMMA FilesStart ==
  ASSUME NEW places, IsFiniteSet(places), FilesInit(places)
  PROVE  FilesInv
  <1> DEFINE nodes == {<<q, 0>> : q \in places}
             f == [q \in places |-> <<q, 0>>]
  <1>1. f \in Surjection(places, nodes)
    BY DEF Surjection
  <1>2. f \in Injection(places, nodes)
    BY DEF Injection, IsInjective
  <1>3. IsFiniteSet(nodes) /\ Cardinality(nodes) = Cardinality(places)
    BY <1>1, <1>2, FS_Surjection
  <1>4. disk = f /\ data = [n \in nodes |-> <<>>] /\ file = NoFile /\ stream = NoStream /\ seen = NothingSeen
    BY DEF FilesInit
  <1>5. \A q \in places : f[q] \in nodes
    OBVIOUS
  <1>6. \A n \in nodes : n[2] = 0
    OBVIOUS
  <1> HIDE DEF f, nodes
  <1>7. nodes # {} => 0 < Cardinality(nodes)
    <2>1. Cardinality(nodes) \in Nat
      BY <1>3, FS_CardinalityType
    <2>2. Cardinality(nodes) = 0 <=> nodes = {}
      BY <1>3, FS_EmptySet
    <2> QED BY <2>1, <2>2
  <1>8. DiskOK
    <2>1. DOMAIN disk = places
      BY <1>4 DEF f
    <2> QED BY <1>3, <1>4, <1>5, <1>6, <1>7, <2>1 DEF DiskOK
  <1>9. ObjectOK /\ file.io = FALSE
    BY <1>4, NothingSeenOK DEF ObjectOK, NoFile, NoStream
  <1> QED BY <1>8, <1>9 DEF FilesInv, StreamOK

LEMMA FilesStep ==
  ASSUME FilesInv, [FilesNext \/ Directories \/ Gone]_fileVars
  PROVE  FilesInv'
  <1>1. \A p \in Paths : SetPath(p) => FilesInv'
    BY SetPathOK
  <1>2. Open \/ Close \/ ReadLine \/ Reset => FilesInv'
    BY OpenOK, CloseOK, ReadLineOK, ResetOK
  <1>3. \A k \in 1..MaxLines : ReadBuffer(k) => FilesInv'
    BY ReadBufferOK
  <1>4. \A x \in Lines : WriteLine(x) => FilesInv'
    BY WriteLineOK
  <1>5. \A p \in Targets, c \in Contents : WriteContents(p, c) => FilesInv'
    BY WriteContentsOK
  <1>6. \A p \in Targets, to \in Plain : CopyTo(p, to) \/ Rename(p, to) => FilesInv'
    BY CopyToOK, RenameOK
  <1>7. \A p \in Targets : RemoveFile(p) => FilesInv'
    BY RemoveFileOK
  <1>8. Directories \/ Gone => FilesInv'
    BY DirectoriesOK, GoneOK
  <1>9. (\E d \in GoesTo : Cd(d)) \/ SyncWorkDir \/ UNCHANGED fileVars => Directories
    BY DEF Cd, SyncWorkDir, fileVars, Directories
  <1> QED BY <1>1, <1>2, <1>3, <1>4, <1>5, <1>6, <1>7, <1>8, <1>9 DEF FilesNext

-----------------------------------------------------------------------------
(* Places.                                                                 *)

\* Directories, files and the name of the File object are places and paths.
PlacesOK ==
  /\ cwd \in Seq(STRING) /\ scrdir \in Seq(STRING)
  /\ DOMAIN disk \subseteq PlaceSet
  /\ file.name \subseteq PathSet

LEMMA PlaceType ==
  ASSUME NEW d \in Seq(STRING), NEW p, p \in PathSet \/ p \in PlaceSet
  PROVE  Place(d, p) \in PlaceSet /\ Place(d, p).dir = d \o p.dir
  <1>1. p.dir \in Seq(STRING) /\ p.stem \in STRING /\ p.ext \in STRING
    BY DEF PathSet, PlaceSet
  <1>2. d \o p.dir \in Seq(STRING)
    BY <1>1, ConcatProperties
  <1> QED BY <1>1, <1>2 DEF Place, PlaceSet

LEMMA AbsoluteType ==
  ASSUME PlacesOK, NEW p \in PathSet
  PROVE  AbsolutePath(p) \in PlaceSet
  <1> DEFINE d == CASE p.base = "$:" -> HomeDir
                    [] p.base = "#:" -> scrdir
                    [] p.base = "."  -> cwd
                    [] OTHER         -> <<>>
  <1>1. d \in Seq(STRING)
    <2>1. HomeDir \in Seq(STRING) /\ scrdir \in Seq(STRING) /\ cwd \in Seq(STRING)
      BY PathsAssumption DEF PlacesOK
    <2>2. <<>> \in Seq(STRING)
      BY EmptySeq
    <2> QED BY <2>1, <2>2
  <1>2. AbsolutePath(p) = Place(d, p)
    BY DEF AbsolutePath
  <1> HIDE DEF d
  <1> QED BY <1>1, <1>2, PlaceType

\* A place written as a path denotes itself.
LEMMA AtType ==
  ASSUME NEW q \in PlaceSet
  PROVE  At(q) \in PathSet /\ AbsolutePath(At(q)) = q
  <1>1. q.dir \in Seq(STRING) /\ q.stem \in STRING /\ q.ext \in STRING
        /\ q = [dir |-> q.dir, stem |-> q.stem, ext |-> q.ext]
    BY DEF PlaceSet
  <1>2. /\ At(q) \in PathSet /\ At(q).base = "/"
        /\ At(q).dir = q.dir /\ At(q).stem = q.stem /\ At(q).ext = q.ext
    BY <1>1 DEF At, PathSet
  <1>3. <<>> \o q.dir = q.dir
    BY <1>1, ConcatEmptySeq
  <1>4. AbsolutePath(At(q)) = Place(<<>>, At(q))
    BY <1>2 DEF AbsolutePath
  <1> QED BY <1>1, <1>2, <1>3, <1>4 DEF Place

LEMMA PathType ==
  ASSUME PlacesOK, NEW p \in PathSet
  PROVE  Path(p) \in PathSet
  BY AbsoluteType, AtType DEF Path

LEMMA TargetsType ==
  ASSUME PlacesOK
  PROVE  Targets \subseteq PathSet /\ Plain \subseteq PathSet
  BY PathType, PathsAssumption DEF Targets, Plain, PlacesOK

\* New files are made, and files renamed, where a path leads.
LEMMA DiskPlaces ==
  ASSUME PlacesOK, NEW place \in PlaceSet, UNCHANGED <<cwd, scrdir, file>>,
         DOMAIN disk' \subseteq DOMAIN disk \cup {place}
  PROVE  PlacesOK'
  BY DEF PlacesOK

LEMMA FilesPlaces ==
  ASSUME PlacesOK, ObjectOK, [FilesNext]_fileVars
  PROVE  PlacesOK'
  <1>1. ASSUME NEW p \in Paths, SetPath(p)
        PROVE  PlacesOK'
    <2>1. file' = [file EXCEPT !.name = {Path(p)}] /\ UNCHANGED <<cwd, scrdir, disk>>
      BY <1>1 DEF SetPath
    <2>2. file \in [name : {file.name}, io : BOOLEAN, eof : BOOLEAN]
      BY DEF ObjectOK
    <2>3. file'.name = {Path(p)}
      BY <2>1, <2>2
    <2> QED BY <2>1, <2>3, PathType, PathsAssumption DEF PlacesOK
  <1>2. ASSUME file'.name = file.name, UNCHANGED <<cwd, scrdir, disk>>
        PROVE  PlacesOK'
    BY <1>2 DEF PlacesOK
  <1>3. ASSUME NEW f, NEW io, NEW eof, f = file,
               \/ file' = [f EXCEPT !.io = io] \/ file' = [f EXCEPT !.eof = eof]
               \/ file' = [f EXCEPT !.io = io, !.eof = eof] \/ file' = f
        PROVE  file'.name = file.name
    <2>1. f \in [name : {file.name}, io : BOOLEAN, eof : BOOLEAN]
      BY <1>3 DEF ObjectOK
    <2> QED BY <1>3, <2>1
  <1>4. Open => PlacesOK'
    <2> SUFFICES ASSUME Open PROVE file'.name = file.name /\ UNCHANGED <<cwd, scrdir, disk>>
      BY <1>2
    <2> QED BY <1>3 DEF Open
  <1>5. Close \/ ReadLine \/ Reset => PlacesOK'
    <2> SUFFICES ASSUME Close \/ ReadLine \/ Reset
                 PROVE  file'.name = file.name /\ UNCHANGED <<cwd, scrdir, disk>>
      BY <1>2
    <2> QED BY <1>3 DEF Close, ReadLine, Reset
  <1>6. ASSUME NEW k \in 1..MaxLines, ReadBuffer(k)
        PROVE  PlacesOK'
    <2>1. \E eof : file' = [file EXCEPT !.eof = eof]
      BY <1>6 DEF ReadBuffer
    <2>2. UNCHANGED <<cwd, scrdir, disk>>
      BY <1>6 DEF ReadBuffer
    <2> QED BY <1>2, <1>3, <2>1, <2>2
  <1>7. ASSUME NEW x \in Lines, WriteLine(x)
        PROVE  PlacesOK'
    BY <1>2, <1>7 DEF WriteLine
  <1>8. ASSUME NEW p \in Targets, NEW c \in Contents, WriteContents(p, c)
        PROVE  PlacesOK'
    <2>1. AbsolutePath(p) \in PlaceSet
      BY TargetsType, AbsoluteType
    <2> QED BY <1>8, <2>1, DiskPlaces DEF WriteContents, NewNode
  <1>9. ASSUME NEW p \in Targets, NEW to \in Plain, CopyTo(p, to) \/ Rename(p, to)
        PROVE  PlacesOK'
    <2>1. AbsolutePath(to) \in PlaceSet
      BY TargetsType, AbsoluteType
    <2> QED BY <1>9, <2>1, DiskPlaces DEF CopyTo, Rename, NewNode
  <1>10. ASSUME NEW p \in Targets, RemoveFile(p)
         PROVE  PlacesOK'
    <2>1. AbsolutePath(p) \in PlaceSet
      BY TargetsType, AbsoluteType
    <2> QED BY <1>10, <2>1, DiskPlaces DEF RemoveFile, Restrict
  <1>11. ASSUME (\E d \in GoesTo : Cd(d)) \/ SyncWorkDir
         PROVE  PlacesOK'
    BY <1>11, PathsAssumption DEF Cd, SyncWorkDir, PlacesOK
  <1>12. UNCHANGED fileVars => PlacesOK'
    BY DEF fileVars, PlacesOK
  <1> QED BY <1>1, <1>4, <1>5, <1>6, <1>7, <1>8, <1>9, <1>10, <1>11, <1>12 DEF FilesNext

-----------------------------------------------------------------------------
(* Modules.                                                                *)

LEMMA ExtendedType ==
  ASSUME NEW place \in PlaceSet, NEW e
  PROVE  LET q == WithExtension(place, e)
         IN q.dir = place.dir /\ q.stem = place.stem /\ q.ext = e
  BY DEF WithExtension, PlaceSet

\* What a place resolves to is on the disk: a script if there is one, a library
\* else.
LEMMA Resolved ==
  ASSUME PlacesOK, NEW place
  PROVE  /\ \A f \in ResolveModuleFile(place) : \E q \in DOMAIN disk : f = At(q)
         /\ place.ext = "" /\ IsFile(WithExtension(place, ".mt0")) =>
              ResolveModuleFile(place) = {At(WithExtension(place, ".mt0"))}
         /\ place.ext = "" /\ ~IsFile(WithExtension(place, ".mt0")) /\ IsFile(WithExtension(place, ".so")) =>
              ResolveModuleFile(place) = {At(WithExtension(place, ".so"))}
  <1> DEFINE named == {e \in {".mt0", ".so"} : place.ext = "" /\ IsFile(WithExtension(place, e))}
  <1>1. ResolveModuleFile(place) =
          IF named # {} THEN {At(WithExtension(place, IF ".mt0" \in named THEN ".mt0" ELSE ".so"))}
          ELSE {At(q) : q \in {place} \cap DOMAIN disk}
    BY DEF ResolveModuleFile
  <1>2. CASE named = {}
    <2>1. \A f \in ResolveModuleFile(place) : \E q \in DOMAIN disk : f = At(q)
      BY <1>1, <1>2
    <2> QED BY <1>2, <2>1
  <1>3. CASE ".mt0" \in named
    <2>1. ResolveModuleFile(place) = {At(WithExtension(place, ".mt0"))}
      BY <1>1, <1>3
    <2> QED BY <1>3, <2>1 DEF IsFile
  <1>4. CASE ".mt0" \notin named /\ ".so" \in named
    <2>1. ResolveModuleFile(place) = {At(WithExtension(place, ".so"))}
      BY <1>1, <1>4
    <2> QED BY <1>4, <2>1 DEF IsFile
  <1> QED BY <1>2, <1>3, <1>4

LEMMA FoundOnDisk ==
  ASSUME PlacesOK, NEW place
  PROVE  \A f \in FindAbsolute(place) : \E q \in DOMAIN disk : f = At(q)
  BY Resolved DEF FindAbsolute, IsFile

\* The search stays with a place that is no directory.
LEMMA InnermostHere ==
  ASSUME PlacesOK, NEW place \in PlaceSet, Ends(place), Cardinality(Dirs) \in Nat
  PROVE  Innermost(place) = place
  <1> DEFINE First(k) == /\ Ends(Nested(place, k))
                         /\ \A j \in 0..(k - 1) : ~Ends(Nested(place, j))
             depth == CHOOSE k \in 0..Cardinality(Dirs) : First(k)
  <1>1. Nested(place, 0) = place
    <2> DEFINE none == [i \in 1..0 |-> place.stem]
    <2>1. none = <<>>
      OBVIOUS
    <2> HIDE DEF none
    <2>2. place.dir \o <<>> = place.dir
      BY ConcatEmptySeq DEF PlaceSet
    <2>3. Nested(place, 0) = [place EXCEPT !.dir = place.dir \o none]
      BY DEF Nested, none
    <2> QED BY <2>1, <2>2, <2>3 DEF PlaceSet
  <1>2. 0 \in 0..Cardinality(Dirs) /\ First(0)
    BY <1>1
  <1>3. \A k \in 0..Cardinality(Dirs) : First(k) => k = 0
    BY <1>1
  <1>4. Innermost(place) = Nested(place, depth)
    BY DEF Innermost
  <1>5. depth = 0
    <2> HIDE DEF First
    <2>1. depth \in 0..Cardinality(Dirs) /\ First(depth)
      BY <1>2
    <2> QED BY <1>3, <2>1
  <1> QED BY <1>1, <1>4, <1>5

LEMMA Nearest ==
  ASSUME PlacesOK, Cardinality(Dirs) \in Nat
  PROVE  FindsNearest
  <1> SUFFICES ASSUME NEW p \in ModulePaths
               PROVE  LET place  == AbsolutePath(p)
                          found  == {AbsolutePath(f) : f \in FindModule(p)}
                          Beside == {WithExtension(place, e) : e \in {".mt0", ".so"}} \cap DOMAIN disk
                      IN /\ found \subseteq DOMAIN disk
                         /\ IsFile(place) => found = {place}
                         /\ place.ext = "" /\ ~IsFile(place) /\ ~IsDirectory(place) /\ Beside # {} =>
                              found # {} /\ found \subseteq Beside /\ \A q \in found, r \in Beside : Script(r) => q = r
    BY DEF FindsNearest
  <1> DEFINE place  == AbsolutePath(p)
             found  == {AbsolutePath(f) : f \in FindModule(p)}
             script == WithExtension(place, ".mt0")
             library == WithExtension(place, ".so")
             Beside == {script, library} \cap DOMAIN disk
  <1>0. p \in PathSet
    BY ModulesAssumption
  <1>1. place \in PlaceSet
    BY <1>0, AbsoluteType
  <1>2. \A q \in DOMAIN disk : AbsolutePath(At(q)) = q
    BY AtType DEF PlacesOK
  <1>3. FindModule(p) = IF IsFile(place) THEN {p}
                        ELSE IF FindAbsolute(place) # {} \/ IsDirectory(place) \/ p.base # "."
                             THEN FindAbsolute(place) ELSE FindAbsolute(InHome(p))
    BY DEF FindModule
  <1>4. ~IsFile(place) /\ ~IsDirectory(place) => FindAbsolute(place) = ResolveModuleFile(place)
    <2> SUFFICES ASSUME ~IsFile(place), ~IsDirectory(place)
                 PROVE  FindAbsolute(place) = ResolveModuleFile(place)
      OBVIOUS
    <2>1. Innermost(place) = place
      BY <1>1, InnermostHere DEF Ends
    <2> QED BY <2>1 DEF FindAbsolute
  <1>5. IsFile(place) => found = {place}
    BY <1>3
  <1>6. /\ script.ext = ".mt0" /\ library.ext = ".so" /\ script # library
        /\ Beside = {WithExtension(place, e) : e \in {".mt0", ".so"}} \cap DOMAIN disk
    BY <1>1, ExtendedType
  <1>9. /\ place.ext = "" /\ script \in DOMAIN disk => ResolveModuleFile(place) = {At(script)}
        /\ place.ext = "" /\ script \notin DOMAIN disk /\ library \in DOMAIN disk =>
             ResolveModuleFile(place) = {At(library)}
    BY Resolved DEF IsFile
  <1> HIDE DEF place, script, library
  <1>7. found \subseteq DOMAIN disk
    <2>1. CASE IsFile(place)
      BY <1>5, <2>1 DEF IsFile
    <2>2. CASE ~IsFile(place)
      <3>1. \A f \in FindModule(p) : \E q \in DOMAIN disk : f = At(q)
        BY <1>3, <2>2, FoundOnDisk
      <3> QED BY <1>2, <3>1
    <2> QED BY <2>1, <2>2
  <1>8. ASSUME place.ext = "", ~IsFile(place), ~IsDirectory(place), Beside # {}
        PROVE  found # {} /\ found \subseteq Beside /\ \A q \in found, r \in Beside : Script(r) => q = r
    <2>1. CASE script \in DOMAIN disk
      <3>1. FindModule(p) = {At(script)}
        BY <1>3, <1>4, <1>8, <1>9, <2>1
      <3>2. found = {script}
        BY <1>2, <2>1, <3>1
      <3> QED BY <1>6, <2>1, <3>2 DEF Script
    <2>2. CASE script \notin DOMAIN disk
      <3>1. library \in DOMAIN disk
        BY <1>8, <2>2
      <3>2. FindModule(p) = {At(library)}
        BY <1>3, <1>4, <1>8, <1>9, <2>2, <3>1
      <3>3. found = {library}
        BY <1>2, <3>1, <3>2
      <3> QED BY <1>6, <2>2, <3>1, <3>3 DEF Script
    <2> QED BY <2>1, <2>2
  <1> QED BY <1>5, <1>6, <1>7, <1>8 DEF place

-----------------------------------------------------------------------------
(* The launch.                                                             *)

\* The place of the script, from the directory the interpreter is launched in.
Launched ==
  Place(CASE ScriptPath.base = "$:" -> HomeDir
          [] ScriptPath.base = "." -> StartDir
          [] OTHER -> <<>>, ScriptPath)

\* The arguments the script is given.
Given == <<At(Launched)>> \o [i \in 1..(Len(argv) - parsed - 1) |-> argv[parsed + 1 + i]]

\* The options come first; a launch knows its script by where it was launched
\* until it has changed the directory, and by "#:" and its first argument after.
ArgsOK ==
  /\ argv \in CommandLines
  /\ parsed \in 0..Len(argv)
  /\ \A i \in 1..parsed : IsFlag(argv[i])
  /\ phase \in {"options", "libraries"} => cwd = StartDir /\ scrdir = <<>>
  /\ phase \in {"libraries", "loaded", "running"} => ~AtFlag
  /\ phase \in {"loaded", "running"} => parsed < Len(argv) /\ scrdir = Launched.dir
  /\ phase = "running" => launchArgs = Given

LEMMA Arguments ==
  ASSUME ArgsOK
  PROVE  /\ Len(argv) \in Nat /\ parsed \in Nat
         /\ \A i \in 1..Len(argv) : argv[i] \in [flag : STRING] \cup [word : PathSet]
         /\ parsed < Len(argv) /\ ~AtFlag =>
              /\ argv[parsed + 1] \in [word : PathSet]
              /\ ScriptPath \in PathSet
              /\ ~IsFlag(argv[parsed + 1])
  <1>1. argv \in Seq([flag : STRING] \cup [word : PathSet])
    BY CommandAssumption DEF ArgsOK
  <1>2. Len(argv) \in Nat /\ \A i \in 1..Len(argv) : argv[i] \in [flag : STRING] \cup [word : PathSet]
    BY <1>1, LenProperties, ElementOfSeq
  <1>3. parsed \in Nat
    BY <1>2 DEF ArgsOK
  <1>4. ASSUME parsed < Len(argv), ~AtFlag
        PROVE  argv[parsed + 1] \in [word : PathSet] /\ ScriptPath \in PathSet /\ ~IsFlag(argv[parsed + 1])
    <2>1. parsed + 1 \in 1..Len(argv) /\ ~IsFlag(argv[parsed + 1])
      BY <1>2, <1>3, <1>4 DEF AtFlag
    <2>2. \A a \in [flag : STRING] : IsFlag(a)
      BY DEF IsFlag
    <2>3. argv[parsed + 1] \in [word : PathSet]
      BY <1>2, <2>1, <2>2
    <2> QED BY <2>1, <2>3 DEF ScriptPath
  <1> QED BY <1>2, <1>3, <1>4

\* The place of the script, while nothing has changed the directory and after.
LEMMA LaunchedType ==
  ASSUME ArgsOK, parsed < Len(argv), ~AtFlag
  PROVE  /\ Launched \in PlaceSet
         /\ Launched.stem = ScriptPath.stem /\ Launched.ext = ScriptPath.ext
         /\ phase \in {"options", "libraries"} => AbsolutePath(ScriptPath) = Launched
  <1> DEFINE d == CASE ScriptPath.base = "$:" -> HomeDir
                    [] ScriptPath.base = "." -> StartDir
                    [] OTHER -> <<>>
  <1>1. ScriptPath \in PathSet
    BY Arguments
  <1>2. d \in Seq(STRING)
    <2>1. HomeDir \in Seq(STRING) /\ StartDir \in Seq(STRING)
      BY PathsAssumption, TreeAssumption
    <2>2. <<>> \in Seq(STRING)
      BY EmptySeq
    <2> QED BY <2>1, <2>2
  <1>3. Launched = Place(d, ScriptPath)
    BY DEF Launched
  <1>4. ASSUME phase \in {"options", "libraries"}
        PROVE  AbsolutePath(ScriptPath) = Place(d, ScriptPath)
    <2>1. cwd = StartDir /\ scrdir = <<>>
      BY <1>4 DEF ArgsOK
    <2>2. ScriptPath.base \in {"$:", "#:", ".", "/"}
      BY <1>1 DEF PathSet
    <2> QED BY <2>1, <2>2 DEF AbsolutePath
  <1> HIDE DEF d
  <1>5. Place(d, ScriptPath) \in PlaceSet
    BY <1>1, <1>2, PlaceType
  <1> QED BY <1>3, <1>4, <1>5 DEF Place

LEMMA LaunchStarts ==
  ASSUME LaunchInit
  PROVE  ArgsOK /\ PlacesOK /\ FilesInv
  <1> USE DEF LaunchInit
  <1>1. DOMAIN disk = DOMAIN Programs \cup DOMAIN Defines
    BY DEF FilesInit
  <1>2. DOMAIN disk \subseteq PlaceSet /\ IsFiniteSet(DOMAIN disk)
    BY <1>1, TreeAssumption, ModulesAssumption, FS_Union
  <1>3. FilesInv
    BY <1>1, <1>2, FilesStart
  <1>4. file.name = {} /\ cwd \in Seq(STRING) /\ scrdir \in Seq(STRING)
    BY TreeAssumption, EmptySeq DEF FilesInit, NoFile
  <1>5. ArgsOK
    <2>1. argv \in Seq([flag : STRING] \cup [word : PathSet])
      BY CommandAssumption
    <2>2. Len(argv) \in Nat
      BY <2>1, LenProperties
    <2> QED BY <2>2 DEF ArgsOK
  <1> QED BY <1>2, <1>3, <1>4, <1>5 DEF PlacesOK

\* What a step does to the files, the directories and the arguments.
LEMMA LaunchFiles ==
  ASSUME FilesInv, PlacesOK, ArgsOK, [LaunchNext]_allVars
  PROVE  FilesInv' /\ PlacesOK'
  <1>1. ASSUME [FilesNext]_fileVars
        PROVE  FilesInv' /\ PlacesOK'
    BY <1>1, FilesStep, FilesPlaces DEF FilesInv
  <1>2. ASSUME LoadProgram
        PROVE  FilesInv' /\ PlacesOK'
    <2>1. UNCHANGED <<disk, data, file, stream, seen>>
      BY <1>2 DEF LoadProgram
    <2>2. FilesInv'
      BY <2>1, DirectoriesOK DEF Directories
    <2>3. /\ phase = "libraries" /\ parsed < Len(argv)
          /\ \/ UNCHANGED <<scrdir, cwd>>
             \/ scrdir' = AbsolutePath(ScriptPath).dir /\ cwd' = AbsolutePath(ScriptPath).dir
      BY <1>2 DEF LoadProgram
    <2>4. AbsolutePath(ScriptPath) \in PlaceSet
      BY <2>3, Arguments, AbsoluteType DEF ArgsOK
    <2>5. AbsolutePath(ScriptPath).dir \in Seq(STRING)
      BY <2>4 DEF PlaceSet
    <2> QED BY <2>1, <2>2, <2>3, <2>5 DEF PlacesOK
  <1>3. ASSUME Leave
        PROVE  FilesInv' /\ PlacesOK'
    <2>1. Gone /\ UNCHANGED <<cwd, scrdir, disk>> /\ file' = NoFile
      BY <1>3 DEF Leave, Gone
    <2>2. file'.name = {}
      BY <2>1 DEF NoFile
    <2> QED BY <2>1, <2>2, GoneOK DEF PlacesOK
  <1>4. ASSUME RunProgram
        PROVE  [FilesNext]_fileVars
    BY <1>4 DEF RunProgram, FilesNext
  <1>5. ASSUME ParseOption \/ MakeInterpreter \/ StartDialogue \/ LoadArgs \/ Return \/ LineEntered
               \/ UNCHANGED allVars
        PROVE  UNCHANGED fileVars
    BY <1>5 DEF ParseOption, MakeInterpreter, StartDialogue, LoadArgs, Return, LineEntered, allVars
  <1>6. ASSUME NEW l \in Libraries, LoadLibrary(l)
        PROVE  UNCHANGED fileVars
    BY <1>6 DEF LoadLibrary
  <1> QED BY <1>1, <1>2, <1>3, <1>4, <1>5, <1>6 DEF LaunchNext

LEMMA SameScript ==
  ASSUME UNCHANGED <<argv, parsed>>
  PROVE  /\ Launched' = Launched /\ AtFlag' = AtFlag /\ Given' = Given
         /\ (\A i \in 1..parsed : IsFlag(argv[i]))' = (\A i \in 1..parsed : IsFlag(argv[i]))
  <1>1. Launched' = Launched
    BY DEF Launched, ScriptPath
  <1>2. AtFlag' = AtFlag /\ Given' = Given
    BY <1>1 DEF AtFlag, Given
  <1> QED BY <1>1, <1>2

LEMMA LaunchArgsStep ==
  ASSUME FilesInv, PlacesOK, ArgsOK, [LaunchNext]_allVars
  PROVE  ArgsOK'
  <1>1. CASE ParseOption
    <2>1. Len(argv) \in Nat /\ parsed \in Nat
      BY Arguments
    <2>2. phase = "options" /\ AtFlag /\ UNCHANGED <<argv, cwd, scrdir>>
      BY <1>1 DEF ParseOption, fileVars
    <2>3. CASE phase' = "ended" /\ parsed' = parsed
      BY <2>2, <2>3 DEF ArgsOK
    <2>4. CASE phase' = phase /\ parsed' = parsed + 1
      <3>1. parsed' \in 0..Len(argv) /\ \A i \in 1..parsed' : IsFlag(argv[i])
        BY <2>1, <2>2, <2>4 DEF ArgsOK, AtFlag
      <3> QED BY <2>2, <2>4, <3>1 DEF ArgsOK
    <2> QED BY <1>1, <2>3, <2>4 DEF ParseOption
  <1>2. CASE MakeInterpreter
    <2>1. phase = "options" /\ ~AtFlag /\ phase' = "libraries" /\ UNCHANGED <<argv, parsed, cwd, scrdir>>
      BY <1>2 DEF MakeInterpreter, fileVars
    <2> QED BY <2>1, SameScript DEF ArgsOK
  <1>3. ASSUME NEW l \in Libraries, LoadLibrary(l)
        PROVE  ArgsOK'
    <2>1. UNCHANGED <<argv, parsed, cwd, scrdir, phase, launchArgs>>
      BY <1>3 DEF LoadLibrary, fileVars
    <2> QED BY <2>1, SameScript DEF ArgsOK
  <1>4. CASE StartDialogue \/ Return \/ Leave \/ LineEntered
    <2>1. UNCHANGED <<argv, parsed>> /\ phase' \notin {"options", "libraries", "loaded", "running"}
      BY <1>4 DEF StartDialogue, Return, Leave, LineEntered
    <2> QED BY <2>1 DEF ArgsOK
  <1>5. CASE LoadProgram
    <2>1. phase = "libraries" /\ parsed < Len(argv) /\ ~AtFlag /\ UNCHANGED <<argv, parsed>>
      BY <1>5 DEF LoadProgram, ArgsOK
    <2>2. CASE phase' = "returned"
      BY <2>1, <2>2 DEF ArgsOK
    <2>3. CASE phase' = "loaded" /\ scrdir' = AbsolutePath(ScriptPath).dir
      BY <2>1, <2>3, SameScript, LaunchedType DEF ArgsOK
    <2> QED BY <1>5, <2>2, <2>3 DEF LoadProgram
  <1>6. CASE LoadArgs
    <2>1. /\ phase = "loaded" /\ phase' = "running" /\ UNCHANGED <<argv, parsed, cwd, scrdir>>
          /\ launchArgs' = <<At([dir |-> scrdir, stem |-> ScriptPath.stem, ext |-> ScriptPath.ext])>>
                           \o [i \in 1..(Len(argv) - parsed - 1) |-> argv[parsed + 1 + i]]
      BY <1>6 DEF LoadArgs, fileVars
    <2>2. parsed < Len(argv) /\ ~AtFlag /\ scrdir = Launched.dir
      BY <2>1 DEF ArgsOK
    <2>3. At([dir |-> scrdir, stem |-> ScriptPath.stem, ext |-> ScriptPath.ext]) = At(Launched)
      BY <2>2, LaunchedType DEF At
    <2>4. launchArgs' = Given
      BY <2>1, <2>3 DEF Given
    <2> QED BY <2>1, <2>2, <2>4, SameScript DEF ArgsOK
  <1>7. CASE RunProgram
    <2>1. UNCHANGED launchVars /\ phase = "running"
      BY <1>7 DEF RunProgram
    <2>2. scrdir' = scrdir
      BY <1>7 DEF RunProgram, fileVars, FilesNext, SetPath, Open, Close, ReadLine, Reset, ReadBuffer, WriteLine,
                  WriteContents, CopyTo, Rename, RemoveFile, Cd, SyncWorkDir
    <2> QED BY <2>1, <2>2, SameScript DEF ArgsOK, launchVars
  <1>8. CASE UNCHANGED allVars
    <2>1. UNCHANGED <<argv, parsed, phase, cwd, scrdir, launchArgs>>
      BY <1>8 DEF allVars, launchVars, fileVars
    <2> QED BY <2>1, SameScript DEF ArgsOK
  <1> QED BY <1>1, <1>2, <1>3, <1>4, <1>5, <1>6, <1>7, <1>8 DEF LaunchNext

-----------------------------------------------------------------------------
(* The script finds itself.                                                *)

LEMMA GivenRest ==
  ASSUME ArgsOK, parsed < Len(argv), ~AtFlag
  PROVE  Given[1] = At(Launched) /\ Tail(Given) = SubSeq(argv, parsed + 2, Len(argv))
  <1> DEFINE A == [flag : STRING] \cup [word : PathSet]
             n == Len(argv) - parsed - 1
             rest == [i \in 1..n |-> argv[parsed + 1 + i]]
             x == At(Launched)
             sub == SubSeq(argv, parsed + 2, Len(argv))
  <1>1. /\ Len(argv) \in Nat /\ parsed \in Nat /\ n \in Nat
        /\ \A i \in 1..Len(argv) : argv[i] \in A
    BY Arguments
  <1>2. argv \in Seq(A)
    BY CommandAssumption DEF ArgsOK
  <1>3. \A i \in 1..n : parsed + 1 + i \in 1..Len(argv)
    BY <1>1
  <1> HIDE DEF A
  <1>4. rest \in Seq(A) /\ Len(rest) = n /\ \A i \in 1..n : rest[i] = argv[parsed + 1 + i]
    <2> HIDE DEF n
    <2>1. \A i \in 1..n : argv[parsed + 1 + i] \in A
      BY <1>1, <1>3
    <2> QED BY <1>1, <2>1
  <1>5. /\ sub \in Seq(A) /\ Len(sub) = n
        /\ \A i \in 1..n : sub[i] = argv[parsed + 1 + i]
    <2> DEFINE m == parsed + 2
               k == Len(argv)
    <2>1. m \in Int /\ k \in Int /\ (m <= k => k - m + 1 = n) /\ (~(m <= k) => n = 0)
          /\ \A i \in 1..n : m <= k /\ m + i - 1 = parsed + 1 + i
      BY <1>1
    <2>2. \A i \in m..k : argv[i] \in A
      BY <1>1
    <2> HIDE DEF m, k, n
    <2>3. /\ SubSeq(argv, m, k) \in Seq(A)
          /\ Len(SubSeq(argv, m, k)) = IF m <= k THEN k - m + 1 ELSE 0
          /\ \A i \in 1..(k - m + 1) : SubSeq(argv, m, k)[i] = argv[m + i - 1]
      BY <2>1, <2>2, SubSeqProperties
    <2>4. Len(SubSeq(argv, m, k)) = n /\ \A i \in 1..n : SubSeq(argv, m, k)[i] = argv[parsed + 1 + i]
      BY <2>1, <2>3
    <2>5. sub = SubSeq(argv, m, k)
      BY DEF m, k
    <2> QED BY <2>3, <2>4, <2>5
  <1>6. Given = <<x>> \o rest
    BY DEF Given
  <1> HIDE DEF n, rest, x, sub
  <1>7. <<x>> \o rest \in Seq(A \cup {x}) /\ Len(<<x>> \o rest) = n + 1
        /\ (<<x>> \o rest)[1] = x /\ \A i \in 1..n : (<<x>> \o rest)[i + 1] = rest[i]
    <2>1. rest \in Seq(A \cup {x})
      BY <1>4
    <2>2. <<x>> \in Seq(A \cup {x}) /\ Len(<<x>>) = 1 /\ <<x>>[1] = x
      OBVIOUS
    <2>3. /\ <<x>> \o rest \in Seq(A \cup {x}) /\ Len(<<x>> \o rest) = 1 + n
          /\ \A i \in 1..(1 + n) : (<<x>> \o rest)[i] = IF i <= 1 THEN <<x>>[i] ELSE rest[i - 1]
      BY <1>4, <2>1, <2>2, ConcatProperties
    <2>4. \A i \in 1..n : i + 1 \in 1..(1 + n) /\ ~(i + 1 <= 1) /\ (i + 1) - 1 = i
      BY <1>1
    <2>5. 1 \in 1..(1 + n)
      BY <1>1
    <2> QED BY <1>1, <2>2, <2>3, <2>4, <2>5
  <1>8. Tail(<<x>> \o rest) = rest
    <2> DEFINE s == <<x>> \o rest
    <2> HIDE DEF s
    <2>1. s \in Seq(A \cup {x}) /\ Len(s) = n + 1 /\ s # <<>> /\ \A i \in 1..n : s[i + 1] = rest[i]
      BY <1>1, <1>7 DEF s
    <2>2. Tail(s) \in Seq(A \cup {x}) /\ Len(Tail(s)) = n /\ \A i \in 1..n : Tail(s)[i] = rest[i]
      BY <1>1, <2>1, HeadTailProperties
    <2>3. rest \in Seq(A \cup {x})
      BY <1>4
    <2>4. Tail(s) = rest
      BY <1>4, <2>2, <2>3, SeqEqual
    <2> QED BY <2>4 DEF s
  <1>9. rest = sub
    BY <1>4, <1>5, SeqEqual
  <1> QED BY <1>6, <1>7, <1>8, <1>9 DEF x, sub

LEMMA Known ==
  ASSUME ArgsOK
  PROVE  ScriptKnown
  <1> SUFFICES ASSUME phase = "running"
               PROVE  LET first == CHOOSE i \in 1..Len(argv) :
                                     ~IsFlag(argv[i]) /\ \A j \in 1..(i - 1) : IsFlag(argv[j])
                          path  == argv[first].word
                          place == Place(CASE path.base = "$:" -> HomeDir
                                           [] path.base = "." -> StartDir
                                           [] OTHER -> <<>>, path)
                      IN /\ AbsolutePath(launchArgs[1]) = place
                         /\ AbsolutePath([launchArgs[1] EXCEPT !.base = "#:", !.dir = <<>>]) = place
                         /\ Tail(launchArgs) = SubSeq(argv, first + 1, Len(argv))
    BY DEF ScriptKnown
  <1> DEFINE IsFirst(i) == ~IsFlag(argv[i]) /\ \A j \in 1..(i - 1) : IsFlag(argv[j])
             first == CHOOSE i \in 1..Len(argv) : IsFirst(i)
             other == [At(Launched) EXCEPT !.base = "#:", !.dir = <<>>]
  <1>1. /\ parsed < Len(argv) /\ ~AtFlag /\ scrdir = Launched.dir /\ launchArgs = Given
        /\ \A i \in 1..parsed : IsFlag(argv[i])
    BY DEF ArgsOK
  <1>2. Len(argv) \in Nat /\ parsed \in Nat /\ ~IsFlag(argv[parsed + 1])
    BY <1>1, Arguments
  <1>3. parsed + 1 \in 1..Len(argv) /\ IsFirst(parsed + 1)
    BY <1>1, <1>2
  <1>4. \A i \in 1..Len(argv) : IsFirst(i) => i = parsed + 1
    <2> SUFFICES ASSUME NEW i \in 1..Len(argv), IsFirst(i), i # parsed + 1
                 PROVE  FALSE
      OBVIOUS
    <2>1. CASE i \in 1..parsed
      BY <1>1, <2>1
    <2>2. CASE parsed + 1 \in 1..(i - 1)
      BY <1>2, <2>2
    <2> QED BY <1>2, <2>1, <2>2
  <1> HIDE DEF IsFirst
  <1>5. first = parsed + 1
    BY <1>3, <1>4
  <1> HIDE DEF first
  <1>6. Launched \in PlaceSet /\ Launched.stem = ScriptPath.stem /\ Launched.ext = ScriptPath.ext
    BY <1>1, LaunchedType
  <1>7. launchArgs[1] = At(Launched) /\ Tail(launchArgs) = SubSeq(argv, parsed + 2, Len(argv))
    BY <1>1, GivenRest
  <1>8. AbsolutePath(At(Launched)) = Launched
    BY <1>6, AtType
  <1>9. AbsolutePath(other) = Launched
    <2>1. At(Launched) \in PathSet
      BY <1>6, AtType
    <2>2. other.base = "#:" /\ other.dir = <<>> /\ other.stem = Launched.stem /\ other.ext = Launched.ext
      BY <2>1 DEF PathSet, At
    <2>3. Launched.dir \o <<>> = Launched.dir
      BY <1>6, ConcatEmptySeq DEF PlaceSet
    <2> HIDE DEF other
    <2>4. AbsolutePath(other) = [dir |-> scrdir \o <<>>, stem |-> Launched.stem, ext |-> Launched.ext]
      BY <2>2 DEF AbsolutePath, Place
    <2> QED BY <1>1, <1>6, <2>3, <2>4 DEF PlaceSet
  <1>10. parsed + 2 = first + 1
    BY <1>2, <1>5
  <1> DEFINE path == argv[first].word
             place == Place(CASE path.base = "$:" -> HomeDir
                              [] path.base = "." -> StartDir
                              [] OTHER -> <<>>, path)
  <1>11. path = ScriptPath
    BY <1>5 DEF ScriptPath
  <1>12. place = Launched
    BY <1>11 DEF Launched
  <1> HIDE DEF place, path, other
  <1>13. /\ AbsolutePath(launchArgs[1]) = place
         /\ AbsolutePath([launchArgs[1] EXCEPT !.base = "#:", !.dir = <<>>]) = place
         /\ Tail(launchArgs) = SubSeq(argv, first + 1, Len(argv))
    BY <1>7, <1>8, <1>9, <1>10, <1>12 DEF other
  <1> QED BY <1>13 DEF first, place, path, IsFirst

-----------------------------------------------------------------------------
(* Imports.                                                                *)

\* One function is executed at a time, and nothing is registered before the
\* interpreter is made.
NamesOK ==
  /\ \A t, u \in callee : t = u
  /\ phase = "options" => inbuilt = NoNames

LEMMA Bindings ==
  ASSUME NEW scope, NEW names, NEW m
  PROVE  /\ \A n \in DOMAIN scope : n \in DOMAIN Bind(scope, names, m) /\ Bind(scope, names, m)[n] = scope[n]
         /\ \A n \in DOMAIN scope : /\ n \in DOMAIN Set(scope, names, m)
                                    /\ n \notin names => Set(scope, names, m)[n] = scope[n]
                                    /\ n \in names => Set(scope, names, m)[n] = m
  BY DEF Bind, Set, Over, Bound

\* What an import of a module, whatever names it has, does to what was bound.
LEMMA ImportBinds ==
  ASSUME NamesOK, NEW u, Import(u)
  PROVE  /\ \A n \in DOMAIN inbuilt : n \in DOMAIN inbuilt' /\ inbuilt'[n] = inbuilt[n]
         /\ \A n \in DOMAIN table : table'[n] = table[n]
         /\ \A t \in callee, v \in callee' : \A n \in DOMAIN t :
              v[n] # t[n] => n \in Defines[v[n]].fun
         /\ \A t, v \in callee' : t = v
  <1> DEFINE funs == u.names \cap Defines[u.from].fun
             vals == u.names \ funs
  <1>1. CASE callee = {}
    <2>1. inbuilt' = Bind(inbuilt, funs, u.from) /\ table' = Bind(table, vals, u.from) /\ callee' = callee
      BY <1>1 DEF Import
    <2> QED BY <1>1, <2>1, Bindings
  <1>2. CASE callee # {}
    <2>1. /\ callee' = {Bind(Set(t, funs, u.from), vals, u.from) : t \in callee}
          /\ UNCHANGED <<inbuilt, table>>
      BY <1>2 DEF Import
    <2>2. ASSUME NEW t \in callee, NEW v \in callee', NEW n \in DOMAIN t, v[n] # t[n]
          PROVE  n \in Defines[v[n]].fun
      <3>1. v = Bind(Set(t, funs, u.from), vals, u.from)
        BY <2>1 DEF NamesOK
      <3>2. n \in DOMAIN Set(t, funs, u.from) /\ v[n] = Set(t, funs, u.from)[n]
        BY <3>1, Bindings
      <3>3. n \in funs /\ v[n] = u.from
        BY <2>2, <3>2, Bindings
      <3> QED BY <3>3
    <2>3. \A t, v \in callee' : t = v
      BY <2>1 DEF NamesOK
    <2> QED BY <2>1, <2>2, <2>3
  <1> QED BY <1>1, <1>2

\* What one step may do to the names that are bound.
KeepsNames ==
  /\ \A n \in DOMAIN inbuilt : n \in DOMAIN inbuilt' /\ inbuilt'[n] = inbuilt[n]
  /\ \A n \in DOMAIN table \cap DOMAIN table' :
       table'[n] # table[n] => table'[n] = Program
  /\ \A t \in callee, u \in callee' : \A n \in DOMAIN t :
       u[n] # t[n] => u[n] = Program \/ n \in Defines[u[n]].fun

LEMMA ModulesNames ==
  ASSUME NamesOK, ModulesNext
  PROVE  KeepsNames /\ \A t, u \in callee' : t = u
  <1>1. ASSUME NEW u, Import(u)
        PROVE  KeepsNames /\ \A t, v \in callee' : t = v
    BY <1>1, ImportBinds DEF KeepsNames
  <1>2. ASSUME NEW p \in ModulePaths, UsingModule(p)
        PROVE  \E u : Import(u)
    BY <1>2 DEF UsingModule
  <1>3. ASSUME ImportUnit
        PROVE  \E u : Import(u)
    BY <1>3 DEF ImportUnit
  <1>4. ASSUME UNCHANGED <<inbuilt, table>>, callee' = callee \/ callee' = {} \/ (callee = {} /\ callee' = {NoNames})
        PROVE  KeepsNames /\ \A t, v \in callee' : t = v
    BY <1>4 DEF KeepsNames, NamesOK
  <1>5. ASSUME NEW n \in ProgramNames, Assign(n)
        PROVE  KeepsNames /\ \A t, v \in callee' : t = v
    <2>1. CASE callee = {}
      <3>1. table' = Set(table, {n}, Program) /\ UNCHANGED <<inbuilt, callee>>
        BY <1>5, <2>1 DEF Assign
      <3> QED BY <2>1, <3>1, Bindings DEF KeepsNames
    <2>2. CASE callee # {}
      <3>1. callee' = {Set(t, {n}, Program) : t \in callee} /\ UNCHANGED <<inbuilt, table>>
        BY <1>5, <2>2 DEF Assign
      <3>2. ASSUME NEW t \in callee, NEW u \in callee', NEW k \in DOMAIN t, u[k] # t[k]
            PROVE  u[k] = Program
        <4>1. u = Set(t, {n}, Program)
          BY <3>1 DEF NamesOK
        <4> QED BY <3>2, <4>1, Bindings
      <3> QED BY <3>1, <3>2 DEF KeepsNames, NamesOK
    <2> QED BY <2>1, <2>2
  <1>6. ASSUME (\E p \in ModulePaths : Load(p)) \/ MakeBox \/ Unload \/ EnterFunction \/ LeaveFunction
        PROVE  UNCHANGED <<inbuilt, table>> /\ (callee' = callee \/ callee' = {} \/ (callee = {} /\ callee' = {NoNames}))
    BY <1>6 DEF Load, MakeBox, Unload, EnterFunction, LeaveFunction
  <1> QED BY <1>1, <1>2, <1>3, <1>4, <1>5, <1>6 DEF ModulesNext

LEMMA LaunchNames ==
  ASSUME NamesOK, [LaunchNext]_allVars
  PROVE  NamesOK' /\ ([KeepsNames]_<<fileVars, moduleVars>>)
  <1>1. ASSUME ModulesNext, phase = "running", UNCHANGED launchVars
        PROVE  NamesOK' /\ KeepsNames
    BY <1>1, ModulesNames DEF NamesOK, launchVars
  <1>2. ASSUME UNCHANGED moduleVars, phase' # "options" \/ phase' = phase
        PROVE  NamesOK' /\ KeepsNames
    BY <1>2 DEF NamesOK, moduleVars, KeepsNames
  <1>3. CASE ParseOption
    BY <1>2, <1>3 DEF ParseOption
  <1>4. CASE MakeInterpreter
    <2>1. /\ phase = "options" /\ phase' = "libraries" /\ UNCHANGED <<table, callee>>
      BY <1>4 DEF MakeInterpreter
    <2>2. DOMAIN inbuilt = {}
      BY <2>1 DEF NamesOK, NoNames
    <2> QED BY <2>1, <2>2 DEF NamesOK, KeepsNames
  <1>5. ASSUME NEW l \in Libraries, LoadLibrary(l)
        PROVE  NamesOK' /\ KeepsNames
    <2>1. /\ inbuilt' = inbuilt \/ inbuilt' = Bind(inbuilt, Defines[l].fun, l)
          /\ phase = "libraries" /\ UNCHANGED <<table, callee, phase>>
      BY <1>5 DEF LoadLibrary
    <2>2. \A n \in DOMAIN inbuilt : n \in DOMAIN inbuilt' /\ inbuilt'[n] = inbuilt[n]
      BY <2>1, Bindings
    <2> QED BY <2>1, <2>2 DEF NamesOK, KeepsNames
  <1>6. CASE StartDialogue \/ LoadArgs \/ Return \/ Leave \/ LineEntered
    BY <1>2, <1>6 DEF StartDialogue, LoadArgs, Return, Leave, LineEntered
  <1>7. CASE LoadProgram
    <2>1. /\ table' = NoNames /\ UNCHANGED <<inbuilt, callee>> /\ phase' # "options"
      BY <1>7 DEF LoadProgram
    <2>2. DOMAIN table' = {}
      BY <2>1 DEF NoNames
    <2> QED BY <2>1, <2>2 DEF NamesOK, KeepsNames
  <1>8. CASE RunProgram
    <2>1. phase = "running" /\ UNCHANGED launchVars /\ (ModulesNext \/ UNCHANGED moduleVars)
      BY <1>8 DEF RunProgram
    <2> QED BY <1>1, <1>2, <2>1 DEF launchVars
  <1>9. CASE UNCHANGED allVars
    BY <1>2, <1>9 DEF allVars, launchVars
  <1> QED BY <1>3, <1>4, <1>5, <1>6, <1>7, <1>8, <1>9 DEF LaunchNext

-----------------------------------------------------------------------------
(* Sums.                                                                   *)

\* Induction on the natural numbers and on the subsets of a finite set, for a
\* set of those that are as they should be.
LEMMA NumbersIn ==
  ASSUME NEW G, 0 \in G, \A n \in Nat : n \in G => n + 1 \in G
  PROVE  Nat \subseteq G
  <1> DEFINE T == Nat \ G
  <1> SUFFICES ASSUME T # {} PROVE FALSE
    OBVIOUS
  <1>1. \E x \in T : \A y \in T : ~(<<y, x>> \in OpToRel(<, Nat))
    BY NatLessThanWellFounded, WFMin
  <1>2. PICK x \in T : \A y \in T : ~(y < x)
    BY <1>1 DEF OpToRel
  <1>3. x # 0 /\ x \in Nat
    BY <1>2
  <1>4. x - 1 \in Nat /\ x - 1 < x /\ (x - 1) + 1 = x
    BY <1>3
  <1>5. x - 1 \in G
    BY <1>2, <1>4
  <1> QED BY <1>2, <1>4, <1>5

LEMMA SubsetsIn ==
  ASSUME NEW S, IsFiniteSet(S), NEW G,
         \A s \in SUBSET S :
           (\A t \in SUBSET S : Cardinality(t) < Cardinality(s) => t \in G) => s \in G
  PROVE  SUBSET S \subseteq G
  <1> DEFINE Below(n) == \A t \in SUBSET S : Cardinality(t) < n => t \in G
             N == {n \in Nat : Below(n)}
  <1>1. \A t \in SUBSET S : Cardinality(t) \in Nat
    BY FS_Subset, FS_CardinalityType
  <1>2. 0 \in N
    BY <1>1
  <1>3. ASSUME NEW n \in Nat, n \in N
        PROVE  n + 1 \in N
    <2>1. ASSUME NEW s \in SUBSET S, Cardinality(s) < n + 1
          PROVE  s \in G
      <3>1. \A t \in SUBSET S : Cardinality(t) < Cardinality(s) => Cardinality(t) < n
        BY <1>1, <2>1
      <3> QED BY <1>3, <3>1
    <2> QED BY <1>3, <2>1
  <1>4. Nat \subseteq N
    <2> HIDE DEF N
    <2> QED BY <1>2, <1>3, NumbersIn
  <1>5. ASSUME NEW s \in SUBSET S
        PROVE  s \in G
    <2>1. Cardinality(s) + 1 \in N /\ Cardinality(s) < Cardinality(s) + 1
      BY <1>1, <1>4
    <2> QED BY <2>1
  <1> QED BY <1>5

\* The sum of f over the subsets of S, as the fold takes them apart.
OneOf(s) == CHOOSE x \in s : TRUE
Added(f, s, it) == IF s = {} THEN 0 ELSE f[OneOf(s)] + it[s \ {OneOf(s)}]
Adds(f, S, it) == it = [s \in SUBSET S |-> Added(f, s, it)]

LEMMA OneFewer ==
  ASSUME NEW s, IsFiniteSet(s), s # {}
  PROVE  /\ OneOf(s) \in s /\ Cardinality(s \ {OneOf(s)}) < Cardinality(s)
         /\ \A x \in s : Cardinality(s \ {x}) < Cardinality(s)
  <1>1. OneOf(s) \in s
    BY DEF OneOf
  <1>2. Cardinality(s) \in Nat /\ \A x \in s : Cardinality(s \ {x}) = Cardinality(s) - 1
    BY FS_CardinalityType, FS_RemoveElement
  <1> QED BY <1>1, <1>2

LEMMA SumExists ==
  ASSUME NEW f, NEW S, IsFiniteSet(S)
  PROVE  \E it : Adds(f, S, it)
  <1> DEFINE Upto(n) == {s \in SUBSET S : Cardinality(s) <= n}
             Partial(n, g) == g = [s \in Upto(n) |-> Added(f, s, g)]
             N == {n \in Nat : \E g : Partial(n, g)}
  <1>1. \A s \in SUBSET S : IsFiniteSet(s) /\ Cardinality(s) \in Nat /\ Cardinality(s) <= Cardinality(S)
                            /\ (Cardinality(s) = 0 <=> s = {})
    BY FS_Subset, FS_CardinalityType, FS_EmptySet
  <1>2. 0 \in N
    <2> DEFINE g == [s \in Upto(0) |-> 0]
    <2>1. \A s \in Upto(0) : s = {}
      BY <1>1
    <2>2. \A s \in Upto(0) : Added(f, s, g) = 0
      BY <2>1 DEF Added
    <2>3. Partial(0, g)
      BY <2>2
    <2> QED BY <2>3
  <1>3. ASSUME NEW n \in Nat, n \in N
        PROVE  n + 1 \in N
    <2>1. PICK g : Partial(n, g)
      BY <1>3
    <2> DEFINE h == [s \in Upto(n + 1) |-> Added(f, s, g)]
    <2>2. ASSUME NEW s \in Upto(n), NEW t
          PROVE  h[s] = g[s] /\ s \in Upto(n + 1)
      <3>1. s \in Upto(n + 1)
        BY <1>1
      <3> QED BY <2>1, <3>1
    <2>3. ASSUME NEW s \in Upto(n + 1)
          PROVE  Added(f, s, g) = Added(f, s, h)
      <3>1. CASE s = {}
        BY <3>1 DEF Added
      <3>2. CASE s # {}
        <4>1. s \ {OneOf(s)} \in Upto(n)
          <5>1. Cardinality(s \ {OneOf(s)}) < Cardinality(s) /\ s \ {OneOf(s)} \in SUBSET S
            BY <1>1, <3>2, OneFewer
          <5>2. Cardinality(s \ {OneOf(s)}) \in Nat /\ Cardinality(s) \in Nat
            BY <1>1, <5>1
          <5> QED BY <5>1, <5>2
        <4> HIDE DEF h, Upto
        <4> QED BY <2>2, <4>1 DEF Added
      <3> QED BY <3>1, <3>2
    <2>4. Partial(n + 1, h)
      BY <2>3
    <2> HIDE DEF Partial, h
    <2> QED BY <2>4
  <1>4. Nat \subseteq N
    <2> HIDE DEF N
    <2> QED BY <1>2, <1>3, NumbersIn
  <1>5. PICK g : Partial(Cardinality(S), g)
    BY <1>4, FS_CardinalityType
  <1>6. Upto(Cardinality(S)) = SUBSET S
    BY <1>1
  <1> QED BY <1>5, <1>6 DEF Adds

\* Two functions with the same values on s have the same sum over s.
LEMMA SameSum ==
  ASSUME NEW f, NEW S, NEW it, Adds(f, S, it), IsFiniteSet(S),
         NEW g, NEW U, NEW jt, Adds(g, U, jt),
         S \subseteq U, \A x \in S : f[x] = g[x]
  PROVE  \A s \in SUBSET S : it[s] = jt[s]
  <1> DEFINE G == {s \in SUBSET S : it[s] = jt[s]}
  <1>1. ASSUME NEW s \in SUBSET S, \A t \in SUBSET S : Cardinality(t) < Cardinality(s) => t \in G
        PROVE  s \in G
    <2>1. it[s] = Added(f, s, it) /\ jt[s] = Added(g, s, jt)
      BY DEF Adds
    <2>2. CASE s = {}
      BY <2>1, <2>2 DEF Added
    <2>3. CASE s # {}
      <3>1. OneOf(s) \in s /\ s \ {OneOf(s)} \in G
        BY <1>1, <2>3, FS_Subset, OneFewer
      <3> QED BY <2>1, <2>3, <3>1 DEF Added
    <2> QED BY <2>2, <2>3
  <1>2. SUBSET S \subseteq G
    <2> HIDE DEF G
    <2> QED BY <1>1, SubsetsIn
  <1> QED BY <1>2

LEMMA SumType ==
  ASSUME NEW f, NEW S, NEW it, Adds(f, S, it), IsFiniteSet(S), \A x \in S : f[x] \in Nat
  PROVE  \A s \in SUBSET S : it[s] \in Nat
  <1> DEFINE G == {s \in SUBSET S : it[s] \in Nat}
  <1>1. ASSUME NEW s \in SUBSET S, \A t \in SUBSET S : Cardinality(t) < Cardinality(s) => t \in G
        PROVE  s \in G
    <2>1. it[s] = Added(f, s, it)
      BY DEF Adds
    <2>2. CASE s = {}
      BY <2>1, <2>2 DEF Added
    <2>3. CASE s # {}
      <3>1. OneOf(s) \in s /\ s \ {OneOf(s)} \in G
        BY <1>1, <2>3, FS_Subset, OneFewer
      <3> QED BY <2>1, <2>3, <3>1 DEF Added
    <2> QED BY <2>2, <2>3
  <1>2. SUBSET S \subseteq G
    <2> HIDE DEF G
    <2> QED BY <1>1, SubsetsIn
  <1> QED BY <1>2

\* Any element may be taken out.
LEMMA TakenOut ==
  ASSUME NEW f, NEW S, NEW it, Adds(f, S, it), IsFiniteSet(S), \A x \in S : f[x] \in Nat
  PROVE  \A s \in SUBSET S : \A x \in s : it[s] = f[x] + it[s \ {x}]
  <1> DEFINE G == {s \in SUBSET S : \A x \in s : it[s] = f[x] + it[s \ {x}]}
  <1>1. ASSUME NEW s \in SUBSET S, \A t \in SUBSET S : Cardinality(t) < Cardinality(s) => t \in G
        PROVE  s \in G
    <2> SUFFICES ASSUME NEW x \in s PROVE it[s] = f[x] + it[s \ {x}]
      OBVIOUS
    <2> DEFINE c == OneOf(s)
    <2>1. it[s] = f[c] + it[s \ {c}]
      BY DEF Adds, Added
    <2>2. IsFiniteSet(s) /\ c \in s
      BY FS_Subset, OneFewer
    <2>3. CASE c = x
      BY <2>1, <2>3
    <2>4. CASE c # x
      <3>1. s \ {c} \in G /\ s \ {x} \in G
        BY <1>1, <2>2, OneFewer
      <3> HIDE DEF c
      <3>2. it[s \ {c}] = f[x] + it[(s \ {c}) \ {x}] /\ it[s \ {x}] = f[c] + it[(s \ {x}) \ {c}]
        BY <2>2, <2>4, <3>1
      <3>3. (s \ {c}) \ {x} = (s \ {x}) \ {c}
        OBVIOUS
      <3>4. f[c] \in Nat /\ f[x] \in Nat /\ it[(s \ {x}) \ {c}] \in Nat
        BY <2>2, SumType
      <3> DEFINE r == it[(s \ {x}) \ {c}]
      <3>5. it[s] = f[c] + (f[x] + r) /\ it[s \ {x}] = f[c] + r
        BY <2>1, <3>2, <3>3
      <3>6. r \in Nat
        BY <3>4
      <3> HIDE DEF r
      <3> QED BY <3>4, <3>5, <3>6
    <2> QED BY <2>3, <2>4
  <1>2. SUBSET S \subseteq G
    <2> HIDE DEF G
    <2> QED BY <1>1, SubsetsIn
  <1> QED BY <1>2

\* What the sum of the block sizes is.
LEMMA SumIs ==
  ASSUME NEW f, IsFiniteSet(DOMAIN f)
  PROVE  \E it : Adds(f, DOMAIN f, it) /\ SumSizes(f) = it[DOMAIN f]
  <1> DEFINE it == CHOOSE i : Adds(f, DOMAIN f, i)
  <1>1. SumSizes(f) = it[DOMAIN f]
    BY DEF SumSizes, FoldFunction, FoldFunctionOnSet, MapThenFoldSet, Adds, Added, OneOf
  <1>2. Adds(f, DOMAIN f, it)
    BY SumExists
  <1> QED BY <1>1, <1>2

LEMMA SumNat ==
  ASSUME NEW f, IsFiniteSet(DOMAIN f), \A x \in DOMAIN f : f[x] \in Nat
  PROVE  SumSizes(f) \in Nat
  BY SumIs, SumType

LEMMA SumNone ==
  ASSUME NEW f, DOMAIN f = {}
  PROVE  SumSizes(f) = 0
  <1>1. PICK it : Adds(f, {}, it) /\ SumSizes(f) = it[{}]
    BY SumIs, FS_EmptySet
  <1> QED BY <1>1 DEF Adds, Added

\* One block more: a new one, or, read the other way, one given back.
LEMMA SumMore ==
  ASSUME NEW f, NEW g, NEW b, b \notin DOMAIN f, IsFiniteSet(DOMAIN f),
         DOMAIN g = DOMAIN f \cup {b}, \A x \in DOMAIN f : g[x] = f[x],
         \A x \in DOMAIN g : g[x] \in Nat
  PROVE  SumSizes(g) = SumSizes(f) + g[b]
  <1>1. IsFiniteSet(DOMAIN g)
    BY FS_AddElement
  <1>2. PICK it : Adds(f, DOMAIN f, it) /\ SumSizes(f) = it[DOMAIN f]
    BY SumIs
  <1>3. PICK jt : Adds(g, DOMAIN g, jt) /\ SumSizes(g) = jt[DOMAIN g]
    BY <1>1, SumIs
  <1>4. it[DOMAIN f] = jt[DOMAIN f]
    BY <1>2, <1>3, SameSum
  <1>5. jt[DOMAIN g] = g[b] + jt[DOMAIN g \ {b}]
    BY <1>1, <1>3, TakenOut
  <1>6. DOMAIN g \ {b} = DOMAIN f
    OBVIOUS
  <1>7. g[b] \in Nat /\ SumSizes(f) \in Nat
    BY SumNat
  <1> QED BY <1>2, <1>3, <1>4, <1>5, <1>6, <1>7

-----------------------------------------------------------------------------
(* Words.                                                                  *)

LEMMA Remainder ==
  ASSUME NEW a \in Int, NEW w \in Nat \ {0}
  PROVE  /\ a % w \in 0..(w - 1)
         /\ \E q \in Int : a = w * q + (a % w)
  <1>1. a % w \in 0..(w - 1)
    OBVIOUS
  <1>2. a \div w \in Int /\ a = w * (a \div w) + (a % w)
    OBVIOUS
  <1> QED BY <1>1, <1>2

LEMMA RemainderIs ==
  ASSUME NEW a \in Int, NEW w \in Nat \ {0}, NEW q \in Int, NEW r \in 0..(w - 1), a = w * q + r
  PROVE  a % w = r
  <1>1. PICK p \in Int : a = w * p + (a % w)
    BY Remainder
  <1>2. a % w \in 0..(w - 1)
    BY Remainder
  <1> DEFINE s == a % w
  <1>3. s \in 0..(w - 1) /\ a = w * p + s
    BY <1>1, <1>2
  <1> HIDE DEF s
  <1>4. w * (p - q) = r - s
    BY <1>3
  <1>5. p - q = 0
    <2>1. ~(p - q >= 1)
      BY <1>3, <1>4
    <2>2. ~(p - q <= -1)
      BY <1>3, <1>4
    <2> QED BY <2>1, <2>2
  <1>6. r = s
    BY <1>3, <1>4, <1>5
  <1> QED BY <1>6 DEF s

\* Adding to a remainder, and taking away.
LEMMA RemainderPlus ==
  ASSUME NEW a \in Int, NEW n \in Int, NEW w \in Nat \ {0}
  PROVE  ((a % w) + n) % w = (a + n) % w
  <1>1. PICK p \in Int : a = w * p + (a % w)
    BY Remainder
  <1>2. a % w \in 0..(w - 1)
    BY Remainder
  <1> DEFINE s == a % w
  <1>3. s \in Int /\ a = w * p + s
    BY <1>1, <1>2
  <1> HIDE DEF s
  <1>4. PICK q \in Int : s + n = w * q + ((s + n) % w)
    <2>1. s + n \in Int
      BY <1>3
    <2> QED BY <2>1, Remainder
  <1> DEFINE r == (s + n) % w
  <1>5. r \in 0..(w - 1)
    BY <1>3, Remainder
  <1>6. s + n = w * q + r
    BY <1>4
  <1> HIDE DEF r
  <1>7. a + n = w * (p + q) + r
    BY <1>3, <1>5, <1>6
  <1>8. (a + n) % w = r
    <2>1. a + n \in Int /\ p + q \in Int
      OBVIOUS
    <2> QED BY <1>5, <1>7, <2>1, RemainderIs
  <1> QED BY <1>8 DEF r, s

-----------------------------------------------------------------------------
(* The heap.                                                               *)

HeapInv ==
  /\ IsFiniteSet(DOMAIN size) /\ \A b \in DOMAIN size : size[b] \in Nat
  /\ lost \in 0..MaxLost
  /\ Live <= Physical
  /\ maxMem \in Nat
  /\ Accounted

LEMMA HeapTypes ==
  ASSUME HeapInv
  PROVE  /\ Live \in Nat /\ lost \in Nat /\ inUse \in Nat
         /\ Word \in Nat \ {0} /\ Physical \in Nat /\ MaxLost \in Nat
         /\ \A n \in Sizes : n \in Nat
         /\ \A n \in Limits : n \in Nat
  <1>1. Live \in Nat
    BY SumNat DEF HeapInv, Live
  <1>2. Word \in Nat \ {0} /\ Physical \in Nat /\ MaxLost \in Nat
        /\ (\A n \in Sizes : n \in Nat) /\ (\A n \in Limits : n \in Nat)
    BY HeapAssumption
  <1>3. lost \in Nat
    BY <1>2 DEF HeapInv
  <1>4. Live + lost \in Int /\ inUse = (Live + lost) % Word
    BY <1>1, <1>3 DEF HeapInv, Accounted
  <1>5. inUse \in Nat
    <2>1. inUse \in 0..(Word - 1)
      BY <1>2, <1>4, Remainder
    <2> QED BY <1>2, <2>1
  <1> QED BY <1>1, <1>2, <1>3, <1>5

LEMMA ChargedIs ==
  ASSUME HeapInv, NEW n \in Int
  PROVE  (inUse + n) % Word = (Live + lost + n) % Word
  <1>1. Live + lost \in Int /\ Word \in Nat \ {0} /\ inUse = (Live + lost) % Word
    BY HeapTypes DEF HeapInv, Accounted
  <1> QED BY <1>1, RemainderPlus

LEMMA HeapStarts ==
  ASSUME Init
  PROVE  HeapInv
  <1>1. DOMAIN size = {} /\ inUse = 0 /\ lost = 0 /\ maxMem \in Limits
    BY DEF Init
  <1>2. Live = 0
    BY <1>1, SumNone DEF Live
  <1>3. Word \in Nat \ {0} /\ Physical \in Nat /\ MaxLost \in Nat /\ maxMem \in Nat
    BY <1>1, HeapAssumption
  <1>4. 0 % Word = 0
    <2>1. 0 = Word * 0 + 0 /\ 0 \in 0..(Word - 1)
      BY <1>3
    <2> QED BY <1>3, <2>1, RemainderIs
  <1> QED BY <1>1, <1>2, <1>3, <1>4, FS_EmptySet DEF HeapInv, Accounted

LEMMA AllocateOK ==
  ASSUME HeapInv, NEW b, NEW n \in Sizes, Allocate(b, n)
  PROVE  /\ HeapInv'
         /\ DOMAIN size' = DOMAIN size \cup {b} /\ SumSizes(size') = Live + n
  <1>1. n \in Nat
    BY HeapTypes
  <1>2. /\ b \notin DOMAIN size /\ Live + n <= Physical
        /\ inUse' = (inUse + n) % Word
        /\ size' = [c \in DOMAIN size \cup {b} |-> IF c = b THEN n ELSE size[c]]
        /\ UNCHANGED <<maxMem, lost>>
    BY DEF Allocate, Charged
  <1>3. /\ DOMAIN size' = DOMAIN size \cup {b} /\ size'[b] = n
        /\ \A c \in DOMAIN size : size'[c] = size[c]
        /\ \A c \in DOMAIN size' : size'[c] \in Nat
    BY <1>1, <1>2 DEF HeapInv
  <1>4. IsFiniteSet(DOMAIN size) /\ IsFiniteSet(DOMAIN size')
    BY <1>3, FS_AddElement DEF HeapInv
  <1>5. SumSizes(size') = Live + n
    BY <1>2, <1>3, <1>4, SumMore DEF Live
  <1>6. Live' = Live + n
    BY <1>5 DEF Live
  <1>7. inUse' = (Live + lost + n) % Word
    BY <1>1, <1>2, ChargedIs
  <1>8. Live + lost + n = Live + n + lost
    BY <1>1, HeapTypes
  <1>9. HeapInv'
    BY <1>2, <1>3, <1>4, <1>6, <1>7, <1>8 DEF HeapInv, Accounted
  <1> QED BY <1>3, <1>5, <1>9

LEMMA FailOK ==
  ASSUME HeapInv, NEW n \in Sizes, Fail(n)
  PROVE  HeapInv' /\ size' = size
  <1>1. n \in Nat
    BY HeapTypes
  <1>2. /\ lost + n <= MaxLost /\ inUse' = (inUse + n) % Word /\ lost' = lost + n
        /\ UNCHANGED <<maxMem, size>>
    BY DEF Fail, Charged
  <1>3. Live' = Live
    BY <1>2 DEF Live
  <1>4. inUse' = (Live + lost + n) % Word
    BY <1>1, <1>2, ChargedIs
  <1>5. Live + lost + n = Live + lost' /\ lost' \in 0..MaxLost
    BY <1>1, <1>2, HeapTypes
  <1> QED BY <1>2, <1>3, <1>4, <1>5 DEF HeapInv, Accounted

LEMMA DeallocateOK ==
  ASSUME HeapInv, NEW b, Deallocate(b)
  PROVE  HeapInv' /\ DOMAIN size' \subseteq DOMAIN size
  <1>1. /\ b \in DOMAIN size /\ inUse' = (inUse - size[b]) % Word
        /\ size' = [c \in DOMAIN size \ {b} |-> size[c]]
        /\ UNCHANGED <<maxMem, lost>>
    BY DEF Deallocate
  <1>2. /\ DOMAIN size' = DOMAIN size \ {b} /\ \A c \in DOMAIN size' : size'[c] = size[c]
        /\ size[b] \in Nat /\ \A c \in DOMAIN size : size[c] \in Nat
    BY <1>1 DEF HeapInv
  <1>3. IsFiniteSet(DOMAIN size')
    BY <1>2, FS_RemoveElement DEF HeapInv
  <1>4. Live = SumSizes(size') + size[b]
    <2>1. b \notin DOMAIN size' /\ DOMAIN size = DOMAIN size' \cup {b}
      BY <1>1, <1>2
    <2> QED BY <1>2, <1>3, <2>1, SumMore DEF Live
  <1>5. SumSizes(size') \in Nat
    BY <1>2, <1>3, SumNat
  <1>6. Live' = SumSizes(size')
    BY DEF Live
  <1>7. inUse' = (Live + lost + (-size[b])) % Word
    <2>1. inUse + (-size[b]) = inUse - size[b] /\ -size[b] \in Int
      BY <1>2, HeapTypes
    <2> QED BY <1>1, <2>1, ChargedIs
  <1>8. Live + lost + (-size[b]) = Live' + lost /\ Live' <= Live
    BY <1>2, <1>4, <1>5, <1>6, HeapTypes
  <1>9. Live' <= Physical
    BY <1>5, <1>6, <1>8, HeapTypes DEF HeapInv
  <1> QED BY <1>1, <1>2, <1>3, <1>7, <1>8, <1>9 DEF HeapInv, Accounted

LEMMA SameHeap ==
  ASSUME HeapInv, UNCHANGED <<inUse, size, lost>>, maxMem' \in Nat
  PROVE  HeapInv'
  <1>1. Live' = Live
    BY DEF Live
  <1> QED BY <1>1 DEF HeapInv, Accounted

LEMMA HeapStep ==
  ASSUME HeapInv, [Next]_vars
  PROVE  HeapInv'
  <1>1. \A b \in Blocks, n \in Sizes : Allocate(b, n) => HeapInv'
    BY AllocateOK
  <1>2. \A n \in Sizes : Fail(n) => HeapInv'
    BY FailOK
  <1>3. \A b \in Blocks : Deallocate(b) => HeapInv'
    BY DeallocateOK
  <1>4. ASSUME NEW n \in Limits, SetMaxMem(n)
        PROVE  HeapInv'
    BY <1>4, SameHeap, HeapTypes DEF SetMaxMem
  <1>5. UNCHANGED vars => HeapInv'
    BY SameHeap DEF vars, HeapInv
  <1> QED BY <1>1, <1>2, <1>3, <1>4, <1>5 DEF Next

\* Under a limit, what is in use is below it after a request that succeeds, as
\* long as the requests that failed do not add up to a word.
WithinLimit ==
  \A b \in Blocks :
    b \in DOMAIN size' \ DOMAIN size /\ maxMem # 0 => SumSizes(size') <= maxMem

LEMMA HeapLimit ==
  ASSUME HeapInv, [Next]_vars, Physical + MaxLost < Word
  PROVE  WithinLimit
  <1>1. ASSUME NEW b \in Blocks, NEW n \in Sizes, Allocate(b, n), maxMem # 0
        PROVE  SumSizes(size') <= maxMem
    <2>1. /\ Live \in Nat /\ lost \in Nat /\ n \in Nat /\ maxMem \in Nat /\ lost <= MaxLost
          /\ Word \in Nat \ {0} /\ Physical \in Nat /\ MaxLost \in Nat
      BY HeapTypes DEF HeapInv
    <2>2. Live + n <= Physical /\ ~(Charged(n) > maxMem)
      BY <1>1 DEF Allocate, Refused
    <2> DEFINE c == Live + lost + n
    <2>3. c \in 0..(Word - 1) /\ c = Word * 0 + c
      BY <2>1, <2>2
    <2>4. Charged(n) = c % Word
      BY <2>1, ChargedIs DEF Charged
    <2>5. c % Word = c
      <3>1. c \in Int
        BY <2>1
      <3> HIDE DEF c
      <3> QED BY <2>1, <2>3, <3>1, RemainderIs
    <2>6. Live + n <= c /\ c <= maxMem
      BY <2>1, <2>2, <2>3, <2>4, <2>5
    <2>7. SumSizes(size') = Live + n
      BY <1>1, AllocateOK
    <2> QED BY <2>1, <2>6, <2>7
  <1>2. ASSUME NEW n \in Sizes, Fail(n)
        PROVE  size' = size
    BY <1>2 DEF Fail
  <1>3. ASSUME NEW b \in Blocks, Deallocate(b)
        PROVE  DOMAIN size' \subseteq DOMAIN size
    BY <1>3, DeallocateOK
  <1>4. ASSUME (\E n \in Limits : SetMaxMem(n)) \/ UNCHANGED vars
        PROVE  size' = size
    BY <1>4 DEF SetMaxMem, vars
  <1> QED BY <1>1, <1>2, <1>3, <1>4 DEF WithinLimit, Next

-----------------------------------------------------------------------------
(* The heap of a launch, and all of it together.                           *)

\* The limit given to the heap is one of the limits.
ConfigOK == config \in [initial : {config.initial}, max : Limits, noExit : BOOLEAN, cas : BOOLEAN]

\* The inductive invariant.
LaunchInv == FilesInv /\ PlacesOK /\ ArgsOK /\ NamesOK /\ ConfigOK /\ HeapInv

LEMMA LaunchHeap ==
  ASSUME HeapInv, ConfigOK, [LaunchNext]_allVars
  PROVE  /\ HeapInv' /\ ConfigOK'
         /\ [Next]_vars \/ UNCHANGED size
  <1>1. ASSUME UNCHANGED <<vars, config>>
        PROVE  HeapInv' /\ ConfigOK' /\ [Next]_vars
    BY <1>1, HeapStep DEF ConfigOK
  <1>2. CASE ParseOption
    <2>1. [Next]_vars /\ HeapInv'
      BY <1>2, HeapStep DEF ParseOption
    <2>2. config' = config \/ config' = Configured(argv[parsed + 1].flag)
      BY <1>2 DEF ParseOption
    <2>3. ConfigOK'
      BY <2>2 DEF ConfigOK, Configured
    <2> QED BY <2>1, <2>3
  <1>3. CASE MakeInterpreter
    <2>1. UNCHANGED <<inUse, size, lost, config>> /\ maxMem' = config.max
      BY <1>3 DEF MakeInterpreter
    <2>2. config.max \in Nat
      BY HeapTypes DEF ConfigOK
    <2> QED BY <2>1, <2>2, SameHeap DEF ConfigOK
  <1>4. ASSUME (\E l \in Libraries : LoadLibrary(l)) \/ StartDialogue \/ LoadProgram \/ LoadArgs
               \/ Return \/ Leave \/ LineEntered \/ UNCHANGED allVars
        PROVE  UNCHANGED <<vars, config>>
    BY <1>4 DEF LoadLibrary, StartDialogue, LoadProgram, LoadArgs, Return, Leave, LineEntered,
                allVars, launchVars
  <1>5. CASE RunProgram
    <2>1. [Next]_vars /\ UNCHANGED config
      BY <1>5 DEF RunProgram, launchVars
    <2> QED BY <2>1, HeapStep DEF ConfigOK
  <1> QED BY <1>1, <1>2, <1>3, <1>4, <1>5 DEF LaunchNext

LEMMA LaunchStarted ==
  ASSUME LaunchInit
  PROVE  LaunchInv
  <1>1. HeapInv
    BY HeapStarts DEF LaunchInit
  <1>2. ConfigOK
    BY LaunchAssumption DEF LaunchInit, ConfigOK
  <1>3. NamesOK
    BY DEF LaunchInit, NamesOK
  <1> QED BY <1>1, <1>2, <1>3, LaunchStarts DEF LaunchInv

LEMMA LaunchStep ==
  ASSUME LaunchInv, [LaunchNext]_allVars
  PROVE  LaunchInv'
  BY LaunchFiles, LaunchArgsStep, LaunchNames, LaunchHeap DEF LaunchInv

\* An open File is a stream on a node that exists, at the line after those that
\* were read; the script is where it was found; names are bound in one function
\* at a time; and the heap counts what lives and what failed.
THEOREM LaunchInductive == LaunchSpec => []LaunchInv
  <1> QED BY LaunchStarted, LaunchStep, PTL DEF LaunchSpec

\* A File that is open and was not written has read the beginning of its file,
\* each line once and in order, then empty lines, whatever happens to the names
\* of files meanwhile; is_eof after read_line tells whether any line is left.
THEOREM FilesReadInOrder == LaunchSpec => []ReadsInOrder
  <1>1. FilesInv => ReadsInOrder
    <2> SUFFICES ASSUME FilesInv, file.io, ~seen.wrote
                 PROVE  LET all == data[stream.node]  n == Len(seen.lines) IN
                        /\ \A i \in 1..n : seen.lines[i] = IF i <= Len(all) THEN all[i] ELSE ""
                        /\ seen.told => (file.eof <=> n >= Len(all))
      BY DEF ReadsInOrder
    <2> QED BY OpenNow DEF Follows, Reads, Blank
  <1>2. LaunchInv => ReadsInOrder
    BY <1>1 DEF LaunchInv
  <1> QED BY <1>2, LaunchInductive, PTL

\* A module path resolves to a file that is there: the path itself, else what
\* bears its name in the same directory, a script before a library; the home
\* directory is never preferred to them.
THEOREM AlwaysNearest == LaunchSpec => []FindsNearest
  <1>1. Cardinality(Dirs) \in Nat
    BY PathsAssumption, FS_CardinalityType
  <1>2. LaunchInv => FindsNearest
    BY <1>1, Nearest DEF LaunchInv
  <1> QED BY <1>2, LaunchInductive, PTL

\* However its path was written and wherever the program goes, the first
\* argument of a script and "#:" denote the file that was launched, and the
\* arguments after it are those of the command line.
THEOREM ScriptAlwaysKnown == LaunchSpec => []ScriptKnown
  <1>1. LaunchInv => ScriptKnown
    BY Known DEF LaunchInv
  <1> QED BY <1>1, LaunchInductive, PTL

\* What the heap counts is the sizes of the live blocks and of every request
\* that failed, modulo the word.
THEOREM HeapAlwaysAccounted == LaunchSpec => []Accounted
  <1>1. LaunchInv => Accounted
    BY DEF LaunchInv, HeapInv
  <1> QED BY <1>1, LaunchInductive, PTL

\* A request that succeeds under a limit leaves the live memory within it, as
\* long as all the requests that failed and what can be had at once fit a word.
THEOREM LimitAlwaysHeld ==
  ASSUME Physical + MaxLost < Word
  PROVE  LaunchSpec => LimitHeld
  <1>1. LaunchInv /\ [LaunchNext]_allVars => [WithinLimit]_vars
    <2> SUFFICES ASSUME LaunchInv, [LaunchNext]_allVars
                 PROVE  WithinLimit
      OBVIOUS
    <2>1. [Next]_vars \/ UNCHANGED size
      BY LaunchHeap DEF LaunchInv
    <2>2. UNCHANGED size => WithinLimit
      BY DEF WithinLimit
    <2> QED BY <2>1, <2>2, HeapLimit DEF LaunchInv
  <1>2. LaunchSpec => [][WithinLimit]_vars
    BY <1>1, LaunchInductive, PTL DEF LaunchSpec
  <1> QED BY <1>2 DEF LimitHeld, WithinLimit

\* No import, and no library of the interpreter, takes a name away that was
\* bound before.
THEOREM ImportsAlwaysKeep == LaunchSpec => ImportKeeps
  <1>1. LaunchInv /\ [LaunchNext]_allVars => [KeepsNames]_<<fileVars, moduleVars>>
    BY LaunchNames DEF LaunchInv
  <1>2. LaunchSpec => [][KeepsNames]_<<fileVars, moduleVars>>
    BY <1>1, LaunchInductive, PTL DEF LaunchSpec
  <1> QED BY <1>2 DEF ImportKeeps, KeepsNames
==============================================================================
