------------------------ MODULE InterpreterCalmProofs ------------------------
(***************************************************************************)
(* Proofs about programs that behave, for every other choice of            *)
(* expressions and every bound.  While nothing throws, tmp_call_stack owns *)
(* exactly the copies of the calls and loops in progress, the object stack *)
(* is exactly the accesses in progress, and a frame that stop() finished   *)
(* goes no further.  While exit tasks leave alone the pass that runs them, *)
(* whatever else happens, the core implements ExitTasks.                   *)
(***************************************************************************)
EXTENDS InterpreterFitProofs

\* No expression throws, neither the program's nor an exit task's.
NoThrow == (Kinds \cup TaskKinds) \cap Throwing = {}

\* How many copies are under the i-th native frame's.
Beneath(t, cs, i) == Len(t) - Made(cs, i)

\* tmp_call_stack owns the copies of the native stack, and no others.
CopiesFit(t, cs) ==
  /\ t \in Seq(Nat) /\ Beneath(t, cs, 1) = 0
  /\ \A i \in DOMAIN cs :
       /\ cs[i] \in Copying => t[Beneath(t, cs, i + 1)] = Upper(cs[i])
       /\ cs[i] \in Twice => t[Beneath(t, cs, i + 1) - 1] = Lower(cs[i])

\* Of tmp_call_stack, the native stack and the size of object_stack: no catch
\* body is executed and accesses are counted; unless stopped, copies fit.
Calm(t, cs, o, st, ph) ==
  /\ \A i \in DOMAIN cs : cs[i].k # "catch"
  /\ o = Count(cs, OfKind("use"), 1)
  /\ ph = "run" /\ ~st => CopiesFit(t, cs)

\* The inductive invariant besides FitInv.
CalmInv ==
  /\ Calm(tmp, cont, objs, stopped, phase)
  /\ handling = 0
  /\ phase \notin {"uncaught", "escaped", "terminated"}
  /\ phase \in {"ready", "done"} => cont = <<>> /\ (stopped \/ tmp = <<>>)

-----------------------------------------------------------------------------
(* Copies counted.                                                         *)

\* The copies one native frame made.
Copies(c) == (IF c \in Copying THEN 1 ELSE 0) + (IF c \in Twice THEN 1 ELSE 0)

LEMMA CopiesOK ==
  ASSUME NEW c \in ContRec
  PROVE  /\ Copies(c) \in 0..2
         /\ c \in Copying <=> Copies(c) >= 1
         /\ c \in Twice <=> Copies(c) = 2
         /\ c.k \in {"exec", "loop", "args", "iterable", "init"} \/ Copies(c) = 0
         /\ c.k \in {"args", "iterable"} => Copies(c) = 1
         /\ c.k = "init" => Copies(c) = 2
         /\ c.k = "exec" => Copies(c) = IF c.u = Main THEN 0 ELSE 1
         /\ c.k = "loop" => Copies(c) = IF c.n = 0 THEN 1 ELSE 2
  BY DEF Copies, Copying, Twice

LEMMA MadeOK ==
  ASSUME NEW s \in Seq(ContRec), NEW i \in Nat
  PROVE  /\ Made(s, i) \in Nat
         /\ i > Len(s) => Made(s, i) = 0
         /\ i >= 1 => Made(s, i) <= Made(s, 1)
         /\ i \in 1..Len(s) => Made(s, i) = Made(s, i + 1) + Copies(s[i])
  <1>1. ASSUME NEW K
        PROVE  /\ Count(s, K, i) \in Nat /\ Count(s, K, 1) \in Nat /\ Count(s, K, i + 1) \in Nat
               /\ i > Len(s) => Count(s, K, i) = 0
               /\ i >= 1 => Count(s, K, i) <= Count(s, K, 1)
               /\ i \in 1..Len(s) =>
                    Count(s, K, i) = Count(s, K, i + 1) + (IF s[i] \in K THEN 1 ELSE 0)
    <2>1. i + 1 \in Nat /\ 1 \in Nat
      OBVIOUS
    <2>2. Count(s, K, i) \in Nat /\ Count(s, K, 1) \in Nat /\ Count(s, K, i + 1) \in Nat
      BY <2>1, CountIsNat
    <2>3. i > Len(s) => Count(s, K, i) = 0
      BY CountIsNat
    <2>4. i >= 1 => Count(s, K, i) <= Count(s, K, 1)
      BY <2>1, CountShrinks
    <2>5. i \in 1..Len(s) =>
            Count(s, K, i) = Count(s, K, i + 1) + (IF s[i] \in K THEN 1 ELSE 0)
      BY CountDown
    <2> QED BY <2>2, <2>3, <2>4, <2>5
  <1> DEFINE A(j) == Count(s, Copying, j)
             B(j) == Count(s, Twice, j)
  <1>2. /\ A(i) \in Nat /\ A(1) \in Nat /\ A(i + 1) \in Nat
        /\ i > Len(s) => A(i) = 0
        /\ i >= 1 => A(i) <= A(1)
        /\ i \in 1..Len(s) => A(i) = A(i + 1) + (IF s[i] \in Copying THEN 1 ELSE 0)
    BY <1>1
  <1>3. /\ B(i) \in Nat /\ B(1) \in Nat /\ B(i + 1) \in Nat
        /\ i > Len(s) => B(i) = 0
        /\ i >= 1 => B(i) <= B(1)
        /\ i \in 1..Len(s) => B(i) = B(i + 1) + (IF s[i] \in Twice THEN 1 ELSE 0)
    BY <1>1
  <1>4. \A j : Made(s, j) = A(j) + B(j)
    BY DEF Made
  <1> HIDE DEF A, B
  <1>5. i \in 1..Len(s) => Made(s, i) = Made(s, i + 1) + Copies(s[i])
    <2> SUFFICES ASSUME i \in 1..Len(s)
                 PROVE  Made(s, i) = Made(s, i + 1) + Copies(s[i])
      OBVIOUS
    <2>1. A(i + 1) \in Nat /\ A(i) = A(i + 1) + (IF s[i] \in Copying THEN 1 ELSE 0)
      BY <1>2
    <2>2. B(i + 1) \in Nat /\ B(i) = B(i + 1) + (IF s[i] \in Twice THEN 1 ELSE 0)
      BY <1>3
    <2>3. Made(s, i) = A(i) + B(i) /\ Made(s, i + 1) = A(i + 1) + B(i + 1)
      BY <1>4
    <2> QED BY <2>1, <2>2, <2>3 DEF Copies
  <1> QED BY <1>2, <1>3, <1>4, <1>5

LEMMA MadeAppend ==
  ASSUME NEW s \in Seq(ContRec), NEW c \in ContRec, NEW i \in 1..(Len(s) + 1)
  PROVE  Made(Append(s, c), i) = Made(s, i) + Copies(c)
  <1>1. i \in Nat \ {0} /\ i <= Len(s) + 1
    BY LenProperties
  <1>2. ASSUME NEW K
        PROVE  /\ Count(Append(s, c), K, i) = Count(s, K, i) + (IF c \in K THEN 1 ELSE 0)
               /\ Count(s, K, i) \in Nat
    <2>1. Count(s, K, i) \in Nat
      BY <1>1, CountIsNat
    <2> QED BY <1>1, <2>1, CountAppend
  <1>3. /\ Count(s, Copying, i) \in Nat
        /\ Count(Append(s, c), Copying, i) = Count(s, Copying, i) + (IF c \in Copying THEN 1 ELSE 0)
    BY <1>2
  <1>4. /\ Count(s, Twice, i) \in Nat
        /\ Count(Append(s, c), Twice, i) = Count(s, Twice, i) + (IF c \in Twice THEN 1 ELSE 0)
    BY <1>2
  <1> QED BY <1>3, <1>4 DEF Made, Copies

\* Where the copies of native frames are.
LEMMA BeneathRange ==
  ASSUME NEW t, NEW cs \in Seq(ContRec), CopiesFit(t, cs)
  PROVE  /\ t \in Seq(Nat) /\ Len(t) \in Nat /\ Len(cs) \in Nat /\ DOMAIN cs = 1..Len(cs)
         /\ \A i \in 1..(Len(cs) + 1) : Beneath(t, cs, i) \in 0..Len(t)
         /\ Beneath(t, cs, Len(cs) + 1) = Len(t)
         /\ \A i \in 1..Len(cs) :
              /\ Beneath(t, cs, i + 1) = Beneath(t, cs, i) + Copies(cs[i])
              /\ cs[i] \in ContRec /\ Copies(cs[i]) \in 0..2
  <1>1. t \in Seq(Nat) /\ Len(t) \in Nat /\ Len(cs) \in Nat /\ DOMAIN cs = 1..Len(cs)
    BY LenProperties DEF CopiesFit
  <1>2. ASSUME NEW i \in 1..(Len(cs) + 1)
        PROVE  Beneath(t, cs, i) \in 0..Len(t)
    <2>1. Made(cs, i) \in Nat /\ Made(cs, 1) \in Nat /\ Made(cs, i) <= Made(cs, 1)
      BY <1>1, MadeOK
    <2> QED BY <1>1, <2>1 DEF Beneath, CopiesFit
  <1>3. Made(cs, Len(cs) + 1) = 0
    BY <1>1, MadeOK
  <1>4. ASSUME NEW i \in 1..Len(cs)
        PROVE  /\ Beneath(t, cs, i + 1) = Beneath(t, cs, i) + Copies(cs[i])
               /\ cs[i] \in ContRec /\ Copies(cs[i]) \in 0..2
    <2>1. cs[i] \in ContRec /\ Copies(cs[i]) \in 0..2
      BY ElementOfSeq, CopiesOK
    <2>2. Made(cs, i) = Made(cs, i + 1) + Copies(cs[i])
      <3>1. i \in Nat
        BY <1>1
      <3> QED BY <3>1, MadeOK
    <2>3. Made(cs, i + 1) \in Nat
      BY <1>1, MadeOK
    <2> QED BY <1>1, <2>1, <2>2, <2>3 DEF Beneath
  <1> QED BY <1>1, <1>2, <1>3, <1>4 DEF Beneath

\* r is t with the copies of a native frame on top.
Copied(t, r, c) ==
  /\ r \in Seq(Nat) /\ c \in ContRec
  /\ Len(r) = Len(t) + Copies(c)
  /\ \A p \in 1..Len(t) : r[p] = t[p]
  /\ c \in Copying => r[Len(r)] = Upper(c)
  /\ c \in Twice => r[Len(r) - 1] = Lower(c)
\* r is t cut back to a length.
Freed(t, r, d) ==
  /\ r \in Seq(Nat) /\ d \in 0..Len(t) /\ Len(r) = d
  /\ \A p \in 1..d : r[p] = t[p]

LEMMA CopiesPush ==
  ASSUME NEW t, NEW r, NEW c, NEW cs \in Seq(ContRec), CopiesFit(t, cs), Copied(t, r, c)
  PROVE  CopiesFit(r, Append(cs, c))
  <1> DEFINE s == Append(cs, c)
  <1>1. /\ c \in ContRec /\ r \in Seq(Nat) /\ Len(r) \in Nat /\ Copies(c) \in 0..2
        /\ Len(r) = Len(t) + Copies(c) /\ \A p \in 1..Len(t) : r[p] = t[p]
        /\ c \in Copying => r[Len(r)] = Upper(c)
        /\ c \in Twice => r[Len(r) - 1] = Lower(c)
    BY CopiesOK, LenProperties DEF Copied
  <1>2. /\ Len(t) \in Nat /\ Len(cs) \in Nat /\ DOMAIN cs = 1..Len(cs)
        /\ \A i \in 1..(Len(cs) + 1) : Beneath(t, cs, i) \in 0..Len(t)
        /\ \A i \in 1..Len(cs) : /\ Beneath(t, cs, i + 1) = Beneath(t, cs, i) + Copies(cs[i])
                                 /\ cs[i] \in ContRec /\ Copies(cs[i]) \in 0..2
    BY BeneathRange
  <1>3. /\ s \in Seq(ContRec) /\ DOMAIN s = 1..(Len(cs) + 1) /\ Len(s) = Len(cs) + 1
        /\ s[Len(cs) + 1] = c /\ \A i \in 1..Len(cs) : s[i] = cs[i]
    BY <1>1, ContAppend
  <1>4. ASSUME NEW i \in 1..(Len(cs) + 1)
        PROVE  Beneath(r, s, i) = Beneath(t, cs, i)
    <2>1. Made(s, i) = Made(cs, i) + Copies(c)
      BY <1>1, MadeAppend
    <2>2. Made(cs, i) \in Nat
      BY <1>2, MadeOK
    <2> QED BY <1>1, <1>2, <2>1, <2>2 DEF Beneath
  <1> HIDE DEF s
  <1>5. Beneath(r, s, Len(cs) + 2) = Len(r)
    <2>1. Made(s, Len(cs) + 2) = 0
      BY <1>2, <1>3, MadeOK
    <2> QED BY <1>1, <2>1 DEF Beneath
  <1>6. Beneath(r, s, 1) = 0
    BY <1>2, <1>4 DEF CopiesFit
  <1>7. ASSUME NEW i \in 1..Len(cs)
        PROVE  /\ s[i] \in Copying => r[Beneath(r, s, i + 1)] = Upper(s[i])
               /\ s[i] \in Twice => r[Beneath(r, s, i + 1) - 1] = Lower(s[i])
    <2>1. /\ s[i] = cs[i] /\ i \in DOMAIN cs /\ Beneath(r, s, i + 1) = Beneath(t, cs, i + 1)
          /\ Beneath(t, cs, i) \in 0..Len(t) /\ Beneath(t, cs, i + 1) \in 0..Len(t)
          /\ Beneath(t, cs, i + 1) = Beneath(t, cs, i) + Copies(cs[i]) /\ cs[i] \in ContRec
      BY <1>2, <1>3, <1>4
    <2>2. ASSUME s[i] \in Copying
          PROVE  r[Beneath(r, s, i + 1)] = Upper(s[i])
      <3>1. Copies(cs[i]) >= 1 /\ Copies(cs[i]) \in 0..2
        BY <2>1, <2>2, CopiesOK
      <3>2. Beneath(t, cs, i + 1) \in 1..Len(t)
        BY <1>2, <2>1, <3>1
      <3> QED BY <1>1, <2>1, <2>2, <3>2 DEF CopiesFit
    <2>3. ASSUME s[i] \in Twice
          PROVE  r[Beneath(r, s, i + 1) - 1] = Lower(s[i])
      <3>1. Copies(cs[i]) = 2
        BY <2>1, <2>3, CopiesOK
      <3>2. Beneath(t, cs, i + 1) - 1 \in 1..Len(t)
        BY <1>2, <2>1, <3>1
      <3> QED BY <1>1, <2>1, <2>3, <3>2 DEF CopiesFit
    <2> QED BY <2>2, <2>3
  <1>8. ASSUME NEW i \in DOMAIN s
        PROVE  /\ s[i] \in Copying => r[Beneath(r, s, i + 1)] = Upper(s[i])
               /\ s[i] \in Twice => r[Beneath(r, s, i + 1) - 1] = Lower(s[i])
    <2>1. CASE i \in 1..Len(cs)
      BY <1>7, <2>1
    <2>2. CASE i = Len(cs) + 1
      <3>1. i + 1 = Len(cs) + 2 /\ s[i] = c
        BY <1>2, <1>3, <2>2
      <3> QED BY <1>1, <1>5, <3>1
    <2> QED BY <1>2, <1>3, <2>1, <2>2
  <1> QED BY <1>1, <1>6, <1>8 DEF CopiesFit, s

LEMMA CopiesPop ==
  ASSUME NEW t, NEW r, NEW cs \in Seq(ContRec), cs # <<>>, CopiesFit(t, cs),
         Freed(t, r, Len(t) - Copies(Last(cs)))
  PROVE  CopiesFit(r, Front(cs))
  <1> DEFINE s == Front(cs)
             c == Last(cs)
  <1>1. /\ s \in Seq(ContRec) /\ c \in ContRec /\ Len(cs) \in Nat \ {0} /\ DOMAIN cs = 1..Len(cs)
        /\ Len(s) = Len(cs) - 1 /\ \A i \in 1..(Len(cs) - 1) : s[i] = cs[i]
        /\ cs = Append(s, c)
    BY ContFront
  <1>2. DOMAIN s = 1..(Len(cs) - 1)
    BY <1>1, LenProperties
  <1>3. /\ Len(t) \in Nat
        /\ \A i \in 1..(Len(cs) + 1) : Beneath(t, cs, i) \in 0..Len(t)
        /\ \A i \in 1..Len(cs) : /\ Beneath(t, cs, i + 1) = Beneath(t, cs, i) + Copies(cs[i])
                                 /\ cs[i] \in ContRec /\ Copies(cs[i]) \in 0..2
    BY BeneathRange
  <1>4. /\ r \in Seq(Nat) /\ Len(r) = Len(t) - Copies(c) /\ Copies(c) \in 0..2
        /\ Len(r) \in Nat /\ \A p \in 1..Len(r) : r[p] = t[p]
    BY <1>1, CopiesOK, LenProperties DEF Freed
  <1>5. ASSUME NEW i \in 1..Len(cs)
        PROVE  Beneath(r, s, i) = Beneath(t, cs, i) /\ Beneath(r, s, i) <= Len(r)
    <2>1. i \in 1..(Len(s) + 1) /\ i \in Nat
      BY <1>1
    <2>2. Made(cs, i) = Made(s, i) + Copies(c)
      BY <1>1, <2>1, MadeAppend
    <2>3. Made(s, i) \in Nat
      BY <1>1, <2>1, MadeOK
    <2> QED BY <1>3, <1>4, <2>2, <2>3 DEF Beneath
  <1> HIDE DEF s, c
  <1>6. Beneath(r, s, 1) = 0
    BY <1>1, <1>5 DEF CopiesFit
  <1>7. ASSUME NEW i \in DOMAIN s
        PROVE  /\ s[i] \in Copying => r[Beneath(r, s, i + 1)] = Upper(s[i])
               /\ s[i] \in Twice => r[Beneath(r, s, i + 1) - 1] = Lower(s[i])
    <2>1. /\ s[i] = cs[i] /\ i \in DOMAIN cs /\ Beneath(r, s, i + 1) = Beneath(t, cs, i + 1)
          /\ Beneath(t, cs, i) \in 0..Len(t) /\ Beneath(t, cs, i + 1) \in 0..Len(r)
          /\ Beneath(t, cs, i + 1) = Beneath(t, cs, i) + Copies(cs[i]) /\ cs[i] \in ContRec
      BY <1>1, <1>2, <1>3, <1>4, <1>5
    <2>2. ASSUME s[i] \in Copying
          PROVE  r[Beneath(r, s, i + 1)] = Upper(s[i])
      <3>1. Copies(cs[i]) >= 1 /\ Copies(cs[i]) \in 0..2
        BY <2>1, <2>2, CopiesOK
      <3>2. Beneath(t, cs, i + 1) \in 1..Len(r)
        BY <1>3, <1>4, <2>1, <3>1
      <3> QED BY <1>4, <2>1, <2>2, <3>2 DEF CopiesFit
    <2>3. ASSUME s[i] \in Twice
          PROVE  r[Beneath(r, s, i + 1) - 1] = Lower(s[i])
      <3>1. Copies(cs[i]) = 2
        BY <2>1, <2>3, CopiesOK
      <3>2. Beneath(t, cs, i + 1) - 1 \in 1..Len(r)
        BY <1>3, <1>4, <2>1, <3>1
      <3> QED BY <1>4, <2>1, <2>3, <3>2 DEF CopiesFit
    <2> QED BY <2>2, <2>3
  <1> QED BY <1>4, <1>6, <1>7 DEF CopiesFit, s

\* The copies of the native frame on top are the top ones.
LEMMA CopiesTop ==
  ASSUME NEW t, NEW cs \in Seq(ContRec), cs # <<>>, CopiesFit(t, cs)
  PROVE  /\ t \in Seq(Nat) /\ Len(t) \in Nat /\ Copies(Last(cs)) \in 0..2
         /\ Copies(Last(cs)) <= Len(t) /\ Last(cs) \in ContRec
         /\ Last(cs) \in Copying => t[Len(t)] = Upper(Last(cs))
         /\ Last(cs) \in Twice => t[Len(t) - 1] = Lower(Last(cs))
  <1> DEFINE c == Last(cs)
             n == Len(cs)
  <1>1. c = cs[n] /\ c \in ContRec /\ n \in Nat \ {0} /\ DOMAIN cs = 1..n
    BY ContFront
  <1>2. n \in 1..n /\ n \in 1..(n + 1)
    BY <1>1
  <1>3. /\ t \in Seq(Nat) /\ Len(t) \in Nat /\ Copies(c) \in 0..2
        /\ Beneath(t, cs, n) \in 0..Len(t) /\ Beneath(t, cs, n + 1) = Len(t)
        /\ Beneath(t, cs, n + 1) = Beneath(t, cs, n) + Copies(c)
    BY <1>1, <1>2, BeneathRange
  <1>4. /\ c \in Copying => t[Len(t)] = Upper(c)
        /\ c \in Twice => t[Len(t) - 1] = Lower(c)
    BY <1>1, <1>2, <1>3 DEF CopiesFit
  <1> HIDE DEF c, n
  <1>5. Copies(c) <= Len(t)
    BY <1>3
  <1> QED BY <1>1, <1>3, <1>4, <1>5 DEF c

\* A native frame takes over the copies of the one on top.
LEMMA CopiesSwap ==
  ASSUME NEW t, NEW cs \in Seq(ContRec), cs # <<>>, CopiesFit(t, cs),
         NEW c \in ContRec, Copies(c) = Copies(Last(cs)), Upper(c) = Upper(Last(cs)),
         Lower(c) = Lower(Last(cs)) \/ Copies(c) # 2
  PROVE  CopiesFit(t, Append(Front(cs), c))
  <1> DEFINE d == Len(t) - Copies(Last(cs))
             r == SubSeq(t, 1, d)
             a == Last(cs)
  <1>1. /\ t \in Seq(Nat) /\ Len(t) \in Nat /\ Copies(a) \in 0..2
        /\ Copies(a) <= Len(t) /\ a \in ContRec
        /\ a \in Copying => t[Len(t)] = Upper(a)
        /\ a \in Twice => t[Len(t) - 1] = Lower(a)
    BY CopiesTop
  <1>2. /\ r \in Seq(Nat) /\ d \in 0..Len(t) /\ Len(r) = d /\ \A p \in 1..d : r[p] = t[p]
    <2>1. d \in 0..Len(t)
      BY <1>1
    <2> HIDE DEF d
    <2>2. \A p \in 1..d : p \in 1..Len(t) /\ t[p] \in Nat
      BY <1>1, <2>1, ElementOfSeq
    <2> QED BY <1>1, <2>1, <2>2, SubSeqProperties
  <1>3. d + Copies(a) = Len(t)
    BY <1>1
  <1> HIDE DEF r
  <1>4. CopiesFit(r, Front(cs))
    <2>1. Freed(t, r, d)
      BY <1>2 DEF Freed
    <2> QED BY <2>1, CopiesPop
  <1>5. Copied(r, t, c)
    <2>1. (c \in Copying <=> a \in Copying) /\ (c \in Twice <=> a \in Twice)
          /\ (c \in Twice <=> Copies(c) = 2)
      BY <1>1, CopiesOK
    <2>2. /\ c \in Copying => t[Len(t)] = Upper(c)
          /\ c \in Twice => t[Len(t) - 1] = Lower(c)
      BY <1>1, <2>1
    <2>3. Len(t) = Len(r) + Copies(c) /\ \A p \in 1..Len(r) : t[p] = r[p]
      BY <1>2, <1>3
    <2> HIDE DEF a, d
    <2> QED BY <1>1, <2>2, <2>3 DEF Copied
  <1>6. Front(cs) \in Seq(ContRec)
    BY ContFront
  <1> QED BY <1>4, <1>5, <1>6, CopiesPush

LEMMA CopiesNone ==
  ASSUME NEW t
  PROVE  CopiesFit(t, <<>>) <=> t = <<>>
  <1> DEFINE s == <<>>
  <1>1. s \in Seq(ContRec) /\ Len(s) = 0 /\ DOMAIN s = {}
    OBVIOUS
  <1>2. s \in Seq(Nat)
    OBVIOUS
  <1>s. s = <<>>
    OBVIOUS
  <1> HIDE DEF s
  <1>3. Made(s, 1) = 0
    <2>1. 1 \in Nat /\ 1 > Len(s)
      BY <1>1
    <2> QED BY <1>1, <2>1, MadeOK
  <1>4. ASSUME t = s
        PROVE  CopiesFit(t, s)
    BY <1>1, <1>2, <1>3, <1>4 DEF CopiesFit, Beneath
  <1>5. ASSUME CopiesFit(t, s)
        PROVE  t = s
    <2>1. t \in Seq(Nat) /\ Len(t) \in Nat /\ Len(t) - 0 = 0
      BY <1>3, <1>5, LenProperties DEF CopiesFit, Beneath
    <2>2. Len(t) = 0
      BY <2>1
    <2> QED BY <1>s, <2>1, <2>2, EmptySeq
  <1> QED BY <1>s, <1>4, <1>5

-----------------------------------------------------------------------------
(* Frames pushed and popped.                                               *)

\* What a native frame adds to object_stack.
Uses(c) == IF c.k = "use" THEN 1 ELSE 0

LEMMA UsesPush ==
  ASSUME NEW s \in Seq(ContRec), NEW c \in ContRec
  PROVE  Count(Append(s, c), OfKind("use"), 1) = Count(s, OfKind("use"), 1) + Uses(c)
  <1>1. Len(s) \in Nat /\ 1 <= Len(s) + 1
    BY LenProperties
  <1>2. c \in OfKind("use") <=> c.k = "use"
    BY DEF OfKind
  <1>3. Count(Append(s, c), OfKind("use"), 1)
          = Count(s, OfKind("use"), 1) + (IF c \in OfKind("use") THEN 1 ELSE 0)
    BY <1>1, CountAppend
  <1> QED BY <1>2, <1>3 DEF Uses

LEMMA UsesPop ==
  ASSUME NEW s \in Seq(ContRec), s # <<>>
  PROVE  Count(Front(s), OfKind("use"), 1) = Count(s, OfKind("use"), 1) - Uses(Last(s))
  <1> DEFINE f == Front(s)
             c == Last(s)
  <1>1. f \in Seq(ContRec) /\ c \in ContRec /\ s = Append(f, c)
    BY ContFront
  <1> HIDE DEF f, c
  <1>2. Count(f, OfKind("use"), 1) \in Nat
    BY <1>1, CountIsNat
  <1>3. Count(s, OfKind("use"), 1) = Count(f, OfKind("use"), 1) + Uses(c)
    BY <1>1, UsesPush
  <1>4. Uses(c) \in Nat
    BY DEF Uses
  <1>5. Count(f, OfKind("use"), 1) = Count(s, OfKind("use"), 1) - Uses(c)
    BY <1>2, <1>3, <1>4
  <1> QED BY <1>5 DEF f, c

LEMMA UsesNone == Count(<<>>, OfKind("use"), 1) = 0
  <1> DEFINE s == <<>>
  <1>1. s \in Seq(ContRec) /\ Len(s) = 0 /\ 1 > Len(s)
    OBVIOUS
  <1> HIDE DEF s
  <1>2. Count(s, OfKind("use"), 1) = 0
    BY <1>1, CountIsNat
  <1> QED BY <1>2 DEF s

LEMMA CalmPush ==
  ASSUME NEW t, NEW r, NEW cs \in Seq(ContRec), NEW c \in ContRec, NEW o, NEW st, NEW ph,
         Calm(t, cs, o, st, ph), Copied(t, r, c), c.k # "catch"
  PROVE  Calm(r, Append(cs, c), o + Uses(c), st, ph)
  <1> DEFINE s == Append(cs, c)
  <1>1. /\ DOMAIN s = 1..(Len(cs) + 1) /\ DOMAIN cs = 1..Len(cs) /\ Len(cs) \in Nat
        /\ \A i \in 1..Len(cs) : s[i] = cs[i]
        /\ s[Len(cs) + 1] = c
    BY ContAppend
  <1>2. Count(s, OfKind("use"), 1) = o + Uses(c)
    BY UsesPush DEF Calm
  <1>3. ph = "run" /\ ~st => CopiesFit(r, s)
    BY CopiesPush DEF Calm
  <1> HIDE DEF s
  <1>4. \A i \in DOMAIN s : s[i].k # "catch"
    BY <1>1 DEF Calm
  <1>5. Calm(r, s, o + Uses(c), st, ph)
    BY <1>2, <1>3, <1>4 DEF Calm
  <1> QED BY <1>5 DEF s

LEMMA CalmPop ==
  ASSUME NEW t, NEW r, NEW cs \in Seq(ContRec), cs # <<>>, NEW o, NEW st, NEW ph,
         Calm(t, cs, o, st, ph),
         ph # "run" \/ st \/ Freed(t, r, Len(t) - Copies(Last(cs)))
  PROVE  Calm(r, Front(cs), o - Uses(Last(cs)), st, ph)
  <1> DEFINE s == Front(cs)
  <1>1. /\ s \in Seq(ContRec) /\ Len(cs) \in Nat \ {0} /\ DOMAIN cs = 1..Len(cs)
        /\ Len(s) = Len(cs) - 1 /\ \A i \in 1..(Len(cs) - 1) : s[i] = cs[i]
    BY ContFront
  <1>2. DOMAIN s = 1..(Len(cs) - 1)
    BY <1>1, LenProperties
  <1>3. Count(s, OfKind("use"), 1) = o - Uses(Last(cs))
    BY UsesPop DEF Calm
  <1>4. ph = "run" /\ ~st => CopiesFit(r, s)
    BY CopiesPop DEF Calm
  <1> HIDE DEF s
  <1>5. \A i \in DOMAIN s : s[i].k # "catch"
    BY <1>1, <1>2 DEF Calm
  <1>6. Calm(r, s, o - Uses(Last(cs)), st, ph)
    BY <1>3, <1>4, <1>5 DEF Calm
  <1> QED BY <1>6 DEF s

\* A native frame takes over the copies of the one on top.
LEMMA CalmSwap ==
  ASSUME NEW t, NEW cs \in Seq(ContRec), cs # <<>>, NEW o, NEW st, NEW ph,
         Calm(t, cs, o, st, ph),
         NEW c \in ContRec, c.k \notin {"catch", "use"}, Last(cs).k # "use",
         Copies(c) = Copies(Last(cs)), Upper(c) = Upper(Last(cs)),
         Lower(c) = Lower(Last(cs)) \/ Copies(c) # 2
  PROVE  Calm(t, Append(Front(cs), c), o, st, ph)
  <1> DEFINE f == Front(cs)
             s == Append(f, c)
  <1>1. /\ f \in Seq(ContRec) /\ Len(cs) \in Nat \ {0} /\ DOMAIN cs = 1..Len(cs)
        /\ Len(f) = Len(cs) - 1 /\ \A i \in 1..(Len(cs) - 1) : f[i] = cs[i]
    BY ContFront
  <1> HIDE DEF f
  <1>2. /\ DOMAIN s = 1..Len(cs) /\ s[Len(cs)] = c
        /\ \A i \in 1..(Len(cs) - 1) : s[i] = cs[i]
    <2>1. /\ DOMAIN s = 1..(Len(f) + 1) /\ s[Len(f) + 1] = c
          /\ \A i \in 1..Len(f) : s[i] = f[i]
      BY <1>1, ContAppend
    <2> HIDE DEF s
    <2>2. Len(f) + 1 = Len(cs)
      BY <1>1
    <2> QED BY <1>1, <2>1, <2>2
  <1>3. Count(s, OfKind("use"), 1) = o
    <2>1. /\ Count(f, OfKind("use"), 1) = o - Uses(Last(cs)) /\ Uses(Last(cs)) = 0
          /\ o = Count(cs, OfKind("use"), 1) /\ Count(cs, OfKind("use"), 1) \in Nat
      BY UsesPop, CountIsNat DEF Calm, f, Uses
    <2>2. Count(s, OfKind("use"), 1) = Count(f, OfKind("use"), 1) + Uses(c) /\ Uses(c) = 0
      BY <1>1, UsesPush DEF Uses
    <2> QED BY <2>1, <2>2
  <1>4. ph = "run" /\ ~st => CopiesFit(t, s)
    BY CopiesSwap DEF Calm, f
  <1> HIDE DEF s
  <1>5. \A i \in DOMAIN s : s[i].k # "catch"
    <2> SUFFICES ASSUME NEW i \in DOMAIN s PROVE s[i].k # "catch"
      OBVIOUS
    <2>1. CASE i \in 1..(Len(cs) - 1)
      BY <1>1, <1>2, <2>1 DEF Calm
    <2>2. CASE i = Len(cs)
      BY <1>2, <2>2
    <2> QED BY <1>1, <1>2, <2>1, <2>2
  <1>6. Calm(t, s, o, st, ph)
    BY <1>3, <1>4, <1>5 DEF Calm
  <1> QED BY <1>6 DEF s, f

\* Stopped, or in another phase: less is asked.
LEMMA CalmLess ==
  ASSUME NEW t, NEW cs, NEW o, NEW st, NEW ph, Calm(t, cs, o, st, ph)
  PROVE  /\ \A r, b : b => Calm(r, cs, o, b, ph)
         /\ \A r, pi : pi # "run" => Calm(r, cs, o, st, pi)
  BY DEF Calm

LEMMA CalmNone ==
  ASSUME NEW t, NEW st, NEW ph, ph = "run" /\ ~st => t = <<>>
  PROVE  Calm(t, <<>>, 0, st, ph)
  BY CopiesNone, UsesNone DEF Calm

\* A frame without copies is pushed.
LEMMA CalmWait ==
  ASSUME NEW t \in Seq(Nat), NEW cs \in Seq(ContRec), NEW o, NEW st, NEW ph,
         Calm(t, cs, o, st, ph),
         NEW k \in ContKinds, k \in {"iter", "try", "each", "use", "pass"},
         NEW u \in Nat, NEW n \in Nat
  PROVE  /\ Append(cs, Cont(k, u, n)) \in Seq(ContRec)
         /\ k # "use" => Calm(t, Append(cs, Cont(k, u, n)), o, st, ph)
         /\ k = "use" => Calm(t, Append(cs, Cont(k, u, n)), o + 1, st, ph)
  <1> DEFINE c == Cont(k, u, n)
  <1>1. c \in ContRec /\ c.k = k
    BY FramesAreRecords
  <1> HIDE DEF c
  <1>2. Copies(c) = 0 /\ c \notin Copying /\ c \notin Twice
    BY <1>1, CopiesOK
  <1>3. Copied(t, t, c)
    <2>1. Len(t) \in Nat
      BY LenProperties
    <2> QED BY <1>1, <1>2, <2>1 DEF Copied
  <1>4. Calm(t, Append(cs, c), o + Uses(c), st, ph)
    BY <1>1, <1>3, CalmPush
  <1>5. o + 0 = o
    <2>1. o = Count(cs, OfKind("use"), 1) /\ Count(cs, OfKind("use"), 1) \in Nat
      BY CountIsNat DEF Calm
    <2> QED BY <2>1
  <1>6. Append(cs, c) \in Seq(ContRec)
    BY <1>1, AppendOK
  <1> QED BY <1>1, <1>4, <1>5, <1>6 DEF c, Uses

\* A frame that owns a copy just made is pushed.
LEMMA CalmOwns ==
  ASSUME NEW t \in Seq(Nat), NEW cs \in Seq(ContRec), NEW o, NEW st, NEW ph,
         Calm(t, cs, o, st, ph),
         NEW k \in {"exec", "args", "iterable"}, NEW u \in Nat, u # Main
  PROVE  /\ Calm(Append(t, u), Append(cs, Cont(k, u, 0)), o, st, ph)
  <1> DEFINE c == Cont(k, u, 0)
             r == Append(t, u)
  <1>1. c \in ContRec /\ c.k = k /\ c.u = u
    BY FramesAreRecords, KindsAreNamed
  <1> HIDE DEF c
  <1>2. Copies(c) = 1 /\ c \notin Twice /\ Upper(c) = u
    BY <1>1, CopiesOK DEF Upper
  <1>3. /\ r \in Seq(Nat) /\ Len(r) = Len(t) + 1 /\ Len(t) \in Nat
        /\ \A p \in 1..Len(t) : r[p] = t[p]
        /\ r[Len(t) + 1] = u
    BY AppendOK
  <1> HIDE DEF r
  <1>4. Copied(t, r, c)
    BY <1>1, <1>2, <1>3 DEF Copied
  <1>5. Calm(r, Append(cs, c), o + Uses(c), st, ph)
    BY <1>1, <1>4, CalmPush
  <1>6. o + Uses(c) = o
    <2>1. o = Count(cs, OfKind("use"), 1) /\ Count(cs, OfKind("use"), 1) \in Nat
      BY CountIsNat DEF Calm
    <2> QED BY <1>1, <2>1 DEF Uses
  <1> QED BY <1>5, <1>6 DEF c, r

-----------------------------------------------------------------------------
(* What the operations on the stacks do to tmp_call_stack.                 *)

\* Everything but exec_stack's frames and their copies.
Quiet(m, n) == n.exec = m.exec /\ n.tmp = m.tmp /\ n.handling = m.handling

LEMMA QuietOnes ==
  ASSUME NEW m, StacksOK(m), NEW u
  PROVE  /\ Quiet(m, m) /\ Quiet(m, SaveReturn(m, u))
         /\ Quiet(m, PropagateBreak(m, u)) /\ Quiet(m, Advance(m, u))
         /\ m.handling = 0 => Quiet(m, Execute(m, u, FALSE))
         /\ \A us : Quiet(m, StopUnits(m, us, TRUE)) /\ Quiet(m, StopUnits(m, us, FALSE))
  <1>1. m \in [exec : Seq(Nat), tmp : Seq(Nat), unit : Seq(UnitRec), handling : Nat]
    BY DEF StacksOK
  <1>2. Quiet(m, m)
    BY DEF Quiet
  <1>3. Quiet(m, SaveReturn(m, u))
    BY <1>1 DEF Quiet, SaveReturn
  <1>4. ASSUME NEW us, NEW b PROVE Quiet(m, StopUnits(m, us, b))
    BY <1>1 DEF Quiet, StopUnits
  <1>5. Quiet(m, PropagateBreak(m, u))
    BY <1>2, <1>4 DEF PropagateBreak
  <1>6. Quiet(m, Advance(m, u))
    BY <1>1 DEF Quiet, Advance
  <1>7. m.handling = 0 => Quiet(m, Execute(m, u, FALSE))
    BY <1>1 DEF Quiet, Execute
  <1> QED BY <1>2, <1>3, <1>4, <1>5, <1>6, <1>7

\* One operation after another.
LEMMA QuietBoth ==
  ASSUME NEW m, NEW n, NEW o, Quiet(m, n), Quiet(n, o)
  PROVE  Quiet(m, o)
  BY DEF Quiet

\* A copy is pushed, then entered.
LEMMA CopyPushed ==
  ASSUME NEW m, StacksOK(m), NEW kind
  PROVE  /\ TmpCallable(m, kind).tmp = Append(m.tmp, Last(TmpCallable(m, kind).tmp))
         /\ Last(TmpCallable(m, kind).tmp) \in Nat
         /\ TmpCallable(m, kind).exec = m.exec /\ TmpCallable(m, kind).handling = m.handling
  <1> DEFINE id == Len(m.unit) + 1
             n == TmpCallable(m, kind)
  <1>1. m \in [exec : Seq(Nat), tmp : Seq(Nat), unit : Seq(UnitRec), handling : Nat]
    BY DEF StacksOK
  <1>2. n.tmp = Append(m.tmp, id) /\ n.exec = m.exec /\ n.handling = m.handling
    BY <1>1 DEF TmpCallable
  <1>3. id \in Nat /\ m.tmp \in Seq(Nat)
    BY <1>1, LenProperties
  <1> HIDE DEF n, id
  <1>4. Last(n.tmp) = id
    BY <1>2, <1>3, AppendOK
  <1> QED BY <1>2, <1>3, <1>4 DEF n

\* A unit invoked is a copy on top of the others.
LEMMA CopyInvoked ==
  ASSUME NEW m, StacksOK(m), m.handling = 0, NEW kind \in UnitKinds
  PROVE  LET n == Invoke(m, kind) IN
         /\ n.tmp = Append(m.tmp, Last(n.tmp)) /\ n.handling = 0
         /\ Last(n.tmp) \in Nat /\ Last(n.tmp) # Main
  <1> DEFINE p == TmpCallable(m, kind)
             u == Last(p.tmp)
             n == Execute(p, u, TRUE)
  <1>1. /\ StacksOK(p) /\ u \in DOMAIN p.unit /\ u # Main
        /\ p.tmp = Append(m.tmp, u) /\ u \in Nat /\ p.handling = 0
    BY CopyIsNew, CopyPushed
  <1>2. Invoke(m, kind) = n
    BY DEF Invoke
  <1>u. u = Last(p.tmp)
    OBVIOUS
  <1> HIDE DEF p, u
  <1>3. n.tmp = p.tmp
    BY <1>1, ExecuteOK
  <1>4. n.handling = 0
    BY <1>1, ExecuteFromOK
  <1> HIDE DEF n
  <1> QED BY <1>1, <1>2, <1>3, <1>4, <1>u

\* leave_scope frees the top copy if it is the current unit.
LEMMA CopyLeft ==
  ASSUME NEW m, StacksOK(m)
  PROVE  /\ LeaveScope(m).handling = m.handling
         /\ Len(m.exec) > 1 =>
              LeaveScope(m).tmp = IF m.tmp # <<>> /\ Last(m.tmp) = Last(m.exec)
                                  THEN Front(m.tmp) ELSE m.tmp
         /\ ~(Len(m.exec) > 1) => LeaveScope(m) = m
  <1>1. CASE Len(m.exec) > 1
    <2> DEFINE c == [m EXCEPT !.unit[Current(m)].ret = FALSE]
               p == PopTmpCallable(c)
    <2>1. /\ c.exec = m.exec /\ c.tmp = m.tmp /\ c.handling = m.handling
          /\ DOMAIN c = {"exec", "tmp", "unit", "handling"}
      BY DEF StacksOK
    <2>2. LeaveScope(m) = [p EXCEPT !.exec = Front(@)]
      BY <1>1 DEF LeaveScope
    <2> HIDE DEF c
    <2>3. /\ p.exec = m.exec /\ DOMAIN p = {"exec", "tmp", "unit", "handling"}
          /\ p.handling = m.handling
          /\ p.tmp = IF m.tmp # <<>> /\ Last(m.tmp) = Last(m.exec) THEN Front(m.tmp) ELSE m.tmp
      BY <2>1 DEF PopTmpCallable, Current
    <2> HIDE DEF p
    <2>4. /\ LeaveScope(m).handling = m.handling /\ LeaveScope(m).tmp = p.tmp
      BY <2>2, <2>3
    <2> QED BY <1>1, <2>3, <2>4
  <1>2. CASE ~(Len(m.exec) > 1)
    BY <1>2 DEF LeaveScope
  <1> QED BY <1>1, <1>2

LEMMA FreedOne ==
  ASSUME NEW t \in Seq(Nat)
  PROVE  /\ Freed(t, t, Len(t) - 0)
         /\ t # <<>> => Freed(t, Front(t), Len(t) - 1) /\ Front(t) \in Seq(Nat)
  <1>1. Len(t) \in Nat
    BY LenProperties
  <1>2. Freed(t, t, Len(t) - 0)
    BY <1>1 DEF Freed
  <1>3. ASSUME t # <<>>
        PROVE  Freed(t, Front(t), Len(t) - 1) /\ Front(t) \in Seq(Nat)
    <2> DEFINE r == Front(t)
    <2>1. /\ r \in Seq(Nat) /\ Len(r) = Len(t) - 1 /\ \A p \in 1..(Len(t) - 1) : r[p] = t[p]
      BY <1>3, FrontLast
    <2>2. Len(t) # 0
      BY <1>3, EmptySeq
    <2> HIDE DEF r
    <2>3. Freed(t, r, Len(t) - 1)
      BY <1>1, <2>1, <2>2 DEF Freed
    <2> QED BY <2>1, <2>3 DEF r
  <1> QED BY <1>2, <1>3

-----------------------------------------------------------------------------
(* What the actions have in common.                                        *)

LEMMA CalmMoves ==
  ASSUME CalmInv, Running, Calm(tmp', cont', objs', stopped', phase'),
         handling' = 0, UNCHANGED phase
  PROVE  CalmInv'
  BY DEF CalmInv, Running

LEMMA CalmEnds ==
  ASSUME CalmInv, phase' = "undefined", UNCHANGED <<stacks, objs, stopped, cont>>
  PROVE  CalmInv'
  <1>1. Calm(tmp, cont, objs, stopped, "undefined")
    BY CalmLess DEF CalmInv
  <1> QED BY <1>1 DEF CalmInv, stacks

\* The invariant, unfolded.
LEMMA CalmNow ==
  ASSUME IInv, FitInv, CalmInv, Running
  PROVE  /\ cont \in Seq(ContRec) /\ tmp \in Seq(Nat) /\ objs \in Int
         /\ Calm(tmp, cont, objs, stopped, phase)
         /\ StacksOK(Stacks) /\ Quiet(Stacks, Stacks)
         /\ Stacks.exec = exec /\ Stacks.tmp = tmp /\ Stacks.handling = 0
  <1>1. Stacks.exec = exec /\ Stacks.tmp = tmp /\ Stacks.handling = 0
    BY DEF Stacks, CalmInv
  <1>2. StacksOK(Stacks)
    BY DEF IInv
  <1> HIDE DEF Stacks
  <1>3. tmp \in Seq(Nat)
    BY <1>1, <1>2 DEF StacksOK
  <1> QED BY <1>1, <1>2, <1>3, FitNow DEF CalmInv, Quiet, IInv, RestOK

\* A unit is invoked from a native stack on which the caller waits already.
LEMMA CalmInvokes ==
  ASSUME IInv, FitInv, CalmInv, Running, NEW m, StacksOK(m), Quiet(Stacks, m),
         NEW kind \in UnitKinds, Become(Invoke(m, kind)),
         NEW s \in Seq(ContRec), Calm(tmp, s, objs', stopped, phase),
         cont' = Append(s, Cont("exec", Last(Invoke(m, kind).tmp), 0)),
         UNCHANGED <<stopped, phase>>
  PROVE  CalmInv'
  <1> DEFINE n == Invoke(m, kind)
             u == Last(n.tmp)
  <1>1. m.tmp = tmp /\ m.handling = 0 /\ tmp \in Seq(Nat)
    BY CalmNow DEF Quiet
  <1>2. n.tmp = Append(tmp, u) /\ n.handling = 0 /\ u \in Nat /\ u # Main
    BY <1>1, CopyInvoked
  <1>3. tmp' = n.tmp /\ handling' = 0 /\ cont' = Append(s, Cont("exec", u, 0))
    BY <1>2 DEF Become
  <1> HIDE DEF n, u
  <1>4. Calm(tmp', cont', objs', stopped, phase)
    BY <1>1, <1>2, <1>3, CalmOwns
  <1> QED BY <1>3, <1>4, CalmMoves

\* A callable is copied, and waits to be entered.
LEMMA CalmCopies ==
  ASSUME IInv, FitInv, CalmInv, Running, NEW m, StacksOK(m), Quiet(Stacks, m),
         NEW kind \in UnitKinds, Become(TmpCallable(m, kind)),
         NEW s \in Seq(ContRec), Calm(tmp, s, objs', stopped, phase),
         NEW k \in {"args", "iterable"},
         cont' = Append(s, Cont(k, Last(TmpCallable(m, kind).tmp), 0)),
         UNCHANGED <<stopped, phase>>
  PROVE  CalmInv'
  <1> DEFINE n == TmpCallable(m, kind)
             u == Last(n.tmp)
  <1>1. m.tmp = tmp /\ m.handling = 0 /\ tmp \in Seq(Nat)
    BY CalmNow DEF Quiet
  <1>2. n.tmp = Append(tmp, u) /\ n.handling = 0 /\ u \in Nat
    BY <1>1, CopyPushed
  <1>3. u # Main
    BY CopyIsNew
  <1>4. tmp' = n.tmp /\ handling' = 0 /\ cont' = Append(s, Cont(k, u, 0))
    BY <1>2 DEF Become
  <1> HIDE DEF n, u
  <1>5. Calm(tmp', cont', objs', stopped, phase)
    BY <1>1, <1>2, <1>3, <1>4, CalmOwns
  <1> QED BY <1>4, <1>5, CalmMoves

\* Evaluating an expression moves a cursor only.
LEMMA CalmEvaluated ==
  ASSUME IInv, FitInv, CalmInv, NEW kind, CanEvaluate(kind)
  PROVE  /\ Running /\ cont # <<>> /\ StacksOK(Evaluated) /\ Quiet(Stacks, Evaluated)
         /\ cont \in Seq(ContRec) /\ exec \in Seq(Nat) /\ Evaluated.exec = exec
         /\ Evaluated.tmp = tmp /\ Evaluated.handling = 0 /\ StacksOK(Stacks)
         /\ tmp \in Seq(Nat) /\ objs \in Int
         /\ Calm(tmp, cont, objs, stopped, phase)
  <1>1. /\ Running /\ cont # <<>> /\ StacksOK(Evaluated) /\ StacksOK(Stacks)
        /\ cont \in Seq(ContRec) /\ exec \in Seq(Nat)
    BY Evaluating, FitNow
  <1>2. Quiet(Stacks, Evaluated)
    <2> HIDE DEF Stacks, TopCont
    <2> QED BY <1>1, QuietOnes DEF Evaluated
  <1>3. Stacks.exec = exec /\ Stacks.tmp = tmp /\ Stacks.handling = 0
    BY DEF Stacks, CalmInv
  <1> QED BY <1>1, <1>2, <1>3, CalmNow DEF Quiet

-----------------------------------------------------------------------------
(* Actions that call a unit.                                               *)

LEMMA CallCalm ==
  ASSUME IInv, FitInv, CalmInv, NEW kind \in Callables, Call(kind)
  PROVE  CalmInv'
  <1>1. kind \in UnitKinds
    BY DEF Callables, UnitKinds
  <1>2. /\ CanEvaluate(kind) /\ Become(Invoke(Evaluated, kind))
        /\ cont' = Append(cont, Cont("exec", Last(Invoke(Evaluated, kind).tmp), 0))
        /\ UNCHANGED <<objs, stopped, phase>>
    BY DEF Call
  <1> QED BY <1>1, <1>2, CalmEvaluated, CalmInvokes

LEMMA CallFunctionCalm ==
  ASSUME IInv, FitInv, CalmInv, CallFunction
  PROVE  CalmInv'
  <1>1. "fn" \in UnitKinds
    BY DEF UnitKinds
  <1>2. /\ CanEvaluate("fn") /\ Become(TmpCallable(Evaluated, "fn"))
        /\ cont' = Append(cont, Cont("args", Last(TmpCallable(Evaluated, "fn").tmp), 0))
        /\ UNCHANGED <<objs, stopped, phase>>
    BY DEF CallFunction
  <1> QED BY <1>1, <1>2, CalmEvaluated, CalmCopies

LEMMA AccessCalm ==
  ASSUME IInv, FitInv, CalmInv, Access
  PROVE  CalmInv'
  <1> DEFINE n == TmpCallable(Evaluated, "fn")
             a == Cont("use", 0, 0)
             x == Cont("args", Last(n.tmp), 0)
             s == Append(cont, a)
  <1>1. /\ CanEvaluate("access") /\ Become(n) /\ cont' = cont \o <<a, x>>
        /\ objs' = objs + 1 /\ UNCHANGED <<stopped, phase>>
    BY DEF Access
  <1>2. s \in Seq(ContRec) /\ Calm(tmp, s, objs', stopped, phase)
    BY <1>1, CalmEvaluated, CalmWait DEF ContKinds
  <1>3. a \in ContRec /\ x \in ContRec
    <2>1. Last(n.tmp) \in Nat
      BY <1>1, CalmEvaluated, CopyPushed
    <2> QED BY <2>1, FramesAreRecords, KindsAreNamed
  <1>4. cont' = Append(s, x)
    <2> HIDE DEF a, x
    <2> QED BY <1>1, <1>3, CalmEvaluated, PushTwo
  <1> HIDE DEF s
  <1> QED BY <1>1, <1>2, <1>4, CalmEvaluated, CalmCopies DEF UnitKinds

LEMMA TryCatchCalm ==
  ASSUME IInv, FitInv, CalmInv, TryCatch
  PROVE  CalmInv'
  <1> DEFINE n == Invoke(Evaluated, "try")
             a == Cont("try", 0, Len(exec))
             x == Cont("exec", Last(n.tmp), 0)
             s == Append(cont, a)
  <1>1. /\ CanEvaluate("try") /\ Become(n) /\ cont' = cont \o <<a, x>>
        /\ UNCHANGED <<objs, stopped, phase>>
    BY DEF TryCatch
  <1>2. Len(exec) \in Nat
    BY <1>1, CalmEvaluated, LenProperties
  <1>3. s \in Seq(ContRec) /\ Calm(tmp, s, objs', stopped, phase)
    BY <1>1, <1>2, CalmEvaluated, CalmWait DEF ContKinds
  <1>4. a \in ContRec /\ x \in ContRec
    <2>1. Last(n.tmp) \in Nat
      BY <1>1, CalmEvaluated, InvokedOK DEF UnitKinds
    <2> QED BY <1>2, <2>1, FramesAreRecords, KindsAreNamed
  <1>5. cont' = Append(s, x)
    <2> HIDE DEF a, x
    <2> QED BY <1>1, <1>4, CalmEvaluated, PushTwo
  <1> HIDE DEF s
  <1> QED BY <1>1, <1>3, <1>5, CalmEvaluated, CalmInvokes DEF UnitKinds

LEMMA EachNextCalm ==
  ASSUME IInv, FitInv, CalmInv, EachNext
  PROVE  CalmInv'
  <1>1. /\ Running /\ Become(Invoke(Stacks, "fn"))
        /\ cont' = Append(cont, Cont("exec", Last(Invoke(Stacks, "fn").tmp), 0))
        /\ UNCHANGED <<objs, stopped, phase>>
    BY DEF EachNext
  <1>2. /\ StacksOK(Stacks) /\ cont \in Seq(ContRec) /\ Quiet(Stacks, Stacks)
        /\ Calm(tmp, cont, objs, stopped, phase)
    BY <1>1, CalmNow
  <1>3. "fn" \in UnitKinds
    BY DEF UnitKinds
  <1> QED BY <1>1, <1>2, <1>3, CalmInvokes

\* A frame without copies returns, at the level of the native stack.
LEMMA CalmReturned ==
  ASSUME IInv, FitInv, CalmInv, Running, cont # <<>>, Copies(TopCont) = 0
  PROVE  /\ Front(cont) \in Seq(ContRec) /\ TopCont \in ContRec
         /\ TopCont.k # "use" => Calm(tmp, Front(cont), objs, stopped, phase)
         /\ TopCont.k = "use" => Calm(tmp, Front(cont), objs - 1, stopped, phase)
  <1>1. /\ cont \in Seq(ContRec) /\ tmp \in Seq(Nat) /\ objs \in Int
        /\ Calm(tmp, cont, objs, stopped, phase)
    BY CalmNow
  <1>2. Front(cont) \in Seq(ContRec) /\ TopCont \in ContRec
    BY <1>1, ContFront DEF TopCont
  <1>3. Freed(tmp, tmp, Len(tmp) - Copies(Last(cont)))
    BY <1>1, FreedOne DEF TopCont
  <1>4. Calm(tmp, Front(cont), objs - Uses(TopCont), stopped, phase)
    BY <1>1, <1>3, CalmPop DEF TopCont
  <1>5. objs - 0 = objs
    BY <1>1
  <1> QED BY <1>2, <1>4, <1>5 DEF Uses

LEMMA PassNextCalm ==
  ASSUME IInv, FitInv, CalmInv, PassNext
  PROVE  CalmInv'
  <1> DEFINE n == Invoke(Stacks, "fn")
             a == Cont("pass", TopCont.u, TopCont.n + 1)
             x == Cont("exec", Last(n.tmp), 0)
             f == Front(cont)
             s == Append(f, a)
  <1>1. /\ Running /\ cont # <<>> /\ TopCont.k = "pass" /\ Become(n) /\ cont' = f \o <<a, x>>
        /\ UNCHANGED <<objs, stopped, phase>>
    BY DEF PassNext, In
  <1>2. /\ StacksOK(Stacks) /\ Quiet(Stacks, Stacks) /\ Stacks.handling = 0
        /\ tmp \in Seq(Nat) /\ TopCont \in ContRec
    BY <1>1, CalmNow, TopUnder
  <1>3. f \in Seq(ContRec) /\ Calm(tmp, f, objs, stopped, phase)
    <2>1. Copies(TopCont) = 0
      BY <1>1, <1>2, CopiesOK
    <2> QED BY <1>1, <2>1, CalmReturned
  <1>4. TopCont.u \in Nat /\ TopCont.n + 1 \in Nat
    BY <1>2 DEF ContRec
  <1> HIDE DEF f
  <1>5. s \in Seq(ContRec) /\ Calm(tmp, s, objs', stopped, phase)
    BY <1>1, <1>2, <1>3, <1>4, CalmWait DEF ContKinds
  <1>6. a \in ContRec /\ x \in ContRec
    <2>1. Last(n.tmp) \in Nat
      BY <1>2, InvokedOK DEF UnitKinds
    <2> QED BY <1>4, <2>1, FramesAreRecords, KindsAreNamed
  <1>7. cont' = Append(s, x)
    <2> HIDE DEF a, x
    <2> QED BY <1>1, <1>3, <1>6, PushTwo
  <1> HIDE DEF s
  <1> QED BY <1>1, <1>2, <1>5, <1>7, CalmInvokes DEF UnitKinds

\* The callee waiting on top is executed: it takes over its own copy.
LEMMA EnterCalleeCalm ==
  ASSUME IInv, FitInv, WaitInv, CalmInv, EnterCallee
  PROVE  CalmInv'
  <1> DEFINE u == TopCont.u
             m == Execute(Stacks, u, TRUE)
             c == Cont("exec", u, 0)
  <1>1. /\ Running /\ cont # <<>> /\ TopCont.k = "args" /\ Become(m)
        /\ cont' = Append(Front(cont), c) /\ UNCHANGED <<objs, stopped, phase>>
    BY DEF EnterCallee, In
  <1>2. /\ StacksOK(Stacks) /\ Stacks.tmp = tmp /\ Stacks.handling = 0 /\ Stacks.unit = unit
        /\ cont \in Seq(ContRec) /\ tmp \in Seq(Nat)
        /\ Calm(tmp, cont, objs, stopped, phase) /\ TopCont \in ContRec
    BY <1>1, CalmNow, FitNow, TopUnder
  <1>3. u \in Nat /\ u # Main /\ u \in DOMAIN Stacks.unit
    BY <1>1, <1>2, WaitNew DEF Waits, Subject
  <1> HIDE DEF Stacks
  <1>4. m.tmp = tmp /\ m.handling = 0
    BY <1>2, <1>3, ExecuteOK, ExecuteFromOK
  <1>5. c \in ContRec /\ c.k = "exec" /\ c.u = u
    BY <1>3, FramesAreRecords, KindsAreNamed
  <1>6. Copies(c) = Copies(TopCont) /\ Upper(c) = Upper(TopCont) /\ Copies(c) # 2
    <2> HIDE DEF c
    <2> QED BY <1>1, <1>2, <1>3, <1>5, CopiesOK DEF Upper
  <1> HIDE DEF m, c, u
  <1>7. Calm(tmp, cont', objs, stopped, phase)
    BY <1>1, <1>2, <1>5, <1>6, CalmSwap DEF TopCont
  <1>8. tmp' = tmp /\ handling' = 0
    BY <1>1, <1>4 DEF Become
  <1> QED BY <1>1, <1>7, <1>8, CalmMoves

-----------------------------------------------------------------------------
(* Loops.                                                                  *)

LEMMA ForEachCalm ==
  ASSUME IInv, FitInv, CalmInv, ForEach
  PROVE  CalmInv'
  <1>1. "body" \in UnitKinds
    BY DEF UnitKinds
  <1>2. /\ CanEvaluate("foreach") /\ Become(TmpCallable(Evaluated, "body"))
        /\ cont' = Append(cont, Cont("iterable", Last(TmpCallable(Evaluated, "body").tmp), 0))
        /\ UNCHANGED <<objs, stopped, phase>>
    BY DEF ForEach
  <1> QED BY <1>1, <1>2, CalmEvaluated, CalmCopies

\* A for loop makes two copies, and enters the first.
LEMMA ForLoopCalm ==
  ASSUME IInv, FitInv, CalmInv, ForLoop
  PROVE  CalmInv'
  <1> DEFINE p == TmpCallable(Evaluated, "proxy")
             u == Last(p.tmp)
             b == TmpCallable(p, "body")
             v == Last(b.tmp)
             m == EnterScope(b, u)
             c == Cont("init", u, v)
             t == Append(tmp, u)
             r == Append(t, v)
  <1>1. /\ CanEvaluate("for") /\ Become(m) /\ cont' = Append(cont, c)
        /\ UNCHANGED <<objs, stopped, phase>>
    BY DEF ForLoop
  <1>2. /\ StacksOK(Evaluated) /\ Evaluated.tmp = tmp /\ Evaluated.handling = 0
        /\ Running /\ cont \in Seq(ContRec) /\ tmp \in Seq(Nat) /\ objs \in Int
        /\ Calm(tmp, cont, objs, stopped, phase)
    BY <1>1, CalmEvaluated
  <1>3. StacksOK(p) /\ u \in Nat /\ p.tmp = t /\ p.handling = 0
    <2>1. u \in Nat /\ p.tmp = t /\ p.handling = 0
      BY <1>2, CopyPushed
    <2>2. StacksOK(p)
      BY <1>2, CopyIsNew DEF UnitKinds
    <2> QED BY <2>1, <2>2
  <1>u. u = Last(p.tmp)
    OBVIOUS
  <1> HIDE DEF p, u
  <1>4. StacksOK(b) /\ v \in Nat /\ b.tmp = r /\ b.handling = 0
    <2>1. v \in Nat /\ b.tmp = r /\ b.handling = 0
      BY <1>3, CopyPushed
    <2>2. StacksOK(b)
      BY <1>3, CopyIsNew DEF UnitKinds
    <2> QED BY <2>1, <2>2
  <1> HIDE DEF b, v
  <1>5. m.tmp = r /\ m.handling = 0
    BY <1>4 DEF EnterScope, StacksOK
  <1> HIDE DEF m
  <1>6. c \in ContRec /\ c.k = "init" /\ c.u = u /\ c.n = v
    BY <1>3, <1>4, FramesAreRecords, KindsAreNamed
  <1> HIDE DEF c
  <1>7. Copies(c) = 2 /\ c \in Copying /\ c \in Twice /\ Upper(c) = v /\ Lower(c) = u
    BY <1>6, CopiesOK DEF Upper, Lower
  <1>8. /\ t \in Seq(Nat) /\ Len(t) = Len(tmp) + 1 /\ Len(tmp) \in Nat
        /\ \A i \in 1..Len(tmp) : t[i] = tmp[i]
        /\ t[Len(tmp) + 1] = u
    BY <1>2, <1>3, AppendOK
  <1> HIDE DEF t
  <1>9. /\ r \in Seq(Nat) /\ Len(r) = Len(t) + 1
        /\ \A i \in 1..Len(t) : r[i] = t[i]
        /\ r[Len(t) + 1] = v
    BY <1>4, <1>8, AppendOK
  <1> HIDE DEF r
  <1>10. Copied(tmp, r, c)
    <2>1. Len(r) = Len(tmp) + 2 /\ Len(r) - 1 = Len(tmp) + 1 /\ Len(t) = Len(tmp) + 1
      BY <1>8, <1>9
    <2>2. r[Len(r)] = v /\ r[Len(r) - 1] = u
      BY <1>8, <1>9, <2>1
    <2>3. \A i \in 1..Len(tmp) : r[i] = tmp[i]
      BY <1>8, <1>9
    <2> QED BY <1>6, <1>7, <1>9, <2>1, <2>2, <2>3 DEF Copied
  <1>11. Calm(r, Append(cont, c), objs + Uses(c), stopped, phase)
    BY <1>2, <1>6, <1>10, CalmPush
  <1>12. objs + Uses(c) = objs
    BY <1>2, <1>6 DEF Uses
  <1>13. tmp' = r /\ handling' = 0
    BY <1>1, <1>5 DEF Become
  <1> QED BY <1>1, <1>2, <1>11, <1>12, <1>13, CalmMoves

\* The body is entered: the loop takes over the copies.
LEMMA EnterLoopCalm ==
  ASSUME IInv, FitInv, WaitInv, CalmInv, EnterLoop
  PROVE  CalmInv'
  <1> DEFINE v == Subject(TopCont)
             p == IF TopCont.k = "init" THEN TopCont.u ELSE 0
             m == EnterScope(Stacks, v)
             c == Cont("loop", v, p)
  <1>1. /\ Running /\ cont # <<>> /\ TopCont.k \in {"init", "iterable"} /\ Waits(TopCont)
        /\ UNCHANGED <<objs, stopped, phase>>
    BY DEF EnterLoop, In, Waits
  <1>2. Become(m) /\ cont' = Append(Front(cont), c)
    BY <1>1 DEF EnterLoop, In, Subject
  <1>3. /\ StacksOK(Stacks) /\ Stacks.tmp = tmp /\ Stacks.handling = 0
        /\ cont \in Seq(ContRec) /\ tmp \in Seq(Nat)
        /\ Calm(tmp, cont, objs, stopped, phase) /\ TopCont \in ContRec
    BY <1>1, CalmNow, TopUnder
  <1>4. v \in Nat /\ (TopCont.k = "init" => TopCont.u # 0) /\ p \in Nat
    <2>1. v \in DOMAIN unit
      BY <1>1, WaitNew
    <2>2. TopCont.k = "init" => TopCont.u \in DOMAIN unit
      BY <1>1, Busy DEF FrameOK
    <2>3. \A x \in DOMAIN unit : x \in Nat /\ x # 0
      BY <1>1, FitNow, UnitOK, LenProperties
    <2>4. TopCont.u \in Nat
      BY <1>3 DEF ContRec
    <2> HIDE DEF v, TopCont
    <2> QED BY <2>1, <2>2, <2>3, <2>4
  <1> HIDE DEF Stacks
  <1>5. m.tmp = tmp /\ m.handling = 0
    BY <1>3 DEF EnterScope, StacksOK
  <1>6. c \in ContRec /\ c.k = "loop" /\ c.u = v /\ c.n = p
    BY <1>4, FramesAreRecords, KindsAreNamed
  <1>7. /\ Copies(c) = Copies(TopCont) /\ Upper(c) = Upper(TopCont)
        /\ Lower(c) = Lower(TopCont) \/ Copies(c) # 2
    <2> HIDE DEF c, TopCont
    <2>1. CASE TopCont.k = "init"
      BY <1>3, <1>4, <1>6, <2>1, CopiesOK DEF Upper, Lower, Subject
    <2>2. CASE TopCont.k = "iterable"
      BY <1>3, <1>4, <1>6, <2>2, CopiesOK DEF Upper, Subject
    <2> QED BY <1>1, <2>1, <2>2
  <1> HIDE DEF m, c, v, p
  <1>8. Calm(tmp, cont', objs, stopped, phase)
    BY <1>1, <1>2, <1>3, <1>6, <1>7, CalmSwap DEF TopCont
  <1>9. tmp' = tmp /\ handling' = 0
    BY <1>2, <1>5 DEF Become
  <1> QED BY <1>1, <1>8, <1>9, CalmMoves

\* A native frame without copies is pushed, or none is.
LEMMA CalmStays ==
  ASSUME IInv, FitInv, CalmInv, Running, NEW m, Quiet(Stacks, m), Become(m),
         NEW s, Calm(tmp, s, objs', stopped', phase), cont' = s,
         UNCHANGED phase
  PROVE  CalmInv'
  <1>1. tmp' = tmp /\ handling' = 0
    BY DEF Quiet, Become, Stacks, CalmInv
  <1> QED BY <1>1, CalmMoves

LEMMA NativeEachCalm ==
  ASSUME IInv, FitInv, CalmInv, NativeEach
  PROVE  CalmInv'
  <1> DEFINE s == Append(cont, Cont("each", 0, 0))
  <1>1. /\ CanEvaluate("each") /\ Become(Evaluated) /\ cont' = s
        /\ UNCHANGED <<objs, stopped, phase>>
    BY DEF NativeEach
  <1>2. Calm(tmp, s, objs', stopped', phase)
    BY <1>1, CalmEvaluated, CalmWait DEF ContKinds
  <1> HIDE DEF s
  <1> QED BY <1>1, <1>2, CalmEvaluated, CalmStays

LEMMA LoopIterateCalm ==
  ASSUME IInv, FitInv, CalmInv, LoopIterate
  PROVE  CalmInv'
  <1> DEFINE u == TopCont.u
             s == Append(cont, Cont("iter", u, 0))
             m == Execute(Stacks, u, FALSE)
  <1>1. /\ Running /\ cont # <<>> /\ Become(m) /\ cont' = s
        /\ UNCHANGED <<objs, stopped, phase>>
    BY DEF LoopIterate, In
  <1>2. /\ StacksOK(Stacks) /\ cont \in Seq(ContRec) /\ tmp \in Seq(Nat)
        /\ Stacks.handling = 0
        /\ Calm(tmp, cont, objs, stopped, phase)
    BY <1>1, CalmNow
  <1>3. u \in Nat
    <2>1. TopCont \in ContRec
      BY <1>1, TopUnder
    <2> QED BY <2>1 DEF ContRec
  <1> HIDE DEF u
  <1>4. Quiet(Stacks, m)
    <2> HIDE DEF Stacks
    <2> QED BY <1>2, QuietOnes
  <1>5. Calm(tmp, s, objs', stopped', phase)
    BY <1>1, <1>2, <1>3, CalmWait DEF ContKinds
  <1> HIDE DEF s, m
  <1> QED BY <1>1, <1>4, <1>5, CalmStays

LEMMA ReturnCalm ==
  ASSUME IInv, FitInv, CalmInv, Return \/ Break
  PROVE  CalmInv'
  <1> DEFINE a == SaveReturn(Evaluated, Current(Stacks))
             b == StopUnits(Evaluated, {Current(Stacks)}, TRUE)
  <1>1. /\ CanEvaluate("return") \/ CanEvaluate("break")
        /\ Become(a) \/ Become(b)
    BY DEF Return, Break
  <1>u. UNCHANGED <<objs, stopped, phase, cont>>
    BY DEF Return, Break
  <1>2. /\ StacksOK(Evaluated) /\ Running /\ Quiet(Stacks, Evaluated)
        /\ Calm(tmp, cont, objs', stopped', phase)
    BY <1>1, <1>u, CalmEvaluated
  <1>3. Quiet(Stacks, a)
    <2>1. Quiet(Evaluated, a)
      BY <1>2, QuietOnes
    <2> QED BY <1>2, <2>1, QuietBoth
  <1>4. Quiet(Stacks, b)
    <2>1. Quiet(Evaluated, b)
      BY <1>2, QuietOnes
    <2> QED BY <1>2, <2>1, QuietBoth
  <1> HIDE DEF a, b
  <1> QED BY <1>1, <1>u, <1>2, <1>3, <1>4, CalmStays

LEMMA OnExitCalm ==
  ASSUME IInv, FitInv, CalmInv, OnExit
  PROVE  CalmInv'
  <1>1. CASE Undefined
    BY <1>1, CalmEnds DEF Undefined
  <1>2. CASE Become(Evaluated) /\ UNCHANGED <<objs, stopped, cont, phase>>
    BY <1>2, CalmEvaluated, CalmStays DEF OnExit
  <1> QED BY <1>1, <1>2 DEF OnExit

LEMMA ExitCalm ==
  ASSUME IInv, FitInv, CalmInv, Exit
  PROVE  CalmInv'
  <1> DEFINE s == Append(cont, Cont("pass", Len(tasks), 0))
             m == StopAll(Evaluated)
  <1>1. CASE Undefined
    BY <1>1, CalmEnds DEF Undefined
  <1>2. CASE stopped' = TRUE /\ Become(m) /\ cont' = s /\ UNCHANGED <<objs, phase>>
    <2>1. /\ StacksOK(Evaluated) /\ Running /\ Quiet(Stacks, Evaluated) /\ cont # <<>>
          /\ Calm(tmp, cont, objs, stopped, phase)
          /\ cont \in Seq(ContRec) /\ tmp \in Seq(Nat)
      BY CalmEvaluated DEF Exit
    <2>2. Len(tasks) \in Nat
      BY <2>1, Busy
    <2>3. Calm(tmp, s, objs', stopped, phase)
      BY <1>2, <2>1, <2>2, CalmWait DEF ContKinds
    <2>4. Quiet(Stacks, m)
      <3>1. Quiet(Evaluated, m)
        BY <2>1, QuietOnes DEF StopAll
      <3> QED BY <2>1, <3>1, QuietBoth
    <2> HIDE DEF s, m
    <2>5. Calm(tmp, s, objs', stopped', phase)
      BY <1>2, <2>3 DEF Calm
    <2>6. cont' = s /\ Become(m) /\ UNCHANGED phase
      BY <1>2
    <2> QED BY <2>1, <2>4, <2>5, <2>6, CalmStays
  <1> QED BY <1>1, <1>2 DEF Exit

-----------------------------------------------------------------------------
(* Completion of native frames.                                            *)

\* The scopes of the frame on top are the top ones.
LEMMA TopScope ==
  ASSUME IInv, FitInv, Running, ~stopped, cont # <<>>
  PROVE  /\ TopCont \in Entering => exec[Len(exec)] = TopCont.u
         /\ TopCont \in Proxied => exec[Len(exec) - 1] = TopCont.n
  <1>1. /\ TopCont = cont[Len(cont)] /\ Len(cont) \in DOMAIN cont
        /\ Under(exec, cont, Len(cont) + 1) = Len(exec)
    BY TopUnder
  <1>2. ScopesFit(exec, cont, stopped)
    BY FitNow
  <1> HIDE DEF TopCont
  <1> QED BY <1>1, <1>2 DEF ScopesFit

\* Two copies are freed one after the other.
LEMMA FreedTwo ==
  ASSUME NEW t \in Seq(Nat), Len(t) >= 2
  PROVE  /\ t # <<>> /\ Front(t) \in Seq(Nat) /\ Front(t) # <<>>
         /\ Last(t) = t[Len(t)] /\ Last(Front(t)) = t[Len(t) - 1]
         /\ Freed(t, Front(Front(t)), Len(t) - 2)
  <1> DEFINE f == Front(t)
  <1>1. t # <<>> /\ Len(t) \in Nat
    BY LenProperties, EmptySeq
  <1>2. /\ f \in Seq(Nat) /\ Len(f) = Len(t) - 1 /\ \A p \in 1..(Len(t) - 1) : f[p] = t[p]
        /\ Last(t) = t[Len(t)]
    BY <1>1, FrontLast
  <1> HIDE DEF f
  <1>3. f # <<>>
    BY <1>1, <1>2, EmptySeq
  <1> DEFINE g == Front(f)
  <1>4. /\ g \in Seq(Nat) /\ Len(g) = Len(f) - 1 /\ \A p \in 1..(Len(f) - 1) : g[p] = f[p]
        /\ Last(f) = f[Len(f)]
    BY <1>2, <1>3, FrontLast
  <1> HIDE DEF g
  <1>5. Last(f) = t[Len(t) - 1]
    <2>1. Len(t) - 1 \in 1..(Len(t) - 1)
      BY <1>1
    <2>2. f[Len(t) - 1] = t[Len(t) - 1]
      BY <1>2, <2>1
    <2> QED BY <1>2, <1>4, <2>2
  <1>6. Freed(t, g, Len(t) - 2)
    <2>1. Len(g) = Len(t) - 2 /\ Len(t) - 2 \in 0..Len(t)
      BY <1>1, <1>2, <1>4
    <2>2. ASSUME NEW p \in 1..(Len(t) - 2)
          PROVE  g[p] = t[p]
      <3>1. p \in 1..(Len(f) - 1) /\ p \in 1..(Len(t) - 1)
        BY <1>1, <1>2
      <3> QED BY <1>2, <1>4, <3>1
    <2> QED BY <1>4, <2>1, <2>2 DEF Freed
  <1> QED BY <1>1, <1>2, <1>3, <1>5, <1>6 DEF f, g

LEMMA LoopExitCalm ==
  ASSUME IInv, FitInv, CalmInv, LoopExit
  PROVE  CalmInv'
  <1> DEFINE body == LeaveScope(Stacks)
             left == IF TopCont.n = 0 THEN body ELSE LeaveScope(body)
             m == IF unit[TopCont.u].ret /\ ~stopped
                  THEN SaveReturn(left, Current(left)) ELSE left
             a == TopCont
  <1>1. /\ Running /\ cont # <<>> /\ a.k = "loop" /\ cont' = Front(cont)
        /\ Become(m) /\ UNCHANGED <<objs, stopped, phase>>
    BY DEF LoopExit, In
  <1>2. /\ StacksOK(body) /\ body.exec = Front(exec) /\ StacksOK(left)
        /\ Len(exec) \in Nat /\ Len(exec) > Width(a)
        /\ Width(a) = IF a.n = 0 THEN 1 ELSE 2
    BY <1>1, LoopLeaves
  <1>3. /\ StacksOK(Stacks) /\ Stacks.exec = exec /\ Stacks.tmp = tmp /\ Stacks.handling = 0
        /\ cont \in Seq(ContRec) /\ Calm(tmp, cont, objs, stopped, phase)
        /\ tmp \in Seq(Nat) /\ exec \in Seq(Nat) /\ objs \in Int
        /\ a \in ContRec
    BY <1>1, CalmNow, FitNow, TopUnder
  <1>l. left = IF a.n = 0 THEN body ELSE LeaveScope(body)
    OBVIOUS
  <1>b. /\ body.handling = 0
        /\ body.tmp = IF tmp # <<>> /\ Last(tmp) = Last(exec) THEN Front(tmp) ELSE tmp
    <2> HIDE DEF Stacks, a
    <2>1. Len(Stacks.exec) > 1
      BY <1>2, <1>3
    <2> QED BY <1>3, <2>1, CopyLeft
  <1> HIDE DEF Stacks, body
  <1>4. left.handling = 0
    BY <1>2, <1>b, CopyLeft
  <1>5. ASSUME phase = "run", ~stopped
        PROVE  Freed(tmp, left.tmp, Len(tmp) - Copies(a))
    <2>1. Last(exec) = a.u /\ (a.n # 0 => exec[Len(exec) - 1] = a.n)
      <3>1. a \in Entering /\ (a.n # 0 => a \in Proxied)
        BY <1>1, <1>3 DEF Entering, Proxied
      <3>2. Last(exec) = exec[Len(exec)]
        <4>1. exec # <<>>
          BY <1>2, <1>3, EmptySeq
        <4> QED BY <1>3, <4>1, FrontLast
      <3> QED BY <1>1, <1>5, <3>1, <3>2, TopScope
    <2>2. /\ Len(tmp) \in Nat /\ Copies(a) <= Len(tmp)
          /\ tmp[Len(tmp)] = a.u /\ (a.n # 0 => tmp[Len(tmp) - 1] = a.n)
          /\ Copies(a) = IF a.n = 0 THEN 1 ELSE 2
      <3>1. CopiesFit(tmp, cont)
        BY <1>3, <1>5 DEF Calm
      <3>2. /\ Len(tmp) \in Nat /\ Copies(a) <= Len(tmp)
            /\ a \in Copying => tmp[Len(tmp)] = Upper(a)
            /\ a \in Twice => tmp[Len(tmp) - 1] = Lower(a)
        BY <1>1, <1>3, <3>1, CopiesTop DEF TopCont
      <3>3. a \in Copying /\ (a.n # 0 => a \in Twice) /\ Upper(a) = a.u /\ Lower(a) = a.n
            /\ Copies(a) = IF a.n = 0 THEN 1 ELSE 2
        BY <1>1, <1>3, CopiesOK DEF Upper, Lower, Copying, Twice
      <3> QED BY <3>2, <3>3
    <2> HIDE DEF a, left
    <2>3. tmp # <<>> /\ Last(tmp) = tmp[Len(tmp)]
      <3>1. tmp # <<>>
        BY <1>3, <2>2, EmptySeq
      <3> QED BY <1>3, <3>1, FrontLast
    <2>4. body.tmp = Front(tmp)
      BY <1>b, <2>1, <2>2, <2>3
    <2>5. Freed(tmp, left.tmp, Len(tmp) - Copies(a))
      <3>1. CASE a.n = 0
        BY <1>3, <1>l, <2>2, <2>3, <2>4, <3>1, FreedOne
      <3>2. CASE a.n # 0
        <4>1. Len(tmp) >= 2
          BY <2>2, <3>2
        <4>2. /\ Front(tmp) # <<>> /\ Last(Front(tmp)) = a.n
              /\ Freed(tmp, Front(Front(tmp)), Len(tmp) - 2)
          BY <1>3, <2>2, <3>2, <4>1, FreedTwo
        <4>3. Len(body.exec) > 1 /\ Last(body.exec) = a.n
          <5>1. Len(exec) >= 2 /\ Len(exec) > 2 /\ exec # <<>>
            BY <1>2, <1>3, <3>2, EmptySeq
          <5>2. Len(Front(exec)) = Len(exec) - 1
            BY <1>3, <5>1, FrontLast
          <5>3. Last(Front(exec)) = exec[Len(exec) - 1]
            BY <1>3, <5>1, FreedTwo
          <5> QED BY <1>2, <2>1, <3>2, <5>1, <5>2, <5>3
        <4>4. LeaveScope(body).tmp = Front(Front(tmp))
          BY <1>2, <2>4, <4>2, <4>3, CopyLeft
        <4> QED BY <1>l, <2>2, <3>2, <4>2, <4>4
      <3> QED BY <3>1, <3>2
    <2> QED BY <2>5
  <1> HIDE DEF left
  <1>6. m.tmp = left.tmp /\ m.handling = 0
    <2>1. Quiet(left, SaveReturn(left, Current(left))) /\ Quiet(left, left)
      BY <1>2, QuietOnes
    <2> QED BY <1>4, <2>1 DEF Quiet
  <1> HIDE DEF m
  <1>7. tmp' = left.tmp /\ handling' = 0
    BY <1>1, <1>6 DEF Become
  <1>8. Calm(left.tmp, Front(cont), objs - Uses(a), stopped, phase)
    <2>1. phase # "run" \/ stopped \/ Freed(tmp, left.tmp, Len(tmp) - Copies(Last(cont)))
      BY <1>5 DEF TopCont
    <2> QED BY <1>1, <1>3, <2>1, CalmPop DEF TopCont
  <1>9. objs - Uses(a) = objs'
    BY <1>1, <1>3 DEF Uses
  <1> QED BY <1>1, <1>7, <1>8, <1>9, CalmMoves

\* Frames without copies return.
LEMMA SimpleDoneCalm ==
  ASSUME IInv, FitInv, CalmInv, TryDone \/ EachDone \/ UseDone \/ CatchDone
  PROVE  CalmInv'
  <1>1. /\ Running /\ cont # <<>> /\ TopCont.k \in {"try", "each", "use", "catch"}
        /\ cont' = Front(cont) /\ UNCHANGED <<stopped, phase>>
    BY DEF TryDone, EachDone, UseDone, CatchDone, In
  <1>2. TopCont \in ContRec /\ TopCont = cont[Len(cont)] /\ Len(cont) \in DOMAIN cont
    BY <1>1, TopUnder
  <1>3. TopCont.k # "catch"
    BY <1>2 DEF CalmInv, Calm
  <1>4. /\ UNCHANGED <<tmp, handling>>
        /\ objs' = IF TopCont.k = "use" THEN objs - 1 ELSE objs
    BY <1>3 DEF TryDone, EachDone, UseDone, CatchDone, In, stacks
  <1>5. Copies(TopCont) = 0
    BY <1>1, <1>2, CopiesOK
  <1>6. Calm(tmp, Front(cont), objs', stopped, phase)
    BY <1>1, <1>4, <1>5, CalmReturned
  <1>7. handling' = 0
    BY <1>4 DEF CalmInv
  <1> QED BY <1>1, <1>4, <1>6, <1>7, CalmMoves

LEMMA PassDoneCalm ==
  ASSUME IInv, FitInv, CalmInv, PassDone
  PROVE  CalmInv'
  <1>1. CASE Undefined
    BY <1>1, CalmEnds DEF Undefined
  <1>2. CASE ~Undefined
    <2>1. /\ Running /\ cont # <<>> /\ TopCont.k = "pass" /\ cont' = Front(cont)
          /\ phase' = (IF phase = "destroy" THEN "gone" ELSE phase)
          /\ UNCHANGED <<tmp, handling, objs, stopped>>
      BY <1>2 DEF PassDone, In, stacks
    <2>2. Calm(tmp, Front(cont), objs, stopped, phase)
      <3>1. TopCont \in ContRec
        BY <2>1, TopUnder
      <3>2. Copies(TopCont) = 0
        BY <2>1, <3>1, CopiesOK
      <3> QED BY <2>1, <3>2, CalmReturned
    <2>3. Calm(tmp, Front(cont), objs, stopped, phase')
      BY <2>1, <2>2, CalmLess
    <2>4. phase' \in {"run", "gone"} /\ handling' = 0
      BY <2>1 DEF Running, CalmInv
    <2>5. Calm(tmp, cont, objs, stopped, phase)'
      BY <2>1, <2>3
    <2> QED BY <2>4, <2>5 DEF CalmInv
  <1> QED BY <1>1, <1>2

\* The copy of a unit that finishes is on top, and so is its frame.
LEMMA UnitCopy ==
  ASSUME IInv, FitInv, CalmInv, phase = "run", ~stopped, cont # <<>>,
         TopCont.k \in {"exec", "iter"},
         NEW n, StacksOK(n), n.exec = exec, n.tmp = tmp
  PROVE  LET left == IF TopCont.k = "exec" THEN LeaveScope(n) ELSE n
         IN  Freed(tmp, left.tmp, Len(tmp) - Copies(TopCont))
  <1> DEFINE a == TopCont
             left == IF a.k = "exec" THEN LeaveScope(n) ELSE n
  <1>1. /\ a \in ContRec /\ Len(exec) \in Nat \ {0} /\ Len(exec) - Width(a) \in 1..Len(exec)
        /\ tmp \in Seq(Nat) /\ exec \in Seq(Nat)
        /\ cont \in Seq(ContRec) /\ Calm(tmp, cont, objs, stopped, phase)
    BY TopUnder, CalmNow, FitNow DEF Running
  <1>2. CASE a.k = "exec" /\ a.u # Main
    <2>1. Width(a) = 1 /\ Copies(a) = 1 /\ a \in Entering /\ a \in Copying /\ Upper(a) = a.u
      BY <1>1, <1>2, WidthOK, CopiesOK DEF Entering, Copying, Upper
    <2>2. Len(exec) > 1 /\ Last(exec) = a.u
      <3>1. exec[Len(exec)] = a.u
        BY <2>1, TopScope DEF Running
      <3>2. Last(exec) = exec[Len(exec)]
        BY <1>1, EmptySeq, FrontLast
      <3> QED BY <1>1, <2>1, <3>1, <3>2
    <2>3. tmp # <<>> /\ Last(tmp) = a.u
      <3>1. CopiesFit(tmp, cont)
        BY <1>1 DEF Calm
      <3>2. Len(tmp) \in Nat /\ 1 <= Len(tmp) /\ tmp[Len(tmp)] = a.u
        BY <1>1, <2>1, <3>1, CopiesTop DEF TopCont
      <3>3. tmp # <<>>
        BY <1>1, <3>2, EmptySeq
      <3> QED BY <1>1, <3>2, <3>3, FrontLast
    <2>4. left.tmp = Front(tmp)
      BY <1>2, <2>2, <2>3, CopyLeft
    <2> QED BY <1>1, <2>1, <2>3, <2>4, FreedOne
  <1>3. CASE ~(a.k = "exec" /\ a.u # Main)
    <2>1. Copies(a) = 0
      BY <1>1, <1>3, CopiesOK
    <2>2. left.tmp = tmp
      <3>1. CASE a.k = "exec"
        <4>1. a.u = Main /\ n.handling \in Nat
          BY <1>3, <3>1 DEF StacksOK
        <4>2. ~(Len(exec) > 1)
          <5>1. Len(cont) \in DOMAIN cont /\ a = cont[Len(cont)]
            BY TopUnder DEF Running
          <5>2. Len(cont) = 1 /\ Under(exec, cont, 1) = 1
            BY <3>1, <4>1, <5>1, FitNow DEF ScopesFit, Running
          <5>3. Under(exec, cont, 1) = Len(exec) - Width(a) /\ Width(a) = 0
            BY <1>1, <3>1, <4>1, <5>2, TopUnder, WidthOK DEF Running
          <5> QED BY <1>1, <5>2, <5>3
        <4> QED BY <3>1, <4>2 DEF LeaveScope
      <3>2. CASE a.k # "exec"
        BY <3>2
      <3> QED BY <3>1, <3>2
    <2> QED BY <1>1, <2>1, <2>2, FreedOne
  <1> QED BY <1>2, <1>3

LEMMA FinishCalm ==
  ASSUME IInv, FitInv, CalmInv, Finish
  PROVE  CalmInv'
  <1> DEFINE u == TopCont.u
             returned == unit[u].ret
             carries == Carries(Stacks, u)
             parent == Parent(Stacks)
             broken == PropagateBreak(Stacks, u)
             left == IF TopCont.k = "exec" THEN LeaveScope(broken) ELSE broken
             exits == TopCont.k = "exec" /\ Len(exec) = 1 /\ ~Persistent
             m == CarryReturn(left, returned, carries, parent)
             k == "pass"
             f == Front(cont)
  <1>1. /\ Running /\ cont # <<>> /\ TopCont.k \in {"exec", "iter"}
        /\ UNCHANGED <<handlers, objs, stopped, tasks, known, ran, fuel, line>>
    BY DEF Finish, InUnit
  <1>2. /\ StacksOK(Stacks) /\ Stacks.exec = exec /\ Stacks.tmp = tmp /\ Stacks.handling = 0
        /\ cont \in Seq(ContRec) /\ tmp \in Seq(Nat) /\ objs \in Int
        /\ Calm(tmp, cont, objs, stopped, phase)
        /\ Len(tasks) \in Nat
    BY <1>1, CalmNow, Busy
  <1>3. objs - Uses(TopCont) = objs
    BY <1>1, <1>2 DEF Uses
  <1>4. CASE stopped /\ cont' = f /\ UNCHANGED <<stacks, phase>>
    <2>1. Calm(tmp, f, objs, stopped, phase)
      BY <1>1, <1>2, <1>3, <1>4, CalmPop DEF TopCont
    <2>2. UNCHANGED tmp /\ handling' = 0
      BY <1>4 DEF stacks, CalmInv
    <2> QED BY <1>1, <1>4, <2>1, <2>2, CalmMoves
  <1>5. CASE phase' = "undefined" /\ UNCHANGED <<stacks, cont>>
    BY <1>1, <1>5, CalmEnds
  <1>6. CASE /\ ~stopped /\ Become(m) /\ UNCHANGED phase
             /\ cont' = IF exits THEN Append(f, Cont(k, Len(tasks), 0)) ELSE f
    <2> HIDE DEF Stacks, returned, carries, parent
    <2>1. StacksOK(broken) /\ Quiet(Stacks, broken)
      <3>1. Keeps(Stacks, broken)
        BY <1>2, PropagateBreakOK
      <3> QED BY <1>2, <3>1, QuietOnes DEF Keeps, KeepsBut
    <2> HIDE DEF broken
    <2>2. broken.exec = exec /\ broken.tmp = tmp /\ broken.handling = 0
      BY <1>2, <2>1 DEF Quiet
    <2>3. StacksOK(left)
      BY <1>1, <1>6, <2>1, <2>2, UnitLeaves
    <2>4. left.handling = 0
      BY <2>1, <2>2, CopyLeft
    <2>5. phase # "run" \/ stopped \/ Freed(tmp, left.tmp, Len(tmp) - Copies(Last(cont)))
      BY <1>1, <1>6, <2>1, <2>2, UnitCopy DEF TopCont
    <2> HIDE DEF left
    <2>6. Quiet(left, m)
      <3>1. m = left \/ m = SaveReturn(left, parent)
        BY DEF CarryReturn
      <3> HIDE DEF m
      <3> QED BY <2>3, <3>1, QuietOnes
    <2>7. tmp' = left.tmp /\ handling' = 0
      BY <1>6, <2>4, <2>6 DEF Quiet, Become
    <2> HIDE DEF m
    <2> DEFINE t == left.tmp
    <2>8. f \in Seq(ContRec) /\ Calm(t, f, objs, stopped, phase) /\ t \in Seq(Nat)
      <3>1. f \in Seq(ContRec)
        BY <1>1, <1>2, ContFront
      <3>2. Calm(t, f, objs - Uses(Last(cont)), stopped, phase)
        BY <1>1, <1>2, <2>5, CalmPop
      <3>3. t \in Seq(Nat)
        BY <2>3 DEF StacksOK
      <3> QED BY <1>3, <3>1, <3>2, <3>3 DEF TopCont
    <2> HIDE DEF u, exits, f, t
    <2>9. Calm(t, Append(f, Cont(k, Len(tasks), 0)), objs, stopped, phase)
      <3>1. k \in ContKinds /\ k \in {"iter", "try", "each", "use", "pass"} /\ k # "use"
        BY DEF ContKinds, k
      <3> HIDE DEF k
      <3> QED BY <1>2, <2>8, <3>1, CalmWait
    <2>10. Calm(t, cont', objs', stopped', phase')
      BY <1>1, <1>6, <2>8, <2>9
    <2>11. tmp' = t
      BY <2>7 DEF t
    <2> QED BY <1>1, <1>6, <2>7, <2>10, <2>11, CalmMoves
  <1> QED BY <1>4, <1>5, <1>6 DEF Finish

-----------------------------------------------------------------------------
(* run() and the host program.                                             *)

LEMMA RunStartCalm ==
  ASSUME IInv, FitInv, CalmInv, RunStart
  PROVE  CalmInv'
  <1> DEFINE u == Current(Stacks)
             m == Execute(Stacks, u, TRUE)
             c == Cont("exec", u, 0)
             s == <<>>
  <1>1. /\ phase = "ready" /\ phase' = "run" /\ Become(m) /\ cont' = <<c>>
        /\ UNCHANGED <<objs, stopped>>
    BY DEF RunStart
  <1>2. /\ exec = <<Main>> /\ cont = s /\ (stopped \/ tmp = <<>>) /\ handling = 0
        /\ Calm(tmp, cont, objs, stopped, phase)
    BY <1>1 DEF CalmInv, FitInv
  <1>3. u = Main
    BY <1>2 DEF Current, Stacks, Last, Main
  <1>4. StacksOK(Stacks) /\ Stacks.tmp = tmp /\ Stacks.handling = 0
    BY <1>2 DEF IInv, Stacks
  <1>5. u \in DOMAIN Stacks.unit /\ tmp \in Seq(Nat) /\ objs \in Int
    BY <1>4, CurrentOK DEF StacksOK, IInv, RestOK
  <1> HIDE DEF Stacks, u
  <1>6. m.tmp = tmp /\ m.handling = 0
    BY <1>4, <1>5, ExecuteOK, ExecuteFromOK
  <1> HIDE DEF m
  <1>7. c \in ContRec /\ c.k = "exec" /\ c.u = Main
    BY <1>3, FramesAreRecords, KindsAreNamed DEF Main
  <1>8. cont' = Append(s, c) /\ s \in Seq(ContRec)
    BY <1>1
  <1>9. Calm(tmp, s, objs, stopped, "run")
    <2>1. objs = 0
      BY <1>2, UsesNone DEF Calm
    <2> QED BY <1>2, <2>1, CalmNone
  <1> HIDE DEF c, s
  <1>10. Copied(tmp, tmp, c)
    <2>1. Copies(c) = 0 /\ c \notin Copying /\ c \notin Twice /\ Len(tmp) \in Nat
      BY <1>5, <1>7, CopiesOK, LenProperties
    <2> QED BY <1>5, <1>7, <2>1 DEF Copied
  <1>11. Calm(tmp, Append(s, c), objs + Uses(c), stopped, "run")
    BY <1>7, <1>8, <1>9, <1>10, CalmPush
  <1>12. objs + Uses(c) = objs
    BY <1>5, <1>7 DEF Uses
  <1>13. tmp' = tmp /\ handling' = 0
    BY <1>1, <1>6 DEF Become
  <1>14. Calm(tmp, cont, objs, stopped, phase)'
    BY <1>1, <1>8, <1>11, <1>12, <1>13
  <1> QED BY <1>1, <1>13, <1>14 DEF CalmInv

LEMMA RunEndCalm ==
  ASSUME CalmInv, RunEmpty \/ RunReturn
  PROVE  CalmInv'
  <1>1. /\ phase' = "done" /\ UNCHANGED <<tmp, handling, objs, stopped, cont>>
        /\ phase \in {"ready", "run"}
    BY DEF RunEmpty, RunReturn, stacks, CalmInv
  <1>2. cont = <<>>
    BY DEF RunEmpty, RunReturn, CalmInv
  <1>3. stopped \/ tmp = <<>>
    <2>1. CASE phase = "ready"
      BY <2>1 DEF CalmInv
    <2>2. CASE phase = "run" /\ ~stopped
      <3>1. CopiesFit(tmp, <<>>)
        BY <1>2, <2>2 DEF CalmInv, Calm
      <3> QED BY <3>1, CopiesNone
    <2> QED BY <1>1, <2>1, <2>2
  <1>4. Calm(tmp, cont, objs, stopped, "done")
    BY CalmLess DEF CalmInv
  <1> QED BY <1>1, <1>2, <1>3, <1>4 DEF CalmInv

LEMMA NextLineCalm ==
  ASSUME CalmInv, NextLine
  PROVE  CalmInv'
  <1>1. /\ phase = "done" /\ phase' = "ready" /\ ~stopped
        /\ UNCHANGED <<tmp, handling, objs, stopped, cont>>
    BY DEF NextLine, CalmInv
  <1>2. cont = <<>> /\ tmp = <<>>
    BY <1>1 DEF CalmInv
  <1>3. Calm(tmp, cont, objs, stopped, "ready")
    BY CalmLess DEF CalmInv
  <1>4. Calm(tmp, cont, objs, stopped, phase)'
    BY <1>1, <1>3
  <1> QED BY <1>1, <1>2, <1>4 DEF CalmInv

LEMMA DestroyCalm ==
  ASSUME IInv, FitInv, CalmInv, Destroy
  PROVE  CalmInv'
  <1> DEFINE c == Cont("pass", Len(tasks), 0)
             s == <<>>
  <1>1. /\ phase = "done" /\ phase' = "destroy" /\ cont' = <<c>> /\ cont = s
        /\ UNCHANGED <<tmp, handling, objs, stopped>>
    BY DEF Destroy, stacks, CalmInv
  <1>2. /\ tmp \in Seq(Nat) /\ Len(tasks) \in Nat /\ s \in Seq(ContRec)
        /\ cont' = Append(s, c)
    <2>1. tmp \in Seq(Nat)
      BY DEF IInv, Stacks, StacksOK
    <2>2. Len(tasks) \in Nat
      BY LenProperties DEF IInv, RestOK
    <2> QED BY <1>1, <2>1, <2>2
  <1>3. Calm(tmp, s, objs, stopped, "destroy")
    BY <1>1, CalmLess DEF CalmInv
  <1> HIDE DEF s
  <1>4. Calm(tmp, Append(s, c), objs, stopped, "destroy")
    BY <1>2, <1>3, CalmWait DEF ContKinds
  <1>5. Calm(tmp, cont, objs, stopped, phase)'
    BY <1>1, <1>2, <1>4
  <1> QED BY <1>1, <1>5 DEF CalmInv

-----------------------------------------------------------------------------
(* The theorems.                                                           *)

LEMMA InitCalm ==
  ASSUME Init
  PROVE  CalmInv
  <1>1. /\ tmp = <<>> /\ cont = <<>> /\ objs = 0 /\ ~stopped
        /\ phase = "ready" /\ handling = 0
    BY DEF Init
  <1>2. Calm(tmp, <<>>, 0, stopped, phase)
    BY <1>1, CalmNone
  <1> QED BY <1>1, <1>2 DEF CalmInv

LEMMA NextCalm ==
  ASSUME NoThrow, IInv, FitInv, WaitInv, CalmInv, [Next]_vars
  PROVE  CalmInv'
  <1>1. CASE RunStart \/ RunEmpty \/ RunReturn
    BY <1>1, RunStartCalm, RunEndCalm
  \* No exception was handled.
  <1>2. CASE RunResume
    <2>1. handling > 0 /\ handling = 0
      BY <1>2 DEF RunResume, CalmInv
    <2> QED BY <2>1
  <1>3. CASE \E kind \in Callables : Call(kind)
    BY <1>3, CallCalm
  \* No expression throws.
  <1>4. CASE \E kind \in Throwing : Throw(kind)
    <2>1. PICK kind \in Throwing : CanEvaluate(kind)
      BY <1>4 DEF Throw
    <2>2. kind \in Kinds \cup TaskKinds
      BY <2>1 DEF CanEvaluate
    <2> QED BY <2>1, <2>2 DEF NoThrow
  <1>5. CASE CallFunction \/ Access \/ EnterCallee \/ TryCatch
    BY <1>5, CallFunctionCalm, AccessCalm, EnterCalleeCalm, TryCatchCalm
  <1>6. CASE ForLoop \/ ForEach \/ EnterLoop \/ NativeEach
    BY <1>6, ForLoopCalm, ForEachCalm, EnterLoopCalm, NativeEachCalm
  <1>7. CASE Return \/ Break \/ Exit \/ OnExit
    BY <1>7, ReturnCalm, ExitCalm, OnExitCalm
  <1>8. CASE Finish \/ LoopIterate \/ LoopExit
    BY <1>8, FinishCalm, LoopIterateCalm, LoopExitCalm
  <1>9. CASE TryDone \/ EachDone \/ UseDone \/ CatchDone
    BY <1>9, SimpleDoneCalm
  <1>10. CASE EachNext \/ PassNext \/ PassDone
    BY <1>10, EachNextCalm, PassNextCalm, PassDoneCalm
  <1>11. CASE NextLine \/ Destroy
    BY <1>11, NextLineCalm, DestroyCalm
  <1>12. CASE Halt \/ UNCHANGED vars
    <2>1. UNCHANGED <<tmp, cont, objs, stopped, phase, handling>>
      BY <1>12 DEF Halt, vars
    <2> QED BY <2>1 DEF CalmInv
  <1> QED BY <1>1, <1>2, <1>3, <1>4, <1>5, <1>6, <1>7, <1>8, <1>9, <1>10, <1>11, <1>12
          DEF Next, Step, Host

\* A program that throws nothing keeps its copies and its accesses in step
\* with the native stack: the calls and loops in progress own all the copies.
THEOREM CalmInductive == NoThrow => (Spec => [](IInv /\ FitInv /\ CalmInv))
  <1> SUFFICES ASSUME NoThrow
               PROVE  Spec => [](IInv /\ FitInv /\ CalmInv)
    OBVIOUS
  <1>1. Init => CalmInv
    BY InitCalm
  <1>2. IInv /\ FitInv /\ WaitInv /\ CalmInv /\ [Next]_vars => CalmInv'
    BY NextCalm
  <1> QED BY <1>1, <1>2, FitInductive, WaitsInductive, PTL DEF Spec

\* While nothing throws and nothing stopped, tmp_call_stack owns exactly the
\* copies of the calls and loops in progress, also of those whose arguments,
\* iterable or initialiser is still evaluated, in order.
THEOREM CopiesAlwaysMatch == NoThrow => (Spec => []CopiesMatchFrames)
  <1> SUFFICES ASSUME NoThrow
               PROVE  Spec => []CopiesMatchFrames
    OBVIOUS
  <1>1. IInv /\ FitInv /\ CalmInv => CopiesMatchFrames
    <2> SUFFICES ASSUME IInv, FitInv, CalmInv, phase = "run", ~stopped
                 PROVE  /\ Len(tmp) = Made(cont, 1)
                        /\ \A i \in DOMAIN cont :
                             LET top == Len(tmp) - Made(cont, i + 1)
                             IN  /\ cont[i] \in Copying => tmp[top] = Upper(cont[i])
                                 /\ cont[i] \in Twice => tmp[top - 1] = Lower(cont[i])
      BY DEF CopiesMatchFrames
    <2>1. CopiesFit(tmp, cont)
      BY DEF CalmInv, Calm
    <2>2. Len(tmp) = Made(cont, 1)
      <3>1. cont \in Seq(ContRec) /\ tmp \in Seq(Nat) /\ Len(tmp) \in Nat
        BY <2>1, FitNow, LenProperties DEF Running, CopiesFit
      <3>2. Made(cont, 1) \in Nat
        BY <3>1, MadeOK
      <3> QED BY <2>1, <3>1, <3>2 DEF CopiesFit, Beneath
    <2> QED BY <2>1, <2>2 DEF CopiesFit, Beneath
  <1> QED BY <1>1, CalmInductive, PTL

\* Without exceptions object_stack holds exactly the accesses in progress.
THEOREM UsesAlwaysBalanced == NoThrow => (Spec => []UsesBalanced)
  <1> SUFFICES ASSUME NoThrow
               PROVE  Spec => []UsesBalanced
    OBVIOUS
  <1>1. IInv /\ FitInv /\ CalmInv => UsesBalanced
    BY DEF CalmInv, Calm, UsesBalanced
  <1> QED BY <1>1, CalmInductive, PTL

-----------------------------------------------------------------------------
(* After stop(): what the operations on the stacks do to finished units.   *)

\* The units of a set that were finished still are, and have not gone on.
Lasts(m, n, D) ==
  \A u \in D : m.unit[u].fin => n.unit[u].fin /\ n.unit[u].cur <= m.unit[u].cur

LEMMA LastsSame ==
  ASSUME NEW m, StacksOK(m), NEW n, n.unit = m.unit, NEW D, D \subseteq DOMAIN m.unit
  PROVE  Lasts(m, n, D)
  <1>1. ASSUME NEW u \in D PROVE m.unit[u].cur \in Nat
    BY UnitOK DEF UnitRec
  <1>2. ASSUME NEW u \in D PROVE n.unit[u].cur <= m.unit[u].cur
    BY <1>1
  <1> QED BY <1>2 DEF Lasts

\* One operation after another.
LEMMA LastsBoth ==
  ASSUME NEW m, StacksOK(m), NEW n, StacksOK(n), NEW o, StacksOK(o), NEW D,
         D \subseteq DOMAIN m.unit, D \subseteq DOMAIN n.unit, D \subseteq DOMAIN o.unit,
         Lasts(m, n, D), Lasts(n, o, D)
  PROVE  Lasts(m, o, D)
  <1>1. ASSUME NEW u \in D, m.unit[u].fin
        PROVE  o.unit[u].fin /\ o.unit[u].cur <= m.unit[u].cur
    <2>1. /\ n.unit[u].fin /\ n.unit[u].cur <= m.unit[u].cur
          /\ o.unit[u].fin /\ o.unit[u].cur <= n.unit[u].cur
      BY <1>1 DEF Lasts
    <2>2. m.unit[u].cur \in Nat /\ n.unit[u].cur \in Nat /\ o.unit[u].cur \in Nat
      BY UnitOK DEF UnitRec
    <2> QED BY <2>1, <2>2
  <1> QED BY <1>1 DEF Lasts

LEMMA SetUnitLasts ==
  ASSUME NEW m, StacksOK(m), NEW u \in DOMAIN m.unit, NEW r \in UnitRec,
         NEW D, D \subseteq DOMAIN m.unit,
         u \in D /\ m.unit[u].fin => r.fin /\ r.cur <= m.unit[u].cur
  PROVE  Lasts(m, [m EXCEPT !.unit[u] = r], D)
  <1> DEFINE s == [m.unit EXCEPT ![u] = r]
             n == [m EXCEPT !.unit[u] = r]
  <1>1. \A v \in DOMAIN m.unit : s[v] = IF v = u THEN r ELSE m.unit[v]
    BY UnitOK, UpdateUnit
  <1>2. n.unit = s
    BY DEF StacksOK
  <1>3. \A v \in DOMAIN m.unit : m.unit[v].cur <= m.unit[v].cur
    BY UnitOK DEF UnitRec
  <1> HIDE DEF s, n
  <1>4. Lasts(m, n, D)
    BY <1>1, <1>2, <1>3 DEF Lasts
  <1> QED BY <1>4 DEF n

\* A copy is allocated, and nothing else touched.
LEMMA TmpCallableLasts ==
  ASSUME NEW m, StacksOK(m), NEW kind \in UnitKinds, NEW D, D \subseteq DOMAIN m.unit
  PROVE  /\ Lasts(m, TmpCallable(m, kind), D)
         /\ StacksOK(TmpCallable(m, kind)) /\ D \subseteq DOMAIN TmpCallable(m, kind).unit
         /\ Last(TmpCallable(m, kind).tmp) \in DOMAIN TmpCallable(m, kind).unit \ D
  <1> DEFINE n == TmpCallable(m, kind)
             r == NewUnit(kind)
  <1>1. r \in UnitRec
    BY DEF NewUnit, UnitRec
  <1>2. n.unit = Append(m.unit, r) /\ m.unit \in Seq(UnitRec)
    BY DEF TmpCallable, StacksOK
  <1>3. StacksOK(n) /\ Last(n.tmp) \in DOMAIN n.unit /\ Last(n.tmp) \notin DOMAIN m.unit
    BY CopyIsNew
  <1> HIDE DEF r, n
  <1>4. /\ DOMAIN n.unit = 1..(Len(m.unit) + 1) /\ DOMAIN m.unit = 1..Len(m.unit)
        /\ \A u \in 1..Len(m.unit) : n.unit[u] = m.unit[u]
        /\ Len(m.unit) \in Nat
    BY <1>1, <1>2, AppendOK
  <1>5. \A u \in DOMAIN m.unit : m.unit[u].cur <= m.unit[u].cur
    BY UnitOK DEF UnitRec
  <1>6. Lasts(m, n, D)
    BY <1>4, <1>5 DEF Lasts
  <1>7. D \subseteq DOMAIN n.unit
    BY <1>4
  <1> QED BY <1>3, <1>6, <1>7 DEF n

LEMMA EnterScopeLasts ==
  ASSUME NEW m, StacksOK(m), NEW u \in DOMAIN m.unit,
         NEW D, D \subseteq DOMAIN m.unit, u \notin D
  PROVE  /\ Lasts(m, EnterScope(m, u), D)
         /\ StacksOK(EnterScope(m, u)) /\ DOMAIN EnterScope(m, u).unit = DOMAIN m.unit
  <1> DEFINE r == [m.unit[u] EXCEPT !.fin = m.unit[u].ret \/ m.unit[u].brk]
             n == [m EXCEPT !.unit[u] = r]
  <1>1. r \in UnitRec
    <2>1. m.unit[u] \in UnitRec
      BY UnitOK
    <2> QED BY <2>1 DEF UnitRec
  <1>2. EnterScope(m, u).unit = n.unit
    BY DEF EnterScope, StacksOK
  <1> HIDE DEF r
  <1>3. Lasts(m, n, D)
    BY <1>1, SetUnitLasts
  <1> HIDE DEF n
  <1>4. Lasts(m, EnterScope(m, u), D)
    BY <1>2, <1>3 DEF Lasts
  <1> QED BY <1>4, EnterScopeOK DEF Keeps, KeepsBut

\* leave_scope and pop_tmp_callable touch the current unit's kind and value.
LEMMA LeaveScopeLasts ==
  ASSUME NEW m, StacksOK(m), NEW D, D \subseteq DOMAIN m.unit
  PROVE  Lasts(m, LeaveScope(m), D)
  <1> DEFINE u == Current(m)
             r == [m.unit[u] EXCEPT !.ret = FALSE]
             c == [m EXCEPT !.unit[u] = r]
             q == [c.unit[u] EXCEPT !.kind = "freed"]
             d == [c EXCEPT !.unit[u] = q]
             p == PopTmpCallable(c)
             n == [p EXCEPT !.exec = Front(@)]
  <1>1. CASE Len(m.exec) > 1
    <2>1. u \in DOMAIN m.unit
      BY CurrentOK
    <2>2. /\ r \in UnitRec /\ r.kind = m.unit[u].kind /\ r.fin = m.unit[u].fin
          /\ r.cur = m.unit[u].cur /\ r.cur \in Nat
      <3>1. m.unit[u] \in UnitRec
        BY <2>1, UnitOK
      <3> QED BY <3>1 DEF UnitRec
    <2>3. Keeps(m, c) /\ Lasts(m, c, D) /\ c.exec = m.exec
      <3>1. c.exec = m.exec
        BY DEF StacksOK
      <3> HIDE DEF r, u
      <3> QED BY <2>1, <2>2, <3>1, SetUnitOK, SetUnitLasts DEF Keeps
    <2>4. Current(c) = u /\ StacksOK(c) /\ DOMAIN m.unit \subseteq DOMAIN c.unit
      BY <2>3 DEF Current, Keeps, KeepsBut
    <2> HIDE DEF c, u
    <2>5. q \in UnitRec /\ q.fin = c.unit[u].fin /\ q.cur <= c.unit[u].cur
      <3>1. c.unit[u] \in UnitRec
        BY <2>1, <2>4, UnitOK
      <3>2. q \in UnitRec /\ q.fin = c.unit[u].fin /\ q.cur = c.unit[u].cur /\ q.cur \in Nat
        BY <3>1 DEF UnitRec, UnitKinds
      <3> QED BY <3>2
    <2>6. p.unit = d.unit \/ p.unit = c.unit
      BY <2>4 DEF PopTmpCallable, StacksOK
    <2> HIDE DEF q
    <2>7. Lasts(c, d, D) /\ Lasts(c, c, D)
      BY <2>1, <2>4, <2>5, SetUnitLasts, LastsSame
    <2>8. Keeps(c, p)
      BY <2>4, PopTmpCallableOK
    <2> HIDE DEF d, p
    <2>9. n.unit = p.unit
      BY <2>8 DEF Keeps, KeepsBut, StacksOK
    <2>10. LeaveScope(m) = n /\ Keeps(m, n)
      BY <1>1, LeaveScopeOK DEF LeaveScope, c, p, u
    <2> HIDE DEF n
    <2>11. Lasts(c, n, D)
      BY <2>6, <2>7, <2>9 DEF Lasts
    <2>12. StacksOK(n) /\ D \subseteq DOMAIN n.unit /\ D \subseteq DOMAIN c.unit
      BY <2>4, <2>10 DEF Keeps, KeepsBut
    <2>13. Lasts(m, n, D)
      BY <2>3, <2>4, <2>11, <2>12, LastsBoth
    <2> QED BY <2>10, <2>13
  <1>2. CASE ~(Len(m.exec) > 1)
    <2>1. LeaveScope(m) = m
      BY <1>2 DEF LeaveScope
    <2> QED BY <2>1, LastsSame
  <1> QED BY <1>1, <1>2

\* A break and a stop only finish units.
LEMMA StopUnitsLasts ==
  ASSUME NEW m, StacksOK(m), NEW us, NEW b \in BOOLEAN, NEW D, D \subseteq DOMAIN m.unit
  PROVE  /\ Lasts(m, StopUnits(m, us, b), D)
         /\ \A u \in us \cap DOMAIN m.unit : StopUnits(m, us, b).unit[u].fin
  <1> DEFINE n == StopUnits(m, us, b)
  <1>1. n.unit = [u \in DOMAIN m.unit |->
                    IF u \in us THEN [m.unit[u] EXCEPT !.fin = TRUE, !.brk = @ \/ b]
                    ELSE m.unit[u]]
    BY DEF StopUnits, StacksOK
  <1>2. ASSUME NEW u \in DOMAIN m.unit
        PROVE  /\ m.unit[u].fin => n.unit[u].fin
               /\ u \in us => n.unit[u].fin
               /\ n.unit[u].cur <= m.unit[u].cur
    <2> DEFINE x == m.unit[u]
               y == [x EXCEPT !.fin = TRUE, !.brk = @ \/ b]
    <2>1. n.unit[u] = IF u \in us THEN y ELSE x
      BY <1>1, Zenon
    <2>2. y.fin /\ y.cur = x.cur /\ x.cur \in Nat
      <3>1. x \in UnitRec
        BY UnitOK
      <3> HIDE DEF x
      <3> QED BY <3>1 DEF UnitRec
    <2> HIDE DEF y
    <2>3. (x.fin => n.unit[u].fin) /\ (u \in us => n.unit[u].fin)
      BY <2>1, <2>2
    <2>4. n.unit[u].cur = x.cur
      BY <2>1, <2>2
    <2> QED BY <2>2, <2>3, <2>4
  <1> HIDE DEF n
  <1>3. Lasts(m, n, D) /\ \A u \in us \cap DOMAIN m.unit : n.unit[u].fin
    BY <1>2 DEF Lasts
  <1> QED BY <1>3 DEF n

\* So does a returned value.
LEMMA SaveReturnLasts ==
  ASSUME NEW m, StacksOK(m), NEW u \in DOMAIN m.unit, NEW D, D \subseteq DOMAIN m.unit
  PROVE  Lasts(m, SaveReturn(m, u), D)
  <1> DEFINE r == [m.unit[u] EXCEPT !.ret = TRUE, !.fin = TRUE]
             n == [m EXCEPT !.unit[u] = r]
  <1>1. r \in UnitRec /\ r.fin /\ r.cur <= m.unit[u].cur
    <2>1. m.unit[u] \in UnitRec
      BY UnitOK
    <2>2. r \in UnitRec /\ r.fin /\ r.cur = m.unit[u].cur /\ r.cur \in Nat
      BY <2>1 DEF UnitRec
    <2> QED BY <2>2
  <1>2. SaveReturn(m, u) = m \/ SaveReturn(m, u) = n
    BY DEF SaveReturn, StacksOK
  <1> HIDE DEF r
  <1>3. Lasts(m, n, D)
    BY <1>1, SetUnitLasts
  <1> QED BY <1>2, <1>3, LastsSame

\* The cursor of a unit that goes on moves.
LEMMA AdvanceLasts ==
  ASSUME NEW m, StacksOK(m), NEW u \in DOMAIN m.unit, NEW D, D \subseteq DOMAIN m.unit,
         ~m.unit[u].fin
  PROVE  Lasts(m, Advance(m, u), D)
  <1> DEFINE r == [m.unit[u] EXCEPT !.cur = m.unit[u].cur + 1]
             n == [m EXCEPT !.unit[u] = r]
  <1>1. r \in UnitRec
    <2>1. m.unit[u] \in UnitRec
      BY UnitOK
    <2>2. m.unit[u].cur + 1 \in Nat
      BY <2>1 DEF UnitRec
    <2> QED BY <2>1, <2>2 DEF UnitRec
  <1>2. Advance(m, u) = n
    BY DEF Advance, StacksOK
  <1> HIDE DEF r
  <1>3. Lasts(m, n, D)
    BY <1>1, SetUnitLasts
  <1> QED BY <1>2, <1>3

\* A unit executed in its own scope starts afresh, so it must be a new one.
LEMMA ExecuteLasts ==
  ASSUME NEW m, StacksOK(m), NEW u \in DOMAIN m.unit, NEW own \in BOOLEAN,
         NEW D, D \subseteq DOMAIN m.unit, ~own \/ u \notin D
  PROVE  Lasts(m, Execute(m, u, own), D)
  <1> DEFINE e == IF own THEN EnterScope(m, u) ELSE m
             r == [e.unit[u] EXCEPT !.cur = 0]
             n == [e EXCEPT !.unit[u] = r]
             x == Execute(m, u, own)
  <1>1. StacksOK(e) /\ DOMAIN e.unit = DOMAIN m.unit /\ Lasts(m, e, D)
    BY EnterScopeLasts, LastsSame
  <1>2. \/ x = [e EXCEPT !.handling = @ - 1]
        \/ x = e
        \/ x = [e EXCEPT !.unit[u].cur = 0]
    BY DEF Execute
  <1> HIDE DEF e
  <1>3. r \in UnitRec /\ r.fin = e.unit[u].fin /\ r.cur <= e.unit[u].cur
    <2>1. e.unit[u] \in UnitRec
      BY <1>1, UnitOK
    <2>2. /\ r \in UnitRec /\ r.fin = e.unit[u].fin /\ r.cur = 0
          /\ e.unit[u].cur \in Nat
      BY <2>1 DEF UnitRec
    <2> QED BY <2>2
  <1>4. x.unit = e.unit \/ x = n
    <2>1. [e EXCEPT !.handling = @ - 1].unit = e.unit
      BY <1>1 DEF StacksOK
    <2>2. [e EXCEPT !.unit[u].cur = 0] = n
      BY <1>1 DEF StacksOK
    <2> QED BY <1>2, <2>1, <2>2
  <1>5. StacksOK(x) /\ DOMAIN m.unit \subseteq DOMAIN x.unit
    BY ExecuteOK DEF KeepsBut
  <1> HIDE DEF r, x
  <1>6. Lasts(e, n, D)
    BY <1>1, <1>3, SetUnitLasts
  <1>7. Lasts(e, x, D)
    <2>1. x.unit = e.unit => Lasts(e, x, D)
      BY <1>1, LastsSame
    <2> QED BY <1>4, <1>6, <2>1
  <1> HIDE DEF n
  <1>8. Lasts(m, x, D)
    BY <1>1, <1>5, <1>7, LastsBoth
  <1> QED BY <1>8 DEF x

LEMMA InvokeLasts ==
  ASSUME NEW m, StacksOK(m), NEW kind \in UnitKinds, NEW D, D \subseteq DOMAIN m.unit
  PROVE  Lasts(m, Invoke(m, kind), D)
  <1> DEFINE p == TmpCallable(m, kind)
             u == Last(p.tmp)
             n == Execute(p, u, TRUE)
  <1>1. /\ Lasts(m, p, D) /\ StacksOK(p) /\ D \subseteq DOMAIN p.unit
        /\ u \in DOMAIN p.unit /\ u \notin D
    BY TmpCallableLasts
  <1>2. Invoke(m, kind) = n
    BY DEF Invoke
  <1> HIDE DEF p, u
  <1>3. Lasts(p, n, D) /\ StacksOK(n) /\ DOMAIN p.unit \subseteq DOMAIN n.unit
    BY <1>1, ExecuteLasts, ExecuteOK DEF KeepsBut
  <1> HIDE DEF n
  <1>4. D \subseteq DOMAIN n.unit
    BY <1>1, <1>3
  <1>5. Lasts(m, n, D)
    BY <1>1, <1>3, <1>4, LastsBoth
  <1> QED BY <1>2, <1>5

-----------------------------------------------------------------------------
(* After stop(): the actions.                                              *)

\* What was finished on exec_stack stays finished, and goes no further.
FramesLast ==
  \A u \in ToSet(exec) : unit[u].fin => unit'[u].fin /\ unit'[u].cur <= unit[u].cur

LEMMA FramesKnown ==
  ASSUME IInv
  PROVE  /\ StacksOK(Stacks) /\ Stacks.exec = exec /\ Stacks.unit = unit
         /\ ToSet(exec) \subseteq DOMAIN Stacks.unit
         /\ \A u : (\A p \in DOMAIN exec : exec[p] # u) => u \notin ToSet(exec)
         /\ Lasts(Stacks, Stacks, ToSet(exec))
  <1>1. StacksOK(Stacks) /\ Stacks.exec = exec /\ Stacks.unit = unit
    BY DEF IInv, Stacks
  <1> HIDE DEF Stacks
  <1>2. ToSet(exec) \subseteq DOMAIN Stacks.unit
    BY <1>1 DEF StacksOK, ToSet
  <1>3. \A u : (\A p \in DOMAIN exec : exec[p] # u) => u \notin ToSet(exec)
    BY DEF ToSet
  <1>4. Lasts(Stacks, Stacks, ToSet(exec))
    BY <1>1, <1>2, LastsSame
  <1> QED BY <1>1, <1>2, <1>3, <1>4

LEMMA FramesNow ==
  ASSUME IInv, NEW m, Become(m), Lasts(Stacks, m, ToSet(exec))
  PROVE  FramesLast
  <1>1. Stacks.unit = unit /\ unit' = m.unit
    BY FramesKnown DEF Become
  <1> QED BY <1>1 DEF FramesLast, Lasts

LEMMA FramesSame ==
  ASSUME IInv, UNCHANGED unit
  PROVE  FramesLast
  <1>1. Stacks.unit = unit /\ Lasts(Stacks, Stacks, ToSet(exec))
    BY FramesKnown
  <1> QED BY <1>1 DEF FramesLast, Lasts

\* Only a unit that is not finished evaluates an expression.
LEMMA EvaluatedLasts ==
  ASSUME IInv, FitInv, NEW kind, CanEvaluate(kind)
  PROVE  /\ StacksOK(Evaluated) /\ ToSet(exec) \subseteq DOMAIN Evaluated.unit
         /\ Lasts(Stacks, Evaluated, ToSet(exec)) /\ Evaluated.exec = exec
  <1>1. /\ StacksOK(Evaluated) /\ Keeps(Stacks, Evaluated) /\ cont # <<>>
        /\ Evaluated.exec = exec
    BY EvaluatedOK
  <1>2. /\ StacksOK(Stacks) /\ ToSet(exec) \subseteq DOMAIN Stacks.unit /\ Stacks.unit = unit
        /\ Lasts(Stacks, Stacks, ToSet(exec))
    BY FramesKnown
  <1>3. FrameOK(TopCont, unit, tasks)
    BY <1>1, Busy
  <1>4. CASE InUnit
    <2>1. TopCont.u \in DOMAIN unit /\ ~unit[TopCont.u].fin
      BY <1>3, <1>4 DEF CanEvaluate, InUnit, FrameOK
    <2>2. Evaluated = Advance(Stacks, TopCont.u)
      BY <1>4 DEF Evaluated
    <2> HIDE DEF Stacks, TopCont
    <2>3. Lasts(Stacks, Evaluated, ToSet(exec))
      BY <1>2, <2>1, <2>2, AdvanceLasts
    <2> QED BY <1>1, <1>2, <2>3 DEF Keeps, KeepsBut
  <1>5. CASE ~InUnit
    <2>1. Evaluated = Stacks
      BY <1>5 DEF Evaluated
    <2> QED BY <1>1, <1>2, <2>1
  <1> QED BY <1>4, <1>5

\* An expression is evaluated, then comes another operation.
LEMMA EvaluationLasts ==
  ASSUME IInv, FitInv, NEW kind, CanEvaluate(kind),
         NEW m, StacksOK(m), DOMAIN Evaluated.unit \subseteq DOMAIN m.unit, Become(m),
         Lasts(Evaluated, m, ToSet(exec))
  PROVE  FramesLast
  <1>1. /\ StacksOK(Evaluated) /\ ToSet(exec) \subseteq DOMAIN Evaluated.unit
        /\ Lasts(Stacks, Evaluated, ToSet(exec))
    BY EvaluatedLasts
  <1>2. StacksOK(Stacks) /\ ToSet(exec) \subseteq DOMAIN Stacks.unit
    BY FramesKnown
  <1>3. ToSet(exec) \subseteq DOMAIN m.unit
    BY <1>1
  <1>4. Lasts(Stacks, m, ToSet(exec))
    BY <1>1, <1>2, <1>3, LastsBoth
  <1> QED BY <1>4, FramesNow

LEMMA EvaluatedCopies ==
  ASSUME IInv, FitInv, NEW kind, CanEvaluate(kind), NEW new \in UnitKinds,
         Become(TmpCallable(Evaluated, new)) \/ Become(Invoke(Evaluated, new))
  PROVE  FramesLast
  <1> DEFINE e == Evaluated
             p == TmpCallable(e, new)
             x == Invoke(e, new)
  <1>1. StacksOK(e) /\ ToSet(exec) \subseteq DOMAIN e.unit
    BY EvaluatedLasts
  <1> HIDE DEF e
  <1>2. StacksOK(p) /\ Lasts(e, p, ToSet(exec)) /\ DOMAIN e.unit \subseteq DOMAIN p.unit
    BY <1>1, TmpCallableLasts
  <1>3. StacksOK(x) /\ Lasts(e, x, ToSet(exec)) /\ DOMAIN e.unit \subseteq DOMAIN x.unit
    BY <1>1, InvokeLasts, InvokeOK DEF Keeps, KeepsBut
  <1>4. Become(p) \/ Become(x)
    BY DEF e
  <1> HIDE DEF p, x
  <1> QED BY <1>2, <1>3, <1>4, EvaluationLasts DEF e

\* A call, a control block and a loop's body are new copies.
LEMMA CopiesLast ==
  ASSUME IInv, FitInv,
         \/ \E kind \in Callables : Call(kind)
         \/ CallFunction \/ Access \/ TryCatch \/ ForEach
  PROVE  FramesLast
  <1>1. CASE \E kind \in Callables : Call(kind)
    <2>1. PICK kind \in Callables : Call(kind)
      BY <1>1
    <2>2. kind \in UnitKinds /\ CanEvaluate(kind) /\ Become(Invoke(Evaluated, kind))
      BY <2>1 DEF Call, Callables, UnitKinds
    <2> QED BY <2>2, EvaluatedCopies
  <1>2. CASE CallFunction \/ Access
    <2>1. PICK kind : CanEvaluate(kind) /\ Become(TmpCallable(Evaluated, "fn"))
      BY <1>2 DEF CallFunction, Access
    <2> QED BY <2>1, EvaluatedCopies DEF UnitKinds
  <1>3. CASE TryCatch
    <2>1. CanEvaluate("try") /\ Become(Invoke(Evaluated, "try"))
      BY <1>3 DEF TryCatch
    <2> QED BY <2>1, EvaluatedCopies DEF UnitKinds
  <1>4. CASE ForEach
    <2>1. CanEvaluate("foreach") /\ Become(TmpCallable(Evaluated, "body"))
      BY <1>4 DEF ForEach
    <2> QED BY <2>1, EvaluatedCopies DEF UnitKinds
  <1> QED BY <1>1, <1>2, <1>3, <1>4

LEMMA ForLoopLasts ==
  ASSUME IInv, FitInv, ForLoop
  PROVE  FramesLast
  <1> DEFINE D == ToSet(exec)
             e == Evaluated
             p == TmpCallable(e, "proxy")
             u == Last(p.tmp)
             b == TmpCallable(p, "body")
             m == EnterScope(b, u)
  <1>1. CanEvaluate("for") /\ Become(m)
    BY DEF ForLoop
  <1>2. StacksOK(e) /\ D \subseteq DOMAIN e.unit
    BY <1>1, EvaluatedLasts
  <1> HIDE DEF e, D
  <1>3. /\ StacksOK(p) /\ Lasts(e, p, D) /\ u \in DOMAIN p.unit \ D
        /\ DOMAIN e.unit \subseteq DOMAIN p.unit /\ D \subseteq DOMAIN p.unit
    BY <1>2, TmpCallableLasts DEF UnitKinds
  <1> HIDE DEF p, u
  <1>4. /\ StacksOK(b) /\ Lasts(p, b, D)
        /\ DOMAIN p.unit \subseteq DOMAIN b.unit /\ D \subseteq DOMAIN b.unit
    BY <1>3, TmpCallableLasts DEF UnitKinds
  <1> HIDE DEF b
  <1>5. Lasts(b, m, D) /\ StacksOK(m) /\ DOMAIN m.unit = DOMAIN b.unit
    BY <1>3, <1>4, EnterScopeLasts
  <1> HIDE DEF m
  <1>6. Lasts(p, m, D)
    BY <1>3, <1>4, <1>5, LastsBoth
  <1>7. Lasts(e, m, D)
    BY <1>2, <1>3, <1>4, <1>5, <1>6, LastsBoth
  <1>8. DOMAIN e.unit \subseteq DOMAIN m.unit
    BY <1>3, <1>4, <1>5
  <1> QED BY <1>1, <1>5, <1>7, <1>8, EvaluationLasts DEF e, D

\* What is entered is not on exec_stack yet.
LEMMA EnteredLasts ==
  ASSUME IInv, FitInv, WaitInv, EnterCallee \/ EnterLoop
  PROVE  FramesLast
  <1> DEFINE u == Subject(TopCont)
             x == Execute(Stacks, u, TRUE)
             s == EnterScope(Stacks, u)
  <1>1. /\ Running /\ cont # <<>> /\ Waits(TopCont)
        /\ Become(x) \/ Become(s)
    BY DEF EnterCallee, EnterLoop, In, Waits, Subject
  <1>2. u \in DOMAIN unit /\ \A p \in DOMAIN exec : exec[p] # u
    BY <1>1, WaitNew
  <1> HIDE DEF u
  <1>3. /\ StacksOK(Stacks) /\ ToSet(exec) \subseteq DOMAIN Stacks.unit
        /\ u \in DOMAIN Stacks.unit /\ u \notin ToSet(exec)
    BY <1>2, FramesKnown
  <1> HIDE DEF Stacks
  <1>4. Lasts(Stacks, x, ToSet(exec)) /\ Lasts(Stacks, s, ToSet(exec))
    BY <1>3, ExecuteLasts, EnterScopeLasts
  <1> HIDE DEF x, s
  <1> QED BY <1>1, <1>4, FramesNow

\* A callback and an exit task are new copies; an iteration keeps the scope.
LEMMA RepeatedLasts ==
  ASSUME IInv, FitInv, EachNext \/ PassNext \/ LoopIterate
  PROVE  FramesLast
  <1>1. StacksOK(Stacks) /\ ToSet(exec) \subseteq DOMAIN Stacks.unit /\ Stacks.unit = unit
    BY FramesKnown
  <1>2. CASE EachNext \/ PassNext
    <2>1. Become(Invoke(Stacks, "fn")) /\ "fn" \in UnitKinds
      BY <1>2 DEF EachNext, PassNext, UnitKinds
    <2>2. Lasts(Stacks, Invoke(Stacks, "fn"), ToSet(exec))
      BY <1>1, <2>1, InvokeLasts
    <2> QED BY <2>1, <2>2, FramesNow
  <1>3. CASE LoopIterate
    <2>1. cont # <<>> /\ TopCont.k = "loop" /\ Become(Execute(Stacks, TopCont.u, FALSE))
      BY <1>3 DEF LoopIterate, In
    <2>2. TopCont.u \in DOMAIN unit
      BY <2>1, Busy DEF FrameOK
    <2> HIDE DEF Stacks, TopCont
    <2>3. Lasts(Stacks, Execute(Stacks, TopCont.u, FALSE), ToSet(exec))
      BY <1>1, <2>2, ExecuteLasts
    <2> QED BY <2>1, <2>3, FramesNow
  <1> QED BY <1>2, <1>3

LEMMA ReturnLasts ==
  ASSUME IInv, FitInv, Return \/ Break \/ NativeEach
  PROVE  FramesLast
  <1> DEFINE e == Evaluated
             u == Current(Stacks)
             a == SaveReturn(e, u)
             b == StopUnits(e, {u}, TRUE)
  <1>1. PICK kind : CanEvaluate(kind) /\ (Become(a) \/ Become(b) \/ Become(e))
    BY DEF Return, Break, NativeEach
  <1>2. /\ StacksOK(e) /\ ToSet(exec) \subseteq DOMAIN e.unit /\ e.exec = exec
        /\ Lasts(Stacks, e, ToSet(exec))
    BY <1>1, EvaluatedLasts
  <1>3. u \in DOMAIN e.unit
    <2>1. Stacks.exec = exec
      BY FramesKnown
    <2>2. Current(e) = u
      BY <1>2, <2>1 DEF Current
    <2> HIDE DEF u, e
    <2> QED BY <1>2, <2>2, CurrentOK
  <1> HIDE DEF e, u
  <1>4. /\ StacksOK(a) /\ DOMAIN e.unit \subseteq DOMAIN a.unit /\ Lasts(e, a, ToSet(exec))
    BY <1>2, <1>3, SaveReturnOK, SaveReturnLasts DEF Keeps, KeepsBut
  <1>5. /\ StacksOK(b) /\ DOMAIN e.unit \subseteq DOMAIN b.unit /\ Lasts(e, b, ToSet(exec))
    BY <1>2, StopUnitsOK, StopUnitsLasts DEF Keeps, KeepsBut
  <1> HIDE DEF a, b
  <1>6. CASE Become(a) \/ Become(b)
    BY <1>1, <1>4, <1>5, <1>6, EvaluationLasts DEF e
  <1>7. CASE Become(e)
    BY <1>2, <1>7, FramesNow
  <1> QED BY <1>1, <1>6, <1>7

\* stop() finishes every frame, whatever was finished before.
LEMMA ExitLasts ==
  ASSUME IInv, FitInv, Exit
  PROVE  FramesLast /\ (stopped' # stopped => \A u \in ToSet(exec) : unit'[u].fin)
  <1> DEFINE e == Evaluated
             m == StopAll(e)
             n == StopUnits(e, ToSet(exec), FALSE)
  <1>1. CASE Undefined
    <2>1. UNCHANGED unit /\ UNCHANGED stopped
      BY <1>1 DEF Undefined, stacks
    <2> QED BY <2>1, FramesSame
  <1>2. CASE Become(m)
    <2>1. CanEvaluate("exit")
      BY DEF Exit
    <2>2. StacksOK(e) /\ ToSet(exec) \subseteq DOMAIN e.unit /\ e.exec = exec
      BY <2>1, EvaluatedLasts
    <2> HIDE DEF e
    <2>3. m = n
      BY <2>2 DEF StopAll
    <2>4. /\ StacksOK(n) /\ DOMAIN e.unit \subseteq DOMAIN n.unit /\ Lasts(e, n, ToSet(exec))
          /\ \A u \in ToSet(exec) \cap DOMAIN e.unit : n.unit[u].fin
      BY <2>2, StopUnitsOK, StopUnitsLasts DEF Keeps, KeepsBut
    <2> HIDE DEF m, n
    <2>5. Become(n)
      BY <1>2, <2>3
    <2>6. FramesLast
      BY <2>1, <2>4, <2>5, EvaluationLasts DEF e
    <2>7. ASSUME NEW u \in ToSet(exec) PROVE unit'[u].fin
      <3>1. unit' = n.unit
        BY <2>5 DEF Become
      <3>2. u \in ToSet(exec) \cap DOMAIN e.unit
        BY <2>2
      <3> QED BY <2>4, <3>1, <3>2
    <2> QED BY <2>6, <2>7
  <1> QED BY <1>1, <1>2 DEF Exit

LEMMA OnExitLasts ==
  ASSUME IInv, FitInv, OnExit
  PROVE  FramesLast
  <1>1. CASE Undefined
    <2>1. UNCHANGED unit
      BY <1>1 DEF Undefined, stacks
    <2> QED BY <2>1, FramesSame
  <1>2. CASE Become(Evaluated)
    <2>1. Lasts(Stacks, Evaluated, ToSet(exec))
      BY EvaluatedLasts DEF OnExit
    <2> QED BY <1>2, <2>1, FramesNow
  <1> QED BY <1>1, <1>2 DEF OnExit

\* Once stopped, execute() returns as it is, and a loop only leaves scopes.
LEMMA LeavingLasts ==
  ASSUME IInv, stopped, Finish \/ LoopExit
  PROVE  FramesLast
  <1> DEFINE D == ToSet(exec)
             b == LeaveScope(Stacks)
             p == LeaveScope(b)
  <1>1. CASE Finish
    <2>1. UNCHANGED stacks
      BY <1>1 DEF Finish
    <2> QED BY <2>1, FramesSame DEF stacks
  <1>2. CASE LoopExit
    <2>1. Become(b) \/ Become(p)
      BY <1>2 DEF LoopExit
    <2>2. StacksOK(Stacks) /\ D \subseteq DOMAIN Stacks.unit
      BY FramesKnown
    <2>3. /\ StacksOK(b) /\ DOMAIN Stacks.unit \subseteq DOMAIN b.unit
          /\ Lasts(Stacks, b, D)
      BY <2>2, LeaveScopeOK, LeaveScopeLasts DEF Keeps, KeepsBut
    <2> HIDE DEF b, D
    <2>4. D \subseteq DOMAIN b.unit
      BY <2>2, <2>3
    <2>5. /\ StacksOK(p) /\ DOMAIN b.unit \subseteq DOMAIN p.unit /\ Lasts(b, p, D)
      BY <2>3, <2>4, LeaveScopeOK, LeaveScopeLasts DEF Keeps, KeepsBut
    <2> HIDE DEF p
    <2>6. D \subseteq DOMAIN p.unit
      BY <2>4, <2>5
    <2>7. Lasts(Stacks, p, D)
      BY <2>2, <2>3, <2>4, <2>5, <2>6, LastsBoth
    <2> QED BY <2>1, <2>3, <2>7, FramesNow DEF D
  <1> QED BY <1>1, <1>2

\* A program is started and resumed afresh, but not once it stopped.
ReadyInv == phase = "ready" => ~stopped

LEMMA ReadyNext ==
  ASSUME ReadyInv, [Next]_vars
  PROVE  ReadyInv'
  <1>1. CASE NextLine
    BY <1>1 DEF NextLine, ReadyInv
  <1>2. CASE UNCHANGED vars \/ Halt
    BY <1>2 DEF vars, Halt, ReadyInv
  <1>3. CASE Destroy
    BY <1>3 DEF Destroy, ReadyInv
  <1>4. CASE Step
    <2>1. phase' # "ready" \/ UNCHANGED <<phase, stopped>>
      <3>1. CASE RunStart \/ RunEmpty \/ RunResume \/ RunReturn
        BY <3>1 DEF RunStart, RunEmpty, RunResume, RunReturn, Undefined
      <3>2. CASE \E kind \in Callables : Call(kind)
        BY <3>2 DEF Call
      <3>3. CASE \E kind \in Throwing : Throw(kind)
        BY <3>3 DEF Throw, Raise, HandleException, Leave, CanEvaluate, Running
      <3>4. CASE CallFunction \/ Access \/ EnterCallee \/ TryCatch
        BY <3>4 DEF CallFunction, Access, EnterCallee, TryCatch
      <3>5. CASE ForLoop \/ ForEach \/ EnterLoop \/ NativeEach \/ Return \/ Break
        BY <3>5 DEF ForLoop, ForEach, EnterLoop, NativeEach, Return, Break
      <3>6. CASE Exit \/ OnExit
        BY <3>6 DEF Exit, OnExit, Undefined, CanEvaluate, Running
      <3>7. CASE Finish \/ LoopIterate \/ LoopExit \/ TryDone \/ EachNext \/ EachDone
        BY <3>7 DEF Finish, LoopIterate, LoopExit, TryDone, EachNext, EachDone
      <3>8. CASE UseDone \/ CatchDone \/ PassNext
        BY <3>8 DEF UseDone, CatchDone, PassNext
      <3>9. CASE PassDone
        BY <3>9 DEF PassDone, Undefined, Running
      <3> QED BY <1>4, <3>1, <3>2, <3>3, <3>4, <3>5, <3>6, <3>7, <3>8, <3>9 DEF Step
    <2> QED BY <2>1 DEF ReadyInv
  <1> QED BY <1>1, <1>2, <1>3, <1>4 DEF Next, Host

\* Only stop() stops.
LEMMA OnlyExitStops ==
  ASSUME NoThrow, [Next]_vars, ~Exit
  PROVE  stopped' = stopped
  <1>1. CASE RunStart \/ RunEmpty \/ RunResume \/ RunReturn
    BY <1>1 DEF RunStart, RunEmpty, RunResume, RunReturn, Undefined
  <1>2. CASE \E kind \in Callables : Call(kind)
    BY <1>2 DEF Call
  <1>3. CASE \E kind \in Throwing : Throw(kind)
    BY <1>3 DEF Throw
  <1>4. CASE CallFunction \/ Access \/ EnterCallee \/ TryCatch
    BY <1>4 DEF CallFunction, Access, EnterCallee, TryCatch
  <1>5. CASE ForLoop \/ ForEach \/ EnterLoop \/ NativeEach \/ Return \/ Break \/ OnExit
    BY <1>5 DEF ForLoop, ForEach, EnterLoop, NativeEach, Return, Break, OnExit, Undefined
  <1>6. CASE Finish \/ LoopIterate \/ LoopExit \/ TryDone \/ EachNext \/ EachDone
    BY <1>6 DEF Finish, LoopIterate, LoopExit, TryDone, EachNext, EachDone
  <1>7. CASE UseDone \/ CatchDone \/ PassNext \/ PassDone
    BY <1>7 DEF UseDone, CatchDone, PassNext, PassDone, Undefined
  <1>8. CASE NextLine \/ Destroy \/ Halt \/ UNCHANGED vars
    BY <1>8 DEF NextLine, Destroy, Halt, vars
  <1> QED BY <1>1, <1>2, <1>3, <1>4, <1>5, <1>6, <1>7, <1>8 DEF Next, Step, Host

\* Without exceptions no step wakes up what was finished when it stopped.
LEMMA StoppedStep ==
  ASSUME NoThrow, IInv, FitInv, WaitInv, CalmInv, ReadyInv, [Next]_vars, stopped
  PROVE  FramesLast
  <1>1. CASE RunStart \/ NextLine
    BY <1>1 DEF RunStart, NextLine, ReadyInv
  <1>2. CASE RunResume
    <2>1. handling > 0 /\ handling = 0
      BY <1>2 DEF RunResume, CalmInv
    <2> QED BY <2>1
  <1>3. CASE \E kind \in Throwing : Throw(kind)
    <2>1. PICK kind \in Throwing : CanEvaluate(kind)
      BY <1>3 DEF Throw
    <2>2. kind \in Kinds \cup TaskKinds
      BY <2>1 DEF CanEvaluate
    <2> QED BY <2>1, <2>2 DEF NoThrow
  <1>4. CASE (\E kind \in Callables : Call(kind)) \/ CallFunction \/ Access \/ TryCatch \/ ForEach
    BY <1>4, CopiesLast
  <1>5. CASE ForLoop \/ EnterCallee \/ EnterLoop
    BY <1>5, ForLoopLasts, EnteredLasts
  <1>6. CASE EachNext \/ PassNext \/ LoopIterate
    BY <1>6, RepeatedLasts
  <1>7. CASE Return \/ Break \/ NativeEach
    BY <1>7, ReturnLasts
  <1>8. CASE Exit \/ OnExit
    BY <1>8, ExitLasts, OnExitLasts
  <1>9. CASE Finish \/ LoopExit
    BY <1>9, LeavingLasts
  <1>10. CASE TryDone \/ EachDone \/ UseDone \/ CatchDone \/ PassDone
    <2>1. UNCHANGED unit
      BY <1>10 DEF TryDone, EachDone, UseDone, CatchDone, PassDone, Undefined, stacks
    <2> QED BY <2>1, FramesSame
  <1>11. CASE RunEmpty \/ RunReturn \/ Destroy \/ Halt \/ UNCHANGED vars
    <2>1. UNCHANGED unit
      BY <1>11 DEF RunEmpty, RunReturn, Destroy, Halt, stacks, vars
    <2> QED BY <2>1, FramesSame
  <1> QED BY <1>1, <1>2, <1>3, <1>4, <1>5, <1>6, <1>7, <1>8, <1>9, <1>10, <1>11
          DEF Next, Step, Host

\* A program that throws nothing and calls stop() leaves every frame finished
\* where it was, from every depth of calls and loops and whatever the exit
\* tasks, conditions, arguments and callbacks still being evaluated do.
THEOREM NothingRunsAfterStop == NoThrow => (Spec => NothingAfterStop)
  <1> SUFFICES ASSUME NoThrow
               PROVE  Spec => NothingAfterStop
    OBVIOUS
  <1>1. Init => ReadyInv
    BY DEF Init, ReadyInv
  <1>2. ReadyInv /\ [Next]_vars => ReadyInv'
    BY ReadyNext
  <1>3. IInv /\ FitInv /\ WaitInv /\ CalmInv /\ ReadyInv /\ [Next]_vars => StopsFrames
    <2> SUFFICES ASSUME IInv, FitInv, WaitInv, CalmInv, ReadyInv, [Next]_vars
                 PROVE  StopsFrames
      OBVIOUS
    <2>1. ~stopped /\ stopped' => \A u \in ToSet(exec) : unit'[u].fin
      BY ExitLasts, OnlyExitStops
    <2>2. stopped => FramesLast
      BY StoppedStep
    <2> QED BY <2>1, <2>2 DEF StopsFrames, FramesLast
  <1> QED BY <1>1, <1>2, <1>3, CalmInductive, WaitsInductive, PTL DEF NothingAfterStop, Spec

-----------------------------------------------------------------------------
(***************************************************************************)
(* The core implements ExitTasks: exit tasks are started in the order they *)
(* were registered, and none twice, for every program, whatever it throws  *)
(* or stops, as long as its exit tasks themselves do not throw, stop or    *)
(* register.                                                               *)
(***************************************************************************)
\* Exit tasks leave alone the pass that runs them.
TasksBehave == TaskKinds \cap (Throwing \cup {"exit", "on_exit"}) = {}

Passes(cs) == {i \in DOMAIN cs : cs[i].k = "pass"}
SamePasses(cs, ds) == Passes(cs) = Passes(ds) /\ \A i \in Passes(cs) : cs[i] = ds[i]

\* At most one pass is under way: over all of on_exit_tasks, as far as tasks
\* were started.  With none, what was started is what was cleared.
Tasked(cs, ts, rs, kn) ==
  /\ \A i, j \in Passes(cs) : i = j
  /\ \A i \in Passes(cs) : cs[i].u = Len(ts) /\ Len(rs) = kn - Len(ts) + cs[i].n
  /\ Passes(cs) = {} => Len(rs) = kn - Len(ts)

\* Tasks are numbered as they are registered: those cleared, then those on
\* on_exit_tasks; and the first of them are those that were started.
Numbered(ts, rs, kn) ==
  /\ Len(ts) <= kn
  /\ \A i \in DOMAIN ts : ts[i] = kn - Len(ts) + i
  /\ \A i \in DOMAIN rs : rs[i] = i

\* The inductive invariant besides FitInv.
TasksInv ==
  /\ Numbered(tasks, ran, known)
  /\ Tasked(cont, tasks, ran, known)
  /\ phase \notin {"run", "destroy", "undefined"} => Passes(cont) = {}

-----------------------------------------------------------------------------
(* Passes on the native stack.                                             *)

LEMMA TaskedSame ==
  ASSUME NEW cs, NEW ds, SamePasses(cs, ds), NEW ts, NEW rs, NEW kn, Tasked(cs, ts, rs, kn)
  PROVE  Tasked(ds, ts, rs, kn)
  BY DEF SamePasses, Tasked

LEMMA SameTwice ==
  ASSUME NEW cs, NEW ds, NEW es, SamePasses(cs, ds), SamePasses(ds, es)
  PROVE  SamePasses(cs, es)
  BY DEF SamePasses

LEMMA PassPush ==
  ASSUME NEW cs \in Seq(ContRec), NEW c \in ContRec
  PROVE  /\ c.k # "pass" => SamePasses(cs, Append(cs, c))
         /\ c.k = "pass" => /\ Passes(Append(cs, c)) = Passes(cs) \cup {Len(cs) + 1}
                            /\ Append(cs, c)[Len(cs) + 1] = c
         /\ Append(cs, c) \in Seq(ContRec)
  <1> DEFINE s == Append(cs, c)
  <1>1. /\ s \in Seq(ContRec) /\ DOMAIN s = 1..(Len(cs) + 1) /\ DOMAIN cs = 1..Len(cs)
        /\ Len(cs) \in Nat
        /\ \A i \in 1..Len(cs) : s[i] = cs[i]
        /\ s[Len(cs) + 1] = c
    BY ContAppend
  <1> HIDE DEF s
  <1>2. c.k # "pass" => Passes(cs) = Passes(s)
    BY <1>1 DEF Passes
  <1>3. \A i \in Passes(cs) : cs[i] = s[i]
    BY <1>1 DEF Passes
  <1>4. c.k = "pass" => Passes(s) = Passes(cs) \cup {Len(cs) + 1}
    BY <1>1 DEF Passes
  <1> QED BY <1>1, <1>2, <1>3, <1>4 DEF s, SamePasses

LEMMA PassPop ==
  ASSUME NEW cs \in Seq(ContRec), cs # <<>>
  PROVE  /\ Last(cs).k # "pass" => SamePasses(cs, Front(cs))
         /\ Last(cs).k = "pass" => /\ Passes(Front(cs)) = Passes(cs) \ {Len(cs)}
                                   /\ Len(cs) \in Passes(cs) /\ Last(cs) = cs[Len(cs)]
         /\ Front(cs) \in Seq(ContRec) /\ Len(Front(cs)) = Len(cs) - 1 /\ Len(cs) \in Nat
  <1> DEFINE f == Front(cs)
  <1>1. /\ f \in Seq(ContRec) /\ Len(cs) \in Nat \ {0} /\ DOMAIN cs = 1..Len(cs)
        /\ Len(f) = Len(cs) - 1 /\ \A i \in 1..(Len(cs) - 1) : f[i] = cs[i]
        /\ Last(cs) = cs[Len(cs)]
    BY ContFront
  <1>2. DOMAIN f = 1..(Len(cs) - 1)
    BY <1>1, LenProperties
  <1> HIDE DEF f
  <1>3. /\ Last(cs).k # "pass" => Passes(cs) = Passes(f)
        /\ Last(cs).k = "pass" => Passes(f) = Passes(cs) \ {Len(cs)} /\ Len(cs) \in Passes(cs)
    BY <1>1, <1>2 DEF Passes
  <1>4. \A i \in Passes(f) : cs[i] = f[i]
    BY <1>1, <1>2 DEF Passes
  <1> QED BY <1>1, <1>3, <1>4 DEF f, SamePasses

LEMMA PassNone == Passes(<<>>) = {}
  BY DEF Passes

\* With no pass under way a pass over all tasks may begin.
LEMMA PassBegins ==
  ASSUME NEW cs \in Seq(ContRec), NEW c \in ContRec, c.k = "pass", c.n = 0,
         NEW ts, Len(ts) \in Nat, c.u = Len(ts), NEW rs, NEW kn \in Nat, Len(rs) \in Nat,
         Tasked(cs, ts, rs, kn), Passes(cs) = {}
  PROVE  Tasked(Append(cs, c), ts, rs, kn)
  <1> DEFINE s == Append(cs, c)
             top == Len(cs) + 1
  <1>1. Passes(s) = {top} /\ s[top] = c
    BY PassPush
  <1> HIDE DEF s, top
  <1>2. Len(rs) = kn - Len(ts) + c.n
    BY DEF Tasked
  <1>3. Tasked(s, ts, rs, kn)
    BY <1>1, <1>2 DEF Tasked
  <1> QED BY <1>3 DEF s

LEMMA PassAtTop ==
  ASSUME NEW cs \in Seq(ContRec), cs # <<>>, Last(cs).k = "pass",
         NEW ts, NEW rs, NEW kn, Tasked(cs, ts, rs, kn)
  PROVE  /\ Passes(Front(cs)) = {} /\ Passes(cs) = {Len(cs)}
         /\ Last(cs).u = Len(ts) /\ Len(rs) = kn - Len(ts) + Last(cs).n
  BY PassPop DEF Tasked

-----------------------------------------------------------------------------
(* Actions that start and register nothing.                                *)

TasksNow == <<tasks, known, ran>>

LEMMA TasksTyped ==
  ASSUME IInv
  PROVE  /\ Len(tasks) \in Nat /\ Len(ran) \in Nat /\ known \in Nat /\ cont \in Seq(ContRec)
         /\ DOMAIN tasks = 1..Len(tasks) /\ DOMAIN ran = 1..Len(ran)
         /\ tasks \in Seq(Nat) /\ ran \in Seq(Nat)
  <1>1. known \in Nat /\ tasks \in Seq(1..known) /\ ran \in Seq(1..known) /\ cont \in Seq(ContRec)
    BY DEF IInv, RestOK, NativeOK
  <1>2. \A n \in Nat : \A s \in Seq(1..n) : s \in Seq(Nat)
    OBVIOUS
  <1> QED BY <1>1, <1>2, LenProperties

\* The same passes are under way.
LEMMA TasksStay ==
  ASSUME TasksInv, UNCHANGED TasksNow, SamePasses(cont, cont'),
         \/ phase' \in {"run", "destroy", "undefined"}
         \/ UNCHANGED phase
  PROVE  TasksInv'
  <1>1. Tasked(cont', tasks, ran, known)
    BY TaskedSame DEF TasksInv
  <1>2. Passes(cont') = Passes(cont)
    BY DEF SamePasses
  <1> QED BY <1>1, <1>2 DEF TasksInv, TasksNow

\* None is, as none was.
LEMMA TasksNone ==
  ASSUME TasksInv, UNCHANGED TasksNow, Passes(cont) = {}, Passes(cont') = {}
  PROVE  TasksInv'
  BY DEF TasksInv, TasksNow, Tasked

LEMMA TasksPush ==
  ASSUME IInv, TasksInv, UNCHANGED TasksNow, UNCHANGED phase, NEW c \in ContRec, c.k # "pass",
         cont' = Append(cont, c)
  PROVE  TasksInv'
  BY TasksStay, TasksTyped, PassPush

LEMMA TasksPushTwo ==
  ASSUME IInv, TasksInv, UNCHANGED TasksNow, UNCHANGED phase, NEW c \in ContRec, c.k # "pass",
         NEW d \in ContRec, d.k # "pass", cont' = cont \o <<c, d>>
  PROVE  TasksInv'
  <1> DEFINE s == Append(cont, c)
  <1>1. cont \in Seq(ContRec)
    BY TasksTyped
  <1>2. SamePasses(cont, s) /\ s \in Seq(ContRec) /\ cont' = Append(s, d)
    BY <1>1, PassPush, PushTwo
  <1> HIDE DEF s
  <1>3. SamePasses(cont, cont')
    BY <1>2, PassPush, SameTwice
  <1> QED BY <1>3, TasksStay

LEMMA TasksPop ==
  ASSUME IInv, TasksInv, UNCHANGED TasksNow, UNCHANGED phase, cont # <<>>, TopCont.k # "pass",
         cont' = Front(cont)
  PROVE  TasksInv'
  BY TasksStay, TasksTyped, PassPop DEF TopCont

LEMMA TasksSame ==
  ASSUME TasksInv, UNCHANGED TasksNow, UNCHANGED cont,
         phase' \in {"run", "destroy", "undefined"} \/ UNCHANGED phase
  PROVE  TasksInv'
  BY TasksStay DEF SamePasses

\* An "exec" frame for a copy that was just invoked.
LEMMA InvokedFrame ==
  ASSUME NEW m, StacksOK(m), NEW kind \in UnitKinds
  PROVE  /\ Cont("exec", Last(Invoke(m, kind).tmp), 0) \in ContRec
         /\ Cont("exec", Last(Invoke(m, kind).tmp), 0).k = "exec"
  <1> DEFINE next == Invoke(m, kind)
             u == Last(next.tmp)
  <1>1. Keeps(m, next) /\ u \in DOMAIN next.unit
    BY InvokeOK
  <1> HIDE DEF next
  <1>2. u \in Nat
    BY <1>1, UnitIsNat DEF Keeps, KeepsBut
  <1> HIDE DEF u
  <1>3. Cont("exec", u, 0) \in ContRec /\ Cont("exec", u, 0).k = "exec"
    BY <1>2, FramesAreRecords, KindsAreNamed
  <1> QED BY <1>3 DEF u, next

-----------------------------------------------------------------------------
(* What every action does to the tasks.                                    *)

\* An expression, an iteration and a callback add a frame to the native stack.
LEMMA PushedTasks ==
  ASSUME IInv, IInv', TasksInv,
         \/ \E kind \in Callables : Call(kind)
         \/ CallFunction \/ EachNext \/ ForLoop \/ ForEach \/ NativeEach \/ LoopIterate
  PROVE  TasksInv' /\ UNCHANGED TasksNow
  <1>1. UNCHANGED TasksNow /\ UNCHANGED phase
    BY DEF Call, CallFunction, EachNext, ForLoop, ForEach, NativeEach, LoopIterate, TasksNow
  <1>2. \E c : cont' = Append(cont, c) /\ c.k # "pass"
    <2>1. ASSUME NEW k, NEW u, NEW n, k # "pass", cont' = Append(cont, Cont(k, u, n))
          PROVE  \E c : cont' = Append(cont, c) /\ c.k # "pass"
      <3>1. Cont(k, u, n).k = k
        BY DEF Cont
      <3> QED BY <2>1, <3>1
    <2>2. CASE \E kind \in Callables : Call(kind)
      <3>1. PICK kind \in Callables : Call(kind)
        BY <2>2
      <3> QED BY <2>1, <3>1 DEF Call
    <2>3. CASE CallFunction
      BY <2>1, <2>3 DEF CallFunction
    <2>4. CASE EachNext
      BY <2>1, <2>4 DEF EachNext
    <2>5. CASE ForLoop
      BY <2>1, <2>5 DEF ForLoop
    <2>6. CASE ForEach
      BY <2>1, <2>6 DEF ForEach
    <2>7. CASE NativeEach \/ LoopIterate
      BY <2>1, <2>7 DEF NativeEach, LoopIterate
    <2> QED BY <2>2, <2>3, <2>4, <2>5, <2>6, <2>7
  <1>3. PICK c : cont' = Append(cont, c) /\ c.k # "pass"
    BY <1>2
  <1>4. cont \in Seq(ContRec) /\ cont' \in Seq(ContRec)
    BY DEF IInv, NativeOK
  <1>5. c \in ContRec
    <2>1. Len(cont) + 1 \in DOMAIN cont' /\ cont'[Len(cont) + 1] = c
      BY <1>3, <1>4
    <2> QED BY <1>4, <2>1
  <1> QED BY <1>1, <1>3, <1>5, TasksPush

\* An access and a try expression add two.
LEMMA PushedTwoTasks ==
  ASSUME IInv, TasksInv, Access \/ TryCatch
  PROVE  TasksInv' /\ UNCHANGED TasksNow
  <1>1. UNCHANGED TasksNow /\ UNCHANGED phase
    BY DEF Access, TryCatch, TasksNow
  <1>2. StacksOK(Evaluated) /\ "fn" \in UnitKinds /\ "try" \in UnitKinds
    BY EvaluatedOK DEF Access, TryCatch, UnitKinds
  <1>3. CASE Access
    <2> DEFINE c == Cont("use", 0, 0)
               u == Last(TmpCallable(Evaluated, "fn").tmp)
               d == Cont("args", u, 0)
    <2>1. cont' = cont \o <<c, d>>
      BY <1>3 DEF Access
    <2>2. u \in Nat
      BY <1>2, CopyIsNew
    <2> HIDE DEF u
    <2>3. c \in ContRec /\ c.k # "pass" /\ d \in ContRec /\ d.k # "pass"
      BY <2>2, FramesAreRecords, KindsAreNamed
    <2> HIDE DEF c, d
    <2> QED BY <1>1, <2>1, <2>3, TasksPushTwo
  <1>4. CASE TryCatch
    <2> DEFINE c == Cont("try", 0, Len(exec))
               d == Cont("exec", Last(Invoke(Evaluated, "try").tmp), 0)
    <2>1. cont' = cont \o <<c, d>>
      BY <1>4 DEF TryCatch
    <2>2. c \in ContRec /\ c.k # "pass"
      <3>1. Len(exec) \in Nat
        BY ExecKept, LenProperties DEF IInv, Stacks
      <3> QED BY <3>1, FramesAreRecords, KindsAreNamed
    <2>3. d \in ContRec /\ d.k # "pass"
      BY <1>2, InvokedFrame
    <2> HIDE DEF c, d
    <2> QED BY <1>1, <2>1, <2>2, <2>3, TasksPushTwo
  <1> QED BY <1>1, <1>3, <1>4

\* A callee or a loop that waited goes on in another frame.
LEMMA EnteredTasks ==
  ASSUME IInv, IInv', TasksInv, EnterCallee \/ EnterLoop
  PROVE  TasksInv' /\ UNCHANGED TasksNow
  <1> DEFINE f == Front(cont)
  <1>1. UNCHANGED TasksNow /\ UNCHANGED phase /\ cont # <<>> /\ TopCont.k # "pass"
    BY DEF EnterCallee, EnterLoop, In, TasksNow
  <1>2. \E c : cont' = Append(f, c) /\ c.k # "pass"
    <2>1. ASSUME NEW k, NEW u, NEW n, k # "pass", cont' = Append(f, Cont(k, u, n))
          PROVE  \E c : cont' = Append(f, c) /\ c.k # "pass"
      <3>1. Cont(k, u, n).k = k
        BY DEF Cont
      <3> QED BY <2>1, <3>1
    <2>2. CASE EnterCallee
      BY <2>1, <2>2 DEF EnterCallee
    <2>3. CASE EnterLoop
      BY <2>1, <2>3 DEF EnterLoop
    <2> QED BY <2>2, <2>3
  <1>3. PICK c : cont' = Append(f, c) /\ c.k # "pass"
    BY <1>2
  <1>4. cont \in Seq(ContRec) /\ cont' \in Seq(ContRec)
    BY DEF IInv, NativeOK
  <1>5. f \in Seq(ContRec) /\ SamePasses(cont, f)
    BY <1>1, <1>4, PassPop DEF TopCont
  <1> HIDE DEF f
  <1>6. c \in ContRec
    <2>1. Len(f) + 1 \in DOMAIN cont' /\ cont'[Len(f) + 1] = c
      BY <1>3, <1>5
    <2> QED BY <1>4, <2>1
  <1>7. SamePasses(cont, cont')
    BY <1>3, <1>5, <1>6, PassPush, SameTwice
  <1> QED BY <1>1, <1>7, TasksStay

LEMMA DoneTasks ==
  ASSUME IInv, TasksInv, LoopExit \/ TryDone \/ EachDone \/ UseDone \/ CatchDone
  PROVE  TasksInv'
  <1>1. /\ UNCHANGED TasksNow /\ UNCHANGED phase
        /\ cont # <<>> /\ TopCont.k # "pass" /\ cont' = Front(cont)
    BY DEF LoopExit, TryDone, EachDone, UseDone, CatchDone, In, TasksNow
  <1> QED BY <1>1, TasksPop

\* The host moves when nothing runs; stop() is no exit task's to call.
LEMMA HostTasks ==
  ASSUME IInv, TasksInv, RunStart \/ RunEmpty \/ RunResume \/ RunReturn \/ NextLine
  PROVE  TasksInv'
  <1>1. CASE RunStart \/ (RunResume /\ ~Undefined)
    <2> DEFINE c == Cont("exec", Current(Stacks), 0)
               s == <<>>
    <2>1. /\ UNCHANGED TasksNow /\ cont' = <<c>> /\ phase' = "run"
          /\ phase = "ready" \/ cont = s
      BY <1>1 DEF RunStart, RunResume, TasksNow
    <2>2. c.k # "pass" /\ c \in ContRec
      <3>1. Current(Stacks) \in Nat
        BY CurrentOK DEF IInv
      <3> HIDE DEF Stacks
      <3> QED BY <3>1, FramesAreRecords, KindsAreNamed
    <2> HIDE DEF c
    <2>3. s \in Seq(ContRec) /\ Passes(s) = {} /\ <<c>> = Append(s, c)
      BY PassNone
    <2>4. Passes(cont) = {}
      BY <2>1, <2>3 DEF TasksInv
    <2>5. Passes(<<c>>) = {}
      BY <2>2 DEF Passes
    <2> QED BY <2>1, <2>4, <2>5, TasksNone
  <1>2. CASE RunResume /\ Undefined
    BY <1>2, TasksSame DEF Undefined, TasksNow
  <1>3. CASE RunEmpty \/ RunReturn \/ NextLine
    <2>1. /\ UNCHANGED TasksNow /\ UNCHANGED cont
          /\ phase \notin {"run", "destroy", "undefined"} \/ cont = <<>>
      BY <1>3 DEF RunEmpty, RunReturn, NextLine, TasksNow
    <2>2. Passes(cont) = {}
      BY <2>1, PassNone DEF TasksInv
    <2> QED BY <2>1, <2>2, TasksNone
  <1> QED BY <1>1, <1>2, <1>3

\* What an exit task does not evaluate is evaluated outside the passes.
LEMMA NoTaskDoes ==
  ASSUME TasksBehave, NEW kind \in Throwing \cup {"exit", "on_exit"}, CanEvaluate(kind)
  PROVE  Passes(cont) = {} /\ ~InPass
  <1>1. kind \notin TaskKinds
    BY DEF TasksBehave
  <1>2. ~InPass
    BY <1>1 DEF CanEvaluate
  <1> QED BY <1>2 DEF InPass, Passes

LEMMA ThrowTasks ==
  ASSUME IInv, TasksInv, TasksBehave, NEW kind \in Throwing, Throw(kind)
  PROVE  TasksInv'
  <1> DEFINE s == <<>>
  <1>1. Passes(cont) = {} /\ UNCHANGED TasksNow
    BY NoTaskDoes DEF Throw, TasksNow
  <1>2. ASSUME NEW m, StacksOK(m), HandleException(m)
        PROVE  Passes(cont') = {}
    <2> DEFINE r == Restore(PopTmpCallable(m), Last(handlers).depth)
               c == Cont("catch", 0, 0)
               d == Cont("exec", Last(Invoke(r, "catch").tmp), 0)
    <2>1. cont' = <<c, d>>
      BY <1>2 DEF HandleException
    <2>2. c.k # "pass" /\ d.k # "pass"
      BY DEF Cont
    <2> HIDE DEF c, d
    <2> QED BY <2>1, <2>2 DEF Passes
  <1>3. PICK m : StacksOK(m) /\ Raise(m)
    <2>1. StacksOK(Evaluated) /\ StacksOK(TmpCallable(Evaluated, "fn"))
      <3>1. StacksOK(Evaluated)
        BY EvaluatedOK DEF Throw
      <3> HIDE DEF Evaluated
      <3> QED BY <3>1, TmpCallableOK DEF UnitKinds, Keeps, KeepsBut
    <2> QED BY <2>1 DEF Throw
  <1>4. CASE HandleException(m)
    BY <1>1, <1>2, <1>3, <1>4, TasksNone
  <1>5. CASE cont' = <<>>
    BY <1>1, <1>5, PassNone, TasksNone
  <1> QED BY <1>3, <1>4, <1>5 DEF Raise, Leave

\* A pass over all of on_exit_tasks begins.
LEMMA BeginsTasks ==
  ASSUME IInv, TasksInv, UNCHANGED TasksNow, Passes(cont) = {},
         NEW cs \in Seq(ContRec), Passes(cs) = {}, cont' = Append(cs, Cont("pass", Len(tasks), 0)),
         phase' \in {"run", "destroy"}
  PROVE  TasksInv'
  <1> DEFINE c == Cont("pass", Len(tasks), 0)
  <1>1. c \in ContRec /\ c.k = "pass" /\ c.u = Len(tasks) /\ c.n = 0
    <2>1. Len(tasks) \in Nat /\ 0 \in Nat /\ "pass" \in ContKinds
      BY TasksTyped DEF ContKinds
    <2> QED BY <2>1, FramesAreRecords
  <1>2. cont' = Append(cs, c)
    OBVIOUS
  <1> HIDE DEF c
  <1>3. Tasked(cs, tasks, ran, known)
    BY DEF TasksInv, Tasked
  <1>4. Tasked(cont', tasks, ran, known)
    BY <1>1, <1>2, <1>3, TasksTyped, PassBegins
  <1> QED BY <1>4 DEF TasksInv, TasksNow

LEMMA ExitTasksBegin ==
  ASSUME IInv, TasksInv, TasksBehave, Exit
  PROVE  TasksInv'
  <1>1. CASE Undefined
    BY <1>1, TasksSame DEF Undefined, TasksNow
  <1>2. CASE cont' = Append(cont, Cont("pass", Len(tasks), 0)) /\ UNCHANGED phase
    <2>1. Passes(cont) = {} /\ UNCHANGED TasksNow /\ phase \in {"run", "destroy"}
      BY <1>2, NoTaskDoes DEF Exit, TasksNow, Undefined, CanEvaluate, Running
    <2> QED BY <1>2, <2>1, TasksTyped, BeginsTasks
  <1> QED BY <1>1, <1>2 DEF Exit

\* main's end is reached outside the passes: run() executes it alone.
LEMMA FinishTasks ==
  ASSUME IInv, FitInv, TasksInv, Finish
  PROVE  TasksInv'
  <1> DEFINE c == Cont("pass", Len(tasks), 0)
  <1>1. /\ Running /\ cont # <<>> /\ TopCont.k \in {"exec", "iter"} /\ UNCHANGED TasksNow
        /\ cont \in Seq(ContRec)
    BY TasksTyped DEF Finish, InUnit, TasksNow
  <1>2. CASE UNCHANGED phase /\ cont' = Front(cont)
    BY <1>1, <1>2, TasksPop
  <1>3. CASE phase' = "undefined" /\ UNCHANGED cont
    BY <1>1, <1>3, TasksSame
  <1>4. CASE /\ ~stopped /\ TopCont.k = "exec" /\ Len(exec) = 1
             /\ cont' = Append(Front(cont), c) /\ UNCHANGED phase
    <2>1. Len(cont) = 1
      <3>1. StacksOK(Stacks) /\ Stacks.handling = 0 /\ Stacks.exec = exec
        BY <1>1, Busy, FitNow
      <3>2. Len(exec) > Width(TopCont) /\ (TopCont.k = "exec" /\ TopCont.u = Main => Len(cont) = 1)
        BY <1>1, <1>4, <3>1, UnitLeaves
      <3>3. TopCont.u = Main
        <4>1. Width(TopCont) \in 0..2 /\ TopCont \in ContRec
          BY <1>1, Busy, WidthOK
        <4>2. Width(TopCont) = 0
          BY <1>4, <3>2, <4>1
        <4> QED BY <1>4, <4>1, <4>2, WidthOK
      <3> QED BY <1>4, <3>2, <3>3
    <2>2. Passes(cont) = {}
      <3>1. DOMAIN cont = 1..1 /\ TopCont = cont[1]
        BY <1>1, <2>1, LenProperties DEF TopCont, Last
      <3> QED BY <1>4, <3>1 DEF Passes
    <2>3. Front(cont) \in Seq(ContRec) /\ Passes(Front(cont)) = {}
      BY <1>1, <1>4, <2>2, PassPop DEF SamePasses, TopCont
    <2> QED BY <1>1, <1>4, <2>2, <2>3, BeginsTasks DEF Running
  <1> QED BY <1>2, <1>3, <1>4 DEF Finish

LEMMA DestroyTasks ==
  ASSUME IInv, TasksInv, Destroy
  PROVE  TasksInv'
  <1> DEFINE s == <<>>
             c == Cont("pass", Len(tasks), 0)
  <1>1. UNCHANGED TasksNow /\ Passes(cont) = {} /\ phase' = "destroy"
    BY DEF Destroy, TasksInv, TasksNow
  <1>2. cont' = Append(s, c) /\ s \in Seq(ContRec) /\ Passes(s) = {}
    BY PassNone DEF Destroy
  <1> HIDE DEF s
  <1> QED BY <1>1, <1>2, BeginsTasks

LEMMA FlowTasks ==
  ASSUME TasksInv, Return \/ Break \/ Halt \/ UNCHANGED vars
  PROVE  TasksInv'
  BY TasksSame DEF Return, Break, Halt, vars, stacks, TasksNow

-----------------------------------------------------------------------------
(* Registration, and a pass over the tasks.                                *)

LEMMA NumberedMore ==
  ASSUME NEW ts \in Seq(Nat), NEW rs, NEW kn \in Nat, Numbered(ts, rs, kn)
  PROVE  /\ Numbered(Append(ts, kn + 1), rs, kn + 1)
         /\ Len(Append(ts, kn + 1)) = Len(ts) + 1
  <1> DEFINE s == Append(ts, kn + 1)
  <1>1. /\ Len(ts) \in Nat /\ DOMAIN ts = 1..Len(ts)
        /\ Len(s) = Len(ts) + 1 /\ DOMAIN s = 1..(Len(ts) + 1)
        /\ \A i \in 1..Len(ts) : s[i] = ts[i]
        /\ s[Len(ts) + 1] = kn + 1
    BY AppendOK
  <1> HIDE DEF s
  <1>2. Len(s) <= kn + 1
    BY <1>1 DEF Numbered
  <1>3. ASSUME NEW i \in DOMAIN s
        PROVE  s[i] = kn + 1 - Len(s) + i
    <2>1. kn + 1 - Len(s) = kn - Len(ts)
      BY <1>1
    <2>2. CASE i \in 1..Len(ts)
      BY <1>1, <2>1, <2>2 DEF Numbered
    <2>3. CASE i = Len(ts) + 1
      BY <1>1, <2>1, <2>3
    <2> QED BY <1>1, <2>2, <2>3
  <1> QED BY <1>1, <1>2, <1>3 DEF Numbered, s

\* Outside the passes registering a task leaves what was started as it was.
LEMMA OnExitTasks ==
  ASSUME IInv, TasksInv, TasksBehave, OnExit
  PROVE  /\ TasksInv'
         /\ UNCHANGED TasksNow \/ (known' = known + 1 /\ ran' = ran)
  <1>1. Passes(cont) = {}
    BY NoTaskDoes DEF OnExit
  <1>2. ~InPass
    BY NoTaskDoes DEF OnExit
  <1>3. /\ tasks' = Append(tasks, known + 1) /\ known' = known + 1
        /\ UNCHANGED <<ran, cont, phase>>
    BY <1>2 DEF OnExit
  <1>4. Numbered(tasks', ran, known + 1) /\ Len(tasks') = Len(tasks) + 1
    BY <1>3, TasksTyped, NumberedMore DEF TasksInv
  <1>5. Len(ran) = known + 1 - Len(tasks')
    <2>1. Len(ran) = known - Len(tasks) /\ Len(tasks) \in Nat /\ known \in Nat
      BY <1>1, TasksTyped DEF TasksInv, Tasked
    <2> QED BY <1>4, <2>1
  <1>6. Tasked(cont, tasks', ran, known + 1)
    <2> DEFINE ts == tasks'
               kn == known + 1
    <2>1. Len(ran) = kn - Len(ts)
      <3>1. Len(tasks') \in Nat /\ known \in Nat
        BY <1>4, TasksTyped
      <3> QED BY <1>5, <3>1
    <2> HIDE DEF ts, kn
    <2>2. Tasked(cont, ts, ran, kn)
      BY <1>1, <2>1 DEF Tasked
    <2> QED BY <2>2 DEF ts, kn
  <1> QED BY <1>1, <1>3, <1>4, <1>6 DEF TasksInv

\* The next task is started: its number is the next one.
LEMMA PassNextTasks ==
  ASSUME IInv, TasksInv, PassNext
  PROVE  /\ TasksInv'
         /\ Len(ran) < known /\ known' = known /\ ran' = Append(ran, Len(ran) + 1)
  <1> DEFINE c == Cont("pass", TopCont.u, TopCont.n + 1)
             e == Cont("exec", Last(Invoke(Stacks, "fn").tmp), 0)
             f == Front(cont)
             s == Append(f, c)
             t == Append(s, e)
             l == Len(tasks)
             next == TopCont.n + 1
  <1>1. /\ Running /\ cont # <<>> /\ TopCont.k = "pass" /\ TopCont.n < TopCont.u
        /\ ran' = Append(ran, tasks[next]) /\ cont' = f \o <<c, e>>
        /\ UNCHANGED <<tasks, known, phase>>
    BY DEF PassNext, In
  <1>2. e \in ContRec /\ e.k = "exec"
    BY InvokedFrame DEF UnitKinds, IInv
  <1> HIDE DEF e
  <1>3. TopCont.u \in Nat /\ TopCont.n \in Nat /\ next \in Nat
    <2>1. TopCont \in ContRec
      BY <1>1, Busy
    <2> QED BY <2>1 DEF ContRec
  <1>4. c \in ContRec /\ c.k = "pass" /\ c.u = TopCont.u /\ c.n = next
    BY <1>3, FramesAreRecords, KindsAreNamed
  <1> HIDE DEF c
  <1>5. /\ Passes(f) = {} /\ TopCont.u = l /\ Len(ran) = known - l + TopCont.n
        /\ f \in Seq(ContRec)
    BY <1>1, TasksTyped, PassAtTop, PassPop DEF TasksInv, TopCont
  <1> HIDE DEF f
  <1>6. /\ l \in Nat /\ known \in Nat /\ Len(ran) \in Nat
        /\ l <= known /\ tasks[next] = known - l + next
    <2>1. l \in Nat /\ known \in Nat /\ Len(ran) \in Nat /\ DOMAIN tasks = 1..l
      BY TasksTyped
    <2>2. next \in 1..l
      <3>1. TopCont.n < l
        BY <1>1, <1>5
      <3> HIDE DEF l
      <3> QED BY <1>3, <2>1, <3>1
    <2> QED BY <2>1, <2>2 DEF TasksInv, Numbered
  <1>7. tasks[next] = Len(ran) + 1 /\ Len(ran) < known
    <2>1. TopCont.n < l /\ Len(ran) = known - l + TopCont.n
      BY <1>1, <1>5
    <2> HIDE DEF l
    <2> QED BY <1>3, <1>6, <2>1
  <1> HIDE DEF l
  <1>8. ran' = Append(ran, Len(ran) + 1)
    BY <1>1, <1>7
  <1>9. /\ Len(ran') = Len(ran) + 1
        /\ \A i \in DOMAIN ran' : ran'[i] = i
    <2> DEFINE r == ran'
    <2>1. /\ ran \in Seq(Nat) /\ Len(ran) + 1 \in Nat /\ DOMAIN ran = 1..Len(ran)
          /\ Len(ran) \in Nat
      BY TasksTyped
    <2>2. /\ Len(r) = Len(ran) + 1 /\ DOMAIN r = 1..(Len(ran) + 1)
          /\ \A i \in 1..Len(ran) : r[i] = ran[i]
          /\ r[Len(ran) + 1] = Len(ran) + 1
      BY <1>8, <2>1, AppendOK
    <2> HIDE DEF r
    <2>3. \A i \in 1..Len(ran) : ran[i] = i
      BY <2>1 DEF TasksInv, Numbered
    <2>4. \A i \in DOMAIN r : r[i] = i
      BY <2>1, <2>2, <2>3
    <2> QED BY <2>2, <2>4 DEF r
  <1>10. Passes(s) = {Len(f) + 1} /\ s[Len(f) + 1] = c /\ s \in Seq(ContRec)
    BY <1>4, <1>5, PassPush
  <1>11. cont' = t
    BY <1>1, <1>2, <1>4, <1>5, PushTwo
  <1> HIDE DEF s
  <1>12. SamePasses(s, t)
    BY <1>2, <1>10, PassPush
  <1> HIDE DEF t
  <1>13. Tasked(s, tasks, ran', known)
    <2>1. Len(ran') = known - l + next
      <3>1. Len(ran) = known - l + TopCont.n /\ TopCont.n \in Nat /\ known - l \in Int
        BY <1>3, <1>5, <1>6
      <3> QED BY <1>9, <3>1
    <2> QED BY <1>4, <1>5, <1>10, <2>1 DEF Tasked, l
  <1>14. Tasked(cont', tasks, ran', known)
    BY <1>11, <1>12, <1>13, TaskedSame
  <1>15. Numbered(tasks, ran', known)
    BY <1>9 DEF TasksInv, Numbered
  <1> QED BY <1>1, <1>7, <1>8, <1>14, <1>15 DEF TasksInv, Running

\* All tasks were started, so they may be cleared.
LEMMA PassDoneTasks ==
  ASSUME IInv, TasksInv, PassDone
  PROVE  TasksInv' /\ known' = known /\ ran' = ran
  <1> DEFINE f == Front(cont)
  <1>1. CASE Undefined
    BY <1>1, TasksSame DEF Undefined, TasksNow
  <1>2. CASE tasks' = <<>> /\ cont' = f /\ UNCHANGED <<known, ran>>
    <2>1. cont # <<>> /\ TopCont.k = "pass" /\ TopCont.n = TopCont.u
      BY DEF PassDone, In
    <2>2. Passes(f) = {} /\ TopCont.u = Len(tasks) /\ Len(ran) = known - Len(tasks) + TopCont.n
      BY <2>1, TasksTyped, PassAtTop DEF TasksInv, TopCont
    <2> HIDE DEF f
    <2>3. Len(ran) = known - 0
      BY <2>1, <2>2, TasksTyped
    <2> DEFINE s == <<>>
    <2>4. Len(s) = 0 /\ DOMAIN s = {}
      OBVIOUS
    <2> HIDE DEF s
    <2>5. Numbered(s, ran, known) /\ Tasked(f, s, ran, known)
      BY <2>2, <2>3, <2>4, TasksTyped DEF TasksInv, Numbered, Tasked
    <2> QED BY <1>2, <2>2, <2>5 DEF TasksInv, s
  <1> QED BY <1>1, <1>2 DEF PassDone

\* Nothing is started but the next task, nothing registered but one more.
Moves ==
  \/ UNCHANGED <<known, ran>>
  \/ known' = known + 1 /\ ran' = ran
  \/ Len(ran) < known /\ known' = known /\ ran' = Append(ran, Len(ran) + 1)

LEMMA NextTasks ==
  ASSUME IInv, IInv', FitInv, TasksInv, TasksBehave, [Next]_vars
  PROVE  TasksInv' /\ Moves
  <1>1. CASE RunStart \/ RunEmpty \/ RunResume \/ RunReturn \/ NextLine
    BY <1>1, HostTasks DEF RunStart, RunEmpty, RunResume, RunReturn, NextLine, Undefined, Moves
  <1>2. CASE \/ \E kind \in Callables : Call(kind)
             \/ CallFunction \/ EachNext \/ ForLoop \/ ForEach \/ NativeEach \/ LoopIterate
    BY <1>2, PushedTasks DEF Moves, TasksNow
  <1>3. CASE \E kind \in Throwing : Throw(kind)
    BY <1>3, ThrowTasks DEF Throw, Moves
  <1>4. CASE Access \/ TryCatch \/ EnterCallee \/ EnterLoop
    BY <1>4, PushedTwoTasks, EnteredTasks DEF Moves, TasksNow
  <1>5. CASE LoopExit \/ TryDone \/ EachDone \/ UseDone \/ CatchDone
    BY <1>5, DoneTasks DEF LoopExit, TryDone, EachDone, UseDone, CatchDone, Moves
  <1>6. CASE Finish
    BY <1>6, FinishTasks DEF Finish, Moves
  <1>7. CASE Exit
    BY <1>7, ExitTasksBegin DEF Exit, Undefined, Moves
  <1>8. CASE Destroy
    BY <1>8, DestroyTasks DEF Destroy, Moves
  <1>9. CASE Return \/ Break \/ Halt \/ UNCHANGED vars
    BY <1>9, FlowTasks DEF Return, Break, Halt, vars, Moves
  <1>10. CASE OnExit
    BY <1>10, OnExitTasks DEF Moves, TasksNow
  <1>11. CASE PassNext
    BY <1>11, PassNextTasks DEF Moves
  <1>12. CASE PassDone
    BY <1>12, PassDoneTasks DEF Moves
  <1> QED BY <1>1, <1>2, <1>3, <1>4, <1>5, <1>6, <1>7, <1>8, <1>9, <1>10, <1>11, <1>12
          DEF Next, Step, Host

\* Every task is numbered as it was registered; a pass under way has started
\* those up to its mark, and without one what waits is what is registered.
THEOREM TasksInductive == TasksBehave => (Spec => [](IInv /\ FitInv /\ TasksInv))
  <1> SUFFICES ASSUME TasksBehave
               PROVE  Spec => [](IInv /\ FitInv /\ TasksInv)
    OBVIOUS
  <1>1. Init => TasksInv
    <2> SUFFICES ASSUME Init
                 PROVE  TasksInv
      OBVIOUS
    <2> DEFINE s == <<>>
    <2>1. Len(s) = 0 /\ DOMAIN s = {} /\ Passes(s) = {}
      BY PassNone
    <2>2. tasks = s /\ ran = s /\ cont = s /\ known = 0
      BY DEF Init
    <2> HIDE DEF s
    <2> QED BY <2>1, <2>2 DEF TasksInv, Numbered, Tasked
  <1>2. IInv /\ IInv' /\ FitInv /\ TasksInv /\ [Next]_vars => TasksInv'
    BY NextTasks
  <1> QED BY <1>1, <1>2, FitInductive, PTL DEF Spec

-----------------------------------------------------------------------------
(* The refinement.                                                         *)

\* How many of the tasks on on_exit_tasks were started, and what waits.
BegunOf(ts, rs) == Cardinality({i \in DOMAIN ts : ts[i] \in ToSet(rs)})
WaitingOf(ts, rs) == SubSeq(ts, BegunOf(ts, rs) + 1, Len(ts))

\* What waits is what was registered and not started, in order.
LEMMA WaitingIs ==
  ASSUME NEW ts \in Seq(Nat), NEW rs \in Seq(Nat), NEW kn \in Nat, Numbered(ts, rs, kn),
         kn - Len(ts) <= Len(rs), Len(rs) <= kn
  PROVE  WaitingOf(ts, rs) = [i \in 1..(kn - Len(rs)) |-> Len(rs) + i]
  <1> DEFINE b == Len(rs) - (kn - Len(ts))
             l == Len(ts)
             r == Len(rs)
  <1>1. /\ l \in Nat /\ r \in Nat /\ DOMAIN ts = 1..l /\ DOMAIN rs = 1..r
        /\ \A i \in 1..l : ts[i] = kn - l + i
        /\ \A i \in 1..r : rs[i] = i
        /\ l <= kn
    BY LenProperties DEF Numbered
  <1>2. ToSet(rs) = 1..r
    BY <1>1 DEF ToSet
  <1>3. b \in 0..l
    BY <1>1
  <1>4. {i \in DOMAIN ts : ts[i] \in ToSet(rs)} = 1..b
    BY <1>1, <1>2, <1>3
  <1>5. BegunOf(ts, rs) = b
    <2> HIDE DEF b
    <2>1. b \in Int /\ b >= 0
      BY <1>1, <1>3
    <2>2. Cardinality(1..b) = IF 1 > b THEN 0 ELSE b - 1 + 1
      BY <2>1, FS_Interval
    <2>3. Cardinality(1..b) = b
      BY <2>1, <2>2
    <2> QED BY <1>4, <2>3 DEF BegunOf
  <1> DEFINE w == SubSeq(ts, b + 1, l)
             g == [i \in 1..(kn - r) |-> r + i]
  <1>6. Len(w) = kn - r /\ w \in Seq(Nat) /\ \A i \in 1..(kn - r) : w[i] = r + i
    <2>1. /\ w \in Seq(Nat) /\ Len(w) = l - b
          /\ \A i \in 1..(l - b) : w[i] = ts[b + i]
      <3> HIDE DEF b
      <3> DEFINE m == b + 1
      <3>1. m \in 1..(l + 1) /\ l \in (m - 1)..l /\ b \in Nat /\ l - m + 1 = l - b
        BY <1>1, <1>3
      <3>2. \A i \in 1..(l - b) : m + i - 1 = b + i
        BY <1>1, <3>1
      <3> HIDE DEF m
      <3>3. /\ SubSeq(ts, m, l) \in Seq(Nat) /\ Len(SubSeq(ts, m, l)) = l - m + 1
            /\ \A i \in 1..(l - m + 1) : SubSeq(ts, m, l)[i] = ts[m + i - 1]
        BY <3>1, SubSeqProperties
      <3> HIDE DEF l
      <3>4. /\ SubSeq(ts, m, l) \in Seq(Nat) /\ Len(SubSeq(ts, m, l)) = l - b
            /\ \A i \in 1..(l - b) : SubSeq(ts, m, l)[i] = ts[b + i]
        BY <3>1, <3>2, <3>3
      <3> QED BY <3>4 DEF m
    <2> HIDE DEF w
    <2>2. l - b = kn - r
      BY <1>1
    <2>3. \A i \in 1..(l - b) : b + i \in 1..l /\ kn - l + (b + i) = r + i
      BY <1>1, <1>3
    <2> QED BY <1>1, <2>1, <2>2, <2>3
  <1> HIDE DEF w, b
  <1>7. g \in Seq(Nat) /\ Len(g) = kn - r /\ \A i \in 1..(kn - r) : g[i] = r + i
    <2>1. kn - r \in Nat
      BY <1>1
    <2> QED BY <1>1, <2>1
  <1> HIDE DEF g
  <1>8. w = g
    BY <1>6, <1>7, SeqEqual
  <1> QED BY <1>5, <1>8 DEF WaitingOf, w, g, l, r

Following(kn, n) == [i \in 1..(kn - n) |-> n + i]

\* What waits are the numbers after those started, up to the last registered.
Reads ==
  /\ Waiting = Following(known, Len(ran))
  /\ known \in Nat /\ ran \in Seq(Nat) /\ Len(ran) \in Nat /\ Len(ran) <= known

LEMMA WaitingNow ==
  ASSUME IInv, TasksInv
  PROVE  Reads
  <1>1. known - Len(tasks) <= Len(ran) /\ Len(ran) <= known
    <2>1. Len(tasks) \in Nat /\ known \in Nat /\ Len(tasks) <= known
      BY TasksTyped DEF TasksInv, Numbered
    <2>2. CASE Passes(cont) = {}
      BY <2>1, <2>2 DEF TasksInv, Tasked
    <2>3. CASE Passes(cont) # {}
      <3>1. PICK i \in Passes(cont) : TRUE
        BY <2>3
      <3>2. Len(ran) = known - Len(tasks) + cont[i].n /\ cont[i].u = Len(tasks)
        BY <3>1 DEF TasksInv, Tasked
      <3>3. cont[i].n <= cont[i].u /\ cont[i].n \in Nat
        <4>1. i \in DOMAIN cont /\ cont[i].k = "pass"
          BY <3>1 DEF Passes
        <4>2. cont[i] \in ContRec
          BY <4>1, TasksTyped, LenProperties, ElementOfSeq
        <4> QED BY <4>1, <4>2 DEF IInv, NativeOK, FrameOK, ContRec
      <3> QED BY <2>1, <3>2, <3>3
    <2> QED BY <2>2, <2>3
  <1>2. WaitingOf(tasks, ran) = Following(known, Len(ran))
    BY <1>1, TasksTyped, WaitingIs DEF TasksInv, Following
  <1> QED BY <1>1, <1>2, TasksTyped DEF Reads, Waiting, Begun, WaitingOf, BegunOf

LEMMA OneMore ==
  ASSUME NEW kn \in Nat, NEW n \in Nat, n <= kn
  PROVE  Following(kn + 1, n) = Append(Following(kn, n), kn + 1)
  <1> DEFINE s == Following(kn, n)
             t == Following(kn + 1, n)
             a == Append(s, kn + 1)
  <1>1. s \in Seq(Nat) /\ Len(s) = kn - n /\ \A i \in 1..(kn - n) : s[i] = n + i
    <2>1. kn - n \in Nat
      OBVIOUS
    <2> QED BY <2>1 DEF Following
  <1>2. /\ t \in Seq(Nat) /\ Len(t) = kn + 1 - n
        /\ \A i \in 1..(kn + 1 - n) : t[i] = n + i
    <2>1. kn + 1 - n \in Nat
      OBVIOUS
    <2> QED BY <2>1 DEF Following
  <1> HIDE DEF s, t
  <1>3. /\ a \in Seq(Nat) /\ Len(a) = Len(s) + 1
        /\ \A i \in 1..Len(s) : a[i] = s[i]
        /\ a[Len(s) + 1] = kn + 1
    BY <1>1, AppendOK
  <1> HIDE DEF a
  <1>4. \A i \in 1..(kn + 1 - n) : a[i] = t[i]
    <2> TAKE i \in 1..(kn + 1 - n)
    <2>1. CASE i \in 1..(kn - n)
      BY <1>1, <1>2, <1>3, <2>1
    <2>2. CASE i = kn - n + 1
      BY <1>1, <1>2, <1>3, <2>2
    <2> QED BY <2>1, <2>2
  <1>5. Len(a) = kn + 1 - n
    BY <1>1, <1>3
  <1>6. t = a
    BY <1>2, <1>3, <1>4, <1>5, SeqEqual
  <1> QED BY <1>6 DEF s, t, a

LEMMA OneLess ==
  ASSUME NEW kn \in Nat, NEW n \in Nat, n < kn
  PROVE  /\ Following(kn, n) # <<>> /\ Head(Following(kn, n)) = n + 1
         /\ Tail(Following(kn, n)) = Following(kn, n + 1)
  <1> DEFINE s == Following(kn, n)
             t == Following(kn, n + 1)
             a == Tail(s)
  <1>1. s \in Seq(Nat) /\ Len(s) = kn - n /\ \A i \in 1..(kn - n) : s[i] = n + i
    <2>1. kn - n \in Nat
      OBVIOUS
    <2> QED BY <2>1 DEF Following
  <1>2. /\ t \in Seq(Nat) /\ Len(t) = kn - n - 1
        /\ \A i \in 1..(kn - n - 1) : t[i] = n + 1 + i
    <2>1. kn - (n + 1) \in Nat /\ kn - (n + 1) = kn - n - 1
      OBVIOUS
    <2> QED BY <2>1 DEF Following
  <1> HIDE DEF s, t
  <1>3. s # <<>>
    BY <1>1, EmptySeq
  <1>4. /\ Head(s) = s[1] /\ a \in Seq(Nat) /\ Len(a) = Len(s) - 1
        /\ \A i \in 1..(Len(s) - 1) : a[i] = s[i + 1]
    BY <1>1, <1>3, HeadTailProperties
  <1> HIDE DEF a
  <1>5. Head(s) = n + 1
    BY <1>1, <1>4
  <1>6. \A i \in 1..(kn - n - 1) : a[i] = t[i]
    <2> TAKE i \in 1..(kn - n - 1)
    <2>1. i + 1 \in 1..(kn - n)
      OBVIOUS
    <2> QED BY <1>1, <1>2, <1>4, <2>1
  <1>7. a = t
    BY <1>1, <1>2, <1>4, <1>6, SeqEqual
  <1> QED BY <1>3, <1>5, <1>7 DEF s, t, a

\* A step of the interpreter registers a task, starts the first that waits,
\* or changes nothing that ExitTasks can see.
LEMMA MovesRefine ==
  ASSUME Reads, Reads', Moves
  PROVE  [Tasks!Next]_(Tasks!tvars)
  <1>1. CASE UNCHANGED <<known, ran>>
    BY <1>1 DEF Reads, Tasks!tvars
  <1>2. CASE known' = known + 1 /\ ran' = ran
    <2>1. Waiting' = Append(Waiting, known + 1)
      BY <1>2, OneMore DEF Reads
    <2> QED BY <1>2, <2>1 DEF Tasks!Next, Tasks!Register
  <1>3. CASE Len(ran) < known /\ known' = known /\ ran' = Append(ran, Len(ran) + 1)
    <2>1. Waiting # <<>> /\ Head(Waiting) = Len(ran) + 1
      BY <1>3, OneLess DEF Reads
    <2>2. Len(ran') = Len(ran) + 1
      BY <1>3, AppendOK DEF Reads
    <2>3. Waiting' = Tail(Waiting)
      BY <1>3, <2>2, OneLess DEF Reads
    <2> QED BY <1>3, <2>1, <2>3 DEF Tasks!Next, Tasks!Start
  <1> QED BY <1>1, <1>2, <1>3 DEF Moves

\* The execution core implements ExitTasks: an interpreter starts the tasks
\* registered with on_exit() in order and none twice, over main's end, every
\* stop(), every exception handled or not, every REPL line and the destructor.
THEOREM TasksAlwaysInOrder == TasksBehave => (Spec => TasksInOrder)
  <1> SUFFICES ASSUME TasksBehave
               PROVE  Spec => TasksInOrder
    OBVIOUS
  <1>1. Init => Tasks!Init
    <2> SUFFICES ASSUME Init
                 PROVE  Tasks!Init
      OBVIOUS
    <2> DEFINE s == <<>>
    <2>1. s \in Seq(Nat) /\ Len(s) = 0
      OBVIOUS
    <2>2. tasks = s /\ ran = s /\ known = 0
      BY DEF Init
    <2> HIDE DEF s
    <2>3. SubSeq(s, Begun + 1, Len(s)) = <<>>
      <3>1. DOMAIN s = {}
        BY <2>1, LenProperties
      <3>2. {i \in DOMAIN tasks : tasks[i] \in ToSet(ran)} = {}
        BY <2>2, <3>1
      <3>3. Begun = 0
        BY <3>2, FS_EmptySet DEF Begun
      <3> QED BY <2>1, <3>3, SubSeqEmpty
    <2> QED BY <2>2, <2>3 DEF Tasks!Init, Waiting, s
  <1>2. IInv /\ TasksInv => Reads
    BY WaitingNow
  <1>3. IInv /\ IInv' /\ FitInv /\ TasksInv /\ [Next]_vars => Moves
    BY NextTasks
  <1>4. Reads /\ Reads' /\ Moves => [Tasks!Next]_(Tasks!tvars)
    BY MovesRefine
  <1> QED BY <1>1, <1>2, <1>3, <1>4, TasksInductive, PTL DEF Spec, TasksInOrder, Tasks!Spec

-----------------------------------------------------------------------------
(* What ExitTasks says is what it is meant to say.                         *)

ListsTyped == known \in Nat /\ Waiting \in Seq(Nat) /\ ran \in Seq(Nat)

\* The order is kept when a task is moved from one sequence to the other.
LEMMA MoveHead ==
  ASSUME NEW s \in Seq(Nat), NEW t \in Seq(Nat), t # <<>>
  PROVE  /\ Append(s, Head(t)) \o Tail(t) = s \o t
         /\ Append(s, Head(t)) \in Seq(Nat) /\ Tail(t) \in Seq(Nat)
  <1>1. Head(t) \in Nat /\ Tail(t) \in Seq(Nat) /\ Len(Tail(t)) = Len(t) - 1
        /\ \A i \in 1..(Len(t) - 1) : Tail(t)[i] = t[i + 1]
    BY HeadTailProperties
  <1>2. /\ Append(s, Head(t)) \in Seq(Nat) /\ Len(Append(s, Head(t))) = Len(s) + 1
        /\ \A i \in 1..Len(s) : Append(s, Head(t))[i] = s[i]
        /\ Append(s, Head(t))[Len(s) + 1] = t[1]
    BY <1>1, AppendProperties
  <1> QED BY <1>1, <1>2

\* The order is kept when a task is registered.
LEMMA AppendAfter ==
  ASSUME NEW s \in Seq(Nat), NEW t \in Seq(Nat), NEW n \in Nat,
         s \o t = [i \in 1..n |-> i]
  PROVE  s \o Append(t, n + 1) = [i \in 1..(n + 1) |-> i]
  <1>1. Len(s) \in Nat /\ Len(t) \in Nat /\ Len(s) + Len(t) = n
    <2>1. s \o t \in Seq(Nat) /\ Len(s \o t) = Len(s) + Len(t)
      BY ConcatProperties
    <2>2. DOMAIN (s \o t) = 1..n
      OBVIOUS
    <2>3. DOMAIN (s \o t) = 1..(Len(s) + Len(t)) /\ Len(s) \in Nat /\ Len(t) \in Nat
      BY <2>1, LenProperties
    <2> QED BY <2>2, <2>3
  <1> DEFINE a == Append(t, n + 1)
             u == s \o a
             f == [i \in 1..(n + 1) |-> i]
  <1>2. /\ a \in Seq(Nat) /\ Len(a) = Len(t) + 1 /\ a[Len(t) + 1] = n + 1
        /\ \A i \in 1..Len(t) : a[i] = t[i]
    BY <1>1, AppendProperties
  <1>3. \A i \in 1..n : i = IF i <= Len(s) THEN s[i] ELSE t[i - Len(s)]
    <2>1. \A i \in 1..(Len(s) + Len(t)) :
            (s \o t)[i] = IF i <= Len(s) THEN s[i] ELSE t[i - Len(s)]
      BY ConcatProperties
    <2>2. \A i \in 1..n : (s \o t)[i] = i
      OBVIOUS
    <2> QED BY <1>1, <2>1, <2>2
  <1> HIDE DEF a
  <1>4. /\ u \in Seq(Nat) /\ Len(u) = n + 1
        /\ \A i \in 1..(n + 1) : u[i] = IF i <= Len(s) THEN s[i] ELSE a[i - Len(s)]
    BY <1>1, <1>2, ConcatProperties
  <1> HIDE DEF u
  <1>5. \A i \in 1..(n + 1) : u[i] = i
    <2> TAKE i \in 1..(n + 1)
    <2>1. CASE i <= Len(s)
      <3>1. i \in 1..n
        BY <1>1, <2>1
      <3>2. i = s[i]
        BY <1>3, <2>1, <3>1
      <3>3. u[i] = s[i]
        BY <1>4, <2>1
      <3> QED BY <3>2, <3>3
    <2>2. CASE i > Len(s) /\ i <= n
      <3>1. i - Len(s) \in 1..Len(t)
        BY <1>1, <2>2
      <3>2. i \in 1..n /\ ~(i <= Len(s))
        BY <1>1, <2>2
      <3>3. i = t[i - Len(s)]
        BY <1>3, <3>2
      <3>4. u[i] = a[i - Len(s)]
        BY <1>4, <3>2
      <3>5. a[i - Len(s)] = t[i - Len(s)]
        BY <1>2, <3>1
      <3> QED BY <3>3, <3>4, <3>5
    <2>3. CASE i = n + 1
      <3>1. i - Len(s) = Len(t) + 1 /\ i > Len(s)
        BY <1>1, <2>3
      <3> QED BY <1>2, <1>4, <2>3, <3>1
    <2> QED BY <2>1, <2>2, <2>3
  <1>6. u = [i \in 1..(n + 1) |-> i]
    <2>1. f \in [1..(n + 1) -> Nat]
      OBVIOUS
    <2>2. f \in Seq(Nat)
      BY <2>1, SeqDef
    <2>3. DOMAIN f = 1..(n + 1) /\ DOMAIN u = 1..(n + 1) /\ u \in [1..(n + 1) -> Nat]
      BY <1>4, LenProperties
    <2> QED BY <1>5, <2>1, <2>3
  <1> QED BY <1>6 DEF u, a

LEMMA OnceInOrderStep ==
  ASSUME ListsTyped, Tasks!OnceInOrder, [Tasks!Next]_(Tasks!tvars)
  PROVE  ListsTyped' /\ Tasks!OnceInOrder'
  <1>1. CASE Tasks!Register
    <2>1. known' = known + 1 /\ Waiting' = Append(Waiting, known') /\ ran' = ran
      BY <1>1 DEF Tasks!Register
    <2>2. known' \in Nat /\ Waiting' \in Seq(Nat) /\ ran' \in Seq(Nat)
      BY <2>1, AppendProperties DEF ListsTyped
    <2>3. ran \o Append(Waiting, known + 1) = [i \in 1..(known + 1) |-> i]
      BY AppendAfter DEF ListsTyped, Tasks!OnceInOrder
    <2> QED BY <2>1, <2>2, <2>3 DEF ListsTyped, Tasks!OnceInOrder
  <1>2. CASE Tasks!Start
    <2>1. Waiting # <<>> /\ ran' = Append(ran, Head(Waiting)) /\ Waiting' = Tail(Waiting) /\ known' = known
      BY <1>2 DEF Tasks!Start
    <2>2. ran' \o Waiting' = ran \o Waiting /\ ran' \in Seq(Nat) /\ Waiting' \in Seq(Nat)
      BY <2>1, MoveHead DEF ListsTyped
    <2> QED BY <2>1, <2>2 DEF ListsTyped, Tasks!OnceInOrder
  <1>3. CASE UNCHANGED <<known, Waiting, ran>>
    BY <1>3 DEF ListsTyped, Tasks!OnceInOrder
  <1> QED BY <1>1, <1>2, <1>3 DEF Tasks!Next, Tasks!tvars

\* What on_exit promises: every task registered is started once or waits,
\* in the order of registration, however registrations and starts interleave.
THEOREM AlwaysOnceInOrder == Tasks!Spec => []Tasks!OnceInOrder
  <1>1. Tasks!Init => ListsTyped /\ Tasks!OnceInOrder
    BY EmptySeq DEF Tasks!Init, ListsTyped, Tasks!OnceInOrder
  <1> QED BY <1>1, OnceInOrderStep, PTL DEF Tasks!Spec

\* What on_exit does: the tasks started, followed by those that wait on
\* on_exit_tasks, are all tasks registered, each once and in order, whatever
\* the program throws or stops in between.
THEOREM TasksOnceInOrder == TasksBehave => (Spec => []Tasks!OnceInOrder)
  <1> QED BY TasksAlwaysInOrder, AlwaysOnceInOrder DEF TasksInOrder
=============================================================================
