------------------------- MODULE InterpreterFitProofs -------------------------
(***************************************************************************)
(* Proofs about how the stacks of the execution core fit together, for     *)
(* every set of expression kinds and every bound: the scopes the native    *)
(* stack will leave are the top of exec_stack, the handlers of its try     *)
(* expressions are the newest ones, and the depths handlers name increase; *)
(* so leave_scope, rethrown exceptions and the ends of try expressions     *)
(* find what they are about.  From that, what single steps may do: which   *)
(* frames they free, which units they hand a return value, and what that   *)
(* value stops.                                                            *)
(*                                                                         *)
(* Both stacks are read through Under(e, cs, i), the depth of exec_stack   *)
(* under the i-th native frame.  Frames are pushed and popped at the top,  *)
(* which leaves every Under below as it was; an exception replaces the     *)
(* native stack and cuts exec_stack, and what is left of the handlers must *)
(* then lie under the depth it was cut to.                                 *)
(***************************************************************************)
EXTENDS InterpreterProofs, FiniteSetTheorems

Trying == OfKind("try")
Under(e, cs, i) == Len(e) - Owned(cs, i)
\* How many handlers are older than the i-th native frame.
Older(hs, cs, i) == Len(hs) - Count(cs, Trying, i)

\* The scopes of the native stack are those of exec_stack; main is executed
\* by run() alone and is no scope.  Once stopped, scopes are not left.
ScopesFit(e, cs, st) ==
  /\ Under(e, cs, 1) >= 1
  /\ \A p \in 2..Len(e) : e[p] # Main
  /\ \A i \in DOMAIN cs :
       /\ cs[i].k = "exec" /\ cs[i].u = Main => i = 1 /\ (st \/ Under(e, cs, 1) = 1)
       /\ ~st /\ cs[i] \in Entering => e[Under(e, cs, i + 1)] = cs[i].u
       /\ ~st /\ cs[i] \in Proxied => e[Under(e, cs, i + 1) - 1] = cs[i].n

\* The try expressions of the native stack own the newest handlers.
TriesFit(hs, cs) ==
  /\ Older(hs, cs, 1) >= 0
  /\ \A i \in DOMAIN cs :
       cs[i].k = "try" => hs[Older(hs, cs, i + 1)].depth = cs[i].n

\* Handlers of earlier programs are under those of this one.
LinesFit(hs, ln) ==
  /\ \A j \in DOMAIN hs : hs[j].line <= ln
  /\ \A i, j \in DOMAIN hs : i < j => hs[i].line <= hs[j].line

\* Depths are under this: that of the frame under it, which a try expression
\* registers itself.
Room(e, cs, i) == Under(e, cs, i) + (IF i > 1 /\ cs[i - 1].k = "try" THEN 1 ELSE 0)

\* Depths increase, and those older than a native frame are under it.  No
\* unit is on both sides of a depth, between which an exception may cut.
DepthsFit(hs, e, cs, ln) ==
  \A j \in DOMAIN hs : hs[j].line = ln =>
    /\ \A i \in 1..(j - 1) : hs[i].line = ln => hs[i].depth < hs[j].depth
    /\ \A i \in 1..(Len(cs) + 1) : j <= Older(hs, cs, i) => hs[j].depth < Room(e, cs, i)
    /\ \A q \in 1..hs[j].depth, p \in (hs[j].depth + 1)..Len(e) : e[q] # e[p]

\* A scope's unit is nowhere below, but for the unit that run() resumes.
DistinctFit(e, cs) ==
  \A p \in (Under(e, cs, 1) + 1)..Len(e), q \in 1..Len(e) :
    q < p /\ e[q] = e[p] =>
      /\ p = Under(e, cs, 1) + 1
      /\ cs # <<>> /\ cs[1] \in Entering /\ cs[1].k = "exec"

\* All of it, in a phase: the destructor's exit tasks find any depths.
Fit(hs, e, cs, ln, st, ph) ==
  /\ ScopesFit(e, cs, st) /\ TriesFit(hs, cs)
  /\ ph = "run" => DepthsFit(hs, e, cs, ln) /\ DistinctFit(e, cs)

\* The inductive invariant.  A program starts over main alone.
FitInv ==
  /\ LinesFit(handlers, line)
  /\ Running => Fit(handlers, exec, cont, line, stopped, phase)
  /\ \A p \in 2..Len(exec) : exec[p] # Main
  /\ phase = "ready" => /\ exec = <<Main>>
                        /\ \A j \in DOMAIN handlers : handlers[j].line # line

-----------------------------------------------------------------------------
(* Counting native frames.                                                 *)

LEMMA ContAppend ==
  \A s \in Seq(ContRec), c \in ContRec :
     /\ Append(s, c) \in Seq(ContRec) /\ Append(s, c) # <<>>
     /\ Len(s) \in Nat /\ DOMAIN s = 1..Len(s)
     /\ Len(Append(s, c)) = Len(s) + 1 /\ DOMAIN Append(s, c) = 1..(Len(s) + 1)
     /\ \A i \in 1..Len(s) : Append(s, c)[i] = s[i]
     /\ Append(s, c)[Len(s) + 1] = c /\ Last(Append(s, c)) = c
  BY AppendOK

\* A native stack that is not empty is its front with its top pushed.
LEMMA ContFront ==
  ASSUME NEW s \in Seq(ContRec), s # <<>>
  PROVE  /\ Front(s) \in Seq(ContRec) /\ Last(s) \in ContRec
         /\ Len(s) \in Nat \ {0} /\ DOMAIN s = 1..Len(s) /\ Len(Front(s)) = Len(s) - 1
         /\ \A i \in 1..(Len(s) - 1) : Front(s)[i] = s[i]
         /\ Last(s) = s[Len(s)]
         /\ s = Append(Front(s), Last(s))
  <1>1. /\ Front(s) \in Seq(ContRec) /\ Last(s) \in ContRec
        /\ Len(s) \in Nat \ {0} /\ DOMAIN s = 1..Len(s) /\ Len(Front(s)) = Len(s) - 1
        /\ \A i \in 1..(Len(s) - 1) : Front(s)[i] = s[i]
        /\ Last(s) = s[Len(s)]
    BY FrontLast, FrontCont
  <1> DEFINE f == Front(s)
             c == Last(s)
             t == Append(f, c)
  <1>2. /\ t \in Seq(ContRec) /\ Len(t) = Len(s)
        /\ \A i \in 1..(Len(s) - 1) : t[i] = s[i]
        /\ t[Len(s)] = s[Len(s)]
    <2>1. /\ f \in Seq(ContRec) /\ c \in ContRec /\ Len(f) = Len(s) - 1 /\ Len(s) \in Nat \ {0}
          /\ \A i \in 1..(Len(s) - 1) : f[i] = s[i]
          /\ c = s[Len(s)]
      BY <1>1
    <2> HIDE DEF f, c
    <2>2. /\ t \in Seq(ContRec) /\ Len(t) = Len(f) + 1
          /\ \A i \in 1..Len(f) : t[i] = f[i]
          /\ t[Len(f) + 1] = c
      BY <2>1, ContAppend
    <2> HIDE DEF t
    <2> QED BY <2>1, <2>2
  <1> HIDE DEF t
  <1>3. \A i \in 1..Len(s) : t[i] = s[i]
    BY <1>1, <1>2
  <1>4. s = t
    <2>1. s \in Seq(ContRec) /\ t \in Seq(ContRec) /\ Len(s) = Len(t)
      BY <1>1, <1>2
    <2> HIDE DEF f, c
    <2> QED BY <1>3, <2>1, SeqEqual
  <1> QED BY <1>1, <1>4 DEF t

LEMMA CountIsNat ==
  ASSUME NEW s \in Seq(ContRec), NEW K, NEW i \in Nat
  PROVE  /\ Count(s, K, i) \in Nat
         /\ IsFiniteSet({j \in i..Len(s) : s[j] \in K})
         /\ i > Len(s) => Count(s, K, i) = 0
  <1>1. Len(s) \in Nat
    BY LenProperties
  <1>2. IsFiniteSet(i..Len(s))
    BY <1>1, FS_Interval
  <1>3. IsFiniteSet({j \in i..Len(s) : s[j] \in K})
    BY <1>2, FS_Subset
  <1>4. i > Len(s) => {j \in i..Len(s) : s[j] \in K} = {}
    BY <1>1
  <1> QED BY <1>3, <1>4, FS_CardinalityType, FS_EmptySet DEF Count

\* From higher up fewer frames are counted.
LEMMA CountShrinks ==
  ASSUME NEW s \in Seq(ContRec), NEW K, NEW i \in Nat, NEW k \in Nat, i <= k
  PROVE  Count(s, K, k) <= Count(s, K, i)
  <1>1. Len(s) \in Nat
    BY LenProperties
  <1>2. {j \in k..Len(s) : s[j] \in K} \subseteq {j \in i..Len(s) : s[j] \in K}
    BY <1>1
  <1>3. IsFiniteSet({j \in i..Len(s) : s[j] \in K})
    BY CountIsNat
  <1> QED BY <1>2, <1>3, FS_Subset DEF Count

\* A frame is counted from itself downwards.
LEMMA CountDown ==
  ASSUME NEW s \in Seq(ContRec), NEW K, NEW i \in 1..Len(s)
  PROVE  Count(s, K, i) = Count(s, K, i + 1) + (IF s[i] \in K THEN 1 ELSE 0)
  <1> DEFINE A == {j \in (i + 1)..Len(s) : s[j] \in K}
             B == {j \in i..Len(s) : s[j] \in K}
  <1>1. Len(s) \in Nat /\ i \in Nat /\ i + 1 \in Nat
    BY LenProperties
  <1>2. IsFiniteSet(A) /\ Cardinality(A) \in Nat
    BY <1>1, CountIsNat DEF Count
  <1>3. i \notin A
    BY <1>1
  <1>4. CASE s[i] \in K
    <2>1. B = A \cup {i}
      BY <1>1, <1>4
    <2> HIDE DEF A, B
    <2>2. Cardinality(B) = Cardinality(A) + 1
      BY <1>2, <1>3, <2>1, FS_AddElement
    <2> QED BY <1>4, <2>2 DEF Count, A, B
  <1>5. CASE s[i] \notin K
    <2>1. B = A
      BY <1>1, <1>5
    <2> HIDE DEF A, B
    <2>2. Cardinality(B) = Cardinality(A) + 0
      BY <1>2, <2>1
    <2> QED BY <1>5, <2>2 DEF Count, A, B
  <1> QED BY <1>4, <1>5

\* A frame pushed is counted from every one below it.
LEMMA CountAppend ==
  ASSUME NEW s \in Seq(ContRec), NEW c \in ContRec, NEW K, NEW i \in Nat \ {0}, i <= Len(s) + 1
  PROVE  Count(Append(s, c), K, i) = Count(s, K, i) + (IF c \in K THEN 1 ELSE 0)
  <1> DEFINE t == Append(s, c)
             A == {j \in i..Len(s) : s[j] \in K}
             B == {j \in i..Len(t) : t[j] \in K}
  <1>1. /\ t \in Seq(ContRec) /\ Len(s) \in Nat /\ Len(t) = Len(s) + 1
        /\ \A j \in 1..Len(s) : t[j] = s[j]
        /\ t[Len(s) + 1] = c
    BY ContAppend
  <1>2. IsFiniteSet(A) /\ Cardinality(A) \in Nat
    BY CountIsNat DEF Count
  <1>3. Len(s) + 1 \notin A
    BY <1>1
  <1> HIDE DEF t
  <1>4. CASE c \in K
    <2>1. B = A \cup {Len(s) + 1}
      BY <1>1, <1>4
    <2> HIDE DEF A, B
    <2>2. Cardinality(B) = Cardinality(A) + 1
      BY <1>2, <1>3, <2>1, FS_AddElement
    <2> QED BY <1>4, <2>2 DEF Count, A, B, t
  <1>5. CASE c \notin K
    <2>1. B = A
      BY <1>1, <1>5
    <2> HIDE DEF A, B
    <2>2. Cardinality(B) = Cardinality(A) + 0
      BY <1>2, <2>1
    <2> QED BY <1>5, <2>2 DEF Count, A, B, t
  <1> QED BY <1>4, <1>5

-----------------------------------------------------------------------------
(* Scopes and handlers of a native stack.                                  *)

\* The scopes one native frame enters, and how many handlers it owns.
Width(c) == (IF c \in Entering THEN 1 ELSE 0) + (IF c \in Proxied THEN 1 ELSE 0)
Tries(c) == IF c \in Trying THEN 1 ELSE 0

LEMMA WidthOK ==
  ASSUME NEW c \in ContRec
  PROVE  /\ Width(c) \in 0..2 /\ Tries(c) \in 0..1
         /\ c \in Entering <=> Width(c) >= 1
         /\ c \in Proxied <=> Width(c) = 2
         /\ c.k = "try" <=> c \in Trying
         /\ c.k = "try" <=> Tries(c) = 1
         /\ c.k = "try" => Width(c) = 0
         /\ c.k \in {"exec", "loop", "init"} \/ Width(c) = 0
         /\ c.k = "init" => Width(c) = 1
         /\ c.k = "exec" /\ c.u # Main => Width(c) = 1
         /\ c.k = "exec" /\ c.u = Main => Width(c) = 0
         /\ c.k = "loop" => Width(c) = IF c.n = 0 THEN 1 ELSE 2
  BY DEF Width, Tries, Entering, Proxied, Trying, OfKind

LEMMA OwnedOK ==
  ASSUME NEW s \in Seq(ContRec), NEW i \in Nat
  PROVE  /\ Owned(s, i) \in Nat /\ Count(s, Trying, i) \in Nat
         /\ i > Len(s) => Owned(s, i) = 0 /\ Count(s, Trying, i) = 0
         /\ i >= 1 => Owned(s, i) <= Owned(s, 1) /\ Count(s, Trying, i) <= Count(s, Trying, 1)
         /\ i \in 1..Len(s) => /\ Owned(s, i) = Owned(s, i + 1) + Width(s[i])
                               /\ Count(s, Trying, i) = Count(s, Trying, i + 1) + Tries(s[i])
  <1>1. ASSUME NEW K
        PROVE  /\ Count(s, K, i) \in Nat /\ Count(s, K, 1) \in Nat /\ Count(s, K, i + 1) \in Nat
               /\ i > Len(s) => Count(s, K, i) = 0
               /\ i >= 1 => Count(s, K, i) <= Count(s, K, 1)
               /\ i \in 1..Len(s) =>
                    Count(s, K, i) = Count(s, K, i + 1) + (IF s[i] \in K THEN 1 ELSE 0)
    <2>1. i + 1 \in Nat /\ 1 \in Nat
      OBVIOUS
    <2>2. Count(s, K, i) \in Nat /\ Count(s, K, 1) \in Nat /\ Count(s, K, i + 1) \in Nat
      BY <2>1, CountIsNat
    <2>3. i > Len(s) => Count(s, K, i) = 0
      BY CountIsNat
    <2>4. i >= 1 => Count(s, K, i) <= Count(s, K, 1)
      BY <2>1, CountShrinks
    <2>5. i \in 1..Len(s) =>
            Count(s, K, i) = Count(s, K, i + 1) + (IF s[i] \in K THEN 1 ELSE 0)
      BY CountDown
    <2> QED BY <2>2, <2>3, <2>4, <2>5
  <1>2. Owned(s, i) \in Nat /\ Count(s, Trying, i) \in Nat
    BY <1>1 DEF Owned
  <1>3. i > Len(s) => Owned(s, i) = 0 /\ Count(s, Trying, i) = 0
    BY <1>1 DEF Owned
  <1>4. i >= 1 => Owned(s, i) <= Owned(s, 1) /\ Count(s, Trying, i) <= Count(s, Trying, 1)
    <2>1. Count(s, Entering, i) \in Nat /\ Count(s, Entering, 1) \in Nat
          /\ (i >= 1 => Count(s, Entering, i) <= Count(s, Entering, 1))
      BY <1>1
    <2>2. Count(s, Proxied, i) \in Nat /\ Count(s, Proxied, 1) \in Nat
          /\ (i >= 1 => Count(s, Proxied, i) <= Count(s, Proxied, 1))
      BY <1>1
    <2>3. i >= 1 => Count(s, Trying, i) <= Count(s, Trying, 1)
      BY <1>1
    <2> QED BY <2>1, <2>2, <2>3 DEF Owned
  <1>5. i \in 1..Len(s) => /\ Owned(s, i) = Owned(s, i + 1) + Width(s[i])
                           /\ Count(s, Trying, i) = Count(s, Trying, i + 1) + Tries(s[i])
    <2> SUFFICES ASSUME i \in 1..Len(s)
                 PROVE  /\ Owned(s, i) = Owned(s, i + 1) + Width(s[i])
                        /\ Count(s, Trying, i) = Count(s, Trying, i + 1) + Tries(s[i])
      OBVIOUS
    <2>1. /\ Count(s, Entering, i + 1) \in Nat
          /\ Count(s, Entering, i) = Count(s, Entering, i + 1) + (IF s[i] \in Entering THEN 1 ELSE 0)
      BY <1>1
    <2>2. /\ Count(s, Proxied, i + 1) \in Nat
          /\ Count(s, Proxied, i) = Count(s, Proxied, i + 1) + (IF s[i] \in Proxied THEN 1 ELSE 0)
      BY <1>1
    <2>3. Count(s, Trying, i) = Count(s, Trying, i + 1) + Tries(s[i])
      BY <1>1 DEF Tries
    <2> QED BY <2>1, <2>2, <2>3 DEF Owned, Width
  <1> QED BY <1>2, <1>3, <1>4, <1>5

LEMMA OwnedAppend ==
  ASSUME NEW s \in Seq(ContRec), NEW c \in ContRec, NEW i \in 1..(Len(s) + 1)
  PROVE  /\ Owned(Append(s, c), i) = Owned(s, i) + Width(c)
         /\ Count(Append(s, c), Trying, i) = Count(s, Trying, i) + Tries(c)
  <1>1. i \in Nat \ {0} /\ i <= Len(s) + 1
    BY LenProperties
  <1>2. ASSUME NEW K
        PROVE  /\ Count(Append(s, c), K, i) = Count(s, K, i) + (IF c \in K THEN 1 ELSE 0)
               /\ Count(s, K, i) \in Nat
    <2>1. Count(s, K, i) \in Nat
      BY <1>1, CountIsNat
    <2> QED BY <1>1, <2>1, CountAppend
  <1>3. Count(Append(s, c), Trying, i) = Count(s, Trying, i) + Tries(c)
    BY <1>2 DEF Tries
  <1>4. /\ Count(s, Entering, i) \in Nat
        /\ Count(Append(s, c), Entering, i) = Count(s, Entering, i) + (IF c \in Entering THEN 1 ELSE 0)
    BY <1>2
  <1>5. /\ Count(s, Proxied, i) \in Nat
        /\ Count(Append(s, c), Proxied, i) = Count(s, Proxied, i) + (IF c \in Proxied THEN 1 ELSE 0)
    BY <1>2
  <1> QED BY <1>3, <1>4, <1>5 DEF Owned, Width

LEMMA OwnedFront ==
  ASSUME NEW s \in Seq(ContRec), s # <<>>, NEW i \in 1..Len(s)
  PROVE  /\ Owned(Front(s), i) = Owned(s, i) - Width(Last(s))
         /\ Count(Front(s), Trying, i) = Count(s, Trying, i) - Tries(Last(s))
  <1>1. /\ Front(s) \in Seq(ContRec) /\ Last(s) \in ContRec
        /\ s = Append(Front(s), Last(s)) /\ Len(Front(s)) = Len(s) - 1 /\ Len(s) \in Nat
    BY ContFront
  <1>2. i \in 1..(Len(Front(s)) + 1) /\ i \in Nat
    BY <1>1
  <1>3. /\ Owned(s, i) = Owned(Front(s), i) + Width(Last(s))
        /\ Count(s, Trying, i) = Count(Front(s), Trying, i) + Tries(Last(s))
    BY <1>1, <1>2, OwnedAppend
  <1>4. /\ Owned(Front(s), i) \in Nat /\ Count(Front(s), Trying, i) \in Nat
        /\ Width(Last(s)) \in 0..2 /\ Tries(Last(s)) \in 0..1
    BY <1>1, <1>2, OwnedOK, WidthOK
  <1> QED BY <1>3, <1>4

-----------------------------------------------------------------------------
(* What a step does to exec_stack and the native stack.                    *)

\* f is e with the scopes of a native frame entered, by units that are new.
Enters(e, f, c) ==
  /\ e \in Seq(Nat) /\ f \in Seq(Nat) /\ c \in ContRec
  /\ Len(f) = Len(e) + Width(c)
  /\ \A p \in 1..Len(e) : f[p] = e[p]
  /\ c \in Entering => f[Len(f)] = c.u
  /\ c \in Proxied => f[Len(f) - 1] = c.n
\* The units entered are new.
Fresh(e, f) ==
  \A p \in (Len(e) + 1)..Len(f) : f[p] # Main /\ \A q \in 1..(p - 1) : f[q] # f[p]
\* f is e cut back to a depth.
Cuts(e, f, d) ==
  /\ e \in Seq(Nat) /\ f \in Seq(Nat) /\ d \in 1..Len(e) /\ Len(f) = d
  /\ \A p \in 1..d : f[p] = e[p]

LEMMA UnderEntered ==
  ASSUME NEW e, NEW f, NEW c, NEW cs \in Seq(ContRec), Enters(e, f, c)
  PROVE  /\ \A i \in 1..(Len(cs) + 1) :
              /\ Under(f, Append(cs, c), i) = Under(e, cs, i)
              /\ Under(e, cs, i) \in Int
         /\ Under(f, Append(cs, c), Len(cs) + 2) = Len(f)
         /\ Under(e, cs, Len(cs) + 1) = Len(e)
         /\ Len(cs) \in Nat /\ Len(e) \in Nat /\ Len(f) \in Nat /\ Width(c) \in 0..2
  <1>1. /\ Len(cs) \in Nat /\ Len(e) \in Nat /\ Len(f) \in Nat /\ Width(c) \in 0..2
        /\ c \in ContRec /\ Len(f) = Len(e) + Width(c)
    BY LenProperties, WidthOK DEF Enters
  <1>2. Append(cs, c) \in Seq(ContRec) /\ Len(Append(cs, c)) = Len(cs) + 1
    BY <1>1, ContAppend
  <1>3. Owned(cs, Len(cs) + 1) = 0 /\ Owned(Append(cs, c), Len(cs) + 2) = 0
    <2> DEFINE t == Append(cs, c)
    <2>1. t \in Seq(ContRec) /\ Len(t) = Len(cs) + 1
      BY <1>2
    <2> HIDE DEF t
    <2>2. Len(cs) + 1 \in Nat /\ Len(cs) + 2 \in Nat
      BY <1>1
    <2>3. Owned(cs, Len(cs) + 1) = 0
      BY <1>1, <2>2, OwnedOK
    <2>4. Owned(t, Len(cs) + 2) = 0
      BY <1>1, <2>1, <2>2, OwnedOK
    <2> QED BY <2>3, <2>4 DEF t
  <1>4. ASSUME NEW i \in 1..(Len(cs) + 1)
        PROVE  /\ Under(f, Append(cs, c), i) = Under(e, cs, i)
               /\ Under(e, cs, i) \in Int
    <2>1. Owned(Append(cs, c), i) = Owned(cs, i) + Width(c)
      BY <1>1, OwnedAppend
    <2>2. Owned(cs, i) \in Nat
      BY <1>1, OwnedOK
    <2> QED BY <1>1, <2>1, <2>2 DEF Under
  <1> QED BY <1>1, <1>3, <1>4 DEF Under

LEMMA UnderLeft ==
  ASSUME NEW e, NEW f, NEW cs \in Seq(ContRec), cs # <<>>,
         Cuts(e, f, Len(e) - Width(Last(cs)))
  PROVE  \A i \in 1..Len(cs) : /\ Under(f, Front(cs), i) = Under(e, cs, i)
                               /\ Under(e, cs, i) \in Int
  <1>1. /\ Len(e) \in Nat /\ Len(f) \in Nat /\ Len(f) = Len(e) - Width(Last(cs))
        /\ Width(Last(cs)) \in 0..2 /\ Len(cs) \in Nat
    BY LenProperties, ContFront, WidthOK DEF Cuts
  <1> SUFFICES ASSUME NEW i \in 1..Len(cs)
               PROVE  /\ Under(f, Front(cs), i) = Under(e, cs, i)
                      /\ Under(e, cs, i) \in Int
    OBVIOUS
  <1>2. Owned(Front(cs), i) = Owned(cs, i) - Width(Last(cs))
    BY OwnedFront
  <1>3. Owned(cs, i) \in Nat
    BY <1>1, OwnedOK
  <1> QED BY <1>1, <1>2, <1>3 DEF Under

LEMMA UnderRange ==
  ASSUME NEW e \in Seq(Nat), NEW cs \in Seq(ContRec), NEW st, ScopesFit(e, cs, st)
  PROVE  /\ Len(e) \in Nat \ {0} /\ Len(cs) \in Nat /\ DOMAIN cs = 1..Len(cs)
         /\ \A i \in 1..(Len(cs) + 1) :
              /\ Under(e, cs, i) \in 1..Len(e) /\ Under(e, cs, 1) <= Under(e, cs, i)
         /\ Under(e, cs, Len(cs) + 1) = Len(e)
         /\ \A i \in 1..Len(cs) : /\ Under(e, cs, i + 1) = Under(e, cs, i) + Width(cs[i])
                                  /\ cs[i] \in ContRec /\ Width(cs[i]) \in 0..2
  <1>1. Len(e) \in Nat /\ Len(cs) \in Nat /\ DOMAIN cs = 1..Len(cs)
    BY LenProperties
  <1>2. ASSUME NEW i \in 1..(Len(cs) + 1)
        PROVE  Under(e, cs, i) \in 1..Len(e) /\ Under(e, cs, 1) <= Under(e, cs, i)
    <2>1. Owned(cs, i) \in Nat /\ Owned(cs, 1) \in Nat /\ Owned(cs, i) <= Owned(cs, 1)
      BY <1>1, OwnedOK
    <2> QED BY <1>1, <2>1 DEF Under, ScopesFit
  <1>3. Owned(cs, Len(cs) + 1) = 0
    BY <1>1, OwnedOK
  <1>4. ASSUME NEW i \in 1..Len(cs)
        PROVE  /\ Under(e, cs, i + 1) = Under(e, cs, i) + Width(cs[i])
               /\ cs[i] \in ContRec /\ Width(cs[i]) \in 0..2
    <2>1. cs[i] \in ContRec /\ Width(cs[i]) \in 0..2
      BY ElementOfSeq, WidthOK
    <2>2. Owned(cs, i) = Owned(cs, i + 1) + Width(cs[i])
      BY OwnedOK
    <2>3. Owned(cs, i + 1) \in Nat
      BY <1>1, OwnedOK
    <2> QED BY <1>1, <2>1, <2>2, <2>3 DEF Under
  <1>5. Len(e) # 0
    BY <1>1, <1>2
  <1> QED BY <1>1, <1>2, <1>3, <1>4, <1>5 DEF Under

-----------------------------------------------------------------------------
(* Scopes fit: a frame pushed, popped, or all of them left.                *)

LEMMA ScopesPush ==
  ASSUME NEW e, NEW f, NEW c, NEW cs \in Seq(ContRec), NEW st \in BOOLEAN,
         ScopesFit(e, cs, st), Enters(e, f, c),
         \A p \in (Len(e) + 1)..Len(f) : f[p] # Main,
         c.k = "exec" /\ c.u = Main => cs = <<>> /\ Len(e) = 1
  PROVE  ScopesFit(f, Append(cs, c), st)
  <1> DEFINE t == Append(cs, c)
  <1>1. /\ e \in Seq(Nat) /\ f \in Seq(Nat) /\ c \in ContRec
        /\ \A p \in 1..Len(e) : f[p] = e[p]
        /\ Len(f) = Len(e) + Width(c)
    BY DEF Enters
  <1>2. /\ \A i \in 1..(Len(cs) + 1) : Under(f, t, i) = Under(e, cs, i)
        /\ Under(f, t, Len(cs) + 2) = Len(f)
        /\ Len(cs) \in Nat /\ Len(e) \in Nat \ {0} /\ Len(f) \in Nat /\ Width(c) \in 0..2
        /\ \A i \in 1..(Len(cs) + 1) : Under(e, cs, i) \in 1..Len(e)
        /\ \A i \in 1..Len(cs) : Under(e, cs, i + 1) = Under(e, cs, i) + Width(cs[i])
                                 /\ cs[i] \in ContRec
        /\ Under(e, cs, Len(cs) + 1) = Len(e)
    BY <1>1, UnderEntered, UnderRange
  <1>3. /\ DOMAIN t = 1..(Len(cs) + 1) /\ t[Len(cs) + 1] = c
        /\ \A i \in 1..Len(cs) : t[i] = cs[i]
        /\ DOMAIN cs = 1..Len(cs)
    BY <1>1, ContAppend
  <1> HIDE DEF t
  <1>4. Under(f, t, 1) >= 1
    BY <1>2
  <1>5. \A p \in 2..Len(f) : f[p] # Main
    BY <1>1, <1>2 DEF ScopesFit
  <1>6. ASSUME NEW i \in 1..Len(cs)
        PROVE  /\ t[i].k = "exec" /\ t[i].u = Main => i = 1 /\ (st \/ Under(f, t, 1) = 1)
               /\ ~st /\ t[i] \in Entering => f[Under(f, t, i + 1)] = t[i].u
               /\ ~st /\ t[i] \in Proxied => f[Under(f, t, i + 1) - 1] = t[i].n
    <2>1. t[i] = cs[i] /\ Under(f, t, i + 1) = Under(e, cs, i + 1) /\ Under(f, t, 1) = Under(e, cs, 1)
          /\ Under(e, cs, i + 1) \in 1..Len(e) /\ i \in DOMAIN cs
      BY <1>2, <1>3
    <2>2. cs[i] \in Proxied => Under(e, cs, i + 1) - 1 \in 1..Len(e)
      <3>1. cs[i] \in Proxied => Width(cs[i]) = 2
        BY <1>2, WidthOK
      <3>2. Under(e, cs, i + 1) = Under(e, cs, i) + Width(cs[i]) /\ Under(e, cs, i) \in 1..Len(e)
        BY <1>2
      <3> QED BY <2>1, <3>1, <3>2
    <2>3. ~st /\ t[i] \in Entering => f[Under(f, t, i + 1)] = t[i].u
      BY <1>1, <2>1 DEF ScopesFit
    <2>4. ~st /\ t[i] \in Proxied => f[Under(f, t, i + 1) - 1] = t[i].n
      BY <1>1, <2>1, <2>2 DEF ScopesFit
    <2>5. t[i].k = "exec" /\ t[i].u = Main => i = 1 /\ (st \/ Under(f, t, 1) = 1)
      BY <2>1 DEF ScopesFit
    <2> QED BY <2>3, <2>4, <2>5
  <1>7. /\ c.k = "exec" /\ c.u = Main => Len(cs) + 1 = 1 /\ Under(f, t, 1) = 1
        /\ c \in Entering => f[Under(f, t, Len(cs) + 2)] = c.u
        /\ c \in Proxied => f[Under(f, t, Len(cs) + 2) - 1] = c.n
    <2>1. cs = <<>> => Len(cs) = 0
      OBVIOUS
    <2>2. Len(cs) = 0 => Under(f, t, 1) = Len(e)
      BY <1>2
    <2> QED BY <1>2, <2>1, <2>2 DEF Enters
  <1>8. ASSUME NEW i \in DOMAIN t
        PROVE  /\ t[i].k = "exec" /\ t[i].u = Main => i = 1 /\ (st \/ Under(f, t, 1) = 1)
               /\ ~st /\ t[i] \in Entering => f[Under(f, t, i + 1)] = t[i].u
               /\ ~st /\ t[i] \in Proxied => f[Under(f, t, i + 1) - 1] = t[i].n
    <2>1. CASE i \in 1..Len(cs)
      BY <1>6, <2>1
    <2>2. CASE i = Len(cs) + 1
      <3>1. i + 1 = Len(cs) + 2 /\ t[i] = c
        BY <1>2, <1>3, <2>2
      <3> QED BY <1>7, <2>2, <3>1
    <2> QED BY <1>2, <1>3, <2>1, <2>2
  <1> QED BY <1>4, <1>5, <1>8 DEF ScopesFit, t

LEMMA ScopesPop ==
  ASSUME NEW e, NEW f, NEW cs \in Seq(ContRec), NEW st \in BOOLEAN, cs # <<>>,
         ScopesFit(e, cs, st),
         \/ Cuts(e, f, Len(e) - Width(Last(cs)))
         \/ st /\ f = e /\ e \in Seq(Nat)
  PROVE  ScopesFit(f, Front(cs), st)
  <1> DEFINE t == Front(cs)
  <1>1. /\ e \in Seq(Nat) /\ Len(cs) \in Nat \ {0} /\ t \in Seq(ContRec) /\ DOMAIN cs = 1..Len(cs)
        /\ \A i \in 1..(Len(cs) - 1) : t[i] = cs[i]
        /\ DOMAIN t = 1..(Len(cs) - 1)
    BY FrontCont DEF Cuts
  <1>t. t = Front(cs)
    OBVIOUS
  <1> HIDE DEF t
  <1>2. /\ Len(e) \in Nat /\ \A i \in 1..Len(cs) : Under(e, cs, i) \in 1..Len(e)
        /\ \A i \in 1..Len(cs) : Under(e, cs, i + 1) = Under(e, cs, i) + Width(cs[i])
                                 /\ cs[i] \in ContRec
    <2>1. \A i \in 1..Len(cs) : i \in 1..(Len(cs) + 1)
      BY <1>1
    <2> QED BY <1>1, <2>1, UnderRange
  <1>3. CASE Cuts(e, f, Len(e) - Width(Last(cs)))
    <2>1. /\ \A i \in 1..Len(cs) : Under(f, t, i) = Under(e, cs, i)
          /\ Len(f) \in Nat /\ Len(f) <= Len(e) /\ \A p \in 1..Len(f) : f[p] = e[p]
      <3>1. Width(Last(cs)) \in 0..2
        BY ContFront, WidthOK
      <3>2. \A i \in 1..Len(cs) : Under(f, Front(cs), i) = Under(e, cs, i)
        BY <1>3, UnderLeft
      <3>3. Len(f) = Len(e) - Width(Last(cs)) /\ \A p \in 1..Len(f) : f[p] = e[p]
        BY <1>3 DEF Cuts
      <3> QED BY <1>t, <1>2, <3>1, <3>2, <3>3
    <2>2. \A i \in 1..Len(cs) : Under(f, t, i) <= Len(f)
      <3>1. t \in Seq(ContRec) /\ f \in Seq(Nat)
        BY <1>1, <1>3 DEF Cuts
      <3> SUFFICES ASSUME NEW i \in 1..Len(cs)
                   PROVE  Under(f, t, i) <= Len(f)
        OBVIOUS
      <3>2. Owned(t, i) \in Nat
        BY <1>1, OwnedOK
      <3> QED BY <2>1, <3>2 DEF Under
    <2>3. Under(f, t, 1) >= 1 /\ \A p \in 2..Len(f) : f[p] # Main
      <3>1. 1 \in 1..Len(cs)
        BY <1>1
      <3>2. Under(f, t, 1) >= 1
        BY <1>2, <2>1, <3>1
      <3>3. \A p \in 2..Len(f) : p \in 2..Len(e) /\ f[p] = e[p]
        BY <1>2, <2>1
      <3> QED BY <3>2, <3>3 DEF ScopesFit
    <2>4. ASSUME NEW i \in 1..(Len(cs) - 1)
          PROVE  /\ t[i].k = "exec" /\ t[i].u = Main => i = 1 /\ (st \/ Under(f, t, 1) = 1)
                 /\ ~st /\ t[i] \in Entering => f[Under(f, t, i + 1)] = t[i].u
                 /\ ~st /\ t[i] \in Proxied => f[Under(f, t, i + 1) - 1] = t[i].n
      <3>1. /\ t[i] = cs[i] /\ Under(f, t, i + 1) = Under(e, cs, i + 1)
            /\ Under(f, t, 1) = Under(e, cs, 1)
            /\ Under(e, cs, i + 1) \in 1..Len(f) /\ i \in DOMAIN cs
        BY <1>1, <1>2, <2>1, <2>2
      <3>2. cs[i] \in Proxied => Under(e, cs, i + 1) - 1 \in 1..Len(f)
        <4>1. cs[i] \in Proxied => Width(cs[i]) = 2
          BY <1>1, <1>2, WidthOK
        <4>2. Under(e, cs, i + 1) = Under(e, cs, i) + Width(cs[i]) /\ Under(e, cs, i) \in 1..Len(e)
          BY <1>1, <1>2
        <4> QED BY <2>1, <3>1, <4>1, <4>2
      <3>3. ~st /\ t[i] \in Entering => f[Under(f, t, i + 1)] = t[i].u
        BY <2>1, <3>1 DEF ScopesFit
      <3>4. ~st /\ t[i] \in Proxied => f[Under(f, t, i + 1) - 1] = t[i].n
        BY <2>1, <3>1, <3>2 DEF ScopesFit
      <3>5. t[i].k = "exec" /\ t[i].u = Main => i = 1 /\ (st \/ Under(f, t, 1) = 1)
        BY <3>1 DEF ScopesFit
      <3> QED BY <3>3, <3>4, <3>5
    <2> QED BY <1>t, <1>1, <2>3, <2>4 DEF ScopesFit
  <1>4. CASE st /\ f = e
    <2>1. Under(f, t, 1) >= 1
      <3>1. Owned(t, 1) = Owned(cs, 1) - Width(Last(cs)) /\ Owned(cs, 1) \in Nat
            /\ Width(Last(cs)) \in 0..2
        BY <1>t, <1>1, OwnedFront, OwnedOK, ContFront, WidthOK
      <3> QED BY <1>1, <1>2, <1>4, <3>1 DEF Under
    <2>2. ASSUME NEW i \in DOMAIN t
          PROVE  t[i].k = "exec" /\ t[i].u = Main => i = 1
      <3>1. i \in DOMAIN cs /\ t[i] = cs[i]
        BY <1>1
      <3> QED BY <3>1 DEF ScopesFit
    <2>3. \A p \in 2..Len(f) : f[p] # Main
      BY <1>4 DEF ScopesFit
    <2> QED BY <1>t, <1>4, <2>1, <2>2, <2>3 DEF ScopesFit
  <1> QED BY <1>3, <1>4

-----------------------------------------------------------------------------
(* Tries fit.                                                              *)

\* gs is hs with the handler of a native frame registered, if it has one.
Registers(hs, gs, c) ==
  /\ hs \in Seq(HandlerRec) /\ gs \in Seq(HandlerRec)
  /\ Len(gs) = Len(hs) + Tries(c)
  /\ \A j \in 1..Len(hs) : gs[j] = hs[j]
\* gs is hs without the newest ones.
Forgets(hs, gs, k) ==
  /\ hs \in Seq(HandlerRec) /\ gs \in Seq(HandlerRec)
  /\ Len(gs) = Len(hs) - k
  /\ \A j \in 1..Len(gs) : gs[j] = hs[j]

LEMMA OlderRange ==
  ASSUME NEW hs \in Seq(HandlerRec), NEW cs \in Seq(ContRec), TriesFit(hs, cs)
  PROVE  /\ Len(hs) \in Nat /\ DOMAIN hs = 1..Len(hs)
         /\ \A i \in 1..(Len(cs) + 1) : Older(hs, cs, i) \in 0..Len(hs)
         /\ Older(hs, cs, Len(cs) + 1) = Len(hs)
         /\ \A i \in 1..Len(cs) : Older(hs, cs, i + 1) = Older(hs, cs, i) + Tries(cs[i])
  <1>1. Len(hs) \in Nat /\ DOMAIN hs = 1..Len(hs) /\ Len(cs) \in Nat
    BY LenProperties
  <1>2. ASSUME NEW i \in 1..(Len(cs) + 1)
        PROVE  Older(hs, cs, i) \in 0..Len(hs)
    <2>1. /\ Count(cs, Trying, i) \in Nat /\ Count(cs, Trying, 1) \in Nat
          /\ Count(cs, Trying, i) <= Count(cs, Trying, 1)
      BY <1>1, OwnedOK
    <2> QED BY <1>1, <2>1 DEF Older, TriesFit
  <1>3. Count(cs, Trying, Len(cs) + 1) = 0
    BY <1>1, OwnedOK
  <1>4. ASSUME NEW i \in 1..Len(cs)
        PROVE  Older(hs, cs, i + 1) = Older(hs, cs, i) + Tries(cs[i])
    <2>1. Count(cs, Trying, i) = Count(cs, Trying, i + 1) + Tries(cs[i])
      BY OwnedOK
    <2>2. Count(cs, Trying, i + 1) \in Nat
      BY <1>1, OwnedOK
    <2>3. Tries(cs[i]) \in 0..1
      BY ElementOfSeq, WidthOK
    <2> QED BY <1>1, <2>1, <2>2, <2>3 DEF Older
  <1> QED BY <1>1, <1>2, <1>3, <1>4 DEF Older

LEMMA OlderPushed ==
  ASSUME NEW hs, NEW gs, NEW cs \in Seq(ContRec), NEW c \in ContRec, Registers(hs, gs, c)
  PROVE  /\ \A i \in 1..(Len(cs) + 1) : Older(gs, Append(cs, c), i) = Older(hs, cs, i)
         /\ Older(gs, Append(cs, c), Len(cs) + 2) = Len(gs)
         /\ Len(cs) \in Nat /\ Len(hs) \in Nat /\ Len(gs) \in Nat /\ Tries(c) \in 0..1
  <1> DEFINE t == Append(cs, c)
  <1>1. /\ Len(cs) \in Nat /\ Len(hs) \in Nat /\ Len(gs) \in Nat /\ Tries(c) \in 0..1
        /\ Len(gs) = Len(hs) + Tries(c)
        /\ t \in Seq(ContRec) /\ Len(t) = Len(cs) + 1
    BY LenProperties, WidthOK, ContAppend DEF Registers
  <1>2. ASSUME NEW i \in 1..(Len(cs) + 1)
        PROVE  Older(gs, t, i) = Older(hs, cs, i)
    <2>1. Count(t, Trying, i) = Count(cs, Trying, i) + Tries(c)
      BY OwnedAppend
    <2>2. Count(cs, Trying, i) \in Nat
      BY <1>1, OwnedOK
    <2> HIDE DEF t
    <2> QED BY <1>1, <2>1, <2>2 DEF Older
  <1>3. Count(t, Trying, Len(cs) + 2) = 0
    <2> HIDE DEF t
    <2>1. Len(cs) + 2 \in Nat /\ Len(cs) + 2 > Len(t)
      BY <1>1
    <2> QED BY <1>1, <2>1, OwnedOK
  <1> QED BY <1>1, <1>2, <1>3 DEF Older

LEMMA OlderPopped ==
  ASSUME NEW hs, NEW gs, NEW cs \in Seq(ContRec), cs # <<>>, Forgets(hs, gs, Tries(Last(cs)))
  PROVE  \A i \in 1..Len(cs) : Older(gs, Front(cs), i) = Older(hs, cs, i)
  <1>1. /\ Len(cs) \in Nat /\ Len(hs) \in Nat /\ Len(gs) \in Nat /\ Tries(Last(cs)) \in 0..1
        /\ Len(gs) = Len(hs) - Tries(Last(cs))
    BY LenProperties, WidthOK, ContFront DEF Forgets
  <1> SUFFICES ASSUME NEW i \in 1..Len(cs)
               PROVE  Older(gs, Front(cs), i) = Older(hs, cs, i)
    OBVIOUS
  <1>2. Count(Front(cs), Trying, i) = Count(cs, Trying, i) - Tries(Last(cs))
    BY OwnedFront
  <1>3. Count(cs, Trying, i) \in Nat
    BY <1>1, OwnedOK
  <1> QED BY <1>1, <1>2, <1>3 DEF Older

LEMMA TriesPush ==
  ASSUME NEW hs, NEW gs, NEW cs \in Seq(ContRec), NEW c \in ContRec,
         TriesFit(hs, cs), Registers(hs, gs, c),
         c.k = "try" => gs[Len(gs)].depth = c.n
  PROVE  TriesFit(gs, Append(cs, c))
  <1> DEFINE t == Append(cs, c)
  <1>1. /\ \A i \in 1..(Len(cs) + 1) : Older(gs, t, i) = Older(hs, cs, i)
        /\ Older(gs, t, Len(cs) + 2) = Len(gs)
        /\ Len(cs) \in Nat /\ Len(hs) \in Nat /\ Len(gs) \in Nat /\ Tries(c) \in 0..1
    BY OlderPushed
  <1>2. /\ hs \in Seq(HandlerRec) /\ \A j \in 1..Len(hs) : gs[j] = hs[j]
    BY DEF Registers
  <1>3. /\ \A i \in 1..(Len(cs) + 1) : Older(hs, cs, i) \in 0..Len(hs)
        /\ \A i \in 1..Len(cs) : Older(hs, cs, i + 1) = Older(hs, cs, i) + Tries(cs[i])
    BY <1>2, OlderRange
  <1>4. /\ DOMAIN t = 1..(Len(cs) + 1) /\ t[Len(cs) + 1] = c
        /\ \A i \in 1..Len(cs) : t[i] = cs[i]
        /\ DOMAIN cs = 1..Len(cs) /\ \A i \in 1..Len(cs) : cs[i] \in ContRec
    BY ContAppend, ElementOfSeq
  <1> HIDE DEF t
  <1>5. Older(gs, t, 1) >= 0
    BY <1>1, <1>3
  <1>6. ASSUME NEW i \in 1..Len(cs), t[i].k = "try"
        PROVE  gs[Older(gs, t, i + 1)].depth = t[i].n
    <2>1. t[i] = cs[i] /\ Older(gs, t, i + 1) = Older(hs, cs, i + 1) /\ cs[i].k = "try"
      BY <1>1, <1>4, <1>6
    <2>2. Tries(cs[i]) = 1
      BY <1>4, <2>1, WidthOK
    <2>3. Older(hs, cs, i) \in 0..Len(hs) /\ Older(hs, cs, i + 1) \in 0..Len(hs)
          /\ Older(hs, cs, i + 1) = Older(hs, cs, i) + 1
      BY <1>1, <1>3, <2>2
    <2>4. Older(hs, cs, i + 1) \in 1..Len(hs)
      BY <1>1, <2>3
    <2>5. hs[Older(hs, cs, i + 1)].depth = cs[i].n
      BY <1>4, <2>1 DEF TriesFit
    <2> QED BY <1>2, <2>1, <2>4, <2>5
  <1>7. ASSUME NEW i \in DOMAIN t, t[i].k = "try"
        PROVE  gs[Older(gs, t, i + 1)].depth = t[i].n
    <2>1. CASE i \in 1..Len(cs)
      BY <1>6, <1>7, <2>1
    <2>2. CASE i = Len(cs) + 1
      <3>1. i + 1 = Len(cs) + 2
        BY <1>1, <2>2
      <3> QED BY <1>1, <1>4, <1>7, <2>2, <3>1
    <2> QED BY <1>1, <1>4, <2>1, <2>2
  <1> QED BY <1>5, <1>7 DEF TriesFit, t

LEMMA TriesPop ==
  ASSUME NEW hs, NEW gs, NEW cs \in Seq(ContRec), cs # <<>>,
         TriesFit(hs, cs), Forgets(hs, gs, Tries(Last(cs)))
  PROVE  TriesFit(gs, Front(cs))
  <1> DEFINE t == Front(cs)
  <1>1. /\ Len(cs) \in Nat \ {0} /\ DOMAIN cs = 1..Len(cs) /\ t \in Seq(ContRec)
        /\ DOMAIN t = 1..(Len(cs) - 1) /\ Len(t) = Len(cs) - 1
        /\ \A i \in 1..(Len(cs) - 1) : t[i] = cs[i]
        /\ \A i \in 1..Len(cs) : cs[i] \in ContRec
    BY FrontCont, ContFront, ElementOfSeq
  <1>2. /\ hs \in Seq(HandlerRec) /\ gs \in Seq(HandlerRec) /\ \A j \in 1..Len(gs) : gs[j] = hs[j]
    BY DEF Forgets
  <1>3. \A i \in 1..Len(cs) : Older(gs, t, i) = Older(hs, cs, i)
    BY OlderPopped
  <1> HIDE DEF t
  <1>4. /\ \A i \in 1..(Len(cs) + 1) : Older(hs, cs, i) \in 0..Len(hs)
        /\ \A i \in 1..Len(cs) : Older(hs, cs, i + 1) = Older(hs, cs, i) + Tries(cs[i])
        /\ Len(hs) \in Nat
    BY <1>2, OlderRange
  <1>5. Older(gs, t, 1) >= 0
    BY <1>1, <1>3, <1>4
  <1>6. ASSUME NEW i \in DOMAIN t, t[i].k = "try"
        PROVE  gs[Older(gs, t, i + 1)].depth = t[i].n
    <2>1. /\ t[i] = cs[i] /\ Older(gs, t, i + 1) = Older(hs, cs, i + 1) /\ cs[i].k = "try"
          /\ i \in 1..Len(cs) /\ i + 1 \in 1..Len(cs)
      BY <1>1, <1>3, <1>6
    <2>2. Tries(cs[i]) = 1
      BY <1>1, <2>1, WidthOK
    <2>3. Older(hs, cs, i + 1) >= 1
      <3>1. i \in 1..(Len(cs) + 1)
        BY <1>1, <2>1
      <3>2. Older(hs, cs, i) \in 0..Len(hs) /\ Older(hs, cs, i + 1) = Older(hs, cs, i) + 1
        BY <1>4, <2>1, <2>2, <3>1
      <3> QED BY <1>4, <3>2
    <2>4. Older(gs, t, i + 1) <= Len(gs)
      <3>1. Count(t, Trying, i + 1) \in Nat /\ Len(gs) \in Nat
        BY <1>1, <1>2, <2>1, OwnedOK, LenProperties
      <3> QED BY <3>1 DEF Older
    <2>5. Older(gs, t, i + 1) \in 1..Len(gs)
      <3>1. Older(hs, cs, i + 1) \in Int
        BY <1>4, <2>1
      <3> QED BY <2>1, <2>3, <2>4, <3>1
    <2>6. hs[Older(hs, cs, i + 1)].depth = cs[i].n
      BY <1>1, <2>1 DEF TriesFit
    <2> QED BY <1>2, <2>1, <2>5, <2>6
  <1> QED BY <1>5, <1>6 DEF TriesFit, t

LEMMA TriesNone ==
  ASSUME NEW hs \in Seq(HandlerRec)
  PROVE  TriesFit(hs, <<>>) /\ Older(hs, <<>>, 1) = Len(hs)
  <1> DEFINE s == <<>>
  <1>1. s \in Seq(ContRec) /\ Len(s) = 0 /\ DOMAIN s = {} /\ Len(hs) \in Nat
    BY EmptySeq, LenProperties
  <1> HIDE DEF s
  <1>2. Count(s, Trying, 1) = 0
    <2>1. 1 \in Nat /\ 1 > Len(s)
      BY <1>1
    <2> QED BY <1>1, <2>1, OwnedOK
  <1>3. TriesFit(hs, s) /\ Older(hs, s, 1) = Len(hs)
    BY <1>1, <1>2 DEF TriesFit, Older
  <1> QED BY <1>3 DEF s

LEMMA ScopesNone ==
  ASSUME NEW e \in Seq(Nat), Len(e) >= 1, \A p \in 2..Len(e) : e[p] # Main, NEW st
  PROVE  ScopesFit(e, <<>>, st) /\ Under(e, <<>>, 1) = Len(e)
  <1> DEFINE s == <<>>
  <1>1. s \in Seq(ContRec) /\ Len(s) = 0 /\ DOMAIN s = {} /\ Len(e) \in Nat
    BY EmptySeq, LenProperties
  <1> HIDE DEF s
  <1>2. Owned(s, 1) = 0
    <2>1. 1 \in Nat /\ 1 > Len(s)
      BY <1>1
    <2> QED BY <1>1, <2>1, OwnedOK
  <1>3. ScopesFit(e, s, st) /\ Under(e, s, 1) = Len(e)
    BY <1>1, <1>2 DEF ScopesFit, Under
  <1> QED BY <1>3 DEF s

-----------------------------------------------------------------------------
(* Depths fit.                                                             *)

\* A frame and its handler pushed.  The units entered must be on no other
\* side of a depth than before.
LEMMA DepthsPush ==
  ASSUME NEW hs, NEW gs, NEW e, NEW f, NEW c, NEW cs \in Seq(ContRec), NEW st, NEW ln,
         ScopesFit(e, cs, st), TriesFit(hs, cs), DepthsFit(hs, e, cs, ln),
         Enters(e, f, c), Registers(hs, gs, c),
         c.k = "try" => gs[Len(gs)] = [depth |-> Len(e), line |-> ln],
         cs = <<>> \/ Last(cs).k # "try" \/ Width(c) >= 1,
         \A j \in DOMAIN hs : hs[j].line = ln =>
           \A q \in 1..hs[j].depth, p \in (Len(e) + 1)..Len(f) : f[q] # f[p]
  PROVE  DepthsFit(gs, f, Append(cs, c), ln)
  <1> DEFINE t == Append(cs, c)
  <1>t. t = Append(cs, c)
    OBVIOUS
  <1>1. /\ e \in Seq(Nat) /\ f \in Seq(Nat) /\ c \in ContRec /\ Len(f) = Len(e) + Width(c)
        /\ \A p \in 1..Len(e) : f[p] = e[p]
        /\ hs \in Seq(HandlerRec) /\ gs \in Seq(HandlerRec) /\ Len(gs) = Len(hs) + Tries(c)
        /\ \A j \in 1..Len(hs) : gs[j] = hs[j]
    BY DEF Enters, Registers
  <1>2. /\ \A i \in 1..(Len(cs) + 1) : Under(f, t, i) = Under(e, cs, i)
        /\ Under(f, t, Len(cs) + 2) = Len(f)
        /\ Len(cs) \in Nat /\ Len(e) \in Nat \ {0} /\ Len(f) \in Nat /\ Width(c) \in 0..2
        /\ \A i \in 1..(Len(cs) + 1) : Under(e, cs, i) \in 1..Len(e)
        /\ Under(e, cs, Len(cs) + 1) = Len(e)
    BY <1>1, UnderEntered, UnderRange
  <1>3. /\ \A i \in 1..(Len(cs) + 1) : Older(gs, t, i) = Older(hs, cs, i)
        /\ Older(gs, t, Len(cs) + 2) = Len(gs)
        /\ Len(hs) \in Nat /\ Len(gs) \in Nat /\ Tries(c) \in 0..1
        /\ \A i \in 1..(Len(cs) + 1) : Older(hs, cs, i) \in 0..Len(hs)
        /\ Older(hs, cs, Len(cs) + 1) = Len(hs)
        /\ DOMAIN hs = 1..Len(hs) /\ DOMAIN gs = 1..Len(gs)
    BY <1>1, OlderPushed, OlderRange, LenProperties
  <1>4. /\ Len(t) = Len(cs) + 1 /\ t[Len(cs) + 1] = c
        /\ \A i \in 1..Len(cs) : t[i] = cs[i]
        /\ c.k = "try" <=> Tries(c) = 1
        /\ c.k = "try" => Width(c) = 0
    BY <1>1, ContAppend, WidthOK
  <1>5. /\ cs = <<>> => Len(cs) = 0
        /\ cs # <<>> => Last(cs) = cs[Len(cs)]
    BY ContFront
  <1> HIDE DEF t
  <1>6. \A j \in 1..Len(hs) : hs[j] \in HandlerRec /\ hs[j].depth \in Nat \ {0}
    <2>1. \A j \in 1..Len(hs) : hs[j] \in HandlerRec
      BY <1>1, ElementOfSeq
    <2> QED BY <2>1 DEF HandlerRec
  <1>7. \A i \in 1..(Len(cs) + 1) : Room(f, t, i) = Room(e, cs, i)
    <2> SUFFICES ASSUME NEW i \in 1..(Len(cs) + 1)
                 PROVE  Room(f, t, i) = Room(e, cs, i)
      OBVIOUS
    <2>1. i > 1 => t[i - 1] = cs[i - 1]
      BY <1>2, <1>4
    <2> QED BY <1>2, <2>1 DEF Room
  <1>8. Room(f, t, Len(cs) + 2) = Len(f) + (IF c.k = "try" THEN 1 ELSE 0)
    <2>1. Len(cs) + 2 > 1 /\ (Len(cs) + 2) - 1 = Len(cs) + 1
      BY <1>2
    <2> QED BY <1>2, <1>4, <2>1 DEF Room
  <1>9. Room(e, cs, Len(cs) + 1) =
          Len(e) + (IF cs # <<>> /\ Last(cs).k = "try" THEN 1 ELSE 0)
    <2>1. (Len(cs) + 1) - 1 = Len(cs) /\ (Len(cs) + 1 > 1 <=> cs # <<>>)
      BY <1>2, EmptySeq
    <2> QED BY <1>2, <1>5, <2>1 DEF Room
  \* What the depths of the program are under already.
  <1>10. ASSUME NEW j \in 1..Len(hs), hs[j].line = ln
         PROVE  /\ hs[j].depth < Len(e) + (IF c.k # "try" /\ Width(c) >= 1 THEN 1 ELSE 0)
                /\ \A i \in 1..(j - 1) : hs[i].line = ln => hs[i].depth < hs[j].depth
                /\ \A i \in 1..(Len(cs) + 1) : j <= Older(hs, cs, i) => hs[j].depth < Room(e, cs, i)
                /\ \A q \in 1..hs[j].depth, p \in (hs[j].depth + 1)..Len(e) : e[q] # e[p]
    <2>1. /\ \A i \in 1..(j - 1) : hs[i].line = ln => hs[i].depth < hs[j].depth
          /\ \A i \in 1..(Len(cs) + 1) : j <= Older(hs, cs, i) => hs[j].depth < Room(e, cs, i)
          /\ \A q \in 1..hs[j].depth, p \in (hs[j].depth + 1)..Len(e) : e[q] # e[p]
      BY <1>3, <1>10 DEF DepthsFit
    <2>2. hs[j].depth < Room(e, cs, Len(cs) + 1)
      <3>1. Len(cs) + 1 \in 1..(Len(cs) + 1)
        BY <1>2
      <3> QED BY <1>3, <2>1, <3>1
    <2>3. hs[j].depth \in Nat
      BY <1>6
    <2> QED BY <1>2, <1>4, <1>9, <2>1, <2>2, <2>3
  <1>11. ASSUME NEW j \in 1..Len(hs), gs[j].line = ln
         PROVE  /\ \A i \in 1..(j - 1) : gs[i].line = ln => gs[i].depth < gs[j].depth
                /\ \A i \in 1..(Len(t) + 1) : j <= Older(gs, t, i) => gs[j].depth < Room(f, t, i)
                /\ \A q \in 1..gs[j].depth, p \in (gs[j].depth + 1)..Len(f) : f[q] # f[p]
    <2>1. gs[j] = hs[j] /\ hs[j].line = ln /\ hs[j].depth \in Nat /\ \A i \in 1..(j - 1) : gs[i] = hs[i]
      BY <1>1, <1>3, <1>6, <1>11
    <2>2. \A i \in 1..(j - 1) : gs[i].line = ln => gs[i].depth < gs[j].depth
      BY <1>10, <2>1
    <2>3. ASSUME NEW i \in 1..(Len(t) + 1), j <= Older(gs, t, i)
          PROVE  gs[j].depth < Room(f, t, i)
      <3>1. CASE i \in 1..(Len(cs) + 1)
        BY <1>3, <1>7, <1>10, <2>1, <2>3, <3>1
      <3>2. CASE i = Len(cs) + 2
        <4>1. hs[j].depth < Len(e) + (IF c.k # "try" /\ Width(c) >= 1 THEN 1 ELSE 0)
          BY <1>10, <2>1
        <4>2. hs[j].depth < Len(f)
          <5> DEFINE d == hs[j].depth
                     w == Width(c)
                     n == Len(e)
          <5>1. d \in Nat /\ w \in 0..2 /\ n \in Nat /\ Len(f) = n + w
            BY <1>1, <1>2, <2>1
          <5>2. d < n \/ (d < n + 1 /\ w >= 1)
            BY <1>2, <2>1, <4>1
          <5> HIDE DEF d, w, n
          <5>3. d < Len(f)
            BY <5>1, <5>2
          <5> QED BY <5>3 DEF d
        <4>3. Room(f, t, i) \in {Len(f), Len(f) + 1}
          BY <1>2, <1>8, <3>2
        <4> QED BY <1>2, <2>1, <4>2, <4>3
      <3> QED BY <1>2, <1>4, <3>1, <3>2
    <2>4. ASSUME NEW q \in 1..gs[j].depth, NEW p \in (gs[j].depth + 1)..Len(f)
          PROVE  f[q] # f[p]
      <3>1. CASE p \in (Len(e) + 1)..Len(f)
        BY <1>3, <2>1, <3>1
      <3>2. CASE p \in (hs[j].depth + 1)..Len(e)
        <4>1. p \in 1..Len(e) /\ q \in 1..Len(e)
          BY <1>2, <2>1, <3>2
        <4>2. e[q] # e[p]
          BY <1>10, <2>1, <3>2
        <4> QED BY <1>1, <4>1, <4>2
      <3> QED BY <1>2, <2>1, <3>1, <3>2
    <2> QED BY <2>2, <2>3, <2>4
  <1>12. ASSUME NEW j \in DOMAIN gs, j \notin 1..Len(hs)
         PROVE  /\ \A i \in 1..(j - 1) : gs[i].line = ln => gs[i].depth < gs[j].depth
                /\ \A i \in 1..(Len(t) + 1) : j <= Older(gs, t, i) => gs[j].depth < Room(f, t, i)
                /\ \A q \in 1..gs[j].depth, p \in (gs[j].depth + 1)..Len(f) : f[q] # f[p]
    <2>1. /\ j = Len(gs) /\ j = Len(hs) + 1 /\ c.k = "try" /\ Width(c) = 0 /\ Len(f) = Len(e)
      BY <1>1, <1>2, <1>3, <1>4, <1>12
    <2>2. gs[j].depth = Len(e)
      BY <2>1
    <2>3. \A i \in 1..(j - 1) : gs[i].line = ln => gs[i].depth < gs[j].depth
      <3> SUFFICES ASSUME NEW i \in 1..(j - 1), gs[i].line = ln
                   PROVE  gs[i].depth < gs[j].depth
        OBVIOUS
      <3>1. i \in 1..Len(hs) /\ gs[i] = hs[i]
        BY <1>1, <1>3, <2>1
      <3>2. hs[i].depth < Len(e) + (IF c.k # "try" /\ Width(c) >= 1 THEN 1 ELSE 0)
        BY <1>10, <3>1
      <3>3. hs[i].depth < Len(e) + 0
        BY <2>1, <3>2
      <3> QED BY <1>2, <2>2, <3>1, <3>3
    <2>4. ASSUME NEW i \in 1..(Len(t) + 1), j <= Older(gs, t, i)
          PROVE  gs[j].depth < Room(f, t, i)
      <3>1. i \notin 1..(Len(cs) + 1)
        BY <1>3, <2>1, <2>4
      <3>2. i = Len(cs) + 2
        BY <1>2, <1>4, <3>1
      <3>3. Room(f, t, i) = Len(f) + 1
        BY <1>8, <2>1, <3>2
      <3> QED BY <1>2, <2>1, <2>2, <3>3
    <2>5. (gs[j].depth + 1)..Len(f) = {}
      BY <1>2, <2>1, <2>2
    <2> QED BY <2>3, <2>4, <2>5
  <1> QED BY <1>t, <1>3, <1>11, <1>12 DEF DepthsFit

LEMMA DepthsPop ==
  ASSUME NEW hs, NEW gs, NEW e, NEW f, NEW cs \in Seq(ContRec), NEW st, NEW ln, cs # <<>>,
         ScopesFit(e, cs, st), TriesFit(hs, cs), DepthsFit(hs, e, cs, ln),
         Forgets(hs, gs, Tries(Last(cs))),
         \/ Cuts(e, f, Len(e) - Width(Last(cs)))
         \/ st /\ f = e /\ e \in Seq(Nat)
  PROVE  DepthsFit(gs, f, Front(cs), ln)
  <1> DEFINE t == Front(cs)
  <1>t. t = Front(cs)
    OBVIOUS
  <1>1. /\ Len(cs) \in Nat \ {0} /\ t \in Seq(ContRec) /\ Len(t) = Len(cs) - 1
        /\ \A i \in 1..(Len(cs) - 1) : t[i] = cs[i]
        /\ Last(cs) \in ContRec /\ Width(Last(cs)) \in 0..2
        /\ \A i \in 1..Len(cs) : Older(gs, t, i) = Older(hs, cs, i)
        /\ e \in Seq(Nat) /\ f \in Seq(Nat)
    BY ContFront, WidthOK, OlderPopped DEF Cuts
  <1> HIDE DEF t
  <1>2. /\ hs \in Seq(HandlerRec) /\ gs \in Seq(HandlerRec)
        /\ Len(hs) \in Nat /\ Len(gs) \in Nat /\ Len(gs) <= Len(hs)
        /\ DOMAIN hs = 1..Len(hs) /\ DOMAIN gs = 1..Len(gs)
        /\ \A j \in 1..Len(gs) : gs[j] = hs[j] /\ hs[j].depth \in Nat
    <2>1. /\ hs \in Seq(HandlerRec) /\ gs \in Seq(HandlerRec)
          /\ Len(hs) \in Nat /\ Len(gs) \in Nat /\ Len(gs) = Len(hs) - Tries(Last(cs))
          /\ \A j \in 1..Len(gs) : gs[j] = hs[j] /\ gs[j] \in HandlerRec
          /\ DOMAIN hs = 1..Len(hs) /\ DOMAIN gs = 1..Len(gs)
      BY LenProperties, ElementOfSeq DEF Forgets
    <2>2. Tries(Last(cs)) \in 0..1
      BY <1>1, WidthOK
    <2>3. \A r \in HandlerRec : r.depth \in Nat
      BY DEF HandlerRec
    <2>4. \A j \in 1..Len(gs) : gs[j] = hs[j] /\ hs[j].depth \in Nat
      BY <2>1, <2>3
    <2> QED BY <2>1, <2>2, <2>4
  <1>3. /\ \A i \in 1..Len(cs) : Under(f, t, i) \in Int /\ Under(f, t, i) >= Under(e, cs, i)
                                 /\ Under(e, cs, i) \in Int
        /\ Len(f) \in Nat /\ Len(e) \in Nat /\ Len(f) <= Len(e) /\ \A p \in 1..Len(f) : f[p] = e[p]
    <2>1. CASE Cuts(e, f, Len(e) - Width(Last(cs)))
      <3>1. /\ Len(f) = Len(e) - Width(Last(cs)) /\ Len(e) \in Nat /\ Len(f) \in Nat
            /\ \A p \in 1..Len(f) : f[p] = e[p]
        BY <2>1, LenProperties DEF Cuts
      <3> QED BY <1>t, <1>1, <2>1, <3>1, UnderLeft
    <2>2. CASE st /\ f = e
      <3>1. Len(e) \in Nat
        BY <1>1, LenProperties
      <3> SUFFICES ASSUME NEW i \in 1..Len(cs)
                   PROVE  Under(f, t, i) \in Int /\ Under(f, t, i) >= Under(e, cs, i)
                          /\ Under(e, cs, i) \in Int
        BY <2>2, <3>1
      <3>2. Owned(t, i) = Owned(cs, i) - Width(Last(cs)) /\ Owned(cs, i) \in Nat
        BY <1>t, <1>1, OwnedFront, OwnedOK
      <3> QED BY <1>1, <2>2, <3>1, <3>2 DEF Under
    <2> QED BY <2>1, <2>2
  <1>4. ASSUME NEW i \in 1..Len(cs)
        PROVE  Room(e, cs, i) <= Room(f, t, i) /\ Room(e, cs, i) \in Int /\ Room(f, t, i) \in Int
    <2>1. i > 1 => t[i - 1] = cs[i - 1]
      BY <1>1
    <2> QED BY <1>3, <2>1 DEF Room
  <1>5. ASSUME NEW j \in 1..Len(gs), gs[j].line = ln
        PROVE  /\ \A i \in 1..(j - 1) : gs[i].line = ln => gs[i].depth < gs[j].depth
               /\ \A i \in 1..(Len(t) + 1) : j <= Older(gs, t, i) => gs[j].depth < Room(f, t, i)
               /\ \A q \in 1..gs[j].depth, p \in (gs[j].depth + 1)..Len(f) : f[q] # f[p]
    <2>1. /\ gs[j] = hs[j] /\ hs[j].line = ln /\ hs[j].depth \in Nat /\ j \in DOMAIN hs
          /\ \A i \in 1..(j - 1) : gs[i] = hs[i]
      BY <1>2, <1>5
    <2>2. /\ \A i \in 1..(j - 1) : hs[i].line = ln => hs[i].depth < hs[j].depth
          /\ \A i \in 1..(Len(cs) + 1) : j <= Older(hs, cs, i) => hs[j].depth < Room(e, cs, i)
          /\ \A q \in 1..hs[j].depth, p \in (hs[j].depth + 1)..Len(e) : e[q] # e[p]
      BY <2>1 DEF DepthsFit
    <2>3. ASSUME NEW i \in 1..(Len(t) + 1), j <= Older(gs, t, i)
          PROVE  gs[j].depth < Room(f, t, i)
      <3>1. i \in 1..Len(cs) /\ i \in 1..(Len(cs) + 1) /\ Older(gs, t, i) = Older(hs, cs, i)
        BY <1>1
      <3>2. hs[j].depth < Room(e, cs, i)
        BY <2>2, <2>3, <3>1
      <3> QED BY <1>4, <2>1, <3>1, <3>2
    <2>4. ASSUME NEW q \in 1..gs[j].depth, NEW p \in (gs[j].depth + 1)..Len(f)
          PROVE  f[q] # f[p]
      <3>1. p \in 1..Len(f) /\ q \in 1..Len(f) /\ p \in (hs[j].depth + 1)..Len(e)
        BY <1>3, <2>1
      <3> QED BY <1>3, <2>1, <2>2, <3>1
    <2> QED BY <2>1, <2>2, <2>3, <2>4
  <1> QED BY <1>t, <1>2, <1>5 DEF DepthsFit

LEMMA Prefix ==
  ASSUME NEW e \in Seq(Nat), NEW d \in Nat \ {0}, d <= Len(e)
  PROVE  /\ SubSeq(e, 1, d) \in Seq(Nat) /\ Len(SubSeq(e, 1, d)) = d
         /\ \A p \in 1..d : SubSeq(e, 1, d)[p] = e[p]
  <1>1. Len(e) \in Nat
    BY LenProperties
  <1>2. d \in 1..(Len(e) + 1) /\ 1 \in 1..(Len(e) + 1) /\ d \in Int
    BY <1>1
  <1> QED BY <1>1, <1>2, SubSeqProperties

\* An exception: the newest handler is forgotten, exec_stack cut to its depth.
LEMMA DepthsCut ==
  ASSUME NEW hs \in Seq(HandlerRec), hs # <<>>, NEW e \in Seq(Nat), NEW f \in Seq(Nat),
         NEW cs \in Seq(ContRec), NEW st, NEW ln,
         ScopesFit(e, cs, st), TriesFit(hs, cs), DepthsFit(hs, e, cs, ln), LinesFit(hs, ln),
         cs = <<>> \/ Last(cs).k # "try",
         f = IF Len(e) <= Last(hs).depth THEN e ELSE SubSeq(e, 1, Last(hs).depth)
  PROVE  DepthsFit(Front(hs), f, <<>>, ln)
  <1> DEFINE gs == Front(hs)
             h == Last(hs)
             t == <<>>
  <1>1. /\ Len(hs) \in Nat \ {0} /\ DOMAIN hs = 1..Len(hs) /\ gs \in Seq(HandlerRec)
        /\ Len(gs) = Len(hs) - 1 /\ DOMAIN gs = 1..(Len(hs) - 1)
        /\ \A j \in 1..(Len(hs) - 1) : gs[j] = hs[j]
        /\ h = hs[Len(hs)] /\ h \in HandlerRec
    <2>1. /\ gs \in Seq(HandlerRec) /\ Len(gs) = Len(hs) - 1 /\ h \in HandlerRec
          /\ h = hs[Len(hs)] /\ \A j \in 1..(Len(hs) - 1) : gs[j] = hs[j]
      BY FrontLast
    <2> HIDE DEF gs, h
    <2>2. Len(hs) \in Nat \ {0} /\ DOMAIN hs = 1..Len(hs) /\ DOMAIN gs = 1..Len(gs)
      BY <2>1, LenProperties, EmptySeq
    <2> QED BY <2>1, <2>2
  <1>g. gs = Front(hs) /\ t = <<>> /\ h = Last(hs)
    OBVIOUS
  <1>2. t \in Seq(ContRec) /\ Len(t) = 0 /\ Older(gs, t, 1) = Len(gs) /\ Owned(t, 1) = 0
    <2>1. t \in Seq(ContRec) /\ Len(t) = 0
      BY EmptySeq
    <2>2. Older(gs, t, 1) = Len(gs)
      BY <1>1, TriesNone
    <2> HIDE DEF t
    <2>3. 1 \in Nat /\ 1 > Len(t)
      BY <2>1
    <2>4. Owned(t, 1) = 0
      BY <2>1, <2>3, OwnedOK
    <2> QED BY <2>1, <2>2, <2>4
  <1> HIDE DEF gs, h, t
  <1>3. /\ h.depth \in Nat \ {0} /\ h.line \in Nat
        /\ \A j \in 1..Len(hs) : hs[j] \in HandlerRec /\ hs[j].depth \in Nat
    <2>1. \A r \in HandlerRec : r.depth \in Nat \ {0} /\ r.line \in Nat
      BY DEF HandlerRec
    <2>2. \A j \in 1..Len(hs) : hs[j] \in HandlerRec
      BY ElementOfSeq
    <2> QED BY <1>1, <2>1, <2>2
  <1>4. /\ Len(e) \in Nat \ {0} /\ Len(cs) \in Nat
        /\ Under(e, cs, Len(cs) + 1) = Len(e) /\ Older(hs, cs, Len(cs) + 1) = Len(hs)
    BY UnderRange, OlderRange
  <1>5. Room(e, cs, Len(cs) + 1) = Len(e)
    <2>1. (Len(cs) + 1) - 1 = Len(cs) /\ (Len(cs) + 1 > 1 => cs # <<>>)
      BY <1>4, EmptySeq
    <2>2. cs # <<>> => Last(cs) = cs[Len(cs)]
      BY ContFront
    <2> QED BY <1>4, <2>1, <2>2 DEF Room
  <1>6. ASSUME NEW j \in 1..Len(hs), hs[j].line = ln
        PROVE  /\ hs[j].depth < Len(e)
               /\ \A i \in 1..(j - 1) : hs[i].line = ln => hs[i].depth < hs[j].depth
               /\ \A q \in 1..hs[j].depth, p \in (hs[j].depth + 1)..Len(e) : e[q] # e[p]
    <2>1. Len(cs) + 1 \in 1..(Len(cs) + 1) /\ j <= Older(hs, cs, Len(cs) + 1)
      BY <1>1, <1>4
    <2> QED BY <1>1, <1>5, <1>6, <2>1 DEF DepthsFit
  <1>7. /\ f \in Seq(Nat) /\ Len(f) \in Nat /\ Len(f) <= Len(e) /\ \A p \in 1..Len(f) : f[p] = e[p]
        /\ Len(f) = Len(e) \/ Len(f) = h.depth
    <2>1. CASE Len(e) <= h.depth
      BY <1>4, <1>g, <2>1
    <2>2. CASE ~(Len(e) <= h.depth)
      <3>1. f = SubSeq(e, 1, h.depth)
        BY <1>g, <2>2
      <3>2. h.depth \in 1..(Len(e) + 1) /\ h.depth <= Len(e) /\ 1 \in 1..(Len(e) + 1)
        BY <1>3, <1>4, <2>2
      <3>3. Len(f) = h.depth /\ \A p \in 1..h.depth : f[p] = e[p]
        BY <1>3, <1>4, <3>1, <3>2, SubSeqProperties
      <3> QED BY <1>3, <1>4, <3>2, <3>3
    <2> QED BY <2>1, <2>2
  <1>8. ASSUME NEW j \in 1..(Len(hs) - 1), gs[j].line = ln
        PROVE  /\ \A i \in 1..(j - 1) : gs[i].line = ln => gs[i].depth < gs[j].depth
               /\ \A i \in 1..(Len(t) + 1) : j <= Older(gs, t, i) => gs[j].depth < Room(f, t, i)
               /\ \A q \in 1..gs[j].depth, p \in (gs[j].depth + 1)..Len(f) : f[q] # f[p]
    <2>1. /\ j \in 1..Len(hs) /\ gs[j] = hs[j] /\ hs[j].line = ln /\ hs[j].depth \in Nat
          /\ \A i \in 1..(j - 1) : gs[i] = hs[i]
      BY <1>1, <1>3, <1>8
    <2>2. /\ hs[j].depth < Len(e)
          /\ \A i \in 1..(j - 1) : hs[i].line = ln => hs[i].depth < hs[j].depth
          /\ \A q \in 1..hs[j].depth, p \in (hs[j].depth + 1)..Len(e) : e[q] # e[p]
      BY <1>6, <2>1
    <2>3. h.line = ln
      <3>1. Len(hs) \in DOMAIN hs /\ j \in DOMAIN hs /\ j < Len(hs)
        BY <1>1, <2>1
      <3>2. hs[Len(hs)].line <= ln /\ hs[j].line <= hs[Len(hs)].line
        BY <3>1 DEF LinesFit
      <3>3. ln <= h.line /\ h.line <= ln /\ ln \in Nat
        <4>1. hs[j] \in HandlerRec
          BY <1>3, <2>1
        <4>2. hs[j].line \in Nat
          BY <4>1 DEF HandlerRec
        <4> QED BY <1>1, <2>1, <3>2, <4>2
      <3> QED BY <1>3, <3>3
    <2>4. hs[j].depth < h.depth
      <3>1. Len(hs) \in 1..Len(hs) /\ j \in 1..(Len(hs) - 1) /\ hs[Len(hs)].line = ln
        BY <1>1, <2>3
      <3>2. hs[j].depth < hs[Len(hs)].depth
        BY <1>6, <2>1, <3>1
      <3> QED BY <1>1, <3>2
    <2>5. hs[j].depth < Len(f)
      BY <1>3, <1>4, <1>7, <2>1, <2>2, <2>4
    <2>6. Room(f, t, 1) = Len(f)
      BY <1>2, <1>7 DEF Room, Under
    <2>7. \A i \in 1..(Len(t) + 1) : j <= Older(gs, t, i) => gs[j].depth < Room(f, t, i)
      BY <1>2, <2>1, <2>5, <2>6
    <2>8. ASSUME NEW q \in 1..gs[j].depth, NEW p \in (gs[j].depth + 1)..Len(f)
          PROVE  f[q] # f[p]
      <3> DEFINE d == hs[j].depth
      <3>1. d \in Nat /\ d < Len(f) /\ q \in 1..d /\ p \in (d + 1)..Len(f)
        BY <2>1, <2>5
      <3>2. \A x \in 1..d, y \in (d + 1)..Len(e) : e[x] # e[y]
        BY <2>2
      <3> HIDE DEF d
      <3>3. p \in 1..Len(f) /\ q \in 1..Len(f) /\ p \in (d + 1)..Len(e)
        BY <1>4, <1>7, <3>1
      <3> QED BY <1>7, <3>1, <3>2, <3>3
    <2> QED BY <2>1, <2>2, <2>7, <2>8
  <1>9. DepthsFit(gs, f, t, ln)
    BY <1>1, <1>8 DEF DepthsFit
  <1> QED BY <1>9, <1>g

-----------------------------------------------------------------------------
(* A unit is on exec_stack once.                                           *)

LEMMA DistinctPush ==
  ASSUME NEW e, NEW f, NEW c, NEW cs \in Seq(ContRec), NEW st,
         ScopesFit(e, cs, st), DistinctFit(e, cs), Enters(e, f, c), Fresh(e, f)
  PROVE  DistinctFit(f, Append(cs, c))
  <1> DEFINE t == Append(cs, c)
  <1>t. t = Append(cs, c)
    OBVIOUS
  <1>1. /\ e \in Seq(Nat) /\ f \in Seq(Nat) /\ c \in ContRec
        /\ \A p \in 1..Len(e) : f[p] = e[p]
    BY DEF Enters
  <1>2. /\ Under(f, t, 1) = Under(e, cs, 1) /\ Under(e, cs, 1) \in 1..Len(e)
        /\ Len(cs) \in Nat /\ Len(e) \in Nat /\ Len(f) \in Nat
        /\ t # <<>> /\ (cs # <<>> => t[1] = cs[1])
    <2>1. Len(cs) \in Nat /\ (cs # <<>> => Len(cs) > 0)
      BY LenProperties, EmptySeq
    <2>2. 1 \in 1..(Len(cs) + 1)
      BY <2>1
    <2>3. Under(f, t, 1) = Under(e, cs, 1) /\ Len(f) \in Nat
      BY <2>2, UnderEntered
    <2>4. Under(e, cs, 1) \in 1..Len(e) /\ Len(e) \in Nat
      BY <1>1, <2>2, UnderRange
    <2>5. t # <<>> /\ \A i \in 1..Len(cs) : t[i] = cs[i]
      BY <1>1, ContAppend
    <2> QED BY <2>1, <2>3, <2>4, <2>5
  <1> HIDE DEF t
  <1>3. ASSUME NEW p \in (Under(f, t, 1) + 1)..Len(f), NEW q \in 1..Len(f), q < p, f[q] = f[p]
        PROVE  /\ p = Under(f, t, 1) + 1
               /\ t # <<>> /\ t[1] \in Entering /\ t[1].k = "exec"
    <2>1. p \in 1..Len(e)
      <3> SUFFICES ASSUME p \in (Len(e) + 1)..Len(f)
                   PROVE  FALSE
        BY <1>2
      <3>1. q \in 1..(p - 1)
        BY <1>2, <1>3
      <3> QED BY <1>3, <3>1 DEF Fresh
    <2>2. q \in 1..Len(e) /\ p \in (Under(e, cs, 1) + 1)..Len(e) /\ e[q] = e[p]
      <3>1. q \in 1..Len(e)
        BY <1>2, <1>3, <2>1
      <3>2. p \in (Under(e, cs, 1) + 1)..Len(e)
        <4> DEFINE y == Under(e, cs, 1)
        <4>1. y \in Nat /\ p \in (y + 1)..Len(f)
          BY <1>2, <1>3
        <4> HIDE DEF y
        <4>2. p \in (y + 1)..Len(e)
          BY <1>2, <2>1, <4>1
        <4> QED BY <4>2 DEF y
      <3> QED BY <1>1, <1>3, <2>1, <3>1, <3>2
    <2> QED BY <1>2, <1>3, <2>2 DEF DistinctFit
  <1> QED BY <1>t, <1>3 DEF DistinctFit

LEMMA DistinctPop ==
  ASSUME NEW e, NEW f, NEW cs \in Seq(ContRec), NEW st, cs # <<>>,
         ScopesFit(e, cs, st), DistinctFit(e, cs),
         \/ Cuts(e, f, Len(e) - Width(Last(cs)))
         \/ st /\ f = e /\ e \in Seq(Nat)
  PROVE  DistinctFit(f, Front(cs))
  <1> DEFINE t == Front(cs)
  <1>t. t = Front(cs)
    OBVIOUS
  <1>1. /\ Len(cs) \in Nat \ {0} /\ t \in Seq(ContRec) /\ Len(t) = Len(cs) - 1
        /\ \A i \in 1..(Len(cs) - 1) : t[i] = cs[i]
        /\ Last(cs) = cs[Len(cs)]
        /\ e \in Seq(Nat) /\ f \in Seq(Nat) /\ Len(e) \in Nat /\ Len(f) \in Nat
    BY ContFront, LenProperties DEF Cuts
  <1> HIDE DEF t
  <1>2. Under(e, cs, 1) \in 1..Len(e)
    <2>1. 1 \in 1..(Len(cs) + 1)
      BY <1>1
    <2> QED BY <1>1, <2>1, UnderRange
  <1>3. /\ Under(f, t, 1) \in Int /\ Under(f, t, 1) >= Under(e, cs, 1)
        /\ Len(f) <= Len(e) /\ \A p \in 1..Len(f) : f[p] = e[p]
    <2>1. 1 \in 1..Len(cs)
      BY <1>1
    <2>2. CASE Cuts(e, f, Len(e) - Width(Last(cs)))
      <3>1. Len(f) <= Len(e) /\ \A p \in 1..Len(f) : f[p] = e[p]
        <4>1. Len(f) \in 1..Len(e) /\ \A p \in 1..Len(f) : f[p] = e[p]
          BY <2>2 DEF Cuts
        <4> QED BY <1>1, <4>1
      <3>2. Under(f, t, 1) = Under(e, cs, 1)
        BY <1>t, <2>1, <2>2, UnderLeft
      <3> QED BY <1>2, <3>1, <3>2
    <2>3. CASE st /\ f = e
      <3>1. Owned(t, 1) = Owned(cs, 1) - Width(Last(cs)) /\ Owned(cs, 1) \in Nat
            /\ Width(Last(cs)) \in 0..2
        BY <1>t, <1>1, <2>1, OwnedFront, OwnedOK, ContFront, WidthOK
      <3> QED BY <1>1, <1>2, <2>3, <3>1 DEF Under
    <2> QED BY <2>2, <2>3
  <1>4. Len(cs) = 1 => Under(f, t, 1) = Len(f)
    <2> SUFFICES ASSUME Len(cs) = 1
                 PROVE  Under(f, t, 1) = Len(f)
      OBVIOUS
    <2>1. 1 \in Nat /\ 1 > Len(t)
      BY <1>1
    <2>2. Owned(t, 1) = 0
      BY <1>1, <2>1, OwnedOK
    <2> QED BY <1>1, <2>2 DEF Under
  <1>5. ASSUME NEW p \in (Under(f, t, 1) + 1)..Len(f), NEW q \in 1..Len(f), q < p, f[q] = f[p]
        PROVE  /\ p = Under(f, t, 1) + 1
               /\ t # <<>> /\ t[1] \in Entering /\ t[1].k = "exec"
    <2>1. p \in (Under(e, cs, 1) + 1)..Len(e) /\ q \in 1..Len(e) /\ e[q] = e[p]
      <3> DEFINE x == Under(f, t, 1)
                 y == Under(e, cs, 1)
      <3>1. x \in Int /\ x >= y /\ y \in Nat /\ p \in (x + 1)..Len(f)
        BY <1>1, <1>2, <1>3, <1>5
      <3> HIDE DEF x, y
      <3>2. p \in (y + 1)..Len(e) /\ q \in 1..Len(e) /\ p \in 1..Len(f)
        BY <1>1, <1>3, <1>5, <3>1
      <3> QED BY <1>3, <1>5, <3>2 DEF y
    <2>2. p = Under(e, cs, 1) + 1 /\ cs[1] \in Entering /\ cs[1].k = "exec"
      BY <1>5, <2>1 DEF DistinctFit
    <2>3. p = Under(f, t, 1) + 1
      BY <1>1, <1>2, <1>3, <2>2
    <2>4. Len(cs) # 1
      BY <1>1, <1>4, <1>5
    <2>5. t # <<>> /\ t[1] = cs[1]
      <3>1. 1 \in 1..(Len(cs) - 1) /\ Len(t) > 0
        BY <1>1, <2>4
      <3> QED BY <1>1, <3>1, EmptySeq
    <2> QED BY <2>2, <2>3, <2>5
  <1> QED BY <1>t, <1>5 DEF DistinctFit

LEMMA DistinctNone ==
  ASSUME NEW e \in Seq(Nat)
  PROVE  DistinctFit(e, <<>>)
  <1> DEFINE s == <<>>
  <1>1. s \in Seq(ContRec) /\ Len(s) = 0 /\ Len(e) \in Nat
    BY EmptySeq, LenProperties
  <1> HIDE DEF s
  <1>2. 1 \in Nat /\ 1 > Len(s)
    BY <1>1
  <1>3. Owned(s, 1) = 0
    BY <1>1, <1>2, OwnedOK
  <1>4. DistinctFit(e, s)
    BY <1>1, <1>3 DEF DistinctFit, Under
  <1> QED BY <1>4 DEF s

-----------------------------------------------------------------------------
(* All of it fits.                                                         *)

\* A native frame that owns no handler is pushed.
LEMMA FitPush ==
  ASSUME NEW hs \in Seq(HandlerRec), NEW e, NEW f, NEW c, NEW cs \in Seq(ContRec),
         NEW ln, NEW st \in BOOLEAN, NEW ph,
         Fit(hs, e, cs, ln, st, ph), Enters(e, f, c), Fresh(e, f),
         c.k # "try", c.k = "exec" => c.u # Main,
         cs = <<>> \/ Last(cs).k # "try" \/ Width(c) >= 1
  PROVE  Fit(hs, f, Append(cs, c), ln, st, ph)
  <1>1. /\ ScopesFit(e, cs, st) /\ TriesFit(hs, cs)
        /\ ph = "run" => DepthsFit(hs, e, cs, ln) /\ DistinctFit(e, cs)
    BY DEF Fit
  <1>2. e \in Seq(Nat) /\ f \in Seq(Nat) /\ c \in ContRec /\ Len(e) \in Nat /\ Len(f) \in Nat
    BY LenProperties DEF Enters
  <1>3. Registers(hs, hs, c)
    <2>1. Tries(c) = 0 /\ Len(hs) \in Nat
      BY <1>2, WidthOK, LenProperties
    <2> QED BY <2>1 DEF Registers
  <1>4. ScopesFit(f, Append(cs, c), st)
    <2>1. \A p \in (Len(e) + 1)..Len(f) : f[p] # Main
      BY DEF Fresh
    <2> QED BY <1>1, <2>1, ScopesPush
  <1>5. TriesFit(hs, Append(cs, c))
    BY <1>1, <1>2, <1>3, TriesPush
  <1>6. ASSUME ph = "run"
        PROVE  DepthsFit(hs, f, Append(cs, c), ln) /\ DistinctFit(f, Append(cs, c))
    <2>1. ASSUME NEW j \in DOMAIN hs, hs[j].line = ln,
                 NEW q \in 1..hs[j].depth, NEW p \in (Len(e) + 1)..Len(f)
          PROVE  f[q] # f[p]
      <3>1. hs[j].depth \in Nat /\ hs[j].depth <= Len(e)
        <4>1. hs[j] \in HandlerRec /\ j \in 1..Len(hs)
          BY ElementOfSeq, LenProperties
        <4>2. hs[j].depth \in Nat
          BY <4>1 DEF HandlerRec
        <4>3. /\ Len(cs) \in Nat /\ Len(cs) + 1 \in 1..(Len(cs) + 1)
              /\ Older(hs, cs, Len(cs) + 1) = Len(hs) /\ Under(e, cs, Len(cs) + 1) = Len(e)
          BY <1>1, <1>2, OlderRange, UnderRange
        <4>4. hs[j].depth < Room(e, cs, Len(cs) + 1)
          BY <1>1, <1>6, <2>1, <4>1, <4>3 DEF DepthsFit
        <4>5. Room(e, cs, Len(cs) + 1) \in {Len(e), Len(e) + 1}
          BY <1>2, <4>3 DEF Room
        <4> QED BY <1>2, <4>2, <4>4, <4>5
      <3>2. q \in 1..(p - 1)
        BY <1>2, <3>1
      <3> QED BY <3>2 DEF Fresh
    <2>2. DepthsFit(hs, f, Append(cs, c), ln)
      BY <1>1, <1>3, <1>6, <2>1, DepthsPush
    <2>3. DistinctFit(f, Append(cs, c))
      BY <1>1, <1>6, DistinctPush
    <2> QED BY <2>2, <2>3
  <1> QED BY <1>4, <1>5, <1>6 DEF Fit

\* A try expression registers its handler.
LEMMA FitTry ==
  ASSUME NEW hs \in Seq(HandlerRec), NEW e \in Seq(Nat), NEW cs \in Seq(ContRec),
         NEW ln \in Nat, NEW st \in BOOLEAN, NEW ph,
         Fit(hs, e, cs, ln, st, ph), cs = <<>> \/ Last(cs).k # "try"
  PROVE  Fit(Append(hs, [depth |-> Len(e), line |-> ln]), e,
             Append(cs, Cont("try", 0, Len(e))), ln, st, ph)
  <1> DEFINE h == [depth |-> Len(e), line |-> ln]
             gs == Append(hs, h)
             c == Cont("try", 0, Len(e))
  <1>1. /\ ScopesFit(e, cs, st) /\ TriesFit(hs, cs)
        /\ ph = "run" => DepthsFit(hs, e, cs, ln) /\ DistinctFit(e, cs)
    BY DEF Fit
  <1>2. Len(e) \in Nat \ {0} /\ h \in HandlerRec
    <2>1. Len(e) \in Nat \ {0}
      BY <1>1, UnderRange
    <2> QED BY <2>1 DEF HandlerRec
  <1>3. c \in ContRec /\ c.k = "try" /\ c.n = Len(e) /\ c.u = 0
    BY <1>2 DEF ContRec, Cont, ContKinds
  <1>h. h = [depth |-> Len(e), line |-> ln] /\ h.depth = Len(e) /\ c = Cont("try", 0, Len(e))
    OBVIOUS
  <1> HIDE DEF h, c
  <1>4. /\ gs \in Seq(HandlerRec) /\ Len(hs) \in Nat /\ Len(gs) = Len(hs) + 1
        /\ \A j \in 1..Len(hs) : gs[j] = hs[j]
        /\ gs[Len(gs)] = h
    BY <1>2, AppendOK
  <1>g. gs = Append(hs, h)
    OBVIOUS
  <1> HIDE DEF gs
  <1>5. Width(c) = 0 /\ Tries(c) = 1 /\ c \notin Entering /\ c \notin Proxied
    BY <1>3, WidthOK
  <1>6. Enters(e, e, c) /\ Registers(hs, gs, c) /\ (Len(e) + 1)..Len(e) = {}
    BY <1>2, <1>3, <1>4, <1>5 DEF Enters, Registers
  <1>7. ScopesFit(e, Append(cs, c), st)
    BY <1>1, <1>3, <1>6, ScopesPush
  <1>8. TriesFit(gs, Append(cs, c))
    BY <1>1, <1>3, <1>4, <1>6, <1>h, TriesPush
  <1>9. ASSUME ph = "run"
        PROVE  DepthsFit(gs, e, Append(cs, c), ln) /\ DistinctFit(e, Append(cs, c))
    <2>1. DepthsFit(gs, e, Append(cs, c), ln)
      BY <1>1, <1>4, <1>6, <1>9, <1>h, DepthsPush
    <2>2. Fresh(e, e)
      BY <1>6 DEF Fresh
    <2>3. DistinctFit(e, Append(cs, c))
      BY <1>1, <1>6, <1>9, <2>2, DistinctPush
    <2> QED BY <2>1, <2>3
  <1>10. Fit(gs, e, Append(cs, c), ln, st, ph)
    BY <1>7, <1>8, <1>9 DEF Fit
  <1> QED BY <1>10, <1>g, <1>h

\* A native frame returns and leaves its scopes, unless the program stopped.
LEMMA FitPop ==
  ASSUME NEW hs, NEW gs, NEW e, NEW f, NEW cs \in Seq(ContRec), cs # <<>>,
         NEW ln, NEW st \in BOOLEAN, NEW ph,
         Fit(hs, e, cs, ln, st, ph), Forgets(hs, gs, Tries(Last(cs))),
         \/ Cuts(e, f, Len(e) - Width(Last(cs)))
         \/ st /\ f = e /\ e \in Seq(Nat)
  PROVE  Fit(gs, f, Front(cs), ln, st, ph)
  <1>1. /\ ScopesFit(e, cs, st) /\ TriesFit(hs, cs)
        /\ ph = "run" => DepthsFit(hs, e, cs, ln) /\ DistinctFit(e, cs)
    BY DEF Fit
  <1>2. ScopesFit(f, Front(cs), st) /\ TriesFit(gs, Front(cs))
    BY <1>1, ScopesPop, TriesPop
  <1>3. ph = "run" => DepthsFit(gs, f, Front(cs), ln) /\ DistinctFit(f, Front(cs))
    BY <1>1, DepthsPop, DistinctPop
  <1> QED BY <1>2, <1>3 DEF Fit

\* Nothing native is left: the depths of the program are under its frames.
LEMMA FitNone ==
  ASSUME NEW hs \in Seq(HandlerRec), NEW e \in Seq(Nat), NEW ln, NEW st, NEW ph,
         Len(e) >= 1, \A p \in 2..Len(e) : e[p] # Main,
         ph = "run" => DepthsFit(hs, e, <<>>, ln)
  PROVE  Fit(hs, e, <<>>, ln, st, ph)
  BY ScopesNone, TriesNone, DistinctNone DEF Fit

LEMMA FitCut ==
  ASSUME NEW hs \in Seq(HandlerRec), hs # <<>>, NEW e \in Seq(Nat), NEW f \in Seq(Nat),
         NEW cs \in Seq(ContRec), NEW st, NEW ln,
         Fit(hs, e, cs, ln, st, "run"), LinesFit(hs, ln), cs = <<>> \/ Last(cs).k # "try",
         f = IF Len(e) <= Last(hs).depth THEN e ELSE SubSeq(e, 1, Last(hs).depth)
  PROVE  Fit(Front(hs), f, <<>>, ln, st, "run")
  <1>1. ScopesFit(e, cs, st) /\ TriesFit(hs, cs) /\ DepthsFit(hs, e, cs, ln)
    BY DEF Fit
  <1>2. DepthsFit(Front(hs), f, <<>>, ln)
    BY <1>1, DepthsCut
  <1>3. Front(hs) \in Seq(HandlerRec) /\ Last(hs) \in HandlerRec
    BY FrontLast
  <1>4. Last(hs).depth \in Nat \ {0} /\ Len(e) \in Nat \ {0}
    BY <1>1, <1>3, UnderRange DEF HandlerRec
  <1>5. Len(f) >= 1 /\ \A p \in 2..Len(f) : f[p] # Main
    <2>1. CASE Len(e) <= Last(hs).depth
      BY <1>1, <1>4, <2>1 DEF ScopesFit
    <2>2. CASE ~(Len(e) <= Last(hs).depth)
      <3> DEFINE d == Last(hs).depth
      <3>0. f = SubSeq(e, 1, d) /\ d \in Nat \ {0} /\ ~(Len(e) <= d)
        BY <1>4, <2>2
      <3> HIDE DEF d
      <3>1. d <= Len(e)
        BY <1>4, <3>0
      <3>2. Len(f) = d /\ \A p \in 1..d : f[p] = e[p]
        BY <3>0, <3>1, Prefix
      <3> QED BY <1>1, <1>4, <3>0, <3>1, <3>2 DEF ScopesFit
    <2> QED BY <2>1, <2>2
  <1> QED BY <1>2, <1>3, <1>5, FitNone

\* run() pushes the unit it resumes once more.
LEMMA FitResume ==
  ASSUME NEW hs \in Seq(HandlerRec), NEW e \in Seq(Nat), NEW f, NEW ln, NEW st \in BOOLEAN,
         Fit(hs, e, <<>>, ln, st, "run"),
         NEW u, u = Last(e), f = IF u = Main THEN e ELSE Append(e, u)
  PROVE  Fit(hs, f, <<Cont("exec", u, 0)>>, ln, st, "run")
  <1> DEFINE s == <<>>
             c == Cont("exec", u, 0)
             t == Append(s, c)
  <1>1. ScopesFit(e, s, st) /\ TriesFit(hs, s) /\ DepthsFit(hs, e, s, ln) /\ DistinctFit(e, s)
    BY DEF Fit
  <1>2. s \in Seq(ContRec) /\ Len(s) = 0 /\ t = <<Cont("exec", u, 0)>>
    BY EmptySeq
  <1>s. s = <<>> /\ Append(s, c) = t
    OBVIOUS
  <1>e. s \in Seq(ContRec)
    BY <1>2
  <1> HIDE DEF s, t
  <1>3. /\ Len(e) \in Nat \ {0} /\ Under(e, s, 1) = Len(e) /\ e # <<>>
        /\ Older(hs, s, 1) = Len(hs)
    <2>1. Under(e, s, Len(s) + 1) = Len(e) /\ Older(hs, s, Len(s) + 1) = Len(hs)
          /\ Len(e) \in Nat \ {0}
      BY <1>1, <1>2, UnderRange, OlderRange
    <2> QED BY <1>2, <2>1, EmptySeq
  <1>4. u \in Nat /\ u = e[Len(e)]
    <2>1. Len(e) \in 1..Len(e)
      BY <1>3
    <2>2. Last(e) = e[Len(e)]
      BY <1>3 DEF Last
    <2> QED BY <2>1, <2>2, ElementOfSeq
  <1>5. /\ c \in ContRec /\ c.k = "exec" /\ c.u = u /\ Tries(c) = 0
        /\ u = Main => Width(c) = 0 /\ c \notin Entering /\ c \notin Proxied
        /\ u # Main => Width(c) = 1 /\ c \in Entering /\ c \notin Proxied
    <2>1. c \in ContRec /\ c.k = "exec" /\ c.u = u
      BY <1>4 DEF ContRec, Cont, ContKinds
    <2> HIDE DEF c
    <2> QED BY <2>1, WidthOK
  <1>c. c = Cont("exec", u, 0)
    OBVIOUS
  <1> HIDE DEF c
  <1>6. Enters(e, f, c) /\ Len(f) \in Nat
    <2>1. CASE u = Main
      BY <1>3, <1>5, <2>1 DEF Enters
    <2>2. CASE u # Main
      <3>1. /\ f \in Seq(Nat) /\ Len(f) = Len(e) + 1 /\ f[Len(e) + 1] = u
            /\ \A p \in 1..Len(e) : f[p] = e[p]
        BY <1>4, <2>2, AppendOK
      <3> QED BY <1>3, <1>5, <2>2, <3>1 DEF Enters
    <2> QED BY <2>1, <2>2
  <1>7. u = Main => Len(e) = 1
    <2> SUFFICES ASSUME u = Main, Len(e) # 1
                 PROVE  FALSE
      OBVIOUS
    <2>1. Len(e) \in 2..Len(e)
      BY <1>3
    <2> QED BY <1>1, <1>4, <2>1 DEF ScopesFit
  <1>8. ASSUME NEW p \in (Len(e) + 1)..Len(f)
        PROVE  f[p] = u /\ u # Main /\ p = Len(e) + 1
    <2>1. u # Main
      BY <1>3, <1>8
    <2>2. Len(f) = Len(e) + 1 /\ f[Len(e) + 1] = u
      BY <1>4, <2>1, AppendOK
    <2> QED BY <1>3, <1>8, <2>1, <2>2
  <1>9. ScopesFit(f, t, st)
    <2>1. c.k = "exec" /\ c.u = Main => s = <<>> /\ Len(e) = 1
      BY <1>2, <1>5, <1>7, <1>s
    <2> QED BY <1>1, <1>2, <1>6, <1>8, <1>s, <2>1, ScopesPush
  <1>10. Registers(hs, hs, c)
    <2>1. Len(hs) \in Nat
      BY LenProperties
    <2> QED BY <1>5, <2>1 DEF Registers
  <1>11. TriesFit(hs, t)
    BY <1>1, <1>2, <1>5, <1>10, <1>s, TriesPush
  <1>12. DepthsFit(hs, f, t, ln)
    <2>1. ASSUME NEW j \in DOMAIN hs, hs[j].line = ln,
                 NEW q \in 1..hs[j].depth, NEW p \in (Len(e) + 1)..Len(f)
          PROVE  f[q] # f[p]
      <3>1. hs[j] \in HandlerRec /\ j \in 1..Len(hs) /\ Len(hs) \in Nat
        BY ElementOfSeq, LenProperties
      <3>2. hs[j].depth \in Nat
        BY <3>1 DEF HandlerRec
      <3>3. 1 \in 1..(Len(s) + 1) /\ Room(e, s, 1) = Len(e)
        BY <1>2, <1>3 DEF Room
      <3>4. hs[j].depth < Len(e)
        BY <1>1, <1>3, <2>1, <3>1, <3>3 DEF DepthsFit
      <3>5. Len(e) \in (hs[j].depth + 1)..Len(e) /\ q \in 1..Len(e)
        BY <1>3, <3>2, <3>4
      <3>6. e[q] # e[Len(e)]
        BY <1>1, <2>1, <3>5 DEF DepthsFit
      <3>7. f[q] = e[q]
        BY <1>6, <3>5 DEF Enters
      <3> QED BY <1>4, <1>8, <3>6, <3>7
    <2>2. c.k # "try" /\ (s = <<>> \/ Last(s).k # "try" \/ Width(c) >= 1)
      BY <1>5, <1>s
    <2>3. \A j \in DOMAIN hs : hs[j].line = ln =>
            \A q \in 1..hs[j].depth, p \in (Len(e) + 1)..Len(f) : f[q] # f[p]
      BY <2>1
    <2>4. ScopesFit(e, s, st) /\ TriesFit(hs, s) /\ DepthsFit(hs, e, s, ln)
      BY <1>1
    <2>5. Enters(e, f, c) /\ Registers(hs, hs, c)
      BY <1>6, <1>10
    <2>6. DepthsFit(hs, f, Append(s, c), ln)
      BY ONLY <1>e, <2>2, <2>3, <2>4, <2>5, DepthsPush
    <2> QED BY <1>s, <2>6
  <1>13. DistinctFit(f, t)
    <2>1. Under(f, t, 1) = Len(e)
      <3>1. 1 \in 1..(Len(s) + 1)
        BY <1>2
      <3>2. Under(f, Append(s, c), 1) = Under(e, s, 1)
        BY <1>6, <1>e, <3>1, UnderEntered
      <3> QED BY <1>3, <1>s, <3>2
    <2>2. t # <<>> /\ t[1] = c
      <3>1. 1 = Len(s) + 1
        BY <1>2
      <3> QED BY <1>2, <1>5, <1>s, <3>1, ContAppend
    <2>3. ASSUME NEW p \in (Len(e) + 1)..Len(f)
          PROVE  p = Len(e) + 1 /\ c \in Entering /\ c.k = "exec"
      BY <1>5, <1>8
    <2> QED BY <2>1, <2>2, <2>3 DEF DistinctFit
  <1>14. Fit(hs, f, t, ln, st, "run")
    BY <1>9, <1>11, <1>12, <1>13 DEF Fit
  <1> QED BY <1>2, <1>14

\* Once stopped, less is asked.
LEMMA FitStop ==
  ASSUME NEW hs, NEW e, NEW cs, NEW ln, NEW st \in BOOLEAN, NEW ph, Fit(hs, e, cs, ln, st, ph)
  PROVE  Fit(hs, e, cs, ln, TRUE, ph)
  BY DEF Fit, ScopesFit

\* Handlers of a program are those registered last.
LEMMA LinesKept ==
  ASSUME NEW hs \in Seq(HandlerRec), NEW ln \in Nat, LinesFit(hs, ln)
  PROVE  /\ \A d \in Nat \ {0} : LinesFit(Append(hs, [depth |-> d, line |-> ln]), ln)
         /\ hs # <<>> => LinesFit(Front(hs), ln)
         /\ LinesFit(hs, ln + 1) /\ \A j \in DOMAIN hs : hs[j].line # ln + 1
  <1>1. \A j \in DOMAIN hs : hs[j].line \in Nat
    <2>1. \A j \in DOMAIN hs : hs[j] \in HandlerRec
      BY ElementOfSeq, LenProperties
    <2> QED BY <2>1 DEF HandlerRec
  <1>2. LinesFit(hs, ln + 1) /\ \A j \in DOMAIN hs : hs[j].line # ln + 1
    BY <1>1 DEF LinesFit
  <1>3. ASSUME NEW d \in Nat \ {0}
        PROVE  LinesFit(Append(hs, [depth |-> d, line |-> ln]), ln)
    <2> DEFINE h == [depth |-> d, line |-> ln]
               gs == Append(hs, h)
    <2>1. h \in HandlerRec /\ h.line = ln
      BY DEF HandlerRec
    <2> HIDE DEF h
    <2>2. /\ Len(hs) \in Nat /\ DOMAIN hs = 1..Len(hs) /\ DOMAIN gs = 1..(Len(hs) + 1)
          /\ \A j \in 1..Len(hs) : gs[j] = hs[j]
          /\ gs[Len(hs) + 1] = h
      BY <2>1, AppendOK
    <2> HIDE DEF gs
    <2>3. \A j \in DOMAIN gs : gs[j].line \in Nat /\ gs[j].line <= ln
      BY <1>1, <2>1, <2>2 DEF LinesFit
    <2>4. ASSUME NEW i \in DOMAIN gs, NEW j \in DOMAIN gs, i < j
          PROVE  gs[i].line <= gs[j].line
      <3>1. CASE j \in 1..Len(hs)
        <4>1. i \in 1..Len(hs)
          BY <2>2, <2>4, <3>1
        <4> QED BY <2>2, <2>4, <3>1, <4>1 DEF LinesFit
      <3>2. CASE j = Len(hs) + 1
        BY <2>1, <2>2, <2>3, <3>2
      <3> QED BY <2>2, <3>1, <3>2
    <2>5. LinesFit(gs, ln)
      BY <2>3, <2>4 DEF LinesFit
    <2> QED BY <2>5 DEF gs, h
  <1>4. ASSUME hs # <<>>
        PROVE  LinesFit(Front(hs), ln)
    <2> DEFINE gs == Front(hs)
    <2>1. /\ Len(hs) \in Nat \ {0} /\ DOMAIN hs = 1..Len(hs) /\ gs \in Seq(HandlerRec)
          /\ Len(gs) = Len(hs) - 1 /\ \A j \in 1..(Len(hs) - 1) : gs[j] = hs[j]
      BY <1>4, FrontLast, LenProperties, EmptySeq
    <2> HIDE DEF gs
    <2>2. DOMAIN gs = 1..(Len(hs) - 1)
      BY <2>1, LenProperties
    <2>3. LinesFit(gs, ln)
      BY <2>1, <2>2 DEF LinesFit
    <2> QED BY <2>3 DEF gs
  <1> QED BY <1>2, <1>3, <1>4

-----------------------------------------------------------------------------
(* What the operations on the stacks do to exec_stack.                     *)

LEMMA ExecKept ==
  ASSUME NEW m, StacksOK(m)
  PROVE  /\ m.exec \in Seq(Nat) /\ m.exec # <<>> /\ Len(m.exec) \in Nat \ {0}
         /\ \A kind : TmpCallable(m, kind).exec = m.exec
         /\ PopTmpCallable(m).exec = m.exec
         /\ \A u : SaveReturn(m, u).exec = m.exec
         /\ \A us, b : StopUnits(m, us, b).exec = m.exec
         /\ \A u : PropagateBreak(m, u).exec = m.exec
         /\ \A r, c, u : CarryReturn(m, r, c, u).exec = m.exec
         /\ \A u : Execute(m, u, FALSE).exec = m.exec
         /\ \A u : Advance(m, u).exec = m.exec
  <1>1. m \in [exec : Seq(Nat), tmp : Seq(Nat), unit : Seq(UnitRec), handling : Nat]
    BY DEF StacksOK
  <1>2. m.exec \in Seq(Nat) /\ m.exec # <<>> /\ Len(m.exec) \in Nat \ {0}
    BY CurrentOK DEF StacksOK
  <1>3. ASSUME NEW kind PROVE TmpCallable(m, kind).exec = m.exec
    BY <1>1 DEF TmpCallable
  <1>4. PopTmpCallable(m).exec = m.exec
    BY <1>1 DEF PopTmpCallable
  <1>5. ASSUME NEW u PROVE SaveReturn(m, u).exec = m.exec
    BY <1>1 DEF SaveReturn
  <1>6. ASSUME NEW us, NEW b PROVE StopUnits(m, us, b).exec = m.exec
    BY <1>1 DEF StopUnits
  <1>7. ASSUME NEW u PROVE PropagateBreak(m, u).exec = m.exec
    BY <1>6 DEF PropagateBreak
  <1>8. ASSUME NEW r, NEW c, NEW u PROVE CarryReturn(m, r, c, u).exec = m.exec
    BY <1>5 DEF CarryReturn
  <1>9. ASSUME NEW u PROVE Execute(m, u, FALSE).exec = m.exec
    BY <1>1 DEF Execute
  <1>10. ASSUME NEW u PROVE Advance(m, u).exec = m.exec
    BY <1>1 DEF Advance
  <1> QED BY <1>2, <1>3, <1>4, <1>5, <1>6, <1>7, <1>8, <1>9, <1>10

LEMMA ExecReturned ==
  ASSUME NEW m, StacksOK(m), NEW r, NEW c, NEW u
  PROVE  SaveReturn(m, u).exec = m.exec /\ CarryReturn(m, r, c, u).exec = m.exec
  <1>1. SaveReturn(m, u).exec = m.exec
    BY DEF SaveReturn, StacksOK
  <1>2. CarryReturn(m, r, c, u) = SaveReturn(m, u) \/ CarryReturn(m, r, c, u) = m
    BY DEF CarryReturn
  <1> QED BY <1>1, <1>2

LEMMA ExecEntered ==
  ASSUME NEW m, StacksOK(m), NEW u
  PROVE  /\ EnterScope(m, u).exec = IF u = Main THEN m.exec ELSE Append(m.exec, u)
         /\ Execute(m, u, TRUE).exec = IF u = Main THEN m.exec ELSE Append(m.exec, u)
  <1>1. m \in [exec : Seq(Nat), tmp : Seq(Nat), unit : Seq(UnitRec), handling : Nat]
    BY DEF StacksOK
  <1>2. EnterScope(m, u).exec = IF u = Main THEN m.exec ELSE Append(m.exec, u)
    BY <1>1 DEF EnterScope
  <1> DEFINE e == EnterScope(m, u)
  <1>3. DOMAIN e = {"exec", "tmp", "unit", "handling"}
    BY <1>1 DEF EnterScope
  <1>4. Execute(m, u, TRUE) \in {e, [e EXCEPT !.handling = @ - 1], [e EXCEPT !.unit[u].cur = 0]}
    BY DEF Execute
  <1> HIDE DEF e
  <1>5. Execute(m, u, TRUE).exec = e.exec
    BY <1>3, <1>4
  <1> QED BY <1>2, <1>5 DEF e

LEMMA ExecLeft ==
  ASSUME NEW m, StacksOK(m)
  PROVE  LeaveScope(m).exec = IF Len(m.exec) > 1 THEN Front(m.exec) ELSE m.exec
  <1>1. CASE Len(m.exec) > 1
    <2> DEFINE c == [m EXCEPT !.unit[Current(m)].ret = FALSE]
               p == PopTmpCallable(c)
    <2>1. c.exec = m.exec /\ DOMAIN c = {"exec", "tmp", "unit", "handling"}
      BY DEF StacksOK
    <2>2. LeaveScope(m) = [p EXCEPT !.exec = Front(@)]
      BY <1>1 DEF LeaveScope
    <2> HIDE DEF c
    <2>3. p.exec = m.exec /\ "exec" \in DOMAIN p
      BY <2>1 DEF PopTmpCallable
    <2> HIDE DEF p
    <2>4. LeaveScope(m).exec = Front(m.exec)
      BY <2>2, <2>3
    <2> QED BY <1>1, <2>4
  <1>2. CASE ~(Len(m.exec) > 1)
    BY <1>2 DEF LeaveScope
  <1> QED BY <1>1, <1>2

LEMMA ExecRestored ==
  ASSUME NEW m, StacksOK(m), NEW d
  PROVE  Restore(m, d).exec = IF Len(m.exec) <= d THEN m.exec ELSE SubSeq(m.exec, 1, d)
  BY DEF Restore, StacksOK

\* The frame of a unit that is new, entered.
LEMMA EntersUnit ==
  ASSUME NEW e \in Seq(Nat), NEW u \in Nat, u # Main, \A p \in DOMAIN e : e[p] # u
  PROVE  /\ \A k \in {"exec", "loop"} : Enters(e, Append(e, u), Cont(k, u, 0))
         /\ \A n \in Nat : Enters(e, Append(e, u), Cont("init", u, n))
         /\ Fresh(e, Append(e, u))
         /\ Width(Cont("exec", u, 0)) = 1 /\ Width(Cont("loop", u, 0)) = 1
  <1> DEFINE f == Append(e, u)
  <1>1. /\ f \in Seq(Nat) /\ Len(e) \in Nat /\ Len(f) = Len(e) + 1 /\ f[Len(e) + 1] = u
        /\ \A p \in 1..Len(e) : f[p] = e[p] /\ DOMAIN e = 1..Len(e)
    BY AppendOK
  <1>f. f = Append(e, u)
    OBVIOUS
  <1> HIDE DEF f
  <1>2. ASSUME NEW k \in {"exec", "loop", "init"}, NEW n \in Nat, k = "init" \/ n = 0
        PROVE  Enters(e, f, Cont(k, u, n)) /\ Width(Cont(k, u, n)) = 1
    <2> DEFINE c == Cont(k, u, n)
    <2>1. c \in ContRec /\ c.k = k /\ c.u = u /\ c.n = n
      BY FramesAreRecords, KindsAreNamed
    <2> HIDE DEF c
    <2>2. Width(c) = 1 /\ c \notin Proxied
      BY <1>2, <2>1, WidthOK
    <2>3. Enters(e, f, c)
      BY <1>1, <2>1, <2>2 DEF Enters
    <2> QED BY <2>2, <2>3 DEF c
  <1>3. Fresh(e, f)
    BY <1>1 DEF Fresh
  <1>4. 0 \in Nat
    OBVIOUS
  <1> QED BY <1>2, <1>3, <1>4, <1>f

\* A copy is a new unit: it is on exec_stack nowhere.
LEMMA CopyIsNew ==
  ASSUME NEW m, StacksOK(m), NEW kind \in UnitKinds
  PROVE  LET u == Last(TmpCallable(m, kind).tmp) IN
         /\ u \in Nat /\ u # Main /\ \A p \in DOMAIN m.exec : m.exec[p] # u
         /\ u # 0 /\ u \notin DOMAIN m.unit
         /\ StacksOK(TmpCallable(m, kind)) /\ TmpCallable(m, kind).exec = m.exec
         /\ u \in DOMAIN TmpCallable(m, kind).unit
  <1> DEFINE p == TmpCallable(m, kind)
             u == Last(p.tmp)
  <1>1. Keeps(m, p) /\ u \in DOMAIN p.unit /\ u \notin DOMAIN m.unit
    BY TmpCallableOK
  <1>2. StacksOK(p)
    BY <1>1 DEF Keeps, KeepsBut
  <1>3. u \in Nat /\ u # 0
    <2> HIDE DEF p
    <2>1. p.unit \in Seq(UnitRec)
      BY <1>2, UnitOK
    <2> QED BY <1>1, <1>2, <2>1, UnitIsNat, LenProperties
  <1>4. u # Main /\ \A i \in DOMAIN m.exec : m.exec[i] # u
    BY <1>1, CurrentOK DEF StacksOK
  <1>5. p.exec = m.exec
    BY ExecKept
  <1> HIDE DEF p, u
  <1> QED BY <1>1, <1>2, <1>3, <1>4, <1>5 DEF p, u

\* A unit or a function invoked is copied and entered.
LEMMA ExecInvoked ==
  ASSUME NEW m, StacksOK(m), NEW kind \in UnitKinds
  PROVE  LET n == Invoke(m, kind)
             c == Cont("exec", Last(n.tmp), 0)
         IN  /\ Enters(m.exec, n.exec, c) /\ Fresh(m.exec, n.exec)
             /\ c.k = "exec" /\ c.u # Main /\ Width(c) = 1 /\ c \in ContRec
             /\ \A i \in DOMAIN m.exec : m.exec[i] # Last(n.tmp)
  <1> DEFINE p == TmpCallable(m, kind)
             u == Last(p.tmp)
             n == Execute(p, u, TRUE)
  <1>1. Keeps(m, p) /\ u \in DOMAIN p.unit /\ p.exec = m.exec
    BY TmpCallableOK, ExecKept
  <1>2. u \in Nat /\ u # Main /\ \A i \in DOMAIN m.exec : m.exec[i] # u
    BY CopyIsNew
  <1>n. Invoke(m, kind) = n
    BY DEF Invoke
  <1> HIDE DEF p
  <1>3. StacksOK(p)
    BY <1>1 DEF Keeps, KeepsBut
  <1>4. n.exec = Append(m.exec, u)
    BY <1>1, <1>2, <1>3, ExecEntered
  <1>5. n.tmp = p.tmp
    BY <1>1, <1>3, ExecuteOK
  <1> HIDE DEF n, u
  <1>6. Enters(m.exec, n.exec, Cont("exec", u, 0)) /\ Fresh(m.exec, n.exec)
        /\ Width(Cont("exec", u, 0)) = 1
    <2>1. m.exec \in Seq(Nat)
      BY ExecKept
    <2> QED BY <1>2, <1>4, <2>1, EntersUnit
  <1>7. /\ Cont("exec", u, 0).k = "exec" /\ Cont("exec", u, 0).u = u
        /\ Cont("exec", u, 0) \in ContRec
    BY <1>2, FramesAreRecords, KindsAreNamed
  <1>8. u = Last(n.tmp)
    BY <1>5 DEF u
  <1> QED BY <1>2, <1>6, <1>7, <1>8, <1>n

\* A frame left: its scopes are the top ones.
LEMMA LeftOne ==
  ASSUME NEW e \in Seq(Nat), Len(e) > 1
  PROVE  Cuts(e, Front(e), Len(e) - 1)
  <1>1. /\ Len(e) \in Nat /\ Front(e) \in Seq(Nat) /\ Len(Front(e)) = Len(e) - 1
        /\ \A p \in 1..(Len(e) - 1) : Front(e)[p] = e[p]
    BY FrontLast, LenProperties, EmptySeq
  <1> HIDE DEF Front
  <1> QED BY <1>1 DEF Cuts

-----------------------------------------------------------------------------
(* What the actions have in common.                                        *)

\* While run() goes on, the invariant is that everything fits.
LEMMA FitNext ==
  ASSUME Running', LinesFit(handlers', line'),
         Fit(handlers', exec', cont', line', stopped', phase')
  PROVE  FitInv'
  BY DEF FitInv, Fit, ScopesFit, Running

\* It is over: only the handlers and main's place at the bottom count.
LEMMA FitOver ==
  ASSUME FitInv, phase' \notin {"run", "destroy", "ready"}, UNCHANGED line,
         \A p \in 2..Len(exec') : exec'[p] # Main, UNCHANGED handlers
  PROVE  FitInv'
  BY DEF FitInv, Running

LEMMA FitNow ==
  ASSUME IInv, FitInv, Running
  PROVE  /\ Fit(handlers, exec, cont, line, stopped, phase) /\ LinesFit(handlers, line)
         /\ handlers \in Seq(HandlerRec) /\ exec \in Seq(Nat) /\ cont \in Seq(ContRec)
         /\ stopped \in BOOLEAN /\ line \in Nat /\ StacksOK(Stacks)
         /\ Stacks.exec = exec /\ Stacks.unit = unit
         /\ ScopesFit(exec, cont, stopped) /\ TriesFit(handlers, cont)
  <1>1. Stacks.exec = exec /\ Stacks.unit = unit
    BY DEF Stacks
  <1>2. StacksOK(Stacks) /\ exec \in Seq(Nat)
    BY <1>1, ExecKept DEF IInv
  <1> QED BY <1>1, <1>2 DEF IInv, RestOK, NativeOK, FitInv, Fit

\* A frame without a handler is pushed and its scopes entered.
LEMMA PushFits ==
  ASSUME IInv, FitInv, Running, NEW c, cont' = Append(cont, c),
         Enters(exec, exec', c), Fresh(exec, exec'), c.k # "try", c.k = "exec" => c.u # Main,
         cont = <<>> \/ TopCont.k # "try",
         UNCHANGED <<handlers, stopped, phase, line>>
  PROVE  FitInv'
  <1>1. Fit(handlers, exec', Append(cont, c), line, stopped, phase)
    BY FitNow, FitPush DEF TopCont
  <1> QED BY <1>1, FitNow, FitNext DEF Running

\* Nothing is entered.
LEMMA EntersNothing ==
  ASSUME NEW e \in Seq(Nat), NEW c \in ContRec, Width(c) = 0
  PROVE  Enters(e, e, c) /\ Fresh(e, e)
  <1>1. Len(e) \in Nat
    BY LenProperties
  <1>2. c \notin Entering /\ c \notin Proxied
    BY WidthOK
  <1> QED BY <1>1, <1>2 DEF Enters, Fresh

\* Nothing is pushed.
LEMMA StayFits ==
  ASSUME IInv, FitInv, Running, UNCHANGED <<exec, cont, handlers, phase, line>>,
         stopped' \in {stopped, TRUE}
  PROVE  FitInv'
  <1>1. Fit(handlers, exec, cont, line, stopped', phase)
    BY FitNow, FitStop
  <1> QED BY <1>1, FitNow, FitNext DEF Running

\* A frame returns, and its scopes are left unless the program was stopped.
LEMMA PopFits ==
  ASSUME IInv, FitInv, Running, cont # <<>>, cont' = Front(cont),
         Forgets(handlers, handlers', Tries(TopCont)),
         \/ Cuts(exec, exec', Len(exec) - Width(TopCont))
         \/ stopped /\ exec' = exec,
         UNCHANGED <<stopped, phase, line>>
  PROVE  FitInv'
  <1>1. Fit(handlers', exec', Front(cont), line, stopped, phase)
    BY FitNow, FitPop DEF TopCont
  <1>2. LinesFit(handlers', line)
    <2>1. /\ handlers \in Seq(HandlerRec) /\ handlers' \in Seq(HandlerRec)
          /\ Len(handlers) \in Nat /\ Len(handlers') \in Nat
          /\ Len(handlers') = Len(handlers) - Tries(TopCont)
          /\ \A j \in 1..Len(handlers') : handlers'[j] = handlers[j]
          /\ DOMAIN handlers = 1..Len(handlers) /\ DOMAIN handlers' = 1..Len(handlers')
      BY LenProperties DEF Forgets
    <2>2. Tries(TopCont) \in 0..1
      BY FitNow, ContFront, WidthOK DEF TopCont
    <2>3. DOMAIN handlers' \subseteq DOMAIN handlers
      BY <2>1, <2>2
    <2> QED BY <2>1, <2>3, FitNow DEF LinesFit
  <1> QED BY <1>1, <1>2, FitNext DEF Running

LEMMA UndefinedFits ==
  ASSUME FitInv, Undefined
  PROVE  FitInv'
  BY FitOver DEF Undefined, stacks, FitInv

\* Evaluating an expression, the top frame is a unit's or a loop's.
LEMMA Evaluating ==
  ASSUME IInv, FitInv, NEW kind, CanEvaluate(kind)
  PROVE  /\ Running /\ cont # <<>> /\ TopCont.k # "try" /\ Last(cont).k # "try"
         /\ StacksOK(Evaluated) /\ Evaluated.exec = exec
  BY EvaluatedOK DEF CanEvaluate, TopCont

-----------------------------------------------------------------------------
(* Actions that call a unit.                                               *)

LEMMA CallFits ==
  ASSUME IInv, FitInv, NEW kind \in Callables, Call(kind)
  PROVE  FitInv'
  <1> DEFINE m == Invoke(Evaluated, kind)
             c == Cont("exec", Last(m.tmp), 0)
  <1>1. /\ CanEvaluate(kind) /\ exec' = m.exec /\ cont' = Append(cont, c)
        /\ UNCHANGED <<handlers, stopped, phase, line>>
    BY DEF Call, Become
  <1>2. Enters(exec, m.exec, c) /\ Fresh(exec, m.exec) /\ c.k = "exec" /\ c.u # Main
    <2>1. kind \in UnitKinds
      BY DEF Callables, UnitKinds
    <2> QED BY <1>1, <2>1, Evaluating, ExecInvoked
  <1> HIDE DEF m, c
  <1> QED BY <1>1, <1>2, Evaluating, PushFits

\* A frame that waits for the unit it calls: both are pushed.
LEMMA PushTwoFits ==
  ASSUME NEW hs \in Seq(HandlerRec), NEW e \in Seq(Nat), NEW f, NEW cs \in Seq(ContRec),
         NEW ln, NEW st \in BOOLEAN, NEW ph,
         NEW c \in ContRec, NEW x \in ContRec,
         Fit(hs, e, Append(cs, c), ln, st, ph),
         Enters(e, f, x), Fresh(e, f), x.k = "exec", x.u # Main, Width(x) = 1
  PROVE  Fit(hs, f, cs \o <<c, x>>, ln, st, ph)
  <1> DEFINE t == Append(cs, c)
  <1>1. t \in Seq(ContRec) /\ Fit(hs, e, t, ln, st, ph)
    BY AppendOK
  <1>t. t = Append(cs, c)
    OBVIOUS
  <1> HIDE DEF t
  <1>2. Fit(hs, f, Append(t, x), ln, st, ph)
    BY <1>1, FitPush
  <1>3. cs \o <<c, x>> = Append(t, x)
    BY <1>t, PushTwo
  <1> QED BY <1>2, <1>3

LEMMA TryCatchFits ==
  ASSUME IInv, FitInv, TryCatch
  PROVE  FitInv'
  <1> DEFINE m == Invoke(Evaluated, "try")
             x == Cont("exec", Last(m.tmp), 0)
             c == Cont("try", 0, Len(exec))
             hs == Append(handlers, [depth |-> Len(exec), line |-> line])
  <1>1. /\ CanEvaluate("try") /\ exec' = m.exec /\ cont' = cont \o <<c, x>> /\ handlers' = hs
        /\ UNCHANGED <<stopped, phase, line>>
    BY DEF TryCatch, Become
  <1>2. Enters(exec, m.exec, x) /\ Fresh(exec, m.exec) /\ x.k = "exec" /\ x.u # Main
        /\ Width(x) = 1 /\ x \in ContRec
    <2>1. "try" \in UnitKinds
      BY DEF UnitKinds
    <2> QED BY <1>1, <2>1, Evaluating, ExecInvoked
  <1> HIDE DEF m, x
  <1>3. Fit(hs, exec, Append(cont, c), line, stopped, phase)
    BY <1>1, Evaluating, FitNow, FitTry
  <1>4. Len(exec) \in Nat \ {0}
    BY <1>1, Evaluating, FitNow, UnderRange
  <1>5. hs \in Seq(HandlerRec) /\ LinesFit(hs, line)
    <2>1. hs \in Seq(HandlerRec)
      BY <1>1, <1>4, Evaluating, FitNow, HandlerAppend
    <2>2. LinesFit(hs, line)
      BY <1>1, <1>4, Evaluating, FitNow, LinesKept
    <2> QED BY <2>1, <2>2
  <1>6. c \in ContRec
    BY <1>4, FramesAreRecords, KindsAreNamed
  <1> HIDE DEF c, hs
  <1>7. Fit(hs, m.exec, cont \o <<c, x>>, line, stopped, phase)
    BY <1>1, <1>2, <1>3, <1>5, <1>6, Evaluating, FitNow, PushTwoFits
  <1> QED BY <1>1, <1>5, <1>7, Evaluating, FitNext DEF Running

LEMMA EachNextFits ==
  ASSUME IInv, FitInv, EachNext
  PROVE  FitInv'
  <1> DEFINE m == Invoke(Stacks, "fn")
             c == Cont("exec", Last(m.tmp), 0)
  <1>1. /\ Running /\ TopCont.k = "each" /\ exec' = m.exec /\ cont' = Append(cont, c)
        /\ UNCHANGED <<handlers, stopped, phase, line>>
    BY DEF EachNext, Become, In
  <1>2. Enters(exec, m.exec, c) /\ Fresh(exec, m.exec) /\ c.k = "exec" /\ c.u # Main
    <2>1. "fn" \in UnitKinds
      BY DEF UnitKinds
    <2>2. StacksOK(Stacks) /\ Stacks.exec = exec
      BY <1>1, FitNow
    <2> HIDE DEF Stacks
    <2> QED BY <2>1, <2>2, ExecInvoked
  <1> HIDE DEF m, c
  <1> QED BY <1>1, <1>2, PushFits

-----------------------------------------------------------------------------
(* Actions that enter nothing.                                             *)

\* A native frame without scopes is pushed on stacks whose frames stay.
LEMMA WaitFits ==
  ASSUME IInv, FitInv, Running, NEW c \in ContRec, c.k \in {"each", "pass", "iter", "args", "iterable"},
         cont' = Append(cont, c), exec' = exec, cont = <<>> \/ TopCont.k # "try",
         UNCHANGED <<handlers, stopped, phase, line>>
  PROVE  FitInv'
  <1>1. Width(c) = 0
    BY WidthOK
  <1>2. Enters(exec, exec', c) /\ Fresh(exec, exec')
    BY <1>1, FitNow, EntersNothing
  <1> QED BY <1>2, PushFits

\* The copy of a method waits for its arguments: nothing is entered yet.
LEMMA CallFunctionFits ==
  ASSUME IInv, FitInv, CallFunction
  PROVE  FitInv'
  <1> DEFINE m == TmpCallable(Evaluated, "fn")
             c == Cont("args", Last(m.tmp), 0)
  <1>1. /\ CanEvaluate("fn") /\ exec' = m.exec /\ cont' = Append(cont, c)
        /\ UNCHANGED <<handlers, stopped, phase, line>>
    BY DEF CallFunction, Become
  <1>2. Running /\ (cont = <<>> \/ TopCont.k # "try")
        /\ StacksOK(Evaluated) /\ Evaluated.exec = exec
    BY <1>1, Evaluating
  <1>3. exec' = exec /\ Last(m.tmp) \in Nat
    <2> HIDE DEF Evaluated
    <2> QED BY <1>1, <1>2, CopyIsNew DEF UnitKinds
  <1> HIDE DEF m
  <1>4. c \in ContRec /\ c.k = "args"
    BY <1>3, FramesAreRecords, KindsAreNamed
  <1> HIDE DEF c
  <1> QED BY <1>1, <1>2, <1>3, <1>4, WaitFits

LEMMA AccessFits ==
  ASSUME IInv, FitInv, Access
  PROVE  FitInv'
  <1> DEFINE m == TmpCallable(Evaluated, "fn")
             x == Cont("args", Last(m.tmp), 0)
             c == Cont("use", 0, 0)
             t == Append(cont, c)
  <1>1. /\ CanEvaluate("access") /\ exec' = m.exec /\ cont' = cont \o <<c, x>>
        /\ UNCHANGED <<handlers, stopped, phase, line>>
    BY DEF Access, Become
  <1>2. /\ Running /\ cont # <<>> /\ Last(cont).k # "try"
        /\ StacksOK(Evaluated) /\ Evaluated.exec = exec
    BY <1>1, Evaluating
  <1>3. exec' = exec /\ Last(m.tmp) \in Nat
    <2> HIDE DEF Evaluated
    <2> QED BY <1>1, <1>2, CopyIsNew DEF UnitKinds
  <1> HIDE DEF m
  <1>4. c \in ContRec /\ c.k = "use" /\ x \in ContRec /\ x.k = "args"
    BY <1>3, FramesAreRecords, KindsAreNamed
  <1> HIDE DEF c, x
  <1>5. Width(c) = 0 /\ Width(x) = 0
    BY <1>4, WidthOK
  <1>6. Fit(handlers, exec, t, line, stopped, phase)
    BY <1>2, <1>4, <1>5, FitNow, EntersNothing, FitPush
  <1>7. t \in Seq(ContRec) /\ Last(t) = c /\ cont' = Append(t, x)
    BY <1>1, <1>2, <1>4, FitNow, ContAppend, PushTwo
  <1> HIDE DEF t
  <1>8. Fit(handlers, exec, Append(t, x), line, stopped, phase)
    BY <1>2, <1>4, <1>5, <1>6, <1>7, FitNow, EntersNothing, FitPush
  <1> QED BY <1>1, <1>2, <1>3, <1>7, <1>8, FitNow, FitNext DEF Running

\* The copy of a body waits for the iterable.
LEMMA ForEachFits ==
  ASSUME IInv, FitInv, ForEach
  PROVE  FitInv'
  <1> DEFINE m == TmpCallable(Evaluated, "body")
             c == Cont("iterable", Last(m.tmp), 0)
  <1>1. /\ CanEvaluate("foreach") /\ exec' = m.exec /\ cont' = Append(cont, c)
        /\ UNCHANGED <<handlers, stopped, phase, line>>
    BY DEF ForEach, Become
  <1>2. Running /\ (cont = <<>> \/ TopCont.k # "try")
        /\ StacksOK(Evaluated) /\ Evaluated.exec = exec
    BY <1>1, Evaluating
  <1>3. exec' = exec /\ Last(m.tmp) \in Nat
    <2> HIDE DEF Evaluated
    <2> QED BY <1>1, <1>2, CopyIsNew DEF UnitKinds
  <1> HIDE DEF m
  <1>4. c \in ContRec /\ c.k = "iterable"
    BY <1>3, FramesAreRecords, KindsAreNamed
  <1> HIDE DEF c
  <1> QED BY <1>1, <1>2, <1>3, <1>4, WaitFits

\* The proxy of a for loop is entered before its initialiser.
LEMMA ForLoopFits ==
  ASSUME IInv, FitInv, ForLoop
  PROVE  FitInv'
  <1> DEFINE p == TmpCallable(Evaluated, "proxy")
             u == Last(p.tmp)
             b == TmpCallable(p, "body")
             v == Last(b.tmp)
             c == Cont("init", u, v)
             f == EnterScope(b, u).exec
  <1>1. /\ CanEvaluate("for") /\ exec' = f /\ cont' = Append(cont, c)
        /\ UNCHANGED <<handlers, stopped, phase, line>>
    BY DEF ForLoop, Become
  <1>2. StacksOK(Evaluated) /\ Evaluated.exec = exec
    BY <1>1, Evaluating
  <1>3. u \in Nat /\ u # Main /\ \A i \in DOMAIN exec : exec[i] # u
    BY <1>2, CopyIsNew DEF UnitKinds
  <1>4. StacksOK(p) /\ p.exec = exec
    BY <1>2, CopyIsNew DEF UnitKinds
  <1> HIDE DEF p, u
  <1>5. v \in Nat /\ StacksOK(b) /\ b.exec = exec
    BY <1>4, CopyIsNew DEF UnitKinds
  <1> HIDE DEF b, v
  <1>6. f = Append(exec, u)
    BY <1>3, <1>5, ExecEntered
  <1>7. Enters(exec, f, c) /\ Fresh(exec, f)
    <2>1. exec \in Seq(Nat)
      BY <1>5, ExecKept
    <2> QED BY <1>3, <1>5, <1>6, <2>1, EntersUnit
  <1>8. c.k = "init"
    BY DEF Cont
  <1> HIDE DEF c, f
  <1> QED BY <1>1, <1>7, <1>8, Evaluating, PushFits

LEMMA NativeEachFits ==
  ASSUME IInv, FitInv, NativeEach
  PROVE  FitInv'
  <1>1. /\ CanEvaluate("each") /\ exec' = Evaluated.exec /\ cont' = Append(cont, Cont("each", 0, 0))
        /\ UNCHANGED <<handlers, stopped, phase, line>>
    BY DEF NativeEach, Become
  <1>2. Cont("each", 0, 0) \in ContRec /\ Cont("each", 0, 0).k = "each"
    BY FramesAreRecords, KindsAreNamed
  <1> QED BY <1>1, <1>2, Evaluating, WaitFits

LEMMA LoopIterateFits ==
  ASSUME IInv, FitInv, LoopIterate
  PROVE  FitInv'
  <1> DEFINE c == Cont("iter", TopCont.u, 0)
  <1>1. /\ Running /\ cont # <<>> /\ TopCont.k = "loop" /\ exec' = Execute(Stacks, TopCont.u, FALSE).exec
        /\ cont' = Append(cont, c)
        /\ UNCHANGED <<handlers, stopped, phase, line>>
    BY DEF LoopIterate, Become, In
  <1>2. exec' = exec
    <2>1. StacksOK(Stacks) /\ Stacks.exec = exec
      BY <1>1, FitNow
    <2> HIDE DEF Stacks
    <2> QED BY <1>1, <2>1, ExecKept
  <1>3. c \in ContRec /\ c.k = "iter"
    <2>1. TopCont \in ContRec
      BY <1>1, FitNow, ContFront DEF TopCont
    <2>2. TopCont.u \in Nat
      BY <2>1 DEF ContRec
    <2> QED BY <2>2, FramesAreRecords, KindsAreNamed
  <1> HIDE DEF c
  <1> QED BY <1>1, <1>2, <1>3, WaitFits

LEMMA StoppedExec ==
  ASSUME NEW m, StacksOK(m), NEW us
  PROVE  StopUnits(m, us, TRUE).exec = m.exec /\ StopUnits(m, us, FALSE).exec = m.exec
  BY DEF StacksOK, StopUnits

LEMMA ReturnFits ==
  ASSUME IInv, FitInv, Return \/ Break
  PROVE  FitInv'
  <1>1. Running /\ StacksOK(Evaluated) /\ Evaluated.exec = exec
    BY Evaluating DEF Return, Break
  <1>2. exec' = exec
    <2>1. \/ exec' = SaveReturn(Evaluated, Current(Stacks)).exec
          \/ exec' = StopUnits(Evaluated, {Current(Stacks)}, TRUE).exec
      BY DEF Return, Break, Become
    <2>2. SaveReturn(Evaluated, Current(Stacks)).exec = exec
      BY <1>1, ExecKept
    <2>3. StopUnits(Evaluated, {Current(Stacks)}, TRUE).exec = exec
      BY <1>1, StoppedExec
    <2> QED BY <2>1, <2>2, <2>3
  <1>3. UNCHANGED <<handlers, stopped, cont, phase, line>>
    BY DEF Return, Break
  <1> QED BY <1>1, <1>2, <1>3, StayFits

LEMMA OnExitFits ==
  ASSUME IInv, FitInv, OnExit
  PROVE  FitInv'
  <1>1. CASE Undefined
    BY <1>1, UndefinedFits
  <1>2. CASE Become(Evaluated) /\ UNCHANGED <<handlers, stopped, cont, phase, line>>
    <2>1. Running /\ Evaluated.exec = exec
      BY Evaluating DEF OnExit
    <2>2. exec' = exec
      BY <1>2, <2>1 DEF Become
    <2> QED BY <1>2, <2>1, <2>2, StayFits
  <1> QED BY <1>1, <1>2 DEF OnExit

LEMMA ExitFits ==
  ASSUME IInv, FitInv, Exit
  PROVE  FitInv'
  <1> DEFINE c == Cont("pass", Len(tasks), 0)
  <1>1. CASE Undefined
    BY <1>1, UndefinedFits
  <1>2. CASE /\ stopped' = TRUE /\ Become(StopAll(Evaluated)) /\ cont' = Append(cont, c)
             /\ UNCHANGED <<handlers, phase, line>>
    <2>1. Running /\ cont # <<>> /\ Last(cont).k # "try" /\ StacksOK(Evaluated) /\ Evaluated.exec = exec
      BY Evaluating DEF Exit
    <2>2. exec' = exec
      BY <1>2, <2>1, StoppedExec DEF StopAll, Become
    <2>3. c \in ContRec /\ c.k = "pass" /\ Width(c) = 0
      <3>1. c \in ContRec /\ c.k = "pass"
        <4>1. Len(tasks) \in Nat
          BY <2>1, Busy
        <4> QED BY <4>1, FramesAreRecords, KindsAreNamed
      <3> HIDE DEF c
      <3> QED BY <3>1, WidthOK
    <2> HIDE DEF c
    <2>4. Fit(handlers, exec, Append(cont, c), line, stopped, phase)
      BY <2>1, <2>3, FitNow, EntersNothing, FitPush
    <2>5. Fit(handlers, exec, Append(cont, c), line, TRUE, phase)
      BY <2>1, <2>4, FitNow, FitStop
    <2> QED BY <1>2, <2>1, <2>2, <2>5, FitNow, FitNext DEF Running
  <1> QED BY <1>1, <1>2 DEF Exit

-----------------------------------------------------------------------------
(* Completion of native frames.                                            *)

\* A frame that has entered nothing returns.
LEMMA ReturnsFits ==
  ASSUME IInv, FitInv, Running, cont # <<>>, Width(TopCont) = 0, cont' = Front(cont),
         Forgets(handlers, handlers', Tries(TopCont)),
         UNCHANGED <<exec, stopped, phase, line>>
  PROVE  FitInv'
  <1>1. Len(exec) \in Nat \ {0} /\ exec \in Seq(Nat)
    BY FitNow, UnderRange
  <1>2. Cuts(exec, exec, Len(exec) - 0)
    BY <1>1 DEF Cuts
  <1> QED BY <1>2, PopFits

LEMMA ForgetsNone ==
  ASSUME NEW hs \in Seq(HandlerRec)
  PROVE  Forgets(hs, hs, 0)
  BY LenProperties DEF Forgets

LEMMA TryDoneFits ==
  ASSUME IInv, FitInv, TryDone
  PROVE  FitInv'
  <1>1. /\ Running /\ cont # <<>> /\ TopCont.k = "try" /\ cont' = Front(cont)
        /\ handlers' = Front(handlers) /\ exec' = exec
        /\ UNCHANGED <<stopped, phase, line>>
    BY DEF TryDone, In, stacks
  <1>2. TopCont \in ContRec /\ TopCont = cont[Len(cont)] /\ Len(cont) \in Nat \ {0}
    BY <1>1, FitNow, ContFront DEF TopCont
  <1>3. Width(TopCont) = 0 /\ Tries(TopCont) = 1
    BY <1>1, <1>2, WidthOK
  <1>4. Len(handlers) >= 1 /\ Len(handlers) \in Nat
    <2>1. /\ Older(handlers, cont, Len(cont)) \in 0..Len(handlers) /\ Len(handlers) \in Nat
          /\ Older(handlers, cont, Len(cont) + 1) = Older(handlers, cont, Len(cont)) + Tries(cont[Len(cont)])
          /\ Older(handlers, cont, Len(cont) + 1) = Len(handlers)
      <3>1. Len(cont) \in 1..Len(cont) /\ Len(cont) \in 1..(Len(cont) + 1)
        BY <1>2
      <3> QED BY <1>1, <3>1, FitNow, OlderRange
    <2> QED BY <1>2, <1>3, <2>1
  <1>5. Forgets(handlers, handlers', 1)
    <2>1. handlers \in Seq(HandlerRec) /\ handlers # <<>>
      BY <1>1, <1>4, FitNow, EmptySeq
    <2> QED BY <1>1, <2>1, FrontLast DEF Forgets
  <1> QED BY <1>1, <1>3, <1>5, ReturnsFits

\* Frames of native functions that own no handler.
LEMMA SimpleDoneFits ==
  ASSUME IInv, FitInv, EachDone \/ UseDone \/ CatchDone
  PROVE  FitInv'
  <1>1. /\ Running /\ cont # <<>> /\ TopCont.k \in {"each", "use", "catch"} /\ cont' = Front(cont)
        /\ exec' = exec /\ UNCHANGED <<handlers, stopped, phase, line>>
    BY DEF EachDone, UseDone, CatchDone, In, stacks
  <1>2. TopCont \in ContRec
    BY <1>1, FitNow, ContFront DEF TopCont
  <1>3. Width(TopCont) = 0 /\ Tries(TopCont) = 0
    BY <1>1, <1>2, WidthOK
  <1>4. Forgets(handlers, handlers', 0)
    BY <1>1, FitNow, ForgetsNone
  <1> QED BY <1>1, <1>3, <1>4, ReturnsFits

LEMMA PassDoneFits ==
  ASSUME IInv, FitInv, PassDone
  PROVE  FitInv'
  <1>1. CASE Undefined
    BY <1>1, UndefinedFits
  <1>2. CASE /\ cont' = Front(cont) /\ phase' = (IF phase = "destroy" THEN "gone" ELSE phase)
             /\ UNCHANGED <<stacks, handlers, stopped, line>>
    <2>1. Running /\ cont # <<>> /\ TopCont.k = "pass" /\ exec' = exec
      BY <1>2 DEF PassDone, In, stacks
    <2>2. CASE phase = "destroy"
      <3>1. phase' = "gone" /\ \A p \in 2..Len(exec') : exec'[p] # Main
        BY <1>2, <2>1, <2>2 DEF FitInv
      <3> QED BY <1>2, <3>1, FitOver
    <2>3. CASE phase # "destroy"
      <3>1. TopCont \in ContRec
        BY <2>1, FitNow, ContFront DEF TopCont
      <3>2. Width(TopCont) = 0 /\ Tries(TopCont) = 0
        BY <2>1, <3>1, WidthOK
      <3>3. Forgets(handlers, handlers', 0)
        BY <1>2, <2>1, FitNow, ForgetsNone
      <3> QED BY <1>2, <2>1, <2>3, <3>2, <3>3, ReturnsFits
    <2> QED BY <2>2, <2>3
  <1> QED BY <1>1, <1>2 DEF PassDone

\* A pass is replaced by another one: neither owns anything.
LEMMA SwapFits ==
  ASSUME NEW hs \in Seq(HandlerRec), NEW e \in Seq(Nat), NEW s \in Seq(ContRec),
         NEW a \in ContRec, NEW c \in ContRec, a.k = "pass", c.k = "pass",
         NEW ln, NEW st \in BOOLEAN, NEW ph, Fit(hs, e, Append(s, a), ln, st, ph)
  PROVE  Fit(hs, e, Append(s, c), ln, st, ph)
  <1> DEFINE v == Append(s, a)
             w == Append(s, c)
  <1>1. /\ v \in Seq(ContRec) /\ w \in Seq(ContRec) /\ Len(s) \in Nat
        /\ Len(v) = Len(s) + 1 /\ Len(w) = Len(s) + 1
        /\ DOMAIN v = 1..(Len(s) + 1) /\ DOMAIN w = 1..(Len(s) + 1)
        /\ \A i \in 1..Len(s) : v[i] = w[i]
        /\ v[Len(s) + 1] = a /\ w[Len(s) + 1] = c
        /\ v # <<>> /\ w # <<>>
    BY ContAppend
  <1>2. /\ Width(a) = 0 /\ Width(c) = 0 /\ Tries(a) = 0 /\ Tries(c) = 0
        /\ a \notin Entering /\ c \notin Entering /\ a \notin Proxied /\ c \notin Proxied
    BY WidthOK
  <1>3. ASSUME NEW i \in 1..(Len(s) + 1)
        PROVE  Owned(v, i) = Owned(w, i) /\ Count(v, Trying, i) = Count(w, Trying, i)
    BY <1>2, OwnedAppend
  <1>f. Fit(hs, e, v, ln, st, ph) /\ v = Append(s, a) /\ w = Append(s, c)
    OBVIOUS
  <1> HIDE DEF v, w
  <1>4. /\ Owned(v, Len(s) + 2) = 0 /\ Owned(w, Len(s) + 2) = 0
        /\ Count(v, Trying, Len(s) + 2) = 0 /\ Count(w, Trying, Len(s) + 2) = 0
    <2>1. Len(s) + 2 \in Nat /\ Len(s) + 2 > Len(v) /\ Len(s) + 2 > Len(w)
      BY <1>1
    <2> QED BY <1>1, <2>1, OwnedOK
  <1>5. ASSUME NEW i \in 1..(Len(s) + 2)
        PROVE  Under(e, v, i) = Under(e, w, i) /\ Older(hs, v, i) = Older(hs, w, i)
    <2>1. i \in 1..(Len(s) + 1) \/ i = Len(s) + 2
      BY <1>1
    <2> QED BY <1>3, <1>4, <2>1 DEF Under, Older
  <1>6. ASSUME NEW i \in 1..(Len(s) + 1)
        PROVE  /\ v[i] = w[i] \/ (i = Len(s) + 1 /\ v[i] = a /\ w[i] = c)
               /\ i + 1 \in 1..(Len(s) + 2) /\ 1 \in 1..(Len(s) + 2)
    BY <1>1
  <1>7. ScopesFit(e, w, st)
    <2>1. ScopesFit(e, v, st)
      BY <1>f DEF Fit
    <2>2. Under(e, w, 1) = Under(e, v, 1)
      BY <1>1, <1>5
    <2>3. ASSUME NEW i \in 1..(Len(s) + 1)
          PROVE  /\ w[i].k = "exec" /\ w[i].u = Main => i = 1 /\ (st \/ Under(e, w, 1) = 1)
                 /\ ~st /\ w[i] \in Entering => e[Under(e, w, i + 1)] = w[i].u
                 /\ ~st /\ w[i] \in Proxied => e[Under(e, w, i + 1) - 1] = w[i].n
      BY <1>1, <1>2, <1>5, <1>6, <2>1, <2>2 DEF ScopesFit
    <2> QED BY <1>1, <2>1, <2>2, <2>3 DEF ScopesFit
  <1>8. TriesFit(hs, w)
    <2>1. TriesFit(hs, v)
      BY <1>f DEF Fit
    <2>2. Older(hs, w, 1) = Older(hs, v, 1)
      BY <1>1, <1>5
    <2>3. ASSUME NEW i \in 1..(Len(s) + 1), w[i].k = "try"
          PROVE  hs[Older(hs, w, i + 1)].depth = w[i].n
      BY <1>1, <1>5, <1>6, <2>1, <2>3 DEF TriesFit
    <2> QED BY <1>1, <2>1, <2>2, <2>3 DEF TriesFit
  <1>9. ASSUME ph = "run"
        PROVE  DepthsFit(hs, e, w, ln) /\ DistinctFit(e, w)
    <2>1. DepthsFit(hs, e, v, ln) /\ DistinctFit(e, v)
      BY <1>9, <1>f DEF Fit
    <2>2. ASSUME NEW i \in 1..(Len(s) + 2)
          PROVE  Room(e, v, i) = Room(e, w, i)
      <3>1. i > 1 => (v[i - 1].k = "try" <=> w[i - 1].k = "try")
        <4> SUFFICES ASSUME i > 1
                     PROVE  v[i - 1].k = "try" <=> w[i - 1].k = "try"
          OBVIOUS
        <4>1. i - 1 \in 1..(Len(s) + 1)
          BY <1>1
        <4> QED BY <1>6, <4>1
      <3> QED BY <1>5, <3>1 DEF Room
    <2>3. DepthsFit(hs, e, w, ln)
      <3>1. Len(v) + 1 = Len(s) + 2 /\ Len(w) + 1 = Len(s) + 2
        BY <1>1
      <3> QED BY <1>5, <2>1, <2>2, <3>1 DEF DepthsFit
    <2>4. DistinctFit(e, w)
      <3>1. Under(e, w, 1) = Under(e, v, 1)
        BY <1>1, <1>5
      <3>2. v[1] \in Entering => w[1] = v[1]
        <4>1. 1 \in 1..(Len(s) + 1)
          BY <1>1
        <4> QED BY <1>2, <1>6, <4>1
      <3> QED BY <1>1, <2>1, <3>1, <3>2 DEF DistinctFit
    <2> QED BY <2>3, <2>4
  <1>10. Fit(hs, e, w, ln, st, ph)
    BY <1>7, <1>8, <1>9 DEF Fit
  <1> QED BY <1>10, <1>f

\* A frame that waited is replaced by the one of the unit it now enters,
\* which owns what both of them would.
LEMMA FitMerge ==
  ASSUME NEW hs \in Seq(HandlerRec), NEW e \in Seq(Nat), NEW s \in Seq(ContRec),
         NEW a \in ContRec, NEW b \in ContRec, NEW c \in ContRec,
         a.k \in {"args", "iterable", "init"}, b.k \in {"exec", "loop"}, c.k = b.k, c.u = b.u,
         Width(b) = 1, Width(c) = Width(a) + 1, c \in Proxied => c.n = a.u,
         NEW ln, NEW st \in BOOLEAN, NEW ph,
         Fit(hs, e, Append(Append(s, a), b), ln, st, ph)
  PROVE  Fit(hs, e, Append(s, c), ln, st, ph)
  <1> DEFINE r == Append(s, a)
             v == Append(r, b)
             w == Append(s, c)
  <1>1. /\ r \in Seq(ContRec) /\ w \in Seq(ContRec) /\ Len(s) \in Nat
        /\ Len(r) = Len(s) + 1 /\ Len(w) = Len(s) + 1
        /\ DOMAIN w = 1..(Len(s) + 1)
        /\ \A i \in 1..Len(s) : r[i] = s[i] /\ w[i] = s[i]
        /\ r[Len(s) + 1] = a /\ w[Len(s) + 1] = c /\ w # <<>>
    BY ContAppend
  <1>2. /\ Tries(a) = 0 /\ Tries(b) = 0 /\ Tries(c) = 0
        /\ a \in Entering <=> Width(a) = 1
        /\ b \in Entering /\ c \in Entering /\ Width(a) \in 0..1
        /\ a \notin Proxied /\ (c \in Proxied <=> Width(a) = 1)
        /\ b.k = "exec" => b.u # Main
    BY WidthOK
  <1>3. ASSUME NEW i \in 1..(Len(s) + 1)
        PROVE  Owned(v, i) = Owned(w, i) /\ Count(v, Trying, i) = Count(w, Trying, i)
    <2>1. i \in 1..(Len(r) + 1) /\ i \in Nat
      BY <1>1
    <2>2. /\ Owned(v, i) = Owned(r, i) + Width(b) /\ Count(v, Trying, i) = Count(r, Trying, i) + Tries(b)
          /\ Owned(r, i) = Owned(s, i) + Width(a) /\ Count(r, Trying, i) = Count(s, Trying, i) + Tries(a)
          /\ Owned(w, i) = Owned(s, i) + Width(c) /\ Count(w, Trying, i) = Count(s, Trying, i) + Tries(c)
      <3> HIDE DEF r
      <3>1. Owned(v, i) = Owned(r, i) + Width(b) /\ Count(v, Trying, i) = Count(r, Trying, i) + Tries(b)
        BY <1>1, <2>1, OwnedAppend
      <3>2. Owned(w, i) = Owned(s, i) + Width(c) /\ Count(w, Trying, i) = Count(s, Trying, i) + Tries(c)
        BY <1>3, OwnedAppend
      <3>3. Owned(r, i) = Owned(s, i) + Width(a) /\ Count(r, Trying, i) = Count(s, Trying, i) + Tries(a)
        BY <1>3, OwnedAppend DEF r
      <3> QED BY <3>1, <3>2, <3>3
    <2>3. Owned(s, i) \in Nat /\ Count(s, Trying, i) \in Nat
      BY <2>1, OwnedOK
    <2> QED BY <1>2, <2>2, <2>3
  <1>4. /\ v \in Seq(ContRec) /\ Len(v) = Len(s) + 2 /\ DOMAIN v = 1..(Len(s) + 2)
        /\ \A i \in 1..Len(s) : v[i] = s[i]
        /\ v[Len(s) + 1] = a /\ v[Len(s) + 2] = b /\ v # <<>>
    <2> HIDE DEF r
    <2>1. /\ v \in Seq(ContRec) /\ Len(v) = Len(r) + 1 /\ v # <<>>
          /\ DOMAIN v = 1..(Len(r) + 1)
          /\ \A i \in 1..Len(r) : v[i] = r[i]
          /\ v[Len(r) + 1] = b
      BY <1>1, ContAppend
    <2> HIDE DEF v
    <2>2. \A i \in 1..(Len(s) + 1) : i \in 1..Len(r)
      BY <1>1
    <2>3. Len(s) + 1 \in 1..(Len(s) + 1) /\ \A i \in 1..Len(s) : i \in 1..(Len(s) + 1)
      BY <1>1
    <2>4. Len(r) + 1 = Len(s) + 2
      BY <1>1
    <2> QED BY <1>1, <2>1, <2>2, <2>3, <2>4
  <1>f. Fit(hs, e, v, ln, st, ph) /\ w = Append(s, c)
    OBVIOUS
  <1> HIDE DEF r, v, w
  <1>5. ASSUME NEW i \in 1..(Len(s) + 1)
        PROVE  Under(e, v, i) = Under(e, w, i) /\ Older(hs, v, i) = Older(hs, w, i)
    BY <1>3 DEF Under, Older
  <1>6. /\ ScopesFit(e, v, st) /\ TriesFit(hs, v)
        /\ ph = "run" => DepthsFit(hs, e, v, ln) /\ DistinctFit(e, v)
    BY <1>f DEF Fit
  \* Under the frame that waited, and under what is entered from it.
  <1>7. /\ Under(e, v, Len(s) + 3) = Len(e) /\ Under(e, v, Len(s) + 2) = Len(e) - 1
        /\ Under(e, w, Len(s) + 2) = Len(e) /\ Len(e) \in Nat
        /\ Older(hs, v, Len(s) + 3) = Len(hs) /\ Older(hs, w, Len(s) + 2) = Len(hs)
    <2>1. /\ Len(e) \in Nat /\ Len(hs) \in Nat /\ Under(e, v, Len(v) + 1) = Len(e)
          /\ Older(hs, v, Len(v) + 1) = Len(hs)
          /\ \A i \in 1..Len(v) : Under(e, v, i + 1) = Under(e, v, i) + Width(v[i])
          /\ \A i \in 1..(Len(v) + 1) : Under(e, v, i) \in 1..Len(e)
      BY <1>4, <1>6, UnderRange, OlderRange
    <2>2. /\ Len(v) + 1 = Len(s) + 3 /\ Len(s) + 2 \in 1..Len(v) /\ Len(s) + 2 \in 1..(Len(v) + 1)
          /\ (Len(s) + 2) + 1 = Len(s) + 3
      BY <1>1, <1>4
    <2>3. Under(e, v, Len(s) + 2) = Len(e) - 1
      <3>1. Under(e, v, (Len(s) + 2) + 1) = Under(e, v, Len(s) + 2) + Width(v[Len(s) + 2])
        BY <2>1, <2>2
      <3>2. Under(e, v, (Len(s) + 2) + 1) = Len(e) /\ Width(v[Len(s) + 2]) = 1
            /\ Under(e, v, Len(s) + 2) \in 1..Len(e)
        BY <1>4, <2>1, <2>2
      <3> QED BY <2>1, <3>1, <3>2
    <2>4. Owned(w, Len(s) + 2) = 0 /\ Count(w, Trying, Len(s) + 2) = 0
      <3>1. Len(s) + 2 \in Nat /\ Len(s) + 2 > Len(w)
        BY <1>1
      <3> QED BY <1>1, <3>1, OwnedOK
    <2> QED BY <2>1, <2>2, <2>3, <2>4 DEF Under, Older
  <1>8. ScopesFit(e, w, st)
    <2>1. Under(e, w, 1) = Under(e, v, 1)
      BY <1>1, <1>5
    <2>2. ASSUME NEW i \in 1..Len(s)
          PROVE  /\ w[i].k = "exec" /\ w[i].u = Main => i = 1 /\ (st \/ Under(e, w, 1) = 1)
                 /\ ~st /\ w[i] \in Entering => e[Under(e, w, i + 1)] = w[i].u
                 /\ ~st /\ w[i] \in Proxied => e[Under(e, w, i + 1) - 1] = w[i].n
      <3>1. i \in DOMAIN v /\ v[i] = w[i] /\ i + 1 \in 1..(Len(s) + 1)
        BY <1>1, <1>4
      <3> QED BY <1>5, <1>6, <2>1, <3>1 DEF ScopesFit
    <2>3. /\ ~(c.k = "exec" /\ c.u = Main)
          /\ ~st => e[Len(e)] = c.u
          /\ ~st /\ c \in Proxied => e[Len(e) - 1] = c.n
      <3>1. Len(s) + 2 \in DOMAIN v /\ Len(s) + 1 \in DOMAIN v
            /\ (Len(s) + 2) + 1 = Len(s) + 3 /\ (Len(s) + 1) + 1 = Len(s) + 2
        BY <1>1, <1>4
      <3>2. ~st => e[Len(e)] = b.u
        <4>1. ~st => e[Under(e, v, (Len(s) + 2) + 1)] = b.u
          BY <1>2, <1>4, <1>6, <3>1 DEF ScopesFit
        <4> QED BY <1>7, <3>1, <4>1
      <3>3. ~st /\ a \in Entering => e[Len(e) - 1] = a.u
        <4>1. ~st /\ a \in Entering => e[Under(e, v, (Len(s) + 1) + 1)] = a.u
          BY <1>4, <1>6, <3>1 DEF ScopesFit
        <4> QED BY <1>7, <3>1, <4>1
      <3> QED BY <1>2, <3>2, <3>3
    <2>4. ASSUME NEW i \in DOMAIN w
          PROVE  i \in 1..Len(s) \/ (i = Len(s) + 1 /\ i + 1 = Len(s) + 2 /\ w[i] = c)
      BY <1>1
    <2> QED BY <1>6, <1>7, <2>1, <2>2, <2>3, <2>4 DEF ScopesFit
  <1>9. TriesFit(hs, w)
    <2>1. Older(hs, w, 1) = Older(hs, v, 1)
      BY <1>1, <1>5
    <2>2. ASSUME NEW i \in DOMAIN w, w[i].k = "try"
          PROVE  hs[Older(hs, w, i + 1)].depth = w[i].n
      <3>1. i \in 1..Len(s)
        BY <1>1, <2>2
      <3>2. i \in DOMAIN v /\ v[i] = w[i] /\ i + 1 \in 1..(Len(s) + 1)
        BY <1>1, <1>4, <3>1
      <3> QED BY <1>5, <1>6, <2>2, <3>2 DEF TriesFit
    <2> QED BY <1>6, <2>1, <2>2 DEF TriesFit
  <1>10. ASSUME ph = "run"
         PROVE  DepthsFit(hs, e, w, ln) /\ DistinctFit(e, w)
    <2>1. DepthsFit(hs, e, v, ln) /\ DistinctFit(e, v)
      BY <1>10, <1>6
    <2>2. ASSUME NEW i \in 1..(Len(s) + 1)
          PROVE  Room(e, v, i) = Room(e, w, i)
      <3>1. i > 1 => v[i - 1] = w[i - 1]
        <4> SUFFICES ASSUME i > 1
                     PROVE  v[i - 1] = w[i - 1]
          OBVIOUS
        <4>1. i - 1 \in 1..Len(s)
          BY <1>1
        <4> QED BY <1>1, <1>4, <4>1
      <3> QED BY <1>5, <3>1 DEF Room
    <2>3. Room(e, w, Len(s) + 2) = Room(e, v, Len(s) + 3)
      <3>1. (Len(s) + 2) - 1 = Len(s) + 1 /\ (Len(s) + 3) - 1 = Len(s) + 2
        BY <1>1
      <3>2. w[(Len(s) + 2) - 1].k # "try" /\ v[(Len(s) + 3) - 1].k # "try"
        BY <1>1, <1>4, <3>1
      <3> QED BY <1>7, <3>2 DEF Room
    <2>4. DepthsFit(hs, e, w, ln)
      <3>1. ASSUME NEW j \in DOMAIN hs, hs[j].line = ln,
                   NEW i \in 1..(Len(w) + 1), j <= Older(hs, w, i)
            PROVE  hs[j].depth < Room(e, w, i)
        <4>1. CASE i \in 1..(Len(s) + 1)
          <5>1. i \in 1..(Len(v) + 1)
            BY <1>1, <1>4, <4>1
          <5> QED BY <1>5, <2>1, <2>2, <3>1, <4>1, <5>1 DEF DepthsFit
        <4>2. CASE i = Len(s) + 2
          <5>1. Len(s) + 3 \in 1..(Len(v) + 1) /\ j <= Older(hs, v, Len(s) + 3)
            BY <1>1, <1>4, <1>7, <3>1, <4>2
          <5> QED BY <2>1, <2>3, <3>1, <4>2, <5>1 DEF DepthsFit
        <4> QED BY <1>1, <4>1, <4>2
      <3> QED BY <2>1, <3>1 DEF DepthsFit
    <2>5. DistinctFit(e, w)
      <3>1. Under(e, w, 1) = Under(e, v, 1)
        BY <1>1, <1>5
      <3>2. v[1] \in Entering /\ v[1].k = "exec" => w[1] = v[1]
        <4>1. CASE Len(s) = 0
          <5>1. v[1] = a
            BY <1>4, <4>1
          <5> QED BY <5>1
        <4>2. CASE Len(s) # 0
          <5>1. 1 \in 1..Len(s)
            BY <1>1, <4>2
          <5> QED BY <1>1, <1>4, <5>1
        <4> QED BY <4>1, <4>2
      <3> QED BY <1>1, <2>1, <3>1, <3>2 DEF DistinctFit
    <2> QED BY <2>4, <2>5
  <1>11. Fit(hs, e, w, ln, st, ph)
    BY <1>8, <1>9, <1>10 DEF Fit
  <1> QED BY <1>11, <1>f

\* The unit waited for is no other's, and not main.
LEMMA WaitNew ==
  ASSUME IInv, FitInv, WaitInv, Running, cont # <<>>, Waits(TopCont)
  PROVE  /\ Subject(TopCont) \in DOMAIN unit /\ Subject(TopCont) \in Nat
         /\ Subject(TopCont) # Main /\ \A p \in DOMAIN exec : exec[p] # Subject(TopCont)
  <1>1. /\ \A p \in DOMAIN exec : exec[p] # Subject(TopCont)
        /\ Subject(TopCont) \in DOMAIN unit
    <2>1. TopCont = cont[Len(cont)] /\ Len(cont) \in Nat \ {0} /\ DOMAIN cont = 1..Len(cont)
      BY FitNow, ContFront DEF TopCont
    <2>2. Len(cont) \in DOMAIN cont
      BY <2>1
    <2> QED BY <2>1, <2>2 DEF WaitInv, WaitsOK
  <1>2. \A x \in DOMAIN unit : x \in Nat
    BY FitNow, UnitOK, LenProperties
  <1>3. Main \in DOMAIN exec /\ exec[Main] = Main
    <2>1. Len(exec) \in Nat \ {0} /\ DOMAIN exec = 1..Len(exec)
      BY FitNow, ExecKept, LenProperties
    <2> QED BY <2>1, FitNow DEF StacksOK, Main
  <1> QED BY <1>1, <1>2, <1>3

\* The unit that waited is entered: it is new, and above what was there.
LEMMA EntryFits ==
  ASSUME IInv, FitInv, WaitInv, Running, cont # <<>>, Waits(TopCont),
         NEW c \in ContRec, c.k \in {"exec", "loop"}, c.u = Subject(TopCont),
         Width(c) = Width(TopCont) + 1, c \in Proxied => c.n = TopCont.u,
         exec' = Append(exec, Subject(TopCont)), cont' = Append(Front(cont), c),
         UNCHANGED <<handlers, stopped, phase, line>>
  PROVE  FitInv'
  <1> DEFINE u == Subject(TopCont)
             b == Cont(c.k, u, 0)
             s == Front(cont)
             a == TopCont
  <1>1. u \in Nat /\ u # Main /\ \A p \in DOMAIN exec : exec[p] # u
    BY WaitNew
  <1>c. exec' = Append(exec, u) /\ c.u = u /\ cont' = Append(s, c)
        /\ Width(c) = Width(a) + 1 /\ (c \in Proxied => c.n = a.u)
    OBVIOUS
  <1>3. /\ s \in Seq(ContRec) /\ a \in ContRec
        /\ cont = Append(s, a) /\ Last(cont).k # "try"
        /\ a.k \in {"args", "iterable", "init"}
    BY FitNow, ContFront DEF TopCont, Waits
  <1> HIDE DEF u, s, a
  <1>4. /\ b \in ContRec /\ b.k = c.k /\ b.u = u
        /\ Enters(exec, exec', b) /\ Fresh(exec, exec') /\ Width(b) = 1
    <2>1. exec \in Seq(Nat)
      BY FitNow
    <2>2. b \in ContRec /\ b.k = c.k /\ b.u = u
      BY <1>1, FramesAreRecords, KindsAreNamed
    <2> HIDE DEF Cont
    <2>3. Enters(exec, Append(exec, u), b) /\ Fresh(exec, Append(exec, u)) /\ Width(b) = 1
      BY <1>1, <2>1, EntersUnit
    <2> QED BY <1>c, <2>2, <2>3
  <1> HIDE DEF b
  <1>5. Fit(handlers, exec', Append(cont, b), line, stopped, phase)
    BY <1>1, <1>3, <1>4, FitNow, FitPush
  <1>6. /\ handlers \in Seq(HandlerRec) /\ stopped \in BOOLEAN /\ exec' \in Seq(Nat)
        /\ Fit(handlers, exec', Append(Append(s, a), b), line, stopped, phase)
    BY <1>3, <1>4, <1>5, FitNow DEF Enters
  <1>7. Fit(handlers, exec', Append(s, c), line, stopped, phase)
    <2>1. /\ s \in Seq(ContRec) /\ a \in ContRec /\ b \in ContRec /\ c \in ContRec
          /\ a.k \in {"args", "iterable", "init"} /\ b.k \in {"exec", "loop"}
          /\ c.k = b.k /\ c.u = b.u /\ Width(b) = 1 /\ Width(c) = Width(a) + 1
          /\ (c \in Proxied => c.n = a.u)
      BY <1>c, <1>3, <1>4
    <2> DEFINE hs == handlers
               e == exec'
               st == stopped
    <2>2. hs \in Seq(HandlerRec) /\ st \in BOOLEAN /\ e \in Seq(Nat)
          /\ Fit(hs, e, Append(Append(s, a), b), line, st, phase)
      BY <1>6
    <2> HIDE DEF hs, e, st
    <2>3. Fit(hs, e, Append(s, c), line, st, phase)
      BY <2>1, <2>2, FitMerge
    <2> QED BY <2>3 DEF hs, e, st
  <1> QED BY <1>c, <1>7, FitNow, FitNext DEF Running

LEMMA EnterCalleeFits ==
  ASSUME IInv, FitInv, WaitInv, EnterCallee
  PROVE  FitInv'
  <1> DEFINE c == Cont("exec", TopCont.u, 0)
  <1>1. /\ Running /\ cont # <<>> /\ TopCont.k = "args" /\ Waits(TopCont)
        /\ exec' = Execute(Stacks, TopCont.u, TRUE).exec
        /\ cont' = Append(Front(cont), c) /\ UNCHANGED <<handlers, stopped, phase, line>>
    BY DEF EnterCallee, In, Become, Waits
  <1>2. Subject(TopCont) = TopCont.u /\ TopCont \in ContRec
    BY <1>1, FitNow, ContFront DEF Subject, TopCont
  <1>3. TopCont.u # Main
    BY <1>1, <1>2, WaitNew
  <1>4. exec' = Append(exec, Subject(TopCont))
    <2>1. StacksOK(Stacks) /\ Stacks.exec = exec
      BY <1>1, FitNow
    <2> HIDE DEF Stacks, TopCont
    <2> QED BY <1>1, <1>2, <1>3, <2>1, ExecEntered
  <1>5. /\ c \in ContRec /\ c.k = "exec" /\ c.u = TopCont.u
        /\ Width(TopCont) = 0 /\ Width(c) = 1 /\ c \notin Proxied
    <2>1. c \in ContRec /\ c.k = "exec" /\ c.u = TopCont.u
      <3>1. TopCont.u \in Nat
        BY <1>2 DEF ContRec
      <3> QED BY <3>1, FramesAreRecords, KindsAreNamed
    <2> HIDE DEF c
    <2> QED BY <1>1, <1>2, <1>3, <2>1, WidthOK
  <1> HIDE DEF c
  <1>6. c.u = Subject(TopCont) /\ Width(c) = Width(TopCont) + 1
    BY <1>2, <1>5
  <1> QED BY <1>1, <1>4, <1>5, <1>6, EntryFits

LEMMA EnterLoopFits ==
  ASSUME IInv, FitInv, WaitInv, EnterLoop
  PROVE  FitInv'
  <1>1. /\ Running /\ cont # <<>> /\ TopCont.k \in {"init", "iterable"} /\ Waits(TopCont)
        /\ UNCHANGED <<handlers, stopped, phase, line>>
    BY DEF EnterLoop, In, Waits
  <1> DEFINE v == Subject(TopCont)
             p == IF TopCont.k = "init" THEN TopCont.u ELSE 0
             c == Cont("loop", v, p)
  <1>2. exec' = EnterScope(Stacks, v).exec /\ cont' = Append(Front(cont), c)
    BY <1>1 DEF EnterLoop, In, Become, Subject
  <1>3. TopCont \in ContRec /\ v # Main /\ v \in Nat /\ (TopCont.k = "init" => TopCont.u # 0)
    <2>1. TopCont \in ContRec
      BY <1>1, FitNow, ContFront DEF TopCont
    <2>2. v # Main /\ v \in DOMAIN unit
      BY <1>1, WaitNew
    <2>3. TopCont.k = "init" => TopCont.u \in DOMAIN unit
      BY <1>1, Busy DEF FrameOK
    <2>4. \A x \in DOMAIN unit : x \in Nat /\ x # 0
      BY <1>1, FitNow, UnitOK, LenProperties
    <2> HIDE DEF v, TopCont
    <2> QED BY <2>1, <2>2, <2>3, <2>4
  <1>4. exec' = Append(exec, v)
    <2>1. StacksOK(Stacks) /\ Stacks.exec = exec
      BY <1>1, FitNow
    <2> HIDE DEF Stacks, v
    <2> QED BY <1>2, <1>3, <2>1, ExecEntered
  <1>5. p \in Nat /\ (p = 0 <=> TopCont.k = "iterable") /\ (p # 0 => p = TopCont.u)
    BY <1>1, <1>3 DEF ContRec
  <1> HIDE DEF p
  <1>v. v = Subject(TopCont)
    OBVIOUS
  <1> HIDE DEF v
  <1>6. c \in ContRec /\ c.k = "loop" /\ c.u = v /\ c.n = p
    BY <1>3, <1>5, FramesAreRecords, KindsAreNamed
  <1> HIDE DEF c
  <1>7. Width(c) = Width(TopCont) + 1 /\ (c \in Proxied => c.n = TopCont.u)
    <2>1. Width(c) = (IF p = 0 THEN 1 ELSE 2) /\ (c \in Proxied <=> Width(c) = 2)
      BY <1>6, WidthOK
    <2>2. Width(TopCont) = IF TopCont.k = "init" THEN 1 ELSE 0
      BY <1>1, <1>3, WidthOK
    <2> QED BY <1>1, <1>5, <1>6, <2>1, <2>2
  <1> QED BY <1>1, <1>2, <1>4, <1>6, <1>7, <1>v, EntryFits

\* The next task of a pass: the pass itself stays, counted up.
LEMMA PassNextFits ==
  ASSUME IInv, FitInv, PassNext
  PROVE  FitInv'
  <1> DEFINE m == Invoke(Stacks, "fn")
             x == Cont("exec", Last(m.tmp), 0)
             c == Cont("pass", TopCont.u, TopCont.n + 1)
  <1>1. /\ Running /\ cont # <<>> /\ TopCont.k = "pass" /\ exec' = m.exec
        /\ cont' = Front(cont) \o <<c, x>>
        /\ UNCHANGED <<handlers, stopped, phase, line>>
    BY DEF PassNext, Become, In
  <1>2. TopCont \in ContRec /\ Front(cont) \in Seq(ContRec)
    BY <1>1, FitNow, ContFront DEF TopCont
  <1>3. Enters(exec, m.exec, x) /\ Fresh(exec, m.exec) /\ x.k = "exec" /\ x.u # Main
        /\ Width(x) = 1 /\ x \in ContRec
    <2>1. "fn" \in UnitKinds
      BY DEF UnitKinds
    <2>2. StacksOK(Stacks) /\ Stacks.exec = exec
      BY <1>1, FitNow
    <2> HIDE DEF Stacks
    <2> QED BY <2>1, <2>2, ExecInvoked
  <1>4. c \in ContRec /\ c.k = "pass"
    <2>1. TopCont.u \in Nat /\ TopCont.n + 1 \in Nat
      BY <1>2 DEF ContRec
    <2> QED BY <2>1, FramesAreRecords, KindsAreNamed
  <1> HIDE DEF m, x, c
  <1> DEFINE s == Front(cont)
  \* The pass is replaced where it is.
  <1>6. Fit(handlers, exec, Append(s, c), line, stopped, phase)
    <2>1. cont = Append(s, TopCont) /\ s \in Seq(ContRec)
      BY <1>1, FitNow, ContFront DEF TopCont
    <2> HIDE DEF s
    <2> QED BY <1>1, <1>2, <1>4, <2>1, FitNow, SwapFits
  <1> HIDE DEF s
  <1>7. Fit(handlers, m.exec, s \o <<c, x>>, line, stopped, phase)
    BY <1>1, <1>2, <1>3, <1>4, <1>6, FitNow, PushTwoFits DEF s
  <1> QED BY <1>1, <1>7, FitNow, FitNext DEF Running, s

\* Loops own one scope or two.
\* Leaving a loop cuts its scopes off exec_stack.
LEMMA LoopLeaves ==
  ASSUME IInv, FitInv, Running, cont # <<>>, TopCont.k = "loop"
  PROVE  LET body == LeaveScope(Stacks)
             left == IF TopCont.n = 0 THEN body ELSE LeaveScope(body)
         IN  /\ StacksOK(body) /\ body.exec = Front(exec) /\ StacksOK(left)
             /\ Cuts(exec, left.exec, Len(exec) - Width(TopCont))
             /\ Len(exec) > Width(TopCont) /\ Len(exec) \in Nat
             /\ Width(TopCont) = IF TopCont.n = 0 THEN 1 ELSE 2
  <1> DEFINE body == LeaveScope(Stacks)
             left == IF TopCont.n = 0 THEN body ELSE LeaveScope(body)
  <1>2. StacksOK(Stacks) /\ Stacks.handling = 0 /\ Stacks.exec = exec /\ exec \in Seq(Nat)
    BY FitNow, Busy
  <1>3. TopCont \in ContRec /\ TopCont = cont[Len(cont)] /\ Len(cont) \in Nat \ {0}
    BY FitNow, ContFront DEF TopCont
  <1>4. Width(TopCont) = (IF TopCont.n = 0 THEN 1 ELSE 2)
    BY <1>3, WidthOK
  <1>5. Len(exec) \in Nat /\ Len(exec) > Width(TopCont)
    <2>1. /\ Len(exec) \in Nat /\ Under(exec, cont, Len(cont)) \in 1..Len(exec)
          /\ Under(exec, cont, Len(cont) + 1) = Len(exec)
          /\ Under(exec, cont, Len(cont) + 1) = Under(exec, cont, Len(cont)) + Width(cont[Len(cont)])
          /\ Width(cont[Len(cont)]) \in 0..2
      <3>1. Len(cont) \in 1..Len(cont) /\ Len(cont) \in 1..(Len(cont) + 1)
        BY <1>3
      <3> QED BY <3>1, FitNow, UnderRange
    <2> QED BY <1>3, <2>1
  <1> HIDE DEF Stacks, Front
  <1>6. StacksOK(body) /\ body.handling = 0 /\ body.exec = Front(exec)
    <2>1. Len(exec) > 1
      BY <1>4, <1>5
    <2> QED BY <1>2, <2>1, LeftOK, ExecLeft
  <1>7. StacksOK(left) /\ Cuts(exec, left.exec, Len(exec) - Width(TopCont))
    <2>1. Cuts(exec, Front(exec), Len(exec) - 1)
      BY <1>2, <1>4, <1>5, LeftOne
    <2>2. CASE TopCont.n = 0
      BY <1>4, <1>6, <2>1, <2>2
    <2>3. CASE TopCont.n # 0
      <3> DEFINE f == Front(exec)
      <3>1. /\ f \in Seq(Nat) /\ Len(f) = Len(exec) - 1 /\ Len(exec) > 2 /\ Width(TopCont) = 2
            /\ \A p \in 1..(Len(exec) - 1) : f[p] = exec[p]
        BY <1>4, <1>5, <2>1, <2>3 DEF Cuts
      <3> HIDE DEF body
      <3>2. StacksOK(left) /\ left.exec = Front(f)
        <4>1. Len(body.exec) > 1
          BY <1>5, <1>6, <3>1
        <4> QED BY <1>6, <2>3, <4>1, LeftOK, ExecLeft
      <3> HIDE DEF f, left
      <3>3. Cuts(f, Front(f), Len(f) - 1)
        BY <1>5, <3>1, LeftOne
      <3>4. Cuts(exec, Front(f), Len(exec) - 2)
        <4> DEFINE g == Front(f)
        <4>1. /\ g \in Seq(Nat) /\ Len(g) = Len(f) - 1
              /\ \A p \in 1..(Len(f) - 1) : g[p] = f[p]
          BY <3>3 DEF Cuts
        <4> HIDE DEF g
        <4>2. Len(g) = Len(exec) - 2 /\ Len(exec) - 2 \in 0..Len(exec)
          BY <1>5, <3>1, <4>1
        <4>3. ASSUME NEW p \in 1..(Len(exec) - 2)
              PROVE  g[p] = exec[p]
          <5>1. p \in 1..(Len(f) - 1) /\ p \in 1..(Len(exec) - 1)
            BY <1>5, <3>1
          <5> QED BY <3>1, <4>1, <5>1
        <4>4. Cuts(exec, g, Len(exec) - 2)
          BY <1>2, <1>5, <3>1, <4>1, <4>2, <4>3 DEF Cuts
        <4> QED BY <4>4 DEF g
      <3> QED BY <3>1, <3>2, <3>4
    <2> QED BY <2>2, <2>3
  <1> HIDE DEF body, left
  <1> QED BY <1>4, <1>5, <1>6, <1>7 DEF body, left

LEMMA LoopExitFits ==
  ASSUME IInv, FitInv, LoopExit
  PROVE  FitInv'
  <1> DEFINE body == LeaveScope(Stacks)
             left == IF TopCont.n = 0 THEN body ELSE LeaveScope(body)
             m == IF unit[TopCont.u].ret /\ ~stopped
                  THEN SaveReturn(left, Current(left)) ELSE left
  <1>1. /\ Running /\ cont # <<>> /\ TopCont.k = "loop" /\ cont' = Front(cont)
        /\ exec' = m.exec /\ UNCHANGED <<handlers, stopped, phase, line>>
    BY DEF LoopExit, Become, In
  <1>3. TopCont \in ContRec
    BY <1>1, FitNow, ContFront DEF TopCont
  <1>4. Tries(TopCont) = 0
    BY <1>1, <1>3, WidthOK
  <1>7. StacksOK(left) /\ Cuts(exec, left.exec, Len(exec) - Width(TopCont))
    BY <1>1, LoopLeaves
  <1> HIDE DEF body, left
  <1>8. m.exec = left.exec
    <2>1. SaveReturn(left, Current(left)).exec = left.exec
      BY <1>7, ExecReturned
    <2>2. m = SaveReturn(left, Current(left)) \/ m = left
      OBVIOUS
    <2> HIDE DEF m
    <2> QED BY <2>1, <2>2
  <1>9. Forgets(handlers, handlers', Tries(TopCont))
    BY <1>1, <1>4, FitNow, ForgetsNone
  <1> HIDE DEF m
  <1> QED BY <1>1, <1>7, <1>8, <1>9, PopFits

\* The frame of a unit that finishes is main's alone, or owns one scope,
\* which is left.
LEMMA UnitLeaves ==
  ASSUME IInv, FitInv, Running, ~stopped, cont # <<>>, TopCont.k \in {"exec", "iter"},
         NEW n, StacksOK(n), n.handling = 0, n.exec = exec
  PROVE  LET left == IF TopCont.k = "exec" THEN LeaveScope(n) ELSE n
         IN  /\ StacksOK(left) /\ Cuts(exec, left.exec, Len(exec) - Width(TopCont))
             /\ Len(exec) > Width(TopCont) /\ Len(exec) \in Nat
             /\ TopCont.k = "exec" /\ TopCont.u = Main => Len(exec) = 1 /\ Len(cont) = 1
             /\ Width(TopCont) = 0 => left = n
             /\ Width(TopCont) # 0 => Width(TopCont) = 1 /\ TopCont.k = "exec"
  <1> DEFINE left == IF TopCont.k = "exec" THEN LeaveScope(n) ELSE n
             u == TopCont.u
  <1>1. TopCont \in ContRec /\ TopCont = cont[Len(cont)] /\ Len(cont) \in Nat \ {0}
    BY FitNow, ContFront DEF TopCont
  <1>2. /\ Len(exec) \in Nat /\ Len(exec) > Width(TopCont)
        /\ TopCont.k = "exec" /\ u = Main => Len(exec) = 1 /\ Len(cont) = 1
    <2>1. /\ Len(exec) \in Nat /\ Under(exec, cont, Len(cont)) \in 1..Len(exec)
          /\ Under(exec, cont, Len(cont) + 1) = Len(exec)
          /\ Under(exec, cont, Len(cont) + 1) = Under(exec, cont, Len(cont)) + Width(cont[Len(cont)])
          /\ Width(cont[Len(cont)]) \in 0..2
      <3>1. Len(cont) \in 1..Len(cont) /\ Len(cont) \in 1..(Len(cont) + 1)
        BY <1>1
      <3> QED BY <3>1, FitNow, UnderRange
    <2>2. TopCont.k = "exec" /\ u = Main => Len(cont) = 1 /\ Under(exec, cont, 1) = 1
      <3>1. Len(cont) \in DOMAIN cont
        BY <1>1, FitNow, UnderRange
      <3> QED BY <1>1, <3>1, FitNow DEF ScopesFit
    <2>3. TopCont.k = "exec" /\ u = Main => Width(TopCont) = 0
      BY <1>1, WidthOK
    <2> QED BY <1>1, <2>1, <2>2, <2>3
  <1>3. CASE Width(TopCont) = 0
    <2>1. left = n
      <3>1. CASE TopCont.k = "exec"
        <4>1. u = Main /\ ~(Len(exec) > 1)
          BY <1>1, <1>2, <1>3, <3>1, WidthOK
        <4> QED BY <3>1, <4>1 DEF LeaveScope
      <3> QED BY <3>1
    <2>2. exec \in Seq(Nat)
      BY FitNow
    <2>3. Cuts(exec, exec, Len(exec) - 0)
      BY <1>2, <1>3, <2>2 DEF Cuts
    <2> QED BY <1>2, <1>3, <2>1, <2>3
  <1>4. CASE Width(TopCont) # 0
    <2>1. Width(TopCont) = 1 /\ TopCont.k = "exec"
      BY <1>1, <1>4, WidthOK
    <2>2. Len(exec) > 1
      BY <1>2, <2>1
    <2>3. Cuts(exec, Front(exec), Len(exec) - 1)
      BY <2>2, FitNow, LeftOne
    <2>4. left.exec = Front(exec) /\ StacksOK(left)
      BY <2>1, <2>2, ExecLeft, LeftOK
    <2> QED BY <1>2, <1>4, <2>1, <2>3, <2>4
  <1> QED BY <1>3, <1>4

LEMMA FinishFits ==
  ASSUME IInv, FitInv, Finish
  PROVE  FitInv'
  <1> DEFINE u == TopCont.u
             returned == unit[u].ret
             carries == Carries(Stacks, u)
             parent == Parent(Stacks)
             broken == PropagateBreak(Stacks, u)
             left == IF TopCont.k = "exec" THEN LeaveScope(broken) ELSE broken
             exits == TopCont.k = "exec" /\ Len(exec) = 1 /\ ~Persistent
             m == CarryReturn(left, returned, carries, parent)
             c == Cont("pass", Len(tasks), 0)
  <1>1. /\ Running /\ cont # <<>> /\ TopCont.k \in {"exec", "iter"}
        /\ UNCHANGED <<handlers, objs, stopped, tasks, known, ran, fuel, line>>
    BY DEF Finish, InUnit
  <1>2. /\ StacksOK(Stacks) /\ Stacks.handling = 0 /\ Stacks.exec = exec /\ exec \in Seq(Nat)
        /\ Len(tasks) \in Nat
    BY <1>1, FitNow, Busy
  <1>3. TopCont \in ContRec /\ TopCont = cont[Len(cont)] /\ Len(cont) \in Nat \ {0}
    BY <1>1, FitNow, ContFront DEF TopCont
  <1>4. Tries(TopCont) = 0
    BY <1>1, <1>3, WidthOK
  <1>5. Forgets(handlers, handlers', Tries(TopCont))
    BY <1>1, <1>4, FitNow, ForgetsNone
  <1>6. CASE stopped /\ cont' = Front(cont) /\ UNCHANGED <<stacks, phase>>
    <2>1. exec' = exec
      BY <1>6 DEF stacks
    <2> QED BY <1>1, <1>5, <1>6, <2>1, PopFits
  <1>7. CASE phase' = "undefined" /\ UNCHANGED <<stacks, cont>>
    <2>1. UNCHANGED <<exec, handlers, line>> /\ \A p \in 2..Len(exec') : exec'[p] # Main
      BY <1>1, <1>7 DEF stacks, FitInv
    <2> QED BY <1>7, <2>1, FitOver
  <1>8. CASE /\ ~stopped /\ Become(m) /\ UNCHANGED phase
             /\ cont' = IF exits THEN Append(Front(cont), c) ELSE Front(cont)
    <2> HIDE DEF Stacks, Front, returned, carries, parent
    <2>1. StacksOK(broken) /\ broken.exec = exec /\ broken.handling = 0
      <3>1. Keeps(Stacks, broken) /\ broken.handling = 0
        BY <1>2, PropagateBreakOK
      <3> QED BY <1>2, <3>1, ExecKept DEF Keeps, KeepsBut
    <2> HIDE DEF broken
    <2>2. /\ TopCont.k = "exec" /\ u = Main => Len(cont) = 1
          /\ Len(exec) > Width(TopCont)
          /\ StacksOK(left) /\ Cuts(exec, left.exec, Len(exec) - Width(TopCont))
      BY <1>1, <1>8, <2>1, UnitLeaves
    <2> HIDE DEF left
    <2>4. exec' = left.exec
      <3>1. m.exec = left.exec
        BY <2>2, ExecReturned
      <3> QED BY <1>8, <3>1 DEF Become
    <2> HIDE DEF m
    <2>5. CASE ~exits
      BY <1>1, <1>5, <1>8, <2>2, <2>4, <2>5, PopFits
    <2>6. CASE exits
      <3>1. Len(cont) = 1
        <4>1. TopCont.k = "exec" /\ Len(exec) = 1
          BY <2>6
        <4>2. u = Main
          BY <1>3, <2>2, <4>1, WidthOK
        <4> QED BY <2>2, <4>1, <4>2
      <3> DEFINE s == Front(cont)
      <3>2. s = <<>> /\ s \in Seq(ContRec)
        <4>1. s \in Seq(ContRec) /\ Len(s) = 0
          BY <1>1, <3>1, FitNow, ContFront
        <4> HIDE DEF s
        <4> QED BY <4>1, EmptySeq
      <3>3. Fit(handlers, exec', s, line, stopped, phase)
        BY <1>1, <1>5, <2>2, <2>4, FitNow, FitPop DEF TopCont
      <3>4. c \in ContRec /\ c.k = "pass"
        BY <1>2, FramesAreRecords, KindsAreNamed
      <3> HIDE DEF c, s
      <3>5. Width(c) = 0
        BY <3>4, WidthOK
      <3>6. exec' \in Seq(Nat)
        BY <2>2, <2>4 DEF Cuts
      <3>7. Fit(handlers, exec', Append(s, c), line, stopped, phase)
        BY <1>1, <3>2, <3>3, <3>4, <3>5, <3>6, FitNow, EntersNothing, FitPush
      <3> QED BY <1>1, <1>8, <2>6, <3>7, FitNow, FitNext DEF Running, s
    <2> QED BY <2>5, <2>6
  <1> QED BY <1>6, <1>7, <1>8 DEF Finish
-----------------------------------------------------------------------------
(* run() and the host program.                                             *)

\* A unit is executed by run(), nothing native being left.
LEMMA RunFits ==
  ASSUME IInv, Fit(handlers, exec, <<>>, line, stopped, "run"), LinesFit(handlers, line),
         Become(Execute(Stacks, Current(Stacks), TRUE)),
         cont' = <<Cont("exec", Current(Stacks), 0)>>, phase' = "run",
         UNCHANGED <<handlers, stopped, line>>
  PROVE  FitInv'
  <1> DEFINE u == Current(Stacks)
             m == Execute(Stacks, u, TRUE)
  <1>1. StacksOK(Stacks) /\ Stacks.exec = exec /\ u = Last(exec)
    BY DEF IInv, Stacks, Current
  <1>2. exec' = m.exec /\ cont' = <<Cont("exec", u, 0)>>
    BY DEF Become
  <1> HIDE DEF Stacks, u
  <1>3. exec' = (IF u = Main THEN exec ELSE Append(exec, u)) /\ exec \in Seq(Nat)
    <2>1. m.exec = IF u = Main THEN exec ELSE Append(exec, u)
      BY <1>1, ExecEntered
    <2>2. exec \in Seq(Nat)
      BY <1>1, ExecKept
    <2> QED BY <1>2, <2>1, <2>2
  <1>4. handlers \in Seq(HandlerRec) /\ stopped \in BOOLEAN
    BY DEF IInv, RestOK
  <1>5. Fit(handlers, exec', cont', line, stopped, "run")
    BY <1>1, <1>2, <1>3, <1>4, FitResume
  <1> QED BY <1>5, FitNext DEF Running

LEMMA RunStartFits ==
  ASSUME IInv, FitInv, RunStart
  PROVE  FitInv'
  <1>1. /\ phase = "ready" /\ exec = <<Main>> /\ LinesFit(handlers, line)
        /\ \A j \in DOMAIN handlers : handlers[j].line # line
    BY DEF RunStart, FitInv
  <1>2. handlers \in Seq(HandlerRec) /\ exec \in Seq(Nat) /\ Len(exec) = 1 /\ Len(exec) >= 1
    BY <1>1 DEF IInv, RestOK, Main
  <1>3. DepthsFit(handlers, exec, <<>>, line)
    BY <1>1 DEF DepthsFit
  <1>4. \A p \in 2..Len(exec) : exec[p] # Main
    BY <1>2
  <1>5. Fit(handlers, exec, <<>>, line, stopped, "run")
    BY <1>2, <1>3, <1>4, FitNone
  <1> QED BY <1>1, <1>5, RunFits DEF RunStart

LEMMA RunResumeFits ==
  ASSUME IInv, FitInv, RunResume
  PROVE  FitInv'
  <1>1. CASE Undefined
    BY <1>1, UndefinedFits
  <1>2. CASE ~Undefined
    <2>1. /\ phase = "run" /\ cont = <<>>
          /\ Become(Execute(Stacks, Current(Stacks), TRUE))
          /\ cont' = <<Cont("exec", Current(Stacks), 0)>>
          /\ UNCHANGED <<handlers, stopped, phase, line>>
      BY <1>2 DEF RunResume
    <2>2. Fit(handlers, exec, <<>>, line, stopped, "run") /\ LinesFit(handlers, line)
      BY <2>1 DEF FitInv, Running
    <2> QED BY <2>1, <2>2, RunFits
  <1> QED BY <1>1, <1>2

LEMMA RunEndFits ==
  ASSUME FitInv, RunEmpty \/ RunReturn
  PROVE  FitInv'
  <1>1. phase' = "done" /\ UNCHANGED <<exec, handlers, line>>
    BY DEF RunEmpty, RunReturn, stacks
  <1>2. \A p \in 2..Len(exec') : exec'[p] # Main
    BY <1>1 DEF FitInv
  <1> QED BY <1>1, <1>2, FitOver

LEMMA NextLineFits ==
  ASSUME IInv, FitInv, NextLine
  PROVE  FitInv'
  <1>1. /\ exec' = <<Main>> /\ line' = line + 1 /\ phase' = "ready" /\ handlers' = handlers
    BY DEF NextLine
  <1>2. LinesFit(handlers', line') /\ \A j \in DOMAIN handlers' : handlers'[j].line # line'
    <2>1. handlers \in Seq(HandlerRec) /\ line \in Nat /\ LinesFit(handlers, line)
      BY DEF IInv, RestOK, FitInv
    <2> QED BY <1>1, <2>1, LinesKept
  <1>3. \A p \in 2..Len(exec') : exec'[p] # Main
    BY <1>1
  <1> QED BY <1>1, <1>2, <1>3 DEF FitInv, Running

LEMMA DestroyFits ==
  ASSUME IInv, FitInv, Destroy
  PROVE  FitInv'
  <1> DEFINE c == Cont("pass", Len(tasks), 0)
             s == <<>>
  <1>1. /\ phase' = "destroy" /\ cont' = <<c>> /\ UNCHANGED <<exec, handlers, stopped, line>>
    BY DEF Destroy, stacks
  <1>2. /\ exec \in Seq(Nat) /\ Len(exec) \in Nat /\ Len(exec) >= 1
        /\ handlers \in Seq(HandlerRec) /\ stopped \in BOOLEAN /\ Len(tasks) \in Nat
    <2>1. exec \in Seq(Nat) /\ Len(exec) \in Nat \ {0}
      <3>1. StacksOK(Stacks) /\ Stacks.exec = exec
        BY DEF IInv, Stacks
      <3> HIDE DEF Stacks
      <3> QED BY <3>1, ExecKept
    <2> QED BY <2>1, LenProperties DEF IInv, RestOK
  <1>3. Fit(handlers, exec, s, line, stopped, "destroy")
    BY <1>2, FitNone DEF FitInv
  <1>4. c \in ContRec /\ c.k = "pass"
    BY <1>2, FramesAreRecords, KindsAreNamed
  <1> HIDE DEF c
  <1>5. Width(c) = 0
    BY <1>4, WidthOK
  <1>6. s = <<>> /\ s \in Seq(ContRec) /\ Append(s, c) = <<c>>
    BY EmptySeq
  <1> HIDE DEF s
  <1>7. Fit(handlers, exec, Append(s, c), line, stopped, "destroy")
    BY <1>2, <1>3, <1>4, <1>5, <1>6, EntersNothing, FitPush
  <1> QED BY <1>1, <1>6, <1>7, FitNext DEF FitInv, Running

-----------------------------------------------------------------------------
(* Exceptions.                                                             *)

\* A handled exception: the stacks are cut back to the depth of the newest
\* handler, and the catch block is called over what is left.
LEMMA HandleFits ==
  ASSUME IInv, FitInv, NEW m, StacksOK(m), m.exec = exec, phase = "run",
         handlers # <<>>, cont = <<>> \/ TopCont.k # "try", HandleException(m),
         UNCHANGED <<stopped, line>>
  PROVE  FitInv'
  <1> DEFINE d == Last(handlers).depth
             p == PopTmpCallable(m)
             r == Restore(p, d)
             n == Invoke(r, "catch")
             x == Cont("exec", Last(n.tmp), 0)
             k == Cont("catch", 0, 0)
             s == <<>>
  <1>1. /\ exec' = n.exec /\ handlers' = Front(handlers) /\ phase' = phase
        /\ cont' = <<k, x>>
    BY DEF HandleException, Become
  <1>2. /\ handlers \in Seq(HandlerRec) /\ exec \in Seq(Nat) /\ cont \in Seq(ContRec)
        /\ stopped \in BOOLEAN /\ line \in Nat /\ LinesFit(handlers, line)
        /\ Fit(handlers, exec, cont, line, stopped, "run")
    BY FitNow DEF Running
  <1>3. Front(handlers) \in Seq(HandlerRec) /\ d \in Nat \ {0}
    BY <1>2, HandlersFront DEF HandlerRec
  <1>4. StacksOK(p) /\ p.exec = exec
    BY PopTmpCallableOK, ExecKept DEF Keeps, KeepsBut
  <1>d. d = Last(handlers).depth
    OBVIOUS
  <1> HIDE DEF p, d
  <1>5. StacksOK(r) /\ r.exec = IF Len(exec) <= d THEN exec ELSE SubSeq(exec, 1, d)
    BY <1>3, <1>4, RestoreOK, ExecRestored DEF Keeps, KeepsBut
  <1> HIDE DEF r
  <1>6. r.exec \in Seq(Nat)
    BY <1>5, ExecKept
  <1>7. Fit(Front(handlers), r.exec, s, line, stopped, "run")
    BY <1>2, <1>5, <1>6, <1>d, FitCut DEF TopCont
  <1>8. Enters(r.exec, n.exec, x) /\ Fresh(r.exec, n.exec) /\ x.k = "exec" /\ x.u # Main
        /\ Width(x) = 1 /\ x \in ContRec
    BY <1>5, ExecInvoked DEF UnitKinds
  <1>9. k \in ContRec /\ k.k = "catch"
    BY FramesAreRecords, KindsAreNamed
  <1> HIDE DEF n, x, k
  <1>10. Width(k) = 0
    BY <1>9, WidthOK
  <1>11. s = <<>> /\ s \in Seq(ContRec) /\ s \o <<k, x>> = <<k, x>>
    BY EmptySeq
  <1> HIDE DEF s
  <1>12. Fit(Front(handlers), r.exec, Append(s, k), line, stopped, "run")
    BY <1>2, <1>3, <1>6, <1>7, <1>9, <1>10, <1>11, EntersNothing, FitPush
  <1>13. Fit(Front(handlers), n.exec, s \o <<k, x>>, line, stopped, "run")
    BY <1>2, <1>3, <1>6, <1>8, <1>9, <1>11, <1>12, PushTwoFits
  <1>14. LinesFit(Front(handlers), line)
    BY <1>2, LinesKept
  <1> QED BY <1>1, <1>11, <1>13, <1>14, FitNext DEF Running

LEMMA ThrowFits ==
  ASSUME IInv, FitInv, NEW kind \in Throwing, Throw(kind)
  PROVE  FitInv'
  <1> DEFINE m == IF kind = "badcall" THEN TmpCallable(Evaluated, "fn") ELSE Evaluated
  <1>1. CanEvaluate(kind) /\ Raise(m) /\ UNCHANGED <<stopped, line>>
    BY DEF Throw
  <1>2. /\ Running /\ cont # <<>> /\ TopCont.k # "try"
        /\ StacksOK(Evaluated) /\ Evaluated.exec = exec
    BY <1>1, Evaluating
  <1>3. StacksOK(m) /\ m.exec = exec
    <2>1. StacksOK(TmpCallable(Evaluated, "fn")) /\ TmpCallable(Evaluated, "fn").exec = exec
      <3> HIDE DEF Evaluated
      <3> QED BY <1>2, CopyIsNew DEF UnitKinds
    <2> QED BY <1>2, <2>1
  <1> HIDE DEF m
  <1>4. ASSUME Become(m), NEW to \in {"terminated", "escaped", "uncaught", "undefined"}, Leave(to)
        PROVE  FitInv'
    <2>1. exec' = exec /\ phase' = to /\ handlers' = handlers
      BY <1>3, <1>4 DEF Become, Leave
    <2>2. \A p \in 2..Len(exec') : exec'[p] # Main
      BY <2>1 DEF FitInv
    <2> QED BY <1>1, <2>1, <2>2, FitOver
  <1>5. CASE HandleException(m) /\ handlers # <<>> /\ phase # "destroy"
    <2>1. phase = "run"
      BY <1>2, <1>5 DEF Running
    <2> QED BY <1>1, <1>2, <1>3, <1>5, <2>1, HandleFits
  <1> QED BY <1>1, <1>4, <1>5 DEF Raise

-----------------------------------------------------------------------------
(* The theorems.                                                           *)

LEMMA InitFits ==
  ASSUME Init
  PROVE  FitInv
  BY DEF Init, FitInv, LinesFit, Running, Main

LEMMA NextFits ==
  ASSUME IInv, FitInv, WaitInv, [Next]_vars
  PROVE  FitInv'
  <1>1. CASE Step
    <2>1. CASE RunStart \/ RunEmpty \/ RunResume \/ RunReturn
      BY <2>1, RunStartFits, RunEndFits, RunResumeFits
    <2>2. CASE \E kind \in Callables : Call(kind)
      BY <2>2, CallFits
    <2>3. CASE \E kind \in Throwing : Throw(kind)
      BY <2>3, ThrowFits
    <2>4. CASE CallFunction \/ Access \/ TryCatch \/ ForLoop \/ ForEach \/ NativeEach
      BY <2>4, CallFunctionFits, AccessFits, TryCatchFits, ForLoopFits, ForEachFits, NativeEachFits
    <2>5. CASE Return \/ Break \/ Exit \/ OnExit
      BY <2>5, ReturnFits, ExitFits, OnExitFits
    <2>6. CASE Finish \/ LoopIterate \/ LoopExit \/ EachNext
      BY <2>6, FinishFits, LoopIterateFits, LoopExitFits, EachNextFits
    <2>7. CASE TryDone \/ EachDone \/ UseDone \/ CatchDone
      BY <2>7, TryDoneFits, SimpleDoneFits
    <2>8. CASE PassNext \/ PassDone
      BY <2>8, PassNextFits, PassDoneFits
    <2>9. CASE EnterCallee \/ EnterLoop
      BY <2>9, EnterCalleeFits, EnterLoopFits
    <2> QED BY <1>1, <2>1, <2>2, <2>3, <2>4, <2>5, <2>6, <2>7, <2>8, <2>9 DEF Step
  <1>2. CASE Host
    BY <1>2, NextLineFits, DestroyFits DEF Host
  <1>3. CASE Halt \/ UNCHANGED vars
    <2>1. UNCHANGED <<exec, cont, handlers, stopped, phase, line>>
      BY <1>3 DEF Halt, vars
    <2> QED BY <2>1 DEF FitInv, Running
  <1> QED BY <1>1, <1>2, <1>3 DEF Next

\* The stacks of the execution core fit together in every behaviour.
THEOREM FitInductive == Spec => [](IInv /\ FitInv)
  <1>1. Init => FitInv
    BY InitFits
  <1>2. IInv /\ WaitInv /\ FitInv /\ [Next]_vars => FitInv'
    BY NextFits
  <1> QED BY <1>1, <1>2, WaitsInductive, PTL DEF Spec
\* Every leave_scope owed by the native stack finds its own unit on top of
\* exec_stack, whatever was thrown, caught and resumed before.
THEOREM ScopesAlwaysMirrored == Spec => []ScopesMirrored
  <1>1. IInv /\ FitInv => ScopesMirrored
    <2> SUFFICES ASSUME IInv, FitInv, Running, ~stopped
                 PROVE  /\ Owned(cont, 1) < Len(exec)
                        /\ \A i \in DOMAIN cont :
                             LET top == Len(exec) - Owned(cont, i + 1)
                             IN  /\ cont[i] \in Entering => exec[top] = cont[i].u
                                 /\ cont[i] \in Proxied => exec[top - 1] = cont[i].n
      BY DEF ScopesMirrored
    <2>1. ScopesFit(exec, cont, stopped) /\ Len(exec) \in Nat /\ Owned(cont, 1) \in Nat
      <3>1. 1 \in Nat /\ cont \in Seq(ContRec) /\ exec \in Seq(Nat)
        BY FitNow
      <3> QED BY <3>1, FitNow, OwnedOK, LenProperties
    <2>2. Owned(cont, 1) < Len(exec)
      BY <2>1 DEF ScopesFit, Under
    <2> QED BY <2>1, <2>2 DEF ScopesFit, Under
  <1> QED BY <1>1, FitInductive, PTL

\* The try expressions being evaluated own the newest handlers, in order:
\* the handler that TryCatchExpr's evaluator pops is the one it pushed.
THEOREM HandlersAlwaysMirrored == Spec => []HandlersMirrored
  <1>1. IInv /\ FitInv => HandlersMirrored
    <2> SUFFICES ASSUME IInv, FitInv, Running
                 PROVE  /\ Count(cont, OfKind("try"), 1) <= Len(handlers)
                        /\ \A i \in DOMAIN cont : cont[i].k = "try" =>
                             handlers[Len(handlers) - Count(cont, OfKind("try"), i + 1)].depth
                               = cont[i].n
      BY DEF HandlersMirrored
    <2>1. TriesFit(handlers, cont) /\ Len(handlers) \in Nat /\ Count(cont, Trying, 1) \in Nat
      <3>1. 1 \in Nat /\ cont \in Seq(ContRec) /\ handlers \in Seq(HandlerRec)
        BY FitNow
      <3> QED BY <3>1, FitNow, CountIsNat, LenProperties
    <2>2. Count(cont, Trying, 1) <= Len(handlers)
      BY <2>1 DEF TriesFit, Older
    <2> QED BY <2>1, <2>2 DEF TriesFit, Older, Trying
  <1> QED BY <1>1, FitInductive, PTL

\* Every handler of the program being run names a depth exec_stack still has,
\* and inner handlers name greater depths: restore_execution_state returns to
\* the unit that holds the try.
THEOREM HandlersAlwaysRestorable == Spec => []HandlersRestorable
  <1>1. IInv /\ FitInv => HandlersRestorable
    <2> SUFFICES ASSUME IInv, FitInv, phase = "run",
                        NEW j \in DOMAIN handlers, handlers[j].line = line
                 PROVE  /\ handlers[j].depth <= Len(exec)
                        /\ \A i \in 1..(j - 1) : handlers[i].line = line =>
                             handlers[i].depth < handlers[j].depth
      BY DEF HandlersRestorable
    <2>1. /\ handlers \in Seq(HandlerRec) /\ exec \in Seq(Nat) /\ cont \in Seq(ContRec)
          /\ ScopesFit(exec, cont, stopped) /\ TriesFit(handlers, cont)
          /\ DepthsFit(handlers, exec, cont, line)
      BY FitNow DEF Running, Fit
    <2>2. /\ Len(cont) \in Nat /\ Len(exec) \in Nat /\ Len(cont) + 1 \in 1..(Len(cont) + 1)
          /\ Older(handlers, cont, Len(cont) + 1) = Len(handlers)
          /\ Under(exec, cont, Len(cont) + 1) = Len(exec)
      BY <2>1, OlderRange, UnderRange
    <2>3. Room(exec, cont, Len(cont) + 1) \in {Len(exec), Len(exec) + 1}
      BY <2>2 DEF Room
    <2>4. handlers[j].depth \in Nat /\ j \in 1..Len(handlers)
      <3>1. handlers[j] \in HandlerRec /\ j \in 1..Len(handlers)
        BY <2>1, ElementOfSeq, LenProperties
      <3> QED BY <3>1 DEF HandlerRec
    <2>5. handlers[j].depth < Room(exec, cont, Len(cont) + 1)
      BY <2>1, <2>2, <2>4 DEF DepthsFit
    <2> QED BY <2>1, <2>2, <2>3, <2>4, <2>5 DEF DepthsFit
  <1> QED BY <1>1, FitInductive, PTL

-----------------------------------------------------------------------------
(***************************************************************************)
(* Single steps: which frames a step may free, which units it may hand a   *)
(* return value, and what that value stops.                                *)
(***************************************************************************)
\* A unit that has a return value is finished.
RetFin(us) == \A u \in DOMAIN us : us[u].ret => us[u].fin

\* What an operation on the stacks spares: units outside F are not freed, and
\* units outside R get no return value.
Spares(m, n, F, R) ==
  /\ \A u \in DOMAIN n.unit \ F :
       n.unit[u].kind = "freed" => u \in DOMAIN m.unit /\ m.unit[u].kind = "freed"
  /\ \A u \in DOMAIN m.unit \ R : n.unit[u].ret => m.unit[u].ret
  /\ RetFin(m.unit) => RetFin(n.unit)

\* An iteration is right above its loop; a loop's body and proxy, which its
\* end leaves and looks through, have not been freed.
LoopsFit(cs, us) ==
  \A i \in DOMAIN cs :
    /\ cs[i].k = "iter" => i > 1 /\ cs[i - 1].k = "loop" /\ cs[i - 1].u = cs[i].u
    /\ cs[i].k = "loop" => cs[i].u \in DOMAIN us /\ us[cs[i].u].kind = "body"
    /\ cs[i] \in Proxied => cs[i].n \in DOMAIN us /\ us[cs[i].n].kind = "proxy"
    /\ cs[i].k = "init" => cs[i].u \in DOMAIN us /\ us[cs[i].u].kind = "proxy"

\* The inductive invariant besides FitInv.
StepInv ==
  /\ RetFin(unit)
  /\ phase = "run" /\ ~stopped => LoopsFit(cont, unit)

\* What is proved of every step.
StepOK == StepInv' /\ SparesFrames /\ ReturnsInside /\ StopsParent

-----------------------------------------------------------------------------
(* What the operations on the stacks spare.                                *)

LEMMA SparesUnits ==
  ASSUME NEW m, NEW n, n.unit = m.unit
  PROVE  Spares(m, n, {}, {})
  BY DEF Spares

\* One operation after another.
LEMMA SparesBoth ==
  ASSUME NEW m, NEW n, NEW o, NEW F, NEW G, NEW R, NEW S,
         Keeps(m, n), Keeps(n, o), Spares(m, n, F, R), Spares(n, o, G, S)
  PROVE  Spares(m, o, F \cup G, R \cup S)
  <1>1. DOMAIN m.unit \subseteq DOMAIN n.unit /\ DOMAIN n.unit \subseteq DOMAIN o.unit
    BY DEF Keeps, KeepsBut
  <1> QED BY <1>1 DEF Spares

\* Nothing freed or returned, before and after.
LEMMA SparesAll ==
  ASSUME NEW m, NEW n, NEW o, NEW F, NEW R, Keeps(m, n), Keeps(n, o)
  PROVE  /\ Spares(m, n, {}, {}) /\ Spares(n, o, F, R) => Spares(m, o, F, R)
         /\ Spares(m, n, F, R) /\ Spares(n, o, {}, {}) => Spares(m, o, F, R)
  <1>1. F \cup {} = F /\ {} \cup F = F /\ R \cup {} = R /\ {} \cup R = R
    OBVIOUS
  <1>2. Spares(m, n, {}, {}) /\ Spares(n, o, F, R) => Spares(m, o, F, R)
    <2>1. Spares(m, n, {}, {}) /\ Spares(n, o, F, R) => Spares(m, o, {} \cup F, {} \cup R)
      BY SparesBoth
    <2> QED BY <1>1, <2>1
  <1>3. Spares(m, n, F, R) /\ Spares(n, o, {}, {}) => Spares(m, o, F, R)
    <2>1. Spares(m, n, F, R) /\ Spares(n, o, {}, {}) => Spares(m, o, F \cup {}, R \cup {})
      BY SparesBoth
    <2> QED BY <1>1, <2>1
  <1> QED BY <1>2, <1>3

LEMMA SetUnitSpares ==
  ASSUME NEW m, StacksOK(m), NEW u \in DOMAIN m.unit, NEW r \in UnitRec, NEW F, NEW R,
         r.kind = m.unit[u].kind \/ u \in F,
         r.ret => m.unit[u].ret \/ u \in R,
         r.ret => r.fin \/ (m.unit[u].ret /\ r.fin = m.unit[u].fin)
  PROVE  Spares(m, [m EXCEPT !.unit[u] = r], F, R)
  <1> DEFINE s == [m.unit EXCEPT ![u] = r]
             n == [m EXCEPT !.unit[u] = r]
  <1>1. DOMAIN s = DOMAIN m.unit /\ \A v \in DOMAIN s : s[v] = IF v = u THEN r ELSE m.unit[v]
    BY UnitOK, UpdateUnit
  <1>2. n.unit = s
    BY DEF StacksOK
  <1> HIDE DEF s, n
  <1>3. \A v \in DOMAIN n.unit \ F :
          n.unit[v].kind = "freed" => v \in DOMAIN m.unit /\ m.unit[v].kind = "freed"
    BY <1>1, <1>2
  <1>4. \A v \in DOMAIN m.unit \ R : n.unit[v].ret => m.unit[v].ret
    BY <1>1, <1>2
  <1>5. RetFin(m.unit) => RetFin(n.unit)
    BY <1>1, <1>2 DEF RetFin
  <1>6. Spares(m, n, F, R)
    BY <1>3, <1>4, <1>5 DEF Spares
  <1> QED BY <1>6 DEF n

LEMMA TmpCallableSpares ==
  ASSUME NEW m, StacksOK(m), NEW kind \in UnitKinds, kind # "freed"
  PROVE  /\ Spares(m, TmpCallable(m, kind), {}, {})
         /\ TmpCallable(m, kind).unit[Last(TmpCallable(m, kind).tmp)].kind = kind
  <1> DEFINE n == TmpCallable(m, kind)
             r == NewUnit(kind)
  <1>1. r \in UnitRec /\ r.kind # "freed" /\ ~r.ret
    BY DEF NewUnit, UnitRec
  <1>2. n.unit = Append(m.unit, r) /\ m.unit \in Seq(UnitRec)
    BY DEF TmpCallable, StacksOK
  <1> HIDE DEF r, n
  <1>3. /\ DOMAIN n.unit = 1..(Len(m.unit) + 1) /\ DOMAIN m.unit = 1..Len(m.unit)
        /\ \A u \in 1..Len(m.unit) : n.unit[u] = m.unit[u]
        /\ n.unit[Len(m.unit) + 1] = r /\ Len(m.unit) \in Nat
    BY <1>1, <1>2, AppendOK
  <1>4. \A u \in DOMAIN n.unit : u \in DOMAIN m.unit \/ n.unit[u] = r
    BY <1>3
  <1>5. Spares(m, n, {}, {})
    BY <1>1, <1>3, <1>4 DEF Spares, RetFin
  <1> QED BY <1>5, TmpCallableOK DEF n

LEMMA EnterScopeSpares ==
  ASSUME NEW m, StacksOK(m), NEW u \in DOMAIN m.unit
  PROVE  Spares(m, EnterScope(m, u), {}, {})
  <1> DEFINE r == [m.unit[u] EXCEPT !.fin = m.unit[u].ret \/ m.unit[u].brk]
             n == [m EXCEPT !.unit[u] = r]
  <1>1. r \in UnitRec /\ r.kind = m.unit[u].kind /\ r.ret = m.unit[u].ret /\ (r.ret => r.fin)
    <2>1. m.unit[u] \in UnitRec
      BY UnitOK
    <2> QED BY <2>1 DEF UnitRec
  <1>2. EnterScope(m, u).unit = n.unit
    BY DEF EnterScope, StacksOK
  <1> HIDE DEF r
  <1>3. Spares(m, n, {}, {})
    BY <1>1, SetUnitSpares
  <1> QED BY <1>2, <1>3 DEF Spares

LEMMA PopTmpCallableSpares ==
  ASSUME NEW m, StacksOK(m)
  PROVE  Spares(m, PopTmpCallable(m), {Current(m)}, {})
  <1> DEFINE u == Current(m)
             r == [m.unit[u] EXCEPT !.kind = "freed"]
             n == [m EXCEPT !.unit[u] = r]
  <1>1. u \in DOMAIN m.unit
    BY CurrentOK
  <1>2. r \in UnitRec /\ r.ret = m.unit[u].ret /\ r.fin = m.unit[u].fin
    <2>1. m.unit[u] \in UnitRec
      BY <1>1, UnitOK
    <2> QED BY <2>1 DEF UnitRec, UnitKinds
  <1>3. PopTmpCallable(m).unit = n.unit \/ PopTmpCallable(m).unit = m.unit
    BY DEF PopTmpCallable, StacksOK
  <1> HIDE DEF r
  <1>4. Spares(m, n, {u}, {})
    BY <1>1, <1>2, SetUnitSpares
  <1> HIDE DEF n
  <1>5. Spares(m, PopTmpCallable(m), {u}, {})
    BY <1>3, <1>4 DEF Spares
  <1> QED BY <1>5

LEMMA LeaveScopeSpares ==
  ASSUME NEW m, StacksOK(m)
  PROVE  Spares(m, LeaveScope(m), {Current(m)}, {})
  <1> DEFINE u == Current(m)
             r == [m.unit[u] EXCEPT !.ret = FALSE]
             c == [m EXCEPT !.unit[u] = r]
             p == PopTmpCallable(c)
             n == [p EXCEPT !.exec = Front(@)]
  <1>1. CASE Len(m.exec) > 1
    <2>1. u \in DOMAIN m.unit
      BY CurrentOK
    <2>2. r \in UnitRec /\ r.kind = m.unit[u].kind /\ ~r.ret /\ r.cur = m.unit[u].cur
      <3>1. m.unit[u] \in UnitRec
        BY <2>1, UnitOK
      <3> QED BY <3>1 DEF UnitRec
    <2>3. Keeps(m, c) /\ Spares(m, c, {}, {}) /\ c.exec = m.exec
      <3>1. c.exec = m.exec
        BY DEF StacksOK
      <3> HIDE DEF r, u
      <3> QED BY <2>1, <2>2, <3>1, SetUnitOK, SetUnitSpares DEF Keeps
    <2>4. Current(c) = u
      BY <2>3 DEF Current
    <2> HIDE DEF c, u
    <2>5. Keeps(c, p) /\ Spares(c, p, {u}, {})
      BY <2>3, <2>4, PopTmpCallableOK, PopTmpCallableSpares DEF Keeps, KeepsBut
    <2> HIDE DEF p
    <2>6. Spares(m, p, {u}, {})
      BY <2>3, <2>5, SparesAll
    <2>7. n.unit = p.unit
      BY <2>5 DEF Keeps, KeepsBut, StacksOK
    <2>8. LeaveScope(m) = n
      BY <1>1 DEF LeaveScope, c, p, u
    <2> HIDE DEF n
    <2>9. Spares(m, LeaveScope(m), {u}, {})
      BY <2>6, <2>7, <2>8 DEF Spares
    <2> QED BY <2>9 DEF u
  <1>2. CASE ~(Len(m.exec) > 1)
    <2>1. LeaveScope(m) = m
      BY <1>2 DEF LeaveScope
    <2> QED BY <2>1 DEF Spares
  <1> QED BY <1>1, <1>2

LEMMA SaveReturnSpares ==
  ASSUME NEW m, StacksOK(m), NEW u \in DOMAIN m.unit
  PROVE  /\ Spares(m, SaveReturn(m, u), {}, {u})
         /\ SaveReturn(m, u).unit[u].kind = m.unit[u].kind
         /\ SaveReturn(m, u).unit[u].fin \/ m.unit[u].kind \in NoReturn
  <1> DEFINE q == [m.unit[u] EXCEPT !.ret = TRUE]
             r == [q EXCEPT !.fin = TRUE]
             n == [m EXCEPT !.unit[u] = r]
  <1>1. CASE m.unit[u].kind \in NoReturn
    <2>1. SaveReturn(m, u) = m
      BY <1>1 DEF SaveReturn
    <2> QED BY <1>1, <2>1 DEF Spares
  <1>2. CASE m.unit[u].kind \notin NoReturn
    <2>1. r \in UnitRec /\ r.kind = m.unit[u].kind /\ r.fin
      <3>1. m.unit[u] \in UnitRec
        BY UnitOK
      <3> QED BY <3>1 DEF UnitRec
    <2>2. SaveReturn(m, u) = n
      BY <1>2 DEF SaveReturn, StacksOK
    <2>3. n.unit[u] = r
      BY UnitOK, UpdateUnit DEF StacksOK
    <2> HIDE DEF r
    <2>4. Spares(m, n, {}, {u})
      BY <2>1, SetUnitSpares
    <2> HIDE DEF n
    <2> QED BY <2>1, <2>2, <2>3, <2>4
  <1> QED BY <1>1, <1>2

LEMMA StopUnitsSpares ==
  ASSUME NEW m, StacksOK(m), NEW us, NEW b \in BOOLEAN
  PROVE  Spares(m, StopUnits(m, us, b), {}, {})
  <1> DEFINE n == StopUnits(m, us, b)
  <1>1. n.unit = [u \in DOMAIN m.unit |->
                    IF u \in us THEN [m.unit[u] EXCEPT !.fin = TRUE, !.brk = @ \/ b]
                    ELSE m.unit[u]]
    BY DEF StopUnits, StacksOK
  <1>2. ASSUME NEW u \in DOMAIN m.unit
        PROVE  /\ n.unit[u].kind = m.unit[u].kind /\ n.unit[u].ret = m.unit[u].ret
               /\ m.unit[u].fin => n.unit[u].fin
    <2>1. m.unit[u] \in UnitRec
      BY UnitOK
    <2> QED BY <1>1, <2>1 DEF UnitRec
  <1>3. DOMAIN n.unit = DOMAIN m.unit
    BY <1>1
  <1> HIDE DEF n
  <1>4. Spares(m, n, {}, {})
    BY <1>2, <1>3 DEF Spares, RetFin
  <1> QED BY <1>4 DEF n

LEMMA PropagateBreakSpares ==
  ASSUME NEW m, StacksOK(m), NEW u
  PROVE  Spares(m, PropagateBreak(m, u), {}, {})
  <1>1. Spares(m, StopUnits(m, {v \in Below(m) : Carries(m, v)}, TRUE), {}, {})
    BY StopUnitsSpares
  <1>2. Spares(m, m, {}, {})
    BY SparesUnits
  <1> QED BY <1>1, <1>2 DEF PropagateBreak

LEMMA AdvanceSpares ==
  ASSUME NEW m, StacksOK(m), NEW u \in DOMAIN m.unit
  PROVE  Spares(m, Advance(m, u), {}, {})
  <1> DEFINE r == [m.unit[u] EXCEPT !.cur = m.unit[u].cur + 1]
             n == [m EXCEPT !.unit[u] = r]
  <1>1. r \in UnitRec /\ r.kind = m.unit[u].kind /\ r.ret = m.unit[u].ret /\ r.fin = m.unit[u].fin
    <2>1. m.unit[u] \in UnitRec
      BY UnitOK
    <2>2. m.unit[u].cur + 1 \in Nat
      BY <2>1 DEF UnitRec
    <2> QED BY <2>1, <2>2 DEF UnitRec
  <1>2. Advance(m, u) = n
    BY DEF Advance, StacksOK
  <1> HIDE DEF r
  <1>3. Spares(m, n, {}, {})
    BY <1>1, SetUnitSpares
  <1> QED BY <1>2, <1>3

LEMMA ExecuteSpares ==
  ASSUME NEW m, StacksOK(m), NEW u \in DOMAIN m.unit, NEW own \in BOOLEAN
  PROVE  Spares(m, Execute(m, u, own), {}, {})
  <1> DEFINE e == IF own THEN EnterScope(m, u) ELSE m
             r == [e.unit[u] EXCEPT !.cur = 0]
             n == [e EXCEPT !.unit[u] = r]
  <1>1. StacksOK(e) /\ Keeps(m, e) /\ Spares(m, e, {}, {}) /\ u \in DOMAIN e.unit
    BY EnterScopeOK, EnterScopeSpares, KeepsSelf, SparesUnits DEF Keeps, KeepsBut
  <1>2. \/ Execute(m, u, own) = [e EXCEPT !.handling = @ - 1]
        \/ Execute(m, u, own) = e
        \/ Execute(m, u, own) = [e EXCEPT !.unit[u].cur = 0]
    BY DEF Execute
  <1> HIDE DEF e
  <1>3. /\ r \in UnitRec /\ r.kind = e.unit[u].kind /\ r.ret = e.unit[u].ret
        /\ r.fin = e.unit[u].fin /\ r.cur = 0
    <2>1. e.unit[u] \in UnitRec
      BY <1>1, UnitOK
    <2> QED BY <2>1 DEF UnitRec
  <1>4. Execute(m, u, own).unit = e.unit \/ Execute(m, u, own) = n
    <2>1. [e EXCEPT !.handling = @ - 1].unit = e.unit
      BY <1>1 DEF StacksOK
    <2>2. [e EXCEPT !.unit[u].cur = 0] = n
      BY <1>1 DEF StacksOK
    <2> QED BY <1>2, <2>1, <2>2
  <1> HIDE DEF r
  <1>6. Spares(e, n, {}, {})
    BY <1>1, <1>3, SetUnitSpares
  <1>7. DOMAIN m.unit \subseteq DOMAIN e.unit
    BY <1>1 DEF Keeps, KeepsBut
  <1>8. Spares(m, n, {}, {})
    BY <1>1, <1>6, <1>7 DEF Spares
  <1> HIDE DEF n
  <1> QED BY <1>1, <1>4, <1>8 DEF Spares

LEMMA InvokeSpares ==
  ASSUME NEW m, StacksOK(m), NEW kind \in UnitKinds, kind # "freed"
  PROVE  Spares(m, Invoke(m, kind), {}, {})
  <1> DEFINE p == TmpCallable(m, kind)
             u == Last(p.tmp)
             n == Execute(p, u, TRUE)
  <1>1. Keeps(m, p) /\ u \in DOMAIN p.unit /\ Spares(m, p, {}, {})
    BY TmpCallableOK, TmpCallableSpares
  <1> HIDE DEF p, u
  <1>2. Spares(p, n, {}, {}) /\ StacksOK(p)
    BY <1>1, ExecuteSpares DEF Keeps, KeepsBut
  <1>3. Spares(m, n, {}, {})
    <2>1. DOMAIN m.unit \subseteq DOMAIN p.unit
      BY <1>1 DEF Keeps, KeepsBut
    <2> HIDE DEF n
    <2> QED BY <1>1, <1>2, <2>1 DEF Spares
  <1> QED BY <1>3 DEF Invoke, p, u
-----------------------------------------------------------------------------
(* Loops on the native stack.                                              *)

LEMMA LoopsNone ==
  ASSUME NEW us
  PROVE  LoopsFit(<<>>, us)
  BY DEF LoopsFit

LEMMA LoopsPush ==
  ASSUME NEW cs \in Seq(ContRec), NEW us, LoopsFit(cs, us), NEW c \in ContRec,
         c.k = "iter" => cs # <<>> /\ Last(cs).k = "loop" /\ Last(cs).u = c.u,
         c.k = "loop" => c.u \in DOMAIN us /\ us[c.u].kind = "body",
         c \in Proxied => c.n \in DOMAIN us /\ us[c.n].kind = "proxy",
         c.k = "init" => c.u \in DOMAIN us /\ us[c.u].kind = "proxy"
  PROVE  LoopsFit(Append(cs, c), us)
  <1> DEFINE t == Append(cs, c)
  <1>1. /\ Len(cs) \in Nat /\ DOMAIN cs = 1..Len(cs) /\ DOMAIN t = 1..(Len(cs) + 1)
        /\ \A i \in 1..Len(cs) : t[i] = cs[i]
        /\ t[Len(cs) + 1] = c
    BY AppendOK
  <1>2. cs # <<>> => Last(cs) = cs[Len(cs)] /\ Len(cs) > 0
    <2>1. cs # <<>> => Len(cs) # 0
      BY EmptySeq
    <2> QED BY <1>1, <2>1 DEF Last
  <1> HIDE DEF t
  <1>3. ASSUME NEW i \in 1..Len(cs)
        PROVE  /\ t[i].k = "iter" => i > 1 /\ t[i - 1].k = "loop" /\ t[i - 1].u = t[i].u
               /\ t[i].k = "loop" => t[i].u \in DOMAIN us /\ us[t[i].u].kind = "body"
               /\ t[i] \in Proxied => t[i].n \in DOMAIN us /\ us[t[i].n].kind = "proxy"
               /\ t[i].k = "init" => t[i].u \in DOMAIN us /\ us[t[i].u].kind = "proxy"
    <2>1. i > 1 => i - 1 \in 1..Len(cs)
      BY <1>1
    <2> QED BY <1>1, <1>3, <2>1 DEF LoopsFit
  <1>4. c.k = "iter" => Len(cs) + 1 > 1 /\ t[Len(cs)].k = "loop" /\ t[Len(cs)].u = c.u
    <2> SUFFICES ASSUME c.k = "iter"
                 PROVE  Len(cs) + 1 > 1 /\ t[Len(cs)].k = "loop" /\ t[Len(cs)].u = c.u
      OBVIOUS
    <2>1. Len(cs) \in 1..Len(cs)
      BY <1>1, <1>2
    <2> QED BY <1>1, <1>2, <2>1
  <1>5. LoopsFit(t, us)
    <2> SUFFICES ASSUME NEW i \in 1..(Len(cs) + 1)
                 PROVE  /\ t[i].k = "iter" => i > 1 /\ t[i - 1].k = "loop" /\ t[i - 1].u = t[i].u
                        /\ t[i].k = "loop" => t[i].u \in DOMAIN us /\ us[t[i].u].kind = "body"
                        /\ t[i] \in Proxied => t[i].n \in DOMAIN us /\ us[t[i].n].kind = "proxy"
                        /\ t[i].k = "init" => t[i].u \in DOMAIN us /\ us[t[i].u].kind = "proxy"
      BY <1>1 DEF LoopsFit
    <2>1. CASE i \in 1..Len(cs)
      BY <1>3, <2>1
    <2>2. CASE i = Len(cs) + 1
      <3>1. i - 1 = Len(cs)
        BY <1>1, <2>2
      <3> QED BY <1>1, <1>4, <2>2, <3>1
    <2> QED BY <1>1, <2>1, <2>2
  <1> QED BY <1>5 DEF t

LEMMA LoopsFront ==
  ASSUME NEW cs \in Seq(ContRec), cs # <<>>, NEW us, LoopsFit(cs, us)
  PROVE  LoopsFit(Front(cs), us)
  <1> DEFINE t == Front(cs)
  <1>1. /\ Len(cs) \in Nat /\ DOMAIN cs = 1..Len(cs) /\ DOMAIN t = 1..(Len(cs) - 1)
        /\ \A i \in 1..(Len(cs) - 1) : t[i] = cs[i]
    BY FrontCont
  <1> HIDE DEF t
  <1>2. ASSUME NEW i \in DOMAIN t
        PROVE  /\ i \in DOMAIN cs /\ t[i] = cs[i] /\ (i > 1 => t[i - 1] = cs[i - 1])
    <2>1. i > 1 => i - 1 \in 1..(Len(cs) - 1)
      BY <1>1
    <2> QED BY <1>1, <2>1
  <1>3. ASSUME NEW i \in DOMAIN t
        PROVE  /\ t[i].k = "iter" => i > 1 /\ t[i - 1].k = "loop" /\ t[i - 1].u = t[i].u
               /\ t[i].k = "loop" => t[i].u \in DOMAIN us /\ us[t[i].u].kind = "body"
               /\ t[i] \in Proxied => t[i].n \in DOMAIN us /\ us[t[i].n].kind = "proxy"
               /\ t[i].k = "init" => t[i].u \in DOMAIN us /\ us[t[i].u].kind = "proxy"
    <2>1. i \in DOMAIN cs /\ t[i] = cs[i] /\ (i > 1 => t[i - 1] = cs[i - 1])
      BY <1>2
    <2>2. /\ cs[i].k = "iter" => i > 1 /\ cs[i - 1].k = "loop" /\ cs[i - 1].u = cs[i].u
          /\ cs[i].k = "loop" => cs[i].u \in DOMAIN us /\ us[cs[i].u].kind = "body"
          /\ cs[i] \in Proxied => cs[i].n \in DOMAIN us /\ us[cs[i].n].kind = "proxy"
          /\ cs[i].k = "init" => cs[i].u \in DOMAIN us /\ us[cs[i].u].kind = "proxy"
      BY <2>1 DEF LoopsFit
    <2> QED BY <2>1, <2>2
  <1>4. LoopsFit(t, us)
    BY <1>3 DEF LoopsFit
  <1> QED BY <1>4 DEF t

\* Units that are spared stay bodies and proxies.
LEMMA LoopsKept ==
  ASSUME NEW cs, NEW m, NEW n, NEW F, NEW R, NEW us, KeepsBut(m, n, us), Spares(m, n, F, R),
         LoopsFit(cs, m.unit),
         \A i \in DOMAIN cs : /\ cs[i].k \in {"loop", "init"} => cs[i].u \notin F
                              /\ cs[i] \in Proxied => cs[i].n \notin F
  PROVE  LoopsFit(cs, n.unit)
  <1>1. ASSUME NEW u \in DOMAIN m.unit, u \notin F, m.unit[u].kind # "freed"
        PROVE  u \in DOMAIN n.unit /\ n.unit[u].kind = m.unit[u].kind
    <2>1. u \in DOMAIN n.unit /\ n.unit[u].kind \in {m.unit[u].kind, "freed"}
      BY DEF KeepsBut
    <2>2. n.unit[u].kind = "freed" => m.unit[u].kind = "freed"
      BY <1>1, <2>1 DEF Spares
    <2> QED BY <1>1, <2>1, <2>2
  <1> QED BY <1>1 DEF LoopsFit

-----------------------------------------------------------------------------
(* What the actions have in common.                                        *)

LEMMA BecomesUnit ==
  ASSUME NEW m, Become(m)
  PROVE  unit' = m.unit /\ exec' = m.exec /\ handling' = m.handling
  BY DEF Become

\* No frame is freed: those on exec_stack were there before or are new, and
\* at most the current unit gets a return value.
LEMMA CalmStep ==
  ASSUME IInv, StepInv, NEW m, Become(m), NEW us, KeepsBut(Stacks, m, us),
         Spares(Stacks, m, {}, {Last(exec)}),
         \A p \in DOMAIN m.exec : \/ m.exec[p] \in ToSet(exec) \/ m.exec[p] \notin DOMAIN unit
                                 \/ unit[m.exec[p]].kind # "freed",
         phase' = "run" /\ ~stopped' => LoopsFit(cont', m.unit),
         \/ phase # "run" \/ cont = <<>> \/ TopCont.k \notin {"exec", "iter", "loop"}
         \/ Len(cont') >= Len(cont)
  PROVE  StepOK
  <1>1. unit' = m.unit /\ exec' = m.exec /\ Stacks.unit = unit
    BY BecomesUnit DEF Stacks
  <1>2. StepInv'
    BY <1>1 DEF StepInv, Spares
  <1>3. SparesFrames
    <2> SUFFICES ASSUME Dangling(ToSet(exec))'
                 PROVE  Dangling(ToSet(exec))
      BY DEF SparesFrames, FrameFreed
    <2>1. PICK p \in DOMAIN m.exec : m.unit[m.exec[p]].kind = "freed"
      BY <1>1 DEF Dangling, ToSet
    <2>2. m.exec[p] \in DOMAIN m.unit
      BY DEF KeepsBut, StacksOK
    <2>3. m.exec[p] \in DOMAIN unit /\ unit[m.exec[p]].kind = "freed"
      BY <1>1, <2>1, <2>2 DEF Spares
    <2> QED BY <2>3 DEF Dangling
  <1>4. ReturnsInside
    <2> SUFFICES ASSUME NEW u \in ToSet(exec), ~unit[u].ret, unit'[u].ret, NEW v \in Above(u)
                 PROVE  FALSE
      BY DEF ReturnsInside
    <2>1. exec \in Seq(Nat) /\ exec # <<>> /\ \A p \in DOMAIN exec : exec[p] \in DOMAIN unit
      <3>1. StacksOK(Stacks) /\ Stacks.exec = exec
        BY DEF IInv, Stacks
      <3> HIDE DEF Stacks
      <3> QED BY <1>1, <3>1, ExecKept DEF StacksOK
    <2>2. u \in DOMAIN unit
      BY <2>1 DEF ToSet
    <2>3. u = Last(exec)
      BY <1>1, <2>2 DEF Spares
    <2>4. PICK j \in DOMAIN exec : \A i \in j..Len(exec) : exec[i] # u
      BY DEF Above
    <2>5. Len(exec) \in j..Len(exec) /\ exec[Len(exec)] = u
      BY <2>1, <2>3, FrontLast, LenProperties
    <2> QED BY <2>4, <2>5
  <1>5. StopsParent
    <2>1. \/ cont' # Front(cont) \/ phase # "run" \/ cont = <<>>
          \/ TopCont.k \notin {"exec", "iter", "loop"}
      <3>1. cont # <<>> => Len(Front(cont)) = Len(cont) - 1 /\ Len(cont) \in Nat
        BY FrontLast, LenProperties DEF IInv, NativeOK
      <3> QED BY <3>1
    <2> QED BY <2>1 DEF StopsParent
  <1> QED BY <1>2, <1>3, <1>4, <1>5 DEF StepOK
\* The stacks when an expression is evaluated: only a cursor has moved.
LEMMA EvaluatedSpares ==
  ASSUME IInv, NEW kind, CanEvaluate(kind)
  PROVE  /\ Keeps(Stacks, Evaluated) /\ Spares(Stacks, Evaluated, {}, {})
         /\ StacksOK(Evaluated) /\ Evaluated.exec = exec
         /\ StacksOK(Stacks) /\ Stacks.exec = exec /\ Stacks.unit = unit
         /\ cont # <<>> /\ cont \in Seq(ContRec)
  <1>1. /\ TopCont.u \in DOMAIN Stacks.unit /\ StacksOK(Stacks)
        /\ Stacks.exec = exec /\ Stacks.unit = unit
    BY Busy DEF CanEvaluate, FrameOK, Stacks
  <1> HIDE DEF Stacks, TopCont
  <1>2. Spares(Stacks, Evaluated, {}, {})
    BY <1>1, AdvanceSpares, SparesUnits DEF Evaluated
  <1> QED BY <1>1, <1>2, EvaluatedOK DEF IInv, NativeOK

\* A unit called, entered on top of exec_stack.
LEMMA InvokedExec ==
  ASSUME NEW m, StacksOK(m), NEW kind \in UnitKinds
  PROVE  LET n == Invoke(m, kind)
         IN  /\ n.exec = Append(m.exec, Last(n.tmp)) /\ Last(n.tmp) \notin DOMAIN m.unit
             /\ Last(n.tmp) \in Nat
             /\ \A p \in DOMAIN n.exec :
                  n.exec[p] \in ToSet(m.exec) \/ n.exec[p] \notin DOMAIN m.unit
  <1> DEFINE p == TmpCallable(m, kind)
             u == Last(p.tmp)
             n == Execute(p, u, TRUE)
  <1>1. /\ u \in Nat /\ u # Main /\ u \notin DOMAIN m.unit /\ u \in DOMAIN p.unit
        /\ StacksOK(p) /\ p.exec = m.exec
    BY CopyIsNew
  <1>n. Invoke(m, kind) = n
    BY DEF Invoke
  <1> HIDE DEF p, u
  <1>2. n.exec = Append(m.exec, u)
    BY <1>1, ExecEntered
  <1>3. n.tmp = p.tmp
    BY <1>1, ExecuteOK
  <1> HIDE DEF n
  <1>4. /\ DOMAIN n.exec = 1..(Len(m.exec) + 1) /\ DOMAIN m.exec = 1..Len(m.exec)
        /\ \A i \in 1..Len(m.exec) : n.exec[i] = m.exec[i]
        /\ n.exec[Len(m.exec) + 1] = u /\ Len(m.exec) \in Nat
    BY <1>1, <1>2, ExecKept, AppendOK
  <1>5. \A i \in DOMAIN n.exec : n.exec[i] \in ToSet(m.exec) \/ n.exec[i] = u
    BY <1>4 DEF ToSet
  <1>6. u = Last(n.tmp)
    BY <1>3 DEF u
  <1> QED BY <1>1, <1>2, <1>5, <1>6, <1>n

\* A unit is called from a native stack that is no lower than before.
LEMMA CalledStep ==
  ASSUME IInv, StepInv, NEW m, Keeps(Stacks, m), Spares(Stacks, m, {}, {}), m.exec = exec,
         NEW kind \in UnitKinds, kind # "freed",
         Become(Invoke(m, kind)), NEW t \in Seq(ContRec), Len(t) + 1 >= Len(cont),
         LoopsFit(cont, unit) => LoopsFit(t, unit),
         cont' = Append(t, Cont("exec", Last(Invoke(m, kind).tmp), 0)),
         UNCHANGED <<stopped, phase>>
  PROVE  StepOK
  <1> DEFINE n == Invoke(m, kind)
             u == Last(n.tmp)
             c == Cont("exec", u, 0)
  <1>1. StacksOK(m) /\ StacksOK(Stacks) /\ Stacks.unit = unit
    BY DEF Keeps, KeepsBut, IInv, Stacks
  <1>2. Keeps(m, n) /\ Spares(m, n, {}, {})
    BY <1>1, InvokeOK, InvokeSpares
  <1>3. /\ u \in Nat
        /\ \A p \in DOMAIN n.exec : n.exec[p] \in ToSet(exec) \/ n.exec[p] \notin DOMAIN m.unit
    BY <1>1, InvokedExec
  <1>4. cont' = Append(t, c) /\ Become(n)
    OBVIOUS
  <1> HIDE DEF n, u
  <1>5. c \in ContRec /\ c.k = "exec"
    BY <1>3, FramesAreRecords, KindsAreNamed
  <1> HIDE DEF c, Stacks
  <1>6. Keeps(Stacks, n) /\ Spares(Stacks, n, {}, {})
    BY <1>1, <1>2, KeepsTransitive, SparesAll DEF Keeps
  <1>7. Spares(Stacks, n, {}, {Last(exec)})
    BY <1>6 DEF Spares
  <1>8. \A p \in DOMAIN n.exec : n.exec[p] \in ToSet(exec) \/ n.exec[p] \notin DOMAIN unit
    BY <1>1, <1>3 DEF Keeps, KeepsBut
  <1>9. ASSUME phase' = "run", ~stopped'
        PROVE  LoopsFit(cont', n.unit)
    <2>1. LoopsFit(t, Stacks.unit)
      BY <1>1, <1>9 DEF StepInv
    <2>2. LoopsFit(t, n.unit)
      BY <1>6, <2>1, LoopsKept DEF Keeps
    <2>3. c \notin Proxied
      BY <1>5 DEF Proxied
    <2> QED BY <1>4, <1>5, <2>2, <2>3, LoopsPush
  <1>10. Len(cont') >= Len(cont)
    <2>1. Len(cont') = Len(t) + 1
      BY <1>4, <1>5, AppendOK
    <2> QED BY <2>1
  <1> QED BY <1>4, <1>6, <1>7, <1>8, <1>9, <1>10, CalmStep DEF Keeps

\* A frame that waits, of a native function.
LEMMA LoopsWait ==
  ASSUME NEW cs \in Seq(ContRec), NEW us, NEW k \in ContKinds \ {"iter", "loop", "init"},
         NEW u \in Nat, NEW n \in Nat
  PROVE  /\ Append(cs, Cont(k, u, n)) \in Seq(ContRec)
         /\ Len(Append(cs, Cont(k, u, n))) = Len(cs) + 1 /\ Len(cs) \in Nat
         /\ LoopsFit(cs, us) => LoopsFit(Append(cs, Cont(k, u, n)), us)
  <1> DEFINE c == Cont(k, u, n)
  <1>1. c \in ContRec /\ c.k = k
    BY FramesAreRecords
  <1>2. c \notin Proxied
    BY <1>1 DEF Proxied
  <1> HIDE DEF c
  <1>3. Append(cs, c) \in Seq(ContRec) /\ Len(Append(cs, c)) = Len(cs) + 1 /\ Len(cs) \in Nat
    BY <1>1, AppendOK
  <1>4. LoopsFit(cs, us) => LoopsFit(Append(cs, c), us)
    BY <1>1, <1>2, LoopsPush
  <1> QED BY <1>3, <1>4 DEF c

-----------------------------------------------------------------------------
(* Actions that call a unit.                                               *)

LEMMA CallStep ==
  ASSUME IInv, StepInv, NEW kind \in Callables, Call(kind)
  PROVE  StepOK
  <1> DEFINE m == Evaluated
  <1>1. /\ CanEvaluate(kind) /\ Become(Invoke(m, kind))
        /\ cont' = Append(cont, Cont("exec", Last(Invoke(m, kind).tmp), 0))
        /\ UNCHANGED <<stopped, phase>>
    BY DEF Call
  <1>2. /\ Keeps(Stacks, m) /\ Spares(Stacks, m, {}, {}) /\ m.exec = exec
        /\ cont \in Seq(ContRec)
    BY <1>1, EvaluatedSpares
  <1>3. kind \in UnitKinds /\ kind # "freed" /\ Len(cont) + 1 >= Len(cont)
    BY <1>2, LenProperties DEF Callables, UnitKinds
  <1> HIDE DEF m
  <1> QED BY <1>1, <1>2, <1>3, CalledStep

LEMMA EachNextStep ==
  ASSUME IInv, StepInv, EachNext
  PROVE  StepOK
  <1>1. /\ cont # <<>> /\ Become(Invoke(Stacks, "fn"))
        /\ cont' = Append(cont, Cont("exec", Last(Invoke(Stacks, "fn").tmp), 0))
        /\ UNCHANGED <<stopped, phase>>
    BY DEF EachNext, In
  <1>2. /\ StacksOK(Stacks) /\ Stacks.exec = exec /\ cont \in Seq(ContRec)
    BY DEF IInv, NativeOK, Stacks
  <1> HIDE DEF Stacks
  <1>3. Keeps(Stacks, Stacks) /\ Spares(Stacks, Stacks, {}, {}) /\ Len(cont) + 1 >= Len(cont)
    BY <1>2, KeepsSelf, SparesUnits, LenProperties
  <1> QED BY <1>1, <1>2, <1>3, CalledStep DEF UnitKinds

\* A unit is copied, and the native stack waits before it is entered.
LEMMA CopyStep ==
  ASSUME IInv, StepInv, NEW m, Keeps(Stacks, m), Spares(Stacks, m, {}, {}), m.exec = exec,
         NEW kind \in UnitKinds, kind # "freed",
         Become(TmpCallable(m, kind)), NEW t \in Seq(ContRec), Len(t) + 1 >= Len(cont),
         LoopsFit(cont, unit) => LoopsFit(t, unit), NEW k \in {"args", "iterable"},
         cont' = Append(t, Cont(k, Last(TmpCallable(m, kind).tmp), 0)),
         UNCHANGED <<stopped, phase>>
  PROVE  StepOK
  <1> DEFINE n == TmpCallable(m, kind)
             u == Last(n.tmp)
             c == Cont(k, u, 0)
  <1>1. StacksOK(m) /\ StacksOK(Stacks) /\ Stacks.unit = unit
    BY DEF Keeps, KeepsBut, IInv, Stacks
  <1>2. Keeps(m, n) /\ Spares(m, n, {}, {})
    BY <1>1, TmpCallableOK, TmpCallableSpares
  <1>3. u \in Nat /\ n.exec = exec
    BY <1>1, CopyIsNew
  <1>4. cont' = Append(t, c) /\ Become(n)
    OBVIOUS
  <1> HIDE DEF n, u
  <1>5. c \in ContRec /\ c.k = k
    BY <1>3, FramesAreRecords, KindsAreNamed
  <1> HIDE DEF c, Stacks
  <1>6. Keeps(Stacks, n) /\ Spares(Stacks, n, {}, {})
    BY <1>1, <1>2, KeepsTransitive, SparesAll DEF Keeps
  <1>7. Spares(Stacks, n, {}, {Last(exec)})
    BY <1>6 DEF Spares
  <1>8. \A p \in DOMAIN n.exec : n.exec[p] \in ToSet(exec)
    BY <1>3 DEF ToSet
  <1>9. ASSUME phase' = "run", ~stopped'
        PROVE  LoopsFit(cont', n.unit)
    <2>1. LoopsFit(t, Stacks.unit)
      BY <1>1, <1>9 DEF StepInv
    <2>2. LoopsFit(t, n.unit)
      BY <1>6, <2>1, LoopsKept DEF Keeps
    <2>3. c \notin Proxied
      BY <1>5 DEF Proxied
    <2> QED BY <1>4, <1>5, <2>2, <2>3, LoopsPush
  <1>10. Len(cont') >= Len(cont)
    <2>1. Len(cont') = Len(t) + 1
      BY <1>4, <1>5, AppendOK
    <2> QED BY <2>1
  <1> QED BY <1>4, <1>6, <1>7, <1>8, <1>9, <1>10, CalmStep DEF Keeps

LEMMA CallFunctionStep ==
  ASSUME IInv, StepInv, CallFunction
  PROVE  StepOK
  <1> DEFINE m == Evaluated
  <1>1. /\ CanEvaluate("fn") /\ Become(TmpCallable(m, "fn"))
        /\ cont' = Append(cont, Cont("args", Last(TmpCallable(m, "fn").tmp), 0))
        /\ UNCHANGED <<stopped, phase>>
    BY DEF CallFunction
  <1>2. /\ Keeps(Stacks, m) /\ Spares(Stacks, m, {}, {}) /\ m.exec = exec
        /\ cont \in Seq(ContRec)
    BY <1>1, EvaluatedSpares
  <1>3. Len(cont) + 1 >= Len(cont)
    BY <1>2, LenProperties
  <1> HIDE DEF m
  <1> QED BY <1>1, <1>2, <1>3, CopyStep DEF UnitKinds

\* The copy of a body waits for the iterable.
LEMMA ForEachStep ==
  ASSUME IInv, StepInv, ForEach
  PROVE  StepOK
  <1> DEFINE m == Evaluated
  <1>1. /\ CanEvaluate("foreach") /\ Become(TmpCallable(m, "body"))
        /\ cont' = Append(cont, Cont("iterable", Last(TmpCallable(m, "body").tmp), 0))
        /\ UNCHANGED <<stopped, phase>>
    BY DEF ForEach
  <1>2. /\ Keeps(Stacks, m) /\ Spares(Stacks, m, {}, {}) /\ m.exec = exec
        /\ cont \in Seq(ContRec)
    BY <1>1, EvaluatedSpares
  <1>3. Len(cont) + 1 >= Len(cont)
    BY <1>2, LenProperties
  <1> HIDE DEF m
  <1> QED BY <1>1, <1>2, <1>3, CopyStep DEF UnitKinds

LEMMA AccessStep ==
  ASSUME IInv, StepInv, Access
  PROVE  StepOK
  <1> DEFINE m == Evaluated
             x == Cont("args", Last(TmpCallable(m, "fn").tmp), 0)
             c == Cont("use", 0, 0)
             t == Append(cont, c)
  <1>1. /\ CanEvaluate("access") /\ Become(TmpCallable(m, "fn"))
        /\ cont' = cont \o <<c, x>>
        /\ UNCHANGED <<stopped, phase>>
    BY DEF Access
  <1>2. /\ Keeps(Stacks, m) /\ Spares(Stacks, m, {}, {}) /\ m.exec = exec
        /\ cont \in Seq(ContRec) /\ StacksOK(m)
    BY <1>1, EvaluatedSpares
  <1> HIDE DEF m
  <1>3. /\ t \in Seq(ContRec) /\ Len(t) = Len(cont) + 1 /\ Len(cont) \in Nat
        /\ LoopsFit(cont, unit) => LoopsFit(t, unit)
    BY <1>2, LoopsWait DEF ContKinds
  <1>4. cont' = Append(t, x)
    <2>1. Last(TmpCallable(m, "fn").tmp) \in Nat
      BY <1>2, CopyIsNew DEF UnitKinds
    <2>2. c \in ContRec /\ x \in ContRec
      BY <2>1, FramesAreRecords, KindsAreNamed
    <2> HIDE DEF c, x
    <2> QED BY <1>1, <1>2, <2>2, PushTwo
  <1> HIDE DEF t
  <1>5. Len(t) + 1 >= Len(cont)
    BY <1>3
  <1> QED BY <1>1, <1>2, <1>3, <1>4, <1>5, CopyStep DEF UnitKinds

\* Calls with a native frame that waits for them.
LEMMA WaitStep ==
  ASSUME IInv, StepInv, NEW m, Keeps(Stacks, m), Spares(Stacks, m, {}, {}), m.exec = exec,
         NEW kind \in UnitKinds, kind # "freed",
         Become(Invoke(m, kind)), NEW cs \in Seq(ContRec), Len(cs) + 1 >= Len(cont),
         LoopsFit(cont, unit) => LoopsFit(cs, unit),
         NEW k \in ContKinds \ {"iter", "loop", "init"}, NEW u \in Nat, NEW n \in Nat,
         cont' = cs \o <<Cont(k, u, n), Cont("exec", Last(Invoke(m, kind).tmp), 0)>>,
         UNCHANGED <<stopped, phase>>
  PROVE  StepOK
  <1> DEFINE c == Cont(k, u, n)
             v == Last(Invoke(m, kind).tmp)
             t == Append(cs, c)
  <1>1. /\ t \in Seq(ContRec) /\ Len(t) = Len(cs) + 1 /\ Len(cs) \in Nat
        /\ LoopsFit(cs, unit) => LoopsFit(t, unit)
    BY LoopsWait
  <1>2. v \in Nat
    BY InvokedExec DEF Keeps, KeepsBut
  <1> HIDE DEF v
  <1>3. Cont("exec", v, 0) \in ContRec /\ c \in ContRec
    BY <1>2, FramesAreRecords, KindsAreNamed
  <1> HIDE DEF c
  <1>4. cont' = Append(t, Cont("exec", v, 0))
    BY <1>3, PushTwo DEF c, v
  <1> HIDE DEF t
  <1>5. LoopsFit(cont, unit) => LoopsFit(t, unit)
    BY <1>1
  <1>6. Len(t) + 1 >= Len(cont)
    <2>1. Len(cont) \in Nat
      BY LenProperties DEF IInv, NativeOK
    <2> QED BY <1>1, <2>1
  <1> QED BY <1>1, <1>4, <1>5, <1>6, CalledStep DEF v

LEMMA TryCatchStep ==
  ASSUME IInv, StepInv, TryCatch
  PROVE  StepOK
  <1> DEFINE m == Evaluated
  <1>1. /\ CanEvaluate("try") /\ Become(Invoke(m, "try"))
        /\ cont' = cont \o <<Cont("try", 0, Len(exec)),
                             Cont("exec", Last(Invoke(m, "try").tmp), 0)>>
        /\ UNCHANGED <<stopped, phase>>
    BY DEF TryCatch
  <1>2. /\ Keeps(Stacks, m) /\ Spares(Stacks, m, {}, {}) /\ m.exec = exec
        /\ cont \in Seq(ContRec) /\ StacksOK(m)
    BY <1>1, EvaluatedSpares
  <1>3. Len(cont) + 1 >= Len(cont) /\ Len(exec) \in Nat
    BY <1>2, CurrentOK, LenProperties
  <1> HIDE DEF m
  <1> QED BY <1>1, <1>2, <1>3, WaitStep DEF UnitKinds, ContKinds

LEMMA PassNextStep ==
  ASSUME IInv, StepInv, PassNext
  PROVE  StepOK
  <1> DEFINE cs == Front(cont)
             u == TopCont.u
             n == TopCont.n + 1
  <1>1. /\ cont # <<>> /\ Become(Invoke(Stacks, "fn"))
        /\ cont' = cs \o <<Cont("pass", u, n), Cont("exec", Last(Invoke(Stacks, "fn").tmp), 0)>>
        /\ UNCHANGED <<stopped, phase>>
    BY DEF PassNext, In
  <1>2. /\ StacksOK(Stacks) /\ Stacks.exec = exec /\ cont \in Seq(ContRec)
    BY DEF IInv, NativeOK, Stacks
  <1>3. u \in Nat /\ n \in Nat
    BY <1>1, Busy DEF ContRec
  <1>4. /\ cs \in Seq(ContRec) /\ Len(cs) + 1 >= Len(cont)
        /\ LoopsFit(cont, unit) => LoopsFit(cs, unit)
    <2>1. cs \in Seq(ContRec) /\ Len(cs) = Len(cont) - 1 /\ Len(cont) \in Nat
      BY <1>1, <1>2, FrontLast, LenProperties
    <2>2. LoopsFit(cont, unit) => LoopsFit(cs, unit)
      BY <1>1, <1>2, LoopsFront
    <2> HIDE DEF cs
    <2> QED BY <2>1, <2>2
  <1> HIDE DEF Stacks, cs, u, n
  <1>5. Keeps(Stacks, Stacks) /\ Spares(Stacks, Stacks, {}, {})
    BY <1>2, KeepsSelf, SparesUnits
  <1> QED BY <1>1, <1>2, <1>3, <1>4, <1>5, WaitStep DEF UnitKinds, ContKinds

-----------------------------------------------------------------------------
(* Actions that enter a loop, or wait on the native stack.                 *)

LEMMA KindStays ==
  ASSUME NEW m, NEW n, Keeps(m, n), Spares(m, n, {}, {}),
         NEW u \in DOMAIN m.unit, m.unit[u].kind # "freed"
  PROVE  u \in DOMAIN n.unit /\ n.unit[u].kind = m.unit[u].kind
  <1>1. u \in DOMAIN n.unit /\ n.unit[u].kind \in {m.unit[u].kind, "freed"}
    BY DEF Keeps, KeepsBut
  <1>2. n.unit[u].kind = "freed" => m.unit[u].kind = "freed"
    BY <1>1 DEF Spares
  <1> QED BY <1>1, <1>2

\* A frame is pushed on the native stack; what it enters is new.
LEMMA PushStep ==
  ASSUME IInv, StepInv, NEW m, Become(m), NEW us, KeepsBut(Stacks, m, us),
         Spares(Stacks, m, {}, {}),
         \A p \in DOMAIN m.exec : \/ m.exec[p] \in ToSet(exec) \/ m.exec[p] \notin DOMAIN unit
                                 \/ unit[m.exec[p]].kind # "freed",
         NEW c \in ContRec, cont' = Append(cont, c),
         c.k = "iter" => cont # <<>> /\ TopCont.k = "loop" /\ TopCont.u = c.u,
         c.k = "loop" => c.u \in DOMAIN m.unit /\ m.unit[c.u].kind = "body",
         c \in Proxied => c.n \in DOMAIN m.unit /\ m.unit[c.n].kind = "proxy",
         c.k = "init" => c.u \in DOMAIN m.unit /\ m.unit[c.u].kind = "proxy",
         UNCHANGED phase, stopped \in BOOLEAN, stopped' \in {stopped, TRUE}
  PROVE  StepOK
  <1>1. Stacks.unit = unit /\ cont \in Seq(ContRec)
    BY DEF IInv, NativeOK, Stacks
  <1> HIDE DEF Stacks
  <1>2. Spares(Stacks, m, {}, {Last(exec)})
    BY DEF Spares
  <1>3. ASSUME phase' = "run", ~stopped'
        PROVE  LoopsFit(cont', m.unit)
    <2>1. LoopsFit(cont, Stacks.unit)
      BY <1>1, <1>3 DEF StepInv
    <2>2. LoopsFit(cont, m.unit)
      BY <2>1, LoopsKept
    <2> QED BY <1>1, <2>2, LoopsPush DEF TopCont
  <1>4. Len(cont') >= Len(cont)
    BY <1>1, AppendOK
  <1> QED BY <1>2, <1>3, <1>4, CalmStep

LEMMA NativeEachStep ==
  ASSUME IInv, StepInv, NativeEach
  PROVE  StepOK
  <1> DEFINE c == Cont("each", 0, 0)
  <1>1. /\ CanEvaluate("each") /\ Become(Evaluated) /\ cont' = Append(cont, c)
        /\ UNCHANGED <<stopped, phase>>
    BY DEF NativeEach
  <1>2. /\ Evaluated.exec = exec
        /\ Keeps(Stacks, Evaluated) /\ Spares(Stacks, Evaluated, {}, {})
    BY <1>1, EvaluatedSpares
  <1> HIDE DEF Evaluated, Stacks
  <1>3. c \in ContRec /\ c.k = "each"
    BY FramesAreRecords, KindsAreNamed
  <1> HIDE DEF c
  <1>4. c \notin Proxied
    BY <1>3 DEF Proxied
  <1>5. \A p \in DOMAIN exec : exec[p] \in ToSet(exec)
    BY DEF ToSet
  <1>6. stopped \in BOOLEAN
    BY DEF IInv, RestOK
  <1> QED BY <1>1, <1>2, <1>3, <1>4, <1>5, <1>6, PushStep DEF Keeps

LEMMA LoopIterateStep ==
  ASSUME IInv, StepInv, LoopIterate
  PROVE  StepOK
  <1> DEFINE u == TopCont.u
             c == Cont("iter", u, 0)
             m == Execute(Stacks, u, FALSE)
  <1>1. /\ cont # <<>> /\ TopCont.k = "loop" /\ Become(m) /\ cont' = Append(cont, c)
        /\ UNCHANGED <<stopped, phase>>
    BY DEF LoopIterate, In
  <1>2. /\ u \in DOMAIN Stacks.unit /\ StacksOK(Stacks) /\ u \in Nat
        /\ Stacks.exec = exec /\ Stacks.unit = unit /\ Stacks.handling = 0
    BY <1>1, Busy DEF FrameOK, Stacks, ContRec
  <1>3. c \in ContRec /\ c.k = "iter" /\ c.u = u
    BY <1>2, FramesAreRecords, KindsAreNamed
  <1> HIDE DEF Stacks, c
  <1>4. KeepsBut(Stacks, m, {u}) /\ Spares(Stacks, m, {}, {}) /\ m.exec = exec
    BY <1>2, ExecuteSpares, ExecuteOK, ExecKept
  <1>5. /\ cont # <<>> /\ TopCont.k = "loop" /\ TopCont.u = c.u
        /\ c \notin Proxied /\ c.k # "loop"
    BY <1>1, <1>3 DEF Proxied, u
  <1>6. \A p \in DOMAIN m.exec : m.exec[p] \in ToSet(exec) \/ m.exec[p] \notin DOMAIN unit
    BY <1>4 DEF ToSet
  <1>7. stopped \in BOOLEAN
    BY DEF IInv, RestOK
  <1> HIDE DEF m, u
  <1> QED BY <1>1, <1>3, <1>4, <1>5, <1>6, <1>7, PushStep

LEMMA ForLoopStep ==
  ASSUME IInv, StepInv, ForLoop
  PROVE  StepOK
  <1> DEFINE p == TmpCallable(Evaluated, "proxy")
             u == Last(p.tmp)
             b == TmpCallable(p, "body")
             v == Last(b.tmp)
             m == EnterScope(b, u)
             c == Cont("init", u, v)
  <1>1. /\ CanEvaluate("for") /\ Become(m) /\ cont' = Append(cont, c)
        /\ UNCHANGED <<stopped, phase>>
    BY DEF ForLoop
  <1>2. /\ StacksOK(Evaluated) /\ Evaluated.exec = exec
        /\ Keeps(Stacks, Evaluated) /\ Spares(Stacks, Evaluated, {}, {})
        /\ StacksOK(Stacks) /\ Stacks.exec = exec /\ Stacks.unit = unit
    BY <1>1, EvaluatedSpares
  <1> HIDE DEF Evaluated, Stacks
  <1>3. /\ u \in Nat /\ u # Main /\ u \notin DOMAIN Evaluated.unit
        /\ StacksOK(p) /\ p.exec = exec /\ u \in DOMAIN p.unit
        /\ Keeps(Evaluated, p) /\ Spares(Evaluated, p, {}, {}) /\ p.unit[u].kind = "proxy"
    <2>1. /\ u \in Nat /\ u # Main /\ u \notin DOMAIN Evaluated.unit
          /\ StacksOK(p) /\ p.exec = exec /\ u \in DOMAIN p.unit
      BY <1>2, CopyIsNew DEF UnitKinds
    <2>2. Keeps(Evaluated, p) /\ Spares(Evaluated, p, {}, {}) /\ p.unit[u].kind = "proxy"
      BY <1>2, TmpCallableOK, TmpCallableSpares DEF UnitKinds
    <2> QED BY <2>1, <2>2
  <1> HIDE DEF p, u
  <1>4. /\ v \in Nat /\ v # Main /\ v \notin DOMAIN p.unit
        /\ StacksOK(b) /\ b.exec = exec /\ v \in DOMAIN b.unit
        /\ Keeps(p, b) /\ Spares(p, b, {}, {}) /\ b.unit[v].kind = "body"
    <2>1. /\ v \in Nat /\ v # Main /\ v \notin DOMAIN p.unit
          /\ StacksOK(b) /\ b.exec = p.exec /\ v \in DOMAIN b.unit
      BY <1>3, CopyIsNew DEF UnitKinds
    <2>2. Keeps(p, b) /\ Spares(p, b, {}, {}) /\ b.unit[v].kind = "body"
      BY <1>3, TmpCallableOK, TmpCallableSpares DEF UnitKinds
    <2> QED BY <1>3, <2>1, <2>2
  <1>5. u \in DOMAIN b.unit /\ b.unit[u].kind = "proxy"
    BY <1>3, <1>4, KindStays
  <1>6. c \in ContRec /\ c.k = "init" /\ c.u = u
    BY <1>3, <1>4, FramesAreRecords, KindsAreNamed
  <1> HIDE DEF b, v, c
  <1>7. Keeps(b, m) /\ Spares(b, m, {}, {}) /\ m.exec = Append(exec, u)
    <2>1. Keeps(b, m)
      BY <1>4, <1>5, EnterScopeOK
    <2>2. Spares(b, m, {}, {}) /\ m.exec = Append(exec, u)
      BY <1>3, <1>4, <1>5, EnterScopeSpares, ExecEntered
    <2> QED BY <2>1, <2>2
  <1>8. u \in DOMAIN m.unit /\ m.unit[u].kind = "proxy"
    BY <1>5, <1>7, KindStays
  <1> HIDE DEF m
  <1>9. Keeps(Stacks, p) /\ Spares(Stacks, p, {}, {})
    BY <1>2, <1>3, KeepsTransitive, SparesAll DEF Keeps
  <1>10. Keeps(Stacks, b) /\ Spares(Stacks, b, {}, {})
    BY <1>2, <1>4, <1>9, KeepsTransitive, SparesAll DEF Keeps
  <1>11. Keeps(Stacks, m) /\ Spares(Stacks, m, {}, {})
    BY <1>2, <1>7, <1>10, KeepsTransitive, SparesAll DEF Keeps
  <1>12. u \notin DOMAIN unit
    BY <1>2, <1>3 DEF Keeps, KeepsBut
  <1>13. \A i \in DOMAIN m.exec : m.exec[i] \in ToSet(exec) \/ m.exec[i] \notin DOMAIN unit
    <2>1. exec \in Seq(Nat)
      BY <1>2, ExecKept
    <2> QED BY <1>3, <1>7, <1>12, <2>1, AppendNat DEF ToSet
  <1>14. c \notin Proxied
    BY <1>6 DEF Proxied
  <1>15. stopped \in BOOLEAN
    BY DEF IInv, RestOK
  <1> QED BY <1>1, <1>6, <1>8, <1>11, <1>13, <1>14, <1>15, PushStep DEF Keeps

\* A copy that waited is entered: it has not been freed meanwhile.
LEMMA EntryStep ==
  ASSUME IInv, StepInv, WaitInv, cont # <<>>, Waits(TopCont),
         NEW m, Become(m), NEW us, KeepsBut(Stacks, m, us), Spares(Stacks, m, {}, {}),
         m.exec = Append(exec, Subject(TopCont)),
         NEW c \in ContRec, cont' = Append(Front(cont), c), c.k \in {"exec", "loop"},
         phase = "run" /\ ~stopped =>
           /\ c.k = "loop" => c.u \in DOMAIN m.unit /\ m.unit[c.u].kind = "body"
           /\ c \in Proxied => c.n \in DOMAIN m.unit /\ m.unit[c.n].kind = "proxy",
         UNCHANGED <<stopped, phase>>
  PROVE  StepOK
  <1> DEFINE v == Subject(TopCont)
             s == Front(cont)
  <1>1. /\ StacksOK(Stacks) /\ Stacks.unit = unit /\ Stacks.exec = exec
        /\ cont \in Seq(ContRec)
    BY DEF IInv, NativeOK, Stacks
  <1>2. v \in DOMAIN unit /\ unit[v] = Copy(TopCont)
    BY TopWaits DEF Runs
  <1>3. unit[v].kind # "freed" /\ TopCont.k \notin {"exec", "iter", "loop"}
    BY <1>2 DEF Copy, NewUnit, Waits
  <1> HIDE DEF Stacks, s
  <1>4. /\ s \in Seq(ContRec) /\ Len(s) = Len(cont) - 1 /\ Len(cont) \in Nat
        /\ LoopsFit(cont, unit) => LoopsFit(s, unit)
    BY <1>1, LoopsFront, FrontLast, LenProperties DEF s
  <1>5. ASSUME phase' = "run", ~stopped'
        PROVE  LoopsFit(cont', m.unit)
    <2>1. LoopsFit(s, Stacks.unit)
      BY <1>1, <1>4, <1>5 DEF StepInv
    <2>2. LoopsFit(s, m.unit)
      <3>1. \A i \in DOMAIN s : s[i].u \notin {} /\ s[i].n \notin {}
        OBVIOUS
      <3> QED BY ONLY <2>1, <3>1, LoopsKept, KeepsBut(Stacks, m, us), Spares(Stacks, m, {}, {})
    <2>3. cont' = Append(s, c)
      BY DEF s
    <2> QED BY <1>4, <1>5, <2>2, <2>3, LoopsPush
  <1>6. \A p \in DOMAIN m.exec : m.exec[p] \in ToSet(exec) \/ unit[m.exec[p]].kind # "freed"
    <2>1. exec \in Seq(Nat) /\ v \in Nat /\ m.exec = Append(exec, v)
      <3>1. \A x \in DOMAIN unit : x \in Nat
        BY <1>1, UnitOK, LenProperties
      <3> QED BY <1>1, <1>2, <3>1, ExecKept
    <2> HIDE DEF v
    <2>2. /\ DOMAIN m.exec = 1..(Len(exec) + 1) /\ DOMAIN exec = 1..Len(exec)
          /\ \A p \in 1..Len(exec) : m.exec[p] = exec[p]
          /\ m.exec[Len(exec) + 1] = v /\ Len(exec) \in Nat
      BY <2>1, AppendNat
    <2> QED BY <1>3, <2>2 DEF ToSet
  <1>7. Spares(Stacks, m, {}, {Last(exec)})
    BY DEF Spares
  <1> QED BY <1>3, <1>5, <1>6, <1>7, CalmStep

LEMMA EnterCalleeStep ==
  ASSUME IInv, StepInv, WaitInv, EnterCallee
  PROVE  StepOK
  <1> DEFINE u == TopCont.u
             m == Execute(Stacks, u, TRUE)
             c == Cont("exec", u, 0)
  <1>1. /\ cont # <<>> /\ TopCont.k = "args" /\ Waits(TopCont) /\ Become(m)
        /\ cont' = Append(Front(cont), c) /\ UNCHANGED <<stopped, phase>>
    BY DEF EnterCallee, In, Waits
  <1>2. /\ u \in DOMAIN unit /\ u \in Nat /\ Subject(TopCont) = u
        /\ StacksOK(Stacks) /\ Stacks.unit = unit /\ Stacks.exec = exec
    BY <1>1, Busy DEF FrameOK, Stacks, ContRec, Subject
  <1>3. u # Main
    <2>1. unit[u] = Copy(TopCont)
      BY <1>1, <1>2, TopWaits
    <2>2. unit[u].kind # "main"
      BY <2>1 DEF Copy, NewUnit
    <2> QED BY <1>2, <2>2 DEF StacksOK
  <1> HIDE DEF Stacks
  <1>4. KeepsBut(Stacks, m, {u}) /\ Spares(Stacks, m, {}, {}) /\ m.exec = Append(exec, u)
    BY <1>2, <1>3, ExecuteOK, ExecuteSpares, ExecEntered
  <1>5. c \in ContRec /\ c.k = "exec" /\ c \notin Proxied
    <2>1. c \in ContRec /\ c.k = "exec"
      BY <1>2, FramesAreRecords, KindsAreNamed
    <2> QED BY <2>1 DEF Proxied
  <1> HIDE DEF m, c, u
  <1> QED BY <1>1, <1>2, <1>4, <1>5, EntryStep

LEMMA EnterLoopStep ==
  ASSUME IInv, StepInv, WaitInv, EnterLoop
  PROVE  StepOK
  <1> DEFINE v == Subject(TopCont)
             p == IF TopCont.k = "init" THEN TopCont.u ELSE 0
             m == EnterScope(Stacks, v)
             c == Cont("loop", v, p)
  <1>1. /\ cont # <<>> /\ TopCont.k \in {"init", "iterable"} /\ Waits(TopCont)
        /\ UNCHANGED <<stopped, phase>>
    BY DEF EnterLoop, In, Waits
  <1>2. Become(m) /\ cont' = Append(Front(cont), c)
    BY <1>1 DEF EnterLoop, In, Subject
  <1>3. /\ v \in DOMAIN unit /\ unit[v] = Copy(TopCont) /\ TopCont \in ContRec
        /\ cont \in Seq(ContRec)
        /\ StacksOK(Stacks) /\ Stacks.unit = unit /\ Stacks.exec = exec
    BY <1>1, TopWaits, Busy DEF Stacks, Runs
  <1>4. unit[v].kind = "body" /\ v # Main /\ v \in Nat /\ p \in Nat
    <2>1. unit[v].kind = "body"
      BY <1>1, <1>3 DEF Copy, NewUnit
    <2>2. v \in Nat /\ p \in Nat
      BY <1>1, <1>3 DEF ContRec, Subject
    <2> HIDE DEF v, p
    <2> QED BY <1>3, <2>1, <2>2 DEF StacksOK
  <1>5. phase = "run" /\ ~stopped /\ p # 0 => p \in DOMAIN unit /\ unit[p].kind = "proxy"
    <2> SUFFICES ASSUME phase = "run", ~stopped, TopCont.k = "init"
                 PROVE  TopCont.u \in DOMAIN unit /\ unit[TopCont.u].kind = "proxy"
      OBVIOUS
    <2>1. TopCont = cont[Len(cont)] /\ Len(cont) \in DOMAIN cont
      BY <1>1, <1>3, ContFront DEF TopCont
    <2> QED BY <2>1 DEF StepInv, LoopsFit
  <1> HIDE DEF Stacks, p
  <1>6. Keeps(Stacks, m) /\ Spares(Stacks, m, {}, {}) /\ m.exec = Append(exec, v)
    BY <1>3, <1>4, EnterScopeOK, EnterScopeSpares, ExecEntered
  <1>7. c \in ContRec /\ c.k = "loop" /\ c.u = v /\ c.n = p
    BY <1>4, FramesAreRecords, KindsAreNamed
  <1>v. v = Subject(TopCont)
    OBVIOUS
  <1> HIDE DEF m, c, v
  <1>8. /\ v \in DOMAIN m.unit /\ m.unit[v].kind = "body"
        /\ phase = "run" /\ ~stopped /\ p # 0 => p \in DOMAIN m.unit /\ m.unit[p].kind = "proxy"
    BY <1>3, <1>4, <1>5, <1>6, KindStays
  <1>9. c \in Proxied => p # 0
    BY <1>7 DEF Proxied
  <1> QED BY <1>1, <1>2, <1>v, <1>6, <1>7, <1>8, <1>9, EntryStep DEF Keeps

-----------------------------------------------------------------------------
(* Actions that leave the native stack as it is, and the end of a program. *)

\* Nothing is said of a step that is not between two states of run().
LEMMA OverStep ==
  ASSUME phase # "run" \/ phase' # "run", StepInv'
  PROVE  StepOK
  BY DEF StepOK, SparesFrames, ReturnsInside, StopsParent

LEMMA UndefinedStep ==
  ASSUME StepInv, Undefined
  PROVE  StepOK
  BY OverStep DEF Undefined, StepInv, stacks

\* At most the current unit gets a return value.
LEMMA SameStep ==
  ASSUME IInv, StepInv, NEW m, Become(m), Keeps(Stacks, m),
         Spares(Stacks, m, {}, {Last(exec)}), m.exec = exec,
         UNCHANGED <<cont, phase, stopped>>
  PROVE  StepOK
  <1>1. Stacks.unit = unit
    BY DEF Stacks
  <1> HIDE DEF Stacks
  <1>2. \A p \in DOMAIN m.exec : m.exec[p] \in ToSet(exec) \/ m.exec[p] \notin DOMAIN unit
    BY DEF ToSet
  <1>3. ASSUME phase' = "run", ~stopped'
        PROVE  LoopsFit(cont', m.unit)
    <2>1. LoopsFit(cont, Stacks.unit)
      BY <1>1, <1>3 DEF StepInv
    <2>2. LoopsFit(cont, m.unit)
      BY <2>1, LoopsKept DEF Keeps
    <2> QED BY <2>2
  <1>4. Len(cont') >= Len(cont)
    BY LenProperties DEF IInv, NativeOK
  <1> QED BY <1>2, <1>3, <1>4, CalmStep DEF Keeps

LEMMA ReturnStep ==
  ASSUME IInv, StepInv, Return
  PROVE  StepOK
  <1> DEFINE u == Last(exec)
             m == SaveReturn(Evaluated, u)
  <1>1. Current(Stacks) = u
    BY DEF Current, Stacks
  <1>2. CanEvaluate("return") /\ Become(m) /\ UNCHANGED <<cont, phase, stopped>>
    BY <1>1 DEF Return
  <1>3. /\ Keeps(Stacks, Evaluated) /\ Spares(Stacks, Evaluated, {}, {})
        /\ StacksOK(Evaluated) /\ Evaluated.exec = exec
    BY <1>2, EvaluatedSpares
  <1>4. u \in DOMAIN Evaluated.unit
    <2>1. Current(Evaluated) = u
      BY <1>3 DEF Current
    <2> QED BY <1>3, <2>1, CurrentOK
  <1> HIDE DEF Evaluated, Stacks, u
  <1>5. Keeps(Evaluated, m) /\ Spares(Evaluated, m, {}, {u}) /\ m.exec = exec
    BY <1>3, <1>4, SaveReturnOK, SaveReturnSpares, ExecReturned
  <1> HIDE DEF m
  <1>6. Spares(Stacks, m, {}, {u})
    BY <1>3, <1>5, SparesAll
  <1>7. Keeps(Stacks, m)
    BY <1>3, <1>5, KeepsTransitive DEF Keeps, IInv
  <1> QED BY <1>2, <1>5, <1>6, <1>7, SameStep DEF u

LEMMA BreakStep ==
  ASSUME IInv, StepInv, Break
  PROVE  StepOK
  <1> DEFINE us == {Current(Stacks)}
             m == StopUnits(Evaluated, us, TRUE)
  <1>1. CanEvaluate("break") /\ Become(m) /\ UNCHANGED <<cont, phase, stopped>>
    BY DEF Break
  <1>2. /\ Keeps(Stacks, Evaluated) /\ Spares(Stacks, Evaluated, {}, {})
        /\ StacksOK(Evaluated) /\ Evaluated.exec = exec
    BY <1>1, EvaluatedSpares
  <1> HIDE DEF Evaluated, Stacks, us
  <1>3. Keeps(Evaluated, m) /\ Spares(Evaluated, m, {}, {}) /\ m.exec = exec
    BY <1>2, StopUnitsOK, StopUnitsSpares
  <1> HIDE DEF m
  <1>4. Spares(Stacks, m, {}, {})
    BY <1>2, <1>3, SparesAll
  <1>5. Spares(Stacks, m, {}, {Last(exec)})
    BY <1>4 DEF Spares
  <1>6. Keeps(Stacks, m)
    BY <1>2, <1>3, KeepsTransitive DEF Keeps, IInv
  <1> QED BY <1>1, <1>3, <1>5, <1>6, SameStep

LEMMA OnExitStep ==
  ASSUME IInv, StepInv, OnExit
  PROVE  StepOK
  <1>1. CASE Undefined
    BY <1>1, UndefinedStep
  <1>2. CASE ~Undefined
    <2>1. CanEvaluate("on_exit") /\ Become(Evaluated) /\ UNCHANGED <<cont, phase, stopped>>
      BY <1>2 DEF OnExit
    <2>2. /\ Keeps(Stacks, Evaluated) /\ Spares(Stacks, Evaluated, {}, {})
          /\ Evaluated.exec = exec
      BY <2>1, EvaluatedSpares
    <2> HIDE DEF Evaluated, Stacks
    <2>3. Spares(Stacks, Evaluated, {}, {Last(exec)})
      BY <2>2 DEF Spares
    <2> QED BY <2>1, <2>2, <2>3, SameStep
  <1> QED BY <1>1, <1>2

LEMMA ExitStep ==
  ASSUME IInv, StepInv, Exit
  PROVE  StepOK
  <1>1. CASE Undefined
    BY <1>1, UndefinedStep
  <1>2. CASE ~Undefined
    <2> DEFINE c == Cont("pass", Len(tasks), 0)
               m == StopAll(Evaluated)
    <2>1. /\ CanEvaluate("exit") /\ Become(m) /\ cont' = Append(cont, c)
          /\ stopped' = TRUE /\ UNCHANGED phase
      BY <1>2 DEF Exit
    <2>2. /\ Keeps(Stacks, Evaluated) /\ Spares(Stacks, Evaluated, {}, {})
          /\ StacksOK(Evaluated) /\ Evaluated.exec = exec /\ cont # <<>>
      BY <2>1, EvaluatedSpares
    <2>3. c \in ContRec /\ c.k = "pass"
      <3>1. Len(tasks) \in Nat
        BY <2>2, Busy
      <3> QED BY <3>1, FramesAreRecords, KindsAreNamed
    <2> HIDE DEF Evaluated, Stacks, c
    <2>4. Keeps(Evaluated, m) /\ Spares(Evaluated, m, {}, {}) /\ m.exec = exec
      BY <2>2, StopUnitsOK, StopUnitsSpares DEF StopAll
    <2> HIDE DEF m
    <2>5. Spares(Stacks, m, {}, {})
      BY <2>2, <2>4, SparesAll
    <2>6. Keeps(Stacks, m)
      BY <2>2, <2>4, KeepsTransitive DEF Keeps, IInv
    <2>7. c \notin Proxied
      BY <2>3 DEF Proxied
    <2>8. \A p \in DOMAIN m.exec : m.exec[p] \in ToSet(exec) \/ m.exec[p] \notin DOMAIN unit
      BY <2>4 DEF ToSet
    <2>9. stopped \in BOOLEAN
      BY DEF IInv, RestOK
    <2> QED BY <2>1, <2>3, <2>5, <2>6, <2>7, <2>8, <2>9, PushStep DEF Keeps
  <1> QED BY <1>1, <1>2

-----------------------------------------------------------------------------
(* Native functions that return, and run() and the host program.           *)

LEMMA QuietStep ==
  ASSUME IInv, StepInv, UNCHANGED <<exec, unit, phase, stopped>>, cont # <<>>,
         cont' = Front(cont), stopped \/ TopCont.k \notin {"exec", "iter", "loop"}
  PROVE  StepOK
  <1>1. StepInv'
    <2>1. LoopsFit(cont, unit) => LoopsFit(Front(cont), unit)
      BY LoopsFront DEF IInv, NativeOK
    <2> QED BY <2>1 DEF StepInv
  <1>2. ~FrameFreed
    BY DEF FrameFreed, Dangling
  <1> QED BY <1>1, <1>2 DEF StepOK, SparesFrames, ReturnsInside, StopsParent

LEMMA SimpleDoneStep ==
  ASSUME IInv, StepInv, TryDone \/ EachDone \/ UseDone \/ CatchDone
  PROVE  StepOK
  <1>1. /\ UNCHANGED <<exec, unit, phase, stopped>> /\ cont # <<>>
        /\ cont' = Front(cont) /\ TopCont.k \in {"try", "each", "use", "catch"}
    BY DEF TryDone, EachDone, UseDone, CatchDone, In, stacks
  <1> QED BY <1>1, QuietStep

LEMMA PassDoneStep ==
  ASSUME IInv, StepInv, PassDone
  PROVE  StepOK
  <1>1. CASE Undefined
    BY <1>1, UndefinedStep
  <1>2. CASE ~Undefined
    <2>1. /\ UNCHANGED <<exec, unit, stopped>> /\ cont # <<>>
          /\ cont' = Front(cont) /\ TopCont.k = "pass"
          /\ phase' = IF phase = "destroy" THEN "gone" ELSE phase
      BY <1>2 DEF PassDone, In, stacks
    <2>2. CASE phase = "destroy"
      <3>1. StepInv'
        BY <2>1, <2>2 DEF StepInv
      <3> QED BY <2>2, <3>1, OverStep
    <2>3. CASE phase # "destroy"
      BY <2>1, <2>3, QuietStep
    <2> QED BY <2>2, <2>3
  <1> QED BY <1>1, <1>2

\* run() executes the current unit, nothing native being left.
LEMMA RunStep ==
  ASSUME IInv, StepInv, phase = "ready" \/ (phase = "run" /\ cont = <<>>),
         Become(Execute(Stacks, Current(Stacks), TRUE)),
         cont' = <<Cont("exec", Current(Stacks), 0)>>, phase' = "run", UNCHANGED stopped
  PROVE  StepOK
  <1> DEFINE u == Current(Stacks)
             m == Execute(Stacks, u, TRUE)
             c == Cont("exec", u, 0)
  <1>1. /\ StacksOK(Stacks) /\ Stacks.exec = exec /\ Stacks.unit = unit /\ u = Last(exec)
        /\ Become(m) /\ cont' = <<c>>
    BY DEF IInv, Stacks, Current
  <1> HIDE DEF Stacks, u
  <1>2. u \in DOMAIN Stacks.unit /\ u \in Nat
    BY <1>1, CurrentOK DEF u
  <1>3. c \in ContRec /\ c.k = "exec" /\ c \notin Proxied
    <2>1. c \in ContRec /\ c.k = "exec"
      BY <1>2, FramesAreRecords, KindsAreNamed
    <2> QED BY <2>1 DEF Proxied
  <1> HIDE DEF c
  <1>4. KeepsBut(Stacks, m, {u}) /\ Spares(Stacks, m, {}, {})
    BY <1>1, <1>2, ExecuteOK, ExecuteSpares
  <1>5. m.exec = IF u = Main THEN exec ELSE Append(exec, u)
    BY <1>1, ExecEntered
  <1>6. \A p \in DOMAIN m.exec : m.exec[p] \in ToSet(exec) \/ m.exec[p] \notin DOMAIN unit
    <2>1. /\ exec \in Seq(Nat) /\ Len(exec) \in DOMAIN exec /\ u = exec[Len(exec)]
      <3>1. exec \in Seq(Nat) /\ exec # <<>>
        BY <1>1, ExecKept
      <3> QED BY <1>1, <3>1, FrontLast
    <2>2. u \in ToSet(exec)
      BY <2>1 DEF ToSet
    <2>3. \A p \in DOMAIN exec : exec[p] \in ToSet(exec)
      BY DEF ToSet
    <2>4. /\ DOMAIN Append(exec, u) = 1..(Len(exec) + 1) /\ DOMAIN exec = 1..Len(exec)
          /\ \A p \in 1..Len(exec) : Append(exec, u)[p] = exec[p]
          /\ Append(exec, u)[Len(exec) + 1] = u /\ Len(exec) \in Nat
      BY <1>2, <2>1, AppendNat
    <2>5. \A p \in DOMAIN Append(exec, u) : Append(exec, u)[p] \in ToSet(exec)
      BY <2>2, <2>3, <2>4
    <2> QED BY <1>5, <2>3, <2>5
  <1> HIDE DEF m
  <1>7. Spares(Stacks, m, {}, {Last(exec)})
    BY <1>4 DEF Spares
  <1>8. LoopsFit(cont', m.unit)
    <2> DEFINE s == <<>>
    <2>1. s \in Seq(ContRec) /\ LoopsFit(s, m.unit) /\ cont' = Append(s, c)
      BY <1>1, LoopsNone, EmptySeq
    <2> HIDE DEF s
    <2> QED BY <1>3, <2>1, LoopsPush
  <1> QED BY <1>1, <1>4, <1>6, <1>7, <1>8, CalmStep

LEMMA RunEndStep ==
  ASSUME StepInv, RunEmpty \/ RunReturn
  PROVE  StepOK
  <1>1. phase' = "done" /\ UNCHANGED unit
    BY DEF RunEmpty, RunReturn, stacks
  <1> QED BY <1>1, OverStep DEF StepInv

LEMMA NextLineStep ==
  ASSUME IInv, StepInv, NextLine
  PROVE  StepOK
  <1>1. PICK brk \in {FALSE, unit[Main].brk} :
          unit' = [unit EXCEPT ![Main].fin = FALSE, ![Main].ret = FALSE, ![Main].brk = brk]
    BY DEF NextLine
  <1>2. phase' = "ready"
    BY DEF NextLine
  <1>3. Main \in DOMAIN unit /\ unit[Main] \in UnitRec
    <2>1. StacksOK(Stacks) /\ Stacks.unit = unit
      BY DEF IInv, Stacks
    <2> QED BY <2>1, CurrentOK, UnitOK
  <1>4. /\ DOMAIN unit' = DOMAIN unit /\ ~unit'[Main].ret
        /\ \A u \in DOMAIN unit : u # Main => unit'[u] = unit[u]
    BY <1>1, <1>3 DEF UnitRec
  <1>5. StepInv'
    BY <1>2, <1>4 DEF StepInv, RetFin
  <1> QED BY <1>2, <1>5, OverStep

LEMMA DestroyStep ==
  ASSUME StepInv, Destroy
  PROVE  StepOK
  <1>1. phase' = "destroy" /\ UNCHANGED unit
    BY DEF Destroy, stacks
  <1> QED BY <1>1, OverStep DEF StepInv

LEMMA UnchangedStep ==
  ASSUME IInv, StepInv, UNCHANGED vars
  PROVE  StepOK
  <1>1. UNCHANGED <<exec, unit, phase, stopped, cont>>
    BY DEF vars, stacks
  <1>2. ~FrameFreed /\ StepInv'
    BY <1>1 DEF FrameFreed, Dangling, StepInv
  <1>3. cont # <<>> => cont # Front(cont)
    <2>1. cont # <<>> => Len(Front(cont)) = Len(cont) - 1 /\ Len(cont) \in Nat
      BY FrontLast, LenProperties DEF IInv, NativeOK
    <2> QED BY <2>1
  <1> QED BY <1>1, <1>2, <1>3 DEF StepOK, SparesFrames, ReturnsInside, StopsParent

LEMMA RunsStep ==
  ASSUME IInv, StepInv, RunStart \/ RunResume
  PROVE  StepOK
  <1>1. CASE Undefined
    BY <1>1, UndefinedStep
  <1>2. CASE ~Undefined
    <2>1. /\ phase = "ready" \/ (phase = "run" /\ cont = <<>>)
          /\ phase' = "run" /\ UNCHANGED stopped
          /\ Become(Execute(Stacks, Current(Stacks), TRUE))
          /\ cont' = <<Cont("exec", Current(Stacks), 0)>>
      BY <1>2 DEF RunStart, RunResume
    <2> QED BY <2>1, RunStep
  <1> QED BY <1>1, <1>2

-----------------------------------------------------------------------------
(* Exceptions.                                                             *)

\* What is left of exec_stack lies under the depth of the handler, the unit
\* that threw above it.
LEMMA Survivors ==
  ASSUME IInv, FitInv, phase = "run", cont # <<>>, TopCont.k # "try",
         handlers # <<>>, Last(handlers).line = line
  PROVE  /\ Last(handlers).depth \in 1..(Len(exec) - 1) /\ Len(exec) \in Nat
         /\ \A q \in 1..Last(handlers).depth : exec[q] # Last(exec)
  <1> DEFINE d == Last(handlers).depth
             j == Len(handlers)
  <1>1. /\ DepthsFit(handlers, exec, cont, line) /\ TriesFit(handlers, cont)
        /\ handlers \in Seq(HandlerRec) /\ exec \in Seq(Nat) /\ cont \in Seq(ContRec)
        /\ ScopesFit(exec, cont, stopped)
    BY FitNow DEF Running, Fit
  <1>2. j \in DOMAIN handlers /\ handlers[j] = Last(handlers) /\ Last(handlers) \in HandlerRec
    BY <1>1, FrontLast
  <1>3. Older(handlers, cont, Len(cont) + 1) = j /\ Len(cont) \in Nat /\ j \in Nat
    BY <1>1, OlderRange, LenProperties
  <1>4. Under(exec, cont, Len(cont) + 1) = Len(exec) /\ Len(exec) \in Nat \ {0}
    BY <1>1, UnderRange
  <1>5. TopCont = cont[Len(cont)]
    BY <1>1, ContFront DEF TopCont
  <1>6. Room(exec, cont, Len(cont) + 1) = Len(exec)
    <2>1. (Len(cont) + 1) - 1 = Len(cont)
      BY <1>3
    <2>2. ~(cont[(Len(cont) + 1) - 1].k = "try")
      BY <1>5, <2>1
    <2> QED BY <1>4, <2>2 DEF Room
  <1>7. handlers[j].depth = d /\ handlers[j].line = line /\ d \in Nat \ {0}
    BY <1>2 DEF HandlerRec
  <1> HIDE DEF d, j
  <1>8. d < Len(exec) /\ \A q \in 1..d, p \in (d + 1)..Len(exec) : exec[q] # exec[p]
    <2>1. Len(cont) + 1 \in 1..(Len(cont) + 1)
      BY <1>3
    <2>2. handlers[j].depth < Room(exec, cont, Len(cont) + 1)
      <3>1. \A i \in 1..(Len(cont) + 1) : j <= Older(handlers, cont, i)
              => handlers[j].depth < Room(exec, cont, i)
        BY <1>1, <1>2, <1>7 DEF DepthsFit
      <3>2. j <= Older(handlers, cont, Len(cont) + 1)
        BY <1>3
      <3> QED BY <2>1, <3>1, <3>2
    <2>3. \A q \in 1..d, p \in (d + 1)..Len(exec) : exec[q] # exec[p]
      BY <1>1, <1>2, <1>7 DEF DepthsFit, d
    <2> QED BY <1>6, <1>7, <2>2, <2>3
  <1>9. Last(exec) = exec[Len(exec)]
    BY DEF Last
  <1>10. Len(exec) \in (d + 1)..Len(exec) /\ d \in 1..(Len(exec) - 1)
    BY <1>4, <1>7, <1>8
  <1>11. \A q \in 1..d : exec[q] # Last(exec)
    BY <1>8, <1>9, <1>10
  <1> QED BY <1>4, <1>10, <1>11 DEF d

LEMMA HandleStep ==
  ASSUME IInv, FitInv, StepInv, phase = "run", NEW kind, CanEvaluate(kind),
         NEW m, Keeps(Stacks, m), Spares(Stacks, m, {}, {}), m.exec = exec,
         handlers # <<>>, HandleException(m), UNCHANGED stopped
  PROVE  StepOK
  <1> DEFINE d == Last(handlers).depth
             v == Last(exec)
             p == PopTmpCallable(m)
             r == Restore(p, d)
             n == Invoke(r, "catch")
             x == Cont("exec", Last(n.tmp), 0)
             k == Cont("catch", 0, 0)
             s == <<>>
  <1>1. Become(n) /\ handlers' = Front(handlers) /\ phase' = phase /\ cont' = <<k, x>>
    BY DEF HandleException
  <1>2. /\ handlers \in Seq(HandlerRec) /\ exec \in Seq(Nat)
        /\ StacksOK(Stacks) /\ Stacks.exec = exec /\ Stacks.unit = unit
    BY FitNow DEF Running
  <1>3. d \in Nat \ {0} /\ d = Last(handlers).depth
    BY <1>2, HandlersFront DEF HandlerRec
  <1>4. StacksOK(m) /\ Current(m) = v
    BY DEF Keeps, KeepsBut, Current
  <1> HIDE DEF Stacks, d, v
  <1>5. Keeps(m, p) /\ Spares(m, p, {v}, {}) /\ p.exec = exec /\ StacksOK(p)
    BY <1>4, PopTmpCallableOK, PopTmpCallableSpares DEF Keeps, KeepsBut
  <1> HIDE DEF p
  <1>6. /\ Keeps(p, r) /\ Spares(p, r, {}, {}) /\ StacksOK(r)
        /\ r.exec = IF Len(exec) <= d THEN exec ELSE SubSeq(exec, 1, d)
    <2>1. r.unit = p.unit
      BY <1>5 DEF Restore, StacksOK
    <2>2. Keeps(p, r)
      BY <1>3, <1>5, RestoreOK
    <2>3. r.exec = IF Len(exec) <= d THEN exec ELSE SubSeq(exec, 1, d)
      BY <1>5, ExecRestored
    <2> HIDE DEF r
    <2> QED BY <2>1, <2>2, <2>3, SparesUnits DEF Keeps, KeepsBut
  <1> HIDE DEF r
  <1>7. Keeps(r, n) /\ Spares(r, n, {}, {})
    BY <1>6, InvokeOK, InvokeSpares DEF UnitKinds
  <1>8. /\ n.exec = Append(r.exec, Last(n.tmp)) /\ Last(n.tmp) \notin DOMAIN r.unit
        /\ Last(n.tmp) \in Nat
    BY <1>6, InvokedExec DEF UnitKinds
  <1>9. x \in ContRec /\ x.k = "exec" /\ x.u = Last(n.tmp) /\ k \in ContRec /\ k.k = "catch"
    BY <1>8, FramesAreRecords, KindsAreNamed
  <1> HIDE DEF n, x, k
  <1>10. Keeps(Stacks, n) /\ Spares(Stacks, n, {v}, {})
    <2>1. Keeps(Stacks, p) /\ Spares(Stacks, p, {v}, {})
      BY <1>2, <1>5, KeepsTransitive, SparesAll DEF Keeps
    <2>2. Keeps(Stacks, r) /\ Spares(Stacks, r, {v}, {})
      BY <1>2, <1>6, <2>1, KeepsTransitive, SparesAll DEF Keeps
    <2> QED BY <1>2, <1>7, <2>2, KeepsTransitive, SparesAll DEF Keeps
  <1>11. unit' = n.unit /\ exec' = n.exec
    BY <1>1, BecomesUnit
  <1>12. StepInv'
    <2>1. RetFin(unit')
      BY <1>2, <1>10, <1>11 DEF StepInv, Spares
    <2>2. LoopsFit(cont', unit')
      <3>1. s = <<>> /\ s \in Seq(ContRec) /\ LoopsFit(s, unit') /\ s \o <<k, x>> = <<k, x>>
        BY EmptySeq, LoopsNone
      <3>2. k \notin Proxied /\ x \notin Proxied
        BY <1>9 DEF Proxied
      <3> HIDE DEF s
      <3>3. LoopsFit(Append(s, k), unit') /\ Append(s, k) \in Seq(ContRec)
        BY <1>9, <3>1, <3>2, LoopsPush, AppendOK
      <3>4. LoopsFit(Append(Append(s, k), x), unit')
        BY <1>9, <3>2, <3>3, LoopsPush
      <3>5. cont' = Append(Append(s, k), x)
        BY <1>1, <1>9, <3>1, PushTwo
      <3> QED BY <3>4, <3>5
    <2> QED BY <2>1, <2>2 DEF StepInv
  <1>13. SparesFrames
    <2> SUFFICES ASSUME ~UsesStaleHandler, Dangling(ToSet(exec))'
                 PROVE  Dangling(ToSet(exec))
      BY DEF SparesFrames, FrameFreed
    <2>1. Last(handlers).line = line
      <3>1. Len(Front(handlers)) = Len(handlers) - 1 /\ Len(handlers) \in Nat
        BY <1>2, FrontLast, LenProperties
      <3> QED BY <1>1, <3>1 DEF UsesStaleHandler
    <2>2. /\ d \in 1..(Len(exec) - 1) /\ Len(exec) \in Nat
          /\ \A q \in 1..d : exec[q] # v
      <3>1. cont # <<>> /\ TopCont.k # "try"
        BY DEF CanEvaluate
      <3> QED BY <2>1, <3>1, Survivors DEF d, v
    <2>3. /\ r.exec \in Seq(Nat) /\ Len(r.exec) = d /\ \A q \in 1..d : r.exec[q] = exec[q]
      <3>1. r.exec = SubSeq(exec, 1, d) /\ d <= Len(exec)
        BY <1>6, <2>2
      <3> QED BY <1>2, <1>3, <3>1, Prefix
    <2>4. PICK q \in DOMAIN n.exec : n.unit[n.exec[q]].kind = "freed"
      BY <1>11 DEF Dangling, ToSet
    <2>5. /\ DOMAIN n.exec = 1..(d + 1) /\ n.exec[d + 1] = Last(n.tmp)
          /\ \A i \in 1..d : n.exec[i] = exec[i]
      BY <1>8, <2>3, AppendNat
    <2>6. n.exec[q] \in DOMAIN n.unit
      BY <1>10 DEF Keeps, KeepsBut, StacksOK
    <2>7. CASE q \in 1..d
      <3>1. n.exec[q] = exec[q] /\ exec[q] # v
        BY <2>2, <2>5, <2>7
      <3>2. unit[exec[q]].kind = "freed"
        BY <1>2, <1>10, <2>4, <2>6, <3>1 DEF Spares
      <3>3. exec[q] \in ToSet(exec)
        <4>1. q \in DOMAIN exec
          BY <1>2, <2>2, <2>7, LenProperties
        <4> QED BY <4>1 DEF ToSet
      <3> QED BY <3>2, <3>3 DEF Dangling
    <2>8. CASE q \notin 1..d
      <3>1. n.exec[q] = Last(n.tmp)
        BY <2>2, <2>5, <2>8
      <3>2. n.exec[q] \in DOMAIN r.unit
        BY <1>7, <2>4, <2>6 DEF Spares
      <3> QED BY <1>8, <3>1, <3>2
    <2> QED BY <2>7, <2>8
  <1>14. ReturnsInside
    <2> SUFFICES ASSUME NEW u \in ToSet(exec), ~unit[u].ret, unit'[u].ret
                 PROVE  FALSE
      BY DEF ReturnsInside
    <2>1. u \in DOMAIN unit
      BY <1>2 DEF ToSet, StacksOK
    <2> QED BY <1>2, <1>10, <1>11, <2>1 DEF Spares
  \* What is on the native stack now is not what was under its top.
  <1>15. StopsParent
    <2> SUFFICES ASSUME cont' = Front(cont)
                 PROVE  FALSE
      BY DEF StopsParent
    <2>1. cont # <<>>
      BY DEF CanEvaluate
    <2>2. NativeOK(Front(cont), unit, tasks, phase)
      BY <2>1, Busy
    <2>3. Front(cont) = <<k, x>>
      BY <1>1
    <2>4. FrameOK(x, unit, tasks)
      <3>1. 2 \in DOMAIN <<k, x>> /\ <<k, x>>[2] = x
        OBVIOUS
      <3> QED BY <2>2, <2>3, <3>1 DEF NativeOK
    <2>5. x.u \in DOMAIN unit
      BY <1>9, <2>4 DEF FrameOK
    <2>6. DOMAIN unit \subseteq DOMAIN r.unit
      BY <1>2, <1>5, <1>6 DEF Keeps, KeepsBut
    <2> QED BY <1>8, <1>9, <2>5, <2>6
  <1> QED BY <1>12, <1>13, <1>14, <1>15 DEF StepOK

LEMMA ThrowStep ==
  ASSUME IInv, FitInv, StepInv, NEW kind \in Throwing, Throw(kind)
  PROVE  StepOK
  <1> DEFINE b == TmpCallable(Evaluated, "fn")
             m == IF kind = "badcall" THEN b ELSE Evaluated
  <1>1. CanEvaluate(kind) /\ Raise(m) /\ UNCHANGED stopped
    BY DEF Throw
  <1>2. /\ StacksOK(Evaluated) /\ Evaluated.exec = exec
        /\ Keeps(Stacks, Evaluated) /\ Spares(Stacks, Evaluated, {}, {})
        /\ StacksOK(Stacks) /\ Stacks.unit = unit
    BY <1>1, EvaluatedSpares
  <1> HIDE DEF Evaluated, Stacks
  <1>3. Keeps(Stacks, m) /\ Spares(Stacks, m, {}, {}) /\ m.exec = exec
    <2>1. /\ Keeps(Evaluated, b) /\ Spares(Evaluated, b, {}, {}) /\ b.exec = exec
      BY <1>2, CopyIsNew, TmpCallableOK, TmpCallableSpares DEF UnitKinds
    <2> HIDE DEF b
    <2>2. Keeps(Stacks, b) /\ Spares(Stacks, b, {}, {})
      BY <1>2, <2>1, KeepsTransitive, SparesAll DEF Keeps
    <2> QED BY <1>2, <2>1, <2>2
  <1> HIDE DEF m
  <1>4. ASSUME Become(m), NEW to \in {"terminated", "escaped", "uncaught", "undefined"}, Leave(to)
        PROVE  StepOK
    <2>1. unit' = m.unit /\ phase' = to
      BY <1>4 DEF Become, Leave
    <2>2. StepInv'
      BY <1>2, <1>3, <2>1 DEF StepInv, Spares
    <2> QED BY <2>1, <2>2, OverStep
  <1>5. CASE HandleException(m) /\ handlers # <<>> /\ phase # "destroy"
    <2>1. phase = "run"
      BY <1>1, <1>5 DEF CanEvaluate, Running
    <2> QED BY <1>1, <1>3, <1>5, <2>1, HandleStep
  <1> QED BY <1>1, <1>4, <1>5 DEF Raise

-----------------------------------------------------------------------------
(* Scopes that are left.                                                   *)

\* The units that the frame on top of the native stack has entered.
Popped == {exec[p] : p \in (Len(exec) - Width(TopCont) + 1)..Len(exec)}

LEMMA UnderGrows ==
  ASSUME NEW e, NEW cs \in Seq(ContRec), NEW i \in Nat, NEW k \in Nat, i <= k, Len(e) \in Nat
  PROVE  Under(e, cs, i) <= Under(e, cs, k)
  <1>1. /\ Count(cs, Entering, k) <= Count(cs, Entering, i)
        /\ Count(cs, Proxied, k) <= Count(cs, Proxied, i)
    BY CountShrinks
  <1>2. /\ Count(cs, Entering, k) \in Nat /\ Count(cs, Entering, i) \in Nat
        /\ Count(cs, Proxied, k) \in Nat /\ Count(cs, Proxied, i) \in Nat
    BY CountIsNat
  <1> QED BY <1>1, <1>2 DEF Under, Owned

LEMMA TopUnder ==
  ASSUME IInv, FitInv, Running, cont # <<>>
  PROVE  /\ TopCont \in ContRec /\ TopCont = cont[Len(cont)]
         /\ Len(cont) \in Nat \ {0} /\ DOMAIN cont = 1..Len(cont)
         /\ Len(exec) \in Nat \ {0} /\ Width(TopCont) \in 0..2
         /\ Under(exec, cont, Len(cont)) = Len(exec) - Width(TopCont)
         /\ Under(exec, cont, Len(cont) + 1) = Len(exec)
         /\ Len(exec) - Width(TopCont) \in 1..Len(exec)
  <1>1. TopCont \in ContRec /\ TopCont = cont[Len(cont)] /\ Len(cont) \in Nat \ {0}
    BY FitNow, ContFront DEF TopCont
  <1>2. Len(cont) \in 1..Len(cont) /\ Len(cont) \in 1..(Len(cont) + 1)
    BY <1>1
  <1>3. /\ Len(exec) \in Nat \ {0} /\ Under(exec, cont, Len(cont)) \in 1..Len(exec)
        /\ Under(exec, cont, Len(cont) + 1) = Len(exec) /\ DOMAIN cont = 1..Len(cont)
        /\ Under(exec, cont, Len(cont) + 1) = Under(exec, cont, Len(cont)) + Width(cont[Len(cont)])
        /\ Width(cont[Len(cont)]) \in 0..2
    BY <1>2, FitNow, UnderRange
  <1> QED BY <1>1, <1>3

\* But for the unit that run() resumed, the units of the scopes that the top
\* frame will leave are nowhere else on exec_stack.
LEMMA TopIsUnique ==
  ASSUME IInv, FitInv, phase = "run", cont # <<>>, Len(cont) > 1 \/ TopCont.k = "loop"
  PROVE  \A q \in 1..(Len(exec) - Width(TopCont)) : exec[q] \notin Popped
  <1> SUFFICES ASSUME NEW q \in 1..(Len(exec) - Width(TopCont)),
                      NEW p \in (Len(exec) - Width(TopCont) + 1)..Len(exec), exec[q] = exec[p]
               PROVE  FALSE
    BY DEF Popped
  <1> DEFINE U(i) == Under(exec, cont, i)
             w == Width(TopCont)
  <1>1. /\ TopCont = cont[Len(cont)] /\ Len(cont) \in Nat \ {0}
        /\ Len(exec) \in Nat \ {0} /\ w \in 0..2 /\ U(Len(cont)) = Len(exec) - w
    BY TopUnder DEF Running
  <1>2. /\ DistinctFit(exec, cont) /\ cont \in Seq(ContRec) /\ exec \in Seq(Nat)
        /\ ScopesFit(exec, cont, stopped)
    BY FitNow DEF Fit, Running
  <1>3. U(1) \in 1..Len(exec) /\ U(1) <= U(Len(cont))
    <2>1. 1 \in 1..(Len(cont) + 1) /\ Len(cont) \in 1..(Len(cont) + 1)
      BY <1>1
    <2> QED BY <1>2, <2>1, UnderRange
  <1>4. p \in (U(1) + 1)..Len(exec) /\ q \in 1..Len(exec) /\ q < p
    BY <1>1, <1>3
  <1>5. p = U(1) + 1 /\ cont[1] \in Entering /\ cont[1].k = "exec"
    BY <1>2, <1>4 DEF DistinctFit
  <1>6. Len(cont) > 1
    BY <1>1, <1>5
  <1>7. U(2) = U(1) + Width(cont[1]) /\ Width(cont[1]) >= 1 /\ Width(cont[1]) \in 0..2
    <2>1. /\ 1 \in 1..Len(cont) /\ cont[1] \in ContRec
          /\ U(1 + 1) = U(1) + Width(cont[1]) /\ Width(cont[1]) \in 0..2
      <3>1. 1 \in 1..Len(cont)
        BY <1>1, <1>6
      <3> QED BY <1>2, <3>1, UnderRange
    <2>2. Width(cont[1]) >= 1
      BY <1>5, <2>1, WidthOK
    <2> QED BY <2>1, <2>2
  <1>8. U(2) <= U(Len(cont))
    <2>1. 2 <= Len(cont) /\ Len(cont) \in Nat /\ 2 \in Nat /\ Len(exec) \in Nat
      BY <1>1, <1>6
    <2> QED BY <1>2, <2>1, UnderGrows
  <1> HIDE DEF U, w
  <1>9. p > U(Len(cont))
    BY <1>1 DEF w
  <1> QED BY <1>1, <1>3, <1>5, <1>7, <1>8, <1>9

\* The scopes of the loops under the top frame are under its own.
LEMMA LoopsBelow ==
  ASSUME IInv, FitInv, Running, ~stopped, cont # <<>>, NEW i \in 1..(Len(cont) - 1)
  PROVE  /\ cont[i].k \in {"loop", "init"} =>
              \E q \in 1..(Len(exec) - Width(TopCont)) : cont[i].u = exec[q]
         /\ cont[i] \in Proxied =>
              \E q \in 1..(Len(exec) - Width(TopCont)) : cont[i].n = exec[q]
  <1> DEFINE U(k) == Under(exec, cont, k)
             w == Width(TopCont)
  <1>1. /\ Len(cont) \in Nat \ {0} /\ DOMAIN cont = 1..Len(cont)
        /\ Len(exec) \in Nat \ {0} /\ w \in 0..2 /\ U(Len(cont)) = Len(exec) - w
    BY TopUnder
  <1>2. /\ cont \in Seq(ContRec) /\ exec \in Seq(Nat) /\ ScopesFit(exec, cont, stopped)
    BY FitNow
  <1>3. /\ i \in DOMAIN cont /\ cont[i] \in ContRec
        /\ U(i + 1) = U(i) + Width(cont[i]) /\ U(i) \in 1..Len(exec) /\ Width(cont[i]) \in 0..2
    <2>1. i \in 1..Len(cont) /\ i \in 1..(Len(cont) + 1)
      BY <1>1
    <2> QED BY <1>2, <2>1, UnderRange
  <1>4. U(i + 1) <= U(Len(cont))
    <2>1. i + 1 <= Len(cont) /\ i + 1 \in Nat /\ Len(cont) \in Nat /\ Len(exec) \in Nat
      BY <1>1
    <2> QED BY <1>2, <2>1, UnderGrows
  <1>5. /\ cont[i] \in Entering => exec[U(i + 1)] = cont[i].u
        /\ cont[i] \in Proxied => exec[U(i + 1) - 1] = cont[i].n
    BY <1>2, <1>3 DEF ScopesFit
  <1>6. /\ cont[i].k \in {"loop", "init"} => cont[i] \in Entering
        /\ cont[i] \in Proxied => Width(cont[i]) = 2
    BY <1>3, WidthOK DEF Entering
  <1> HIDE DEF U, w
  <1>7. U(i + 1) \in 1..(Len(exec) - w)
    BY <1>1, <1>3, <1>4
  <1>8. cont[i] \in Proxied => U(i + 1) - 1 \in 1..(Len(exec) - w)
    BY <1>1, <1>3, <1>6, <1>7
  <1>9. cont[i].k \in {"loop", "init"} => \E q \in 1..(Len(exec) - w) : cont[i].u = exec[q]
    BY <1>5, <1>6, <1>7
  <1>10. cont[i] \in Proxied => \E q \in 1..(Len(exec) - w) : cont[i].n = exec[q]
    BY <1>5, <1>8
  <1> QED BY <1>9, <1>10 DEF w

\* A frame leaves its scopes, and frees no unit but theirs.
LEMMA PopStep ==
  ASSUME IInv, FitInv, StepInv, phase = "run", cont # <<>>,
         Len(cont) > 1 \/ TopCont.k = "loop",
         NEW m, Become(m), Keeps(Stacks, m), NEW R, Spares(Stacks, m, Popped, R),
         Cuts(exec, m.exec, Len(exec) - Width(TopCont)), cont' = Front(cont),
         UNCHANGED <<phase, stopped>>
  PROVE  StepInv' /\ SparesFrames
  <1> DEFINE d == Len(exec) - Width(TopCont)
  <1>1. /\ unit' = m.unit /\ exec' = m.exec /\ Stacks.unit = unit
        /\ exec \in Seq(Nat) /\ cont \in Seq(ContRec)
    BY BecomesUnit, FitNow DEF Running
  <1>2. /\ Len(exec) \in Nat \ {0} /\ d \in 1..Len(exec)
    BY TopUnder DEF Running
  <1>3. \A q \in 1..d : exec[q] \notin Popped
    BY TopIsUnique
  <1> HIDE DEF Stacks, Popped
  <1>4. RetFin(m.unit)
    BY <1>1 DEF Spares, StepInv
  <1>5. ASSUME ~stopped
        PROVE  LoopsFit(Front(cont), m.unit)
    <2> DEFINE s == Front(cont)
    <2>1. /\ DOMAIN s = 1..(Len(cont) - 1) /\ \A i \in 1..(Len(cont) - 1) : s[i] = cont[i]
      BY <1>1, FrontCont
    <2>2. LoopsFit(s, Stacks.unit)
      BY <1>1, <1>5, LoopsFront DEF StepInv
    <2> HIDE DEF s
    <2>3. \A i \in DOMAIN s : /\ s[i].k \in {"loop", "init"} => s[i].u \notin Popped
                              /\ s[i] \in Proxied => s[i].n \notin Popped
      BY <1>3, <1>5, <2>1, LoopsBelow DEF Running
    <2>4. LoopsFit(s, m.unit)
      BY <2>2, <2>3, LoopsKept DEF Keeps
    <2> QED BY <2>4 DEF s
  <1>6. SparesFrames
    <2> SUFFICES ASSUME Dangling(ToSet(exec))'
                 PROVE  Dangling(ToSet(exec))
      BY DEF SparesFrames, FrameFreed
    <2>1. PICK q \in DOMAIN m.exec : m.unit[m.exec[q]].kind = "freed"
      BY <1>1 DEF Dangling, ToSet
    <2>2. q \in 1..d /\ m.exec[q] = exec[q]
      <3>1. DOMAIN m.exec = 1..d
        BY <1>2, LenProperties DEF Cuts
      <3> QED BY <2>1, <3>1 DEF Cuts
    <2>3. m.exec[q] \in DOMAIN m.unit
      BY <2>1 DEF Keeps, KeepsBut, StacksOK
    <2>4. unit[exec[q]].kind = "freed"
      BY <1>1, <1>3, <2>1, <2>2, <2>3 DEF Spares
    <2>5. exec[q] \in ToSet(exec)
      <3>1. q \in DOMAIN exec
        BY <1>1, <1>2, <2>2, LenProperties
      <3> QED BY <3>1 DEF ToSet
    <2> QED BY <2>4, <2>5 DEF Dangling
  <1> QED BY <1>1, <1>4, <1>5, <1>6 DEF StepInv

\* Above a unit of exec_stack there is nothing below it.
LEMMA AboveUnit ==
  ASSUME exec \in Seq(Nat), NEW d \in 1..Len(exec)
  PROVE  Above(exec[d]) \subseteq {exec[p] : p \in (d + 1)..Len(exec)}
  <1> SUFFICES ASSUME NEW j \in DOMAIN exec, \A i \in j..Len(exec) : exec[i] # exec[d]
               PROVE  j \in (d + 1)..Len(exec)
    BY DEF Above
  <1>1. j \in 1..Len(exec) /\ Len(exec) \in Nat
    BY LenProperties
  <1>2. ~(d \in j..Len(exec))
    OBVIOUS
  <1> QED BY <1>1, <1>2

LEMMA SparesMore ==
  ASSUME NEW m, NEW n, NEW F, NEW G, NEW R, NEW S, Spares(m, n, F, R),
         F \subseteq G, R \subseteq S
  PROVE  Spares(m, n, G, S)
  BY DEF Spares

\* The loop's scopes, freed and nothing else.
LEMMA LoopSpares ==
  ASSUME IInv, FitInv, Running, cont # <<>>, TopCont.k = "loop"
  PROVE  LET body == LeaveScope(Stacks)
             left == IF TopCont.n = 0 THEN body ELSE LeaveScope(body)
         IN  /\ Keeps(Stacks, left) /\ StacksOK(left) /\ Spares(Stacks, left, Popped, {})
             /\ Cuts(exec, left.exec, Len(exec) - Width(TopCont))
             /\ Current(left) = exec[Len(exec) - Width(TopCont)]
             /\ left.handling = 0
  <1> DEFINE body == LeaveScope(Stacks)
             left == IF TopCont.n = 0 THEN body ELSE LeaveScope(body)
             w == Width(TopCont)
  <1>1. /\ StacksOK(Stacks) /\ Stacks.exec = exec /\ exec \in Seq(Nat) /\ Len(exec) \in Nat
        /\ Stacks.handling = 0
    BY FitNow, TopUnder, Busy
  <1>2. /\ StacksOK(body) /\ body.exec = Front(exec) /\ StacksOK(left)
        /\ Cuts(exec, left.exec, Len(exec) - w) /\ Len(exec) > w
        /\ w = IF TopCont.n = 0 THEN 1 ELSE 2
    BY LoopLeaves
  <1> HIDE DEF Stacks
  <1>3. exec[Len(exec)] \in Popped /\ Current(Stacks) = exec[Len(exec)]
    <2>1. Len(exec) \in (Len(exec) - w + 1)..Len(exec)
      BY <1>1, <1>2
    <2> QED BY <1>1, <2>1 DEF Popped, Current, Last
  <1>4. TopCont.n # 0 => Current(body) \in Popped
    <2> SUFFICES ASSUME TopCont.n # 0
                 PROVE  Current(body) \in Popped
      OBVIOUS
    <2> DEFINE f == Front(exec)
    <2>1. /\ Len(f) = Len(exec) - 1 /\ Len(exec) > 2
          /\ \A p \in 1..(Len(exec) - 1) : f[p] = exec[p]
      <3>1. exec # <<>>
        BY <1>1, ExecKept
      <3> QED BY <1>1, <1>2, <3>1, FrontLast
    <2> HIDE DEF body
    <2>2. Current(body) = f[Len(f)]
      BY <1>2 DEF Current, Last
    <2> HIDE DEF f
    <2>3. Current(body) = exec[Len(exec) - 1]
      BY <1>1, <2>1, <2>2
    <2>4. Len(exec) - 1 \in (Len(exec) - w + 1)..Len(exec)
      BY <1>1, <1>2, <2>1
    <2> QED BY <2>3, <2>4 DEF Popped
  <1> HIDE DEF Popped, w
  <1>5. Keeps(Stacks, body) /\ Spares(Stacks, body, Popped, {}) /\ body.handling = 0
    <2>1. Spares(Stacks, body, {Current(Stacks)}, {})
      BY <1>1, LeaveScopeSpares
    <2> HIDE DEF body
    <2>2. Spares(Stacks, body, Popped, {})
      BY <1>3, <2>1, SparesMore
    <2> QED BY <1>1, <2>2, LeftOK DEF body
  <1> HIDE DEF body
  <1>6. Keeps(Stacks, left) /\ Spares(Stacks, left, Popped, {}) /\ left.handling = 0
    <2>1. CASE TopCont.n = 0
      BY <1>5, <2>1
    <2>2. CASE TopCont.n # 0
      <3> DEFINE l == LeaveScope(body)
      <3>1. Spares(body, l, {Current(body)}, {}) /\ Keeps(body, l) /\ l.handling = 0
        BY <1>2, <1>5, LeaveScopeSpares, LeftOK
      <3> HIDE DEF l
      <3>2. Spares(Stacks, l, Popped \cup {Current(body)}, {} \cup {})
        BY <1>5, <3>1, SparesBoth
      <3>3. Spares(Stacks, l, Popped, {})
        BY <1>4, <2>2, <3>2, SparesMore
      <3>4. Keeps(Stacks, l)
        BY <1>1, <1>5, <3>1, KeepsTransitive DEF Keeps
      <3> QED BY <2>2, <3>1, <3>3, <3>4 DEF l
    <2> QED BY <2>1, <2>2
  <1> HIDE DEF left
  <1>7. Current(left) = exec[Len(exec) - w]
    <2>1. Len(left.exec) = Len(exec) - w /\ Len(exec) - w \in 1..(Len(exec) - w)
      BY <1>1, <1>2 DEF Cuts
    <2> QED BY <1>2, <2>1 DEF Cuts, Current, Last
  <1> QED BY <1>2, <1>6, <1>7 DEF w, body, left

\* A loop's scopes are its body's and its proxy's.
LEMMA LoopKinds ==
  ASSUME IInv, FitInv, StepInv, phase = "run", ~stopped, cont # <<>>, TopCont.k = "loop"
  PROVE  \A v \in Popped : unit[v].kind \in Carrying
  <1>1. /\ TopCont \in ContRec /\ TopCont = cont[Len(cont)] /\ Len(cont) \in DOMAIN cont
        /\ Under(exec, cont, Len(cont) + 1) = Len(exec) /\ Len(exec) \in Nat
        /\ Width(TopCont) = IF TopCont.n = 0 THEN 1 ELSE 2
    <2>1. Len(cont) \in 1..Len(cont)
      BY TopUnder DEF Running
    <2> QED BY <2>1, TopUnder, LoopLeaves DEF Running
  <1>2. exec[Len(exec)] = TopCont.u /\ (TopCont \in Proxied => exec[Len(exec) - 1] = TopCont.n)
    <2>1. ScopesFit(exec, cont, stopped)
      BY FitNow DEF Running
    <2>2. TopCont \in Entering
      BY <1>1 DEF Entering
    <2> QED BY <1>1, <2>1, <2>2 DEF ScopesFit
  <1>3. /\ unit[TopCont.u].kind = "body"
        /\ TopCont \in Proxied => unit[TopCont.n].kind = "proxy"
    BY <1>1 DEF StepInv, LoopsFit
  <1>4. TopCont.n # 0 => TopCont \in Proxied
    BY <1>1 DEF Proxied
  <1> SUFFICES ASSUME NEW p \in (Len(exec) - Width(TopCont) + 1)..Len(exec)
               PROVE  unit[exec[p]].kind \in Carrying
    BY DEF Popped
  <1>5. p = Len(exec) \/ (TopCont.n # 0 /\ p = Len(exec) - 1)
    BY <1>1
  <1> QED BY <1>2, <1>3, <1>4, <1>5 DEF Carrying

LEMMA LoopExitStep ==
  ASSUME IInv, FitInv, StepInv, LoopExit
  PROVE  StepOK
  <1> DEFINE body == LeaveScope(Stacks)
             left == IF TopCont.n = 0 THEN body ELSE LeaveScope(body)
             u == Current(left)
             returns == unit[TopCont.u].ret /\ ~stopped
             R == IF returns THEN {u} ELSE {}
             m == IF returns THEN SaveReturn(left, u) ELSE left
             d == Len(exec) - Width(TopCont)
  <1>1. /\ Running /\ cont # <<>> /\ TopCont.k = "loop" /\ cont' = Front(cont) /\ Become(m)
        /\ UNCHANGED <<stopped, phase>>
    BY DEF LoopExit, In
  <1>2. /\ Keeps(Stacks, left) /\ StacksOK(left) /\ Spares(Stacks, left, Popped, {})
        /\ Cuts(exec, left.exec, d) /\ u = exec[d]
    BY <1>1, LoopSpares
  <1>3. /\ exec \in Seq(Nat) /\ d \in 1..Len(exec) /\ Len(exec) \in Nat \ {0}
        /\ StacksOK(Stacks) /\ Stacks.unit = unit /\ Stacks.exec = exec
    BY <1>1, FitNow, TopUnder
  <1>4. u \in DOMAIN left.unit
    BY <1>2, CurrentOK
  <1> HIDE DEF left, body, Stacks, Popped, u, d
  <1>5. Keeps(Stacks, m) /\ Spares(Stacks, m, Popped, R) /\ m.exec = left.exec
    <2>1. CASE returns
      <3> DEFINE r == SaveReturn(left, u)
      <3>1. Keeps(left, r) /\ Spares(left, r, {}, {u}) /\ r.exec = left.exec
        BY <1>2, <1>4, SaveReturnOK, SaveReturnSpares, ExecReturned
      <3> HIDE DEF r
      <3>2. Spares(Stacks, r, Popped \cup {}, {} \cup {u})
        BY <1>2, <3>1, SparesBoth
      <3>3. Spares(Stacks, r, Popped, {u})
        BY <3>2, SparesMore
      <3>4. Keeps(Stacks, r)
        BY <1>2, <1>3, <3>1, KeepsTransitive DEF Keeps
      <3> QED BY <2>1, <3>1, <3>3, <3>4 DEF r
    <2>2. CASE ~returns
      BY <1>2, <2>2
    <2> QED BY <2>1, <2>2
  <1>6. unit' = m.unit /\ exec' = m.exec
    BY <1>1, BecomesUnit
  <1>7. returns => unit'[u].fin \/ unit'[u].kind \in NoReturn
    <2>1. /\ SaveReturn(left, u).unit[u].kind = left.unit[u].kind
          /\ SaveReturn(left, u).unit[u].fin \/ left.unit[u].kind \in NoReturn
      BY <1>2, <1>4, SaveReturnSpares
    <2> QED BY <1>6, <2>1
  <1> HIDE DEF m
  <1>8. CASE phase = "run"
    <2>1. StepInv' /\ SparesFrames
      BY <1>1, <1>8, <1>2, <1>5, PopStep DEF d
    <2>2. ReturnsInside
      <3> SUFFICES ASSUME NEW v \in ToSet(exec), ~unit[v].ret, unit'[v].ret, NEW x \in Above(v)
                   PROVE  unit[x].kind \in Carrying
        BY DEF ReturnsInside
      <3>1. v \in DOMAIN unit
        BY <1>3 DEF ToSet, StacksOK
      <3>2. v = u /\ returns
        BY <1>3, <1>5, <1>6, <3>1 DEF Spares
      <3>3. Above(v) \subseteq {exec[p] : p \in (d + 1)..Len(exec)}
        BY <1>2, <1>3, <3>2, AboveUnit
      <3>4. x \in Popped
        BY <3>3 DEF Popped, d
      <3> QED BY <1>1, <1>8, <3>2, <3>4, LoopKinds
    <2>3. StopsParent
      <3> SUFFICES ASSUME ~stopped, unit[TopCont.u].ret
                   PROVE  unit'[Last(exec')].fin \/ unit'[Last(exec')].kind \in NoReturn
        BY DEF StopsParent
      <3>1. Last(exec') = u
        BY <1>5, <1>6 DEF u, Current
      <3> QED BY <1>7, <3>1
    <2> QED BY <2>1, <2>2, <2>3 DEF StepOK
  <1>9. CASE phase # "run"
    <2>1. StepInv'
      BY <1>1, <1>3, <1>5, <1>6, <1>9 DEF StepInv, Spares
    <2> QED BY <1>9, <2>1, OverStep
  <1> QED BY <1>8, <1>9

\* A finished unit stays finished.
LEMMA FinStays ==
  ASSUME NEW m, StacksOK(m), NEW v \in DOMAIN m.unit, m.unit[v].fin
  PROVE  /\ \A u \in DOMAIN m.unit : SaveReturn(m, u).unit[v].fin
         /\ \A u : PropagateBreak(m, u).unit[v].fin
  <1>1. m.unit \in Seq(UnitRec) /\ m.unit[v] \in UnitRec
    BY UnitOK
  <1>2. ASSUME NEW u \in DOMAIN m.unit
        PROVE  SaveReturn(m, u).unit[v].fin
    <2> DEFINE q == [m.unit[u] EXCEPT !.ret = TRUE]
               r == [q EXCEPT !.fin = TRUE]
    <2>1. r.fin /\ r \in UnitRec
      <3>1. m.unit[u] \in UnitRec
        BY UnitOK
      <3> QED BY <3>1 DEF UnitRec
    <2>2. SaveReturn(m, u) = m \/ SaveReturn(m, u).unit = [m.unit EXCEPT ![u] = r]
      BY DEF SaveReturn, StacksOK
    <2> HIDE DEF r
    <2> QED BY <1>1, <2>1, <2>2
  <1>3. ASSUME NEW u
        PROVE  PropagateBreak(m, u).unit[v].fin
    <2> DEFINE us == {x \in Below(m) : Carries(m, x)}
               n == StopUnits(m, us, TRUE)
    <2>1. PropagateBreak(m, u) = m \/ PropagateBreak(m, u) = n
      BY DEF PropagateBreak
    <2> HIDE DEF us
    <2>2. n.unit[v] = IF v \in us THEN [m.unit[v] EXCEPT !.fin = TRUE, !.brk = @ \/ TRUE]
                      ELSE m.unit[v]
      BY DEF StopUnits, StacksOK
    <2>3. n.unit[v].fin
      BY <1>1, <2>2 DEF UnitRec
    <2> HIDE DEF n
    <2> QED BY <2>1, <2>3
  <1> QED BY <1>2, <1>3

\* A control block that ends is on top of exec_stack, over its parent.
LEMMA CarrierOnTop ==
  ASSUME IInv, FitInv, StepInv, phase = "run", ~stopped, cont # <<>>,
         TopCont.k \in {"exec", "iter"}, unit[TopCont.u].kind \in Carrying
  PROVE  /\ exec[Len(exec)] = TopCont.u /\ Len(exec) > 1 /\ Len(exec) \in Nat
         /\ Width(TopCont) = IF TopCont.k = "exec" THEN 1 ELSE 0
  <1>1. /\ TopCont \in ContRec /\ TopCont = cont[Len(cont)] /\ Len(cont) \in Nat \ {0}
        /\ DOMAIN cont = 1..Len(cont) /\ Len(exec) \in Nat
        /\ Under(exec, cont, Len(cont)) = Len(exec) - Width(TopCont)
        /\ Under(exec, cont, Len(cont) + 1) = Len(exec)
        /\ Len(exec) - Width(TopCont) \in 1..Len(exec)
    BY TopUnder DEF Running
  <1>2. /\ ScopesFit(exec, cont, stopped) /\ StacksOK(Stacks) /\ Stacks.unit = unit
        /\ exec \in Seq(Nat) /\ cont \in Seq(ContRec)
    BY FitNow DEF Running
  <1>3. TopCont.u # Main
    BY <1>2 DEF StacksOK, Carrying
  <1>4. CASE TopCont.k = "exec"
    <2>1. Width(TopCont) = 1 /\ TopCont \in Entering
      BY <1>1, <1>3, <1>4, WidthOK
    <2>2. Len(cont) \in DOMAIN cont
      BY <1>1
    <2>3. exec[Len(exec)] = TopCont.u
      BY <1>1, <1>2, <2>1, <2>2 DEF ScopesFit
    <2> QED BY <1>1, <1>4, <2>1, <2>3
  <1>5. CASE TopCont.k = "iter"
    <2> DEFINE i == Len(cont) - 1
    <2>1. Width(TopCont) = 0
      BY <1>1, <1>5, WidthOK
    <2>2. Len(cont) > 1 /\ cont[i].k = "loop" /\ cont[i].u = TopCont.u
      <3>1. Len(cont) \in DOMAIN cont
        BY <1>1
      <3> QED BY <1>1, <1>5, <3>1 DEF StepInv, LoopsFit
    <2>3. i \in 1..Len(cont) /\ i + 1 = Len(cont) /\ i \in 1..(Len(cont) + 1)
      BY <1>1, <2>2
    <2> HIDE DEF i
    <2>4. /\ cont[i] \in ContRec /\ Under(exec, cont, i) \in 1..Len(exec)
          /\ Under(exec, cont, i + 1) = Under(exec, cont, i) + Width(cont[i])
      BY <1>2, <2>3, UnderRange
    <2>5. Width(cont[i]) >= 1 /\ cont[i] \in Entering /\ Width(cont[i]) \in 0..2
      BY <2>2, <2>4, WidthOK DEF Entering
    <2>6. exec[Under(exec, cont, i + 1)] = cont[i].u
      BY <1>1, <1>2, <2>3, <2>5 DEF ScopesFit
    <2>7. Under(exec, cont, i + 1) = Len(exec)
      BY <1>1, <2>1, <2>3
    <2>8. Len(exec) > 1
      BY <1>1, <2>4, <2>5, <2>7
    <2> QED BY <1>1, <1>5, <2>1, <2>2, <2>6, <2>7, <2>8
  <1> QED BY <1>4, <1>5

\* A unit that ends leaves its scope, which frees it and nothing else.
LEMMA UnitSpares ==
  ASSUME IInv, FitInv, Running, ~stopped, cont # <<>>, TopCont.k \in {"exec", "iter"}
  PROVE  LET n == PropagateBreak(Stacks, TopCont.u)
             left == IF TopCont.k = "exec" THEN LeaveScope(n) ELSE n
         IN  /\ Keeps(Stacks, left) /\ StacksOK(left) /\ left.handling = 0
             /\ Spares(Stacks, left, Popped, {})
             /\ Cuts(exec, left.exec, Len(exec) - Width(TopCont))
             /\ Width(TopCont) = 0 => left = n
             /\ TopCont.k = "exec" /\ TopCont.u = Main => Len(exec) = 1 /\ Len(cont) = 1
             /\ Len(exec) > Width(TopCont)
  <1> DEFINE n == PropagateBreak(Stacks, TopCont.u)
             l == LeaveScope(n)
             left == IF TopCont.k = "exec" THEN l ELSE n
             w == Width(TopCont)
  <1>1. /\ StacksOK(Stacks) /\ Stacks.exec = exec /\ exec \in Seq(Nat)
        /\ Len(exec) \in Nat \ {0} /\ Stacks.handling = 0
    BY FitNow, TopUnder, Busy
  <1> HIDE DEF Stacks
  <1>2. /\ Keeps(Stacks, n) /\ Spares(Stacks, n, {}, {}) /\ n.exec = exec
        /\ StacksOK(n) /\ n.handling = 0
    BY <1>1, PropagateBreakOK, PropagateBreakSpares DEF Keeps, KeepsBut
  <1> HIDE DEF n
  <1>3. /\ StacksOK(left) /\ Cuts(exec, left.exec, Len(exec) - w)
        /\ TopCont.k = "exec" /\ TopCont.u = Main => Len(exec) = 1 /\ Len(cont) = 1
        /\ Len(exec) > w
        /\ w = 0 => left = n
        /\ w # 0 => w = 1 /\ TopCont.k = "exec"
    BY <1>2, UnitLeaves
  <1>4. Spares(Stacks, n, Popped, {})
    BY <1>2, SparesMore
  <1>5. Keeps(Stacks, left) /\ left.handling = 0 /\ Spares(Stacks, left, Popped, {})
    <2>1. CASE w = 0
      <3> HIDE DEF left
      <3> QED BY <1>2, <1>3, <1>4, <2>1
    <2>2. CASE w # 0
      <3>1. left = l /\ w = 1
        BY <1>3, <2>2
      <3>2. Keeps(n, l) /\ l.handling = 0 /\ Spares(n, l, {Current(n)}, {})
        BY <1>2, LeftOK, LeaveScopeSpares
      <3>3. Current(n) \in Popped
        <4>1. Len(exec) \in (Len(exec) - w + 1)..Len(exec)
          BY <1>1, <3>1
        <4> QED BY <1>2, <4>1 DEF Popped, Current, Last
      <3> HIDE DEF l, Popped
      <3>4. Spares(Stacks, l, {} \cup {Current(n)}, {} \cup {})
        BY <1>2, <3>2, SparesBoth
      <3>5. Spares(Stacks, l, Popped, {})
        BY <3>3, <3>4, SparesMore
      <3>6. Keeps(Stacks, l)
        BY <1>1, <1>2, <3>2, KeepsTransitive DEF Keeps
      <3> QED BY <3>1, <3>2, <3>5, <3>6
    <2> QED BY <2>1, <2>2
  <1> HIDE DEF w, left
  <1> QED BY <1>3, <1>5 DEF n, w, left, l

LEMMA FinishStep ==
  ASSUME IInv, FitInv, StepInv, Finish
  PROVE  StepOK
  <1> DEFINE u == TopCont.u
             returned == unit[u].ret
             carries == Carries(Stacks, u)
             parent == Parent(Stacks)
             broken == PropagateBreak(Stacks, u)
             left == IF TopCont.k = "exec" THEN LeaveScope(broken) ELSE broken
             exits == TopCont.k = "exec" /\ Len(exec) = 1 /\ ~Persistent
             m == CarryReturn(left, returned, carries, parent)
             c == Cont("pass", Len(tasks), 0)
             R == IF carries /\ returned THEN {parent} ELSE {}
             d == Len(exec) - Width(TopCont)
  <1>1. /\ Running /\ cont # <<>> /\ TopCont.k \in {"exec", "iter"}
        /\ UNCHANGED <<handlers, objs, stopped, tasks, known, ran, fuel, line>>
    BY DEF Finish, InUnit
  <1>2. CASE stopped /\ cont' = Front(cont) /\ UNCHANGED <<stacks, phase>>
    <2>1. UNCHANGED <<exec, unit, phase, stopped>>
      BY <1>1, <1>2 DEF stacks
    <2> QED BY <1>1, <1>2, <2>1, QuietStep
  <1>3. CASE phase' = "undefined" /\ UNCHANGED <<stacks, cont>>
    <2>1. StepInv'
      BY <1>3 DEF StepInv, stacks
    <2> QED BY <1>3, <2>1, OverStep
  <1>4. CASE /\ ~stopped /\ Become(m) /\ UNCHANGED phase
             /\ cont' = IF exits THEN Append(Front(cont), c) ELSE Front(cont)
    <2>1. /\ Keeps(Stacks, left) /\ StacksOK(left) /\ left.handling = 0
          /\ Spares(Stacks, left, Popped, {}) /\ Cuts(exec, left.exec, d)
          /\ Width(TopCont) = 0 => left = broken
          /\ TopCont.k = "exec" /\ u = Main => Len(exec) = 1 /\ Len(cont) = 1
          /\ Len(exec) > Width(TopCont)
      BY <1>1, <1>4, UnitSpares
    <2>2. /\ exec \in Seq(Nat) /\ cont \in Seq(ContRec) /\ d \in 1..Len(exec)
          /\ Len(exec) \in Nat \ {0} /\ Width(TopCont) \in 0..2 /\ TopCont \in ContRec
          /\ StacksOK(Stacks) /\ Stacks.unit = unit /\ Stacks.exec = exec
          /\ Len(tasks) \in Nat /\ u \in DOMAIN unit /\ Len(cont) \in Nat \ {0}
      BY <1>1, FitNow, TopUnder, Busy DEF FrameOK
    <2>3. parent \in DOMAIN left.unit
      <3>1. parent \in DOMAIN Stacks.unit
        BY <2>2, ParentOK
      <3> HIDE DEF parent, left
      <3> QED BY <2>1, <3>1 DEF Keeps, KeepsBut
    <2>4. /\ carries <=> unit[u].kind \in Carrying
          /\ Len(exec) > 1 => parent = exec[Len(exec) - 1]
      BY <2>2 DEF Carries, Parent
    <2>5. Width(TopCont) = 0 /\ unit[u].fin => left.unit[u].fin
      <3>1. unit[u].fin => broken.unit[u].fin
        BY <2>2, FinStays
      <3> HIDE DEF broken, u, left
      <3> QED BY <2>1, <3>1
    <2> HIDE DEF left, Stacks, Popped, parent, d, carries, returned
    <2>6. /\ Keeps(Stacks, m) /\ Spares(Stacks, m, Popped, R) /\ m.exec = left.exec
          /\ m.handling = 0
          /\ carries /\ returned => m.unit[parent].fin \/ m.unit[parent].kind \in NoReturn
          /\ Width(TopCont) = 0 /\ unit[u].fin => m.unit[u].fin
      <3>1. CASE carries /\ returned
        <4> DEFINE r == SaveReturn(left, parent)
        <4>1. /\ Keeps(left, r) /\ r.handling = 0 /\ Spares(left, r, {}, {parent})
              /\ r.unit[parent].fin \/ r.unit[parent].kind \in NoReturn
          BY <2>1, <2>3, SaveReturnOK, SaveReturnSpares
        <4>2. r.exec = left.exec
          BY <2>1, ExecReturned
        <4>3. Width(TopCont) = 0 /\ unit[u].fin => r.unit[u].fin
          <5>1. u \in DOMAIN left.unit
            BY <2>1, <2>2 DEF Keeps, KeepsBut
          <5> QED BY <2>1, <2>3, <2>5, <5>1, FinStays
        <4>4. m = r /\ R = {parent}
          BY <3>1 DEF CarryReturn
        <4> HIDE DEF r, m, R
        <4>5. Spares(Stacks, r, Popped \cup {}, {} \cup {parent})
          BY <2>1, <4>1, SparesBoth
        <4>6. Spares(Stacks, r, Popped, {parent})
          BY <4>5, SparesMore
        <4>7. Keeps(Stacks, r)
          BY <2>1, <2>2, <4>1, KeepsTransitive DEF Keeps
        <4> QED BY <4>1, <4>2, <4>3, <4>4, <4>6, <4>7
      <3>2. CASE ~(carries /\ returned)
        <4>1. m = left /\ R = {}
          BY <3>2 DEF CarryReturn
        <4> HIDE DEF m, R
        <4> QED BY <2>1, <2>5, <3>2, <4>1
      <3> QED BY <3>1, <3>2
    <2>7. unit' = m.unit /\ exec' = m.exec /\ handling' = m.handling
      BY <1>4, BecomesUnit
    <2>8. c \in ContRec /\ c \notin Proxied /\ c.k = "pass"
      <3>1. c \in ContRec /\ c.k = "pass"
        BY <2>2, FramesAreRecords, KindsAreNamed
      <3> QED BY <3>1 DEF Proxied
    <2> HIDE DEF m, c
    <2>9. RetFin(unit')
      BY <2>2, <2>6, <2>7 DEF StepInv, Spares
    <2>10. CASE phase # "run"
      <3>1. StepInv'
        BY <1>4, <2>9, <2>10 DEF StepInv
      <3> QED BY <2>10, <3>1, OverStep
    <2>11. CASE phase = "run"
      <3>1. StepInv' /\ SparesFrames
        <4>1. CASE ~exits /\ Len(cont) > 1
          BY <1>1, <1>4, <2>1, <2>6, <2>11, <4>1, PopStep DEF d
        \* run()'s own frame: nothing is left to be executed.
        <4>2. CASE Len(cont) = 1 /\ ~exits
          <5> DEFINE s == Front(cont)
          <5>1. s = <<>>
            <6>1. s \in Seq(ContRec) /\ Len(s) = 0
              BY <1>1, <2>2, <4>2, ContFront
            <6> HIDE DEF s
            <6> QED BY <6>1, EmptySeq
          <5>2. cont' = <<>> /\ handling' = 0
            BY <1>4, <2>6, <2>7, <4>2, <5>1
          <5>3. LoopsFit(cont', unit')
            BY <5>2, LoopsNone
          <5> QED BY <2>9, <5>2, <5>3 DEF StepInv, SparesFrames
        \* main ends: nothing is left and freed, and the exit tasks are run.
        <4>3. CASE exits
          <5>1. Width(TopCont) = 0 /\ Len(cont) = 1
            <6>1. Width(TopCont) = 0 /\ TopCont.k = "exec"
              BY <2>1, <2>2, <4>3
            <6>2. u = Main
              BY <2>2, <6>1, WidthOK
            <6> QED BY <2>1, <6>1, <6>2
          <5> DEFINE s == Front(cont)
          <5>2. s = <<>> /\ s \in Seq(ContRec)
            <6>1. s \in Seq(ContRec) /\ Len(s) = 0
              BY <1>1, <2>2, <5>1, ContFront
            <6> HIDE DEF s
            <6> QED BY <6>1, EmptySeq
          <5>3. cont' = Append(s, c) /\ LoopsFit(s, unit')
            BY <1>4, <4>3, <5>2, LoopsNone
          <5> HIDE DEF s
          <5>4. LoopsFit(cont', unit')
            BY <2>8, <5>2, <5>3, LoopsPush
          <5>5. Popped = {} /\ d = Len(exec)
            BY <2>2, <5>1 DEF Popped, d
          <5>6. ~FrameFreed
            <6> SUFFICES ASSUME Dangling(ToSet(exec))'
                         PROVE  Dangling(ToSet(exec))
              BY DEF FrameFreed
            <6>1. PICK q \in DOMAIN m.exec : m.unit[m.exec[q]].kind = "freed"
              BY <2>7 DEF Dangling, ToSet
            <6>2. q \in DOMAIN exec /\ m.exec[q] = exec[q]
              <7>1. DOMAIN m.exec = 1..d /\ DOMAIN exec = 1..Len(exec)
                BY <2>1, <2>2, <2>6, LenProperties DEF Cuts
              <7> QED BY <2>1, <2>6, <5>5, <6>1, <7>1 DEF Cuts
            <6>3. m.exec[q] \in DOMAIN m.unit
              BY <2>6, <6>1 DEF Keeps, KeepsBut, StacksOK
            <6>4. unit[exec[q]].kind = "freed"
              BY <2>2, <2>6, <5>5, <6>1, <6>2, <6>3 DEF Spares
            <6> QED BY <6>2, <6>4 DEF Dangling, ToSet
          <5> QED BY <2>9, <5>4, <5>6 DEF StepInv, SparesFrames
        <4>4. Len(cont) > 1 \/ Len(cont) = 1
          <5> HIDE DEF exits, R, broken, u
          <5>1. Len(cont) \in Nat \ {0}
            BY <2>2
          <5> QED BY <5>1
        <4>5. (~exits /\ Len(cont) > 1) \/ (Len(cont) = 1 /\ ~exits) \/ exits
          <5> HIDE DEF exits
          <5> QED BY <4>4
        <4> HIDE DEF exits, R, broken, u
        <4> QED BY <4>1, <4>2, <4>3, <4>5
      <3>2. ReturnsInside
        <4> SUFFICES ASSUME NEW v \in ToSet(exec), ~unit[v].ret, unit'[v].ret, NEW x \in Above(v)
                     PROVE  unit[x].kind \in Carrying
          BY DEF ReturnsInside
        <4>1. v \in DOMAIN unit
          BY <2>2 DEF ToSet, StacksOK
        <4>2. v = parent /\ carries
          BY <2>2, <2>6, <2>7, <4>1 DEF Spares
        <4>3. exec[Len(exec)] = u /\ Len(exec) > 1
          BY <1>1, <1>4, <2>4, <2>11, <4>2, CarrierOnTop
        <4>4. Above(v) \subseteq {exec[p] : p \in (Len(exec) - 1 + 1)..Len(exec)}
          <5>1. Len(exec) - 1 \in 1..Len(exec) /\ v = exec[Len(exec) - 1]
            BY <2>2, <2>4, <4>2, <4>3
          <5> QED BY <2>2, <5>1, AboveUnit
        <4>5. PICK p \in (Len(exec) - 1 + 1)..Len(exec) : x = exec[p]
          BY <4>4
        <4>6. p = Len(exec)
          BY <2>2, <4>5
        <4> QED BY <2>4, <4>2, <4>3, <4>5, <4>6
      <3>3. StopsParent
        <4> SUFFICES ASSUME returned, carries
                     PROVE  unit'[Last(exec')].fin \/ unit'[Last(exec')].kind \in NoReturn
          BY <2>4 DEF StopsParent, returned
        <4>1. /\ exec[Len(exec)] = u /\ Len(exec) > 1
              /\ Width(TopCont) = IF TopCont.k = "exec" THEN 1 ELSE 0
          BY <1>1, <1>4, <2>4, <2>11, CarrierOnTop
        <4>2. Last(exec') = exec[d]
          <5>1. Len(left.exec) = d /\ left.exec[d] = exec[d]
            <6>1. d \in 1..d
              BY <2>2
            <6> QED BY <2>1, <6>1 DEF Cuts
          <5> QED BY <2>6, <2>7, <5>1 DEF Last
        <4>3. CASE TopCont.k = "exec"
          <5>1. d = Len(exec) - 1
            BY <4>1, <4>3 DEF d
          <5>2. Last(exec') = parent
            BY <2>4, <4>1, <4>2, <5>1
          <5> QED BY <2>6, <2>7, <5>2
        <4>4. CASE TopCont.k = "iter"
          <5>1. d = Len(exec) /\ Width(TopCont) = 0
            BY <2>2, <4>1, <4>4 DEF d
          <5>2. Last(exec') = u
            BY <4>1, <4>2, <5>1
          <5>3. unit[u].fin
            BY <2>2 DEF StepInv, RetFin, returned
          <5> QED BY <2>6, <2>7, <5>1, <5>2, <5>3
        <4> QED BY <1>1, <4>3, <4>4
      <3> QED BY <3>1, <3>2, <3>3 DEF StepOK
    <2> QED BY <2>10, <2>11
  <1> QED BY <1>2, <1>3, <1>4 DEF Finish

-----------------------------------------------------------------------------
(* The theorems.                                                           *)

LEMMA InitStep ==
  ASSUME Init
  PROVE  StepInv
  <1>1. phase = "ready" /\ unit = <<NewUnit("main")>>
    BY DEF Init
  <1>2. \A u \in DOMAIN unit : ~unit[u].ret
    BY <1>1 DEF NewUnit
  <1> QED BY <1>1, <1>2 DEF StepInv, RetFin

LEMMA NextStep ==
  ASSUME IInv, WaitInv, FitInv, StepInv, [Next]_vars
  PROVE  StepOK
  <1>1. CASE RunStart \/ RunResume
    BY <1>1, RunsStep
  <1>2. CASE RunEmpty \/ RunReturn
    BY <1>2, RunEndStep
  <1>3. CASE \E kind \in Callables : Call(kind)
    BY <1>3, CallStep
  <1>4. CASE \E kind \in Throwing : Throw(kind)
    BY <1>4, ThrowStep
  <1>5. CASE CallFunction \/ Access \/ TryCatch \/ ForLoop \/ ForEach \/ NativeEach
    BY <1>5, CallFunctionStep, AccessStep, TryCatchStep, ForLoopStep, ForEachStep,
       NativeEachStep
  <1>13. CASE EnterCallee \/ EnterLoop
    BY <1>13, EnterCalleeStep, EnterLoopStep
  <1>6. CASE Return \/ Break \/ Exit \/ OnExit
    BY <1>6, ReturnStep, BreakStep, ExitStep, OnExitStep
  <1>7. CASE Finish \/ LoopIterate \/ LoopExit
    BY <1>7, FinishStep, LoopIterateStep, LoopExitStep
  <1>8. CASE TryDone \/ EachDone \/ UseDone \/ CatchDone
    BY <1>8, SimpleDoneStep
  <1>9. CASE EachNext \/ PassNext \/ PassDone
    BY <1>9, EachNextStep, PassNextStep, PassDoneStep
  <1>10. CASE NextLine \/ Destroy
    BY <1>10, NextLineStep, DestroyStep
  <1>11. CASE UNCHANGED vars
    BY <1>11, UnchangedStep
  <1>12. CASE Halt
    BY <1>12, UnchangedStep DEF Halt
  <1> QED BY <1>1, <1>2, <1>3, <1>4, <1>5, <1>6, <1>7, <1>8, <1>9, <1>10, <1>11, <1>12,
            <1>13
          DEF Next, Step, Host

\* A unit that has returned is finished, and a loop's iterations, body and
\* proxy are where its end will look for them, whatever is thrown.
THEOREM StepInductive == Spec => [](IInv /\ FitInv /\ StepInv)
  <1>1. Init => IInv /\ FitInv /\ StepInv
    BY InitOK, InitFits, InitStep
  <1>2. /\ IInv /\ WaitInv /\ FitInv /\ StepInv /\ [Next]_vars
           => (IInv /\ FitInv /\ StepInv)'
    BY NextOK, NextFits, NextStep DEF StepOK
  <1> QED BY <1>1, <1>2, WaitsInductive, PTL DEF Spec

\* No step of run() frees a frame that can still be executed or looked
\* through: leave_scope and pop_tmp_callable free a unit only when it is on
\* top of exec_stack, and what a handler cuts exec_stack back to never holds
\* the unit that the exception freed.
THEOREM FramesAlwaysAlive == Spec => FramesStayAlive
  <1>1. IInv /\ WaitInv /\ FitInv /\ StepInv /\ [Next]_vars => [SparesFrames]_vars
    BY NextStep DEF StepOK
  <1> QED BY <1>1, WaitsInductive, StepInductive, PTL DEF Spec, FramesStayAlive

\* A return value leaves a unit only through blocks that carry it: execute()
\* and the loops hand it to the unit right under theirs.
THEOREM ReturnAlwaysInside == Spec => ReturnStaysInside
  <1>1. IInv /\ WaitInv /\ FitInv /\ StepInv /\ [Next]_vars => [ReturnsInside]_vars
    BY NextStep DEF StepOK
  <1> QED BY <1>1, WaitsInductive, StepInductive, PTL DEF Spec, ReturnStaysInside

\* A block that ends with a return value ends the unit under it too.
THEOREM ReturnAlwaysStops == Spec => ReturnStopsParent
  <1>1. IInv /\ WaitInv /\ FitInv /\ StepInv /\ [Next]_vars => [StopsParent]_vars
    BY NextStep DEF StepOK
  <1> QED BY <1>1, WaitsInductive, StepInductive, PTL DEF Spec, ReturnStopsParent
==============================================================================
