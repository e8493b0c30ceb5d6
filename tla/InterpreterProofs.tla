-------------------------- MODULE InterpreterProofs --------------------------
(***************************************************************************)
(* Proofs about the execution core for every set of expression kinds and   *)
(* every bound: the type invariant, with the inductive strengthening it    *)
(* needs.                                                                  *)
(***************************************************************************)
EXTENDS InterpreterProps, SequenceTheorems, TLAPS

\* What an operation on the stacks keeps: they stay well formed, a unit
\* allocated before keeps its id and its kind or is freed, and no unit but
\* those of a given set goes back in its expressions.
KeepsBut(m, n, us) ==
  /\ StacksOK(n)
  /\ DOMAIN m.unit \subseteq DOMAIN n.unit
  /\ \A u \in DOMAIN m.unit :
       /\ n.unit[u].kind \in {m.unit[u].kind, "freed"}
       /\ u \in us \/ n.unit[u].cur >= m.unit[u].cur
Keeps(m, n) == KeepsBut(m, n, {})

-----------------------------------------------------------------------------
(* Sequences.                                                              *)

LEMMA FrontLast ==
  ASSUME NEW S, NEW s \in Seq(S), s # <<>>
  PROVE  /\ Last(s) \in S /\ Last(s) = s[Len(s)] /\ Len(s) \in DOMAIN s
         /\ Front(s) \in Seq(S) /\ Len(Front(s)) = Len(s) - 1
         /\ \A i \in 1..(Len(s) - 1) : Front(s)[i] = s[i]
  <1>1. Len(s) \in Nat \ {0} /\ DOMAIN s = 1..Len(s) /\ \A i \in 1..Len(s) : s[i] \in S
    BY EmptySeq, LenProperties, ElementOfSeq
  <1>2. /\ SubSeq(s, 1, Len(s) - 1) \in Seq(S)
        /\ Len(SubSeq(s, 1, Len(s) - 1)) = Len(s) - 1
        /\ \A i \in 1..(Len(s) - 1) : SubSeq(s, 1, Len(s) - 1)[i] = s[i]
    BY <1>1, SubSeqProperties
  <1> QED BY <1>1, <1>2 DEF Last, Front

LEMMA AppendOK ==
  ASSUME NEW S, NEW s \in Seq(S), NEW e \in S
  PROVE  /\ Append(s, e) \in Seq(S) /\ Append(s, e) # <<>>
         /\ Len(s) \in Nat /\ DOMAIN s = 1..Len(s)
         /\ Len(Append(s, e)) = Len(s) + 1 /\ DOMAIN Append(s, e) = 1..(Len(s) + 1)
         /\ \A i \in 1..Len(s) : Append(s, e)[i] = s[i]
         /\ Append(s, e)[Len(s) + 1] = e /\ Last(Append(s, e)) = e
  BY AppendProperties, LenProperties DEF Last

LEMMA AppendNat ==
  \A s \in Seq(Nat), e \in Nat :
     /\ Append(s, e) \in Seq(Nat) /\ Append(s, e) # <<>>
     /\ Len(s) \in Nat /\ DOMAIN s = 1..Len(s)
     /\ DOMAIN Append(s, e) = 1..(Len(s) + 1)
     /\ \A i \in 1..Len(s) : Append(s, e)[i] = s[i]
     /\ Append(s, e)[Len(s) + 1] = e /\ Last(Append(s, e)) = e
  BY AppendOK

LEMMA FrontNat ==
  \A s \in Seq(Nat) : s # <<>> =>
     /\ Front(s) \in Seq(Nat) /\ Len(s) \in Nat \ {0}
     /\ DOMAIN s = 1..Len(s) /\ DOMAIN Front(s) = 1..(Len(s) - 1)
     /\ \A i \in 1..(Len(s) - 1) : Front(s)[i] = s[i]
  <1> SUFFICES ASSUME NEW s \in Seq(Nat), s # <<>>
               PROVE  /\ Front(s) \in Seq(Nat) /\ Len(s) \in Nat \ {0}
                      /\ DOMAIN s = 1..Len(s) /\ DOMAIN Front(s) = 1..(Len(s) - 1)
                      /\ \A i \in 1..(Len(s) - 1) : Front(s)[i] = s[i]
    OBVIOUS
  <1>1. Front(s) \in Seq(Nat) /\ Len(Front(s)) = Len(s) - 1
        /\ \A i \in 1..(Len(s) - 1) : Front(s)[i] = s[i]
    BY FrontLast
  <1>2. Len(s) \in Nat \ {0} /\ DOMAIN s = 1..Len(s)
    BY EmptySeq, LenProperties
  <1> HIDE DEF Front
  <1>3. DOMAIN Front(s) = 1..Len(Front(s))
    BY <1>1, LenProperties
  <1> QED BY <1>1, <1>2, <1>3

LEMMA SetFlags ==
  ASSUME NEW r \in UnitRec, NEW b \in BOOLEAN
  PROVE  /\ [r EXCEPT !.fin = b] \in UnitRec /\ [r EXCEPT !.fin = b].kind = r.kind
         /\ [r EXCEPT !.ret = b] \in UnitRec /\ [r EXCEPT !.ret = b].kind = r.kind
         /\ [r EXCEPT !.brk = b] \in UnitRec /\ [r EXCEPT !.brk = b].kind = r.kind
         /\ [r EXCEPT !.fin = b].cur = r.cur /\ [r EXCEPT !.ret = b].cur = r.cur
         /\ [r EXCEPT !.brk = b].cur = r.cur /\ r.cur \in Nat
  BY DEF UnitRec

LEMMA SetCursor ==
  ASSUME NEW r \in UnitRec, NEW c \in Nat
  PROVE  /\ [r EXCEPT !.cur = c] \in UnitRec /\ [r EXCEPT !.cur = c].kind = r.kind
         /\ [r EXCEPT !.cur = c].cur = c /\ r.cur \in Nat
  BY DEF UnitRec

LEMMA SetKind ==
  ASSUME NEW r \in UnitRec, NEW k \in UnitKinds
  PROVE  /\ [r EXCEPT !.kind = k] \in UnitRec /\ [r EXCEPT !.kind = k].kind = k
         /\ [r EXCEPT !.kind = k].cur = r.cur /\ r.cur \in Nat
  BY DEF UnitRec

LEMMA UpdateUnit ==
  ASSUME NEW s \in Seq(UnitRec), NEW u \in DOMAIN s, NEW r \in UnitRec
  PROVE  /\ [s EXCEPT ![u] = r] \in Seq(UnitRec)
         /\ DOMAIN [s EXCEPT ![u] = r] = DOMAIN s
         /\ \A v \in DOMAIN s : [s EXCEPT ![u] = r][v] = IF v = u THEN r ELSE s[v]
  OBVIOUS

-----------------------------------------------------------------------------
(* Operations on the stacks.                                               *)

LEMMA CurrentOK ==
  ASSUME NEW m, StacksOK(m)
  PROVE  /\ Current(m) \in DOMAIN m.unit
         /\ Current(m) \in Nat
         /\ Main \in DOMAIN m.unit
         /\ Len(m.exec) \in Nat \ {0}
  BY DEF StacksOK, Current, Last, Main

LEMMA UnitOK ==
  ASSUME NEW m, StacksOK(m)
  PROVE  m.unit \in Seq(UnitRec) /\ \A u \in DOMAIN m.unit : m.unit[u] \in UnitRec
  <1>1. m.unit \in Seq(UnitRec)
    BY DEF StacksOK
  <1> QED BY <1>1, ElementOfSeq, LenProperties

\* Nothing changed keeps everything, and keeping is transitive.
LEMMA KeepsSelf ==
  ASSUME NEW m, StacksOK(m)
  PROVE  Keeps(m, m)
  <1>1. \A u \in DOMAIN m.unit : m.unit[u].cur \in Nat
    BY UnitOK DEF UnitRec
  <1> QED BY <1>1 DEF Keeps, KeepsBut

LEMMA KeepsTransitive ==
  ASSUME NEW m, NEW n, NEW o, NEW us, StacksOK(m),
         KeepsBut(m, n, us), KeepsBut(n, o, us)
  PROVE  KeepsBut(m, o, us)
  <1>1. \A u \in DOMAIN m.unit :
          m.unit[u].cur \in Nat /\ n.unit[u].cur \in Nat /\ o.unit[u].cur \in Nat
    BY UnitOK DEF KeepsBut, UnitRec
  <1> QED BY <1>1 DEF KeepsBut

\* Replacing one unit by a record of the same kind, or freeing it, keeps
\* the stacks.
LEMMA SetUnitOK ==
  ASSUME NEW m, StacksOK(m), NEW u \in DOMAIN m.unit, NEW r \in UnitRec, NEW us,
         r.kind = m.unit[u].kind \/ (r.kind = "freed" /\ u # Main),
         u \in us \/ r.cur = m.unit[u].cur + 1 \/ r.cur = m.unit[u].cur
  PROVE  KeepsBut(m, [m EXCEPT !.unit[u] = r], us)
  <1> DEFINE s == [m.unit EXCEPT ![u] = r]
             n == [m EXCEPT !.unit[u] = r]
  <1>1. s \in Seq(UnitRec) /\ DOMAIN s = DOMAIN m.unit /\ s[Main].kind = "main"
    BY CurrentOK DEF StacksOK
  <1>2. n.unit = s /\ n.exec = m.exec /\ n.tmp = m.tmp /\ n.handling = m.handling
    BY DEF StacksOK
  <1>3. n \in [exec : Seq(Nat), tmp : Seq(Nat), unit : Seq(UnitRec), handling : Nat]
    BY <1>1 DEF StacksOK
  <1>4. s # <<>>
    BY <1>1, CurrentOK DEF StacksOK
  <1>5. \A v \in DOMAIN m.unit : /\ s[v].kind \in {m.unit[v].kind, "freed"}
                                 /\ v \in us \/ s[v].cur >= m.unit[v].cur
    <2> TAKE v \in DOMAIN m.unit
    <2>1. m.unit[v].cur \in Nat
      BY UnitOK DEF UnitRec
    <2>2. CASE v = u
      <3>1. s[v] = r
        BY <2>2, UnitOK
      <3> HIDE DEF s
      <3> QED BY <2>1, <2>2, <3>1
    <2>3. CASE v # u
      BY <2>1, <2>3, UnitOK
    <2> QED BY <2>2, <2>3
  <1>6. StacksOK(n)
    BY <1>1, <1>2, <1>3, <1>4 DEF StacksOK
  <1> HIDE DEF n, s
  <1> QED BY <1>1, <1>2, <1>5, <1>6 DEF KeepsBut, n

\* Operations that leave the units alone.
LEMMA SameUnits ==
  ASSUME NEW m, NEW n, StacksOK(m), StacksOK(n), n.unit = m.unit
  PROVE  Keeps(m, n)
  <1>1. \A u \in DOMAIN m.unit : m.unit[u].cur \in Nat
    BY UnitOK DEF UnitRec
  <1> QED BY <1>1 DEF Keeps, KeepsBut

LEMMA TmpCallableOK ==
  ASSUME NEW m, StacksOK(m), NEW kind \in UnitKinds
  PROVE  /\ Keeps(m, TmpCallable(m, kind))
         /\ Last(TmpCallable(m, kind).tmp) \in DOMAIN TmpCallable(m, kind).unit
         /\ Last(TmpCallable(m, kind).tmp) \notin DOMAIN m.unit
         /\ TmpCallable(m, kind).unit[Last(TmpCallable(m, kind).tmp)].kind = kind
         /\ TmpCallable(m, kind).handling = m.handling
  <1> DEFINE n == TmpCallable(m, kind)
             r == NewUnit(kind)
             id == Len(m.unit) + 1
  <1>0. /\ m \in [exec : Seq(Nat), tmp : Seq(Nat), unit : Seq(UnitRec), handling : Nat]
        /\ m.unit \in Seq(UnitRec) /\ m.tmp \in Seq(Nat)
    BY DEF StacksOK
  <1>1. r \in UnitRec
    BY DEF NewUnit, UnitRec
  <1>2. /\ n.unit = Append(m.unit, r) /\ n.tmp = Append(m.tmp, id)
        /\ n.exec = m.exec /\ n.handling = m.handling
        /\ n = [m EXCEPT !.unit = Append(m.unit, r), !.tmp = Append(m.tmp, id)]
    BY <1>0 DEF TmpCallable
  <1> HIDE DEF r, n
  <1>3. /\ Append(m.unit, r) \in Seq(UnitRec)
        /\ Len(m.unit) \in Nat /\ DOMAIN m.unit = 1..Len(m.unit)
        /\ DOMAIN Append(m.unit, r) = 1..(Len(m.unit) + 1) /\ Append(m.unit, r) # <<>>
        /\ \A u \in 1..Len(m.unit) : Append(m.unit, r)[u] = m.unit[u]
    <2>1. \A s \in Seq(UnitRec), e \in UnitRec :
            /\ Append(s, e) \in Seq(UnitRec) /\ Append(s, e) # <<>>
            /\ Len(s) \in Nat /\ DOMAIN s = 1..Len(s)
            /\ DOMAIN Append(s, e) = 1..(Len(s) + 1)
            /\ \A i \in 1..Len(s) : Append(s, e)[i] = s[i]
      BY AppendOK
    <2> QED BY <2>1, <1>0, <1>1
  <1>4. n.unit[Main] = m.unit[Main]
    BY <1>2, <1>3, CurrentOK
  <1>5. id \in Nat
    BY <1>3
  <1>6. /\ Append(m.tmp, id) \in Seq(Nat)
        /\ Last(Append(m.tmp, id)) = id /\ DOMAIN Append(m.tmp, id) = 1..(Len(m.tmp) + 1)
        /\ DOMAIN m.tmp = 1..Len(m.tmp) /\ Len(m.tmp) \in Nat
        /\ \A i \in 1..Len(m.tmp) : Append(m.tmp, id)[i] = m.tmp[i]
        /\ Append(m.tmp, id)[Len(m.tmp) + 1] = id
    <2> HIDE DEF id
    <2> QED BY <1>0, <1>5, AppendOK
  <1>7. \A i \in DOMAIN n.tmp : n.tmp[i] \in DOMAIN n.unit \ {Main}
    BY <1>2, <1>3, <1>6, CurrentOK DEF StacksOK
  <1>8. n \in [exec : Seq(Nat), tmp : Seq(Nat), unit : Seq(UnitRec), handling : Nat]
    <2> HIDE DEF id
    <2> QED BY <1>0, <1>2, <1>3, <1>6
  <1>9. DOMAIN m.unit \subseteq DOMAIN n.unit
    BY <1>2, <1>3
  <1>10. \A i \in DOMAIN n.exec : n.exec[i] \in DOMAIN n.unit
    BY <1>2, <1>9 DEF StacksOK
  <1>11. n.exec # <<>> /\ n.exec[1] = Main /\ n.unit # <<>> /\ n.unit[Main].kind = "main"
    BY <1>2, <1>3, <1>4 DEF StacksOK
  <1>12. StacksOK(n)
    <2> HIDE DEF id
    <2> QED BY <1>7, <1>8, <1>10, <1>11 DEF StacksOK
  <1>13. \A u \in DOMAIN m.unit : n.unit[u] = m.unit[u] /\ m.unit[u].cur \in Nat
    <2>1. \A u \in DOMAIN m.unit : m.unit[u] \in UnitRec
      BY UnitOK
    <2> QED BY <1>2, <1>3, <2>1 DEF UnitRec
  <1>14. Keeps(m, n)
    BY <1>9, <1>12, <1>13 DEF Keeps, KeepsBut
  <1>15. n.unit[id].kind = kind
    <2>1. Append(m.unit, r)[Len(m.unit) + 1] = r
      BY <1>0, <1>1, AppendProperties
    <2> QED BY <1>2, <2>1 DEF r, NewUnit
  <1> QED BY <1>2, <1>3, <1>6, <1>14, <1>15 DEF n

\* A frame is pushed.
LEMMA PushOK ==
  ASSUME NEW m, StacksOK(m), NEW u \in DOMAIN m.unit
  PROVE  Keeps(m, [m EXCEPT !.exec = Append(@, u)])
  <1> DEFINE n == [m EXCEPT !.exec = Append(@, u)]
             e == Append(m.exec, u)
  <1>1. /\ m \in [exec : Seq(Nat), tmp : Seq(Nat), unit : Seq(UnitRec), handling : Nat]
        /\ m.exec \in Seq(Nat) /\ u \in Nat
    BY DEF StacksOK
  <1>2. /\ e \in Seq(Nat) /\ e # <<>> /\ DOMAIN e = 1..(Len(m.exec) + 1)
        /\ DOMAIN m.exec = 1..Len(m.exec)
        /\ \A i \in 1..Len(m.exec) : e[i] = m.exec[i]
        /\ e[Len(m.exec) + 1] = u
    BY <1>1, AppendNat
  <1>3. /\ n.exec = e /\ n.unit = m.unit /\ n.tmp = m.tmp /\ n.handling = m.handling
        /\ n \in [exec : Seq(Nat), tmp : Seq(Nat), unit : Seq(UnitRec), handling : Nat]
    BY <1>1, <1>2
  <1>4. e[1] = Main
    BY <1>2, CurrentOK DEF StacksOK
  <1>5. \A i \in DOMAIN e : e[i] \in DOMAIN m.unit
    BY <1>2, CurrentOK DEF StacksOK
  <1>s. StacksOK(n)
    BY <1>2, <1>3, <1>4, <1>5 DEF StacksOK
  <1> HIDE DEF n
  <1> QED BY <1>s, <1>2, <1>3, <1>4, <1>5, SameUnits DEF n

\* exec_stack is cut back to a prefix that is not empty.
LEMMA CutOK ==
  ASSUME NEW m, StacksOK(m), NEW d \in 1..Len(m.exec)
  PROVE  Keeps(m, [m EXCEPT !.exec = SubSeq(@, 1, d)])
  <1> DEFINE n == [m EXCEPT !.exec = SubSeq(@, 1, d)]
             e == SubSeq(m.exec, 1, d)
  <1>1. /\ m \in [exec : Seq(Nat), tmp : Seq(Nat), unit : Seq(UnitRec), handling : Nat]
        /\ m.exec \in Seq(Nat)
    BY DEF StacksOK
  <1>2. /\ e \in Seq(Nat) /\ Len(e) = d /\ \A i \in 1..d : e[i] = m.exec[i]
    BY <1>1, CurrentOK, SubSeqProperties
  <1>3. DOMAIN e = 1..d /\ DOMAIN m.exec = 1..Len(m.exec) /\ d >= 1
    BY <1>1, <1>2, LenProperties
  <1>4. /\ n.exec = e /\ n.unit = m.unit /\ n.tmp = m.tmp /\ n.handling = m.handling
        /\ n \in [exec : Seq(Nat), tmp : Seq(Nat), unit : Seq(UnitRec), handling : Nat]
    BY <1>1, <1>2
  <1>5. e[1] = Main /\ e # <<>>
    <2>1. e[1] = m.exec[1]
      BY <1>2
    <2>2. e # <<>>
      BY <1>2, EmptySeq
    <2> QED BY <2>1, <2>2 DEF StacksOK
  <1>6. \A i \in DOMAIN e : e[i] \in DOMAIN m.unit
    BY <1>2, <1>3, CurrentOK DEF StacksOK
  <1>s. StacksOK(n)
    BY <1>4, <1>5, <1>6 DEF StacksOK
  <1> HIDE DEF n
  <1> QED BY <1>s, <1>4, <1>5, <1>6, SameUnits DEF n

\* The top copy is released.
LEMMA PopCopyOK ==
  ASSUME NEW m, StacksOK(m), m.tmp # <<>>
  PROVE  Keeps(m, [m EXCEPT !.tmp = Front(@)])
  <1> DEFINE n == [m EXCEPT !.tmp = Front(@)]
             t == Front(m.tmp)
  <1>1. /\ m \in [exec : Seq(Nat), tmp : Seq(Nat), unit : Seq(UnitRec), handling : Nat]
        /\ m.tmp \in Seq(Nat)
    BY DEF StacksOK
  <1>2. /\ t \in Seq(Nat) /\ Len(m.tmp) \in Nat
        /\ \A i \in 1..(Len(m.tmp) - 1) : t[i] = m.tmp[i]
        /\ DOMAIN t = 1..(Len(m.tmp) - 1) /\ DOMAIN m.tmp = 1..Len(m.tmp)
    BY <1>1, FrontNat
  <1>3. /\ n.tmp = t /\ n.unit = m.unit /\ n.exec = m.exec /\ n.handling = m.handling
        /\ n \in [exec : Seq(Nat), tmp : Seq(Nat), unit : Seq(UnitRec), handling : Nat]
    BY <1>1, <1>2
  <1>4. \A i \in DOMAIN t : t[i] \in DOMAIN m.unit \ {Main}
    <2>1. \A i \in DOMAIN t : i \in DOMAIN m.tmp /\ t[i] = m.tmp[i]
      BY <1>2
    <2> QED BY <2>1 DEF StacksOK
  <1>s. StacksOK(n)
    BY <1>3, <1>4 DEF StacksOK
  <1> HIDE DEF n
  <1> QED BY <1>s, <1>3, <1>4, SameUnits DEF n

LEMMA HandlingOK ==
  ASSUME NEW m, StacksOK(m), NEW h \in Nat
  PROVE  Keeps(m, [m EXCEPT !.handling = h])
  <1> DEFINE n == [m EXCEPT !.handling = h]
  <1>1. StacksOK(n) /\ n.unit = m.unit
    BY DEF StacksOK
  <1> HIDE DEF n
  <1> QED BY <1>1, SameUnits DEF n

-----------------------------------------------------------------------------
(* Scopes.                                                                 *)

LEMMA EnterScopeOK ==
  ASSUME NEW m, StacksOK(m), NEW u \in DOMAIN m.unit
  PROVE  /\ Keeps(m, EnterScope(m, u))
         /\ EnterScope(m, u).handling = m.handling
         /\ EnterScope(m, u).tmp = m.tmp
         /\ DOMAIN EnterScope(m, u).unit = DOMAIN m.unit
  <1> DEFINE r == [m.unit[u] EXCEPT !.fin = m.unit[u].ret \/ m.unit[u].brk]
             n == [m EXCEPT !.unit[u] = r]
  <1>1. r \in UnitRec /\ r.kind = m.unit[u].kind /\ r.cur = m.unit[u].cur
    <2>1. m.unit[u] \in UnitRec /\ (m.unit[u].ret \/ m.unit[u].brk) \in BOOLEAN
      BY UnitOK DEF UnitRec
    <2> QED BY <2>1, SetFlags
  <1>3. /\ Keeps(m, n) /\ DOMAIN n.unit = DOMAIN m.unit
        /\ n.handling = m.handling /\ n.tmp = m.tmp
    <2>1. /\ DOMAIN n.unit = DOMAIN m.unit
          /\ n.handling = m.handling /\ n.tmp = m.tmp
      BY DEF StacksOK
    <2> HIDE DEF r
    <2> QED BY <1>1, <2>1, SetUnitOK DEF Keeps
  <1>4. CASE u = Main
    <2>1. EnterScope(m, u) = n
      BY <1>4 DEF EnterScope, StacksOK
    <2> QED BY <1>3, <2>1
  <1>5. CASE u # Main
    <2> DEFINE o == [n EXCEPT !.exec = Append(@, u)]
    <2>1. EnterScope(m, u) = o
      BY <1>5 DEF EnterScope, StacksOK
    <2>2. o.unit = n.unit /\ o.handling = n.handling /\ o.tmp = n.tmp
      BY DEF StacksOK
    <2>3. Keeps(n, o)
      <3> HIDE DEF n
      <3> QED BY <1>3, PushOK DEF Keeps, KeepsBut
    <2> HIDE DEF n, o
    <2> QED BY <1>3, <2>1, <2>2, <2>3, KeepsTransitive DEF Keeps
  <1> QED BY <1>4, <1>5

LEMMA PopTmpCallableOK ==
  ASSUME NEW m, StacksOK(m)
  PROVE  /\ Keeps(m, PopTmpCallable(m))
         /\ PopTmpCallable(m).exec = m.exec
         /\ PopTmpCallable(m).handling = m.handling
  <1> DEFINE u == Current(m)
             r == [m.unit[u] EXCEPT !.kind = "freed"]
             n == [m EXCEPT !.unit[u] = r]
             o == [n EXCEPT !.tmp = Front(@)]
  <1>1. CASE m.tmp # <<>> /\ Last(m.tmp) = u
    <2>1. u \in DOMAIN m.unit \ {Main}
      BY <1>1, FrontLast DEF StacksOK
    <2>2. r \in UnitRec /\ r.kind = "freed" /\ r.cur = m.unit[u].cur
      BY <2>1, UnitOK, SetKind DEF UnitKinds
    <2>3. Keeps(m, n)
      <3> HIDE DEF r, u
      <3> QED BY <2>1, <2>2, SetUnitOK DEF Keeps
    <2>4. n.tmp = m.tmp /\ n.exec = m.exec /\ n.handling = m.handling
      BY DEF StacksOK
    <2>5. Keeps(n, o)
      <3> HIDE DEF n
      <3> QED BY <1>1, <2>3, <2>4, PopCopyOK DEF Keeps, KeepsBut
    <2>6. o.exec = n.exec /\ o.handling = n.handling
      <3> HIDE DEF r
      <3> QED BY DEF StacksOK
    <2>7. PopTmpCallable(m) = o
      BY <1>1 DEF PopTmpCallable, StacksOK
    <2> HIDE DEF n, o
    <2> QED BY <2>3, <2>4, <2>5, <2>6, <2>7, KeepsTransitive DEF Keeps
  <1>2. CASE ~(m.tmp # <<>> /\ Last(m.tmp) = u)
    BY <1>2, KeepsSelf DEF PopTmpCallable
  <1> QED BY <1>1, <1>2

LEMMA LeaveScopeOK ==
  ASSUME NEW m, StacksOK(m)
  PROVE  /\ Keeps(m, LeaveScope(m))
         /\ LeaveScope(m).handling = m.handling
  <1> DEFINE u == Current(m)
             r == [m.unit[u] EXCEPT !.ret = FALSE]
             c == [m EXCEPT !.unit[u] = r]
             p == PopTmpCallable(c)
             n == [p EXCEPT !.exec = Front(@)]
  <1>1. CASE Len(m.exec) > 1
    <2>1. u \in DOMAIN m.unit
      BY CurrentOK
    <2>2. r \in UnitRec /\ r.kind = m.unit[u].kind /\ r.cur = m.unit[u].cur
      <3>1. m.unit[u] \in UnitRec
        BY <2>1, UnitOK
      <3> QED BY <3>1, SetFlags
    <2>4. Keeps(m, c)
      <3> HIDE DEF r, u
      <3> QED BY <2>1, <2>2, SetUnitOK DEF Keeps
    <2>5. c.exec = m.exec /\ c.handling = m.handling
      BY DEF StacksOK
    <2>6. Keeps(c, p) /\ p.exec = m.exec /\ p.handling = m.handling
      <3> HIDE DEF c
      <3> QED BY <2>4, <2>5, PopTmpCallableOK DEF Keeps, KeepsBut
    <2>7. n = [p EXCEPT !.exec = SubSeq(@, 1, Len(p.exec) - 1)]
      BY DEF Front
    <2>8. Len(p.exec) - 1 \in 1..Len(p.exec)
      BY <1>1, <2>6, CurrentOK
    <2>9. Keeps(p, n)
      <3> HIDE DEF p, n
      <3>1. StacksOK(p)
        BY <2>6 DEF Keeps, KeepsBut
      <3> QED BY <2>7, <2>8, <3>1, CutOK
    <2>10. n.handling = m.handling
      <3> HIDE DEF p
      <3> QED BY <2>6 DEF Keeps, KeepsBut, StacksOK
    <2>11. LeaveScope(m) = n
      BY <1>1 DEF LeaveScope
    <2> HIDE DEF c, p, n
    <2> QED BY <2>4, <2>6, <2>9, <2>10, <2>11, KeepsTransitive DEF Keeps
  <1>2. CASE ~(Len(m.exec) > 1)
    BY <1>2, KeepsSelf DEF LeaveScope
  <1> QED BY <1>1, <1>2

-----------------------------------------------------------------------------
(* Returns, breaks and stops.                                              *)

LEMMA SaveReturnOK ==
  ASSUME NEW m, StacksOK(m), NEW u \in DOMAIN m.unit
  PROVE  /\ Keeps(m, SaveReturn(m, u))
         /\ SaveReturn(m, u).handling = m.handling
  <1> DEFINE q == [m.unit[u] EXCEPT !.ret = TRUE]
             r == [q EXCEPT !.fin = TRUE]
             n == [m EXCEPT !.unit[u] = r]
  <1>1. CASE m.unit[u].kind \in NoReturn
    BY <1>1, KeepsSelf DEF SaveReturn
  <1>2. CASE m.unit[u].kind \notin NoReturn
    <2>1. q \in UnitRec /\ q.kind = m.unit[u].kind /\ q.cur = m.unit[u].cur
      <3>1. m.unit[u] \in UnitRec
        BY UnitOK
      <3> QED BY <3>1, SetFlags
    <2>2. r \in UnitRec /\ r.kind = m.unit[u].kind /\ r.cur = m.unit[u].cur
      <3> HIDE DEF q
      <3> QED BY <2>1, SetFlags
    <2>3. SaveReturn(m, u) = n
      BY <1>2 DEF SaveReturn, StacksOK
    <2>4. n.handling = m.handling
      BY DEF StacksOK
    <2>5. Keeps(m, n)
      <3> HIDE DEF r
      <3> QED BY <2>2, SetUnitOK DEF Keeps
    <2> HIDE DEF n
    <2> QED BY <2>3, <2>4, <2>5
  <1> QED BY <1>1, <1>2

LEMMA StopUnitsOK ==
  ASSUME NEW m, StacksOK(m), NEW us, NEW b \in BOOLEAN
  PROVE  /\ Keeps(m, StopUnits(m, us, b))
         /\ StopUnits(m, us, b).handling = m.handling
         /\ StopUnits(m, us, b).exec = m.exec
         /\ DOMAIN StopUnits(m, us, b).unit = DOMAIN m.unit
  <1> DEFINE Stopped(r) == [r EXCEPT !.fin = TRUE, !.brk = r.brk \/ b]
             s == [u \in DOMAIN m.unit |->
                     IF u \in us THEN Stopped(m.unit[u]) ELSE m.unit[u]]
             n == [m EXCEPT !.unit = s]
  <1>1. ASSUME NEW r \in UnitRec
        PROVE  Stopped(r) \in UnitRec /\ Stopped(r).kind = r.kind /\ Stopped(r).cur = r.cur
    BY DEF UnitRec
  <1>2. \A u \in DOMAIN m.unit :
          s[u] \in UnitRec /\ s[u].kind = m.unit[u].kind /\ s[u].cur = m.unit[u].cur
    <2> HIDE DEF Stopped
    <2> QED BY <1>1, UnitOK
  <1>3. DOMAIN m.unit = 1..Len(m.unit) /\ Len(m.unit) \in Nat
    BY UnitOK, LenProperties
  <1>4. s \in [1..Len(m.unit) -> UnitRec]
    <2> HIDE DEF Stopped
    <2> QED BY <1>1, <1>3, UnitOK
  <1>5. s \in Seq(UnitRec) /\ DOMAIN s = DOMAIN m.unit
    <2> HIDE DEF s
    <2> QED BY <1>3, <1>4, SeqDef
  <1>6. /\ n.unit = s /\ n.exec = m.exec /\ n.tmp = m.tmp /\ n.handling = m.handling
        /\ n \in [exec : Seq(Nat), tmp : Seq(Nat), unit : Seq(UnitRec), handling : Nat]
    <2> HIDE DEF s
    <2> QED BY <1>5 DEF StacksOK
  <1>7. s # <<>> /\ s[Main].kind = "main"
    <2> HIDE DEF s
    <2> QED BY <1>2, <1>5, CurrentOK DEF StacksOK
  <1>8. StacksOK(n)
    <2> HIDE DEF s, n
    <2> QED BY <1>5, <1>6, <1>7 DEF StacksOK
  <1>9. Keeps(m, n)
    <2>1. \A u \in DOMAIN m.unit : m.unit[u].cur \in Nat
      BY UnitOK DEF UnitRec
    <2> HIDE DEF s, n
    <2> QED BY <1>2, <1>5, <1>6, <1>8, <2>1 DEF Keeps, KeepsBut
  <1>10. StopUnits(m, us, b) = n
    BY DEF StopUnits
  <1> HIDE DEF n, s
  <1> QED BY <1>5, <1>6, <1>9, <1>10

LEMMA PropagateBreakOK ==
  ASSUME NEW m, StacksOK(m), NEW u
  PROVE  /\ Keeps(m, PropagateBreak(m, u))
         /\ PropagateBreak(m, u).handling = m.handling
         /\ PropagateBreak(m, u).exec = m.exec
  BY StopUnitsOK, KeepsSelf DEF PropagateBreak

LEMMA CarryReturnOK ==
  ASSUME NEW m, StacksOK(m), NEW u \in DOMAIN m.unit, NEW r, NEW c
  PROVE  /\ Keeps(m, CarryReturn(m, r, c, u))
         /\ CarryReturn(m, r, c, u).handling = m.handling
  BY SaveReturnOK, KeepsSelf DEF CarryReturn

LEMMA AdvanceOK ==
  ASSUME NEW m, StacksOK(m), NEW u \in DOMAIN m.unit
  PROVE  /\ Keeps(m, Advance(m, u))
         /\ Advance(m, u).handling = m.handling
         /\ Advance(m, u).exec = m.exec
  <1> DEFINE r == [m.unit[u] EXCEPT !.cur = m.unit[u].cur + 1]
             n == [m EXCEPT !.unit[u] = r]
  <1>1. r \in UnitRec /\ r.kind = m.unit[u].kind /\ r.cur = m.unit[u].cur + 1
    <2>1. m.unit[u] \in UnitRec
      BY UnitOK
    <2>2. m.unit[u].cur + 1 \in Nat
      BY <2>1 DEF UnitRec
    <2> QED BY <2>1, <2>2, SetCursor
  <1>2. Keeps(m, n)
    <2> HIDE DEF r
    <2> QED BY <1>1, SetUnitOK DEF Keeps
  <1>3. n.handling = m.handling /\ n.exec = m.exec
    BY DEF StacksOK
  <1>4. Advance(m, u) = n
    BY DEF Advance
  <1> HIDE DEF n
  <1> QED BY <1>2, <1>3, <1>4

LEMMA RestoreOK ==
  ASSUME NEW m, StacksOK(m), NEW d \in Nat \ {0}
  PROVE  /\ Keeps(m, Restore(m, d))
         /\ Restore(m, d).handling = m.handling
  <1>1. CASE Len(m.exec) <= d
    BY <1>1, KeepsSelf DEF Restore
  <1>2. CASE ~(Len(m.exec) <= d)
    <2>1. d \in 1..Len(m.exec)
      BY <1>2, CurrentOK
    <2>2. Restore(m, d) = [m EXCEPT !.exec = SubSeq(@, 1, d)]
      BY <1>2 DEF Restore
    <2>3. [m EXCEPT !.exec = SubSeq(@, 1, d)].handling = m.handling
      BY DEF StacksOK
    <2> QED BY <2>1, <2>2, <2>3, CutOK
  <1> QED BY <1>1, <1>2

-----------------------------------------------------------------------------
(* Calls.                                                                  *)

\* Only the unit executed may start over, and only if no handled exception
\* is being resumed from.
LEMMA ExecuteOK ==
  ASSUME NEW m, StacksOK(m), NEW u \in DOMAIN m.unit, NEW own \in BOOLEAN
  PROVE  /\ KeepsBut(m, Execute(m, u, own), {u})
         /\ m.handling > 0 => Keeps(m, Execute(m, u, own))
         /\ Execute(m, u, own).handling = IF m.handling > 0 THEN m.handling - 1 ELSE 0
         /\ Execute(m, u, own).tmp = m.tmp
  <1> DEFINE e == IF own THEN EnterScope(m, u) ELSE m
  <1>1. /\ Keeps(m, e) /\ e.handling = m.handling /\ e.tmp = m.tmp
        /\ m.handling \in Nat /\ u \in DOMAIN e.unit
    BY EnterScopeOK, KeepsSelf DEF StacksOK
  <1>2. StacksOK(e) /\ KeepsBut(m, e, {u})
    BY <1>1 DEF Keeps, KeepsBut
  <1> HIDE DEF e
  <1>3. CASE m.handling > 0
    <2> DEFINE n == [e EXCEPT !.handling = @ - 1]
    <2>1. Execute(m, u, own) = n
      BY <1>3 DEF Execute, e
    <2>2. n.handling = m.handling - 1 /\ n.tmp = m.tmp
      BY <1>1, <1>2 DEF StacksOK
    <2>3. Keeps(e, n)
      <3>1. m.handling - 1 \in Nat /\ n = [e EXCEPT !.handling = m.handling - 1]
        BY <1>1, <1>3
      <3> HIDE DEF n
      <3> QED BY <1>2, <3>1, HandlingOK
    <2>4. Keeps(m, n)
      <3> HIDE DEF n
      <3> QED BY <1>1, <2>3, KeepsTransitive DEF Keeps
    <2>5. KeepsBut(m, n, {u})
      <3> HIDE DEF n
      <3> QED BY <2>4 DEF Keeps, KeepsBut
    <2> HIDE DEF n
    <2> QED BY <1>3, <2>1, <2>2, <2>4, <2>5
  <1>4. CASE ~(m.handling > 0) /\ m.unit[u].brk
    <2>1. Execute(m, u, own) = e
      BY <1>4 DEF Execute, e
    <2> QED BY <1>1, <1>2, <1>4, <2>1
  <1>5. CASE ~(m.handling > 0) /\ ~m.unit[u].brk
    <2> DEFINE r == [e.unit[u] EXCEPT !.cur = 0]
               n == [e EXCEPT !.unit[u] = r]
    <2>1. Execute(m, u, own) = n
      BY <1>5 DEF Execute, e
    <2>2. r \in UnitRec /\ r.kind = e.unit[u].kind
      <3>1. e.unit[u] \in UnitRec
        BY <1>1, <1>2, UnitOK
      <3> QED BY <3>1, SetCursor
    <2>3. n.handling = e.handling /\ n.tmp = e.tmp
      BY <1>2 DEF StacksOK
    <2>4. KeepsBut(e, n, {u})
      <3> HIDE DEF r
      <3> QED BY <1>1, <1>2, <2>2, SetUnitOK
    <2>5. KeepsBut(m, n, {u})
      <3> HIDE DEF n
      <3> QED BY <1>2, <2>4, KeepsTransitive
    <2> HIDE DEF n
    <2> QED BY <1>1, <1>5, <2>1, <2>3, <2>5
  <1> QED BY <1>3, <1>4, <1>5

LEMMA ExecuteFromOK ==
  ASSUME NEW m, StacksOK(m), m.handling = 0, NEW u \in DOMAIN m.unit
  PROVE  /\ KeepsBut(m, Execute(m, u, TRUE), {u}) /\ Execute(m, u, TRUE).handling = 0
         /\ KeepsBut(m, Execute(m, u, FALSE), {u}) /\ Execute(m, u, FALSE).handling = 0
  <1>1. ASSUME NEW own \in BOOLEAN
        PROVE  KeepsBut(m, Execute(m, u, own), {u}) /\ Execute(m, u, own).handling = 0
    BY ExecuteOK
  <1> QED BY <1>1

\* A copy is executed: every unit that existed keeps its place.
LEMMA InvokeOK ==
  ASSUME NEW m, StacksOK(m), NEW kind \in UnitKinds
  PROVE  /\ Keeps(m, Invoke(m, kind))
         /\ Invoke(m, kind).handling = IF m.handling > 0 THEN m.handling - 1 ELSE 0
         /\ Last(Invoke(m, kind).tmp) \in DOMAIN Invoke(m, kind).unit
  <1> DEFINE p == TmpCallable(m, kind)
             u == Last(p.tmp)
             n == Execute(p, u, TRUE)
  <1>1. Keeps(m, p) /\ u \in DOMAIN p.unit /\ u \notin DOMAIN m.unit /\ p.handling = m.handling
    BY TmpCallableOK
  <1>2. StacksOK(p)
    BY <1>1 DEF Keeps, KeepsBut
  <1>3. /\ KeepsBut(p, n, {u}) /\ n.tmp = p.tmp
        /\ n.handling = IF p.handling > 0 THEN p.handling - 1 ELSE 0
    <2> HIDE DEF p, u
    <2> QED BY <1>1, <1>2, ExecuteOK
  <1>4. Keeps(m, n)
    <2> HIDE DEF p, u, n
    <2>1. \A v \in DOMAIN m.unit :
            m.unit[v].cur \in Nat /\ p.unit[v].cur \in Nat /\ n.unit[v].cur \in Nat
      BY <1>1, <1>3, UnitOK DEF Keeps, KeepsBut, UnitRec
    <2> QED BY <1>1, <1>3, <2>1 DEF Keeps, KeepsBut
  <1>5. Invoke(m, kind) = n
    BY DEF Invoke
  <1>6. Last(n.tmp) \in DOMAIN n.unit
    <2> HIDE DEF p, n
    <2> QED BY <1>1, <1>3 DEF KeepsBut
  <1> HIDE DEF n
  <1> QED BY <1>1, <1>3, <1>4, <1>5, <1>6

-----------------------------------------------------------------------------
(* The inductive invariant.                                                *)

\* What a native frame refers to exists: the unit it executes or waits to
\* enter, the body a loop owns, the tasks a pass has yet to start.
FrameOK(c, us, ts) ==
  /\ c.k \in {"exec", "iter", "loop", "args", "iterable", "init"} => c.u \in DOMAIN us
  /\ c.k = "init" => c.n \in DOMAIN us /\ us[c.n].kind \in {"body", "freed"}
  /\ c.k \in {"loop", "iterable"} => us[c.u].kind \in {"body", "freed"}
  /\ c.k = "pass" => c.n <= c.u /\ c.u <= Len(ts)

\* A catch body is executed by run() itself, at the bottom of the native stack.
NativeOK(cs, us, ts, ph) ==
  /\ cs \in Seq(ContRec)
  /\ \A i \in DOMAIN cs :
       /\ FrameOK(cs[i], us, ts)
       /\ cs[i].k = "catch" => i = 1 /\ ph \in {"run", "undefined"}

RestOK ==
  /\ handlers \in Seq(HandlerRec)
  /\ objs \in Int
  /\ stopped \in BOOLEAN
  /\ known \in Nat /\ tasks \in Seq(1..known) /\ ran \in Seq(1..known)
  /\ phase \in Phases
  /\ fuel \in Nat /\ line \in Nat
  /\ over \in BOOLEAN

IInv ==
  /\ StacksOK(Stacks)
  /\ RestOK
  /\ NativeOK(cont, unit, tasks, phase)
  /\ FlagConsumed

LEMMA FrontCont ==
  \A s \in Seq(ContRec) : s # <<>> =>
     /\ Front(s) \in Seq(ContRec) /\ Len(s) \in Nat \ {0}
     /\ DOMAIN s = 1..Len(s) /\ DOMAIN Front(s) = 1..(Len(s) - 1)
     /\ \A i \in 1..(Len(s) - 1) : Front(s)[i] = s[i]
     /\ Last(s) = s[Len(s)]
  <1> SUFFICES ASSUME NEW s \in Seq(ContRec), s # <<>>
               PROVE  /\ Front(s) \in Seq(ContRec) /\ Len(s) \in Nat \ {0}
                      /\ DOMAIN s = 1..Len(s) /\ DOMAIN Front(s) = 1..(Len(s) - 1)
                      /\ \A i \in 1..(Len(s) - 1) : Front(s)[i] = s[i]
                      /\ Last(s) = s[Len(s)]
    OBVIOUS
  <1>1. /\ Front(s) \in Seq(ContRec) /\ Len(Front(s)) = Len(s) - 1
        /\ \A i \in 1..(Len(s) - 1) : Front(s)[i] = s[i]
        /\ Last(s) = s[Len(s)]
    BY FrontLast
  <1>2. Len(s) \in Nat \ {0} /\ DOMAIN s = 1..Len(s)
    BY EmptySeq, LenProperties
  <1> HIDE DEF Front
  <1>3. DOMAIN Front(s) = 1..Len(Front(s))
    BY <1>1, LenProperties
  <1> QED BY <1>1, <1>2, <1>3

LEMMA NativeEmpty ==
  ASSUME NEW us, NEW ts, NEW ph
  PROVE  NativeOK(<<>>, us, ts, ph)
  BY EmptySeq DEF NativeOK

LEMMA NativeKept ==
  ASSUME NEW cs, NEW us, NEW ts, NEW ph, NativeOK(cs, us, ts, ph),
         NEW vs, DOMAIN us \subseteq DOMAIN vs,
         \A u \in DOMAIN us : vs[u].kind \in {us[u].kind, "freed"},
         NEW qs, Len(ts) \in Nat, Len(qs) \in Nat, Len(ts) <= Len(qs),
         NEW pi, ph \in {"run", "undefined"} => pi \in {"run", "undefined"}
  PROVE  NativeOK(cs, vs, qs, pi)
  <1>1. \A i \in DOMAIN cs : cs[i] \in ContRec
    BY ElementOfSeq, LenProperties DEF NativeOK
  <1>2. ASSUME NEW i \in DOMAIN cs
        PROVE  FrameOK(cs[i], vs, qs)
    <2>1. FrameOK(cs[i], us, ts) /\ cs[i].u \in Nat /\ cs[i].n \in Nat
      BY <1>1 DEF NativeOK, ContRec
    <2> QED BY <2>1 DEF FrameOK
  <1> QED BY <1>2 DEF NativeOK

LEMMA NativePush ==
  ASSUME NEW cs, NEW us, NEW ts, NEW ph, NativeOK(cs, us, ts, ph),
         NEW c \in ContRec, FrameOK(c, us, ts),
         c.k = "catch" => cs = <<>> /\ ph \in {"run", "undefined"}
  PROVE  NativeOK(Append(cs, c), us, ts, ph)
  <1>1. \A s \in Seq(ContRec), e \in ContRec :
          /\ Append(s, e) \in Seq(ContRec)
          /\ Len(s) \in Nat /\ DOMAIN s = 1..Len(s)
          /\ DOMAIN Append(s, e) = 1..(Len(s) + 1)
          /\ \A i \in 1..Len(s) : Append(s, e)[i] = s[i]
          /\ Append(s, e)[Len(s) + 1] = e
    BY AppendOK
  <1>2. /\ cs \in Seq(ContRec) /\ Append(cs, c) \in Seq(ContRec)
        /\ Len(cs) \in Nat /\ DOMAIN cs = 1..Len(cs)
        /\ DOMAIN Append(cs, c) = 1..(Len(cs) + 1)
        /\ \A i \in 1..Len(cs) : Append(cs, c)[i] = cs[i]
        /\ Append(cs, c)[Len(cs) + 1] = c
    BY <1>1 DEF NativeOK
  <1>3. cs = <<>> => Len(cs) = 0
    BY EmptySeq
  <1>4. ASSUME NEW i \in DOMAIN Append(cs, c)
        PROVE  /\ FrameOK(Append(cs, c)[i], us, ts)
               /\ Append(cs, c)[i].k = "catch" => i = 1 /\ ph \in {"run", "undefined"}
    <2>1. CASE i \in 1..Len(cs)
      BY <1>2, <2>1 DEF NativeOK
    <2>2. CASE i = Len(cs) + 1
      BY <1>2, <1>3, <2>2
    <2> QED BY <1>2, <2>1, <2>2
  <1> QED BY <1>2, <1>4 DEF NativeOK

LEMMA NativePop ==
  ASSUME NEW cs, NEW us, NEW ts, NEW ph, NativeOK(cs, us, ts, ph), cs # <<>>
  PROVE  /\ NativeOK(Front(cs), us, ts, ph)
         /\ Last(cs) \in ContRec /\ FrameOK(Last(cs), us, ts)
         /\ Last(cs).k = "catch" => Front(cs) = <<>> /\ ph \in {"run", "undefined"}
  <1>1. /\ Front(cs) \in Seq(ContRec) /\ Len(cs) \in Nat \ {0}
        /\ DOMAIN cs = 1..Len(cs) /\ DOMAIN Front(cs) = 1..(Len(cs) - 1)
        /\ \A i \in 1..(Len(cs) - 1) : Front(cs)[i] = cs[i]
        /\ Last(cs) = cs[Len(cs)] /\ cs[Len(cs)] \in ContRec
    <2>1. cs \in Seq(ContRec)
      BY DEF NativeOK
    <2> QED BY <2>1, FrontCont, ElementOfSeq
  <1> HIDE DEF Front, Last
  <1>2. NativeOK(Front(cs), us, ts, ph)
    <2>1. \A i \in DOMAIN Front(cs) : i \in DOMAIN cs /\ Front(cs)[i] = cs[i]
      BY <1>1
    <2> QED BY <1>1, <2>1 DEF NativeOK
  <1>3. Len(cs) = 1 => Front(cs) = <<>>
    <2>1. Len(Front(cs)) \in Nat /\ DOMAIN Front(cs) = 1..Len(Front(cs))
      BY <1>1, LenProperties
    <2>2. Len(cs) = 1 => Len(Front(cs)) = 0
      BY <1>1, <2>1
    <2> QED BY <1>1, <2>2, EmptySeq
  <1> QED BY <1>1, <1>2, <1>3 DEF NativeOK

LEMMA PushTwo ==
  ASSUME NEW s \in Seq(ContRec), NEW a \in ContRec, NEW b \in ContRec
  PROVE  s \o <<a, b>> = Append(Append(s, a), b)
  OBVIOUS

LEMMA KindsAreNamed ==
  /\ "exec" \in ContKinds /\ "iter" \in ContKinds /\ "try" \in ContKinds
  /\ "loop" \in ContKinds /\ "each" \in ContKinds /\ "use" \in ContKinds
  /\ "catch" \in ContKinds /\ "pass" \in ContKinds
  /\ "args" \in ContKinds /\ "iterable" \in ContKinds /\ "init" \in ContKinds
BY DEF ContKinds

LEMMA FramesAreRecords ==
  ASSUME NEW k \in ContKinds, NEW u \in Nat, NEW n \in Nat
  PROVE  /\ Cont(k, u, n) \in ContRec
         /\ Cont(k, u, n).k = k /\ Cont(k, u, n).u = u /\ Cont(k, u, n).n = n
  BY DEF Cont, ContRec

-----------------------------------------------------------------------------
(* What the actions have in common.                                        *)

\* An action that moves the stacks only forward.
LEMMA MoveOK ==
  ASSUME IInv, NEW m, Become(m), Keeps(Stacks, m), m.handling = 0,
         RestOK', NativeOK(cont', m.unit, tasks', phase')
  PROVE  IInv' /\ GoesForward
  <1>1. StacksOK(m) /\ m \in [exec : Seq(Nat), tmp : Seq(Nat), unit : Seq(UnitRec), handling : Nat]
    BY DEF Keeps, KeepsBut, StacksOK
  <1>2. m = [exec |-> exec', tmp |-> tmp', unit |-> unit', handling |-> handling']
    BY <1>1 DEF Become
  <1>3. StacksOK(Stacks')
    BY <1>1, <1>2 DEF Stacks
  <1>4. unit' = m.unit /\ handling' = 0
    BY DEF Become
  <1>5. StacksOK(Stacks)' /\ NativeOK(cont, unit, tasks, phase)' /\ FlagConsumed'
    BY <1>3, <1>4 DEF FlagConsumed
  <1>6. GoesForward
    BY <1>4 DEF GoesForward, Keeps, KeepsBut, Stacks
  <1> QED BY <1>5, <1>6 DEF IInv

\* An action that leaves the stacks alone.
LEMMA StayOK ==
  ASSUME IInv, UNCHANGED stacks, RestOK', NativeOK(cont', unit, tasks', phase'), FlagConsumed'
  PROVE  IInv' /\ GoesForward
  <1>1. StacksOK(Stacks)' /\ NativeOK(cont, unit, tasks, phase)'
    BY DEF IInv, stacks, Stacks
  <1>2. \A u \in DOMAIN unit : unit[u].cur \in Nat
    BY UnitOK DEF IInv, Stacks, UnitRec
  <1> QED BY <1>1, <1>2 DEF IInv, GoesForward, stacks

LEMMA GoneOK ==
  ASSUME IInv, phase' = "undefined", over' \in BOOLEAN,
         UNCHANGED <<stacks, handlers, objs, stopped, tasks, known, ran, cont, fuel, line>>
  PROVE  IInv' /\ GoesForward
  <1>1. RestOK'
    BY DEF IInv, RestOK, Phases
  <1>2. Len(tasks) \in Nat
    BY LenProperties DEF IInv, RestOK
  <1>3. NativeOK(cont', unit, tasks', phase')
    <2>1. NativeOK(cont, unit, tasks, "undefined")
      BY <1>2, NativeKept DEF IInv
    <2> QED BY <2>1
  <1>4. FlagConsumed'
    BY DEF IInv, FlagConsumed, stacks
  <1>5. UNCHANGED stacks
    BY DEF stacks
  <1> QED BY <1>1, <1>3, <1>4, <1>5, StayOK

LEMMA UndefinedOK ==
  ASSUME IInv, Undefined
  PROVE  IInv' /\ GoesForward
  <1>1. over' \in BOOLEAN
    BY DEF IInv, RestOK, Undefined
  <1> QED BY <1>1, GoneOK DEF Undefined

\* While a native frame is active no handled exception is pending.
LEMMA Busy ==
  ASSUME IInv, cont # <<>>
  PROVE  /\ handling = 0 /\ Stacks.handling = 0
         /\ TopCont \in ContRec /\ FrameOK(TopCont, unit, tasks)
         /\ NativeOK(Front(cont), unit, tasks, phase)
         /\ Len(tasks) \in Nat /\ StacksOK(Stacks)
  <1>1. handling = 0 /\ Stacks.handling = handling
    <2>1. handling \in Nat
      BY DEF IInv, StacksOK, Stacks
    <2> QED BY <2>1 DEF IInv, FlagConsumed, Stacks
  <1>2. Len(tasks) \in Nat
    BY LenProperties DEF IInv, RestOK
  <1> QED BY <1>1, <1>2, NativePop DEF IInv, TopCont

LEMMA EvaluatedOK ==
  ASSUME IInv, NEW kind, CanEvaluate(kind)
  PROVE  /\ Keeps(Stacks, Evaluated) /\ Evaluated.handling = 0 /\ Evaluated.exec = exec
         /\ StacksOK(Evaluated)
         /\ cont # <<>> /\ fuel - 1 \in Nat
  <1>1. cont # <<>> /\ TopCont.k \in {"exec", "iter", "loop", "args", "iterable", "init"}
    BY DEF CanEvaluate
  <1>2. /\ TopCont.u \in DOMAIN unit /\ StacksOK(Stacks) /\ Stacks.handling = 0
        /\ Stacks.unit = unit /\ Stacks.exec = exec
    BY <1>1, Busy DEF FrameOK, Stacks
  <1>3. Keeps(Stacks, Evaluated) /\ Evaluated.handling = 0 /\ Evaluated.exec = exec
    <2> HIDE DEF Stacks, TopCont
    <2>1. /\ Keeps(Stacks, Advance(Stacks, TopCont.u))
          /\ Advance(Stacks, TopCont.u).handling = 0
          /\ Advance(Stacks, TopCont.u).exec = exec
      BY <1>2, AdvanceOK
    <2> QED BY <1>2, <2>1, KeepsSelf DEF Evaluated
  <1>4. fuel - 1 \in Nat
    BY DEF CanEvaluate, IInv, RestOK
  <1> QED BY <1>1, <1>3, <1>4 DEF Keeps, KeepsBut

LEMMA NativeExec ==
  ASSUME NEW cs, NEW us, NEW ts, NEW ph, NativeOK(cs, us, ts, ph),
         NEW u \in DOMAIN us, u \in Nat
  PROVE  NativeOK(Append(cs, Cont("exec", u, 0)), us, ts, ph)
  <1> DEFINE e == Cont("exec", u, 0)
  <1>1. e \in ContRec /\ e.k = "exec" /\ e.u = u
    BY FramesAreRecords, KindsAreNamed
  <1>2. FrameOK(e, us, ts)
    BY <1>1 DEF FrameOK
  <1> HIDE DEF e
  <1> QED BY <1>1, <1>2, NativePush DEF e

\* Two native frames are pushed: one that waits for the other.
LEMMA NativeTwo ==
  ASSUME NEW cs, NEW us, NEW ts, NEW ph, NativeOK(cs, us, ts, ph),
         NEW c \in ContRec, FrameOK(c, us, ts),
         c.k = "catch" => cs = <<>> /\ ph \in {"run", "undefined"},
         NEW e \in ContRec, FrameOK(e, us, ts), e.k # "catch"
  PROVE  NativeOK(cs \o <<c, e>>, us, ts, ph)
  <1>1. NativeOK(Append(cs, c), us, ts, ph)
    BY NativePush
  <1>2. NativeOK(Append(Append(cs, c), e), us, ts, ph)
    BY <1>1, NativePush
  <1>3. cs \in Seq(ContRec)
    BY DEF NativeOK
  <1>4. cs \o <<c, e>> = Append(Append(cs, c), e)
    BY <1>3, PushTwo
  <1> QED BY <1>2, <1>4

LEMMA NativeCall ==
  ASSUME NEW cs, NEW us, NEW ts, NEW ph, NativeOK(cs, us, ts, ph),
         NEW c \in ContRec, FrameOK(c, us, ts),
         c.k = "catch" => cs = <<>> /\ ph \in {"run", "undefined"},
         NEW u \in DOMAIN us, u \in Nat
  PROVE  NativeOK(cs \o <<c, Cont("exec", u, 0)>>, us, ts, ph)
  <1> DEFINE e == Cont("exec", u, 0)
  <1>1. e \in ContRec /\ e.k = "exec" /\ e.u = u
    BY FramesAreRecords, KindsAreNamed
  <1>2. FrameOK(e, us, ts)
    BY <1>1 DEF FrameOK
  <1> HIDE DEF e
  <1>3. NativeOK(cs \o <<c, e>>, us, ts, ph)
    BY <1>1, <1>2, NativeTwo
  <1> QED BY <1>3 DEF e

\* The native stack after the stacks moved.
LEMMA NativeMoved ==
  ASSUME NEW cs, NEW m, NEW n, NEW ts, NEW ph,
         NativeOK(cs, m.unit, ts, ph), Keeps(m, n), Len(ts) \in Nat
  PROVE  NativeOK(cs, n.unit, ts, ph)
  BY NativeKept DEF Keeps, KeepsBut

\* A unit pushed on a stack is a natural number.
LEMMA UnitIsNat ==
  ASSUME NEW m, StacksOK(m), NEW u \in DOMAIN m.unit
  PROVE  u \in Nat
  BY UnitOK, LenProperties DEF StacksOK

\* The stacks after whatever the evaluation of an expression does to them.
LEMMA EvaluationOK ==
  ASSUME IInv, NEW kind, CanEvaluate(kind), NEW m, Keeps(Evaluated, m)
  PROVE  /\ Keeps(Stacks, m) /\ StacksOK(m)
         /\ NativeOK(cont, m.unit, tasks, phase)
  <1>1. Keeps(Stacks, Evaluated) /\ StacksOK(Stacks) /\ cont # <<>>
    BY EvaluatedOK DEF IInv
  <1>2. Keeps(Stacks, m) /\ StacksOK(m)
    <2> HIDE DEF Stacks, Evaluated
    <2>1. Keeps(Stacks, m)
      BY <1>1, KeepsTransitive DEF Keeps
    <2> QED BY <2>1 DEF Keeps, KeepsBut
  <1>3. NativeOK(cont, Stacks.unit, tasks, phase) /\ Len(tasks) \in Nat
    BY <1>1, Busy DEF IInv, Stacks
  <1> QED BY <1>2, <1>3, NativeMoved

-----------------------------------------------------------------------------
(* The actions that call a unit.                                           *)

\* A unit invoked from any well-formed stacks.
LEMMA InvokedOK ==
  ASSUME NEW m, StacksOK(m), m.handling = 0, NEW kind \in UnitKinds
  PROVE  /\ Keeps(m, Invoke(m, kind)) /\ Invoke(m, kind).handling = 0
         /\ Last(Invoke(m, kind).tmp) \in DOMAIN Invoke(m, kind).unit
         /\ Last(Invoke(m, kind).tmp) \in Nat
  <1>1. Keeps(m, Invoke(m, kind)) /\ Invoke(m, kind).handling = 0
        /\ Last(Invoke(m, kind).tmp) \in DOMAIN Invoke(m, kind).unit
    BY InvokeOK
  <1>2. StacksOK(Invoke(m, kind))
    BY <1>1 DEF Keeps, KeepsBut
  <1> QED BY <1>1, <1>2, UnitIsNat

LEMMA CallKeeps ==
  ASSUME IInv, NEW kind \in Callables, Call(kind)
  PROVE  IInv' /\ GoesForward
  <1> DEFINE m == Invoke(Evaluated, kind)
             u == Last(m.tmp)
  <1>1. Evaluated.handling = 0 /\ StacksOK(Evaluated) /\ fuel - 1 \in Nat
    BY EvaluatedOK DEF Call
  <1>2. kind \in UnitKinds
    BY DEF Callables, UnitKinds
  <1>3. Keeps(Evaluated, m) /\ m.handling = 0 /\ u \in DOMAIN m.unit /\ u \in Nat
    BY <1>1, <1>2, InvokedOK
  <1>4. /\ Become(m) /\ cont' = Append(cont, Cont("exec", u, 0)) /\ fuel' = fuel - 1
        /\ CanEvaluate(kind)
        /\ UNCHANGED <<handlers, objs, stopped, tasks, known, ran, phase, line, over>>
    BY DEF Call, Burn
  <1> HIDE DEF m
  <1>5. Keeps(Stacks, m) /\ NativeOK(cont, m.unit, tasks, phase)
    BY <1>3, <1>4, EvaluationOK
  <1>6. NativeOK(cont', m.unit, tasks', phase')
    BY <1>3, <1>4, <1>5, NativeExec
  <1>7. RestOK'
    BY <1>1, <1>4 DEF IInv, RestOK
  <1> QED BY <1>3, <1>4, <1>5, <1>6, <1>7, MoveOK

\* A copy is made, and a copy is entered.
LEMMA OpenedOK ==
  ASSUME NEW m, StacksOK(m), m.handling = 0, NEW kind \in UnitKinds
  PROVE  LET p == TmpCallable(m, kind) IN
         /\ Keeps(m, p) /\ StacksOK(p) /\ p.handling = 0
         /\ Last(p.tmp) \in DOMAIN p.unit /\ Last(p.tmp) \in Nat
         /\ p.unit[Last(p.tmp)].kind = kind
  <1> DEFINE p == TmpCallable(m, kind)
  <1>1. /\ Keeps(m, p) /\ p.handling = 0 /\ Last(p.tmp) \in DOMAIN p.unit
    BY TmpCallableOK
  <1>2. StacksOK(p)
    BY <1>1 DEF Keeps, KeepsBut
  <1>3. Last(p.tmp) \in Nat
    <2> HIDE DEF p
    <2> QED BY <1>1, <1>2, UnitIsNat
  <1>4. p.unit[Last(p.tmp)].kind = kind
    BY TmpCallableOK
  <1> HIDE DEF p
  <1> QED BY <1>1, <1>2, <1>3, <1>4 DEF p

LEMMA EnteredOK ==
  ASSUME NEW m, StacksOK(m), m.handling = 0, NEW u \in DOMAIN m.unit
  PROVE  /\ Keeps(m, EnterScope(m, u)) /\ StacksOK(EnterScope(m, u))
         /\ EnterScope(m, u).handling = 0
         /\ DOMAIN EnterScope(m, u).unit = DOMAIN m.unit
  <1>1. /\ Keeps(m, EnterScope(m, u)) /\ EnterScope(m, u).handling = 0
        /\ DOMAIN EnterScope(m, u).unit = DOMAIN m.unit
    BY EnterScopeOK
  <1> QED BY <1>1 DEF Keeps, KeepsBut

\* The native frame of a unit that was copied and waits for its arguments.
LEMMA WaitingOK ==
  ASSUME NEW us, NEW ts, NEW u \in DOMAIN us, u \in Nat
  PROVE  LET c == Cont("args", u, 0) IN c \in ContRec /\ c.k = "args" /\ FrameOK(c, us, ts)
  <1> DEFINE c == Cont("args", u, 0)
  <1>1. c \in ContRec /\ c.k = "args" /\ c.u = u
    BY FramesAreRecords, KindsAreNamed
  <1> HIDE DEF c
  <1>2. FrameOK(c, us, ts)
    BY <1>1 DEF FrameOK
  <1> QED BY <1>1, <1>2 DEF c

LEMMA CallFunctionKeeps ==
  ASSUME IInv, CallFunction
  PROVE  IInv' /\ GoesForward
  <1> DEFINE m == TmpCallable(Evaluated, "fn")
             u == Last(m.tmp)
             c == Cont("args", u, 0)
  <1>1. Evaluated.handling = 0 /\ StacksOK(Evaluated) /\ fuel - 1 \in Nat
    BY EvaluatedOK DEF CallFunction
  <1>2. Keeps(Evaluated, m) /\ m.handling = 0 /\ u \in DOMAIN m.unit /\ u \in Nat
    <2> HIDE DEF Evaluated
    <2> QED BY <1>1, OpenedOK DEF UnitKinds
  <1>3. /\ Become(m) /\ cont' = Append(cont, c) /\ fuel' = fuel - 1
        /\ CanEvaluate("fn")
        /\ UNCHANGED <<handlers, objs, stopped, tasks, known, ran, phase, line, over>>
    BY DEF CallFunction, Burn
  <1> HIDE DEF m
  <1>4. c \in ContRec /\ c.k = "args" /\ FrameOK(c, m.unit, tasks)
    BY <1>2, WaitingOK
  <1> HIDE DEF c, u
  <1>5. Keeps(Stacks, m) /\ NativeOK(cont, m.unit, tasks, phase)
    BY <1>2, <1>3, EvaluationOK
  <1>6. NativeOK(cont', m.unit, tasks', phase')
    BY <1>3, <1>4, <1>5, NativePush
  <1>7. RestOK'
    BY <1>1, <1>3 DEF IInv, RestOK
  <1> QED BY <1>2, <1>3, <1>5, <1>6, <1>7, MoveOK

LEMMA AccessKeeps ==
  ASSUME IInv, Access
  PROVE  IInv' /\ GoesForward
  <1> DEFINE m == TmpCallable(Evaluated, "fn")
             u == Last(m.tmp)
             c == Cont("use", 0, 0)
             e == Cont("args", u, 0)
  <1>1. Evaluated.handling = 0 /\ StacksOK(Evaluated) /\ fuel - 1 \in Nat
    BY EvaluatedOK DEF Access
  <1>2. Keeps(Evaluated, m) /\ m.handling = 0 /\ u \in DOMAIN m.unit /\ u \in Nat
    <2> HIDE DEF Evaluated
    <2> QED BY <1>1, OpenedOK DEF UnitKinds
  <1>3. c \in ContRec /\ c.k = "use"
    BY FramesAreRecords, KindsAreNamed
  <1>4. /\ Become(m) /\ cont' = cont \o <<c, e>> /\ fuel' = fuel - 1
        /\ CanEvaluate("access") /\ objs' = objs + 1
        /\ UNCHANGED <<handlers, stopped, tasks, known, ran, phase, line, over>>
    BY DEF Access, Burn
  <1> HIDE DEF m
  <1>5. e \in ContRec /\ e.k = "args" /\ FrameOK(e, m.unit, tasks)
    BY <1>2, WaitingOK
  <1> HIDE DEF c, e, u
  <1>6. Keeps(Stacks, m) /\ NativeOK(cont, m.unit, tasks, phase)
    BY <1>2, <1>4, EvaluationOK
  <1>7. NativeOK(cont', m.unit, tasks', phase')
    <2>1. FrameOK(c, m.unit, tasks)
      BY <1>3 DEF FrameOK
    <2> QED BY <1>3, <1>4, <1>5, <1>6, <2>1, NativeTwo
  <1>8. RestOK'
    BY <1>1, <1>4 DEF IInv, RestOK
  <1> QED BY <1>2, <1>4, <1>6, <1>7, <1>8, MoveOK

LEMMA HandlerAppend ==
  ASSUME NEW hs \in Seq(HandlerRec), NEW d \in Nat \ {0}, NEW l \in Nat
  PROVE  Append(hs, [depth |-> d, line |-> l]) \in Seq(HandlerRec)
  <1>1. [depth |-> d, line |-> l] \in HandlerRec
    BY DEF HandlerRec
  <1> QED BY <1>1, AppendOK

LEMMA TryCatchKeeps ==
  ASSUME IInv, TryCatch
  PROVE  IInv' /\ GoesForward
  <1> DEFINE m == Invoke(Evaluated, "try")
             u == Last(m.tmp)
             c == Cont("try", 0, Len(exec))
  <1>1. Evaluated.handling = 0 /\ StacksOK(Evaluated) /\ fuel - 1 \in Nat
    BY EvaluatedOK DEF TryCatch
  <1>2. Keeps(Evaluated, m) /\ m.handling = 0 /\ u \in DOMAIN m.unit /\ u \in Nat
    BY <1>1, InvokedOK DEF UnitKinds
  <1>3. Len(exec) \in Nat \ {0}
    BY CurrentOK DEF IInv, Stacks
  <1>4. c \in ContRec /\ c.k = "try"
    BY <1>3, FramesAreRecords, KindsAreNamed
  <1>5. /\ Become(m) /\ cont' = cont \o <<c, Cont("exec", u, 0)>> /\ fuel' = fuel - 1
        /\ CanEvaluate("try")
        /\ handlers' = Append(handlers, [depth |-> Len(exec), line |-> line])
        /\ UNCHANGED <<objs, stopped, tasks, known, ran, phase, line, over>>
    BY DEF TryCatch, Burn
  <1> HIDE DEF m, c
  <1>6. Keeps(Stacks, m) /\ NativeOK(cont, m.unit, tasks, phase)
    BY <1>2, <1>5, EvaluationOK
  <1>7. NativeOK(cont', m.unit, tasks', phase')
    <2>1. FrameOK(c, m.unit, tasks)
      BY <1>4 DEF FrameOK
    <2> QED BY <1>2, <1>4, <1>5, <1>6, <2>1, NativeCall
  <1>8. RestOK'
    <2>1. handlers' \in Seq(HandlerRec)
      BY <1>3, <1>5, HandlerAppend DEF IInv, RestOK
    <2> QED BY <1>1, <1>5, <2>1 DEF IInv, RestOK
  <1> QED BY <1>2, <1>5, <1>6, <1>7, <1>8, MoveOK

LEMMA EachNextKeeps ==
  ASSUME IInv, EachNext
  PROVE  IInv' /\ GoesForward
  <1> DEFINE m == Invoke(Stacks, "fn")
             u == Last(m.tmp)
  <1>1. StacksOK(Stacks) /\ Stacks.handling = 0 /\ Len(tasks) \in Nat /\ fuel - 1 \in Nat
    BY Busy DEF EachNext, In, IInv, RestOK
  <1>2. Keeps(Stacks, m) /\ m.handling = 0 /\ u \in DOMAIN m.unit /\ u \in Nat
    BY <1>1, InvokedOK DEF UnitKinds
  <1>3. /\ Become(m) /\ cont' = Append(cont, Cont("exec", u, 0)) /\ fuel' = fuel - 1
        /\ UNCHANGED <<handlers, objs, stopped, tasks, known, ran, phase, line, over>>
    BY DEF EachNext, Burn
  <1>4. NativeOK(cont, Stacks.unit, tasks, phase)
    BY DEF IInv, Stacks
  <1> HIDE DEF m
  <1>5. NativeOK(cont, m.unit, tasks, phase)
    BY <1>1, <1>2, <1>4, NativeMoved
  <1>6. NativeOK(cont', m.unit, tasks', phase')
    BY <1>2, <1>3, <1>5, NativeExec
  <1>7. RestOK'
    BY <1>1, <1>3 DEF IInv, RestOK
  <1> QED BY <1>2, <1>3, <1>6, <1>7, MoveOK

LEMMA PassNextKeeps ==
  ASSUME IInv, PassNext
  PROVE  IInv' /\ GoesForward
  <1> DEFINE m == Invoke(Stacks, "fn")
             u == Last(m.tmp)
             c == Cont("pass", TopCont.u, TopCont.n + 1)
  <1>1. /\ cont # <<>> /\ TopCont.k = "pass" /\ TopCont.n < TopCont.u
        /\ StacksOK(Stacks) /\ Stacks.handling = 0 /\ Len(tasks) \in Nat
        /\ TopCont \in ContRec /\ FrameOK(TopCont, unit, tasks)
        /\ NativeOK(Front(cont), Stacks.unit, tasks, phase)
    BY Busy DEF PassNext, In, Stacks
  <1>2. Keeps(Stacks, m) /\ m.handling = 0 /\ u \in DOMAIN m.unit /\ u \in Nat
    BY <1>1, InvokedOK DEF UnitKinds
  <1>3. /\ Become(m) /\ cont' = Front(cont) \o <<c, Cont("exec", u, 0)>>
        /\ ran' = Append(ran, tasks[TopCont.n + 1])
        /\ UNCHANGED <<handlers, objs, stopped, tasks, known, phase, fuel, line, over>>
    BY DEF PassNext
  <1>4. /\ TopCont.u \in Nat /\ TopCont.n \in Nat /\ TopCont.u <= Len(tasks)
    BY <1>1 DEF ContRec, FrameOK
  <1>5. c \in ContRec /\ c.k = "pass" /\ c.u = TopCont.u /\ c.n = TopCont.n + 1
    <2>1. TopCont.u \in Nat /\ TopCont.n + 1 \in Nat
      BY <1>4
    <2> HIDE DEF TopCont
    <2> QED BY <2>1, FramesAreRecords, KindsAreNamed
  <1> HIDE DEF m, c, TopCont
  <1>6. NativeOK(Front(cont), m.unit, tasks, phase)
    <2> HIDE DEF Front, Stacks
    <2> QED BY <1>1, <1>2, NativeMoved
  <1>7. NativeOK(cont', m.unit, tasks', phase')
    <2>1. FrameOK(c, m.unit, tasks)
      BY <1>1, <1>4, <1>5 DEF FrameOK
    <2>2. NativeOK(Front(cont) \o <<c, Cont("exec", u, 0)>>, m.unit, tasks, phase)
      <3> HIDE DEF Front
      <3> QED BY <1>2, <1>5, <1>6, <2>1, NativeCall
    <2> QED BY <1>3, <2>2
  <1>8. RestOK'
    <2>1. tasks[TopCont.n + 1] \in 1..known
      <3>1. tasks \in Seq(1..known) /\ TopCont.n + 1 \in 1..Len(tasks)
        BY <1>1, <1>4 DEF IInv, RestOK
      <3> QED BY <3>1, ElementOfSeq
    <2>2. ran' \in Seq(1..known)
      <3>1. ran \in Seq(1..known)
        BY DEF IInv, RestOK
      <3> QED BY <1>3, <2>1, <3>1, AppendOK
    <2> QED BY <1>3, <2>2 DEF IInv, RestOK
  <1> QED BY <1>2, <1>3, <1>7, <1>8, MoveOK

-----------------------------------------------------------------------------
(* Loops.                                                                  *)

LEMMA ForEachKeeps ==
  ASSUME IInv, ForEach
  PROVE  IInv' /\ GoesForward
  <1> DEFINE m == TmpCallable(Evaluated, "body")
             u == Last(m.tmp)
             c == Cont("iterable", u, 0)
  <1>1. Evaluated.handling = 0 /\ StacksOK(Evaluated) /\ fuel - 1 \in Nat
    BY EvaluatedOK DEF ForEach
  <1>2. /\ Keeps(Evaluated, m) /\ m.handling = 0
        /\ u \in DOMAIN m.unit /\ u \in Nat /\ m.unit[u].kind = "body"
    <2> HIDE DEF Evaluated
    <2> QED BY <1>1, OpenedOK DEF UnitKinds
  <1>3. /\ Become(m) /\ cont' = Append(cont, c) /\ fuel' = fuel - 1
        /\ CanEvaluate("foreach")
        /\ UNCHANGED <<handlers, objs, stopped, tasks, known, ran, phase, line, over>>
    BY DEF ForEach, Burn
  <1>4. c \in ContRec /\ c.k = "iterable" /\ c.u = u
    BY <1>2, FramesAreRecords, KindsAreNamed
  <1> HIDE DEF m, c, u
  <1>5. Keeps(Stacks, m) /\ NativeOK(cont, m.unit, tasks, phase)
    BY <1>2, <1>3, EvaluationOK
  <1>6. NativeOK(cont', m.unit, tasks', phase')
    <2>1. FrameOK(c, m.unit, tasks)
      BY <1>2, <1>4 DEF FrameOK
    <2> QED BY <1>3, <1>4, <1>5, <2>1, NativePush
  <1>7. RestOK'
    BY <1>1, <1>3 DEF IInv, RestOK
  <1> QED BY <1>2, <1>3, <1>5, <1>6, <1>7, MoveOK

LEMMA ForLoopKeeps ==
  ASSUME IInv, ForLoop
  PROVE  IInv' /\ GoesForward
  <1> DEFINE p == TmpCallable(Evaluated, "proxy")
             b == TmpCallable(p, "body")
             v == Last(p.tmp)
             u == Last(b.tmp)
             m == EnterScope(b, v)
             c == Cont("init", v, u)
  <1>1. Evaluated.handling = 0 /\ StacksOK(Evaluated) /\ fuel - 1 \in Nat
    BY EvaluatedOK DEF ForLoop
  <1>2. /\ Keeps(Evaluated, p) /\ StacksOK(p) /\ p.handling = 0
        /\ v \in DOMAIN p.unit /\ v \in Nat
    <2> HIDE DEF Evaluated
    <2> QED BY <1>1, OpenedOK DEF UnitKinds
  <1>3. /\ Become(m) /\ cont' = Append(cont, c) /\ fuel' = fuel - 1
        /\ CanEvaluate("for")
        /\ UNCHANGED <<handlers, objs, stopped, tasks, known, ran, phase, line, over>>
    BY DEF ForLoop, Burn
  <1> HIDE DEF p
  <1>4. /\ Keeps(p, b) /\ StacksOK(b) /\ b.handling = 0
        /\ u \in DOMAIN b.unit /\ u \in Nat /\ b.unit[u].kind = "body"
    BY <1>2, OpenedOK DEF UnitKinds
  <1>5. c \in ContRec /\ c.k = "init" /\ c.u = v /\ c.n = u
    BY <1>2, <1>4, FramesAreRecords, KindsAreNamed
  <1> HIDE DEF b, c, v, u
  <1>6. v \in DOMAIN b.unit
    BY <1>2, <1>4 DEF Keeps, KeepsBut
  <1>7. Keeps(b, m) /\ StacksOK(m) /\ m.handling = 0 /\ DOMAIN m.unit = DOMAIN b.unit
    BY <1>4, <1>6, EnteredOK
  <1> HIDE DEF m
  <1>8. Keeps(Evaluated, m)
    <2> HIDE DEF Evaluated
    <2>1. Keeps(p, m)
      BY <1>2, <1>4, <1>7, KeepsTransitive DEF Keeps
    <2> QED BY <1>1, <1>2, <2>1, KeepsTransitive DEF Keeps
  <1>9. Keeps(Stacks, m) /\ NativeOK(cont, m.unit, tasks, phase)
    BY <1>3, <1>8, EvaluationOK
  <1>10. NativeOK(cont', m.unit, tasks', phase')
    <2>1. FrameOK(c, m.unit, tasks)
      BY <1>4, <1>5, <1>6, <1>7 DEF FrameOK, Keeps, KeepsBut
    <2> QED BY <1>3, <1>5, <1>9, <2>1, NativePush
  <1>11. RestOK'
    BY <1>1, <1>3 DEF IInv, RestOK
  <1> QED BY <1>3, <1>7, <1>9, <1>10, <1>11, MoveOK

\* The body is entered: the native frame that waited becomes the loop's.
LEMMA EnterLoopKeeps ==
  ASSUME IInv, EnterLoop
  PROVE  IInv' /\ GoesForward
  <1>1. PICK u \in Nat, v \in Nat :
          /\ Become(EnterScope(Stacks, u)) /\ cont' = Append(Front(cont), Cont("loop", u, v))
          /\ \/ In("init") /\ u = TopCont.n /\ v = TopCont.u
             \/ In("iterable") /\ u = TopCont.u /\ v = 0
    <2>1. cont # <<>> => TopCont.u \in Nat /\ TopCont.n \in Nat
      BY Busy DEF ContRec
    <2> QED BY <2>1 DEF EnterLoop, In
  <1> DEFINE m == EnterScope(Stacks, u)
             c == Cont("loop", u, v)
  <1>2. /\ StacksOK(Stacks) /\ Stacks.handling = 0 /\ Len(tasks) \in Nat
        /\ NativeOK(Front(cont), Stacks.unit, tasks, phase)
        /\ u \in DOMAIN Stacks.unit /\ Stacks.unit[u].kind \in {"body", "freed"}
    BY <1>1, Busy DEF In, FrameOK, Stacks
  <1>3. UNCHANGED <<handlers, objs, stopped, tasks, known, ran, phase, fuel, line, over>>
    BY DEF EnterLoop
  <1>4. c \in ContRec /\ c.k = "loop" /\ c.u = u
    BY FramesAreRecords, KindsAreNamed
  <1> HIDE DEF c, Stacks
  <1>5. Keeps(Stacks, m) /\ m.handling = 0
    BY <1>2, EnteredOK
  <1> HIDE DEF m
  <1>6. FrameOK(c, m.unit, tasks)
    BY <1>2, <1>4, <1>5 DEF FrameOK, Keeps, KeepsBut
  <1>7. NativeOK(cont', m.unit, tasks', phase')
    <2> HIDE DEF Front
    <2>1. NativeOK(Front(cont), m.unit, tasks, phase)
      BY <1>2, <1>5, NativeMoved
    <2>2. NativeOK(Append(Front(cont), c), m.unit, tasks, phase)
      BY <1>4, <1>6, <2>1, NativePush
    <2> QED BY <1>1, <1>3, <2>2 DEF c
  <1>8. RestOK'
    BY <1>3 DEF IInv, RestOK
  <1>9. Become(m)
    BY <1>1 DEF m
  <1> QED BY <1>5, <1>7, <1>8, <1>9, MoveOK

\* The callee is executed: it starts at its first expression, so it goes
\* forward if it was there.
LEMMA EnterCalleeKeeps ==
  ASSUME IInv, EnterCallee
  PROVE  IInv' /\ (unit[TopCont.u].cur = 0 => GoesForward)
  <1> DEFINE u == TopCont.u
             m == Execute(Stacks, u, TRUE)
             c == Cont("exec", u, 0)
  <1>1. /\ StacksOK(Stacks) /\ Stacks.handling = 0 /\ Len(tasks) \in Nat
        /\ u \in DOMAIN unit /\ u \in Nat /\ Stacks.unit = unit
        /\ NativeOK(Front(cont), unit, tasks, phase)
    BY Busy DEF EnterCallee, In, FrameOK, ContRec, Stacks
  <1>2. /\ Become(m) /\ cont' = Append(Front(cont), c)
        /\ UNCHANGED <<handlers, objs, stopped, tasks, known, ran, phase, fuel, line, over>>
    BY DEF EnterCallee
  <1>3. c \in ContRec /\ c.k = "exec" /\ c.u = u
    BY <1>1, FramesAreRecords, KindsAreNamed
  <1> HIDE DEF u, c, Front
  <1>4. KeepsBut(Stacks, m, {u}) /\ m.handling = 0
    <2> HIDE DEF Stacks
    <2> QED BY <1>1, ExecuteFromOK
  <1> HIDE DEF m
  <1>5. StacksOK(m) /\ m = [exec |-> exec', tmp |-> tmp', unit |-> unit', handling |-> handling']
    <2>1. StacksOK(m)
      BY <1>4 DEF KeepsBut
    <2>2. m \in [exec : Seq(Nat), tmp : Seq(Nat), unit : Seq(UnitRec), handling : Nat]
      BY <2>1 DEF StacksOK
    <2> QED BY <1>2, <2>1, <2>2 DEF Become
  <1>6. StacksOK(Stacks)' /\ unit' = m.unit /\ handling' = 0
    <2>1. StacksOK(Stacks')
      BY <1>5 DEF Stacks
    <2> QED BY <1>2, <1>4, <2>1 DEF Become
  <1>7. NativeOK(cont', unit', tasks', phase')
    <2>1. NativeOK(Front(cont), m.unit, tasks, phase)
      BY <1>1, <1>4, NativeKept DEF KeepsBut
    <2>2. FrameOK(c, m.unit, tasks)
      BY <1>1, <1>3, <1>4 DEF FrameOK, KeepsBut
    <2> QED BY <1>2, <1>3, <1>6, <2>1, <2>2, NativePush
  <1>8. RestOK' /\ FlagConsumed'
    BY <1>2, <1>6 DEF IInv, RestOK, FlagConsumed
  <1>9. ASSUME unit[u].cur = 0
        PROVE  GoesForward
    <2>1. m.unit[u].cur \in Nat
      BY <1>1, <1>4, <1>5, UnitOK DEF KeepsBut, UnitRec
    <2> QED BY <1>1, <1>4, <1>6, <1>9, <2>1 DEF GoesForward, KeepsBut
  <1> QED BY <1>6, <1>7, <1>8, <1>9 DEF IInv, u

\* The body of a loop may start over.
LEMMA LoopIterateKeeps ==
  ASSUME IInv, LoopIterate
  PROVE  IInv' /\ GoesForward
  <1> DEFINE u == TopCont.u
             m == Execute(Stacks, u, FALSE)
             c == Cont("iter", u, 0)
  <1>1. /\ StacksOK(Stacks) /\ Stacks.handling = 0 /\ Len(tasks) \in Nat /\ fuel - 1 \in Nat
        /\ u \in DOMAIN unit /\ unit[u].kind \in {"body", "freed"} /\ u \in Nat
        /\ Stacks.unit = unit
    BY Busy DEF LoopIterate, In, IInv, RestOK, FrameOK, ContRec, Stacks
  <1>2. /\ Become(m) /\ cont' = Append(cont, c) /\ fuel' = fuel - 1
        /\ UNCHANGED <<handlers, objs, stopped, tasks, known, ran, phase, line, over>>
    BY DEF LoopIterate, Burn
  <1>3. c \in ContRec /\ c.k = "iter" /\ c.u = u
    BY <1>1, FramesAreRecords, KindsAreNamed
  <1> HIDE DEF u, c
  <1>4. KeepsBut(Stacks, m, {u}) /\ m.handling = 0
    <2> HIDE DEF Stacks
    <2>1. u \in DOMAIN Stacks.unit /\ ~(Stacks.handling > 0)
      BY <1>1
    <2> QED BY <1>1, <2>1, ExecuteFromOK
  <1> HIDE DEF m
  <1>5. StacksOK(m) /\ m = [exec |-> exec', tmp |-> tmp', unit |-> unit', handling |-> handling']
    <2>1. StacksOK(m)
      BY <1>4 DEF KeepsBut
    <2>2. m \in [exec : Seq(Nat), tmp : Seq(Nat), unit : Seq(UnitRec), handling : Nat]
      BY <2>1 DEF StacksOK
    <2> QED BY <1>2, <2>1, <2>2 DEF Become
  <1>6. StacksOK(Stacks)' /\ unit' = m.unit /\ handling' = 0
    <2>1. StacksOK(Stacks')
      BY <1>5 DEF Stacks
    <2> QED BY <1>2, <1>4, <2>1 DEF Become
  <1>7. NativeOK(cont, m.unit, tasks, phase)
    BY <1>1, <1>4, NativeKept DEF IInv, KeepsBut
  <1>8. NativeOK(cont', unit', tasks', phase')
    <2>1. FrameOK(c, m.unit, tasks)
      BY <1>1, <1>3, <1>4 DEF FrameOK, KeepsBut
    <2> QED BY <1>2, <1>3, <1>6, <1>7, <2>1, NativePush
  <1>9. RestOK'
    BY <1>1, <1>2 DEF IInv, RestOK
  <1>10. FlagConsumed'
    BY <1>6 DEF FlagConsumed
  <1>11. GoesForward
    BY <1>1, <1>4, <1>6 DEF GoesForward, KeepsBut
  <1> QED BY <1>6, <1>8, <1>9, <1>10, <1>11 DEF IInv

LEMMA LeftOK ==
  ASSUME NEW m, StacksOK(m), m.handling = 0
  PROVE  Keeps(m, LeaveScope(m)) /\ StacksOK(LeaveScope(m)) /\ LeaveScope(m).handling = 0
  <1>1. Keeps(m, LeaveScope(m)) /\ LeaveScope(m).handling = 0
    BY LeaveScopeOK
  <1> QED BY <1>1 DEF Keeps, KeepsBut

LEMMA LoopExitKeeps ==
  ASSUME IInv, LoopExit
  PROVE  IInv' /\ GoesForward
  <1> DEFINE body == LeaveScope(Stacks)
             left == IF TopCont.n = 0 THEN body ELSE LeaveScope(body)
             m == IF unit[TopCont.u].ret /\ ~stopped
                  THEN SaveReturn(left, Current(left)) ELSE left
  <1>1. /\ StacksOK(Stacks) /\ Stacks.handling = 0 /\ Len(tasks) \in Nat
        /\ NativeOK(Front(cont), Stacks.unit, tasks, phase)
    BY Busy DEF LoopExit, In, Stacks
  <1>2. /\ Become(m) /\ cont' = Front(cont)
        /\ UNCHANGED <<handlers, objs, stopped, tasks, known, ran, phase, fuel, line>>
        /\ over' = FALSE
    BY DEF LoopExit
  <1> HIDE DEF Stacks, Front
  <1>3. Keeps(Stacks, body) /\ StacksOK(body) /\ body.handling = 0
    BY <1>1, LeftOK
  <1> HIDE DEF body
  <1>4. Keeps(Stacks, left) /\ StacksOK(left) /\ left.handling = 0
    <2>1. Keeps(body, LeaveScope(body)) /\ StacksOK(LeaveScope(body)) /\ LeaveScope(body).handling = 0
      BY <1>3, LeftOK
    <2>2. Keeps(Stacks, LeaveScope(body))
      BY <1>1, <1>3, <2>1, KeepsTransitive DEF Keeps
    <2> QED BY <1>3, <2>1, <2>2
  <1> HIDE DEF left
  <1>5. Keeps(Stacks, m) /\ m.handling = 0
    <2>1. /\ Keeps(left, SaveReturn(left, Current(left)))
          /\ SaveReturn(left, Current(left)).handling = 0
      BY <1>4, CurrentOK, SaveReturnOK
    <2>2. Keeps(Stacks, SaveReturn(left, Current(left)))
      BY <1>1, <1>4, <2>1, KeepsTransitive DEF Keeps
    <2> QED BY <1>4, <2>1, <2>2
  <1> HIDE DEF m
  <1>6. NativeOK(cont', m.unit, tasks', phase')
    BY <1>1, <1>2, <1>5, NativeMoved
  <1>7. RestOK'
    BY <1>2 DEF IInv, RestOK
  <1> QED BY <1>2, <1>5, <1>6, <1>7, MoveOK

-----------------------------------------------------------------------------
(* Returns, breaks, stops and exit tasks.                                  *)

LEMMA NativeEachKeeps ==
  ASSUME IInv, NativeEach
  PROVE  IInv' /\ GoesForward
  <1> DEFINE c == Cont("each", 0, 0)
  <1>1. /\ Evaluated.handling = 0 /\ StacksOK(Evaluated) /\ fuel - 1 \in Nat
        /\ Keeps(Evaluated, Evaluated)
    BY EvaluatedOK, KeepsSelf DEF NativeEach
  <1>2. /\ Become(Evaluated) /\ cont' = Append(cont, c) /\ fuel' = fuel - 1
        /\ CanEvaluate("each")
        /\ UNCHANGED <<handlers, objs, stopped, tasks, known, ran, phase, line, over>>
    BY DEF NativeEach, Burn
  <1>3. c \in ContRec /\ c.k = "each"
    BY FramesAreRecords, KindsAreNamed
  <1> HIDE DEF c
  <1>4. Keeps(Stacks, Evaluated) /\ NativeOK(cont, Evaluated.unit, tasks, phase)
    BY <1>1, <1>2, EvaluationOK
  <1>5. NativeOK(cont', Evaluated.unit, tasks', phase')
    <2>1. FrameOK(c, Evaluated.unit, tasks)
      BY <1>3 DEF FrameOK
    <2> QED BY <1>2, <1>3, <1>4, <2>1, NativePush
  <1>6. RestOK'
    BY <1>1, <1>2 DEF IInv, RestOK
  <1> QED BY <1>1, <1>2, <1>4, <1>5, <1>6, MoveOK

LEMMA ReturnKeeps ==
  ASSUME IInv, Return
  PROVE  IInv' /\ GoesForward
  <1> DEFINE u == Current(Stacks)
             m == SaveReturn(Evaluated, u)
  <1>1. /\ Evaluated.handling = 0 /\ StacksOK(Evaluated) /\ fuel - 1 \in Nat
        /\ Evaluated.exec = exec
    BY EvaluatedOK DEF Return
  <1>2. /\ Become(m) /\ fuel' = fuel - 1 /\ CanEvaluate("return")
        /\ UNCHANGED <<handlers, objs, stopped, tasks, known, ran, cont, phase, line, over>>
    BY DEF Return, Burn
  <1>3. u \in DOMAIN Evaluated.unit
    <2>1. u = Current(Evaluated)
      BY <1>1 DEF Current, Stacks
    <2> QED BY <1>1, <2>1, CurrentOK
  <1> HIDE DEF u
  <1>4. Keeps(Evaluated, m) /\ m.handling = 0
    BY <1>1, <1>3, SaveReturnOK
  <1> HIDE DEF m
  <1>5. Keeps(Stacks, m) /\ NativeOK(cont, m.unit, tasks, phase)
    BY <1>2, <1>4, EvaluationOK
  <1>6. NativeOK(cont', m.unit, tasks', phase')
    BY <1>2, <1>5
  <1>7. RestOK'
    BY <1>1, <1>2 DEF IInv, RestOK
  <1> QED BY <1>2, <1>4, <1>5, <1>6, <1>7, MoveOK

LEMMA BreakKeeps ==
  ASSUME IInv, Break
  PROVE  IInv' /\ GoesForward
  <1> DEFINE us == {Current(Stacks)}
             m == StopUnits(Evaluated, us, TRUE)
  <1>1. Evaluated.handling = 0 /\ StacksOK(Evaluated) /\ fuel - 1 \in Nat
    BY EvaluatedOK DEF Break
  <1>2. /\ Become(m) /\ fuel' = fuel - 1 /\ CanEvaluate("break")
        /\ UNCHANGED <<handlers, objs, stopped, tasks, known, ran, cont, phase, line, over>>
    BY DEF Break, Burn
  <1> HIDE DEF us
  <1>3. Keeps(Evaluated, m) /\ m.handling = 0
    BY <1>1, StopUnitsOK
  <1> HIDE DEF m
  <1>4. Keeps(Stacks, m) /\ NativeOK(cont, m.unit, tasks, phase)
    BY <1>2, <1>3, EvaluationOK
  <1>5. NativeOK(cont', m.unit, tasks', phase')
    BY <1>2, <1>4
  <1>6. RestOK'
    BY <1>1, <1>2 DEF IInv, RestOK
  <1> QED BY <1>2, <1>3, <1>4, <1>5, <1>6, MoveOK

LEMMA ExitKeeps ==
  ASSUME IInv, Exit
  PROVE  IInv' /\ GoesForward
  <1> DEFINE us == ToSet(Evaluated.exec)
             m == StopUnits(Evaluated, us, FALSE)
             c == Cont("pass", Len(tasks), 0)
  <1>1. CASE Undefined
    BY <1>1, UndefinedOK
  <1>2. CASE ~Undefined
    <2>1. Evaluated.handling = 0 /\ StacksOK(Evaluated) /\ fuel - 1 \in Nat /\ cont # <<>>
      BY EvaluatedOK DEF Exit
    <2>2. /\ Become(m) /\ cont' = Append(cont, c) /\ fuel' = fuel - 1
          /\ CanEvaluate("exit") /\ stopped' = TRUE
          /\ UNCHANGED <<handlers, objs, tasks, known, ran, phase, line, over>>
      BY <1>2 DEF Exit, Burn, StopAll
    <2>3. Len(tasks) \in Nat
      BY <2>1, Busy
    <2>4. c \in ContRec /\ c.k = "pass" /\ c.u = Len(tasks) /\ c.n = 0
      BY <2>3, FramesAreRecords, KindsAreNamed
    <2> HIDE DEF us, c
    <2>5. Keeps(Evaluated, m) /\ m.handling = 0
      BY <2>1, StopUnitsOK
    <2> HIDE DEF m
    <2>6. Keeps(Stacks, m) /\ NativeOK(cont, m.unit, tasks, phase)
      BY <2>2, <2>5, EvaluationOK
    <2>7. NativeOK(cont', m.unit, tasks', phase')
      <3>1. FrameOK(c, m.unit, tasks)
        BY <2>3, <2>4 DEF FrameOK
      <3> QED BY <2>2, <2>4, <2>6, <3>1, NativePush
    <2>8. RestOK'
      BY <2>1, <2>2 DEF IInv, RestOK
    <2> QED BY <2>2, <2>5, <2>6, <2>7, <2>8, MoveOK
  <1> QED BY <1>1, <1>2

LEMMA SeqWidens ==
  ASSUME NEW k \in Nat, NEW s \in Seq(1..k)
  PROVE  s \in Seq(1..(k + 1)) /\ Len(s) \in Nat
  <1>1. Len(s) \in Nat /\ s \in [1..Len(s) -> 1..k]
    BY LenProperties
  <1>2. s \in [1..Len(s) -> 1..(k + 1)]
    BY <1>1
  <1> QED BY <1>1, <1>2, SeqDef

LEMMA OnExitKeeps ==
  ASSUME IInv, OnExit
  PROVE  IInv' /\ GoesForward
  <1>1. CASE Undefined
    BY <1>1, UndefinedOK
  <1>2. CASE ~Undefined
    <2>1. /\ Evaluated.handling = 0 /\ StacksOK(Evaluated) /\ fuel - 1 \in Nat
          /\ Keeps(Evaluated, Evaluated)
      BY EvaluatedOK, KeepsSelf DEF OnExit
    <2>2. /\ Become(Evaluated) /\ fuel' = fuel - 1 /\ CanEvaluate("on_exit")
          /\ tasks' = Append(tasks, known + 1) /\ known' = known + 1
          /\ UNCHANGED <<handlers, objs, stopped, ran, cont, phase, line, over>>
      BY <1>2 DEF OnExit, Burn
    <2>3. Keeps(Stacks, Evaluated) /\ NativeOK(cont, Evaluated.unit, tasks, phase)
      BY <2>1, <2>2, EvaluationOK
    <2>4. /\ tasks' \in Seq(1..known') /\ ran' \in Seq(1..known')
          /\ Len(tasks) \in Nat /\ Len(tasks') = Len(tasks) + 1
      <3>1. known \in Nat /\ tasks \in Seq(1..known) /\ ran \in Seq(1..known)
        BY DEF IInv, RestOK
      <3>2. tasks \in Seq(1..(known + 1)) /\ ran \in Seq(1..(known + 1)) /\ Len(tasks) \in Nat
        BY <3>1, SeqWidens
      <3>3. known + 1 \in 1..(known + 1)
        BY <3>1
      <3> QED BY <2>2, <3>2, <3>3, AppendProperties
    <2>5. NativeOK(cont', Evaluated.unit, tasks', phase')
      <3>1. NativeOK(cont, Evaluated.unit, tasks', phase)
        BY <2>3, <2>4, KeepsSelf, NativeKept
      <3> QED BY <2>2, <3>1
    <2>6. RestOK'
      BY <2>1, <2>2, <2>4 DEF IInv, RestOK
    <2> QED BY <2>1, <2>2, <2>3, <2>5, <2>6, MoveOK
  <1> QED BY <1>1, <1>2

-----------------------------------------------------------------------------
(* Exceptions.                                                             *)

LEMMA HandlersFront ==
  ASSUME NEW hs \in Seq(HandlerRec)
  PROVE  /\ Front(hs) \in Seq(HandlerRec)
         /\ hs # <<>> => Last(hs) \in HandlerRec
  <1>1. CASE hs = <<>>
    <2>1. Front(hs) = <<>>
      BY <1>1 DEF Front
    <2> QED BY <1>1, <2>1, EmptySeq
  <1>2. CASE hs # <<>>
    BY <1>2, FrontLast
  <1> QED BY <1>1, <1>2

\* An exception that leaves run(): the native stack is gone.
LEMMA LeaveOK ==
  ASSUME IInv, NEW m, Become(m), Keeps(Stacks, m), m.handling = 0,
         NEW to \in Phases, Leave(to), objs' \in Int, fuel' \in Nat,
         UNCHANGED <<stopped, tasks, known, ran, line, over>>
  PROVE  IInv' /\ GoesForward
  <1>1. RestOK'
    BY DEF IInv, RestOK, Leave
  <1>2. NativeOK(cont', m.unit, tasks', phase')
    BY NativeEmpty DEF Leave
  <1> QED BY <1>1, <1>2, MoveOK

\* An exception handled: the stacks are cut back and the catch body called.
LEMMA HandleOK ==
  ASSUME IInv, NEW m, Keeps(Stacks, m), m.handling = 0, StacksOK(m),
         HandleException(m), handlers # <<>>, phase = "run",
         objs' \in Int, fuel' \in Nat, UNCHANGED <<stopped, tasks, known, ran, line, over>>
  PROVE  IInv' /\ GoesForward
  <1> DEFINE d == Last(handlers).depth
             p == PopTmpCallable(m)
             r == Restore(p, d)
             c == Invoke(r, "catch")
             u == Last(c.tmp)
             k == Cont("catch", 0, 0)
  <1>1. /\ Become(c) /\ handlers' = Front(handlers) /\ phase' = phase
        /\ cont' = <<k, Cont("exec", u, 0)>>
    BY DEF HandleException
  <1>2. Front(handlers) \in Seq(HandlerRec) /\ d \in Nat \ {0}
    BY HandlersFront DEF IInv, RestOK, HandlerRec
  <1> HIDE DEF d
  <1>3. Keeps(m, p) /\ p.handling = 0 /\ StacksOK(p)
    <2>1. Keeps(m, p) /\ p.handling = 0
      BY PopTmpCallableOK
    <2> QED BY <2>1 DEF Keeps, KeepsBut
  <1> HIDE DEF p
  <1>4. Keeps(p, r) /\ r.handling = 0 /\ StacksOK(r)
    <2>1. Keeps(p, r) /\ r.handling = 0
      BY <1>2, <1>3, RestoreOK
    <2> QED BY <2>1 DEF Keeps, KeepsBut
  <1> HIDE DEF r
  <1>5. Keeps(r, c) /\ c.handling = 0 /\ u \in DOMAIN c.unit /\ u \in Nat
    BY <1>4, InvokedOK DEF UnitKinds
  <1> HIDE DEF c
  <1>6. Keeps(Stacks, c)
    <2> HIDE DEF Stacks
    <2>1. StacksOK(Stacks)
      BY DEF IInv
    <2>2. Keeps(Stacks, p)
      BY <1>3, <2>1, KeepsTransitive DEF Keeps
    <2>3. Keeps(Stacks, r)
      BY <1>4, <2>1, <2>2, KeepsTransitive DEF Keeps
    <2> QED BY <1>5, <2>1, <2>3, KeepsTransitive DEF Keeps
  <1>7. NativeOK(cont', c.unit, tasks', phase')
    <2>1. k \in ContRec /\ k.k = "catch"
      BY FramesAreRecords, KindsAreNamed
    <2>2. FrameOK(k, c.unit, tasks)
      BY <2>1 DEF FrameOK
    <2>3. NativeOK(<<>>, c.unit, tasks, phase)
      BY NativeEmpty
    <2>4. Cont("exec", u, 0) \in ContRec
      BY <1>5, FramesAreRecords, KindsAreNamed
    <2> HIDE DEF k
    <2>5. NativeOK(<<>> \o <<k, Cont("exec", u, 0)>>, c.unit, tasks, phase)
      BY <1>5, <2>1, <2>2, <2>3, NativeCall
    <2>6. <<>> \o <<k, Cont("exec", u, 0)>> = <<k, Cont("exec", u, 0)>>
      OBVIOUS
    <2> QED BY <1>1, <2>5, <2>6
  <1>8. RestOK'
    BY <1>1, <1>2 DEF IInv, RestOK
  <1> QED BY <1>1, <1>5, <1>6, <1>7, <1>8, MoveOK

LEMMA ThrowKeeps ==
  ASSUME IInv, NEW kind \in Throwing, Throw(kind)
  PROVE  IInv' /\ GoesForward
  <1> DEFINE m == IF kind = "badcall" THEN TmpCallable(Evaluated, "fn") ELSE Evaluated
  <1>1. /\ Evaluated.handling = 0 /\ StacksOK(Evaluated) /\ fuel - 1 \in Nat
        /\ Keeps(Evaluated, Evaluated)
    BY EvaluatedOK, KeepsSelf DEF Throw
  <1>2. /\ CanEvaluate(kind) /\ Raise(m) /\ fuel' = fuel - 1
        /\ UNCHANGED <<stopped, tasks, known, ran, line, over>>
    BY DEF Throw, Burn
  <1>3. objs' \in Int /\ fuel' \in Nat
    BY <1>1, <1>2 DEF Throw, IInv, RestOK
  <1>4. Keeps(Evaluated, m) /\ m.handling = 0
    <2>1. Keeps(Evaluated, TmpCallable(Evaluated, "fn")) /\ TmpCallable(Evaluated, "fn").handling = 0
      <3> HIDE DEF Evaluated
      <3> QED BY <1>1, TmpCallableOK DEF UnitKinds
    <2> QED BY <1>1, <2>1
  <1> HIDE DEF m
  <1>5. Keeps(Stacks, m) /\ StacksOK(m)
    BY <1>2, <1>4, EvaluationOK
  <1>6. CASE \E to \in Phases : Become(m) /\ Leave(to)
    BY <1>2, <1>3, <1>4, <1>5, <1>6, LeaveOK
  <1>7. CASE HandleException(m) /\ handlers # <<>> /\ phase # "destroy"
    <2>1. phase = "run"
      BY <1>2, <1>7 DEF CanEvaluate, Running
    <2> QED BY <1>2, <1>3, <1>4, <1>5, <1>7, <2>1, HandleOK
  <1> QED BY <1>2, <1>6, <1>7 DEF Raise, Phases

LEMMA CatchDoneKeeps ==
  ASSUME IInv, CatchDone
  PROVE  IInv' /\ GoesForward
  <1> DEFINE m == [Stacks EXCEPT !.handling = 1]
  <1>1. /\ StacksOK(Stacks) /\ Stacks.handling = 0 /\ handling = 0
        /\ Front(cont) = <<>> /\ phase \in {"run", "undefined"}
    BY Busy, NativePop DEF CatchDone, In, TopCont, IInv
  <1>2. Keeps(Stacks, m)
    <2> HIDE DEF Stacks
    <2> QED BY <1>1, HandlingOK
  <1>3. m = [exec |-> exec, tmp |-> tmp, unit |-> unit, handling |-> 1]
    BY DEF Stacks
  <1>4. /\ exec' = exec /\ tmp' = tmp /\ unit' = unit /\ handling' = 1 /\ cont' = <<>>
        /\ UNCHANGED <<handlers, objs, stopped, tasks, known, ran, phase, fuel, line, over>>
    BY <1>1 DEF CatchDone
  <1>5. StacksOK(Stacks)'
    <2>1. Stacks' = m
      BY <1>3, <1>4 DEF Stacks
    <2>2. StacksOK(m)
      BY <1>2 DEF Keeps, KeepsBut
    <2> HIDE DEF m
    <2> QED BY <2>1, <2>2
  <1>6. NativeOK(cont, unit, tasks, phase)'
    BY <1>4, NativeEmpty
  <1>7. RestOK'
    BY <1>4 DEF IInv, RestOK
  <1>8. FlagConsumed'
    BY <1>1, <1>4 DEF FlagConsumed
  <1>9. GoesForward
    <2>1. \A u \in DOMAIN unit : unit[u].cur \in Nat
      BY <1>1, UnitOK DEF Stacks, UnitRec
    <2> QED BY <1>4, <2>1 DEF GoesForward
  <1> QED BY <1>5, <1>6, <1>7, <1>8, <1>9 DEF IInv

-----------------------------------------------------------------------------
(* Completion of native frames.                                            *)

LEMMA ParentOK ==
  ASSUME NEW m, StacksOK(m)
  PROVE  Parent(m) \in DOMAIN m.unit
  <1>1. CASE Len(m.exec) > 1
    <2>1. m.exec \in Seq(Nat)
      BY DEF StacksOK
    <2>2. Len(m.exec) - 1 \in DOMAIN m.exec
      BY <1>1, <2>1, LenProperties
    <2> QED BY <1>1, <2>2 DEF StacksOK, Parent
  <1>2. CASE ~(Len(m.exec) > 1)
    BY <1>2, CurrentOK DEF Parent
  <1> QED BY <1>1, <1>2

LEMMA FinishKeeps ==
  ASSUME IInv, Finish
  PROVE  IInv' /\ GoesForward
  <1> DEFINE u == TopCont.u
             returned == unit[u].ret
             carries == Carries(Stacks, u)
             parent == Parent(Stacks)
             broken == PropagateBreak(Stacks, u)
             left == IF TopCont.k = "exec" THEN LeaveScope(broken) ELSE broken
             m == CarryReturn(left, returned, carries, parent)
             c == Cont("pass", Len(tasks), 0)
  <1>1. /\ StacksOK(Stacks) /\ Stacks.handling = 0 /\ handling = 0 /\ Len(tasks) \in Nat
        /\ NativeOK(Front(cont), unit, tasks, phase) /\ Stacks.unit = unit
    BY Busy DEF Finish, InUnit, Stacks
  <1>2. /\ UNCHANGED <<handlers, objs, stopped, tasks, known, ran, fuel, line>>
        /\ over' \in BOOLEAN
    BY DEF Finish
  <1>3. CASE cont' = Front(cont) /\ UNCHANGED <<stacks, phase>>
    <2>1. RestOK' /\ FlagConsumed' /\ UNCHANGED stacks
      BY <1>1, <1>2, <1>3 DEF IInv, RestOK, FlagConsumed, stacks
    <2>2. NativeOK(cont', unit, tasks', phase')
      BY <1>1, <1>2, <1>3
    <2> QED BY <2>1, <2>2, StayOK
  <1>4. CASE phase' = "undefined" /\ UNCHANGED <<stacks, cont>>
    BY <1>2, <1>4, GoneOK
  <1>5. CASE /\ Become(m) /\ cont' \in {Append(Front(cont), c), Front(cont)}
             /\ UNCHANGED phase
    <2> HIDE DEF Stacks, Front, returned, carries
    <2>1. Keeps(Stacks, broken) /\ broken.handling = 0 /\ StacksOK(broken)
      <3>1. Keeps(Stacks, broken) /\ broken.handling = 0
        BY <1>1, PropagateBreakOK
      <3> QED BY <3>1 DEF Keeps, KeepsBut
    <2> HIDE DEF broken
    <2>2. Keeps(Stacks, left) /\ left.handling = 0 /\ StacksOK(left)
      <3>1. /\ Keeps(broken, LeaveScope(broken)) /\ StacksOK(LeaveScope(broken))
            /\ LeaveScope(broken).handling = 0
        BY <2>1, LeftOK
      <3>2. Keeps(Stacks, LeaveScope(broken))
        BY <1>1, <2>1, <3>1, KeepsTransitive DEF Keeps
      <3> QED BY <2>1, <3>1, <3>2
    <2> HIDE DEF left
    <2>3. parent \in DOMAIN left.unit
      BY <1>1, <2>2, ParentOK DEF Keeps, KeepsBut
    <2> HIDE DEF parent
    <2>4. Keeps(left, m) /\ m.handling = 0
      BY <2>2, <2>3, CarryReturnOK
    <2> HIDE DEF m
    <2>5. Keeps(Stacks, m)
      BY <1>1, <2>2, <2>4, KeepsTransitive DEF Keeps
    <2>6. NativeOK(Front(cont), m.unit, tasks, phase)
      BY <1>1, <2>5, NativeMoved
    <2>7. NativeOK(cont', m.unit, tasks', phase')
      <3>1. c \in ContRec /\ c.k = "pass" /\ c.u = Len(tasks) /\ c.n = 0
        BY <1>1, FramesAreRecords, KindsAreNamed
      <3> HIDE DEF c
      <3>2. FrameOK(c, m.unit, tasks)
        BY <1>1, <3>1 DEF FrameOK
      <3>3. NativeOK(Append(Front(cont), c), m.unit, tasks, phase)
        BY <2>6, <3>1, <3>2, NativePush
      <3> QED BY <1>2, <1>5, <2>6, <3>3
    <2>8. RestOK'
      BY <1>2, <1>5 DEF IInv, RestOK
    <2> QED BY <1>5, <2>4, <2>5, <2>7, <2>8, MoveOK
  <1> QED BY <1>3, <1>4, <1>5 DEF Finish

\* A native frame that ends without touching the stacks.
LEMMA PopKeeps ==
  ASSUME IInv, Running, cont # <<>>, cont' = Front(cont),
         handlers' \in {handlers, Front(handlers)}, objs' \in Int,
         UNCHANGED <<stacks, stopped, tasks, known, ran, phase, fuel, line, over>>
  PROVE  IInv' /\ GoesForward
  <1>1. handling = 0 /\ NativeOK(Front(cont), unit, tasks, phase)
    BY Busy
  <1>2. RestOK'
    BY HandlersFront DEF IInv, RestOK
  <1>3. FlagConsumed' /\ UNCHANGED stacks
    BY <1>1 DEF FlagConsumed, stacks
  <1>4. NativeOK(cont', unit, tasks', phase')
    BY <1>1
  <1> QED BY <1>2, <1>3, <1>4, StayOK

LEMMA SimpleDoneKeeps ==
  ASSUME IInv, TryDone \/ EachDone \/ UseDone
  PROVE  IInv' /\ GoesForward
  <1>1. objs \in Int
    BY DEF IInv, RestOK
  <1>2. CASE TryDone
    BY <1>1, <1>2, PopKeeps DEF TryDone, In
  <1>3. CASE EachDone
    BY <1>1, <1>3, PopKeeps DEF EachDone, In
  <1>4. CASE UseDone
    <2>1. objs' \in Int
      BY <1>1, <1>4 DEF UseDone
    <2> QED BY <1>4, <2>1, PopKeeps DEF UseDone, In
  <1> QED BY <1>2, <1>3, <1>4

\* The vector of tasks is cleared only when no other pass is at work on it.
LEMMA PassDoneKeeps ==
  ASSUME IInv, PassDone
  PROVE  IInv' /\ GoesForward
  <1>1. CASE Undefined
    BY <1>1, UndefinedOK
  <1>2. CASE ~Undefined
    <2>1. /\ cont # <<>> /\ TopCont.k = "pass" /\ Running
          /\ \A i \in 1..(Len(cont) - 1) : cont[i].k # "pass"
          /\ tasks' = <<>> /\ cont' = Front(cont)
          /\ phase' = IF phase = "destroy" THEN "gone" ELSE phase
          /\ UNCHANGED <<stacks, handlers, objs, stopped, known, ran, fuel, line, over>>
      BY <1>2 DEF PassDone, In
    <2>2. handling = 0 /\ NativeOK(Front(cont), unit, tasks, phase)
      BY <2>1, Busy
    <2>3. /\ DOMAIN Front(cont) = 1..(Len(cont) - 1)
          /\ \A i \in 1..(Len(cont) - 1) : Front(cont)[i] = cont[i]
      BY <2>1, FrontCont DEF IInv, NativeOK
    <2>4. NativeOK(cont', unit, tasks', phase')
      <3> HIDE DEF Front
      <3>1. \A i \in DOMAIN Front(cont) : Front(cont)[i].k # "pass"
        BY <2>1, <2>3
      <3>2. phase \in {"run", "undefined"} => phase' \in {"run", "undefined"}
        BY <2>1
      <3>3. NativeOK(Front(cont), unit, <<>>, phase')
        BY <2>2, <3>1, <3>2 DEF NativeOK, FrameOK
      <3> QED BY <2>1, <3>3
    <2>5. RestOK'
      <3>1. <<>> \in Seq(1..known)
        BY EmptySeq
      <3> QED BY <2>1, <3>1 DEF IInv, RestOK, Phases
    <2>6. FlagConsumed' /\ UNCHANGED stacks
      BY <2>1, <2>2 DEF FlagConsumed, stacks
    <2> QED BY <2>4, <2>5, <2>6, StayOK
  <1> QED BY <1>1, <1>2

-----------------------------------------------------------------------------
(* run() and the host program.                                             *)

LEMMA ExecuteCurrentOK ==
  ASSUME IInv
  PROVE  LET u == Current(Stacks)
             m == Execute(Stacks, u, TRUE)
         IN  /\ KeepsBut(Stacks, m, {u})
             /\ Stacks.handling > 0 => Keeps(Stacks, m)
             /\ handling <= 1 => m.handling = 0
             /\ handling \in Nat /\ Stacks.handling = handling
             /\ NativeOK(<<Cont("exec", u, 0)>>, m.unit, tasks, "run")
  <1> DEFINE u == Current(Stacks)
             m == Execute(Stacks, u, TRUE)
             c == Cont("exec", u, 0)
  <1>1. /\ StacksOK(Stacks) /\ u \in DOMAIN Stacks.unit /\ u \in Nat
        /\ Stacks.handling = handling /\ handling \in Nat
    BY CurrentOK DEF IInv, Stacks, StacksOK
  <1> HIDE DEF Stacks, u
  <1>2. /\ KeepsBut(Stacks, m, {u}) /\ (Stacks.handling > 0 => Keeps(Stacks, m))
        /\ m.handling = IF Stacks.handling > 0 THEN Stacks.handling - 1 ELSE 0
    BY <1>1, ExecuteOK
  <1> HIDE DEF m
  <1>3. handling <= 1 => m.handling = 0
    BY <1>1, <1>2
  <1>4. NativeOK(<<c>>, m.unit, tasks, "run")
    <2>1. u \in DOMAIN m.unit
      BY <1>1, <1>2 DEF KeepsBut
    <2>2. c \in ContRec /\ c.k = "exec" /\ c.u = u
      BY <1>1, FramesAreRecords, KindsAreNamed
    <2> HIDE DEF c
    <2>3. FrameOK(c, m.unit, tasks)
      BY <2>1, <2>2 DEF FrameOK
    <2>4. NativeOK(Append(<<>>, c), m.unit, tasks, "run")
      <3>1. NativeOK(<<>>, m.unit, tasks, "run")
        BY NativeEmpty
      <3> QED BY <2>2, <2>3, <3>1, NativePush
    <2>5. Append(<<>>, c) = <<c>>
      OBVIOUS
    <2> QED BY <2>4, <2>5
  <1> QED BY <1>1, <1>2, <1>3, <1>4 DEF m, u

LEMMA RunStartKeeps ==
  ASSUME IInv, RunStart
  PROVE  IInv' /\ GoesForward
  <1> DEFINE u == Current(Stacks)
             m == Execute(Stacks, u, TRUE)
  <1>1. /\ KeepsBut(Stacks, m, {u}) /\ (handling <= 1 => m.handling = 0)
        /\ handling \in Nat
        /\ NativeOK(<<Cont("exec", u, 0)>>, m.unit, tasks, "run")
    BY ExecuteCurrentOK
  <1>2. /\ phase = "ready" /\ phase' = "run" /\ Become(m)
        /\ cont' = <<Cont("exec", u, 0)>>
        /\ UNCHANGED <<handlers, objs, stopped, tasks, known, ran, fuel, line, over>>
    BY DEF RunStart
  <1> HIDE DEF m, u
  <1>3. handling = 0 /\ m.handling = 0
    BY <1>1, <1>2 DEF IInv, FlagConsumed
  <1>4. StacksOK(Stacks)' /\ unit' = m.unit /\ handling' = 0
    <2>1. StacksOK(m)
      BY <1>1 DEF KeepsBut
    <2>2. m = [exec |-> exec', tmp |-> tmp', unit |-> unit', handling |-> handling']
      BY <1>2, <2>1 DEF Become, StacksOK
    <2>3. StacksOK(Stacks')
      BY <2>1, <2>2 DEF Stacks
    <2> QED BY <1>2, <1>3, <2>3 DEF Become
  <1>5. NativeOK(cont', unit', tasks', phase')
    BY <1>1, <1>2, <1>4
  <1>6. RestOK' /\ FlagConsumed' /\ GoesForward
    BY <1>2, <1>4 DEF IInv, RestOK, FlagConsumed, GoesForward, Phases
  <1> QED BY <1>4, <1>5, <1>6 DEF IInv

LEMMA RunResumeKeeps ==
  ASSUME IInv, RunResume
  PROVE  IInv' /\ GoesForward
  <1> DEFINE u == Current(Stacks)
             m == Execute(Stacks, u, TRUE)
  <1>1. CASE Undefined
    BY <1>1, UndefinedOK
  <1>2. CASE ~Undefined
    <2>1. /\ Stacks.handling > 0 => Keeps(Stacks, m)
          /\ handling <= 1 => m.handling = 0
          /\ handling \in Nat /\ Stacks.handling = handling
          /\ NativeOK(<<Cont("exec", u, 0)>>, m.unit, tasks, "run")
      BY ExecuteCurrentOK
    <2>2. /\ phase = "run" /\ handling > 0 /\ Become(m)
          /\ cont' = <<Cont("exec", u, 0)>>
          /\ UNCHANGED <<handlers, objs, stopped, tasks, known, ran, phase, fuel, line, over>>
      BY <1>2 DEF RunResume
    <2> HIDE DEF m, u
    <2>3. Keeps(Stacks, m) /\ m.handling = 0
      BY <2>1, <2>2 DEF IInv, FlagConsumed
    <2>4. NativeOK(cont', m.unit, tasks', phase')
      BY <2>1, <2>2
    <2>5. RestOK'
      BY <2>2 DEF IInv, RestOK
    <2> QED BY <2>2, <2>3, <2>4, <2>5, MoveOK
  <1> QED BY <1>1, <1>2

LEMMA RunEndKeeps ==
  ASSUME IInv, RunEmpty \/ RunReturn
  PROVE  IInv' /\ GoesForward
  <1>1. /\ phase' = "done" /\ phase \in {"ready", "run"} /\ handling = 0
        /\ UNCHANGED <<stacks, handlers, objs, stopped, tasks, known, ran, cont, fuel, line, over>>
        /\ phase = "ready" \/ cont = <<>>
    <2>1. handling \in Nat
      BY DEF IInv, StacksOK, Stacks
    <2> QED BY <2>1 DEF RunEmpty, RunReturn, IInv, FlagConsumed
  <1>2. NativeOK(cont', unit, tasks', phase')
    <2>1. CASE cont = <<>>
      BY <1>1, <2>1, NativeEmpty
    <2>2. CASE phase = "ready"
      <3>1. NativeOK(cont, unit, tasks, "done")
        BY <2>2 DEF IInv, NativeOK
      <3> QED BY <1>1, <3>1
    <2> QED BY <1>1, <2>1, <2>2
  <1>3. RestOK' /\ FlagConsumed' /\ UNCHANGED stacks
    BY <1>1 DEF IInv, RestOK, FlagConsumed, stacks, Phases
  <1> QED BY <1>2, <1>3, StayOK

LEMMA NextLineKeeps ==
  ASSUME IInv, NextLine
  PROVE  IInv' /\ GoesForward
  <1>1. PICK brk \in {FALSE, unit[Main].brk} :
          unit' = [unit EXCEPT ![Main].fin = FALSE, ![Main].ret = FALSE, ![Main].brk = brk]
    BY DEF NextLine
  <1> DEFINE a == [unit[Main] EXCEPT !.fin = FALSE]
             b == [a EXCEPT !.ret = FALSE]
             r == [b EXCEPT !.brk = brk]
             m == [Stacks EXCEPT !.unit[Main] = r]
  <1>2. /\ phase \in {"done", "uncaught"} /\ exec' = <<Main>> /\ line' = line + 1
        /\ phase' = "ready"
        /\ UNCHANGED <<tmp, handling, handlers, objs, stopped, tasks, known, ran, cont, fuel, over>>
    BY DEF NextLine
  <1>3. /\ StacksOK(Stacks) /\ Stacks.unit = unit /\ Main \in DOMAIN unit
        /\ unit[Main] \in UnitRec /\ unit[Main].kind = "main" /\ brk \in BOOLEAN
    <2>1. StacksOK(Stacks) /\ Stacks.unit = unit /\ Main \in DOMAIN unit
      BY CurrentOK DEF IInv, Stacks
    <2>2. unit[Main] \in UnitRec
      BY <2>1, UnitOK
    <2> QED BY <1>1, <2>1, <2>2 DEF StacksOK, UnitRec
  <1>4. r \in UnitRec /\ r.kind = "main" /\ r.cur = unit[Main].cur
    <2>1. a \in UnitRec /\ a.kind = "main" /\ a.cur = unit[Main].cur
      BY <1>3, SetFlags
    <2> HIDE DEF a
    <2>2. b \in UnitRec /\ b.kind = "main" /\ b.cur = unit[Main].cur
      BY <2>1, SetFlags
    <2> HIDE DEF b
    <2> QED BY <1>3, <2>2, SetFlags
  <1>5. unit' = [unit EXCEPT ![Main] = r]
    BY <1>1, <1>3
  <1> HIDE DEF r
  <1>6. Keeps(Stacks, m)
    <2> HIDE DEF Stacks
    <2> QED BY <1>3, <1>4, SetUnitOK DEF Keeps
  <1>7. m.exec = exec /\ m.unit = unit' /\ m.tmp = tmp /\ m.handling = handling
    BY <1>5 DEF Stacks
  <1>8. StacksOK(m)
    BY <1>6 DEF Keeps, KeepsBut
  <1>9. StacksOK(Stacks)'
    <2>1. <<Main>> \in Seq(Nat) /\ DOMAIN <<Main>> = {1} /\ <<Main>> # <<>> /\ <<Main>>[1] = Main
      BY DEF Main
    <2>2. Stacks' = [exec |-> <<Main>>, tmp |-> tmp, unit |-> unit', handling |-> handling]
      BY <1>2 DEF Stacks
    <2>3. Main \in DOMAIN unit'
      BY <1>3, <1>5
    <2> HIDE DEF m
    <2>4. StacksOK(Stacks')
      BY <1>7, <1>8, <2>1, <2>2, <2>3 DEF StacksOK
    <2> QED BY <2>4
  <1>10. NativeOK(cont', unit', tasks', phase')
    <2>1. NativeOK(cont, unit', tasks, phase)
      <3>1. Len(tasks) \in Nat
        BY LenProperties DEF IInv, RestOK
      <3> HIDE DEF m
      <3> QED BY <1>3, <1>6, <1>7, <3>1, NativeKept DEF IInv, Keeps, KeepsBut
    <2> QED BY <1>2, <2>1 DEF NativeOK
  <1>11. RestOK' /\ FlagConsumed' /\ GoesForward
    BY <1>2 DEF IInv, RestOK, FlagConsumed, GoesForward, Phases
  <1> QED BY <1>9, <1>10, <1>11 DEF IInv

LEMMA DestroyKeeps ==
  ASSUME IInv, Destroy
  PROVE  IInv' /\ GoesForward
  <1> DEFINE c == Cont("pass", Len(tasks), 0)
  <1>1. /\ phase \in {"done", "uncaught", "escaped"} /\ phase' = "destroy" /\ cont' = <<c>>
        /\ UNCHANGED <<stacks, handlers, objs, stopped, tasks, known, ran, fuel, line, over>>
    BY DEF Destroy
  <1>2. Len(tasks) \in Nat
    BY LenProperties DEF IInv, RestOK
  <1>3. c \in ContRec /\ c.k = "pass" /\ c.u = Len(tasks) /\ c.n = 0
    BY <1>2, FramesAreRecords, KindsAreNamed
  <1> HIDE DEF c
  <1>4. NativeOK(cont', unit, tasks', phase')
    <2>1. FrameOK(c, unit, tasks)
      BY <1>2, <1>3 DEF FrameOK
    <2>2. NativeOK(<<>>, unit, tasks, "destroy")
      BY NativeEmpty
    <2>3. NativeOK(Append(<<>>, c), unit, tasks, "destroy")
      BY <1>3, <2>1, <2>2, NativePush
    <2>4. Append(<<>>, c) = <<c>>
      OBVIOUS
    <2> QED BY <1>1, <2>3, <2>4
  <1>5. handling = 0
    <2>1. handling \in Nat
      BY DEF IInv, StacksOK, Stacks
    <2> QED BY <1>1, <2>1 DEF IInv, FlagConsumed
  <1>6. RestOK' /\ FlagConsumed' /\ UNCHANGED stacks
    BY <1>1, <1>5 DEF IInv, RestOK, FlagConsumed, stacks, Phases
  <1> QED BY <1>4, <1>6, StayOK

LEMMA UnchangedKeeps ==
  ASSUME IInv, UNCHANGED vars
  PROVE  IInv' /\ GoesForward
  <1>1. UNCHANGED stacks /\ UNCHANGED <<cont, tasks, phase>>
    BY DEF vars, stacks
  <1>2. RestOK' /\ FlagConsumed' /\ NativeOK(cont', unit, tasks', phase')
    BY <1>1 DEF IInv, RestOK, FlagConsumed, vars
  <1> QED BY <1>1, <1>2, StayOK

-----------------------------------------------------------------------------
(* Units that wait.  A call, a for-each and a for loop copy their unit     *)
(* before they evaluate what comes first; until then the copy is as new:   *)
(* on exec_stack nowhere, and no other native frame's.                     *)

Waits(c) == c.k \in {"args", "iterable", "init"}
\* The unit a native frame executes, or is going to.
Runs(c) == c.k \in {"exec", "iter", "loop"} \/ Waits(c)
Subject(c) == IF c.k = "init" THEN c.n ELSE c.u
Copy(c) == NewUnit(IF c.k = "args" THEN "fn" ELSE "body")

WaitsOK(cs, us, e) ==
  \A i \in DOMAIN cs : Waits(cs[i]) =>
    /\ Subject(cs[i]) \in DOMAIN us /\ us[Subject(cs[i])] = Copy(cs[i])
    /\ \A p \in DOMAIN e : e[p] # Subject(cs[i])
    /\ \A j \in DOMAIN cs : j # i /\ Runs(cs[j]) => Subject(cs[j]) # Subject(cs[i])
WaitInv == WaitsOK(cont, unit, exec)

\* A unit that is not on exec_stack, and an operation that leaves it there.
Apart(m, w) == w \in DOMAIN m.unit /\ \A p \in DOMAIN m.exec : m.exec[p] # w
Untouched(m, n, w) == Apart(n, w) /\ n.unit[w] = m.unit[w]

LEMMA SetUnitApart ==
  ASSUME NEW m, StacksOK(m), NEW w, Apart(m, w), NEW u, u # w, NEW r
  PROVE  Untouched(m, [m EXCEPT !.unit[u] = r], w)
  <1> DEFINE n == [m EXCEPT !.unit[u] = r]
             s == [m.unit EXCEPT ![u] = r]
  <1>1. n.unit = s /\ n.exec = m.exec
    BY DEF StacksOK
  <1>2. DOMAIN s = DOMAIN m.unit /\ s[w] = m.unit[w]
    BY DEF Apart
  <1> HIDE DEF n, s
  <1>3. Untouched(m, n, w)
    BY <1>1, <1>2 DEF Untouched, Apart
  <1> QED BY <1>3 DEF n

\* A copy is new, and every other unit stays as it is.
LEMMA CopyApart ==
  ASSUME NEW m, StacksOK(m), NEW kind \in UnitKinds
  PROVE  LET p == TmpCallable(m, kind)
             u == Last(p.tmp)
         IN  /\ \A w : Apart(m, w) => Untouched(m, p, w) /\ w # u
             /\ Apart(p, u) /\ p.unit[u] = NewUnit(kind)
             /\ u \notin DOMAIN m.unit /\ p.exec = m.exec /\ StacksOK(p)
  <1> DEFINE p == TmpCallable(m, kind)
             u == Last(p.tmp)
             r == NewUnit(kind)
  <1>1. /\ m.unit \in Seq(UnitRec) /\ m.tmp \in Seq(Nat)
        /\ m \in [exec : Seq(Nat), tmp : Seq(Nat), unit : Seq(UnitRec), handling : Nat]
    BY DEF StacksOK
  <1>2. p.unit = Append(m.unit, r) /\ p.tmp = Append(m.tmp, Len(m.unit) + 1) /\ p.exec = m.exec
    BY <1>1 DEF TmpCallable
  <1>3. r \in UnitRec
    BY DEF NewUnit, UnitRec
  <1>4. StacksOK(p) /\ u \in DOMAIN p.unit /\ u \notin DOMAIN m.unit
    BY TmpCallableOK DEF Keeps, KeepsBut
  <1> HIDE DEF p, r
  <1>5. Len(m.unit) \in Nat /\ u = Len(m.unit) + 1
    <2>1. Len(m.unit) \in Nat
      BY <1>1, LenProperties
    <2> QED BY <1>1, <1>2, <2>1, AppendNat
  <1>6. /\ p.unit[u] = r /\ \A w \in DOMAIN m.unit : w \in DOMAIN p.unit /\ p.unit[w] = m.unit[w]
    <2>1. /\ DOMAIN m.unit = 1..Len(m.unit)
          /\ DOMAIN Append(m.unit, r) = 1..(Len(m.unit) + 1)
          /\ Append(m.unit, r)[Len(m.unit) + 1] = r
          /\ \A w \in 1..Len(m.unit) : Append(m.unit, r)[w] = m.unit[w]
      BY <1>1, <1>3, AppendOK
    <2> HIDE DEF u
    <2> QED BY <1>2, <1>5, <2>1
  <1> HIDE DEF u
  <1>7. Apart(p, u)
    BY <1>2, <1>4, CurrentOK DEF Apart, StacksOK
  <1>8. \A w : Apart(m, w) => Untouched(m, p, w) /\ w # u
    BY <1>2, <1>4, <1>6 DEF Apart, Untouched
  <1> QED BY <1>2, <1>4, <1>6, <1>7, <1>8 DEF p, u, r

LEMMA EnterApart ==
  ASSUME NEW m, StacksOK(m), NEW w, Apart(m, w), NEW u \in DOMAIN m.unit, u # w
  PROVE  Untouched(m, EnterScope(m, u), w)
  <1> DEFINE r == [m.unit[u] EXCEPT !.fin = m.unit[u].ret \/ m.unit[u].brk]
             n == [m EXCEPT !.unit[u] = r]
             o == IF u = Main THEN n ELSE [n EXCEPT !.exec = Append(@, u)]
  <1>1. Untouched(m, n, w)
    <2> HIDE DEF r
    <2> QED BY SetUnitApart
  <1>2. EnterScope(m, u) = o
    BY DEF EnterScope, StacksOK
  <1>3. n.exec = m.exec /\ DOMAIN n = {"exec", "tmp", "unit", "handling"} /\ m.exec \in Seq(Nat)
        /\ u \in Nat
    BY UnitIsNat DEF StacksOK
  <1> HIDE DEF n
  <1>4. o.unit = n.unit /\ (o.exec = m.exec \/ o.exec = Append(m.exec, u))
    BY <1>3
  <1> HIDE DEF o
  <1>5. \A p \in DOMAIN Append(m.exec, u) :
          Append(m.exec, u)[p] = u \/ (p \in DOMAIN m.exec /\ Append(m.exec, u)[p] = m.exec[p])
    BY <1>3, AppendNat
  <1>6. Untouched(m, o, w)
    BY <1>1, <1>4, <1>5 DEF Untouched, Apart
  <1> QED BY <1>2, <1>6

LEMMA ExecuteApart ==
  ASSUME NEW m, StacksOK(m), NEW w, Apart(m, w), NEW u \in DOMAIN m.unit, u # w, NEW own \in BOOLEAN
  PROVE  Untouched(m, Execute(m, u, own), w)
  <1> DEFINE e == IF own THEN EnterScope(m, u) ELSE m
  <1>1. Untouched(m, e, w) /\ StacksOK(e)
    <2>1. Untouched(m, m, w)
      BY DEF Untouched
    <2>2. Untouched(m, EnterScope(m, u), w) /\ StacksOK(EnterScope(m, u))
      BY EnterApart, EnterScopeOK DEF Keeps, KeepsBut
    <2> QED BY <2>1, <2>2
  <1> DEFINE r == [e.unit[u] EXCEPT !.cur = 0]
  <1>2. Execute(m, u, own) \in {e, [e EXCEPT !.handling = @ - 1], [e EXCEPT !.unit[u] = r]}
    BY DEF Execute
  <1> HIDE DEF e, r
  <1>3. Apart(e, w) /\ e.unit[w] = m.unit[w]
    BY <1>1 DEF Untouched
  <1>4. Untouched(e, [e EXCEPT !.unit[u] = r], w)
    BY <1>1, <1>3, SetUnitApart
  <1>5. Untouched(e, [e EXCEPT !.handling = @ - 1], w)
    <2>1. [e EXCEPT !.handling = @ - 1].unit = e.unit /\ [e EXCEPT !.handling = @ - 1].exec = e.exec
      BY <1>1 DEF StacksOK
    <2> QED BY <1>3, <2>1 DEF Untouched, Apart
  <1>6. Untouched(e, e, w)
    BY <1>3 DEF Untouched
  <1> DEFINE x == Execute(m, u, own)
  <1>7. Untouched(e, x, w)
    BY <1>2, <1>4, <1>5, <1>6
  <1> HIDE DEF x
  <1>8. Untouched(m, x, w)
    BY <1>3, <1>7 DEF Untouched
  <1> QED BY <1>8 DEF x

LEMMA InvokeApart ==
  ASSUME NEW m, StacksOK(m), NEW kind \in UnitKinds
  PROVE  \A w : Apart(m, w) => Untouched(m, Invoke(m, kind), w) /\ w # Last(Invoke(m, kind).tmp)
  <1> SUFFICES ASSUME NEW w, Apart(m, w)
               PROVE  Untouched(m, Invoke(m, kind), w) /\ w # Last(Invoke(m, kind).tmp)
    OBVIOUS
  <1> DEFINE p == TmpCallable(m, kind)
             u == Last(p.tmp)
             n == Execute(p, u, TRUE)
  <1>1. StacksOK(p) /\ Untouched(m, p, w) /\ w # u
    BY CopyApart
  <1>2. u \in DOMAIN p.unit
    BY TmpCallableOK
  <1> HIDE DEF p
  <1>3. n.tmp = p.tmp
    BY <1>1, <1>2, ExecuteOK
  <1>4. Untouched(p, n, w)
    <2> HIDE DEF u
    <2> QED BY <1>1, <1>2, ExecuteApart DEF Untouched
  <1>5. Invoke(m, kind) = n
    BY DEF Invoke, p
  <1> HIDE DEF n
  <1>6. Untouched(m, n, w)
    BY <1>1, <1>4 DEF Untouched
  <1> QED BY <1>1, <1>3, <1>5, <1>6

\* What happens to the frames of exec_stack only.
LEMMA CurrentApart ==
  ASSUME NEW m, StacksOK(m), NEW w, Apart(m, w)
  PROVE  Current(m) # w /\ Parent(m) # w /\ w \notin ToSet(m.exec) /\ w \notin Below(m)
  <1>1. m.exec \in Seq(Nat) /\ Len(m.exec) \in Nat \ {0} /\ DOMAIN m.exec = 1..Len(m.exec)
    BY CurrentOK, LenProperties DEF StacksOK
  <1>2. w \notin ToSet(m.exec)
    BY DEF Apart, ToSet
  <1>3. Current(m) = m.exec[Len(m.exec)]
    BY DEF Current, Last
  <1> QED BY <1>1, <1>2, <1>3 DEF Apart, Parent, Below

LEMMA ReturnApart ==
  ASSUME NEW m, StacksOK(m), NEW w, Apart(m, w), NEW u, u # w
  PROVE  /\ Untouched(m, SaveReturn(m, u), w)
         /\ \A r, c : Untouched(m, CarryReturn(m, r, c, u), w)
  <1> DEFINE q == [m.unit[u] EXCEPT !.ret = TRUE]
             r == [q EXCEPT !.fin = TRUE]
  <1>1. SaveReturn(m, u) \in {m, [m EXCEPT !.unit[u] = r]}
    <2>1. CASE m.unit[u].kind \in NoReturn
      BY <2>1 DEF SaveReturn
    <2>2. CASE m.unit[u].kind \notin NoReturn
      <3> DEFINE f == [m.unit EXCEPT ![u] = q]
                 g == [m.unit EXCEPT ![u] = r]
                 n == [m EXCEPT !.unit = f]
      <3>1. n.unit = f /\ [n EXCEPT !.unit = g] = [m EXCEPT !.unit = g]
        BY DEF StacksOK
      <3>2. [f EXCEPT ![u] = [f[u] EXCEPT !.fin = TRUE]] = g
        <4>1. DOMAIN f = DOMAIN m.unit /\ DOMAIN g = DOMAIN m.unit
          OBVIOUS
        <4>2. CASE u \in DOMAIN m.unit
          <5>1. f[u] = q
            BY <4>2
          <5> HIDE DEF q
          <5> QED BY <5>1
        <4>3. CASE u \notin DOMAIN m.unit
          <5> HIDE DEF q, r
          <5> QED BY <4>1, <4>3, Zenon
        <4> QED BY <4>2, <4>3
      <3>3. SaveReturn(m, u)
              = [n EXCEPT !.unit = [n.unit EXCEPT ![u] = [n.unit[u] EXCEPT !.fin = TRUE]]]
        BY <2>2, Zenon DEF SaveReturn
      <3>4. SaveReturn(m, u) = [m EXCEPT !.unit = g]
        <4> HIDE DEF f, g, n
        <4> QED BY <3>1, <3>2, <3>3
      <3> QED BY <3>4, Zenon
    <2> QED BY <2>1, <2>2
  <1> HIDE DEF r
  <1>2. Untouched(m, m, w) /\ Untouched(m, [m EXCEPT !.unit[u] = r], w)
    BY SetUnitApart DEF Untouched
  <1> QED BY <1>1, <1>2 DEF CarryReturn

LEMMA StopApart ==
  ASSUME NEW m, StacksOK(m), NEW w, Apart(m, w), NEW us, w \notin us
  PROVE  Untouched(m, StopUnits(m, us, TRUE), w) /\ Untouched(m, StopUnits(m, us, FALSE), w)
  <1>1. ASSUME NEW b \in BOOLEAN
        PROVE  Untouched(m, StopUnits(m, us, b), w)
    <2> DEFINE n == StopUnits(m, us, b)
    <2>1. n.exec = m.exec /\ DOMAIN n.unit = DOMAIN m.unit /\ n.unit[w] = m.unit[w]
      BY DEF StopUnits, StacksOK, Apart
    <2> HIDE DEF n
    <2>2. Untouched(m, n, w)
      BY <2>1 DEF Untouched, Apart
    <2> QED BY <2>2 DEF n
  <1> QED BY <1>1

LEMMA BreakApart ==
  ASSUME NEW m, StacksOK(m), NEW w, Apart(m, w), NEW u
  PROVE  Untouched(m, PropagateBreak(m, u), w)
  <1>1. w \notin {v \in Below(m) : Carries(m, v)}
    BY CurrentApart
  <1>2. Untouched(m, StopUnits(m, {v \in Below(m) : Carries(m, v)}, TRUE), w)
    BY <1>1, StopApart
  <1>3. Untouched(m, m, w)
    BY DEF Untouched
  <1> QED BY <1>2, <1>3 DEF PropagateBreak

LEMMA LeaveApart ==
  ASSUME NEW m, StacksOK(m), NEW w, Apart(m, w)
  PROVE  Untouched(m, LeaveScope(m), w)
  <1> DEFINE u == Current(m)
             r == [m.unit[u] EXCEPT !.ret = FALSE]
             c == [m EXCEPT !.unit[u] = r]
             q == [c.unit[u] EXCEPT !.kind = "freed"]
             p == PopTmpCallable(c)
             n == [p EXCEPT !.exec = Front(@)]
  <1>1. u # w /\ m.exec \in Seq(Nat) /\ m.exec # <<>> /\ u \in DOMAIN m.unit
    BY CurrentApart, CurrentOK DEF StacksOK
  <1>2. StacksOK(c) /\ Untouched(m, c, w) /\ c.exec = m.exec /\ Current(c) = u
    <2>1. r \in UnitRec /\ r.kind = m.unit[u].kind /\ r.cur = m.unit[u].cur
      <3>1. m.unit[u] \in UnitRec
        BY <1>1, UnitOK
      <3> QED BY <3>1, SetFlags
    <2>2. c.exec = m.exec
      BY DEF StacksOK
    <2>3. Current(c) = u
      <3> HIDE DEF c
      <3> QED BY <2>2 DEF Current
    <2> HIDE DEF r, u
    <2>4. StacksOK(c)
      BY <1>1, <2>1, SetUnitOK DEF KeepsBut
    <2> QED BY <1>1, <2>2, <2>3, <2>4, SetUnitApart
  <1>3. LeaveScope(m) = IF Len(m.exec) > 1 THEN n ELSE m
    BY DEF LeaveScope
  <1> HIDE DEF c, r, u
  <1>4. Untouched(c, p, w) /\ p.exec = c.exec /\ "exec" \in DOMAIN p
    <2> DEFINE d == [c EXCEPT !.unit[u] = q]
    <2>1. Untouched(c, d, w) /\ d.exec = c.exec /\ DOMAIN d = {"exec", "tmp", "unit", "handling"}
      <3>1. Apart(c, w) /\ StacksOK(c)
        BY <1>2 DEF Untouched
      <3> HIDE DEF q
      <3>2. Untouched(c, d, w)
        BY <1>1, <3>1, SetUnitApart
      <3> QED BY <3>1, <3>2 DEF StacksOK
    <2>2. p = c \/ p = [d EXCEPT !.tmp = Front(@)]
      BY <1>2 DEF PopTmpCallable, StacksOK
    <2>3. Untouched(c, c, w) /\ "exec" \in DOMAIN c
      BY <1>2 DEF Untouched, StacksOK
    <2> HIDE DEF d, p
    <2>4. p = c \/ (p.unit = d.unit /\ p.exec = d.exec /\ "exec" \in DOMAIN p)
      BY <2>1, <2>2
    <2> QED BY <2>1, <2>3, <2>4 DEF Untouched, Apart
  <1> HIDE DEF p
  <1>5. n.exec = Front(m.exec) /\ n.unit = p.unit
    BY <1>2, <1>4
  <1> HIDE DEF n
  <1>6. Untouched(m, n, w)
    <2> HIDE DEF Front
    <2>0. /\ Len(m.exec) \in Nat /\ DOMAIN m.exec = 1..Len(m.exec)
          /\ DOMAIN Front(m.exec) = 1..(Len(m.exec) - 1)
          /\ \A i \in 1..(Len(m.exec) - 1) : Front(m.exec)[i] = m.exec[i]
      BY <1>1, FrontNat
    <2>1. \A i \in DOMAIN Front(m.exec) : i \in DOMAIN m.exec /\ Front(m.exec)[i] = m.exec[i]
      BY <2>0
    <2> QED BY <1>2, <1>4, <1>5, <2>1 DEF Untouched, Apart
  <1>7. Untouched(m, m, w)
    BY DEF Untouched
  <1> QED BY <1>3, <1>6, <1>7

LEMMA AdvanceApart ==
  ASSUME NEW m, StacksOK(m), NEW w, Apart(m, w), NEW u, u # w
  PROVE  Untouched(m, Advance(m, u), w)
  <1> DEFINE r == [m.unit[u] EXCEPT !.cur = m.unit[u].cur + 1]
             n == [m EXCEPT !.unit[u] = r]
  <1>1. Advance(m, u) = n
    BY DEF Advance
  <1>2. Untouched(m, n, w)
    <2> HIDE DEF r
    <2> QED BY SetUnitApart
  <1> HIDE DEF n
  <1> QED BY <1>1, <1>2

-----------------------------------------------------------------------------
(* The units that wait, as the native stack grows and shrinks.             *)

LEMMA WaitsFront ==
  ASSUME NEW cs \in Seq(ContRec), cs # <<>>, NEW us, NEW e, WaitsOK(cs, us, e)
  PROVE  WaitsOK(Front(cs), us, e)
  <1> HIDE DEF Front
  <1>0. /\ Len(cs) \in Nat \ {0} /\ DOMAIN cs = 1..Len(cs)
        /\ DOMAIN Front(cs) = 1..(Len(cs) - 1)
        /\ \A i \in 1..(Len(cs) - 1) : Front(cs)[i] = cs[i]
    BY FrontCont
  <1>1. \A i \in DOMAIN Front(cs) : i \in DOMAIN cs /\ Front(cs)[i] = cs[i]
    BY <1>0
  <1> QED BY <1>1 DEF WaitsOK

\* The units that wait are apart, and stay as long as nothing touches them.
LEMMA WaitsApart ==
  ASSUME NEW cs, NEW m, WaitsOK(cs, m.unit, m.exec), NEW i \in DOMAIN cs, Waits(cs[i])
  PROVE  Apart(m, Subject(cs[i]))
  BY DEF WaitsOK, Apart

LEMMA WaitsMoved ==
  ASSUME NEW cs, NEW m, NEW n, WaitsOK(cs, m.unit, m.exec),
         \A i \in DOMAIN cs : Waits(cs[i]) => Untouched(m, n, Subject(cs[i]))
  PROVE  WaitsOK(cs, n.unit, n.exec)
  BY DEF WaitsOK, Untouched, Apart

LEMMA WaitsPush ==
  ASSUME NEW cs \in Seq(ContRec), NEW us, NEW e, WaitsOK(cs, us, e), NEW c \in ContRec,
         Runs(c) => \A i \in DOMAIN cs : Waits(cs[i]) => Subject(cs[i]) # Subject(c),
         Waits(c) => /\ Subject(c) \in DOMAIN us /\ us[Subject(c)] = Copy(c)
                     /\ \A p \in DOMAIN e : e[p] # Subject(c)
                     /\ \A j \in DOMAIN cs : Runs(cs[j]) => Subject(cs[j]) # Subject(c)
  PROVE  WaitsOK(Append(cs, c), us, e)
  <1> DEFINE t == Append(cs, c)
  <1>1. /\ Len(cs) \in Nat /\ DOMAIN cs = 1..Len(cs)
        /\ DOMAIN t = 1..(Len(cs) + 1)
        /\ \A i \in 1..Len(cs) : t[i] = cs[i]
        /\ t[Len(cs) + 1] = c
    BY AppendOK
  <1> HIDE DEF t
  <1>2. ASSUME NEW i \in DOMAIN t, Waits(t[i])
        PROVE  /\ Subject(t[i]) \in DOMAIN us /\ us[Subject(t[i])] = Copy(t[i])
               /\ \A p \in DOMAIN e : e[p] # Subject(t[i])
               /\ \A j \in DOMAIN t : j # i /\ Runs(t[j]) => Subject(t[j]) # Subject(t[i])
    <2>1. CASE i \in 1..Len(cs)
      <3>1. t[i] = cs[i] /\ i \in DOMAIN cs
        BY <1>1, <2>1
      <3>2. ASSUME NEW j \in DOMAIN t, j # i, Runs(t[j])
            PROVE  Subject(t[j]) # Subject(t[i])
        <4>1. CASE j \in 1..Len(cs)
          BY <1>1, <1>2, <3>1, <3>2, <4>1 DEF WaitsOK
        <4>2. CASE j = Len(cs) + 1
          BY <1>1, <1>2, <3>1, <3>2, <4>2
        <4> QED BY <1>1, <4>1, <4>2
      <3> QED BY <1>2, <3>1, <3>2 DEF WaitsOK
    <2>2. CASE i = Len(cs) + 1
      <3>1. \A j \in DOMAIN t : j # i => j \in DOMAIN cs /\ t[j] = cs[j]
        BY <1>1, <2>2
      <3> QED BY <1>1, <1>2, <2>2, <3>1
    <2> QED BY <1>1, <2>1, <2>2
  <1>3. WaitsOK(t, us, e)
    BY <1>2 DEF WaitsOK
  <1> QED BY <1>3 DEF t

\* A native frame that runs no unit.
LEMMA WaitsBeside ==
  ASSUME NEW cs \in Seq(ContRec), NEW us, NEW e, WaitsOK(cs, us, e), NEW c \in ContRec, ~Runs(c)
  PROVE  WaitsOK(Append(cs, c), us, e)
  BY WaitsPush DEF Runs

\* The unit of a native frame is allocated.
LEMMA SubjectOK ==
  ASSUME NEW c, NEW us, NEW ts, FrameOK(c, us, ts), Runs(c)
  PROVE  Subject(c) \in DOMAIN us
  BY DEF FrameOK, Runs, Waits, Subject

\* A copy is made, for a native frame that waits.
LEMMA WaitsCopy ==
  ASSUME NEW m, StacksOK(m), NEW kind \in {"fn", "body"},
         NEW cs \in Seq(ContRec), WaitsOK(cs, m.unit, m.exec),
         NEW ts, \A i \in DOMAIN cs : FrameOK(cs[i], m.unit, ts),
         NEW c \in ContRec, Waits(c), Copy(c) = NewUnit(kind),
         Subject(c) = Last(TmpCallable(m, kind).tmp)
  PROVE  LET n == TmpCallable(m, kind) IN WaitsOK(Append(cs, c), n.unit, n.exec)
  <1> DEFINE n == TmpCallable(m, kind)
             u == Last(n.tmp)
  <1>1. /\ \A w : Apart(m, w) => Untouched(m, n, w) /\ w # u
        /\ Apart(n, u) /\ n.unit[u] = NewUnit(kind) /\ u \notin DOMAIN m.unit
    BY CopyApart DEF UnitKinds
  <1> HIDE DEF n
  <1>2. WaitsOK(cs, n.unit, n.exec)
    BY <1>1, WaitsApart, WaitsMoved
  <1>3. \A i \in DOMAIN cs : Runs(cs[i]) => Subject(cs[i]) \in DOMAIN m.unit
    BY SubjectOK
  <1>4. Subject(c) = u
    BY DEF n
  <1> HIDE DEF u
  <1>5. WaitsOK(Append(cs, c), n.unit, n.exec)
    BY <1>1, <1>2, <1>3, <1>4, WaitsPush DEF Apart, Runs
  <1> QED BY <1>5 DEF n

\* A copy is made and executed.
LEMMA WaitsInvoke ==
  ASSUME NEW m, StacksOK(m), NEW kind \in UnitKinds,
         NEW cs \in Seq(ContRec), WaitsOK(cs, m.unit, m.exec)
  PROVE  LET n == Invoke(m, kind)
             c == Cont("exec", Last(n.tmp), 0)
         IN  WaitsOK(Append(cs, c), n.unit, n.exec)
  <1> DEFINE n == Invoke(m, kind)
             u == Last(n.tmp)
             c == Cont("exec", u, 0)
  <1>1. \A w : Apart(m, w) => Untouched(m, n, w) /\ w # u
    BY InvokeApart
  <1>2. StacksOK(n) /\ u \in DOMAIN n.unit
    BY InvokeOK DEF Keeps, KeepsBut
  <1> HIDE DEF n
  <1>3. u \in Nat
    BY <1>2, UnitIsNat
  <1>4. c \in ContRec /\ ~Waits(c) /\ Subject(c) = u
    <2>1. c \in ContRec /\ c.k = "exec" /\ c.u = u
      BY <1>3, FramesAreRecords, KindsAreNamed
    <2> QED BY <2>1 DEF Waits, Subject
  <1> HIDE DEF c, u
  <1>5. WaitsOK(cs, n.unit, n.exec)
    BY <1>1, WaitsApart, WaitsMoved
  <1>6. WaitsOK(Append(cs, c), n.unit, n.exec)
    BY <1>1, <1>4, <1>5, WaitsApart, WaitsPush
  <1> QED BY <1>6 DEF n, u, c

\* An operation that touches no unit but those on exec_stack or new ones.
LeavesApart(m, n) == \A w : Apart(m, w) => Untouched(m, n, w)

LEMMA LeavesTransitive ==
  ASSUME NEW m, NEW n, NEW o, LeavesApart(m, n), LeavesApart(n, o)
  PROVE  LeavesApart(m, o)
  BY DEF LeavesApart, Untouched

LEMMA WaitsLeft ==
  ASSUME NEW cs, NEW m, NEW n, WaitsOK(cs, m.unit, m.exec), LeavesApart(m, n)
  PROVE  WaitsOK(cs, n.unit, n.exec)
  BY WaitsApart, WaitsMoved DEF LeavesApart

LEMMA WaitsBecome ==
  ASSUME NEW m, Become(m), WaitsOK(cont', m.unit, m.exec)
  PROVE  WaitInv'
  BY DEF WaitInv, Become

LEMMA WaitsStay ==
  ASSUME UNCHANGED stacks, WaitsOK(cont', unit, exec)
  PROVE  WaitInv'
  BY DEF WaitInv, stacks

\* The frame on top of the native stack runs a unit no other one waits for.
LEMMA TopWaits ==
  ASSUME IInv, WaitInv, cont # <<>>
  PROVE  /\ cont \in Seq(ContRec) /\ Front(cont) \in Seq(ContRec)
         /\ WaitsOK(cont, Stacks.unit, Stacks.exec)
         /\ WaitsOK(Front(cont), Stacks.unit, Stacks.exec)
         /\ Runs(TopCont) => /\ Subject(TopCont) \in DOMAIN unit
                             /\ \A i \in DOMAIN Front(cont) :
                                  Waits(Front(cont)[i]) => Subject(Front(cont)[i]) # Subject(TopCont)
         /\ Runs(TopCont) /\ ~Waits(TopCont) =>
              \A i \in DOMAIN cont : Waits(cont[i]) => Subject(cont[i]) # Subject(TopCont)
         /\ Waits(TopCont) => unit[Subject(TopCont)] = Copy(TopCont)
  <1>1. cont \in Seq(ContRec)
    BY DEF IInv, NativeOK
  <1>2. /\ Front(cont) \in Seq(ContRec) /\ Len(cont) \in Nat \ {0}
        /\ DOMAIN cont = 1..Len(cont) /\ DOMAIN Front(cont) = 1..(Len(cont) - 1)
        /\ \A i \in 1..(Len(cont) - 1) : Front(cont)[i] = cont[i]
        /\ TopCont = cont[Len(cont)]
    BY <1>1, FrontCont DEF TopCont
  <1>3. WaitsOK(cont, Stacks.unit, Stacks.exec)
    BY DEF WaitInv, Stacks
  <1>4. WaitsOK(Front(cont), Stacks.unit, Stacks.exec)
    BY <1>1, <1>3, WaitsFront
  <1>5. Runs(TopCont) => Subject(TopCont) \in DOMAIN unit
    BY Busy, SubjectOK
  <1> HIDE DEF Front, TopCont
  <1>6. /\ Len(cont) \in DOMAIN cont
        /\ \A i \in DOMAIN Front(cont) :
             i \in DOMAIN cont /\ i # Len(cont) /\ Front(cont)[i] = cont[i]
    <2>1. \A n \in Nat \ {0} : n \in 1..n /\ \A i \in 1..(n - 1) : i \in 1..n /\ i # n
      OBVIOUS
    <2> QED BY <1>2, <2>1
  <1>7. Runs(TopCont) => \A i \in DOMAIN Front(cont) :
          Waits(Front(cont)[i]) => Subject(Front(cont)[i]) # Subject(TopCont)
    BY <1>2, <1>6 DEF WaitInv, WaitsOK
  <1>8. Runs(TopCont) /\ ~Waits(TopCont) =>
          \A i \in DOMAIN cont : Waits(cont[i]) => Subject(cont[i]) # Subject(TopCont)
    BY <1>2 DEF WaitInv, WaitsOK
  <1>9. Waits(TopCont) => unit[Subject(TopCont)] = Copy(TopCont)
    BY <1>2 DEF WaitInv, WaitsOK
  <1> QED BY <1>1, <1>2, <1>3, <1>4, <1>5, <1>7, <1>8, <1>9

\* The stacks when an expression starts to be evaluated.
LEMMA EvaluatedWaits ==
  ASSUME IInv, WaitInv, NEW kind, CanEvaluate(kind)
  PROVE  /\ cont \in Seq(ContRec) /\ StacksOK(Evaluated) /\ Evaluated.exec = exec
         /\ WaitsOK(cont, Evaluated.unit, Evaluated.exec)
         /\ \A i \in DOMAIN cont : FrameOK(cont[i], Evaluated.unit, tasks)
  <1>1. /\ Keeps(Stacks, Evaluated) /\ StacksOK(Evaluated) /\ Evaluated.exec = exec
        /\ cont # <<>> /\ StacksOK(Stacks)
    BY EvaluatedOK DEF IInv
  <1>2. NativeOK(cont, Evaluated.unit, tasks, phase)
    <2> HIDE DEF Evaluated, Stacks
    <2> QED BY <1>1, EvaluationOK, KeepsSelf
  <1>3. cont \in Seq(ContRec) /\ WaitsOK(cont, Stacks.unit, Stacks.exec)
        /\ (Runs(TopCont) /\ ~Waits(TopCont) =>
              \A i \in DOMAIN cont : Waits(cont[i]) => Subject(cont[i]) # Subject(TopCont))
    BY <1>1, TopWaits
  <1>4. WaitsOK(cont, Evaluated.unit, Evaluated.exec)
    <2>1. CASE InUnit
      <3>1. Subject(TopCont) = TopCont.u /\ Runs(TopCont) /\ ~Waits(TopCont)
        BY <2>1 DEF InUnit, Subject, Runs, Waits
      <3> HIDE DEF Stacks, TopCont
      <3>2. \A i \in DOMAIN cont : Waits(cont[i]) =>
              Untouched(Stacks, Advance(Stacks, TopCont.u), Subject(cont[i]))
        BY <1>1, <1>3, <3>1, WaitsApart, AdvanceApart
      <3>3. WaitsOK(cont, Advance(Stacks, TopCont.u).unit, Advance(Stacks, TopCont.u).exec)
        <4> HIDE DEF Advance
        <4> QED BY <1>3, <3>2, WaitsMoved
      <3> QED BY <2>1, <3>3 DEF Evaluated
    <2>2. CASE ~InUnit
      BY <1>3, <2>2 DEF Evaluated
    <2> QED BY <2>1, <2>2
  <1> QED BY <1>1, <1>2, <1>3, <1>4 DEF NativeOK

-----------------------------------------------------------------------------
(* The actions that call a unit.                                           *)

LEMMA CallWaits ==
  ASSUME IInv, WaitInv, NEW kind \in Callables, Call(kind)
  PROVE  WaitInv'
  <1> DEFINE m == Invoke(Evaluated, kind)
             c == Cont("exec", Last(m.tmp), 0)
  <1>1. Become(m) /\ cont' = Append(cont, c) /\ CanEvaluate(kind)
    BY DEF Call
  <1>2. kind \in UnitKinds
    BY DEF Callables, UnitKinds
  <1>3. /\ cont \in Seq(ContRec) /\ StacksOK(Evaluated)
        /\ WaitsOK(cont, Evaluated.unit, Evaluated.exec)
    BY <1>1, EvaluatedWaits
  <1>4. WaitsOK(Append(cont, c), m.unit, m.exec)
    <2> HIDE DEF Evaluated
    <2> QED BY <1>2, <1>3, WaitsInvoke
  <1> HIDE DEF m, c
  <1> QED BY <1>1, <1>4, WaitsBecome

LEMMA CallFunctionWaits ==
  ASSUME IInv, WaitInv, CallFunction
  PROVE  WaitInv'
  <1> DEFINE m == TmpCallable(Evaluated, "fn")
             u == Last(m.tmp)
             c == Cont("args", u, 0)
  <1>1. Become(m) /\ cont' = Append(cont, c) /\ CanEvaluate("fn")
    BY DEF CallFunction
  <1>2. /\ cont \in Seq(ContRec) /\ StacksOK(Evaluated)
        /\ WaitsOK(cont, Evaluated.unit, Evaluated.exec)
        /\ \A i \in DOMAIN cont : FrameOK(cont[i], Evaluated.unit, tasks)
    BY <1>1, EvaluatedWaits
  <1>3. u \in Nat
    <2> HIDE DEF Evaluated
    <2>1. StacksOK(m) /\ u \in DOMAIN m.unit
      BY <1>2, TmpCallableOK DEF UnitKinds, Keeps, KeepsBut
    <2> HIDE DEF m
    <2> QED BY <2>1, UnitIsNat
  <1>4. c \in ContRec /\ Waits(c) /\ Copy(c) = NewUnit("fn") /\ Subject(c) = u
    <2>1. c \in ContRec /\ c.k = "args" /\ c.u = u
      BY <1>3, FramesAreRecords, KindsAreNamed
    <2> HIDE DEF c
    <2> QED BY <2>1 DEF Waits, Copy, Subject
  <1>5. WaitsOK(Append(cont, c), m.unit, m.exec)
    <2> HIDE DEF Evaluated, c
    <2> QED BY <1>2, <1>4, WaitsCopy
  <1> HIDE DEF m, c
  <1> QED BY <1>1, <1>5, WaitsBecome

LEMMA AccessWaits ==
  ASSUME IInv, WaitInv, Access
  PROVE  WaitInv'
  <1> DEFINE m == TmpCallable(Evaluated, "fn")
             u == Last(m.tmp)
             b == Cont("use", 0, 0)
             c == Cont("args", u, 0)
             cs == Append(cont, b)
  <1>1. Become(m) /\ cont' = cont \o <<b, c>> /\ CanEvaluate("access")
    BY DEF Access
  <1>2. /\ cont \in Seq(ContRec) /\ StacksOK(Evaluated)
        /\ WaitsOK(cont, Evaluated.unit, Evaluated.exec)
        /\ \A i \in DOMAIN cont : FrameOK(cont[i], Evaluated.unit, tasks)
    BY <1>1, EvaluatedWaits
  <1>3. u \in Nat
    <2> HIDE DEF Evaluated
    <2>1. StacksOK(m) /\ u \in DOMAIN m.unit
      BY <1>2, TmpCallableOK DEF UnitKinds, Keeps, KeepsBut
    <2> HIDE DEF m
    <2> QED BY <2>1, UnitIsNat
  <1>4. c \in ContRec /\ Waits(c) /\ Copy(c) = NewUnit("fn") /\ Subject(c) = u
    <2>1. c \in ContRec /\ c.k = "args" /\ c.u = u
      BY <1>3, FramesAreRecords, KindsAreNamed
    <2> HIDE DEF c
    <2> QED BY <2>1 DEF Waits, Copy, Subject
  <1>5. b \in ContRec /\ ~Runs(b) /\ \A us, ts : FrameOK(b, us, ts)
    <2>1. b \in ContRec /\ b.k = "use"
      BY FramesAreRecords, KindsAreNamed
    <2> HIDE DEF b
    <2> QED BY <2>1 DEF Waits, Runs, FrameOK
  <1> HIDE DEF Evaluated, b, c
  <1>6. cs \in Seq(ContRec) /\ WaitsOK(cs, Evaluated.unit, Evaluated.exec)
    BY <1>2, <1>5, WaitsBeside, AppendOK
  <1>7. \A i \in DOMAIN cs : FrameOK(cs[i], Evaluated.unit, tasks)
    <2>1. /\ Len(cont) \in Nat /\ DOMAIN cont = 1..Len(cont)
          /\ DOMAIN cs = 1..(Len(cont) + 1)
          /\ \A i \in 1..Len(cont) : cs[i] = cont[i]
          /\ cs[Len(cont) + 1] = b
      BY <1>2, <1>5, AppendOK
    <2> HIDE DEF cs
    <2> QED BY <1>2, <1>5, <2>1
  <1>8. cont' = Append(cs, c)
    BY <1>1, <1>2, <1>4, <1>5, PushTwo
  <1> HIDE DEF cs
  <1>9. WaitsOK(Append(cs, c), m.unit, m.exec)
    BY <1>2, <1>4, <1>6, <1>7, WaitsCopy
  <1> HIDE DEF m
  <1> QED BY <1>1, <1>8, <1>9, WaitsBecome

LEMMA TryCatchWaits ==
  ASSUME IInv, WaitInv, TryCatch
  PROVE  WaitInv'
  <1> DEFINE m == Invoke(Evaluated, "try")
             u == Last(m.tmp)
             b == Cont("try", 0, Len(exec))
             c == Cont("exec", u, 0)
             cs == Append(cont, b)
  <1>1. Become(m) /\ cont' = cont \o <<b, c>> /\ CanEvaluate("try")
    BY DEF TryCatch
  <1>2. /\ cont \in Seq(ContRec) /\ StacksOK(Evaluated) /\ Evaluated.handling = 0
        /\ WaitsOK(cont, Evaluated.unit, Evaluated.exec)
    BY <1>1, EvaluatedWaits, EvaluatedOK
  <1>3. c \in ContRec
    <2>1. u \in Nat
      <3> HIDE DEF Evaluated
      <3> QED BY <1>2, InvokedOK DEF UnitKinds
    <2> QED BY <2>1, FramesAreRecords, KindsAreNamed
  <1>4. b \in ContRec /\ ~Runs(b)
    <2>1. Len(exec) \in Nat
      BY CurrentOK DEF IInv, Stacks
    <2>2. b \in ContRec /\ b.k = "try"
      BY <2>1, FramesAreRecords, KindsAreNamed
    <2> HIDE DEF b
    <2> QED BY <2>2 DEF Waits, Runs
  <1> HIDE DEF Evaluated, b
  <1>5. cs \in Seq(ContRec) /\ WaitsOK(cs, Evaluated.unit, Evaluated.exec)
    BY <1>2, <1>4, WaitsBeside, AppendOK
  <1>6. cont' = Append(cs, c)
    BY <1>1, <1>2, <1>3, <1>4, PushTwo
  <1> HIDE DEF cs
  <1>7. WaitsOK(Append(cs, c), m.unit, m.exec)
    BY <1>2, <1>5, WaitsInvoke DEF UnitKinds
  <1> HIDE DEF m, c
  <1> QED BY <1>1, <1>6, <1>7, WaitsBecome

LEMMA CallbackWaits ==
  ASSUME IInv, WaitInv, EachNext \/ PassNext
  PROVE  WaitInv'
  <1> DEFINE m == Invoke(Stacks, "fn")
             c == Cont("exec", Last(m.tmp), 0)
  <1>1. /\ Become(m) /\ cont # <<>>
        /\ \/ cont' = Append(cont, c)
           \/ cont' = Front(cont) \o <<Cont("pass", TopCont.u, TopCont.n + 1), c>>
    BY DEF EachNext, PassNext, In
  <1>2. /\ cont \in Seq(ContRec) /\ Front(cont) \in Seq(ContRec)
        /\ WaitsOK(cont, Stacks.unit, Stacks.exec)
        /\ WaitsOK(Front(cont), Stacks.unit, Stacks.exec)
        /\ StacksOK(Stacks) /\ Stacks.handling = 0 /\ TopCont \in ContRec
    BY <1>1, TopWaits, Busy
  <1>3. ASSUME NEW cs \in Seq(ContRec), WaitsOK(cs, Stacks.unit, Stacks.exec), cont' = Append(cs, c)
        PROVE  WaitInv'
    <2>1. WaitsOK(Append(cs, c), m.unit, m.exec)
      <3> HIDE DEF Stacks
      <3> QED BY <1>2, <1>3, WaitsInvoke DEF UnitKinds
    <2> HIDE DEF m, c
    <2> QED BY <1>1, <1>3, <2>1, WaitsBecome
  <1>4. ASSUME cont' = Front(cont) \o <<Cont("pass", TopCont.u, TopCont.n + 1), c>>
        PROVE  WaitInv'
    <2> DEFINE b == Cont("pass", TopCont.u, TopCont.n + 1)
    <2>1. b \in ContRec /\ ~Runs(b)
      <3>1. TopCont.u \in Nat /\ TopCont.n + 1 \in Nat
        BY <1>2 DEF ContRec
      <3>2. b \in ContRec /\ b.k = "pass"
        <4> HIDE DEF TopCont
        <4> QED BY <3>1, FramesAreRecords, KindsAreNamed
      <3> HIDE DEF b
      <3> QED BY <3>2 DEF Waits, Runs
    <2>2. c \in ContRec
      <3>1. Last(m.tmp) \in Nat
        BY <1>2, InvokedOK DEF UnitKinds
      <3> QED BY <3>1, FramesAreRecords, KindsAreNamed
    <2> HIDE DEF b, c, Front, Stacks
    <2>3. WaitsOK(Append(Front(cont), b), Stacks.unit, Stacks.exec) /\ Append(Front(cont), b) \in Seq(ContRec)
      BY <1>2, <2>1, WaitsBeside, AppendOK
    <2>4. cont' = Append(Append(Front(cont), b), c)
      BY <1>2, <1>4, <2>1, <2>2, PushTwo DEF b
    <2> QED BY <1>3, <2>3, <2>4
  <1> HIDE DEF m, c
  <1> QED BY <1>1, <1>2, <1>3, <1>4

-----------------------------------------------------------------------------
(* The actions of loops and callees.                                       *)

LEMMA ForEachWaits ==
  ASSUME IInv, WaitInv, ForEach
  PROVE  WaitInv'
  <1> DEFINE m == TmpCallable(Evaluated, "body")
             u == Last(m.tmp)
             c == Cont("iterable", u, 0)
  <1>1. Become(m) /\ cont' = Append(cont, c) /\ CanEvaluate("foreach")
    BY DEF ForEach
  <1>2. /\ cont \in Seq(ContRec) /\ StacksOK(Evaluated)
        /\ WaitsOK(cont, Evaluated.unit, Evaluated.exec)
        /\ \A i \in DOMAIN cont : FrameOK(cont[i], Evaluated.unit, tasks)
    BY <1>1, EvaluatedWaits
  <1>3. u \in Nat
    <2> HIDE DEF Evaluated
    <2>1. StacksOK(m) /\ u \in DOMAIN m.unit
      BY <1>2, TmpCallableOK DEF UnitKinds, Keeps, KeepsBut
    <2> HIDE DEF m
    <2> QED BY <2>1, UnitIsNat
  <1>4. c \in ContRec /\ Waits(c) /\ Copy(c) = NewUnit("body") /\ Subject(c) = u
    <2>1. c \in ContRec /\ c.k = "iterable" /\ c.u = u
      BY <1>3, FramesAreRecords, KindsAreNamed
    <2> HIDE DEF c
    <2> QED BY <2>1 DEF Waits, Copy, Subject
  <1>5. WaitsOK(Append(cont, c), m.unit, m.exec)
    <2> HIDE DEF Evaluated, c
    <2> QED BY <1>2, <1>4, WaitsCopy
  <1> HIDE DEF m, c
  <1> QED BY <1>1, <1>5, WaitsBecome

\* The proxy is entered, which no native frame waits for.
LEMMA ForLoopWaits ==
  ASSUME IInv, WaitInv, ForLoop
  PROVE  WaitInv'
  <1> DEFINE p == TmpCallable(Evaluated, "proxy")
             b == TmpCallable(p, "body")
             v == Last(p.tmp)
             u == Last(b.tmp)
             m == EnterScope(b, v)
             c == Cont("init", v, u)
             cs == Append(cont, c)
  <1>1. Become(m) /\ cont' = cs /\ CanEvaluate("for")
    BY DEF ForLoop
  <1>2. /\ cont \in Seq(ContRec) /\ StacksOK(Evaluated) /\ Evaluated.handling = 0
        /\ WaitsOK(cont, Evaluated.unit, Evaluated.exec)
        /\ NativeOK(cont, Evaluated.unit, tasks, phase) /\ Len(tasks) \in Nat
    <2>1. /\ cont \in Seq(ContRec) /\ StacksOK(Evaluated) /\ Evaluated.handling = 0
          /\ WaitsOK(cont, Evaluated.unit, Evaluated.exec) /\ cont # <<>>
      BY <1>1, EvaluatedWaits, EvaluatedOK
    <2>2. NativeOK(cont, Evaluated.unit, tasks, phase)
      <3> HIDE DEF Evaluated
      <3> QED BY <1>1, <2>1, EvaluationOK, KeepsSelf
    <2> QED BY <2>1, <2>2, Busy
  <1> HIDE DEF Evaluated
  <1>3. /\ LeavesApart(Evaluated, p) /\ \A w : Apart(Evaluated, w) => w # v
        /\ StacksOK(p) /\ Keeps(Evaluated, p) /\ p.handling = 0
        /\ v \in DOMAIN p.unit /\ v \in Nat
    BY <1>2, CopyApart, OpenedOK DEF UnitKinds, LeavesApart
  <1> HIDE DEF p
  <1>4. /\ WaitsOK(cont, p.unit, p.exec)
        /\ \A i \in DOMAIN cont : FrameOK(cont[i], p.unit, tasks)
        /\ \A i \in DOMAIN cont : Waits(cont[i]) => Subject(cont[i]) # v
    <2>1. NativeOK(cont, p.unit, tasks, phase)
      BY <1>2, <1>3, NativeMoved
    <2>2. WaitsOK(cont, p.unit, p.exec)
      BY <1>2, <1>3, WaitsLeft
    <2> QED BY <1>2, <1>3, <2>1, <2>2, WaitsApart DEF NativeOK
  <1> HIDE DEF v
  <1>5. /\ StacksOK(b) /\ u \in Nat /\ u \notin DOMAIN p.unit /\ v \in DOMAIN b.unit
    BY <1>3, CopyApart, OpenedOK DEF UnitKinds, Keeps, KeepsBut
  <1>6. c \in ContRec /\ Waits(c) /\ Copy(c) = NewUnit("body") /\ Subject(c) = u
    <2>1. c \in ContRec /\ c.k = "init" /\ c.n = u
      BY <1>3, <1>5, FramesAreRecords, KindsAreNamed
    <2> HIDE DEF c
    <2> QED BY <2>1 DEF Waits, Copy, Subject
  <1> HIDE DEF c
  <1>7. WaitsOK(cs, b.unit, b.exec)
    BY <1>2, <1>3, <1>4, <1>6, WaitsCopy
  <1> HIDE DEF b, u
  <1>8. \A i \in DOMAIN cs : Waits(cs[i]) => Subject(cs[i]) # v
    <2>1. /\ Len(cont) \in Nat /\ DOMAIN cont = 1..Len(cont)
          /\ DOMAIN cs = 1..(Len(cont) + 1)
          /\ \A i \in 1..Len(cont) : cs[i] = cont[i]
          /\ cs[Len(cont) + 1] = c
      BY <1>2, <1>6, AppendOK
    <2> HIDE DEF cs
    <2> QED BY <1>3, <1>4, <1>5, <1>6, <2>1
  <1>9. \A i \in DOMAIN cs : Waits(cs[i]) => Untouched(b, m, Subject(cs[i]))
    <2> HIDE DEF cs
    <2> QED BY <1>5, <1>7, <1>8, WaitsApart, EnterApart
  <1> HIDE DEF m, cs
  <1>10. WaitsOK(cs, m.unit, m.exec)
    BY <1>7, <1>9, WaitsMoved
  <1> QED BY <1>1, <1>10, WaitsBecome

\* What a native frame waited for is entered, or executed: no other waits.
LEMMA EntryWaits ==
  ASSUME IInv, WaitInv, EnterLoop \/ EnterCallee
  PROVE  WaitInv'
  <1> DEFINE cs == Front(cont)
             u == Subject(TopCont)
  <1>1. PICK c \in ContRec, m \in {EnterScope(Stacks, u), Execute(Stacks, u, TRUE)} :
          /\ Become(m) /\ cont' = Append(cs, c) /\ cont # <<>> /\ Waits(TopCont)
          /\ ~Waits(c) /\ Subject(c) = u
    <2>0. cont # <<>> => TopCont.u \in Nat /\ TopCont.n \in Nat
      BY Busy DEF ContRec
    <2>1. CASE EnterCallee
      <3> DEFINE c == Cont("exec", TopCont.u, 0)
      <3>1. cont # <<>> /\ TopCont.k = "args"
        BY <2>1 DEF EnterCallee, In
      <3>2. c \in ContRec /\ c.k = "exec" /\ c.u = TopCont.u
        BY <2>0, <3>1, FramesAreRecords, KindsAreNamed
      <3>3. ~Waits(c) /\ Subject(c) = TopCont.u /\ u = TopCont.u /\ Waits(TopCont)
        <4> HIDE DEF c
        <4> QED BY <3>1, <3>2 DEF Waits, Subject
      <3>4. Become(Execute(Stacks, TopCont.u, TRUE)) /\ cont' = Append(cs, c)
        BY <2>1 DEF EnterCallee
      <3> HIDE DEF c, u, cs, TopCont, Stacks
      <3> QED BY <3>1, <3>2, <3>3, <3>4
    <2>2. CASE In("init") /\ Become(EnterScope(Stacks, TopCont.n))
               /\ cont' = Append(Front(cont), Cont("loop", TopCont.n, TopCont.u))
      <3> DEFINE c == Cont("loop", TopCont.n, TopCont.u)
      <3>1. cont # <<>> /\ TopCont.k = "init"
        BY <2>2 DEF In
      <3>2. c \in ContRec /\ c.k = "loop" /\ c.u = TopCont.n
        BY <2>0, <3>1, FramesAreRecords, KindsAreNamed
      <3>3. ~Waits(c) /\ Subject(c) = TopCont.n /\ u = TopCont.n /\ Waits(TopCont)
        <4> HIDE DEF c
        <4> QED BY <3>1, <3>2 DEF Waits, Subject
      <3> HIDE DEF c, u, TopCont, Stacks
      <3> QED BY <2>2, <3>1, <3>2, <3>3 DEF c
    <2>3. CASE In("iterable") /\ Become(EnterScope(Stacks, TopCont.u))
               /\ cont' = Append(Front(cont), Cont("loop", TopCont.u, 0))
      <3> DEFINE c == Cont("loop", TopCont.u, 0)
      <3>1. cont # <<>> /\ TopCont.k = "iterable"
        BY <2>3 DEF In
      <3>2. c \in ContRec /\ c.k = "loop" /\ c.u = TopCont.u
        BY <2>0, <3>1, FramesAreRecords, KindsAreNamed
      <3>3. ~Waits(c) /\ Subject(c) = TopCont.u /\ u = TopCont.u /\ Waits(TopCont)
        <4> HIDE DEF c
        <4> QED BY <3>1, <3>2 DEF Waits, Subject
      <3> HIDE DEF c, u, TopCont, Stacks
      <3> QED BY <2>3, <3>1, <3>2, <3>3 DEF c
    <2> QED BY <2>1, <2>2, <2>3 DEF EnterLoop
  <1>2. /\ cs \in Seq(ContRec) /\ WaitsOK(cs, Stacks.unit, Stacks.exec)
        /\ u \in DOMAIN Stacks.unit /\ StacksOK(Stacks)
        /\ \A i \in DOMAIN cs : Waits(cs[i]) => Subject(cs[i]) # u
    BY <1>1, TopWaits, Busy DEF Runs, Stacks
  <1> HIDE DEF cs, u, Stacks
  <1>3. \A i \in DOMAIN cs : Waits(cs[i]) => Untouched(Stacks, m, Subject(cs[i]))
    BY <1>1, <1>2, WaitsApart, EnterApart, ExecuteApart
  <1>4. WaitsOK(cs, m.unit, m.exec)
    BY <1>2, <1>3, WaitsMoved
  <1>5. WaitsOK(Append(cs, c), m.unit, m.exec)
    BY <1>1, <1>2, <1>4, WaitsPush
  <1> QED BY <1>1, <1>5, WaitsBecome

LEMMA LoopIterateWaits ==
  ASSUME IInv, WaitInv, LoopIterate
  PROVE  WaitInv'
  <1> DEFINE u == TopCont.u
             m == Execute(Stacks, u, FALSE)
             c == Cont("iter", u, 0)
  <1>1. Become(m) /\ cont' = Append(cont, c) /\ cont # <<>> /\ TopCont.k = "loop"
    BY DEF LoopIterate, In
  <1>2. Runs(TopCont) /\ ~Waits(TopCont) /\ Subject(TopCont) = u
    BY <1>1 DEF Runs, Waits, Subject
  <1>3. /\ cont \in Seq(ContRec) /\ WaitsOK(cont, Stacks.unit, Stacks.exec)
        /\ u \in DOMAIN Stacks.unit /\ StacksOK(Stacks) /\ u \in Nat
        /\ \A i \in DOMAIN cont : Waits(cont[i]) => Subject(cont[i]) # u
    <2>1. TopCont \in ContRec /\ StacksOK(Stacks) /\ Stacks.unit = unit
      BY <1>1, Busy DEF Stacks
    <2> QED BY <1>1, <1>2, <2>1, TopWaits DEF ContRec
  <1>4. c \in ContRec /\ ~Waits(c) /\ Subject(c) = u
    <2>1. c \in ContRec /\ c.k = "iter" /\ c.u = u
      BY <1>3, FramesAreRecords, KindsAreNamed
    <2> HIDE DEF c
    <2> QED BY <2>1 DEF Waits, Subject
  <1> HIDE DEF u, Stacks
  <1>5. \A i \in DOMAIN cont : Waits(cont[i]) => Untouched(Stacks, m, Subject(cont[i]))
    BY <1>3, WaitsApart, ExecuteApart
  <1> HIDE DEF m, c
  <1>6. WaitsOK(cont, m.unit, m.exec)
    BY <1>3, <1>5, WaitsMoved
  <1>7. WaitsOK(Append(cont, c), m.unit, m.exec)
    BY <1>3, <1>4, <1>6, WaitsPush
  <1> QED BY <1>1, <1>7, WaitsBecome

LEMMA LoopExitWaits ==
  ASSUME IInv, WaitInv, LoopExit
  PROVE  WaitInv'
  <1> DEFINE body == LeaveScope(Stacks)
             left == IF TopCont.n = 0 THEN body ELSE LeaveScope(body)
             m == IF unit[TopCont.u].ret /\ ~stopped
                  THEN SaveReturn(left, Current(left)) ELSE left
  <1>1. Become(m) /\ cont' = Front(cont) /\ cont # <<>>
    BY DEF LoopExit, In
  <1>2. /\ WaitsOK(Front(cont), Stacks.unit, Stacks.exec)
        /\ StacksOK(Stacks) /\ Stacks.handling = 0
    BY <1>1, TopWaits, Busy
  <1> HIDE DEF Stacks
  <1>3. StacksOK(body) /\ body.handling = 0 /\ LeavesApart(Stacks, body)
    BY <1>2, LeftOK, LeaveApart DEF LeavesApart
  <1> HIDE DEF body
  <1>4. StacksOK(left) /\ LeavesApart(Stacks, left)
    <2>1. StacksOK(LeaveScope(body)) /\ LeavesApart(body, LeaveScope(body))
      BY <1>3, LeftOK, LeaveApart DEF LeavesApart
    <2> QED BY <1>3, <2>1, LeavesTransitive
  <1> HIDE DEF left
  <1>5. LeavesApart(left, m)
    <2>1. LeavesApart(left, SaveReturn(left, Current(left)))
      BY <1>4, CurrentApart, ReturnApart DEF LeavesApart
    <2>2. LeavesApart(left, left)
      BY DEF LeavesApart, Untouched
    <2> QED BY <2>1, <2>2
  <1> HIDE DEF m
  <1>6. LeavesApart(Stacks, m)
    BY <1>4, <1>5, LeavesTransitive
  <1>7. WaitsOK(Front(cont), m.unit, m.exec)
    <2> HIDE DEF Front
    <2> QED BY <1>2, <1>6, WaitsLeft
  <1> HIDE DEF Front
  <1> QED BY <1>1, <1>7, WaitsBecome

-----------------------------------------------------------------------------
(* The other actions.                                                      *)

\* An expression that calls nothing.
LEMMA SimpleWaits ==
  ASSUME IInv, WaitInv, NativeEach \/ Return \/ Break \/ OnExit
  PROVE  WaitInv'
  <1> DEFINE v == Current(Stacks)
             c == Cont("each", 0, 0)
  <1>1. CASE OnExit /\ Undefined
    BY <1>1, WaitsStay DEF Undefined, WaitInv
  <1>2. CASE ~(OnExit /\ Undefined)
    <2>1. PICK kind : CanEvaluate(kind)
      BY DEF NativeEach, Return, Break, OnExit
    <2>2. /\ cont \in Seq(ContRec) /\ StacksOK(Evaluated) /\ Evaluated.exec = exec
          /\ WaitsOK(cont, Evaluated.unit, Evaluated.exec)
      BY <2>1, EvaluatedWaits
    <2>3. v = Current(Evaluated)
      <3>1. Stacks.exec = exec
        BY DEF Stacks
      <3> HIDE DEF Stacks, Evaluated
      <3> QED BY <2>2, <3>1 DEF Current
    <2>4. PICK m \in {Evaluated, SaveReturn(Evaluated, v), StopUnits(Evaluated, {v}, TRUE)} :
            Become(m) /\ cont' \in {cont, Append(cont, c)}
      BY <1>2 DEF NativeEach, Return, Break, OnExit
    <2>5. c \in ContRec /\ ~Runs(c)
      <3>1. c \in ContRec /\ c.k = "each"
        BY FramesAreRecords, KindsAreNamed
      <3> HIDE DEF c
      <3> QED BY <3>1 DEF Runs, Waits
    <2> HIDE DEF Evaluated, v, c, Stacks
    <2>6. LeavesApart(Evaluated, m)
      <3>1. \A w : Apart(Evaluated, w) => v # w
        BY <2>2, <2>3, CurrentApart
      <3>2. LeavesApart(Evaluated, SaveReturn(Evaluated, v))
        BY <2>2, <3>1, ReturnApart DEF LeavesApart
      <3>3. LeavesApart(Evaluated, StopUnits(Evaluated, {v}, TRUE))
        BY <2>2, <3>1, StopApart DEF LeavesApart
      <3>4. LeavesApart(Evaluated, Evaluated)
        BY DEF LeavesApart, Untouched
      <3> QED BY <2>4, <3>2, <3>3, <3>4
    <2>7. WaitsOK(cont, m.unit, m.exec)
      BY <2>2, <2>6, WaitsLeft
    <2>8. WaitsOK(Append(cont, c), m.unit, m.exec)
      BY <2>2, <2>5, <2>7, WaitsBeside
    <2> QED BY <2>4, <2>7, <2>8, WaitsBecome
  <1> QED BY <1>1, <1>2

LEMMA ExitWaits ==
  ASSUME IInv, WaitInv, Exit
  PROVE  WaitInv'
  <1> DEFINE m == StopAll(Evaluated)
             c == Cont("pass", Len(tasks), 0)
  <1>1. CASE Undefined
    BY <1>1, WaitsStay DEF Undefined, WaitInv
  <1>2. CASE Become(m) /\ cont' = Append(cont, c)
    <2>1. CanEvaluate("exit")
      BY DEF Exit
    <2>2. /\ cont \in Seq(ContRec) /\ StacksOK(Evaluated)
          /\ WaitsOK(cont, Evaluated.unit, Evaluated.exec)
      BY <2>1, EvaluatedWaits
    <2>3. Len(tasks) \in Nat
      BY LenProperties DEF IInv, RestOK
    <2>4. c \in ContRec /\ ~Runs(c)
      <3>1. c \in ContRec /\ c.k = "pass"
        BY <2>3, FramesAreRecords, KindsAreNamed
      <3> HIDE DEF c
      <3> QED BY <3>1 DEF Runs, Waits
    <2> HIDE DEF Evaluated, c
    <2>5. LeavesApart(Evaluated, m)
      BY <2>2, CurrentApart, StopApart DEF LeavesApart, StopAll
    <2> HIDE DEF m
    <2>6. WaitsOK(cont, m.unit, m.exec)
      BY <2>2, <2>5, WaitsLeft
    <2>7. WaitsOK(Append(cont, c), m.unit, m.exec)
      BY <2>2, <2>4, <2>6, WaitsBeside
    <2> QED BY <1>2, <2>7, WaitsBecome
  <1> QED BY <1>1, <1>2 DEF Exit

\* An execute() that ends touches the frames below it only.
LEMMA FinishWaits ==
  ASSUME IInv, WaitInv, Finish
  PROVE  WaitInv'
  <1> DEFINE u == TopCont.u
             returned == unit[u].ret
             carries == Carries(Stacks, u)
             parent == Parent(Stacks)
             broken == PropagateBreak(Stacks, u)
             left == IF TopCont.k = "exec" THEN LeaveScope(broken) ELSE broken
             m == CarryReturn(left, returned, carries, parent)
             c == Cont("pass", Len(tasks), 0)
  <1>1. /\ cont # <<>>
        /\ \/ UNCHANGED stacks /\ cont' \in {cont, Front(cont)}
           \/ Become(m) /\ cont' \in {Front(cont), Append(Front(cont), c)}
    BY DEF Finish, InUnit
  <1>2. /\ cont \in Seq(ContRec) /\ Front(cont) \in Seq(ContRec)
        /\ WaitsOK(cont, Stacks.unit, Stacks.exec)
        /\ WaitsOK(Front(cont), Stacks.unit, Stacks.exec)
        /\ StacksOK(Stacks) /\ Stacks.handling = 0 /\ Len(tasks) \in Nat
    BY <1>1, TopWaits, Busy
  <1>3. ASSUME UNCHANGED stacks, cont' \in {cont, Front(cont)}
        PROVE  WaitInv'
    <2>1. Stacks.unit = unit /\ Stacks.exec = exec
      BY DEF Stacks
    <2> HIDE DEF Stacks, Front
    <2> QED BY <1>2, <1>3, <2>1, WaitsStay
  <1>4. ASSUME Become(m), cont' \in {Front(cont), Append(Front(cont), c)}
        PROVE  WaitInv'
    <2>1. c \in ContRec /\ ~Runs(c)
      <3>1. c \in ContRec /\ c.k = "pass"
        BY <1>2, FramesAreRecords, KindsAreNamed
      <3> HIDE DEF c
      <3> QED BY <3>1 DEF Runs, Waits
    <2> HIDE DEF Stacks, u
    <2>2. /\ StacksOK(broken) /\ LeavesApart(Stacks, broken)
      BY <1>2, BreakApart, PropagateBreakOK DEF LeavesApart, Keeps, KeepsBut
    <2>3. \A w : Apart(Stacks, w) => parent # w
      BY <1>2, CurrentApart
    <2> HIDE DEF broken, parent
    <2>4. StacksOK(left) /\ LeavesApart(Stacks, left)
      <3>1. StacksOK(LeaveScope(broken)) /\ LeavesApart(broken, LeaveScope(broken))
        BY <2>2, LeaveScopeOK, LeaveApart DEF LeavesApart, Keeps, KeepsBut
      <3> QED BY <2>2, <3>1, LeavesTransitive
    <2> HIDE DEF left, returned, carries
    <2>5. ASSUME NEW w, Apart(Stacks, w)
          PROVE  Untouched(left, m, w) /\ Untouched(Stacks, left, w)
      <3>1. Apart(left, w) /\ Untouched(Stacks, left, w)
        BY <2>4, <2>5 DEF LeavesApart, Untouched
      <3> QED BY <2>3, <2>4, <2>5, <3>1, ReturnApart
    <2> HIDE DEF m
    <2>6. LeavesApart(Stacks, m)
      BY <2>5 DEF LeavesApart, Untouched
    <2> HIDE DEF c, Front
    <2>7. WaitsOK(Front(cont), m.unit, m.exec)
      BY <1>2, <2>6, WaitsLeft
    <2>8. WaitsOK(Append(Front(cont), c), m.unit, m.exec)
      BY <1>2, <2>1, <2>7, WaitsBeside
    <2> QED BY <1>4, <2>7, <2>8, WaitsBecome
  <1> HIDE DEF m, c, Front
  <1> QED BY <1>1, <1>3, <1>4

\* Native frames that only end, and passes over the exit tasks.
LEMMA DoneWaits ==
  ASSUME IInv, WaitInv,
         TryDone \/ EachDone \/ UseDone \/ CatchDone \/ PassDone \/ RunEmpty \/ RunReturn
           \/ Halt \/ UNCHANGED vars
  PROVE  WaitInv'
  <1>1. UNCHANGED <<exec, unit>> /\ (cont' = cont \/ (cont # <<>> /\ cont' = Front(cont)))
    BY DEF TryDone, EachDone, UseDone, CatchDone, PassDone, RunEmpty, RunReturn, Halt, vars,
           stacks, In, Undefined
  <1>2. cont # <<>> => WaitsOK(Front(cont), unit, exec)
    BY TopWaits DEF Stacks
  <1> QED BY <1>1, <1>2 DEF WaitInv

\* A program starts, resumes or is gone, or an exception leaves every native
\* frame: nothing waits.
LEMMA FreshWaits ==
  ASSUME IInv, WaitInv,
         RunStart \/ RunResume \/ Destroy \/ \E kind \in Throwing : Throw(kind)
  PROVE  WaitInv'
  <1>1. \/ UNCHANGED <<exec, unit, cont>>
        \/ \A i \in DOMAIN cont' : cont'[i].k \in {"exec", "pass", "catch"}
    <2>1. CASE RunStart \/ RunResume \/ Destroy
      <3>1. \/ UNCHANGED <<exec, unit, cont>>
            \/ cont' = <<Cont("exec", Current(Stacks), 0)>>
            \/ cont' = <<Cont("pass", Len(tasks), 0)>>
        BY <2>1 DEF RunStart, RunResume, Destroy, Undefined, stacks
      <3> QED BY <3>1 DEF Cont
    <2>2. CASE \E kind \in Throwing : Throw(kind)
      <3>1. PICK u : cont' = <<>> \/ cont' = <<Cont("catch", 0, 0), Cont("exec", u, 0)>>
        BY <2>2 DEF Throw, Raise, HandleException, Leave
      <3> QED BY <3>1 DEF Cont
    <2> QED BY <2>1, <2>2
  <1>2. CASE UNCHANGED <<exec, unit, cont>>
    BY <1>2 DEF WaitInv
  <1>3. CASE \A i \in DOMAIN cont' : cont'[i].k \in {"exec", "pass", "catch"}
    BY <1>3 DEF WaitInv, WaitsOK, Waits
  <1> QED BY <1>1, <1>2, <1>3

\* The next program is loaded: nobody waits for main.
LEMMA NextLineWaits ==
  ASSUME IInv, WaitInv, NextLine
  PROVE  WaitInv'
  <1>1. /\ \E brk :
             unit' = [unit EXCEPT ![Main].fin = FALSE, ![Main].ret = FALSE, ![Main].brk = brk]
        /\ exec' = <<Main>> /\ cont' = cont
    BY DEF NextLine
  <1>2. unit[Main].kind = "main" /\ Main \in DOMAIN unit
    BY CurrentOK DEF IInv, StacksOK, Stacks
  <1>3. ASSUME NEW i \in DOMAIN cont, Waits(cont[i])
        PROVE  Subject(cont[i]) # Main
    <2>1. unit[Subject(cont[i])] = Copy(cont[i])
      BY <1>3 DEF WaitInv, WaitsOK
    <2>2. Copy(cont[i]).kind \in {"fn", "body"}
      BY DEF Copy, NewUnit
    <2> QED BY <1>2, <2>1, <2>2
  <1>4. DOMAIN unit' = DOMAIN unit /\ \A w \in DOMAIN unit : w # Main => unit'[w] = unit[w]
    BY <1>1
  <1>5. \A p \in DOMAIN exec' : exec'[p] = Main
    BY <1>1
  <1> QED BY <1>1, <1>3, <1>4, <1>5 DEF WaitInv, WaitsOK

LEMMA NextWaits ==
  ASSUME IInv, WaitInv, [Next]_vars
  PROVE  WaitInv'
  <1>1. CASE Step
    <2>1. CASE RunStart \/ RunResume \/ \E kind \in Throwing : Throw(kind)
      BY <2>1, FreshWaits
    <2>2. CASE RunEmpty \/ RunReturn \/ TryDone \/ EachDone \/ UseDone \/ CatchDone \/ PassDone
      BY <2>2, DoneWaits
    <2>3. CASE \E kind \in Callables : Call(kind)
      BY <2>3, CallWaits
    <2>4. CASE CallFunction \/ Access \/ TryCatch
      BY <2>4, CallFunctionWaits, AccessWaits, TryCatchWaits
    <2>5. CASE EachNext \/ PassNext
      BY <2>5, CallbackWaits
    <2>6. CASE EnterLoop \/ EnterCallee
      BY <2>6, EntryWaits
    <2>7. CASE ForLoop \/ ForEach \/ LoopIterate \/ LoopExit
      BY <2>7, ForLoopWaits, ForEachWaits, LoopIterateWaits, LoopExitWaits
    <2>8. CASE NativeEach \/ Return \/ Break \/ OnExit
      BY <2>8, SimpleWaits
    <2>9. CASE Exit \/ Finish
      BY <2>9, ExitWaits, FinishWaits
    <2> QED BY <1>1, <2>1, <2>2, <2>3, <2>4, <2>5, <2>6, <2>7, <2>8, <2>9 DEF Step
  <1>2. CASE Host
    BY <1>2, NextLineWaits, FreshWaits DEF Host
  <1>3. CASE Halt \/ UNCHANGED vars
    BY <1>3, DoneWaits
  <1> QED BY <1>1, <1>2, <1>3 DEF Next

-----------------------------------------------------------------------------
(* The theorems.                                                           *)

LEMMA InitOK ==
  ASSUME Init
  PROVE  IInv
  <1>1. NewUnit("main") \in UnitRec /\ NewUnit("main").kind = "main"
    BY DEF NewUnit, UnitRec, UnitKinds
  <1>2. unit \in Seq(UnitRec) /\ DOMAIN unit = {1} /\ unit # <<>> /\ unit[1] = NewUnit("main")
    BY <1>1 DEF Init
  <1>3. exec \in Seq(Nat) /\ DOMAIN exec = {1} /\ exec # <<>> /\ exec[1] = 1
    BY DEF Init, Main
  <1>4. StacksOK(Stacks)
    BY <1>1, <1>2, <1>3 DEF Init, StacksOK, Stacks, Main
  <1>5. RestOK
    <2>1. <<>> \in Seq(HandlerRec) /\ <<>> \in Seq(1..0)
      BY EmptySeq
    <2>2. tasks \in Seq(1..known) /\ ran \in Seq(1..known) /\ handlers \in Seq(HandlerRec)
      BY <2>1 DEF Init
    <2>3. fuel \in Nat /\ objs \in Int /\ known \in Nat /\ line \in Nat
      BY BoundsAssumption DEF Init
    <2>4. phase \in Phases
      BY DEF Init, Phases
    <2>5. stopped \in BOOLEAN /\ over \in BOOLEAN
      BY DEF Init
    <2> QED BY <2>2, <2>3, <2>4, <2>5 DEF RestOK
  <1>6. NativeOK(cont, unit, tasks, phase)
    BY NativeEmpty DEF Init
  <1> QED BY <1>4, <1>5, <1>6 DEF Init, IInv, FlagConsumed

LEMMA NextOK ==
  ASSUME IInv, [Next]_vars
  PROVE  IInv' /\ ((In("args") => unit[TopCont.u].cur = 0) => GoesForward)
  <1>1. CASE Step
    <2>1. CASE RunStart \/ RunEmpty \/ RunResume \/ RunReturn
      BY <2>1, RunStartKeeps, RunEndKeeps, RunResumeKeeps
    <2>2. CASE \E kind \in Callables : Call(kind)
      BY <2>2, CallKeeps
    <2>3. CASE \E kind \in Throwing : Throw(kind)
      BY <2>3, ThrowKeeps
    <2>4. CASE CallFunction \/ Access \/ TryCatch \/ ForLoop \/ ForEach \/ NativeEach
      BY <2>4, CallFunctionKeeps, AccessKeeps, TryCatchKeeps, ForLoopKeeps, ForEachKeeps,
         NativeEachKeeps
    <2>5. CASE Return \/ Break \/ Exit \/ OnExit
      BY <2>5, ReturnKeeps, BreakKeeps, ExitKeeps, OnExitKeeps
    <2>6. CASE Finish \/ LoopIterate \/ LoopExit \/ EachNext
      BY <2>6, FinishKeeps, LoopIterateKeeps, LoopExitKeeps, EachNextKeeps
    <2>7. CASE TryDone \/ EachDone \/ UseDone
      BY <2>7, SimpleDoneKeeps
    <2>8. CASE CatchDone \/ PassNext \/ PassDone
      BY <2>8, CatchDoneKeeps, PassNextKeeps, PassDoneKeeps
    <2>9. CASE EnterLoop
      BY <2>9, EnterLoopKeeps
    <2>10. CASE EnterCallee
      BY <2>10, EnterCalleeKeeps DEF EnterCallee
    <2> QED BY <1>1, <2>1, <2>2, <2>3, <2>4, <2>5, <2>6, <2>7, <2>8, <2>9, <2>10 DEF Step
  <1>2. CASE Host
    BY <1>2, NextLineKeeps, DestroyKeeps DEF Host
  <1>3. CASE Halt \/ UNCHANGED vars
    BY <1>3, UnchangedKeeps DEF Halt
  <1> QED BY <1>1, <1>2, <1>3 DEF Next

\* The inductive invariant holds of every behaviour of the interpreter.
THEOREM Inductive == Spec => []IInv
  <1>1. Init => IInv
    BY InitOK
  <1>2. IInv /\ [Next]_vars => IInv'
    BY NextOK
  <1> QED BY <1>1, <1>2, PTL DEF Spec

\* Type correctness of Interpreter's state: ids on exec_stack and
\* tmp_call_stack always name allocated units, main is never freed nor
\* popped, and handlers name depths above zero.
THEOREM TypeCorrect == Spec => []TypeOK
  <1>1. IInv => TypeOK
    BY DEF IInv, TypeOK, RestOK, NativeOK, FrameOK
  <1> QED BY <1>1, Inductive, PTL

\* The mark of a handled exception (exceptions_active) is consumed by the
\* next unit run() executes and is pending only between two executions.
THEOREM FlagAlwaysConsumed == Spec => []FlagConsumed
  <1>1. IInv => FlagConsumed
    BY DEF IInv
  <1> QED BY <1>1, Inductive, PTL

\* What waits for its arguments, its iterable or its initialiser is a new
\* copy until it is entered: on exec_stack nowhere, and no other frame's.
THEOREM WaitsInductive == Spec => [](IInv /\ WaitInv)
  <1>1. Init => IInv /\ WaitInv
    <2>1. Init => \A i \in DOMAIN cont : FALSE
      BY DEF Init
    <2> QED BY <2>1, InitOK DEF WaitInv, WaitsOK
  <1>2. IInv /\ WaitInv /\ [Next]_vars => (IInv /\ WaitInv)'
    BY NextOK, NextWaits
  <1> QED BY <1>1, <1>2, PTL DEF Spec

\* Handling an exception never makes a unit evaluate an expression again:
\* execute() resets no cursor but those of loop bodies and of new copies.
THEOREM NothingRestarts == Spec => NoRestart
  <1>1. IInv /\ WaitInv => (In("args") => unit[TopCont.u].cur = 0)
    <2>1. IInv /\ WaitInv /\ In("args") =>
            Waits(TopCont) /\ Subject(TopCont) = TopCont.u /\ cont # <<>>
      BY DEF In, Waits, Subject
    <2> QED BY <2>1, TopWaits DEF Copy, NewUnit
  <1>2. IInv /\ WaitInv /\ [Next]_vars => [GoesForward]_vars
    BY <1>1, NextOK
  <1> QED BY <1>2, WaitsInductive, PTL DEF Spec, NoRestart

=============================================================================
