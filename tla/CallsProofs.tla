----------------------------- MODULE CallsProofs -----------------------------
(***************************************************************************)
(* Proofs about every program of call expressions, whatever its names hold *)
(* and however often each is evaluated: that evaluating calls leaves the   *)
(* syntax tree as it was written, but for the receivers that               *)
(* pseudo-methods leave behind, and that every parameter of a call that is *)
(* not refused receives the argument written for it, or its default.       *)
(***************************************************************************)
EXTENDS Calls, SequenceTheorems, FiniteSetTheorems, TLAPS

\* A list that is the written one, behind the receiver so many times.
Receivers(s, k) == [i \in 1..k |-> Name(Site[s].recv)]
Kept(s, list) ==
  \E k \in Nat : /\ k > 0 => Site[s].form = "access"
                 /\ list = Receivers(s, k) \o Written(s)

\* The inductive invariant.
CallsInv == DOMAIN args = Sites /\ \A s \in Sites : Kept(s, args[s])

-----------------------------------------------------------------------------
(* Lists with receivers in front.                                          *)

LEMMA InFront ==
  ASSUME NEW s \in Sites, NEW k \in Nat
  PROVE  LET l == Receivers(s, k) \o Written(s)
         IN /\ Len(l) = k + Len(Written(s)) /\ Len(Written(s)) \in Nat
            /\ <<Name(Site[s].recv)>> \o l = Receivers(s, k + 1) \o Written(s)
  <1> DEFINE w == Written(s)
             e == Name(Site[s].recv)
             T == ToSet(w) \cup {e}
  <1>1. w \in Seq(T) /\ e \in T
    <2>1. w \in Seq(ToSet(w))
      BY SitesAssumption DEF Written
    <2> HIDE DEF w
    <2> QED BY <2>1
  <1>2. Receivers(s, k) = [i \in 1..k |-> e] /\ Receivers(s, k + 1) = [i \in 1..(k + 1) |-> e]
    BY DEF Receivers
  <1> HIDE DEF w, e, T
  <1> DEFINE r == [i \in 1..k |-> e]
             q == [i \in 1..(k + 1) |-> e]
  <1>3. r \in Seq(T) /\ Len(r) = k /\ q \in Seq(T) /\ Len(q) = k + 1
    BY <1>1
  <1>4. Len(r \o w) = k + Len(w) /\ Len(w) \in Nat
    BY <1>1, <1>3, ConcatProperties, LenProperties
  <1>5. <<e>> \o (r \o w) = (<<e>> \o r) \o w
    BY <1>1, <1>3
  <1>6. <<e>> \o r = q
    BY <1>1, <1>3
  <1> QED BY <1>2, <1>4, <1>5, <1>6 DEF w, e

LEMMA KeptWritten ==
  ASSUME NEW s \in Sites
  PROVE  Kept(s, Written(s))
  <1>1. Written(s) \in Seq(ToSet(Written(s)))
    BY SitesAssumption DEF Written
  <1>2. Receivers(s, 0) = <<>>
    BY DEF Receivers
  <1>3. <<>> \o Written(s) = Written(s)
    BY <1>1
  <1>4. Written(s) = Receivers(s, 0) \o Written(s)
    BY <1>2, <1>3
  <1> SUFFICES \E k \in Nat : /\ k > 0 => Site[s].form = "access"
                             /\ Written(s) = Receivers(s, k) \o Written(s)
    BY DEF Kept
  <1> WITNESS 0 \in Nat
  <1> QED BY <1>4

LEMMA KeptBehind ==
  ASSUME NEW s \in Sites, NEW list, Kept(s, list), Site[s].form = "access"
  PROVE  Kept(s, <<Name(Site[s].recv)>> \o list)
  <1> PICK k \in Nat : list = Receivers(s, k) \o Written(s)
    BY DEF Kept
  <1>1. <<Name(Site[s].recv)>> \o list = Receivers(s, k + 1) \o Written(s)
    BY InFront
  <1> DEFINE l == <<Name(Site[s].recv)>> \o list
  <1> HIDE DEF l
  <1>2. l = Receivers(s, k + 1) \o Written(s) /\ k + 1 \in Nat
    BY <1>1 DEF l
  <1>3. Kept(s, l)
    <2> SUFFICES \E j \in Nat : /\ j > 0 => Site[s].form = "access"
                               /\ l = Receivers(s, j) \o Written(s)
      BY DEF Kept
    <2> WITNESS k + 1 \in Nat
    <2> QED BY <1>2
  <1> QED BY <1>3 DEF l

-----------------------------------------------------------------------------
(* What a call leaves of its list.                                         *)

\* An invocation: a record that holds a binding.
IsCall(c) ==
  \E callee, list, left, got : \E raised \in BOOLEAN :
    c = Calling(callee, list, [list |-> left, got |-> got, raised |-> raised])

LEMMA BindIsBinding ==
  ASSUME NEW c, NEW list
  PROVE  \E left, got : \E raised \in BOOLEAN :
           Bind(c, list) = [list |-> left, got |-> got, raised |-> raised]
  <1>1. \A l, g : /\ Bound(l, g) = [list |-> l, got |-> g, raised |-> FALSE]
                  /\ Raised(l) = [list |-> l, got |-> <<>>, raised |-> TRUE]
    BY DEF Bound, Raised
  <1>2. \E l, g : BindFunction(c, list) = Bound(l, g) \/ BindFunction(c, list) = Raised(l)
    BY DEF BindFunction
  <1>3. \E l, g : BindNative(c, list) = Bound(l, g) \/ BindNative(c, list) = Raised(l)
    BY DEF BindNative
  <1> QED BY <1>1, <1>2, <1>3 DEF Bind

LEMMA InvokeIsCall ==
  ASSUME NEW v, NEW list
  PROVE  IsCall(Invoke(v, list))
  <1>1. CASE v.is = "callable"
    <2> PICK left, got : \E raised \in BOOLEAN :
               Bind(v.it, list) = [list |-> left, got |-> got, raised |-> raised]
      BY BindIsBinding
    <2> QED BY <1>1 DEF Invoke, IsCall
  <1>2. CASE v.is # "callable"
    BY <1>2 DEF Invoke, IsCall, Ignored, Bound
  <1> QED BY <1>1, <1>2

LEMMA NotFoundKeeps ==
  ASSUME NEW list
  PROVE  NotFound(list).binding.list = list /\ IsCall(NotFound(list))
  BY DEF NotFound, Calling, Raised, IsCall

LEMMA KeepingKeeps ==
  ASSUME NEW list, NEW c, IsCall(c)
  PROVE  Keeping(list, c).binding.list = list /\ IsCall(Keeping(list, c))
  <1> PICK callee, given, left, got : \E raised \in BOOLEAN :
             c = Calling(callee, given, [list |-> left, got |-> got, raised |-> raised])
    BY DEF IsCall
  <1> PICK raised \in BOOLEAN :
             c = Calling(callee, given, [list |-> left, got |-> got, raised |-> raised])
    OBVIOUS
  <1> DEFINE b == [list |-> list, got |-> got, raised |-> raised]
  <1>1. Keeping(list, c) = Calling(callee, given, b)
    BY DEF Keeping, Calling
  <1>2. Calling(callee, given, b).binding = b /\ b.list = list
    BY DEF Calling
  <1>3. IsCall(Calling(callee, given, b))
    BY DEF IsCall
  <1> QED BY <1>1, <1>2, <1>3

LEMMA InbuiltIsCall ==
  ASSUME NEW name, NEW list
  PROVE  IsCall(InvokeInbuilt(name, list))
  BY InvokeIsCall, NotFoundKeeps DEF InvokeInbuilt

\* A call expression evaluated as such, which no evaluator is registered for.
LEMMA EvaluateKeeps ==
  ASSUME NEW name, NEW list
  PROVE  EvaluateInvoke(name, list).binding.list = list
  <1>1. "InvokeExpr" \notin Evaluable
    BY DEF Evaluable
  <1> QED BY <1>1, NotFoundKeeps DEF EvaluateInvoke

\* Methods are invoked with a list of their own.
LEMMA MethodKeeps ==
  ASSUME NEW v, NEW name, NEW list
  PROVE  InvokeMethod(v, name, list).binding.list = list /\ IsCall(InvokeMethod(v, name, list))
  <1>1. \A m, l : InvokeMember(v, m, l).binding.list = l /\ IsCall(InvokeMember(v, m, l))
    BY InvokeIsCall, KeepingKeeps DEF InvokeMember
  <1>2. \A m, l : /\ Keeping(list, InvokeMember(v, m, l)).binding.list = list
                  /\ IsCall(Keeping(list, InvokeMember(v, m, l)))
    BY <1>1, KeepingKeeps
  <1> DEFINE table == Methods[v.class]
  <1> HIDE DEF table
  <1> QED BY <1>1, <1>2, NotFoundKeeps DEF InvokeMethod, table

-----------------------------------------------------------------------------
(* Parameters of C++ functions.                                            *)

\* Types of parameters that arguments are written for, and of those that are injected.
Plain == {"String", "Int", "Object", "Value"}
Types == Plain \cup {"Context", "CallArgs"}

\* e parameters of a C++ function are injected, right behind its object: the
\* interpreter, and then the list.  Such a function has one default at most.
Shaped(f, e) ==
  LET n == Len(f.takes) IN
  /\ f.is = "native"
  /\ f.takes \in Seq(Types) /\ f.defaults \in Seq(ToSet(f.defaults))
  /\ e \in 0..2 /\ (e > 0 => e < n /\ Len(f.defaults) <= 1)
  /\ \A i \in 1..n : /\ f.takes[i] = "Context" <=> i = 2 /\ e > 0
                     /\ f.takes[i] = "CallArgs" <=> i = 3 /\ e = 2
                     /\ f.takes[i] \notin {"Expression", "Value&"}

\* The list r is q with x at place i.
IsWith(r, q, i, x) ==
  /\ Len(r) = Len(q) + 1
  /\ \A j \in 1..(Len(q) + 1) : r[j] = IF j < i THEN q[j] ELSE IF j = i THEN x ELSE q[j - 1]

LEMMA InsertAtIs ==
  ASSUME NEW T, NEW q \in Seq(T), NEW i \in 1..(Len(q) + 1), NEW x \in T
  PROVE  InsertAt(q, i, x) \in Seq(T) /\ IsWith(InsertAt(q, i, x), q, i, x)
  <1> DEFINE a == SubSeq(q, 1, i - 1)
             b == SubSeq(q, i, Len(q))
  <1>0. Len(q) \in Nat /\ i \in Nat /\ i >= 1
    OBVIOUS
  <1>1. a \in Seq(T) /\ Len(a) = i - 1 /\ \A j \in 1..(i - 1) : a[j] = q[j]
    BY <1>0, SubSeqProperties
  <1>2. b \in Seq(T) /\ Len(b) = Len(q) - i + 1 /\ \A j \in 1..(Len(q) - i + 1) : b[j] = q[i + j - 1]
    BY <1>0, SubSeqProperties
  <1>3. InsertAt(q, i, x) = a \o <<x>> \o b
    BY DEF InsertAt
  <1> HIDE DEF a, b
  <1> DEFINE c == a \o <<x>>
  <1>4. c \in Seq(T) /\ Len(c) = i /\ c[i] = x /\ \A j \in 1..(i - 1) : c[j] = a[j]
    BY <1>0, <1>1
  <1> HIDE DEF c
  <1>5. /\ c \o b \in Seq(T) /\ Len(c \o b) = Len(q) + 1
        /\ \A j \in 1..(Len(q) + 1) : (c \o b)[j] = IF j <= i THEN c[j] ELSE b[j - i]
    BY <1>0, <1>2, <1>4
  <1>6. \A j \in 1..(Len(q) + 1) : (c \o b)[j] = IF j < i THEN q[j] ELSE IF j = i THEN x ELSE q[j - 1]
    <2> TAKE j \in 1..(Len(q) + 1)
    <2>1. CASE j < i
      BY <1>0, <1>1, <1>4, <1>5, <2>1
    <2>2. CASE j = i
      BY <1>0, <1>4, <1>5, <2>2
    <2>3. CASE j > i
      <3>1. j - i \in 1..(Len(q) - i + 1) /\ i + (j - i) - 1 = j - 1
        BY <1>0, <2>3
      <3>2. (c \o b)[j] = b[j - i]
        BY <1>0, <1>5, <2>3
      <3>3. b[j - i] = q[i + (j - i) - 1]
        BY <1>2, <3>1
      <3> QED BY <1>0, <2>3, <3>1, <3>2, <3>3
    <2>4. j < i \/ j = i \/ j > i
      BY <1>0
    <2> QED BY <2>1, <2>2, <2>3, <2>4
  <1>7. c \o b \in Seq(T) /\ IsWith(c \o b, q, i, x)
    BY <1>5, <1>6 DEF IsWith
  <1> QED BY <1>3, <1>7 DEF c

\* Which of its own parameters the one at i is, and how many come behind it.
UpTo(f, i) == {j \in Declared(f) : j <= i}
Behind(f, i) == {j \in Declared(f) : j > i}
LEMMA RankIs ==
  ASSUME NEW f, NEW e, Shaped(f, e), NEW i \in Declared(f)
  PROVE  LET n == Len(f.takes)
             k == IF i = 1 THEN 1 ELSE i - e
         IN
         /\ n \in Nat /\ i \in 1..n /\ (i = 1 \/ i > e + 1)
         /\ Cardinality(UpTo(f, i)) = k /\ Cardinality(Behind(f, i)) = n - e - k
  <1> DEFINE n == Len(f.takes)
             k == IF i = 1 THEN 1 ELSE i - e
             D == Declared(f)
  <1>1. n \in Nat /\ DOMAIN f.takes = 1..n /\ e \in 0..2 /\ (e > 0 => e < n)
    BY DEF Shaped
  <1>2. D = {j \in 1..n : j = 1 \/ j > e + 1}
    <2>1. D = {j \in 1..n : f.takes[j] \notin {"Context", "CallArgs"}}
      BY <1>1 DEF Declared, Parameters, Shaped
    <2>2. \A j \in 1..n : f.takes[j] \notin {"Context", "CallArgs"} <=> j = 1 \/ j > e + 1
      BY <1>1 DEF Shaped
    <2> QED BY <2>1, <2>2
  <1> HIDE DEF n, D
  <1>3. i \in 1..n /\ (i = 1 \/ i > e + 1)
    BY <1>2 DEF D
  <1>4. ASSUME i = 1
        PROVE  Cardinality({j \in D : j <= i}) = k /\ Cardinality({j \in D : j > i}) = n - e - k
    <2>1. {j \in D : j <= i} = {1} /\ {j \in D : j > i} = (e + 2)..n
      BY <1>1, <1>2, <1>3, <1>4
    <2>2. Cardinality({1}) = 1 /\ Cardinality((e + 2)..n) = n - e - 1
      <3>1. e + 2 \in Int /\ 1 \in Int /\ n \in Int
        BY <1>1
      <3>2. Cardinality({1}) = 1
        BY FS_Singleton
      <3>3. Cardinality((e + 2)..n) = IF e + 2 > n THEN 0 ELSE n - (e + 2) + 1
        BY <3>1, FS_Interval
      <3>4. e + 1 <= n
        BY <1>1, <1>3, <1>4
      <3> QED BY <1>1, <3>2, <3>3, <3>4
    <2> QED BY <1>1, <1>4, <2>1, <2>2
  <1>5. ASSUME i > e + 1
        PROVE  Cardinality({j \in D : j <= i}) = k /\ Cardinality({j \in D : j > i}) = n - e - k
    <2> DEFINE A == 1..i
               B == 2..(e + 1)
    <2>1. {j \in D : j <= i} = A \ B /\ {j \in D : j > i} = (i + 1)..n
      BY <1>1, <1>2, <1>3, <1>5
    <2>2. IsFiniteSet(A) /\ Cardinality(A) = i
      <3>1. IsFiniteSet(1..i) /\ Cardinality(1..i) = IF 1 > i THEN 0 ELSE i - 1 + 1
        BY <1>1, <1>3, FS_Interval
      <3> QED BY <1>1, <1>3, <3>1
    <2>3. Cardinality(B) = e
      <3>1. Cardinality(2..(e + 1)) = IF 2 > e + 1 THEN 0 ELSE (e + 1) - 2 + 1
        BY <1>1, FS_Interval
      <3> QED BY <1>1, <3>1
    <2>4. A \cap B = B
      BY <1>1, <1>3, <1>5
    <2>5. Cardinality(A \ B) = i - e
      <3> HIDE DEF A, B
      <3>1. Cardinality(A \ B) = Cardinality(A) - Cardinality(A \cap B)
        BY <2>2, FS_Difference
      <3> QED BY <2>2, <2>3, <2>4, <3>1
    <2>6. Cardinality((i + 1)..n) = n - i
      <3>1. Cardinality((i + 1)..n) = IF i + 1 > n THEN 0 ELSE n - (i + 1) + 1
        BY <1>1, <1>3, FS_Interval
      <3> QED BY <1>1, <1>3, <3>1
    <2>7. i # 1
      BY <1>1, <1>5
    <2>8. k = i - e /\ n - e - k = n - i
      BY <1>1, <1>3, <2>7
    <2> HIDE DEF A, B, k
    <2>9. Cardinality({j \in D : j <= i}) = i - e
      BY <2>1, <2>5
    <2>10. Cardinality({j \in D : j > i}) = n - i
      BY <2>1, <2>6
    <2> QED BY <2>8, <2>9, <2>10
  <1>6. Cardinality({j \in D : j <= i}) = k /\ Cardinality({j \in D : j > i}) = n - e - k
    BY <1>3, <1>4, <1>5
  <1> QED BY <1>1, <1>3, <1>6 DEF n, D, UpTo, Behind

\* Injecting finds the places that Shaped names.
Places(t, f) == {i \in DOMAIN f.takes : f.takes[i] = t}
LEMMA InjectNone ==
  ASSUME NEW t, NEW x, NEW f, NEW q, Places(t, f) = {}
  PROVE  Inject(t, x, f, q) = q
  BY DEF Inject, Places

LEMMA InjectOne ==
  ASSUME NEW t, NEW x, NEW f, NEW q, NEW p \in Nat, Places(t, f) = {p}
  PROVE  Inject(t, x, f, q) = InsertAt(q, p, x)
  <1>1. Min({p}) = p
    BY DEF Min
  <1> QED BY <1>1 DEF Inject, Places

IsInjected(r, q, e) ==
  /\ Len(r) = Len(q) + e
  /\ q # <<>> => r[1] = q[1]
  /\ \A i \in (e + 2)..(Len(q) + e) : r[i] = q[i - e]
LEMMA InjectedIs ==
  ASSUME NEW f, NEW e, Shaped(f, e), NEW T, NEW q \in Seq(T), Interpreter \in T, Arguments \in T,
         e > 0 => q # <<>>
  PROVE  LET r == Inject("CallArgs", Arguments, f, Inject("Context", Interpreter, f, q)) IN
         r \in Seq(T) /\ IsInjected(r, q, e)
  <1> DEFINE n == Len(f.takes)
             u == Inject("Context", Interpreter, f, q)
             r == Inject("CallArgs", Arguments, f, u)
  <1>1. n \in Nat /\ DOMAIN f.takes = 1..n /\ e \in {0, 1, 2} /\ (e > 0 => e < n)
    BY DEF Shaped
  <1>2. /\ e = 0 => Places("Context", f) = {} /\ Places("CallArgs", f) = {}
        /\ e = 1 => Places("Context", f) = {2} /\ Places("CallArgs", f) = {}
        /\ e = 2 => Places("Context", f) = {2} /\ Places("CallArgs", f) = {3}
    BY <1>1 DEF Shaped, Places
  <1>3. Len(q) \in Nat /\ (e > 0 => Len(q) >= 1) /\ (q # <<>> => Len(q) >= 1)
    BY EmptySeq
  <1> DEFINE Fine == /\ r \in Seq(T) /\ Len(r) = Len(q) + e
                     /\ q # <<>> => r[1] = q[1]
                     /\ \A i \in (e + 2)..(Len(q) + e) : r[i] = q[i - e]
  <1> SUFFICES Fine
    BY DEF IsInjected
  <1>4. CASE e = 0
    <2>1. u = q
      BY <1>2, <1>4, InjectNone
    <2>2. r = q
      <3> HIDE DEF u
      <3> QED BY <1>2, <1>4, <2>1, InjectNone
    <2> HIDE DEF r
    <2>3. \A i \in 2..Len(q) : i - 0 = i
      OBVIOUS
    <2> QED BY <1>3, <1>4, <2>2, <2>3
  <1>5. CASE e > 0
    <2>1. u = InsertAt(q, 2, Interpreter)
      BY <1>1, <1>2, <1>5, InjectOne
    <2> HIDE DEF u
    <2>2. 2 \in 1..(Len(q) + 1)
      BY <1>3, <1>5
    <2>3. /\ u \in Seq(T) /\ Len(u) = Len(q) + 1
          /\ \A j \in 1..(Len(q) + 1) : u[j] = IF j < 2 THEN q[j] ELSE IF j = 2 THEN Interpreter ELSE q[j - 1]
      <3>1. Interpreter \in T
        OBVIOUS
      <3>2. u \in Seq(T) /\ IsWith(u, q, 2, Interpreter)
        BY <2>1, <2>2, <3>1, InsertAtIs
      <3> QED BY <3>2 DEF IsWith
    <2>4. u[1] = q[1] /\ \A j \in 3..(Len(q) + 1) : u[j] = q[j - 1]
      BY <1>3, <1>5, <2>3
    <2>5. CASE e = 1
      <3>1. r = u
        BY <1>2, <2>5, InjectNone
      <3> HIDE DEF r
      <3> QED BY <1>3, <2>3, <2>4, <2>5, <3>1
    <2>6. CASE e = 2
      <3>1. r = InsertAt(u, 3, Arguments)
        BY <1>2, <2>6, InjectOne
      <3> HIDE DEF r
      <3>2. 3 \in 1..(Len(u) + 1)
        BY <1>3, <1>5, <2>3
      <3>3. /\ r \in Seq(T) /\ Len(r) = Len(u) + 1
            /\ \A j \in 1..(Len(u) + 1) : r[j] = IF j < 3 THEN u[j] ELSE IF j = 3 THEN Arguments ELSE u[j - 1]
        <4>1. r \in Seq(T) /\ IsWith(r, u, 3, Arguments)
          BY <2>3, <3>1, <3>2, InsertAtIs
        <4> QED BY <4>1 DEF IsWith
      <3>4. r[1] = q[1]
        BY <1>3, <2>3, <2>4, <3>3
      <3>5. \A j \in 4..(Len(q) + 2) : r[j] = q[j - 2]
        <4> TAKE j \in 4..(Len(q) + 2)
        <4>1. j \in 1..(Len(u) + 1) /\ ~(j < 3) /\ j # 3 /\ j - 1 \in 3..(Len(q) + 1) /\ (j - 1) - 1 = j - 2
          BY <1>3, <2>3
        <4>2. r[j] = u[j - 1]
          BY <3>3, <4>1
        <4>3. u[j - 1] = q[(j - 1) - 1]
          BY <2>4, <4>1
        <4> QED BY <4>1, <4>2, <4>3
      <3>6. Len(r) = Len(q) + 2
        BY <1>3, <2>3, <3>3
      <3> QED BY <1>3, <2>6, <3>3, <3>4, <3>5, <3>6
    <2> QED BY <1>1, <1>5, <2>5, <2>6
  <1> QED BY <1>1, <1>4, <1>5

\* A list with the defaults for what is missing.
LEMMA WithDefaultsIs ==
  ASSUME NEW f, NEW e, Shaped(f, e), NEW T, NEW q \in Seq(T), \A v \in ToSet(f.defaults) : Literal(v) \in T
  PROVE  LET r == WithDefaults(f, q)
             n == Len(f.takes)
             d == Len(f.defaults)
             missing == n - Len(q)
         IN
         /\ r \in Seq(T) /\ \A i \in 1..Len(q) : r[i] = q[i]
         /\ missing > 0 /\ missing <= d =>
              /\ Len(r) = n
              /\ \A i \in (Len(q) + 1)..n : d - (n - i) \in 1..d /\ r[i] = Literal(f.defaults[d - (n - i)])
         /\ ~(missing > 0 /\ missing <= d) => Len(r) = Len(q)
  <1> DEFINE r == WithDefaults(f, q)
             n == Len(f.takes)
             d == Len(f.defaults)
             missing == n - Len(q)
             g == [i \in 1..missing |-> Literal(f.defaults[d - missing + i])]
  <1>1. n \in Nat /\ d \in Nat /\ Len(q) \in Nat /\ missing \in Int
    BY DEF Shaped
  <1>2. CASE missing > 0 /\ missing <= d
    <2>1. r = q \o g
      BY <1>2 DEF WithDefaults
    <2>2. \A i \in 1..missing : d - missing + i \in 1..d /\ f.defaults[d - missing + i] \in ToSet(f.defaults)
      <3> TAKE i \in 1..missing
      <3>1. d - missing + i \in 1..d
        <4> HIDE DEF missing, d
        <4> QED BY <1>1, <1>2
      <3>2. DOMAIN f.defaults = 1..d
        BY DEF Shaped
      <3> HIDE DEF missing, d
      <3> QED BY <3>1, <3>2 DEF ToSet
    <2>3. g \in Seq(T) /\ Len(g) = missing
      <3>1. missing \in Nat /\ \A i \in 1..missing : Literal(f.defaults[d - missing + i]) \in T
        <4> HIDE DEF missing, d
        <4>1. missing \in Nat
          BY <1>1, <1>2
        <4>2. ASSUME NEW i \in 1..missing PROVE Literal(f.defaults[d - missing + i]) \in T
          BY <2>2
        <4> QED BY <4>1, <4>2
      <3> HIDE DEF missing, d
      <3> QED BY <3>1
    <2>4. \A i \in 1..missing : g[i] = Literal(f.defaults[d - missing + i])
      OBVIOUS
    <2> HIDE DEF g, r
    <2>5. r \in Seq(T) /\ Len(r) = n /\ \A i \in 1..Len(q) : r[i] = q[i]
      BY <1>1, <2>1, <2>3
    <2>6. ASSUME NEW i \in (Len(q) + 1)..n
          PROVE  d - (n - i) \in 1..d /\ r[i] = Literal(f.defaults[d - (n - i)])
      <3> DEFINE j == i - Len(q)
      <3>1. j \in 1..missing /\ d - missing + j = d - (n - i)
        BY <1>1, <2>6
      <3>2. r[i] = g[j]
        BY <1>1, <2>1, <2>3, <2>6
      <3> HIDE DEF j, missing, d, n
      <3> QED BY <2>2, <2>4, <3>1, <3>2
    <2> QED BY <1>2, <2>5, <2>6 DEF r
  <1>3. CASE ~(missing > 0 /\ missing <= d)
    <2>1. r = q
      BY <1>3 DEF WithDefaults
    <2> HIDE DEF r
    <2> QED BY <1>3, <2>1 DEF r
  <1> QED BY <1>2, <1>3

-----------------------------------------------------------------------------
(* What the parameters receive.                                            *)

ByValue(t) == t \notin {"Expression", "Value&", "Context", "CallArgs"}

\* The list that is handed over reads like what is given.
Reads(list, given) ==
  /\ list \in Seq(ToSet(list)) /\ Len(given) = Len(list)
  /\ \A i \in 1..Len(list) : Read(list[i]) = Read(given[i])

RightArgs(f, got, given) ==
  /\ DOMAIN got = Parameters(f)
  /\ \A i \in Declared(f) :
       f.is = "native" \/ Supplied(f, given, i) => got[i] \in Intended(f, given, i)

LEMMA ConvertedSame ==
  ASSUME NEW t, ByValue(t), NEW a, NEW b, Read(a) = Read(b)
  PROVE  Converted(t, a) = Converted(t, b)
  BY DEF Converted, ByValue

LEMMA ConvertedLiteral ==
  ASSUME NEW t, ByValue(t), NEW v
  PROVE  Converted(t, Literal(v)) \subseteq {Copy(v)}
  <1>1. Read(Literal(v)) = v
    BY DEF Read, Literal
  <1> QED BY <1>1 DEF Converted, ByValue

LEMMA FunctionInPlace ==
  ASSUME NEW f, f.is = "function", f.defaults \in Seq(ToSet(f.defaults)),
         NEW list, NEW given, Reads(list, given), ~Bind(f, list).raised
  PROVE  RightArgs(f, Bind(f, list).got, given)
  <1> DEFINE ds == ArgDef(f)
             n == Len(ds)
             b == Bind(f, list)
             value(i) == IF ds[i] = {} THEN NoValue ELSE CHOOSE v \in ds[i] : TRUE
  <1>1. \E T : ds \in Seq(T)
    <2>1. <<{}>> \in Seq(ToSet(f.defaults) \cup {{}}) /\ f.defaults \in Seq(ToSet(f.defaults) \cup {{}})
      OBVIOUS
    <2>2. <<{}>> \o f.defaults \in Seq(ToSet(f.defaults) \cup {{}})
      BY <2>1
    <2> QED BY <2>1, <2>2 DEF ArgDef
  <1>2. n \in Nat /\ DOMAIN ds = 1..n
    BY <1>1
  <1>3. b = Raised(list)
        \/ b = Bound(list, [i \in DOMAIN ds |-> Copy(IF i <= Len(list) THEN Read(list[i]) ELSE value(i))])
    BY DEF Bind, BindFunction
  <1>4. b.got = [i \in DOMAIN ds |-> Copy(IF i <= Len(list) THEN Read(list[i]) ELSE value(i))]
    <2> DEFINE g == [i \in DOMAIN ds |-> Copy(IF i <= Len(list) THEN Read(list[i]) ELSE value(i))]
    <2>1. ~b.raised
      OBVIOUS
    <2>2. b = Raised(list) \/ b = Bound(list, g)
      BY <1>3
    <2> HIDE DEF b, g
    <2>3. b.got = g
      BY <2>1, <2>2 DEF Raised, Bound
    <2> QED BY <2>3 DEF g
  <1> HIDE DEF b
  <1>5. Parameters(f) = 1..n /\ Declared(f) = 1..n
    BY <1>2 DEF Parameters, Declared
  <1>6. ASSUME NEW i \in 1..n, Supplied(f, given, i)
        PROVE  b.got[i] \in Intended(f, given, i)
    <2>1. Cardinality(UpTo(f, i)) = i
      <3>1. UpTo(f, i) = 1..i
        BY <1>2, <1>5 DEF UpTo
      <3>2. Cardinality(1..i) = IF 1 > i THEN 0 ELSE i - 1 + 1
        BY <1>2, FS_Interval
      <3> QED BY <1>2, <3>1, <3>2
    <2>2. b.got[i] = Copy(IF i <= Len(list) THEN Read(list[i]) ELSE value(i))
      BY <1>2, <1>4
    <2>3. Intended(f, given, i) =
            IF i <= Len(given) THEN {Copy(Read(given[i]))}
            ELSE {Copy(v) : v \in ds[i]}
      BY <2>1 DEF Intended, Converted, UpTo, Rank, Default
    <2>4. CASE i <= Len(list)
      <3>1. i \in 1..Len(list)
        BY <1>2, <2>4 DEF Reads
      <3> QED BY <2>2, <2>3, <2>4, <3>1 DEF Reads
    <2>5. CASE ~(i <= Len(list))
      <3>1. ds[i] # {}
        BY <1>6, <2>1, <2>5 DEF Supplied, Rank, Default, UpTo, Reads
      <3>2. value(i) \in ds[i]
        BY <3>1
      <3> HIDE DEF value
      <3> QED BY <2>2, <2>3, <2>5, <3>2 DEF Reads
    <2> QED BY <2>4, <2>5
  <1>7. f.is # "native"
    OBVIOUS
  <1> QED BY <1>2, <1>4, <1>5, <1>6, <1>7 DEF RightArgs, b

LEMMA NativeInPlace ==
  ASSUME NEW f, NEW e, Shaped(f, e), NEW list, NEW given, Reads(list, given),
         e > 0 => list # <<>>, ~Bind(f, list).raised
  PROVE  RightArgs(f, Bind(f, list).got, given)
  <1> DEFINE n == Len(f.takes)
             d == Len(f.defaults)
             L == Len(list)
             full == WithDefaults(f, list)
             all == Inject("CallArgs", Arguments, f, Inject("Context", Interpreter, f, full))
             converted == [i \in DOMAIN f.takes |-> Converted(f.takes[i], all[i])]
             b == Bind(f, list)
             T == ToSet(list) \cup {Interpreter, Arguments} \cup {Literal(v) : v \in ToSet(f.defaults)}
             missing == n - L
  <1>1. n \in Nat /\ DOMAIN f.takes = 1..n /\ e \in {0, 1, 2} /\ (e > 0 => e < n /\ d <= 1) /\ d \in Nat
    BY DEF Shaped
  <1>2. L \in Nat /\ list \in Seq(T)
    <2>1. list \in Seq(ToSet(list))
      BY DEF Reads
    <2> QED BY <2>1
  <1>3. /\ full \in Seq(T) /\ \A i \in 1..L : full[i] = list[i]
        /\ missing > 0 /\ missing <= d =>
             /\ Len(full) = n
             /\ \A i \in (L + 1)..n : d - (n - i) \in 1..d /\ full[i] = Literal(f.defaults[d - (n - i)])
        /\ ~(missing > 0 /\ missing <= d) => Len(full) = L
    <2>1. \A v \in ToSet(f.defaults) : Literal(v) \in T
      OBVIOUS
    <2> HIDE DEF T
    <2> QED BY <1>2, <2>1, WithDefaultsIs
  <1>4. Interpreter \in T /\ Arguments \in T
    OBVIOUS
  <1> HIDE DEF T, full
  <1>5. Len(full) \in Nat /\ Len(full) >= L
    <2>1. missing \in Int
      BY <1>1, <1>2
    <2>2. n >= L \/ ~(missing > 0)
      BY <1>1, <1>2
    <2> HIDE DEF missing, n, d, L
    <2> QED BY <1>1, <1>2, <1>3, <2>1, <2>2
  <1>6. /\ all \in Seq(T) /\ Len(all) = Len(full) + e
        /\ full # <<>> => all[1] = full[1]
        /\ \A i \in (e + 2)..(Len(full) + e) : all[i] = full[i - e]
    <2>1. e > 0 => full # <<>>
      <3>1. list # <<>> => L > 0
        BY <1>2
      <3>2. L > 0 => full # <<>>
        BY <1>2, <1>3, <1>5
      <3> QED BY <3>1, <3>2
    <2>2. all \in Seq(T) /\ IsInjected(all, full, e)
      BY <1>3, <1>4, <2>1, InjectedIs
    <2> HIDE DEF all
    <2> QED BY <2>2 DEF IsInjected
  <1> HIDE DEF all
  <1>7. /\ b.got = [i \in DOMAIN f.takes |-> CHOOSE v \in converted[i] : TRUE]
        /\ Len(all) >= n /\ {} \notin ToSet(converted)
    <2>1. b = BindNative(f, list)
      BY DEF Bind, Shaped
    <2>2. \E l : b = IF Len(all) < n \/ {} \in ToSet(converted) THEN Raised(l)
                     ELSE Bound(l, [i \in DOMAIN f.takes |-> CHOOSE v \in converted[i] : TRUE])
      BY <2>1 DEF BindNative, all, full
    <2> HIDE DEF b, converted
    <2>3. ~(Len(all) < n \/ {} \in ToSet(converted))
      BY <2>2 DEF Raised, b
    <2>4. b.got = [i \in DOMAIN f.takes |-> CHOOSE v \in converted[i] : TRUE]
      BY <2>2, <2>3 DEF Bound
    <2> QED BY <1>1, <1>5, <1>6, <2>3, <2>4
  <1> HIDE DEF b
  <1>8. ASSUME NEW i \in Declared(f)
        PROVE  b.got[i] \in Intended(f, given, i)
    <2> DEFINE k == IF i = 1 THEN 1 ELSE i - e
               t == f.takes[i]
    <2>1. /\ i \in 1..n /\ (i = 1 \/ i > e + 1)
          /\ Cardinality(UpTo(f, i)) = k /\ Cardinality(Behind(f, i)) = n - e - k
      BY <1>8, RankIs
    <2>2. ByValue(t)
      BY <1>1, <2>1 DEF ByValue, Shaped
    <2>3. b.got[i] \in Converted(t, all[i])
      <3>1. converted[i] = Converted(t, all[i]) /\ converted[i] \in ToSet(converted)
        BY <1>1, <2>1 DEF ToSet
      <3> HIDE DEF converted
      <3> QED BY <1>1, <1>7, <2>1, <3>1
    <2>4. k \in 1..(n - e) /\ k <= Len(full)
      BY <1>1, <1>5, <1>6, <1>7, <2>1
    <2>5. all[i] = full[k]
      <3>1. CASE i = 1
        <4>1. full # <<>>
          BY <1>5, <2>4
        <4> QED BY <1>6, <3>1, <4>1
      <3>2. CASE i # 1
        <4>1. k = i - e
          BY <3>2
        <4> HIDE DEF k, n, L
        <4>2. i \in (e + 2)..(Len(full) + e)
          BY <1>1, <1>5, <2>1, <2>4, <3>2, <4>1
        <4>3. all[i] = full[i - e]
          BY <1>6, <4>2
        <4> QED BY <4>1, <4>3
      <3> QED BY <3>1, <3>2
    <2>6. Intended(f, given, i) =
            LET default == {f.defaults[j] : j \in {m \in DOMAIN f.defaults : m + (n - e - k) = d}}
            IN  IF k <= Len(given) THEN Converted(t, given[k])
                ELSE {Copy(v) : v \in default}
      BY <2>1 DEF Intended, Shaped, UpTo, Behind, Rank, Default
    <2>7. CASE k <= L
      <3>1. k \in 1..L /\ Len(given) = L /\ Read(list[k]) = Read(given[k])
        BY <1>2, <2>4, <2>7 DEF Reads
      <3>2. Converted(t, full[k]) = Converted(t, given[k])
        BY <1>3, <2>2, <3>1, ConvertedSame
      <3> QED BY <2>3, <2>5, <2>6, <2>7, <3>1, <3>2
    <2>8. CASE ~(k <= L)
      <3>1. missing > 0 /\ missing <= d /\ e = 0
        BY <1>1, <1>2, <1>3, <2>4, <2>8
      <3>2. k = i
        BY <1>1, <2>1, <3>1
      <3> DEFINE j == d - (n - i)
      <3>3. j \in 1..d /\ full[i] = Literal(f.defaults[j])
        <4>1. i \in (L + 1)..n
          <5> HIDE DEF k, L, n
          <5> QED BY <1>1, <1>2, <2>1, <2>8, <3>2
        <4> HIDE DEF missing, L, n, d
        <4> QED BY <1>3, <3>1, <4>1
      <3>4. b.got[i] = Copy(f.defaults[j])
        BY <2>2, <2>3, <2>5, <3>2, <3>3, ConvertedLiteral
      <3>5. DOMAIN f.defaults = 1..d
        BY DEF Shaped
      <3>6. j + (n - e - k) = d
        <4> HIDE DEF n, d, k
        <4> QED BY <1>1, <2>1, <3>1, <3>2
      <3>7. Len(given) = L
        BY DEF Reads
      <3> HIDE DEF j, k, L
      <3> QED BY <2>6, <2>8, <3>3, <3>4, <3>5, <3>6, <3>7
    <2> QED BY <2>7, <2>8
  <1>9. DOMAIN b.got = Parameters(f)
    BY <1>7 DEF Parameters, Shaped
  <1> QED BY <1>8, <1>9 DEF RightArgs, b

-----------------------------------------------------------------------------
(* The callables of the library.                                           *)

\* What binding can be reasoned about: a function of the program with its list of
\* defaults, or a C++ function that is injected what comes right behind its object.
WellFormed(f) ==
  \/ f.is = "function" /\ f.defaults \in Seq(ToSet(f.defaults))
  \/ \E e \in 0..2 : Shaped(f, e)

LEMMA ListIsOver ==
  ASSUME NEW x
  PROVE  <<x>> \in Seq(ToSet(<<x>>)) /\ <<>> \in Seq(ToSet(<<>>))
  <1>1. x \in ToSet(<<x>>)
    BY DEF ToSet
  <1> QED BY <1>1

LEMMA PlainShaped ==
  ASSUME NEW takes \in Seq(Plain), NEW defaults, defaults \in Seq(ToSet(defaults))
  PROVE  Shaped(Native(takes, defaults), 0)
  <1> DEFINE f == Native(takes, defaults)
  <1>1. f.is = "native" /\ f.takes = takes /\ f.defaults = defaults
    BY DEF Native
  <1>2. takes \in Seq(Types) /\ \A i \in 1..Len(takes) : takes[i] \in Plain
    BY DEF Types
  <1> HIDE DEF f
  <1>3. Shaped(f, 0)
    BY <1>1, <1>2 DEF Shaped, Plain
  <1> QED BY <1>3 DEF f

\* The interpreter is injected behind the object, and perhaps the list behind it.
InjectedTypes(takes, e) ==
  \A i \in 1..Len(takes) :
    IF i = 2 THEN takes[i] = "Context"
    ELSE IF i = 3 /\ e = 2 THEN takes[i] = "CallArgs" ELSE takes[i] \in Plain
LEMMA InjectedShaped ==
  ASSUME NEW takes \in Seq(Types), NEW defaults, defaults \in Seq(ToSet(defaults)),
         Len(defaults) <= 1, NEW e \in 1..2, e < Len(takes),
         InjectedTypes(takes, e)
  PROVE  Shaped(Native(takes, defaults), e)
  <1> DEFINE f == Native(takes, defaults)
  <1>1. f.is = "native" /\ f.takes = takes /\ f.defaults = defaults
    BY DEF Native
  <1>2. ASSUME NEW i \in 1..Len(takes)
        PROVE  /\ takes[i] = "Context" <=> i = 2 /\ e > 0
               /\ takes[i] = "CallArgs" <=> i = 3 /\ e = 2
               /\ takes[i] \notin {"Expression", "Value&"}
    BY DEF Plain, InjectedTypes
  <1> HIDE DEF f
  <1>3. Shaped(f, e)
    BY <1>1, <1>2 DEF Shaped
  <1> QED BY <1>3 DEF f

LEMMA StringsShaped ==
  \A m \in DOMAIN StringMethods : WellFormed(StringMethods[m])
  <1>1. Shaped(StringMethods.substr, 1)
    <2> DEFINE t == <<"String", "Context", "Int", "Int">>
    <2>1. t \in Seq(Types)
      BY DEF Types, Plain
    <2>2. Len(t) = 4
      OBVIOUS
    <2>3. t[1] \in Plain /\ t[2] = "Context" /\ t[3] \in Plain /\ t[4] \in Plain
      BY DEF Plain
    <2> DEFINE d == <<Number(0)>>
    <2>4. Len(d) <= 1 /\ d \in Seq(ToSet(d))
      BY ListIsOver
    <2> HIDE DEF t, d
    <2>5. InjectedTypes(t, 1)
      BY <2>2, <2>3 DEF InjectedTypes
    <2>6. Shaped(Native(t, d), 1)
      BY <2>1, <2>2, <2>4, <2>5, InjectedShaped
    <2> QED BY <2>6 DEF t, d, StringMethods
  <1>2. Shaped(StringMethods.find, 0)
    <2>1. <<"String", "String", "Int">> \in Seq(Plain)
      BY DEF Plain
    <2>2. Shaped(Native(<<"String", "String", "Int">>, <<Number(0)>>), 0)
      BY <2>1, ListIsOver, PlainShaped
    <2> QED BY <2>2 DEF StringMethods
  <1>3. Shaped(StringMethods.format, 2)
    <2> DEFINE t == <<"String", "Context", "CallArgs">>
    <2>1. t \in Seq(Types)
      BY DEF Types, Plain
    <2>2. Len(t) = 3
      OBVIOUS
    <2>3. t[1] \in Plain /\ t[2] = "Context" /\ t[3] = "CallArgs"
      BY DEF Plain
    <2> DEFINE d == <<>>
    <2>4. Len(d) <= 1 /\ d \in Seq(ToSet(d))
      BY ListIsOver
    <2> HIDE DEF t, d
    <2>5. InjectedTypes(t, 2)
      BY <2>2, <2>3 DEF InjectedTypes
    <2>6. Shaped(Native(t, d), 2)
      <3>1. 2 \in 1..2 /\ 2 < Len(t)
        BY <2>2
      <3> QED BY <2>1, <2>4, <2>5, <3>1, InjectedShaped
    <2> QED BY <2>6 DEF t, d, StringMethods
  <1>4. Shaped(StringMethods.concat, 1)
    <2> DEFINE t == <<"String", "Context", "String">>
    <2>1. t \in Seq(Types)
      BY DEF Types, Plain
    <2>2. Len(t) = 3
      OBVIOUS
    <2>3. t[1] \in Plain /\ t[2] = "Context" /\ t[3] \in Plain
      BY DEF Plain
    <2> DEFINE d == <<>>
    <2>4. Len(d) <= 1 /\ d \in Seq(ToSet(d))
      BY ListIsOver
    <2> HIDE DEF t, d
    <2>5. InjectedTypes(t, 1)
      BY <2>2, <2>3 DEF InjectedTypes
    <2>6. Shaped(Native(t, d), 1)
      BY <2>1, <2>2, <2>4, <2>5, InjectedShaped
    <2> QED BY <2>6 DEF t, d, StringMethods
  <1>5. DOMAIN StringMethods = {"substr", "find", "format", "concat"}
    BY DEF StringMethods
  <1>6. \A m \in DOMAIN StringMethods : \E e \in 0..2 : Shaped(StringMethods[m], e)
    BY <1>1, <1>2, <1>3, <1>4, <1>5
  <1> QED BY <1>6 DEF WellFormed

LEMMA CollectionsShaped ==
  \A m \in DOMAIN CollectionMethods :
    CollectionMethods[m].is = "alias" \/ WellFormed(CollectionMethods[m])
  <1>1. Shaped(CollectionMethods.get, 0)
    <2>1. <<"Object", "Int">> \in Seq(Plain)
      BY DEF Plain
    <2>2. Shaped(Native(<<"Object", "Int">>, <<>>), 0)
      BY <2>1, ListIsOver, PlainShaped
    <2> QED BY <2>2 DEF CollectionMethods
  <1>2. Shaped(CollectionMethods.fill, 0)
    <2>1. <<"Object", "Value", "Int">> \in Seq(Plain)
      BY DEF Plain
    <2>2. Shaped(Native(<<"Object", "Value", "Int">>, <<Number(0)>>), 0)
      BY <2>1, ListIsOver, PlainShaped
    <2> QED BY <2>2 DEF CollectionMethods
  <1>3. Shaped(CollectionMethods.for_each, 0)
    <2>1. <<"Object", "Value">> \in Seq(Plain)
      BY DEF Plain
    <2>2. Shaped(Native(<<"Object", "Value">>, <<>>), 0)
      BY <2>1, ListIsOver, PlainShaped
    <2> QED BY <2>2 DEF CollectionMethods
  <1>4. Shaped(CollectionMethods.subscript, 0)
    <2>1. <<"Object", "Int">> \in Seq(Plain)
      BY DEF Plain
    <2>2. Shaped(Native(<<"Object", "Int">>, <<>>), 0)
      BY <2>1, ListIsOver, PlainShaped
    <2> QED BY <2>2 DEF CollectionMethods
  <1>5. CollectionMethods.subscript_foreach.is = "alias" /\ CollectionMethods.subscript_slice.is = "alias"
    BY DEF CollectionMethods, Alias
  <1>6. DOMAIN CollectionMethods =
          {"get", "fill", "for_each", "subscript", "subscript_foreach", "subscript_slice"}
    BY DEF CollectionMethods
  <1>7. \A m \in DOMAIN CollectionMethods :
          CollectionMethods[m].is = "alias" \/ \E e \in 0..2 : Shaped(CollectionMethods[m], e)
    BY <1>1, <1>2, <1>3, <1>4, <1>5, <1>6
  <1> QED BY <1>7 DEF WellFormed

LEMMA PointsWellFormed ==
  \A m \in DOMAIN PointMethods : WellFormed(PointMethods[m])
  <1>1. PointMethods.move.is = "function" /\ PointMethods.move.defaults = <<{}, {Number(1)}>>
    BY DEF PointMethods, Function
  <1>2. PointMethods.reset.is = "function" /\ PointMethods.reset.defaults = <<>>
    BY DEF PointMethods, Function
  <1>3. PointMethods.concat.is = "function" /\ PointMethods.concat.defaults = <<{}>>
    BY DEF PointMethods, Function
  <1>4. \A x, y : <<x, y>> \in Seq(ToSet(<<x, y>>))
    <2> TAKE x, y
    <2>1. x \in ToSet(<<x, y>>) /\ y \in ToSet(<<x, y>>)
      BY DEF ToSet
    <2> QED BY <2>1
  <1>5. DOMAIN PointMethods = {"move", "reset", "concat"}
    BY DEF PointMethods
  <1> QED BY <1>1, <1>2, <1>3, <1>4, <1>5, ListIsOver DEF WellFormed

LEMMA MethodsWellFormed ==
  ASSUME NEW class \in DOMAIN Methods, NEW name \in DOMAIN Methods[class]
  PROVE  Methods[class][name].is = "alias" \/ WellFormed(Methods[class][name])
  <1>1. DOMAIN Methods = {"String", "List", "Point"}
    BY DEF Methods
  <1>2. /\ Methods["List"] = CollectionMethods
        /\ Methods["Point"] = PointMethods
        /\ Methods["String"] = [m \in DOMAIN StringMethods \cup DOMAIN CollectionMethods |->
             IF m \in DOMAIN StringMethods THEN StringMethods[m] ELSE CollectionMethods[m]]
    BY DEF Methods
  <1> QED BY <1>1, <1>2, StringsShaped, CollectionsShaped, PointsWellFormed

LEMMA InbuiltShaped ==
  \A name \in DOMAIN Inbuilt : Shaped(Inbuilt[name], 0)
  <1>1. Shaped(Inbuilt.to_base, 0)
    <2>1. <<"String", "Int", "Int">> \in Seq(Plain)
      BY DEF Plain
    <2>2. Shaped(Native(<<"String", "Int", "Int">>, <<Number(10)>>), 0)
      BY <2>1, ListIsOver, PlainShaped
    <2> QED BY <2>2 DEF Inbuilt
  <1>2. Shaped(Inbuilt.pause, 0)
    <2>1. <<"Int">> \in Seq(Plain)
      BY DEF Plain
    <2>2. Shaped(Native(<<"Int">>, <<>>), 0)
      BY <2>1, ListIsOver, PlainShaped
    <2> QED BY <2>2 DEF Inbuilt
  <1>3. DOMAIN Inbuilt = {"to_base", "pause"}
    BY DEF Inbuilt
  <1> QED BY <1>1, <1>2, <1>3

-----------------------------------------------------------------------------
(* Every call that is not refused gives the parameters what is meant.      *)

\* What an invocation binds is right for what it calls.
Right(c, given) == \A f \in c.callee : ~c.binding.raised => RightArgs(f, c.binding.got, given)

LEMMA NotFoundRight ==
  ASSUME NEW list, NEW given
  PROVE  Right(NotFound(list), given)
  BY DEF Right, NotFound, Calling

LEMMA KeepingRight ==
  ASSUME NEW list, NEW c, IsCall(c), NEW given, Right(c, given)
  PROVE  Right(Keeping(list, c), given)
  <1> PICK callee, l, left, got : \E raised \in BOOLEAN :
             c = Calling(callee, l, [list |-> left, got |-> got, raised |-> raised])
    BY DEF IsCall
  <1> PICK raised \in BOOLEAN :
             c = Calling(callee, l, [list |-> left, got |-> got, raised |-> raised])
    OBVIOUS
  <1> DEFINE b == [list |-> list, got |-> got, raised |-> raised]
  <1>1. Keeping(list, c) = Calling(callee, l, b)
    BY DEF Keeping, Calling
  <1>2. /\ c.callee = callee /\ c.binding.got = got /\ c.binding.raised = raised
        /\ Calling(callee, l, b).callee = callee /\ Calling(callee, l, b).binding = b
        /\ b.got = got /\ b.raised = raised
    BY DEF Calling
  <1> QED BY <1>1, <1>2 DEF Right

\* A function of the program, or a C++ function that is handed its object.
LEMMA InvokeRight ==
  ASSUME NEW f, WellFormed(f), NEW list, NEW given, Reads(list, given),
         list # <<>> \/ f.is = "function" \/ Shaped(f, 0)
  PROVE  Right(Invoke(Closure(f), list), given)
  <1>1. Invoke(Closure(f), list) = Calling({f}, list, Bind(f, list))
    BY DEF Invoke, Closure
  <1>2. ~Bind(f, list).raised => RightArgs(f, Bind(f, list).got, given)
    <2>1. CASE f.is = "function"
      BY <2>1, FunctionInPlace DEF WellFormed, Shaped
    <2>2. CASE Shaped(f, 0)
      BY <2>2, NativeInPlace
    <2>3. ASSUME list # <<>>, NEW e \in 0..2, Shaped(f, e)
          PROVE  ~Bind(f, list).raised => RightArgs(f, Bind(f, list).got, given)
      BY <2>3, NativeInPlace
    <2> QED BY <2>1, <2>2, <2>3 DEF WellFormed
  <1> QED BY <1>1, <1>2 DEF Right, Calling

LEMMA ReadsItself ==
  ASSUME NEW list, list \in Seq(ToSet(list))
  PROVE  Reads(list, list)
  BY DEF Reads

LEMMA ReadsValues ==
  ASSUME NEW list, list \in Seq(ToSet(list))
  PROVE  Reads(Values(list), list)
  <1> DEFINE v == Values(list)
  <1>1. v = [i \in 1..Len(list) |-> Literal(Read(list[i]))] /\ Len(list) \in Nat
    BY DEF Values
  <1>2. \A i \in 1..Len(list) : Read(v[i]) = Read(list[i])
    BY <1>1 DEF Read, Literal
  <1> HIDE DEF v
  <1>3. v \in Seq(ToSet(v)) /\ Len(v) = Len(list)
    <2>1. \A i \in 1..Len(list) : v[i] \in ToSet(v)
      BY <1>1 DEF ToSet
    <2> QED BY <1>1, <2>1
  <1>4. Reads(v, list)
    BY <1>2, <1>3 DEF Reads
  <1> QED BY <1>4 DEF v

\* With its object in front.
LEMMA ReadsWithThis ==
  ASSUME NEW list, NEW given, given \in Seq(ToSet(given)), Reads(list, given), NEW a, NEW v, Read(a) = v
  PROVE  Reads(WithThis(v, list), <<a>> \o given) /\ WithThis(v, list) # <<>>
  <1> DEFINE x == Literal(v)
             l == <<x>> \o list
             g == <<a>> \o given
             n == Len(list)
             S == ToSet(list) \cup {x}
             T == ToSet(given) \cup {a}
  <1>1. n \in Nat /\ Len(given) = n /\ \A i \in 1..n : Read(list[i]) = Read(given[i])
    BY DEF Reads
  <1>2. list \in Seq(S) /\ x \in S /\ given \in Seq(T) /\ a \in T
    BY DEF Reads
  <1>3. Read(x) = v
    BY DEF Read, Literal
  <1> HIDE DEF x, S, T
  <1>4. l \in Seq(S) /\ Len(l) = n + 1 /\ \A i \in 1..(n + 1) : l[i] = IF i = 1 THEN x ELSE list[i - 1]
    BY <1>1, <1>2
  <1>5. Len(g) = n + 1 /\ \A i \in 1..(n + 1) : g[i] = IF i = 1 THEN a ELSE given[i - 1]
    BY <1>1, <1>2
  <1> HIDE DEF l, g, n
  <1>6. l \in Seq(ToSet(l))
    <2>1. \A i \in 1..Len(l) : l[i] \in ToSet(l)
      BY <1>4 DEF ToSet
    <2> QED BY <1>4, <2>1
  <1>7. \A i \in 1..(n + 1) : Read(l[i]) = Read(g[i])
    BY <1>1, <1>3, <1>4, <1>5
  <1>8. Reads(l, g) /\ l # <<>>
    BY <1>1, <1>4, <1>5, <1>6, <1>7 DEF Reads
  <1> QED BY <1>8 DEF WithThis, l, g, x

LEMMA MethodRight ==
  ASSUME NEW v, v.class \in DOMAIN Methods, NEW name, NEW list, NEW given, Reads(WithThis(v, list), given),
         WithThis(v, list) # <<>>, Methods[v.class][name].is # "alias"
  PROVE  Right(InvokeMethod(v, name, list), given)
  <1> DEFINE table == Methods[v.class]
             m == table[name]
  <1>1. CASE name \notin DOMAIN table
    BY <1>1, NotFoundRight DEF InvokeMethod
  <1>2. CASE name \in DOMAIN table
    <2>1. WellFormed(m)
      BY <1>2, MethodsWellFormed
    <2>2. InvokeMethod(v, name, list) = InvokeMember(v, m, list)
      BY <1>2 DEF InvokeMethod
    <2> HIDE DEF m
    <2>3. Right(Invoke(Closure(m), WithThis(v, list)), given)
      BY <2>1, InvokeRight
    <2>4. Right(InvokeMember(v, m, list), given)
      BY <2>3, InvokeIsCall, KeepingRight DEF InvokeMember
    <2> QED BY <2>2, <2>4
  <1> QED BY <1>1, <1>2

\* The receiver of a method.
LEMMA EvaluatedRight ==
  ASSUME NEW s \in Sites, NEW c, Evaluated(s, c),
         args[s] = Written(s) /\ ~Aliased(s) => Right(c, Given(s))
  PROVE  ArgumentsInPlace'
  <1>1. /\ last' = [site |-> {s}, written |-> args[s] = Written(s), callee |-> c.callee,
                    list |-> c.list, got |-> c.binding.got, raised |-> c.binding.raised]
        /\ holds' = holds
    BY DEF Evaluated
  <1>2. /\ last'.site = {s} /\ last'.written = (args[s] = Written(s)) /\ last'.callee = c.callee
        /\ last'.got = c.binding.got /\ last'.raised = c.binding.raised
    BY <1>1
  <1>3. Aliased(s)' = Aliased(s)
    BY <1>1 DEF Aliased, MethodsOf, Receiver
  <1>4. \A f, given, i : Intended(f, given, i)' = Intended(f, given, i)
    <2>1. \A t, a : Converted(t, a)' = Converted(t, a)
      BY <1>1 DEF Converted, Read
    <2> QED BY <2>1 DEF Intended
  <1>5. \A f \in c.callee :
          last'.written /\ ~last'.raised /\ ~Aliased(s)' => RightArgs(f, last'.got, Given(s))
    BY <1>2, <1>3 DEF Right
  <1> HIDE DEF Aliased
  <1> QED BY <1>2, <1>4, <1>5 DEF ArgumentsInPlace, RightArgs

-----------------------------------------------------------------------------
(* Steps.                                                                  *)

LEMMA EvaluatedKeeps ==
  ASSUME CallsInv, NEW s \in Sites, NEW c, Evaluated(s, c), Kept(s, c.binding.list)
  PROVE  CallsInv'
  <1>1. args' = [args EXCEPT ![s] = c.binding.list]
    BY DEF Evaluated
  <1>2. DOMAIN args' = Sites /\ \A t \in Sites : args'[t] = args[t] \/ (t = s /\ args'[t] = c.binding.list)
    BY <1>1 DEF CallsInv
  <1> QED BY <1>2 DEF CallsInv, Kept, Receivers, Written

LEMMA CallsStep ==
  ASSUME CallsInv, [Next]_vars
  PROVE  CallsInv'
  <1>1. ASSUME NEW s \in Sites, Evaluate(s)
        PROVE  CallsInv'
    <2>1. Kept(s, args[s])
      BY DEF CallsInv
    <2>2. CASE Direct(s)
      BY <2>1, <2>2, EvaluateKeeps, EvaluatedKeeps DEF Direct
    <2>3. CASE Callback(s)
      BY <2>1, <2>3, InvokeIsCall, KeepingKeeps, EvaluatedKeeps DEF Callback
    <2>4. CASE InvokeByName(s)
      BY <2>1, <2>4, InbuiltIsCall, KeepingKeeps, EvaluatedKeeps DEF InvokeByName
    <2>5. CASE CallMethod(s)
      BY <2>1, <2>5, MethodKeeps, EvaluatedKeeps DEF CallMethod
    <2>6. CASE CallInBox(s)
      BY <2>1, <2>6, EvaluateKeeps, EvaluatedKeeps DEF CallInBox
    <2>7. CASE PseudoMethod(s)
      <3>1. Kept(s, <<Name(Site[s].recv)>> \o args[s])
        BY <2>1, <2>7, KeptBehind DEF PseudoMethod
      <3> QED BY <2>7, <3>1, EvaluateKeeps, EvaluatedKeeps DEF PseudoMethod
    <2>8. CASE CallStatic(s)
      BY <2>1, <2>8, MethodKeeps, EvaluatedKeeps DEF CallStatic
    <2>9. CASE ApplyOverload(s)
      BY <2>1, <2>9, MethodKeeps, EvaluatedKeeps DEF ApplyOverload
    <2>10. CASE Subscript(s)
      <3> DEFINE c == Keeping(args[s], InvokeMethod(Receiver(s), Site[s].name, Values(args[s])))
      <3>1. c.binding.list = args[s] /\ NotFound(args[s]).binding.list = args[s]
        BY MethodKeeps, KeepingKeeps, NotFoundKeeps
      <3>2. Evaluated(s, c) \/ Evaluated(s, NotFound(args[s]))
        BY <2>10 DEF Subscript
      <3> HIDE DEF c
      <3> QED BY <2>1, <3>1, <3>2, EvaluatedKeeps
    <2> QED BY <1>1, <2>2, <2>3, <2>4, <2>5, <2>6, <2>7, <2>8, <2>9, <2>10 DEF Evaluate
  <1>2. CASE UNCHANGED args
    BY <1>2 DEF CallsInv, Kept, Receivers, Written
  <1>3. \A n \in Names, v \in Things : Assign(n, v) => UNCHANGED args
    BY DEF Assign
  <1> QED BY <1>1, <1>2, <1>3 DEF Next, vars

LEMMA CallsInit ==
  ASSUME Init
  PROVE  CallsInv
  BY KeptWritten DEF Init, CallsInv

\* Every argument list is the written one with so many receivers in front.
THEOREM CallsInductive == Spec => []CallsInv
  <1> QED BY CallsInit, CallsStep, PTL DEF Spec

\* Evaluating calls leaves the program as it was written: every call expression
\* keeps its arguments, in order, with nothing before them but the receivers
\* that invoke_pseudo_method leaves.
THEOREM ProgramAlwaysKept == Spec => []ProgramKept
  <1>1. CallsInv => ProgramKept
    <2> SUFFICES ASSUME CallsInv, NEW s \in Sites
                 PROVE  LET added == Len(args[s]) - Len(Written(s))
                        IN /\ added > 0 => Site[s].form = "access"
                           /\ args[s] = [i \in 1..added |-> Name(Site[s].recv)] \o Written(s)
      BY DEF ProgramKept
    <2> PICK k \in Nat : /\ k > 0 => Site[s].form = "access"
                         /\ args[s] = Receivers(s, k) \o Written(s)
      BY DEF CallsInv, Kept
    <2>1. Len(args[s]) = k + Len(Written(s)) /\ Len(Written(s)) \in Nat
      BY InFront
    <2>2. Len(args[s]) - Len(Written(s)) = k
      BY <2>1
    <2> QED BY <2>2 DEF Receivers
  <1> QED BY <1>1, CallsInductive, PTL
\* What names hold is what the program may assign.
HoldsInv == holds \in [Names -> Things \cup {Nil}]

LEMMA HoldsStep ==
  ASSUME HoldsInv, [Next]_vars
  PROVE  HoldsInv'
  <1>1. \A s \in Sites : Evaluate(s) => UNCHANGED holds
    BY DEF Evaluate, Direct, Callback, InvokeByName, CallMethod, CallInBox, PseudoMethod,
           CallStatic, ApplyOverload, Subscript, Evaluated
  <1>2. \A n \in Names, v \in Things : Assign(n, v) => HoldsInv'
    BY DEF Assign, HoldsInv
  <1> QED BY <1>1, <1>2 DEF Next, vars, HoldsInv

\* An object is of a class that has a table of methods, and what is callable is a
\* function of the program.
LEMMA HeldIs ==
  ASSUME HoldsInv, NEW n \in Names
  PROVE  /\ Read(Name(n)) = holds[n]
         /\ holds[n].is = "object" => holds[n].class \in DOMAIN Methods
         /\ holds[n].is = "callable" => holds[n].it.is = "function" /\ WellFormed(holds[n].it)
  <1>1. Read(Name(n)) = holds[n]
    BY DEF Read, Name
  <1>2. Nil.is # "object" /\ Nil.is # "callable"
    BY DEF Nil
  <1>3. holds[n] \in Things \cup {Nil}
    BY DEF HoldsInv
  <1> QED BY <1>1, <1>2, <1>3, ThingsAssumption DEF WellFormed

LEMMA EvaluateRight ==
  ASSUME NEW name, NEW list, NEW given
  PROVE  Right(EvaluateInvoke(name, list), given)
  <1>1. "InvokeExpr" \notin Evaluable
    BY DEF Evaluable
  <1> QED BY <1>1, NotFoundRight DEF EvaluateInvoke

\* A method of the receiver, which has the arguments as they are or as values.
LEMMA ReceiverRight ==
  ASSUME NEW s \in Sites, NEW v, NEW a, Read(a) = v, v.class \in DOMAIN Methods, NEW list,
         Reads(list, Written(s)), Given(s) = <<a>> \o Written(s),
         Methods[v.class][Site[s].name].is # "alias"
  PROVE  Right(InvokeMethod(v, Site[s].name, list), Given(s))
  <1>1. Written(s) \in Seq(ToSet(Written(s)))
    BY SitesAssumption DEF Written
  <1>2. Reads(WithThis(v, list), Given(s)) /\ WithThis(v, list) # <<>>
    BY <1>1, ReadsWithThis
  <1> QED BY <1>2, MethodRight

LEMMA EvaluateInPlace ==
  ASSUME HoldsInv, NEW s \in Sites, Evaluate(s)
  PROVE  ArgumentsInPlace'
  <1> DEFINE name == Site[s].name
             recv == Site[s].recv
             v == Receiver(s)
  <1>1. Written(s) \in Seq(ToSet(Written(s)))
    BY SitesAssumption DEF Written
  <1>2. Reads(Written(s), Written(s)) /\ Reads(Values(Written(s)), Written(s))
    BY <1>1, ReadsItself, ReadsValues
  <1>3. ASSUME Site[s].form \in {"access", "operator", "bracket", "callback"}
        PROVE  /\ recv \in Names /\ v = holds[recv] /\ v = Read(Name(recv))
               /\ v.is = "object" => v.class \in DOMAIN Methods
               /\ v.is = "callable" => v.it.is = "function" /\ WellFormed(v.it)
    BY <1>3, SitesAssumption, HeldIs DEF Receiver
  <1>4. ASSUME Site[s].form \in {"access", "operator", "bracket"}
        PROVE  /\ Given(s) = <<Name(recv)>> \o Written(s)
               /\ ~Aliased(s) => Methods[v.class][name].is # "alias"
    BY <1>4 DEF Given, Aliased, MethodsOf
  <1>5. CASE Direct(s)
    BY <1>5, EvaluateRight, EvaluatedRight DEF Direct
  <1>6. CASE Callback(s)
    <2> DEFINE list == Values(args[s])
               c == Invoke(Read(Name(recv)), list)
    <2>1. Site[s].form = "callback" /\ Evaluated(s, Keeping(args[s], c))
      BY <1>6 DEF Callback
    <2>2. Given(s) = Written(s)
      BY <2>1 DEF Given
    <2>3. ASSUME args[s] = Written(s)
          PROVE  Right(c, Given(s))
      <3>1. CASE v.is = "callable"
        <4>1. c = Invoke(Closure(v.it), list)
          BY <1>3, <2>1, <3>1 DEF Invoke, Closure
        <4> HIDE DEF c
        <4> QED BY <1>2, <1>3, <2>1, <2>2, <2>3, <3>1, <4>1, InvokeRight
      <3>2. CASE v.is # "callable"
        BY <1>3, <2>1, <3>2 DEF Invoke, Right, Calling
      <3> QED BY <3>1, <3>2
    <2>4. IsCall(c)
      BY InvokeIsCall
    <2> HIDE DEF c
    <2> QED BY <2>1, <2>3, <2>4, KeepingRight, EvaluatedRight
  <1>7. CASE InvokeByName(s)
    <2> DEFINE list == Values(args[s])
               c == InvokeInbuilt(name, list)
    <2>1. Site[s].form = "host" /\ Evaluated(s, Keeping(args[s], c))
      BY <1>7 DEF InvokeByName
    <2>2. Given(s) = Written(s)
      BY <2>1 DEF Given
    <2>3. ASSUME args[s] = Written(s)
          PROVE  Right(c, Given(s))
      <3>1. CASE name \in DOMAIN Inbuilt
        <4>1. Shaped(Inbuilt[name], 0)
          BY <3>1, InbuiltShaped
        <4>2. WellFormed(Inbuilt[name])
          BY <4>1 DEF WellFormed
        <4>3. c = Invoke(Closure(Inbuilt[name]), list)
          BY <3>1 DEF InvokeInbuilt
        <4> HIDE DEF c
        <4> QED BY <1>2, <2>2, <2>3, <4>1, <4>2, <4>3, InvokeRight
      <3>2. CASE name \notin DOMAIN Inbuilt
        BY <3>2, NotFoundRight DEF InvokeInbuilt
      <3> QED BY <3>1, <3>2
    <2>4. IsCall(c)
      BY InbuiltIsCall
    <2> HIDE DEF c
    <2> QED BY <2>1, <2>3, <2>4, KeepingRight, EvaluatedRight
  <1>8. CASE CallMethod(s)
    <2>1. /\ Site[s].form = "access" /\ v.is = "object"
          /\ Evaluated(s, InvokeMethod(v, name, args[s]))
      BY <1>8 DEF CallMethod
    <2>2. args[s] = Written(s) /\ ~Aliased(s) => Right(InvokeMethod(v, name, args[s]), Given(s))
      BY <1>2, <1>3, <1>4, <2>1, ReceiverRight
    <2> QED BY <2>1, <2>2, EvaluatedRight
  <1>9. CASE CallInBox(s)
    BY <1>9, EvaluateRight, EvaluatedRight DEF CallInBox
  <1>10. CASE PseudoMethod(s)
    BY <1>10, EvaluateRight, EvaluatedRight DEF PseudoMethod
  <1>11. CASE CallStatic(s)
    <2> DEFINE o == Object(recv)
    <2>1. Site[s].form = "static" /\ Evaluated(s, InvokeMethod(o, name, args[s]))
      BY <1>11 DEF CallStatic
    <2>2. o.class = recv /\ recv \in DOMAIN Methods /\ Read(Literal(o)) = o
      BY <2>1, SitesAssumption DEF Object, Read, Literal
    <2>3. Given(s) = <<Literal(o)>> \o Written(s)
      BY <2>1 DEF Given
    <2>4. ~Aliased(s) => Methods[o.class][name].is # "alias"
      BY <2>1, <2>2 DEF Aliased, MethodsOf
    <2> HIDE DEF o
    <2>5. args[s] = Written(s) /\ ~Aliased(s) => Right(InvokeMethod(o, name, args[s]), Given(s))
      BY <1>2, <2>2, <2>3, <2>4, ReceiverRight
    <2> QED BY <2>1, <2>5, EvaluatedRight
  <1>12. CASE ApplyOverload(s)
    <2>1. /\ Site[s].form = "operator" /\ v.is = "object"
          /\ Evaluated(s, InvokeMethod(v, name, args[s]))
      BY <1>12 DEF ApplyOverload
    <2>2. args[s] = Written(s) /\ ~Aliased(s) => Right(InvokeMethod(v, name, args[s]), Given(s))
      BY <1>2, <1>3, <1>4, <2>1, ReceiverRight
    <2> QED BY <2>1, <2>2, EvaluatedRight
  <1>13. CASE Subscript(s)
    <2> DEFINE c == InvokeMethod(v, name, Values(args[s]))
    <2>1. /\ Site[s].form = "bracket"
          /\ \/ v.is # "object" /\ Evaluated(s, NotFound(args[s]))
             \/ v.is = "object" /\ Evaluated(s, Keeping(args[s], c))
      BY <1>13 DEF Subscript
    <2>2. IsCall(c)
      BY MethodKeeps
    <2>3. v.is = "object" /\ args[s] = Written(s) /\ ~Aliased(s) => Right(c, Given(s))
      BY <1>2, <1>3, <1>4, <2>1, ReceiverRight
    <2> HIDE DEF c
    <2> QED BY <2>1, <2>2, <2>3, NotFoundRight, KeepingRight, EvaluatedRight
  <1> QED BY <1>5, <1>6, <1>7, <1>8, <1>9, <1>10, <1>11, <1>12, <1>13 DEF Evaluate

LEMMA InPlaceStep ==
  ASSUME HoldsInv, ArgumentsInPlace, [Next]_vars
  PROVE  ArgumentsInPlace'
  <1>1. ASSUME NEW n \in Names, NEW v \in Things, Assign(n, v)
        PROVE  ArgumentsInPlace'
    <2>1. last'.site = {}
      BY <1>1 DEF Assign, NoCall
    <2> QED BY <2>1 DEF ArgumentsInPlace
  <1>2. CASE UNCHANGED vars
    <2>1. holds' = holds /\ last' = last
      BY <1>2 DEF vars
    <2>2. \A s : Aliased(s)' = Aliased(s)
      BY <2>1 DEF Aliased, MethodsOf, Receiver
    <2>3. \A f, given, i : Intended(f, given, i)' = Intended(f, given, i)
      <3>1. \A t, a : Converted(t, a)' = Converted(t, a)
        BY <2>1 DEF Converted, Read
      <3> QED BY <3>1 DEF Intended
    <2> QED BY <2>1, <2>2, <2>3 DEF ArgumentsInPlace
  <1> QED BY <1>1, <1>2, EvaluateInPlace DEF Next

\* A call that is not refused gives every parameter it has an argument for that argument,
\* converted, and the others their own default, whatever is injected before or between the
\* parameters, for every program of calls and whatever its names hold; a C++ function with
\* a parameter that has neither is not called.
THEOREM ArgumentsAlwaysInPlace == Spec => []ArgumentsInPlace
  <1>1. Init => HoldsInv /\ ArgumentsInPlace
    BY DEF Init, HoldsInv, ArgumentsInPlace, NoCall
  <1>2. HoldsInv /\ ArgumentsInPlace /\ [Next]_vars => HoldsInv' /\ ArgumentsInPlace'
    BY HoldsStep, InPlaceStep
  <1> QED BY <1>1, <1>2, PTL DEF Spec
==============================================================================
