---------------------------- MODULE ClassesProofs ----------------------------
(***************************************************************************)
(* Proofs about classes and objects, for every set of declarations: a      *)
(* class answers what its base and its interfaces answer and has their     *)
(* fields, and what is registered stays as it is.                          *)
(*                                                                         *)
(* Good(cs, ts, vs) is said of classes, tables and variables as code sees  *)
(* them between two calls, so that an action is followed call by call.     *)
(***************************************************************************)
EXTENDS Classes, FiniteSetTheorems, SequenceTheorems, WellFoundedInduction, TLAPS

Refs(fields) == Held(Values(fields))
Objects(ts) == ObjectTables \cap DOMAIN ts
Below(cs, n, t) == t = n \/ t = cs[n].super \/ t \in Range(cs[n].interfaces)
Fields(ts, n) == DOMAIN ts[Proto(n)].fields
Record(c) ==
  c = [name |-> c.name, super |-> c.super, interfaces |-> c.interfaces, fields |-> c.fields, methods |-> c.methods]

\* Tables are prototypes and objects, and refer to objects that exist.
TablesOK(cs, ts) ==
  /\ DOMAIN ts \subseteq ObjectTables \cup {Proto(n) : n \in DOMAIN cs}
  /\ \A n \in DOMAIN cs : Proto(n) \in DOMAIN ts /\ ts[Proto(n)].class = NoClass
  /\ \A k \in DOMAIN ts :
       /\ ts[k] = Table(ts[k].class, ts[k].fields)
       /\ ts[k].class \in DOMAIN cs \cup {Root, NoClass}
       /\ Refs(ts[k].fields) \subseteq Objects(ts)

\* A class is registered after what it is below, and took over all of it.
ClassesOK(cs, ts) ==
  \A n \in DOMAIN cs :
    /\ n \notin {Root, NoClass}
    /\ cs[n].name = n
    /\ Constructor \in DOMAIN cs[n].methods
    /\ cs[n].super \in DOMAIN cs /\ Range(cs[n].interfaces) \subseteq DOMAIN cs
    /\ \A t \in DOMAIN cs :
         Below(cs, n, t) => /\ DOMAIN cs[t].methods \subseteq DOMAIN cs[n].methods
                            /\ Fields(ts, t) \subseteq Fields(ts, n)

\* An object with fields has those of its class.
ObjectsOK(cs, ts) ==
  \A k \in DOMAIN ts :
    ts[k].class \in DOMAIN cs /\ ts[k].fields # NoFields
      => Fields(ts, ts[k].class) \subseteq DOMAIN ts[k].fields

VarsOK(ts, vs) == DOMAIN vs = Vars /\ Refs(vs) \subseteq Objects(ts)

Good(cs, ts, vs) == TablesOK(cs, ts) /\ ClassesOK(cs, ts) /\ ObjectsOK(cs, ts) /\ VarsOK(ts, vs)
ClassesInv == Good(classes, table, var)

-----------------------------------------------------------------------------
(* References and names of tables.                                         *)

LEMMA Numbered ==
  /\ \A n : Proto(n) \notin ObjectTables
  /\ \A n, m : Proto(n) = Proto(m) => n = m
  /\ \E k : k \in ObjectTables
  <1>1. \A n : Proto(n) \notin ObjectTables
    BY BoundsAssumption DEF Proto, ObjectTables
  <1>2. \A n, m : Proto(n) = Proto(m) => n = m
    BY DEF Proto
  <1>3. <<Root, 1>> \in ObjectTables
    BY BoundsAssumption DEF ObjectTables
  <1> QED BY <1>1, <1>2, <1>3

LEMMA RefIs ==
  ASSUME NEW f, NEW r
  PROVE  r \in Refs(f) <=> \E n \in DOMAIN f : IsObj(f[n]) /\ f[n][2] = r
  BY DEF Refs, Held, Values

LEMMA NoRefs ==
  /\ Refs(NoFields) = {}
  /\ DOMAIN NoFields = {}
  BY DEF Refs, Held, Values, NoFields

\* What a variable refers to is an object that exists.
LEMMA VarRefers ==
  ASSUME NEW ts, NEW vs, VarsOK(ts, vs), NEW v \in Vars, IsObj(vs[v])
  PROVE  vs[v][2] \in Objects(ts)
  BY RefIs DEF VarsOK

LEMMA WithIs ==
  ASSUME NEW f, NEW k, NEW x
  PROVE  /\ DOMAIN With(f, k, x) = DOMAIN f \cup {k}
         /\ With(f, k, x)[k] = x
         /\ \A j \in DOMAIN f : j # k => With(f, k, x)[j] = f[j]
  BY DEF With

LEMMA OverlayIs ==
  ASSUME NEW f, NEW g
  PROVE  /\ DOMAIN Overlay(f, g) = DOMAIN f \cup DOMAIN g
         /\ Refs(Overlay(f, g)) \subseteq Refs(f) \cup Refs(g)
  <1>1. DOMAIN Overlay(f, g) = DOMAIN f \cup DOMAIN g
        /\ \A n \in DOMAIN f \cup DOMAIN g : Overlay(f, g)[n] = IF n \in DOMAIN g THEN g[n] ELSE f[n]
    BY DEF Overlay
  <1>2. ASSUME NEW r \in Refs(Overlay(f, g)) PROVE r \in Refs(f) \cup Refs(g)
    <2>1. PICK n \in DOMAIN Overlay(f, g) : IsObj(Overlay(f, g)[n]) /\ Overlay(f, g)[n][2] = r
      BY <1>2, RefIs
    <2>2. CASE n \in DOMAIN g
      <3>1. Overlay(f, g)[n] = g[n]
        BY <1>1, <2>2
      <3> QED BY <2>1, <2>2, <3>1, RefIs
    <2>3. CASE n \notin DOMAIN g
      <3>1. Overlay(f, g)[n] = f[n] /\ n \in DOMAIN f
        BY <1>1, <2>1, <2>3
      <3> QED BY <2>1, <3>1, RefIs
    <2> QED BY <2>2, <2>3
  <1> QED BY <1>1, <1>2

-----------------------------------------------------------------------------
(* Memory.                                                                 *)

\* What the program can reach is kept, and refers to what is kept.
LEMMA ReachableIs ==
  ASSUME NEW ts, NEW roots, NEW k \in DOMAIN ts
  PROVE  /\ Reachable(ts, roots) \subseteq DOMAIN ts
         /\ k \in roots => k \in Reachable(ts, roots)
         /\ k \in Reachable(ts, roots) /\ Refs(ts[k].fields) \subseteq DOMAIN ts
              => Refs(ts[k].fields) \subseteq Reachable(ts, roots)
  <1> DEFINE closed == {ks \in {roots \cup s : s \in SUBSET (ObjectTables \cap DOMAIN ts)} :
                          \A j \in ks : Held(Values(ts[j].fields)) \subseteq ks}
  <1>1. Reachable(ts, roots) = {j \in DOMAIN ts : \A ks \in closed : j \in ks}
    BY DEF Reachable
  <1>2. \A ks \in closed : roots \subseteq ks /\ \A j \in ks : Refs(ts[j].fields) \subseteq ks
    BY DEF Refs
  <1> HIDE DEF closed
  <1> QED BY <1>1, <1>2

LEMMA Kept ==
  ASSUME NEW cs, NEW ts, NEW vs, Good(cs, ts, vs), Keep(cs, ts, vs)
  PROVE  /\ Good(cs, table', var')
         /\ DOMAIN table' \subseteq DOMAIN ts
         /\ \A k \in DOMAIN table' : table'[k] = ts[k]
         /\ \A n \in DOMAIN cs : Proto(n) \in DOMAIN table'
  <1> DEFINE R == Reachable(ts, Roots(cs, vs))
  <1>1. var' = vs /\ DOMAIN table' = R /\ \A k \in R : table'[k] = ts[k]
    BY DEF Keep
  <1>2. R \subseteq DOMAIN ts
    <2>1. CASE DOMAIN ts = {}
      BY <2>1 DEF Reachable
    <2>2. CASE DOMAIN ts # {}
      BY <2>2, ReachableIs
    <2> QED BY <2>1, <2>2
  <1>3. Refs(vs) \subseteq R
    BY ReachableIs DEF Good, VarsOK, Objects, Roots, Refs
  <1>4. \A n \in DOMAIN cs : Proto(n) \in R
    BY ReachableIs DEF Good, TablesOK, Roots
  <1>5. \A k \in R : Refs(ts[k].fields) \subseteq R
    BY <1>2, ReachableIs DEF Good, TablesOK, Objects
  <1> HIDE DEF R
  <1>6. TablesOK(cs, table')
    BY <1>1, <1>2, <1>4, <1>5 DEF Good, TablesOK, Objects
  <1>7. \A n \in DOMAIN cs : Fields(table', n) = Fields(ts, n)
    BY <1>1, <1>4 DEF Fields
  <1>8. ClassesOK(cs, table')
    BY <1>7 DEF Good, ClassesOK
  <1>9. ObjectsOK(cs, table')
    BY <1>1, <1>2, <1>7 DEF Good, ObjectsOK
  <1>10. VarsOK(table', var')
    BY <1>1, <1>3 DEF Good, VarsOK, Objects
  <1> QED BY <1>1, <1>2, <1>4, <1>6, <1>8, <1>9, <1>10 DEF Good

-----------------------------------------------------------------------------
(* What code does to the tables.                                           *)

\* Only table k changed, in the values of its fields.
Changed(ts, us, k) ==
  /\ DOMAIN us = DOMAIN ts
  /\ \A j \in DOMAIN ts : j # k => us[j] = ts[j]

LEMMA AddedOK ==
  ASSUME NEW cs, NEW ts, NEW vs, Good(cs, ts, vs),
         NEW k \in ObjectTables, k \notin DOMAIN ts, NEW c \in DOMAIN cs \cup {Root, NoClass}, NEW f,
         Refs(f) \subseteq Objects(ts),
         c \in DOMAIN cs /\ f # NoFields => Fields(ts, c) \subseteq DOMAIN f
  PROVE  Good(cs, With(ts, k, Table(c, f)), vs)
  <1> DEFINE us == With(ts, k, Table(c, f))
  <1>1. /\ DOMAIN us = DOMAIN ts \cup {k}
        /\ us[k] = Table(c, f)
        /\ \A j \in DOMAIN ts : us[j] = ts[j]
    <2>1. /\ DOMAIN us = DOMAIN ts \cup {k}
          /\ us[k] = Table(c, f)
          /\ \A j \in DOMAIN ts : j # k => us[j] = ts[j]
      BY DEF With
    <2> QED BY <2>1
  <1>2. Table(c, f).class = c /\ Table(c, f).fields = f
    BY DEF Table
  <1>3. us[k].class = c /\ us[k].fields = f
    BY <1>1, <1>2
  <1> HIDE DEF us
  <1>4. Objects(ts) \subseteq Objects(us)
    BY <1>1 DEF Objects
  <1>5. TablesOK(cs, us)
    <2>1. \A n \in DOMAIN cs : Proto(n) \in DOMAIN us /\ us[Proto(n)].class = NoClass
      BY <1>1 DEF Good, TablesOK
    <2>2. \A j \in DOMAIN ts : /\ us[j] = Table(us[j].class, us[j].fields)
                               /\ us[j].class \in DOMAIN cs \cup {Root, NoClass}
                               /\ Refs(us[j].fields) \subseteq Objects(us)
      BY <1>1, <1>4 DEF Good, TablesOK
    <2> QED BY <1>1, <1>3, <1>4, <2>1, <2>2 DEF Good, TablesOK
  <1>6. \A n \in DOMAIN cs : Fields(us, n) = Fields(ts, n)
    BY <1>1 DEF Fields, Good, TablesOK
  <1>7. ClassesOK(cs, us)
    BY <1>6 DEF Good, ClassesOK
  <1>8. ObjectsOK(cs, us)
    BY <1>1, <1>3, <1>6 DEF Good, ObjectsOK
  <1>9. VarsOK(us, vs)
    BY <1>4 DEF Good, VarsOK
  <1> QED BY <1>5, <1>7, <1>8, <1>9 DEF Good, us

LEMMA VarSetOK ==
  ASSUME NEW cs, NEW ts, NEW vs, Good(cs, ts, vs), NEW v \in Vars, NEW x,
         IsObj(x) => x[2] \in Objects(ts)
  PROVE  Good(cs, ts, [vs EXCEPT ![v] = x])
  <1> DEFINE ws == [vs EXCEPT ![v] = x]
  <1>1. DOMAIN ws = Vars /\ ws[v] = x /\ \A w \in Vars : w # v => ws[w] = vs[w]
    BY DEF Good, VarsOK
  <1> HIDE DEF ws
  <1>2. ASSUME NEW r \in Refs(ws) PROVE r \in Objects(ts)
    <2>1. PICK w \in DOMAIN ws : IsObj(ws[w]) /\ ws[w][2] = r
      BY <1>2, RefIs
    <2>2. CASE w = v
      BY <1>1, <2>1, <2>2
    <2>3. CASE w # v
      BY <1>1, <2>1, <2>3, VarRefers DEF Good
    <2> QED BY <2>2, <2>3
  <1> QED BY <1>1, <1>2 DEF Good, VarsOK, ws

LEMMA ObjectIs ==
  \A k : IsObj(Obj(k)) /\ Obj(k)[2] = k
  BY DEF IsObj, Obj

LEMMA PlainValues ==
  /\ ~IsObj(Nil) /\ ~IsObj(Fun)
  /\ \A x : ~IsObj(Val(x))
  BY DEF IsObj, Nil, Fun, Val

LEMMA AssignOK ==
  ASSUME NEW cs, NEW ts, NEW vs, Good(cs, ts, vs), NEW k \in Objects(ts), NEW n, NEW x,
         IsObj(x) => x[2] \in Objects(ts), NEW us \in Assign(ts, k, n, x)
  PROVE  Good(cs, us, vs) /\ Changed(ts, us, k)
  <1> DEFINE c == ts[k].class
             f == ts[k].fields
             g == [f EXCEPT ![n] = x]
  <1>1. k \in DOMAIN ts /\ k \in ObjectTables
    BY DEF Objects
  <1>2. n \in DOMAIN f /\ us = [ts EXCEPT ![k].fields[n] = x]
    BY DEF Assign
  <1>3. ts[k] = [class |-> c, fields |-> f]
    BY <1>1 DEF Good, TablesOK, Table
  <1>4. /\ DOMAIN us = DOMAIN ts
        /\ \A j \in DOMAIN ts : j # k => us[j] = ts[j]
        /\ us[k] = [ts[k] EXCEPT !.fields = g]
    BY <1>1, <1>2
  <1>5. DOMAIN g = DOMAIN f /\ g[n] = x /\ \A m \in DOMAIN f : m # n => g[m] = f[m]
    BY <1>2
  <1> HIDE DEF c, f, g
  <1>6. us[k] = [class |-> c, fields |-> g]
    BY <1>3, <1>4
  <1>7. us[k] = Table(c, g) /\ us[k].class = c /\ us[k].fields = g
    BY <1>6 DEF Table
  <1>8. Objects(us) = Objects(ts)
    BY <1>4 DEF Objects
  <1>9. Refs(g) \subseteq Objects(ts)
    <2>1. Refs(f) \subseteq Objects(ts)
      BY <1>1 DEF Good, TablesOK, f
    <2>2. ASSUME NEW r \in Refs(g) PROVE r \in Objects(ts)
      <3>1. PICK m \in DOMAIN g : IsObj(g[m]) /\ g[m][2] = r
        BY <2>2, RefIs
      <3>2. CASE m = n
        BY <1>5, <3>1, <3>2
      <3>3. CASE m # n
        <4>1. r \in Refs(f)
          BY <1>5, <3>1, <3>3, RefIs
        <4> QED BY <2>1, <4>1
      <3> QED BY <3>2, <3>3
    <2> QED BY <2>2
  <1>10. c \in DOMAIN cs \cup {Root, NoClass}
    BY <1>1 DEF Good, TablesOK, c
  <1>11. TablesOK(cs, us)
    <2>1. \A m \in DOMAIN cs : Proto(m) \in DOMAIN us /\ us[Proto(m)].class = NoClass
      BY <1>1, <1>4, Numbered DEF Good, TablesOK
    <2>2. \A j \in DOMAIN us : /\ us[j] = Table(us[j].class, us[j].fields)
                               /\ us[j].class \in DOMAIN cs \cup {Root, NoClass}
                               /\ Refs(us[j].fields) \subseteq Objects(us)
      BY <1>4, <1>7, <1>8, <1>9, <1>10 DEF Good, TablesOK
    <2> QED BY <1>4, <2>1, <2>2 DEF Good, TablesOK
  <1>12. \A m \in DOMAIN cs : Fields(us, m) = Fields(ts, m)
    BY <1>1, <1>4, Numbered DEF Fields, Good, TablesOK
  <1>13. ClassesOK(cs, us)
    BY <1>12 DEF Good, ClassesOK
  <1>14. ObjectsOK(cs, us)
    <2>1. f # NoFields
      BY <1>2, NoRefs DEF f
    <2>2. c \in DOMAIN cs => Fields(ts, c) \subseteq DOMAIN f
      BY <1>1, <2>1 DEF Good, ObjectsOK, c, f
    <2>3. c \in DOMAIN cs => Fields(us, c) \subseteq DOMAIN g
      BY <1>5, <1>12, <2>2
    <2>4. \A j \in DOMAIN us : j # k => (us[j].class \in DOMAIN cs /\ us[j].fields # NoFields
                                           => Fields(us, us[j].class) \subseteq DOMAIN us[j].fields)
      BY <1>4, <1>12 DEF Good, ObjectsOK
    <2> QED BY <1>7, <2>3, <2>4 DEF ObjectsOK
  <1>15. VarsOK(us, vs)
    BY <1>8 DEF Good, VarsOK
  <1> QED BY <1>4, <1>11, <1>13, <1>14, <1>15 DEF Good, Changed

\* Code without calls of super, and with one.
LEMMA RunOK ==
  ASSUME NEW cs, NEW ts, NEW vs, Good(cs, ts, vs), NEW k \in Objects(ts), NEW m, NEW us \in Run(ts, k, m)
  PROVE  Good(cs, us, vs) /\ Changed(ts, us, k)
  <1>1. us = ts \/ us \in Assign(ts, k, m.def, Val("set"))
    BY DEF Run
  <1>2. CASE us = ts
    BY <1>2 DEF Changed
  <1>3. CASE us \in Assign(ts, k, m.def, Val("set"))
    BY <1>3, AssignOK, PlainValues
  <1> QED BY <1>1, <1>2, <1>3

LEMMA InvokeOK ==
  ASSUME NEW cs, NEW ts, NEW vs, Good(cs, ts, vs), NEW k \in Objects(ts), NEW m, NEW us \in Invoke(ts, k, m)
  PROVE  Good(cs, us, vs) /\ Changed(ts, us, k)
  <1>1. PICK f \in Lookup(ts, k, m) : us \in SuperFirst(ts, k, f)
    BY DEF Invoke
  <1>2. CASE us \in Run(ts, k, f)
    BY <1>2, RunOK
  <1>3. CASE us \notin Run(ts, k, f)
    <2>5. PICK s \in Lookup(ts, k, Super) : us \in UNION {Assign(t, k, f.def, Val("set")) : t \in Run(ts, k, s)}
      BY <1>1, <1>3 DEF SuperFirst
    <2>1. PICK t \in Run(ts, k, s) : us \in Assign(t, k, f.def, Val("set"))
      BY <2>5
    <2>2. Good(cs, t, vs) /\ Changed(ts, t, k)
      BY RunOK
    <2>3. k \in Objects(t)
      BY <2>2 DEF Changed, Objects
    <2>4. Good(cs, us, vs) /\ Changed(t, us, k)
      BY <2>1, <2>2, <2>3, AssignOK, PlainValues
    <2> QED BY <2>2, <2>4 DEF Changed
  <1> QED BY <1>2, <1>3

-----------------------------------------------------------------------------
(* Declarations.                                                           *)

\* Induction over numbers.
LEMMA NumbersIn ==
  ASSUME NEW G, 0 \in G, \A n \in Nat : n \in G => n + 1 \in G
  PROVE  Nat \subseteq G
  <1> DEFINE T == Nat \ G
  <1> SUFFICES ASSUME T # {} PROVE FALSE
    OBVIOUS
  <1>1. \E x \in T : \A y \in T : ~(<<y, x>> \in OpToRel(<, Nat))
    BY NatLessThanWellFounded, WFMin
  <1>2. PICK x \in T : \A y \in T : ~(y < x)
    BY <1>1 DEF OpToRel
  <1>3. x # 0 /\ x \in Nat
    BY <1>2
  <1>4. x - 1 \in Nat /\ x - 1 < x /\ (x - 1) + 1 = x
    BY <1>3
  <1>5. x - 1 \in G
    BY <1>2, <1>4
  <1> QED BY <1>2, <1>4, <1>5

\* Implementing one interface after the other is a computation that ends.
LEMMA Implementations ==
  ASSUME NEW cs, NEW c, NEW is, NEW n \in Nat
  PROVE  \E f : f = [k \in 0..n |-> IF k = 0 THEN c ELSE Implement(f[k - 1], cs[is[k]])]
  <1> DEFINE Next1(x, k) == Implement(x, cs[is[k]])
             Found(m) == \E f : f = [k \in 0..m |-> IF k = 0 THEN c ELSE Next1(f[k - 1], k)]
             G == {m \in Nat : Found(m)}
  <1> HIDE DEF Next1
  <1>1. 0 \in G
    <2> DEFINE f == [k \in 0..0 |-> c]
    <2>1. f = [k \in 0..0 |-> IF k = 0 THEN c ELSE Next1(f[k - 1], k)]
      OBVIOUS
    <2> QED BY <2>1
  <1>2. ASSUME NEW m \in Nat, m \in G
        PROVE  m + 1 \in G
    <2>1. PICK f : f = [k \in 0..m |-> IF k = 0 THEN c ELSE Next1(f[k - 1], k)]
      BY <1>2
    <2> DEFINE g == [k \in 0..(m + 1) |-> IF k <= m THEN f[k] ELSE Next1(f[m], k)]
               h == [k \in 0..(m + 1) |-> IF k = 0 THEN c ELSE Next1(g[k - 1], k)]
    <2>2. ASSUME NEW k \in 0..(m + 1)
          PROVE  g[k] = h[k]
      <3>1. CASE k = 0
        <4>1. f[0] = c
          BY <2>1
        <4> QED BY <3>1, <4>1
      <3>2. CASE k # 0 /\ k <= m
        <4>1. k \in 0..m /\ k - 1 \in 0..(m + 1) /\ k - 1 <= m
          BY <3>2
        <4>2. f[k] = Next1(f[k - 1], k)
          BY <2>1, <3>2, <4>1
        <4> QED BY <3>2, <4>1, <4>2
      <3>3. CASE k = m + 1
        <4>1. k - 1 = m /\ m \in 0..(m + 1) /\ k # 0 /\ ~(k <= m)
          BY <3>3
        <4> QED BY <4>1
      <3> QED BY <3>1, <3>2, <3>3
    <2>3. g = h
      BY <2>2
    <2>4. Found(m + 1)
      BY <2>3
    <2> QED BY <2>4
  <1>3. Nat \subseteq G
    <2> HIDE DEF G
    <2> QED BY <1>1, <1>2, NumbersIn
  <1> QED BY <1>3 DEF Next1

LEMMA AddBaseIs ==
  ASSUME NEW f, NEW g
  PROVE  /\ DOMAIN AddBase(f, g) = DOMAIN f \cup (DOMAIN g \ {Constructor})
         /\ \A m \in DOMAIN g \ {Constructor} : AddBase(f, g)[m] = g[m]
         /\ \A m \in DOMAIN f : m \notin DOMAIN g \ {Constructor} => AddBase(f, g)[m] = f[m]
  BY DEF AddBase, Overlay, Without

LEMMA ImplementIs ==
  ASSUME NEW c, Record(c), NEW i
  PROVE  LET e == Implement(c, i) IN
         /\ Record(e)
         /\ e.name = c.name /\ e.super = c.super /\ e.fields = c.fields
         /\ e.interfaces = Append(c.interfaces, i.name)
         /\ e.methods = AddBase(c.methods, i.methods)
  <1> DEFINE e == Implement(c, i)
             is == Append(c.interfaces, i.name)
             ms == AddBase(c.methods, i.methods)
  <1>1. e = [c EXCEPT !.interfaces = is, !.methods = ms]
    BY DEF Implement
  <1> DEFINE n == c.name  u == c.super  f == c.fields
             is0 == c.interfaces  ms0 == c.methods
  <1>2. c = [name |-> n, super |-> u, interfaces |-> is0, fields |-> f, methods |-> ms0]
    BY DEF Record
  <1> HIDE DEF is, ms, e, n, u, f, is0, ms0
  <1>3. e = [name |-> n, super |-> u, interfaces |-> is, fields |-> f, methods |-> ms]
    BY <1>1, <1>2
  <1>4. e.name = n /\ e.super = u /\ e.interfaces = is /\ e.fields = f /\ e.methods = ms
    BY <1>3
  <1>5. Record(e)
    BY <1>3, <1>4 DEF Record
  <1> QED BY <1>4, <1>5 DEF e, n, u, f, is, ms

\* The interfaces up to the k-th that have m, and what becomes of the methods f
\* when all up to the k-th are implemented.
Having(is, k, m) == {j \in 1..k : m \in DOMAIN classes[is[j]].methods \ {Constructor}}
Layered(f, g, is, k) ==
  /\ \A m : m \in DOMAIN g <=> (m \in DOMAIN f \/ Having(is, k, m) # {})
  /\ \A m \in DOMAIN f : Having(is, k, m) = {} => g[m] = f[m]
  /\ \A m : \A j \in Having(is, k, m) :
       (\A i \in Having(is, k, m) : i <= j) => g[m] = classes[is[j]].methods[m]

LEMMA LayerMore ==
  ASSUME NEW f, NEW g, NEW is, NEW k \in Nat, Layered(f, g, is, k)
  PROVE  Layered(f, AddBase(g, classes[is[k + 1]].methods), is, k + 1)
  <1> DEFINE i == classes[is[k + 1]].methods
             h == AddBase(g, i)
  <1>1. /\ DOMAIN h = DOMAIN g \cup (DOMAIN i \ {Constructor})
        /\ \A m \in DOMAIN i \ {Constructor} : h[m] = i[m]
        /\ \A m \in DOMAIN g : m \notin DOMAIN i \ {Constructor} => h[m] = g[m]
    <2> HIDE DEF i
    <2> QED BY AddBaseIs
  <1> HIDE DEF h
  <1>2. \A j \in 1..(k + 1) : j = k + 1 \/ j \in 1..k
    OBVIOUS
  <1>3. k + 1 \in 1..(k + 1) /\ k + 1 \notin 1..k /\ 1..k \subseteq 1..(k + 1)
    OBVIOUS
  <1>4. \A m : Having(is, k + 1, m) =
               Having(is, k, m) \cup {j \in {k + 1} : m \in DOMAIN i \ {Constructor}}
    BY <1>2, <1>3 DEF Having
  <1> HIDE DEF i
  <1>5. \A m : m \in DOMAIN h <=> (m \in DOMAIN f \/ Having(is, k + 1, m) # {})
    <2> TAKE m
    <2>1. m \in DOMAIN h <=> m \in DOMAIN g \/ m \in DOMAIN i \ {Constructor}
      BY <1>1
    <2>2. Having(is, k + 1, m) # {} <=> Having(is, k, m) # {} \/ m \in DOMAIN i \ {Constructor}
      BY <1>4
    <2> QED BY <2>1, <2>2 DEF Layered
  <1>6. ASSUME NEW m \in DOMAIN f, Having(is, k + 1, m) = {}
        PROVE  h[m] = f[m]
    <2>1. Having(is, k, m) = {} /\ m \notin DOMAIN i \ {Constructor}
      BY <1>4, <1>6
    <2>2. m \in DOMAIN g /\ g[m] = f[m]
      BY <2>1 DEF Layered
    <2> QED BY <1>1, <2>1, <2>2
  <1>7. ASSUME NEW m, NEW j \in Having(is, k + 1, m), \A x \in Having(is, k + 1, m) : x <= j
        PROVE  h[m] = classes[is[j]].methods[m]
    <2>1. CASE m \in DOMAIN i \ {Constructor}
      <3>1. k + 1 \in Having(is, k + 1, m)
        BY <1>4, <2>1
      <3>2. j \in 1..(k + 1) /\ k + 1 <= j
        BY <1>7, <3>1 DEF Having
      <3>3. j = k + 1
        BY <3>2
      <3> QED BY <1>1, <2>1, <3>3 DEF i
    <2>2. CASE m \notin DOMAIN i \ {Constructor}
      <3>1. Having(is, k + 1, m) = Having(is, k, m)
        BY <1>4, <2>2
      <3>2. g[m] = classes[is[j]].methods[m]
        BY <1>7, <3>1 DEF Layered
      <3>3. m \in DOMAIN g
        BY <1>7, <3>1 DEF Layered
      <3> QED BY <1>1, <2>2, <3>2, <3>3
    <2> QED BY <2>1, <2>2
  <1> QED BY <1>5, <1>6, <1>7 DEF Layered, h, i

\* After all interfaces, the class names each, and has the methods of the last
\* one that has them.
LEMMA ImplementAllIs ==
  ASSUME NEW c, Record(c), c.interfaces = <<>>, NEW is, is \in Seq(STRING),
         \A i \in Range(is) : classes[i].name = i
  PROVE  LET e == ImplementAll(c, is) IN
         /\ Record(e)
         /\ e.name = c.name /\ e.super = c.super /\ e.fields = c.fields
         /\ e.interfaces = is
         /\ Layered(c.methods, e.methods, is, Len(is))
  <1> DEFINE n == Len(is)
             F == CHOOSE f : f = [k \in 0..n |-> IF k = 0 THEN c ELSE Implement(f[k - 1], classes[is[k]])]
  <1>1. n \in Nat /\ DOMAIN is = 1..n
    OBVIOUS
  <1>2. \A k \in 1..n : is[k] \in STRING /\ classes[is[k]].name = is[k]
    BY <1>1 DEF Range
  <1>3. ImplementAll(c, is) = F[n]
    BY DEF ImplementAll
  <1>4. F = [k \in 0..n |-> IF k = 0 THEN c ELSE Implement(F[k - 1], classes[is[k]])]
    BY <1>1, Implementations
  <1> HIDE DEF F
  <1>5. F[0] = c /\ \A k \in 1..n : F[k] = Implement(F[k - 1], classes[is[k]])
    <2>1. F[0] = c
      BY <1>1, <1>4
    <2>2. ASSUME NEW k \in 1..n PROVE F[k] = Implement(F[k - 1], classes[is[k]])
      BY <1>1, <1>4
    <2> QED BY <2>1, <2>2
  <1> DEFINE Fits(e, k) ==
               /\ Record(e)
               /\ e.name = c.name /\ e.super = c.super /\ e.fields = c.fields
               /\ e.interfaces \in Seq(STRING) /\ Len(e.interfaces) = k
               /\ \A j \in 1..k : e.interfaces[j] = is[j]
               /\ Layered(c.methods, e.methods, is, k)
             G == {k \in Nat : k <= n => Fits(F[k], k)}
  <1> HIDE DEF n
  <1>6. 0 \in G
    <2>1. c.interfaces \in Seq(STRING) /\ Len(c.interfaces) = 0
      BY EmptySeq
    <2>2. \A m : Having(is, 0, m) = {}
      BY DEF Having
    <2>3. Layered(c.methods, c.methods, is, 0)
      BY <2>2 DEF Layered
    <2>4. Fits(c, 0)
      BY <2>1, <2>3
    <2> QED BY <1>5, <2>4
  <1>7. ASSUME NEW k \in Nat, k \in G
        PROVE  k + 1 \in G
    <2> SUFFICES ASSUME k + 1 <= n PROVE Fits(F[k + 1], k + 1)
      OBVIOUS
    <2>1. k <= n /\ k + 1 \in 1..n /\ (k + 1) - 1 = k
      BY <1>1
    <2>2. Fits(F[k], k)
      BY <1>7, <2>1
    <2>3. F[k + 1] = Implement(F[k], classes[is[k + 1]])
      BY <1>5, <2>1
    <2> DEFINE e == F[k]  d == F[k + 1]
    <2>4. /\ Record(d)
          /\ d.name = e.name /\ d.super = e.super /\ d.fields = e.fields
          /\ d.interfaces = Append(e.interfaces, is[k + 1])
          /\ d.methods = AddBase(e.methods, classes[is[k + 1]].methods)
      <3> DEFINE i == classes[is[k + 1]]
      <3>1. Record(e) /\ d = Implement(e, i) /\ i.name = is[k + 1]
        BY <1>2, <2>1, <2>2, <2>3
      <3> HIDE DEF e, d
      <3> QED BY <3>1, ImplementIs
    <2>5. Layered(c.methods, d.methods, is, k + 1)
      BY <2>2, <2>4, LayerMore
    <2>6. /\ d.interfaces \in Seq(STRING) /\ Len(d.interfaces) = k + 1
          /\ \A j \in 1..(k + 1) : d.interfaces[j] = is[j]
      <3> DEFINE q == e.interfaces  x == is[k + 1]
      <3>1. q \in Seq(STRING) /\ Len(q) = k /\ x \in STRING /\ \A j \in 1..k : q[j] = is[j]
        BY <1>2, <2>1, <2>2
      <3>2. d.interfaces = Append(q, x)
        BY <2>4
      <3> HIDE DEF q, x
      <3>3. /\ Append(q, x) \in Seq(STRING) /\ Len(Append(q, x)) = k + 1
            /\ Append(q, x)[k + 1] = x /\ \A j \in 1..k : Append(q, x)[j] = q[j]
        BY <3>1, AppendProperties
      <3>4. \A j \in 1..(k + 1) : j = k + 1 \/ j \in 1..k
        OBVIOUS
      <3> QED BY <3>1, <3>2, <3>3, <3>4 DEF x
    <2> QED BY <2>2, <2>4, <2>5, <2>6
  <1>8. Nat \subseteq G
    <2> HIDE DEF G
    <2> QED BY <1>6, <1>7, NumbersIn
  <1>9. Fits(F[n], n)
    BY <1>1, <1>8
  <1>10. F[n].interfaces = is
    <2> DEFINE q == F[n].interfaces
    <2>1. q \in Seq(STRING) /\ Len(q) = n /\ \A j \in 1..n : q[j] = is[j]
      BY <1>9
    <2> HIDE DEF q
    <2>2. q = is
      BY <1>1, <2>1, SeqEqual DEF n
    <2> QED BY <2>2 DEF q
  <1> QED BY <1>3, <1>9, <1>10 DEF n

\* What a class is before it has interfaces.
LEMMA InheritIs ==
  ASSUME NEW c, Record(c), NEW n, Proto(classes[n].name) = Proto(n)
  PROVE  LET e == Inherit(c, classes[n])
             b == classes[n].methods
         IN
         /\ Record(e)
         /\ e.name = c.name /\ e.super = classes[n].name /\ e.interfaces = c.interfaces
         /\ e.fields = Overlay(c.fields, table[Proto(n)].fields)
         /\ DOMAIN e.methods = DOMAIN c.methods \cup {Super} \cup (DOMAIN b \ {Constructor})
         /\ \A m \in DOMAIN b \ {Constructor} : e.methods[m] = b[m]
         /\ \A m \in DOMAIN c.methods :
              m \notin (DOMAIN b \ {Constructor}) \cup {Super} => e.methods[m] = c.methods[m]
  <1> DEFINE b == classes[n]
             e == Inherit(c, b)
             fs == Overlay(c.fields, table[Proto(n)].fields)
             os == Overlay(c.methods, [m \in {Super} |-> b.methods[Constructor]])
             ms == AddBase(os, b.methods)
  <1>1. DOMAIN os = DOMAIN c.methods \cup {Super}
        /\ \A m \in DOMAIN c.methods : m # Super => os[m] = c.methods[m]
    BY DEF Overlay
  <1>2. e = [c EXCEPT !.super = b.name, !.fields = fs, !.methods = ms]
    BY DEF Inherit
  <1> DEFINE nm == c.name  is == c.interfaces  su == c.super  f0 == c.fields  m0 == c.methods  bn == b.name
  <1>3. c = [name |-> nm, super |-> su, interfaces |-> is, fields |-> f0, methods |-> m0]
    BY DEF Record
  <1> HIDE DEF e, fs, ms, os, nm, is, su, f0, m0, bn
  <1>4. e = [name |-> nm, super |-> bn, interfaces |-> is, fields |-> fs, methods |-> ms]
    BY <1>2, <1>3 DEF bn
  <1>5. e.name = nm /\ e.super = bn /\ e.interfaces = is /\ e.fields = fs /\ e.methods = ms
    BY <1>4
  <1>6. Record(e)
    BY <1>4, <1>5 DEF Record
  <1>7. /\ DOMAIN ms = DOMAIN os \cup (DOMAIN b.methods \ {Constructor})
        /\ \A m \in DOMAIN b.methods \ {Constructor} : ms[m] = b.methods[m]
        /\ \A m \in DOMAIN os : m \notin DOMAIN b.methods \ {Constructor} => ms[m] = os[m]
    <2> HIDE DEF b
    <2> QED BY AddBaseIs DEF ms
  <1> QED BY <1>1, <1>5, <1>6, <1>7 DEF e, fs, nm, is, bn

LEMMA NewIs ==
  ASSUME NEW d
  PROVE  /\ Record(New(d)) /\ New(d).name = d.name /\ New(d).super = d.name
         /\ New(d).interfaces = <<>> /\ New(d).fields = NoFields
         /\ New(d).methods = DefaultMethods(d.name)
  BY DEF New, Record

LEMMA Registry ==
  ASSUME ClassesInv, NEW n \in DOMAIN classes
  PROVE  /\ classes[n].name = n /\ Constructor \in DOMAIN classes[n].methods
         /\ Refs(table[Proto(n)].fields) \subseteq Objects(table)
  BY DEF ClassesInv, Good, ClassesOK, TablesOK

LEMMA DerivedIs ==
  ASSUME ClassesInv, NEW d \in Declarations, Accepted(d)
  PROVE  LET e == Derived(d)
             f == DefaultMethods(d.name)
             b == classes[d.base].methods
         IN
         /\ Record(e) /\ e.name = d.name /\ e.interfaces = <<>>
         /\ Refs(e.fields) \subseteq Objects(table)
         /\ d.base = NoClass => e.super = d.name /\ e.methods = f
         /\ d.base # NoClass =>
              /\ d.base \in DOMAIN classes /\ e.super = d.base
              /\ Fields(table, d.base) \subseteq DOMAIN e.fields
              /\ DOMAIN e.methods = DOMAIN f \cup {Super} \cup (DOMAIN b \ {Constructor})
              /\ \A m \in DOMAIN b \ {Constructor} : e.methods[m] = b[m]
              /\ \A m \in DOMAIN f : m \notin (DOMAIN b \ {Constructor}) \cup {Super} => e.methods[m] = f[m]
  <1> DEFINE e == Derived(d)
             new == New(d)
  <1>1. /\ Record(new) /\ new.name = d.name /\ new.super = d.name
        /\ new.interfaces = <<>> /\ new.fields = NoFields
        /\ new.methods = DefaultMethods(d.name)
    BY NewIs
  <1> HIDE DEF new
  <1>2. CASE d.base = NoClass
    <2>1. e = new
      BY <1>2 DEF Derived, new
    <2> HIDE DEF e
    <2> QED BY <1>1, <1>2, <2>1, NoRefs DEF e
  <1>3. CASE d.base # NoClass
    <2>1. d.base \in DOMAIN classes /\ classes[d.base].name = d.base
      BY <1>3, Registry DEF Accepted
    <2>2. e = Inherit(new, classes[d.base])
      BY <1>3 DEF Derived, new
    <2> HIDE DEF e
    <2> DEFINE b == classes[d.base].methods
    <2>3. /\ Record(e)
          /\ e.name = new.name /\ e.super = d.base /\ e.interfaces = new.interfaces
          /\ e.fields = Overlay(new.fields, table[Proto(d.base)].fields)
          /\ DOMAIN e.methods = DOMAIN new.methods \cup {Super} \cup (DOMAIN b \ {Constructor})
          /\ \A m \in DOMAIN b \ {Constructor} : e.methods[m] = b[m]
          /\ \A m \in DOMAIN new.methods :
               m \notin (DOMAIN b \ {Constructor}) \cup {Super} => e.methods[m] = new.methods[m]
      BY <1>1, <2>1, <2>2, InheritIs
    <2>4. Fields(table, d.base) \subseteq DOMAIN e.fields
      BY <2>3 DEF Fields, Overlay
    <2>5. Refs(e.fields) \subseteq Refs(new.fields) \cup Refs(table[Proto(d.base)].fields)
      BY <2>3, OverlayIs
    <2>6. Refs(e.fields) \subseteq Objects(table)
      BY <1>1, <2>1, <2>5, Registry, NoRefs
    <2> QED BY <1>1, <1>3, <2>1, <2>3, <2>4, <2>6 DEF e
  <1> QED BY <1>2, <1>3

LEMMA BuildIs ==
  ASSUME ClassesInv, NEW d \in Declarations, Accepted(d)
  PROVE  LET c == Build(d)
             e == Derived(d)
         IN
         /\ c.name = d.name /\ c.super = e.super /\ c.fields = e.fields /\ c.interfaces = d.interfaces
         /\ \E g : /\ Layered(e.methods, g, d.interfaces, Len(d.interfaces))
                   /\ c.methods = Overlay(g, [m \in DOMAIN d.methods |-> Registered(d, m)])
  <1> DEFINE e == ImplementAll(Derived(d), d.interfaces)
             ms == Overlay(e.methods, [m \in DOMAIN d.methods |-> Registered(d, m)])
             c == Build(d)
  <1>1. c = [e EXCEPT !.methods = ms]
    BY DEF Build, Body
  <1>2. d.interfaces \in Seq(STRING) /\ \A i \in Range(d.interfaces) : classes[i].name = i
    BY DeclarationsAssumption, Registry DEF Accepted
  <1>3. Record(Derived(d)) /\ Derived(d).name = d.name /\ Derived(d).interfaces = <<>>
    BY DerivedIs
  <1>4. /\ Record(e)
        /\ e.name = Derived(d).name /\ e.super = Derived(d).super /\ e.fields = Derived(d).fields
        /\ e.interfaces = d.interfaces
        /\ Layered(Derived(d).methods, e.methods, d.interfaces, Len(d.interfaces))
    BY <1>2, <1>3, ImplementAllIs
  <1> HIDE DEF e, c
  <1> DEFINE nm == e.name  is == e.interfaces  su == e.super  f0 == e.fields  m0 == e.methods
  <1>5. e = [name |-> nm, super |-> su, interfaces |-> is, fields |-> f0, methods |-> m0]
    BY <1>4 DEF Record
  <1> HIDE DEF nm, is, su, f0, m0, ms
  <1>6. c = [name |-> nm, super |-> su, interfaces |-> is, fields |-> f0, methods |-> ms]
    BY <1>1, <1>5
  <1>7. c.name = nm /\ c.super = su /\ c.fields = f0 /\ c.interfaces = is /\ c.methods = ms
    BY <1>6
  <1>8. c.methods = Overlay(e.methods, [m \in DOMAIN d.methods |-> Registered(d, m)])
    BY <1>7 DEF ms
  <1> QED BY <1>3, <1>4, <1>7, <1>8 DEF nm, is, su, f0, c

\* What a declaration builds has what it is below.
Fresher(c, n) ==
  /\ c.name = n
  /\ Constructor \in DOMAIN c.methods
  /\ c.super = n \/ c.super \in DOMAIN classes
  /\ Range(c.interfaces) \subseteq DOMAIN classes
  /\ \A t \in DOMAIN classes :
       (t = c.super /\ t # n) \/ t \in Range(c.interfaces)
         => /\ DOMAIN classes[t].methods \subseteq DOMAIN c.methods
            /\ Fields(table, t) \subseteq DOMAIN c.fields
  /\ Refs(c.fields) \subseteq Objects(table)

LEMMA BuildOK ==
  ASSUME ClassesInv, NEW d \in Declarations, Accepted(d)
  PROVE  Fresher(Build(d), d.name)
  <1> DEFINE c == Build(d)
             e == Derived(d)
             is == d.interfaces
             b == classes[d.base].methods
  <1>1. /\ Record(e) /\ e.name = d.name /\ e.interfaces = <<>>
        /\ Refs(e.fields) \subseteq Objects(table)
        /\ d.base = NoClass => e.super = d.name /\ e.methods = DefaultMethods(d.name)
        /\ d.base # NoClass =>
             /\ d.base \in DOMAIN classes /\ e.super = d.base
             /\ Fields(table, d.base) \subseteq DOMAIN e.fields
             /\ DOMAIN e.methods = DOMAIN DefaultMethods(d.name) \cup {Super} \cup (DOMAIN b \ {Constructor})
    BY DerivedIs
  <1>2. /\ c.name = d.name /\ c.super = e.super /\ c.fields = e.fields /\ c.interfaces = is
        /\ \E g : /\ Layered(e.methods, g, is, Len(is))
                  /\ c.methods = Overlay(g, [m \in DOMAIN d.methods |-> Registered(d, m)])
    BY BuildIs
  <1> HIDE DEF c, e
  <1>3. PICK g : /\ Layered(e.methods, g, is, Len(is))
                 /\ c.methods = Overlay(g, [m \in DOMAIN d.methods |-> Registered(d, m)])
    BY <1>2
  <1>4. DOMAIN g \subseteq DOMAIN c.methods
    BY <1>3 DEF Overlay
  <1>5. Constructor \in DOMAIN DefaultMethods(d.name)
    BY DEF DefaultMethods, Natives
  <1>6. DOMAIN e.methods \subseteq DOMAIN g
    BY <1>3 DEF Layered
  <1>7. Constructor \in DOMAIN c.methods
    BY <1>1, <1>4, <1>5, <1>6
  <1>8. \A i \in Range(is) : i \in DOMAIN classes /\ table[Proto(i)].fields = NoFields
    BY Registry DEF Accepted, IsInterface
  <1>9. ASSUME NEW t \in DOMAIN classes, (t = c.super /\ t # d.name) \/ t \in Range(c.interfaces)
        PROVE  /\ DOMAIN classes[t].methods \subseteq DOMAIN c.methods
               /\ Fields(table, t) \subseteq DOMAIN c.fields
    <2>1. CASE t \in Range(is)
      <3>1. Fields(table, t) = {}
        BY <1>8, <2>1, NoRefs DEF Fields
      <3>2. PICK j \in 1..Len(is) : is[j] = t
        BY <2>1, DeclarationsAssumption DEF Range
      <3>3. \A m \in DOMAIN classes[t].methods \ {Constructor} : Having(is, Len(is), m) # {}
        BY <3>2 DEF Having
      <3>4. DOMAIN classes[t].methods \ {Constructor} \subseteq DOMAIN g
        BY <1>3, <3>3 DEF Layered
      <3> QED BY <1>4, <1>7, <3>1, <3>4
    <2>2. CASE t = c.super /\ t # d.name
      BY <1>1, <1>2, <1>4, <1>6, <1>7, <2>2
    <2> QED BY <1>2, <1>9, <2>1, <2>2
  <1>10. c.super = d.name \/ c.super \in DOMAIN classes
    BY <1>1, <1>2
  <1> HIDE DEF is
  <1> QED BY <1>1, <1>2, <1>7, <1>8, <1>9, <1>10 DEF Fresher, c

\* What registration adds besides what is there.
LEMMA RegisteredOK ==
  ASSUME NEW ts, Good(classes, ts, var), NEW n, n \notin DOMAIN classes, n \notin {Root, NoClass},
         NEW c, Fresher(c, n), NEW fs,
         DOMAIN c.fields \subseteq DOMAIN fs, Refs(fs) \subseteq Objects(ts),
         \A m \in DOMAIN classes : Fields(ts, m) = Fields(table, m)
  PROVE  Good(With(classes, n, [name |-> n, super |-> c.super, interfaces |-> c.interfaces,
                                methods |-> c.methods]),
              With(ts, Proto(n), Table(NoClass, fs)), var)
  <1> DEFINE new == [name |-> n, super |-> c.super, interfaces |-> c.interfaces, methods |-> c.methods]
             cs == With(classes, n, new)
             us == With(ts, Proto(n), Table(NoClass, fs))
  <1>1. /\ DOMAIN cs = DOMAIN classes \cup {n} /\ cs[n] = new
        /\ \A m \in DOMAIN classes : cs[m] = classes[m]
    BY DEF With
  <1>2. /\ DOMAIN us = DOMAIN ts \cup {Proto(n)} /\ us[Proto(n)] = Table(NoClass, fs)
        /\ \A j \in DOMAIN ts : j # Proto(n) => us[j] = ts[j]
    BY DEF With
  <1>3. Proto(n) \notin DOMAIN ts
    BY Numbered DEF Good, TablesOK
  <1>4. \A j \in DOMAIN ts : us[j] = ts[j]
    BY <1>2, <1>3
  <1>5. us[Proto(n)].class = NoClass /\ us[Proto(n)].fields = fs
    BY <1>2 DEF Table
  <1>6. new.name = n /\ new.super = c.super /\ new.interfaces = c.interfaces /\ new.methods = c.methods
    OBVIOUS
  <1> HIDE DEF new, cs, us
  <1>7. Objects(ts) \subseteq Objects(us)
    BY <1>2 DEF Objects
  <1>8. TablesOK(cs, us)
    <2>1. DOMAIN us \subseteq ObjectTables \cup {Proto(m) : m \in DOMAIN cs}
      BY <1>1, <1>2 DEF Good, TablesOK
    <2>2. \A m \in DOMAIN cs : Proto(m) \in DOMAIN us /\ us[Proto(m)].class = NoClass
      BY <1>1, <1>2, <1>4, <1>5 DEF Good, TablesOK
    <2>3. \A j \in DOMAIN ts : /\ us[j] = Table(us[j].class, us[j].fields)
                               /\ us[j].class \in DOMAIN cs \cup {Root, NoClass}
                               /\ Refs(us[j].fields) \subseteq Objects(us)
      BY <1>1, <1>4, <1>7 DEF Good, TablesOK
    <2>4. /\ us[Proto(n)] = Table(us[Proto(n)].class, us[Proto(n)].fields)
          /\ us[Proto(n)].class \in DOMAIN cs \cup {Root, NoClass}
          /\ Refs(us[Proto(n)].fields) \subseteq Objects(us)
      BY <1>2, <1>5, <1>7
    <2> QED BY <1>2, <2>1, <2>2, <2>3, <2>4 DEF TablesOK
  <1>9. \A m \in DOMAIN classes : Fields(us, m) = Fields(ts, m)
    BY <1>4 DEF Fields, Good, TablesOK
  <1>10. Fields(us, n) = DOMAIN fs
    BY <1>5 DEF Fields
  <1>11. ClassesOK(cs, us)
    <2> SUFFICES ASSUME NEW m \in DOMAIN cs
                 PROVE  /\ m \notin {Root, NoClass}
                        /\ cs[m].name = m
                        /\ Constructor \in DOMAIN cs[m].methods
                        /\ cs[m].super \in DOMAIN cs /\ Range(cs[m].interfaces) \subseteq DOMAIN cs
                        /\ \A t \in DOMAIN cs :
                             Below(cs, m, t) => /\ DOMAIN cs[t].methods \subseteq DOMAIN cs[m].methods
                                                /\ Fields(us, t) \subseteq Fields(us, m)
      BY DEF ClassesOK
    <2>1. CASE m \in DOMAIN classes
      <3>1. /\ cs[m] = classes[m] /\ m \notin {Root, NoClass} /\ classes[m].name = m
            /\ Constructor \in DOMAIN classes[m].methods
            /\ classes[m].super \in DOMAIN classes /\ Range(classes[m].interfaces) \subseteq DOMAIN classes
        BY <1>1, <2>1 DEF Good, ClassesOK
      <3>2. ASSUME NEW t \in DOMAIN cs, Below(cs, m, t)
            PROVE  /\ DOMAIN cs[t].methods \subseteq DOMAIN cs[m].methods
                   /\ Fields(us, t) \subseteq Fields(us, m)
        <4>1. t \in DOMAIN classes /\ cs[t] = classes[t] /\ Below(classes, m, t)
          BY <1>1, <2>1, <3>1, <3>2 DEF Below
        <4>2. /\ DOMAIN classes[t].methods \subseteq DOMAIN classes[m].methods
              /\ Fields(ts, t) \subseteq Fields(ts, m)
          BY <2>1, <4>1 DEF Good, ClassesOK
        <4> QED BY <1>9, <2>1, <3>1, <4>1, <4>2
      <3> QED BY <1>1, <3>1, <3>2
    <2>2. CASE m = n
      <3>1. ASSUME NEW t \in DOMAIN cs, Below(cs, n, t)
            PROVE  /\ DOMAIN cs[t].methods \subseteq DOMAIN cs[n].methods
                   /\ Fields(us, t) \subseteq Fields(us, n)
        <4>1. CASE t = n
          BY <4>1
        <4>2. CASE t # n
          <5>1. t \in DOMAIN classes /\ cs[t] = classes[t]
            BY <1>1, <4>2
          <5>2. t = c.super \/ t \in Range(c.interfaces)
            BY <1>1, <1>6, <3>1, <4>2 DEF Below
          <5>3. /\ DOMAIN classes[t].methods \subseteq DOMAIN c.methods
                /\ Fields(table, t) \subseteq DOMAIN c.fields
            BY <4>2, <5>1, <5>2 DEF Fresher
          <5> QED BY <1>1, <1>6, <1>9, <1>10, <5>1, <5>3
        <4> QED BY <4>1, <4>2
      <3> QED BY <1>1, <1>6, <2>2, <3>1 DEF Fresher
    <2> QED BY <1>1, <2>1, <2>2
  <1>12. ObjectsOK(cs, us)
    <2>1. NoClass \notin DOMAIN cs
      BY <1>1 DEF Good, ClassesOK
    <2>2. ASSUME NEW j \in DOMAIN ts, us[j].class \in DOMAIN cs, us[j].fields # NoFields
          PROVE  Fields(us, us[j].class) \subseteq DOMAIN us[j].fields
      <3>1. ts[j].class \in DOMAIN classes
        BY <1>1, <1>4, <2>2 DEF Good, TablesOK
      <3> QED BY <1>4, <1>9, <2>2, <3>1 DEF Good, ObjectsOK
    <2> QED BY <1>2, <1>5, <2>1, <2>2 DEF ObjectsOK
  <1>13. VarsOK(us, var)
    BY <1>7 DEF Good, VarsOK
  <1> QED BY <1>8, <1>11, <1>12, <1>13 DEF Good, new, cs, us

LEMMA FieldValueOK ==
  ASSUME ClassesInv, NEW d \in Declarations, NEW f \in FieldValue(d, table)
  PROVE  /\ Good(classes, f[2], var)
         /\ Refs(f[1]) \subseteq Objects(f[2])
         /\ \A j \in DOMAIN table : j \in DOMAIN f[2] /\ f[2][j] = table[j]
  <1>1. CASE d.field = "none"
    <2>1. f[1] = NoFields /\ f[2] = table
      BY <1>1 DEF FieldValue
    <2> QED BY <2>1, NoRefs DEF ClassesInv
  <1>2. CASE d.field = "value"
    <2>1. f[1] = [n \in {d.name} |-> Val("init")] /\ f[2] = table
      BY <1>2 DEF FieldValue
    <2>2. Refs(f[1]) = {}
      BY <2>1, RefIs, PlainValues
    <2> QED BY <2>1, <2>2 DEF ClassesInv
  <1>3. CASE d.field \notin {"none", "value"}
    <2>1. PICK k \in Fresh(table) :
            f = <<[n \in {d.name} |-> Obj(k)], With(table, k, Table(Root, NoFields))>>
      BY <1>3 DEF FieldValue
    <2>2. k \in ObjectTables /\ k \notin DOMAIN table
      BY DEF Fresh
    <2>3. Root \notin DOMAIN classes
      BY DEF ClassesInv, Good, ClassesOK
    <2>4. Good(classes, f[2], var)
      BY <2>1, <2>2, <2>3, AddedOK, NoRefs DEF ClassesInv
    <2>5. DOMAIN f[2] = DOMAIN table \cup {k} /\ \A j \in DOMAIN table : j # k => f[2][j] = table[j]
      BY <2>1 DEF With
    <2>6. Refs(f[1]) \subseteq {k}
      <3>1. f[1] = [n \in {d.name} |-> Obj(k)]
        BY <2>1
      <3> QED BY <3>1, RefIs, ObjectIs
    <2> QED BY <2>2, <2>4, <2>5, <2>6 DEF Objects
  <1> QED BY <1>1, <1>2, <1>3

-----------------------------------------------------------------------------
(* Looking methods up.                                                     *)

\* Where a class finds m, if it brings m itself or at[t] is where t finds it.
OwnBrings(c, n) ==
  {m \in DOMAIN c.methods : c.methods[m].def = n /\ c.methods[m].body # "native"}
    \cup (IF c.super = n /\ c.interfaces = <<>> THEN Natives ELSE {})
Seen(c, at) == {i \in DOMAIN c.interfaces : at[c.interfaces[i]] # {}}
Rule(c, at, n, m) ==
  IF m \in OwnBrings(c, n) THEN {n}
  ELSE IF Seen(c, at) # {} THEN at[c.interfaces[Max(Seen(c, at))]]
  ELSE IF c.super # n THEN at[c.super] ELSE {}

\* What the flat tables say.
Def(c, m) == {c.methods[x].def : x \in {m} \cap DOMAIN c.methods}
Defs(cs, m) == [n \in DOMAIN cs |-> Def(cs[n], m)]

Named(cs, n) ==
  LET c == cs[n] IN
  /\ c.interfaces \in Seq(STRING) /\ Range(c.interfaces) \subseteq DOMAIN cs /\ c.super \in DOMAIN cs
  /\ Natives \subseteq DOMAIN c.methods
  /\ DOMAIN c.methods \ {Super} \subseteq Searched \cup {Constructor}
  /\ \A m \in DOMAIN c.methods \ {Super} : c.methods[m].def \in DOMAIN cs
  /\ c.methods[Constructor].def = n
  /\ \A m \in Searched : Def(c, m) = Rule(c, Defs(cs, m), n, m)

\* The flat tables are what a search computes, and nothing else is.
Resolved(cs) ==
  /\ \A n \in DOMAIN cs : Named(cs, n)
  /\ \A m \in Searched : \A at : at = [n \in DOMAIN cs |-> Rule(cs[n], at, n, m)] => at = Defs(cs, m)

LEMMA MaxIs ==
  ASSUME NEW n \in Nat, NEW S \in SUBSET (1..n), S # {}
  PROVE  Max(S) \in S /\ \A y \in S : y <= Max(S)
  <1> DEFINE U == {u \in Nat : \A y \in S : y <= u}
  <1>1. n \in U
    OBVIOUS
  <1>2. \E x \in U : \A y \in U : ~(<<y, x>> \in OpToRel(<, Nat))
    BY <1>1, NatLessThanWellFounded, WFMin
  <1>3. PICK x \in U : \A y \in U : ~(y < x)
    BY <1>2 DEF OpToRel
  <1>4. x \in Nat /\ \A y \in S : y <= x
    BY <1>3
  <1>5. x \in S
    <2> SUFFICES ASSUME x \notin S PROVE FALSE
      OBVIOUS
    <2>1. \A y \in S : y \in Nat /\ y # x /\ y <= x
      BY <1>4
    <2>2. \A y \in S : y <= x - 1
      BY <1>4, <2>1
    <2>3. x # 0
      <3>1. PICK y \in S : TRUE
        OBVIOUS
      <3>2. y \in 1..n
        BY <3>1
      <3> QED BY <1>4, <3>2, <3>1
    <2>4. x - 1 \in U /\ x - 1 < x
      BY <1>4, <2>2, <2>3
    <2> QED BY <1>3, <2>4
  <1>6. \E z \in S : \A y \in S : z >= y
    BY <1>4, <1>5
  <1>7. Max(S) = CHOOSE z \in S : \A y \in S : z >= y
    BY DEF Max
  <1>8. Max(S) \in S /\ \A y \in S : Max(S) >= y
    BY <1>6, <1>7
  <1> QED BY <1>8

LEMMA SameRule ==
  ASSUME NEW c, NEW n, NEW m, NEW at, NEW bt, c.interfaces \in Seq(STRING),
         \A i \in DOMAIN c.interfaces : at[c.interfaces[i]] = bt[c.interfaces[i]],
         c.super # n => at[c.super] = bt[c.super]
  PROVE  Rule(c, at, n, m) = Rule(c, bt, n, m)
  <1>1. Seen(c, at) = Seen(c, bt)
    BY DEF Seen
  <1>2. DOMAIN c.interfaces = 1..Len(c.interfaces) /\ Len(c.interfaces) \in Nat
    BY LenProperties
  <1>3. Seen(c, at) # {} => Max(Seen(c, at)) \in DOMAIN c.interfaces
    <2>1. Seen(c, at) \in SUBSET (1..Len(c.interfaces))
      BY <1>2 DEF Seen
    <2>2. Seen(c, at) # {} => Max(Seen(c, at)) \in Seen(c, at)
      BY <1>2, <2>1, MaxIs
    <2> QED BY <1>2, <2>1, <2>2
  <1> QED BY <1>1, <1>3 DEF Rule

LEMMA SearchFinds ==
  ASSUME Resolved(classes)
  PROVE  LookupIsLinear
  <1> SUFFICES ASSUME NEW n \in DOMAIN classes
               PROVE  LET methods == classes[n].methods
                      IN  /\ DOMAIN methods \ {Super} \subseteq Searched \cup {Constructor}
                          /\ \A m \in Searched : Search(m)[n] = {methods[x].def : x \in {m} \cap DOMAIN methods}
                          /\ methods[Constructor].def = n
    BY DEF LookupIsLinear
  <1>1. Named(classes, n)
    BY DEF Resolved
  <1>2. ASSUME NEW m \in Searched
        PROVE  Search(m) = Defs(classes, m)
    <2> DEFINE Solves(at) == at = [t \in DOMAIN classes |-> Rule(classes[t], at, t, m)]
    <2>1. Search(m) = CHOOSE at : Solves(at)
      BY DEF Search, Rule, Seen, OwnBrings, Brings
    <2>2. Solves(Defs(classes, m))
      <3>1. \A t \in DOMAIN classes : Def(classes[t], m) = Rule(classes[t], Defs(classes, m), t, m)
        BY DEF Resolved, Named
      <3>2. Defs(classes, m) = [t \in DOMAIN classes |-> Def(classes[t], m)]
        BY DEF Defs
      <3> QED BY <3>1, <3>2
    <2>3. Solves(CHOOSE at : Solves(at))
      <3> HIDE DEF Solves
      <3> QED BY <2>2
    <2>4. \A at : Solves(at) => at = Defs(classes, m)
      BY DEF Resolved
    <2> QED BY <2>1, <2>3, <2>4
  <1>3. \A m \in Searched : Search(m)[n] = Def(classes[n], m)
    BY <1>2 DEF Defs
  <1> QED BY <1>1, <1>3 DEF Named, Def

\* A class whose table agrees with the rule, and that is below older ones only.
LEMMA ResolvedMore ==
  ASSUME NEW cs, Resolved(cs), NEW n, n \notin DOMAIN cs,
         NEW ds, DOMAIN ds = DOMAIN cs \cup {n}, \A t \in DOMAIN cs : ds[t] = cs[t],
         Named(ds, n), Range(ds[n].interfaces) \subseteq DOMAIN cs
  PROVE  Resolved(ds)
  <1>1. \A m : \A t \in DOMAIN cs : Defs(ds, m)[t] = Defs(cs, m)[t]
    BY DEF Defs
  <1>2. \A t \in DOMAIN cs : /\ ds[t].interfaces \in Seq(STRING)
                             /\ \A i \in DOMAIN ds[t].interfaces : ds[t].interfaces[i] \in DOMAIN cs
                             /\ ds[t].super \in DOMAIN cs
    <2> TAKE t \in DOMAIN cs
    <2>1. ds[t] = cs[t] /\ Named(cs, t)
      BY DEF Resolved
    <2> DEFINE is == cs[t].interfaces
    <2>2. is \in Seq(STRING) /\ Range(is) \subseteq DOMAIN cs /\ cs[t].super \in DOMAIN cs
      BY <2>1 DEF Named
    <2>3. \A i \in DOMAIN is : is[i] \in DOMAIN cs
      BY <2>2 DEF Range
    <2> QED BY <2>1, <2>2, <2>3
  <1>3. /\ ds[n].interfaces \in Seq(STRING)
        /\ \A i \in DOMAIN ds[n].interfaces : ds[n].interfaces[i] \in DOMAIN cs
        /\ ds[n].super # n => ds[n].super \in DOMAIN cs
    BY DEF Named, Range
  <1>4. ASSUME NEW t \in DOMAIN cs
        PROVE  Named(ds, t)
    <2>1. ASSUME NEW m \in Searched
          PROVE  Def(ds[t], m) = Rule(ds[t], Defs(ds, m), t, m)
      <3>1. Def(ds[t], m) = Rule(ds[t], Defs(cs, m), t, m)
        BY DEF Resolved, Named
      <3>2. Rule(ds[t], Defs(cs, m), t, m) = Rule(ds[t], Defs(ds, m), t, m)
        <4> DEFINE c == ds[t]  at == Defs(cs, m)  bt == Defs(ds, m)
        <4>1. c.interfaces \in Seq(STRING) /\ c.super \in DOMAIN cs
              /\ \A i \in DOMAIN c.interfaces : c.interfaces[i] \in DOMAIN cs
          BY <1>2
        <4>2. \A u \in DOMAIN cs : at[u] = bt[u]
          BY <1>1
        <4> HIDE DEF c, at, bt
        <4>3. \A i \in DOMAIN c.interfaces : at[c.interfaces[i]] = bt[c.interfaces[i]]
          BY <4>1, <4>2
        <4>4. c.super # t => at[c.super] = bt[c.super]
          BY <4>1, <4>2
        <4>5. Rule(c, at, t, m) = Rule(c, bt, t, m)
          BY <4>1, <4>3, <4>4, SameRule
        <4> QED BY <4>5 DEF c, at, bt
      <3> QED BY <3>1, <3>2
    <2>2. /\ Named(cs, t) /\ ds[t] = cs[t]
      BY DEF Resolved
    <2> QED BY <2>1, <2>2 DEF Named
  <1>5. ASSUME NEW m \in Searched, NEW at, at = [t \in DOMAIN ds |-> Rule(ds[t], at, t, m)]
        PROVE  at = Defs(ds, m)
    <2> DEFINE bt == [t \in DOMAIN cs |-> at[t]]
               ct == [t \in DOMAIN cs |-> Rule(cs[t], bt, t, m)]
    <2>1. \A t \in DOMAIN ds : at[t] = Rule(ds[t], at, t, m)
      BY <1>5
    <2>2. \A t \in DOMAIN cs : bt[t] = at[t]
      OBVIOUS
    <2> HIDE DEF bt
    <2>3. \A t \in DOMAIN cs : bt[t] = Rule(cs[t], bt, t, m)
      <3> TAKE t \in DOMAIN cs
      <3>1. bt[t] = Rule(ds[t], at, t, m)
        BY <2>1, <2>2
      <3>2. Rule(ds[t], at, t, m) = Rule(ds[t], bt, t, m)
        <4> DEFINE c == ds[t]
        <4>1. c.interfaces \in Seq(STRING) /\ c.super \in DOMAIN cs
              /\ \A i \in DOMAIN c.interfaces : c.interfaces[i] \in DOMAIN cs
          BY <1>2
        <4> HIDE DEF c
        <4>2. \A i \in DOMAIN c.interfaces : at[c.interfaces[i]] = bt[c.interfaces[i]]
          BY <2>2, <4>1
        <4>3. c.super # t => at[c.super] = bt[c.super]
          BY <2>2, <4>1
        <4>4. Rule(c, at, t, m) = Rule(c, bt, t, m)
          BY <4>1, <4>2, <4>3, SameRule
        <4> QED BY <4>4 DEF c
      <3> QED BY <3>1, <3>2
    <2>4. bt = ct
      BY <2>3 DEF bt
    <2>5. bt = Defs(cs, m)
      BY <2>4 DEF Resolved
    <2>6. \A t \in DOMAIN cs : at[t] = Defs(ds, m)[t]
      BY <1>1, <2>2, <2>5
    <2>7. at[n] = Rule(ds[n], at, n, m)
      BY <2>1
    <2>8. Rule(ds[n], at, n, m) = Rule(ds[n], Defs(ds, m), n, m)
      <3> DEFINE c == ds[n]  dt == Defs(ds, m)
      <3>1. c.interfaces \in Seq(STRING) /\ (c.super # n => c.super \in DOMAIN cs)
            /\ \A i \in DOMAIN c.interfaces : c.interfaces[i] \in DOMAIN cs
        BY <1>3
      <3>2. \A t \in DOMAIN cs : at[t] = dt[t]
        BY <2>6
      <3> HIDE DEF c, dt
      <3>3. \A i \in DOMAIN c.interfaces : at[c.interfaces[i]] = dt[c.interfaces[i]]
        BY <3>1, <3>2
      <3>4. c.super # n => at[c.super] = dt[c.super]
        BY <3>1, <3>2
      <3>5. Rule(c, at, n, m) = Rule(c, dt, n, m)
        BY <3>1, <3>3, <3>4, SameRule
      <3> QED BY <3>5 DEF c, dt
    <2>9. Rule(ds[n], Defs(ds, m), n, m) = Def(ds[n], m) /\ Defs(ds, m)[n] = Def(ds[n], m)
      BY DEF Named, Defs
    <2>10. \A t \in DOMAIN ds : at[t] = Defs(ds, m)[t]
      BY <2>6, <2>7, <2>8, <2>9
    <2> QED BY <1>5, <2>10 DEF Defs
  <1> QED BY <1>4, <1>5 DEF Resolved

LEMMA DefIs ==
  ASSUME NEW c, NEW m
  PROVE  /\ m \in DOMAIN c.methods => Def(c, m) = {c.methods[m].def}
         /\ m \notin DOMAIN c.methods => Def(c, m) = {}
  BY DEF Def

\* Where a method that is not in the body of the declaration comes from, H
\* being the interfaces that have it.
Origin(d, g, m, H) ==
  LET b == classes[d.base].methods IN
  /\ m = Constructor => H = {}
  /\ H # {} => /\ Max(H) \in H
               /\ m \in DOMAIN g /\ g[m] = classes[d.interfaces[Max(H)]].methods[m]
  /\ H = {} /\ d.base # NoClass /\ m \in DOMAIN b \ {Constructor} => m \in DOMAIN g /\ g[m] = b[m]
  /\ H = {} /\ (d.base = NoClass \/ m \notin DOMAIN b \ {Constructor})
       => /\ m \in DOMAIN g <=> m \in Natives
          /\ m \in Natives => g[m] = Method(d.name, "native", 1)

LEMMA ComesFrom ==
  ASSUME ClassesInv, NEW d \in Declarations, Accepted(d),
         NEW g, Layered(Derived(d).methods, g, d.interfaces, Len(d.interfaces)), NEW m, m # Super
  PROVE  Origin(d, g, m, Having(d.interfaces, Len(d.interfaces), m))
  <1> DEFINE is == d.interfaces
             H == Having(is, Len(is), m)
             b == classes[d.base].methods
             e == Derived(d)
             f == e.methods
             f0 == DefaultMethods(d.name)
  <1>1. /\ d.base = NoClass => f = f0
        /\ d.base # NoClass =>
             /\ DOMAIN f = DOMAIN f0 \cup {Super} \cup (DOMAIN b \ {Constructor})
             /\ \A x \in DOMAIN b \ {Constructor} : f[x] = b[x]
             /\ \A x \in DOMAIN f0 : x \notin (DOMAIN b \ {Constructor}) \cup {Super} => f[x] = f0[x]
    BY DerivedIs
  <1>2. DOMAIN f0 = Natives /\ \A x \in Natives : f0[x] = Method(d.name, "native", 1)
    BY DEF DefaultMethods
  <1>3. Len(is) \in Nat
    BY DeclarationsAssumption
  <1>4. H \in SUBSET (1..Len(is))
    BY DEF Having
  <1>5. H # {} => Max(H) \in H /\ \A i \in H : i <= Max(H)
    <2> HIDE DEF H, is
    <2> QED BY <1>3, <1>4, MaxIs
  <1>6. m = Constructor => H = {}
    BY DEF Having
  <1>7. /\ m \in DOMAIN g <=> m \in DOMAIN f \/ H # {}
        /\ m \in DOMAIN f /\ H = {} => g[m] = f[m]
        /\ \A j \in H : (\A i \in H : i <= j) => g[m] = classes[is[j]].methods[m]
    BY DEF Layered
  <1> HIDE DEF H, is, b, e, f0
  <1>8. H # {} => /\ Max(H) \in H
                  /\ m \in DOMAIN g /\ g[m] = classes[is[Max(H)]].methods[m]
    BY <1>5, <1>7
  <1>9. H = {} /\ d.base # NoClass /\ m \in DOMAIN b \ {Constructor} => m \in DOMAIN g /\ g[m] = b[m]
    BY <1>1, <1>7
  <1>10. H = {} /\ (d.base = NoClass \/ m \notin DOMAIN b \ {Constructor})
           => /\ m \in DOMAIN g <=> m \in Natives
              /\ m \in Natives => g[m] = Method(d.name, "native", 1)
    BY <1>1, <1>2, <1>7
  <1>11. Origin(d, g, m, H)
    BY <1>6, <1>8, <1>9, <1>10 DEF Origin, is, b
  <1> QED BY <1>11 DEF H, is

\* A class just built finds its methods where a search would.
LEMMA NewNamed ==
  ASSUME ClassesInv, Resolved(classes), NEW d \in Declarations, Accepted(d), d.name \notin DOMAIN classes,
         NEW c, c = Build(d), NEW ds, DOMAIN ds = DOMAIN classes \cup {d.name},
         \A t \in DOMAIN classes : ds[t] = classes[t],
         ds[d.name].super = c.super, ds[d.name].interfaces = c.interfaces, ds[d.name].methods = c.methods
  PROVE  Named(ds, d.name) /\ Range(ds[d.name].interfaces) \subseteq DOMAIN classes
  <1> DEFINE n == d.name
             is == d.interfaces
             r == d.methods
             h == c.methods
             b == classes[d.base].methods
             new == ds[n]
  <1>1. /\ new.interfaces = is /\ new.super = Derived(d).super /\ new.methods = h
        /\ \E x : /\ Layered(Derived(d).methods, x, is, Len(is))
                  /\ h = Overlay(x, [m \in DOMAIN r |-> Registered(d, m)])
    BY BuildIs
  <1>2. PICK g : /\ Layered(Derived(d).methods, g, is, Len(is))
                 /\ h = Overlay(g, [m \in DOMAIN r |-> Registered(d, m)])
    BY <1>1
  <1>3. /\ DOMAIN h = DOMAIN g \cup DOMAIN r
        /\ \A m \in DOMAIN r : h[m] = Registered(d, m)
        /\ \A m \in DOMAIN g : m \notin DOMAIN r => h[m] = g[m]
    BY <1>2 DEF Overlay
  <1>4. \A m \in DOMAIN r : h[m].def = n /\ h[m].body # "native"
    <2> TAKE m \in DOMAIN r
    <2>1. r[m] \in Bodies
      BY DeclarationsAssumption
    <2>2. Registered(d, m).def = n /\ Registered(d, m).body = r[m]
      BY DEF Registered, Method
    <2>3. h[m] = Registered(d, m)
      BY <1>3
    <2> HIDE DEF h, r, n
    <2> QED BY <2>1, <2>2, <2>3 DEF Bodies
  <1>5. /\ d.base = NoClass => new.super = n
        /\ d.base # NoClass => d.base \in DOMAIN classes /\ new.super = d.base /\ d.base # n
    BY <1>1, DerivedIs
  <1>6. /\ is \in Seq(STRING) /\ Len(is) \in Nat /\ DOMAIN is = 1..Len(is)
        /\ \A j \in DOMAIN is : is[j] \in DOMAIN classes
        /\ Range(is) \subseteq DOMAIN classes
    BY DeclarationsAssumption DEF Accepted, Range
  <1>7. \A t \in DOMAIN classes :
          /\ Named(classes, t) /\ Constructor \in DOMAIN classes[t].methods
          /\ Natives \subseteq DOMAIN classes[t].methods
          /\ DOMAIN classes[t].methods \ {Super} \subseteq Searched \cup {Constructor}
          /\ \A m \in DOMAIN classes[t].methods \ {Super} : classes[t].methods[m].def \in DOMAIN classes
    BY Registry DEF Resolved, Named
  <1> DEFINE H(m) == Having(is, Len(is), m)
  <1>8. ASSUME NEW m, m # Super
        PROVE  /\ m = Constructor => H(m) = {}
               /\ H(m) # {} => /\ Max(H(m)) \in H(m)
                               /\ m \in DOMAIN g /\ g[m] = classes[is[Max(H(m))]].methods[m]
               /\ H(m) = {} /\ d.base # NoClass /\ m \in DOMAIN b \ {Constructor} => m \in DOMAIN g /\ g[m] = b[m]
               /\ H(m) = {} /\ (d.base = NoClass \/ m \notin DOMAIN b \ {Constructor})
                    => /\ m \in DOMAIN g <=> m \in Natives
                       /\ m \in Natives => g[m] = Method(n, "native", 1)
    <2>1. Layered(Derived(d).methods, g, d.interfaces, Len(d.interfaces))
      BY <1>2
    <2>2. Origin(d, g, m, Having(d.interfaces, Len(d.interfaces), m))
      BY <1>8, <2>1, ComesFrom
    <2>3. Origin(d, g, m, H(m))
      BY <2>2
    <2> HIDE DEF H
    <2> QED BY <2>3 DEF Origin
  <1>9. \A m : H(m) = {j \in DOMAIN is : m \in DOMAIN classes[is[j]].methods \ {Constructor}}
    BY <1>6 DEF Having
  <1>10. \A m : Method(n, "native", 1).def = n /\ Method(n, "native", 1).body = "native"
    BY DEF Method
  <1>11. \A m \in Searched : m # Super /\ m # Constructor
    BY DEF Searched
  <1>12. Constructor \in Natives /\ Constructor # Super /\ Super \notin Natives
    BY DEF Constructor, Natives, Super
  <1> HIDE DEF n, is, r, h, b, new, H
  \* Of a method not in the body, that a native one is the class's own, and
  \* any other belongs to an older class.
  <1>13. ASSUME NEW m \in DOMAIN g, m # Super
         PROVE  \/ m \in Natives /\ g[m] = Method(n, "native", 1)
                \/ m \in Searched \cup {Constructor} /\ g[m].def \in DOMAIN classes
    <2>1. CASE H(m) # {}
      <3>1. Max(H(m)) \in H(m) /\ g[m] = classes[is[Max(H(m))]].methods[m]
        BY <1>8, <1>13, <2>1
      <3>2. Max(H(m)) \in DOMAIN is /\ m \in DOMAIN classes[is[Max(H(m))]].methods
        BY <1>9, <3>1
      <3> QED BY <1>6, <1>7, <1>13, <3>1, <3>2
    <2>2. CASE H(m) = {} /\ d.base # NoClass /\ m \in DOMAIN b \ {Constructor}
      <3>1. g[m] = b[m]
        BY <1>8, <1>13, <2>2
      <3> QED BY <1>5, <1>7, <1>13, <2>2, <3>1 DEF b
    <2>3. CASE H(m) = {} /\ (d.base = NoClass \/ m \notin DOMAIN b \ {Constructor})
      BY <1>8, <1>13, <2>3
    <2> QED BY <2>1, <2>2, <2>3
  <1>14. Natives \subseteq DOMAIN h
    <2> SUFFICES ASSUME NEW m \in Natives PROVE m \in DOMAIN g
      BY <1>3
    <2>1. m # Super
      BY <1>12
    <2> QED BY <1>8, <2>1
  <1>15. DOMAIN h \ {Super} \subseteq Searched \cup {Constructor}
    <2> SUFFICES ASSUME NEW m \in DOMAIN h, m # Super PROVE m \in Searched \cup {Constructor}
      OBVIOUS
    <2>1. CASE m \in DOMAIN r
      BY <2>1 DEF Searched, r
    <2>2. CASE m \notin DOMAIN r
      BY <1>3, <1>13, <2>2 DEF Searched
    <2> QED BY <2>1, <2>2
  <1>16. ASSUME NEW m \in DOMAIN h \ {Super} PROVE h[m].def \in DOMAIN ds
    <2>1. CASE m \in DOMAIN r
      BY <1>4, <2>1 DEF n
    <2>2. CASE m \notin DOMAIN r
      BY <1>3, <1>10, <1>13, <2>2 DEF n
    <2> QED BY <2>1, <2>2
  <1>17. h[Constructor].def = n
    <2>1. CASE Constructor \in DOMAIN r
      BY <1>4, <2>1
    <2>2. CASE Constructor \notin DOMAIN r
      <3>1. Constructor \in DOMAIN g /\ g[Constructor] = Method(n, "native", 1)
        BY <1>8, <1>12
      <3> QED BY <1>3, <1>10, <2>2, <3>1
    <2> QED BY <2>1, <2>2
  <1>18. ASSUME NEW m \in Searched PROVE Def(new, m) = Rule(new, Defs(ds, m), n, m)
    <2> DEFINE at == Defs(ds, m)
    <2>1. \A t \in DOMAIN classes : at[t] = Def(classes[t], m)
      BY DEF Defs
    <2> HIDE DEF at
    <2>2. Seen(new, at) = H(m)
      <3>1. \A j \in DOMAIN is : at[is[j]] # {} <=> m \in DOMAIN classes[is[j]].methods \ {Constructor}
        <4> TAKE j \in DOMAIN is
        <4>1. is[j] \in DOMAIN classes /\ m # Constructor
          BY <1>6, <1>11
        <4>2. at[is[j]] = Def(classes[is[j]], m)
          BY <2>1, <4>1
        <4>3. CASE m \in DOMAIN classes[is[j]].methods
          <5>1. Def(classes[is[j]], m) = {classes[is[j]].methods[m].def}
            BY <4>3, DefIs
          <5> QED BY <4>1, <4>2, <4>3, <5>1
        <4>4. CASE m \notin DOMAIN classes[is[j]].methods
          <5>1. Def(classes[is[j]], m) = {}
            BY <4>4, DefIs
          <5> QED BY <4>2, <4>4, <5>1
        <4> QED BY <4>3, <4>4
      <3> QED BY <1>1, <1>9, <3>1 DEF Seen
    <2>3. m # Super /\ m # Constructor
      BY <1>11
    <2>4. m \in OwnBrings(new, n) <=> \/ m \in DOMAIN h /\ h[m].def = n /\ h[m].body # "native"
                                      \/ new.super = n /\ is = <<>> /\ m \in Natives
      BY <1>1 DEF OwnBrings
    <2>5. m \in DOMAIN h => Def(new, m) = {h[m].def}
      BY <1>1, DefIs
    <2>6. m \notin DOMAIN h => Def(new, m) = {}
      BY <1>1, DefIs
    <2>7. CASE m \in DOMAIN r
      BY <1>3, <1>4, <2>4, <2>5, <2>7 DEF Rule
    <2>8. CASE m \notin DOMAIN r /\ m \in OwnBrings(new, n)
      <3>1. m \in DOMAIN h /\ h[m].def = n
        <4>1. CASE m \in DOMAIN h /\ h[m].def = n /\ h[m].body # "native"
          BY <4>1
        <4>2. CASE new.super = n /\ is = <<>> /\ m \in Natives
          <5>1. H(m) = {} /\ d.base = NoClass
            BY <1>5, <1>9, <4>2
          <5>2. m \in DOMAIN g /\ g[m] = Method(n, "native", 1)
            BY <1>8, <2>3, <4>2, <5>1
          <5> QED BY <1>3, <1>10, <2>8, <5>2
        <4> QED BY <2>4, <2>8, <4>1, <4>2
      <3> QED BY <2>5, <2>8, <3>1 DEF Rule
    <2>9. CASE m \notin DOMAIN r /\ m \notin OwnBrings(new, n) /\ H(m) # {}
      <3>1. Rule(new, at, n, m) = at[is[Max(H(m))]]
        BY <1>1, <2>2, <2>9 DEF Rule
      <3>2. Max(H(m)) \in H(m) /\ m \in DOMAIN g /\ g[m] = classes[is[Max(H(m))]].methods[m]
        BY <1>8, <2>3, <2>9
      <3>3. is[Max(H(m))] \in DOMAIN classes /\ m \in DOMAIN classes[is[Max(H(m))]].methods
        BY <1>6, <1>9, <3>2
      <3>4. at[is[Max(H(m))]] = {g[m].def}
        BY <2>1, <3>2, <3>3, DefIs
      <3> QED BY <1>3, <2>5, <2>9, <3>1, <3>2, <3>4 DEF at
    <2>10. CASE m \notin DOMAIN r /\ m \notin OwnBrings(new, n) /\ H(m) = {}
      <3>1. Rule(new, at, n, m) = IF new.super # n THEN at[new.super] ELSE {}
        BY <2>2, <2>10 DEF Rule
      <3>2. CASE d.base = NoClass
        <4>1. m \notin Natives
          <5> SUFFICES ASSUME m \in Natives PROVE FALSE
            OBVIOUS
          <5>1. \A j \in DOMAIN is : m \in DOMAIN classes[is[j]].methods \ {Constructor}
            BY <1>6, <1>7, <2>3
          <5>2. DOMAIN is = {}
            BY <1>9, <2>10, <5>1
          <5>3. is = <<>>
            BY <1>6, <5>2
          <5> QED BY <1>5, <2>4, <2>10, <3>2, <5>3
        <4>2. m \notin DOMAIN h
          BY <1>3, <1>8, <2>3, <2>10, <3>2, <4>1
        <4> QED BY <1>5, <2>6, <3>1, <3>2, <4>2 DEF at
      <3>3. CASE d.base # NoClass /\ m \in DOMAIN b
        <4>1. m \in DOMAIN g /\ g[m] = b[m]
          BY <1>8, <2>3, <2>10, <3>3
        <4>2. at[d.base] = {b[m].def}
          BY <1>5, <2>1, <3>3, DefIs DEF b
        <4> QED BY <1>3, <1>5, <2>5, <2>10, <3>1, <3>3, <4>1, <4>2 DEF at
      <3>4. CASE d.base # NoClass /\ m \notin DOMAIN b
        <4>1. m \notin Natives
          BY <1>5, <1>7, <3>4 DEF b
        <4>2. m \notin DOMAIN h
          BY <1>3, <1>8, <2>3, <2>10, <3>4, <4>1
        <4>3. at[d.base] = {}
          BY <1>5, <2>1, <3>4, DefIs DEF b
        <4> QED BY <1>5, <2>6, <3>1, <3>4, <4>2, <4>3 DEF at
      <3> QED BY <3>2, <3>3, <3>4
    <2> QED BY <2>7, <2>8, <2>9, <2>10 DEF at
  <1>19. new.super \in DOMAIN ds
    BY <1>5 DEF n
  <1> QED BY <1>1, <1>6, <1>14, <1>15, <1>16, <1>17, <1>18, <1>19 DEF Named, new, n

-----------------------------------------------------------------------------
(* Steps.                                                                  *)

\* What is registered stays, and one table at most is written.
OneChanged ==
  /\ \A n \in DOMAIN classes :
       n \in DOMAIN classes' /\ classes'[n] = classes[n] /\ table'[Proto(n)] = table[Proto(n)]
  /\ \E k : \A j \in DOMAIN table \cap DOMAIN table' : j # k => table'[j] = table[j]

LEMMA Stepped ==
  ASSUME ClassesInv, UNCHANGED classes,
         NEW ts, NEW vs, Good(classes, ts, vs), Keep(classes, ts, vs), NEW k \in ObjectTables,
         \A j \in DOMAIN table : j \in DOMAIN ts /\ (j # k => ts[j] = table[j])
  PROVE  ClassesInv' /\ OneChanged
  <1>1. /\ Good(classes, table', var')
        /\ DOMAIN table' \subseteq DOMAIN ts
        /\ \A j \in DOMAIN table' : table'[j] = ts[j]
        /\ \A n \in DOMAIN classes : Proto(n) \in DOMAIN table'
    BY Kept
  <1>2. ClassesInv'
    BY <1>1 DEF ClassesInv
  <1>3. \A n \in DOMAIN classes : table'[Proto(n)] = table[Proto(n)]
    BY <1>1, Numbered DEF ClassesInv, Good, TablesOK
  <1>4. \A j \in DOMAIN table \cap DOMAIN table' : j # k => table'[j] = table[j]
    BY <1>1
  <1> QED BY <1>2, <1>3, <1>4 DEF OneChanged

LEMMA FreshIs ==
  ASSUME NEW ts, NEW k \in Fresh(ts)
  PROVE  k \in ObjectTables /\ k \notin DOMAIN ts
  BY DEF Fresh

LEMMA DeclareOK ==
  ASSUME ClassesInv, NEW d \in Declarations, Declare(d)
  PROVE  ClassesInv' /\ OneChanged
  <1>1. PICK f \in FieldValue(d, table) : Register(Build(d), f[1], f[2])
    BY DEF Declare
  <1> DEFINE c == Build(d)  ts == f[2]  fs == Overlay(c.fields, f[1])
             cs == With(classes, c.name, [name |-> c.name, super |-> c.super, interfaces |-> c.interfaces,
                                          methods |-> c.methods])
             us == With(ts, Proto(c.name), Table(NoClass, fs))
  <1>2. Fresher(c, d.name)
    BY BuildOK DEF Declare
  <1> HIDE DEF c
  <1>3. /\ Good(classes, ts, var)
        /\ Refs(f[1]) \subseteq Objects(ts)
        /\ \A j \in DOMAIN table : j \in DOMAIN ts /\ ts[j] = table[j]
    BY FieldValueOK
  <1>4. CASE c.name \in DOMAIN classes
    <2>1. UNCHANGED classes /\ Keep(classes, ts, var)
      BY <1>1, <1>4 DEF Register, c
    <2>2. PICK k : k \in ObjectTables
      BY Numbered
    <2> HIDE DEF ts
    <2> QED BY <1>3, <2>1, <2>2, Stepped
  <1>5. CASE c.name \notin DOMAIN classes
    <2>1. classes' = cs /\ Keep(cs, us, var)
      BY <1>1, <1>5 DEF Register, c
    <2>2. c.name = d.name /\ c.name \notin {Root, NoClass}
      BY <1>2, DeclarationsAssumption DEF Fresher
    <2>3. DOMAIN c.fields \subseteq DOMAIN fs
      BY DEF Overlay
    <2>4. Refs(fs) \subseteq Objects(ts)
      <3>1. Refs(fs) \subseteq Refs(c.fields) \cup Refs(f[1])
        BY OverlayIs
      <3>2. Objects(table) \subseteq Objects(ts)
        BY <1>3 DEF Objects
      <3> QED BY <1>2, <1>3, <3>1, <3>2 DEF Fresher
    <2>5. \A m \in DOMAIN classes : Fields(ts, m) = Fields(table, m)
      BY <1>3 DEF Fields, ClassesInv, Good, TablesOK
    <2> HIDE DEF ts, fs
    <2>6. Good(cs, us, var)
      BY <1>2, <1>3, <1>5, <2>2, <2>3, <2>4, <2>5, RegisteredOK
    <2>7. /\ DOMAIN cs = DOMAIN classes \cup {c.name}
          /\ \A n \in DOMAIN classes : cs[n] = classes[n]
      BY <1>5 DEF With
    <2>8. /\ DOMAIN us = DOMAIN ts \cup {Proto(c.name)}
          /\ \A j \in DOMAIN ts : j # Proto(c.name) => us[j] = ts[j]
      BY DEF With
    <2>9. Proto(c.name) \notin DOMAIN ts
      BY <1>3, <1>5, Numbered DEF Good, TablesOK
    <2> HIDE DEF cs, us
    <2>10. /\ Good(cs, table', var')
           /\ DOMAIN table' \subseteq DOMAIN us
           /\ \A j \in DOMAIN table' : table'[j] = us[j]
           /\ \A n \in DOMAIN cs : Proto(n) \in DOMAIN table'
      BY <2>1, <2>6, Kept
    <2>11. \A j \in DOMAIN table \cap DOMAIN table' : table'[j] = table[j]
      BY <1>3, <2>8, <2>9, <2>10
    <2>12. \A n \in DOMAIN classes : Proto(n) \in DOMAIN table /\ Proto(n) \in DOMAIN table'
      BY <2>7, <2>10 DEF ClassesInv, Good, TablesOK
    <2> QED BY <2>1, <2>7, <2>10, <2>11, <2>12 DEF ClassesInv, OneChanged
  <1> QED BY <1>4, <1>5

\* v holds a new table k, with the fields of a class or of an object.
LEMMA NewTableOK ==
  ASSUME ClassesInv, NEW k \in Fresh(table), NEW c \in DOMAIN classes \cup {Root, NoClass}, NEW f,
         Refs(f) \subseteq Objects(table),
         c \in DOMAIN classes /\ f # NoFields => Fields(table, c) \subseteq DOMAIN f
  PROVE  LET ts == With(table, k, Table(c, f)) IN
         /\ Good(classes, ts, var) /\ k \in Objects(ts)
         /\ \A j \in DOMAIN table : j \in DOMAIN ts /\ ts[j] = table[j]
  <1>1. k \in ObjectTables /\ k \notin DOMAIN table
    BY FreshIs
  <1>2. Good(classes, With(table, k, Table(c, f)), var)
    BY <1>1, AddedOK DEF ClassesInv
  <1> QED BY <1>1, <1>2 DEF With, Objects

LEMMA HoldOK ==
  ASSUME ClassesInv, UNCHANGED classes, NEW ts, Good(classes, ts, var), NEW k \in Objects(ts), NEW v \in Vars,
         \A j \in DOMAIN table : j \in DOMAIN ts /\ (j # k => ts[j] = table[j]),
         Keep(classes, ts, [var EXCEPT ![v] = Obj(k)])
  PROVE  ClassesInv' /\ OneChanged
  <1>1. Good(classes, ts, [var EXCEPT ![v] = Obj(k)])
    BY VarSetOK, ObjectIs
  <1>2. k \in ObjectTables
    BY DEF Objects
  <1> QED BY <1>1, <1>2, Stepped

LEMMA ConstructOK ==
  ASSUME ClassesInv, NEW ts, Good(classes, ts, var), NEW k \in Objects(ts), NEW v \in Vars,
         \A j \in DOMAIN table : j \in DOMAIN ts /\ ts[j] = table[j],
         Construct(v, ts, k)
  PROVE  ClassesInv' /\ OneChanged
  <1>1. PICK us \in Invoke(ts, k, Constructor) : Keep(classes, us, [var EXCEPT ![v] = Obj(k)])
    BY DEF Construct
  <1>2. Good(classes, us, var) /\ Changed(ts, us, k)
    BY InvokeOK
  <1>3. k \in Objects(us) /\ \A j \in DOMAIN table : j \in DOMAIN us /\ (j # k => us[j] = table[j])
    BY <1>2 DEF Changed, Objects
  <1> QED BY <1>1, <1>2, <1>3, HoldOK DEF Construct

\* An object as it is copied.
LEMMA CopiedOK ==
  ASSUME ClassesInv, NEW w \in Vars, IsObj(var[w])
  PROVE  LET x == table[var[w][2]] IN
         /\ x = Table(x.class, x.fields)
         /\ x.class \in DOMAIN classes \cup {Root, NoClass}
         /\ Refs(x.fields) \subseteq Objects(table)
         /\ x.class \in DOMAIN classes /\ x.fields # NoFields => Fields(table, x.class) \subseteq DOMAIN x.fields
  <1>1. var[w][2] \in DOMAIN table
    BY VarRefers DEF ClassesInv, Good, Objects
  <1> QED BY <1>1 DEF ClassesInv, Good, TablesOK, ObjectsOK

LEMMA ObjectStep ==
  ASSUME ClassesInv, NEW v \in Vars,
         \/ \E n \in Names : Instantiate(v, n) \/ StaticCopy(v, n)
         \/ \E w \in Vars : InstantiateLike(v, w) \/ CopyObject(v, w)
         \/ \E fields \in AnonymousFields : NewAnonymous(v, fields)
  PROVE  ClassesInv' /\ OneChanged
  <1>1. \A n \in DOMAIN classes : Refs(table[Proto(n)].fields) \subseteq Objects(table)
    BY DEF ClassesInv, Good, TablesOK
  <1>2. ASSUME NEW n \in Names, Instantiate(v, n) PROVE ClassesInv' /\ OneChanged
    <2>1. n \in DOMAIN classes
      BY <1>2 DEF Instantiate
    <2>2. PICK k \in Fresh(table) : Construct(v, With(table, k, Table(n, table[Proto(n)].fields)), k)
      BY <1>2 DEF Instantiate
    <2> DEFINE ts == With(table, k, Table(n, table[Proto(n)].fields))
    <2>3. /\ Good(classes, ts, var) /\ k \in Objects(ts)
          /\ \A j \in DOMAIN table : j \in DOMAIN ts /\ ts[j] = table[j]
      BY <1>1, <2>1, NewTableOK DEF Fields
    <2> HIDE DEF ts
    <2>4. Construct(v, ts, k)
      BY <2>2 DEF ts
    <2> QED BY <2>3, <2>4, ConstructOK
  <1>3. ASSUME NEW n \in Names, StaticCopy(v, n) PROVE ClassesInv' /\ OneChanged
    <2>1. n \in DOMAIN classes /\ UNCHANGED classes
      BY <1>3 DEF StaticCopy
    <2>2. PICK k \in Fresh(table) :
            Keep(classes, With(table, k, Table(n, NoFields)), [var EXCEPT ![v] = Obj(k)])
      BY <1>3 DEF StaticCopy
    <2> DEFINE ts == With(table, k, Table(n, NoFields))
    <2>3. /\ Good(classes, ts, var) /\ k \in Objects(ts)
          /\ \A j \in DOMAIN table : j \in DOMAIN ts /\ ts[j] = table[j]
      BY <2>1, NewTableOK, NoRefs
    <2> HIDE DEF ts
    <2>4. Keep(classes, ts, [var EXCEPT ![v] = Obj(k)])
      BY <2>2 DEF ts
    <2> QED BY <2>1, <2>3, <2>4, HoldOK
  <1>4. ASSUME NEW w \in Vars, InstantiateLike(v, w) \/ CopyObject(v, w) PROVE ClassesInv' /\ OneChanged
    <2>1. IsObj(var[w])
      BY <1>4 DEF InstantiateLike, CopyObject
    <2> DEFINE x == table[var[w][2]]
    <2>2. /\ x = Table(x.class, x.fields)
          /\ x.class \in DOMAIN classes \cup {Root, NoClass}
          /\ Refs(x.fields) \subseteq Objects(table)
          /\ x.class \in DOMAIN classes /\ x.fields # NoFields => Fields(table, x.class) \subseteq DOMAIN x.fields
      BY <2>1, CopiedOK
    <2>3. ASSUME NEW k \in Fresh(table)
          PROVE  LET ts == With(table, k, x) IN
                 /\ Good(classes, ts, var) /\ k \in Objects(ts)
                 /\ \A j \in DOMAIN table : j \in DOMAIN ts /\ ts[j] = table[j]
      <3> DEFINE c == x.class  f == x.fields
      <3>1. x = Table(c, f) /\ c \in DOMAIN classes \cup {Root, NoClass} /\ Refs(f) \subseteq Objects(table)
            /\ (c \in DOMAIN classes /\ f # NoFields => Fields(table, c) \subseteq DOMAIN f)
        BY <2>2
      <3> HIDE DEF c, f, x
      <3> QED BY <3>1, NewTableOK
    <2> HIDE DEF x
    <2>4. CASE InstantiateLike(v, w)
      <3>1. PICK k \in Fresh(table) : Construct(v, With(table, k, x), k)
        BY <2>4 DEF InstantiateLike, x
      <3> QED BY <2>3, <3>1, ConstructOK
    <2>5. CASE CopyObject(v, w)
      <3>1. PICK k \in Fresh(table) : Keep(classes, With(table, k, x), [var EXCEPT ![v] = Obj(k)])
        BY <2>5 DEF CopyObject, x
      <3>2. UNCHANGED classes
        BY <2>5 DEF CopyObject
      <3> QED BY <2>3, <3>1, <3>2, HoldOK
    <2> QED BY <1>4, <2>4, <2>5
  <1>5. ASSUME NEW fields \in AnonymousFields, NewAnonymous(v, fields) PROVE ClassesInv' /\ OneChanged
    <2>1. Refs(fields) = {}
      <3>1. \A n \in DOMAIN fields : ~IsObj(fields[n])
        BY <1>5, PlainValues DEF AnonymousFields, NoFields
      <3> QED BY <3>1, RefIs
    <2>2. Root \notin DOMAIN classes
      BY DEF ClassesInv, Good, ClassesOK
    <2>3. PICK k \in Fresh(table) :
            Keep(classes, With(table, k, Table(Root, fields)), [var EXCEPT ![v] = Obj(k)])
      BY <1>5 DEF NewAnonymous
    <2>4. UNCHANGED classes
      BY <1>5 DEF NewAnonymous
    <2> DEFINE ts == With(table, k, Table(Root, fields))
    <2>5. /\ Good(classes, ts, var) /\ k \in Objects(ts)
          /\ \A j \in DOMAIN table : j \in DOMAIN ts /\ ts[j] = table[j]
      BY <2>1, <2>2, NewTableOK
    <2> HIDE DEF ts
    <2>6. Keep(classes, ts, [var EXCEPT ![v] = Obj(k)])
      BY <2>3 DEF ts
    <2> QED BY <2>4, <2>5, <2>6, HoldOK
  <1> QED BY <1>2, <1>3, <1>4, <1>5

LEMMA ReadableIs ==
  ASSUME ClassesInv, NEW x \in Readable, IsObj(x)
  PROVE  x[2] \in Objects(table)
  <1>1. x \in Values(var) \/ \E w \in Vars : IsObj(var[w]) /\ x \in Values(table[var[w][2]].fields)
    BY PlainValues DEF Readable
  <1>2. CASE x \in Values(var)
    BY <1>2, VarRefers DEF ClassesInv, Good, VarsOK, Values
  <1>3. CASE \E w \in Vars : IsObj(var[w]) /\ x \in Values(table[var[w][2]].fields)
    <2>1. PICK w \in Vars : IsObj(var[w]) /\ x \in Values(table[var[w][2]].fields)
      BY <1>3
    <2>2. Refs(table[var[w][2]].fields) \subseteq Objects(table)
      BY <2>1, CopiedOK
    <2>3. x[2] \in Refs(table[var[w][2]].fields)
      BY <2>1 DEF Refs, Held
    <2> QED BY <2>2, <2>3
  <1> QED BY <1>1, <1>2, <1>3

LEMMA ValueStep ==
  ASSUME ClassesInv,
         \/ \E v \in Vars : \E x \in Readable : AssignVar(v, x)
         \/ \E w \in Vars, n \in Names \cup {"x"} : \E x \in {y \in Values(var) : IsObj(y)} : WriteField(w, n, x)
         \/ \E v \in Vars, m \in {"draw", Constructor, Super} : Call(v, m)
  PROVE  ClassesInv' /\ OneChanged
  <1>1. ASSUME NEW v \in Vars, NEW x \in Readable, AssignVar(v, x) PROVE ClassesInv' /\ OneChanged
    <2>1. UNCHANGED classes /\ Keep(classes, table, [var EXCEPT ![v] = x])
      BY <1>1 DEF AssignVar
    <2>2. Good(classes, table, [var EXCEPT ![v] = x])
      BY ReadableIs, VarSetOK DEF ClassesInv
    <2>3. PICK k : k \in ObjectTables
      BY Numbered
    <2> QED BY <2>1, <2>2, <2>3, Stepped
  <1>2. ASSUME NEW w \in Vars, NEW n, NEW x \in Values(var), IsObj(x), WriteField(w, n, x)
        PROVE  ClassesInv' /\ OneChanged
    <2>1. UNCHANGED classes /\ IsObj(var[w])
      BY <1>2 DEF WriteField
    <2>2. PICK ts \in Assign(table, var[w][2], n, x) : Keep(classes, ts, var)
      BY <1>2 DEF WriteField
    <2>3. var[w][2] \in Objects(table)
      BY <2>1, VarRefers DEF ClassesInv, Good
    <2>4. x[2] \in Objects(table)
      BY <1>2, VarRefers DEF ClassesInv, Good, VarsOK, Values
    <2>5. Good(classes, ts, var) /\ Changed(table, ts, var[w][2])
      BY <2>3, <2>4, AssignOK DEF ClassesInv
    <2>6. var[w][2] \in ObjectTables
      BY <2>3 DEF Objects
    <2> QED BY <2>1, <2>2, <2>5, <2>6, Stepped DEF Changed
  <1>3. ASSUME NEW v \in Vars, NEW m, Call(v, m) PROVE ClassesInv' /\ OneChanged
    <2>1. UNCHANGED classes /\ IsObj(var[v])
      BY <1>3 DEF Call
    <2>2. PICK ts \in Invoke(table, var[v][2], m) : Keep(classes, ts, var)
      BY <1>3 DEF Call
    <2>3. var[v][2] \in Objects(table)
      BY <2>1, VarRefers DEF ClassesInv, Good
    <2>4. Good(classes, ts, var) /\ Changed(table, ts, var[v][2])
      BY <2>3, InvokeOK DEF ClassesInv
    <2>5. var[v][2] \in ObjectTables
      BY <2>3 DEF Objects
    <2> QED BY <2>1, <2>2, <2>4, <2>5, Stepped DEF Changed
  <1> QED BY <1>1, <1>2, <1>3

LEMMA ClassesStart ==
  ASSUME Init
  PROVE  ClassesInv
  <1>1. DOMAIN classes = {} /\ DOMAIN table = {} /\ DOMAIN var = Vars /\ \A v \in Vars : var[v] = Nil
    BY DEF Init
  <1>2. Refs(var) = {}
    BY <1>1, RefIs, PlainValues
  <1>3. VarsOK(table, var)
    BY <1>1, <1>2 DEF VarsOK
  <1> QED BY <1>1, <1>3 DEF ClassesInv, Good, TablesOK, ClassesOK, ObjectsOK

LEMMA ClassesStep ==
  ASSUME ClassesInv, Next
  PROVE  ClassesInv' /\ OneChanged
  BY DeclareOK, ObjectStep, ValueStep DEF Next

\* Tables are prototypes and objects, references lead to tables that are alive,
\* a class is registered after those it is below and has what they have.
THEOREM ClassesInductive == Spec => []ClassesInv
  <1>1. UNCHANGED vars /\ ClassesInv => ClassesInv'
    BY DEF vars, ClassesInv
  <1> QED BY <1>1, ClassesStart, ClassesStep, PTL DEF Spec

\* What passes `is` and `require` can stand in for its class: it answers every
\* method of it and has its fields, whatever was declared, in whatever order.
THEOREM AlwaysSubstitutable == Spec => []Substitutable
  <1>1. ClassesInv => Substitutable
    <2> SUFFICES ASSUME ClassesInv PROVE Substitutable
      OBVIOUS
    <2>1. ASSUME NEW n \in DOMAIN classes, NEW t \in DOMAIN classes, IsA(n, t)
          PROVE  /\ DOMAIN classes[t].methods \subseteq DOMAIN classes[n].methods
                 /\ DOMAIN table[Proto(t)].fields \subseteq DOMAIN table[Proto(n)].fields
      <3>1. Below(classes, n, t)
        BY <2>1 DEF IsA, Below
      <3> QED BY <3>1 DEF ClassesInv, Good, ClassesOK, Fields
    <2>2. ASSUME NEW k \in DOMAIN table, table[k].class \in DOMAIN classes, table[k].fields # NoFields
          PROVE  DOMAIN table[Proto(table[k].class)].fields \subseteq DOMAIN table[k].fields
      BY <2>2 DEF ClassesInv, Good, ObjectsOK, Fields
    <2> QED BY <2>1, <2>2 DEF Substitutable
  <1> QED BY <1>1, ClassesInductive, PTL

\* Only a declaration changes the classes, and it adds one at most.
LEMMA Unregistered ==
  ASSUME Next, ~(\E d \in Declarations : Declare(d))
  PROVE  UNCHANGED classes
  BY DEF Next, Instantiate, InstantiateLike, Construct, StaticCopy, CopyObject, NewAnonymous,
         AssignVar, WriteField, Call

LookupInv == Resolved(classes)

LEMMA LookupStep ==
  ASSUME ClassesInv, LookupInv, Next
  PROVE  LookupInv'
  <1>1. CASE UNCHANGED classes
    BY <1>1 DEF LookupInv
  <1>2. ASSUME NEW d \in Declarations, Declare(d), classes' # classes PROVE LookupInv'
    <2> DEFINE c == Build(d)
               n == d.name
               new == [name |-> c.name, super |-> c.super, interfaces |-> c.interfaces, methods |-> c.methods]
    <2>1. Accepted(d)
      BY <1>2 DEF Declare
    <2>2. c.name = n
      BY <2>1, BuildIs
    <2>3. n \notin DOMAIN classes /\ classes' = With(classes, n, new)
      <3>1. PICK f \in FieldValue(d, table) : Register(c, f[1], f[2])
        BY <1>2 DEF Declare
      <3> HIDE DEF c
      <3> QED BY <1>2, <2>2, <3>1 DEF Register
    <2>4. new.super = c.super /\ new.interfaces = c.interfaces /\ new.methods = c.methods
      OBVIOUS
    <2> HIDE DEF new
    <2>5. /\ DOMAIN classes' = DOMAIN classes \cup {n} /\ classes'[n] = new
          /\ \A t \in DOMAIN classes : classes'[t] = classes[t]
      BY <2>3 DEF With
    <2>6. Named(classes', n) /\ Range(classes'[n].interfaces) \subseteq DOMAIN classes
      <3>1. /\ classes'[d.name].super = c.super /\ classes'[d.name].interfaces = c.interfaces
            /\ classes'[d.name].methods = c.methods
        BY <2>4, <2>5
      <3>2. c = Build(d)
        OBVIOUS
      <3> HIDE DEF c
      <3> QED BY <2>1, <2>3, <2>5, <3>1, <3>2, NewNamed DEF LookupInv
    <2>7. Resolved(classes')
      BY <2>3, <2>5, <2>6, ResolvedMore DEF LookupInv
    <2> QED BY <2>7 DEF LookupInv
  <1> QED BY <1>1, <1>2, Unregistered

LEMMA LookupStart ==
  ASSUME Init
  PROVE  LookupInv
  <1>1. DOMAIN classes = {}
    BY DEF Init
  <1>2. \A m, at : at = [n \in DOMAIN classes |-> Rule(classes[n], at, n, m)] => at = Defs(classes, m)
    BY <1>1 DEF Defs
  <1> QED BY <1>1, <1>2 DEF LookupInv, Resolved

\* A call reaches the method that a search along the declared hierarchy finds,
\* however deep the hierarchy and in whatever order it was declared.
THEOREM LookupAlwaysLinear == Spec => []LookupIsLinear
  <1>1. UNCHANGED vars /\ LookupInv => LookupInv'
    BY DEF vars, LookupInv
  <1>2. LookupInv => LookupIsLinear
    BY SearchFinds DEF LookupInv
  <1> QED BY <1>1, <1>2, LookupStart, LookupStep, ClassesInductive, PTL DEF Spec

KeepsClasses ==
  /\ \A n \in DOMAIN classes :
       /\ n \in DOMAIN classes' /\ classes'[n] = classes[n]
       /\ table'[Proto(n)] = table[Proto(n)]
  /\ Cardinality({k \in DOMAIN table \cap DOMAIN table' : table'[k] # table[k]}) <= 1

\* No constructor, method or assignment changes a class or its prototype, and
\* none changes more than one object.
THEOREM PrototypesAlwaysKept == Spec => PrototypesKept
  <1>1. OneChanged => KeepsClasses
    <2> SUFFICES ASSUME OneChanged PROVE KeepsClasses
      OBVIOUS
    <2> DEFINE C == {k \in DOMAIN table \cap DOMAIN table' : table'[k] # table[k]}
    <2>1. PICK k : \A j \in DOMAIN table \cap DOMAIN table' : j # k => table'[j] = table[j]
      BY DEF OneChanged
    <2>2. C \subseteq {k}
      BY <2>1
    <2>3. IsFiniteSet({k}) /\ Cardinality({k}) = 1
      BY FS_Singleton
    <2> HIDE DEF C
    <2>4. Cardinality(C) <= 1
      BY <2>2, <2>3, FS_Subset
    <2> QED BY <2>4 DEF OneChanged, KeepsClasses, C
  <1>2. ClassesInv /\ [Next]_vars => [KeepsClasses]_vars
    BY <1>1, ClassesStep
  <1>3. Spec => [][KeepsClasses]_vars
    BY <1>2, ClassesInductive, PTL DEF Spec
  <1> QED BY <1>3, PTL DEF KeepsClasses, PrototypesKept
==============================================================================
