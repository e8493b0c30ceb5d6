---------------------------- MODULE ScopesProofs ----------------------------
(***************************************************************************)
(* Proofs about Scopes, for every set of names and values, every depth of  *)
(* exec_stack and every choice of operations.                              *)
(*                                                                         *)
(* The inductive invariant has two halves.  Fitting holds of every         *)
(* program: a table that no frame uses is empty, and a reference leads to  *)
(* a cell that exists or to memory that belongs to no table.  Sounding     *)
(* holds as long as nothing has spoiled a reference: references lead to    *)
(* plain values, in tables that live at least as long.  What makes         *)
(* leave_scope harmless is in their conjunction: the cells that are        *)
(* cleared are those of the youngest tables in use, so whatever referred   *)
(* to them is cleared as well.                                             *)
(***************************************************************************)
EXTENDS Scopes, TLAPS, WellFoundedInduction, FiniteSetTheorems

-----------------------------------------------------------------------------
(***************************************************************************)
(* The frames.                                                             *)
(***************************************************************************)
Kinded == [kind : FrameKinds, table : TableIds \ {Freed}, use : BOOLEAN]

\* A frame has the table of its depth, but for the bodies of loops and boxes; a
\* body is on the proxy of its loop, for which there is room on the stack.
FrameFits(s, i) ==
  /\ s[i].kind = "body" => s[i].table = LoopTable /\ i > 2 /\ s[i - 1].kind = "proxy"
  /\ s[i].kind = "box" => s[i].table = BoxTable
  /\ s[i].kind \notin {"body", "box"} => s[i].table = i
  /\ s[i].kind = "proxy" => i > 1 /\ i < MaxDepth

StackFits(s) ==
  /\ s \in Seq(Kinded)
  /\ Len(s) \in 1..MaxDepth
  /\ s[1] = Frame("main", Main, FALSE)
  /\ \A i \in 1..Len(s) : FrameFits(s, i)

\* The tables in use: those of the frames, and of the box.
TablesOf(s) == {s[i].table : i \in 1..Len(s)} \cup {BoxTable}

-----------------------------------------------------------------------------
(***************************************************************************)
(* The memory.                                                             *)
(***************************************************************************)
Memories == [TableIds -> [Slots -> Values]]

\* An address of a cell that exists, and one that may be freed memory's.
Firm(m, c) == c \in Cells /\ At(m, c) # Absent
Live(m, c) == c = Wild \/ Firm(m, c)

\* A value that can be in a cell or be returned.
Held(m, v) == v \in Values /\ (IsRef(v) => Live(m, Target(v)))

\* Memory whose cells are in the tables ts, or freed.
Fits(m, ts) ==
  /\ m \in Memories
  /\ \A c \in Cells : At(m, c) # Absent => c.t \in ts \cup {Freed}
  /\ \A c \in Cells : Held(m, At(m, c))

\* No freed memory was written.
Clean(m) == \A c \in Cells : At(m, c) # Absent => c.t # Freed

Fitting == StackFits(stack) /\ Fits(table, TablesOf(stack)) /\ Clean(table)

\* References are sound in memory m, whose tables last as long as rank says.
Sound(m, rank) ==
  /\ Clean(m)
  /\ \A c \in Cells : IsRef(At(m, c)) =>
       /\ Firm(m, Target(At(m, c)))
       /\ ~IsRef(At(m, Target(At(m, c))))
       /\ rank[Target(At(m, c)).t] <= rank[c.t]

\* Rank, for a stack s.
Ranks(s) == [t \in TableIds |->
  IF t = BoxTable THEN Main
  ELSE IF t = LoopTable
       THEN LET is == {i \in DOMAIN s : s[i].table = LoopTable} IN IF is = {} THEN Main ELSE Min(is)
       ELSE t]

\* A loop's body is entered once.
OneLoop(s) == \A i, j \in 1..Len(s) : s[i].table = LoopTable /\ s[j].table = LoopTable => i = j

Sounding == ~spoiled => ~broken /\ OneLoop(stack) /\ Sound(table, Ranks(stack))

ScopesInv == Fitting /\ Sounding

-----------------------------------------------------------------------------
(***************************************************************************)
(* Cells, values and memories.                                             *)
(***************************************************************************)
LEMMA CellsAre ==
  /\ \A t \in TableIds, n \in Slots :
       Cell(t, n) \in Cells /\ Cell(t, n).t = t /\ Cell(t, n).n = n
  /\ \A c \in Cells : c.t \in TableIds /\ c.n \in Slots /\ c = Cell(c.t, c.n)
  /\ Wild \in Cells /\ Wild.t = Freed
BY DepthAssumption DEF Cells, Cell, Wild, Freed, TableIds, Slots

LEMMA ValuesAre ==
  /\ \A c \in Cells : RefTo(c) \in Values /\ IsRef(RefTo(c)) /\ Target(RefTo(c)) = c
  /\ \A v \in Values : IsRef(v) => Target(v) \in Cells /\ v = RefTo(Target(v))
  /\ \A x \in Vals \cup {"nil"} : Plain(x) \in Values /\ ~IsRef(Plain(x)) /\ Plain(x) # Absent
  /\ Nil \in Values /\ ~IsRef(Nil) /\ Nil # Absent
  /\ Absent \in Values /\ ~IsRef(Absent)
<1>1. ASSUME NEW c \in Cells
      PROVE  RefTo(c) \in Values /\ IsRef(RefTo(c)) /\ Target(RefTo(c)) = c
  BY CellsAre DEF Values, RefTo, IsRef, Target, Cell
<1>2. \A x \in Vals \cup {"nil", "absent"} : Plain(x) \in Values /\ ~IsRef(Plain(x))
  BY ValsAssumption DEF Values, Plain, IsRef
<1>3. \A x \in Vals \cup {"nil"} : Plain(x) # Absent
  BY ValsAssumption DEF Plain, Absent
<1>4. ASSUME NEW v \in Values, IsRef(v)
      PROVE  Target(v) \in Cells /\ v = RefTo(Target(v))
  <2>1. PICK c \in Cells : v = RefTo(c)
    BY <1>2, <1>4 DEF Values
  <2> QED BY <2>1, <1>1
<1> QED BY <1>1, <1>2, <1>3, <1>4 DEF Nil, Absent

LEMMA AtTyped ==
  ASSUME NEW m \in Memories, NEW c \in Cells
  PROVE  At(m, c) \in Values
BY CellsAre DEF Memories, At

LEMMA PutAt ==
  ASSUME NEW m \in Memories, NEW c \in Cells, NEW v \in Values
  PROVE  /\ Put(m, c, v) \in Memories
         /\ \A d \in Cells : At(Put(m, c, v), d) = IF d = c THEN v ELSE At(m, d)
<1>1. c.t \in TableIds /\ c.n \in Slots
  BY CellsAre
<1>2. Put(m, c, v) \in Memories
  BY <1>1 DEF Put, Memories
<1>3. ASSUME NEW d \in Cells
      PROVE  At(Put(m, c, v), d) = IF d = c THEN v ELSE At(m, d)
  <2>1. d.t \in TableIds /\ d.n \in Slots /\ (d = c <=> d.t = c.t /\ d.n = c.n)
    BY CellsAre
  <2> QED BY <1>1, <2>1 DEF Put, At, Memories
<1> QED BY <1>2, <1>3

LEMMA FreeAt ==
  ASSUME NEW m \in Memories, NEW cs
  PROVE  /\ Free(m, cs) \in Memories
         /\ \A d \in Cells : At(Free(m, cs), d) =
              IF d \in cs THEN Absent ELSE Outliving(At(m, d), cs)
<1>1. ASSUME NEW d \in Cells
      PROVE  At(Free(m, cs), d) = IF d \in cs THEN Absent ELSE Outliving(At(m, d), cs)
  <2>1. d.t \in TableIds /\ d.n \in Slots /\ Cell(d.t, d.n) = d
    BY CellsAre
  <2> QED BY <2>1 DEF Free, At
<1>2. \A v \in Values : Outliving(v, cs) \in Values
  BY ValuesAre, CellsAre DEF Outliving
<1>3. \A t \in TableIds, n \in Slots :
        (IF Cell(t, n) \in cs THEN Absent ELSE Outliving(m[t][n], cs)) \in Values
  BY <1>2, ValuesAre DEF Memories
<1>4. Free(m, cs) \in Memories
  BY <1>3 DEF Free, Memories
<1> QED BY <1>1, <1>4

\* A table is empty if none of its cells exists.
LEMMA EmptyIs ==
  ASSUME NEW m \in Memories, NEW t \in TableIds
  PROVE  m[t] = Empty <=> \A c \in Cells : At(m, c) # Absent => c.t # t
<1>1. m[t] = Empty <=> \A n \in Slots : m[t][n] = Absent
  BY DEF Memories, Empty
<1>2. \A n \in Slots : At(m, Cell(t, n)) = m[t][n]
  BY CellsAre DEF At
<1>3. \A c \in Cells : c.t = t => At(m, c) = m[t][c.n]
  BY DEF At
<1> QED BY <1>1, <1>2, <1>3, CellsAre

-----------------------------------------------------------------------------
(***************************************************************************)
(* scope_lookup.                                                           *)
(***************************************************************************)
\* Finitely many frames: a set of them has an innermost one.
LEMMA HasMax ==
  ASSUME NEW n \in Nat, NEW S, S \subseteq 1..n, S # {}
  PROVE  Max(S) \in S /\ \A y \in S : y <= Max(S)
<1> DEFINE T == {n - x : x \in S}
<1>1. T \subseteq Nat
  <2>1. \A x \in S : n - x \in Nat
    OBVIOUS
  <2> QED BY <2>1
<1>2. T # {}
  <2>1. PICK x : x \in S
    OBVIOUS
  <2>2. n - x \in T
    BY <2>1
  <2> QED BY <2>2
<1>3. \E x \in T : \A y \in T : ~(<<y, x>> \in OpToRel(<, Nat))
  BY <1>1, <1>2, NatLessThanWellFounded, WFMin, Zenon
<1>4. PICK t \in T : \A y \in T : ~(<<y, t>> \in OpToRel(<, Nat))
  BY <1>3
<1>5. \A y \in T : ~(y < t)
  BY <1>1, <1>4, Zenon DEF OpToRel
<1>6. PICK x \in S : t = n - x
  OBVIOUS
<1>7. \A y \in S : n - y \in T
  OBVIOUS
<1> HIDE DEF T
<1>8. \A y \in S : ~(n - y < n - x)
  BY <1>5, <1>6, <1>7
<1>9. \A y \in S : x >= y
  BY <1>8
<1> QED BY <1>9 DEF Max

\* What the frames of a stack are, one by one.
LEMMA FramesAre ==
  ASSUME StackFits(stack)
  PROVE  /\ Depth \in 1..MaxDepth /\ Depth \in Nat /\ DOMAIN stack = 1..Depth
         /\ \A i \in 1..Depth :
              /\ stack[i] \in Kinded
              /\ stack[i].table \in TableIds \ {Freed}
              /\ stack[i].table \in TablesOf(stack)
         /\ stack[1].table = Main /\ ~Weak(stack[1])
         /\ Local \in TableIds \ {Freed} /\ Local \in TablesOf(stack)
<1>1. Depth \in 1..MaxDepth /\ Depth \in Nat /\ DOMAIN stack = 1..Depth
  BY DepthAssumption DEF StackFits, Depth
<1>2. \A i \in 1..Depth : stack[i] \in Kinded
  BY <1>1 DEF StackFits, Depth
<1>3. \A i \in 1..Depth : stack[i].table \in TablesOf(stack)
  BY <1>1 DEF TablesOf, Depth
<1>4. stack[1].table = Main /\ ~Weak(stack[1])
  BY DEF StackFits, Frame, Weak
<1> QED BY <1>1, <1>2, <1>3, <1>4 DEF Kinded, Local, Top

LEMMA TablesAre ==
  ASSUME StackFits(stack)
  PROVE  TablesOf(stack) \subseteq TableIds \ {Freed} /\ BoxTable \in TablesOf(stack)
<1>1. BoxTable \in TableIds \ {Freed}
  BY DepthAssumption DEF BoxTable, TableIds, Freed
<1>2. \A i \in 1..Len(stack) : stack[i].table \in TableIds \ {Freed}
  BY FramesAre DEF Depth
<1> QED BY <1>1, <1>2 DEF TablesOf

\* The innermost frame with a name, if there is one.
LEMMA FoundIs ==
  ASSUME StackFits(stack), NEW m, NEW n, NEW global \in BOOLEAN, Finders(m, n, global) # {}
  PROVE  /\ Max(Finders(m, n, global)) \in Finders(m, n, global)
         /\ Max(Finders(m, n, global)) \in Walk(global)
         /\ \A i \in Finders(m, n, global) : i <= Max(Finders(m, n, global))
<1>1. Finders(m, n, global) \subseteq 1..Depth
  BY FramesAre DEF Finders, Walk
<1>2. Max(Finders(m, n, global)) \in Finders(m, n, global)
      /\ \A i \in Finders(m, n, global) : i <= Max(Finders(m, n, global))
  BY <1>1, FramesAre, HasMax
<1> QED BY <1>2 DEF Finders

\* A name is looked for, or made, in a table that is in use.
LEMMA LookupInUse ==
  ASSUME StackFits(stack), NEW m, NEW n, NEW global \in BOOLEAN, NEW used
  PROVE  /\ ScopeLookup(m, n, global, used) \in TablesOf(stack)
         /\ ScopeLookup(m, n, global, used) \in TableIds \ {Freed}
<1>1. Local \in TablesOf(stack) /\ BoxTable \in TablesOf(stack) /\ Main \in TablesOf(stack)
  BY FramesAre, TablesAre
<1>2. ASSUME Finders(m, n, global) # {}
      PROVE  stack[Max(Finders(m, n, global))].table \in TablesOf(stack)
  BY <1>2, FoundIs, FramesAre DEF Walk
<1>3. ScopeLookup(m, n, global, used) \in TablesOf(stack)
  BY <1>1, <1>2 DEF ScopeLookup
<1> QED BY <1>3, TablesAre

\* The lookup depends on which tables have the name and on nothing else in them.
LEMMA LookupSame ==
  ASSUME StackFits(stack), NEW m, NEW m2, NEW n, NEW global \in BOOLEAN, NEW used,
         \A t \in TableIds : Exists(m, t, n) <=> Exists(m2, t, n)
  PROVE  ScopeLookup(m, n, global, used) = ScopeLookup(m2, n, global, used)
<1>1. Finders(m, n, global) = Finders(m2, n, global)
  <2>1. \A i \in Walk(global) : stack[i].table \in TableIds
    BY FramesAre DEF Walk
  <2> QED BY <2>1 DEF Finders
<1>2. Exists(m, BoxTable, n) <=> Exists(m2, BoxTable, n)
  BY TablesAre
<1>3. Exists(m, Main, n) <=> Exists(m2, Main, n)
  BY FramesAre
<1> QED BY <1>1, <1>2, <1>3 DEF ScopeLookup

\* A name that was made where it was looked for is found there.
LEMMA LookupStays ==
  ASSUME StackFits(stack), NEW m, NEW m2, NEW n, NEW global \in BOOLEAN, NEW used,
         \A t \in TableIds : Exists(m2, t, n) <=>
            Exists(m, t, n) \/ t = ScopeLookup(m, n, global, used)
  PROVE  Exists(m2, ScopeLookup(m2, n, global, used), n)
<1> DEFINE at == ScopeLookup(m, n, global, used)
           at2 == ScopeLookup(m2, n, global, used)
<1>1. at \in TableIds /\ Exists(m2, at, n)
  BY LookupInUse
<1>2. CASE Exists(m, at, n)
  <2>1. \A t \in TableIds : Exists(m, t, n) <=> Exists(m2, t, n)
    BY <1>2
  <2>2. at2 = at
    BY <2>1, LookupSame
  <2> QED BY <2>2, <1>1
<1>3. CASE ~Exists(m, at, n)
  <2> SUFFICES ASSUME ~Exists(m2, at2, n)
               PROVE  FALSE
    OBVIOUS
  <2> DEFINE found == Finders(m, n, global)
             found2 == Finders(m2, n, global)
             ends == Ends(global)
  <2>1. found # {} => Exists(m, stack[Max(found)].table, n)
    BY FoundIs DEF Finders
  <2>2. found2 # {} => Exists(m2, stack[Max(found2)].table, n)
    BY FoundIs DEF Finders
  <2>3. at # at2
    BY <1>1
  <2>4. ASSUME ~global, Weak(Top), Depth >= 2, at = Local
        PROVE  found2 # {}
    <3>1. Depth \in Walk(global) /\ stack[Depth].table = Local
      BY <2>4, FramesAre DEF Walk, Local, Top
    <3>2. Depth \in found2
      BY <3>1, <2>4, <1>1 DEF Finders
    <3> QED BY <3>2
  <2> DEFINE inner == Max(found)  inner2 == Max(found2)
             seen == found # {} /\ \A i \in ends : i <= inner
             seen2 == found2 # {} /\ \A i \in ends : i <= inner2
             ended == ends # {}
  <2>5. /\ at = IF Depth < 2 THEN Local
                ELSE IF ~global /\ used /\ Exists(m, BoxTable, n) THEN BoxTable
                ELSE IF ~global /\ ~Weak(Top) THEN Local
                ELSE IF seen THEN stack[inner].table
                ELSE IF ended \/ (~global /\ ~Exists(m, Main, n)) THEN Local
                ELSE Main
        /\ at2 = IF Depth < 2 THEN Local
                 ELSE IF ~global /\ used /\ Exists(m2, BoxTable, n) THEN BoxTable
                 ELSE IF ~global /\ ~Weak(Top) THEN Local
                 ELSE IF seen2 THEN stack[inner2].table
                 ELSE IF ended \/ (~global /\ ~Exists(m2, Main, n)) THEN Local
                 ELSE Main
    BY DEF ScopeLookup
  <2>6. /\ seen => Exists(m, stack[inner].table, n)
        /\ seen2 => Exists(m2, stack[inner2].table, n)
        /\ found2 # {} /\ ~ended => seen2
    BY <2>1, <2>2
  <2> HIDE DEF at, at2, found, found2, ends, inner, inner2, seen, seen2, ended
  <2>7. Depth >= 2 /\ ~(Depth < 2) /\ ~(~global /\ ~Weak(Top))
    BY <2>3, <2>5, <2>6, <1>3, FramesAre
  <2>8. ~seen2
    BY <2>5, <2>6, <2>7
  <2>9. CASE at2 = Main
    <3>1. at = Local /\ ~global /\ ~ended
      BY <2>3, <2>5, <2>6, <2>7, <2>8, <2>9, <1>3
    <3> QED BY <3>1, <2>4, <2>6, <2>7, <2>8
  <2>10. CASE at2 = Local
    <3>1. at = Main
      BY <2>3, <2>5, <2>6, <2>7, <2>10, <1>3
    <3> QED BY <3>1, <2>3, <2>5, <2>6, <2>7, <2>8, <2>10, <1>3
  <2> QED BY <2>5, <2>6, <2>7, <2>8, <2>9, <2>10
<1> QED BY <1>2, <1>3

-----------------------------------------------------------------------------
(***************************************************************************)
(* What each operation on the memory keeps of Fits.  Cells that exist stay *)
(* so (Grows) as long as none is erased.                                   *)
(***************************************************************************)
Grows(m, m2) == \A c \in Cells : Firm(m, c) => Firm(m2, c)

LEMMA GrowsOn ==
  ASSUME NEW m1, NEW m2, NEW m3, Grows(m1, m2), Grows(m2, m3)
  PROVE  Grows(m1, m3)
BY DEF Grows

LEMMA HeldOn ==
  ASSUME NEW m, NEW m2, Grows(m, m2), NEW v, Held(m, v)
  PROVE  Held(m2, v)
BY ValuesAre DEF Grows, Held, Live

LEMMA LiveOn ==
  ASSUME NEW m, NEW m2, Grows(m, m2), NEW c, Live(m, c)
  PROVE  Live(m2, c)
BY DEF Grows, Live, Firm

LEMMA FitsMore ==
  ASSUME NEW m, NEW ts, NEW us, Fits(m, ts), ts \subseteq us
  PROVE  Fits(m, us)
BY DEF Fits

\* A live address is that of a cell in use, or Wild.
LEMMA LiveIs ==
  ASSUME NEW m, NEW ts, Fits(m, ts), NEW c, Live(m, c)
  PROVE  c \in Cells /\ c.t \in ts \cup {Freed}
BY CellsAre DEF Fits, Live, Firm

LEMMA ExistsIs ==
  ASSUME NEW m, NEW t \in TableIds, NEW n \in Slots
  PROVE  Exists(m, t, n) <=> Firm(m, Cell(t, n))
BY CellsAre DEF Exists, Firm, At

\* A value put in a cell, be it new.
LEMMA PutFits ==
  ASSUME NEW m, NEW ts, Fits(m, ts), NEW c \in Cells, c.t \in ts \cup {Freed},
         NEW v, Held(m, v), v # Absent
  PROVE  Fits(Put(m, c, v), ts) /\ Grows(m, Put(m, c, v)) /\ Firm(Put(m, c, v), c)
<1> DEFINE m2 == Put(m, c, v)
<1>1. m \in Memories /\ v \in Values
  BY DEF Fits, Held
<1>2. m2 \in Memories /\ \A d \in Cells : At(m2, d) = IF d = c THEN v ELSE At(m, d)
  BY <1>1, PutAt
<1> HIDE DEF m2
<1>3. Grows(m, m2) /\ Firm(m2, c)
  BY <1>2 DEF Grows, Firm
<1>4. \A d \in Cells : At(m2, d) # Absent => d.t \in ts \cup {Freed}
  BY <1>2 DEF Fits
<1>5. ASSUME NEW d \in Cells
      PROVE  Held(m2, At(m2, d))
  <2>1. Held(m, At(m, d))
    BY DEF Fits
  <2>2. Held(m2, At(m, d)) /\ Held(m2, v)
    BY <2>1, <1>3, HeldOn
  <2> QED BY <2>2, <1>2
<1>6. Fits(m2, ts)
  BY <1>2, <1>4, <1>5 DEF Fits
<1> QED BY <1>3, <1>6 DEF m2

\* get: the entry found, or the nil entry.
LEMMA GetFits ==
  ASSUME NEW m, NEW ts, Fits(m, ts), NEW t \in TableIds, t \in ts, NEW n \in Slots
  PROVE  /\ Fits(AfterGet(m, t, n), ts)
         /\ Grows(m, AfterGet(m, t, n))
         /\ Firm(AfterGet(m, t, n), Got(AfterGet(m, t, n), t, n))
         /\ \A u \in TableIds, x \in Names : Exists(AfterGet(m, t, n), u, x) <=> Exists(m, u, x)
<1> DEFINE c == Cell(t, NilName)  d == Cell(t, n)  m2 == AfterGet(m, t, n)
<1>1. c \in Cells /\ c.t \in ts /\ d \in Cells /\ NilName \in Slots
  BY CellsAre DEF Slots
<1>2. Held(m, Nil) /\ Nil # Absent
  BY ValuesAre DEF Held
<1>3. CASE Exists(m, t, n) \/ Exists(m, t, NilName)
  <2>1. m2 = m
    BY <1>3 DEF AfterGet
  <2>2. Firm(m, Got(m, t, n))
    BY <1>1, <1>3, ExistsIs DEF Got
  <2> QED BY <2>1, <2>2 DEF Grows
<1>4. CASE ~(Exists(m, t, n) \/ Exists(m, t, NilName))
  <2>1. m2 = Put(m, c, Nil)
    BY <1>4 DEF AfterGet
  <2>2. Fits(m2, ts) /\ Grows(m, m2) /\ Firm(m2, c)
    BY <2>1, <1>1, <1>2, PutFits
  <2>3. \A e \in Cells : At(m2, e) = IF e = c THEN Nil ELSE At(m, e)
    BY <2>1, <1>1, ValuesAre, PutAt DEF Fits
  <2>4. \A u \in TableIds, x \in Slots : Cell(u, x) # c => (Exists(m2, u, x) <=> Exists(m, u, x))
    <3> SUFFICES ASSUME NEW u \in TableIds, NEW x \in Slots, Cell(u, x) # c
                 PROVE  Exists(m2, u, x) <=> Exists(m, u, x)
      OBVIOUS
    <3> HIDE DEF m2, c
    <3> QED BY <2>3, CellsAre, ExistsIs DEF Firm
  <2>5. \A u \in TableIds, x \in Names : Exists(m2, u, x) <=> Exists(m, u, x)
    <3>1. \A u \in TableIds, x \in Names : x \in Slots /\ Cell(u, x) # c
      BY NamesAssumption DEF Cell, Slots
    <3> QED BY <3>1, <2>4
  <2>6. Firm(m2, Got(m2, t, n))
    <3>1. Exists(m2, t, n) => Firm(m2, Cell(t, n))
      BY ExistsIs
    <3> QED BY <3>1, <2>2 DEF Got
  <2> QED BY <2>2, <2>5, <2>6
<1> QED BY <1>3, <1>4

LEMMA MadeFits ==
  ASSUME NEW m, NEW ts, Fits(m, ts), NEW t \in TableIds, t \in ts, NEW n \in Slots
  PROVE  /\ Fits(Made(m, t, n), ts)
         /\ Grows(m, Made(m, t, n))
         /\ Firm(Made(m, t, n), Cell(t, n))
         /\ \A u \in TableIds : Exists(Made(m, t, n), u, n) <=> Exists(m, u, n) \/ u = t
<1> DEFINE c == Cell(t, n)  m2 == Made(m, t, n)
<1>1. c \in Cells /\ c.t = t
  BY CellsAre
<1>2. Held(m, Nil) /\ Nil # Absent
  BY ValuesAre DEF Held
<1>3. CASE Exists(m, t, n)
  <2>1. m2 = m
    BY <1>3 DEF Made
  <2> QED BY <2>1, <1>1, <1>3, ExistsIs DEF Grows
<1>4. CASE ~Exists(m, t, n)
  <2>1. m2 = Put(m, c, Nil)
    BY <1>4 DEF Made
  <2>2. Fits(m2, ts) /\ Grows(m, m2) /\ Firm(m2, c)
    BY <2>1, <1>1, <1>2, PutFits
  <2>3. \A e \in Cells : At(m2, e) = IF e = c THEN Nil ELSE At(m, e)
    BY <2>1, <1>1, ValuesAre, PutAt DEF Fits
  <2>4. ASSUME NEW u \in TableIds
        PROVE  Exists(m2, u, n) <=> Exists(m, u, n) \/ u = t
    <3>1. Cell(u, n) \in Cells /\ (Cell(u, n) = c <=> u = t)
      BY CellsAre
    <3> HIDE DEF m2, c
    <3> QED BY <2>3, <3>1, <1>2, ExistsIs DEF Firm
  <2> QED BY <2>2, <2>4
<1> QED BY <1>3, <1>4

\* One step through a reference.
LEMMA FollowLive ==
  ASSUME NEW m, NEW ts, Fits(m, ts), NEW c, Live(m, c)
  PROVE  Live(m, Follow(m, c))
<1>1. c \in Cells
  BY LiveIs
<1>2. Held(m, At(m, c))
  BY <1>1 DEF Fits
<1> QED BY <1>2 DEF Follow, Held

LEMMA DerefHeld ==
  ASSUME NEW m, NEW ts, Fits(m, ts), NEW v, Held(m, v)
  PROVE  Held(m, Deref(m, v))
<1>1. IsRef(v) => Target(v) \in Cells
  BY LiveIs DEF Held
<1> QED BY <1>1 DEF Deref, Fits

LEMMA RefOfHeld ==
  ASSUME NEW m, NEW ts, Fits(m, ts), NEW c, Live(m, c)
  PROVE  Held(m, RefOf(m, c)) /\ RefOf(m, c) # Absent
<1>1. c \in Cells
  BY LiveIs
<1>2. Held(m, At(m, c))
  BY <1>1 DEF Fits
<1>3. Held(m, RefTo(c)) /\ RefTo(c) # Absent
  BY <1>1, ValuesAre DEF Held
<1>4. IsRef(At(m, c)) => At(m, c) # Absent
  BY ValuesAre
<1> QED BY <1>2, <1>3, <1>4 DEF RefOf

LEMMA WriteFits ==
  ASSUME NEW m, NEW ts, Fits(m, ts), NEW c, Live(m, c), NEW v, Held(m, v), v # Absent
  PROVE  Fits(Write(m, c, v), ts) /\ Grows(m, Write(m, c, v))
<1>1. CASE v = RefTo(c)
  BY <1>1 DEF Write, Grows
<1>2. CASE v # RefTo(c)
  <2>1. Write(m, c, v) = Put(m, Follow(m, c), v)
    BY <1>2 DEF Write
  <2>2. Live(m, Follow(m, c))
    BY FollowLive
  <2>3. Follow(m, c) \in Cells /\ Follow(m, c).t \in ts \cup {Freed}
    BY <2>2, LiveIs
  <2> QED BY <2>1, <2>3, PutFits
<1> QED BY <1>1, <1>2

LEMMA FreeFits ==
  ASSUME NEW m, NEW ts, Fits(m, ts), NEW cs
  PROVE  /\ Fits(Free(m, cs), ts)
         /\ \A c \in cs \cap Cells : ~Firm(Free(m, cs), c)
         /\ \A v : Held(m, v) => Held(Free(m, cs), Outliving(v, cs))
<1> DEFINE m2 == Free(m, cs)
<1>1. m \in Memories
  BY DEF Fits
<1>2. m2 \in Memories /\ \A d \in Cells : At(m2, d) =
        IF d \in cs THEN Absent ELSE Outliving(At(m, d), cs)
  BY <1>1, FreeAt
<1> HIDE DEF m2
<1>3. \A v : v # Absent => Outliving(v, cs) # Absent
  BY ValuesAre, CellsAre DEF Outliving
<1>4. \A c \in Cells : Firm(m, c) /\ c \notin cs => Firm(m2, c)
  BY <1>2, <1>3 DEF Firm
<1>5. \A v : Held(m, v) => Held(m2, Outliving(v, cs))
  BY <1>4, ValuesAre, CellsAre DEF Held, Live, Firm, Outliving
<1>6. \A c \in Cells : At(m2, c) # Absent => At(m, c) # Absent /\ c \notin cs
  BY <1>2, ValuesAre DEF Outliving
<1>7. \A c \in Cells : Held(m2, At(m2, c))
  <2>1. Held(m2, Absent)
    BY ValuesAre DEF Held
  <2>2. \A c \in Cells : Held(m, At(m, c))
    BY DEF Fits
  <2> QED BY <2>1, <2>2, <1>2, <1>5
<1>8. Fits(m2, ts)
  BY <1>2, <1>6, <1>7 DEF Fits
<1> QED BY <1>5, <1>6, <1>8 DEF m2, Firm

-----------------------------------------------------------------------------
(***************************************************************************)
(* Expressions, in memory whose cells are in the tables in use.            *)
(***************************************************************************)
\* Whether an expression is a name or a box's entry, that is, has a cell.
Named(e) == e.k \in {"id", "dot"} /\ e.n \in Names /\ e.global \in BOOLEAN

LEMMA ExprsAre ==
  /\ \A e \in Exprs : Named(e) \/ (e.k = "lit" /\ e.n \in Vals \cup {"nil"})
  /\ \A e \in Ids : e \in Exprs /\ Named(e) /\ e.k = "id"
  /\ \A e \in Ids \cup Dots : e \in Exprs /\ Named(e)
  /\ NilExpr \in Exprs
  /\ Names \subseteq Slots
BY DEF Exprs, Ids, Lits, Dots, Named, NilExpr, Slots

LEMMA ScopeInUse ==
  ASSUME StackFits(stack), NEW m, NEW e, Named(e), NEW used
  PROVE  Scope(m, e, used) \in TablesOf(stack) /\ Scope(m, e, used) \in TableIds \ {Freed}
BY LookupInUse DEF Scope, Named

LEMMA TouchFits ==
  ASSUME StackFits(stack), NEW m, Fits(m, TablesOf(stack)), NEW e \in Exprs, NEW used
  PROVE  Fits(Touch(m, e, used), TablesOf(stack)) /\ Grows(m, Touch(m, e, used))
<1>1. CASE e.k = "lit"
  BY <1>1 DEF Touch, Grows
<1>2. CASE Named(e)
  BY <1>2, ScopeInUse, GetFits, ExprsAre DEF Touch, Named
<1> QED BY <1>1, <1>2, ExprsAre

\* After get() the name, or the nil entry, is there.
LEMMA RawFirm ==
  ASSUME StackFits(stack), NEW m, Fits(m, TablesOf(stack)), NEW e \in Exprs, Named(e), NEW used
  PROVE  Firm(Touch(m, e, used), Raw(Touch(m, e, used), e, used))
<1> DEFINE t == Scope(m, e, used)  m2 == AfterGet(m, t, e.n)
<1>1. Touch(m, e, used) = m2
  BY DEF Touch, Named
<1>2. t \in TablesOf(stack) /\ t \in TableIds
  BY ScopeInUse
<1>3. Firm(m2, Got(m2, t, e.n)) /\ \A u \in TableIds : Exists(m2, u, e.n) <=> Exists(m, u, e.n)
  BY <1>2, GetFits, ExprsAre DEF Named
<1>4. Scope(m2, e, used) = t
  BY <1>3, LookupSame DEF Scope, Named
<1> QED BY <1>1, <1>3, <1>4 DEF Raw

LEMMA ReferencedLive ==
  ASSUME StackFits(stack), NEW m, Fits(m, TablesOf(stack)), NEW e \in Exprs, Named(e), NEW used
  PROVE  Live(Touch(m, e, used), Referenced(Touch(m, e, used), e, used))
BY TouchFits, RawFirm, FollowLive DEF Referenced, Live

LEMMA EvaluateHeld ==
  ASSUME StackFits(stack), NEW m, Fits(m, TablesOf(stack)), NEW e \in Exprs, NEW used
  PROVE  Held(Touch(m, e, used), Evaluate(Touch(m, e, used), e, used))
<1> DEFINE m2 == Touch(m, e, used)  c == Referenced(m2, e, used)
<1>1. Fits(m2, TablesOf(stack))
  BY TouchFits
<1>2. CASE e.k = "lit" /\ e.n \in Vals \cup {"nil"}
  BY <1>2, ValuesAre DEF Evaluate, Held
<1>3. CASE Named(e)
  <2>1. Live(m2, c)
    BY <1>3, ReferencedLive
  <2>2. c \in Cells
    BY <2>1, <1>1, LiveIs
  <2>3. Held(m2, At(m2, c)) /\ Held(m2, RefOf(m2, c))
    BY <2>1, <2>2, <1>1, RefOfHeld DEF Fits
  <2>4. Evaluate(m2, e, used) = At(m2, c) \/ Evaluate(m2, e, used) = RefOf(m2, c)
    BY <1>3 DEF Evaluate, Named
  <2> QED BY <2>3, <2>4
<1> QED BY <1>2, <1>3, ExprsAre

LEMMA RValueHeld ==
  ASSUME StackFits(stack), NEW m, Fits(m, TablesOf(stack)), NEW e \in Exprs, NEW used
  PROVE  Held(Touch(m, e, used), RValue(m, e, used))
BY TouchFits, EvaluateHeld, DerefHeld DEF RValue

\* A value that was read is there, so the expression gave one.
LEMMA RValueThere ==
  ASSUME NEW m, NEW ts, Fits(m, ts), NEW v, Held(m, v), Deref(m, v) # Absent
  PROVE  v # Absent
BY ValuesAre DEF Deref

\* An identifier is made where it is assigned.
LEMMA AssignedFits ==
  ASSUME StackFits(stack), NEW m, Fits(m, TablesOf(stack)), NEW id \in Ids, NEW used,
         NEW v, Held(m, v), v # Absent
  PROVE  /\ Fits(Assigned(m, id, v, used).m, TablesOf(stack))
         /\ Grows(m, Assigned(m, id, v, used).m)
         /\ Live(Assigned(m, id, v, used).m, Assigned(m, id, v, used).c)
<1> DEFINE t == Scope(m, id, used)  made == Made(m, t, id.n)
           raw == Raw(made, id, used)  c == Follow(made, raw)
<1>1. Named(id) /\ id.n \in Slots
  BY ExprsAre DEF Named
<1>2. t \in TablesOf(stack) /\ t \in TableIds
  BY <1>1, ScopeInUse
<1>3. Fits(made, TablesOf(stack)) /\ Grows(m, made)
      /\ \A u \in TableIds : Exists(made, u, id.n) <=> Exists(m, u, id.n) \/ u = t
  BY <1>1, <1>2, MadeFits
<1>4. Firm(made, raw)
  <2>1. Exists(made, Scope(made, id, used), id.n)
    BY <1>1, <1>3, LookupStays DEF Scope, Named
  <2>2. Scope(made, id, used) \in TableIds
    BY <1>1, ScopeInUse
  <2> QED BY <2>1, <2>2, <1>1, ExistsIs DEF Raw, Got
<1>5. Live(made, raw) /\ Live(made, c)
  BY <1>3, <1>4, FollowLive DEF Live
<1>6. Assigned(m, id, v, used) = [m |-> Write(made, c, v), c |-> c]
  BY DEF Assigned, Referenced
<1>7. Held(made, v)
  BY <1>3, HeldOn
<1>8. Fits(Write(made, c, v), TablesOf(stack)) /\ Grows(made, Write(made, c, v))
  BY <1>3, <1>5, <1>7, WriteFits
<1>9. Live(Write(made, c, v), c)
  BY <1>5, <1>8, LiveOn
<1> QED BY <1>3, <1>6, <1>8, <1>9, GrowsOn

-----------------------------------------------------------------------------
(***************************************************************************)
(* Fitting is inductive: every program keeps it.                           *)
(***************************************************************************)
\* The step to memory m, if it is taken, stays clean.
LEMMA BecomeFits ==
  ASSUME NEW m, NEW ok, NEW ts, Fits(table, ts), Clean(table),
         ok => Fits(m, ts), Become(m, ok)
  PROVE  Fits(table', ts) /\ Clean(table')
<1>1. CASE ok /\ m[Freed] = Empty
  <2>1. table' = m /\ Fits(m, ts)
    BY <1>1 DEF Become
  <2>2. Clean(m)
    <3>1. Freed \in TableIds
      BY CellsAre
    <3> QED BY <3>1, <2>1, <1>1, EmptyIs DEF Clean, Fits
  <2> QED BY <2>1, <2>2
<1>2. CASE ~(ok /\ m[Freed] = Empty)
  BY <1>2 DEF Become
<1> QED BY <1>1, <1>2

\* Steps that neither push nor pop.
LEMMA StayFits ==
  ASSUME Fitting, stack' = stack, NEW m, NEW ok,
         ok => Fits(m, TablesOf(stack)), Become(m, ok)
  PROVE  Fitting'
<1>1. Fits(table', TablesOf(stack)) /\ Clean(table')
  BY BecomeFits DEF Fitting
<1> QED BY <1>1 DEF Fitting

LEMMA PushFits ==
  ASSUME StackFits(stack), Depth < MaxDepth, NEW f \in Kinded,
         f.kind = "body" => f.table = LoopTable /\ Top.kind = "proxy",
         f.kind = "box" => f.table = BoxTable,
         f.kind \notin {"body", "box"} => f.table = Depth + 1,
         f.kind = "proxy" => Depth + 1 < MaxDepth,
         Push(f)
  PROVE  StackFits(stack') /\ TablesOf(stack') = TablesOf(stack) \cup {f.table}
<1>1. /\ stack \in Seq(Kinded) /\ Len(stack) \in 1..MaxDepth /\ Len(stack) \in Nat
      /\ stack' = Append(stack, f)
  BY FramesAre DEF StackFits, Push, Depth
<1>2. /\ stack' \in Seq(Kinded) /\ Len(stack') = Len(stack) + 1
      /\ \A i \in 1..Len(stack) : stack'[i] = stack[i]
      /\ stack'[Len(stack) + 1] = f
  BY <1>1
<1>3. \A i \in 1..Len(stack) : FrameFits(stack', i)
  <2> SUFFICES ASSUME NEW i \in 1..Len(stack)
               PROVE  FrameFits(stack', i)
    OBVIOUS
  <2>1. FrameFits(stack, i) /\ stack'[i] = stack[i]
    BY <1>2 DEF StackFits
  <2>2. i > 2 => stack'[i - 1] = stack[i - 1]
    BY <1>1, <1>2
  <2> QED BY <2>1, <2>2 DEF FrameFits
<1>4. FrameFits(stack', Len(stack) + 1)
  <2>1. stack[Len(stack)].kind = "proxy" => Len(stack) > 1
    BY <1>1 DEF StackFits, FrameFits
  <2>2. stack'[Len(stack) + 1] = f /\ stack'[(Len(stack) + 1) - 1] = Top /\ Depth = Len(stack)
    BY <1>1, <1>2 DEF Top, Depth
  <2> QED BY <1>1, <2>1, <2>2 DEF FrameFits, Top
<1>5. StackFits(stack')
  <2>1. Len(stack') \in 1..MaxDepth
    BY <1>1, <1>2, DepthAssumption DEF Depth
  <2>2. stack'[1] = Frame("main", Main, FALSE)
    <3>1. 1 \in 1..Len(stack)
      BY <1>1
    <3>2. stack'[1] = stack[1]
      BY <1>2, <3>1
    <3> QED BY <3>2 DEF StackFits
  <2>3. \A i \in 1..Len(stack') : i \in 1..Len(stack) \/ i = Len(stack) + 1
    BY <1>1, <1>2
  <2>4. \A i \in 1..Len(stack') : FrameFits(stack', i)
    BY <2>3, <1>3, <1>4
  <2> QED BY <1>2, <2>1, <2>2, <2>4 DEF StackFits
<1>6. TablesOf(stack') = TablesOf(stack) \cup {f.table}
  BY <1>1, <1>2 DEF TablesOf
<1> QED BY <1>5, <1>6

LEMMA PopFits ==
  ASSUME StackFits(stack), NEW n \in 1..Depth, stack' = SubSeq(stack, 1, n)
  PROVE  /\ StackFits(stack')
         /\ Len(stack') = n /\ \A i \in 1..n : stack'[i] = stack[i]
<1>1. /\ stack \in Seq(Kinded) /\ Len(stack) \in 1..MaxDepth /\ Len(stack) \in Nat
      /\ n \in 1..Len(stack)
  BY FramesAre DEF StackFits, Depth
<1>2. stack' \in Seq(Kinded) /\ Len(stack') = n /\ \A i \in 1..n : stack'[i] = stack[i]
  BY <1>1
<1>3. \A i \in 1..n : FrameFits(stack', i)
  <2> SUFFICES ASSUME NEW i \in 1..n
               PROVE  FrameFits(stack', i)
    OBVIOUS
  <2>1. FrameFits(stack, i) /\ stack'[i] = stack[i]
    BY <1>1, <1>2 DEF StackFits
  <2>2. i > 2 => stack'[i - 1] = stack[i - 1]
    BY <1>1, <1>2
  <2> QED BY <2>1, <2>2 DEF FrameFits
<1>4. Len(stack') \in 1..MaxDepth /\ stack'[1] = Frame("main", Main, FALSE)
  <2>1. 1 \in 1..n /\ n \in 1..MaxDepth
    BY <1>1, DepthAssumption
  <2>2. stack'[1] = stack[1]
    BY <1>2, <2>1
  <2> QED BY <1>2, <2>1, <2>2 DEF StackFits
<1>5. StackFits(stack')
  BY <1>2, <1>3, <1>4 DEF StackFits
<1> QED BY <1>2, <1>5

\* A frame is pushed, and at most a cell of its own table is made.
LEMMA EnterFits ==
  ASSUME Fitting, Depth < MaxDepth, NEW f \in Kinded,
         f.kind = "body" => f.table = LoopTable /\ Top.kind = "proxy",
         f.kind = "box" => f.table = BoxTable,
         f.kind \notin {"body", "box"} => f.table = Depth + 1,
         f.kind = "proxy" => Depth + 1 < MaxDepth,
         Push(f),
         UNCHANGED table
  PROVE  Fitting'
<1>1. StackFits(stack') /\ TablesOf(stack') = TablesOf(stack) \cup {f.table}
  BY PushFits DEF Fitting
<1>2. Fits(table, TablesOf(stack'))
  BY <1>1, FitsMore DEF Fitting
<1> QED BY <1>1, <1>2 DEF Fitting

LEMMA InitFits ==
  ASSUME Init
  PROVE  Fitting
<1>1. StackFits(stack)
  BY DepthAssumption DEF Init, StackFits, Kinded, FrameKinds, Frame, FrameFits, TableIds, Freed, Main
<1>2. table \in Memories /\ \A c \in Cells : At(table, c) = Absent
  BY ValuesAre, CellsAre DEF Init, Memories, Empty, At
<1>3. Held(table, Absent)
  BY ValuesAre DEF Held
<1> QED BY <1>1, <1>2, <1>3 DEF Fitting, Fits, Clean

LEMMA AssignFits ==
  ASSUME Fitting, NEW l \in Ids \cup Dots, NEW e \in Exprs, Assign(l, e)
  PROVE  Fitting'
<1> DEFINE ts == TablesOf(stack)
           v == RValue(table, e, InUse)  m == Touch(table, e, InUse)
           r == Touch(m, l, InUse)
           to == IF l.k = "id" THEN Assigned(m, l, v, InUse).m
                 ELSE Write(r, Referenced(r, l, InUse), v)
<1>1. Fits(m, ts) /\ Held(m, v)
  BY TouchFits, RValueHeld DEF Fitting
<1>2. stack' = stack /\ Become(to, v # Absent)
  BY DEF Assign
<1>3. l \in Exprs /\ Named(l) /\ (l.k = "id" => l \in Ids)
  BY ExprsAre DEF Dots
<1> HIDE DEF m, v
<1>4. ASSUME v # Absent
      PROVE  Fits(to, ts)
  <2>1. CASE l.k = "id"
    BY <2>1, <1>1, <1>3, <1>4, AssignedFits DEF Fitting
  <2>2. CASE l.k # "id"
    <3>1. Fits(r, ts) /\ Held(r, v)
      BY <1>1, <1>3, TouchFits, HeldOn DEF Fitting
    <3>2. Live(r, Referenced(r, l, InUse))
      BY <1>1, <1>3, ReferencedLive DEF Fitting
    <3> QED BY <3>1, <3>2, <2>2, <1>4, WriteFits
  <2> QED BY <2>1, <2>2
<1> HIDE DEF to
<1> QED BY <1>2, <1>4, StayFits

LEMMA MoveFits ==
  ASSUME Fitting, NEW l \in Ids \cup Dots, NEW e \in Exprs, Move(l, e)
  PROVE  Fitting'
<1> DEFINE ts == TablesOf(stack)
           v == RValue(table, e, InUse)  t == Touch(table, e, InUse)
           gone == IF e.k = "id" THEN Cell(Scope(t, e, InUse), e.n) ELSE Wild
           m == IF e.k = "id" THEN Free(t, {gone}) ELSE t
           kept == Outliving(v, {gone})
           r == Touch(m, l, InUse)
           c == Referenced(r, l, InUse)
<1>1. Fits(t, ts) /\ Held(t, v)
  BY TouchFits, RValueHeld DEF Fitting
<1>2. stack' = stack /\ Become(Write(r, c, kept), v # Absent)
  BY DEF Move
<1>3. l \in Exprs /\ Named(l)
  BY ExprsAre
<1> HIDE DEF v, t
<1>4. Fits(m, ts) /\ Held(m, kept)
  <2>1. CASE e.k = "id"
    BY <2>1, <1>1, FreeFits
  <2>2. CASE e.k # "id"
    <3>1. Outliving(v, {Wild}) = v
      BY <1>1, ValuesAre DEF Outliving, Held
    <3> QED BY <2>2, <3>1, <1>1
  <2> QED BY <2>1, <2>2
<1>5. v # Absent => kept # Absent
  BY <1>1, ValuesAre, CellsAre DEF Outliving
<1> HIDE DEF m, kept
<1>6. Fits(r, ts) /\ Held(r, kept)
  BY <1>3, <1>4, TouchFits, HeldOn DEF Fitting
<1>7. Live(r, c)
  BY <1>3, <1>4, ReferencedLive DEF Fitting
<1> HIDE DEF r, c
<1>8. v # Absent => Fits(Write(r, c, kept), ts)
  BY <1>5, <1>6, <1>7, WriteFits
<1> QED BY <1>2, <1>8, StayFits

LEMMA DeleteFits ==
  ASSUME Fitting, NEW id, Delete(id)
  PROVE  Fitting'
BY FreeFits, StayFits DEF Fitting, Delete

LEMMA PurgeFits ==
  ASSUME Fitting, Purge
  PROVE  Fitting'
BY FreeFits, StayFits DEF Fitting, Purge

LEMMA ReadFits ==
  ASSUME Fitting, NEW id \in Ids, Read(id)
  PROVE  Fitting'
BY TouchFits, StayFits, ExprsAre DEF Fitting, Read

LEMMA VarFits ==
  ASSUME Fitting, NEW n \in Names, NEW e \in Exprs, Var(n, e)
  PROVE  Fitting'
<1> DEFINE ts == TablesOf(stack)
           v == RValue(table, e, InUse)  m == Touch(table, e, InUse)
           made == Made(m, Local, n)
           c == Follow(made, Cell(Local, n))
<1>1. Fits(m, ts) /\ Held(m, v)
  BY TouchFits, RValueHeld DEF Fitting
<1>2. stack' = stack /\ Become(Write(made, c, v), v # Absent)
  BY DEF Var
<1> HIDE DEF m, v
<1>3. Fits(made, ts) /\ Grows(m, made) /\ Firm(made, Cell(Local, n))
  BY <1>1, MadeFits, FramesAre, ExprsAre DEF Fitting
<1>4. Held(made, v) /\ Live(made, c)
  BY <1>1, <1>3, HeldOn, FollowLive DEF Live
<1> HIDE DEF made, c
<1>5. v # Absent => Fits(Write(made, c, v), ts)
  BY <1>3, <1>4, WriteFits
<1> QED BY <1>2, <1>5, StayFits

LEMMA ImportFits ==
  ASSUME Fitting, NEW n \in Names, Import(n)
  PROVE  Fitting'
<1> DEFINE ts == TablesOf(stack)
           t == ScopeLookup(table, n, TRUE, InUse)
           m == AfterGet(table, t, n)
           v == RefOf(m, Got(m, t, n))
           here == Cell(Local, n)
           again == Exists(m, Local, n)
           to == IF again THEN Write(m, here, v) ELSE Put(m, here, v)
<1>1. n \in Slots /\ Local \in TableIds /\ Local \in ts
  BY ExprsAre, FramesAre DEF Fitting
<1>2. Fits(m, ts) /\ Firm(m, Got(m, t, n))
  BY <1>1, LookupInUse, GetFits DEF Fitting
<1>3. stack' = stack /\ Become(to, TRUE)
  BY DEF Import
<1> HIDE DEF m
<1>4. Held(m, v) /\ v # Absent
  BY <1>2, RefOfHeld DEF Live
<1> HIDE DEF v
<1>5. here \in Cells /\ here.t = Local /\ (again => Live(m, here))
  BY <1>1, CellsAre, ExistsIs DEF Live
<1> HIDE DEF here, again
<1>6. Fits(to, ts)
  BY <1>1, <1>2, <1>4, <1>5, WriteFits, PutFits
<1> HIDE DEF to
<1> QED BY <1>3, <1>6, StayFits

LEMMA UnwrapFits ==
  ASSUME Fitting, NEW id \in Ids, Unwrap(id)
  PROVE  Fitting'
<1> DEFINE ts == TablesOf(stack)
           m == Touch(table, id, InUse)
           c == Raw(m, id, InUse)
           v == Deref(m, At(m, c))
           cleared == Put(m, c, Nil)
<1>1. id \in Exprs /\ Named(id)
  BY ExprsAre
<1>2. Fits(m, ts) /\ Firm(m, c)
  BY <1>1, TouchFits, RawFirm DEF Fitting
<1>3. stack' = stack /\ Become(Write(cleared, c, v), v # Absent)
  BY DEF Unwrap
<1> HIDE DEF m, c
<1>4. Held(m, v) /\ c \in Cells /\ c.t \in ts \cup {Freed}
  BY <1>2, DerefHeld, LiveIs DEF Fits, Firm, Live
<1>5. Held(m, Nil) /\ Nil # Absent
  BY ValuesAre DEF Held
<1>6. Fits(cleared, ts) /\ Grows(m, cleared) /\ Firm(cleared, c)
  BY <1>2, <1>4, <1>5, PutFits
<1> HIDE DEF v, cleared
<1>7. Held(cleared, v)
  BY <1>4, <1>6, HeldOn
<1>8. v # Absent => Fits(Write(cleared, c, v), ts)
  BY <1>6, <1>7, WriteFits DEF Live
<1> QED BY <1>3, <1>8, StayFits

LEMMA ResetFits ==
  ASSUME Fitting, NEW id \in Ids, NEW to \in Ids, Reset(id, to)
  PROVE  Fitting'
<1> DEFINE ts == TablesOf(stack)
           m == Touch(table, id, InUse)
           c == Raw(m, id, InUse)
           r == Touch(m, to, InUse)
           d == Referenced(r, to, InUse)
           v == RefOf(r, d)
<1>1. id \in Exprs /\ Named(id) /\ to \in Exprs /\ Named(to)
  BY ExprsAre
<1>2. Fits(m, ts) /\ Firm(m, c)
  BY <1>1, TouchFits, RawFirm DEF Fitting
<1>3. stack' = stack /\ Become(Put(r, c, v), d # Wild)
  BY DEF Reset
<1> HIDE DEF m, c
<1>4. Fits(r, ts) /\ Grows(m, r) /\ Live(r, d)
  BY <1>1, <1>2, TouchFits, ReferencedLive DEF Fitting
<1> HIDE DEF r, d
<1>5. Held(r, v) /\ v # Absent
  BY <1>4, RefOfHeld
<1>6. Live(r, c)
  BY <1>2, <1>4, LiveOn DEF Live
<1>7. c \in Cells /\ c.t \in ts \cup {Freed}
  BY <1>4, <1>6, LiveIs
<1> HIDE DEF v
<1>8. Fits(Put(r, c, v), ts)
  BY <1>4, <1>5, <1>7, PutFits
<1> QED BY <1>3, <1>8, StayFits

\* The current table with what the box has more.
BoxImported ==
  [table EXCEPT ![Local] = [n \in Slots |-> IF @[n] = Absent THEN table[BoxTable][n] ELSE @[n]]]

LEMMA BoxImportedAt ==
  ASSUME Fitting
  PROVE  /\ BoxImported \in Memories
         /\ \A c \in Cells : At(BoxImported, c) =
              IF c.t = Local /\ At(table, c) = Absent THEN At(table, Cell(BoxTable, c.n))
              ELSE At(table, c)
<1> DEFINE row == [n \in Slots |-> IF table[Local][n] = Absent THEN table[BoxTable][n]
                                   ELSE table[Local][n]]
<1>1. table \in Memories /\ Local \in TableIds /\ BoxTable \in TableIds
  BY FramesAre, TablesAre DEF Fitting, Fits
<1>2. row \in [Slots -> Values]
  BY <1>1 DEF Memories
<1>3. BoxImported = [table EXCEPT ![Local] = row]
  BY DEF BoxImported
<1>4. \A n \in Slots : row[n] =
        IF table[Local][n] = Absent THEN table[BoxTable][n] ELSE table[Local][n]
  OBVIOUS
<1> HIDE DEF row
<1>5. BoxImported \in Memories
  BY <1>1, <1>2, <1>3 DEF Memories
<1>6. ASSUME NEW c \in Cells
      PROVE  At(BoxImported, c) =
               IF c.t = Local /\ At(table, c) = Absent THEN At(table, Cell(BoxTable, c.n))
               ELSE At(table, c)
  <2>1. c.t \in TableIds /\ c.n \in Slots /\ Cell(BoxTable, c.n).t = BoxTable
        /\ Cell(BoxTable, c.n).n = c.n
    BY <1>1, CellsAre
  <2>2. BoxImported[c.t] = IF c.t = Local THEN row ELSE table[c.t]
    BY <1>1, <1>3, <2>1 DEF Memories
  <2> QED BY <2>1, <2>2, <1>4 DEF At
<1> QED BY <1>5, <1>6

LEMMA ImportBoxFits ==
  ASSUME Fitting, ImportBox
  PROVE  Fitting'
<1> DEFINE ts == TablesOf(stack)  m == BoxImported
<1>1. stack' = stack /\ Become(m, TRUE)
  BY DEF ImportBox, BoxImported
<1>2. m \in Memories /\ \A c \in Cells : At(m, c) =
        IF c.t = Local /\ At(table, c) = Absent THEN At(table, Cell(BoxTable, c.n))
        ELSE At(table, c)
  BY BoxImportedAt
<1>3. Local \in ts /\ BoxTable \in TableIds
  BY FramesAre, TablesAre DEF Fitting
<1> HIDE DEF m
<1>4. Grows(table, m)
  BY <1>2 DEF Grows, Firm
<1>5. \A c \in Cells : Held(m, At(table, c))
  BY <1>4, HeldOn DEF Fitting, Fits
<1>6. \A c \in Cells : Cell(BoxTable, c.n) \in Cells
  BY <1>3, CellsAre
<1>7. \A c \in Cells : Held(m, At(m, c))
  BY <1>2, <1>5, <1>6
<1>8. \A c \in Cells : At(m, c) # Absent => c.t \in ts \cup {Freed}
  BY <1>2, <1>3 DEF Fitting, Fits
<1>9. Fits(m, ts)
  BY <1>2, <1>7, <1>8 DEF Fits
<1> QED BY <1>1, <1>9, StayFits

LEMMA EnterBlockFits ==
  ASSUME Fitting, NEW kind \in {"unit", "block"}, EnterBlock(kind)
  PROVE  Fitting'
<1>1. Depth \in 1..MaxDepth /\ Depth < MaxDepth /\ InUse \in BOOLEAN
  BY FramesAre DEF Fitting, EnterBlock, InUse, Top, Kinded
<1>2. Frame(kind, Depth + 1, InUse) \in Kinded
  BY <1>1, DepthAssumption DEF Frame, Kinded, FrameKinds, TableIds, Freed
<1> QED BY <1>1, <1>2, EnterFits DEF EnterBlock, Frame

LEMMA EnterLoopFits ==
  ASSUME Fitting, EnterLoop
  PROVE  Fitting'
<1>1. Depth \in 1..MaxDepth /\ Depth < MaxDepth - 1 /\ InUse \in BOOLEAN
  BY FramesAre DEF Fitting, EnterLoop, InUse, Top, Kinded
<1>2. Frame("proxy", Depth + 1, InUse) \in Kinded
  BY <1>1, DepthAssumption DEF Frame, Kinded, FrameKinds, TableIds, Freed
<1>3. Depth < MaxDepth /\ Depth + 1 < MaxDepth
  BY <1>1, DepthAssumption
<1> QED BY <1>2, <1>3, EnterFits DEF EnterLoop, Frame

LEMMA EnterBodyFits ==
  ASSUME Fitting, EnterBody
  PROVE  Fitting'
<1>1. Depth \in 1..MaxDepth /\ InUse \in BOOLEAN /\ Top.kind = "proxy"
  BY FramesAre DEF Fitting, EnterBody, InUse, Top, Kinded
<1>2. Depth < MaxDepth
  BY <1>1 DEF Fitting, StackFits, FrameFits, Top, Depth
<1>3. Frame("body", LoopTable, InUse) \in Kinded
  BY <1>1, DepthAssumption DEF Frame, Kinded, FrameKinds, TableIds, Freed, LoopTable
<1> QED BY <1>1, <1>2, <1>3, EnterFits DEF EnterBody, Frame

LEMMA EnterBoxFits ==
  ASSUME Fitting, EnterBox
  PROVE  Fitting'
<1>1. Depth \in 1..MaxDepth /\ Depth < MaxDepth /\ InUse \in BOOLEAN
  BY FramesAre DEF Fitting, EnterBox, InUse, Top, Kinded
<1>2. Frame("box", BoxTable, InUse) \in Kinded
  BY <1>1, DepthAssumption DEF Frame, Kinded, FrameKinds, TableIds, Freed, BoxTable
<1> QED BY <1>1, <1>2, EnterFits DEF EnterBox, Frame

\* The memory with which a callee begins: its argument in a cell of its own.
LEMMA CallFits ==
  ASSUME Fitting, NEW kind \in {"fn", "lambda"}, NEW param \in Names, NEW arg \in Args,
         NEW used \in BOOLEAN, Call(kind, param, arg, used)
  PROVE  Fitting'
<1> DEFINE ts == TablesOf(stack)
           us == TablesOf(stack')
           u == InUse \/ used
           own == Cell(Depth + 1, param)
           e == IF arg.k = "none" THEN NilExpr ELSE arg.e
           v == RValue(table, e, u)
           m == Touch(table, e, u)
           x == Evaluate(m, e, u)
           set == Assigned(m, arg.id, v, u)
           bound == IF arg.k = "set" THEN Put(set.m, own, RefOf(set.m, set.c))
                    ELSE Put(m, own, x)
           ok == v # Absent /\ (arg.k = "set" => set.c # Wild)
<1>1. /\ Become(bound, ok) /\ Push(Frame(kind, Depth + 1, u))
      /\ Depth < MaxDepth
  BY DEF Call
<1>2. Depth \in 1..MaxDepth /\ InUse \in BOOLEAN
  BY FramesAre DEF Fitting, InUse, Top, Kinded
<1>3. Frame(kind, Depth + 1, u) \in Kinded
  BY <1>1, <1>2, DepthAssumption DEF Frame, Kinded, FrameKinds, TableIds, Freed
<1>4. StackFits(stack') /\ us = ts \cup {Depth + 1}
  BY <1>1, <1>3, PushFits DEF Fitting, Frame
<1>5. own \in Cells /\ own.t = Depth + 1
  BY <1>1, <1>2, CellsAre, ExprsAre, DepthAssumption DEF TableIds
<1>6. e \in Exprs /\ (arg.k = "set" => arg.id \in Ids)
  BY ExprsAre DEF Args, Exprs
<1>7. Fits(m, ts) /\ Held(m, v) /\ Held(m, x)
  BY <1>6, TouchFits, RValueHeld, EvaluateHeld DEF Fitting
<1>8. v # Absent => x # Absent
  <2>1. v = Deref(m, x)
    BY DEF RValue
  <2> QED BY <2>1, <1>7, RValueThere
<1> HIDE DEF u, own, e, v, m, x
<1>9. ASSUME ok
      PROVE  Fits(bound, us)
  <2>1. CASE arg.k = "set"
    <3>1. Fits(set.m, ts) /\ Live(set.m, set.c)
      BY <2>1, <1>6, <1>7, <1>9, AssignedFits DEF Fitting
    <3> HIDE DEF set
    <3>2. Held(set.m, RefOf(set.m, set.c)) /\ RefOf(set.m, set.c) # Absent
      BY <3>1, RefOfHeld
    <3>3. Fits(set.m, us)
      BY <3>1, <1>4, FitsMore
    <3>4. own.t \in us
      BY <1>4, <1>5
    <3> QED BY <3>2, <3>3, <3>4, <2>1, <1>5, PutFits
  <2>2. CASE arg.k # "set"
    <3>1. Fits(m, us)
      BY <1>4, <1>7, FitsMore
    <3>2. own.t \in us
      BY <1>4, <1>5
    <3> QED BY <3>1, <3>2, <2>2, <1>5, <1>7, <1>8, <1>9, PutFits
  <2> QED BY <2>1, <2>2
<1>10. Fits(table, us)
  BY <1>4, FitsMore DEF Fitting
<1> HIDE DEF bound, ok
<1>11. Fits(table', us) /\ Clean(table')
  BY <1>1, <1>9, <1>10, BecomeFits DEF Fitting
<1> QED BY <1>4, <1>11 DEF Fitting

\* The tables that are cleared when the top frame is left, and with it the proxy
\* below the body of a loop.
Parting == IF Top.kind = "body" THEN 2 ELSE 1
Left == {stack[i].table : i \in (Depth - Parting + 1)..Depth} \ {BoxTable}
Cleared == UNION {CellsOf(t) : t \in Left}

LEMMA LeaveIs ==
  ASSUME Fitting, Leave
  PROVE  /\ stack' = SubSeq(stack, 1, Depth - Parting) /\ Depth - Parting \in 1..Depth
         /\ Become(Free(table, Cleared), TRUE)
         /\ \A c \in Cells : c \in Cleared <=> c.t \in Left
<1>1. /\ stack' = SubSeq(stack, 1, Depth - Parting)
      /\ Become(Free(table, Cleared), TRUE)
      /\ Depth > 1
  BY DEF Leave, Parting, Left, Cleared
<1>2. Depth - Parting \in 1..Depth
  <2>1. Depth \in 1..MaxDepth
    BY FramesAre DEF Fitting
  <2>2. Top.kind = "body" => Depth > 2
    BY <2>1 DEF Fitting, StackFits, FrameFits, Top, Depth
  <2> QED BY <1>1, <2>1, <2>2 DEF Parting
<1>3. \A c \in Cells : c \in Cleared <=> c.t \in Left
  <2>1. \A t : \A c \in Cells : c \in CellsOf(t) <=> c.t = t
    BY CellsAre DEF CellsOf, Cell
  <2> QED BY <2>1 DEF Cleared
<1> QED BY <1>1, <1>2, <1>3

LEMMA LeaveFits ==
  ASSUME Fitting, Leave
  PROVE  Fitting'
<1> DEFINE m == Free(table, Cleared)  n == Depth - Parting
<1>1. /\ stack' = SubSeq(stack, 1, n) /\ n \in 1..Depth
      /\ Become(m, TRUE)
      /\ \A c \in Cells : c \in Cleared <=> c.t \in Left
  BY LeaveIs
<1> HIDE DEF n
<1>2. StackFits(stack') /\ Len(stack') = n /\ \A i \in 1..n : stack'[i] = stack[i]
  BY <1>1, PopFits DEF Fitting
<1>3. Fits(m, TablesOf(stack)) /\ \A c \in Cleared \cap Cells : ~Firm(m, c)
  BY FreeFits DEF Fitting
<1>4. TablesOf(stack) \ Left \subseteq TablesOf(stack')
  <2>1. Depth = Len(stack) /\ Depth \in Nat /\ Parting \in Nat
    BY FramesAre DEF Fitting, Depth, Parting
  <2>2. \A i \in 1..Len(stack) : i \in 1..n \/ i \in (Depth - Parting + 1)..Depth
    BY <1>1, <2>1 DEF n
  <2>3. ASSUME NEW i \in 1..Len(stack), stack[i].table \notin Left, stack[i].table # BoxTable
        PROVE  stack[i].table \in TablesOf(stack')
    <3>1. i \in 1..n
      BY <2>2, <2>3 DEF Left
    <3>2. stack'[i] = stack[i] /\ i \in 1..Len(stack')
      BY <3>1, <1>2
    <3> QED BY <3>2 DEF TablesOf
  <2>4. BoxTable \in TablesOf(stack')
    BY DEF TablesOf
  <2>5. \A t \in TablesOf(stack) : t = BoxTable \/ \E i \in 1..Len(stack) : t = stack[i].table
    BY DEF TablesOf
  <2> QED BY <2>3, <2>4, <2>5
<1> HIDE DEF m
<1>5. Fits(m, TablesOf(stack'))
  <2>1. ASSUME NEW c \in Cells, At(m, c) # Absent
        PROVE  c.t \in TablesOf(stack') \cup {Freed}
    <3>1. c \notin Cleared
      BY <2>1, <1>3 DEF Firm
    <3>2. c.t \in TablesOf(stack) \cup {Freed} /\ c.t \notin Left
      BY <3>1, <2>1, <1>1, <1>3 DEF Fits
    <3> QED BY <3>2, <1>4
  <2> QED BY <2>1, <1>3 DEF Fits
<1>6. m[Freed] = Empty
  <2>1. \A c \in Cells : At(m, c) # Absent => At(table, c) # Absent
    BY ValuesAre, FreeAt DEF m, Outliving, Fitting, Fits
  <2>2. Freed \in TableIds /\ m \in Memories
    BY CellsAre, <1>3 DEF Fits
  <2> QED BY <2>1, <2>2, EmptyIs DEF Fitting, Clean
<1>7. table' = m
  BY <1>1, <1>6 DEF Become
<1>8. Clean(m)
  BY <1>6, <1>3, CellsAre, EmptyIs DEF Clean, Fits
<1> QED BY <1>2, <1>5, <1>7, <1>8 DEF Fitting

\* Every step keeps it.
LEMMA StepFits ==
  ASSUME Fitting, [Next]_vars
  PROVE  Fitting'
<1>1. CASE \E l \in Ids \cup Dots, e \in Exprs : Assign(l, e) \/ Move(l, e)
  BY <1>1, AssignFits, MoveFits
<1>2. CASE \E id \in Ids : Delete(id) \/ Unwrap(id) \/ Read(id)
  BY <1>2, DeleteFits, UnwrapFits, ReadFits
<1>3. CASE \E n \in Names, e \in Exprs : Var(n, e)
  BY <1>3, VarFits
<1>4. CASE \E n \in Names : Import(n)
  BY <1>4, ImportFits
<1>5. CASE \E id, to \in Ids : Reset(id, to)
  BY <1>5, ResetFits
<1>6. CASE Purge \/ ImportBox
  BY <1>6, PurgeFits, ImportBoxFits
<1>7. CASE \E kind \in {"fn", "lambda"}, p \in Names, a \in Args, used \in BOOLEAN :
             Call(kind, p, a, used)
  BY <1>7, CallFits
<1>8. CASE \E kind \in {"unit", "block"} : EnterBlock(kind)
  BY <1>8, EnterBlockFits
<1>9. CASE EnterLoop \/ EnterBody \/ EnterBox \/ Leave
  BY <1>9, EnterLoopFits, EnterBodyFits, EnterBoxFits, LeaveFits
<1>10. CASE UNCHANGED vars
  BY <1>10 DEF vars, Fitting
<1> QED BY <1>1, <1>2, <1>3, <1>4, <1>5, <1>6, <1>7, <1>8, <1>9, <1>10 DEF Next

LEMMA FittingAlways == Spec => []Fitting
BY InitFits, StepFits, PTL DEF Spec

\* Type correctness, with leave_scope's clear: the tables above the frames in
\* use are empty, and freed memory was not written.
THEOREM TypeCorrect == Spec => []TypeOK
<1>1. Fitting => TypeOK
  <2> SUFFICES ASSUME Fitting
               PROVE  TypeOK
    OBVIOUS
  <2>1. stack \in Seq([kind : FrameKinds, table : TableIds \ {Freed}, use : BOOLEAN])
        /\ Depth \in 1..MaxDepth /\ stack[1] = Frame("main", Main, FALSE)
    BY DEF Fitting, StackFits, Kinded, Depth
  <2>2. table \in [TableIds -> [Slots -> Values]]
    BY DEF Fitting, Fits, Memories
  <2>3. table[Freed] = Empty
    BY <2>2, CellsAre, EmptyIs DEF Memories, Fitting, Clean
  <2>4. ASSUME NEW i \in (Depth + 1)..MaxDepth
        PROVE  table[i] = Empty
    <3>1. i \in TableIds \ {Freed} /\ i # BoxTable /\ i # LoopTable
      BY <2>1, DepthAssumption DEF TableIds, Freed, BoxTable, LoopTable
    <3>2. \A j \in 1..Depth : stack[j].table \in {j, LoopTable, BoxTable}
      BY DEF Fitting, StackFits, FrameFits, Depth
    <3>3. i \notin TablesOf(stack)
      BY <2>1, <3>1, <3>2, FramesAre DEF TablesOf, Depth, Fitting
    <3> QED BY <3>1, <3>3, <2>2, EmptyIs DEF Fitting, Fits, Memories
  <2> QED BY <2>1, <2>2, <2>3, <2>4 DEF TypeOK
<1> QED BY <1>1, FittingAlways, PTL

\* A name without `#` never leads to the locals of a unit beyond the innermost
\* regular one.
THEOREM NamesStayInside == Spec => []UnprefixedStaysInside
<1>1. Fitting => UnprefixedStaysInside
  <2> SUFFICES ASSUME Fitting, NEW n \in Names
               PROVE  \E i \in Region : ScopeLookup(table, n, FALSE, FALSE) = stack[i].table
    BY DEF UnprefixedStaysInside
  <2> DEFINE found == Finders(table, n, FALSE)
             ends == Ends(FALSE)
             regular == {i \in DOMAIN stack : ~Weak(stack[i])}
             inner == Max(regular)
             at == ScopeLookup(table, n, FALSE, FALSE)
  <2>1. Depth \in Nat /\ Depth >= 1 /\ DOMAIN stack = 1..Depth
        /\ stack[1].table = Main /\ ~Weak(stack[1])
    BY FramesAre DEF Fitting
  <2>2. inner \in regular /\ inner \in 1..Depth /\ \A i \in regular : i <= inner
    <3>1. regular \subseteq 1..Depth /\ 1 \in regular
      BY <2>1
    <3> HIDE DEF regular
    <3> QED BY <2>1, <3>1, HasMax
  <2>3. ends = {i \in 2..Depth : ~Weak(stack[i])} /\ ends \subseteq regular
        /\ (Depth >= 2 => \A i \in regular : i \in ends \/ i = 1)
    BY <2>1 DEF Ends, Walk
  <2>4. Region = inner..Depth
    BY DEF Region
  <2>5. Depth \in Region /\ Local = stack[Depth].table
    BY <2>1, <2>2, <2>4 DEF Local, Top
  <2>6. found # {} => Max(found) \in 2..Depth
    BY FoundIs DEF Fitting, Walk
  <2> HIDE DEF found, ends, regular, inner
  <2>7. CASE at = Local
    BY <2>5, <2>7
  <2>8. CASE at # Local
    <3>1. ~(Depth < 2)
      BY <2>8, Zenon DEF ScopeLookup
    <3>2. \/ found # {} /\ (\A i \in ends : i <= Max(found)) /\ at = stack[Max(found)].table
          \/ ends = {} /\ at = Main
      BY <3>1, <2>8 DEF ScopeLookup, found, ends
    <3>3. CASE found # {} /\ (\A i \in ends : i <= Max(found)) /\ at = stack[Max(found)].table
      <4>1. inner <= Max(found)
        BY <2>1, <2>2, <2>3, <2>6, <3>1, <3>3
      <4>2. Max(found) \in Region
        BY <2>1, <2>2, <2>4, <2>6, <3>3, <4>1
      <4> QED BY <3>3, <4>2
    <3>4. CASE ends = {} /\ at = Main
      <4>1. inner = 1 /\ 1 \in Region
        BY <2>1, <2>2, <2>3, <2>4, <3>1, <3>4
      <4> QED BY <4>1, <3>4, <2>1
    <3> QED BY <3>2, <3>3, <3>4
  <2> QED BY <2>7, <2>8
<1> QED BY <1>1, FittingAlways, PTL

-----------------------------------------------------------------------------
(***************************************************************************)
(* What each operation on the memory keeps of Sound.                       *)
(***************************************************************************)
Ranking == [TableIds -> Nat]

\* With one loop, a table lasts as long as the frame that has it.
LEMMA RanksAre ==
  ASSUME NEW s, StackFits(s), OneLoop(s)
  PROVE  /\ Ranks(s) \in Ranking
         /\ Ranks(s)[BoxTable] = Main
         /\ \A i \in 1..Len(s) : s[i].table # BoxTable => Ranks(s)[s[i].table] = i
<1> DEFINE is == {i \in DOMAIN s : s[i].table = LoopTable}
<1>1. /\ DOMAIN s = 1..Len(s) /\ Len(s) \in Nat
      /\ \A i \in 1..Len(s) : s[i] \in Kinded
      /\ \A i \in 1..Len(s) : FrameFits(s, i)
  BY DepthAssumption DEF StackFits
<1>2. ASSUME NEW i \in is
      PROVE  Min(is) = i
  <2>1. is = {i}
    BY <1>1 DEF OneLoop
  <2>2. Min({i}) = i
    <3>1. i \in Nat
      BY <1>1
    <3> QED BY <3>1 DEF Min
  <2> HIDE DEF is
  <2> QED BY <2>1, <2>2
<1>3. (IF is = {} THEN Main ELSE Min(is)) \in Nat
  BY <1>1, <1>2 DEF Main
<1>4. BoxTable \in TableIds /\ LoopTable \in TableIds /\ BoxTable # LoopTable /\ TableIds \subseteq Nat
  BY DepthAssumption DEF BoxTable, LoopTable, TableIds
<1>5. \A t \in TableIds : Ranks(s)[t] =
        IF t = BoxTable THEN Main
        ELSE IF t = LoopTable THEN IF is = {} THEN Main ELSE Min(is) ELSE t
  BY DEF Ranks
<1>6. Ranks(s) \in Ranking
  <2>1. Main \in Nat
    BY DEF Main
  <2>2. \A t \in TableIds : Ranks(s)[t] \in Nat
    BY <1>3, <1>4, <1>5, <2>1
  <2> QED BY <2>2 DEF Ranking, Ranks
<1>7. ASSUME NEW i \in 1..Len(s), s[i].table # BoxTable
      PROVE  Ranks(s)[s[i].table] = i
  <2>1. s[i].table \in TableIds
    BY <1>1 DEF Kinded
  <2>2. CASE s[i].table = LoopTable
    <3>1. i \in is
      BY <1>1, <2>2
    <3>2. Min(is) = i /\ is # {}
      BY <1>2, <3>1
    <3> HIDE DEF is
    <3> QED BY <3>2, <2>2, <1>4, <1>5
  <2>3. CASE s[i].table # LoopTable
    <3>1. s[i].table = i
      BY <1>1, <1>7, <2>3 DEF FrameFits
    <3> QED BY <3>1, <2>1, <2>3, <1>5, <1>7
  <2> QED BY <2>2, <2>3
<1> QED BY <1>4, <1>5, <1>6, <1>7

LEMMA RanksRank ==
  ASSUME NEW t \in TableIds
  PROVE  Rank(t) = Ranks(stack)[t]
BY DEF Rank, Ranks

\* Only the ranks of tables in use matter.
LEMMA SoundRanks ==
  ASSUME NEW m, NEW ts, Fits(m, ts), NEW r, NEW r2, Sound(m, r), \A t \in ts : r[t] = r2[t]
  PROVE  Sound(m, r2)
<1>1. \A c \in Cells : At(m, c) # Absent => c.t \in ts
  BY DEF Fits, Sound, Clean
<1>2. \A c \in Cells : IsRef(At(m, c)) => At(m, c) # Absent
  BY ValuesAre
<1> QED BY <1>1, <1>2 DEF Sound, Firm

\* Plain values, as every operand is once it is read.
IsPlain(v) == v \in Values /\ ~IsRef(v) /\ v # Absent

\* Through a reference to a plain value, of a table that lasts as long.
LEMMA SoundFollow ==
  ASSUME NEW r \in Ranking, NEW m, NEW ts, Fits(m, ts), Sound(m, r), NEW c, Firm(m, c)
  PROVE  LET d == Follow(m, c) IN
         Firm(m, d) /\ d.t # Freed /\ IsPlain(At(m, d)) /\ r[d.t] <= r[c.t]
<1>1. c \in Cells /\ At(m, c) # Absent /\ m \in Memories
  BY DEF Firm, Fits
<1>2. c.t # Freed /\ r[c.t] \in Nat
  BY <1>1, CellsAre DEF Sound, Clean, Ranking
<1>3. CASE IsRef(At(m, c))
  <2> DEFINE d == Target(At(m, c))
  <2>1. Firm(m, d) /\ ~IsRef(At(m, d)) /\ r[d.t] <= r[c.t]
    BY <1>1, <1>3 DEF Sound
  <2>2. d.t # Freed /\ At(m, d) \in Values
    BY <2>1, <1>1, AtTyped DEF Sound, Clean, Firm
  <2>3. Follow(m, c) = d
    BY <1>3 DEF Follow
  <2> HIDE DEF d
  <2> QED BY <2>1, <2>2, <2>3 DEF IsPlain, Firm
<1>4. CASE ~IsRef(At(m, c))
  <2>1. Follow(m, c) = c
    BY <1>4 DEF Follow
  <2> QED BY <2>1, <1>1, <1>2, <1>4, AtTyped DEF IsPlain, Firm
<1> QED BY <1>3, <1>4

\* A plain value written over another, over a reference or into a new cell.
LEMMA SoundPutPlain ==
  ASSUME NEW r \in Ranking, NEW m \in Memories, Sound(m, r),
         NEW c \in Cells, c.t # Freed, NEW v, IsPlain(v)
  PROVE  Sound(Put(m, c, v), r)
<1> DEFINE m2 == Put(m, c, v)
<1>1. \A d \in Cells : At(m2, d) = IF d = c THEN v ELSE At(m, d)
  BY PutAt DEF IsPlain
<1> HIDE DEF m2
<1>2. Clean(m2)
  BY <1>1 DEF Sound, Clean
<1>3. ASSUME NEW d \in Cells, IsRef(At(m2, d))
      PROVE  LET x == Target(At(m2, d)) IN
             Firm(m2, x) /\ ~IsRef(At(m2, x)) /\ r[x.t] <= r[d.t]
  <2> DEFINE x == Target(At(m, d))
  <2>1. At(m2, d) = At(m, d)
    BY <1>1, <1>3 DEF IsPlain
  <2>2. Firm(m, x) /\ ~IsRef(At(m, x)) /\ r[x.t] <= r[d.t]
    BY <2>1, <1>3 DEF Sound
  <2> HIDE DEF x
  <2>3. Firm(m2, x) /\ ~IsRef(At(m2, x))
    BY <2>2, <1>1 DEF Firm, IsPlain
  <2> QED BY <2>1, <2>2, <2>3 DEF x
<1>4. Sound(m2, r)
  BY <1>2, <1>3 DEF Sound
<1> QED BY <1>4 DEF m2

\* A reference to a plain value of a table that lasts as long, written where
\* nothing refers to.
LEMMA SoundPutRef ==
  ASSUME NEW r \in Ranking, NEW m \in Memories, Sound(m, r),
         NEW c \in Cells, c.t # Freed, \A h \in Cells : At(m, h) # RefTo(c),
         NEW d, Firm(m, d), ~IsRef(At(m, d)), d # c, r[d.t] <= r[c.t]
  PROVE  Sound(Put(m, c, RefTo(d)), r)
<1> DEFINE v == RefTo(d)  m2 == Put(m, c, v)
<1>1. d \in Cells /\ v \in Values /\ IsRef(v) /\ Target(v) = d
  BY ValuesAre DEF Firm
<1>2. \A x \in Cells : At(m2, x) = IF x = c THEN v ELSE At(m, x)
  BY <1>1, PutAt
<1> HIDE DEF m2, v
<1>3. Clean(m2)
  BY <1>2 DEF Sound, Clean
<1>4. \A x \in Cells : Firm(m, x) /\ x # c => Firm(m2, x) /\ At(m2, x) = At(m, x)
  BY <1>2 DEF Firm
<1>5. ASSUME NEW h \in Cells, IsRef(At(m2, h))
      PROVE  LET x == Target(At(m2, h)) IN
             Firm(m2, x) /\ ~IsRef(At(m2, x)) /\ r[x.t] <= r[h.t]
  <2>1. CASE h = c
    <3>1. At(m2, h) = v
      BY <2>1, <1>2
    <3> QED BY <3>1, <2>1, <1>1, <1>4
  <2>2. CASE h # c
    <3> DEFINE x == Target(At(m, h))
    <3>1. At(m2, h) = At(m, h) /\ At(m, h) \in Values
      BY <2>2, <1>2, AtTyped
    <3>2. Firm(m, x) /\ ~IsRef(At(m, x)) /\ r[x.t] <= r[h.t]
      BY <3>1, <1>5 DEF Sound
    <3>3. At(m, h) = RefTo(x)
      BY <3>1, <1>5, ValuesAre
    <3> HIDE DEF x
    <3>4. x # c
      BY <3>3
    <3>5. Firm(m2, x) /\ ~IsRef(At(m2, x))
      BY <3>2, <3>4, <1>4 DEF Firm
    <3> QED BY <3>1, <3>2, <3>5 DEF x
  <2> QED BY <2>1, <2>2
<1>6. Sound(m2, r)
  BY <1>3, <1>5 DEF Sound
<1> QED BY <1>6 DEF m2, v

\* Cells are erased to which only each other refer.
LEMMA SoundFree ==
  ASSUME NEW r \in Ranking, NEW m \in Memories, Sound(m, r), NEW cs,
         \A h \in Cells : IsRef(At(m, h)) /\ Target(At(m, h)) \in cs => h \in cs
  PROVE  /\ Sound(Free(m, cs), r)
         /\ \A v \in Values : IsPlain(v) => Outliving(v, cs) = v
<1> DEFINE m2 == Free(m, cs)
<1>1. \A d \in Cells : At(m2, d) = IF d \in cs THEN Absent ELSE Outliving(At(m, d), cs)
  BY FreeAt
<1> HIDE DEF m2
<1>2. \A d \in Cells : d \notin cs => At(m2, d) = At(m, d)
  BY <1>1 DEF Outliving
<1>3. \A d \in Cells : d \in cs => At(m2, d) = Absent
  BY <1>1
<1>4. Clean(m2)
  BY <1>2, <1>3 DEF Sound, Clean
<1>5. ASSUME NEW h \in Cells, IsRef(At(m2, h))
      PROVE  LET x == Target(At(m2, h)) IN
             Firm(m2, x) /\ ~IsRef(At(m2, x)) /\ r[x.t] <= r[h.t]
  <2> DEFINE x == Target(At(m, h))
  <2>1. h \notin cs /\ At(m2, h) = At(m, h)
    BY <1>2, <1>3, <1>5, ValuesAre
  <2>2. Firm(m, x) /\ ~IsRef(At(m, x)) /\ r[x.t] <= r[h.t]
    BY <2>1, <1>5 DEF Sound
  <2>3. x \notin cs
    BY <2>1, <1>5
  <2> HIDE DEF x
  <2>4. Firm(m2, x) /\ At(m2, x) = At(m, x)
    BY <2>2, <2>3, <1>2 DEF Firm
  <2> QED BY <2>1, <2>2, <2>4 DEF x
<1>6. Sound(m2, r)
  BY <1>4, <1>5 DEF Sound
<1> QED BY <1>6 DEF m2, IsPlain, Outliving

\* A new cell of nil.
LEMMA SoundNew ==
  ASSUME NEW r \in Ranking, NEW m, NEW ts, Fits(m, ts), Sound(m, r),
         NEW t \in TableIds \ {Freed}, NEW n \in Slots
  PROVE  Sound(Put(m, Cell(t, n), Nil), r)
<1>1. Cell(t, n) \in Cells /\ Cell(t, n).t # Freed /\ IsPlain(Nil) /\ m \in Memories
  BY CellsAre, ValuesAre DEF IsPlain, Fits
<1> QED BY <1>1, SoundPutPlain

LEMMA SoundGet ==
  ASSUME NEW r \in Ranking, NEW m, NEW ts, Fits(m, ts), Sound(m, r),
         NEW t \in TableIds \ {Freed}, NEW n \in Slots
  PROVE  Sound(AfterGet(m, t, n), r)
BY SoundNew DEF AfterGet, Slots

LEMMA SoundMade ==
  ASSUME NEW r \in Ranking, NEW m, NEW ts, Fits(m, ts), Sound(m, r),
         NEW t \in TableIds \ {Freed}, NEW n \in Slots
  PROVE  Sound(Made(m, t, n), r)
BY SoundNew DEF Made

LEMMA SoundTouch ==
  ASSUME StackFits(stack), NEW r \in Ranking, NEW m, Fits(m, TablesOf(stack)), Sound(m, r),
         NEW e \in Exprs, NEW used
  PROVE  Sound(Touch(m, e, used), r)
<1>1. CASE e.k = "lit"
  BY <1>1 DEF Touch
<1>2. CASE Named(e)
  BY <1>2, ScopeInUse, SoundGet, ExprsAre DEF Touch, Named
<1> QED BY <1>1, <1>2, ExprsAre

\* Every name leads to a plain value.
LEMMA SoundReferenced ==
  ASSUME StackFits(stack), NEW r \in Ranking, NEW m, Fits(m, TablesOf(stack)), Sound(m, r),
         NEW e \in Exprs, Named(e), NEW used
  PROVE  LET m2 == Touch(m, e, used)
             d == Referenced(m2, e, used)
         IN  Firm(m2, d) /\ d.t # Freed /\ IsPlain(At(m2, d))
<1>1. Fits(Touch(m, e, used), TablesOf(stack)) /\ Sound(Touch(m, e, used), r)
  BY TouchFits, SoundTouch
<1>2. Firm(Touch(m, e, used), Raw(Touch(m, e, used), e, used))
  BY RawFirm
<1> QED BY <1>1, <1>2, SoundFollow DEF Referenced

\* What an expression evaluates to: a plain value or the address of one.
LEMMA SoundEvaluate ==
  ASSUME StackFits(stack), NEW r \in Ranking, NEW m, Fits(m, TablesOf(stack)), Sound(m, r),
         NEW e \in Exprs, NEW used
  PROVE  LET m2 == Touch(m, e, used)
             x == Evaluate(m2, e, used)
         IN  \/ IsPlain(x)
             \/ IsRef(x) /\ x = RefTo(Target(x)) /\ Firm(m2, Target(x))
                /\ Target(x).t # Freed /\ IsPlain(At(m2, Target(x)))
<1> DEFINE m2 == Touch(m, e, used)  d == Referenced(m2, e, used)  x == Evaluate(m2, e, used)
<1>1. CASE e.k = "lit" /\ e.n \in Vals \cup {"nil"}
  BY <1>1, ValuesAre DEF Evaluate, IsPlain
<1>2. CASE Named(e)
  <2>1. Firm(m2, d) /\ d.t # Freed /\ IsPlain(At(m2, d))
    BY <1>2, SoundReferenced
  <2>2. x = At(m2, d) \/ x = RefTo(d)
    BY <1>2, <2>1 DEF Evaluate, Named, RefOf, IsPlain
  <2> HIDE DEF m2, d, x
  <2>3. d \in Cells
    BY <2>1 DEF Firm
  <2>4. x = RefTo(d) => IsRef(x) /\ Target(x) = d
    BY <2>3, ValuesAre
  <2>5. \/ IsPlain(x)
        \/ IsRef(x) /\ x = RefTo(Target(x)) /\ Firm(m2, Target(x))
           /\ Target(x).t # Freed /\ IsPlain(At(m2, Target(x)))
    BY <2>1, <2>2, <2>4
  <2> QED BY <2>5 DEF m2, x
<1> QED BY <1>1, <1>2, ExprsAre

LEMMA SoundRValue ==
  ASSUME StackFits(stack), NEW r \in Ranking, NEW m, Fits(m, TablesOf(stack)), Sound(m, r),
         NEW e \in Exprs, NEW used
  PROVE  IsPlain(RValue(m, e, used))
<1> DEFINE m2 == Touch(m, e, used)  x == Evaluate(m2, e, used)
<1>1. IsPlain(x) \/ (IsRef(x) /\ IsPlain(At(m2, Target(x))))
  BY SoundEvaluate
<1>2. RValue(m, e, used) = Deref(m2, x)
  BY DEF RValue
<1> HIDE DEF m2, x
<1> QED BY <1>1, <1>2 DEF Deref, IsPlain

\* A plain value written through a cell that exists.
LEMMA SoundWrite ==
  ASSUME NEW r \in Ranking, NEW m, NEW ts, Fits(m, ts), Sound(m, r),
         NEW c, Firm(m, c), NEW v, IsPlain(v)
  PROVE  Sound(Write(m, c, v), r)
<1>1. v # RefTo(c)
  BY ValuesAre DEF Firm, IsPlain
<1>2. Write(m, c, v) = Put(m, Follow(m, c), v)
  BY <1>1 DEF Write
<1>3. Firm(m, Follow(m, c)) /\ Follow(m, c).t # Freed /\ IsPlain(At(m, Follow(m, c)))
  BY SoundFollow
<1>4. m \in Memories /\ Follow(m, c) \in Cells
  BY <1>3 DEF Fits, Firm
<1> QED BY <1>2, <1>3, <1>4, SoundPutPlain

LEMMA SoundAssigned ==
  ASSUME StackFits(stack), NEW r \in Ranking, NEW m, Fits(m, TablesOf(stack)), Sound(m, r),
         NEW id \in Ids, NEW used, NEW v, Held(m, v), IsPlain(v)
  PROVE  LET a == Assigned(m, id, v, used) IN
         Sound(a.m, r) /\ Firm(a.m, a.c) /\ a.c.t # Freed /\ IsPlain(At(a.m, a.c))
<1> DEFINE ts == TablesOf(stack)
           t == Scope(m, id, used)  made == Made(m, t, id.n)
           raw == Raw(made, id, used)  c == Follow(made, raw)
           w == Write(made, c, v)
<1>1. Named(id) /\ id.n \in Slots
  BY ExprsAre DEF Named
<1>2. t \in ts /\ t \in TableIds \ {Freed}
  BY <1>1, ScopeInUse
<1>3. Fits(made, ts) /\ Sound(made, r)
      /\ \A u \in TableIds : Exists(made, u, id.n) <=> Exists(m, u, id.n) \/ u = t
  BY <1>1, <1>2, MadeFits, SoundMade
<1>4. Firm(made, raw)
  <2>1. Exists(made, Scope(made, id, used), id.n)
    BY <1>1, <1>3, LookupStays DEF Scope, Named
  <2>2. Scope(made, id, used) \in TableIds
    BY <1>1, ScopeInUse
  <2> QED BY <2>1, <2>2, <1>1, ExistsIs DEF Raw, Got
<1>5. Firm(made, c) /\ c.t # Freed /\ IsPlain(At(made, c))
  BY <1>3, <1>4, SoundFollow
<1>6. Assigned(m, id, v, used) = [m |-> w, c |-> c]
  BY DEF Assigned, Referenced
<1> HIDE DEF made, raw, c
<1>7. Sound(w, r)
  BY <1>3, <1>5, SoundWrite
<1>8. v # RefTo(c) /\ Follow(made, c) = c /\ c \in Cells /\ v \in Values /\ made \in Memories
  BY <1>3, <1>5, ValuesAre DEF Firm, IsPlain, Follow, Fits
<1>9. w = Put(made, c, v)
  BY <1>8 DEF Write
<1>10. At(w, c) = v
  BY <1>8, <1>9, PutAt
<1>11. Firm(w, c)
  BY <1>8, <1>10 DEF Firm, IsPlain
<1> HIDE DEF w
<1> QED BY <1>5, <1>6, <1>7, <1>10, <1>11

-----------------------------------------------------------------------------
(***************************************************************************)
(* Sounding is inductive, for programs that fit.                           *)
(***************************************************************************)
\* What holds before a step that spoils nothing.
LEMMA Unspoiled ==
  ASSUME Fitting, Sounding, ~spoiled
  PROVE  /\ StackFits(stack) /\ OneLoop(stack) /\ ~broken
         /\ Fits(table, TablesOf(stack)) /\ Sound(table, Ranks(stack))
         /\ Ranks(stack) \in Ranking
         /\ \A t \in TableIds : Rank(t) = Ranks(stack)[t]
BY RanksAre, RanksRank DEF Fitting, Sounding

LEMMA BecomeSound ==
  ASSUME ~broken, NEW m, NEW ts, Fits(m, ts), NEW r, Sound(m, r), NEW ok, ok, Become(m, ok)
  PROVE  table' = m /\ ~broken'
<1>1. Freed \in TableIds /\ m \in Memories
  BY CellsAre DEF Fits
<1>2. m[Freed] = Empty
  BY <1>1, EmptyIs DEF Sound, Clean
<1> QED BY <1>2 DEF Become

LEMMA StaySound ==
  ASSUME Fitting, Sounding, ~spoiled, stack' = stack, NEW m, NEW ok, ok, Become(m, ok),
         Fits(m, TablesOf(stack)), Sound(m, Ranks(stack))
  PROVE  Sounding'
<1>1. table' = m /\ ~broken'
  BY Unspoiled, BecomeSound
<1> QED BY <1>1, Unspoiled DEF Sounding

LEMMA AssignSound ==
  ASSUME Fitting, Sounding, NEW l \in Ids \cup Dots, NEW e \in Exprs, Assign(l, e), ~spoiled'
  PROVE  Sounding'
<1> DEFINE ts == TablesOf(stack)  k == Ranks(stack)
           v == RValue(table, e, InUse)  m == Touch(table, e, InUse)
           r == Touch(m, l, InUse)
           to == IF l.k = "id" THEN Assigned(m, l, v, InUse).m
                 ELSE Write(r, Referenced(r, l, InUse), v)
<1>1. ~spoiled /\ stack' = stack /\ Become(to, v # Absent)
  BY DEF Assign
<1>2. /\ Fits(table, ts) /\ Sound(table, k) /\ k \in Ranking /\ StackFits(stack)
  BY <1>1, Unspoiled
<1>3. l \in Exprs /\ Named(l) /\ (l.k = "id" => l \in Ids)
  BY ExprsAre DEF Dots
<1> HIDE DEF k
<1>4. Fits(m, ts) /\ Held(m, v) /\ Sound(m, k) /\ IsPlain(v)
  BY <1>2, TouchFits, RValueHeld, SoundTouch, SoundRValue
<1>5. v # Absent
  BY <1>4 DEF IsPlain
<1> HIDE DEF m, v
<1>6. Fits(to, ts) /\ Sound(to, k)
  <2>1. CASE l.k = "id"
    BY <2>1, <1>2, <1>3, <1>4, <1>5, AssignedFits, SoundAssigned
  <2>2. CASE l.k # "id"
    <3>1. Fits(r, ts) /\ Held(r, v) /\ Sound(r, k)
      BY <1>2, <1>3, <1>4, TouchFits, HeldOn, SoundTouch
    <3>2. Firm(r, Referenced(r, l, InUse))
      BY <1>2, <1>3, <1>4, SoundReferenced
    <3> QED BY <3>1, <3>2, <2>2, <1>2, <1>4, <1>5, WriteFits, SoundWrite DEF Live
  <2> QED BY <2>1, <2>2
<1> HIDE DEF to
<1> QED BY <1>1, <1>5, <1>6, StaySound DEF k

\* A name is not in freed memory.
LEMMA ScopeIsNotWild ==
  ASSUME StackFits(stack), NEW m, NEW e, Named(e), NEW used
  PROVE  /\ Cell(Scope(m, e, used), e.n) \in Cells
         /\ Cell(Scope(m, e, used), e.n) # Wild
BY ScopeInUse, CellsAre, ExprsAre DEF Named

LEMMA SoundErase ==
  ASSUME NEW r \in Ranking, NEW m, NEW ts, Fits(m, ts), Sound(m, r), NEW c, Holders(m, c) = {}
  PROVE  Sound(Free(m, {c}), r) /\ \A v : IsPlain(v) => Outliving(v, {c}) = v
<1>1. m \in Memories
  BY DEF Fits
<1>2. \A h \in Cells : ~(IsRef(At(m, h)) /\ Target(At(m, h)) = c)
  BY <1>1, AtTyped, ValuesAre DEF Holders
<1> QED BY <1>1, <1>2, SoundFree DEF IsPlain

LEMMA MoveSound ==
  ASSUME Fitting, Sounding, NEW l \in Ids \cup Dots, NEW e \in Exprs, Move(l, e), ~spoiled'
  PROVE  Sounding'
<1> DEFINE ts == TablesOf(stack)  k == Ranks(stack)
           v == RValue(table, e, InUse)  t == Touch(table, e, InUse)
           gone == IF e.k = "id" THEN Cell(Scope(t, e, InUse), e.n) ELSE Wild
           m == IF e.k = "id" THEN Free(t, {gone}) ELSE t
           kept == Outliving(v, {gone})
           r == Touch(m, l, InUse)
           c == Referenced(r, l, InUse)
<1>1. /\ ~spoiled /\ stack' = stack /\ Become(Write(r, c, kept), v # Absent)
      /\ gone # Wild => Holders(t, gone) = {}
  BY DEF Move, Spoils
<1>2. /\ Fits(table, ts) /\ Sound(table, k) /\ k \in Ranking /\ StackFits(stack)
  BY <1>1, Unspoiled
<1>3. l \in Exprs /\ Named(l)
  BY ExprsAre
<1> HIDE DEF k
<1>4. Fits(t, ts) /\ Sound(t, k) /\ IsPlain(v)
  BY <1>2, TouchFits, SoundTouch, SoundRValue
<1>5. e.k = "id" => gone # Wild
  BY <1>2, ExprsAre, ScopeIsNotWild
<1> HIDE DEF v, t
<1>6. Fits(m, ts) /\ Sound(m, k) /\ kept = v
  <2>1. CASE e.k = "id"
    <3>1. Holders(t, gone) = {}
      BY <2>1, <1>1, <1>5
    <3> HIDE DEF gone
    <3> QED BY <2>1, <3>1, <1>2, <1>4, FreeFits, SoundErase
  <2>2. CASE e.k # "id"
    BY <2>2, <1>4 DEF Outliving, IsPlain
  <2> QED BY <2>1, <2>2
<1> HIDE DEF m, kept
<1>7. Fits(r, ts) /\ Sound(r, k) /\ Firm(r, c)
  BY <1>2, <1>3, <1>6, TouchFits, SoundTouch, SoundReferenced
<1> HIDE DEF r, c
<1>8. Held(r, v) /\ v # Absent
  BY <1>4 DEF Held, IsPlain
<1>9. Fits(Write(r, c, v), ts) /\ Sound(Write(r, c, v), k)
  BY <1>2, <1>4, <1>7, <1>8, WriteFits, SoundWrite DEF Live
<1> QED BY <1>1, <1>6, <1>8, <1>9, StaySound DEF k

LEMMA DeleteSound ==
  ASSUME Fitting, Sounding, NEW id \in Ids, Delete(id), ~spoiled'
  PROVE  Sounding'
<1> DEFINE gone == Cell(Scope(table, id, InUse), id.n)  m == Free(table, {gone})
<1>1. ~spoiled /\ stack' = stack /\ Become(m, TRUE) /\ Holders(table, gone) = {}
  BY DEF Delete, Spoils
<1> HIDE DEF gone
<1>2. Fits(m, TablesOf(stack)) /\ Sound(m, Ranks(stack))
  BY <1>1, Unspoiled, FreeFits, SoundErase
<1> HIDE DEF m
<1> QED BY <1>1, <1>2, StaySound

LEMMA PurgeSound ==
  ASSUME Fitting, Sounding, Purge, ~spoiled'
  PROVE  Sounding'
<1> DEFINE cs == CellsOf(Local)  m == Free(table, cs)
<1>1. /\ ~spoiled /\ stack' = stack /\ Become(m, TRUE)
      /\ \A c \in cs : Holders(table, c) \subseteq cs
  BY DEF Purge, Spoils
<1> HIDE DEF cs
<1>2. Fits(table, TablesOf(stack)) /\ Sound(table, Ranks(stack)) /\ Ranks(stack) \in Ranking
      /\ table \in Memories
  BY <1>1, Unspoiled DEF Fits
<1>3. \A h \in Cells : IsRef(At(table, h)) /\ Target(At(table, h)) \in cs => h \in cs
  BY <1>1, <1>2, AtTyped, ValuesAre DEF Holders
<1>4. Fits(m, TablesOf(stack)) /\ Sound(m, Ranks(stack))
  BY <1>2, <1>3, FreeFits, SoundFree
<1> HIDE DEF m
<1> QED BY <1>1, <1>4, StaySound

LEMMA ReadSound ==
  ASSUME Fitting, Sounding, NEW id \in Ids, Read(id), ~spoiled'
  PROVE  Sounding'
<1> DEFINE v == RValue(table, id, InUse)  m == Touch(table, id, InUse)
<1>1. ~spoiled /\ stack' = stack /\ Become(m, v # Absent)
  BY DEF Read
<1>2. Fits(m, TablesOf(stack)) /\ Sound(m, Ranks(stack)) /\ IsPlain(v)
  BY <1>1, Unspoiled, ExprsAre, TouchFits, SoundTouch, SoundRValue
<1>3. v # Absent
  BY <1>2 DEF IsPlain
<1> HIDE DEF m, v
<1> QED BY <1>1, <1>2, <1>3, StaySound

LEMMA VarSound ==
  ASSUME Fitting, Sounding, NEW n \in Names, NEW e \in Exprs, Var(n, e), ~spoiled'
  PROVE  Sounding'
<1> DEFINE ts == TablesOf(stack)  k == Ranks(stack)
           v == RValue(table, e, InUse)  m == Touch(table, e, InUse)
           made == Made(m, Local, n)
           c == Follow(made, Cell(Local, n))
<1>1. ~spoiled /\ stack' = stack /\ Become(Write(made, c, v), v # Absent)
  BY DEF Var
<1>2. /\ Fits(table, ts) /\ Sound(table, k) /\ k \in Ranking /\ StackFits(stack)
  BY <1>1, Unspoiled
<1> HIDE DEF k
<1>3. Fits(m, ts) /\ Sound(m, k) /\ IsPlain(v)
  BY <1>2, TouchFits, SoundTouch, SoundRValue
<1> HIDE DEF m, v
<1>4. Fits(made, ts) /\ Sound(made, k) /\ Firm(made, Cell(Local, n))
  BY <1>2, <1>3, MadeFits, SoundMade, FramesAre, ExprsAre
<1>5. Firm(made, c)
  BY <1>2, <1>4, SoundFollow
<1> HIDE DEF made, c
<1>6. Held(made, v) /\ v # Absent
  BY <1>3 DEF Held, IsPlain
<1>7. Fits(Write(made, c, v), ts) /\ Sound(Write(made, c, v), k)
  BY <1>2, <1>3, <1>4, <1>5, <1>6, WriteFits, SoundWrite DEF Live
<1> QED BY <1>1, <1>6, <1>7, StaySound DEF k

LEMMA UnwrapSound ==
  ASSUME Fitting, Sounding, NEW id \in Ids, Unwrap(id), ~spoiled'
  PROVE  Sounding'
<1> DEFINE ts == TablesOf(stack)  k == Ranks(stack)
           m == Touch(table, id, InUse)
           c == Raw(m, id, InUse)
           v == Deref(m, At(m, c))
           cleared == Put(m, c, Nil)
<1>1. ~spoiled /\ stack' = stack /\ Become(Write(cleared, c, v), v # Absent)
  BY DEF Unwrap
<1>2. /\ Fits(table, ts) /\ Sound(table, k) /\ k \in Ranking /\ StackFits(stack)
      /\ id \in Exprs /\ Named(id)
  BY <1>1, Unspoiled, ExprsAre
<1> HIDE DEF k
<1>3. Fits(m, ts) /\ Sound(m, k) /\ Firm(m, c)
  BY <1>2, TouchFits, SoundTouch, RawFirm
<1> HIDE DEF m, c
<1>4. IsPlain(v)
  <2>1. v = At(m, Follow(m, c))
    BY DEF Deref, Follow
  <2> QED BY <2>1, <1>2, <1>3, SoundFollow
<1> HIDE DEF v
<1>5. c \in Cells /\ c.t # Freed /\ m \in Memories
  BY <1>3 DEF Sound, Clean, Firm, Fits
<1>6. IsPlain(Nil) /\ Held(m, Nil) /\ Held(m, v)
  BY <1>4, ValuesAre DEF IsPlain, Held
<1>7. Fits(cleared, ts) /\ Grows(m, cleared) /\ Firm(cleared, c) /\ Sound(cleared, k)
  <2>1. c.t \in ts \cup {Freed}
    BY <1>3 DEF Fits, Firm
  <2> QED BY <2>1, <1>2, <1>3, <1>5, <1>6, PutFits, SoundPutPlain DEF IsPlain
<1> HIDE DEF cleared
<1>8. Held(cleared, v) /\ v # Absent
  BY <1>4, <1>6, <1>7, HeldOn DEF IsPlain
<1>9. Fits(Write(cleared, c, v), ts) /\ Sound(Write(cleared, c, v), k)
  BY <1>2, <1>4, <1>7, <1>8, WriteFits, SoundWrite DEF Live
<1> QED BY <1>1, <1>8, <1>9, StaySound DEF k

\* The address an expression's reference holds.
LEMMA RefOfIs ==
  ASSUME NEW m, NEW ts, Fits(m, ts), NEW c, Firm(m, c)
  PROVE  RefOf(m, c) = RefTo(Follow(m, c))
<1>1. At(m, c) \in Values
  BY AtTyped DEF Fits, Firm
<1> QED BY <1>1, ValuesAre DEF RefOf, Follow

\* Nothing refers to a cell that does not exist, or that holds a reference.
LEMMA NoHolders ==
  ASSUME NEW m, NEW r, Sound(m, r), NEW c \in Cells, ~Firm(m, c) \/ IsRef(At(m, c))
  PROVE  \A h \in Cells : At(m, h) # RefTo(c)
BY ValuesAre DEF Sound

LEMMA ImportSound ==
  ASSUME Fitting, Sounding, NEW n \in Names, Import(n), ~spoiled'
  PROVE  Sounding'
<1> DEFINE ts == TablesOf(stack)  k == Ranks(stack)
           t == ScopeLookup(table, n, TRUE, InUse)
           m == AfterGet(table, t, n)
           g == Got(m, t, n)  d == Follow(m, g)
           v == RefOf(m, g)
           here == Cell(Local, n)
           again == Exists(m, Local, n)
           to == IF again THEN Write(m, here, v) ELSE Put(m, here, v)
<1>1. /\ ~spoiled /\ stack' = stack /\ Become(to, TRUE)
      /\ again /\ v # RefTo(here) => ~IsRef(At(m, here)) /\ Holders(m, here) = {}
      /\ ~(Rank(v.t) > Rank(Local))
  BY DEF Import, Spoils
<1>2. /\ Fits(table, ts) /\ Sound(table, k) /\ k \in Ranking /\ StackFits(stack)
      /\ \A x \in TableIds : Rank(x) = k[x]
  BY <1>1, Unspoiled
<1>3. n \in Slots /\ Local \in TableIds \ {Freed} /\ Local \in ts
  BY <1>2, ExprsAre, FramesAre
<1>4. t \in TableIds \ {Freed} /\ t \in ts
  BY <1>2, LookupInUse
<1> HIDE DEF t, k
<1>5. Fits(m, ts) /\ Sound(m, k) /\ Firm(m, g)
  BY <1>2, <1>3, <1>4, GetFits, SoundGet
<1> HIDE DEF m, g
<1>6. Firm(m, d) /\ IsPlain(At(m, d)) /\ v = RefTo(d) /\ d \in Cells /\ d.t \in TableIds
  BY <1>2, <1>5, SoundFollow, RefOfIs, CellsAre DEF Firm
<1>7. v.t = d.t /\ ~IsRef(At(m, d))
  BY <1>6 DEF RefTo, IsPlain
<1>8. here \in Cells /\ here.t = Local /\ (again <=> Firm(m, here))
  BY <1>3, CellsAre, ExistsIs
<1>9. k[d.t] <= k[here.t]
  <2>1. ~(k[d.t] > k[Local]) /\ k[d.t] \in Nat /\ k[Local] \in Nat
    BY <1>1, <1>2, <1>3, <1>6, <1>7 DEF Ranking
  <2> QED BY <2>1, <1>8
<1> HIDE DEF d, v, here, again
<1>10. Held(m, v) /\ v # Absent /\ m \in Memories
  BY <1>5, <1>6, ValuesAre DEF Held, Live, Fits
<1>11. Fits(to, ts)
  BY <1>3, <1>5, <1>8, <1>10, WriteFits, PutFits DEF Live
<1>12. Sound(to, k)
  <2>1. CASE ~again
    <3>1. \A h \in Cells : At(m, h) # RefTo(here)
      BY <2>1, <1>5, <1>8, NoHolders
    <3>2. d # here
      BY <2>1, <1>6, <1>8
    <3> QED BY <2>1, <3>1, <3>2, <1>2, <1>3, <1>5, <1>6, <1>7, <1>8, <1>9, <1>10, SoundPutRef
  <2>2. CASE again /\ v = RefTo(here)
    BY <2>2, <1>5 DEF Write
  <2>3. CASE again /\ v # RefTo(here)
    <3>1. \A h \in Cells : At(m, h) # RefTo(here)
      BY <2>3, <1>1 DEF Holders
    <3>2. d # here /\ to = Put(m, here, v)
      BY <2>3, <1>1, <1>6 DEF Write, Follow
    <3> QED BY <3>1, <3>2, <1>2, <1>3, <1>5, <1>6, <1>7, <1>8, <1>9, <1>10, SoundPutRef
  <2> QED BY <2>1, <2>2, <2>3
<1> HIDE DEF to
<1> QED BY <1>1, <1>11, <1>12, StaySound DEF k

\* get() changes no cell that exists.
LEMMA TouchKeeps ==
  ASSUME StackFits(stack), NEW m, Fits(m, TablesOf(stack)), NEW e \in Exprs, NEW used,
         NEW c, Firm(m, c)
  PROVE  At(Touch(m, e, used), c) = At(m, c)
<1>1. CASE e.k = "lit"
  BY <1>1 DEF Touch
<1>2. CASE Named(e)
  <2> DEFINE t == Scope(m, e, used)  nil == Cell(t, NilName)
  <2>1. t \in TableIds /\ NilName \in Slots
    BY <1>2, ScopeInUse DEF Slots
  <2>2. nil \in Cells /\ (Firm(m, nil) <=> Exists(m, t, NilName))
    BY <2>1, CellsAre, ExistsIs
  <2>3. Touch(m, e, used) = m \/ (Touch(m, e, used) = Put(m, nil, Nil) /\ nil # c)
    BY <1>2, <2>2 DEF Touch, AfterGet, Named
  <2>4. At(Put(m, nil, Nil), c) = IF c = nil THEN Nil ELSE At(m, c)
    BY <2>2, PutAt, ValuesAre DEF Fits, Firm
  <2> HIDE DEF nil
  <2> QED BY <2>3, <2>4
<1> QED BY <1>1, <1>2, ExprsAre

LEMMA ResetSound ==
  ASSUME Fitting, Sounding, NEW id \in Ids, NEW to \in Ids, Reset(id, to), ~spoiled'
  PROVE  Sounding'
<1> DEFINE ts == TablesOf(stack)  k == Ranks(stack)
           m == Touch(table, id, InUse)
           c == Raw(m, id, InUse)
           r == Touch(m, to, InUse)
           d == Referenced(r, to, InUse)
           v == RefOf(r, d)
<1>1. /\ ~spoiled /\ stack' = stack /\ IsRef(At(m, c)) /\ Become(Put(r, c, v), d # Wild)
      /\ ~(Rank(d.t) > Rank(c.t))
  BY DEF Reset, Spoils
<1>2. /\ Fits(table, ts) /\ Sound(table, k) /\ k \in Ranking /\ StackFits(stack)
      /\ \A x \in TableIds : Rank(x) = k[x]
      /\ id \in Exprs /\ Named(id) /\ to \in Exprs /\ Named(to)
  BY <1>1, Unspoiled, ExprsAre
<1> HIDE DEF k
<1>3. Fits(m, ts) /\ Sound(m, k) /\ Firm(m, c)
  BY <1>2, TouchFits, SoundTouch, RawFirm
<1> HIDE DEF m, c
<1>4. /\ Fits(r, ts) /\ Sound(r, k) /\ Firm(r, c) /\ IsRef(At(r, c))
      /\ Firm(r, d) /\ d.t # Freed /\ IsPlain(At(r, d))
  <2>1. Fits(r, ts) /\ Grows(m, r) /\ Sound(r, k) /\ At(r, c) = At(m, c)
    BY <1>2, <1>3, TouchFits, SoundTouch, TouchKeeps
  <2>2. Firm(r, d) /\ d.t # Freed /\ IsPlain(At(r, d))
    BY <1>2, <1>3, SoundReferenced
  <2> HIDE DEF r, d
  <2> QED BY <2>1, <2>2, <1>1, <1>3 DEF Grows, Firm
<1> HIDE DEF r, d
<1>5. /\ c \in Cells /\ c.t # Freed /\ c.t \in TableIds /\ c.t \in ts /\ r \in Memories
      /\ d \in Cells /\ d.t \in TableIds /\ ~IsRef(At(r, d))
  BY <1>4, CellsAre DEF Firm, Sound, Clean, Fits, IsPlain
<1>6. v = RefTo(d) /\ d # c
  BY <1>4, <1>5 DEF RefOf
<1>7. k[d.t] <= k[c.t]
  <2>1. k[d.t] \in Nat /\ k[c.t] \in Nat /\ ~(k[d.t] > k[c.t])
    BY <1>1, <1>2, <1>5 DEF Ranking
  <2> QED BY <2>1
<1>8. \A h \in Cells : At(r, h) # RefTo(c)
  BY <1>4, <1>5, NoHolders
<1> HIDE DEF v
<1>9. Held(r, v) /\ v # Absent
  BY <1>4, <1>5, <1>6, ValuesAre DEF Held, Live
<1>10. Fits(Put(r, c, v), ts)
  BY <1>4, <1>5, <1>9, PutFits
<1>11. Sound(Put(r, c, v), k)
  BY <1>2, <1>4, <1>5, <1>6, <1>7, <1>8, SoundPutRef
<1>12. d # Wild
  BY <1>4, CellsAre
<1> QED BY <1>1, <1>10, <1>11, <1>12, StaySound DEF k

LEMMA ImportBoxSound ==
  ASSUME Fitting, Sounding, ImportBox, ~spoiled'
  PROVE  Sounding'
<1> DEFINE ts == TablesOf(stack)  k == Ranks(stack)  m == BoxImported
<1>1. ~spoiled /\ stack' = stack /\ Become(m, TRUE)
  BY DEF ImportBox, BoxImported
<1>2. /\ m \in Memories
      /\ \A c \in Cells : At(m, c) =
           IF c.t = Local /\ At(table, c) = Absent THEN At(table, Cell(BoxTable, c.n))
           ELSE At(table, c)
  BY BoxImportedAt
<1>3. /\ Fits(table, ts) /\ Sound(table, k) /\ k \in Ranking /\ StackFits(stack) /\ OneLoop(stack)
  BY <1>1, Unspoiled
<1>4. Local \in ts /\ Local \in TableIds \ {Freed} /\ BoxTable \in TableIds
  BY <1>3, FramesAre, TablesAre
<1>5. k[BoxTable] <= k[Local]
  <2>1. Local = stack[Depth].table /\ Depth \in 1..Len(stack) /\ Depth \in Nat
    BY <1>3, FramesAre DEF Local, Top, Depth
  <2>2. k[BoxTable] = Main /\ (Local # BoxTable => k[Local] = Depth)
    BY <2>1, <1>3, RanksAre
  <2> QED BY <2>1, <2>2 DEF Main
<1> HIDE DEF m, k
<1>6. \A c \in Cells : Firm(table, c) => Firm(m, c) /\ At(m, c) = At(table, c)
  BY <1>2 DEF Firm
<1>7. Fits(m, ts)
  <2>1. \A c \in Cells : Held(m, At(table, c))
    BY <1>3, <1>6, HeldOn DEF Fits, Grows
  <2>2. \A c \in Cells : Cell(BoxTable, c.n) \in Cells
    BY <1>4, CellsAre
  <2>3. \A c \in Cells : Held(m, At(m, c))
    BY <2>1, <2>2, <1>2
  <2>4. \A c \in Cells : At(m, c) # Absent => c.t \in ts \cup {Freed}
    BY <1>2, <1>3, <1>4 DEF Fits
  <2> QED BY <2>3, <2>4, <1>2 DEF Fits
<1>8. Clean(m)
  BY <1>2, <1>3, <1>4 DEF Sound, Clean
<1>9. ASSUME NEW h \in Cells, IsRef(At(m, h))
      PROVE  LET x == Target(At(m, h)) IN
             Firm(m, x) /\ ~IsRef(At(m, x)) /\ k[x.t] <= k[h.t]
  <2> DEFINE h2 == IF h.t = Local /\ At(table, h) = Absent THEN Cell(BoxTable, h.n) ELSE h
             x == Target(At(m, h))
  <2>1. h2 \in Cells /\ At(m, h) = At(table, h2) /\ h.t \in TableIds
        /\ (h2.t = h.t \/ (h2.t = BoxTable /\ h.t = Local))
    BY <1>2, <1>4, CellsAre
  <2> HIDE DEF h2
  <2>2. Firm(table, x) /\ ~IsRef(At(table, x)) /\ k[x.t] <= k[h2.t]
    BY <2>1, <1>3, <1>9 DEF Sound
  <2>3. x \in Cells /\ x.t \in TableIds
    BY <2>2, CellsAre DEF Firm
  <2> HIDE DEF x
  <2>4. Firm(m, x) /\ ~IsRef(At(m, x))
    BY <2>2, <2>3, <1>6
  <2>5. k[x.t] \in Nat /\ k[h.t] \in Nat /\ k[h2.t] \in Nat
    BY <2>1, <2>3, <1>3, <1>4 DEF Ranking
  <2>6. k[x.t] <= k[h.t]
    BY <2>1, <2>2, <2>5, <1>5
  <2> QED BY <2>4, <2>6 DEF x
<1>10. Sound(m, k)
  BY <1>8, <1>9 DEF Sound
<1> QED BY <1>1, <1>7, <1>10, StaySound DEF k

\* Tables keep their ranks as frames come and go above them.
LEMMA RanksKept ==
  ASSUME NEW s, StackFits(s), OneLoop(s), NEW s2, StackFits(s2), OneLoop(s2),
         NEW n, n \in 1..Len(s), n \in 1..Len(s2), \A i \in 1..n : s[i] = s2[i]
  PROVE  \A t \in {s[i].table : i \in 1..n} \cup {BoxTable} : Ranks(s)[t] = Ranks(s2)[t]
<1>1. ASSUME NEW i \in 1..n, s[i].table # BoxTable
      PROVE  Ranks(s)[s[i].table] = Ranks(s2)[s[i].table]
  <2>1. Len(s) \in Nat /\ Len(s2) \in Nat
    BY DepthAssumption DEF StackFits
  <2>2. i \in 1..Len(s) /\ i \in 1..Len(s2) /\ s[i] = s2[i]
    BY <2>1
  <2> QED BY <2>2, <1>1, RanksAre
<1>2. Ranks(s)[BoxTable] = Ranks(s2)[BoxTable]
  BY RanksAre
<1> QED BY <1>1, <1>2

LEMMA PushRanks ==
  ASSUME StackFits(stack), OneLoop(stack), NEW f, Push(f), StackFits(stack'),
         f.table = LoopTable => \A i \in 1..Depth : stack[i].table # LoopTable
  PROVE  /\ OneLoop(stack') /\ Ranks(stack') \in Ranking
         /\ \A t \in TablesOf(stack) : Ranks(stack)[t] = Ranks(stack')[t]
         /\ \A t \in TablesOf(stack) : Ranks(stack')[t] <= Depth + 1
         /\ f.table # BoxTable => Ranks(stack')[f.table] = Depth + 1
<1>1. /\ stack \in Seq(Kinded) /\ Len(stack) \in Nat /\ Len(stack) >= 1 /\ Depth = Len(stack)
      /\ stack' = Append(stack, f)
  BY FramesAre DEF StackFits, Push, Depth
<1>2. /\ Len(stack') = Len(stack) + 1
      /\ \A i \in 1..Len(stack) : stack'[i] = stack[i]
      /\ stack'[Len(stack) + 1] = f
  BY <1>1
<1>3. OneLoop(stack')
  <2> SUFFICES ASSUME NEW i \in 1..Len(stack'), NEW j \in 1..Len(stack'),
                      stack'[i].table = LoopTable, stack'[j].table = LoopTable
               PROVE  i = j
    BY DEF OneLoop
  <2>1. (i \in 1..Len(stack) \/ i = Len(stack) + 1) /\ (j \in 1..Len(stack) \/ j = Len(stack) + 1)
    BY <1>1, <1>2
  <2>2. CASE i \in 1..Len(stack) /\ j \in 1..Len(stack)
    BY <2>2, <1>2 DEF OneLoop
  <2>3. CASE ~(i \in 1..Len(stack) /\ j \in 1..Len(stack))
    <3>1. f.table = LoopTable \/ (i = Len(stack) + 1 /\ j = Len(stack) + 1)
      BY <2>1, <2>3, <1>2
    <3>2. \A x \in 1..Len(stack) : f.table = LoopTable => stack'[x].table # LoopTable
      BY <1>1, <1>2
    <3> QED BY <3>1, <3>2, <2>1
  <2> QED BY <2>2, <2>3
<1>4. \A t \in TablesOf(stack) : Ranks(stack)[t] = Ranks(stack')[t]
  <2>1. Len(stack) \in 1..Len(stack) /\ Len(stack) \in 1..Len(stack')
    BY <1>1, <1>2
  <2> QED BY <2>1, <1>2, <1>3, RanksKept DEF TablesOf
<1>5. /\ Ranks(stack') \in Ranking
      /\ \A i \in 1..Len(stack') : stack'[i].table # BoxTable => Ranks(stack')[stack'[i].table] = i
      /\ Ranks(stack')[BoxTable] = Main
  BY <1>3, RanksAre
<1>6. f.table # BoxTable => Ranks(stack')[f.table] = Depth + 1
  <2>1. Len(stack) + 1 \in 1..Len(stack')
    BY <1>1, <1>2
  <2> QED BY <2>1, <1>1, <1>2, <1>5
<1>7. \A t \in TablesOf(stack) : Ranks(stack')[t] <= Depth + 1
  <2>1. ASSUME NEW i \in 1..Len(stack), stack[i].table # BoxTable
        PROVE  Ranks(stack')[stack[i].table] <= Depth + 1
    <3>1. i \in 1..Len(stack') /\ stack'[i] = stack[i] /\ i <= Depth + 1
      BY <1>1, <1>2
    <3> QED BY <3>1, <2>1, <1>5
  <2>2. Ranks(stack')[BoxTable] <= Depth + 1
    BY <1>1, <1>5 DEF Main
  <2> QED BY <2>1, <2>2 DEF TablesOf
<1> QED BY <1>3, <1>4, <1>5, <1>6, <1>7

LEMMA EnterSound ==
  ASSUME Fitting, Fitting', Sounding, ~spoiled, NEW f, Push(f), UNCHANGED <<table, broken>>,
         f.table = LoopTable => \A i \in 1..Depth : stack[i].table # LoopTable
  PROVE  Sounding'
<1>1. /\ StackFits(stack) /\ OneLoop(stack) /\ ~broken
      /\ Fits(table, TablesOf(stack)) /\ Sound(table, Ranks(stack)) /\ StackFits(stack')
  BY Unspoiled DEF Fitting
<1>2. OneLoop(stack') /\ \A t \in TablesOf(stack) : Ranks(stack)[t] = Ranks(stack')[t]
  BY <1>1, PushRanks
<1>3. Sound(table, Ranks(stack'))
  BY <1>1, <1>2, SoundRanks
<1> QED BY <1>1, <1>2, <1>3 DEF Sounding

LEMMA EnteringSound ==
  ASSUME Fitting, Fitting', Sounding, ~spoiled',
         (\E kind \in {"unit", "block"} : EnterBlock(kind)) \/ EnterLoop \/ EnterBody \/ EnterBox
  PROVE  Sounding'
<1>1. Depth \in 1..MaxDepth /\ DOMAIN stack = 1..Depth
  BY FramesAre DEF Fitting
<1>2. Depth < MaxDepth => Depth + 1 # LoopTable
  BY <1>1, DepthAssumption DEF LoopTable
<1>3. BoxTable # LoopTable
  BY DepthAssumption DEF LoopTable, BoxTable
<1>4. ASSUME NEW kind \in {"unit", "block"}, EnterBlock(kind)
      PROVE  Sounding'
  BY <1>2, <1>4, EnterSound DEF EnterBlock, Frame
<1>5. CASE EnterLoop
  <2>1. Depth < MaxDepth
    BY <1>1, <1>5, DepthAssumption DEF EnterLoop
  <2> QED BY <2>1, <1>2, <1>5, EnterSound DEF EnterLoop, Frame
<1>6. CASE EnterBody
  <2>1. \A i \in 1..Depth : stack[i].table # LoopTable
    BY <1>1, <1>6 DEF EnterBody, Spoils
  <2> QED BY <2>1, <1>6, EnterSound DEF EnterBody, Spoils
<1>7. CASE EnterBox
  BY <1>3, <1>7, EnterSound DEF EnterBox, Frame
<1> QED BY <1>4, <1>5, <1>6, <1>7

LEMMA CallSound ==
  ASSUME Fitting, Fitting', Sounding, NEW kind \in {"fn", "lambda"}, NEW param \in Names,
         NEW arg \in Args, NEW used \in BOOLEAN, Call(kind, param, arg, used), ~spoiled'
  PROVE  Sounding'
<1> DEFINE ts == TablesOf(stack)  us == TablesOf(stack')
           k == Ranks(stack)  k2 == Ranks(stack')
           u == InUse \/ used
           own == Cell(Depth + 1, param)
           e == IF arg.k = "none" THEN NilExpr ELSE arg.e
           v == RValue(table, e, u)
           m == Touch(table, e, u)
           x == Evaluate(m, e, u)
           set == Assigned(m, arg.id, v, u)
           bound == IF arg.k = "set" THEN Put(set.m, own, RefOf(set.m, set.c))
                    ELSE Put(m, own, x)
           ok == v # Absent /\ (arg.k = "set" => set.c # Wild)
           f == Frame(kind, Depth + 1, u)
<1>1. ~spoiled /\ Become(bound, ok) /\ Push(f) /\ Depth < MaxDepth
  BY DEF Call
<1>2. /\ Fits(table, ts) /\ Sound(table, k) /\ k \in Ranking /\ StackFits(stack)
      /\ OneLoop(stack) /\ ~broken /\ StackFits(stack')
  BY <1>1, Unspoiled DEF Fitting
<1>3. Depth \in 1..MaxDepth /\ Depth \in Nat
  BY <1>2, FramesAre
<1>4. f.table = Depth + 1 /\ Depth + 1 # LoopTable /\ Depth + 1 # BoxTable
  BY <1>1, <1>3, DepthAssumption DEF Frame, LoopTable, BoxTable
<1>5. /\ OneLoop(stack') /\ k2 \in Ranking
      /\ \A t \in ts : k[t] = k2[t]
      /\ \A t \in ts : k2[t] <= Depth + 1
      /\ k2[Depth + 1] = Depth + 1
  BY <1>1, <1>2, <1>4, PushRanks
<1>6. own \in Cells /\ own.t = Depth + 1 /\ own.t # Freed
  BY <1>1, <1>3, CellsAre, ExprsAre, DepthAssumption DEF TableIds, Freed
<1>7. own.t \notin ts
  <2>1. \A i \in 1..Depth : stack[i].table \in {i, LoopTable, BoxTable}
    BY DEF Fitting, StackFits, FrameFits, Depth
  <2>2. \A i \in 1..Depth : stack[i].table # Depth + 1
    BY <2>1, <1>3, <1>4
  <2> QED BY <2>2, <1>4, <1>6 DEF TablesOf, Depth
<1>8. e \in Exprs /\ (arg.k = "set" => arg.id \in Ids)
  BY ExprsAre DEF Args, Exprs
<1> HIDE DEF k, k2, u, f
\* A reference to a cell of the caller's memory is put in the new table.
<1>9. ASSUME NEW w, Fits(w, ts), Sound(w, k), NEW d, Firm(w, d), IsPlain(At(w, d))
      PROVE  Sound(Put(w, own, RefTo(d)), k2) /\ Put(w, own, RefTo(d)) \in Memories
  <2>1. Sound(w, k2)
    BY <1>5, <1>9, SoundRanks
  <2>2. ~Firm(w, own)
    BY <1>6, <1>7, <1>9 DEF Fits, Firm
  <2>3. d.t \in ts /\ d # own
    BY <1>9, <2>2 DEF Fits, Firm, Sound, Clean
  <2>4. k2[d.t] <= k2[own.t]
    BY <2>3, <1>5, <1>6
  <2>5. \A h \in Cells : At(w, h) # RefTo(own)
    BY <2>1, <2>2, <1>6, NoHolders
  <2>6. w \in Memories /\ RefTo(d) \in Values
    BY <1>9, ValuesAre DEF Fits, Firm
  <2> QED BY <2>1, <2>3, <2>4, <2>5, <2>6, <1>5, <1>6, <1>9, SoundPutRef, PutAt DEF IsPlain
<1>10. /\ Fits(m, ts) /\ Sound(m, k) /\ IsPlain(v) /\ Held(m, v)
       /\ \/ IsPlain(x)
          \/ /\ x = RefTo(Target(x))
             /\ Firm(m, Target(x)) /\ IsPlain(At(m, Target(x)))
  BY <1>2, <1>8, TouchFits, SoundTouch, RValueHeld, SoundRValue, SoundEvaluate
<1> HIDE DEF m, v, x, e
<1>11. ok /\ Sound(bound, k2) /\ bound \in Memories
  <2>1. v # Absent
    BY <1>10 DEF IsPlain
  <2>2. CASE arg.k = "set"
    <3>1. /\ Fits(set.m, ts) /\ Sound(set.m, k) /\ Firm(set.m, set.c) /\ set.c.t # Freed
          /\ IsPlain(At(set.m, set.c))
      BY <2>1, <2>2, <1>2, <1>8, <1>10, AssignedFits, SoundAssigned
    <3> HIDE DEF set
    <3>2. RefOf(set.m, set.c) = RefTo(set.c)
      BY <3>1 DEF RefOf, IsPlain
    <3>3. set.c # Wild
      BY <3>1, CellsAre
    <3> QED BY <3>1, <3>2, <3>3, <2>1, <2>2, <1>9
  <2>3. CASE arg.k # "set" /\ IsPlain(x)
    <3>1. Sound(m, k2) /\ m \in Memories
      BY <1>5, <1>10, SoundRanks DEF Fits
    <3> QED BY <3>1, <2>1, <2>3, <1>5, <1>6, SoundPutPlain, PutAt DEF IsPlain
  <2>4. CASE arg.k # "set" /\ ~IsPlain(x)
    <3> DEFINE d == Target(x)
    <3>1. x = RefTo(d) /\ Firm(m, d) /\ IsPlain(At(m, d))
      BY <2>4, <1>10
    <3> HIDE DEF d
    <3>2. Sound(Put(m, own, RefTo(d)), k2) /\ Put(m, own, RefTo(d)) \in Memories
      BY <3>1, <1>9, <1>10
    <3> QED BY <3>1, <3>2, <2>1, <2>4
  <2> QED BY <2>2, <2>3, <2>4
<1> HIDE DEF bound, ok
<1>12. bound[Freed] = Empty
  BY <1>11, CellsAre, EmptyIs DEF Sound, Clean
<1>13. table' = bound /\ ~broken'
  BY <1>1, <1>2, <1>11, <1>12 DEF Become
<1> QED BY <1>5, <1>11, <1>13 DEF Sounding, k2

LEMMA LeaveSound ==
  ASSUME Fitting, Sounding, Leave, ~spoiled'
  PROVE  Sounding'
<1> DEFINE ts == TablesOf(stack)  us == TablesOf(stack')
           k == Ranks(stack)  k2 == Ranks(stack')
           n == Depth - Parting
           m == Free(table, Cleared)
<1>1. ~spoiled
  BY DEF Leave
<1>2. /\ stack' = SubSeq(stack, 1, n) /\ n \in 1..Depth
      /\ Become(m, TRUE)
      /\ \A c \in Cells : c \in Cleared <=> c.t \in Left
  BY LeaveIs
<1>3. /\ Fits(table, ts) /\ Sound(table, k) /\ k \in Ranking /\ StackFits(stack)
      /\ OneLoop(stack) /\ ~broken
  BY <1>1, Unspoiled
<1>4. Depth = Len(stack) /\ Depth \in Nat /\ n \in Nat /\ Parting \in Nat
  BY <1>2, <1>3, FramesAre DEF Depth, Parting
<1>5. /\ \A i \in 1..Depth : stack[i].table # BoxTable => k[stack[i].table] = i
      /\ k[BoxTable] = Main
  BY <1>3, <1>4, RanksAre
<1>6. StackFits(stack') /\ Len(stack') = n /\ \A i \in 1..n : stack'[i] = stack[i]
  BY <1>2, <1>3, PopFits
<1>7. (Depth - Parting + 1)..Depth = (n + 1)..Depth
  OBVIOUS
<1> HIDE DEF k, k2, n
<1>8. /\ \A t \in Left : k[t] > n /\ k[t] \in Nat
      /\ \A t \in ts : k[t] > n => t \in Left
  <2>1. \A t \in Left : \E i \in (n + 1)..Depth : t = stack[i].table /\ t # BoxTable
    BY <1>7 DEF Left
  <2>2. \A i \in (n + 1)..Depth : i \in 1..Depth /\ i > n /\ i \in Nat
    BY <1>4
  <2>3. ASSUME NEW i \in 1..Depth, stack[i].table # BoxTable, k[stack[i].table] > n
        PROVE  stack[i].table \in Left
    <3>1. i \in (n + 1)..Depth
      BY <2>3, <1>4, <1>5
    <3> QED BY <3>1, <2>3, <1>7 DEF Left
  <2>4. ~(k[BoxTable] > n)
    BY <1>2, <1>4, <1>5 DEF Main
  <2>5. \A t \in ts : t = BoxTable \/ \E i \in 1..Depth : t = stack[i].table
    BY <1>4 DEF TablesOf
  <2> QED BY <2>1, <2>2, <2>3, <2>4, <2>5, <1>5
<1>9. ASSUME NEW h \in Cells, IsRef(At(table, h)), Target(At(table, h)) \in Cleared
      PROVE  h \in Cleared
  <2> DEFINE d == Target(At(table, h))
  <2>1. Firm(table, d) /\ k[d.t] <= k[h.t]
    BY <1>3, <1>9 DEF Sound
  <2>2. d \in Cells /\ d.t \in Left
    BY <2>1, <1>2, <1>9 DEF Firm
  <2>3. h.t \in ts
    <3>1. At(table, h) # Absent
      BY <1>9, ValuesAre
    <3> QED BY <3>1, <1>3 DEF Fits, Sound, Clean
  <2> HIDE DEF d
  <2>4. h.t \in TableIds /\ k[h.t] \in Nat /\ k[d.t] \in Nat /\ k[d.t] > n
    BY <2>2, <1>3, <1>8, CellsAre DEF Ranking
  <2>5. k[h.t] > n
    BY <2>1, <2>4, <1>4
  <2> QED BY <2>3, <2>5, <1>2, <1>8
<1>10. Fits(m, ts) /\ Sound(m, k)
  BY <1>3, <1>9, FreeFits, SoundFree DEF Fits
<1> HIDE DEF m
<1>11. table' = m /\ ~broken'
  BY <1>2, <1>3, <1>10, BecomeSound
<1>12. OneLoop(stack')
  <2>1. \A i \in 1..Len(stack') : i \in 1..Len(stack) /\ stack'[i] = stack[i]
    BY <1>2, <1>4, <1>6
  <2> QED BY <2>1, <1>3 DEF OneLoop
<1>13. Fits(m, us)
  BY <1>11, LeaveFits DEF Fitting
<1>14. \A t \in us : k[t] = k2[t]
  <2>1. n \in 1..Len(stack') /\ n \in 1..Len(stack)
    BY <1>2, <1>4, <1>6
  <2>2. \A t \in {stack'[i].table : i \in 1..n} \cup {BoxTable} : Ranks(stack')[t] = Ranks(stack)[t]
    BY <2>1, <1>3, <1>6, <1>12, RanksKept
  <2> QED BY <2>2, <1>6 DEF TablesOf, k, k2
<1>15. Sound(m, k2)
  BY <1>10, <1>13, <1>14, SoundRanks
<1> QED BY <1>11, <1>12, <1>15 DEF Sounding, k2

LEMMA InitSound ==
  ASSUME Init
  PROVE  Sounding
<1>1. \A c \in Cells : At(table, c) = Absent
  BY CellsAre DEF Init, Empty, At
<1>2. Sound(table, Ranks(stack))
  BY <1>1, ValuesAre DEF Sound, Clean
<1>3. OneLoop(stack)
  BY DEF Init, OneLoop
<1> QED BY <1>2, <1>3 DEF Sounding, Init

LEMMA StepSound ==
  ASSUME Fitting, Fitting', Sounding, [Next]_vars
  PROVE  Sounding'
<1> SUFFICES ASSUME ~spoiled'
             PROVE  Sounding'
  BY DEF Sounding
<1>1. CASE \E l \in Ids \cup Dots, e \in Exprs : Assign(l, e) \/ Move(l, e)
  BY <1>1, AssignSound, MoveSound
<1>2. CASE \E id \in Ids : Delete(id) \/ Unwrap(id) \/ Read(id)
  BY <1>2, DeleteSound, UnwrapSound, ReadSound
<1>3. CASE \E n \in Names, e \in Exprs : Var(n, e)
  BY <1>3, VarSound
<1>4. CASE \E n \in Names : Import(n)
  BY <1>4, ImportSound
<1>5. CASE \E id, to \in Ids : Reset(id, to)
  BY <1>5, ResetSound
<1>6. CASE Purge \/ ImportBox
  BY <1>6, PurgeSound, ImportBoxSound
<1>7. CASE \E kind \in {"fn", "lambda"}, p \in Names, a \in Args, used \in BOOLEAN :
             Call(kind, p, a, used)
  BY <1>7, CallSound
<1>8. CASE (\E kind \in {"unit", "block"} : EnterBlock(kind)) \/ EnterLoop \/ EnterBody \/ EnterBox
  BY <1>8, EnteringSound
<1>9. CASE Leave
  BY <1>9, LeaveSound
<1>10. CASE UNCHANGED vars
  BY <1>10 DEF vars, Sounding
<1> QED BY <1>1, <1>2, <1>3, <1>4, <1>5, <1>6, <1>7, <1>8, <1>9, <1>10 DEF Next

\* The invariant is inductive.
THEOREM ScopesInductive == Spec => []ScopesInv
<1>1. Init => ScopesInv
  BY InitFits, InitSound DEF ScopesInv
<1>2. ScopesInv /\ [Next]_vars => ScopesInv'
  BY StepFits, StepSound DEF ScopesInv
<1> QED BY <1>1, <1>2, PTL DEF Spec

\* Unless the program does one of the things that spoil references (among them `global` in
\* a table that outlives the imported name's), each refers to a plain value that lives at
\* least as long, and no freed memory is touched.
THEOREM RefsAlwaysSound == Spec => []RefsSound
<1>1. ScopesInv => RefsSound
  <2> SUFFICES ASSUME ScopesInv, ~spoiled
               PROVE  /\ ~broken
                      /\ \A c \in Cells : IsRef(At(table, c)) =>
                           LET d == Target(At(table, c))
                           IN  At(table, d) # Absent /\ ~IsRef(At(table, d)) /\ Rank(d.t) <= Rank(c.t)
    BY DEF RefsSound
  <2>1. /\ Sound(table, Ranks(stack)) /\ ~broken
        /\ \A t \in TableIds : Rank(t) = Ranks(stack)[t]
    BY Unspoiled DEF ScopesInv
  <2>2. ASSUME NEW c \in Cells, IsRef(At(table, c))
        PROVE  LET d == Target(At(table, c))
               IN  At(table, d) # Absent /\ ~IsRef(At(table, d)) /\ Rank(d.t) <= Rank(c.t)
    BY <2>1, <2>2, CellsAre DEF Sound, Firm
  <2> QED BY <2>1, <2>2
<1> QED BY <1>1, ScopesInductive, PTL
==============================================================================
