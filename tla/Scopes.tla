-------------------------------- MODULE Scopes --------------------------------
(***************************************************************************)
(* Names, tables and references: which table scope_lookup finds a name in, *)
(* what assignment, deletion, import by reference and argument binding do  *)
(* to the cells of those tables, and when a cell's memory goes away.       *)
(*                                                                         *)
(* A cell is an entry of a table (DataTable: a hash map from names to      *)
(* Values whose nodes never move).  A ValueRef is the raw address of a     *)
(* cell, so it is left behind when the cell is erased.  The program is     *)
(* arbitrary: every operation may come next, with any names.  What is left *)
(* out are values other than plain ones and references, and exceptions.    *)
(***************************************************************************)
EXTENDS Integers, Sequences, SequencesExt, FiniteSetsExt

CONSTANTS
  Names,     \* identifiers of the program
  Vals,      \* plain values other than nil
  MaxDepth,  \* bound: frames on exec_stack
  Ops,       \* operations the program may contain
  Beyond     \* bound: whether a program goes on once a reference may be spoiled

AllOps == {"assign", "move", "delete", "var", "import", "unwrap", "reset",
           "purge", "read", "call", "block", "loop", "box"}

NilName == "nil"   \* DataTable::NIL_IDF, the entry get() returns for a name not found

ASSUME NamesAssumption == NilName \notin Names
ASSUME ValsAssumption == Vals \cap {"nil", "absent", "ref"} = {}
ASSUME DepthAssumption == MaxDepth \in Nat \ {0}
ASSUME OpsAssumption == Ops \subseteq AllOps /\ Beyond \in BOOLEAN

\* Frame i owns table i, but the bodies of loops and boxes: the table of a loop
\* body is the one in the syntax tree, and a box keeps its table.
Main == 1
LoopTable == MaxDepth + 1
BoxTable == MaxDepth + 2
Freed == 0          \* memory that belongs to no table
TableIds == 0..(MaxDepth + 2)
Slots == Names \cup {NilName}

Cells == [t : TableIds, n : Slots]
Cell(t, n) == [t |-> t, n |-> n]
Wild == Cell(Freed, NilName)

\* Values are records so that a reference is the address it holds.
Plain(v) == [v |-> v, t |-> Freed, n |-> NilName]
RefTo(c) == [v |-> "ref", t |-> c.t, n |-> c.n]
Nil == Plain("nil")
Absent == Plain("absent")
Values == {Plain(v) : v \in Vals \cup {"nil", "absent"}} \cup {RefTo(c) : c \in Cells}
IsRef(v) == v.v = "ref"
Target(v) == Cell(v.t, v.n)

FrameKinds == {"main", "fn", "lambda", "unit", "block", "proxy", "body", "box"}
Weak(f) == f.kind \in {"lambda", "block", "proxy", "body"}
IsFunction(f) == f.kind \in {"fn", "lambda"}

VARIABLES
  stack,    \* exec_stack: kind and table of every unit, and whether a box is in
            \* use (object_stack) while it runs
  table,    \* the cells of every table
  broken,   \* freed memory was read or written: behaviour is undefined
  spoiled   \* history: one of the operations that can spoil a reference was used

vars == <<stack, table, broken, spoiled>>

Depth == Len(stack)
Top == stack[Depth]
Local == Top.table
Empty == [n \in Slots |-> Absent]

(***************************************************************************)
(* Memory, as functions of the tables m.                                   *)
(***************************************************************************)
At(m, c) == m[c.t][c.n]
Exists(m, t, n) == m[t][n] # Absent
Put(m, c, v) == [m EXCEPT ![c.t][c.n] = v]

\* DataTable::get: a name not found gives the table's nil entry, made if need be.
Got(m, t, n) == IF Exists(m, t, n) THEN Cell(t, n) ELSE Cell(t, NilName)
AfterGet(m, t, n) ==
  IF Exists(m, t, n) \/ Exists(m, t, NilName) THEN m ELSE Put(m, Cell(t, NilName), Nil)

\* Value::get, for an address and for a value: one step through a reference.
Follow(m, c) == IF IsRef(At(m, c)) THEN Target(At(m, c)) ELSE c
Deref(m, v) == IF IsRef(v) THEN At(m, Target(v)) ELSE v

\* Mutant: a reference to a reference is not collapsed.
RefOfNested(m, c) == RefTo(c)

\* Value::ref: a reference to a reference is the inner one.
RefOf(m, c) == IF IsRef(At(m, c)) THEN At(m, c) ELSE RefTo(c)

\* Value::operator=: through a reference, but for the reference to the cell itself.
Write(m, c, v) == IF v = RefTo(c) THEN m ELSE Put(m, Follow(m, c), v)

\* Erasing cells leaves every reference to them dangling.
Outliving(v, cs) == IF IsRef(v) /\ Target(v) \in cs THEN RefTo(Wild) ELSE v
Free(m, cs) ==
  [t \in TableIds |-> [n \in Slots |->
     IF Cell(t, n) \in cs THEN Absent ELSE Outliving(m[t][n], cs)]]
CellsOf(t) == {Cell(t, n) : n \in Slots}

(***************************************************************************)
(* scope_lookup                                                            *)
(***************************************************************************)
InUse == Top.use

\* The frames looked through, from the top down to the one above the main unit.
Walk(global) == 2..(IF global THEN Depth - 1 ELSE Depth)

\* Frames whose table has the name.  A `#` lookup skips functions, but not from a
\* weak unit.
Finders(m, n, global) ==
  {i \in Walk(global) : Exists(m, stack[i].table, n) /\ (Weak(Top) \/ ~IsFunction(stack[i]))}

\* Mutant: the walk does not end at the first regular unit.
NoEnds(global) == {}

\* Frames below which a name without `#` is not looked for.
Ends(global) == {i \in Walk(global) : ~global /\ ~Weak(stack[i])}

\* The table a name is in, or would be made in.
ScopeLookup(m, n, global, used) ==
  LET found == Finders(m, n, global)
      ends == Ends(global)
  IN  IF Depth < 2 THEN Local
      ELSE IF ~global /\ used /\ Exists(m, BoxTable, n) THEN BoxTable
      ELSE IF ~global /\ ~Weak(Top) THEN Local
      ELSE IF found # {} /\ \A i \in ends : i <= Max(found) THEN stack[Max(found)].table
      ELSE IF ends # {} \/ (~global /\ ~Exists(m, Main, n)) THEN Local
      ELSE Main

(***************************************************************************)
(* Expressions: a literal, a name with or without `#`, or a box's entry.   *)
(***************************************************************************)
Ids == [k : {"id"}, n : Names, global : BOOLEAN]
Lits == [k : {"lit"}, n : Vals \cup {"nil"}, global : {FALSE}]
Dots == IF "box" \in Ops THEN [k : {"dot"}, n : Names, global : {FALSE}] ELSE {}
Exprs == Ids \cup Lits \cup Dots

\* The table an id or a box access looks in; used: a box is in use already.
Scope(m, e, used) == ScopeLookup(m, e.n, e.global, used \/ e.k = "dot")

\* Interpreter::get without and with following a reference.
Raw(m, e, used) == Got(m, Scope(m, e, used), e.n)
Referenced(m, e, used) == Follow(m, Raw(m, e, used))
Touch(m, e, used) == IF e.k = "lit" THEN m ELSE AfterGet(m, Scope(m, e, used), e.n)

\* evaluate(e): the value of the cell an id leads to; a box access gives a reference.
Evaluate(m, e, used) ==
  CASE e.k = "lit" -> Plain(e.n)
    [] e.k = "id"  -> At(m, Referenced(m, e, used))
    [] e.k = "dot" -> RefOf(m, Referenced(m, e, used))

\* unwrap_or_reference(e); Absent if freed memory had to be read.
RValue(m, e, used) ==
  LET t == Touch(m, e, used) IN Deref(t, Evaluate(t, e, used))

\* DataTable::get_or_create, and set for a name not in the table.
Made(m, t, n) == IF Exists(m, t, n) THEN m ELSE Put(m, Cell(t, n), Nil)

\* IdentifierExpr::assign: the name is made where scope_lookup says, then written
\* through what it refers to.
Assigned(m, id, v, used) ==
  LET made == Made(m, Scope(m, id, used), id.n)
      c == Referenced(made, id, used)
  IN  [m |-> Write(made, c, v), c |-> c]

(***************************************************************************)
(* What may spoil references.                                              *)
(***************************************************************************)
\* Cells that hold a reference to c.
Holders(m, c) == {h \in Cells : At(m, h) = RefTo(c)}

\* How long the memory of a table lasts: that of frame i until it leaves.
Rank(t) == IF t = BoxTable THEN Main
           ELSE IF t = LoopTable
                THEN LET is == {i \in DOMAIN stack : stack[i].table = LoopTable}
                     IN IF is = {} THEN Main ELSE Min(is)
                ELSE t

\* The step to memory m: broken if freed memory was touched.
Become(m, ok) ==
  /\ IF ok /\ m[Freed] = Empty
     THEN table' = m /\ UNCHANGED broken
     ELSE broken' = TRUE /\ UNCHANGED table
Spoils(condition) == spoiled' = (spoiled \/ condition)

Running == ~broken /\ (spoiled => Beyond)
Can(op) == op \in Ops /\ Running

(***************************************************************************)
(* Operations that run in the current frame.                               *)
(***************************************************************************)
\* lhs = rhs, with an identifier or a box access on the left; the latter makes
\* nothing, so a name the box lacks is looked up outside it.
Assign(l, e) ==
  /\ Can("assign")
  /\ LET v == RValue(table, e, InUse)
         m == Touch(table, e, InUse)
         r == Touch(m, l, InUse)
     IN  Become(IF l.k = "id" THEN Assigned(m, l, v, InUse).m
                              ELSE Write(r, Referenced(r, l, InUse), v),
                v # Absent)
  /\ UNCHANGED <<stack, spoiled>>

\* lhs <- rhs: an identifier on the right is deleted, and the left is written
\* where get() finds it, be it the nil entry.
Move(l, e) ==
  /\ Can("move")
  /\ LET v == RValue(table, e, InUse)
         t == Touch(table, e, InUse)
         gone == IF e.k = "id" THEN Cell(Scope(t, e, InUse), e.n) ELSE Wild
         m == IF e.k = "id" THEN Free(t, {gone}) ELSE t
         r == Touch(m, l, InUse)
     IN  /\ Become(Write(r, Referenced(r, l, InUse), Outliving(v, {gone})), v # Absent)
         /\ Spoils(gone # Wild /\ Holders(t, gone) # {})
  /\ UNCHANGED stack

\* delete: id
Delete(id) ==
  /\ Can("delete")
  /\ LET gone == Cell(Scope(table, id, InUse), id.n)
     IN  /\ Become(Free(table, {gone}), TRUE)
         /\ Spoils(Holders(table, gone) # {})
  /\ UNCHANGED stack

\* var: n = rhs, always in the table of the current unit.
Var(n, e) ==
  /\ Can("var")
  /\ LET v == RValue(table, e, InUse)
         m == Touch(table, e, InUse)
         made == Made(m, Local, n)
     IN  Become(Write(made, Follow(made, Cell(Local, n)), v), v # Absent)
  /\ UNCHANGED <<stack, spoiled>>

\* global: n, LibData::import_reference.
Import(n) ==
  /\ Can("import")
  /\ LET t == ScopeLookup(table, n, TRUE, InUse)
         m == AfterGet(table, t, n)
         v == RefOf(m, Got(m, t, n))
         here == Cell(Local, n)
         again == Exists(m, Local, n)
     IN  /\ Become(IF again THEN Write(m, here, v) ELSE Put(m, here, v), TRUE)
         /\ Spoils(\/ again /\ v # RefTo(here) /\ (IsRef(At(m, here)) \/ Holders(m, here) # {})
                   \/ Rank(v.t) > Rank(Local))
  /\ UNCHANGED stack

\* unwrap: id
Unwrap(id) ==
  /\ Can("unwrap")
  /\ LET m == Touch(table, id, InUse)
         c == Raw(m, id, InUse)
         v == Deref(m, At(m, c))
         cleared == Put(m, c, Nil)
     IN  Become(Write(cleared, c, v), v # Absent)
  /\ UNCHANGED <<stack, spoiled>>

\* id.reset(to): the reference behind id is pointed elsewhere.
Reset(id, to) ==
  /\ Can("reset")
  /\ LET m == Touch(table, id, InUse)
         c == Raw(m, id, InUse)
         r == Touch(m, to, InUse)
         d == Referenced(r, to, InUse)
     IN  /\ IsRef(At(m, c))
         /\ Become(Put(r, c, RefOf(r, d)), d # Wild)
         /\ Spoils(Rank(d.t) > Rank(c.t))
  /\ UNCHANGED stack

\* purge(): the table of the current unit is cleared.
Purge ==
  /\ Can("purge")
  /\ Become(Free(table, CellsOf(Local)), TRUE)
  /\ Spoils(\E c \in CellsOf(Local) : Holders(table, c) \ CellsOf(Local) # {})
  /\ UNCHANGED stack

\* Evaluating a name for its value only.
Read(id) ==
  /\ Can("read")
  /\ Become(Touch(table, id, InUse), RValue(table, id, InUse) # Absent)
  /\ UNCHANGED <<stack, spoiled>>

\* #box.import(): entries of the box not in the current table are copied there.
ImportBox ==
  /\ Can("box")
  /\ Become([table EXCEPT ![Local] =
               [n \in Slots |-> IF @[n] = Absent THEN table[BoxTable][n] ELSE @[n]]], TRUE)
  /\ UNCHANGED <<stack, spoiled>>

(***************************************************************************)
(* Entering and leaving scopes.                                            *)
(***************************************************************************)
Frame(kind, t, used) == [kind |-> kind, table |-> t, use |-> used]
Push(f) == stack' = Append(stack, f)

\* The argument of a call: missing, an expression, or an assignment, which
\* evaluates to a reference to what it assigned.
Args == {[k |-> "none"]} \cup [k : {"expr"}, e : Exprs] \cup
        IF "assign" \in Ops THEN [k : {"set"}, id : Ids, e : Ids \cup Lits] ELSE {}
NilExpr == [k |-> "lit", n |-> "nil", global |-> FALSE]

\* Function::call: the argument is evaluated before the callee's frame is pushed,
\* and set in a table of the callee's own.
Call(kind, param, arg, used) ==
  /\ Can("call") /\ Depth < MaxDepth
  /\ used => "box" \in Ops
  /\ LET u == InUse \/ used
         own == Cell(Depth + 1, param)
         e == IF arg.k = "none" THEN NilExpr ELSE arg.e
         v == RValue(table, e, u)
         m == Touch(table, e, u)
         set == Assigned(m, arg.id, v, u)
     IN  IF arg.k = "set"
         THEN Become(Put(set.m, own, RefOf(set.m, set.c)), v # Absent /\ set.c # Wild)
         ELSE Become(Put(m, own, Evaluate(m, e, u)), v # Absent)
  /\ Push(Frame(kind, Depth + 1, InUse \/ used))
  /\ UNCHANGED spoiled

\* invoke(Unit): a plain unit or the body of if, else, try and `->`, in a new table.
EnterBlock(kind) ==
  /\ Can("block") /\ Depth < MaxDepth
  /\ Push(Frame(kind, Depth + 1, InUse))
  /\ UNCHANGED <<table, broken, spoiled>>

\* exec_for_loop enters a proxy for the init and step expressions ...
EnterLoop ==
  /\ Can("loop") /\ Depth < MaxDepth - 1
  /\ Push(Frame("proxy", Depth + 1, InUse))
  /\ UNCHANGED <<table, broken, spoiled>>

\* ... and then the body, whose table is not renewed.
EnterBody ==
  /\ Running /\ Top.kind = "proxy"
  /\ Push(Frame("body", LoopTable, InUse))
  /\ Spoils(\E i \in DOMAIN stack : stack[i].table = LoopTable)
  /\ UNCHANGED <<table, broken>>

\* The unit of a box is executed in the table it keeps.
EnterBox ==
  /\ Can("box") /\ Depth < MaxDepth
  /\ Push(Frame("box", BoxTable, InUse))
  /\ UNCHANGED <<table, broken, spoiled>>

\* Mutant: the frame is popped and its table kept.
LeaveKeepsTable ==
  /\ Running /\ Depth > 1 /\ Top.kind # "proxy"
  /\ stack' = SubSeq(stack, 1, Depth - (IF Top.kind = "body" THEN 2 ELSE 1))
  /\ UNCHANGED <<table, broken, spoiled>>

\* leave_scope: the table of a unit that is not persistent is cleared; a loop
\* leaves its body and its proxy.
Leave ==
  /\ Running /\ Depth > 1 /\ Top.kind # "proxy"
  /\ LET n == IF Top.kind = "body" THEN 2 ELSE 1
         left == {stack[i].table : i \in (Depth - n + 1)..Depth} \ {BoxTable}
     IN  /\ stack' = SubSeq(stack, 1, Depth - n)
         /\ Become(Free(table, UNION {CellsOf(t) : t \in left}), TRUE)
  /\ UNCHANGED spoiled

Init ==
  /\ stack = <<Frame("main", Main, FALSE)>>
  /\ table = [t \in TableIds |-> Empty]
  /\ broken = FALSE
  /\ spoiled = FALSE

Next ==
  \/ \E l \in Ids \cup Dots, e \in Exprs : Assign(l, e) \/ Move(l, e)
  \/ \E id \in Ids : Delete(id) \/ Unwrap(id) \/ Read(id)
  \/ \E n \in Names, e \in Exprs : Var(n, e)
  \/ \E n \in Names : Import(n)
  \/ \E id, to \in Ids : Reset(id, to)
  \/ Purge \/ ImportBox
  \/ \E kind \in {"fn", "lambda"}, p \in Names, a \in Args, used \in BOOLEAN :
       Call(kind, p, a, used)
  \/ \E kind \in {"unit", "block"} : EnterBlock(kind)
  \/ EnterLoop \/ EnterBody \/ EnterBox \/ Leave

Spec == Init /\ [][Next]_vars

(***************************************************************************)
(* Properties                                                              *)
(***************************************************************************)
\* Types; the table of a frame that has left is empty, as is freed memory, so
\* the next unit at that depth begins with no locals (leave_scope's clear).
TypeOK ==
  /\ stack \in Seq([kind : FrameKinds, table : TableIds \ {Freed}, use : BOOLEAN])
  /\ Depth \in 1..MaxDepth /\ stack[1] = Frame("main", Main, FALSE)
  /\ table \in [TableIds -> [Slots -> Values]]
  /\ table[Freed] = Empty
  /\ \A i \in (Depth + 1)..MaxDepth : table[i] = Empty

\* Unless a program spoils one itself, every ValueRef in a table is the address of an
\* existing cell, of a plain value, in a table that lives at least as long, and no freed
\* memory is touched: calls and leave_scope never make a reference outlive its cell, and
\* neither does `global` in a table that goes with its frame.  A program spoils a
\* reference when it
\*   - deletes, moves or clears what a reference refers to, or imports a name twice,
\*   - resets a reference into a younger table, or re-enters a loop body,
\*   - imports a name into a table that outlives the name's: a box executed inside a plain
\*     unit or a block keeps, after one first `global: x`, a reference to the x of that
\*     unit, which leave_scope frees (LibData.cpp:101, Interpreter.cpp:413).
RefsSound ==
  ~spoiled => /\ ~broken
              /\ \A c \in Cells : IsRef(At(table, c)) =>
                   LET d == Target(At(table, c))
                   IN  /\ At(table, d) # Absent /\ ~IsRef(At(table, d))
                       /\ Rank(d.t) <= Rank(c.t)

\* The frames of the innermost regular unit and of the weak units on it.
Region == LET r == {i \in DOMAIN stack : ~Weak(stack[i])} IN Max(r)..Depth

\* With no box in use, a name without `#` leads to the table of the innermost
\* regular unit or of a weak unit on it, whatever the names of units further out
\* (Unit.h: weak units look up "in the upper scopes", others "only local idfrs").
UnprefixedStaysInside ==
  \A n \in Names :
    LET t == ScopeLookup(table, n, FALSE, FALSE)
    IN  \E i \in Region : t = stack[i].table
=============================================================================
