-------------------------- MODULE InterpreterProps --------------------------
(***************************************************************************)
(* What the execution core is expected to guarantee: how its three stacks  *)
(* and the native call stack fit together, what a return, a break, a       *)
(* handled exception and a stop may reach, and what becomes of exit tasks. *)
(***************************************************************************)
EXTENDS Interpreter, FiniteSets

ContRec == [k : ContKinds, u : Nat, n : Nat]
HandlerRec == [depth : Nat \ {0}, line : Nat]
Phases == {"ready", "run", "done", "uncaught", "escaped", "destroy", "gone",
           "terminated", "undefined"}

\* The type invariant: every id on a stack is an allocated unit, the main
\* unit stays at the bottom of exec_stack and is never freed (global(),
\* current_unit() and get_main() dereference it unchecked), and no handler
\* would cut exec_stack back to nothing.
StacksOK(m) ==
  /\ m \in [exec : Seq(Nat), tmp : Seq(Nat), unit : Seq(UnitRec), handling : Nat]
  /\ m.exec # <<>> /\ m.exec[1] = Main
  /\ m.unit # <<>> /\ m.unit[Main].kind = "main"
  /\ \A i \in DOMAIN m.exec : m.exec[i] \in DOMAIN m.unit
  /\ \A i \in DOMAIN m.tmp : m.tmp[i] \in DOMAIN m.unit \ {Main}

TypeOK ==
  /\ StacksOK(Stacks)
  /\ handlers \in Seq(HandlerRec)
  /\ objs \in Int
  /\ stopped \in BOOLEAN
  /\ known \in Nat /\ tasks \in Seq(1..known) /\ ran \in Seq(1..known)
  /\ cont \in Seq(ContRec)
  /\ \A i \in DOMAIN cont :
       /\ cont[i].k \in {"exec", "iter", "loop", "args", "iterable", "init"} =>
            cont[i].u \in DOMAIN unit
       /\ cont[i].k = "init" => cont[i].n \in DOMAIN unit
  /\ phase \in Phases
  /\ fuel \in Nat /\ line \in Nat /\ over \in BOOLEAN

-----------------------------------------------------------------------------
\* Native frames that have entered a scope and will leave it, loops that
\* have entered their proxy's under it, and the frames of a kind.
Entering == {c \in ContRec : c.k \in {"loop", "init"} \/ (c.k = "exec" /\ c.u # Main)}
Proxied == {c \in ContRec : c.k = "loop" /\ c.n # 0}
OfKind(k) == {c \in ContRec : c.k = k}

\* Of a native stack: its frames in a set, and the scopes entered by its
\* frames, from the i-th upwards.
Count(cs, K, i) == Cardinality({j \in i..Len(cs) : cs[j] \in K})
Owned(cs, i) == Count(cs, Entering, i) + Count(cs, Proxied, i)

\* Every leave_scope still owed by the native stack finds its own unit: the
\* scopes entered are exactly the top of exec_stack, in order, above at
\* least one frame.  (leave_scope pops whatever is on top, and run() restarts
\* the native stack over a cut exec_stack after each handled exception.)
ScopesMirrored ==
  Running /\ ~stopped =>
    /\ Owned(cont, 1) < Len(exec)
    /\ \A i \in DOMAIN cont :
         LET top == Len(exec) - Owned(cont, i + 1)
         IN  /\ cont[i] \in Entering => exec[top] = cont[i].u
             /\ cont[i] \in Proxied => exec[top - 1] = cont[i].n

\* Native frames that have made a copy of a callable and will leave it, and
\* those of for loops, which made the proxy's first: a method's or a loop's
\* is made before it is entered.
Copying == {c \in ContRec : \/ c.k \in {"loop", "args", "iterable", "init"}
                            \/ c.k = "exec" /\ c.u # Main}
Twice == {c \in ContRec : c.k = "init" \/ (c.k = "loop" /\ c.n # 0)}
Made(cs, i) == Count(cs, Copying, i) + Count(cs, Twice, i)

\* The copy a frame made last, and the proxy's under it.
Upper(c) == IF c.k = "init" THEN c.n ELSE c.u
Lower(c) == IF c.k = "init" THEN c.u ELSE c.n

\* While nothing was thrown and nothing stopped, tmp_call_stack owns exactly
\* the copies of the calls and loops in progress, entered or not, innermost
\* last: pop_tmp_callable's test that the top copy is the current unit never
\* fails, and no copy is left behind or freed too early.
CopiesMatchFrames ==
  phase = "run" /\ ~stopped =>
    /\ Len(tmp) = Made(cont, 1)
    /\ \A i \in DOMAIN cont :
         LET top == Len(tmp) - Made(cont, i + 1)
         IN  /\ cont[i] \in Copying => tmp[top] = Upper(cont[i])
             /\ cont[i] \in Twice => tmp[top - 1] = Lower(cont[i])

\* The handlers registered by the try expressions that are being evaluated
\* are the newest ones, in order, so an exception goes to the innermost
\* one and TryCatchExpr's evaluator pops the handler it pushed.
HandlersMirrored ==
  Running =>
    /\ Count(cont, OfKind("try"), 1) <= Len(handlers)
    /\ \A i \in DOMAIN cont : cont[i].k = "try" =>
         handlers[Len(handlers) - Count(cont, OfKind("try"), i + 1)].depth = cont[i].n

\* A handler of the program being run names a depth that exec_stack still
\* has, and inner handlers name greater depths, so that restoring the
\* execution state always returns to the unit that holds the try.
HandlersRestorable ==
  phase = "run" =>
    \A i \in DOMAIN handlers : handlers[i].line = line =>
      /\ handlers[i].depth <= Len(exec)
      /\ \A j \in 1..(i - 1) : handlers[j].line = line =>
           handlers[j].depth < handlers[i].depth

\* The mark of a handled exception is consumed by the unit it resumes: it is
\* never seen by another unit, by another program or by an exit task.
FlagConsumed ==
  handling > 0 => handling = 1 /\ phase \in {"run", "undefined"} /\ cont = <<>>

\* Without exceptions the object stack is exactly the accesses in progress;
\* a leaked table would redirect every later lookup.
UsesBalanced == objs = Count(cont, OfKind("use"), 1)

-----------------------------------------------------------------------------
\* Handling an exception resumes a unit where it was: in the course of a
\* program no unit but a loop's body starts its expressions over.
GoesForward ==
  line' = line /\ phase # "ready" =>
    \A u \in DOMAIN unit : unit[u].kind \notin {"body", "freed"} =>
      unit'[u].cur >= unit[u].cur
NoRestart == [][GoesForward]_vars

\* While run() goes on no step frees a frame that can still be executed or
\* looked through, whichever handlers cut the stacks back; but for the use of
\* a handler left by an earlier program, whose depth says nothing of this one.
FrameFreed == ~Dangling(ToSet(exec)) /\ Dangling(ToSet(exec))'
UsesStaleHandler == Len(handlers') < Len(handlers) /\ Last(handlers).line # line
SparesFrames ==
  /\ phase = "run" /\ phase' = "run" /\ (cont' # <<>> \/ handling' > 0)
  /\ ~UsesStaleHandler
  => ~FrameFreed
FramesStayAlive == [][SparesFrames]_vars

\* The frames above the topmost occurrence of a unit (run() pushes a unit it
\* resumes once more).
Above(u) == {exec[j] : j \in {k \in DOMAIN exec : \A i \in k..Len(exec) : exec[i] # u}}

\* A return value reaches another unit only through control blocks: whenever
\* a frame receives one, every frame above it is weak and carrying.
ReturnsInside ==
  phase = "run" /\ phase' = "run" =>
    \A u \in ToSet(exec) :
      ~unit[u].ret /\ unit'[u].ret => \A v \in Above(u) : unit[v].kind \in Carrying
ReturnStaysInside == [][ReturnsInside]_vars

\* A control block that ends with a return value also ends its parent, unless
\* that is a box: save_return does nothing at all for it and it goes on, although
\* Unit.h:27 says that a return only creates no value in a noreturn unit.
StopsParent ==
  /\ phase' = "run" /\ phase = "run" /\ ~stopped
  /\ cont # <<>> /\ cont' = Front(cont) /\ TopCont.k \in {"exec", "iter", "loop"}
  /\ unit[TopCont.u].ret /\ unit[TopCont.u].kind \in Carrying
  => \/ unit'[Last(exec')].fin
     \/ unit'[Last(exec')].kind \in NoReturn
ReturnStopsParent == [][StopsParent]_vars

\* stop() finishes every frame that is being executed, and none of them goes
\* on to another expression or is woken up by what still runs: the exit tasks,
\* the conditions, arguments and callbacks being evaluated, and the methods
\* called there, which start after stop().
StopsFrames ==
  /\ ~stopped /\ stopped' => \A u \in ToSet(exec) : unit'[u].fin
  /\ stopped => \A u \in ToSet(exec) :
       unit[u].fin => unit'[u].fin /\ unit'[u].cur <= unit[u].cur
NothingAfterStop == [][StopsFrames]_vars

-----------------------------------------------------------------------------
\* The tasks on on_exit_tasks that wait: all but as many as were started.
Begun == Cardinality({i \in DOMAIN tasks : tasks[i] \in ToSet(ran)})
Waiting == SubSeq(tasks, Begun + 1, Len(tasks))

Tasks == INSTANCE ExitTasks WITH registered <- known, pending <- Waiting, started <- ran

\* Exit tasks implement ExitTasks: although on_exit() runs after main, on
\* stop() and in the destructor, and the program may throw, stop or register
\* in between, tasks are started in the order registered, and none twice.
\* (Where a task itself throws or stops, on_exit() leaves its loop and the
\* next pass starts the same tasks again: see NoTaskForgotten.)
TasksInOrder == Tasks!Spec

\* Whatever the program and its tasks throw or stop, no task is dropped before
\* it was started, and none is left when the interpreter is gone: a pass that
\* an exception cut short keeps its tasks for the next one.  (A task must not
\* register another: the pass over the vector would not start it.)
NoTaskForgotten ==
  /\ phase # "undefined" => 1..known = ToSet(ran) \cup ToSet(tasks)
  /\ phase = "gone" => 1..known = ToSet(ran)

\* A program that evaluates finitely much ends, with its interpreter, and by
\* then each task it registered was started: run() does not loop over handled
\* exceptions, and neither stop() nor an exception leaves a native frame
\* waiting for ever.
Termination == <>(phase = "gone" /\ Waiting = <<>>)
=============================================================================
