---------------------------- MODULE Interpreter ----------------------------
(***************************************************************************)
(* The execution core of the tree-walking interpreter: the three parallel  *)
(* stacks Interpreter::execute keeps (execution frames, temporary copies   *)
(* of callables, exception handlers), the native C++ call stack that walks *)
(* the expression tree beside them, and the run loop that catches what the *)
(* native stack throws.                                                    *)
(*                                                                         *)
(* The program being interpreted is arbitrary: the expression a unit       *)
(* evaluates next is chosen from the constant Kinds, and a unit may end    *)
(* before every expression.  Values, identifiers and tables are left out;  *)
(* of a unit's table only the presence of the return value is kept.        *)
(***************************************************************************)
EXTENDS Integers, Sequences, SequencesExt

CONSTANTS
  Kinds,       \* kinds of expressions the program may evaluate
  TaskKinds,   \* kinds of expressions exit tasks may evaluate
  Persistent,  \* TRUE in the interactive mode: main keeps its table
  Fuel,        \* bound: expressions, iterations and callbacks started
  MaxTasks,    \* bound: exit tasks registered
  Lines        \* bound: programs loaded one after the other

Main == 1

\* Kinds of expressions that invoke a unit, which has no arguments.
Callables == {"unit", "box"}
\* Kinds of expressions that end in a C++ exception: a plain one, a call of
\* a function with too few arguments, an unregistered call inside a box.
Throwing == {"throw", "badcall", "boxcall"}
ExprKinds == Callables \cup Throwing \cup
             {"fn", "try", "for", "foreach", "each", "access", "return", "break",
              "exit", "on_exit"}

ASSUME KindsAssumption == Kinds \subseteq ExprKinds /\ TaskKinds \subseteq ExprKinds
ASSUME BoundsAssumption ==
  /\ Fuel \in Nat /\ MaxTasks \in Nat /\ Lines \in Nat
  /\ Persistent \in BOOLEAN

UnitKinds == {"main", "fn", "unit", "box", "try", "catch", "proxy", "body", "freed"}
\* expr_block() units: weak, and carrying returns and breaks to the parent.
Carrying == {"try", "catch", "proxy", "body"}
\* box() units are noreturn.
NoReturn == {"box"}

UnitRec == [kind : UnitKinds, cur : Nat, fin : BOOLEAN, ret : BOOLEAN, brk : BOOLEAN]
NewUnit(kind) == [kind |-> kind, cur |-> 0, fin |-> FALSE, ret |-> FALSE, brk |-> FALSE]

VARIABLES
  exec,      \* exec_stack: unit ids, Main at the bottom
  tmp,       \* tmp_call_stack: ids of the copies it owns
  unit,      \* every unit ever allocated, by id
  handling,  \* exceptions_active
  handlers,  \* registered handlers: stack depth and line of their try
  objs,      \* size of object_stack
  stopped,   \* the stopped flag
  tasks,     \* on_exit_tasks: ids of registered tasks
  known,     \* how many tasks were ever registered (history)
  ran,       \* the tasks that were started, in order (history)
  cont,      \* the native call stack under run()
  phase,     \* where the host program is
  fuel,      \* what is left of Fuel
  line,      \* the program (REPL line) now loaded
  over       \* loop_iteration just said that the loop on top ends

stacks == <<exec, tmp, unit, handling>>
vars == <<exec, tmp, unit, handling, handlers, objs, stopped, tasks, known, ran,
          cont, phase, fuel, line, over>>

(***************************************************************************)
(* Operations on the stacks, as functions on a record of the four          *)
(* variables, so that an action can be the composition of the calls the    *)
(* C++ handler makes.                                                      *)
(***************************************************************************)
Stacks == [exec |-> exec, tmp |-> tmp, unit |-> unit, handling |-> handling]
Become(m) == /\ exec' = m.exec
             /\ tmp' = m.tmp
             /\ unit' = m.unit
             /\ handling' = m.handling

Current(m) == Last(m.exec)

\* Interpreter::tmp_callable: a copy owned by tmp_call_stack.
TmpCallable(m, kind) ==
  [m EXCEPT !.unit = Append(@, NewUnit(kind)),
            !.tmp = Append(@, Len(m.unit) + 1)]

\* Unit::begin and the push of enter_scope (Main's table is the global one).
EnterScope(m, u) ==
  [m EXCEPT !.unit[u].fin = m.unit[u].ret \/ m.unit[u].brk,
            !.exec = IF u = Main THEN @ ELSE Append(@, u)]

\* pop_tmp_callable: frees the top copy if it is the current unit.
PopTmpCallable(m) ==
  IF m.tmp # <<>> /\ Last(m.tmp) = Current(m)
  THEN [m EXCEPT !.unit[Current(m)].kind = "freed", !.tmp = Front(@)]
  ELSE m

\* Mutant: the frame is popped first, so the top copy is never the current unit.
LeaveScopePopsFirst(m) ==
  IF Len(m.exec) > 1 THEN PopTmpCallable([m EXCEPT !.exec = Front(@)]) ELSE m

\* leave_scope above Main: the table, or at least its result, is cleared.
LeaveScope(m) ==
  IF Len(m.exec) > 1
  THEN LET c == [m EXCEPT !.unit[Current(m)].ret = FALSE]
           p == PopTmpCallable(c)
       IN  [p EXCEPT !.exec = Front(@)]
  ELSE m

\* Mutant: the value is stored but the unit goes on.
SaveReturnGoesOn(m, u) ==
  IF m.unit[u].kind \in NoReturn THEN m ELSE [m EXCEPT !.unit[u].ret = TRUE]

\* Unit::save_return.
SaveReturn(m, u) ==
  IF m.unit[u].kind \in NoReturn
  THEN m
  ELSE [m EXCEPT !.unit[u].ret = TRUE, !.unit[u].fin = TRUE]

\* Units of a set, stopped; Unit::stop(do_break).
StopUnits(m, us, doBreak) ==
  [m EXCEPT !.unit = [u \in DOMAIN m.unit |->
     IF u \in us
     THEN [m.unit[u] EXCEPT !.fin = TRUE, !.brk = @ \/ doBreak]
     ELSE m.unit[u]]]

\* Mutant: only the unit that called stop() is stopped.
StopCurrent(m) == StopUnits(m, {Current(m)}, FALSE)

\* The loop of Interpreter::stop over exec_stack.
StopAll(m) == StopUnits(m, ToSet(m.exec), FALSE)

\* The frames under the current one, as a set of unit ids.
Below(m) == {m.exec[i] : i \in 1..(Len(m.exec) - 1)}
Parent(m) == IF Len(m.exec) > 1 THEN m.exec[Len(m.exec) - 1] ELSE Current(m)
Carries(m, u) == m.unit[u].kind \in Carrying

\* A break of a carrying unit is propagated to every carrying frame below.
PropagateBreak(m, u) ==
  IF m.unit[u].brk /\ Carries(m, u)
  THEN StopUnits(m, {v \in Below(m) : Carries(m, v)}, TRUE)
  ELSE m

\* Mutant: any unit hands its return value to its parent.
CarryReturnAlways(m, returned, carries, parent) ==
  IF returned THEN SaveReturn(m, parent) ELSE m

\* A carrying unit hands its return value to its parent.
CarryReturn(m, returned, carries, parent) ==
  IF carries /\ returned THEN SaveReturn(m, parent) ELSE m

\* Mutant: the unit starts over even if it resumes.
ExecuteStartsOver(m, u, own) ==
  LET e == IF own THEN EnterScope(m, u) ELSE m
  IN  [e EXCEPT !.handling = IF @ > 0 THEN @ - 1 ELSE 0,
                !.unit[u].cur = IF m.unit[u].brk THEN @ ELSE 0]

\* Mutant: the handled exception is never marked as such.
ExecuteKeepsHandling(m, u, own) ==
  LET e == IF own THEN EnterScope(m, u) ELSE m
  IN  IF m.handling > 0 \/ m.unit[u].brk THEN e ELSE [e EXCEPT !.unit[u].cur = 0]

\* The head of execute(unit, own): a unit resumed after a handled exception
\* keeps its cursor, any other starts over.
Execute(m, u, own) ==
  LET e == IF own THEN EnterScope(m, u) ELSE m
  IN  IF m.handling > 0
      THEN [e EXCEPT !.handling = @ - 1]
      ELSE IF m.unit[u].brk THEN e ELSE [e EXCEPT !.unit[u].cur = 0]

\* invoke(Unit) and invoke(Function): copy, then execute the copy.
Invoke(m, kind) ==
  LET p == TmpCallable(m, kind) IN Execute(p, Last(p.tmp), TRUE)

\* Mutants: one frame too many is kept, or cut.
RestoreKeepsOne(m, depth) ==
  IF Len(m.exec) <= depth THEN m ELSE [m EXCEPT !.exec = SubSeq(@, 1, depth + 1)]
RestoreCutsOne(m, depth) ==
  IF Len(m.exec) <= depth THEN m ELSE [m EXCEPT !.exec = SubSeq(@, 1, depth - 1)]

\* restore_execution_state(depth).
Restore(m, depth) ==
  IF Len(m.exec) <= depth THEN m ELSE [m EXCEPT !.exec = SubSeq(@, 1, depth)]

\* next_expression() moves the cursor of the unit being executed.
Advance(m, u) == [m EXCEPT !.unit[u].cur = @ + 1]

(***************************************************************************)
(* The native stack.  "exec" is execute(u, true), "iter" the execution of  *)
(* a loop body in the loop's own scope, "loop" a loop between two          *)
(* iterations.  "args", "iterable" and "init" are a call, a for-each and a *)
(* for loop that have made their copies and still evaluate the arguments,  *)
(* the iterable or the initialiser; the others are native functions that   *)
(* wait for their callee.                                                  *)
(***************************************************************************)
ContKinds == {"exec", "iter", "try", "loop", "each", "use", "catch", "pass",
              "args", "iterable", "init"}
Cont(k, u, n) == [k |-> k, u |-> u, n |-> n]
\* "loop": u is the body, n the proxy of a for loop or 0; "init": u is the
\* proxy, n the body; "args", "iterable": u is the copy still to be entered;
\* "try": n is the depth registered; "pass": n counts the tasks started.

TopCont == Last(cont)
In(k) == cont # <<>> /\ TopCont.k = k
InUnit == cont # <<>> /\ TopCont.k \in {"exec", "iter"}
Running == phase \in {"run", "destroy"}
InPass == \E i \in DOMAIN cont : cont[i].k = "pass"
InCatch == \E i \in DOMAIN cont : cont[i].k = "catch"

\* An expression is evaluated by execute()'s loop while the unit is not
\* finished.  The step and the condition of a loop that goes on, arguments,
\* an iterable and an initialiser are evaluated whatever was stopped.
CanEvaluate(kind) ==
  /\ Running
  /\ fuel > 0
  /\ kind \in (IF InPass THEN TaskKinds ELSE Kinds)
  /\ cont # <<>>
  /\ TopCont.k \in {"exec", "iter", "loop", "args", "iterable", "init"}
  /\ InUnit => ~unit[TopCont.u].fin
  /\ ~over

\* The stacks when the expression chosen starts to be evaluated.
Evaluated == IF InUnit THEN Advance(Stacks, TopCont.u) ELSE Stacks

Burn == fuel' = fuel - 1

Init ==
  /\ exec = <<Main>>
  /\ tmp = <<>>
  /\ unit = <<NewUnit("main")>>
  /\ handling = 0
  /\ handlers = <<>>
  /\ objs = 0
  /\ stopped = FALSE
  /\ tasks = <<>>
  /\ known = 0
  /\ ran = <<>>
  /\ cont = <<>>
  /\ phase = "ready"
  /\ fuel = Fuel
  /\ line = 1
  /\ over = FALSE

(***************************************************************************)
(* run(): execute the current unit, again after every handled exception.   *)
(***************************************************************************)
Undefined == phase' = "undefined" /\ UNCHANGED <<stacks, handlers, objs, stopped,
                                                 tasks, known, ran, cont, fuel, line, over>>
Dangling(us) == \E u \in us : unit[u].kind = "freed"

RunStart ==
  /\ phase = "ready"
  /\ phase' = "run"
  /\ Become(Execute(Stacks, Current(Stacks), TRUE))
  /\ cont' = <<Cont("exec", Current(Stacks), 0)>>
  /\ UNCHANGED <<handlers, objs, stopped, tasks, known, ran, fuel, line, over>>

\* An empty main unit is not run at all.
RunEmpty ==
  /\ phase = "ready"
  /\ phase' = "done"
  /\ UNCHANGED <<stacks, handlers, objs, stopped, tasks, known, ran, cont, fuel, line, over>>

RunResume ==
  /\ phase = "run" /\ cont = <<>> /\ handling > 0
  /\ IF Dangling({Current(Stacks)})
     THEN Undefined
     ELSE /\ Become(Execute(Stacks, Current(Stacks), TRUE))
          /\ cont' = <<Cont("exec", Current(Stacks), 0)>>
          /\ UNCHANGED <<handlers, objs, stopped, tasks, known, ran, phase, fuel, line, over>>

RunReturn ==
  /\ phase = "run" /\ cont = <<>> /\ handling = 0
  /\ phase' = "done"
  /\ UNCHANGED <<stacks, handlers, objs, stopped, tasks, known, ran, cont, fuel, line, over>>

(***************************************************************************)
(* Evaluation of one expression by the unit on top of the native stack.    *)
(***************************************************************************)
\* A call of a unit or box expression: copied and entered.
Call(kind) ==
  /\ CanEvaluate(kind)
  /\ LET m == Invoke(Evaluated, kind)
     IN  /\ Become(m)
         /\ cont' = Append(cont, Cont("exec", Last(m.tmp), 0))
  /\ Burn
  /\ UNCHANGED <<handlers, objs, stopped, tasks, known, ran, phase, line, over>>

\* A call of a method: it is copied before its arguments are evaluated.
CallFunction ==
  /\ CanEvaluate("fn")
  /\ LET m == TmpCallable(Evaluated, "fn")
     IN  /\ Become(m)
         /\ cont' = Append(cont, Cont("args", Last(m.tmp), 0))
  /\ Burn
  /\ UNCHANGED <<handlers, objs, stopped, tasks, known, ran, phase, line, over>>

\* A box access whose right-hand side calls a method.
Access ==
  /\ CanEvaluate("access")
  /\ objs' = objs + 1
  /\ LET m == TmpCallable(Evaluated, "fn")
     IN  /\ Become(m)
         /\ cont' = cont \o <<Cont("use", 0, 0), Cont("args", Last(m.tmp), 0)>>
  /\ Burn
  /\ UNCHANGED <<handlers, stopped, tasks, known, ran, phase, line, over>>

TryCatch ==
  /\ CanEvaluate("try") /\ InUnit
  /\ handlers' = Append(handlers, [depth |-> Len(exec), line |-> line])
  /\ LET m == Invoke(Evaluated, "try")
     IN  /\ Become(m)
         /\ cont' = cont \o <<Cont("try", 0, Len(exec)), Cont("exec", Last(m.tmp), 0)>>
  /\ Burn
  /\ UNCHANGED <<objs, stopped, tasks, known, ran, phase, line, over>>

\* exec_for_loop: copies of a proxy and of the body; the proxy is entered.
ForLoop ==
  /\ CanEvaluate("for") /\ InUnit
  /\ LET p == TmpCallable(Evaluated, "proxy")
         b == TmpCallable(p, "body")
     IN  /\ Become(EnterScope(b, Last(p.tmp)))
         /\ cont' = Append(cont, Cont("init", Last(p.tmp), Last(b.tmp)))
  /\ Burn
  /\ UNCHANGED <<handlers, objs, stopped, tasks, known, ran, phase, line, over>>

\* exec_foreach_loop: a copy of the body only.
ForEach ==
  /\ CanEvaluate("foreach") /\ InUnit
  /\ LET b == TmpCallable(Evaluated, "body")
     IN  /\ Become(b)
         /\ cont' = Append(cont, Cont("iterable", Last(b.tmp), 0))
  /\ Burn
  /\ UNCHANGED <<handlers, objs, stopped, tasks, known, ran, phase, line, over>>

\* The arguments are there: the callee is executed, whatever stopped says.
EnterCallee ==
  /\ Running /\ In("args")
  /\ Become(Execute(Stacks, TopCont.u, TRUE))
  /\ cont' = Append(Front(cont), Cont("exec", TopCont.u, 0))
  /\ UNCHANGED <<handlers, objs, stopped, tasks, known, ran, phase, fuel, line, over>>

\* The initialiser or the iterable was evaluated: the body is entered.
EnterLoop ==
  /\ Running
  /\ LET enter(body, proxy) ==
           /\ Become(EnterScope(Stacks, body))
           /\ cont' = Append(Front(cont), Cont("loop", body, proxy))
     IN  \/ In("init") /\ enter(TopCont.n, TopCont.u)
         \/ In("iterable") /\ enter(TopCont.u, 0)
  /\ UNCHANGED <<handlers, objs, stopped, tasks, known, ran, phase, fuel, line, over>>

\* A native method (for_each, map, filter) that takes a callback.
NativeEach ==
  /\ CanEvaluate("each")
  /\ Become(Evaluated)
  /\ cont' = Append(cont, Cont("each", 0, 0))
  /\ Burn
  /\ UNCHANGED <<handlers, objs, stopped, tasks, known, ran, phase, line, over>>

Return ==
  /\ CanEvaluate("return") /\ InUnit
  /\ Become(SaveReturn(Evaluated, Current(Stacks)))
  /\ Burn
  /\ UNCHANGED <<handlers, objs, stopped, tasks, known, ran, cont, phase, line, over>>

\* return: break
Break ==
  /\ CanEvaluate("break") /\ InUnit
  /\ Become(StopUnits(Evaluated, {Current(Stacks)}, TRUE))
  /\ Burn
  /\ UNCHANGED <<handlers, objs, stopped, tasks, known, ran, cont, phase, line, over>>

\* stop(): every frame is stopped and the exit tasks are run.
Exit ==
  /\ CanEvaluate("exit") /\ InUnit
  /\ IF Dangling(ToSet(exec))
     THEN Undefined
     ELSE /\ stopped' = TRUE
          /\ Become(StopAll(Evaluated))
          /\ cont' = Append(cont, Cont("pass", Len(tasks), 0))
          /\ Burn
          /\ UNCHANGED <<handlers, objs, tasks, known, ran, phase, line, over>>

\* register_exit_task; inside a pass over the tasks push_back may move them.
OnExit ==
  /\ CanEvaluate("on_exit") /\ InUnit
  /\ known < MaxTasks
  /\ \/ /\ Become(Evaluated)
        /\ tasks' = Append(tasks, known + 1)
        /\ known' = known + 1
        /\ Burn
        /\ UNCHANGED <<handlers, objs, stopped, ran, cont, phase, line, over>>
     \/ InPass /\ Undefined

(***************************************************************************)
(* A C++ exception leaves every native frame.  run() catches it, unless it *)
(* comes from run()'s own catch clause, where except() executes the catch  *)
(* body, or from the destructor.  pop_tmp_callable is called once, and     *)
(* only exec_stack is cut back.  A handler left behind by an earlier line  *)
(* may point to an expression that no longer exists.                       *)
(***************************************************************************)
Leave(to) == phase' = to /\ cont' = <<>> /\ UNCHANGED handlers

\* Mutant: the handler stays registered.
HandleExceptionKeepsHandler(m) ==
  LET h == Last(handlers)
      c == Invoke(Restore(PopTmpCallable(m), h.depth), "catch")
  IN  /\ Become(c)
      /\ cont' = <<Cont("catch", 0, 0), Cont("exec", Last(c.tmp), 0)>>
      /\ UNCHANGED <<handlers, phase>>

HandleException(m) ==
  LET h == Last(handlers)
      c == Invoke(Restore(PopTmpCallable(m), h.depth), "catch")
  IN  /\ Become(c)
      /\ handlers' = Front(handlers)
      /\ cont' = <<Cont("catch", 0, 0), Cont("exec", Last(c.tmp), 0)>>
      /\ UNCHANGED phase

Raise(m) ==
  IF phase = "destroy" THEN Become(m) /\ Leave("terminated")
  ELSE IF InCatch THEN Become(m) /\ Leave("escaped")
  ELSE IF handlers = <<>> THEN Become(m) /\ Leave("uncaught")
  ELSE \/ HandleException(m)
       \/ /\ Last(handlers).line # line
          /\ Become(m) /\ Leave("undefined")

Throw(kind) ==
  /\ CanEvaluate(kind)
  /\ Raise(IF kind = "badcall" THEN TmpCallable(Evaluated, "fn") ELSE Evaluated)
  /\ objs' = IF kind = "boxcall" THEN objs + 1 ELSE objs
  /\ Burn
  /\ UNCHANGED <<stopped, tasks, known, ran, line, over>>

(***************************************************************************)
(* Completion of native frames.                                            *)
(***************************************************************************)

\* The rest of execute(): the unit has no more expressions or is finished.
\* Once stopped, execute() returns before it leaves the scope.
Finish ==
  /\ Running /\ InUnit
  /\ LET u == TopCont.u
         returned == unit[u].ret
         carries == Carries(Stacks, u)
         parent == Parent(Stacks)
         broken == PropagateBreak(Stacks, u)
         left == IF TopCont.k = "exec" THEN LeaveScope(broken) ELSE broken
         exits == TopCont.k = "exec" /\ Len(exec) = 1 /\ ~Persistent
     IN  IF stopped
         THEN cont' = Front(cont) /\ UNCHANGED <<stacks, phase>>
         ELSE IF \/ unit[u].brk /\ carries /\ Dangling(Below(Stacks))
                 \/ returned /\ carries /\ left.unit[parent].kind = "freed"
         THEN phase' = "undefined" /\ UNCHANGED <<stacks, cont>>
         ELSE /\ Become(CarryReturn(left, returned, carries, parent))
              /\ cont' = IF exits THEN Append(Front(cont), Cont("pass", Len(tasks), 0))
                                  ELSE Front(cont)
              /\ UNCHANGED phase
  /\ over' = (TopCont.k = "iter" /\ unit[TopCont.u].fin)
  /\ UNCHANGED <<handlers, objs, stopped, tasks, known, ran, fuel, line>>

\* The condition holds: one more iteration.
LoopIterate ==
  /\ Running /\ In("loop") /\ fuel > 0
  /\ ~over
  /\ Become(Execute(Stacks, TopCont.u, FALSE))
  /\ cont' = Append(cont, Cont("iter", TopCont.u, 0))
  /\ Burn
  /\ UNCHANGED <<handlers, objs, stopped, tasks, known, ran, phase, line, over>>

\* Mutant: the proxy of a for loop is never left.
LoopExitForgetsProxy ==
  /\ Running /\ In("loop")
  /\ LET left == LeaveScope(Stacks)
     IN  Become(IF unit[TopCont.u].ret /\ ~stopped
                THEN SaveReturn(left, Current(left)) ELSE left)
  /\ cont' = Front(cont)
  /\ over' = FALSE
  /\ UNCHANGED <<handlers, objs, stopped, tasks, known, ran, phase, fuel, line>>

\* The condition fails or the body finished: leave the body, then the proxy.
LoopExit ==
  /\ Running /\ In("loop")
  /\ LET body == LeaveScope(Stacks)
         left == IF TopCont.n = 0 THEN body ELSE LeaveScope(body)
     IN  Become(IF unit[TopCont.u].ret /\ ~stopped
                THEN SaveReturn(left, Current(left)) ELSE left)
  /\ cont' = Front(cont)
  /\ over' = FALSE
  /\ UNCHANGED <<handlers, objs, stopped, tasks, known, ran, phase, fuel, line>>

\* Mutant: the handler of a try that returned stays registered.
TryDoneKeepsHandler ==
  /\ Running /\ In("try")
  /\ cont' = Front(cont)
  /\ UNCHANGED <<stacks, handlers, objs, stopped, tasks, known, ran, phase, fuel, line, over>>

\* The try unit returned: its handler is popped.
TryDone ==
  /\ Running /\ In("try")
  /\ handlers' = Front(handlers)
  /\ cont' = Front(cont)
  /\ UNCHANGED <<stacks, objs, stopped, tasks, known, ran, phase, fuel, line, over>>

\* A native loop invokes its callback whatever stopped says.
EachNext ==
  /\ Running /\ In("each") /\ fuel > 0
  /\ LET m == Invoke(Stacks, "fn")
     IN  /\ Become(m)
         /\ cont' = Append(cont, Cont("exec", Last(m.tmp), 0))
  /\ Burn
  /\ UNCHANGED <<handlers, objs, stopped, tasks, known, ran, phase, line, over>>

EachDone ==
  /\ Running /\ In("each")
  /\ cont' = Front(cont)
  /\ UNCHANGED <<stacks, handlers, objs, stopped, tasks, known, ran, phase, fuel, line, over>>

\* Mutant: the table stays on object_stack.
UseDoneForgetsUnuse ==
  /\ Running /\ In("use")
  /\ cont' = Front(cont)
  /\ UNCHANGED <<stacks, handlers, objs, stopped, tasks, known, ran, phase, fuel, line, over>>

\* unuse()
UseDone ==
  /\ Running /\ In("use")
  /\ objs' = objs - 1
  /\ cont' = Front(cont)
  /\ UNCHANGED <<stacks, handlers, stopped, tasks, known, ran, phase, fuel, line, over>>

\* except() returned: start_handling().
CatchDone ==
  /\ Running /\ In("catch")
  /\ handling' = handling + 1
  /\ cont' = Front(cont)
  /\ UNCHANGED <<exec, tmp, unit, handlers, objs, stopped, tasks, known, ran, phase, fuel, line, over>>

(***************************************************************************)
(* on_exit(): a pass over the tasks registered when it began, then clear.  *)
(***************************************************************************)
PassNext ==
  /\ Running /\ In("pass") /\ TopCont.n < TopCont.u
  /\ LET m == Invoke(Stacks, "fn")
     IN  /\ Become(m)
         /\ ran' = Append(ran, tasks[TopCont.n + 1])
         /\ cont' = Front(cont) \o <<Cont("pass", TopCont.u, TopCont.n + 1),
                                     Cont("exec", Last(m.tmp), 0)>>
  /\ UNCHANGED <<handlers, objs, stopped, tasks, known, phase, fuel, line, over>>

\* Mutant: the tasks are run and kept.
PassDoneKeepsTasks ==
  /\ Running /\ In("pass") /\ TopCont.n = TopCont.u
  /\ cont' = Front(cont)
  /\ phase' = IF phase = "destroy" THEN "gone" ELSE phase
  /\ UNCHANGED <<stacks, handlers, objs, stopped, tasks, known, ran, fuel, line, over>>

\* Mutant: the last task is taken for the end.
PassDoneTooSoon ==
  /\ Running /\ In("pass") /\ TopCont.n + 1 >= TopCont.u
  /\ IF \E i \in 1..(Len(cont) - 1) : cont[i].k = "pass"
     THEN Undefined
     ELSE /\ tasks' = <<>>
          /\ cont' = Front(cont)
          /\ phase' = IF phase = "destroy" THEN "gone" ELSE phase
          /\ UNCHANGED <<stacks, handlers, objs, stopped, known, ran, fuel, line, over>>

\* The vector is cleared under the feet of an outer pass, if there is one.
PassDone ==
  /\ Running /\ In("pass") /\ TopCont.n = TopCont.u
  /\ IF \E i \in 1..(Len(cont) - 1) : cont[i].k = "pass"
     THEN Undefined
     ELSE /\ tasks' = <<>>
          /\ cont' = Front(cont)
          /\ phase' = IF phase = "destroy" THEN "gone" ELSE phase
          /\ UNCHANGED <<stacks, handlers, objs, stopped, known, ran, fuel, line, over>>

(***************************************************************************)
(* The host program: load the next line, or destroy the interpreter.       *)
(***************************************************************************)

\* load(Unit), load_main, clear_result.  cur_expr is not assigned, so a
\* performed `break` is forgotten only if the new list ends elsewhere.
NextLine ==
  /\ phase \in {"done", "uncaught"} /\ Persistent /\ ~stopped /\ line < Lines
  /\ \E brk \in {FALSE, unit[Main].brk} :
       unit' = [unit EXCEPT ![Main].fin = FALSE, ![Main].ret = FALSE, ![Main].brk = brk]
  /\ exec' = <<Main>>
  /\ line' = line + 1
  /\ phase' = "ready"
  /\ UNCHANGED <<tmp, handling, handlers, objs, stopped, tasks, known, ran, cont, fuel, over>>

\* ~Interpreter: on_exit() once more.
Destroy ==
  /\ phase \in {"done", "uncaught", "escaped"}
  /\ phase' = "destroy"
  /\ cont' = <<Cont("pass", Len(tasks), 0)>>
  /\ UNCHANGED <<stacks, handlers, objs, stopped, tasks, known, ran, fuel, line, over>>

\* Nothing is left to do.
Halt == phase \in {"gone", "terminated", "undefined"} /\ UNCHANGED vars

Step ==
  \/ RunStart \/ RunEmpty \/ RunResume \/ RunReturn
  \/ \E kind \in Callables : Call(kind)
  \/ \E kind \in Throwing : Throw(kind)
  \/ CallFunction \/ Access \/ EnterCallee
  \/ TryCatch \/ ForLoop \/ ForEach \/ EnterLoop \/ NativeEach
  \/ Return \/ Break \/ Exit \/ OnExit
  \/ Finish \/ LoopIterate \/ LoopExit \/ TryDone \/ EachNext \/ EachDone
  \/ UseDone \/ CatchDone \/ PassNext \/ PassDone
Host == NextLine \/ Destroy

Next == Step \/ Host \/ Halt

Spec == Init /\ [][Next]_vars
\* The interpreter runs in one thread that nothing blocks.
FairSpec == Spec /\ WF_vars(Step) /\ WF_vars(Host)
=============================================================================
