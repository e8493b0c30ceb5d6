-------------------------------- MODULE Calls --------------------------------
(***************************************************************************)
(* Call expressions: what is called, what the argument list handed over    *)
(* is, and what each parameter of the callee receives.                     *)
(*                                                                         *)
(* The argument list belongs to the program: an InvokeExpr keeps it from   *)
(* one evaluation to the next, and whoever binds it may change it.  A      *)
(* function of the program takes its arguments by position; a C++ function *)
(* has them converted to its parameters, its defaults appended and the     *)
(* interpreter or the list itself injected where its signature asks for    *)
(* them; a method gets its object in front.                                *)
(*                                                                         *)
(* What the callee then does is left out, except that it may give a        *)
(* variable another value.                                                 *)
(***************************************************************************)
EXTENDS Naturals, Sequences, SequencesExt, FiniteSetsExt

CONSTANTS
  Names,      \* names of the program
  Things,     \* values they may hold, Nil among them
  Sites,      \* call expressions of the program
  Site,       \* Site[s]: its form, the name called, the receiver and the written arguments
  MaxAdded    \* bound: receivers that have been added to argument lists

Forms == {"direct", "callback", "host", "access", "static", "operator", "bracket"}

(***************************************************************************)
(* Values                                                                  *)
(***************************************************************************)
Nil == [is |-> "nil"]
NoValue == [is |-> "none"]
Number(n) == [is |-> "number", n |-> n]
Object(class) == [is |-> "object", class |-> class]
Closure(c) == [is |-> "callable", it |-> c]
Box(functions) == [is |-> "box", functions |-> functions]

\* A function of the program: a value per parameter, {} for one without a default.
Function(defaults) == [is |-> "function", defaults |-> defaults, method |-> FALSE]
\* A C++ function: the type of each parameter, and the defaults of the last ones.
Native(takes, defaults) == [is |-> "native", takes |-> takes, defaults |-> defaults]
\* A C++ function that takes the argument list as it is: a method that calls another one.
Alias(name) == [is |-> "alias", of |-> name]

(***************************************************************************)
(* Argument expressions: a name, or a literal                              *)
(***************************************************************************)
Name(n) == [is |-> "name", name |-> n]
Literal(v) == [is |-> "literal", value |-> v]
Interpreter == Literal([is |-> "interpreter"])
Arguments == Literal([is |-> "arguments"])

VARIABLES
  holds,   \* what each name holds
  args,    \* InvokeExpr::args of each call expression
  last     \* the last call: its site, the callee, the list handed over and what was received

vars == <<holds, args, last>>

NoCall == [site |-> {}]
Written(s) == Site[s].args
Read(a) == IF a.is = "name" THEN holds[a.name] ELSE a.value

Copy(v) == [how |-> "copy", of |-> v]
Cell(n) == [how |-> "cell", of |-> n]
Unread(a) == [how |-> "unread", of |-> a]

\* What a parameter of type t receives from the expression a; {} if the conversion throws.
Converted(t, a) ==
  CASE t = "Expression" -> {Unread(a)}
    [] t = "Value" -> {Copy(Read(a))}
    [] t = "Value&" -> {IF a.is = "name" THEN Cell(a.name) ELSE Copy(Read(a))}
    [] t = "Context" -> {v \in {Copy(Read(a))} : a = Interpreter}
    [] t = "CallArgs" -> {v \in {Copy(Read(a))} : a = Arguments}
    [] t = "Int" -> {v \in {Copy(Read(a))} : Read(a).is = "number"}
    [] t = "Object" -> {v \in {Copy(Read(a))} : Read(a).is = "object"}
    [] OTHER -> {v \in {Copy(Read(a))} : Read(a) = Object(t)}

(***************************************************************************)
(* Binding.  A binding is the list as the call leaves it, what each        *)
(* parameter received, and whether the call was raised instead.            *)
(***************************************************************************)
Bound(list, got) == [list |-> list, got |-> got, raised |-> FALSE]
Raised(list) == [list |-> list, got |-> <<>>, raised |-> TRUE]
Ignored(list) == Bound(list, <<>>)   \* Interpreter::invoke of something else: no value, no error

\* Function::argc does not count the parameter `this`, which registering a method adds.
ArgDef(f) == IF f.method THEN <<{}>> \o f.defaults ELSE f.defaults
Argc(f) == Cardinality({i \in DOMAIN f.defaults : f.defaults[i] = {}})

BindFunction(f, list) ==
  LET default(i) == IF ArgDef(f)[i] = {} THEN NoValue ELSE CHOOSE v \in ArgDef(f)[i] : TRUE
  IN IF Len(list) < Argc(f) THEN Raised(list)
     ELSE Bound(list, [i \in DOMAIN ArgDef(f) |->
            Copy(IF i <= Len(list) THEN Read(list[i]) ELSE default(i))])

\* The defaults for the arguments that are missing.  The index of the first is unsigned:
\* where more are missing than have a default it wraps around and none is appended.
WithDefaults(f, list) ==
  LET missing == Len(f.takes) - Len(list)
  IN IF missing > 0 /\ missing <= Len(f.defaults)
     THEN list \o [i \in 1..missing |-> Literal(f.defaults[Len(f.defaults) - missing + i])]
     ELSE list

\* Mutant: what is injected takes the place of an argument.
InjectOver(t, a, f, list) ==
  LET places == {i \in DOMAIN f.takes : f.takes[i] = t}
  IN  IF places = {} THEN list ELSE ReplaceAt(list, Min(places), a)

Inject(t, a, f, list) ==
  LET places == {i \in DOMAIN f.takes : f.takes[i] = t}
  IN  IF places = {} THEN list ELSE InsertAt(list, Min(places), a)

\* The interpreter and the list are injected into the list that was handed over, unless
\* the function has defaults and arguments are missing: then a copy was made.
BindNative(f, list) ==
  LET full == WithDefaults(f, list)
      all == Inject("CallArgs", Arguments, f, Inject("Context", Interpreter, f, full))
      copied == f.defaults # <<>> /\ Len(list) < Len(f.takes)
      left == IF copied THEN list ELSE all
      converted == [i \in DOMAIN f.takes |-> Converted(f.takes[i], all[i])]
  IN IF Len(all) < Len(f.takes) \/ {} \in ToSet(converted) THEN Raised(left)
     ELSE Bound(left, [i \in DOMAIN f.takes |-> CHOOSE v \in converted[i] : TRUE])

Bind(c, list) == IF c.is = "function" THEN BindFunction(c, list) ELSE BindNative(c, list)

(***************************************************************************)
(* The callables of the library the program uses                           *)
(***************************************************************************)
StringMethods ==
  [substr |-> Native(<<"String", "Context", "Int", "Int">>, <<Number(0)>>),
   find |-> Native(<<"String", "String", "Int">>, <<Number(0)>>),
   format |-> Native(<<"String", "Context", "CallArgs">>, <<>>),
   concat |-> Native(<<"String", "Context", "String">>, <<>>)]
CollectionMethods ==
  [get |-> Native(<<"Object", "Int">>, <<>>),
   fill |-> Native(<<"Object", "Value", "Int">>, <<Number(0)>>),
   for_each |-> Native(<<"Object", "Value">>, <<>>),
   subscript |-> Native(<<"Object", "Int">>, <<>>),
   subscript_foreach |-> Alias("for_each"),
   subscript_slice |-> Alias("slice")]
\* A class of the program: a method with a default and one without, and an operator.
PointMethods ==
  [move |-> [Function(<<{}, {Number(1)}>>) EXCEPT !.method = TRUE],
   reset |-> [Function(<<>>) EXCEPT !.method = TRUE],
   concat |-> [Function(<<{}>>) EXCEPT !.method = TRUE]]
Methods == [String |-> [m \in DOMAIN StringMethods \cup DOMAIN CollectionMethods |->
                          IF m \in DOMAIN StringMethods THEN StringMethods[m] ELSE CollectionMethods[m]],
            List |-> CollectionMethods,
            Point |-> PointMethods]
Inbuilt == [to_base |-> Native(<<"String", "Int", "Int">>, <<Number(10)>>),
            pause |-> Native(<<"Int">>, <<>>)]

\* What names hold are objects of these classes and functions of the program, and what a
\* static call names is a class; any other value is called, read or looked up in vain.
ASSUME SitesAssumption ==
  \A s \in Sites :
    /\ Site[s].form \in Forms /\ Site[s].args \in Seq(ToSet(Site[s].args))
    /\ IF Site[s].form = "static" THEN Site[s].recv \in DOMAIN Methods
       ELSE Site[s].form \in {"direct", "host"} \/ Site[s].recv \in Names
ASSUME ThingsAssumption ==
  \A v \in Things :
    /\ v.is = "object" => v.class \in DOMAIN Methods
    /\ v.is = "callable" => v.it.is = "function" /\ v.it.defaults \in Seq(ToSet(v.it.defaults))

(***************************************************************************)
(* Invoking.  An invocation is the callee, the list it is handed and the   *)
(* binding; its list is what is left of the call expression's own.         *)
(***************************************************************************)
Calling(callee, list, b) == [callee |-> callee, list |-> list, binding |-> b]
NotFound(list) == Calling({}, list, Raised(list))
Keeping(list, c) == [c EXCEPT !.binding.list = list]

Invoke(v, list) ==
  IF v.is = "callable" THEN Calling({v.it}, list, Bind(v.it, list))
  ELSE Calling({}, list, Ignored(list))
InvokeInbuilt(name, list) ==
  IF name \in DOMAIN Inbuilt THEN Invoke(Closure(Inbuilt[name]), list) ELSE NotFound(list)

\* What the evaluator knows: an InvokeExpr that is evaluated itself is not among it.
Evaluable ==
  {"AssignExpr", "BinaryOperatorExpr", "ConditionalExpr", "FormatStrExpr", "FunctionExpr",
   "IdentifierExpr", "IndexExpr", "ListExpr", "LiteralExpr", "LoopExpr", "MapExpr", "RangeExpr",
   "TryCatchExpr", "TypeRefExpr", "UnitExpr", "PrefixExpr", "PostfixExpr"}
EvaluateInvoke(name, list) ==
  IF "InvokeExpr" \notin Evaluable THEN NotFound(list) ELSE InvokeInbuilt(name, list)

\* A method is invoked with a copy of the list that has the object in front.
WithThis(v, list) == <<Literal(v)>> \o list
InvokeMemberInPlace(v, m, list) == Invoke(Closure(m), WithThis(v, list))
InvokeMember(v, m, list) == Keeping(list, Invoke(Closure(m), WithThis(v, list)))

\* An alias passes its whole list on, and invoking the method puts the object in front again.
InvokeMethod(v, name, list) ==
  LET table == Methods[v.class]
  IN IF name \notin DOMAIN table THEN NotFound(list)
     ELSE IF table[name].is # "alias" THEN InvokeMember(v, table[name], list)
     ELSE IF table[name].of \notin DOMAIN table THEN NotFound(list)
     ELSE Keeping(list, InvokeMember(v, table[table[name].of], WithThis(v, list)))

(***************************************************************************)
(* Evaluating a call expression                                            *)
(***************************************************************************)
Evaluated(s, c) ==
  /\ args' = [args EXCEPT ![s] = c.binding.list]
  /\ last' = [site |-> {s}, written |-> args[s] = Written(s), callee |-> c.callee,
              list |-> c.list, got |-> c.binding.got, raised |-> c.binding.raised]
  /\ UNCHANGED holds

\* f(..) in the program.
Direct(s) ==
  /\ Site[s].form = "direct"
  /\ Evaluated(s, EvaluateInvoke(Site[s].name, args[s]))

\* The library, or the host program, invokes a value with a list of values of its own: the
\* function a mapping, a filter or a loop was given, or a native function by its name.
Values(list) == [i \in DOMAIN list |-> Literal(Read(list[i]))]
Callback(s) ==
  /\ Site[s].form = "callback"
  /\ Evaluated(s, Keeping(args[s], Invoke(Read(Name(Site[s].recv)), Values(args[s]))))
InvokeByName(s) ==
  /\ Site[s].form = "host"
  /\ Evaluated(s, Keeping(args[s], InvokeInbuilt(Site[s].name, Values(args[s]))))

Receiver(s) == holds[Site[s].recv]

\* recv.name(..) on an object: the call expression is taken apart, not evaluated.
CallMethod(s) ==
  /\ Site[s].form = "access" /\ Receiver(s).is = "object"
  /\ Evaluated(s, InvokeMethod(Receiver(s), Site[s].name, args[s]))

\* On a box that has the name.
InBox(s) == Receiver(s).is = "box" /\ Site[s].name \in DOMAIN Receiver(s).functions
CallInBox(s) ==
  /\ Site[s].form = "access" /\ InBox(s)
  /\ Evaluated(s, EvaluateInvoke(Site[s].name, args[s]))

\* On anything else: the receiver is put in front of the expression's own list, to stay there.
Added == MapThenSumSet(LAMBDA s : Len(args[s]) - Len(Written(s)), Sites)
PseudoMethod(s) ==
  /\ Added < MaxAdded
  /\ Site[s].form = "access" /\ Receiver(s).is # "object" /\ ~InBox(s)
  /\ Evaluated(s, EvaluateInvoke(Site[s].name, <<Name(Site[s].recv)>> \o args[s]))

\* Type@name(..): the object is the one instance the class keeps for this.
CallStatic(s) ==
  /\ Site[s].form = "static"
  /\ Evaluated(s, InvokeMethod(Object(Site[s].recv), Site[s].name, args[s]))

\* recv op arg, where the object's class has a method named like the operator.
ApplyOverload(s) ==
  /\ Site[s].form = "operator"
  /\ Receiver(s).is = "object" /\ Site[s].name \in DOMAIN Methods[Receiver(s).class]
  /\ Evaluated(s, InvokeMethod(Receiver(s), Site[s].name, args[s]))

\* recv[arg], recv[do: arg], recv[a..b]: the argument is evaluated before the method is looked up.
Subscript(s) ==
  /\ Site[s].form = "bracket"
  /\ Evaluated(s, IF Receiver(s).is # "object" THEN NotFound(args[s])
                  ELSE Keeping(args[s], InvokeMethod(Receiver(s), Site[s].name, Values(args[s]))))

\* What the program does between two calls.
Assign(n, v) ==
  /\ holds[n] # v
  /\ holds' = [holds EXCEPT ![n] = v]
  /\ last' = NoCall
  /\ UNCHANGED args

Init ==
  /\ holds \in [Names -> {Nil}]
  /\ args = [s \in Sites |-> Written(s)]
  /\ last = NoCall

Evaluate(s) ==
  \/ Direct(s)
  \/ Callback(s)
  \/ InvokeByName(s)
  \/ CallMethod(s)
  \/ CallInBox(s)
  \/ PseudoMethod(s)
  \/ CallStatic(s)
  \/ ApplyOverload(s)
  \/ Subscript(s)

Next ==
  \/ \E s \in Sites : Evaluate(s)
  \/ \E n \in Names, v \in Things : Assign(n, v)

Spec == Init /\ [][Next]_vars

(***************************************************************************)
(* Properties                                                              *)
(***************************************************************************)
\* Evaluating a call leaves the program as it was written: whatever is called, and however
\* often, a call expression keeps its arguments (InvokeExpr::arg_list hands out the list
\* itself; Interpreter::invoke_method copies it).  The one exception is that of
\* LibInternal::invoke_pseudo_method, which leaves the receiver in front at each evaluation.
ProgramKept ==
  \A s \in Sites :
    LET added == Len(args[s]) - Len(Written(s))
    IN /\ added > 0 => Site[s].form = "access"
       /\ args[s] = [i \in 1..added |-> Name(Site[s].recv)] \o Written(s)

\* The arguments the source gives a call, its receiver first.
Given(s) ==
  CASE Site[s].form = "static" -> <<Literal(Object(Site[s].recv))>> \o Written(s)
    [] Site[s].form \in {"access", "operator", "bracket"} -> <<Name(Site[s].recv)>> \o Written(s)
    [] OTHER -> Written(s)

\* The parameters of a callee, and those of them the source declares.
Parameters(c) == IF c.is = "function" THEN DOMAIN ArgDef(c) ELSE DOMAIN c.takes
Declared(c) == {i \in Parameters(c) : c.is = "native" => c.takes[i] \notin {"Context", "CallArgs"}}

\* Which of the declared parameters i is, and its default, {} if it has none: those of a
\* C++ function belong to its last parameters.
Rank(c, i) == Cardinality({j \in Declared(c) : j <= i})
Default(c, i) ==
  LET behind == Cardinality({j \in Declared(c) : j > i})
  IN  IF c.is = "function" THEN ArgDef(c)[i]
      ELSE {c.defaults[j] : j \in {n \in DOMAIN c.defaults : n + behind = Len(c.defaults)}}

\* The call has something for the parameter i: an argument or its default.
Supplied(c, given, i) == Rank(c, i) <= Len(given) \/ Default(c, i) # {}

\* What the parameter i of a callee c, called with the arguments given, may receive: the
\* k-th the source declares takes the k-th argument, converted, or its own default.
Intended(c, given, i) ==
  IF Rank(c, i) <= Len(given)
  THEN Converted(IF c.is = "function" THEN "Value" ELSE c.takes[i], given[Rank(c, i)])
  ELSE {Copy(v) : v \in Default(c, i)}

\* The method is an alias: what it stands for gets the object twice.
MethodsOf(s) == Methods[IF Site[s].form = "static" THEN Site[s].recv ELSE Receiver(s).class]
Aliased(s) ==
  /\ Site[s].form \in {"access", "static", "operator", "bracket"}
  /\ MethodsOf(s)[Site[s].name].is = "alias"

\* A call that is not refused gives every parameter it has an argument for that argument,
\* and the others their own default, whatever is injected before or between the parameters
\* (Function::call, Interpreter::bind_func, call_helper, the wrappers of class_binder.h), for
\* a method, a static or a native call, a callback, an operator and a subscript.  A C++
\* function with neither is not called.  A parameter of the program's own functions that has
\* neither is left empty where the call is not refused: Function::call compares counts
\* (Function.cpp:65), and argc counts neither `this` (Class.cpp:94) nor where defaults stand,
\* so p.move() and g(a = .., b) called with one argument pass.
ArgumentsInPlace ==
  \A s \in last.site, c \in (IF last.site = {} THEN {} ELSE last.callee) :
    (last.written /\ ~last.raised /\ ~Aliased(s))
      => /\ DOMAIN last.got = Parameters(c)
         /\ \A i \in Declared(c) :
              c.is = "native" \/ Supplied(c, Given(s), i)
                => last.got[i] \in Intended(c, Given(s), i)

\* "Bracketed for-each: list[do: action]" (Methan0lEvaluator.cpp:191): the function that is
\* called for each element is the one between the brackets.
BracketsPassTheAction ==
  \A s \in last.site :
    (Site[s].form = "bracket" /\ ~last.raised /\ Aliased(s))
      => last.got[2] = Copy(Read(Written(s)[1]))
=============================================================================
