------------------------------ MODULE Classes -------------------------------
(***************************************************************************)
(* Classes and objects: how a declaration becomes a class, what a class    *)
(* takes over from its base and its interfaces, how objects are made from  *)
(* classes and from other objects, and which method a call reaches.        *)
(*                                                                         *)
(* Inheritance is by copying: a class holds a flat table of its methods    *)
(* and a prototype table of fields, both filled when the declaration is    *)
(* executed.  An object is a handle on a table of fields: assignment       *)
(* shares the table, `new` and `objcopy` copy it.                          *)
(***************************************************************************)
EXTENDS Naturals, Sequences, SequencesExt, FiniteSetsExt

CONSTANTS
  Declarations,  \* class declarations of the program
  Vars,          \* variables of the program
  MaxObjects,    \* bound: objects alive at a time
  MaxReceivers   \* bound: times the named function Shared is bound to a class

Root == "Anonymous"        \* the class of objects without one, not in the registry
NoClass == "no class"
Names == {d.name : d \in Declarations}
Constructor == "construct"
Super == "super"
\* What every class has from the start (those the program never calls left out).
Natives == {Constructor, "equals", "class_id"}

\* A declaration: base is a name or NoClass, interfaces a sequence of names,
\* field the initial value of the class's one field, named like the class
\* ("none": no field), and methods the bodies of the methods in the body:
\* "quiet" (no effect), "writes" (this.field = ..), "super" (this.super()
\* first) or "shared" (the named function Shared).  A class of
\* the name that objects without a class give for theirs is left out.
Bodies == {"quiet", "writes", "super", "shared"}
ASSUME DeclarationsAssumption ==
  \A d \in Declarations :
    /\ d.name \notin {Root, NoClass}
    /\ d.interfaces \in Seq(STRING)
    /\ d.field \in {"none", "value", "object"}
    /\ \A m \in DOMAIN d.methods : d.methods[m] \in Bodies
    /\ (\E m \in DOMAIN d.methods : d.methods[m] \in {"writes", "super"}) => d.field # "none"
    /\ (\E m \in DOMAIN d.methods : d.methods[m] = "super") => d.base # NoClass
ASSUME BoundsAssumption == MaxObjects \in Nat \ {0} /\ MaxReceivers \in Nat

\* Tables of fields: the prototype of a class, or an object's.
Proto(n) == <<n, 0>>
ObjectTables == {<<Root, i>> : i \in 1..MaxObjects}

Nil == <<"nil">>
Val(x) == <<"value", x>>
Obj(k) == <<"object", k>>
Fun == <<"function">>       \* a function stored in a field
IsObj(v) == v[1] = "object"

VARIABLES
  classes,    \* TypeManager::classes and class_index: the registered classes
  table,      \* the tables of fields: prototypes and objects
  var,        \* values of the variables
  receivers   \* parameters `this` that registration has pushed onto Shared

vars == <<classes, table, var, receivers>>

Method(def, body, this) == [def |-> def, body |-> body, this |-> this]
NoFields == [n \in {} |-> Nil]
Table(class, fields) == [class |-> class, fields |-> fields]
Overlay(f, g) == [n \in DOMAIN f \cup DOMAIN g |-> IF n \in DOMAIN g THEN g[n] ELSE f[n]]
Without(f, n) == [m \in DOMAIN f \ {n} |-> f[m]]

Init ==
  /\ classes = [n \in {} |-> Nil]
  /\ table = [k \in {} |-> Nil]
  /\ var = [v \in Vars |-> Nil]
  /\ receivers = 0

(***************************************************************************)
(* Memory.  A table lives as long as a variable, a class or a table that   *)
(* lives refers to it.                                                     *)
(***************************************************************************)
Held(values) == {v[2] : v \in {w \in values : IsObj(w)}}
Values(f) == {f[n] : n \in DOMAIN f}

Roots(cs, vs) == Held(Values(vs)) \cup {Proto(n) : n \in DOMAIN cs}
\* The least set with the roots that holds what its tables refer to.
Reachable(ts, roots) ==
  LET closed == {ks \in {roots \cup s : s \in SUBSET (ObjectTables \cap DOMAIN ts)} :
                   \A k \in ks : Held(Values(ts[k].fields)) \subseteq ks}
  IN  {k \in DOMAIN ts : \A ks \in closed : k \in ks}

\* Tables and variables after a step, with what nothing holds any more freed.
Keep(cs, ts, vs) ==
  /\ var' = vs
  /\ table' = [k \in Reachable(ts, Roots(cs, vs)) |-> ts[k]]

\* A table not in use, if the bound leaves one.
Fresh(ts) ==
  LET free == {k \in ObjectTables : k \notin DOMAIN ts} IN {k \in free : \A j \in free : k[2] <= j[2]}
With(f, k, x) == [j \in DOMAIN f \cup {k} |-> IF j = k THEN x ELSE f[j]]

(***************************************************************************)
(* Declarations.                                                           *)
(***************************************************************************)
\* Class::Class: the default methods belong to the class that registers them.
DefaultMethods(name) == [m \in Natives |-> Method(name, "native", 1)]

\* Mutant: what the class already has is kept.
AddBaseUnder(methods, base) == Overlay(Without(base, Constructor), methods)

\* add_base_class: everything but the constructor, default methods and `super`
\* of the base included, over what is there.
AddBase(methods, base) == Overlay(methods, Without(base, Constructor))

\* Mutant: the parent's fields are not taken over.
InheritMethods(c, base) ==
  [c EXCEPT !.super = base.name,
            !.methods = AddBase(Overlay(c.methods, [m \in {Super} |-> base.methods[Constructor]]),
                                base.methods)]

\* Class::inherit: `super` is the parent's constructor until add_base_class
\* brings the parent's own `super`.
Inherit(c, base) ==
  [c EXCEPT !.super = base.name,
            !.fields = Overlay(c.fields, table[Proto(base.name)].fields),
            !.methods = AddBase(Overlay(c.methods, [m \in {Super} |-> base.methods[Constructor]]),
                                base.methods)]

\* A class with fields is no interface.
IsInterface(c) == table[Proto(c.name)].fields = NoFields
Implement(c, i) ==
  [c EXCEPT !.interfaces = Append(@, i.name), !.methods = AddBase(@, i.methods)]

\* The interfaces of the declaration, one after the other.
ImplementAll(c, is) ==
  LET with[k \in 0..Len(is)] ==
        IF k = 0 THEN c ELSE Implement(with[k - 1], classes[is[k]])
  IN  with[Len(is)]

\* register_method pushes `this` onto the function it is given, and stores a
\* copy: an inline function is new each time, a named one is not.
Registered(d, m) ==
  Method(d.name, d.methods[m], IF d.methods[m] = "shared" THEN receivers + 1 ELSE 1)
\* The body is a hash map; Shared may be bound once in it.
Binds(d) == \E m \in DOMAIN d.methods : d.methods[m] = "shared"

Body(c, d) ==
  [c EXCEPT !.methods = Overlay(@, [m \in DOMAIN d.methods |-> Registered(d, m)])]

\* The class a declaration builds, before its fields are put in a table: new,
\* derived, with interfaces, with a body.
New(d) ==
  [name |-> d.name, super |-> d.name, interfaces |-> <<>>,
   fields |-> NoFields, methods |-> DefaultMethods(d.name)]
Derived(d) == IF d.base = NoClass THEN New(d) ELSE Inherit(New(d), classes[d.base])
Build(d) == Body(ImplementAll(Derived(d), d.interfaces), d)

\* execute(ClassExpr): unknown names and interfaces with fields throw before
\* anything is registered.
Accepted(d) ==
  /\ d.base = NoClass \/ d.base \in DOMAIN classes
  /\ \A i \in Range(d.interfaces) : i \in DOMAIN classes /\ IsInterface(classes[i])

\* The declared field's value: `new: @()` makes a new object.
FieldValue(d, ts) ==
  CASE d.field = "none" -> {<<NoFields, ts>>}
    [] d.field = "value" -> {<<[n \in {d.name} |-> Val("init")], ts>>}
    [] OTHER -> {<<[n \in {d.name} |-> Obj(k)], With(ts, k, Table(Root, NoFields))>> : k \in Fresh(ts)}

\* register_type: emplace keeps the class a name already has, the new one is
\* dropped with its prototype.
Register(c, own, ts) ==
  IF c.name \in DOMAIN classes THEN UNCHANGED classes /\ Keep(classes, ts, var)
  ELSE LET cs == With(classes, c.name,
                      [name |-> c.name, super |-> c.super, interfaces |-> c.interfaces, methods |-> c.methods])
       IN  /\ classes' = cs
           /\ Keep(cs, With(ts, Proto(c.name), Table(NoClass, Overlay(c.fields, own))), var)

Declare(d) ==
  /\ Accepted(d)
  /\ Binds(d) => receivers < MaxReceivers
  /\ receivers' = receivers + (IF Binds(d) THEN 1 ELSE 0)
  /\ \E f \in FieldValue(d, table) : Register(Build(d), f[1], f[2])

(***************************************************************************)
(* Calls.  The outcome of running code is the set of the tables after it:  *)
(* empty when it throws.                                                   *)
(***************************************************************************)
\* Object::field fails for a field that is not there.
Assign(ts, k, n, x) ==
  IF n \in DOMAIN ts[k].fields THEN {[ts EXCEPT ![k].fields[n] = x]} ELSE {}

\* Class::invoke_method looks in the class, Anonymous::invoke_method in the
\* object.  A function in a field writes the object's field "x", if any.
Lookup(ts, k, m) ==
  LET o == ts[k] IN
  IF o.class = Root
  THEN IF m \in DOMAIN o.fields /\ o.fields[m] = Fun THEN {Method("x", "writes", 1)} ELSE {}
  ELSE IF m \in DOMAIN classes[o.class].methods THEN {classes[o.class].methods[m]} ELSE {}

Run(ts, k, m) ==
  CASE m.body \in {"native", "quiet"} -> {ts}
    [] m.body = "shared" -> IF m.this = 1 THEN {ts} ELSE {}
    [] m.body = "writes" -> Assign(ts, k, m.def, Val("set"))
    [] OTHER -> {}

\* this.super(..) is looked up in the class of the object, not of the method;
\* one that ends in "super" again would call itself for ever.
SuperFirst(ts, k, m) ==
  IF m.body # "super" THEN Run(ts, k, m)
  ELSE UNION {UNION {Assign(t, k, m.def, Val("set")) : t \in Run(ts, k, s)} : s \in Lookup(ts, k, Super)}
Invoke(ts, k, m) == UNION {SuperFirst(ts, k, f) : f \in Lookup(ts, k, m)}

\* v.method()
Call(v, m) ==
  /\ IsObj(var[v])
  /\ \E ts \in Invoke(table, var[v][2], m) : Keep(classes, ts, var)
  /\ UNCHANGED <<classes, receivers>>

\* v = Class@copy(), the one static call that leaves something behind: the
\* static instance has no fields.
StaticCopy(v, n) ==
  /\ n \in DOMAIN classes
  /\ \E k \in Fresh(table) :
       Keep(classes, With(table, k, Table(n, NoFields)), [var EXCEPT ![v] = Obj(k)])
  /\ UNCHANGED <<classes, receivers>>

(***************************************************************************)
(* Objects.                                                                *)
(***************************************************************************)
\* v holds the object of table k once its constructor has run.
Construct(v, ts, k) ==
  /\ \E done \in Invoke(ts, k, Constructor) :
       Keep(classes, done, [var EXCEPT ![v] = Obj(k)])
  /\ UNCHANGED <<classes, receivers>>

\* Mutant: the object takes the prototype itself.
InstantiateShared(v, n) ==
  /\ n \in DOMAIN classes
  /\ LET k == Proto(n) IN Construct(v, [table EXCEPT ![k].class = n], k)

\* v = new: Class(..), Class::create: a copy of the prototype, and the
\* constructor, which is never inherited.
Instantiate(v, n) ==
  /\ n \in DOMAIN classes
  /\ \E k \in Fresh(table) :
       Construct(v, With(table, k, Table(n, table[Proto(n)].fields)), k)

\* v = new: w(..): a copy of the object w, constructed again.
InstantiateLike(v, w) ==
  /\ IsObj(var[w])
  /\ \E k \in Fresh(table) : Construct(v, With(table, k, table[var[w][2]]), k)

\* v = new: @(..)
NewAnonymous(v, fields) ==
  /\ \E k \in Fresh(table) :
       Keep(classes, With(table, k, Table(Root, fields)), [var EXCEPT ![v] = Obj(k)])
  /\ UNCHANGED <<classes, receivers>>
AnonymousFields ==
  {NoFields, [n \in {"x"} |-> Val("init")], [n \in {"x", Constructor} |-> IF n = "x" THEN Val("init") ELSE Fun]}

\* v = objcopy: w, with the default copy; without a class it throws.
CopyObject(v, w) ==
  /\ IsObj(var[w]) /\ table[var[w][2]].class # Root
  /\ \E k \in Fresh(table) :
       Keep(classes, With(table, k, table[var[w][2]]), [var EXCEPT ![v] = Obj(k)])
  /\ UNCHANGED <<classes, receivers>>

\* v = w and v = w.field: values that are objects share their table.  (Other
\* values have nothing to share; what code writes stands for them.)
AssignVar(v, x) ==
  /\ Keep(classes, table, [var EXCEPT ![v] = x])
  /\ UNCHANGED <<classes, receivers>>
Readable ==
  LET objects == {w \in Vars : IsObj(var[w])}
  IN  {Nil} \cup {x \in Values(var) \cup UNION {Values(table[var[w][2]].fields) : w \in objects} : IsObj(x)}

\* w.field = x
WriteField(w, n, x) ==
  /\ IsObj(var[w])
  /\ \E ts \in Assign(table, var[w][2], n, x) : Keep(classes, ts, var)
  /\ UNCHANGED <<classes, receivers>>

Next ==
  \/ \E d \in Declarations : Declare(d)
  \/ \E v \in Vars, n \in Names : Instantiate(v, n) \/ StaticCopy(v, n)
  \/ \E v, w \in Vars : InstantiateLike(v, w) \/ CopyObject(v, w)
  \/ \E v \in Vars, fields \in AnonymousFields : NewAnonymous(v, fields)
  \/ \E v \in Vars : \E x \in Readable : AssignVar(v, x)
  \/ \E w \in Vars, n \in Names \cup {"x"} : \E x \in {y \in Values(var) : IsObj(y)} : WriteField(w, n, x)
  \/ \E v \in Vars, m \in {"draw", Constructor, Super} : Call(v, m)

Spec == Init /\ [][Next]_vars

-----------------------------------------------------------------------------
\* What a class brings itself: the methods in its body, and the default ones
\* where there is nobody to copy them from.
Brings(n) ==
  LET c == classes[n] IN
  {m \in DOMAIN c.methods : c.methods[m].def = n /\ c.methods[m].body # "native"}
    \cup (IF c.super = n /\ c.interfaces = <<>> THEN Natives ELSE {})

\* Where a search along the declared hierarchy finds m: in the class itself,
\* below its interfaces from the last to the first, below its base.
Search(m) ==
  LET at[n \in DOMAIN classes] ==
        LET c == classes[n]
            having == {i \in DOMAIN c.interfaces : at[c.interfaces[i]] # {}}
        IN  IF m \in Brings(n) THEN {n}
            ELSE IF having # {} THEN at[c.interfaces[Max(having)]]
            ELSE IF c.super # n THEN at[c.super] ELSE {}
  IN  at

\* Constructors are a class's own and `super` is not searched for.
Searched == (Natives \cup UNION {DOMAIN d.methods : d \in Declarations}) \ {Constructor, Super}

\* The flat tables resolve a call as a search along the declared hierarchy
\* would: an override reaches every class below it, an interface named later
\* wins over one named earlier and over the base, with its default methods
\* too.  (Class::add_base_class, Class::implement, register_method)
LookupIsLinear ==
  \A n \in DOMAIN classes :
    LET methods == classes[n].methods
    IN  /\ DOMAIN methods \ {Super} \subseteq Searched \cup {Constructor}
        /\ \A m \in Searched : Search(m)[n] = {methods[x].def : x \in {m} \cap DOMAIN methods}
        /\ methods[Constructor].def = n

\* Class::equals_or_inherits: the class itself, its base, its interfaces; not
\* their bases.
IsA(n, t) == t = n \/ t = classes[n].super \/ t \in Range(classes[n].interfaces)

\* What passes `is` and `require` can stand in: it answers every method of the
\* class asked for, and has its fields, unless it is a copy of a static
\* instance.  (LibData::instanceof, Class::inherit, Class::implement)
Substitutable ==
  /\ \A n, t \in DOMAIN classes :
       IsA(n, t) => DOMAIN classes[t].methods \subseteq DOMAIN classes[n].methods
  /\ \A k \in DOMAIN table : \A t \in DOMAIN classes :
       (table[k].class \in DOMAIN classes /\ table[k].fields # NoFields /\ IsA(table[k].class, t))
         => DOMAIN table[Proto(t)].fields \subseteq DOMAIN table[k].fields

\* Constructors, methods and assignments leave every class and its prototype
\* as they were registered, and change one object at most: what two objects
\* of a class share is what their fields refer to, never the fields.
\* (Class::create_uninitialized, Object::Object, TypeManager::register_type)
PrototypesKept ==
  [][ /\ \A n \in DOMAIN classes :
           /\ n \in DOMAIN classes' /\ classes'[n] = classes[n]
           /\ table'[Proto(n)] = table[Proto(n)]
      /\ Cardinality({k \in DOMAIN table \cap DOMAIN table' : table'[k] # table[k]}) <= 1 ]_vars
=============================================================================
