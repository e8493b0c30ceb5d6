------------------------------ MODULE MCCalls -------------------------------
(***************************************************************************)
(* A program of call expressions for model checking Calls.                 *)
(***************************************************************************)
EXTENDS Calls

String == Literal(Object("String"))
Two == Literal(Number(2))
Three == Literal(Number(3))

\* f(a, b = ..), g(a = .., b): a default before a parameter without one.
Plain == Closure(Function(<<{}, {Object("List")}>>))
Swapped == Closure(Function(<<{Object("List")}, {}>>))

MCNames == {"x", "f"}
MCThings ==
  { Nil, Number(4), Object("String"), Object("List"), Object("Point"), Plain, Swapped,
    Box([f |-> Plain.it, move |-> Swapped.it]) }

Call(form, recv, name, list) == [form |-> form, recv |-> recv, name |-> name, args |-> list]

MCSite ==
  << Call("direct", "f", "f", <<Name("x")>>),
     Call("callback", "f", "f", <<Name("x")>>),
     Call("callback", "f", "f", <<Two, String, Three>>),
     Call("host", "f", "to_base", <<String, Two>>),
     Call("host", "f", "to_base", <<Name("x")>>),
     Call("access", "x", "f", <<Two>>),
     Call("access", "x", "move", <<Name("f")>>),
     Call("access", "x", "substr", <<Two, Three>>),
     Call("access", "x", "substr", <<Two>>),
     Call("access", "x", "format", <<Two, Name("f")>>),
     Call("access", "x", "fill", <<Name("f")>>),
     Call("access", "x", "find", <<String>>),
     Call("static", "Point", "move", <<String>>),
     Call("static", "Point", "reset", <<>>),
     Call("operator", "x", "concat", <<Name("f")>>),
     Call("bracket", "x", "subscript", <<Name("f")>>),
     Call("bracket", "x", "subscript_foreach", <<Name("f")>>),
     Call("bracket", "x", "subscript_slice", <<Two>>) >>
MCSites == DOMAIN MCSite
=============================================================================
