----------------------------- MODULE MCClasses ------------------------------
(***************************************************************************)
(* Programs of class declarations for model checking Classes.              *)
(***************************************************************************)
EXTENDS Classes

Declaration(name, base, interfaces, field, methods) ==
  [name |-> name, base |-> base, interfaces |-> interfaces, field |-> field, methods |-> methods]
None == [m \in {} |-> "quiet"]
Do(m, body) == [n \in {m} |-> body]
Both(m, b, n, c) == [x \in {m, n} |-> IF x = m THEN b ELSE c]

\* Two interfaces, one on top of the other or of nothing; a class hierarchy
\* three deep whose classes override, construct with and without super, take
\* interfaces before and after their methods are inherited, and are declared
\* twice; a class that binds the named function twice over.
MCDeclarations ==
  { Declaration("I", NoClass, <<>>, "none", Do("draw", "quiet")),
    Declaration("J", NoClass, <<>>, "none", Do("draw", "shared")),
    Declaration("J", NoClass, <<"I">>, "none", Do("equals", "quiet")),
    Declaration("A", NoClass, <<>>, "value", Both(Constructor, "writes", "equals", "quiet")),
    Declaration("A", NoClass, <<>>, "object", Do("draw", "writes")),
    Declaration("A", "I", <<>>, "value", None),
    Declaration("B", "A", <<>>, "value", Both(Constructor, "super", "draw", "writes")),
    Declaration("B", "A", <<"I", "J">>, "none", None),
    Declaration("B", "I", <<"J">>, "none", Do("draw", "shared")),
    Declaration("C", "B", <<>>, "object", Do(Constructor, "super")),
    Declaration("C", "B", <<"J", "A">>, "none", Do("equals", "quiet")) }
=============================================================================
