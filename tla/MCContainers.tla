----------------------------- MODULE MCContainers -----------------------------
(***************************************************************************)
(* Two numbers, two keys, ranges that go up, up in steps and down, three   *)
(* elements, one of them a reference when a step ends: enough for an       *)
(* element between the first and the last, for a list that moves, and for  *)
(* references into the container itself, into another one, and to nothing. *)
(***************************************************************************)
EXTENDS Containers

MCRangeArgs == {<<1, 2, 1>>, <<1, 4, 2>>, <<2, 0, -1>>}
===============================================================================
