------------------------------- MODULE MCLibrary -------------------------------
(***************************************************************************)
(* Int has five bits, char and the significand of a double three: enough   *)
(* for every operator to wrap around, for the division that traps, and for *)
(* integers a double has no room for.  The characters are those that       *)
(* the algorithms tell apart: a letter, a digit, a two-byte character and  *)
(* the ones a format cell is made of.                                      *)
(***************************************************************************)
EXTENDS Library

MCLiterals ==
  {Integer(n) : n \in {-16, -3, -1, 0, 1, 2, 5, 9}} \cup {Double(h) : h \in {-4, -1, 2, 3}}
    \cup {Char(1), Char(-4), Bool(TRUE), Bool(FALSE), Nil, NoValue}
MCAlphabet == {"a", "1", "{", "}", Lead, Follow}
MCWords ==
  {<<>>, <<"a">>, <<"a", "a">>, <<"1">>, <<"{">>, <<"}">>, <<"1", "a">>, <<Lead, Follow>>}
===============================================================================
