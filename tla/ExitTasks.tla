------------------------------ MODULE ExitTasks ------------------------------
(***************************************************************************)
(* What on_exit promises to a program: every task it registers is started  *)
(* once before the interpreter is gone, in the order of registration.      *)
(***************************************************************************)
EXTENDS Naturals, Sequences

VARIABLES
  registered,  \* number of tasks registered so far: their ids are 1, 2, ...
  pending,     \* tasks registered and not started, oldest first
  started      \* tasks started, oldest first

tvars == <<registered, pending, started>>

Init ==
  /\ registered = 0
  /\ pending = <<>>
  /\ started = <<>>

Register ==
  /\ registered' = registered + 1
  /\ pending' = Append(pending, registered')
  /\ UNCHANGED started

Start ==
  /\ pending # <<>>
  /\ started' = Append(started, Head(pending))
  /\ pending' = Tail(pending)
  /\ UNCHANGED registered

Next == Register \/ Start

Spec == Init /\ [][Next]_tvars

\* Every task is started or waits, and none twice.
OnceInOrder == started \o pending = [i \in 1..registered |-> i]
=============================================================================
