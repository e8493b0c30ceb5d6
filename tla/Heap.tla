-------------------------------- MODULE Heap --------------------------------
(***************************************************************************)
(* The accounting heap every value of the interpreted program lives on: a  *)
(* memory resource that counts the bytes in use in an unsigned integer of  *)
(* fixed width and refuses requests above a limit the program may change.  *)
(***************************************************************************)
EXTENDS Integers, FiniteSets, FiniteSetsExt, Functions

CONSTANTS
  Word,      \* 2^64 in the program: in_use and max_mem are taken modulo Word
  Sizes,     \* sizes of requests
  Physical,  \* what pool and upstream can provide altogether
  Limits,    \* values given to max_mem; 0 means no limit
  Blocks,    \* bound: blocks live at a time
  MaxLost    \* bound: sum of the sizes of the requests that failed

ASSUME HeapAssumption ==
  /\ Word \in Nat \ {0}
  /\ Sizes \subseteq 0..(Word - 1)
  /\ Physical \in 0..(Word - 1)
  /\ Limits \subseteq 0..(Word - 1) /\ Limits # {}
  /\ MaxLost \in Nat

VARIABLES
  inUse,   \* in_use
  maxMem,  \* max_mem
  size,    \* sizes of the live blocks (the pool's own bookkeeping)
  lost     \* bytes asked for by requests that failed (history)

vars == <<inUse, maxMem, size, lost>>

SumSizes(f) == FoldFunction(+, 0, f)
Live == SumSizes(size)

Init ==
  /\ inUse = 0
  /\ maxMem \in Limits
  /\ size = [b \in {} |-> 0]
  /\ lost = 0

\* do_allocate adds the request before it compares.
Charged(n) == (inUse + n) % Word
\* Mutant: the limit is compared with what was in use before the request.
RefusedBefore(n) == maxMem # 0 /\ inUse > maxMem
Refused(n) == maxMem # 0 /\ Charged(n) > maxMem

\* The pool has the memory.
Allocate(b, n) ==
  /\ b \notin DOMAIN size
  /\ ~Refused(n)
  /\ Live + n <= Physical
  /\ inUse' = Charged(n)
  /\ size' = [c \in DOMAIN size \cup {b} |-> IF c = b THEN n ELSE size[c]]
  /\ UNCHANGED <<maxMem, lost>>

\* Mutant: the charge of a request that failed is given back only in part.
FailKeepsNothing(n) ==
  /\ lost + n <= MaxLost
  /\ Refused(n) \/ Live + n > Physical
  /\ lost' = lost + n
  /\ UNCHANGED <<inUse, maxMem, size>>

\* "Out of memory!", or std::bad_alloc from the upstream: the request stays
\* charged to in_use.
Fail(n) ==
  /\ lost + n <= MaxLost
  /\ Refused(n) \/ Live + n > Physical
  /\ inUse' = Charged(n)
  /\ lost' = lost + n
  /\ UNCHANGED <<maxMem, size>>

Deallocate(b) ==
  /\ b \in DOMAIN size
  /\ inUse' = (inUse - size[b]) % Word
  /\ size' = [c \in DOMAIN size \ {b} |-> size[c]]
  /\ UNCHANGED <<maxMem, lost>>

\* set_max_mem, below what is in use as well.
SetMaxMem(n) ==
  /\ maxMem' = n
  /\ UNCHANGED <<inUse, size, lost>>

Next ==
  \/ \E b \in Blocks, n \in Sizes : Allocate(b, n)
  \/ \E n \in Sizes : Fail(n)
  \/ \E b \in Blocks : Deallocate(b)
  \/ \E n \in Limits : SetMaxMem(n)

Spec == Init /\ [][Next]_vars

-----------------------------------------------------------------------------
\* in_use is the live memory and every request that ever failed, modulo the
\* word: what the program reads as mem_in_use() is exact up to failures.
Accounted == inUse = (Live + lost) % Word

\* A request that succeeds under a limit leaves the live memory within it:
\* failed requests only make the heap stricter.
LimitHeld ==
  [][\A b \in Blocks :
       b \in DOMAIN size' \ DOMAIN size /\ maxMem # 0 => SumSizes(size') <= maxMem]_vars
=============================================================================
