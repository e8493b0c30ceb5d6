------------------------------ MODULE Containers ------------------------------
(***************************************************************************)
(* Containers and iterators: a list, a set and a map, the references and   *)
(* iterators into them, and the loops over them.                           *)
(*                                                                         *)
(* An iterator's next returns a reference to an element (ValueRef), and    *)
(* every loop assigns it to a variable of its own.  Assigning to a Value   *)
(* that holds a reference writes what it refers to, so a loop writes into  *)
(* what it reads; references outlive the elements, which a list moves when *)
(* it grows.  A loop is one step.  Using a reference or an iterator that   *)
(* has no element, and following references in a circle, is undefined: the *)
(* program stops being described.                                          *)
(***************************************************************************)
EXTENDS Integers, Sequences, FiniteSets, SequencesExt

CONSTANTS
  Numbers,     \* elements the program writes down
  Keys,        \* keys of the map
  RangeArgs,   \* arguments <<start, end, step>> of range$
  MaxCells,    \* bound: elements of the list and the set together
  MaxGen,      \* bound: times the list has moved while there were references
  MaxRefs      \* bound: elements that are references

ASSUME ArgumentsAssumption ==
  Numbers \subseteq Nat /\ Keys \subseteq Nat /\ \A r \in RangeArgs : Len(r) = 3

VARIABLES
  store,    \* the cells of the list, the set and of the loops' variables
  map,      \* entries of the map, in the order of iteration
  iter,     \* the iterator in use, or none
  loop,     \* what the last step, if it was a loop, was to read and has read
  phase     \* "running", or "undefined"

vars == <<store, map, iter, loop, phase>>

(***************************************************************************)
(* Values and cells                                                        *)
(***************************************************************************)
Num(n) == <<"num", n>>
Nil == <<"nil">>
Circle == <<"circle">>     \* reading that never ends
Stale == <<"stale">>       \* reading what is no longer there
Ref(o, key) == <<"ref", o, key>>
IsRef(v) == v[1] = "ref"

\* What identifies a cell: a place in the memory of a list, a node of a set, a variable.
Key(s, o, i) ==
  CASE o = "list" -> <<s.list.gen, i>>
    [] o = "set" -> <<0, s.set.ids[i]>>
    [] o = "temp" -> <<0, i>>

Place(s, r) ==
  LET here == {i \in DOMAIN s[r[2]].v : Key(s, r[2], i) = r[3]}
  IN  IF here = {} THEN 0 ELSE CHOOSE i \in here : TRUE

Cell(s, r) == IF Place(s, r) = 0 THEN Stale ELSE s[r[2]].v[Place(s, r)]
Put(s, r, v) ==
  IF Place(s, r) = 0 THEN [s EXCEPT !.ok = FALSE] ELSE [s EXCEPT ![r[2]].v[Place(s, r)] = v]

\* Value::ref: a reference to a reference is that reference.
ToRef(s, o, i) == IF IsRef(s[o].v[i]) THEN s[o].v[i] ELSE Ref(o, Key(s, o, i))

\* Value::operator=: a reference on the left is written through, unless the right side
\* refers to the left one.
Assign(s, r, v) ==
  IF v = r THEN s ELSE IF IsRef(Cell(s, r)) THEN Put(s, Cell(s, r), v) ELSE Put(s, r, v)

\* Value::get<T>, as<T>: references are followed to the end.
RECURSIVE Follow(_, _, _)
Follow(s, v, seen) ==
  IF ~IsRef(v) THEN v ELSE IF v \in seen THEN Circle ELSE Follow(s, Cell(s, v), seen \cup {v})
Read(s, v) == Follow(s, v, {})
Readable(v) == v \notin {Circle, Stale}
Contents(s, o) == [i \in DOMAIN s[o].v |-> Read(s, s[o].v[i])]

\* operator==: a reference equals no plain value.
RECURSIVE Same(_, _, _)
Same(s, v, w) == v = w \/ (IsRef(v) /\ IsRef(w) /\ Same(s, Cell(s, v), Cell(s, w)))

Fail(s) == [s EXCEPT !.ok = FALSE]
Plain(s, o) == \A i \in DOMAIN s[o].v : ~IsRef(s[o].v[i])

(***************************************************************************)
(* The list: GenericContainer over a vector                                *)
(***************************************************************************)
\* A vector that is full doubles, and moves.
Grown(l, n) ==
  IF n <= l.cap THEN l
  ELSE [l EXCEPT !.cap = Len(l.v) + (IF n > 2 * Len(l.v) THEN n - Len(l.v) ELSE Len(l.v)),
                 !.gen = l.gen + 1]
PushBack(s, v) == [s EXCEPT !.list = [Grown(s.list, Len(s.list.v) + 1) EXCEPT !.v = Append(@, v)]]
Resized(s, n) ==
  [s EXCEPT !.list =
     [Grown(s.list, n) EXCEPT !.v = SubSeq(s.list.v \o [i \in 1..n |-> Nil], 1, n)]]

\* vector::erase assigns every later element to the place before it.
RECURSIVE Shift(_, _)
Shift(s, i) ==
  IF i >= Len(s.list.v) THEN [s EXCEPT !.list.v = SubSeq(@, 1, Len(@) - 1)]
  ELSE Shift(Assign(s, Ref("list", Key(s, "list", i)), s.list.v[i + 1]), i + 1)

Equals(s, o, v) == {i \in DOMAIN s[o].v : Same(s, s[o].v[i], v)}
Least(places) == CHOOSE i \in places : \A j \in places : i <= j
RemoveFromList(s, v) ==
  IF Equals(s, "list", v) = {} THEN s ELSE Shift(s, Least(Equals(s, "list", v)))

(***************************************************************************)
(* The set: an unordered_set keeps the hash of a key as it was inserted    *)
(***************************************************************************)
Hash(s, v) == Read(s, v)
Alike(s, v) == {i \in DOMAIN s.set.v : s.set.hashes[i] = Hash(s, v)}
Found(s, v) == {i \in Alike(s, v) : Same(s, s.set.v[i], v)}
Comparable(s, v) ==
  Readable(Hash(s, v)) /\ (IsRef(v) => \A i \in Alike(s, v) : Readable(Read(s, s.set.v[i])))
\* A node that nothing refers to.
FreshId(s) ==
  LET cells == ToSet(s.list.v) \cup ToSet(s.set.v)
      used == ToSet(s.set.ids) \cup {v[3][2] : v \in {c \in cells : IsRef(c) /\ c[2] = "set"}}
  IN  CHOOSE id \in 1..(Cardinality(used) + 1) : id \notin used

\* The place of a new key in the order of iteration is up to the hash table.
Inserted(s, v, i) ==
  IF ~Comparable(s, v) THEN Fail(s)
  ELSE IF Found(s, v) # {} THEN s
  ELSE [s EXCEPT !.set = [v |-> InsertAt(@.v, i, v), ids |-> InsertAt(@.ids, i, FreshId(s)),
                          hashes |-> InsertAt(@.hashes, i, Hash(s, v))]]
RemoveFromSet(s, v) ==
  IF ~Comparable(s, v) THEN Fail(s)
  ELSE IF Found(s, v) = {} THEN s
  ELSE LET i == Least(Found(s, v))
       IN  [s EXCEPT !.set = [v |-> RemoveAt(@.v, i), ids |-> RemoveAt(@.ids, i),
                              hashes |-> RemoveAt(@.hashes, i)]]

\* A new set: its keys, in an order of its own.
SetOf(s, keys) ==
  [s EXCEPT !.set = [v |-> keys, ids |-> [i \in DOMAIN keys |-> i], hashes |-> keys]]

(***************************************************************************)
(* Ranges, and what a loop goes over                                       *)
(***************************************************************************)
\* Range::Range throws on an empty range and on one that would not end.
ValidRange(r) == (r[2] > r[1] /\ r[3] > 0) \/ (r[2] < r[1] /\ r[3] < 0)


\* RangeIterator::has_next asks for a number below the end, whatever the step.
RangeHasNext(n, r) == n < r[2]
RECURSIVE Yields(_, _)
Yields(n, r) == IF RangeHasNext(n, r) THEN <<Num(n)>> \o Yields(n + r[3], r) ELSE <<>>

\* A source of elements: the cells of an object, or plain values.
Over(o) == [o |-> o, plain |-> <<>>]
OverValues(q) == [o |-> "none", plain |-> q]
OverRange(r) == OverValues(Yields(r[1], r))
Size(s, src) == IF src.o = "none" THEN Len(src.plain) ELSE Len(s[src.o].v)
Elem(s, src, i) == IF src.o = "none" THEN src.plain[i] ELSE ToRef(s, src.o, i)

(***************************************************************************)
(* Loops: they keep what next returned in a variable of their own          *)
(***************************************************************************)
Temp(i) == Ref("temp", <<0, i>>)
elem == Temp(1)     \* the loop's variable
arg == Temp(2)      \* FilterIterator::predicate_arg
value == Temp(3)    \* FilterIterator::value

\* exec_foreach_loop, do_for_each, retain_all, MappingIterator::set_arg: i iterations.
RECURSIVE After(_, _, _)
After(s, src, i) ==
  IF i = 0 THEN s
  ELSE LET t == After(s, src, i - 1)
       IN  IF t.ok THEN Assign(t, elem, Elem(t, src, i)) ELSE t

\* A body that reads the variable.
Each(s, src) ==
  LET n == Size(s, src)
      read == [i \in 1..n |-> Read(After(s, src, i), elem)]
  IN  IF \A i \in 1..n : Readable(read[i]) THEN [s |-> After(s, src, n), read |-> read]
      ELSE [s |-> Fail(s), read |-> <<>>]

\* FilterIterator::next_value: what the predicate accepts goes through value, which next
\* returns a copy of.
Accepted(v) == v # Num(1)
RECURSIVE FilterFrom(_, _, _, _)
FilterFrom(s, src, i, read) ==
  LET t == Assign(s, arg, Elem(s, src, i))
      u == Assign(t, value, Cell(t, arg))
      w == Assign(u, elem, Cell(u, value))
      v == Read(w, elem)
  IN  IF ~s.ok THEN [s |-> s, read |-> read]
      ELSE IF i > Size(s, src) THEN [s |-> s, read |-> read]
      ELSE IF ~Readable(Read(t, arg)) THEN [s |-> Fail(t), read |-> read]
      ELSE IF ~Accepted(Read(t, arg)) THEN FilterFrom(t, src, i + 1, read)
      ELSE IF ~Readable(v) THEN [s |-> Fail(w), read |-> read]
      ELSE FilterFrom(w, src, i + 1, Append(read, v))
Filtered(s, src) == FilterFrom(s, src, 1, <<>>)

(***************************************************************************)
(* Actions.  Three bounds keep apart what does not meet: the map has       *)
(* entries only when the list and the set are empty, an iterator is made   *)
(* when everything is empty but its container, and a step that changes a   *)
(* container, or loops over one, ends the use of the iterator.             *)
(***************************************************************************)
OnlyHolds(o) ==
  /\ o # "list" => store.list.v = <<>>
  /\ o # "set" => store.set.v = <<>>
  /\ o # "map" => map = <<>>

NoIter == [over |-> "none", at |-> 0, range |-> <<>>, orig |-> <<>>, log |-> <<>>, kept |-> <<>>,
           way |-> "forward"]
NoLoop == [over |-> "none", asked |-> <<>>, read |-> <<>>, first |-> TRUE]

Init ==
  /\ store = [list |-> [v |-> <<>>, cap |-> 0, gen |-> 0],
              set |-> [v |-> <<>>, ids |-> <<>>, hashes |-> <<>>],
              temp |-> [v |-> <<Nil, Nil, Nil>>], ok |-> TRUE]
  /\ map = <<>> /\ iter = NoIter /\ loop = NoLoop /\ phase = "running"

\* The loop's variables are gone; nothing tells how often a list moved that nothing refers to.
Settled(s) ==
  LET t == [s EXCEPT !.temp.v = <<Nil, Nil, Nil>>]
  IN  IF Plain(t, "list") /\ Plain(t, "set")
      THEN [t EXCEPT !.list.gen = 0, !.set.ids = [i \in DOMAIN s.set.v |-> i]] ELSE t

Bounded(s) ==
  /\ Len(s.list.v) + Len(s.set.v) <= MaxCells /\ s.list.gen <= MaxGen
  /\ Len(SelectSeq(s.list.v, IsRef)) + Len(SelectSeq(s.set.v, IsRef)) <= MaxRefs

Change(s) ==
  /\ phase = "running" /\ map = <<>>
  /\ IF s.ok THEN store' = Settled(s) /\ phase' = phase ELSE store' = store /\ phase' = "undefined"
  /\ Bounded(store')
  /\ iter' = NoIter
  /\ UNCHANGED map

Update(s) == Change(s) /\ loop' = NoLoop

Positions(q) == 1..(Len(q) + 1)

\* add, append() = n, list[] = n, set[->n]
AddElement ==
  \E n \in Numbers :
    \/ Update(PushBack(store, Num(n)))
    \/ \E i \in Positions(store.set.v) : Update(Inserted(store, Num(n), i))
\* remove, remove_at, -=, list[~i], set[~n]
RemoveElement ==
  \/ \E n \in Numbers : Update(RemoveFromList(store, Num(n))) \/ Update(RemoveFromSet(store, Num(n)))
  \/ \E i \in DOMAIN store.list.v : Update(Shift(store, i))
ResizeTo == \E n \in 0..MaxCells : Update(Resized(store, n))
ClearAll ==
  \/ Update([store EXCEPT !.list.v = <<>>])
  \/ Update(SetOf(store, <<>>))

\* core::fill assigns to what next returns.
RECURSIVE FilledFrom(_, _, _, _)
FilledFrom(s, o, i, v) ==
  IF i > Len(s[o].v) \/ ~s.ok THEN s ELSE FilledFrom(Put(s, ToRef(s, o, i), v), o, i + 1, v)
FillWith ==
  \E n \in Numbers :
    \/ \E o \in {"list", "set"} : Update(FilledFrom(store, o, 1, Num(n)))
    \/ \E size \in 1..MaxCells : Update(FilledFrom(Resized(store, size), "list", 1, Num(n)))

RangeSources == {OverRange(r) : r \in {q \in RangeArgs : ValidRange(q)}}

\* core::add_all, collect: what next returns is added, references too.
RECURSIVE AddedFrom(_, _, _, _)
AddedFrom(s, src, to, i) ==
  IF i > Size(s, src) \/ ~s.ok THEN {s}
  ELSE IF to = "list" THEN AddedFrom(PushBack(s, Elem(s, src, i)), src, to, i + 1)
  ELSE UNION {AddedFrom(Inserted(s, Elem(s, src, i), p), src, to, i + 1) : p \in Positions(s.set.v)}
AddAll ==
  \E to \in {"list", "set"} :
    \E src \in {Over(o) : o \in {"list", "set"} \ {to}} \cup RangeSources :
      \E s \in AddedFrom(store, src, to, 1) : Update(s)

\* Set(list), and intersect, union, diff and symdiff with such a set: a new set.
Keyed(s, o) == ToSet(s[o].v)
Orders(S) == {q \in [1..Cardinality(S) -> S] : \A i, j \in DOMAIN q : q[i] = q[j] => i = j}
SetOperation ==
  LET a == Keyed(store, "set")
      b == Keyed(store, "list")
  IN  /\ Plain(store, "list") /\ Plain(store, "set")
      /\ \E c \in {b, a \cap b, a \cup b, a \ b, (a \ b) \cup (b \ a)} :
           \E q \in Orders(c) : Update(SetOf(store, q))

\* core::remove_all: numbers come from a range only; an element of a list or a set comes as
\* a reference, which equals none of the plain elements it is looked up among.
RemoveAll ==
  \/ \E o \in {"list", "set"}, r \in RangeSources :
       LET Gone(s, v) == IF o = "list" THEN RemoveFromList(s, v) ELSE RemoveFromSet(s, v)
       IN  Update(FoldLeft(Gone, store, r.plain))
  \/ Plain(store, "list") /\ Plain(store, "set") /\ Update(store)

\* core::retain_all: nothing is found among plain elements and removed, but what next
\* returns is assigned to elem.
RetainAll ==
  \E o \in {"list", "set"} :
    /\ Plain(store, IF o = "list" THEN "set" ELSE "list")
    /\ Update(After(store, Over(o), Size(store, Over(o))))

(***************************************************************************)
(* Loops over the list, the set, a range, and filters over them            *)
(***************************************************************************)
\* The numbers from the start on by steps, short of the end.
Expected(r) ==
  LET Before(n) == IF r[3] > 0 THEN n < r[2] ELSE n > r[2]
      span == IF r[3] > 0 THEN r[2] - r[1] ELSE r[1] - r[2]
      count == Cardinality({k \in 0..span : Before(r[1] + k * r[3])})
  IN  [k \in 1..count |-> Num(r[1] + (k - 1) * r[3])]
Kind(r) == IF r[3] > 0 THEN "range" ELSE "descending"

Looped(result, over, asked, first) ==
  /\ Change(result.s)
  /\ loop' = [over |-> over, asked |-> asked, read |-> result.read, first |-> first]

\* for (x, o), for_each, map: the body reads each element.
LoopOver ==
  \/ \E o \in {"list", "set"} :
       Looped(Each(store, Over(o)), o, Contents(store, o), Plain(store, o))
  \/ \E r \in RangeArgs :
       /\ ValidRange(r) /\ OnlyHolds("range")
       /\ Looped(Each(store, OverRange(r)), Kind(r), Expected(r), TRUE)

\* count, sum, product, mean, rms, deviation: do_accumulate keeps a number, no variable.
Accumulate ==
  \E o \in {"list", "set"} :
    LET read == Contents(store, o)
    IN  /\ OnlyHolds(o)
        /\ Looped([s |-> IF \A i \in DOMAIN read : Readable(read[i]) THEN store ELSE Fail(store),
                   read |-> read], o, read, Plain(store, o))

LoopFiltered ==
  \/ \E o \in {"list", "set"} :
       LET accepted == SelectSeq(Contents(store, o), Accepted)
       IN  Looped(Filtered(store, Over(o)), "filter", accepted, Plain(store, o) /\ Len(accepted) <= 1)
  \/ \E r \in RangeArgs :
       /\ ValidRange(r) /\ OnlyHolds("range")
       /\ Looped(Filtered(store, OverRange(r)), Kind(r), SelectSeq(Expected(r), Accepted), TRUE)

(***************************************************************************)
(* The map                                                                 *)
(***************************************************************************)
MapChange(m) ==
  /\ phase = "running" /\ OnlyHolds("map")
  /\ map' = m /\ iter' = NoIter
  /\ UNCHANGED <<store, phase>>

EntryAt(k) == {i \in DOMAIN map : map[i].k = k}
Entered(k, v, i) ==
  IF EntryAt(k) = {} THEN InsertAt(map, i, [k |-> k, v |-> v])
  ELSE [j \in DOMAIN map |-> IF map[j].k = k THEN [k |-> k, v |-> v] ELSE map[j]]

\* add, map[k] = n
AddEntry ==
  \E k \in Keys, n \in Numbers, i \in Positions(map) :
    MapChange(Entered(k, Num(n), i)) /\ loop' = NoLoop
\* operator_get: reading map[k] makes an entry.
ReadEntry ==
  \E k \in Keys, i \in Positions(map) :
    MapChange(IF EntryAt(k) = {} THEN Entered(k, Nil, i) ELSE map) /\ loop' = NoLoop
RemoveEntry ==
  \E k \in Keys : MapChange(SelectSeq(map, LAMBDA x : x.k # k)) /\ loop' = NoLoop
ClearMap == MapChange(<<>>) /\ loop' = NoLoop

MapKeys == [i \in DOMAIN map |-> Num(map[i].k)]

\* The entry of a DefaultMapIterator is filled in before anything is asked of it.
LoopOverMap ==
  \/ /\ map # <<>> /\ MapChange(map)
     /\ loop' = [over |-> "map", asked |-> MapKeys, read |-> MapKeys, first |-> TRUE]
  \/ map = <<>> /\ Change(Fail(store)) /\ loop' = NoLoop

(***************************************************************************)
(* Iterators                                                               *)
(***************************************************************************)
\* Once an iterator was turned or moved on the way, what it gave is not recorded.
Moved(it) ==
  iter' = IF it.way = "mixed" THEN [it EXCEPT !.orig = <<>>, !.log = <<>>, !.kept = <<>>] ELSE it

MakeIterator ==
  /\ phase = "running" /\ loop' = NoLoop
  /\ \/ \E o \in {"list", "set"} :
          /\ OnlyHolds(o)
          /\ Moved([NoIter EXCEPT !.over = o, !.at = 1, !.orig = Contents(store, o),
                      !.way = IF Plain(store, o) THEN "forward" ELSE "mixed"])
          /\ UNCHANGED phase
     \/ \E r \in RangeArgs :
          /\ ValidRange(r) /\ OnlyHolds("range")
          /\ iter' = [NoIter EXCEPT !.over = "range", !.at = r[1], !.range = r, !.orig = Expected(r)]
          /\ UNCHANGED phase
     \/ /\ OnlyHolds("map")
        /\ phase' = IF map = <<>> THEN "undefined" ELSE phase
        /\ iter' = [NoIter EXCEPT !.over = "map", !.at = 1, !.orig = MapKeys]
  /\ UNCHANGED <<store, map>>

Elements == IF iter.over = "map" THEN MapKeys ELSE Contents(store, iter.over)
Break == phase' = "undefined" /\ UNCHANGED <<store, map, iter>>
Used(guard) == phase = "running" /\ iter.over # "none" /\ guard /\ loop' = NoLoop

\* The program reads what it was given.
Given(v, at, way) ==
  IF ~Readable(v) THEN Break
  ELSE /\ Moved([iter EXCEPT !.at = at, !.log = Append(@, v), !.kept = Append(@, v),
                   !.way = IF @ = way THEN @ ELSE "mixed"])
       /\ UNCHANGED <<store, map, phase>>

TakeNext ==
  \/ /\ Used(iter.over = "range" /\ RangeHasNext(iter.at, iter.range))
     /\ Given(Num(iter.at), iter.at + iter.range[3], "forward")
  \/ /\ Used(iter.over # "range" /\ iter.at <= Len(Elements))
     /\ IF iter.at = 0 THEN Break ELSE Given(Elements[iter.at], iter.at + 1, "forward")

\* Mutant: the iterator steps over the element that takes the removed one's place.
AfterRemovalNext(at) == at + 1

\* The iterator stays where the next element now is.
AfterRemoval(at) == at

\* remove takes out the element that next would return.
RemoveNext ==
  /\ Used(iter.over \in {"list", "set", "map"})
  /\ iter.over = "list" => iter.at \in DOMAIN store.list.v
  /\ IF iter.over = "set" \/ (iter.over = "map" /\ iter.at > Len(map)) THEN Break
     ELSE /\ Moved([iter EXCEPT !.at = AfterRemoval(@), !.log = Append(@, Elements[iter.at])])
          /\ IF iter.over = "list"
             THEN LET s == Shift(store, iter.at)
                  IN  /\ phase' = IF s.ok THEN phase ELSE "undefined"
                      /\ store' = IF s.ok THEN s ELSE store
                      /\ UNCHANGED map
             ELSE map' = RemoveAt(map, iter.at) /\ UNCHANGED <<store, phase>>

\* From one end to the other; elsewhere it throws.  Nodes of a hash table lead forwards only.
ReverseIterator ==
  /\ Used(TRUE)
  /\ IF iter.over \in {"set", "map"} THEN Break
     ELSE LET first == IF iter.over = "range" THEN iter.range[1] ELSE 1
              last == IF iter.over = "range" THEN iter.range[2] ELSE Len(store.list.v)
          IN  /\ iter.at \in {first, last}
              /\ Moved([iter EXCEPT !.at = IF iter.at = first THEN last ELSE first,
                          !.way = IF @ = "forward" /\ iter.log = <<>> THEN "back" ELSE "mixed"])
              /\ UNCHANGED <<store, map, phase>>

TakePrevious ==
  /\ Used(iter.over \in {"list", "range"})
  /\ IF iter.over = "range"
     THEN /\ iter.at >= iter.range[1] /\ iter.at <= iter.range[1] + MaxCells
          /\ Given(Num(iter.at), iter.at - iter.range[3], "back")
     ELSE /\ iter.at # 0
          /\ IF iter.at > Len(store.list.v) THEN Break ELSE Given(Elements[iter.at], iter.at - 1, "back")

Skip ==
  \E n \in 1..2 :
    /\ Used(iter.over \in {"list", "range"})
    /\ IF iter.over = "range" THEN iter.at + n < iter.range[2] ELSE iter.at + n <= Len(store.list.v)
    /\ Moved([iter EXCEPT !.at = @ + n, !.way = "mixed"])
    /\ UNCHANGED <<store, map, phase>>

Undefined == phase = "undefined" /\ UNCHANGED vars

Next ==
  \/ AddElement \/ RemoveElement \/ ResizeTo \/ ClearAll \/ FillWith
  \/ AddAll \/ SetOperation \/ RemoveAll \/ RetainAll
  \/ LoopOver \/ Accumulate \/ LoopFiltered \/ LoopOverMap
  \/ AddEntry \/ ReadEntry \/ RemoveEntry \/ ClearMap
  \/ MakeIterator \/ TakeNext \/ RemoveNext \/ ReverseIterator \/ TakePrevious \/ Skip
  \/ Undefined

Spec == Init /\ [][Next]_vars

(***************************************************************************)
(* An iterator that goes forwards skips nothing and gives nothing twice,   *)
(* whatever it removes on its way: what it has returned or removed,        *)
(* followed by what it has yet to come to, is what its container held when *)
(* it was made, and what the container holds is what was returned and not  *)
(* removed, followed by the rest (DefaultIterator.h:59, 72,                *)
(* DefaultMapIterator.h:71, Range.h:88).  A list iterator that was         *)
(* reversed first goes the other way and skips nothing either              *)
(* (DefaultIterator.h:96, 111); it gives nothing twice as long as it       *)
(* removes nothing: after a removal it stands on the element it gave       *)
(* before, and gives it again.  Left out: containers that hold references, *)
(* an iterator turned around or moved by skip on the way, and descending   *)
(* ranges, which give nothing, see LoopsReadOnce.                          *)
(***************************************************************************)
Rest ==
  IF iter.over = "range" THEN Yields(iter.at, iter.range)
  ELSE SubSeq(Elements, iter.at, Len(Elements))
RestBack == Reverse(SubSeq(Elements, 1, Min({iter.at, Len(Elements)})))
RECURSIVE Among(_, _)
Among(q, s) ==
  q = <<>> \/ (s # <<>> /\ Among(IF Head(q) = Head(s) THEN Tail(q) ELSE q, Tail(s)))
IteratorsSkipNothing ==
  phase = "running" /\ iter.over # "none" =>
    /\ iter.way = "forward" /\ (iter.over = "range" => Kind(iter.range) = "range") =>
         /\ iter.log \o Rest = iter.orig
         /\ iter.over # "range" => iter.kept \o Rest = Elements
    /\ iter.way = "back" /\ iter.over = "list" =>
         /\ Among(Reverse(iter.orig), iter.log \o RestBack)
         /\ iter.kept = iter.log => iter.log \o RestBack = Reverse(iter.orig)

===============================================================================
