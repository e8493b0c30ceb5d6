--------------------------------- MODULE Text ---------------------------------
(***************************************************************************)
(* The text algorithms behind the String class, as functions of character  *)
(* sequences: searching, splitting and replacing (util/string.cpp), the    *)
(* methods of native::String, and the cells of StringFormatter.  Positions *)
(* count from 0, as in the code.  Thrown stands for an exception.           *)
(***************************************************************************)
EXTENDS Integers, Sequences, SequencesExt

Space == " "
Digits == {"0", "1", "2"}
Letters == {"a", "b", "l", "c", "r"}
Alnum == Digits \cup Letters
Lead == "\\xC3"        \* first byte of a two-byte character
Follow == "\\x80"      \* its second byte

Thrown == <<"error">>
DigitOf == [c \in Digits |-> CHOOSE n \in 0..2 : ToString(n) = c]

(***************************************************************************)
(* util/string                                                             *)
(***************************************************************************)
At(s, d, p) == SubSeq(s, p + 1, p + Len(d)) = d

\* std::string::find: the first place from `start` on, or -1.
FindFrom(s, d, start) ==
  LET places == {p \in start..(Len(s) - Len(d)) : At(s, d, p)}
  IN  IF places = {} THEN -1 ELSE Min(places)

Put(s, p, n, t) == SubSeq(s, 1, p) \o t \o SubSeq(s, p + n + 1, Len(s))

\* replace_all: at most `limit` replacements, all of them when it is negative.
RECURSIVE ReplaceFrom(_, _, _, _, _)
ReplaceFrom(s, from, to, limit, start) ==
  LET p == FindFrom(s, from, start)
  IN  IF from = <<>> \/ limit = 0 \/ p = -1 THEN s
      ELSE ReplaceFrom(Put(s, p, Len(from), to), from, to, limit - 1, p + Len(to))

\* split: with an empty delimiter the loop never ends, so the delimiter is not empty.
RECURSIVE Split(_, _)
Split(s, d) ==
  LET p == FindFrom(s, d, 0)
  IN  IF p = -1 THEN <<s>>
      ELSE <<SubSeq(s, 1, p)>> \o Split(SubSeq(s, p + Len(d) + 1, Len(s)), d)

\* str_length: continuation bytes are not counted.
Width(s) == Len(SelectSeq(s, LAMBDA c : c # Follow))
IsNumeric(s) == s # <<>> /\ \A i \in DOMAIN s : s[i] \in Digits

\* to_base, of the digits' values.
RECURSIVE ToBase(_, _)
ToBase(n, base) == IF n < base THEN <<n>> ELSE Append(ToBase(n \div base, base), n % base)

(***************************************************************************)
(* The methods of String                                                   *)
(***************************************************************************)
Times(s, n) == FlattenSeq([i \in 1..n |-> s])
Find(s, sub, start) == IF start > Len(s) THEN -1 ELSE FindFrom(s, sub, start)
\* A length of 0 asks for the rest.
Substr(s, start, len) ==
  IF start > Len(s) THEN Thrown
  ELSE SubSeq(s, start + 1, IF len = 0 THEN Len(s) ELSE Min({Len(s), start + len}))
Insert(s, p, sub) == IF p > Len(s) THEN Thrown ELSE Put(s, p, 0, sub)
\* The default limit is 0, which replaces nothing.
Replace(s, needle, by, limit) == ReplaceFrom(s, needle, by, limit, 0)
EraseAt(s, start, len) ==
  IF start > Len(s) THEN Thrown
  ELSE Put(s, start, IF len < 0 THEN Len(s) - start ELSE len, <<>>)

\* index_of never counts, so it finds only the first character.
IndexOf(s, c) == IF Contains(s, c) THEN 0 ELSE -1
\* Whatever character is to be removed, the first one goes; without it erase throws.
RemoveChar(s, c) == IF IndexOf(s, c) = -1 THEN Thrown ELSE EraseAt(s, 0, 1)

(***************************************************************************)
(* StringFormatter: the cells {...} of a format string                     *)
(***************************************************************************)
Number(s) == LET Step(n, c) == 10 * n + DigitOf[c] IN FoldLeft(Step, 0, s)
LeadingDigits(s) ==
  LET stops == {i \in DOMAIN s : s[i] \notin Digits}
  IN  IF stops = {} THEN s ELSE SubSeq(s, 1, Min(stops) - 1)

Types == [c \in {"%", "-", "."} |->
            CASE c = "%" -> "width" [] c = "-" -> "alignment" [] OTHER -> "precision"]

\* next_modifier: the type and value of the modifier at the head, and what follows it.
RECURSIVE NextModifier(_, _, _)
NextModifier(s, type, value) ==
  IF s = <<>> THEN [type |-> type, value |-> value, rest |-> s]
  ELSE IF Head(s) = Space THEN NextModifier(Tail(s), type, value)
  ELSE IF Head(s) \notin Alnum
       THEN IF type # "none" THEN [type |-> type, value |-> value, rest |-> s]
            ELSE IF Head(s) \notin DOMAIN Types THEN [type |-> "invalid", value |-> <<>>, rest |-> <<>>]
            ELSE NextModifier(Tail(s), Types[Head(s)], value)
  ELSE NextModifier(Tail(s), IF type = "none" /\ Head(s) \in Digits THEN "index" ELSE type,
                    Append(value, Head(s)))

NewCell(last) == [value |-> <<>>, align |-> "l", width |-> 0, precision |-> 6, last |-> last, ok |-> TRUE]

\* Mutant: the argument after the last one taken by number is not the next one.
GetArgForgets(cell, args, n) ==
  IF n \in DOMAIN args THEN [cell EXCEPT !.value = args[n]] ELSE [cell EXCEPT !.ok = FALSE]

\* get_arg: arguments count from 1.
GetArg(cell, args, n) ==
  IF n \in DOMAIN args THEN [cell EXCEPT !.value = args[n], !.last = n]
  ELSE [cell EXCEPT !.last = n, !.ok = FALSE]

\* Cell::modify: a width, precision or index without a number throws.
Modify(cell, args, m) ==
  LET n == Number(LeadingDigits(m.value))
      numbered == LeadingDigits(m.value) # <<>>
  IN  CASE m.type = "invalid" -> [cell EXCEPT !.ok = FALSE]
        [] m.type = "alignment" -> [cell EXCEPT !.align = IF m.value = <<>> THEN "0" ELSE m.value[1]]
        [] m.type = "width" -> [cell EXCEPT !.width = n, !.ok = numbered]
        [] m.type = "precision" -> [cell EXCEPT !.precision = n, !.ok = numbered]
        [] m.type = "index" -> GetArg(cell, args, n)
        [] OTHER -> cell

RECURSIVE Modified(_, _, _)
Modified(cell, args, s) ==
  IF s = <<>> \/ ~cell.ok THEN cell
  ELSE LET m == NextModifier(s, "none", <<>>) IN Modified(Modify(cell, args, m), args, m.rest)

\* set_precision, of digits only: what has a point is not taken for a number.
SetPrecision(s, precision) ==
  LET digits == ToBase(Number(s), 10)
      zeros == [i \in 1..precision |-> "0"]
  IN  [i \in DOMAIN digits |-> ToString(digits[i])]
        \o (IF precision = 0 THEN <<>> ELSE <<".">> \o zeros)

Blanks(n) == [i \in 1..n |-> Space]

\* set_width: centred text with one blank too few is told by its bytes.
SetWidth(s, width, align) ==
  LET rem == width - Width(s)
      half == Blanks(rem \div 2)
      both == half \o s \o half
  IN  CASE rem <= 0 -> s
        [] rem > 0 /\ align = "l" -> s \o Blanks(rem)
        [] rem > 0 /\ align = "r" -> Blanks(rem) \o s
        [] rem > 0 /\ align = "c" -> IF Len(both) < width THEN both \o <<Space>> ELSE both
        [] OTHER -> Thrown

\* Cell::format: a cell without a value takes the next argument, and so does a cell
\* whose argument is empty.
Filled(cell, args) ==
  IF cell.ok /\ cell.value = <<>> THEN GetArg(cell, args, cell.last + 1) ELSE cell
Shown(cell) ==
  LET s == IF IsNumeric(cell.value) THEN SetPrecision(cell.value, cell.precision) ELSE cell.value
  IN  IF cell.width # 0 THEN SetWidth(s, cell.width, cell.align) ELSE s

\* The first {...} from `start` on, as the regular expression finds it.
CellAt(s, start) ==
  LET opens == {p \in (start + 1)..Len(s) : s[p] = "{" /\ \E q \in p..Len(s) : s[q] = "}"}
      open == Min(opens)
      close == Min({q \in open..Len(s) : s[q] = "}"})
  IN  IF opens = {} THEN <<>> ELSE <<open, close>>

\* StringFormatter::format
RECURSIVE FormatFrom(_, _, _, _)
FormatFrom(s, args, offset, last) ==
  LET place == CellAt(s, offset)
      cell == Filled(Modified(NewCell(last), args, SubSeq(s, place[1] + 1, place[2] - 1)), args)
      shown == Shown(cell)
  IN  IF place = <<>> THEN s
      ELSE IF ~cell.ok \/ shown = Thrown THEN Thrown
      ELSE FormatFrom(Put(s, place[1] - 1, place[2] - place[1] + 1, shown), args,
                      place[1] - 1 + Len(shown), cell.last)

Format(s, args) == FormatFrom(s, args, 0, 0)
===============================================================================
