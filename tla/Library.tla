------------------------------- MODULE Library -------------------------------
(***************************************************************************)
(* A program that computes with one variable of a primitive type and one   *)
(* string: every operator of LibArithmetic and LibLogical, every           *)
(* conversion, and the methods of String that change it, in any order.  An *)
(* operation that throws leaves its operand alone; a trap ends the         *)
(* program.                                                                *)
(***************************************************************************)
EXTENDS Values, Text

CONSTANTS
  Literals,    \* primitive values the program writes down
  Alphabet,    \* characters of the program's strings
  Words,       \* strings given to the methods of String
  MaxLen       \* bound: length of the string

ASSUME LiteralsAssumption == \A v \in Literals : Numeric(v) \/ v \in {Nil, NoValue}
ASSUME WordsAssumption == Words \subseteq Seq(Alphabet)

VARIABLES
  val,      \* the primitive variable
  text,     \* the contents of the string
  phase     \* "running", or "trapped" by a signal

vars == <<val, text, phase>>

Init == val = Nil /\ text = <<>> /\ phase = "running"

\* Halves of doubles the variable may hold: a bound.
Doubles == -32..32

\* An exception leaves the operand as it was.  The two variables never meet, so one
\* stays as it began while the other changes: a bound.
Store(v) ==
  /\ phase = "running" /\ text = <<>>
  /\ v.k = "double" => v.n \in Doubles
  /\ val' = IF v \in {Error, Trap} THEN val ELSE v
  /\ phase' = IF v = Trap THEN "trapped" ELSE phase
  /\ UNCHANGED text

Assign == \E v \in Literals : Store(v)

\* op= writes the result through the left operand; `op` writes a temporary.
Compound ==
  \E op \in IntOps, v \in Literals : Within(op, val, v) /\ Store(Arithmetic(op, val, v))
Increment == \E by \in {-1, 1} : Store(Step(val, by))
Unary == \E v \in {Negate(val), Invert(val), Negation(val)} : Store(v)
Comparison == \E op \in {">", "<", ">=", "<="}, v \in Literals : Store(Compared(val, op, v))
Equality == \E v \in Literals : Store(Bool(Equal(val, v)))
Logic == \E op \in {"&&", "||", "^^"}, v \in Literals : Store(Logical(val, op, v))
Conversion == \E k \in {"bool", "int", "char", "double"} : Store(Convert(val, k))

Edit(s) ==
  /\ phase = "running" /\ val = Nil
  /\ s # Thrown => Len(s) <= MaxLen
  /\ text' = IF s = Thrown THEN text ELSE s
  /\ UNCHANGED <<val, phase>>

AppendText == \E w \in Words : Edit(text \o w)
InsertText == \E w \in Words, p \in 0..MaxLen : Edit(Insert(text, p, w))
ReplaceText == \E w, by \in Words, limit \in -1..2 : Edit(Replace(text, w, by, limit))
EraseText == \E p \in 0..MaxLen, n \in -1..2 : Edit(EraseAt(text, p, n))
RemoveText == \E c \in Alphabet : Edit(RemoveChar(text, c))
RepeatText == \E n \in 0..2 : Edit(Times(text, n))
CutText == \E p, n \in 0..MaxLen : Edit(Substr(text, p, n))
ClearText == Edit(<<>>)

Trapped == phase = "trapped" /\ UNCHANGED vars

Next ==
  \/ Assign \/ Compound \/ Increment \/ Unary
  \/ Comparison \/ Equality \/ Logic \/ Conversion
  \/ AppendText \/ InsertText \/ ReplaceText \/ EraseText
  \/ RemoveText \/ RepeatText \/ CutText \/ ClearText
  \/ Trapped

Spec == Init /\ [][Next]_vars

(***************************************************************************)
(* The operators agree with each other, whatever was computed before.  The *)
(* order is one of four answers that fit together, and going through       *)
(* double it never says the contrary of the integers (LibLogical.cpp:40).  *)
(* Quotient and remainder make up the dividend; a product or sum does not  *)
(* depend on the side of its operands, in value or in kind (bin_operator   *)
(* picks the type from both, LibArithmetic.h:63).  The rest holds of what  *)
(* a double holds exactly and fails of larger numbers: two exact values    *)
(* neither of which is above the other hash alike (comparison goes through *)
(* double, hashing does not, Value.cpp:342), an exact number converts to   *)
(* double and back (Value.cpp:245), and -- undoes ++ where the sum is one. *)
(***************************************************************************)
Exact(v) == v.k # "double" => ToDouble(v).n = 2 * v.n
Ordered(v, w) ==
  LET is(op) == Compared(v, op, w) = Bool(TRUE)
  IN  /\ is(">") = ~is("<=") /\ is("<") = ~is(">=") /\ (is("<=") \/ is(">="))
      /\ is(">") = (Compared(w, "<", v) = Bool(TRUE))
      /\ "double" \notin {v.k, w.k} /\ v.n < w.n => ~is(">")
      /\ Exact(v) /\ Exact(w) /\ ~is(">") /\ ~is("<") => HashCode(v) = HashCode(w)
Divided(v, w) ==
  LET q == Arithmetic("/", v, w)
  IN  IsDoubleOp(v, w) \/ q = Trap
      \/ Arithmetic("+", Arithmetic("*", q, w), Arithmetic("%", v, w)) = ToDec(v)
Symmetric(v, w) ==
  \A op \in {"+", "*"} : Within(op, v, w) => Arithmetic(op, v, w) = Arithmetic(op, w, v)
StepsBack(v) ==
  v.k = "bool" \/ (v.k = "double" /\ Step(v, 1).n # v.n + 2) \/ Step(Step(v, 1), -1) = v
ValuesAgree ==
  Numeric(val) =>
    /\ \A w \in Literals :
         Numeric(w) => Ordered(val, w) /\ Divided(val, w) /\ Symmetric(val, w)
    /\ StepsBack(val)
    /\ Exact(val) => ToDec(ToDouble(val)) = ToDec(val)

(***************************************************************************)
(* The algorithms on text agree with each other: the pieces of a split     *)
(* hold no delimiter and joined by it they are the text, joined by another *)
(* string they are what replace makes of it; substr finds what find points *)
(* at; erasing what was inserted gives the text back (util/string.cpp:9,   *)
(* String.cpp:75).                                                         *)
(***************************************************************************)
Joined(parts, d) ==
  FlattenSeq([i \in DOMAIN parts |-> IF i = 1 THEN parts[i] ELSE d \o parts[i]])
SplitJoins(s) ==
  \A d \in Words \ {<<>>} :
    LET parts == Split(s, d)
    IN  /\ Joined(parts, d) = s
        /\ \A i \in DOMAIN parts : FindFrom(parts[i], d, 0) = -1
        /\ \A t \in Words : Replace(s, d, t, -1) = Joined(parts, t)
        /\ Len(parts) > 1 => Substr(s, Find(s, d, 0), Len(d)) = d
InsertErases(s) ==
  \A w \in Words, p \in 0..Len(s) : EraseAt(Insert(s, p, w), p, Len(w)) = s

(***************************************************************************)
(* A formatted text is its template with each cell replaced by its own     *)
(* argument: no text outside the cells changes, what was filled in is not  *)
(* searched again, an unnumbered cell takes the argument after the one     *)
(* taken last, and a cell is as wide as it was asked to be whatever the    *)
(* order of its modifiers (StringFormatter.cpp:20, 70, 80, 100).  Centred  *)
(* text with a two-byte character may be one blank short, since its bytes  *)
(* are compared with the width (line 120).  The arguments are not empty:   *)
(* an empty one makes its cell take the next.  Nor are they digits only:   *)
(* such a one, and no other, is shown with six decimals                    *)
(* (StringFormatter.h:97, util/string.cpp:105), although                   *)
(* string-formatter.mt0:11 says that a cell without modifiers is just      *)
(* replaced, and line 28 gives precisions to numbers with a fraction.      *)
(***************************************************************************)
Arguments == {<<<<"{", "}">>, <<"a", Lead, Follow>>>>, <<<<"a">>, <<"1", "a">>>>}
RECURSIVE Expected(_, _, _)
Expected(s, args, last) ==
  LET cell == CellAt(s, 0)
      number == SubSeq(s, cell[1] + 1, cell[2] - 1)
      n == IF number = <<>> THEN last + 1 ELSE Number(number)
  IN  IF cell = <<>> THEN s
      ELSE IF n \notin DOMAIN args THEN Thrown
      ELSE LET rest == Expected(SubSeq(s, cell[2] + 1, Len(s)), args, n)
           IN  IF rest = Thrown THEN Thrown ELSE SubSeq(s, 1, cell[1] - 1) \o args[n] \o rest
Plain(s) ==
  \A p, q \in DOMAIN s :
    p < q /\ s[p] = "{" /\ s[q] = "}" =>
      \E i \in (p + 1)..q : s[i] = "}" /\ \A j \in (p + 1)..(i - 1) : s[j] \in Digits
FormatFills(s) ==
  \A args \in Arguments :
    /\ Plain(s) => Format(s, args) = Expected(s, args, 0)
    /\ \A align \in {"l", "r", "c"}, w \in 0..5 :
         LET shown == SetWidth(s, w, align)
         IN  /\ FindFrom(shown, s, 0) >= 0
             /\ \/ Width(s) >= w /\ shown = s
                \/ Width(shown) = w
                \/ Width(shown) = w - 1 /\ align = "c" /\ Len(s) # Width(s)

Modifiers(align) == {<<"1", "%", "2", "-", align>>, <<"-", align, " ", "%", "2">>, <<"%", "2", "-", align, "1">>}
ModifiersCommute(s) ==
  \A align \in {"l", "r", "c"} : \A m \in Modifiers(align) :
    s # <<>> /\ ~IsNumeric(s) =>
      Format(<<"a", "{">> \o m \o <<"}">>, <<s>>) = <<"a">> \o SetWidth(s, 2, align)

TextAgrees == SplitJoins(text) /\ InsertErases(text) /\ FormatFills(text) /\ ModifiersCommute(text)
===============================================================================
