-------------------------------- MODULE Values --------------------------------
(***************************************************************************)
(* Values: the alternatives of the variant behind class Value, and what    *)
(* conversion, the arithmetic, comparison and logical operators, equality  *)
(* and hashing make of them.  Int, char and the significand of a double    *)
(* have few bits, the last fewer than Int as in the program (64 and 53); a *)
(* double is a number of halves.  Error stands for an exception, Trap for  *)
(* the signal of an integer division that has no result.                   *)
(***************************************************************************)
EXTENDS Integers

LOCAL INSTANCE Bitwise

CONSTANTS
  IntBits,    \* width of Int
  CharBits,   \* width of char
  DoubleBits  \* significant bits of a double

ASSUME WidthsAssumption ==
  IntBits \in Nat \ {0} /\ CharBits \in 1..IntBits /\ DoubleBits \in 1..IntBits

Value(k, n) == [k |-> k, n |-> n]
Nil == Value("nil", 0)
NoValue == Value("none", 0)    \* the absence of a value
Error == Value("error", 0)
Trap == Value("trap", 0)
Bool(b) == Value("bool", IF b THEN 1 ELSE 0)

Wrap(n, bits) == ((n + 2^(bits - 1)) % 2^bits) - 2^(bits - 1)
Integer(n) == Value("int", Wrap(n, IntBits))
Char(n) == Value("char", Wrap(n, CharBits))

Sign(n) == IF n < 0 THEN -1 ELSE 1
Magnitude(n) == Sign(n) * n

\* The nearest number with DoubleBits significant bits, of two as near the even one.
Rounded(n) ==
  LET m == Magnitude(n)
      scale == CHOOSE k \in 0..m : m \div 2^k < 2^DoubleBits /\ (k = 0 \/ m \div 2^(k - 1) >= 2^DoubleBits)
      ulp == 2^scale
      up == 2 * (m % ulp) > ulp \/ (2 * (m % ulp) = ulp /\ (m \div ulp) % 2 = 1)
  IN  Sign(n) * ulp * (m \div ulp + IF up THEN 1 ELSE 0)
Double(halves) == Value("double", Rounded(halves))

\* Integer division of C++: it rounds towards zero, and the remainder follows the dividend.
Quot(a, b) == Sign(a) * Sign(b) * (Magnitude(a) \div Magnitude(b))
Rem(a, b) == Sign(a) * (Magnitude(a) % Magnitude(b))

(***************************************************************************)
(* Conversions                                                             *)
(***************************************************************************)
Numeric(v) == v.k \in {"int", "double", "bool", "char"}

\* What the conversion instruction gives for a double no Int is equal to: the least Int.
Truncated(halves) ==
  LET n == Quot(halves, 2) IN IF n = Wrap(n, IntBits) THEN n ELSE -(2^(IntBits - 1))

\* to_dec: a String converts to no number, since what it holds is not a std::string; what
\* to_bool and to_char read out of a String is left out.
ToDec(v) ==
  IF ~Numeric(v) THEN Error ELSE Integer(IF v.k = "double" THEN Truncated(v.n) ELSE v.n)

\* to_double: an Int with more significant bits than a double is rounded.
ToDouble(v) ==
  IF ~Numeric(v) THEN Error ELSE Double(IF v.k = "double" THEN v.n ELSE 2 * v.n)
\* to_bool: only the one is true.
ToBool(v) ==
  CASE v.k = "bool" -> v
    [] v.k = "int" -> Bool(v.n = 1)
    [] v.k = "double" -> Bool(v.n = 2)
    [] OTHER -> Error
ToChar(v) ==
  CASE v.k = "char" -> v
    [] v.k = "int" -> Char(v.n)
    [] OTHER -> Error
Convert(v, k) ==
  CASE k = "bool" -> ToBool(v)
    [] k = "int" -> ToDec(v)
    [] k = "char" -> ToChar(v)
    [] k = "double" -> ToDouble(v)

(***************************************************************************)
(* LibArithmetic                                                           *)
(***************************************************************************)
Unsigned(n) == n % 2^IntBits

\* Shift counts beyond the width are undefined and left out.
IntOps == {"+", "-", "*", "/", "%", "&", "|", "^", "<<", ">>"}
IntOp(op, a, b) ==
  CASE op = "+" -> Integer(a + b)
    [] op = "-" -> Integer(a - b)
    [] op = "*" -> Integer(a * b)
    [] op \in {"/", "%"} /\ (b = 0 \/ (b = -1 /\ a = -(2^(IntBits - 1)))) -> Trap
    [] op = "/" /\ b # 0 -> Integer(Quot(a, b))
    [] op = "%" /\ b # 0 -> Integer(Rem(a, b))
    [] op = "&" -> Integer(Unsigned(a) & Unsigned(b))
    [] op = "|" -> Integer(Unsigned(a) | Unsigned(b))
    [] op = "^" -> Integer(Unsigned(a) ^^ Unsigned(b))
    [] op = "<<" -> Integer(a * 2^b)
    [] op = ">>" -> Integer(a \div 2^b)

\* apply<Float>: the operators of integers only throw.  A result is rounded once; those
\* that are not a number of halves are beyond the model.
DoubleOp(op, a, b) ==
  CASE op = "+" -> Double(a + b)
    [] op = "-" -> Double(a - b)
    [] op = "*" -> Double((a * b) \div 2)
    [] op = "/" -> Double((2 * a) \div b)
    [] OTHER -> Error

\* Mutant: the left operand alone decides between integers and doubles.
IsDoubleLeft(l, r) == l.k = "double"

IsDoubleOp(l, r) == l.k = "double" \/ r.k = "double"

\* bin_operator: one double makes the operation one of doubles.
Arithmetic(op, l, r) ==
  IF ~Numeric(l) \/ ~Numeric(r) THEN Error
  ELSE IF IsDoubleOp(l, r) THEN DoubleOp(op, ToDouble(l).n, ToDouble(r).n)
  ELSE IntOp(op, ToDec(l).n, ToDec(r).n)

\* Whether the model can tell the result of an operation.
Within(op, l, r) ==
  Numeric(l) /\ Numeric(r) =>
    LET a == ToDouble(l).n
        b == ToDouble(r).n
    IN  IF IsDoubleOp(l, r)
        THEN /\ op = "*" => (a * b) % 2 = 0
             /\ op = "/" => b # 0 /\ (2 * a) % Magnitude(b) = 0
        ELSE op \in {"<<", ">>"} => ToDec(r).n \in 0..(IntBits - 1) /\ ToDec(l).n >= 0

\* Unary minus: what is not an Int is read as a double, or throws.
Negate(v) ==
  CASE v.k = "int" -> Integer(-v.n) [] v.k = "double" -> Double(-v.n) [] OTHER -> Error

\* apply_unary: a bool throws.
Step(v, by) ==
  CASE v.k = "int" -> Integer(v.n + by)
    [] v.k = "double" -> Double(v.n + 2 * by)
    [] v.k = "char" -> Char(v.n + by)
    [] OTHER -> Error

(***************************************************************************)
(* LibLogical                                                              *)
(***************************************************************************)
Invert(v) == IF Numeric(v) THEN Integer(-ToDec(v).n - 1) ELSE Error
Negation(v) == IF ToBool(v) = Error THEN Error ELSE Bool(ToBool(v) = Bool(FALSE))

\* arithmetic_comparison, of doubles.
Compare(l, op, r) ==
  CASE op = ">" -> l > r [] op = "<" -> l < r [] op = ">=" -> l >= r [] op = "<=" -> l <= r
Compared(l, op, r) ==
  IF ~Numeric(l) \/ ~Numeric(r) THEN Error ELSE Bool(Compare(ToDouble(l).n, op, ToDouble(r).n))

\* logical_operation: the right operand is not evaluated once the left one decides.
Decides(op, l) == (op = "||" /\ l = Bool(TRUE)) \/ (op = "&&" /\ l = Bool(FALSE))
Logical(l, op, r) ==
  LET a == ToBool(l)
      b == ToBool(r)
  IN  IF a = Error \/ Decides(op, a) THEN a
      ELSE IF b = Error THEN Error
      ELSE IF op = "^^" THEN Bool(a # b)
      ELSE b

(***************************************************************************)
(* Equality and hashing                                                    *)
(***************************************************************************)
\* operator==: values of different alternatives differ, but for nil and no value.
Equal(l, r) == l = r \/ {l, r} = {Nil, NoValue}

\* hash_code: numbers of all kinds are their own hash.
HashCode(v) ==
  IF Numeric(v) THEN <<"number", ToDec(v).n>>
  ELSE <<"kind", v.k>>
===============================================================================
