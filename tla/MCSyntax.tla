------------------------------ MODULE MCSyntax ------------------------------
(***************************************************************************)
(* Instances of Syntax for TLC and the properties of the language's front  *)
(* end. Small texts are enumerated over a few alphabets, each of which     *)
(* brings together the characters that interact in one part of the lexer;  *)
(* expressions are enumerated operator by operator; whole constructs are   *)
(* given as programs.                                                      *)
(***************************************************************************)
EXTENDS Syntax

CONSTANTS MaxText,      \* the length of the enumerated texts
          MaxOperators  \* the operators of an enumerated expression

Texts(alphabet, n) ==
    {FoldLeft(LAMBDA s, c : s \o c, "", t) : t \in [1..n -> alphabet]}

UpTo(alphabet) == UNION {Texts(alphabet, n) : n \in 1..MaxText}

Numbers == {"0", "1", "a", "x", ".", "_", " "}
Operators == {"a", "-", ">", "=", "*", "/", NL, ";"}
KeyWords == {"if", "a", ":", " ", NL, "("}
Strings == {"\"", "\\", "n", "q", NL, "-"}

Operands == <<"a", "b", "c", "d", "e">>
BinaryOperators == {"=", "+=", "::", "||", "==", "-", "*"}
Postfixes == {".b", "(x)", "[i]", "++"}

Expressions ==
    UNION {{FoldLeft(LAMBDA s, i : s \o ops[i] \o Operands[i + 1], Operands[1],
                     [i \in 1..n |-> i]) : ops \in [1..n -> BinaryOperators]}
             : n \in 1..MaxOperators}

Chains == {"a" \o s : s \in UNION {Texts(Postfixes, n) : n \in 1..MaxOperators}}

Programs ==
    {"x = 0x1f + 0b11 - 1_0.5\ny <- -x * 'c'",
     "if: a == b {c} else: d, e\nz",
     "if: a b else: if: c {d} else: {e}",
     "a ? b : c ? d : e; -f",
     "for: (i = 0, i < n, ++i) {g(i)} while: a {b; c!}",
     "for: e, [1, 2, 3] %% e :: newl\nfor: a, b c",
     "f: x, y => 2 -> x + y\ng = fun: () {return: h}",
     "m = method: (a, b) -> {a; b}\nf: (c) -> d, e",
     "@(a => 1, b; c => 2) @[k => v]", "map: p => q, r", "for: a b",
     "$(1, 2,) [] set: a, b\nlist: c, d",
     "class: A base: B implements: C, D {x => 1 m => f: () {nil}}",
     "interface: I @(p => nil)\n(I)\n() *[a] is: b",
     "try: {a} catch: e {b} box: {c} -> {d}",
     "l[~i] l[->j] l[~] l[] = k l[do: f] l[1..5..2][0]",
     "$\"x {} y\", a, b\n$\"z\"",
     "const: a + 1\n$b * c\n#g = \"s\"",
     "new: A(1)\nglobal: a, b\nvar: c = 3\nreturn: d",
     "o.f(x).g(y)[i]++ -- 5 ++j\na@b@c",
     "foo(a): b, c\n(a) require: b\n*[a] to: int",
     "~a & b | c ^ !d && e << 2 >= 3 .. 4",
     "a /* b \n c */ -d /**/ e", "1 2\n-3\n(4)\n[5]", "a = -\nb",
     "while: a) b", "a { b", "f: 1 + 2 {a}", "} a", "list\nif: c d",
     "a /* b", "\"a\\\"b\" \"c", "'"}

SmallPrograms == UpTo(Numbers) \cup UpTo(Operators) \cup UpTo(KeyWords)
                 \cup UpTo(Strings)

MCFiles == SmallPrograms \cup Expressions \cup Chains \cup Programs

Lines == {"a", "-b", "(c)", "[1]", "l[0]", "{a;", "b}", "if: a", "else: b",
          "x =", "y ", "++z"}
MCDialogues == UNION {[1..n -> Lines] : n \in 1..3}

-----------------------------------------------------------------------------
(* Reference definitions *)

IsOperator(t) == t.type \in Punctuators \cup MultiChar
Source == text[1]
Tokens == lexer.toks

(* Lexing has finished and the parser has not begun to take tokens. *)
Lexed == mode = "file" /\ phase = "parse" /\ parser.done = <<>>

(* A token as it may be written again. *)
Spelling(t) == (IF t.val = "" \/ IsOperator(t) THEN t.type ELSE t.val)
Respelled == FoldLeft(LAMBDA s, t : s \o Spelling(t) \o " ", " ", Tokens)
Kinds(toks) == [i \in DOMAIN toks |-> <<toks[i].type, toks[i].val>>]

(* What the grammar says of a sequence of operands and binary operators:   *)
(* it is divided at the loosest operator, at the first of them if it       *)
(* groups to the right and at the last otherwise.                          *)
Name(x) == Node("identifier", x, <<>>)
RECURSIVE Divide(_, _)
Divide(xs, ops) ==
    LET loosest == Min({InfixPrecedence(ops[i]) : i \in DOMAIN ops})
        at == {i \in DOMAIN ops : InfixPrecedence(ops[i]) = loosest}
        i == IF loosest = ASSIGNMENT THEN Min(at) ELSE Max(at)
    IN  IF ops = <<>> THEN xs[1]
        ELSE Node("binary", ops[i],
                  <<Divide(SubSeq(xs, 1, i), SubSeq(ops, 1, i - 1)),
                    Divide(SubSeq(xs, i + 1, Len(xs)),
                           SubSeq(ops, i + 1, Len(ops)))>>)

(* What it says of a chain of member accesses, calls, indices and          *)
(* increments: the first suffix after a name belongs to the member, with   *)
(* the indices that follow an index, and every other one to the chain.     *)
Suffixed(e, s) == CASE s = "(x)" -> Node("call", "", <<e, Name("x")>>)
                    [] s = "[i]" -> Node("index", "", <<e, Name("i")>>)
                    [] s = "++" -> Node("postfix", "++", <<e>>)
Extend(c, s) ==
    LET member == c.e.s[2] IN
    IF s = ".b" THEN [e |-> Node("binary", ".", <<c.e, Name("b")>>),
                      last |-> s]
    ELSE IF c.last = ".b"
    THEN [e |-> [c.e EXCEPT !.s[2] = Suffixed(member, s)],
          last |-> IF s = "[i]" THEN "inner" ELSE s]
    ELSE IF c.last = "inner" /\ s = "[i]"
    THEN [c EXCEPT !.e.s[2] = Suffixed(member, s)]
    ELSE [e |-> Suffixed(c.e, s), last |-> s]
ChainOf(suffixes) ==
    FoldLeft(Extend, [e |-> Name("a"), last |-> ""], suffixes).e

(* The operands of an expression, from left to right. *)
RECURSIVE Leaves(_)
Leaves(e) ==
    (IF e.v = "" \/ e.k \notin {"identifier", "global", "literal", "type",
                                "class", "format"} THEN <<>> ELSE <<e.v>>)
    \o FoldLeft(LAMBDA s, x : s \o Leaves(x), <<>>, e.s)

(* The main unit a whole text parses to, or what marks a refused text. *)
RECURSIVE ParseRest(_)
ParseRest(p) == IF p.bad \/ Ahead(p, 0).type = EOF.type THEN p
                ELSE ParseRest(ParseNext(p))
FileOf(lines) ==
    LET whole == FoldLeft(LAMBDA s, x : s \o x \o NL, "", lines)
        l == Run(Load(FreshLexer, whole, FALSE))
    IN  IF l.out # "run" \/ l.open > 0 THEN Fail(NewParser(<<>>))
        ELSE ParseRest(NewParser(l.toks))
-----------------------------------------------------------------------------
(* Properties *)

(* An operator is the first of its line for the parser exactly when a      *)
(* newline or a semicolon stands between it and the token before it,       *)
(* whatever spaces and comments surround them: Lexer::deduce_separator     *)
(* keeps a newline once seen, and InfixParser::is_compatible decides by it *)
(* whether `-b` continues the expression of the line above.                *)
OperatorsSeeNewlines ==
    Lexed =>
    \A i \in 2..Len(Tokens) :
        IsOperator(Tokens[i]) /\ Tokens[i - 1].type \notin StringTypes =>
            (Tokens[i].sep = "NEWLINE" <=>
               \E k \in Tokens[i - 1].at..Tokens[i].at :
                   CharAt(Source, k) \in {NL, ";"})

(* Reading is stable: a program written again from its tokens, a space     *)
(* after each, has the same tokens. What begin and consume make of a       *)
(* character depends on the characters beside it only as far as the tokens *)
(* can tell. Literals with quotes and numbers with stray letters are left  *)
(* out: a prefix 0x without digits swallows the word that follows it.      *)
RespellingKeepsTokens ==
    Lexed /\ (\A i \in DOMAIN Tokens :
                 /\ Tokens[i].type \notin StringTypes \cup {"token"}
                 /\ Tokens[i].type \in NumberTypes =>
                       /\ Chars(Tokens[i].val) \subseteq Digits \cup {"."}
                       /\ CharAt(Tokens[i].val, 1) \in Digits)
    => Kinds(Run(Load(FreshLexer, Respelled, FALSE)).toks) = Kinds(Tokens)

(* No operand is lost, doubled or moved: the leaves of the main unit are   *)
(* the names and the literals of the text in their order.                  *)
OperandsKept ==
    LET operands == SelectSeq(Tokens, LAMBDA t :
                       /\ t.val # ""
                       /\ t.type \in Literals \cup {"identifier", "format string"})
    IN  FoldLeft(LAMBDA s, e : s \o Leaves(e), <<>>, roots)
        = [i \in DOMAIN operands |-> operands[i].val]

(* Operators bind by their precedence and group to the side they are       *)
(* registered for; calls, indices and increments after a member access     *)
(* belong to the member once and then to the chain, which is what          *)
(* access_opr_lvl is for. The reference divides the text instead of        *)
(* descending into it. In every other text no operand is lost either:      *)
(* tokens are put back, skipped and matched in some thirty parsers, each   *)
(* of which could drop one.                                                *)
GroupingIsAsDeclared ==
    LET names == SelectSeq(Tokens, LAMBDA t : t.type = "identifier")
        others == SelectSeq(Tokens, LAMBDA t : t.type # "identifier")
        marks == SelectSeq(Tokens, LAMBDA t : t.type \in {".", "(", "[", "++"})
        steps == [i \in DOMAIN marks |->
                    CHOOSE s \in Postfixes : CharAt(s, 1) = CharAt(marks[i].type, 1)]
    IN  phase = "done" /\ mode = "file" =>
        /\ Source \in Expressions =>
               roots = <<Divide([i \in DOMAIN names |-> Name(names[i].val)],
                                [i \in DOMAIN others |-> others[i].type])>>
        /\ Source \in Chains => roots = <<ChainOf(steps)>>
        /\ OperandsKept

(* What is typed line by line is what the same lines mean in a file, if    *)
(* every line was accepted: the lexer carries its separator, its line and  *)
(* its open blocks from one line to the next. An index is the exception: in*)
(* a file `[1]` under a line that ends with an index is one more index,    *)
(* which IndexParser takes without looking at the separator.               *)
IndexContinues(d) ==
    \E i \in 2..Len(d) : CharAt(d[i], 1) = "[" /\ CharAt(d[i - 1], Len(d[i - 1])) = "]"
DialogueMatchesFile ==
    phase = "done" /\ mode = "lines" /\ ~errors /\ lexer.toks = <<>>
                   /\ ~IndexContinues(text)
    => LET file == FileOf(text) IN ~file.bad /\ file.done = roots

(* Every text is read to its end, accepted or refused: each step of the    *)
(* lexer moves on in the text and each turn of parse_all takes a token from*)
(* the queue, so that neither loop runs for ever; only a block comment that*)
(* nothing closes holds the lexer. A state without a successor would be    *)
(* reported as a deadlock.                                                 *)
OpenComment ==
    \E i \in 1..(Len(lexer.src) - 1) :
        /\ SubSeq(lexer.src, i, i + 1) = "/*"
        /\ \A j \in (i + 2)..(Len(lexer.src) - 1) :
               SubSeq(lexer.src, j, j + 1) # "*/"
EveryStepReads ==
    [][/\ phase = "lex" /\ phase' = "lex" =>
             IF lexer'.out = "hang" THEN OpenComment
             ELSE lexer'.pos > lexer.pos
       /\ phase = "parse" /\ phase' = "parse" =>
             Len(parser'.q) < Len(parser.q)]_vars
=============================================================================
