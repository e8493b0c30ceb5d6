------------------------------- MODULE Parser -------------------------------
(***************************************************************************)
(* The parser: recursive descent with operator precedences, over a         *)
(* registry of prefix and infix parsers keyed by token type (Parser,       *)
(* Methan0lParser and expression/parser/). A parser is a record:           *)
(*   q      the tokens still to read: read_queue and the lexer's queue     *)
(*   nest   nesting_lvl                                                    *)
(*   acc    access_opr_lvl, or -1                                          *)
(*   bad    an exception has been thrown                                   *)
(*   done   parsed_expressions                                             *)
(* A parsing operator returns [p |-> the parser after it, e |-> what it    *)
(* parsed], an expression or a sequence of them. An expression is a node   *)
(* [k |-> kind, v |-> name or operator, s |-> sub-expressions].            *)
(***************************************************************************)
EXTENDS Integers, Lexer

EOF == [type |-> ".end_of_program", val |-> "", sep |-> "NONE"]
EndOfExpression == [type |-> ".end_of_expression", val |-> "", sep |-> "NONE"]
NoEnd == ".none"                    \* no closing token

Node(k, v, s) == [k |-> k, v |-> v, s |-> s]
Empty == Node("literal", "", <<>>)

IsUnit(e) == e.k \in {"unit", "weak", "box"}

(* The levels of Precedence, lowest first: the infix tokens of each.       *)
InfixLevels ==
    << {"assert", "require"}, {"!"},
       {"+=", "-=", "*=", "/=", "&=", "|=", "^=", "<<=", ">>=", "%="},
       {"=", "<-", ":="}, {"::", ".."}, {"?"}, {"||"}, {"&&", "^^"}, {"|"},
       {"^"}, {"&"}, {"==", "!="}, {">", ">=", "<", "<="},
       {"<<", ">>", "is", "to"}, {"+", "-"}, {"*", "%", "/"},
       {}, {}, {}, {"@", "."}, {"["}, {"(", "$("}, {"++", "--"}, {} >>

PREFIX == 17
PREFIX_INCREMENT == 18
DOT == 20
HIGHEST == 24
IO == 2
ASSIGNMENT == 4

InfixTokens == UNION {InfixLevels[i] : i \in DOMAIN InfixLevels}

InfixPrecedence(t) ==
    IF t \in InfixTokens
    THEN CHOOSE i \in DOMAIN InfixLevels : t \in InfixLevels[i] ELSE 0

Literals == {"boolean", "string", "float", "integer", "char", "token"}

Words == {"typeid", "typename", "delete", "copy", "hash_code", "noeval",
          "using_module", "import", "new", "global", "unwrap",
          "is_reference", "identity", "return"}

PrefixLevel(t) == CASE t \in {"<%", "%%", "%>"} -> IO
                    [] t \in {"++", "--"} -> PREFIX_INCREMENT
                    [] t \in {"!", "~", "-", "$$"} -> PREFIX

PrefixOperators == {"<%", "%%", "%>", "++", "--", "!", "~", "-", "$$"}

PrefixTokens ==
    Literals \cup Words \cup PrefixOperators \cup
    {"format string", "#", "identifier", "const", "$", "(", "*[", "$(", "[",
     "set", "list", "@(", "@[", "map", "{", "->", "box", "if", "while",
     "for", "try", "fun", "f", "method", "class", "interface", "var"}

(* A token registered both ways begins a new expression when it is the     *)
(* first of its line.                                                      *)
IgnoresNewline(t) == t \in InfixTokens /\ t \in PrefixTokens

NewParser(tokens) ==
    [q |-> tokens, nest |-> 0, acc |-> -1, bad |-> FALSE, done |-> <<>>]

Ahead(p, n) == IF n < Len(p.q) THEN p.q[n + 1] ELSE EOF
Peek(p, t) == Ahead(p, 0).type = t
Skip(p) == [p EXCEPT !.q = IF @ = <<>> THEN @ ELSE Tail(@)]
Fail(p) == [p EXCEPT !.bad = TRUE]
Return(p, e) == [p |-> p, e |-> e]

Match(p, t) == IF Peek(p, t) THEN Skip(p) ELSE p
Expect(p, t) == IF Peek(p, t) THEN Skip(p) ELSE Fail(p)
ExpectIf(p, t, needed) == IF needed THEN Expect(p, t) ELSE p

(* What follows a parse that has not thrown. *)
Then(r, F(_)) == IF r.p.bad THEN r ELSE F(r)

RECURSIVE Parse(_, _), Infixes(_, _, _), Prefix(_, _), Items(_, _, _),
          Pairs(_, _, _), Block(_, _), Index(_, _), Names(_, _),
          Condition(_, _), Call(_, _)

(* parse(precedence) *)
Leave(r) == [r EXCEPT !.p.nest = @ - 1]

Parse(p, precedence) ==
    IF p.bad THEN Return(p, Empty) ELSE
    Then(Prefix(Skip([p EXCEPT !.nest = @ + 1]), Ahead(p, 0)), LAMBDA r :
         IF Peek(r.p, EndOfExpression.type)
         THEN Leave(Return(Skip(r.p), r.e))
         ELSE Infixes(r.p, precedence, r.e))

BinaryToTheOtherSide(p, lhs, t, right) ==
    LET level == InfixPrecedence(t)
        at == IF level = DOT THEN [p EXCEPT !.acc = p.nest + 1] ELSE p
    IN  Then(Parse(at, IF right THEN level ELSE level - 1), LAMBDA r :
             Return(r.p, Node("binary", t, <<lhs, r.e>>)))

(* A `.` or `@` notes the level its right side is parsed at. *)
Binary(p, lhs, t, right) ==
    LET level == InfixPrecedence(t)
        at == IF level = DOT THEN [p EXCEPT !.acc = p.nest + 1] ELSE p
    IN  Then(Parse(at, IF right THEN level - 1 ELSE level), LAMBDA r :
             Return(r.p, Node("binary", t, <<lhs, r.e>>)))

RangesWithoutStep(p, lhs) ==
    Then(Parse(p, 0), LAMBDA r :
         Return(r.p, Node("range", "",
                    <<lhs, IF r.e.k = "range" THEN r.e.s[1] ELSE r.e>>)))

(* start..end..step is read as start..(end..step) and unwrapped. *)
Ranges(p, lhs) ==
    Then(Parse(p, 0), LAMBDA r :
         Return(r.p, Node("range", "",
                     IF r.e.k = "range" THEN <<lhs, r.e.s[1], r.e.s[2]>>
                     ELSE <<lhs, r.e>>)))

(* list[e], list[do: e] and, after what how says, list[~e] and list[->e]. *)
Subscript(p, lhs, how) ==
    LET each == Peek(p, "do")
        node(e) == Node("index", how, <<lhs, e>>)
    IN  Then(Parse(IF each THEN Expect(Skip(p), ":") ELSE p, 0), LAMBDA r :
             Return(Expect(r.p, "]"),
                    node(IF each THEN Node("prefix", "do", <<r.e>>) ELSE r.e)))

(* An index may also be empty, list[] or list[~], and may be repeated. *)
Index(p, lhs) ==
    LET how == IF Peek(p, "~") THEN "~" ELSE IF Peek(p, "->") THEN "->" ELSE ""
        q == Match(p, "~")
    IN  Then(IF Peek(q, "]") THEN Return(Skip(q), Node("index", how, <<lhs>>))
             ELSE Subscript(Match(q, "->"), lhs, how), LAMBDA r :
             IF Peek(r.p, "[") THEN Index(Skip(r.p), r.e) ELSE r)

InfixWord(p, lhs, t) ==
    Then(Parse(Expect(p, ":"), 0), LAMBDA r :
         Return(r.p, Node("binary", t, <<lhs, r.e>>)))

Infix(p, lhs, t) ==
    CASE t \in {"=", "<-", "@"} -> Binary(p, lhs, t, TRUE)
      [] t = ".." -> Ranges(p, lhs)
      [] t = "?" -> Condition(p, lhs)
      [] t \in {"(", "$("} -> Call(p, lhs)
      [] t = "[" -> Index(p, lhs)
      [] t \in {"assert", "require", "is", "to"} -> InfixWord(p, lhs, t)
      [] t \in {"!", "++", "--"} -> Return(p, Node("postfix", t, <<lhs>>))
      [] OTHER -> Binary(p, lhs, t, FALSE)

(* The loop of parse: the infix tokens that bind tighter than precedence.  *)
Infixes(p, precedence, lhs) ==
    LET tok == Ahead(p, 0) IN
    IF \/ precedence >= InfixPrecedence(tok.type)
       \/ IgnoresNewline(tok.type) /\ tok.sep = "NEWLINE"
    THEN Leave(Return(p, lhs))
    ELSE Then(Infix(Skip(p), lhs, tok.type), LAMBDA r :
              IF r.p.acc > -1 /\ r.p.nest = r.p.acc
              THEN Leave([r EXCEPT !.p.acc = -1])
              ELSE Infixes(r.p, precedence, r.e))

(* ListParser::parse: items up to end, which may be preceded by a comma;   *)
(* with NoEnd, items as long as a comma follows.                           *)
Items(p, found, end) ==
    IF found = <<>> /\ Peek(p, end) THEN Return(Skip(p), found)
    ELSE Then(Parse(p, 0), LAMBDA r :
              IF Peek(r.p, ",") /\ Ahead(r.p, 1).type # end
              THEN Items(Skip(r.p), Append(found, r.e), end)
              ELSE Return(ExpectIf(Match(r.p, ","), end, end # NoEnd),
                          Append(found, r.e)))

(* The loops that go on after a comma without a closing token. *)
MoreItems(r, separator) ==
    IF Peek(r.p, separator) THEN Items(Skip(r.p), r.e, NoEnd) ELSE r

(* MapParser::parse: keys with or without a value, separated by a comma    *)
(* or, where a closing token is awaited, by nothing.                       *)
NextPair(r, end) ==
    IF Peek(r.p, ",") THEN Pairs(Skip(r.p), r.e, end)
    ELSE IF end # NoEnd /\ ~Peek(r.p, end) THEN Pairs(r.p, r.e, end)
    ELSE Return(ExpectIf(r.p, end, end # NoEnd), r.e)

Pairs(p, found, end) ==
    LET pair(k, v) == Append(found, Node("pair", "", <<k, v>>)) IN
    IF found = <<>> /\ Peek(p, end) THEN Return(Skip(p), found)
    ELSE Then(Parse(p, 0), LAMBDA key :
         Then(IF Peek(key.p, "=>") THEN Parse(Skip(key.p), 0)
              ELSE Return(key.p, Empty), LAMBDA val :
         NextPair(Return(val.p, pair(key.e, val.e)), end)))

(* One turn of parse_all. *)
ParseNext(p) ==
    LET begin == [p EXCEPT !.nest = 0, !.acc = -1]
        save(r) == Return([r.p EXCEPT !.done = Append(@, r.e)], r.e)
    IN  Then(Parse(begin, 0), save).p

(* key_string: only names and literals may be parameters or members. *)
Named(pairs) == \A i \in DOMAIN pairs :
                   pairs[i].s[1].k \in {"identifier", "literal"}

(* UnitParser::parse after its opening brace. *)
RECURSIVE UnitItems(_, _)
UnitItems(p, found) ==
    IF Peek(p, "}") THEN Return(Skip(p), found)
    ELSE Then(Parse(p, 0), LAMBDA r : UnitItems(r.p, Append(found, r.e)))

Unit(p, kind) ==
    Then(UnitItems(p, <<>>), LAMBDA r : Return(r.p, Node(kind, "", r.e)))

(* parse_expr_block and parse_ctrl_block *)
Block(p, unwrap) ==
    Then(Parse(p, 0), LAMBDA first :
         IF IsUnit(first.e) \/ (unwrap /\ ~Peek(first.p, ",")) THEN first
         ELSE Then(MoreItems(Return(first.p, <<first.e>>), ","), LAMBDA all :
                   Return(all.p, Node("unit", "", all.e))))

(* The block after a token, if it is there; else nothing. *)
BlockIf(p, t, colon) ==
    IF Peek(p, t) THEN Block(ExpectIf(Skip(p), ":", colon), TRUE)
    ELSE Return(p, Empty)

(* A literal before ++ or -- ends its expression: the operator belongs to  *)
(* the next one. The text of an integer has to begin with a digit (stoull).*)
Literal(p, tok) ==
    LET q == IF Peek(p, "++") \/ Peek(p, "--")
             THEN [p EXCEPT !.q = <<EndOfExpression>> \o @] ELSE p
    IN  IF tok.type = "integer" /\ CharAt(tok.val, 1) \notin Digits
        THEN Return(Fail(p), Empty)
        ELSE Return(q, Node("literal", tok.val, <<>>))

Reserved == {"nil", "void", "newl"}
Identifier(p, tok) ==
    Return(p, Node(IF tok.val \in Reserved THEN "literal" ELSE "identifier",
                   tok.val, <<>>))

GlobalIdentifier(p) ==
    Then(Identifier(Expect(p, "identifier"), Ahead(p, 0)), LAMBDA name :
         Return(name.p, IF name.e.k = "literal" THEN name.e
                        ELSE Node("global", name.e.v, <<>>)))

(* contains_format: a pair of braces somewhere in the text. *)
ContainsFormat(text) ==
    \E i, j \in 1..Len(text) :
        i < j /\ CharAt(text, i) = "{" /\ CharAt(text, j) = "}"

FormatString(p, tok) ==
    IF ContainsFormat(tok.val)
    THEN Then(Items(Match(p, ","), <<>>, NoEnd), LAMBDA args :
              Return(args.p, Node("format", tok.val, args.e)))
    ELSE Return(Match(p, ","), Node("literal", tok.val, <<>>))

Group(p, closing) ==
    IF Peek(p, ")") \/ (closing = "]" /\ Peek(p, "]"))
    THEN Return(Skip(p), Empty)
    ELSE IF Peek(p, "identifier") /\ Ahead(p, 1).type = ")"
    THEN Return(Skip(Skip(p)), Node("type", Ahead(p, 0).val, <<>>))
    ELSE Then(Parse(p, 0), LAMBDA r : Return(Expect(r.p, closing), r.e))

List(p, t) ==
    LET keyword == t \in {"set", "list"}
        end == IF keyword THEN NoEnd ELSE IF t = "[" THEN "]" ELSE ")"
    IN  Then(Items(ExpectIf(p, ":", keyword), <<>>, end), LAMBDA r :
             Return(r.p, Node(IF t = "set" THEN "set" ELSE "list", "", r.e)))

Map(p, t) ==
    LET end == CASE t = "@(" -> ")" [] t = "@[" -> "]" [] t = "map" -> NoEnd
    IN  Then(Pairs(p, <<>>, end), LAMBDA r : Return(r.p, Node("map", "", r.e)))

Condition(p, lhs) ==
    Then(Block(p, TRUE), LAMBDA then :
    Then(BlockIf(then.p, ":", FALSE), LAMBDA else :
    Return(else.p, Node("if", "", <<lhs, then.e, else.e>>))))

(* The items after a colon, if there is one, belong to the call as well. *)
Call(p, lhs) ==
    Then(Items(p, <<>>, ")"), LAMBDA args :
    Then(MoreItems(args, ":"), LAMBDA all :
    Return(all.p, Node("call", "", <<lhs>> \o all.e))))

IfElse(p) ==
    Then(Parse(Match(p, ":"), 0), LAMBDA cond :
    Then(Block(cond.p, TRUE), LAMBDA then :
    Then(BlockIf(then.p, "else", TRUE), LAMBDA else :
    Return(else.p, Node("if", "", <<cond.e, then.e, else.e>>)))))

Loop(p, t) ==
    LET sizes == IF t = "for" THEN {2, 3} ELSE {1} IN
    Then(Items(Match(Expect(p, ":"), "("), <<>>, NoEnd), LAMBDA params :
    Then(Block(Match(params.p, ")"), FALSE), LAMBDA body :
    IF Len(params.e) \notin sizes THEN Return(Fail(p), Empty)
    ELSE Return(body.p, Node(t, "", Append(params.e, body.e)))))

RECURSIVE IsNamed(_)
IsNamed(e) == \/ e.k \in {"identifier", "global"}
              \/ e.k = "call" /\ IsNamed(e.s[1])

TryCatch(p) ==
    Then(Block(Expect(p, ":"), FALSE), LAMBDA try :
    Then(Parse(Expect(Expect(try.p, "catch"), ":"), 0), LAMBDA as :
    IF ~IsNamed(as.e) THEN Return(Fail(p), Empty)
    ELSE Then(Block(as.p, FALSE), LAMBDA catch :
    Return(catch.p, Node("try", "", <<try.e, as.e, catch.e>>)))))

(* A lambda `-> e` returns e; `-> e1, e2` returns nothing. *)
Lambda(p) ==
    Then(Parse(p, 0), LAMBDA first :
    LET only == <<Node("postfix", "!", <<first.e>>)>> IN
    Then(IF Peek(first.p, ",") THEN MoreItems(Return(first.p, <<first.e>>), ",")
         ELSE Return(first.p, only), LAMBDA all :
    Return(all.p, Node("unit", "", all.e))))

Parameters(p) ==
    LET open == Match(p, "(") IN
    IF Peek(open, ")") THEN Return(Skip(open), <<>>)
    ELSE Pairs(open, <<>>, IF Peek(p, "(") THEN ")" ELSE NoEnd)

Function(p, t) ==
    LET weaken(e) == IF t = "f" /\ e.k = "unit" THEN [e EXCEPT !.k = "weak"] ELSE e
    IN  Then(Parameters(Expect(p, ":")), LAMBDA args :
        IF ~Named(args.e) THEN Return(Fail(p), Empty)
        ELSE Then(IF Peek(args.p, "->") /\ Ahead(args.p, 1).type # "{"
                  THEN Lambda(Skip(args.p)) ELSE Block(args.p, FALSE), LAMBDA body :
             Return(body.p, Node("function", "", Append(args.e, weaken(body.e))))))

Names(p, found) ==
    LET name == Node("identifier", Ahead(p, 0).val, <<>>) IN
    Then(Return(Expect(p, "identifier"), Append(found, name)), LAMBDA r :
         IF Peek(r.p, ",") THEN Names(Skip(r.p), r.e) ELSE r)

(* Of two members of one name the first is kept. *)
Members(pairs) ==
    SelectSeq([i \in DOMAIN pairs |->
                 IF \E j \in 1..(i - 1) : pairs[j].s[1].v = pairs[i].s[1].v
                 THEN Empty ELSE pairs[i]], LAMBDA e : e # Empty)

(* base: Name *)
Base(p) ==
    LET name(q) == Return(Expect(q, "identifier"),
                          <<Node("identifier", Ahead(q, 0).val, <<>>)>>)
    IN  IF Peek(p, "base") THEN name(Expect(Skip(p), ":")) ELSE Return(p, <<>>)

Body(p) == IF Peek(p, "@(") THEN Pairs(Skip(p), <<>>, ")")
           ELSE Pairs(Expect(p, "{"), <<>>, "}")

ClassNamed(p, name) ==
    Then(Base(Expect(p, "identifier")), LAMBDA base :
    Then(IF Peek(base.p, "implements")
         THEN Names(Expect(Skip(base.p), ":"), base.e) ELSE base, LAMBDA supers :
    Then(Body(supers.p), LAMBDA body :
    IF ~Named(body.e) THEN Return(Fail(p), Empty)
    ELSE Return(body.p, Node("class", name, supers.e \o Members(body.e))))))

Class(p) == ClassNamed(Expect(p, ":"), Ahead(Match(p, ":"), 0).val)

Const(p, t) ==
    Then(IF t = "const" THEN Parse(Expect(p, ":"), 0)
         ELSE Parse(Match(p, ":"), HIGHEST), LAMBDA r :
         Return(r.p, Node("const", "", <<r.e>>)))

Word(p, t) ==
    Then(Parse(Expect(p, ":"), 0), LAMBDA first :
    IF t = "global" /\ Peek(first.p, ",")
    THEN Then(MoreItems(Return(first.p, <<first.e>>), ","), LAMBDA all :
              Return(all.p, Node("prefix", t, <<Node("list", "", all.e)>>)))
    ELSE Return(first.p, Node("prefix", t, <<first.e>>)))

Variable(p) ==
    LET q == Match(p, ":") IN
    Then(Identifier(Expect(q, "identifier"), Ahead(q, 0)), LAMBDA name :
         Return(name.p, Node("prefix", "var", <<name.e>>)))

PrefixOperator(p, t) ==
    Then(Parse(p, PrefixLevel(t)), LAMBDA r :
         Return(r.p, Node("prefix", t, <<r.e>>)))

(* parse_prefix: the parser registered for the token. *)
Prefix(p, tok) ==
    LET t == tok.type IN
    CASE t \in Literals -> Literal(p, tok)
      [] t = "identifier" -> Identifier(p, tok)
      [] t = "#" -> GlobalIdentifier(p)
      [] t = "format string" -> FormatString(p, tok)
      [] t \in {"const", "$"} -> Const(p, t)
      [] t = "(" -> Group(p, ")")
      [] t = "*[" -> Group(p, "]")
      [] t \in {"$(", "[", "set", "list"} -> List(p, t)
      [] t \in {"@(", "@[", "map"} -> Map(p, t)
      [] t = "{" -> Unit(p, "unit")
      [] t = "->" -> Unit(Expect(p, "{"), "weak")
      [] t = "box" -> Unit(Expect(Expect(p, ":"), "{"), "box")
      [] t = "if" -> IfElse(p)
      [] t \in {"while", "for"} -> Loop(p, t)
      [] t = "try" -> TryCatch(p)
      [] t \in {"fun", "f", "method"} -> Function(p, t)
      [] t \in {"class", "interface"} -> Class(p)
      [] t \in Words -> Word(p, t)
      [] t = "var" -> Variable(p)
      [] t \in PrefixOperators -> PrefixOperator(p, t)
      [] OTHER -> Return(Fail(p), Empty)
=============================================================================
