------------------------------- MODULE Lexer -------------------------------
(***************************************************************************)
(* The lexer: one character a step, with the tokens it has finished.       *)
(*                                                                         *)
(* A lexer is a record with the fields of the class Lexer:                 *)
(*   src, pos    the text and cur_chr (Len(src) + 1 is input_end)          *)
(*   type, str   toktype and tokstr, the token that is being read          *)
(*   lit         cur_int_literal                                           *)
(*   line, sep   the line counter and cur_sep, the separator seen before   *)
(*               the next token                                            *)
(*   open        open_blocks                                               *)
(*   quoted      token_literal: the next token is a `token` literal        *)
(*   toks        the queue of finished tokens                              *)
(*   at          where the token being read begins (the code keeps the     *)
(*               column instead, which only its messages use)              *)
(*   out         "run", or "error" after an exception, or "hang" inside a  *)
(*               block comment that nothing closes                         *)
(* Text is a string taken apart with SubSeq; characters are strings of     *)
(* length one. Columns and debug output are left out.                      *)
(***************************************************************************)
EXTENDS Naturals, Sequences, FiniteSetsExt, SequencesExt

NL == "\n"
NUL == ""        \* what the end of a std::string reads as
BACKQUOTE == "\f"  \* stands for the back quote, which no TLA+ string can hold

CharAt(s, i) == IF i \in 1..Len(s) THEN SubSeq(s, i, i) ELSE NUL

Chars(s) == {CharAt(s, i) : i \in 1..Len(s)}

Position(c, s) == CHOOSE i \in 1..Len(s) : CharAt(s, i) = c

Digits == Chars("0123456789")
Letters == Chars("abcdefghijklmnopqrstuvwxyzABCDEFGHIJKLMNOPQRSTUVWXYZ")
Blanks == {" ", "\t", NL}
EscapeLetters == Chars("abfrnvt0")

(* The grammar of tokens registered by Methan0lLexer. *)
Punctuators == Chars("()[]{}:;,\"'=+-/*\\^!?~><|&%#@$.") \cup {BACKQUOTE}

MultiChar ==
    {"<<", ">>", "->", "<-", "$(", "@(", "==", "%%", "::", "/*", "*/", ">=",
     "<=", "++", "--", ":=", "=>", "!=", "+=", "-=", "*=", "/=", "&&", "||",
     "^^", "%>", "<%", "*[", "$$", "-->", "^=", "|=", "&=", "<<=", ">>=",
     "%=", "//", "..", "@["}

SoftWords ==
    {"if", "else", "typeid", "delete", "return", "copy", "hash_code",
     "typename", "noeval", "set", "using_module", "new", "global", "assert",
     "is", "unwrap", "is_reference", "method", "f", "var", "import", "base",
     "require", "interface", "const", "to", "implements", "identity", "do",
     "for", "while", "fun", "class", "try", "catch", "box", "list", "map"}

BlockBegins == {"(", "[", "{", "@(", "@[", "$(", "*["}
BlockEnds == {")", "]", "}"}

NoToken == ".none"
StringTypes == {"string", "format string", "char"}
NumberTypes == {"integer", "float"}

(* The types a token may have.                                              *)
TokenTypes == (Punctuators \ {"\"", "'", ";", BACKQUOTE}) \cup MultiChar
              \cup SoftWords \cup StringTypes \cup NumberTypes
              \cup {"identifier", "token"}

IsPunctuator(c) == c \in Punctuators
IsSeparator(c) == c \in Blanks \/ IsPunctuator(c)
IsAlnum(c) == c \in Letters \cup Digits

(* next_char: the characters stepped over by n > 1 are punctuators. *)
NextChar(l, n) ==
    LET p == l.pos + n IN
    IF l.pos > Len(l.src) THEN l
    ELSE IF CharAt(l.src, p) = NL
         THEN [l EXCEPT !.pos = p, !.sep = "NEWLINE", !.line = @ + 1]
         ELSE [l EXCEPT !.pos = p]

DeduceSeparatorLast(l, c) ==
    IF c \in {NL, ";"} THEN [l EXCEPT !.sep = "NEWLINE"]
    ELSE IF c \in Blanks THEN [l EXCEPT !.sep = "SPACE"] ELSE l

DeduceSeparator(l, c) ==
    IF c \in {NL, ";"} THEN [l EXCEPT !.sep = "NEWLINE"]
    ELSE IF l.sep # "NEWLINE" /\ c \in Blanks THEN [l EXCEPT !.sep = "SPACE"]
    ELSE l

(* finalize_token and the push onto the queue. *)
Emit(l, type, val, from) ==
    LET tok == [type |-> IF l.quoted THEN "token" ELSE type, val |-> val,
                line |-> IF l.sep = "NEWLINE" THEN l.line - 1 ELSE l.line,
                sep |-> l.sep, at |-> from]
        done == [l EXCEPT !.toks = Append(@, tok), !.sep = "NONE",
                          !.quoted = FALSE]
    IN  IF l.quoted THEN NextChar(done, 1) ELSE done

Clear(l) == [l EXCEPT !.type = NoToken, !.str = ""]

NextCharacterIs(l, c) == CharAt(l.src, l.pos) = c

(* match_next_punctuator: nothing but a punctuator ends the search. *)
NextPunctuatorIs(l, c) ==
    \E i \in l.pos..Len(l.src) :
        /\ CharAt(l.src, i) = c
        /\ \A j \in l.pos..(i - 1) : ~IsPunctuator(CharAt(l.src, j))

WordType(l) ==
    IF l.str \in SoftWords /\ NextPunctuatorIs(l, ":") THEN l.str
    ELSE "identifier"

(* The number a hexadecimal or a binary literal stands for. Reading a      *)
(* hexadecimal one stops at the first character that is none; a binary one *)
(* takes every character for a digit, by its distance from '0'.            *)
HexDigits == "0123456789abcdef"
HexValue(s) ==
    LET n == CHOOSE k \in 0..Len(s) :
                /\ \A i \in 1..k : CharAt(s, i) \in Chars(HexDigits)
                /\ k < Len(s) => CharAt(s, k + 1) \notin Chars(HexDigits)
        v[i \in 0..n] == IF i = 0 THEN 0
                         ELSE 16 * v[i - 1] + Position(CharAt(s, i), HexDigits) - 1
    IN  v[n]

FromZero(c) == IF c \in Digits THEN Position(c, "0123456789") - 1
               ELSE 48 + Position(c, "abcdefghijklmnopqrstuvwxyz")
BinValue(s) ==
    LET v[i \in 0..Len(s)] == IF i = 0 THEN 0
                              ELSE 2 * v[i - 1] + FromZero(CharAt(s, i))
    IN  v[Len(s)]

(* strip_quotes on a character literal: it fails on the quote alone. *)
StripQuotes(s) == SubSeq(s, 2, Len(s) - 1)

(* push(): the token that is being read is finished. A token without text  *)
(* is not cleared either.                                                  *)
Push(l) ==
    LET emit(type, val) == Clear(Emit(l, type, val, l.at)) IN
    IF l.str = "" THEN l
    ELSE IF l.type \in BlockBegins
         THEN [emit(l.type, l.str) EXCEPT !.open = @ + 1]
    ELSE IF l.type = "identifier" THEN emit(WordType(l), l.str)
    ELSE IF l.type = "char"
         THEN IF Len(l.str) = 1 THEN [l EXCEPT !.out = "error"]
              ELSE emit("char", StripQuotes(l.str))
    ELSE IF l.type = "integer" /\ l.lit = "HEX"
         THEN emit("integer", ToString(HexValue(l.str)))
    ELSE IF l.type = "integer" /\ l.lit = "BIN"
         THEN emit("integer", ToString(BinValue(l.str)))
    ELSE emit(l.type, l.str)

(* push(char): a punctuator that is a token by itself. *)
PushChar(l, c) ==
    IF c = ";" THEN l
    ELSE [Emit(l, c, "", l.pos) EXCEPT
            !.open = IF c \in BlockBegins THEN @ + 1
                     ELSE IF c \in BlockEnds THEN @ - 1 ELSE @]

(* The longest multi-character operator that begins at cur_chr. *)
OperatorLengths(l) ==
    {n \in 2..3 : /\ \A k \in 1..(n - 1) : IsPunctuator(CharAt(l.src, l.pos + k))
                  /\ SubSeq(l.src, l.pos, l.pos + n - 1) \in MultiChar
                  /\ l.pos + n - 1 <= Len(l.src)}

SkipCommentLate(l) ==
    LET ends == {i \in (l.pos + 3)..(Len(l.src) - 1) :
                    SubSeq(l.src, i, i + 1) = "*/"}
    IN  IF ends = {} THEN [l EXCEPT !.out = "hang"]
        ELSE Clear([l EXCEPT !.pos = Min(ends) + 1])

(* A block comment is skipped up to its last character. Without an end the *)
(* loop stays at the end of the text for ever.                             *)
SkipComment(l) ==
    LET ends == {i \in (l.pos + 1)..(Len(l.src) - 1) :
                    SubSeq(l.src, i, i + 1) = "*/"}
        newlines == {i \in l.pos..(Min(ends) + 1) : CharAt(l.src, i) = NL}
    IN  IF ends = {} THEN [l EXCEPT !.out = "hang"]
        ELSE Clear([l EXCEPT !.pos = Min(ends) + 1,
                             !.line = @ + Cardinality(newlines),
                             !.sep = IF newlines = {} THEN @ ELSE "NEWLINE"])

SaveOperator(l, n) ==
    LET op == SubSeq(l.src, l.pos, l.pos + n - 1) IN
    IF op = "/*" THEN SkipComment(l)
    ELSE Push(NextChar([l EXCEPT !.str = op, !.type = op, !.at = l.pos], n - 1))

(* begin: what the first character of a token says of its type. *)
Begin(l0, c) ==
    LET l == [l0 EXCEPT !.lit = "NONE", !.at = l0.pos]
        start(type) == [l EXCEPT !.type = type, !.str = @ \o c]
    IN  IF c = "$" /\ CharAt(l.src, l.pos + 1) = "\""
        THEN [NextChar(l, 1) EXCEPT !.type = "format string", !.str = @ \o "\""]
        ELSE IF c = "\"" THEN start("string")
        ELSE IF c = "'" THEN start("char")
        ELSE IF c = BACKQUOTE THEN [l EXCEPT !.quoted = TRUE]
        ELSE IF IsPunctuator(c)
             THEN IF OperatorLengths(l) # {}
                  THEN SaveOperator(l, Max(OperatorLengths(l)))
                  ELSE Clear(PushChar(l, c))
        ELSE IF c \in Digits THEN start("integer")
        ELSE IF c \in Letters \cup {"_"} THEN start("identifier")
        ELSE l

(* What a character of a string or character literal adds to its text, and *)
(* whether it ends the literal.                                            *)
StringChar(l, c) ==
    LET prev == CharAt(l.src, l.pos - 1)
        escape == /\ prev = "\\" /\ CharAt(l.src, l.pos - 2) # "\\"
                  /\ c \in Letters
        quote == IF l.type = "char" THEN "'" ELSE "\""
        saved == IF c = "\\" /\ prev # "\\" THEN l
                 ELSE IF escape THEN [l EXCEPT !.str = @ \o "~" \o c]
                 ELSE [l EXCEPT !.str = @ \o c]
    IN  IF escape /\ c \notin EscapeLetters THEN [l EXCEPT !.out = "error"]
        ELSE IF c = quote /\ prev # "\\" THEN Push(saved)
        ELSE saved

(* The part of consume below the integer literal's kind. *)
ConsumeRest(l, c) ==
    IF l.type \in NumberTypes /\ IsSeparator(c) THEN Begin(Push(l), c)
    ELSE IF l.type \in StringTypes THEN StringChar(l, c)
    ELSE IF c \in Blanks THEN Push(l)
    ELSE IF IsPunctuator(c)
         THEN Begin(DeduceSeparator(Push(l), CharAt(l.src, l.pos - 1)), c)
    ELSE IF IsAlnum(c) \/ c = "_" THEN [l EXCEPT !.str = @ \o c]
    ELSE l

(* The second character of an integer says how it is written. *)
IntegerKind(l, c) ==
    IF c \notin Letters \/ CharAt(l.src, l.pos - 1) # "0"
    THEN LET dec == [l EXCEPT !.lit = "DEC"] IN
         IF c \in Digits THEN [dec EXCEPT !.str = @ \o c]
         ELSE ConsumeRest(dec, c)
    ELSE IF c \in {"x", "X"} THEN [l EXCEPT !.str = "", !.lit = "HEX"]
    ELSE IF c \in {"b", "B"} THEN [l EXCEPT !.str = "", !.lit = "BIN"]
    ELSE [l EXCEPT !.out = "error"]

(* consume: one more character of the token that has begun. *)
Consume(l, c) ==
    IF c = "_" /\ l.type \in NumberTypes THEN l
    ELSE IF l.type = "integer" /\ c = "."
         THEN IF CharAt(l.src, l.pos + 1) \in Digits
              THEN [l EXCEPT !.type = "float", !.str = @ \o c]
              ELSE Begin(Push(l), c)
    ELSE IF l.type = "integer" /\ l.lit = "NONE" THEN IntegerKind(l, c)
    ELSE ConsumeRest(l, c)

(* What consume_and_deduce does after begin or consume. *)
Advance(l) ==
    IF l.out # "run" THEN l
    ELSE NextChar(DeduceSeparator(l, CharAt(l.src, l.pos)), 1)

LoadClearsSeparator(l, code, preserve) ==
    [(IF preserve THEN l ELSE [l EXCEPT !.line = 1, !.toks = <<>>, !.open = 0])
     EXCEPT !.src = code, !.pos = 1, !.sep = "NONE"]

(* lex(code, preserve_state) before its loop; l is the lexer it begins     *)
(* with. Only a lexer that does not preserve its state is emptied.         *)
FreshLexer ==
    [src |-> "", pos |-> 1, type |-> NoToken, str |-> "", lit |-> "NONE",
     line |-> 1, sep |-> "NONE", open |-> 0, quoted |-> FALSE, toks |-> <<>>,
     at |-> 1, out |-> "run"]

Load(l, code, preserve) ==
    LET kept == IF preserve THEN l
                ELSE [l EXCEPT !.line = 1, !.toks = <<>>, !.open = 0]
        ready == [kept EXCEPT !.src = code, !.pos = 1]
    IN  IF CharAt(code, 1) = NL
        THEN [ready EXCEPT !.sep = "NEWLINE", !.line = @ + 1] ELSE ready

HasNext(l) == l.pos <= Len(l.src)

(* The tokens of a whole text at once, and of a text read line by line as  *)
(* the interactive mode does: it appends a newline to every line.          *)
RECURSIVE Run(_)
Run(l) ==
    IF l.out # "run" THEN l
    ELSE IF ~HasNext(l) THEN Push(l)
    ELSE LET c == CharAt(l.src, l.pos) IN
         Run(Advance(IF l.type = NoToken THEN Begin(l, c) ELSE Consume(l, c)))

LexLines(lines) == FoldLeft(LAMBDA l, s : Run(Load(l, s \o NL, TRUE)),
                            FreshLexer, lines)
=============================================================================
