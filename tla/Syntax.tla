------------------------------- MODULE Syntax -------------------------------
(***************************************************************************)
(* From text to expressions: the lexer and the parser composed.            *)
(*                                                                         *)
(* A file is lexed to its end and then parsed, one root expression a step  *)
(* (Parser::load). The interactive mode lexes line after line into the     *)
(* same lexer and parses when no block is open (InteractiveRunner::        *)
(* load_line): whatever the lexer keeps between two lines is kept here.    *)
(* Running the parsed program is left to Session and Interpreter.          *)
(***************************************************************************)
EXTENDS Parser

CONSTANTS Files,      \* the texts a program may be loaded from
          Dialogues   \* the sequences of lines a user may type

ASSUME SyntaxAssumption ==
    /\ \A f \in Files : Len(f) > 0
    /\ \A d \in Dialogues : \A i \in DOMAIN d : Len(d[i]) > 0

VARIABLES mode,     \* "file" or "lines"
          text,     \* the lines given: a file is one of them
          next,     \* the line to lex next
          phase,    \* "lex", "parse", "idle" between lines, "done", "failed"
          lexer, parser,
          roots,    \* the root expressions parsed so far: the main unit
          errors    \* whether a line of the dialogue was refused

vars == <<mode, text, next, phase, lexer, parser, roots, errors>>

Init ==
    /\ \/ mode = "file" /\ text \in {<<f>> : f \in Files}
       \/ mode = "lines" /\ text \in Dialogues
    /\ next = 1
    /\ phase = "idle"
    /\ lexer = FreshLexer
    /\ parser = NewParser(<<>>)
    /\ roots = <<>>
    /\ errors = FALSE

(* lex(code): for a line, the interactive mode appends the newline and     *)
(* keeps the state of the lexer.                                           *)
StartLexing ==
    /\ phase = "idle" /\ next <= Len(text)
    /\ lexer' = IF mode = "file" THEN Load(lexer, text[next], FALSE)
                ELSE Load(lexer, text[next] \o NL, TRUE)
    /\ phase' = "lex"
    /\ next' = next + 1
    /\ UNCHANGED <<mode, text, parser, roots, errors>>

Scan(l) ==
    /\ lexer' = Advance(l)
    /\ phase' = IF l.out = "error" THEN "failed" ELSE phase
    /\ UNCHANGED <<mode, text, next, parser, roots, errors>>

Reading == phase = "lex" /\ lexer.out = "run" /\ HasNext(lexer)

BeginToken ==
    /\ Reading /\ lexer.type = NoToken
    /\ Scan(Begin(lexer, CharAt(lexer.src, lexer.pos)))

ContinueToken ==
    /\ Reading /\ lexer.type # NoToken
    /\ Scan(Consume(lexer, CharAt(lexer.src, lexer.pos)))

(* The end of the text: the last token is pushed, and the parser begins.   *)
(* A dialogue waits for the next line while a block is open or the line    *)
(* ended with a semicolon or a space.                                      *)
EndOfText ==
    /\ phase = "lex" /\ lexer.out = "run" /\ ~HasNext(lexer)
    /\ LET l == Push(lexer)
           last == CharAt(lexer.src, Len(lexer.src) - 1)
           ready == mode = "file" \/ ~(l.open > 0 \/ last \in Blanks \cup {";"})
       IN  /\ lexer' = l
           /\ parser' = IF ready THEN NewParser(l.toks) ELSE parser
           /\ phase' = IF l.out = "error" \/ (mode = "file" /\ l.open > 0)
                       THEN "failed"
                       ELSE IF ready THEN "parse" ELSE "idle"
    /\ UNCHANGED <<mode, text, next, roots, errors>>

(* What follows a parse: a dialogue empties the lexer's queue, whether or  *)
(* not the line was accepted.                                              *)
Finished(accepted) ==
    /\ lexer' = IF mode = "file" THEN lexer
                ELSE [lexer EXCEPT !.line = 1, !.toks = <<>>, !.open = 0]
    /\ phase' = IF mode = "lines" THEN "idle"
                ELSE IF accepted THEN "done" ELSE "failed"
    /\ errors' = (errors \/ ~accepted)

(* One turn of parse_all; an exception drops what the turns before it read.*)
ParseRoot ==
    LET p == ParseNext(parser) IN
    /\ phase = "parse" /\ Ahead(parser, 0).type # EOF.type
    /\ parser' = IF p.bad THEN NewParser(<<>>) ELSE p
    /\ IF p.bad THEN Finished(FALSE) ELSE UNCHANGED <<lexer, phase, errors>>
    /\ UNCHANGED <<mode, text, next, roots>>

(* The parsed expressions become part of the main unit. *)
EndOfProgram ==
    /\ phase = "parse" /\ Ahead(parser, 0).type = EOF.type
    /\ Finished(TRUE)
    /\ roots' = roots \o parser.done
    /\ parser' = NewParser(<<>>)
    /\ UNCHANGED <<mode, text, next>>

EndOfDialogue ==
    /\ phase = "idle" /\ next > Len(text)
    /\ phase' = "done"
    /\ UNCHANGED <<mode, text, next, lexer, parser, roots, errors>>

(* Everything is read, or an exception ends the program, or the lexer is   *)
(* caught inside a block comment.                                          *)
Stopped ==
    /\ phase \in {"done", "failed"} \/ lexer.out = "hang"
    /\ UNCHANGED vars

Next == \/ StartLexing \/ BeginToken \/ ContinueToken \/ EndOfText
        \/ ParseRoot \/ EndOfProgram \/ EndOfDialogue \/ Stopped

Spec == Init /\ [][Next]_vars
=============================================================================
