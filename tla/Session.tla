------------------------------- MODULE Session -------------------------------
(***************************************************************************)
(* The interactive mode: lines typed at a prompt are commands, or code     *)
(* that is lexed line by line, parsed when no block is open and run.  The  *)
(* lexer, the parser and the interpreter's main unit outlive every line,   *)
(* and so does whatever a failed one leaves in them.                       *)
(*                                                                         *)
(* Inputs are numbered; a program is the sequence of the inputs it was     *)
(* made of.  What a program does when it is run is its outcome.            *)
(***************************************************************************)
EXTENDS Integers, Sequences, SequencesExt

CONSTANTS
  LineKinds,     \* kinds of code lines the user types
  CommandLines,  \* command lines, as sequences of words
  CasModes,      \* whether the session starts with --cas
  MaxInputs      \* bound: lines typed

Known == {"/cas", "/cas-reset", "/load", "/run"}
Kinds == {"blank", "expr", "semi", "stmts", "open", "close", "bad", "unlexable"}
Files == {"good", "empty", "missing", "syntax", "open", "unlexable"}
Outcomes == {"value", "none", "error", "escape", "stop"}

ASSUME SessionAssumption ==
  /\ LineKinds \subseteq Kinds
  /\ \A w \in CommandLines :
       w # <<>> /\ (w[1] \in {"/load", "/run"} /\ Len(w) > 1 => w[2] \in Files)
  /\ CasModes \subseteq BOOLEAN
  /\ MaxInputs \in Nat

VARIABLES
  n,       \* inputs so far
  source,  \* what lexer and parser hold
  main,    \* the interpreter's main unit and the frame on top of its stack
  ready,   \* the prompt is that of a new program
  words,   \* arg_queue
  cas,     \* cas_mode
  saved,   \* size of prev_results
  phase    \* "prompt", or how start() ended

vars == <<n, source, main, ready, words, cas, saved, phase>>

\* read: files that could not be lexed and whose tokens wait; ids: lines whose
\* tokens wait behind them; depth: open_blocks; size: expressions completed,
\* 2 for more; eof: an EOF token precedes whatever is lexed next.
NoSource == [read |-> <<>>, ids |-> <<>>, depth |-> 0, size |-> 0, bad |-> FALSE,
             eof |-> FALSE]

\* wraps: how often the only expression was made a return, 2 for more; ret:
\* the return value in the global table; defined: programs that were run
\* over that table; top: main is on top, or a callee abandoned by an error,
\* or one that was freed.
NoMain == [ids |-> <<>>, size |-> 0, wraps |-> 0, ret |-> "no", kept |-> FALSE,
           defined |-> {}, top |-> "main"]

Init ==
  /\ n = 0 /\ source = NoSource /\ main = NoMain
  /\ ready = TRUE /\ words = <<>>
  /\ cas \in CasModes
  /\ saved = 0 /\ phase = "prompt"

(***************************************************************************)
(* Lexing, parsing and loading.                                            *)
(***************************************************************************)
UpTo2(k) == IF k > 2 THEN 2 ELSE k
Opens(kind) == CASE kind = "open" -> 1 [] kind = "close" -> -1 [] OTHER -> 0
Counts(kind) == CASE kind = "blank" -> 0 [] kind = "stmts" -> 2 [] OTHER -> 1

\* Interpreter::lex: the tokens join those that wait.
Lex(s, kind) ==
  LET depth == s.depth + Opens(kind)
  IN  [s EXCEPT !.ids = Append(@, n + 1),
                !.depth = depth,
                !.size = IF depth = 0 THEN UpTo2(@ + Counts(kind)) ELSE @,
                !.bad = @ \/ kind = "bad" \/ depth < 0]

Complete(s, kind) == s.depth <= 0 /\ kind # "semi"

\* Interpreter::load(Unit): the table is that of the unit before only if
\* that was made persistent; the execution stack starts over.
Load(m, ids, size) ==
  [m EXCEPT !.ids = ids, !.size = size, !.wraps = 0, !.top = "main",
            !.ret = IF m.kept THEN @ ELSE "no",
            !.defined = IF m.kept THEN @ ELSE {}]

\* Mutants: only a program that was accepted is cleared; the lexer is not reset.
CleanedOnSuccess(s) == IF s.bad \/ s.eof THEN s ELSE NoSource
CleanedParserOnly(s) == [s EXCEPT !.bad = FALSE, !.eof = FALSE]

\* parser.clear(), lexer.reset(true)
Cleaned(s) == NoSource

\* InteractiveRunner::parse: load() may fail and leave the program there was;
\* in CAS mode whichever program it is, is wrapped.
Parse(s) ==
  LET m == [(IF s.bad \/ s.eof THEN main ELSE Load(main, s.read \o s.ids, s.size))
              EXCEPT !.kept = TRUE]
  IN  [m EXCEPT !.wraps = IF cas /\ m.size = 1 THEN UpTo2(@ + 1) ELSE @,
                !.ret = "no"]

(***************************************************************************)
(* Interpreter::run on the current unit.  A unit that has a return value   *)
(* begins as finished and is not evaluated.                                *)
(***************************************************************************)
Runs(m) == m.size > 0 /\ (m.top # "main" \/ m.ret = "no")

CanEnd(m, o) ==
  IF Runs(m)
  THEN m.top = "main" /\ m.wraps = 2 => o # "value"
  ELSE o = IF m.size > 0 /\ m.ret = "value" THEN "value" ELSE "none"

\* The main unit afterwards.  run() over a callee's frame pops one of the
\* two entries it then has and frees the copy.
After(m, o) ==
  IF ~Runs(m) THEN {m}
  ELSE LET d == [m EXCEPT !.defined = IF m.top = "main" THEN @ \cup ToSet(m.ids) ELSE @]
       IN  CASE o \in {"error", "escape"} ->
                  {d, [d EXCEPT !.top = "callee"]}
             [] m.top = "callee" -> {[d EXCEPT !.top = "freed"]}
             [] o = "value" -> {[d EXCEPT !.ret = "value"]}
             [] OTHER -> {[d EXCEPT !.ret = "empty"]} \cup (IF d.wraps > 0 THEN {} ELSE {d})

\* An uncaught error makes Interpreter::run return -1, a result like others.
SavedAfter(o) == IF cas /\ o \in {"value", "error"} THEN saved + 1 ELSE saved

\* InteractiveRunner::run.
RunMain(m) ==
  IF m.size > 0 /\ m.top = "freed"
  THEN phase' = "undefined" /\ main' = m /\ UNCHANGED saved
  ELSE \E o \in Outcomes :
         /\ CanEnd(m, o)
         /\ main' \in After(m, o)
         /\ saved' = SavedAfter(o)
         /\ phase' = CASE o = "escape" -> "escaped" [] o = "stop" -> "over"
                       [] OTHER -> "prompt"

Typing == phase = "prompt" /\ n < MaxInputs /\ n' = n + 1

(***************************************************************************)
(* Lines of code.                                                          *)
(***************************************************************************)

\* <Enter>: nothing while a program is incomplete, else the program again.
Enter ==
  /\ Typing
  /\ IF ready
     THEN RunMain(main)
     ELSE UNCHANGED <<main, saved, phase>>
  /\ UNCHANGED <<source, ready, words, cas>>

\* load_line and run.
CodeLine(kind) ==
  LET s == Lex(source, kind)
  IN  /\ ready' = Complete(s, kind)
      /\ IF ready'
         THEN /\ source' = Cleaned(s)
              /\ RunMain(Parse(s))
         ELSE /\ source' = s
              /\ UNCHANGED <<main, saved, phase>>

Code(kind) ==
  /\ Typing
  /\ kind # "unlexable"
  /\ CodeLine(kind)
  /\ UNCHANGED <<words, cas>>

\* What the lexer throws leaves start().
Unlexable ==
  /\ Typing
  /\ "unlexable" \in LineKinds
  /\ phase' = "escaped"
  /\ UNCHANGED <<source, main, ready, words, cas, saved>>

(***************************************************************************)
(* Commands.  The words of the line join arg_queue and the first one there *)
(* is the command; the queue is emptied after a command that is known.     *)
(***************************************************************************)
Name(w) == Head(words \o w)
Arguments(w) == Tail(words \o w)

\* The line is not a command after all: code, which a leading slash spoils.
NotACommand(w) ==
  /\ Typing
  /\ Name(w) \notin Known
  /\ words' = Arguments(w)
  /\ CodeLine("bad")
  /\ UNCHANGED cas

ToggleCas(w) ==
  /\ Typing /\ Name(w) = "/cas"
  /\ cas' = ~cas
  /\ saved' = IF cas THEN 0 ELSE saved
  /\ words' = <<>>
  /\ UNCHANGED <<source, main, ready, phase>>

ResetCas(w) ==
  /\ Typing /\ Name(w) = "/cas-reset"
  /\ saved' = 0
  /\ words' = <<>>
  /\ UNCHANGED <<source, main, ready, cas, phase>>

\* "Too few arguments supplied."
TooFewArguments(w) ==
  /\ Typing /\ Name(w) \in {"/load", "/run"} /\ Arguments(w) = <<>>
  /\ words' = <<>>
  /\ UNCHANGED <<source, main, ready, cas, saved, phase>>

\* A load of a file fails for what an earlier failure left in the parser, too.
MayLoad(f) == f \in {"good", "empty"} /\ ~source.eof
MayFail(f) == f \notin {"good", "empty"} \/ source.eof \/ source.read # <<>>

\* What the parser has read ahead survives the lexer's reset.
ReadAhead == {SubSeq(source.read, 1, k) : k \in 0..Len(source.read)}

\* What a file leaves that was read past its end, and one that the lexer
\* gave up.
Abandoned(depth) == [NoSource EXCEPT !.depth = depth, !.eof = TRUE]
Unlexed(r, depth, bad) ==
  [NoSource EXCEPT !.read = Append(r, n + 1), !.depth = depth, !.size = 1 - depth,
                   !.bad = bad, !.eof = source.eof]

\* load_unit: the file's tokens replace what is lexed but not what the parser
\* has read ahead; nothing is cleared after a failure, and the error report
\* reads ahead, past the end unless the file was cut short far from it.
AfterFailure(f) ==
  CASE f = "missing" -> {source}
    [] f = "open" -> {Abandoned(1)}
    [] f = "unlexable" ->
         {Abandoned(d) : d \in {0, 1}} \cup
         {Unlexed(r, d, b) : r \in ReadAhead, d \in {0, 1}, b \in BOOLEAN}
    [] OTHER -> {Abandoned(0)}

\* load_program with its outcome, whether a program was loaded: a file is a
\* script of several expressions, or an empty one, which counts as a failure
\* and is an empty program like any other.
LoadProgram(f, loaded, m) ==
  \/ /\ MayLoad(f) /\ source' = NoSource
     /\ \E r \in ReadAhead :
          IF f = "empty" /\ r = <<>>
          THEN ~loaded /\ m = Load(main, <<>>, 0)
          ELSE loaded /\ m = Load(main, Append(r, n + 1), 2)
  \/ /\ MayFail(f) /\ source' \in AfterFailure(f)
     /\ ~loaded /\ m = Load(main, <<>>, 0)

\* Every program LoadProgram may leave.
Loadable ==
  {Load(main, <<>>, 0)} \cup {Load(main, Append(r, n + 1), 2) : r \in ReadAhead}

LoadCommand(w) ==
  /\ Typing /\ Name(w) = "/load" /\ Arguments(w) # <<>>
  /\ \E m \in Loadable, loaded \in BOOLEAN :
       /\ LoadProgram(Head(Arguments(w)), loaded, m)
       /\ main' = m
  /\ words' = <<>>
  /\ UNCHANGED <<ready, cas, saved, phase>>

\* Runner::run_file: what it returns is not saved, what it throws is caught.
RunCommand(w) ==
  /\ Typing /\ Name(w) = "/run" /\ Arguments(w) # <<>>
  /\ \E m \in Loadable, loaded \in BOOLEAN :
       /\ LoadProgram(Head(Arguments(w)), loaded, m)
       /\ IF loaded
          THEN \E o \in Outcomes :
                 /\ CanEnd(m, o)
                 /\ main' \in After(m, o)
                 /\ phase' = IF o = "stop" THEN "over" ELSE phase
          ELSE main' = m /\ UNCHANGED phase
  /\ words' = <<>>
  /\ UNCHANGED <<ready, cas, saved>>

Command(w) ==
  \/ NotACommand(w) \/ ToggleCas(w) \/ ResetCas(w)
  \/ TooFewArguments(w) \/ LoadCommand(w) \/ RunCommand(w)

\* start() returned or was left, or the bound on inputs is reached.
Idle == (phase # "prompt" \/ n = MaxInputs) /\ UNCHANGED vars

Next ==
  \/ Enter \/ Unlexable
  \/ \E kind \in LineKinds : Code(kind)
  \/ \E w \in CommandLines : Command(w)
  \/ Idle

Spec == Init /\ [][Next]_vars

-----------------------------------------------------------------------------
\* The prompt of a new program is shown only when no line typed waits in the
\* lexer, to become part of another program.
ReadyIsClean == ready => source.ids = <<>>

\* Lines are run in the order typed and each belongs to one program at most,
\* whatever was rejected, loaded or left behind in between: a program that
\* replaces another is made of inputs later than those of any program before.
LinesOnceInOrder ==
  [][main'.ids # main.ids /\ main'.ids # <<>> =>
       /\ \A i \in DOMAIN main'.ids, j \in 1..n :
            j \in main.defined \cup ToSet(main.ids) => j < main'.ids[i]
       /\ \A i, j \in DOMAIN main'.ids : i < j => main'.ids[i] < main'.ids[j]]_vars
=============================================================================
