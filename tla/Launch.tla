------------------------------- MODULE Launch -------------------------------
(***************************************************************************)
(* A run of the interpreter from the command line: the options, the heap   *)
(* and the libraries of a new interpreter, the script with its directory   *)
(* and arguments, the program it is (which allocates, works with files or  *)
(* imports modules) and the exit value.                                    *)
(***************************************************************************)
EXTENDS Heap, Modules

CONSTANTS
  CommandLines,  \* arguments: [flag |-> ...] or [word |-> path]
  StartDir,      \* the directory the interpreter is launched in
  Programs,      \* place of a script -> what it does; {}: no program in it
  Libraries,     \* places of the libraries of the interpreter
  Broken,        \* libraries that throw while they are loaded
  Builtins,      \* functions of the Builtins library
  InitialMem, Capacity,  \* heap_initial_capacity, heap_max_capacity by default
  ExitValues     \* bound: integers a program returns

ASSUME LaunchAssumption == Capacity \in Limits /\ InitialMem <= Capacity
ASSUME CommandAssumption == CommandLines \subseteq Seq([flag : STRING] \cup [word : PathSet])
ASSUME TreeAssumption ==
  /\ StartDir \in Seq(STRING)
  /\ DOMAIN Programs \subseteq PlaceSet
  /\ IsFiniteSet(DOMAIN Programs) /\ IsFiniteSet(DOMAIN Defines)

VARIABLES
  argv,        \* the arguments after the name of the interpreter
  parsed,      \* options parsed
  config,      \* Methan0lConfig and the flags of the command line
  phase,       \* how far the launch is
  unloaded,    \* libraries still to load
  stray,       \* a library's scope was entered and never left
  launchArgs,  \* LAUNCH_ARGS
  code         \* exit value

launchVars == <<argv, parsed, config, phase, unloaded, stray, launchArgs, code>>
allVars == <<vars, fileVars, moduleVars, launchVars>>

LaunchInit ==
  /\ argv \in CommandLines
  /\ parsed = 0
  /\ config = [initial |-> InitialMem, max |-> Capacity, noExit |-> FALSE, cas |-> FALSE]
  /\ phase = "options"
  /\ unloaded = Libraries /\ stray = FALSE
  /\ launchArgs = <<>> /\ code = 0
  /\ Init /\ maxMem = Capacity
  /\ cwd = StartDir /\ scrdir = <<>>
  /\ FilesInit(DOMAIN Programs \cup DOMAIN Defines)
  /\ inbuilt = NoNames /\ table = NoNames
  /\ callee = {} /\ unit = {}

-----------------------------------------------------------------------------
(* Command line                                                            *)

IsFlag(a) == "flag" \in DOMAIN a
AtFlag == parsed < Len(argv) /\ IsFlag(argv[parsed + 1])

\* An option with a value is compared as a whole, then must be followed by
\* '=' where it ends: none is ever recognised, like one that does not exist.
Configured(flag) ==
  CASE flag = "--no-exit" -> [config EXCEPT !.noExit = TRUE]
    [] flag = "--cas" -> [config EXCEPT !.cas = TRUE]
    [] flag = "--allocate-fully" -> [config EXCEPT !.initial = config.max]
    [] OTHER -> config

\* parse_args, one argument.
ParseOption ==
  /\ phase = "options" /\ AtFlag
  /\ IF argv[parsed + 1].flag = "--version"
     THEN phase' = "ended" /\ UNCHANGED <<parsed, config>>
     ELSE /\ config' = Configured(argv[parsed + 1].flag)
          /\ parsed' = parsed + 1
          /\ UNCHANGED phase
  /\ UNCHANGED <<vars, fileVars, moduleVars, argv, unloaded, stray, launchArgs, code>>

\* Methan0l::make: the heap with its limit and the inbuilt functions.
MakeInterpreter ==
  /\ phase = "options" /\ ~AtFlag
  /\ maxMem' = config.max
  /\ inbuilt' = Bound(Builtins, Program)
  /\ phase' = "libraries"
  /\ UNCHANGED <<inUse, size, lost, fileVars, table, callee, unit,
                 argv, parsed, config, unloaded, stray, launchArgs, code>>

\* load_libraries takes them in the order of the directory.  One that throws is
\* reported and skipped; a script that throws leaves its unit, which is gone,
\* on the stack, and functions are registered there from then on.  What a
\* script defines is cleared before it is imported.
LoadLibrary(l) ==
  /\ phase = "libraries" /\ l \in unloaded
  /\ unloaded' = unloaded \ {l}
  /\ stray' = (stray \/ (l \in Broken /\ Script(l)))
  /\ inbuilt' = IF stray \/ l \in Broken \/ Script(l) THEN inbuilt
                ELSE Bind(inbuilt, Defines[l].fun, l)
  /\ UNCHANGED <<vars, fileVars, table, callee, unit,
                 argv, parsed, config, phase, launchArgs, code>>

-----------------------------------------------------------------------------
(* Script                                                                  *)

ScriptPath == argv[parsed + 1].word

\* No script: the dialogue starts.
StartDialogue ==
  /\ phase = "libraries" /\ unloaded = {} /\ parsed = Len(argv)
  /\ phase' = "dialogue"
  /\ UNCHANGED <<vars, fileVars, moduleVars, argv, parsed, config, unloaded, stray,
                 launchArgs, code>>

\* Mutant: the directory is changed before the script's own is taken.
LoadProgramLate ==
  LET place == AbsolutePath(ScriptPath) IN
  /\ phase = "libraries" /\ unloaded = {} /\ parsed < Len(argv)
  /\ place \in DOMAIN Programs
  /\ cwd' = place.dir
  /\ scrdir' = IF ScriptPath.base = "." THEN Place(place.dir, ScriptPath).dir ELSE place.dir
  /\ table' = NoNames
  /\ stray' = FALSE
  /\ phase' = "loaded"
  /\ UNCHANGED <<vars, disk, data, file, stream, seen, inbuilt, callee, unit,
                 argv, parsed, config, unloaded, launchArgs, code>>

\* load_program: a new main unit, even if nothing was loaded; the script's
\* directory, then the current one.
LoadProgram ==
  LET place == AbsolutePath(ScriptPath) IN
  /\ phase = "libraries" /\ unloaded = {} /\ parsed < Len(argv)
  /\ table' = NoNames
  /\ stray' = FALSE
  /\ IF place \in DOMAIN Programs /\ Programs[place] # {}
     THEN /\ scrdir' = place.dir /\ cwd' = place.dir
          /\ phase' = "loaded" /\ UNCHANGED code
     ELSE /\ phase' = "returned" /\ code' = -1
          /\ UNCHANGED <<scrdir, cwd>>
  /\ UNCHANGED <<vars, disk, data, file, stream, seen, inbuilt, callee, unit,
                 argv, parsed, config, unloaded, launchArgs>>

\* load_args, when the current directory is the script's.
LoadArgs ==
  /\ phase = "loaded"
  /\ launchArgs' = <<At([dir |-> scrdir, stem |-> ScriptPath.stem, ext |-> ScriptPath.ext])>>
                   \o [i \in 1..(Len(argv) - parsed - 1) |-> argv[parsed + 1 + i]]
  /\ phase' = "running"
  /\ UNCHANGED <<vars, fileVars, moduleVars, argv, parsed, config, unloaded, stray, code>>

Does == Programs[AbsolutePath(launchArgs[1])]

RunProgram ==
  /\ phase = "running"
  /\ \/ "memory" \in Does /\ Next /\ UNCHANGED <<fileVars, moduleVars>>
     \/ "files" \in Does /\ FilesNext /\ UNCHANGED <<vars, moduleVars>>
     \/ "modules" \in Does /\ ModulesNext /\ UNCHANGED <<vars, fileVars>>
     \/ "modules" \in Does /\ ((\E d \in GoesTo : Cd(d)) \/ SyncWorkDir) /\ UNCHANGED <<vars, moduleVars>>
  /\ UNCHANGED launchVars

\* nil is 0, an integer itself, anything else and an uncaught exception -1.
Return ==
  /\ phase = "running"
  /\ code' \in ExitValues \cup {0, -1}
  /\ phase' = "returned"
  /\ UNCHANGED <<vars, fileVars, moduleVars, argv, parsed, config, unloaded, stray, launchArgs>>

\* run: the interpreter and its File object are gone; with --no-exit a line is
\* awaited.
Leave ==
  /\ phase = "returned"
  /\ phase' = IF config.noExit THEN "waiting" ELSE "ended"
  /\ file' = NoFile /\ stream' = NoStream /\ seen' = NothingSeen
  /\ UNCHANGED <<vars, cwd, scrdir, disk, data, moduleVars, argv, parsed, config, unloaded,
                 stray, launchArgs, code>>

LineEntered ==
  /\ phase = "waiting"
  /\ phase' = "ended"
  /\ UNCHANGED <<vars, fileVars, moduleVars, argv, parsed, config, unloaded, stray,
                 launchArgs, code>>

LaunchNext ==
  \/ ParseOption \/ MakeInterpreter
  \/ \E l \in Libraries : LoadLibrary(l)
  \/ StartDialogue \/ LoadProgram \/ LoadArgs \/ RunProgram \/ Return
  \/ Leave \/ LineEntered

LaunchSpec == LaunchInit /\ [][LaunchNext]_allVars

-----------------------------------------------------------------------------
\* The script finds itself, whatever way its path was written and wherever the
\* program has gone since: its first argument and "#:" denote the file that was
\* launched; the options and the arguments it sees are the command line, each
\* once and in order (Methan0l.cpp:102-142, Interpreter.cpp:721-735, 833-863).
ScriptKnown ==
  phase = "running" =>
    LET first == CHOOSE i \in 1..Len(argv) :
                   ~IsFlag(argv[i]) /\ \A j \in 1..(i - 1) : IsFlag(argv[j])
        path  == argv[first].word
        place == Place(CASE path.base = "$:" -> HomeDir
                         [] path.base = "." -> StartDir
                         [] OTHER -> <<>>, path)
    IN /\ AbsolutePath(launchArgs[1]) = place
       /\ AbsolutePath([launchArgs[1] EXCEPT !.base = "#:", !.dir = <<>>]) = place
       /\ Tail(launchArgs) = SubSeq(argv, first + 1, Len(argv))
=============================================================================
