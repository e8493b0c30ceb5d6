------------------------------ MODULE Modules ------------------------------
(***************************************************************************)
(* Modules of the interpreted program: how a path is resolved to a script  *)
(* or a native library, what `load`, `using`, make_box, import and unload  *)
(* make of it, and where what a module defines becomes visible: among the  *)
(* inbuilt functions, in the main table or in the table of a callee.       *)
(***************************************************************************)
EXTENDS Files

CONSTANTS
  ModulePaths,  \* paths given to load and using
  Defines,      \* place of a module -> [fun |-> functions, val |-> other names]
  ProgramNames  \* names the program itself assigns

ASSUME ModulesAssumption == ModulePaths \subseteq PathSet /\ DOMAIN Defines \subseteq PlaceSet

VARIABLES
  inbuilt,  \* inbuilt_funcs: name -> provider
  table,    \* table of the main unit: name -> provider
  callee,   \* the table of the function being executed, if one is
  unit      \* the module a variable of the program holds, if it does

moduleVars == <<inbuilt, table, callee, unit>>

Program == [dir |-> <<>>, stem |-> "program", ext |-> ""]
NoNames == [n \in {} |-> Program]
Bound(names, provider) == [n \in names |-> provider]

-----------------------------------------------------------------------------
(* find_module                                                             *)

Script(m) == m.ext = ".mt0"
WithExtension(place, ext) == [place EXCEPT !.ext = ext]

\* A script is preferred to a library.
ResolveModuleFile(place) ==
  LET named == {e \in {".mt0", ".so"} : place.ext = "" /\ IsFile(WithExtension(place, e))}
  IN IF named # {}
     THEN {At(WithExtension(place, IF ".mt0" \in named THEN ".mt0" ELSE ".so"))}
     ELSE {At(q) : q \in {place} \cap DOMAIN disk}

\* A directory stands for the file of its name inside it, over and over while
\* that is a directory again.
Nested(place, k) == [place EXCEPT !.dir = @ \o [i \in 1..k |-> place.stem]]
Ends(place) == IsFile(place) \/ ~IsDirectory(place)
Innermost(place) ==
  Nested(place, CHOOSE k \in 0..Cardinality(Dirs) :
                  /\ Ends(Nested(place, k))
                  /\ \A j \in 0..(k - 1) : ~Ends(Nested(place, j)))

\* find_module of an absolute path.
FindAbsolute(place) ==
  IF IsFile(Innermost(place)) THEN {At(Innermost(place))} ELSE ResolveModuleFile(Innermost(place))

InHome(p) == Place(Append(HomeDir, "modules"), p)

\* Mutant: the modules of the home directory come first.
FindModuleHomeFirst(p) ==
  LET home == IF p.base = "." THEN FindAbsolute(InHome(p)) ELSE {}
  IN IF home # {} THEN home
     ELSE IF IsFile(AbsolutePath(p)) THEN {p}
     ELSE FindAbsolute(AbsolutePath(p))

\* The path of the module, if there is one.  A file is found under the path as
\* given; a relative path that is neither a file nor a directory nor the name of
\* a module is searched for among the modules of the home directory.
FindModule(p) ==
  LET place == AbsolutePath(p)
      found == FindAbsolute(place)
  IN IF IsFile(place) THEN {p}
     ELSE IF found # {} \/ IsDirectory(place) \/ p.base # "." THEN found
     ELSE FindAbsolute(InHome(p))

\* load_file expands aliases; the loader of libraries takes the path as it is.
Opened(p) ==
  {AbsolutePath(f) : f \in {g \in FindModule(p) :
     Script(g) \/ (g.ext = ".so" /\ g.base \notin {"$:", "#:"})}}

-----------------------------------------------------------------------------
(* Loading and importing                                                   *)

Reserved == {".module_name", ".mref"}

\* A library's entry point registers its functions in the module's own table;
\* .mref keeps the library loaded.  A script is only parsed, and its unit
\* takes the place of the box: it is persistent no more.
LoadModule(m) ==
  [from |-> m, box |-> ~Script(m),
   names |-> IF Script(m) THEN {} ELSE Defines[m].fun \cup Defines[m].val \cup Reserved]

\* What f binds, and what g binds besides.
Over(f, g) == [n \in DOMAIN f \cup DOMAIN g |-> IF n \in DOMAIN f THEN f[n] ELSE g[n]]

\* Mutant: an import replaces what the scope has.
BindOver(scope, names, m) == Over(Bound(names, m), scope)

\* insert, and emplace: the first binding of a name stays.
Bind(scope, names, m) == Over(scope, Bound(names, m))

\* register_func: DataTable::set, when a function is being executed.
Set(scope, names, m) == Over(Bound(names, m), scope)

\* core::import into the current scope.
Import(u) ==
  LET funs == u.names \cap Defines[u.from].fun
      vals == u.names \ funs
  IN IF callee = {}
     THEN /\ inbuilt' = Bind(inbuilt, funs, u.from)
          /\ table' = Bind(table, vals, u.from)
          /\ UNCHANGED callee
     ELSE /\ callee' = {Bind(Set(t, funs, u.from), vals, u.from) : t \in callee}
          /\ UNCHANGED <<inbuilt, table>>

\* using_module: a script is executed, and leaving its scope clears the table
\* that is imported next.
UsingModule(p) ==
  /\ \E m \in Opened(p) : Import(LoadModule(m))
  /\ UNCHANGED unit

\* var = load(path)
Load(p) ==
  /\ callee = {}
  /\ \E m \in Opened(p) : unit' = {LoadModule(m)}
  /\ UNCHANGED <<inbuilt, table, callee>>

\* make_box: the unit becomes persistent, then is executed.
MakeBox ==
  /\ \E u \in unit :
       unit' = {[u EXCEPT !.box = TRUE,
                   !.names = IF Script(u.from) THEN Defines[u.from].val ELSE @]}
  /\ UNCHANGED <<inbuilt, table, callee>>

ImportUnit ==
  /\ \E u \in unit : Import(u)
  /\ UNCHANGED unit

\* unload throws for a script: its table has no module name.
Unload ==
  /\ \E u \in unit : ".module_name" \in u.names /\ unit' = {[u EXCEPT !.names = {}]}
  /\ UNCHANGED <<inbuilt, table, callee>>

\* The program assigns a variable of the current scope.
Assign(n) ==
  /\ IF callee = {}
     THEN table' = Set(table, {n}, Program) /\ UNCHANGED callee
     ELSE callee' = {Set(t, {n}, Program) : t \in callee} /\ UNCHANGED table
  /\ UNCHANGED <<inbuilt, unit>>

\* The program calls a function of its own, or returns from it.
EnterFunction ==
  /\ callee = {}
  /\ callee' = {NoNames}
  /\ UNCHANGED <<inbuilt, table, unit>>

LeaveFunction ==
  /\ callee # {}
  /\ callee' = {}
  /\ UNCHANGED <<inbuilt, table, unit>>

ModulesNext ==
  \/ \E p \in ModulePaths : UsingModule(p) \/ Load(p)
  \/ MakeBox \/ ImportUnit \/ Unload
  \/ \E n \in ProgramNames : Assign(n)
  \/ EnterFunction \/ LeaveFunction

-----------------------------------------------------------------------------
\* Importing a module never takes a name away from the program or from an
\* earlier module: a binding of the main table only changes by the program's
\* own assignment, an inbuilt function never, and a variable of a function
\* only for a native function of the same name (Internal.cpp:11-21,
\* Interpreter.cpp:140-150).
ImportKeeps ==
  [][/\ \A n \in DOMAIN inbuilt : n \in DOMAIN inbuilt' /\ inbuilt'[n] = inbuilt[n]
     /\ \A n \in DOMAIN table \cap DOMAIN table' :
          table'[n] # table[n] => table'[n] = Program
     /\ \A t \in callee, u \in callee' : \A n \in DOMAIN t :
          u[n] # t[n] => u[n] = Program \/ n \in Defines[u[n]].fun]_<<fileVars, moduleVars>>

\* What a path resolves to is a file; the home directory is searched only if
\* nothing beside the current directory bears the name, and a script is taken
\* before a library of its name (Module.cpp:58-102).
FindsNearest ==
  \A p \in ModulePaths :
    LET place  == AbsolutePath(p)
        found  == {AbsolutePath(f) : f \in FindModule(p)}
        Beside == {WithExtension(place, e) : e \in {".mt0", ".so"}} \cap DOMAIN disk
    IN /\ found \subseteq DOMAIN disk
       /\ IsFile(place) => found = {place}
       /\ place.ext = "" /\ ~IsFile(place) /\ ~IsDirectory(place) /\ Beside # {} =>
            found # {} /\ found \subseteq Beside /\ \A q \in found, r \in Beside : Script(r) => q = r
=============================================================================
