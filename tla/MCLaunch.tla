------------------------------ MODULE MCLaunch ------------------------------
(* Command lines, files and modules for TLC. *)
EXTENDS Launch

File(dir, stem, ext) == [dir |-> dir, stem |-> stem, ext |-> ext]
PathTo(base, dir, stem, ext) == [base |-> base] @@ File(dir, stem, ext)
Argument(base, dir, stem, ext) == [word |-> PathTo(base, dir, stem, ext)]
Flag(s) == [flag |-> s]

MCHomeDir == <<"home">>
MCStartDir == <<"work">>
MCDirs == {<<"home">>, <<"work">>, <<"work", "app">>, <<"work", "d">>}

\* The program that works with files is in a directory of its own, the one that
\* imports modules beside a script "m" and a directory "d".
MCPrograms ==
  (File(<<"work", "app">>, "reads", ".mt0") :> {"files"})
  @@ (File(<<"home">>, "allocates", ".mt0") :> {"memory"})
  @@ (File(<<"work">>, "imports", ".mt0") :> {"modules"})
  @@ (File(<<"work">>, "empty", ".mt0") :> {})

Module(fun, val) == [fun |-> fun, val |-> val]
LibA == File(<<"home", "libraries">>, "a", ".so")
LibB == File(<<"home", "libraries">>, "b", ".mt0")
LibC == File(<<"home", "libraries">>, "c", ".so")

\* "m" is a script beside the program and a library among the home modules.
MCDefines ==
  (LibA :> Module({"f"}, {})) @@ (LibB :> Module({}, {"k"}))
  @@ (LibC :> Module({"f", "g"}, {}))
  @@ (File(<<"work">>, "m", ".mt0") :> Module({}, {"v"}))
  @@ (File(<<"home", "modules">>, "m", ".so") :> Module({"f", "v"}, {"w"}))
  @@ (File(<<"work", "d">>, "d", ".so") :> Module({"h"}, {"v", "w"}))

MCLibraries == {LibA, LibB, LibC}
MCBroken == {LibB}
MCModulePaths == {PathTo(".", <<>>, "m", ""), PathTo(".", <<>>, "d", ""),
                  PathTo("$:", <<"modules">>, "m", ".so")}

MCCommandLines ==
  { <<>>, <<Flag("--version"), Argument(".", <<>>, "empty", ".mt0")>>,
    <<Flag("--cas")>>,
    <<Argument(".", <<>>, "empty", ".mt0")>>, <<Argument("/", <<"work">>, "absent", ".mt0")>>,
    <<Flag("--cas"), Argument(".", <<"app">>, "reads", ".mt0"),
      Argument(".", <<>>, "x", ""), Flag("--cas")>>,
    <<Flag("--max-mem=3"), Flag("--no-exit"), Flag("--allocate-fully"), Argument("$:", <<>>, "allocates", ".mt0")>>,
    <<Argument(".", <<>>, "imports", ".mt0")>> }

MCGoesTo == {<<"home">>}
MCContents == {<<>>, <<"p", "q">>}
MCPaths == {PathTo(".", <<>>, "t", ""), PathTo("#:", <<>>, "t", "")}
=============================================================================
