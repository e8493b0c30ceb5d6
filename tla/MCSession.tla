------------------------------ MODULE MCSession ------------------------------
(***************************************************************************)
(* Command lines for Session: every command with every kind of file, a     *)
(* command without its argument, and lines that name no command.           *)
(***************************************************************************)
EXTENDS Session

WithFile == {<<c, f>> : c \in {"/load", "/run"}, f \in Files}
AllCommands ==
  {<<"/cas">>, <<"/cas-reset">>, <<"/load">>, <<"/other">>, <<"/other", "x">>} \cup WithFile
SomeCommands ==
  {<<"/cas">>, <<"/load", "good">>, <<"/run", "good">>, <<"/other", "x">>}
=============================================================================
