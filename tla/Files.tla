------------------------------- MODULE Files -------------------------------
(***************************************************************************)
(* Paths with the aliases of the interpreter, and the File class: one File *)
(* object, and the operations that take a path statically.  Every line has *)
(* the same length and ends with a newline, so that a line is a position   *)
(* of the stream and a read of k lines stands for a read of so many bytes. *)
(* An operation that throws changes nothing and is no step.                *)
(***************************************************************************)
EXTENDS Naturals, Sequences, FiniteSets, SequencesExt, FiniteSetsExt

CONSTANTS
  HomeDir,   \* home directory of the interpreter, what "$:" stands for
  Dirs,      \* the directories there are, as sequences of names
  GoesTo,    \* directories the program changes to
  Paths,     \* paths of files the program names
  Lines,     \* lines the program writes
  Contents,  \* contents it writes at once
  MaxLines,  \* bound: lines of a file
  MaxNodes,  \* bound: files ever created
  MaxReads   \* bound: lines read since the file was opened or reset

PlaceSet == [dir : Seq(STRING), stem : STRING, ext : STRING]
PathSet == [base : {"$:", "#:", ".", "/"}, dir : Seq(STRING), stem : STRING, ext : STRING]

ASSUME PathsAssumption ==
  IsFiniteSet(Dirs) /\ HomeDir \in Seq(STRING) /\ GoesTo \subseteq Seq(STRING) /\ Paths \subseteq PathSet
ASSUME FilesAssumption == MaxLines \in Nat /\ \A c \in Contents : c \in Seq(ToSet(c))

VARIABLES
  cwd,     \* std::filesystem::current_path
  scrdir,  \* SCRDIR: what "#:" stands for
  disk,    \* place of a file -> its node, named after where it was created
  data,    \* node -> its lines
  file,    \* fields of the File object: name (if set), .io, eof
  stream,  \* the std::fstream of field .f
  seen     \* what was read since open or reset (history)

fileVars == <<cwd, scrdir, disk, data, file, stream, seen>>

-----------------------------------------------------------------------------
(* Paths                                                                   *)

Place(d, p) == [dir |-> d \o p.dir, stem |-> p.stem, ext |-> p.ext]

\* core::absolute_path, for an alias, a relative and an absolute path.
AbsolutePath(p) ==
  Place(CASE p.base = "$:" -> HomeDir
          [] p.base = "#:" -> scrdir
          [] p.base = "."  -> cwd
          [] OTHER         -> <<>>, p)

At(place) == [base |-> "/", dir |-> place.dir, stem |-> place.stem, ext |-> place.ext]

\* core::path: aliases are expanded at once, a relative path stays relative.
Path(p) == IF p.base \in {"$:", "#:"} THEN At(AbsolutePath(p)) ELSE p

IsFile(place) == place \in DOMAIN disk
IsDirectory(place) == place.ext = "" /\ Append(place.dir, place.stem) \in Dirs

-----------------------------------------------------------------------------
(* The stream: std::fstream opened for reading and writing                 *)

NoStream == [node |-> <<>>, pos |-> 0, good |-> FALSE]
NothingSeen == [lines |-> <<>>, told |-> FALSE, wrote |-> FALSE]

NoFile == [name |-> {}, io |-> FALSE, eof |-> FALSE]

FilesInit(places) ==
  /\ disk = [q \in places |-> <<q, 0>>]
  /\ data = [n \in {<<q, 0>> : q \in places} |-> <<>>]
  /\ file = NoFile /\ stream = NoStream /\ seen = NothingSeen

\* History: what was read, as long as nothing was written.
Noted(lines, told) ==
  IF seen.wrote THEN seen ELSE [seen EXCEPT !.lines = @ \o lines, !.told = told]

Left == Len(data[stream.node]) - stream.pos

\* set, and the constructor.
SetPath(p) ==
  /\ file' = [file EXCEPT !.name = {Path(p)}]
  /\ UNCHANGED <<cwd, scrdir, disk, data, stream, seen>>

\* The name denotes what it denotes now; a failed open keeps the old stream.
Open ==
  /\ \E p \in file.name :
       LET place == AbsolutePath(p) IN
       IF IsFile(place)
       THEN /\ file' = [file EXCEPT !.io = TRUE, !.eof = FALSE]
            /\ stream' = [node |-> disk[place], pos |-> 0, good |-> TRUE]
            /\ seen' = NothingSeen
       ELSE /\ file' = [file EXCEPT !.io = FALSE]
            /\ UNCHANGED <<stream, seen>>
  /\ UNCHANGED <<cwd, scrdir, disk, data>>

Close ==
  /\ file.io
  /\ file' = [file EXCEPT !.io = FALSE]
  /\ stream' = NoStream
  /\ UNCHANGED <<cwd, scrdir, disk, data, seen>>

\* getline, then peek: at the end of the file peek leaves the stream bad.
ReadLine ==
  /\ file.io
  /\ Len(seen.lines) < MaxReads
  /\ LET more == stream.good /\ Left > 0
         last == ~more \/ Left = 1
     IN /\ seen' = Noted(<<IF more THEN data[stream.node][stream.pos + 1] ELSE "">>, TRUE)
        /\ file' = [file EXCEPT !.eof = last]
        /\ stream' = [stream EXCEPT !.pos = IF more THEN @ + 1 ELSE @, !.good = ~last]
  /\ UNCHANGED <<cwd, scrdir, disk, data>>

\* read(buffer, k): eof tells whether the read was complete, not the end.
ReadBuffer(k) ==
  /\ file.io
  /\ Len(seen.lines) + k <= MaxReads
  /\ LET n == IF stream.good THEN Min({k, Left}) ELSE 0
     IN /\ seen' = Noted(SubSeq(data[stream.node], stream.pos + 1, stream.pos + n), FALSE)
        /\ file' = [file EXCEPT !.eof = (n = k)]
        /\ stream' = [stream EXCEPT !.pos = @ + n, !.good = (n = k)]
  /\ UNCHANGED <<cwd, scrdir, disk, data>>

\* write_line and write: over what is there; a stream gone bad drops it.
WriteLine(l) ==
  /\ file.io
  /\ stream.pos < MaxLines
  /\ seen' = [NothingSeen EXCEPT !.wrote = TRUE]
  /\ IF stream.good
     THEN /\ data' = [data EXCEPT ![stream.node] =
                        IF Left > 0 THEN [@ EXCEPT ![stream.pos + 1] = l] ELSE Append(@, l)]
          /\ stream' = [stream EXCEPT !.pos = @ + 1]
     ELSE UNCHANGED <<data, stream>>
  /\ UNCHANGED <<cwd, scrdir, disk, file>>

\* Mutant: the stream is moved but its state is not cleared.
ResetSeeksOnly ==
  /\ file.io
  /\ stream' = [stream EXCEPT !.pos = 0]
  /\ seen' = NothingSeen
  /\ UNCHANGED <<cwd, scrdir, disk, data, file>>

\* The field eof keeps its value.
Reset ==
  /\ file.io
  /\ stream' = [stream EXCEPT !.pos = 0, !.good = TRUE]
  /\ seen' = NothingSeen
  /\ UNCHANGED <<cwd, scrdir, disk, data, file>>

-----------------------------------------------------------------------------
(* The file system                                                         *)

\* File.path: the name of the object, or the path given to a static call.
Targets == {Path(p) : p \in Paths} \cup file.name

\* A path given as a plain argument is not expanded.
Plain == {p \in Paths : p.base \notin {"$:", "#:"}}

NewNode(place, lines) ==
  LET node == <<place, Cardinality(DOMAIN data)>> IN
  /\ Cardinality(DOMAIN data) < MaxNodes
  /\ disk' = [q \in DOMAIN disk \cup {place} |-> IF q = place THEN node ELSE disk[q]]
  /\ data' = [n \in DOMAIN data \cup {node} |-> IF n = node THEN lines ELSE data[n]]

\* write_contents, of a file that is not open: a stream buffers what it reads.
WriteContents(p, lines) ==
  LET place == AbsolutePath(p) IN
  /\ place.dir \in Dirs /\ ~IsDirectory(place)
  /\ \/ /\ IsFile(place) /\ disk[place] # stream.node
        /\ data' = [data EXCEPT ![disk[place]] = lines]
        /\ UNCHANGED disk
     \/ ~IsFile(place) /\ NewNode(place, lines)
  /\ UNCHANGED <<cwd, scrdir, file, stream, seen>>

\* Of a file that is not open: what write puts out may still be buffered.
CopyTo(p, to) ==
  /\ IsFile(AbsolutePath(p)) /\ disk[AbsolutePath(p)] # stream.node
  /\ LET place == AbsolutePath(to) IN
       /\ place.dir \in Dirs /\ ~IsFile(place) /\ ~IsDirectory(place)
       /\ NewNode(place, data[disk[AbsolutePath(p)]])
  /\ UNCHANGED <<cwd, scrdir, file, stream, seen>>

\* The File object keeps its old name.
Rename(p, to) ==
  LET from == AbsolutePath(p)  dest == AbsolutePath(to) IN
  /\ IsFile(from) /\ dest.dir \in Dirs /\ ~IsDirectory(dest)
  /\ disk' = [q \in (DOMAIN disk \ {from}) \cup {dest} |->
                IF q = dest THEN disk[from] ELSE disk[q]]
  /\ UNCHANGED <<cwd, scrdir, data, file, stream, seen>>

\* remove: an open stream keeps the node.
RemoveFile(p) ==
  /\ IsFile(AbsolutePath(p))
  /\ disk' = Restrict(disk, DOMAIN disk \ {AbsolutePath(p)})
  /\ UNCHANGED <<cwd, scrdir, data, file, stream, seen>>

Cd(d) ==
  /\ cwd' = d
  /\ UNCHANGED <<scrdir, disk, data, file, stream, seen>>

\* sync_work_dir
SyncWorkDir == Cd(scrdir)

FilesNext ==
  \/ \E p \in Paths : SetPath(p)
  \/ Open \/ Close \/ ReadLine \/ Reset
  \/ \E k \in 1..MaxLines : ReadBuffer(k)
  \/ \E l \in Lines : WriteLine(l)
  \/ \E p \in Targets, c \in Contents : WriteContents(p, c)
  \/ \E p \in Targets, to \in Plain : CopyTo(p, to) \/ Rename(p, to)
  \/ \E p \in Targets : RemoveFile(p)
  \/ \E d \in GoesTo : Cd(d)
  \/ SyncWorkDir

-----------------------------------------------------------------------------
\* What an open File has read since it was opened or reset, if nothing was
\* written through it, is the beginning of its file, each line once and in
\* order, then empty lines; is_eof after read_line tells whether any is left
\* (File.cpp:251-282, 303-331; examples/utility/files.mt0:14).
ReadsInOrder ==
  file.io /\ ~seen.wrote =>
    LET all == data[stream.node]  n == Len(seen.lines) IN
    /\ \A i \in 1..n : seen.lines[i] = IF i <= Len(all) THEN all[i] ELSE ""
    /\ seen.told => (file.eof <=> n >= Len(all))
=============================================================================
