------------------------------ MODULE OkfLibrary ------------------------------
(***************************************************************************)
(* One OKF knowledge library (nsmt-client okf.rs): a directory of concept  *)
(* documents with an index, a log and a trash, worked on by several        *)
(* processes, since every `yggd okf` command is a process of its own and   *)
(* takes no lock.                                                          *)
(*                                                                         *)
(* A document is the set of the commands whose effect it carries (the one  *)
(* that created it and the edits since), and what parse_doc makes of its   *)
(* text. A command has one step for what it reads and checks and one for   *)
(* every write. Fields other than the type, texts and the entries of an    *)
(* index are left out; so are paths that lead out of the library or into   *)
(* its trash.                                                              *)
(***************************************************************************)
EXTENDS Naturals, Sequences, FiniteSets

CONSTANTS
    Proc,      \* the processes that run commands
    Path,      \* the document paths in use
    Reserved,  \* those of them whose file name is index.md; the root's is ./index.md
    SubPath,   \* those in the subdirectory; the others are at the root
    None,      \* no file, no path
    MaxOps,    \* bound: number of commands that are given
    MaxDeaths, \* bound: number of commands that are killed
    MaxOdd     \* bound: number of commands with values that YAML reads otherwise

ASSUME OkfAssumption ==
    /\ Reserved \subseteq Path
    /\ SubPath \subseteq Path
    /\ None \notin Path
    /\ {"sub", "log"} \cap (Path \cup {None}) = {}
    /\ MaxOps \in Nat
    /\ MaxDeaths \in Nat
    /\ MaxOdd \in Nat

VARIABLES
    dirs,   \* the directories that exist: the library, its subdirectory, .trash/sub
    files,  \* path -> document
    trash,  \* path -> document below .trash
    log,    \* log.md: what its entries say, oldest first
    pc,     \* process -> its position
    cmd,    \* process -> its target, what its log entry says, its text, its number
    seen,   \* process -> the effects in the document that it has read
    logged, \* process -> the log it has read
    ops, deaths,
    \* history
    acked,  \* the effects of the commands that reported success
    lost,   \* effects that are gone, for one of the reasons named below
    unsure, \* paths about which the log may be wrong
    cut,    \* paths whose write was cut off
    odd     \* the commands that were given values that YAML reads otherwise

procVars == <<pc, cmd, seen, logged>>
history == <<acked, lost, unsure, cut, odd>>
vars == <<dirs, files, trash, log, procVars, ops, deaths, history>>

Op == 1 .. MaxOps

\* What parse_doc and the type check of validate_bundle find: a type that is a
\* non-empty string, no such type (`type: 5`), no frontmatter that parses (`title: a: b`).
Text == {"typed", "untyped", "broken"}

Doc == [by : SUBSET Op, text : Text]

\* A file without frontmatter: an index, or a file that is truncated and not yet
\* written.
Blank == [by |-> {}, text |-> "broken"]

\* What rm and restore can be given: a document, the subdirectory with all that is in
\* it, and ./log.md, since only the name log.md itself is refused.
Target == Path \cup {"sub", "log"}

Entry == [path : Target \cup {None}, here : BOOLEAN]
Cmd == [path : Target \cup {None}, here : BOOLEAN, text : Text, id : 0 .. MaxOps]
NoCmd == [path |-> None, here |-> TRUE, text |-> "typed", id |-> 0]

\* The absence of a document is told apart from every document.
ASSUME NoneAssumption == \A d \in Doc : d # None

\* The effects that a path carries: of no document, or of one.
Held(d) == IF d = None THEN {} ELSE d.by

TypeOK ==
    /\ dirs \subseteq {"lib", "sub", "trashed"}
    /\ files \in [Path -> Doc \cup {None}]
    /\ trash \in [Path -> Doc \cup {None}]
    /\ log \in Seq(Entry)
    /\ pc \in [Proc -> {"idle", "create", "rename", "unrename", "rewrite",
                        "subindex", "index", "log", "logwrite"}]
    /\ cmd \in [Proc -> Cmd]
    /\ seen \in [Proc -> SUBSET Op]
    /\ logged \in [Proc -> Seq(Entry)]
    /\ ops \in 0 .. MaxOps
    /\ deaths \in 0 .. MaxDeaths
    /\ acked \subseteq Op
    /\ lost \subseteq Op
    /\ unsure \subseteq Path
    /\ cut \subseteq Path
    /\ odd \subseteq Op

\* The documents of a library that `libs new` has just made: its index.
NewFiles == [x \in Path |-> IF x \in Reserved \ SubPath THEN Blank ELSE None]

\* A library that `libs new` has just made.
Init ==
    /\ dirs = {"lib"}
    /\ files = NewFiles
    /\ trash = [x \in Path |-> None]
    /\ log = <<>>
    /\ pc = [p \in Proc |-> "idle"]
    /\ cmd = [p \in Proc |-> NoCmd]
    /\ seen = [p \in Proc |-> {}]
    /\ logged = [p \in Proc |-> <<>>]
    /\ ops = 0
    /\ deaths = 0
    /\ acked = {}
    /\ lost = {}
    /\ unsure = {}
    /\ cut = {}
    /\ odd = {}

-----------------------------------------------------------------------------
(* What the commands share *)

\* A mutant of collect_md_files that does not skip the reserved names.
AllFiles == {x \in Path : files[x] # None}

\* collect_md_files: the documents below the library, reserved names skipped.
Concepts == {x \in Path \ Reserved : files[x] # None}

\* The documents that `libs validate` reports as errors.
ValidateErrors == {x \in Concepts : files[x].text # "typed"}

Busy(q) == pc[q] # "idle"

\* Process p starts a command on t, after resolve_lib found the library; it gets a
\* number if it changes the document. While two run, the log can lose any entry.
Begin(p, t, here, next, text, s) ==
    /\ pc[p] = "idle"
    /\ ops < MaxOps
    /\ "lib" \in dirs
    /\ ops' = ops + 1
    /\ pc' = [pc EXCEPT ![p] = next]
    /\ cmd' = [cmd EXCEPT ![p] = [path |-> t, here |-> here, text |-> text,
                                  id |-> IF next \in {"create", "rewrite"} THEN ops + 1 ELSE 0]]
    /\ seen' = [seen EXCEPT ![p] = s]
    /\ unsure' = IF \E q \in Proc : Busy(q) THEN Path ELSE unsure
    /\ UNCHANGED <<dirs, files, trash, log, logged, deaths, acked, lost, cut>>

\* The directory of a target, and where rm puts it.
DirOf(t) == IF t \in SubPath THEN {"lib", "sub"} ELSE {"lib"}
TrashOf(t) == IF t \in SubPath THEN {"lib", "trashed"} ELSE {"lib"}

\* The documents that a target stands for.
Under(t) == IF t = "sub" THEN SubPath ELSE {t} \cap Path

\* target.exists(): an empty log is as good as none, since rm of it only adds an entry.
Exists(t) ==
    IF t = "sub" THEN "sub" \in dirs ELSE IF t = "log" THEN log # <<>> ELSE files[t] # None

\* The same for the trash. A log is not restored: the rm of it has written another.
InTrash(t) == IF t = "sub" THEN "trashed" \in dirs ELSE t \in Path /\ trash[t] # None

\* A directory is not moved over one that holds documents.
Blocked(t, there) == t = "sub" /\ \E x \in SubPath : there[x] # None

\* What is below t comes from one tree and goes to another; at its old place is none.
Received(t, from, to) == [x \in Path |-> IF x \in Under(t) THEN from[x] ELSE to[x]]
Vacated(t, from) == [x \in Path |-> IF x \in Under(t) THEN None ELSE from[x]]

\* The command of p goes on at `next`.
Goto(p, next) == pc' = [pc EXCEPT ![p] = next] /\ UNCHANGED <<cmd, seen, logged, ops>>

\* The process of p ends, and what it has read is gone.
Exit(p) ==
    /\ pc' = [pc EXCEPT ![p] = "idle"]
    /\ cmd' = [cmd EXCEPT ![p] = NoCmd]
    /\ seen' = [seen EXCEPT ![p] = {}]
    /\ logged' = [logged EXCEPT ![p] = <<>>]
    /\ UNCHANGED ops

\* The effects that a write of p to x destroys although p has not seen them.
Raced(p, x) == Held(files[x]) \ seen[p]

\* The document that p writes: what it has read, with its own values.
Written(p) == [by |-> seen[p] \cup {cmd[p].id}, text |-> cmd[p].text]

\* The directories without which the next write of p fails.
Needs(p) ==
    CASE pc[p] = "rename" -> TrashOf(cmd[p].path)
      [] pc[p] = "subindex" -> {"lib", "sub"}
      [] pc[p] \in {"create", "unrename", "rewrite"} -> DirOf(cmd[p].path)
      [] OTHER -> {"lib"}

\* A directory that p needs is not there, or is gone again after create_dir_all: the
\* command fails.
NoDirectory(p) ==
    /\ Busy(p)
    /\ ~(Needs(p) \subseteq dirs)
    /\ Exit(p)
    /\ UNCHANGED <<dirs, files, trash, log, deaths, history>>

-----------------------------------------------------------------------------
(* add, rm, restore and edit *)

\* Command number n is given values that YAML does not read as they were meant.
Given(n, value) ==
    /\ odd' = odd \cup {m \in {n} : value \in {"untyped", "broken"}}
    /\ Cardinality(odd') <= MaxOdd

\* add: there is no such file. The values are written into the frontmatter as they are.
cmd_add(p, x, value) ==
    /\ files[x] = None
    /\ Begin(p, x, TRUE, "create", value, {})
    /\ Given(ops + 1, value)

AddWrite(p) ==
    LET x == cmd[p].path IN
    /\ pc[p] = "create"
    /\ dirs' = dirs \cup DirOf(x)
    /\ files' = [files EXCEPT ![x] = Written(p)]
    /\ lost' = lost \cup Raced(p, x)
    /\ Goto(p, "log")
    /\ UNCHANGED <<trash, log, deaths, acked, unsure, cut, odd>>

\* rm: there is such a file or directory.
cmd_rm(p, t) ==
    /\ Exists(t)
    /\ Begin(p, t, FALSE, "rename", "typed", {})
    /\ UNCHANGED odd

\* The file is moved over whatever the trash holds under its path, a directory only to
\* where there is nothing; if it is gone by now the command fails. Without the older
\* log the new one tells nothing.
RmRename(p) ==
    LET t == cmd[p].path IN
    /\ pc[p] = "rename"
    /\ IF Exists(t) /\ ~ Blocked(t, trash)
       THEN /\ dirs' = (dirs \ ({t} \cap {"sub"})) \cup TrashOf(t) \cup {d \in {"trashed"} : t = "sub"}
            /\ trash' = Received(t, files, trash)
            /\ files' = Vacated(t, files)
            /\ log' = IF t = "log" THEN <<>> ELSE log
            /\ lost' = lost \cup UNION {Held(trash[x]) : x \in Under(t)}
            /\ unsure' = IF t = "log" THEN Path ELSE unsure
            /\ Goto(p, "log")
       ELSE /\ dirs' = dirs \cup TrashOf(t)
            /\ Exit(p)
            /\ UNCHANGED <<files, trash, log, lost, unsure>>
    /\ UNCHANGED <<deaths, acked, cut, odd>>

\* A mutant of restore that does not ask whether the target exists.
RestoreBlindly(p, t) ==
    /\ InTrash(t)
    /\ Begin(p, t, TRUE, "unrename", "typed", UNION {Held(files[x]) : x \in Under(t)})
    /\ UNCHANGED odd

\* restore: the path is in the trash and not in the library.
cmd_restore(p, t) ==
    /\ InTrash(t)
    /\ ~ Exists(t)
    /\ Begin(p, t, TRUE, "unrename", "typed", {})
    /\ UNCHANGED odd

\* The way back. The log does not tell what was in a directory that was restored.
RestoreRename(p) ==
    LET t == cmd[p].path IN
    /\ pc[p] = "unrename"
    /\ IF InTrash(t) /\ ~ Blocked(t, files)
       THEN /\ dirs' = (dirs \ {d \in {"trashed"} : t = "sub"}) \cup DirOf(t) \cup ({t} \cap {"sub"})
            /\ files' = Received(t, trash, files)
            /\ trash' = Vacated(t, trash)
            /\ lost' = lost \cup UNION {Raced(p, x) : x \in Under(t)}
            /\ unsure' = IF t = "sub" THEN unsure \cup SubPath ELSE unsure
            /\ Goto(p, "log")
       ELSE /\ dirs' = dirs \cup DirOf(t)
            /\ Exit(p)
            /\ UNCHANGED <<files, trash, lost, unsure>>
    /\ UNCHANGED <<log, deaths, acked, cut, odd>>

\* edit: the file is read and must have frontmatter that parses. It gets new values, and
\* the old type unless that is among them.
cmd_edit(p, x, value) ==
    /\ files[x] # None
    /\ files[x].text # "broken"
    /\ Begin(p, x, TRUE, "rewrite", IF value = "keep" THEN files[x].text ELSE value, files[x].by)
    /\ Given(ops + 1, value)

\* The file is written anew, also if it was removed meanwhile.
EditWrite(p) ==
    LET x == cmd[p].path IN
    /\ pc[p] = "rewrite"
    /\ DirOf(x) \subseteq dirs
    /\ files' = [files EXCEPT ![x] = Written(p)]
    /\ lost' = lost \cup Raced(p, x)
    /\ Goto(p, "log")
    /\ UNCHANGED <<dirs, trash, log, deaths, acked, unsure, cut, odd>>

-----------------------------------------------------------------------------
(* log and index *)

\* The log command has a message and no path.
cmd_log(p) == Begin(p, None, TRUE, "log", "typed", {}) /\ UNCHANGED odd

\* append_log makes the directory if need be and reads the log; it may find it
\* empty while another process writes it.
AppendLogRead(p) ==
    /\ pc[p] = "log"
    /\ dirs' = dirs \cup {"lib"}
    /\ \E text \in {log} \cup {<<>> : q \in {q \in Proc : pc[q] = "logwrite"}} :
          logged' = [logged EXCEPT ![p] = text]
    /\ pc' = [pc EXCEPT ![p] = "logwrite"]
    /\ UNCHANGED <<files, trash, log, cmd, seen, ops, deaths, history>>

\* A mutant of append_log that starts a new section without the older ones.
LogAfterAppendToday(p) == <<[path |-> cmd[p].path, here |-> cmd[p].here]>>

\* The new entry comes last: its day's section is the last one.
LogAfterAppend(p) == Append(logged[p], [path |-> cmd[p].path, here |-> cmd[p].here])

\* The log is written and the command reports success.
AppendLogWrite(p) ==
    /\ pc[p] = "logwrite"
    /\ "lib" \in dirs
    /\ log' = LogAfterAppend(p)
    /\ acked' = acked \cup ({cmd[p].id} \ {0})
    /\ Exit(p)
    /\ UNCHANGED <<dirs, files, trash, deaths, lost, unsure, cut, odd>>

\* index: generate_index collects the concepts.
cmd_index(p) ==
    /\ Begin(p, None, TRUE, IF Concepts \cap SubPath = {} THEN "index" ELSE "subindex",
             "typed", {})
    /\ UNCHANGED odd

\* An index.md is written, over any document there: of the subdirectory if it has
\* concepts, and last of the root.
Indexes(p) == IF pc[p] = "subindex" THEN Reserved \cap SubPath ELSE Reserved \ SubPath

IndexWrite(p) ==
    /\ pc[p] \in {"subindex", "index"}
    /\ dirs' = dirs \cup Needs(p)
    /\ files' = [x \in Path |-> IF x \in Indexes(p) THEN Blank ELSE files[x]]
    /\ lost' = lost \cup UNION {Held(files[x]) : x \in Indexes(p)}
    /\ IF pc[p] = "subindex" THEN Goto(p, "index") ELSE Exit(p)
    /\ UNCHANGED <<trash, log, deaths, acked, unsure, cut, odd>>

-----------------------------------------------------------------------------
(* Libraries and deaths *)

\* libs rm --force removes the directory and all below it.
cmd_lib_rm ==
    /\ "lib" \in dirs
    /\ ops < MaxOps
    /\ ops' = ops + 1
    /\ dirs' = {}
    /\ files' = [x \in Path |-> None]
    /\ trash' = [x \in Path |-> None]
    /\ log' = <<>>
    /\ lost' = lost \cup UNION {Held(files[x]) \cup Held(trash[x]) : x \in Path}
    /\ unsure' = IF \E q \in Proc : Busy(q) THEN Path ELSE unsure
    /\ UNCHANGED <<procVars, deaths, acked, cut, odd>>

\* libs new makes the directory, an index without entries and an empty log.
cmd_lib_new ==
    /\ dirs = {}
    /\ ops < MaxOps
    /\ ops' = ops + 1
    /\ dirs' = {"lib"}
    /\ files' = NewFiles
    /\ unsure' = IF \E q \in Proc : Busy(q) THEN Path ELSE unsure
    /\ UNCHANGED <<trash, log, procVars, deaths, acked, lost, cut, odd>>

\* A write of p is cut off: the files are truncated and still empty.
CutOff(p, xs) ==
    /\ Needs(p) \subseteq dirs
    /\ files' = [x \in Path |-> IF x \in xs THEN Blank ELSE files[x]]
    /\ lost' = lost \cup UNION {Held(files[x]) : x \in xs}
    /\ unsure' = unsure \cup xs
    /\ cut' = cut \cup xs
    /\ UNCHANGED log

\* A command is killed: before its next write, when what it did is not logged, or in it.
Die(p) ==
    /\ Busy(p)
    /\ deaths < MaxDeaths
    /\ deaths' = deaths + 1
    /\ \/ /\ unsure' = unsure \cup {x \in Under(cmd[p].path) : pc[p] \in {"log", "logwrite"}}
          /\ UNCHANGED <<files, log, lost, cut>>
       \/ pc[p] \in {"create", "rewrite"} /\ CutOff(p, {cmd[p].path})
       \/ pc[p] \in {"subindex", "index"} /\ CutOff(p, Indexes(p))
       \/ /\ pc[p] = "logwrite"
          /\ "lib" \in dirs
          /\ log' = <<>>
          /\ unsure' = Path
          /\ UNCHANGED <<files, lost, cut>>
    /\ Exit(p)
    /\ UNCHANGED <<dirs, trash, acked, odd>>

Command(p) ==
    \/ \E x \in Path, value \in Text : cmd_add(p, x, value)
    \/ \E t \in Target : cmd_rm(p, t)
    \/ \E t \in Target : cmd_restore(p, t)
    \/ \E x \in Path, value \in Text \cup {"keep"} : cmd_edit(p, x, value)
    \/ cmd_log(p)
    \/ cmd_index(p)

Step(p) ==
    \/ AddWrite(p)
    \/ RmRename(p)
    \/ RestoreRename(p)
    \/ EditWrite(p)
    \/ AppendLogRead(p)
    \/ AppendLogWrite(p)
    \/ IndexWrite(p)
    \/ NoDirectory(p)

Next ==
    \/ \E p \in Proc : Command(p)
    \/ \E p \in Proc : Step(p)
    \/ \E p \in Proc : Die(p)
    \/ cmd_lib_rm
    \/ cmd_lib_new

Spec == Init /\ [][Next]_vars

-----------------------------------------------------------------------------
(* Properties *)

\* What a command reported as done is in the library or in its trash, unless it
\* was destroyed by a second rm of its path (which writes over the copy in the
\* trash), by an index written over a document of that name, by libs rm, by a
\* command that was killed while it wrote, or by two commands at the same time:
\* no other sequence of commands, on documents or on their directory, loses a
\* document or an edit.
NothingVanishes ==
    \A e \in acked : \/ e \in lost
                     \/ \E x \in Path : e \in Held(files[x]) \cup Held(trash[x])

\* The last entry of the log about path x, or about its directory, says that it is there.
LastSaysHere(x) ==
    \E i \in DOMAIN log :
        /\ x \in Under(log[i].path) /\ log[i].here
        /\ \A j \in DOMAIN log : j > i => x \notin Under(log[j].path)

\* When no command runs, the last entry about a concept or its directory says whether it
\* is there: no command logs what it did not do or does what it does not log, unless it
\* was killed or overlapped another, or the directory was restored or the log removed.
LogMatches ==
    (\A p \in Proc : ~ Busy(p)) =>
        \A x \in (Path \ Reserved) \ unsure :
            (files[x] # None) <=> LastSaysHere(x)

\* Validation finds an error only in a file whose write was cut off, or that carries a
\* command that was given values which YAML reads otherwise: commands with plain values,
\* alone or at the same time, and moves of directories make no concept that is invalid.
ConceptsValid ==
    \A x \in ValidateErrors : x \in cut \/ files[x].by \cap odd # {}
=============================================================================
