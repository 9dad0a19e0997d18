---------------------------- MODULE ConflictMerge ----------------------------
(***************************************************************************)
(* Conflict copies in the share directory of one machine: how a pull names *)
(* and writes them (materialize_with_conflict in nsmt-client fs.rs), and   *)
(* how `yggd merge` (main.rs) and the page of `yggd conflicts-web`         *)
(* (conflicts_web.rs) resolve them, at the same time as the synchronising  *)
(* yggd pulls and users edit. Each of them is a process of its own, and    *)
(* each can be killed between any two of its system calls.                 *)
(*                                                                         *)
(* A file name is a sequence of tokens: words, "-", "_", "." and "/". A    *)
(* content is a number, 0 the empty file.                                  *)
(***************************************************************************)
EXTENDS Naturals, FiniteSets, Sequences, SequencesExt

CONSTANTS
    Path,        \* the names of the shared files, relative to the directory
    LongPath,    \* those that are too long for the name of a copy to be a file name
    Fqn,         \* the fqn of this machine
    Stamp,       \* the time of each pull, as it stands in a name
    Cli, Web,    \* the merge commands, and the requests to the web page
    MaxVersions, \* bound: number of contents written by users and pulled
    MaxPulls     \* bound: number of files pulled

Resolver == Cli \cup Web
Prefix == <<".", "sync", "-", "conflict", "-">>

\* The processes that change files: the resolvers, and the pull.
ASSUME MergeAssumption ==
    /\ Path \subseteq Seq(STRING)
    /\ LongPath \subseteq Path
    /\ Fqn \in Seq(STRING)
    /\ Cli \cap Web = {}
    /\ "pull" \notin Resolver
    /\ {MaxVersions, MaxPulls} \subseteq Nat

\* A time, in milliseconds, is one word. Two pulls have different times, and a time
\* that is yet to come is in no name: the pulls of a file are seconds apart.
ASSUME StampAssumption ==
    /\ Stamp \in [1 .. MaxPulls -> STRING]
    /\ \A s, t \in 1 .. MaxPulls : Stamp[s] = Stamp[t] => s = t
    /\ \A t \in 1 .. MaxPulls :
          /\ Stamp[t] \notin {"-", "_", ".", "/", "sync", "conflict"} \cup Range(Fqn)
          /\ \A p \in Path : Stamp[t] \notin Range(p)

VARIABLES
    file,      \* name -> content, of the files that exist
    pull,      \* the pull under way
    pc,        \* resolver -> its position
    job,       \* resolver -> copy and main file, choice, and the content that it writes
    unlinked,  \* processes that have a file open which was removed: their writes are lost
    versions,  \* number of contents so far
    pulls,     \* number of pulls so far
    \* history
    stale,     \* processes whose file was changed by another one since they read it
    blank,     \* resolvers that write an empty file for a known reason: see NotEmptied
    owed,      \* the contents that users wrote and had no reason to lose: see VersionsKept
    broken     \* files that may be empty: see NotEmptied

merge == <<pc, job>>
history == <<stale, blank, owed, broken>>
vars == <<file, pull, merge, unlinked, versions, pulls, history>>

\* What a pull is doing, and whether the local content needs no copy, has one, or
\* could not be copied.
NoPull == [stage |-> "none", path |-> <<>>, copy |-> <<>>, content |-> 0, old |-> 0, kept |-> "equal"]
NoJob == [copy |-> <<>>, main |-> <<>>, choice |-> "none", bytes |-> 0]

Exists(n) == n \in DOMAIN file
Content(n) == IF Exists(n) THEN {file[n]} ELSE {}

\* A share directory with its files, and nobody at work.
Init ==
    /\ file = [p \in Path |-> 1]
    /\ pull = NoPull
    /\ pc = [r \in Resolver |-> "idle"]
    /\ job = [r \in Resolver |-> NoJob]
    /\ versions = 1
    /\ pulls = 0
    /\ unlinked = {} /\ stale = {} /\ blank = {} /\ owed = {} /\ broken = {}

-----------------------------------------------------------------------------
(* Names *)

\* What stands before the i-th token, and after it.
Before(s, i) == SubSeq(s, 1, i - 1)
After(s, i) == SubSeq(s, i + 1, Len(s))
Positions(s, t) == {i \in DOMAIN s : s[i] = t}

\* sanitize_name of the fqn, and replace('/', "_") of the path.
Sanitized(s, T) == [i \in DOMAIN s |-> IF s[i] \in T THEN "_" ELSE s[i]]

\* The directory of a path, with the slash, and its last part.
Parent(p) == IF Positions(p, "/") = {} THEN <<>> ELSE SubSeq(p, 1, Max(Positions(p, "/")))
FileName(p) == IF Positions(p, "/") = {} THEN p ELSE After(p, Max(Positions(p, "/")))

\* The copy lies beside the file, and its name holds the whole path.
CopyName(fqn, p, ts) ==
    Parent(p) \o Prefix \o Sanitized(fqn, {"/", "."}) \o <<"-">> \o Sanitized(p, {"/"})
              \o <<"-", Stamp[ts]>>

\* main_name_of, and the same lines of the merge command: the last "-" ends the
\* name, the first one begins it.
main_name_of(name) ==
    LET stripped == IF IsPrefix(Prefix, name) THEN After(name, 5) ELSE name
        body == IF Positions(stripped, "-") = {} THEN <<>>
                ELSE Before(stripped, Max(Positions(stripped, "-")))
    IN  IF Positions(body, "-") = {} THEN body ELSE After(body, Min(Positions(body, "-")))

\* conflict_path: the page takes any name that has no leading dot, or has the prefix.
conflict_path(name) == name # <<>> /\ (name[1] = "." => IsPrefix(Prefix, name))

\* fs::write needs a name in a directory that is there, and no directory of that name.
Directory(n) == n = <<>> \/ \E p \in Path : IsPrefix(n \o <<"/">>, p)
Writable(n) ==
    /\ ~ Directory(n)
    /\ FileName(n) # <<>>
    /\ Parent(n) = <<>> \/ \E p \in Path : IsPrefix(Parent(n), p)

-----------------------------------------------------------------------------
(* Files and who has them open *)

Main(r) == job[r].main

Without(n) == [m \in DOMAIN file \ {n} |-> file[m]]
Put(n, x) == [m \in DOMAIN file \cup {n} |-> IF m = n THEN x ELSE file[m]]

\* Those who go on with what they have read of n: the resolvers that install it, and
\* the pull that has compared it.
Readers(n) ==
    {r \in Resolver : /\ job[r].copy = n /\ job[r].choice = "local"
                      /\ pc[r] \in {"write", "fill", "remove"}}
    \cup (IF pull.stage \in {"copy", "create"} /\ pull.path = n THEN {"pull"} ELSE {})

\* Those who have n open, and write on when it is removed.
Writers(n) ==
    {r \in Resolver : pc[r] = "fill" /\ Main(r) = n}
    \cup (IF \/ pull.stage = "copy" /\ pull.copy = n
             \/ pull.stage = "fill" /\ pull.path = n THEN {"pull"} ELSE {})

-----------------------------------------------------------------------------
(* The pull of a file, and users *)

\* The object of p, with content x, has been fetched: compare it with the local file.
\* If they differ, fs::copy makes the copy, which is empty at first; if its name is
\* too long, nothing is made, and the error is ignored.
PullCompare(p, x) ==
    LET differ == ~ (Content(p) \subseteq {x})
        copy == CopyName(Fqn, p, pulls + 1)
        made == differ /\ p \notin LongPath
    IN
    /\ pull = NoPull
    /\ pulls < MaxPulls
    /\ pulls' = pulls + 1
    /\ versions' = IF x > versions THEN x ELSE versions
    /\ pull' = [stage |-> IF made THEN "copy" ELSE "create", path |-> p, copy |-> copy,
                content |-> x, old |-> IF Exists(p) THEN file[p] ELSE 0,
                kept |-> IF made THEN "copy" ELSE IF differ THEN "failed" ELSE "equal"]
    /\ file' = IF made THEN Put(copy, 0) ELSE file
    /\ stale' = (IF made THEN stale \cup Readers(copy) ELSE stale) \ {"pull"}
    /\ UNCHANGED <<merge, unlinked, blank, owed, broken>>

\* The copy is filled with the content of the file, or with what it was if the file
\* has been replaced meanwhile.
PullCopy ==
    /\ pull.stage = "copy"
    /\ \E x \in Content(pull.path) \cup {pull.old} :
          /\ pull' = [pull EXCEPT !.stage = "create", !.old = x,
                                 !.kept = IF "pull" \in unlinked THEN "failed" ELSE "copy"]
          /\ file' = IF "pull" \in unlinked THEN file ELSE Put(pull.copy, x)
          /\ owed' = IF "pull" \in unlinked THEN owed ELSE owed \ (Content(pull.copy) \ {x})
          /\ stale' = ((stale \cup Readers(pull.copy)) \ {"pull"})
                       \cup (IF Content(pull.path) = {x} THEN {} ELSE {"pull"})
    /\ unlinked' = unlinked \ {"pull"}
    /\ UNCHANGED <<merge, versions, pulls, blank, broken>>

\* A mutant that creates the file before the copy is filled.
PullCreateEarly ==
    /\ pull.stage \in {"copy", "create"}
    /\ file' = Put(pull.path, 0)
    /\ pull' = [pull EXCEPT !.stage = "fill"]
    /\ stale' = (stale \cup Readers(pull.path)) \ {"pull"}
    /\ UNCHANGED <<merge, unlinked, versions, pulls, blank, owed, broken>>

\* materialize: File::create empties the file, whatever it is by now. A content that
\* was written since the look, or could not be copied, is lost; one that is equal to
\* the remote one is on the server.
PullCreate ==
    /\ pull.stage = "create"
    /\ owed' = IF "pull" \in stale \/ pull.kept # "copy" THEN owed \ Content(pull.path) ELSE owed
    /\ file' = Put(pull.path, 0)
    /\ pull' = [pull EXCEPT !.stage = "fill"]
    /\ stale' = (stale \cup Readers(pull.path)) \ {"pull"}
    /\ UNCHANGED <<merge, unlinked, versions, pulls, blank, broken>>

\* And write_all fills it.
PullFill ==
    LET landed == "pull" \notin unlinked IN
    /\ pull.stage = "fill"
    /\ file' = IF landed THEN Put(pull.path, pull.content) ELSE file
    /\ owed' = IF landed THEN owed \ Content(pull.path) ELSE owed
    /\ broken' = IF landed THEN broken \ {pull.path} ELSE broken
    /\ stale' = (IF landed THEN stale \cup Readers(pull.path) ELSE stale) \ {"pull"}
    /\ unlinked' = unlinked \ {"pull"}
    /\ pull' = NoPull
    /\ UNCHANGED <<merge, versions, pulls, blank>>

\* The yggd that pulls is killed; it may be started again.
PullKilled ==
    /\ pull.stage # "none"
    /\ broken' = IF pull.stage = "fill" THEN broken \cup {pull.path} ELSE broken
    /\ pull' = NoPull
    /\ stale' = stale \ {"pull"}
    /\ unlinked' = unlinked \ {"pull"}
    /\ UNCHANGED <<file, merge, versions, pulls, blank, owed>>

\* A user saves a new content in the place of the old one.
Edit(p) ==
    /\ versions < MaxVersions
    /\ versions' = versions + 1
    /\ owed' = (owed \ Content(p)) \cup {versions + 1}
    /\ file' = Put(p, versions + 1)
    /\ broken' = broken \ {p}
    /\ stale' = stale \cup Readers(p)
    /\ UNCHANGED <<pull, merge, unlinked, pulls, blank>>

-----------------------------------------------------------------------------
(* Resolving *)

\* A user names a file, has it and its main file before the eyes, and decides. It is
\* meant to be a copy, but the command takes any file that exists, and the page any
\* that conflict_path lets through.
Begin(r, n, choice) ==
    LET main == main_name_of(IF r \in Cli THEN FileName(n) ELSE n) IN
    /\ pc[r] = "idle"
    /\ job[r] = NoJob
    /\ r \in Web => conflict_path(n)
    /\ choice = "custom" => r \in Web
    /\ job' = [job EXCEPT ![r] = [copy |-> n, main |-> main, choice |-> choice, bytes |-> 0]]
    /\ pc' = [pc EXCEPT ![r] = IF choice = "remote" THEN "remove" ELSE "read"]
    /\ UNCHANGED <<file, pull, unlinked, versions, pulls, history>>

\* The handler finds the copy gone: "not found".
Refuse(r) ==
    /\ pc[r] = "read"
    /\ ~Exists(job[r].copy)
    /\ pc' = [pc EXCEPT ![r] = "done"]
    /\ UNCHANGED <<file, pull, job, unlinked, versions, pulls, history>>

\* The copy is there and will be read: for the command a file that is gone is an
\* error, for the page it is as good as an empty one.
Found(r) ==
    /\ pc[r] = "read"
    /\ Exists(job[r].copy)
    /\ pc' = [pc EXCEPT ![r] = "found"]
    /\ UNCHANGED <<file, pull, job, unlinked, versions, pulls, history>>

ReadFails(r) ==
    /\ pc[r] = "found"
    /\ r \in Cli
    /\ ~Exists(job[r].copy)
    /\ pc' = [pc EXCEPT ![r] = "done"]
    /\ UNCHANGED <<file, pull, job, unlinked, versions, pulls, history>>

\* A mutant that removes the copy before it reads it.
ReadAfterRemoving(r) ==
    /\ pc[r] = "found"
    /\ job[r].choice = "local"
    /\ file' = Without(job[r].copy)
    /\ pc' = [pc EXCEPT ![r] = "write"]
    /\ UNCHANGED <<pull, job, unlinked, versions, pulls, history>>

Read(r) ==
    LET n == job[r].copy IN
    /\ pc[r] = "found"
    /\ job[r].choice = "local"
    /\ Exists(n) \/ r \in Web
    /\ job' = [job EXCEPT ![r].bytes = IF Exists(n) THEN file[n] ELSE 0]
    /\ pc' = [pc EXCEPT ![r] = "write"]
    /\ blank' = IF \/ Content(n) = {0}
                   \/ ~ Exists(n) /\ \E q \in Resolver : pc[q] = "done" /\ job[q].copy = n
                THEN blank \cup {r} ELSE blank
    /\ UNCHANGED <<file, pull, unlinked, versions, pulls, stale, owed, broken>>

\* The text of the user's own merge, which is empty if the request has none.
ReadCustom(r) ==
    /\ pc[r] = "found"
    /\ job[r].choice = "custom"
    /\ \/ /\ versions < MaxVersions
          /\ versions' = versions + 1
          /\ job' = [job EXCEPT ![r].bytes = versions + 1]
          /\ blank' = blank
       \/ /\ versions' = versions
          /\ job' = [job EXCEPT ![r].bytes = 0]
          /\ blank' = blank \cup {r}
    /\ pc' = [pc EXCEPT ![r] = "write"]
    /\ UNCHANGED <<file, pull, unlinked, pulls, stale, owed, broken>>

\* The main file cannot be opened: the request ends, and the copy stays.
WriteFails(r) ==
    /\ pc[r] = "write"
    /\ ~ Writable(Main(r))
    /\ pc' = [pc EXCEPT ![r] = "done"]
    /\ UNCHANGED <<file, pull, job, unlinked, versions, pulls, history>>

\* std::fs::write opens the main file, which empties it, and writes the bytes. The
\* user has decided against the content of the main file.
Truncate(r) ==
    /\ pc[r] = "write"
    /\ Writable(Main(r))
    /\ owed' = owed \ Content(Main(r))
    /\ file' = Put(Main(r), 0)
    /\ stale' = stale \cup Readers(Main(r))
    /\ pc' = [pc EXCEPT ![r] = "fill"]
    /\ UNCHANGED <<pull, job, unlinked, versions, pulls, blank, broken>>

Fill(r) ==
    LET landed == r \notin unlinked
        bytes == job[r].bytes
        written == IF job[r].choice = "custom" THEN {bytes} \ {0} ELSE {}
    IN
    /\ pc[r] = "fill"
    /\ file' = IF landed THEN Put(Main(r), bytes) ELSE file
    /\ owed' = IF landed THEN (owed \ (Content(Main(r)) \ {bytes})) \cup written ELSE owed
    /\ broken' = IF ~ landed THEN broken
                 ELSE IF bytes # 0 THEN broken \ {Main(r)}
                 ELSE IF r \in blank THEN broken \cup {Main(r)}
                 ELSE broken
    /\ stale' = stale \cup (IF landed THEN Readers(Main(r)) ELSE {r})
    /\ blank' = blank \ {r}
    /\ unlinked' = unlinked \ {r}
    /\ pc' = [pc EXCEPT ![r] = "remove"]
    /\ UNCHANGED <<pull, job, versions, pulls>>

\* The copy is removed; if it is gone, the command ends with an error, which changes
\* nothing. The user has decided against its content, unless it was to be installed:
\* then it is lost only if it is not what was read, or the main file was removed.
RemoveCopy(r) ==
    LET n == job[r].copy IN
    /\ pc[r] = "remove"
    /\ owed' = IF job[r].choice # "local" \/ r \in stale THEN owed \ Content(n) ELSE owed
    /\ file' = Without(n)
    /\ stale' = (stale \cup Readers(n)) \ {r}
    /\ unlinked' = unlinked \cup Writers(n)
    /\ pc' = [pc EXCEPT ![r] = "done"]
    /\ UNCHANGED <<pull, job, versions, pulls, blank, broken>>

\* The process is killed.
Crash(r) ==
    /\ pc[r] \in {"read", "found", "write", "fill", "remove"}
    /\ broken' = IF pc[r] = "fill" THEN broken \cup {Main(r)} ELSE broken
    /\ pc' = [pc EXCEPT ![r] = "done"]
    /\ unlinked' = unlinked \ {r}
    /\ stale' = stale \ {r}
    /\ blank' = blank \ {r}
    /\ UNCHANGED <<file, pull, job, versions, pulls, owed>>

Resolve(r) ==
    \/ \E n \in DOMAIN file, choice \in {"local", "remote", "custom"} : Begin(r, n, choice)
    \/ Refuse(r) \/ Found(r) \/ ReadFails(r) \/ Read(r) \/ ReadCustom(r)
    \/ WriteFails(r) \/ Truncate(r) \/ Fill(r) \/ RemoveCopy(r)

\* The remote content is a new one, or the local one, and not empty.
Remote(p) == {v \in {versions + 1} : versions < MaxVersions} \cup (Content(p) \ {0})

Pull ==
    \/ \E p \in Path : \E x \in Remote(p) : PullCompare(p, x)
    \/ PullCopy \/ PullCreate \/ PullFill \/ PullKilled

Next ==
    \/ Pull
    \/ \E p \in Path : Edit(p)
    \/ \E r \in Resolver : Resolve(r) \/ Crash(r)

Spec == Init /\ [][Next]_vars

-----------------------------------------------------------------------------
(* Properties *)

\* What a user wrote is in a file or a copy, except if a user replaced it or decided
\* against it in a merge, or the server has it as well, or it was written between the
\* look of a pull or a merge at the file and the moment that process overwrote or
\* removed it, or a pull overwrote it whose copy failed as the name was too long. A
\* merge or a pull that is killed at any point, or that meets another one, loses
\* nothing else: a file is emptied only after its copy is filled, and a copy is removed
\* only after its content is in the main file.
VersionsKept == owed \subseteq {file[n] : n \in DOMAIN file}

\* A shared file is empty only while it is written, or after a merge or a pull was
\* killed at that moment, or when two resolved the same copy at the same time and the
\* page took the copy that was gone for an empty one, or when what was taken for the
\* copy was an empty file, or when a custom merge came without a text.
NotEmptied ==
    \A p \in Path \cap DOMAIN file :
        file[p] = 0 => \/ p \in broken
                       \/ pull.stage = "fill" /\ pull.path = p
                       \/ \E r \in Resolver : pc[r] = "fill" /\ Main(r) = p
=============================================================================
