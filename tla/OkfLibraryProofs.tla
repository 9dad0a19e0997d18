--------------------------- MODULE OkfLibraryProofs ---------------------------
(***************************************************************************)
(* Proofs about OkfLibrary, for any number of processes, paths, commands   *)
(* and killed commands.                                                    *)
(***************************************************************************)
EXTENDS OkfLibrary, TLAPS

-----------------------------------------------------------------------------
(* Types *)

Position == {"idle", "create", "rename", "unrename", "rewrite",
             "subindex", "index", "log", "logwrite"}

\* What a command under way carries with it.
CommandOK(p) ==
    /\ pc[p] \in {"create", "rewrite"} =>
          cmd[p].path \in Path /\ cmd[p].id \in Op /\ cmd[p].here = TRUE
    /\ pc[p] = "rename" => cmd[p].path \in Target /\ cmd[p].id = 0 /\ cmd[p].here = FALSE
    /\ pc[p] = "unrename" => cmd[p].path \in Target /\ cmd[p].id = 0 /\ cmd[p].here = TRUE
    /\ pc[p] \in {"create", "unrename"} => seen[p] = {}

\* The processes, and the library.
ProcsOK ==
    /\ pc \in [Proc -> Position]
    /\ cmd \in [Proc -> Cmd]
    /\ seen \in [Proc -> SUBSET Op]
    /\ logged \in [Proc -> Seq(Entry)]
    /\ ops \in 0 .. MaxOps
    /\ \A p \in Proc : CommandOK(p)

LibraryOK ==
    /\ dirs \subseteq {"lib", "sub", "trashed"}
    /\ files \in [Path -> Doc \cup {None}]
    /\ trash \in [Path -> Doc \cup {None}]
    /\ "lib" \in dirs \/ \A x \in Path : files[x] = None /\ trash[x] = None
    /\ log \in Seq(Entry)
    /\ deaths \in 0 .. MaxDeaths
    /\ acked \subseteq Op
    /\ lost \subseteq Op
    /\ unsure \subseteq Path
    /\ cut \subseteq Path
    /\ odd \subseteq Op

TypeInv == ProcsOK /\ LibraryOK

\* The two parts give the type invariant of the model.
LEMMA TypeInvTypes == TypeInv => TypeOK
  BY DEF TypeInv, ProcsOK, LibraryOK, TypeOK, Position

\* What a target stands for are paths; no path is the name of a directory or of the log.
LEMMA TargetFacts ==
    /\ SubPath \subseteq Path /\ Reserved \subseteq Path /\ None \notin Path
    /\ \A t : Under(t) \subseteq Path
    /\ \A x \in Path : Under(x) = {x} /\ x # "sub" /\ x # "log"
    /\ Under(None) = {} /\ Under("log") = {} /\ Under("sub") = SubPath
  BY OkfAssumption DEF Under

\* An index and a truncated file are documents that carry no effect.
LEMMA BlankFacts == Blank \in Doc /\ Blank # None /\ Blank.by = {} /\ Blank.text = "broken"
  BY NoneAssumption DEF Blank, Doc, Text

\* The initial state has the types.
LEMMA InitTyped == Init => TypeInv
<1> SUFFICES ASSUME Init PROVE TypeInv
  OBVIOUS
<1>1. NoCmd \in Cmd
  BY OkfAssumption DEF NoCmd, Cmd, Text
<1>2. ProcsOK
  BY <1>1, OkfAssumption DEF Init, ProcsOK, Position, CommandOK
<1>3. LibraryOK
  BY OkfAssumption, BlankFacts DEF Init, LibraryOK, NewFiles
<1>. QED  BY <1>2, <1>3 DEF TypeInv

\* Process p alone does something.
Alone(p) ==
    \A q \in Proc \ {p} : /\ pc'[q] = pc[q] /\ cmd'[q] = cmd[q]
                          /\ seen'[q] = seen[q] /\ logged'[q] = logged[q]

\* A command starts.
Began(p, t, here, next, text, s) ==
    /\ Alone(p) /\ pc[p] = "idle" /\ pc'[p] = next /\ seen'[p] = s
    /\ cmd'[p].path = t /\ cmd'[p].here = here /\ cmd'[p].text = text
    /\ cmd'[p].id = IF next \in {"create", "rewrite"} THEN ops + 1 ELSE 0
    /\ ops + 1 \in Op /\ "lib" \in dirs
    /\ CommandOK(p)' => ProcsOK'
    /\ unsure' = (IF \E q \in Proc : Busy(q) THEN Path ELSE unsure)
    /\ unsure \subseteq unsure' /\ unsure' \subseteq Path
    /\ UNCHANGED <<dirs, files, trash, log, logged, deaths, acked, lost, cut>>

\* What the first step of a command changes besides its own process.
LEMMA BeginFacts ==
    ASSUME TypeInv, NEW p \in Proc, NEW t \in Target \cup {None}, NEW here \in BOOLEAN,
           NEW next \in Position, NEW text \in Text, NEW s \in SUBSET Op,
           Begin(p, t, here, next, text, s)
    PROVE  Began(p, t, here, next, text, s)
<1>t. ProcsOK /\ unsure \subseteq Path /\ MaxOps \in Nat
  BY OkfAssumption DEF TypeInv, LibraryOK
<1>1. ops \in Nat /\ ops + 1 \in Op /\ ops' = ops + 1 /\ ops' \in 0 .. MaxOps
  BY <1>t DEF Begin, ProcsOK, Op
<1> DEFINE id == IF next \in {"create", "rewrite"} THEN ops + 1 ELSE 0
           c == [path |-> t, here |-> here, text |-> text, id |-> id]
<1>2. id \in 0 .. MaxOps
  BY <1>1, <1>t DEF Op
<1> HIDE DEF id
<1>3. c \in Cmd
  BY <1>2 DEF Cmd
<1>4. c.path = t /\ c.here = here /\ c.text = text /\ c.id = id
  OBVIOUS
<1>5. /\ pc[p] = "idle" /\ "lib" \in dirs /\ pc' = [pc EXCEPT ![p] = next]
      /\ cmd' = [cmd EXCEPT ![p] = c] /\ seen' = [seen EXCEPT ![p] = s]
      /\ unsure' = (IF \E q \in Proc : Busy(q) THEN Path ELSE unsure)
      /\ UNCHANGED <<dirs, files, trash, log, logged, deaths, acked, lost, cut>>
  BY DEF Begin, id
<1> HIDE DEF c
<1>6. /\ pc'[p] = next /\ seen'[p] = s /\ cmd'[p] = c /\ Alone(p)
      /\ pc' \in [Proc -> Position] /\ cmd' \in [Proc -> Cmd]
      /\ seen' \in [Proc -> SUBSET Op]
  BY <1>3, <1>5, <1>t DEF ProcsOK, Alone
<1>7. \A q \in Proc \ {p} : CommandOK(q)'
  BY <1>6, <1>t DEF ProcsOK, Alone, CommandOK
<1>8. CommandOK(p)' => ProcsOK'
  BY <1>1, <1>5, <1>6, <1>7, <1>t DEF ProcsOK
<1>9. cmd'[p].path = t /\ cmd'[p].here = here /\ cmd'[p].text = text /\ cmd'[p].id = id
  BY <1>4, <1>6
<1>10. unsure \subseteq unsure' /\ unsure' \subseteq Path
  BY <1>5, <1>t
<1>. QED  BY <1>1, <1>5, <1>6, <1>8, <1>9, <1>10 DEF id, Began

\* A command goes on.
LEMMA GotoFacts ==
    ASSUME TypeInv, NEW p \in Proc, NEW next \in {"log", "index"}, Goto(p, next)
    PROVE  ProcsOK' /\ Alone(p) /\ pc'[p] = next /\ cmd' = cmd /\ seen' = seen
<1>1. /\ pc' = [pc EXCEPT ![p] = next] /\ UNCHANGED <<cmd, seen, logged, ops>> /\ ProcsOK
  BY DEF Goto, TypeInv
<1>2. /\ pc'[p] = next /\ pc' \in [Proc -> Position] /\ Alone(p)
  BY <1>1 DEF ProcsOK, Position, Alone
<1>3. \A q \in Proc \ {p} : CommandOK(q)'
  BY <1>1, <1>2 DEF ProcsOK, Alone, CommandOK
<1>4. CommandOK(p)'
  BY <1>1, <1>2 DEF ProcsOK, CommandOK
<1>. QED  BY <1>1, <1>2, <1>3, <1>4 DEF ProcsOK

\* A command ends.
LEMMA ExitFacts ==
    ASSUME TypeInv, NEW p \in Proc, Exit(p)
    PROVE  ProcsOK' /\ Alone(p) /\ pc'[p] = "idle"
<1>1. /\ pc' = [pc EXCEPT ![p] = "idle"] /\ cmd' = [cmd EXCEPT ![p] = NoCmd]
      /\ seen' = [seen EXCEPT ![p] = {}] /\ logged' = [logged EXCEPT ![p] = <<>>]
      /\ ops' = ops /\ ProcsOK
  BY DEF Exit, TypeInv
<1>2. NoCmd \in Cmd /\ {} \in SUBSET Op /\ <<>> \in Seq(Entry)
  BY OkfAssumption DEF NoCmd, Cmd, Text
<1>3. /\ pc'[p] = "idle" /\ pc' \in [Proc -> Position] /\ cmd' \in [Proc -> Cmd] /\ Alone(p)
      /\ seen' \in [Proc -> SUBSET Op] /\ logged' \in [Proc -> Seq(Entry)]
  BY <1>1, <1>2 DEF ProcsOK, Position, Alone
<1>4. \A q \in Proc \ {p} : CommandOK(q)'
  BY <1>1, <1>3 DEF ProcsOK, Alone, CommandOK
<1>5. CommandOK(p)'
  BY <1>3 DEF CommandOK
<1>. QED  BY <1>1, <1>3, <1>4, <1>5 DEF ProcsOK

\* What a command that writes a document is about to write is that of a command with
\* odd values, or has a type.
Sound(by, text) == text = "typed" \/ by \cap odd' # {}

\* What every command does when it starts: nothing but its process, ops, unsure and odd
\* changes, and what it carries is as it should be.
Started(p) ==
    /\ ProcsOK' /\ Alone(p) /\ pc[p] = "idle" /\ "lib" \in dirs
    /\ \/ pc'[p] \in {"create", "rename", "unrename", "rewrite", "subindex", "index"}
       \/ pc'[p] = "log" /\ cmd'[p].path = None /\ cmd'[p].id = 0
    /\ pc'[p] = "create" => Sound({cmd'[p].id}, cmd'[p].text)
    /\ pc'[p] = "rewrite" =>
          \/ Sound({cmd'[p].id}, cmd'[p].text)
          \/ LET x == cmd'[p].path IN
             /\ x \in Path /\ files[x] # None /\ files[x].text # "broken"
             /\ seen'[p] = files[x].by /\ cmd'[p].text = files[x].text
    /\ unsure' = (IF \E q \in Proc : Busy(q) THEN Path ELSE unsure)
    /\ unsure \subseteq unsure' /\ unsure' \subseteq Path
    /\ odd \subseteq odd' /\ odd' \subseteq Op
    /\ UNCHANGED <<dirs, files, trash, log, logged, deaths, acked, lost, cut>>

\* Each of the commands begins like that.
LEMMA CommandFacts ==
    ASSUME TypeInv, NEW p \in Proc, Command(p)
    PROVE  Started(p)
<1>t. ProcsOK /\ LibraryOK /\ odd \subseteq Op
  BY DEF TypeInv, LibraryOK
<1>d. \A x \in Path : files[x] # None => files[x].by \in SUBSET Op /\ files[x].text \in Text
  BY <1>t DEF LibraryOK, Doc
<1>s. /\ {} \in SUBSET Op /\ "typed" \in Text /\ TRUE \in BOOLEAN /\ FALSE \in BOOLEAN
      /\ None \in Target \cup {None} /\ \A x \in Path : x \in Target \cup {None}
      /\ \A t \in Target : t \in Target \cup {None}
  BY DEF Text, Target
<1>p. Position = {"idle", "create", "rename", "unrename", "rewrite",
                  "subindex", "index", "log", "logwrite"}
  BY DEF Position
<1>1. ASSUME NEW x \in Path, NEW value \in Text, cmd_add(p, x, value)
      PROVE  Started(p)
  <2>1. "create" \in Position /\ Begin(p, x, TRUE, "create", value, {})
    BY <1>1, <1>p DEF cmd_add
  <2>2. Began(p, x, TRUE, "create", value, {})
    BY <2>1, <1>s, BeginFacts, Zenon
  <2>3. CommandOK(p)'
    BY <2>2 DEF Began, CommandOK
  <2>4. odd' = odd \cup {m \in {ops + 1} : value \in {"untyped", "broken"}}
    BY <1>1 DEF cmd_add, Given
  <2>5. Sound({cmd'[p].id}, cmd'[p].text) /\ odd \subseteq odd' /\ odd' \subseteq Op
    BY <2>2, <2>4, <1>t DEF Began, Sound, Text
  <2>. QED  BY <2>2, <2>3, <2>5 DEF Began, Started
<1>2. ASSUME NEW t \in Target, cmd_rm(p, t)
      PROVE  Started(p)
  <2>1. "rename" \in Position /\ Begin(p, t, FALSE, "rename", "typed", {}) /\ odd' = odd
    BY <1>2, <1>p DEF cmd_rm
  <2>2. Began(p, t, FALSE, "rename", "typed", {})
    BY <2>1, <1>s, BeginFacts, Zenon
  <2>3. CommandOK(p)'
    BY <2>2 DEF Began, CommandOK
  <2>. QED  BY <2>1, <2>2, <2>3, <1>t DEF Began, Started
<1>3. ASSUME NEW t \in Target, cmd_restore(p, t)
      PROVE  Started(p)
  <2>1. "unrename" \in Position /\ Begin(p, t, TRUE, "unrename", "typed", {}) /\ odd' = odd
    BY <1>3, <1>p DEF cmd_restore
  <2>2. Began(p, t, TRUE, "unrename", "typed", {})
    BY <2>1, <1>s, BeginFacts, Zenon
  <2>3. CommandOK(p)'
    BY <2>2 DEF Began, CommandOK
  <2>. QED  BY <2>1, <2>2, <2>3, <1>t DEF Began, Started
<1>4. ASSUME NEW x \in Path, NEW value \in Text \cup {"keep"}, cmd_edit(p, x, value)
      PROVE  Started(p)
  <2> DEFINE text == IF value = "keep" THEN files[x].text ELSE value
             by == files[x].by
  <2>1. /\ "rewrite" \in Position /\ Begin(p, x, TRUE, "rewrite", text, by)
        /\ files[x] # None /\ files[x].text # "broken"
    BY <1>4, <1>p DEF cmd_edit
  <2>2. text \in Text /\ by \in SUBSET Op
    BY <2>1, <1>d
  <2>3. /\ value = "keep" => text = files[x].text
        /\ value # "keep" => text = value
    OBVIOUS
  <2> HIDE DEF text, by
  <2>4. Began(p, x, TRUE, "rewrite", text, by)
    BY <2>1, <2>2, <1>s, BeginFacts, Zenon
  <2>5. CommandOK(p)'
    BY <2>4 DEF Began, CommandOK
  <2>6. odd' = odd \cup {m \in {ops + 1} : value \in {"untyped", "broken"}}
    BY <1>4 DEF cmd_edit, Given
  <2>7. odd \subseteq odd' /\ odd' \subseteq Op
    BY <2>4, <2>6, <1>t DEF Began
  <2>8. \/ Sound({cmd'[p].id}, cmd'[p].text)
        \/ LET y == cmd'[p].path IN
           /\ y \in Path /\ files[y] # None /\ files[y].text # "broken"
           /\ seen'[p] = files[y].by /\ cmd'[p].text = files[y].text
    <3>1. CASE value = "keep"
      BY <3>1, <2>1, <2>3, <2>4 DEF Began, by
    <3>2. CASE value # "keep"
      BY <3>2, <2>2, <2>3, <2>4, <2>6 DEF Began, Sound, Text
    <3>. QED  BY <3>1, <3>2
  <2>. QED  BY <2>4, <2>5, <2>7, <2>8 DEF Began, Started
<1>5. CASE cmd_log(p)
  <2>1. "log" \in Position /\ Begin(p, None, TRUE, "log", "typed", {}) /\ odd' = odd
    BY <1>5, <1>p DEF cmd_log
  <2>2. Began(p, None, TRUE, "log", "typed", {})
    BY <2>1, <1>s, BeginFacts, Zenon
  <2>3. CommandOK(p)'
    BY <2>2 DEF Began, CommandOK
  <2>. QED  BY <2>1, <2>2, <2>3, <1>t DEF Began, Started
<1>6. CASE cmd_index(p)
  <2>1. PICK next \in {"index", "subindex"} : Begin(p, None, TRUE, next, "typed", {})
    BY <1>6 DEF cmd_index
  <2>2. next \in Position /\ odd' = odd
    BY <1>6, <1>p DEF cmd_index
  <2>3. Began(p, None, TRUE, next, "typed", {})
    BY <2>1, <2>2, <1>s, BeginFacts, Zenon
  <2>4. CommandOK(p)'
    BY <2>3 DEF Began, CommandOK
  <2>. QED  BY <2>2, <2>3, <2>4, <1>t DEF Began, Started
<1>. QED  BY <1>1, <1>2, <1>3, <1>4, <1>5, <1>6 DEF Command

\* The document that a command writes, and the moves of documents between two trees.
LEMMA DocFacts ==
    ASSUME TypeInv
    PROVE  /\ \A x \in Path : Held(files[x]) \subseteq Op /\ Held(trash[x]) \subseteq Op
           /\ \A p \in Proc : pc[p] \in {"create", "rewrite"} =>
                 Written(p) \in Doc /\ Written(p) # None /\ Held(Written(p)) = seen[p] \cup {cmd[p].id}
           /\ \A t : /\ Received(t, files, trash) \in [Path -> Doc \cup {None}]
                     /\ Received(t, trash, files) \in [Path -> Doc \cup {None}]
                     /\ Vacated(t, files) \in [Path -> Doc \cup {None}]
                     /\ Vacated(t, trash) \in [Path -> Doc \cup {None}]
<1>t. /\ files \in [Path -> Doc \cup {None}] /\ trash \in [Path -> Doc \cup {None}]
      /\ cmd \in [Proc -> Cmd] /\ seen \in [Proc -> SUBSET Op] /\ \A p \in Proc : CommandOK(p)
  BY DEF TypeInv, ProcsOK, LibraryOK
<1>1. \A x \in Path : Held(files[x]) \subseteq Op /\ Held(trash[x]) \subseteq Op
  BY <1>t DEF Held, Doc
<1>2. ASSUME NEW p \in Proc, pc[p] \in {"create", "rewrite"}
      PROVE  Written(p) \in Doc /\ Written(p) # None /\ Held(Written(p)) = seen[p] \cup {cmd[p].id}
  <2>1. seen[p] \cup {cmd[p].id} \in SUBSET Op /\ cmd[p].text \in Text
    BY <1>2, <1>t DEF CommandOK, Cmd
  <2>2. Written(p) \in Doc /\ Written(p).by = seen[p] \cup {cmd[p].id}
    BY <2>1 DEF Written, Doc
  <2>. QED  BY <2>2, NoneAssumption DEF Held
<1>3. ASSUME NEW t
      PROVE  /\ Received(t, files, trash) \in [Path -> Doc \cup {None}]
             /\ Received(t, trash, files) \in [Path -> Doc \cup {None}]
             /\ Vacated(t, files) \in [Path -> Doc \cup {None}]
             /\ Vacated(t, trash) \in [Path -> Doc \cup {None}]
  BY <1>t DEF Received, Vacated
<1>. QED  BY <1>1, <1>2, <1>3

\* Every step keeps the types.
LEMMA TypeStep == TypeInv /\ [Next]_vars => TypeInv'
<1> SUFFICES ASSUME TypeInv, [Next]_vars PROVE TypeInv'
  OBVIOUS
<1>t. /\ ProcsOK /\ LibraryOK /\ SubPath \subseteq Path /\ Reserved \subseteq Path
      /\ MaxOps \in Nat /\ MaxDeaths \in Nat
  BY OkfAssumption DEF TypeInv
<1>e. <<>> \in Seq(Entry) /\ log \in Seq(Entry)
  BY <1>t DEF LibraryOK
<1>h. \A x \in Path : Held(files[x]) \subseteq Op /\ Held(trash[x]) \subseteq Op
  BY DocFacts
<1>r. \A p \in Proc, x \in Path : Raced(p, x) \subseteq Op
  BY <1>h DEF Raced
<1>c. \A p \in Proc : CommandOK(p)
  BY <1>t DEF ProcsOK
<1>u. \A t : Under(t) \subseteq Path
  BY TargetFacts
<1>b. Blank \in Doc
  BY BlankFacts
<1>i. \A p \in Proc : Indexes(p) \subseteq Path
  BY <1>t DEF Indexes
<1>1. ASSUME NEW p \in Proc, Command(p)
      PROVE  TypeInv'
  BY <1>1, <1>t, CommandFacts DEF Started, TypeInv, LibraryOK
<1>2. ASSUME NEW p \in Proc, AddWrite(p) \/ EditWrite(p)
      PROVE  TypeInv'
  <2>1. /\ cmd[p].path \in Path /\ Written(p) \in Doc
    BY <1>2, <1>c, DocFacts DEF AddWrite, EditWrite, CommandOK
  <2>2. ProcsOK'
    BY <1>2, GotoFacts DEF AddWrite, EditWrite
  <2>3. /\ dirs' \subseteq dirs \cup {"lib", "sub"} /\ "lib" \in dirs' /\ files' = [files EXCEPT ![cmd[p].path] = Written(p)]
        /\ lost' = lost \cup Raced(p, cmd[p].path)
        /\ UNCHANGED <<trash, log, deaths, acked, unsure, cut, odd>>
    BY <1>2 DEF AddWrite, EditWrite, DirOf
  <2>4. lost' \subseteq Op /\ files' \in [Path -> Doc \cup {None}]
    BY <2>1, <2>3, <1>t, <1>r DEF LibraryOK
  <2>. QED  BY <2>2, <2>3, <2>4, <1>t DEF TypeInv, LibraryOK
<1>3. ASSUME NEW p \in Proc, RmRename(p)
      PROVE  TypeInv'
  <2> DEFINE t == cmd[p].path
  <2>2. ProcsOK'
    BY <1>3, GotoFacts, ExitFacts DEF RmRename
  <2>3. CASE Exists(t) /\ ~ Blocked(t, trash)
    <3>1. /\ dirs' \subseteq dirs \cup {"lib", "trashed"} /\ "lib" \in dirs'
          /\ trash' = Received(t, files, trash) /\ files' = Vacated(t, files)
          /\ log' = log \/ log' = <<>>
          /\ lost' = lost \cup UNION {Held(trash[x]) : x \in Under(t)}
          /\ unsure' = unsure \/ unsure' = Path
          /\ UNCHANGED <<deaths, acked, cut, odd>>
      BY <1>3, <2>3 DEF RmRename, TrashOf
    <3>2. lost' \subseteq Op
      BY <3>1, <1>h, <1>u, <1>t DEF LibraryOK
    <3>3. log' \in Seq(Entry)
      BY <3>1, <1>e
    <3>. QED  BY <3>1, <3>2, <3>3, <2>2, <1>t, DocFacts DEF TypeInv, LibraryOK
  <2>4. CASE ~(Exists(t) /\ ~ Blocked(t, trash))
    <3>1. /\ dirs' \subseteq dirs \cup {"lib", "trashed"} /\ "lib" \in dirs'
          /\ UNCHANGED <<files, trash, log, lost, unsure, deaths, acked, cut, odd>>
      BY <1>3, <2>4 DEF RmRename, TrashOf
    <3>. QED  BY <3>1, <2>2, <1>t DEF TypeInv, LibraryOK
  <2>. QED  BY <2>3, <2>4
<1>4. ASSUME NEW p \in Proc, RestoreRename(p)
      PROVE  TypeInv'
  <2> DEFINE t == cmd[p].path
  <2>2. ProcsOK'
    BY <1>4, GotoFacts, ExitFacts DEF RestoreRename
  <2>3. CASE InTrash(t) /\ ~ Blocked(t, files)
    <3>1. /\ dirs' \subseteq dirs \cup {"lib", "sub"} /\ "lib" \in dirs'
          /\ files' = Received(t, trash, files) /\ trash' = Vacated(t, trash)
          /\ lost' = lost \cup UNION {Raced(p, x) : x \in Under(t)}
          /\ unsure' = unsure \/ unsure' = unsure \cup SubPath
          /\ UNCHANGED <<log, deaths, acked, cut, odd>>
      BY <1>4, <2>3 DEF RestoreRename, DirOf
    <3>2. lost' \subseteq Op
      BY <3>1, <1>r, <1>u, <1>t DEF LibraryOK
    <3>. QED  BY <3>1, <3>2, <2>2, <1>t, DocFacts DEF TypeInv, LibraryOK
  <2>4. CASE ~(InTrash(t) /\ ~ Blocked(t, files))
    <3>1. /\ dirs' \subseteq dirs \cup {"lib", "sub"} /\ "lib" \in dirs'
          /\ UNCHANGED <<files, trash, log, lost, unsure, deaths, acked, cut, odd>>
      BY <1>4, <2>4 DEF RestoreRename, DirOf
    <3>. QED  BY <3>1, <2>2, <1>t DEF TypeInv, LibraryOK
  <2>. QED  BY <2>3, <2>4
<1>5. ASSUME NEW p \in Proc, NoDirectory(p)
      PROVE  TypeInv'
  <2>1. ProcsOK'
    BY <1>5, ExitFacts DEF NoDirectory
  <2>. QED  BY <1>5, <2>1, <1>t DEF NoDirectory, history, TypeInv, LibraryOK
<1>6. ASSUME NEW p \in Proc, AppendLogRead(p)
      PROVE  TypeInv'
  <2>1. PICK text \in {log, <<>>} : logged' = [logged EXCEPT ![p] = text]
    BY <1>6 DEF AppendLogRead
  <2>2. /\ pc' = [pc EXCEPT ![p] = "logwrite"] /\ dirs' = dirs \cup {"lib"}
        /\ UNCHANGED <<files, trash, log, cmd, seen, ops, deaths, acked, lost, unsure, cut, odd>>
    BY <1>6 DEF AppendLogRead, history
  <2>3. text \in Seq(Entry)
    BY <1>e
  <2>4. /\ logged' \in [Proc -> Seq(Entry)] /\ pc' \in [Proc -> Position]
    BY <2>1, <2>2, <2>3, <1>t DEF ProcsOK, Position
  <2>5. \A q \in Proc : CommandOK(q)'
    BY <2>2, <1>c, <1>t DEF CommandOK, ProcsOK
  <2>. QED  BY <2>2, <2>4, <2>5, <1>t DEF TypeInv, ProcsOK, LibraryOK
<1>7. ASSUME NEW p \in Proc, AppendLogWrite(p)
      PROVE  TypeInv'
  <2>1. ProcsOK'
    BY <1>7, ExitFacts DEF AppendLogWrite
  <2>2. cmd[p] \in Cmd /\ logged[p] \in Seq(Entry)
    BY <1>t DEF ProcsOK
  <2>3. [path |-> cmd[p].path, here |-> cmd[p].here] \in Entry /\ {cmd[p].id} \ {0} \subseteq Op
    BY <2>2, <1>t DEF Cmd, Entry, Op
  <2>4. LogAfterAppend(p) \in Seq(Entry)
    BY <2>2, <2>3 DEF LogAfterAppend
  <2>. QED  BY <1>7, <2>1, <2>3, <2>4, <1>t DEF AppendLogWrite, TypeInv, LibraryOK
<1>8. ASSUME NEW p \in Proc, IndexWrite(p)
      PROVE  TypeInv'
  <2>1. UNION {Held(files[x]) : x \in Indexes(p)} \subseteq Op /\ Needs(p) \subseteq {"lib", "sub"} /\ "lib" \in Needs(p)
    BY <1>8, <1>h, <1>i DEF IndexWrite, Needs
  <2>2. ProcsOK'
    BY <1>8, GotoFacts, ExitFacts DEF IndexWrite
  <2>. QED  BY <1>8, <2>1, <2>2, <1>b, <1>t DEF IndexWrite, TypeInv, LibraryOK
<1>9. ASSUME NEW p \in Proc, NEW xs \in SUBSET Path, CutOff(p, xs)
      PROVE  /\ files' \in [Path -> Doc \cup {None}] /\ log' = log /\ "lib" \in dirs
             /\ unsure' \subseteq Path /\ lost' \subseteq Op /\ cut' \subseteq Path
  BY <1>9, <1>b, <1>h, <1>t DEF CutOff, LibraryOK, Needs, TrashOf, DirOf
<1>10. ASSUME NEW p \in Proc, Die(p)
       PROVE  TypeInv'
  <2>1. ProcsOK'
    BY <1>10, ExitFacts DEF Die
  <2>2. deaths' \in 0 .. MaxDeaths
    BY <1>10, <1>t DEF Die, LibraryOK
  <2>3. UNCHANGED <<dirs, trash, acked, odd>>
    BY <1>10 DEF Die
  <2>4. /\ files' \in [Path -> Doc \cup {None}] /\ (log' = log \/ log' = <<>>)
        /\ unsure' \subseteq Path /\ lost' \subseteq Op /\ cut' \subseteq Path
        /\ files' = files \/ "lib" \in dirs
    <3>1. CASE \E xs \in SUBSET Path : CutOff(p, xs)
      BY <3>1, <1>9
    <3>2. CASE UNCHANGED <<files, lost, cut>> /\ (log' = log \/ log' = <<>>)
               /\ (unsure' = Path \/ unsure' \subseteq unsure \cup Under(cmd[p].path))
      BY <3>2, <1>u, <1>t DEF LibraryOK
    <3>3. pc[p] \in {"create", "rewrite"} => {cmd[p].path} \in SUBSET Path
      BY <1>c DEF CommandOK
    <3>4. Indexes(p) \in SUBSET Path
      BY <1>i
    <3>5. \/ \E xs \in SUBSET Path : CutOff(p, xs)
          \/ UNCHANGED <<files, lost, cut>> /\ (log' = log \/ log' = <<>>)
               /\ (unsure' = Path \/ unsure' \subseteq unsure \cup Under(cmd[p].path))
      BY <1>10, <3>3, <3>4 DEF Die
    <3>. QED  BY <3>1, <3>2, <3>5
  <2>. QED  BY <2>1, <2>2, <2>3, <2>4, <1>t, <1>e DEF TypeInv, LibraryOK
<1>11. CASE cmd_lib_rm \/ cmd_lib_new
  <2>1. ops' \in 0 .. MaxOps /\ UNCHANGED <<pc, cmd, seen, logged>>
    BY <1>11, <1>t DEF cmd_lib_rm, cmd_lib_new, procVars, ProcsOK
  <2>2. ProcsOK'
    BY <2>1, <1>t DEF ProcsOK, CommandOK
  <2>3. LibraryOK'
    <3>1. log' = log \/ log' = <<>>
      BY <1>11 DEF cmd_lib_rm, cmd_lib_new
    <3>2. log' \in Seq(Entry)
      BY <3>1, <1>e
    <3>3. lost' \subseteq Op
      BY <1>11, <1>t, <1>h DEF cmd_lib_rm, cmd_lib_new, LibraryOK
    <3>4. files' \in [Path -> Doc \cup {None}] /\ trash' \in [Path -> Doc \cup {None}]
      BY <1>11, <1>t, <1>b DEF cmd_lib_rm, cmd_lib_new, LibraryOK, NewFiles
    <3>. QED  BY <1>11, <3>2, <3>3, <3>4, <1>t DEF cmd_lib_rm, cmd_lib_new, LibraryOK
  <2>. QED  BY <2>2, <2>3 DEF TypeInv
<1>12. CASE UNCHANGED vars
  BY <1>12 DEF vars, procVars, history, TypeInv, ProcsOK, LibraryOK, CommandOK
<1>. QED
  BY <1>1, <1>2, <1>3, <1>4, <1>5, <1>6, <1>7, <1>8, <1>10, <1>11, <1>12
     DEF Next, Step

\* The types, and what a process at each step of its command has in its hands
\* (okf.rs), for every set of processes and paths.
THEOREM TypeInvCorrect == Spec => []TypeInv
  BY InitTyped, TypeStep, PTL DEF Spec

\* The types of the state hold in every reachable state.
THEOREM TypeCorrect == Spec => []TypeOK
  BY TypeInvCorrect, TypeInvTypes, PTL
-----------------------------------------------------------------------------
(* Nothing vanishes *)

\* The effect e is in the library or its trash, or was lost in one of the named ways.
Accounted(e) ==
    \/ e \in lost
    \/ \E x \in Path : e \in Held(files[x]) \cup Held(trash[x])

\* No step makes an effect disappear unnoticed.
LEMMA EffectsKept ==
    ASSUME TypeInv, [Next]_vars, NEW e, Accounted(e)
    PROVE  Accounted(e)'
<1>t. /\ LibraryOK /\ \A p \in Proc : CommandOK(p)
      /\ Reserved \subseteq Path
  BY OkfAssumption DEF TypeInv, ProcsOK
<1>f. files \in [Path -> Doc \cup {None}] /\ trash \in [Path -> Doc \cup {None}]
  BY <1>t DEF LibraryOK
<1>1. CASE e \in lost
  <2>1. lost \subseteq lost'
    BY DEF Next, Step, Command, cmd_add, cmd_rm, cmd_restore, cmd_edit, cmd_log, cmd_index, Begin,
           AddWrite, RmRename, RestoreRename, EditWrite, AppendLogRead, AppendLogWrite,
           IndexWrite, NoDirectory, Die, CutOff, cmd_lib_rm, cmd_lib_new, vars, history
  <2>. QED  BY <1>1, <2>1 DEF Accounted
<1>2. ASSUME NEW x \in Path, e \in Held(files[x]) \cup Held(trash[x])
      PROVE  Accounted(e)'
  <2>0. CASE UNCHANGED <<files, trash>>
    BY <1>2, <2>0 DEF Accounted
  <2>1. ASSUME NEW p \in Proc, AddWrite(p) \/ EditWrite(p)
        PROVE  Accounted(e)'
    <3>1. /\ cmd[p].path \in Path /\ Held(Written(p)) = seen[p] \cup {cmd[p].id}
      BY <2>1, <1>t, DocFacts DEF AddWrite, EditWrite, CommandOK
    <3>2. /\ files' = [files EXCEPT ![cmd[p].path] = Written(p)] /\ trash' = trash
          /\ lost' = lost \cup (Held(files[cmd[p].path]) \ seen[p])
      BY <2>1 DEF AddWrite, EditWrite, Raced
    <3>3. CASE x = cmd[p].path
      <4>1. files'[x] = Written(p) /\ trash'[x] = trash[x]
        BY <3>2, <3>3, <1>f
      <4>. QED  BY <1>2, <3>1, <3>2, <3>3, <4>1 DEF Accounted
    <3>4. CASE x # cmd[p].path
      <4>1. files'[x] = files[x] /\ trash'[x] = trash[x]
        BY <3>2, <3>4, <1>f
      <4>. QED  BY <1>2, <4>1 DEF Accounted
    <3>. QED  BY <3>3, <3>4
  <2>2. ASSUME NEW p \in Proc, RmRename(p)
        PROVE  Accounted(e)'
    <3> DEFINE t == cmd[p].path
    <3>2. CASE ~(Exists(t) /\ ~ Blocked(t, trash))
      BY <2>0, <2>2, <3>2 DEF RmRename
    <3>3. CASE Exists(t) /\ ~ Blocked(t, trash)
      <4>1. /\ trash' = Received(t, files, trash) /\ files' = Vacated(t, files)
            /\ lost' = lost \cup UNION {Held(trash[y]) : y \in Under(t)}
        BY <2>2, <3>3 DEF RmRename
      <4>2. CASE x \in Under(t)
        <5>1. trash'[x] = files[x]
          BY <4>1, <4>2 DEF Received
        <5>. QED  BY <1>2, <4>1, <4>2, <5>1 DEF Accounted
      <4>3. CASE x \notin Under(t)
        <5>1. trash'[x] = trash[x] /\ files'[x] = files[x]
          BY <4>1, <4>3 DEF Received, Vacated
        <5>. QED  BY <1>2, <5>1 DEF Accounted
      <4>. QED  BY <4>2, <4>3
    <3>. QED  BY <3>2, <3>3
  <2>3. ASSUME NEW p \in Proc, RestoreRename(p)
        PROVE  Accounted(e)'
    <3> DEFINE t == cmd[p].path
    <3>1. seen[p] = {}
      BY <2>3, <1>t DEF RestoreRename, CommandOK
    <3>2. CASE ~(InTrash(t) /\ ~ Blocked(t, files))
      BY <2>0, <2>3, <3>2 DEF RestoreRename
    <3>3. CASE InTrash(t) /\ ~ Blocked(t, files)
      <4>1. /\ files' = Received(t, trash, files) /\ trash' = Vacated(t, trash)
            /\ lost' = lost \cup UNION {Held(files[y]) : y \in Under(t)}
        BY <2>3, <3>1, <3>3 DEF RestoreRename, Raced
      <4>2. CASE x \in Under(t)
        <5>1. files'[x] = trash[x]
          BY <4>1, <4>2 DEF Received
        <5>. QED  BY <1>2, <4>1, <4>2, <5>1 DEF Accounted
      <4>3. CASE x \notin Under(t)
        <5>1. trash'[x] = trash[x] /\ files'[x] = files[x]
          BY <4>1, <4>3 DEF Received, Vacated
        <5>. QED  BY <1>2, <5>1 DEF Accounted
      <4>. QED  BY <4>2, <4>3
    <3>. QED  BY <3>2, <3>3
  <2>4. ASSUME NEW xs, files' = [y \in Path |-> IF y \in xs THEN Blank ELSE files[y]],
               trash' = trash, lost' = lost \cup UNION {Held(files[y]) : y \in xs}
        PROVE  Accounted(e)'
    <3>1. CASE x \in xs
      BY <1>2, <2>4, <3>1 DEF Accounted
    <3>2. CASE x \notin xs
      <4>1. files'[x] = files[x] /\ trash'[x] = trash[x]
        BY <2>4, <3>2
      <4>. QED  BY <1>2, <4>1 DEF Accounted
    <3>. QED  BY <3>1, <3>2
  <2>5. ASSUME NEW p \in Proc, IndexWrite(p)
        PROVE  Accounted(e)'
    BY <2>4, <2>5 DEF IndexWrite
  <2>6. ASSUME NEW p \in Proc, Die(p)
        PROVE  Accounted(e)'
    <3>1. trash' = trash
      BY <2>6 DEF Die
    <3>2. CASE UNCHANGED files
      BY <2>0, <3>1, <3>2
    <3>3. ASSUME NEW xs, CutOff(p, xs)
          PROVE  Accounted(e)'
      BY <2>4, <3>1, <3>3 DEF CutOff
    <3>. QED  BY <2>6, <3>2, <3>3 DEF Die
  <2>7. CASE cmd_lib_rm
    BY <1>2, <2>7 DEF cmd_lib_rm, Accounted
  <2>8. CASE cmd_lib_new
    <3>1. trash' = trash /\ files' = NewFiles /\ dirs = {}
      BY <2>8 DEF cmd_lib_new
    <3>. QED  BY <1>2, <3>1, <1>t DEF LibraryOK, Held
  <2>9. ASSUME NEW p \in Proc,
               AppendLogRead(p) \/ AppendLogWrite(p) \/ NoDirectory(p) \/ Command(p)
        PROVE  Accounted(e)'
    BY <2>0, <2>9 DEF AppendLogRead, AppendLogWrite, NoDirectory, Begin,
                      Command, cmd_add, cmd_rm, cmd_restore, cmd_edit, cmd_log, cmd_index
  <2>10. CASE UNCHANGED vars
    BY <2>0, <2>10 DEF vars
  <2>. QED
    BY <2>1, <2>2, <2>3, <2>5, <2>6, <2>7, <2>8, <2>9, <2>10 DEF Next, Step
<1>. QED  BY <1>1, <1>2 DEF Accounted

\* A command that has written its document and not yet its log entry: its effect is
\* accounted for before it is reported.
KeepInv ==
    /\ TypeInv
    /\ NothingVanishes
    /\ \A p \in Proc : pc[p] \in {"log", "logwrite"} /\ cmd[p].id # 0 => Accounted(cmd[p].id)

\* The library is empty at the start.
LEMMA InitKeep == Init => KeepInv
<1> SUFFICES ASSUME Init PROVE KeepInv
  OBVIOUS
<1>1. TypeInv
  BY InitTyped
<1>. QED  BY <1>1 DEF Init, KeepInv, NothingVanishes

\* Every step of every command keeps KeepInv.
LEMMA KeepStep == KeepInv /\ [Next]_vars => KeepInv'
<1> SUFFICES ASSUME KeepInv, [Next]_vars PROVE KeepInv'
  OBVIOUS
<1>t. TypeInv /\ TypeInv' /\ LibraryOK /\ ProcsOK /\ \A p \in Proc : CommandOK(p)
  BY TypeStep DEF KeepInv, TypeInv, ProcsOK
<1>f. files \in [Path -> Doc \cup {None}] /\ trash \in [Path -> Doc \cup {None}]
  BY <1>t DEF LibraryOK
<1>k. \A e : Accounted(e) => Accounted(e)'
  BY <1>t, EffectsKept
<1>a. \A e \in acked : Accounted(e)
  BY DEF KeepInv, NothingVanishes, Accounted
<1>b. \A p \in Proc : pc[p] \in {"log", "logwrite"} /\ cmd[p].id # 0 => Accounted(cmd[p].id)
  BY DEF KeepInv
\* It is enough to look at the process that steps, and at what is reported.
<1>s. ASSUME NEW p \in Proc, Alone(p),
             pc'[p] \in {"log", "logwrite"} /\ cmd'[p].id # 0 => Accounted(cmd[p].id)',
             \A e \in acked' : Accounted(e)
      PROVE  KeepInv'
  <2>1. ASSUME NEW q \in Proc, pc'[q] \in {"log", "logwrite"}, cmd'[q].id # 0
        PROVE  Accounted(cmd[q].id)'
    <3>1. CASE q = p
      BY <3>1, <2>1, <1>s
    <3>2. CASE q # p
      <4>1. pc'[q] = pc[q] /\ cmd'[q] = cmd[q]
        BY <3>2, <1>s DEF Alone
      <4>2. Accounted(cmd[q].id)
        BY <4>1, <2>1, <1>b
      <4>. QED  BY <4>1, <4>2, <1>k DEF Accounted
    <3>. QED  BY <3>1, <3>2
  <2>2. NothingVanishes'
    BY <1>s, <1>k DEF NothingVanishes, Accounted
  <2>. QED  BY <2>1, <2>2, <1>t DEF KeepInv
<1>1. ASSUME NEW p \in Proc, Command(p)
      PROVE  KeepInv'
  <2>1. Alone(p) /\ acked' = acked /\ (pc'[p] \in {"log", "logwrite"} => cmd'[p].id = 0)
    BY <1>1, <1>t, CommandFacts DEF Started
  <2>. QED  BY <2>1, <1>s, <1>a
<1>2. ASSUME NEW p \in Proc, AddWrite(p) \/ EditWrite(p)
      PROVE  KeepInv'
  <2>1. Alone(p) /\ cmd' = cmd /\ acked' = acked
    BY <1>2, <1>t, GotoFacts DEF AddWrite, EditWrite
  <2>2. cmd[p].path \in Path /\ cmd[p].id \in Held(Written(p))
    BY <1>2, <1>t, DocFacts DEF AddWrite, EditWrite, CommandOK
  <2>3. files'[cmd[p].path] = Written(p)
    BY <1>2, <2>2, <1>f DEF AddWrite, EditWrite
  <2>4. Accounted(cmd[p].id)'
    BY <2>1, <2>2, <2>3 DEF Accounted
  <2>. QED  BY <2>1, <2>4, <1>s, <1>a
<1>4. ASSUME NEW p \in Proc, RmRename(p) \/ RestoreRename(p)
      PROVE  KeepInv'
  <2>1. acked' = acked /\ cmd[p].id = 0
    BY <1>4, <1>t DEF RmRename, RestoreRename, CommandOK
  <2>2. Goto(p, "log") \/ Exit(p)
    BY <1>4 DEF RmRename, RestoreRename
  <2>3. CASE Goto(p, "log")
    <3>1. Alone(p) /\ cmd' = cmd
      BY <2>3, <1>t, GotoFacts
    <3>. QED  BY <3>1, <2>1, <1>s, <1>a
  <2>4. CASE Exit(p)
    <3>1. Alone(p) /\ pc'[p] = "idle"
      BY <2>4, <1>t, ExitFacts
    <3>. QED  BY <3>1, <2>1, <1>s, <1>a
  <2>. QED  BY <2>2, <2>3, <2>4
<1>5. ASSUME NEW p \in Proc, AppendLogRead(p)
      PROVE  KeepInv'
  <2>1. /\ Alone(p) /\ pc[p] = "log" /\ cmd' = cmd /\ acked' = acked
    BY <1>5, <1>t DEF AppendLogRead, history, Alone, ProcsOK
  <2>2. cmd[p].id # 0 => Accounted(cmd[p].id)'
    <3>1. cmd[p].id # 0 => Accounted(cmd[p].id)
      BY <2>1, <1>b
    <3>. QED  BY <3>1, <2>1, <1>k DEF Accounted
  <2>. QED  BY <2>1, <2>2, <1>s, <1>a
<1>6. ASSUME NEW p \in Proc, AppendLogWrite(p)
      PROVE  KeepInv'
  <2>1. Alone(p) /\ pc'[p] = "idle" /\ pc[p] = "logwrite"
    BY <1>6, <1>t, ExitFacts DEF AppendLogWrite
  <2>2. acked' \subseteq acked \cup ({cmd[p].id} \ {0})
    BY <1>6 DEF AppendLogWrite
  <2>3. \A e \in acked' : Accounted(e)
    BY <2>1, <2>2, <1>a, <1>b
  <2>. QED  BY <2>1, <2>3, <1>s
<1>7. ASSUME NEW p \in Proc, IndexWrite(p) \/ NoDirectory(p) \/ Die(p)
      PROVE  KeepInv'
  <2>1. (Goto(p, "index") \/ Exit(p)) /\ acked' = acked
    BY <1>7 DEF IndexWrite, NoDirectory, Die, history
  <2>2. Alone(p) /\ pc'[p] \in {"index", "idle"}
    BY <2>1, <1>t, GotoFacts, ExitFacts
  <2>. QED  BY <2>1, <2>2, <1>s, <1>a
<1>9. CASE cmd_lib_rm \/ cmd_lib_new \/ UNCHANGED vars
  <2>1. UNCHANGED <<pc, cmd, acked>>
    BY <1>9 DEF cmd_lib_rm, cmd_lib_new, vars, procVars, history
  <2>2. \A p \in Proc : pc'[p] \in {"log", "logwrite"} /\ cmd'[p].id # 0 => Accounted(cmd[p].id)'
    <3>1. ASSUME NEW p \in Proc, pc[p] \in {"log", "logwrite"}, cmd[p].id # 0
          PROVE  Accounted(cmd[p].id)'
      <4>1. Accounted(cmd[p].id)
        BY <3>1, <1>b
      <4>. QED  BY <4>1, <2>1, <1>k DEF Accounted
    <3>. QED  BY <2>1, <3>1
  <2>3. NothingVanishes'
    BY <2>1, <1>a, <1>k DEF NothingVanishes, Accounted
  <2>. QED  BY <2>2, <2>3, <1>t DEF KeepInv
<1>. QED
  BY <1>1, <1>2, <1>4, <1>5, <1>6, <1>7, <1>9 DEF Next, Step

\* What a command has reported as done is in the library or its trash, or was lost in
\* one of the named ways, however commands overlap and wherever they are killed.
THEOREM NeverVanishes == Spec => []NothingVanishes
<1>1. KeepInv => NothingVanishes
  BY DEF KeepInv
<1>. QED  BY <1>1, InitKeep, KeepStep, PTL DEF Spec
-----------------------------------------------------------------------------
(* Concepts are valid *)

\* A document under x without a type carries a command with odd values, or it has no
\* frontmatter at all, because its write was cut off or it is an index.
SoundAs(x, d) ==
    \/ d = None
    \/ d.text = "typed"
    \/ d.by \cap odd # {}
    \/ d.text = "broken" /\ x \in cut \cup Reserved

\* The same holds in the trash, from which a document may come back, and of what a
\* command is about to write.
ValidInv ==
    /\ TypeInv
    /\ \A x \in Path : SoundAs(x, files[x]) /\ SoundAs(x, trash[x])
    /\ \A p \in Proc : pc[p] \in {"create", "rewrite"} =>
          cmd[p].text = "typed" \/ (seen[p] \cup {cmd[p].id}) \cap odd # {}

\* The library is empty at the start.
LEMMA InitValid == Init => ValidInv
<1> SUFFICES ASSUME Init PROVE ValidInv
  OBVIOUS
<1>1. TypeInv
  BY InitTyped
<1>. QED  BY <1>1, BlankFacts DEF Init, NewFiles, ValidInv, SoundAs

\* The doubt about a path never goes away.
LEMMA DoubtStays ==
    ASSUME TypeInv, [Next]_vars
    PROVE  unsure \subseteq unsure' /\ cut \subseteq cut' /\ odd \subseteq odd'
<1>t. unsure \subseteq Path
  BY DEF TypeInv, LibraryOK
<1>1. ASSUME NEW p \in Proc, Command(p)
      PROVE  unsure \subseteq unsure' /\ cut \subseteq cut' /\ odd \subseteq odd'
  BY <1>1, CommandFacts DEF Started
<1>2. ASSUME NEW p \in Proc, Step(p)
      PROVE  unsure \subseteq unsure' /\ cut \subseteq cut' /\ odd \subseteq odd'
  BY <1>2, <1>t DEF Step, AddWrite, RmRename, RestoreRename, EditWrite, AppendLogRead,
                    AppendLogWrite, IndexWrite, NoDirectory, history
<1>3. ASSUME NEW p \in Proc, Die(p)
      PROVE  unsure \subseteq unsure' /\ cut \subseteq cut' /\ odd \subseteq odd'
  BY <1>3, <1>t DEF Die, CutOff
<1>4. CASE cmd_lib_rm \/ cmd_lib_new \/ UNCHANGED vars
  BY <1>4, <1>t DEF cmd_lib_rm, cmd_lib_new, vars, history
<1>. QED  BY <1>1, <1>2, <1>3, <1>4 DEF Next

\* Every step of every command keeps ValidInv.
LEMMA ValidStep == ValidInv /\ [Next]_vars => ValidInv'
<1> SUFFICES ASSUME ValidInv, [Next]_vars PROVE ValidInv'
  OBVIOUS
<1>t. TypeInv /\ TypeInv' /\ LibraryOK /\ ProcsOK /\ \A p \in Proc : CommandOK(p)
  BY TypeStep DEF ValidInv, TypeInv, ProcsOK
<1>f. files \in [Path -> Doc \cup {None}] /\ trash \in [Path -> Doc \cup {None}]
  BY <1>t DEF LibraryOK
<1>d. cut \subseteq cut' /\ odd \subseteq odd'
  BY <1>t, DoubtStays
<1>v. /\ \A x \in Path : SoundAs(x, files[x]) /\ SoundAs(x, trash[x])
      /\ \A p \in Proc : pc[p] \in {"create", "rewrite"} =>
            cmd[p].text = "typed" \/ (seen[p] \cup {cmd[p].id}) \cap odd # {}
  BY DEF ValidInv
\* A document that was sound stays so.
<1>m. \A x \in Path : \A d : SoundAs(x, d) =>
         \/ d = None \/ d.text = "typed" \/ d.by \cap odd' # {}
         \/ d.text = "broken" /\ x \in cut' \cup Reserved
  BY <1>d DEF SoundAs
\* It is enough that every document was there before under that path, or is what a
\* command has made of one, or is blank in a place where it may be.
<1>s. ASSUME \A x \in Path :
                /\ \/ files'[x] \in {files[x], trash[x], None}
                   \/ files'[x].text = "typed" \/ files'[x].by \cap odd' # {}
                   \/ files'[x] = Blank /\ x \in cut' \cup Reserved
                /\ trash'[x] \in {files[x], trash[x], None},
             \A p \in Proc : pc'[p] \in {"create", "rewrite"} =>
                cmd'[p].text = "typed" \/ (seen'[p] \cup {cmd'[p].id}) \cap odd' # {}
      PROVE  ValidInv'
  <2>1. ASSUME NEW x \in Path
        PROVE  SoundAs(x, files[x])' /\ SoundAs(x, trash[x])'
    <3>1. SoundAs(x, files[x]) /\ SoundAs(x, trash[x])
      BY <1>v
    <3>2. SoundAs(x, files[x])'
      BY <3>1, <1>m, <1>s, BlankFacts DEF SoundAs
    <3>3. SoundAs(x, trash[x])'
      BY <3>1, <1>m, <1>s DEF SoundAs
    <3>. QED  BY <3>2, <3>3
  <2>. QED  BY <2>1, <1>s, <1>t DEF ValidInv
\* The other commands carry what they carried.
<1>o. ASSUME NEW p \in Proc, Alone(p),
             pc'[p] \in {"create", "rewrite"} =>
                cmd'[p].text = "typed" \/ (seen'[p] \cup {cmd'[p].id}) \cap odd' # {}
      PROVE  \A q \in Proc : pc'[q] \in {"create", "rewrite"} =>
                cmd'[q].text = "typed" \/ (seen'[q] \cup {cmd'[q].id}) \cap odd' # {}
  <2>1. ASSUME NEW q \in Proc, q # p, pc'[q] \in {"create", "rewrite"}
        PROVE  cmd'[q].text = "typed" \/ (seen'[q] \cup {cmd'[q].id}) \cap odd' # {}
    BY <2>1, <1>o, <1>v, <1>d DEF Alone
  <2>. QED  BY <2>1, <1>o
<1>1. ASSUME NEW p \in Proc, Command(p)
      PROVE  ValidInv'
  <2>1. Started(p)
    BY <1>1, <1>t, CommandFacts
  <2>2. Alone(p) /\ UNCHANGED <<files, trash>>
    BY <2>1 DEF Started
  <2>3. ASSUME pc'[p] \in {"create", "rewrite"}
        PROVE  cmd'[p].text = "typed" \/ (seen'[p] \cup {cmd'[p].id}) \cap odd' # {}
    <3>1. CASE Sound({cmd'[p].id}, cmd'[p].text)
      BY <3>1 DEF Sound
    <3>2. CASE ~ Sound({cmd'[p].id}, cmd'[p].text)
      <4>1. PICK x \in Path : /\ files[x] # None /\ files[x].text # "broken"
                              /\ seen'[p] = files[x].by /\ cmd'[p].text = files[x].text
        BY <2>1, <2>3, <3>2 DEF Started
      <4>2. files[x].text = "typed" \/ files[x].by \cap odd # {}
        BY <4>1, <1>v DEF SoundAs
      <4>. QED  BY <4>1, <4>2, <1>d
    <3>. QED  BY <3>1, <3>2
  <2>4. \A q \in Proc : pc'[q] \in {"create", "rewrite"} =>
           cmd'[q].text = "typed" \/ (seen'[q] \cup {cmd'[q].id}) \cap odd' # {}
    BY <2>2, <2>3, <1>o
  <2>. QED  BY <2>2, <2>4, <1>s
<1>2. ASSUME NEW p \in Proc, AddWrite(p) \/ EditWrite(p)
      PROVE  ValidInv'
  <2>1. Alone(p) /\ pc'[p] = "log" /\ pc[p] \in {"create", "rewrite"} /\ cmd[p].path \in Path
    BY <1>2, <1>t, GotoFacts DEF AddWrite, EditWrite, CommandOK
  <2>2. /\ trash' = trash /\ files' = [files EXCEPT ![cmd[p].path] = Written(p)] /\ odd' = odd
    BY <1>2 DEF AddWrite, EditWrite
  <2>3. Written(p).text = "typed" \/ Written(p).by \cap odd # {}
    BY <2>1, <1>v DEF Written
  <2>4. \A x \in Path : files'[x] = files[x] \/ files'[x] = Written(p)
    BY <2>1, <2>2, <1>f
  <2>5. \A q \in Proc : pc'[q] \in {"create", "rewrite"} =>
           cmd'[q].text = "typed" \/ (seen'[q] \cup {cmd'[q].id}) \cap odd' # {}
    BY <2>1, <1>o
  <2>6. \A x \in Path :
                /\ \/ files'[x] \in {files[x], trash[x], None}
                   \/ files'[x].text = "typed" \/ files'[x].by \cap odd' # {}
                   \/ files'[x] = Blank /\ x \in cut' \cup Reserved
                /\ trash'[x] \in {files[x], trash[x], None}
    BY <2>2, <2>3, <2>4
  <2>. QED  BY <2>5, <2>6, <1>s
\* The steps that end, or that go on to an index or to the log.
<1>e. ASSUME NEW p \in Proc, Goto(p, "log") \/ Goto(p, "index") \/ Exit(p)
      PROVE  \A q \in Proc : pc'[q] \in {"create", "rewrite"} =>
                cmd'[q].text = "typed" \/ (seen'[q] \cup {cmd'[q].id}) \cap odd' # {}
  <2>1. Alone(p) /\ pc'[p] \in {"log", "index", "idle"}
    BY <1>e, <1>t, GotoFacts, ExitFacts
  <2>. QED  BY <2>1, <1>o
<1>3. ASSUME NEW p \in Proc, RmRename(p) \/ RestoreRename(p)
      PROVE  ValidInv'
  <2>1. Goto(p, "log") \/ Exit(p)
    BY <1>3 DEF RmRename, RestoreRename
  <2>2. \A x \in Path : /\ files'[x] \in {files[x], trash[x], None}
                        /\ trash'[x] \in {files[x], trash[x], None}
    BY <1>3 DEF RmRename, RestoreRename, Received, Vacated
  <2>. QED  BY <2>1, <2>2, <1>e, <1>s
<1>4. ASSUME NEW p \in Proc, IndexWrite(p)
      PROVE  ValidInv'
  <2>1. Goto(p, "index") \/ Exit(p)
    BY <1>4 DEF IndexWrite
  <2>2. \A x \in Path : /\ files'[x] = files[x] \/ (files'[x] = Blank /\ x \in Reserved)
                        /\ trash'[x] = trash[x]
    BY <1>4 DEF IndexWrite, Indexes
  <2>. QED  BY <2>1, <2>2, <1>e, <1>s
<1>5. ASSUME NEW p \in Proc, Die(p)
      PROVE  ValidInv'
  <2>1. Exit(p) /\ trash' = trash
    BY <1>5 DEF Die
  <2>2. \A x \in Path : files'[x] = files[x] \/ (files'[x] = Blank /\ x \in cut')
    BY <1>5 DEF Die, CutOff
  <2>. QED  BY <2>1, <2>2, <1>e, <1>s
<1>6. ASSUME NEW p \in Proc, AppendLogRead(p)
      PROVE  ValidInv'
  <2>1. /\ UNCHANGED <<files, trash, cmd, seen>> /\ pc' = [pc EXCEPT ![p] = "logwrite"]
    BY <1>6 DEF AppendLogRead
  <2>2. \A q \in Proc : pc'[q] \in {"create", "rewrite"} =>
           cmd'[q].text = "typed" \/ (seen'[q] \cup {cmd'[q].id}) \cap odd' # {}
    BY <2>1, <1>v, <1>d, <1>t DEF ProcsOK
  <2>. QED  BY <2>1, <2>2, <1>s
<1>7. ASSUME NEW p \in Proc, AppendLogWrite(p) \/ NoDirectory(p)
      PROVE  ValidInv'
  <2>1. Exit(p) /\ UNCHANGED <<files, trash>>
    BY <1>7 DEF AppendLogWrite, NoDirectory
  <2>. QED  BY <2>1, <1>e, <1>s
<1>8. CASE cmd_lib_rm \/ cmd_lib_new \/ UNCHANGED vars
  <2>1. UNCHANGED <<pc, cmd, seen>>
    BY <1>8 DEF cmd_lib_rm, cmd_lib_new, vars, procVars
  <2>2. \A q \in Proc : pc'[q] \in {"create", "rewrite"} =>
           cmd'[q].text = "typed" \/ (seen'[q] \cup {cmd'[q].id}) \cap odd' # {}
    BY <2>1, <1>v, <1>d
  <2>3. \A x \in Path :
                /\ \/ files'[x] \in {files[x], trash[x], None}
                   \/ files'[x] = Blank /\ x \in cut' \cup Reserved
                /\ trash'[x] \in {files[x], trash[x], None}
    BY <1>8 DEF cmd_lib_rm, cmd_lib_new, vars, NewFiles
  <2>. QED  BY <2>2, <2>3, <1>s
<1>. QED
  BY <1>1, <1>2, <1>3, <1>4, <1>5, <1>6, <1>7, <1>8 DEF Next, Step

\* Validation finds an error only where a write was cut off or a command was given values
\* that YAML reads otherwise, for any number of commands, also at the same time.
THEOREM AlwaysValid == Spec => []ConceptsValid
<1>1. ValidInv => ConceptsValid
  BY DEF ValidInv, SoundAs, ConceptsValid, ValidateErrors, Concepts
<1>. QED  BY <1>1, InitValid, ValidStep, PTL DEF Spec
-----------------------------------------------------------------------------
(* The log tells what there is *)

\* The last entry about x is right.
Matches(x) == (files[x] # None) <=> LastSaysHere(x)

\* The command of p is about to log what it did to x.
AtLog(p, x) == pc[p] \in {"log", "logwrite"} /\ x \in Under(cmd[p].path)

\* Unless two commands have overlapped: one command runs at most, the log is right
\* about every path of which that command is not just about to log the truth, and
\* the log that it has read is the one there is.
LogInv ==
    /\ TypeInv
    /\ \/ unsure = Path
       \/ /\ \A p, q \in Proc : Busy(p) /\ Busy(q) => p = q
          /\ \A x \in (Path \ Reserved) \ unsure : Matches(x) \/ \E p \in Proc : AtLog(p, x)
          /\ \A p \in Proc : \A x \in (Path \ Reserved) \ unsure : AtLog(p, x) => (cmd[p].here <=> files[x] # None)
          /\ \A p \in Proc : /\ pc[p] = "logwrite" => logged[p] = log
                             /\ pc[p] \in {"log", "logwrite"} => "lib" \in dirs

\* The log is empty at the start.
LEMMA InitLog == Init => LogInv
<1> SUFFICES ASSUME Init PROVE LogInv
  OBVIOUS
<1>1. TypeInv
  BY InitTyped
<1>2. \A x \in Path \ Reserved : Matches(x)
  BY DEF Init, NewFiles, Matches, LastSaysHere
<1>3. \A p \in Proc : pc[p] = "idle"
  BY DEF Init
<1>. QED  BY <1>1, <1>2, <1>3 DEF LogInv, Busy, AtLog

\* A new entry is the last one about its path, and the others keep theirs.
LEMMA AppendSays ==
    ASSUME NEW x, NEW e \in Entry, log \in Seq(Entry), log' = Append(log, e)
    PROVE  /\ x \in Under(e.path) => (LastSaysHere(x)' <=> e.here)
           /\ x \notin Under(e.path) => (LastSaysHere(x)' <=> LastSaysHere(x))
<1>1. /\ Len(log) \in Nat /\ DOMAIN log = 1 .. Len(log) /\ DOMAIN log' = 1 .. Len(log) + 1
      /\ log'[Len(log) + 1] = e /\ \A i \in 1 .. Len(log) : log'[i] = log[i]
  OBVIOUS
<1> DEFINE n == Len(log) + 1
<1>2. n \in DOMAIN log' /\ n \notin DOMAIN log /\ \A i \in DOMAIN log' : i \in DOMAIN log \/ i = n
  BY <1>1
<1>3. \A i \in DOMAIN log : i \in DOMAIN log' /\ n > i /\ ~(i > n) /\ log'[i] = log[i]
  BY <1>1
<1>4. ~(n > n) /\ log'[n] = e
  BY <1>1
<1> HIDE DEF n
<1>5. CASE x \in Under(e.path)
  <2>1. ASSUME LastSaysHere(x)' PROVE e.here
    <3>1. PICK i \in DOMAIN log' : /\ x \in Under(log'[i].path) /\ log'[i].here
                                   /\ \A j \in DOMAIN log' : j > i => x \notin Under(log'[j].path)
      BY <2>1 DEF LastSaysHere
    <3>. QED  BY <3>1, <1>2, <1>3, <1>4, <1>5
  <2>2. ASSUME e.here PROVE LastSaysHere(x)'
    <3>1. \A j \in DOMAIN log' : ~(j > n)
      BY <1>2, <1>3, <1>4
    <3>. QED  BY <3>1, <2>2, <1>2, <1>4, <1>5 DEF LastSaysHere
  <2>. QED  BY <1>5, <2>1, <2>2 DEF Entry
<1>6. CASE x \notin Under(e.path)
  <2>1. ASSUME LastSaysHere(x)' PROVE LastSaysHere(x)
    <3>1. PICK i \in DOMAIN log' : /\ x \in Under(log'[i].path) /\ log'[i].here
                                   /\ \A j \in DOMAIN log' : j > i => x \notin Under(log'[j].path)
      BY <2>1 DEF LastSaysHere
    <3>2. i \in DOMAIN log
      BY <3>1, <1>2, <1>4, <1>6
    <3>. QED  BY <3>1, <3>2, <1>3 DEF LastSaysHere
  <2>2. ASSUME LastSaysHere(x) PROVE LastSaysHere(x)'
    <3>1. PICK i \in DOMAIN log : /\ x \in Under(log[i].path) /\ log[i].here
                                  /\ \A j \in DOMAIN log : j > i => x \notin Under(log[j].path)
      BY <2>2 DEF LastSaysHere
    <3>2. \A j \in DOMAIN log' : j > i => x \notin Under(log'[j].path)
      BY <3>1, <1>2, <1>3, <1>4, <1>6
    <3>. QED  BY <3>1, <3>2, <1>3 DEF LastSaysHere
  <2>. QED  BY <1>6, <2>1, <2>2
<1>. QED  BY <1>5, <1>6

\* Every step of every command keeps LogInv.
LEMMA LogStep == LogInv /\ [Next]_vars => LogInv'
<1> SUFFICES ASSUME LogInv, [Next]_vars PROVE LogInv'
  OBVIOUS
<1>t. /\ TypeInv /\ TypeInv' /\ LibraryOK /\ ProcsOK /\ \A p \in Proc : CommandOK(p)
      /\ unsure \subseteq unsure' /\ unsure' \subseteq Path
  BY TypeStep, DoubtStays DEF LogInv, TypeInv, ProcsOK, LibraryOK
<1>f. files \in [Path -> Doc \cup {None}] /\ trash \in [Path -> Doc \cup {None}]
  BY <1>t DEF LibraryOK
<1>0. CASE unsure' = Path
  BY <1>0, <1>t DEF LogInv
<1> SUFFICES ASSUME unsure' # Path PROVE LogInv'
  BY <1>0
<1>a. \A p, q \in Proc : Busy(p) /\ Busy(q) => p = q
  BY <1>t DEF LogInv
<1>b. \A x \in (Path \ Reserved) \ unsure : Matches(x) \/ \E p \in Proc : AtLog(p, x)
  BY <1>t DEF LogInv
<1>c. \A p \in Proc : \A x \in (Path \ Reserved) \ unsure : AtLog(p, x) => (cmd[p].here <=> files[x] # None)
  BY <1>t DEF LogInv
<1>d. \A p \in Proc : /\ pc[p] = "logwrite" => logged[p] = log
                      /\ pc[p] \in {"log", "logwrite"} => "lib" \in dirs
  BY <1>t DEF LogInv
\* What is not touched stays right.
<1>m. ASSUME NEW x, log' = log, (files'[x] = None) <=> (files[x] = None), Matches(x)
      PROVE  Matches(x)'
  BY <1>m DEF Matches, LastSaysHere
\* The only command that runs takes a step.
<1>s. ASSUME NEW p \in Proc, Alone(p), \A q \in Proc \ {p} : ~ Busy(q),
             \A x \in (Path \ Reserved) \ unsure' : Matches(x)' \/ AtLog(p, x)',
             \A x \in (Path \ Reserved) \ unsure' : AtLog(p, x)' => (cmd'[p].here <=> files'[x] # None),
             pc'[p] = "logwrite" => logged'[p] = log',
             pc'[p] \in {"log", "logwrite"} => "lib" \in dirs'
      PROVE  LogInv'
  <2>1. \A q \in Proc \ {p} : pc'[q] = "idle"
    BY <1>s DEF Alone, Busy
  <2>2. \A q, r \in Proc : Busy(q)' /\ Busy(r)' => q = r
    BY <2>1 DEF Busy
  <2>3. \A x \in (Path \ Reserved) \ unsure' : Matches(x)' \/ \E q \in Proc : AtLog(q, x)'
    BY <1>s
  <2>4. \A q \in Proc : \A x \in (Path \ Reserved) \ unsure' : AtLog(q, x)' => (cmd'[q].here <=> files'[x] # None)
    BY <1>s, <2>1 DEF AtLog
  <2>5. \A q \in Proc : /\ pc'[q] = "logwrite" => logged'[q] = log'
                        /\ pc'[q] \in {"log", "logwrite"} => "lib" \in dirs'
    BY <1>s, <2>1
  <2>. QED  BY <2>2, <2>3, <2>4, <2>5, <1>t DEF LogInv
<1>o. ASSUME NEW p \in Proc, Busy(p)
      PROVE  /\ \A q \in Proc \ {p} : ~ Busy(q)
             /\ \A x \in (Path \ Reserved) \ unsure : Matches(x) \/ AtLog(p, x)
  BY <1>o, <1>a, <1>b DEF Busy, AtLog
<1>1. ASSUME NEW p \in Proc, Command(p)
      PROVE  LogInv'
  <2>1. Started(p)
    BY <1>1, <1>t, CommandFacts
  <2>2. \A q \in Proc : ~ Busy(q)
    BY <2>1 DEF Started
  <2>3. \A x \in (Path \ Reserved) \ unsure : Matches(x)
    BY <2>2, <1>b DEF Busy, AtLog
  <2>4. \A x \in Path : ~ AtLog(p, x)'
    BY <2>1, TargetFacts DEF Started, AtLog
  <2>5. \A x \in (Path \ Reserved) \ unsure' : Matches(x)'
    BY <2>1, <2>3, <1>t, <1>m DEF Started
  <2>6. pc'[p] # "logwrite" /\ Alone(p) /\ "lib" \in dirs'
    BY <2>1 DEF Started
  <2>. QED  BY <2>2, <2>4, <2>5, <2>6, <1>s
\* The four writes of documents: nothing else changes, and the command goes on to log
\* what it did.
<1>2. ASSUME NEW p \in Proc, Busy(p), ~(pc[p] \in {"log", "logwrite"}), log' = log,
             "lib" \in dirs', \A x \in Path \ Under(cmd[p].path) : files'[x] = files[x], Goto(p, "log"),
             \A x \in Under(cmd[p].path) \ unsure' : cmd[p].here <=> files'[x] # None
      PROVE  LogInv'
  <2>1. Alone(p) /\ pc'[p] = "log" /\ cmd' = cmd
    BY <1>2, <1>t, GotoFacts
  <2>2. \A x \in (Path \ Reserved) \ unsure' : Matches(x)
    BY <1>2, <1>o, <1>t DEF AtLog
  <2>3. \A x \in (Path \ Reserved) \ unsure' : x \notin Under(cmd[p].path) => Matches(x)'
    BY <2>2, <1>2, <1>m
  <2>4. \A x : AtLog(p, x)' <=> x \in Under(cmd[p].path)
    BY <2>1 DEF AtLog
  <2>. QED  BY <1>2, <1>o, <2>1, <2>3, <2>4, <1>s
\* A command ends without a change of documents and log.
<1>3. ASSUME NEW p \in Proc, Busy(p), ~(pc[p] \in {"log", "logwrite"}), log' = log, files' = files,
             Exit(p)
      PROVE  LogInv'
  <2>1. Alone(p) /\ pc'[p] = "idle"
    BY <1>3, <1>t, ExitFacts
  <2>2. \A x \in (Path \ Reserved) \ unsure' : Matches(x)'
    BY <1>3, <1>o, <1>t, <1>m DEF AtLog
  <2>3. \A x : ~ AtLog(p, x)'
    BY <2>1 DEF AtLog
  <2>. QED  BY <1>3, <1>o, <2>1, <2>2, <2>3, <1>s
<1>4. ASSUME NEW p \in Proc, AddWrite(p) \/ EditWrite(p)
      PROVE  LogInv'
  <2>1. /\ Busy(p) /\ pc[p] \in {"create", "rewrite"} /\ cmd[p].path \in Path /\ cmd[p].here
        /\ Written(p) # None
    BY <1>4, <1>t, DocFacts DEF AddWrite, EditWrite, CommandOK, Busy
  <2>2. Under(cmd[p].path) = {cmd[p].path}
    BY <2>1, TargetFacts
  <2>3. /\ log' = log /\ Goto(p, "log") /\ files' = [files EXCEPT ![cmd[p].path] = Written(p)]
        /\ "lib" \in dirs'
    BY <1>4 DEF AddWrite, EditWrite, DirOf
  <2>. QED  BY <1>2, <1>f, <2>1, <2>2, <2>3
<1>6. ASSUME NEW p \in Proc, RmRename(p)
      PROVE  LogInv'
  <2> DEFINE t == cmd[p].path
  <2>1. Busy(p) /\ pc[p] = "rename" /\ cmd[p].here = FALSE
    BY <1>6, <1>t DEF RmRename, CommandOK, Busy
  <2>2. CASE Exists(t) /\ ~ Blocked(t, trash)
    <3>1. log' = log /\ Goto(p, "log") /\ files' = Vacated(t, files) /\ "lib" \in dirs'
      BY <1>6, <2>2 DEF RmRename, TrashOf
    <3>2. /\ \A x \in Path \ Under(t) : files'[x] = files[x]
          /\ \A x \in Under(t) : files'[x] = None
      BY <3>1, TargetFacts DEF Vacated
    <3>. QED  BY <1>2, <2>1, <3>1, <3>2
  <2>3. CASE ~(Exists(t) /\ ~ Blocked(t, trash))
    BY <1>6, <1>3, <2>1, <2>3 DEF RmRename
  <2>. QED  BY <2>2, <2>3
<1>7. ASSUME NEW p \in Proc, RestoreRename(p)
      PROVE  LogInv'
  <2> DEFINE t == cmd[p].path
  <2>1. Busy(p) /\ pc[p] = "unrename" /\ cmd[p].here = TRUE
    BY <1>7, <1>t DEF RestoreRename, CommandOK, Busy
  <2>2. CASE InTrash(t) /\ ~ Blocked(t, files)
    <3>1. /\ log' = log /\ Goto(p, "log") /\ files' = Received(t, trash, files)
          /\ (t = "sub" => SubPath \subseteq unsure') /\ "lib" \in dirs'
      BY <1>7, <2>2 DEF RestoreRename, DirOf
    <3>2. /\ \A x \in Path \ Under(t) : files'[x] = files[x]
          /\ \A x \in Under(t) : files'[x] = trash[x]
      BY <3>1, TargetFacts DEF Received
    <3>3. \A x \in Under(t) \ unsure' : trash[x] # None
      <4>1. CASE t = "sub"
        BY <3>1, <4>1, TargetFacts
      <4>2. CASE t # "sub"
        BY <2>2, <4>2 DEF InTrash, Under
      <4>. QED  BY <4>1, <4>2
    <3>. QED  BY <1>2, <2>1, <3>1, <3>2, <3>3
  <2>3. CASE ~(InTrash(t) /\ ~ Blocked(t, files))
    BY <1>7, <1>3, <2>1, <2>3 DEF RestoreRename
  <2>. QED  BY <2>2, <2>3
<1>8. ASSUME NEW p \in Proc, AppendLogRead(p)
      PROVE  LogInv'
  <2>1. /\ Busy(p) /\ pc[p] = "log" /\ pc' = [pc EXCEPT ![p] = "logwrite"] /\ "lib" \in dirs'
        /\ UNCHANGED <<files, log, cmd, seen, unsure>>
    BY <1>8 DEF AppendLogRead, Busy, history
  <2>2. \A q \in Proc : pc[q] # "logwrite"
    BY <2>1, <1>o DEF Busy
  <2>3. logged' = [logged EXCEPT ![p] = log]
    BY <1>8, <2>2 DEF AppendLogRead
  <2>4. Alone(p) /\ pc'[p] = "logwrite" /\ logged'[p] = log
    BY <2>1, <2>3, <1>t DEF Alone, ProcsOK
  <2>5. \A x : AtLog(p, x)' <=> AtLog(p, x)
    BY <2>1, <2>4 DEF AtLog
  <2>6. \A x \in (Path \ Reserved) \ unsure' : Matches(x)' \/ AtLog(p, x)'
    BY <2>1, <2>5, <1>o, <1>m
  <2>7. \A x \in (Path \ Reserved) \ unsure' : AtLog(p, x)' => (cmd'[p].here <=> files'[x] # None)
    BY <2>1, <2>5, <1>c
  <2>. QED  BY <2>1, <2>4, <2>6, <2>7, <1>o, <1>s
<1>9. ASSUME NEW p \in Proc, AppendLogWrite(p)
      PROVE  LogInv'
  <2>1. /\ Busy(p) /\ pc[p] = "logwrite" /\ Alone(p) /\ pc'[p] = "idle" /\ files' = files
        /\ unsure' = unsure /\ logged[p] = log
    <3>1. pc[p] = "logwrite" /\ Exit(p) /\ files' = files /\ unsure' = unsure
      BY <1>9 DEF AppendLogWrite
    <3>2. Alone(p) /\ pc'[p] = "idle"
      BY <3>1, <1>t, ExitFacts
    <3>. QED  BY <3>1, <3>2, <1>d DEF Busy
  <2> DEFINE e == [path |-> cmd[p].path, here |-> cmd[p].here]
  <2>2. e \in Entry /\ e.path = cmd[p].path /\ e.here = cmd[p].here
    BY <1>t DEF ProcsOK, Cmd, Entry
  <2>3. log' = Append(log, e) /\ log \in Seq(Entry)
    BY <1>9, <2>1, <1>t DEF AppendLogWrite, LogAfterAppend, LibraryOK
  <2> HIDE DEF e
  <2>4. ASSUME NEW x \in (Path \ Reserved) \ unsure'
        PROVE  Matches(x)'
    <3>1. /\ x \in Under(e.path) => (LastSaysHere(x)' <=> e.here)
          /\ x \notin Under(e.path) => (LastSaysHere(x)' <=> LastSaysHere(x))
      BY <2>2, <2>3, AppendSays
    <3>2. CASE x \in Under(e.path)
      <4>1. cmd[p].here <=> files[x] # None
        BY <3>2, <2>1, <2>2, <1>c DEF AtLog
      <4>. QED  BY <3>1, <3>2, <4>1, <2>1, <2>2 DEF Matches
    <3>3. CASE x \notin Under(e.path)
      <4>1. Matches(x)
        BY <3>3, <2>1, <2>2, <1>o DEF AtLog
      <4>. QED  BY <3>1, <3>3, <4>1, <2>1 DEF Matches
    <3>. QED  BY <3>2, <3>3
  <2>5. \A x : ~ AtLog(p, x)'
    BY <2>1 DEF AtLog
  <2>. QED  BY <2>1, <2>4, <2>5, <1>o, <1>s
<1>10. ASSUME NEW p \in Proc, IndexWrite(p)
       PROVE  LogInv'
  <2>1. /\ Busy(p) /\ pc[p] \in {"subindex", "index"} /\ log' = log
        /\ \A x \in Path \ Reserved : files'[x] = files[x]
        /\ Goto(p, "index") \/ Exit(p)
    BY <1>10 DEF IndexWrite, Indexes, Busy
  <2>2. Alone(p) /\ pc'[p] \in {"index", "idle"}
    BY <2>1, <1>t, GotoFacts, ExitFacts
  <2>3. \A x \in (Path \ Reserved) \ unsure' : Matches(x)'
    BY <2>1, <1>o, <1>t, <1>m DEF AtLog
  <2>4. \A x : ~ AtLog(p, x)'
    BY <2>2 DEF AtLog
  <2>. QED  BY <2>1, <2>2, <2>3, <2>4, <1>o, <1>s
\* A directory is missing: another command was at work, or nothing is to be logged.
<1>11. ASSUME NEW p \in Proc, NoDirectory(p)
       PROVE  LogInv'
  <2>1. /\ Busy(p) /\ log' = log /\ files' = files /\ Exit(p) /\ ~(Needs(p) \subseteq dirs)
    BY <1>11 DEF NoDirectory
  <2>2. CASE pc[p] \in {"log", "logwrite"}
    <3>1. "lib" \notin dirs
      BY <2>1, <2>2 DEF Needs
    <3>2. "lib" \in dirs
      BY <2>2, <1>d
    <3>. QED  BY <3>1, <3>2
  <2>3. CASE ~(pc[p] \in {"log", "logwrite"})
    BY <2>1, <2>3, <1>3
  <2>. QED  BY <2>2, <2>3
\* A killed command leaves a doubt about what it has done or was just writing.
<1>12. ASSUME NEW p \in Proc, Die(p)
       PROVE  LogInv'
  <2>1. Busy(p) /\ Alone(p) /\ pc'[p] = "idle"
    BY <1>12, <1>t, ExitFacts DEF Die
  <2>2. /\ log' = log /\ \A x \in Path \ unsure' : files'[x] = files[x]
    BY <1>12 DEF Die, CutOff
  <2>3. pc[p] \in {"log", "logwrite"} => Under(cmd[p].path) \subseteq unsure'
    BY <1>12 DEF Die, CutOff
  <2>4. ASSUME NEW x \in (Path \ Reserved) \ unsure'
        PROVE  Matches(x)'
    <3>1. Matches(x)
      BY <2>1, <2>3, <1>o, <1>t DEF AtLog
    <3>. QED  BY <3>1, <2>2, <1>m
  <2>5. \A x : ~ AtLog(p, x)'
    BY <2>1 DEF AtLog
  <2>. QED  BY <2>1, <2>4, <2>5, <1>o, <1>s
<1>13. CASE cmd_lib_rm \/ cmd_lib_new
  <2>1. /\ \A q \in Proc : ~ Busy(q) /\ pc'[q] = pc[q]
    BY <1>13 DEF cmd_lib_rm, cmd_lib_new, procVars
  <2>2. \A q \in Proc : ~ Busy(q)' /\ pc'[q] = "idle"
    BY <2>1 DEF Busy
  <2>3. \A x \in (Path \ Reserved) \ unsure : Matches(x)
    BY <2>1, <1>b DEF Busy, AtLog
  <2>4. CASE cmd_lib_rm
    <3>1. \A x \in Path : Matches(x)'
      BY <2>4 DEF cmd_lib_rm, Matches, LastSaysHere
    <3>. QED  BY <2>2, <3>1, <1>t DEF LogInv, AtLog
  <2>5. CASE cmd_lib_new
    <3>1. \A x \in (Path \ Reserved) \ unsure' : Matches(x)'
      <4>1. \A x \in Path \ Reserved : files[x] = None /\ files'[x] = None
        BY <2>5, <1>t DEF cmd_lib_new, NewFiles, LibraryOK
      <4>. QED  BY <2>5, <2>3, <4>1, <1>t, <1>m DEF cmd_lib_new
    <3>. QED  BY <2>2, <3>1, <1>t DEF LogInv, AtLog
  <2>. QED  BY <1>13, <2>4, <2>5
<1>14. CASE UNCHANGED vars
  BY <1>14, <1>t DEF vars, procVars, history, LogInv, Busy, AtLog, Matches, LastSaysHere
<1>. QED
  BY <1>1, <1>4, <1>6, <1>7, <1>8, <1>9, <1>10, <1>11, <1>12, <1>13, <1>14 DEF Next, Step

\* When no command runs, the last entry of the log about a concept says whether it is
\* there, for every number of commands, unless its command was killed or two overlapped.
THEOREM LogTells == Spec => []LogMatches
<1>1. ASSUME LogInv PROVE LogMatches
  <2>1. CASE unsure = Path
    BY <2>1 DEF LogMatches
  <2>2. CASE unsure # Path
    BY <1>1, <2>2 DEF LogInv, LogMatches, AtLog, Busy, Matches
  <2>. QED  BY <2>1, <2>2
<1>. QED  BY <1>1, InitLog, LogStep, PTL DEF Spec
=============================================================================
