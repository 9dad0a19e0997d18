---------------------------- MODULE FileSyncProofs ----------------------------
(***************************************************************************)
(* Proofs about FileSync, for any number of clients, paths, edits, faults  *)
(* and watcher events, and whatever the clients, users and leases do.      *)
(***************************************************************************)
EXTENDS FileSync, TLAPS

-----------------------------------------------------------------------------
(* Types *)

\* What client c is about to do concerns entries that there are, an object that it pulls
\* is one that the server has, and a file that it has compared is kept.
ClientOK(c) ==
    /\ todo[c] \subseteq Entries(pushing[c])
    /\ pc[c] = "upload" => entry[c] \in Entries(pushing[c])
    /\ pc[c] = "save" => todo[c] = {}
    /\ pull[c].changed # {} => pull[c].tree \in Tree
    /\ \A p \in pull[c].changed : pull[c].tree[p] \in Content
    /\ pc[c] \in {"create", "write", "cache"} =>
          \A p \in Path : IsFirst(p, pull[c].changed) => store[pull[c].tree[p]] # None
    /\ pc[c] = "create" =>
          \A p \in Path : IsFirst(p, pull[c].changed) =>
              held[c] = None \/ held[c] = pull[c].tree[p] \/ held[c] \in copies[c]
    /\ held[c] # None => pc[c] \in {"create", "keep", "fill"}
    /\ writing[c] # None => pc[c] \in {"keep", "fill"}
    /\ pc[c] \in {"keep", "fill"} => held[c] # None /\ writing[c] # None

SyncOK == TypeOK /\ \A c \in Client : ClientOK(c)

\* The constants of the state are well typed.
LEMMA Constants ==
    /\ EmptyTree \in Tree /\ NoObjects \in Objects /\ Entries(EmptyTree) = {}
    /\ NoDiff \in Diff /\ NoDiff.changed = {} /\ NoDiff.removed = {} /\ NoDiff.tree = NoTree
    /\ \A t \in Tree : Entries(t) \subseteq Path /\ \A p \in Entries(t) : t[p] \in Content
    /\ 0 \in Content /\ None \notin Content
  BY SyncAssumption, NoTreeAssumption
     DEF EmptyTree, Tree, NoObjects, Objects, NoDiff, Diff, Entries, Content

\* In the first state every client is at rest.
LEMMA InitSync == Init => SyncOK
<1> SUFFICES ASSUME Init PROVE SyncOK
  OBVIOUS
<1>1. TypeOK
  BY Constants, SyncAssumption DEF Init, TypeOK, PC
<1>2. \A c \in Client : ClientOK(c)
  BY Constants DEF Init, ClientOK
<1>. QED  BY <1>1, <1>2 DEF SyncOK

\* The answer of the server names entries of the latest tree and of a known one.
LEMMA DiffFacts ==
    ASSUME TypeOK, NEW t \in Tree, NEW touched
    PROVE  LET d == DiffResult(t, touched) IN
           /\ d \in Diff
           /\ d.changed # {} => d.tree = latest /\ latest \in Tree
           /\ \A p \in d.changed : latest[p] \in Content
           /\ \A p \in d.removed : t \in archive /\ t[p] # None
           /\ d.changed \cap d.removed = {}
<1> DEFINE old == Known(t)
<1>1. old \in Tree /\ \A p \in Entries(old) : t \in archive /\ t[p] # None
  BY Constants DEF Known, Entries, EmptyTree
<1>2. Entries(old) \subseteq Path
  BY DEF Entries
<1>3. CASE latest = NoTree
  <2>1. DiffResult(t, touched) = [tree |-> NoTree, changed |-> {}, removed |-> Entries(old),
                                  gone |-> {}]
    BY <1>3 DEF DiffResult, NoDiff
  <2>. QED  BY <2>1, <1>1, <1>2 DEF Diff
<1>4. CASE latest # NoTree
  <2> DEFINE ch == {p \in Entries(latest) : old[p] # latest[p] \/ p \in touched}
  <2>1. DiffResult(t, touched) = [tree |-> latest, changed |-> ch,
                                  removed |-> Entries(old) \ Entries(latest), gone |-> {}]
    BY <1>4 DEF DiffResult
  <2>2. latest \in Tree
    BY <1>4 DEF TypeOK
  <2>3. ch \subseteq Entries(latest) /\ \A p \in Entries(latest) : p \in Path /\ latest[p] \in Content
    BY <2>2, Constants DEF Entries
  <2> HIDE DEF ch
  <2>. QED  BY <2>1, <2>2, <2>3, <1>1, <1>2 DEF Diff
<1>. QED  BY <1>3, <1>4

\* One client does something, the others keep what they have, and no stored object changes.
OwnStep(c) ==
    /\ \A x \in Content : store[x] # None => store'[x] = store[x]
    /\ \A d \in Client \ {c} :
        /\ pc'[d] = pc[d] /\ todo'[d] = todo[d] /\ entry'[d] = entry[d]
        /\ pushing'[d] = pushing[d] /\ pull'[d] = pull[d]
        /\ dir'[d] = dir[d] /\ copies'[d] = copies[d] /\ cache'[d] = cache[d]
        /\ local'[d] = local[d] /\ owed'[d] = owed[d] /\ init'[d] = init[d]
        /\ held'[d] = held[d] /\ writing'[d] = writing[d] /\ events'[d] = events[d]

\* The queue of the watcher stays in its bounds.
LEMMA NotifiedType ==
    ASSUME TypeOK, NEW c \in Client
    PROVE  Notified(c) \in 0 .. MaxEvents
  BY SyncAssumption DEF TypeOK, Notified

\* And so does the number of faults.
LEMMA FaultsType ==
    ASSUME TypeOK, faults' = faults \/ (faults < MaxFaults /\ faults' = faults + 1)
    PROVE  faults' \in 0 .. MaxFaults
  BY SyncAssumption DEF TypeOK

\* What the first step of a push does to a client.
LEMMA StartPushFacts ==
    ASSUME NEW c \in Client, NEW t \in Tree, StartPush(c, t),
           pc \in [Client -> PC], pushing \in [Client -> Tree], todo \in [Client -> SUBSET Path]
    PROVE  /\ pc' \in [Client -> PC] /\ pushing' \in [Client -> Tree]
           /\ todo' \in [Client -> SUBSET Path]
           /\ pc'[c] = "push" /\ pushing'[c] = t /\ todo'[c] = Entries(t)
           /\ \A d \in Client \ {c} : pc'[d] = pc[d] /\ pushing'[d] = pushing[d] /\ todo'[d] = todo[d]
  BY DEF StartPush, PC, Entries

\* A step of one client has only that client to look at.
LEMMA OthersOK ==
    ASSUME SyncOK, NEW c \in Client, OwnStep(c), TypeOK', ClientOK(c)'
    PROVE  SyncOK'
<1>1. ASSUME NEW d \in Client \ {c} PROVE ClientOK(d)'
  <2>1. ClientOK(d)
    BY DEF SyncOK
  <2>2. \A p \in Path : IsFirst(p, pull[d].changed) => pull[d].tree[p] \in Content
    BY <2>1 DEF ClientOK, IsFirst
  <2>. QED  BY <2>1, <2>2 DEF OwnStep, ClientOK, Entries, IsFirst
<1>. QED  BY <1>1 DEF SyncOK

\* What a step of client c leaves behind.
Fine(c) == SyncOK' /\ OwnStep(c)

\* Start keeps the types and touches the client it starts only.
LEMMA StartFine ==
    ASSUME SyncOK, NEW c \in Client, Start(c)
    PROVE  /\ Fine(c) /\ init'[c] = TRUE /\ local'[c] = dir[c] /\ pc[c] = "off"
           /\ UNCHANGED <<store, archive, latest, lock, dir, copies, cache, held, writing, events,
                          owed, purged, raced, skewed, unseen>>
           /\ \/ /\ pc'[c] = "pull" /\ UNCHANGED <<pushing, todo>>
                 /\ \E touched : pull'[c] = IF latest = NoTree THEN NoDiff
                                            ELSE DiffResult(dir[c], touched)
              \/ pc'[c] = "push" /\ pushing'[c] = dir[c] /\ todo'[c] = Entries(dir[c]) /\ pull' = pull
<1>t. TypeOK /\ ClientOK(c)
  BY DEF SyncOK
<1>u. /\ pc[c] = "off" /\ init' = [init EXCEPT ![c] = TRUE] /\ local' = [local EXCEPT ![c] = dir[c]]
      /\ UNCHANGED <<store, archive, latest, lock, dir, copies, cache, entry, held, writing, events,
                     edits, owed, purged, raced, skewed, unseen>>
  BY DEF Start, serverVars, userVars, histories
<1>2. dir[c] \in Tree
  BY <1>t DEF TypeOK
<1>3. /\ init' \in [Client -> BOOLEAN] /\ local' \in [Client -> Tree]
      /\ init'[c] = TRUE /\ local'[c] = dir[c]
      /\ \A d \in Client \ {c} : init'[d] = init[d] /\ local'[d] = local[d]
  BY <1>u, <1>2, <1>t DEF TypeOK
<1>4. CASE /\ \E touched : pull' = [pull EXCEPT ![c] = IF latest = NoTree THEN NoDiff
                                                       ELSE DiffResult(dir[c], touched)]
           /\ pc' = [pc EXCEPT ![c] = "pull"] /\ UNCHANGED <<pushing, todo, faults>>
  <2>1. PICK touched : pull' = [pull EXCEPT ![c] = IF latest = NoTree THEN NoDiff
                                                   ELSE DiffResult(dir[c], touched)]
    BY <1>4
  <2> DEFINE d == IF latest = NoTree THEN NoDiff ELSE DiffResult(dir[c], touched)
  <2>2. /\ d \in Diff
        /\ d.changed # {} => d.tree \in Tree
        /\ \A p \in d.changed : d.tree[p] \in Content
    BY <1>t, <1>2, DiffFacts, Constants
  <2>3. pull' = [pull EXCEPT ![c] = d]
    BY <2>1
  <2>4. pull'[c] = d
    BY <2>3, <1>t DEF TypeOK
  <2>5. pull'[c] = IF latest = NoTree THEN NoDiff ELSE DiffResult(dir[c], touched)
    BY <2>4
  <2> HIDE DEF d
  <2>6. /\ pull' \in [Client -> Diff] /\ \A e \in Client \ {c} : pull'[e] = pull[e]
    BY <2>2, <2>3, <1>t DEF TypeOK
  <2>7. /\ pc' \in [Client -> PC] /\ pc'[c] = "pull" /\ UNCHANGED <<pushing, todo, faults>>
        /\ \A e \in Client \ {c} : pc'[e] = pc[e]
    BY <1>4, <1>t DEF TypeOK, PC
  <2>8. TypeOK'
    BY <2>6, <2>7, <1>u, <1>3, <1>t DEF TypeOK
  <2>9. OwnStep(c)
    BY <2>6, <2>7, <1>u, <1>3 DEF OwnStep
  <2>10. ClientOK(c)'
    BY <2>2, <2>4, <2>7, <1>u, <1>t DEF ClientOK, Entries
  <2>. QED  BY <2>5, <2>7, <2>8, <2>9, <2>10, <1>u, <1>3, OthersOK DEF Fine
<1>5. CASE Fails("diff") /\ StartPush(c, dir[c]) /\ UNCHANGED pull
  <2>1. /\ pc' \in [Client -> PC] /\ pushing' \in [Client -> Tree]
        /\ todo' \in [Client -> SUBSET Path]
        /\ pc'[c] = "push" /\ pushing'[c] = dir[c] /\ todo'[c] = Entries(dir[c])
        /\ \A d \in Client \ {c} : pc'[d] = pc[d] /\ pushing'[d] = pushing[d] /\ todo'[d] = todo[d]
    BY <1>2, <1>5, <1>t, StartPushFacts DEF TypeOK
  <2>2. faults' \in 0 .. MaxFaults
    BY <1>5, <1>t, FaultsType DEF Fails
  <2>3. TypeOK'
    BY <2>1, <2>2, <1>5, <1>u, <1>3, <1>t DEF TypeOK
  <2>4. OwnStep(c)
    BY <2>1, <1>5, <1>u, <1>3 DEF OwnStep
  <2>5. ClientOK(c)'
    BY <2>1, <1>5, <1>u, <1>t DEF ClientOK, Entries
  <2>. QED  BY <2>1, <2>3, <2>4, <2>5, <1>5, <1>u, <1>3, OthersOK DEF Fine
<1>. QED  BY <1>4, <1>5 DEF Start

\* Poll keeps the types: the diff is between two trees of the right shape.
LEMMA PollFine ==
    ASSUME SyncOK, NEW c \in Client, Poll(c)
    PROVE  /\ Fine(c) /\ pc[c] = "loop" /\ pc'[c] = "pull"
           /\ UNCHANGED <<store, archive, latest, lock, init, dir, copies, cache, local, pushing, todo,
                          entry, held, writing, events, owed, purged, raced, skewed, unseen>>
<1>t. TypeOK /\ ClientOK(c)
  BY DEF SyncOK
<1>1. PICK touched : pull' = [pull EXCEPT ![c] = DiffResult(local[c], touched)]
  BY DEF Poll
<1>2. local[c] \in Tree
  BY <1>t DEF TypeOK
<1> DEFINE d == DiffResult(local[c], touched)
<1>3. /\ d \in Diff
      /\ d.changed # {} => d.tree \in Tree
      /\ \A p \in d.changed : d.tree[p] \in Content
  BY <1>t, <1>2, DiffFacts
<1>4. pull' = [pull EXCEPT ![c] = d]
  BY <1>1
<1> HIDE DEF d
<1>u. /\ UNCHANGED <<store, archive, latest, lock, init, dir, copies, cache, local, pushing, todo,
                     entry, held, writing, events, edits, owed, purged, raced, skewed, unseen, faults>>
      /\ pc[c] = "loop" /\ pc' = [pc EXCEPT ![c] = "pull"]
  BY DEF Poll, serverVars, userVars, histories
<1>5. /\ pc' \in [Client -> PC] /\ pc'[c] = "pull" /\ \A e \in Client \ {c} : pc'[e] = pc[e]
  BY <1>u, <1>t DEF TypeOK, PC
<1>6. /\ pull' \in [Client -> Diff] /\ pull'[c] = d /\ \A e \in Client \ {c} : pull'[e] = pull[e]
  BY <1>3, <1>4, <1>t DEF TypeOK
<1>7. TypeOK'
  BY <1>5, <1>6, <1>u, <1>t DEF TypeOK
<1>8. OwnStep(c)
  BY <1>5, <1>6, <1>u DEF OwnStep
<1>9. ClientOK(c)'
  BY <1>3, <1>5, <1>6, <1>u, <1>t DEF ClientOK, Entries
<1>. QED  BY <1>5, <1>7, <1>8, <1>9, <1>u, OthersOK DEF Fine

\* The path that client c pulls, its blob, and what is known about them.
LEMMA FirstPulled ==
    ASSUME SyncOK, NEW c \in Client, NEW p \in Path, IsFirst(p, pull[c].changed)
    PROVE  /\ p \in pull[c].changed /\ pull[c].tree[p] \in Content /\ dir[c][p] \in Content \cup {None}
           /\ store[pull[c].tree[p]] \in Content \cup {None}
<1>1. p \in pull[c].changed /\ pull[c].tree[p] \in Content
  BY DEF IsFirst, SyncOK, ClientOK
<1>. QED  BY <1>1 DEF SyncOK, TypeOK, Tree, Objects

\* The comparison of a pull keeps a conflict copy, or it forgets what it read.
Compared(c, p) ==
    /\ pc[c] = "pull" /\ pc'[c] = "create" /\ IsFirst(p, pull[c].changed)
    /\ \/ copies'[c] = copies[c] \cup ConflictCopy(c, p) /\ held'[c] = dir[c][p]
       \/ "copy" \in Faults /\ copies'[c] = copies[c] /\ held'[c] = None
    /\ UNCHANGED <<store, archive, latest, lock, init, dir, cache, local, pushing, todo, entry, pull,
                   writing, events, owed, purged, raced, skewed, unseen>>

\* PullCompare keeps the types.
LEMMA PullCompareFine ==
    ASSUME SyncOK, NEW c \in Client, NEW p \in Path, PullCompare(c, p)
    PROVE  Fine(c) /\ Compared(c, p)
<1>t. TypeOK /\ ClientOK(c)
  BY DEF SyncOK
<1>u. /\ UNCHANGED <<store, archive, latest, lock, init, dir, cache, local, pushing, todo, entry, pull,
                     writing, events, edits, owed, purged, raced, skewed, unseen>>
      /\ pc[c] = "pull" /\ pc' = [pc EXCEPT ![c] = "create"] /\ IsFirst(p, pull[c].changed)
      /\ store[pull[c].tree[p]] # None
  BY DEF PullCompare, serverVars, userVars, histories
<1>1. held[c] = None
  BY <1>u, <1>t DEF ClientOK
<1>2. /\ dir[c][p] \in Content \cup {None} /\ pull[c].tree[p] \in Content
      /\ ConflictCopy(c, p) \subseteq Content
      /\ dir[c][p] = None \/ dir[c][p] = pull[c].tree[p] \/ dir[c][p] \in ConflictCopy(c, p)
  BY <1>u, FirstPulled DEF ConflictCopy
<1>3. /\ pc' \in [Client -> PC] /\ pc'[c] = "create" /\ \A e \in Client \ {c} : pc'[e] = pc[e]
  BY <1>u, <1>t DEF TypeOK, PC
<1>f. faults' \in 0 .. MaxFaults
  BY <1>t, FaultsType DEF PullCompare, Fails
<1>4. /\ copies' \in [Client -> SUBSET Content] /\ held' \in [Client -> Content \cup {None}]
      /\ \A e \in Client \ {c} : copies'[e] = copies[e] /\ held'[e] = held[e]
      /\ \/ copies'[c] = copies[c] \cup ConflictCopy(c, p) /\ held'[c] = dir[c][p]
         \/ "copy" \in Faults /\ copies'[c] = copies[c] /\ held'[c] = None
  <2>1. CASE /\ copies' = [copies EXCEPT ![c] = @ \cup ConflictCopy(c, p)]
             /\ held' = [held EXCEPT ![c] = dir[c][p]]
    BY <2>1, <1>2, <1>t DEF TypeOK
  <2>2. CASE Fails("copy") /\ UNCHANGED <<copies, held>>
    BY <2>2, <1>1, <1>t DEF TypeOK, Fails
  <2>. QED  BY <2>1, <2>2 DEF PullCompare
<1>5. TypeOK'
  BY <1>3, <1>4, <1>f, <1>u, <1>t DEF TypeOK
<1>6. OwnStep(c)
  BY <1>3, <1>4, <1>u DEF OwnStep
<1>7. \A q \in Path : IsFirst(q, pull[c].changed) => q = p
  <2>1. \A q \in Path : IsFirst(q, pull[c].changed) => q <= p /\ p <= q
    BY <1>u DEF IsFirst
  <2>. QED  BY <2>1, SyncAssumption
<1>8. ClientOK(c)'
  <2>1. held'[c] = None \/ held'[c] = pull[c].tree[p] \/ held'[c] \in copies'[c]
    BY <1>2, <1>4
  <2>. QED  BY <2>1, <1>3, <1>7, <1>u, <1>t DEF ClientOK, Entries, IsFirst
<1>9. Compared(c, p)
  BY <1>3, <1>4, <1>u DEF Compared
<1>. QED  BY <1>5, <1>6, <1>8, <1>9, OthersOK DEF Fine

\* What the creation or the writing of a pulled file does: x is the new content, and what
\* it replaces is kept or written down as raced.
Wrote(c, p, x) ==
    /\ IsFirst(p, pull[c].changed)
    /\ dir'[c][p] = x /\ \A q \in Path \ {p} : dir'[c][q] = dir[c][q]
    /\ \/ /\ pc[c] = "create" /\ pc'[c] = "write" /\ x = 0
          /\ raced' = raced \cup ((owed[c] \cap {dir[c][p]}) \ {held[c]})
       \/ /\ pc[c] = "write" /\ pc'[c] = "cache" /\ (dir[c][p] = None => x = None)
          /\ raced' = raced \cup ((owed[c] \cap {dir[c][p]}) \ {x})
    /\ dir[c][p] = None \/ x # None
    /\ events'[c] = Notified(c)
    /\ UNCHANGED <<store, archive, latest, lock, init, copies, cache, local, pushing, todo, entry, pull,
                   writing, owed, purged, skewed, unseen>>

\* PullCreate and PullWrite keep the types.
LEMMA PullWriteFine ==
    ASSUME SyncOK, NEW c \in Client, NEW p \in Path, PullCreate(c, p) \/ PullWrite(c, p)
    PROVE  Fine(c) /\ \E x \in Content \cup {None} : Wrote(c, p, x)
<1>t. TypeOK /\ ClientOK(c)
  BY DEF SyncOK
<1>u. /\ UNCHANGED <<store, archive, latest, lock, init, copies, cache, local, pushing, todo, entry, pull,
                     writing, edits, owed, purged, skewed, unseen, faults>>
      /\ IsFirst(p, pull[c].changed) /\ events' = [events EXCEPT ![c] = Notified(c)]
      /\ pc[c] \in {"create", "write"}
  BY DEF PullCreate, PullWrite, serverVars, syncVars
<1>1. /\ dir[c][p] \in Content \cup {None} /\ store[pull[c].tree[p]] \in Content
      /\ 0 \in Content /\ None \notin Content
  BY <1>u, <1>t, FirstPulled, Constants DEF ClientOK
<1>2. PICK x \in Content \cup {None} :
          /\ dir' = [dir EXCEPT ![c][p] = x]
          /\ dir[c][p] = None \/ x # None
          /\ \/ /\ pc[c] = "create" /\ pc' = [pc EXCEPT ![c] = "write"] /\ x = 0
                /\ raced' = raced \cup ((owed[c] \cap {dir[c][p]}) \ {held[c]})
                /\ held' = [held EXCEPT ![c] = None]
             \/ /\ pc[c] = "write" /\ pc' = [pc EXCEPT ![c] = "cache"] /\ (dir[c][p] = None => x = None)
                /\ raced' = raced \cup ((owed[c] \cap {dir[c][p]}) \ {x})
                /\ held' = held
  <2>1. CASE PullCreate(c, p)
    BY <2>1, <1>1 DEF PullCreate
  <2>2. CASE PullWrite(c, p)
    <3>1. /\ pc[c] = "write" /\ pc' = [pc EXCEPT ![c] = "cache"] /\ held' = held
      BY <2>2 DEF PullWrite, syncVars
    <3>2. CASE dir[c][p] = 0
      <4>1. /\ dir' = [dir EXCEPT ![c][p] = store[pull[c].tree[p]]]
            /\ raced' = raced \cup ((owed[c] \cap {dir[c][p]}) \ {store[pull[c].tree[p]]})
        BY <2>2, <3>2, <1>1 DEF PullWrite
      <4>. QED  BY <4>1, <3>1, <3>2, <1>1
    <3>3. CASE dir[c][p] = None
      <4>1. dir' = [dir EXCEPT ![c][p] = None] /\ raced' = raced \cup ((owed[c] \cap {dir[c][p]}) \ {None})
        BY <2>2, <3>3, <1>1 DEF PullWrite
      <4>. QED  BY <4>1, <3>1, <3>3
    <3>4. CASE dir[c][p] # 0 /\ dir[c][p] # None
      <4>1. PICK y \in {dir[c][p], store[pull[c].tree[p]], 0} :
                dir' = [dir EXCEPT ![c][p] = y] /\ raced' = raced \cup ((owed[c] \cap {dir[c][p]}) \ {y})
        BY <2>2, <3>4 DEF PullWrite
      <4>2. y \in Content
        BY <3>4, <1>1
      <4>. QED  BY <4>1, <4>2, <3>1, <3>4, <1>1
    <3>. QED  BY <3>2, <3>3, <3>4
  <2>. QED  BY <2>1, <2>2
<1>3. /\ dir' \in [Client -> Tree] /\ dir'[c][p] = x
      /\ \A q \in Path \ {p} : dir'[c][q] = dir[c][q]
      /\ \A d \in Client \ {c} : dir'[d] = dir[d]
  BY <1>2, <1>t DEF TypeOK, Tree
<1>4. /\ pc' \in [Client -> PC] /\ \A d \in Client \ {c} : pc'[d] = pc[d]
      /\ (pc[c] = "create" /\ pc'[c] = "write") \/ (pc[c] = "write" /\ pc'[c] = "cache")
  BY <1>2, <1>t DEF TypeOK, PC
<1>5. /\ held' \in [Client -> Content \cup {None}] /\ held'[c] = None
      /\ \A d \in Client \ {c} : held'[d] = held[d]
  BY <1>2, <1>t DEF TypeOK, ClientOK
<1>6. /\ events' \in [Client -> 0 .. MaxEvents] /\ events'[c] = Notified(c)
      /\ \A d \in Client \ {c} : events'[d] = events[d]
  BY <1>u, <1>t, NotifiedType DEF TypeOK
<1>7. raced' \subseteq Content
  BY <1>2, <1>t DEF TypeOK
<1>8. TypeOK'
  BY <1>3, <1>4, <1>5, <1>6, <1>7, <1>u, <1>t DEF TypeOK
<1>9. OwnStep(c)
  BY <1>3, <1>4, <1>5, <1>6, <1>u DEF OwnStep
<1>10. ClientOK(c)'
  BY <1>4, <1>5, <1>u, <1>t DEF ClientOK, Entries, IsFirst
<1>11. Wrote(c, p, x)
  <2>1. \/ /\ pc[c] = "create" /\ pc'[c] = "write" /\ x = 0
           /\ raced' = raced \cup ((owed[c] \cap {dir[c][p]}) \ {held[c]})
        \/ /\ pc[c] = "write" /\ pc'[c] = "cache" /\ (dir[c][p] = None => x = None)
           /\ raced' = raced \cup ((owed[c] \cap {dir[c][p]}) \ {x})
    BY <1>2, <1>4
  <2>. QED  BY <2>1, <1>2, <1>3, <1>6, <1>u DEF Wrote
<1>. QED  BY <1>8, <1>9, <1>10, <1>11, OthersOK DEF Fine

\* A path is taken from the list of the pull that client c applies.
LEMMA PullFacts ==
    ASSUME NEW c \in Client, NEW p \in Path, pull \in [Client -> Diff],
           \/ pull' = [pull EXCEPT ![c].changed = @ \ {p}]
           \/ pull' = [pull EXCEPT ![c].changed = @ \ {p}, ![c].gone = @ \cup {p}]
    PROVE  /\ pull' \in [Client -> Diff]
           /\ pull'[c].changed = pull[c].changed \ {p}
           /\ pull'[c].tree = pull[c].tree /\ pull'[c].removed = pull[c].removed
           /\ pull[c].gone \subseteq pull'[c].gone
           /\ \A d \in Client \ {c} : pull'[d] = pull[d]
<1>1. pull[c] \in Diff
  OBVIOUS
<1>2. PICK r \in {[pull[c] EXCEPT !.changed = @ \ {p}],
                  [pull[c] EXCEPT !.changed = @ \ {p}, !.gone = @ \cup {p}]} :
          pull' = [pull EXCEPT ![c] = r]
  OBVIOUS
<1>3. /\ r \in Diff /\ r.changed = pull[c].changed \ {p} /\ r.tree = pull[c].tree
      /\ r.removed = pull[c].removed /\ pull[c].gone \subseteq r.gone
  BY <1>1, <1>2 DEF Diff
<1>. QED  BY <1>2, <1>3

\* An object for blob b of client c is created, with bytes x to be filled in.
Created(c, b, x) ==
    /\ b \in Content /\ x \in Content
    /\ cache[c][b] = None /\ cache'[c][b] = 0
    /\ \A y \in Content \ {b} : cache'[c][y] = cache[c][y]
    /\ held'[c] = x /\ writing'[c] = b

\* The last step of the pull of a file.
Caching(c, p) ==
    LET b == pull[c].tree[p] IN
    /\ pc[c] = "cache" /\ IsFirst(p, pull[c].changed)
    /\ \/ pc'[c] = "pull" /\ cache' = cache /\ writing' = writing
       \/ pc'[c] = "keep" /\ Created(c, b, store[b])
    /\ pull'[c].changed = pull[c].changed \ {p}
    /\ pull'[c].tree = pull[c].tree /\ pull'[c].removed = pull[c].removed
    /\ pull[c].gone \subseteq pull'[c].gone
    /\ UNCHANGED <<store, archive, latest, lock, init, dir, copies, local, pushing, todo, entry,
                   events, owed, purged, raced, skewed, unseen>>

\* PullCache keeps the types.
LEMMA PullCacheFine ==
    ASSUME SyncOK, NEW c \in Client, NEW p \in Path, PullCache(c, p)
    PROVE  Fine(c) /\ Caching(c, p)
<1>t. TypeOK /\ ClientOK(c)
  BY DEF SyncOK
<1> DEFINE b == pull[c].tree[p]
<1>u. /\ UNCHANGED <<store, archive, latest, lock, init, dir, copies, local, pushing, todo, entry,
                     events, edits, owed, purged, raced, skewed, unseen, faults>>
      /\ pc[c] = "cache" /\ IsFirst(p, pull[c].changed)
      /\ pull' = [pull EXCEPT ![c].changed = @ \ {p}]
  BY DEF PullCache, serverVars, userVars, histories
<1>1. b \in Content /\ store[b] \in Content /\ 0 \in Content /\ None \notin Content
  BY <1>u, <1>t, FirstPulled, Constants DEF ClientOK
<1>2. /\ pull' \in [Client -> Diff]
      /\ pull'[c].changed = pull[c].changed \ {p}
      /\ pull'[c].tree = pull[c].tree /\ pull'[c].removed = pull[c].removed
      /\ pull[c].gone \subseteq pull'[c].gone
      /\ \A d \in Client \ {c} : pull'[d] = pull[d]
  BY <1>u, <1>t, PullFacts DEF TypeOK
<1>3. \/ pc' = [pc EXCEPT ![c] = "pull"] /\ UNCHANGED <<cache, held, writing>>
      \/ /\ cache[c][b] = None /\ cache' = [cache EXCEPT ![c][b] = 0]
         /\ held' = [held EXCEPT ![c] = store[b]] /\ writing' = [writing EXCEPT ![c] = b]
         /\ pc' = [pc EXCEPT ![c] = "keep"]
  BY DEF PullCache
<1> HIDE DEF b
<1>4. /\ pc' \in [Client -> PC] /\ cache' \in [Client -> Objects]
      /\ held' \in [Client -> Content \cup {None}] /\ writing' \in [Client -> Content \cup {None}]
      /\ \A d \in Client \ {c} : /\ pc'[d] = pc[d] /\ cache'[d] = cache[d]
                                 /\ held'[d] = held[d] /\ writing'[d] = writing[d]
      /\ \/ pc'[c] = "pull" /\ UNCHANGED <<cache, held, writing>>
         \/ pc'[c] = "keep" /\ Created(c, b, store[b])
  <2>1. CASE pc' = [pc EXCEPT ![c] = "pull"] /\ UNCHANGED <<cache, held, writing>>
    BY <2>1, <1>t DEF TypeOK, PC
  <2>2. CASE /\ cache[c][b] = None /\ cache' = [cache EXCEPT ![c][b] = 0]
             /\ held' = [held EXCEPT ![c] = store[b]] /\ writing' = [writing EXCEPT ![c] = b]
             /\ pc' = [pc EXCEPT ![c] = "keep"]
    <3>1. /\ cache' \in [Client -> Objects] /\ cache'[c][b] = 0
          /\ \A y \in Content \ {b} : cache'[c][y] = cache[c][y]
          /\ \A d \in Client \ {c} : cache'[d] = cache[d]
      BY <2>2, <1>1, <1>t DEF TypeOK, Objects
    <3>. QED  BY <3>1, <2>2, <1>1, <1>t DEF TypeOK, PC, Created
  <2>. QED  BY <2>1, <2>2, <1>3
<1>5. TypeOK'
  BY <1>2, <1>4, <1>u, <1>t DEF TypeOK
<1>6. OwnStep(c)
  BY <1>2, <1>4, <1>u DEF OwnStep
<1>7. ClientOK(c)'
  BY <1>1, <1>2, <1>4, <1>u, <1>t DEF ClientOK, Entries, Created
<1>8. Caching(c, p)
  BY <1>2, <1>4, <1>u DEF Caching, b
<1>. QED  BY <1>5, <1>6, <1>7, <1>8, OthersOK DEF Fine

\* The created object is filled with the bytes that the client has.
Filled(c) ==
    /\ pc[c] \in {"keep", "fill"} /\ writing[c] \in Content /\ held[c] \in Content
    /\ (pc[c] = "keep" => pc'[c] = "pull") /\ (pc[c] = "fill" => pc'[c] = "push")
    /\ cache'[c][writing[c]] = held[c] /\ writing'[c] = None
    /\ \A y \in Content \ {writing[c]} : cache'[c][y] = cache[c][y]
    /\ UNCHANGED <<store, archive, latest, lock, init, dir, copies, local, pushing, todo, entry, pull,
                   events, owed, purged, raced, skewed, unseen>>

\* FillObject keeps the types.
LEMMA FillObjectFine ==
    ASSUME SyncOK, NEW c \in Client, FillObject(c)
    PROVE  Fine(c) /\ Filled(c)
<1>t. TypeOK /\ ClientOK(c)
  BY DEF SyncOK
<1>u. /\ UNCHANGED <<store, archive, latest, lock, init, dir, copies, local, pushing, todo, entry, pull,
                     events, edits, owed, purged, raced, skewed, unseen, faults>>
      /\ pc[c] \in {"keep", "fill"} /\ pc' = [pc EXCEPT ![c] = IF @ = "keep" THEN "pull" ELSE "push"]
      /\ cache' = [cache EXCEPT ![c][writing[c]] = held[c]]
      /\ held' = [held EXCEPT ![c] = None] /\ writing' = [writing EXCEPT ![c] = None]
  BY DEF FillObject, serverVars, userVars, histories
<1>1. writing[c] \in Content /\ held[c] \in Content
  BY <1>u, <1>t DEF ClientOK, TypeOK
<1>2. /\ cache' \in [Client -> Objects] /\ cache'[c][writing[c]] = held[c]
      /\ \A y \in Content \ {writing[c]} : cache'[c][y] = cache[c][y]
      /\ \A d \in Client \ {c} : cache'[d] = cache[d]
  BY <1>1, <1>u, <1>t DEF TypeOK, Objects
<1>3. /\ pc' \in [Client -> PC] /\ held' \in [Client -> Content \cup {None}]
      /\ writing' \in [Client -> Content \cup {None}] /\ held'[c] = None /\ writing'[c] = None
      /\ \A d \in Client \ {c} : pc'[d] = pc[d] /\ held'[d] = held[d] /\ writing'[d] = writing[d]
      /\ (pc[c] = "keep" => pc'[c] = "pull") /\ (pc[c] = "fill" => pc'[c] = "push")
  BY <1>u, <1>t DEF TypeOK, PC
<1>4. TypeOK'
  BY <1>2, <1>3, <1>u, <1>t DEF TypeOK
<1>5. OwnStep(c)
  BY <1>2, <1>3, <1>u DEF OwnStep
<1>6. ClientOK(c)'
  BY <1>3, <1>u, <1>t DEF ClientOK, Entries
<1>7. Filled(c)
  BY <1>1, <1>2, <1>3, <1>u DEF Filled
<1>. QED  BY <1>4, <1>5, <1>6, <1>7, OthersOK DEF Fine

\* PullMiss keeps the types.
LEMMA PullMissFine ==
    ASSUME SyncOK, NEW c \in Client, NEW p \in Path, PullMiss(c, p)
    PROVE  /\ Fine(c) /\ pc[c] = "pull"
           /\ pull'[c].changed = pull[c].changed \ {p} /\ p \in pull'[c].gone
           /\ pull'[c].tree = pull[c].tree /\ pull'[c].removed = pull[c].removed
           /\ pull[c].gone \subseteq pull'[c].gone
           /\ UNCHANGED <<store, archive, latest, lock, pc, init, dir, copies, cache, local, pushing, todo,
                          entry, held, writing, events, owed, purged, raced, skewed, unseen>>
<1>t. TypeOK /\ ClientOK(c)
  BY DEF SyncOK
<1>u. /\ UNCHANGED <<store, archive, latest, lock, pc, init, dir, copies, cache, local, pushing, todo,
                     entry, held, writing, events, edits, owed, purged, raced, skewed, unseen, faults>>
      /\ pull' = [pull EXCEPT ![c].changed = @ \ {p}, ![c].gone = @ \cup {p}] /\ pc[c] = "pull"
  BY DEF PullMiss, serverVars, userVars, histories
<1>1. /\ pull' \in [Client -> Diff]
      /\ pull'[c].changed = pull[c].changed \ {p}
      /\ pull'[c].tree = pull[c].tree /\ pull'[c].removed = pull[c].removed
      /\ pull[c].gone \subseteq pull'[c].gone
      /\ \A d \in Client \ {c} : pull'[d] = pull[d]
  BY <1>u, <1>t, PullFacts DEF TypeOK
<1>2. p \in pull'[c].gone
  <2>1. pull[c] \in Diff
    BY <1>t DEF TypeOK
  <2>2. pull'[c] = [pull[c] EXCEPT !.changed = @ \ {p}, !.gone = @ \cup {p}]
    BY <1>u, <1>t DEF TypeOK
  <2>. QED  BY <2>1, <2>2 DEF Diff
<1>3. TypeOK' /\ OwnStep(c)
  BY <1>1, <1>u, <1>t DEF TypeOK, OwnStep
<1>4. ClientOK(c)'
  BY <1>1, <1>u, <1>t DEF ClientOK, Entries
<1>. QED  BY <1>1, <1>2, <1>3, <1>4, <1>u, OthersOK DEF Fine

\* The end of a pull of client c, with the tree that it has then.
Finished(c, built, t) ==
    /\ pc[c] = "pull" /\ pull[c].changed = {} /\ built \in BOOLEAN
    /\ built = FALSE => "tree" \in Faults
    /\ t = (IF built THEN Remaining(c) ELSE local[c])
    /\ dir'[c] = Remaining(c) /\ local'[c] = t
    /\ events'[c] = IF Remaining(c) = dir[c] THEN events[c] ELSE Notified(c)
    /\ purged' = purged \cup (owed[c] \cap {dir[c][p] : p \in pull[c].removed})
    /\ unseen' = IF init[c] /\ ~ built THEN unseen \cup Unsent(c) ELSE unseen
    /\ init[c] => pc'[c] = "push" /\ pushing'[c] = t /\ todo'[c] = Entries(t)
    /\ ~ init[c] => pc'[c] = "loop" /\ UNCHANGED <<pushing, todo>>
    /\ \/ init[c] /\ built /\ pull'[c].tree = pull[c].tree /\ pull'[c].gone = pull[c].gone
       \/ ~ (init[c] /\ built) /\ pull'[c] = NoDiff
    /\ UNCHANGED <<store, archive, latest, lock, init, copies, cache, entry, held, writing, owed,
                   raced, skewed>>

\* FinishPull keeps the types: the tree built again is the directory of the client.
LEMMA FinishPullFine ==
    ASSUME SyncOK, NEW c \in Client, FinishPull(c)
    PROVE  Fine(c) /\ \E built \in BOOLEAN, t \in Tree : Finished(c, built, t)
<1>t. TypeOK /\ ClientOK(c)
  BY DEF SyncOK
<1>1. Remaining(c) \in Tree /\ local[c] \in Tree
  BY <1>t DEF Remaining, TypeOK, Tree
<1>2. PICK built \in BOOLEAN :
          LET tree == IF built THEN Remaining(c) ELSE local[c] IN
          /\ IF built THEN UNCHANGED faults ELSE Fails("tree")
          /\ local' = [local EXCEPT ![c] = tree]
          /\ IF init[c]
             THEN StartPush(c, tree)
             ELSE pc' = [pc EXCEPT ![c] = "loop"] /\ UNCHANGED <<pushing, todo>>
          /\ pull' = [pull EXCEPT ![c] = IF init[c] /\ built THEN [@ EXCEPT !.removed = {}]
                                         ELSE NoDiff]
          /\ unseen' = IF init[c] /\ ~ built THEN unseen \cup Unsent(c) ELSE unseen
  BY DEF FinishPull
<1> DEFINE t == IF built THEN Remaining(c) ELSE local[c]
           r == IF init[c] /\ built THEN [pull[c] EXCEPT !.removed = {}] ELSE NoDiff
<1>3. /\ t \in Tree /\ t = (IF built THEN Remaining(c) ELSE local[c])
      /\ local' = [local EXCEPT ![c] = t] /\ (init[c] => StartPush(c, t))
      /\ ~ init[c] => pc' = [pc EXCEPT ![c] = "loop"] /\ UNCHANGED <<pushing, todo>>
  BY <1>1, <1>2
<1>4. /\ r \in Diff /\ r.changed = {} /\ pull' = [pull EXCEPT ![c] = r]
      /\ \/ init[c] /\ built /\ r.tree = pull[c].tree /\ r.gone = pull[c].gone
         \/ ~ (init[c] /\ built) /\ r = NoDiff
  <2>1. pull[c] \in Diff /\ pull[c].changed = {}
    BY <1>t DEF TypeOK, FinishPull
  <2>2. pull' = [pull EXCEPT ![c] = r]
    BY <1>2
  <2>. QED  BY <2>1, <2>2, Constants DEF Diff
<1>5. /\ unseen' = IF init[c] /\ ~ built THEN unseen \cup Unsent(c) ELSE unseen
      /\ IF built THEN UNCHANGED faults ELSE Fails("tree")
  BY <1>2
<1> HIDE DEF t, r
<1>u. /\ dir' = [dir EXCEPT ![c] = Remaining(c)] /\ pc[c] = "pull" /\ pull[c].changed = {}
      /\ events' = [events EXCEPT ![c] = IF Remaining(c) = dir[c] THEN @ ELSE Notified(c)]
      /\ purged' = purged \cup (owed[c] \cap {dir[c][p] : p \in pull[c].removed})
      /\ UNCHANGED <<store, archive, latest, lock, init, copies, cache, entry, held, writing, edits, owed,
                     raced, skewed>>
  BY DEF FinishPull, serverVars
<1>6. /\ dir'[c] = Remaining(c) /\ local'[c] = t /\ pull'[c] = r
      /\ dir' \in [Client -> Tree] /\ local' \in [Client -> Tree] /\ pull' \in [Client -> Diff]
      /\ \A d \in Client \ {c} : dir'[d] = dir[d] /\ local'[d] = local[d] /\ pull'[d] = pull[d]
  BY <1>1, <1>3, <1>4, <1>u, <1>t DEF TypeOK
<1>7. /\ events' \in [Client -> 0 .. MaxEvents] /\ \A d \in Client \ {c} : events'[d] = events[d]
      /\ events'[c] = IF Remaining(c) = dir[c] THEN events[c] ELSE Notified(c)
  BY <1>u, <1>t, NotifiedType DEF TypeOK
<1>8. purged' \subseteq Content /\ unseen' \subseteq Content /\ faults' \in 0 .. MaxFaults
  BY <1>5, <1>u, <1>t, FaultsType DEF TypeOK, Unsent, Fails
<1>9. /\ pc' \in [Client -> PC] /\ pushing' \in [Client -> Tree]
      /\ todo' \in [Client -> SUBSET Path]
      /\ \A d \in Client \ {c} : pc'[d] = pc[d] /\ pushing'[d] = pushing[d] /\ todo'[d] = todo[d]
      /\ init[c] => pc'[c] = "push" /\ pushing'[c] = t /\ todo'[c] = Entries(t)
      /\ ~ init[c] => pc'[c] = "loop" /\ UNCHANGED <<pushing, todo>>
  <2>1. CASE init[c]
    BY <2>1, <1>3, <1>t, StartPushFacts DEF TypeOK
  <2>2. CASE ~ init[c]
    BY <2>2, <1>3, <1>t DEF TypeOK, PC
  <2>. QED  BY <2>1, <2>2
<1>10. TypeOK'
  BY <1>6, <1>7, <1>8, <1>9, <1>u, <1>t DEF TypeOK
<1>11. OwnStep(c)
  BY <1>6, <1>7, <1>9, <1>u DEF OwnStep
<1>12. ClientOK(c)'
  BY <1>4, <1>6, <1>9, <1>u, <1>t DEF ClientOK, Entries
<1>13. Finished(c, built, t)
  <2>1. built = FALSE => "tree" \in Faults
    BY <1>5 DEF Fails
  <2>. QED  BY <2>1, <1>3, <1>4, <1>5, <1>6, <1>7, <1>9, <1>u DEF Finished
<1>. QED  BY <1>3, <1>10, <1>11, <1>12, <1>13, OthersOK DEF Fine

\* Watch keeps the types.
LEMMA WatchFine ==
    ASSUME SyncOK, NEW c \in Client, Watch(c)
    PROVE  /\ Fine(c) /\ pc[c] = "loop" /\ pc'[c] = "push" /\ pushing'[c] = dir[c]
           /\ todo'[c] = Entries(dir[c])
           /\ UNCHANGED <<store, archive, latest, lock, init, dir, copies, cache, local, entry, pull,
                          held, writing, owed, purged, raced, skewed, unseen>>
<1>t. TypeOK /\ ClientOK(c)
  BY DEF SyncOK
<1>1. dir[c] \in Tree
  BY <1>t DEF TypeOK
<1>2. /\ pc' \in [Client -> PC] /\ pushing' \in [Client -> Tree]
      /\ todo' \in [Client -> SUBSET Path]
      /\ pc'[c] = "push" /\ pushing'[c] = dir[c] /\ todo'[c] = Entries(dir[c])
      /\ \A d \in Client \ {c} : pc'[d] = pc[d] /\ pushing'[d] = pushing[d] /\ todo'[d] = todo[d]
  BY <1>1, <1>t, StartPushFacts DEF TypeOK, Watch
<1>u. /\ UNCHANGED <<store, archive, latest, lock, init, dir, copies, cache, local, entry, pull, held,
                     writing, edits, owed, purged, raced, skewed, unseen, faults>>
      /\ pc[c] = "loop"
  BY DEF Watch, serverVars, userVars, histories
<1>4. /\ events' \in [Client -> 0 .. MaxEvents] /\ \A d \in Client \ {c} : events'[d] = events[d]
  BY <1>t, SyncAssumption DEF Watch, TypeOK
<1>5. TypeOK'
  BY <1>2, <1>u, <1>4, <1>t DEF TypeOK
<1>6. OwnStep(c)
  BY <1>2, <1>u, <1>4 DEF OwnStep
<1>7. ClientOK(c)'
  BY <1>2, <1>u, <1>t DEF ClientOK, Entries
<1>. QED  BY <1>2, <1>5, <1>6, <1>7, <1>u, OthersOK DEF Fine

\* WatchNothing keeps the types.
LEMMA WatchNothingFine ==
    ASSUME SyncOK, NEW c \in Client, WatchNothing(c)
    PROVE  /\ Fine(c) /\ pc[c] = "loop" /\ unseen' = unseen \cup Unsent(c) /\ "tree" \in Faults
           /\ UNCHANGED <<store, archive, latest, lock, pc, init, dir, copies, cache, local, pushing, todo,
                          entry, pull, held, writing, owed, purged, raced, skewed>>
<1>t. TypeOK /\ ClientOK(c)
  BY DEF SyncOK
<1>u. /\ UNCHANGED <<store, archive, latest, lock, pc, init, dir, copies, cache, local, pushing, todo,
                     entry, pull, held, writing, edits, owed, purged, raced, skewed>>
      /\ pc[c] = "loop" /\ unseen' = unseen \cup Unsent(c) /\ "tree" \in Faults
  BY DEF WatchNothing, serverVars, syncVars, Fails
<1>1. /\ events' \in [Client -> 0 .. MaxEvents] /\ \A d \in Client \ {c} : events'[d] = events[d]
  BY <1>t, SyncAssumption DEF WatchNothing, TypeOK
<1>2. faults' \in 0 .. MaxFaults /\ unseen' \subseteq Content
  BY <1>t, FaultsType DEF WatchNothing, Fails, Unsent, TypeOK
<1>3. TypeOK' /\ OwnStep(c)
  BY <1>1, <1>2, <1>u, <1>t DEF TypeOK, OwnStep
<1>4. ClientOK(c)'
  BY <1>u, <1>t DEF ClientOK, Entries
<1>. QED  BY <1>3, <1>4, <1>u, OthersOK DEF Fine


\* The entry that client c is about to push, and its blob.
LEMMA FirstPushed ==
    ASSUME SyncOK, NEW c \in Client, NEW p \in Path, IsFirst(p, todo[c])
    PROVE  /\ p \in todo[c] /\ p \in Entries(pushing[c]) /\ pushing[c][p] \in Content
           /\ dir[c][p] \in Content \cup {None}
<1>1. p \in todo[c] /\ p \in Entries(pushing[c]) /\ pushing[c] \in Tree /\ dir[c] \in Tree
  BY DEF IsFirst, SyncOK, ClientOK, TypeOK
<1>. QED  BY <1>1, Constants DEF Tree

\* The file of an entry is read for the cache; its object is skewed if the file is another.
ReadFor(c, p) ==
    /\ pc[c] = "push" /\ pc'[c] = "fill" /\ IsFirst(p, todo[c])
    /\ Created(c, pushing[c][p], dir[c][p])
    /\ skewed' = IF dir[c][p] # pushing[c][p] THEN skewed \cup {pushing[c][p]} ELSE skewed
    /\ UNCHANGED <<store, archive, latest, lock, init, dir, copies, local, pushing, todo, entry, pull,
                   events, owed, purged, raced, unseen>>

\* PushRead keeps the types.
LEMMA PushReadFine ==
    ASSUME SyncOK, NEW c \in Client, NEW p \in Path, PushRead(c, p)
    PROVE  Fine(c) /\ ReadFor(c, p)
<1>t. TypeOK /\ ClientOK(c)
  BY DEF SyncOK
<1> DEFINE b == pushing[c][p]
<1>u. /\ UNCHANGED <<store, archive, latest, lock, init, dir, copies, local, pushing, todo, entry, pull,
                     events, edits, owed, purged, raced, unseen, faults>>
      /\ pc[c] = "push" /\ IsFirst(p, todo[c]) /\ cache[c][b] = None /\ dir[c][p] # None
      /\ cache' = [cache EXCEPT ![c][b] = 0] /\ held' = [held EXCEPT ![c] = dir[c][p]]
      /\ writing' = [writing EXCEPT ![c] = b] /\ pc' = [pc EXCEPT ![c] = "fill"]
      /\ skewed' = IF dir[c][p] # b THEN skewed \cup {b} ELSE skewed
  BY DEF PushRead, serverVars
<1>1. b \in Content /\ dir[c][p] \in Content /\ 0 \in Content /\ None \notin Content
  BY <1>u, FirstPushed, Constants
<1> HIDE DEF b
<1>2. /\ cache' \in [Client -> Objects] /\ cache'[c][b] = 0
      /\ \A y \in Content \ {b} : cache'[c][y] = cache[c][y]
      /\ \A d \in Client \ {c} : cache'[d] = cache[d]
  BY <1>u, <1>1, <1>t DEF TypeOK, Objects
<1>3. /\ pc' \in [Client -> PC] /\ pc'[c] = "fill"
      /\ held' \in [Client -> Content \cup {None}] /\ held'[c] = dir[c][p]
      /\ writing' \in [Client -> Content \cup {None}] /\ writing'[c] = b
      /\ \A d \in Client \ {c} : pc'[d] = pc[d] /\ held'[d] = held[d] /\ writing'[d] = writing[d]
  BY <1>u, <1>1, <1>t DEF TypeOK, PC
<1>4. skewed' \subseteq Content
  BY <1>u, <1>1, <1>t DEF TypeOK
<1>5. TypeOK'
  BY <1>2, <1>3, <1>4, <1>u, <1>t DEF TypeOK
<1>6. OwnStep(c)
  BY <1>2, <1>3, <1>u DEF OwnStep
<1>7. ClientOK(c)'
  BY <1>1, <1>3, <1>u, <1>t DEF ClientOK, Entries
<1>8. Created(c, b, dir[c][p])
  BY <1>1, <1>2, <1>3, <1>u DEF Created
<1>9. ReadFor(c, p)
  BY <1>3, <1>8, <1>u DEF ReadFor, b
<1>. QED  BY <1>5, <1>6, <1>7, <1>9, OthersOK DEF Fine

\* The client is done with the entry p, which has an object in its cache.
Passed(c, p) ==
    /\ pc[c] = "push" /\ pc'[c] \in {"push", "upload"} /\ p \in Entries(pushing[c])
    /\ cache[c][pushing[c][p]] # None /\ todo'[c] = todo[c] \ {p}
    /\ UNCHANGED <<store, archive, latest, init, dir, copies, cache, local, pushing, pull, held,
                   writing, events, owed, purged, raced, skewed, unseen>>

\* PushDenied and PushLocked keep the types.
LEMMA PushPassFine ==
    ASSUME SyncOK, NEW c \in Client, NEW p \in Path, PushDenied(c, p) \/ PushLocked(c, p)
    PROVE  Fine(c) /\ Passed(c, p)
<1>t. TypeOK /\ ClientOK(c)
  BY DEF SyncOK
<1>u. /\ UNCHANGED <<store, archive, latest, init, dir, copies, cache, local, pushing, pull, held,
                     writing, events, edits, owed, purged, raced, skewed, unseen, faults>>
      /\ pc[c] = "push" /\ IsFirst(p, todo[c]) /\ cache[c][pushing[c][p]] # None
      /\ todo' = [todo EXCEPT ![c] = @ \ {p}]
      /\ \/ UNCHANGED <<lock, pc, entry>>
         \/ /\ lock' = [lock EXCEPT ![p] = c] /\ pc' = [pc EXCEPT ![c] = "upload"]
            /\ entry' = [entry EXCEPT ![c] = p]
  BY DEF PushDenied, PushLocked, serverVars, userVars, histories
<1>1. p \in Entries(pushing[c])
  BY <1>u, FirstPushed
<1>2. /\ todo' \in [Client -> SUBSET Path] /\ todo'[c] = todo[c] \ {p}
      /\ \A d \in Client \ {c} : todo'[d] = todo[d]
  BY <1>u, <1>t DEF TypeOK
<1>3. /\ lock' \in [Path -> Client \cup {None}] /\ pc' \in [Client -> PC]
      /\ entry' \in [Client -> Path \cup {None}]
      /\ pc'[c] \in {"push", "upload"} /\ (pc'[c] = "upload" => entry'[c] = p)
      /\ \A d \in Client \ {c} : pc'[d] = pc[d] /\ entry'[d] = entry[d]
  BY <1>u, <1>t DEF TypeOK, PC
<1>4. TypeOK'
  BY <1>2, <1>3, <1>u, <1>t DEF TypeOK
<1>5. OwnStep(c)
  BY <1>2, <1>3, <1>u DEF OwnStep
<1>6. ClientOK(c)'
  BY <1>1, <1>2, <1>3, <1>u, <1>t DEF ClientOK, Entries
<1>7. Passed(c, p)
  BY <1>1, <1>2, <1>3, <1>u DEF Passed
<1>. QED  BY <1>4, <1>5, <1>6, <1>7, OthersOK DEF Fine

\* The object of the granted entry is stored, unless there is one.
Uploaded(c) ==
    LET b == pushing[c][entry[c]] IN
    /\ b \in Content /\ pc[c] = "upload" /\ pc'[c] = "push"
    /\ store'[b] = IF store[b] = None THEN cache[c][b] ELSE store[b]
    /\ \A x \in Content \ {b} : store'[x] = store[x]
    /\ UNCHANGED <<archive, latest, init, dir, copies, cache, local, pushing, todo, pull, held,
                   writing, events, owed, purged, raced, skewed, unseen>>

\* PushUpload keeps the types.
LEMMA PushUploadFine ==
    ASSUME SyncOK, NEW c \in Client, PushUpload(c)
    PROVE  Fine(c) /\ Uploaded(c)
<1>t. TypeOK /\ ClientOK(c)
  BY DEF SyncOK
<1> DEFINE b == pushing[c][entry[c]]
<1>1. entry[c] \in Path /\ b \in Content /\ pc[c] = "upload"
  <2>1. entry[c] \in Entries(pushing[c]) /\ pushing[c] \in Tree /\ pc[c] = "upload"
    BY <1>t DEF PushUpload, ClientOK, TypeOK
  <2>. QED  BY <2>1, Constants
<1>2. /\ store' = [store EXCEPT ![b] = IF @ = None THEN cache[c][b] ELSE @]
      /\ lock' = [lock EXCEPT ![entry[c]] = IF @ = c THEN None ELSE @]
      /\ pc' = [pc EXCEPT ![c] = "push"] /\ entry' = [entry EXCEPT ![c] = None]
      /\ UNCHANGED <<archive, latest, init, dir, copies, cache, local, pushing, todo, pull, held,
                     writing, events, edits, owed, purged, raced, skewed, unseen, faults>>
  BY DEF PushUpload, userVars, histories
<1> HIDE DEF b
<1>3. cache[c][b] \in Content \cup {None}
  BY <1>1, <1>t DEF TypeOK, Objects
<1>4. /\ store' \in Objects
      /\ store'[b] = IF store[b] = None THEN cache[c][b] ELSE store[b]
      /\ \A x \in Content \ {b} : store'[x] = store[x]
  BY <1>1, <1>2, <1>3, <1>t DEF TypeOK, Objects
<1>5. /\ lock' \in [Path -> Client \cup {None}]
      /\ pc' \in [Client -> PC] /\ pc'[c] = "push"
      /\ entry' \in [Client -> Path \cup {None}]
      /\ \A d \in Client \ {c} : pc'[d] = pc[d] /\ entry'[d] = entry[d]
  BY <1>1, <1>2, <1>t DEF TypeOK, PC
<1>6. TypeOK'
  BY <1>2, <1>4, <1>5, <1>t DEF TypeOK
<1>7. OwnStep(c)
  BY <1>2, <1>4, <1>5 DEF OwnStep
<1>8. ClientOK(c)'
  BY <1>1, <1>2, <1>5, <1>t DEF ClientOK, Entries
<1>9. Uploaded(c)
  BY <1>1, <1>2, <1>4, <1>5 DEF Uploaded, b
<1>. QED  BY <1>6, <1>7, <1>8, <1>9, OthersOK DEF Fine

\* The steps that move a client on without a change of its files and objects.
LEMMA MoveFine ==
    ASSUME SyncOK, NEW c \in Client, PushRefused(c) \/ SaveTree(c) \/ SaveLatest(c)
    PROVE  /\ Fine(c)
           /\ UNCHANGED <<store, dir, copies, cache, todo, held, writing, events, owed, purged, raced,
                          skewed, unseen>>
           /\ \/ /\ pc[c] = "upload" /\ pc'[c] = "push"
                 /\ UNCHANGED <<archive, latest, init, local, pushing, pull>>
              \/ /\ pc[c] = "push" /\ pc'[c] = "save" /\ SaveTree(c)
                 /\ archive' = archive \cup {pushing[c]} /\ latest' = NoTree
                 /\ UNCHANGED <<init, local, pushing, pull>>
              \/ /\ pc[c] = "save" /\ pc'[c] = "loop" /\ init'[c] = FALSE /\ local'[c] = pushing[c]
                 /\ latest' = pushing[c] \/ (latest # NoTree /\ latest' = NoTree)
                 /\ pull'[c] = NoDiff /\ pushing'[c] = EmptyTree /\ archive' = archive
<1>t. TypeOK /\ ClientOK(c) /\ pushing[c] \in Tree
  BY DEF SyncOK, TypeOK
<1>u. UNCHANGED <<store, lock, dir, copies, cache, todo, held, writing, events, edits, owed, purged,
                  raced, skewed, unseen>>
  BY DEF PushRefused, SaveTree, SaveLatest, serverVars, syncVars, userVars, histories
<1>1. CASE PushRefused(c)
  <2>1. /\ pc[c] = "upload" /\ pc' = [pc EXCEPT ![c] = "push"] /\ entry' = [entry EXCEPT ![c] = None]
        /\ UNCHANGED <<archive, latest, init, local, pushing, pull>>
    BY <1>1 DEF PushRefused, serverVars
  <2>2. /\ pc' \in [Client -> PC] /\ pc'[c] = "push" /\ \A d \in Client \ {c} : pc'[d] = pc[d]
        /\ entry' \in [Client -> Path \cup {None}] /\ \A d \in Client \ {c} : entry'[d] = entry[d]
    BY <2>1, <1>t DEF TypeOK, PC
  <2>3. faults' \in 0 .. MaxFaults
    BY <1>1, <1>t, FaultsType DEF PushRefused, Fails
  <2>4. TypeOK' /\ OwnStep(c)
    BY <2>1, <2>2, <2>3, <1>u, <1>t DEF TypeOK, OwnStep
  <2>5. ClientOK(c)'
    BY <2>1, <2>2, <1>u, <1>t DEF ClientOK, Entries
  <2>. QED  BY <2>1, <2>2, <2>4, <2>5, <1>u, OthersOK DEF Fine
<1>2. CASE SaveTree(c)
  <2>1. /\ pc[c] = "push" /\ pc' = [pc EXCEPT ![c] = "save"] /\ todo[c] = {}
        /\ archive' = archive \cup {pushing[c]} /\ latest' = NoTree
        /\ UNCHANGED <<init, local, pushing, pull, entry, faults>>
    BY <1>2 DEF SaveTree, syncVars
  <2>2. /\ pc' \in [Client -> PC] /\ pc'[c] = "save" /\ \A d \in Client \ {c} : pc'[d] = pc[d]
        /\ archive' \subseteq Tree
    BY <2>1, <1>t DEF TypeOK, PC
  <2>3. TypeOK' /\ OwnStep(c)
    BY <2>1, <2>2, <1>u, <1>t DEF TypeOK, OwnStep
  <2>4. ClientOK(c)'
    BY <2>1, <2>2, <1>u, <1>t DEF ClientOK, Entries
  <2>. QED  BY <2>1, <2>2, <2>3, <2>4, <1>2, <1>u, OthersOK DEF Fine
<1>3. CASE SaveLatest(c)
  <2>1. /\ pc[c] = "save" /\ pc' = [pc EXCEPT ![c] = "loop"] /\ init' = [init EXCEPT ![c] = FALSE]
        /\ local' = [local EXCEPT ![c] = pushing[c]] /\ pushing' = [pushing EXCEPT ![c] = EmptyTree]
        /\ pull' = [pull EXCEPT ![c] = NoDiff]
        /\ latest' = pushing[c] \/ (latest # NoTree /\ latest' = NoTree)
        /\ UNCHANGED <<archive, entry, faults>>
    BY <1>3 DEF SaveLatest
  <2>2. /\ pc' \in [Client -> PC] /\ pc'[c] = "loop" /\ init' \in [Client -> BOOLEAN] /\ init'[c] = FALSE
        /\ local' \in [Client -> Tree] /\ local'[c] = pushing[c]
        /\ pushing' \in [Client -> Tree] /\ pushing'[c] = EmptyTree
        /\ pull' \in [Client -> Diff] /\ pull'[c] = NoDiff /\ latest' \in Tree \cup {NoTree}
        /\ \A d \in Client \ {c} : /\ pc'[d] = pc[d] /\ init'[d] = init[d] /\ local'[d] = local[d]
                                   /\ pushing'[d] = pushing[d] /\ pull'[d] = pull[d]
    BY <2>1, <1>t, Constants DEF TypeOK, PC
  <2>3. TypeOK' /\ OwnStep(c)
    BY <2>1, <2>2, <1>u, <1>t DEF TypeOK, OwnStep
  <2>4. ClientOK(c)'
    BY <2>1, <2>2, <1>u, <1>t, Constants DEF ClientOK
  <2>. QED  BY <2>1, <2>2, <2>3, <2>4, <1>u, OthersOK DEF Fine
<1>. QED  BY <1>1, <1>2, <1>3

\* A client that stops keeps its files and objects; one that it was filling is skewed.
Stopped(c) ==
    /\ pc[c] # "off" /\ pc'[c] = "off" /\ init'[c] = FALSE /\ pull'[c] = NoDiff /\ writing'[c] = None
    /\ \/ pc[c] = "push" /\ skewed' = skewed
       \/ pc[c] \in StopAt /\ skewed' = skewed \cup ({writing[c]} \ {None})
    /\ UNCHANGED <<store, archive, latest, lock, dir, copies, cache, owed, purged, raced, unseen>>

\* Stop and PushUnreadable keep the types.
LEMMA StopFine ==
    ASSUME SyncOK, NEW c \in Client, Stop(c) \/ \E p \in Path : PushUnreadable(c, p)
    PROVE  Fine(c) /\ Stopped(c)
<1>t. TypeOK /\ ClientOK(c)
  BY DEF SyncOK
<1>u. /\ pc' = [pc EXCEPT ![c] = "off"] /\ init' = [init EXCEPT ![c] = FALSE]
      /\ local' = [local EXCEPT ![c] = EmptyTree] /\ pushing' = [pushing EXCEPT ![c] = EmptyTree]
      /\ todo' = [todo EXCEPT ![c] = {}] /\ entry' = [entry EXCEPT ![c] = None]
      /\ pull' = [pull EXCEPT ![c] = NoDiff] /\ held' = [held EXCEPT ![c] = None]
      /\ writing' = [writing EXCEPT ![c] = None] /\ events' = [events EXCEPT ![c] = 0]
      /\ UNCHANGED <<store, archive, latest, lock, dir, copies, cache, edits, owed, purged, raced,
                     unseen>>
  BY DEF Stop, PushUnreadable, Ended, serverVars
<1>1. /\ pc' \in [Client -> PC] /\ pc'[c] = "off" /\ init' \in [Client -> BOOLEAN] /\ init'[c] = FALSE
      /\ local' \in [Client -> Tree] /\ pushing' \in [Client -> Tree] /\ pushing'[c] = EmptyTree
      /\ \A d \in Client \ {c} : /\ pc'[d] = pc[d] /\ init'[d] = init[d] /\ local'[d] = local[d]
                                 /\ pushing'[d] = pushing[d]
  BY <1>u, <1>t, Constants DEF TypeOK, PC
<1>2. /\ todo' \in [Client -> SUBSET Path] /\ todo'[c] = {} /\ entry' \in [Client -> Path \cup {None}]
      /\ pull' \in [Client -> Diff] /\ pull'[c] = NoDiff /\ events' \in [Client -> 0 .. MaxEvents]
      /\ \A d \in Client \ {c} : /\ todo'[d] = todo[d] /\ entry'[d] = entry[d] /\ pull'[d] = pull[d]
                                 /\ events'[d] = events[d]
  BY <1>u, <1>t, Constants, SyncAssumption DEF TypeOK
<1>3. /\ held' \in [Client -> Content \cup {None}] /\ held'[c] = None
      /\ writing' \in [Client -> Content \cup {None}] /\ writing'[c] = None
      /\ \A d \in Client \ {c} : held'[d] = held[d] /\ writing'[d] = writing[d]
  BY <1>u, <1>t DEF TypeOK
<1>4. \/ pc[c] = "push" /\ skewed' = skewed /\ faults' = faults
      \/ /\ pc[c] \in StopAt /\ skewed' = skewed \cup ({writing[c]} \ {None})
         /\ faults < MaxFaults /\ faults' = faults + 1
  BY DEF Stop, PushUnreadable
<1>5. faults' \in 0 .. MaxFaults /\ skewed' \subseteq Content /\ pc[c] # "off"
  BY <1>4, <1>t, FaultsType, SyncAssumption DEF TypeOK
<1>6. TypeOK'
  BY <1>1, <1>2, <1>3, <1>5, <1>u, <1>t DEF TypeOK
<1>7. OwnStep(c)
  BY <1>1, <1>2, <1>3, <1>u DEF OwnStep
<1>8. ClientOK(c)'
  BY <1>1, <1>2, <1>3, Constants DEF ClientOK
<1>9. Stopped(c)
  BY <1>1, <1>2, <1>3, <1>4, <1>5, <1>u DEF Stopped
<1>. QED  BY <1>6, <1>7, <1>8, <1>9, OthersOK DEF Fine

\* A user's edit: one file changes, and with it what is owed to that user; during the
\* initial alignment the watcher does not see it, and a deleted path is noted.
Edited(c, p) ==
    /\ \A q \in Path \ {p} : dir'[c][q] = dir[c][q]
    /\ owed'[c] = (owed[c] \ {dir[c][p]}) \cup ({dir'[c][p]} \ {None})
    /\ dir'[c][p] \in (Content \ {0}) \cup {None}
    /\ unseen' = IF init[c] THEN unseen \cup ({dir'[c][p]} \ {None}) ELSE unseen
    /\ pull'[c].tree = pull[c].tree /\ pull'[c].changed = pull[c].changed
    /\ pull'[c].removed = pull[c].removed /\ pull[c].gone \subseteq pull'[c].gone
    /\ (init[c] /\ dir'[c][p] = None => p \in pull'[c].gone)
    /\ (init[c] = FALSE => pull' = pull)
    /\ (pc[c] # "off" => events'[c] = Notified(c))
    /\ EditAnytime \/ pc[c] \in {"off", "loop"}
    /\ UNCHANGED <<store, archive, latest, lock, pc, init, copies, cache, local, pushing, todo, entry,
                   held, writing, purged, raced, skewed>>

\* Edit keeps the types: the new content is one nobody has written before.
LEMMA EditFine ==
    ASSUME SyncOK, NEW c \in Client, NEW p \in Path, Edit(c, p)
    PROVE  Fine(c) /\ Edited(c, p)
<1>t. TypeOK /\ ClientOK(c) /\ MaxEdits \in Nat
  BY SyncAssumption DEF SyncOK
<1>1. edits' \in 0 .. MaxEdits /\ edits + 1 \in Content \ {0}
  BY <1>t DEF Edit, TypeOK, Content
<1>2. PICK x \in {edits + 1, None} :
          /\ dir' = [dir EXCEPT ![c][p] = x]
          /\ owed' = [owed EXCEPT ![c] = (@ \ {dir[c][p]}) \cup ({x} \ {None})]
          /\ unseen' = IF init[c] THEN unseen \cup ({x} \ {None}) ELSE unseen
          /\ pull' = IF init[c] /\ x = None THEN [pull EXCEPT ![c].gone = @ \cup {p}] ELSE pull
  BY DEF Edit
<1>3. x \in (Content \ {0}) \cup {None}
  BY <1>1
<1>4. /\ dir' \in [Client -> Tree] /\ dir'[c][p] = x
      /\ \A q \in Path \ {p} : dir'[c][q] = dir[c][q]
      /\ \A d \in Client \ {c} : dir'[d] = dir[d]
  BY <1>2, <1>3, <1>t DEF TypeOK, Tree
<1>5. /\ owed' \in [Client -> SUBSET Content] /\ unseen' \subseteq Content
      /\ owed'[c] = (owed[c] \ {dir[c][p]}) \cup ({x} \ {None})
      /\ \A d \in Client \ {c} : owed'[d] = owed[d]
  BY <1>2, <1>3, <1>t DEF TypeOK
<1>6. /\ UNCHANGED <<store, archive, latest, lock, pc, init, copies, cache, local, pushing, todo, entry,
                     held, writing, purged, raced, skewed, faults>>
      /\ events' = [events EXCEPT ![c] = IF pc[c] = "off" THEN @ ELSE Notified(c)]
      /\ EditAnytime \/ pc[c] \in {"off", "loop"}
  BY DEF Edit, serverVars
<1>7. /\ events' \in [Client -> 0 .. MaxEvents] /\ (pc[c] # "off" => events'[c] = Notified(c))
      /\ \A d \in Client \ {c} : events'[d] = events[d]
  BY <1>6, <1>t, NotifiedType DEF TypeOK
<1>8. /\ pull' \in [Client -> Diff] /\ \A d \in Client \ {c} : pull'[d] = pull[d]
      /\ pull'[c].tree = pull[c].tree /\ pull'[c].changed = pull[c].changed
      /\ pull'[c].removed = pull[c].removed /\ pull[c].gone \subseteq pull'[c].gone
      /\ (init[c] /\ x = None => p \in pull'[c].gone)
      /\ (init[c] = FALSE => pull' = pull)
  <2> DEFINE r == [pull[c] EXCEPT !.gone = @ \cup {p}]
  <2>1. pull[c] \in Diff /\ pull \in [Client -> Diff]
    BY <1>t DEF TypeOK
  <2>2. /\ r \in Diff /\ r.tree = pull[c].tree /\ r.changed = pull[c].changed
        /\ r.removed = pull[c].removed /\ pull[c].gone \subseteq r.gone /\ p \in r.gone
    BY <2>1 DEF Diff
  <2>3. pull' = IF init[c] /\ x = None THEN [pull EXCEPT ![c] = r] ELSE pull
    BY <1>2
  <2> HIDE DEF r
  <2>. QED  BY <2>1, <2>2, <2>3
<1>9. TypeOK'
  BY <1>1, <1>4, <1>5, <1>6, <1>7, <1>8, <1>t DEF TypeOK
<1>10. OwnStep(c)
  BY <1>4, <1>5, <1>6, <1>7, <1>8 DEF OwnStep
<1>11. ClientOK(c)'
  BY <1>6, <1>8, <1>t DEF ClientOK, Entries, IsFirst
<1>12. Edited(c, p)
  BY <1>2, <1>3, <1>4, <1>5, <1>6, <1>7, <1>8 DEF Edited
<1>. QED  BY <1>9, <1>10, <1>11, <1>12, OthersOK DEF Fine

\* A lease that runs out changes nothing but the lock table.
LEMMA ExpireFine ==
    ASSUME SyncOK, (\E p \in Path : Expire(p)) \/ (\E c \in Client : PollNothing(c)) \/ UNCHANGED vars
    PROVE  /\ SyncOK'
           /\ UNCHANGED <<store, archive, latest, pc, init, dir, copies, cache, local, pushing, todo,
                          entry, pull, held, writing, events, owed, purged, raced, skewed, unseen>>
<1>1. UNCHANGED <<store, archive, latest, pc, init, dir, copies, cache, local, pushing, todo, entry,
                  pull, held, writing, events, edits, owed, purged, raced, skewed, unseen, faults>>
  BY DEF Expire, PollNothing, vars, serverVars, syncVars, userVars, histories
<1>2. lock' \in [Path -> Client \cup {None}]
  BY DEF Expire, PollNothing, vars, serverVars, SyncOK, TypeOK
<1>3. TypeOK'
  BY <1>1, <1>2 DEF SyncOK, TypeOK
<1>4. \A c \in Client : ClientOK(c)'
  BY <1>1 DEF SyncOK, ClientOK, Entries, IsFirst
<1>. QED  BY <1>1, <1>3, <1>4 DEF SyncOK

\* Every step is one of these.
LEMMA Cases ==
    ASSUME [Next]_vars
    PROVE  \/ \E c \in Client : Start(c) \/ Poll(c)
           \/ \E c \in Client, p \in Path : PullCompare(c, p)
           \/ \E c \in Client, p \in Path : PullCreate(c, p) \/ PullWrite(c, p)
           \/ \E c \in Client, p \in Path : PullCache(c, p)
           \/ \E c \in Client, p \in Path : PullMiss(c, p)
           \/ \E c \in Client : FillObject(c)
           \/ \E c \in Client : FinishPull(c)
           \/ \E c \in Client : Watch(c)
           \/ \E c \in Client : WatchNothing(c)
           \/ \E c \in Client, p \in Path : PushRead(c, p)
           \/ \E c \in Client, p \in Path : PushDenied(c, p) \/ PushLocked(c, p)
           \/ \E c \in Client : PushUpload(c)
           \/ \E c \in Client : PushRefused(c) \/ SaveTree(c) \/ SaveLatest(c)
           \/ \E c \in Client : Stop(c) \/ \E p \in Path : PushUnreadable(c, p)
           \/ \E c \in Client, p \in Path : Edit(c, p)
           \/ (\E p \in Path : Expire(p)) \/ (\E c \in Client : PollNothing(c)) \/ UNCHANGED vars
  BY DEF Next, Step

\* Every step keeps the types.
LEMMA SyncStep == SyncOK /\ [Next]_vars => SyncOK'
<1> SUFFICES ASSUME SyncOK, [Next]_vars PROVE SyncOK'
  OBVIOUS
<1>1. ASSUME NEW c \in Client, Start(c) \/ Poll(c) \/ FillObject(c) \/ FinishPull(c) \/ Watch(c)
      PROVE  SyncOK'
  BY <1>1, StartFine, PollFine, FillObjectFine, FinishPullFine, WatchFine DEF Fine
<1>2. ASSUME NEW c \in Client, NEW p \in Path,
             \/ PullCompare(c, p) \/ PullCreate(c, p) \/ PullWrite(c, p) \/ PullCache(c, p)
             \/ PullMiss(c, p)
      PROVE  SyncOK'
  BY <1>2, PullCompareFine, PullWriteFine, PullCacheFine, PullMissFine DEF Fine
<1>3. ASSUME NEW c \in Client, NEW p \in Path,
             PushRead(c, p) \/ PushDenied(c, p) \/ PushLocked(c, p) \/ Edit(c, p)
      PROVE  SyncOK'
  BY <1>3, PushReadFine, PushPassFine, EditFine DEF Fine
<1>4. ASSUME NEW c \in Client,
             \/ WatchNothing(c) \/ PushUpload(c) \/ PushRefused(c) \/ SaveTree(c) \/ SaveLatest(c)
             \/ Stop(c) \/ \E p \in Path : PushUnreadable(c, p)
      PROVE  SyncOK'
  BY <1>4, WatchNothingFine, PushUploadFine, MoveFine, StopFine DEF Fine
<1>. QED  BY <1>1, <1>2, <1>3, <1>4, ExpireFine, Cases

\* The types, and what every client is about to do, are right in every reachable state.
THEOREM SyncCorrect == Spec => []SyncOK
  BY InitSync, SyncStep, PTL DEF Spec

\* The types of the state hold in every reachable state.
THEOREM TypeCorrect == Spec => []TypeOK
<1>1. SyncOK => TypeOK
  BY DEF SyncOK
<1>. QED  BY <1>1, SyncCorrect, PTL
-----------------------------------------------------------------------------
(* Objects *)

\* The objects hold what their ids name, and what a client is about to fill an object with
\* is what its id names.
CasInv ==
    /\ SyncOK /\ CasIntegrity
    /\ \A c \in Client : writing[c] # None => held[c] = writing[c] \/ writing[c] \in skewed

\* A step takes no object, conflict copy or entry of the history away.
NothingTaken ==
    /\ \A x \in Content : store[x] # None => store'[x] = store[x]
    /\ \A c \in Client, x \in Content :
          /\ cache[c][x] # None => cache'[c][x] # None
          /\ cache[c][x] = x => cache'[c][x] = x \/ x \in skewed'
    /\ \A c \in Client : copies[c] \subseteq copies'[c]
    /\ skewed \subseteq skewed' /\ purged \subseteq purged' /\ raced \subseteq raced'
    /\ archive \subseteq archive' /\ unseen \subseteq unseen'

\* No step takes an object of the store or a cache, or a conflict copy, away.
LEMMA ObjectsStay == ASSUME CasInv, [Next]_vars PROVE NothingTaken
<1>t. SyncOK /\ None \notin Content
  BY Constants DEF CasInv
<1>1. ASSUME NEW c \in Client, NEW p \in Path, PullCompare(c, p)
      PROVE  NothingTaken
  BY <1>1, <1>t, PullCompareFine DEF Fine, OwnStep, Compared, NothingTaken
<1>2. ASSUME NEW c \in Client, NEW p \in Path, PullCreate(c, p) \/ PullWrite(c, p)
      PROVE  NothingTaken
  BY <1>2, <1>t, PullWriteFine DEF Wrote, NothingTaken
<1>3. ASSUME NEW c \in Client, NEW p \in Path, PullCache(c, p)
      PROVE  NothingTaken
  <2>1. Caching(c, p) /\ OwnStep(c)
    BY <1>3, <1>t, PullCacheFine DEF Fine
  <2>2. \A x \in Content : cache[c][x] # None => cache'[c][x] = cache[c][x]
    BY <2>1 DEF Caching, Created
  <2>. QED  BY <2>1, <2>2, <1>t DEF Caching, OwnStep, NothingTaken
<1>4. ASSUME NEW c \in Client, FillObject(c)
      PROVE  NothingTaken
  <2>1. Filled(c) /\ OwnStep(c)
    BY <1>4, <1>t, FillObjectFine DEF Fine
  <2>2. held[c] = writing[c] \/ writing[c] \in skewed
    BY <2>1, <1>t DEF CasInv, Filled
  <2>3. \A x \in Content : /\ cache[c][x] # None => cache'[c][x] # None
                           /\ cache[c][x] = x => cache'[c][x] = x \/ x \in skewed'
    BY <2>1, <2>2, <1>t DEF Filled
  <2>. QED  BY <2>1, <2>3, <1>t DEF Filled, OwnStep, NothingTaken
<1>5. ASSUME NEW c \in Client, NEW p \in Path, PushRead(c, p)
      PROVE  NothingTaken
  <2>1. ReadFor(c, p) /\ OwnStep(c)
    BY <1>5, <1>t, PushReadFine DEF Fine
  <2>2. \A x \in Content : cache[c][x] # None => cache'[c][x] = cache[c][x]
    BY <2>1 DEF ReadFor, Created
  <2>. QED  BY <2>1, <2>2, <1>t DEF ReadFor, OwnStep, NothingTaken
<1>6. ASSUME NEW c \in Client, PushUpload(c)
      PROVE  NothingTaken
  BY <1>6, <1>t, PushUploadFine DEF Fine, OwnStep, Uploaded, NothingTaken
<1>7. ASSUME NEW c \in Client, FinishPull(c) \/ WatchNothing(c)
      PROVE  NothingTaken
  BY <1>7, <1>t, FinishPullFine, WatchNothingFine DEF Finished, NothingTaken
<1>8. ASSUME NEW c \in Client,
             \/ Start(c) \/ Poll(c) \/ Watch(c) \/ PushRefused(c) \/ SaveTree(c) \/ SaveLatest(c)
             \/ Stop(c) \/ \E p \in Path : PushUnreadable(c, p)
      PROVE  NothingTaken
  BY <1>8, <1>t, StartFine, PollFine, WatchFine, MoveFine, StopFine DEF Stopped, NothingTaken
<1>9. ASSUME NEW c \in Client, NEW p \in Path, PullMiss(c, p) \/ PushDenied(c, p) \/ PushLocked(c, p) \/ Edit(c, p)
      PROVE  NothingTaken
  BY <1>9, <1>t, PullMissFine, PushPassFine, EditFine DEF Passed, Edited, NothingTaken
<1>10. ASSUME (\E p \in Path : Expire(p)) \/ (\E c \in Client : PollNothing(c)) \/ UNCHANGED vars
       PROVE  NothingTaken
  BY <1>10, <1>t, ExpireFine DEF NothingTaken
<1>. QED
  BY <1>1, <1>2, <1>3, <1>4, <1>5, <1>6, <1>7, <1>8, <1>9, <1>10, Cases

\* There are no objects at first.
LEMMA InitCas == Init => CasInv
<1> SUFFICES ASSUME Init PROVE CasInv
  OBVIOUS
<1>1. SyncOK
  BY InitSync
<1>. QED  BY <1>1 DEF Init, CasInv, CasIntegrity, NoObjects

\* An object comes from a cache, from the store, or from a file that is hashed or skewed.
LEMMA CasStep == CasInv /\ [Next]_vars => CasInv'
<1> SUFFICES ASSUME CasInv, [Next]_vars PROVE CasInv'
  OBVIOUS
<1>t. SyncOK /\ SyncOK' /\ skewed \subseteq skewed' /\ None \notin Content
  BY SyncStep, ObjectsStay, Constants DEF CasInv, NothingTaken
<1>c. /\ \A b \in Content \ skewed :
            /\ store[b] \in {b, None}
            /\ \A c \in Client : writing[c] # b => cache[c][b] \in {b, None}
      /\ \A c \in Client : writing[c] # None => held[c] = writing[c] \/ writing[c] \in skewed
  BY DEF CasInv, CasIntegrity
<1>w. \A c \in Client : writing[c] # None => pc[c] \in {"keep", "fill"}
  BY <1>t DEF SyncOK, ClientOK
\* It is enough to look at the client that steps.
<1>s. ASSUME NEW c \in Client, OwnStep(c), \A b \in Content \ skewed' : store'[b] \in {b, None},
             \A b \in Content \ skewed' : writing'[c] # b => cache'[c][b] \in {b, None},
             writing'[c] # None => held'[c] = writing'[c] \/ writing'[c] \in skewed'
      PROVE  CasInv'
  <2>1. ASSUME NEW d \in Client \ {c}
        PROVE  /\ \A b \in Content \ skewed' : writing'[d] # b => cache'[d][b] \in {b, None}
               /\ writing'[d] # None => held'[d] = writing'[d] \/ writing'[d] \in skewed'
    BY <1>s, <1>c, <1>t DEF OwnStep
  <2>2. CasIntegrity'
    BY <2>1, <1>s DEF CasIntegrity
  <2>. QED  BY <2>1, <2>2, <1>s, <1>t DEF CasInv
<1>u. ASSUME NEW c \in Client, OwnStep(c), UNCHANGED <<store, cache>>,
             writing'[c] = writing[c] /\ (held'[c] = held[c] \/ writing[c] = None)
      PROVE  CasInv'
  BY <1>u, <1>c, <1>t, <1>s
<1>1. ASSUME NEW c \in Client, Start(c) \/ Poll(c) \/ FinishPull(c) \/ Watch(c) \/ WatchNothing(c)
      PROVE  CasInv'
  BY <1>1, <1>t, <1>u, StartFine, PollFine, FinishPullFine, WatchFine, WatchNothingFine DEF Fine, Finished
<1>2. ASSUME NEW c \in Client, NEW p \in Path, PullCompare(c, p)
      PROVE  CasInv'
  <2>1. Compared(c, p) /\ OwnStep(c) /\ writing[c] = None
    BY <1>2, <1>t, <1>w, PullCompareFine DEF Fine, Compared
  <2>. QED  BY <2>1, <1>u DEF Compared
<1>3. ASSUME NEW c \in Client, NEW p \in Path, PullCreate(c, p) \/ PullWrite(c, p)
      PROVE  CasInv'
  <2>1. OwnStep(c) /\ UNCHANGED <<store, cache, writing>> /\ writing[c] = None
    BY <1>3, <1>t, <1>w, PullWriteFine DEF Fine, Wrote
  <2>. QED  BY <2>1, <1>u
<1>4. ASSUME NEW c \in Client, NEW p \in Path, PullCache(c, p)
      PROVE  CasInv'
  <2> DEFINE b == pull[c].tree[p]
  <2>1. Caching(c, p) /\ OwnStep(c) /\ writing[c] = None
    BY <1>4, <1>t, <1>w, PullCacheFine DEF Fine, Caching
  <2>2. CASE cache' = cache /\ writing' = writing
    BY <2>1, <2>2, <1>u DEF Caching
  <2>3. CASE Created(c, b, store[b])
    <3>1. store[b] = b \/ b \in skewed
      BY <2>3, <1>c, <1>t DEF Created
    <3>2. store' = store /\ skewed' = skewed
      BY <2>1 DEF Caching
    <3>3. \A y \in Content \ skewed' : writing'[c] # y => cache'[c][y] \in {y, None}
      BY <2>1, <2>3, <3>2, <1>c, <1>t DEF Created
    <3>4. held'[c] = writing'[c] \/ writing'[c] \in skewed'
      BY <2>3, <3>1, <3>2 DEF Created
    <3>. QED  BY <2>1, <3>2, <3>3, <3>4, <1>c, <1>s
  <2>. QED  BY <2>1, <2>2, <2>3 DEF Caching
<1>5. ASSUME NEW c \in Client, FillObject(c)
      PROVE  CasInv'
  <2>1. Filled(c) /\ OwnStep(c)
    BY <1>5, <1>t, FillObjectFine DEF Fine
  <2>2. held[c] = writing[c] \/ writing[c] \in skewed
    BY <2>1, <1>c, <1>t DEF Filled
  <2>3. \A y \in Content \ skewed' : cache'[c][y] \in {y, None}
    BY <2>1, <2>2, <1>c DEF Filled
  <2>. QED  BY <2>1, <2>3, <1>c, <1>s DEF Filled
<1>6. ASSUME NEW c \in Client, NEW p \in Path, PushRead(c, p)
      PROVE  CasInv'
  <2>1. ReadFor(c, p) /\ OwnStep(c) /\ writing[c] = None
    BY <1>6, <1>t, <1>w, PushReadFine DEF Fine, ReadFor
  <2>2. \A y \in Content \ skewed' : writing'[c] # y => cache'[c][y] \in {y, None}
    BY <2>1, <1>c, <1>t DEF ReadFor, Created
  <2>3. held'[c] = writing'[c] \/ writing'[c] \in skewed'
    BY <2>1 DEF ReadFor, Created
  <2>. QED  BY <2>1, <2>2, <2>3, <1>c, <1>t, <1>s DEF ReadFor
<1>7. ASSUME NEW c \in Client, PushUpload(c)
      PROVE  CasInv'
  <2>1. Uploaded(c) /\ OwnStep(c) /\ writing[c] = None
    BY <1>7, <1>t, <1>w, PushUploadFine DEF Fine, Uploaded
  <2>2. \A b \in Content : store'[b] \in {store[b], cache[c][b]}
    BY <2>1 DEF Uploaded
  <2>3. \A b \in Content \ skewed' : store'[b] \in {b, None}
    BY <2>1, <2>2, <1>c, <1>t DEF Uploaded
  <2>. QED  BY <2>1, <2>3, <1>c, <1>s DEF Uploaded
<1>8. ASSUME NEW c \in Client, PushRefused(c) \/ SaveTree(c) \/ SaveLatest(c)
      PROVE  CasInv'
  BY <1>8, <1>t, <1>u, MoveFine DEF Fine
<1>9. ASSUME NEW c \in Client, Stop(c) \/ \E p \in Path : PushUnreadable(c, p)
      PROVE  CasInv'
  <2>1. Stopped(c) /\ OwnStep(c)
    BY <1>9, <1>t, StopFine DEF Fine
  <2>2. writing[c] = None \/ writing[c] \in skewed'
    BY <2>1, <1>w DEF Stopped
  <2>3. \A b \in Content \ skewed' : cache'[c][b] \in {b, None}
    BY <2>1, <2>2, <1>c, <1>t DEF Stopped
  <2>. QED  BY <2>1, <2>3, <1>c, <1>t, <1>s DEF Stopped
<1>10. ASSUME NEW c \in Client, NEW p \in Path,
              PullMiss(c, p) \/ PushDenied(c, p) \/ PushLocked(c, p) \/ Edit(c, p)
       PROVE  CasInv'
  BY <1>10, <1>t, <1>u, PullMissFine, PushPassFine, EditFine DEF Fine, Passed, Edited
<1>11. ASSUME (\E p \in Path : Expire(p)) \/ (\E c \in Client : PollNothing(c)) \/ UNCHANGED vars
       PROVE  CasInv'
  BY <1>11, <1>t, <1>c, ExpireFine DEF CasInv, CasIntegrity
<1>. QED
  BY <1>1, <1>2, <1>3, <1>4, <1>5, <1>6, <1>7, <1>8, <1>9, <1>10, <1>11, Cases

\* Every object that no client is filling holds the content its id names, unless its file
\* was edited between hashing and reading, or a client was stopped while it filled it, for
\* any number of clients, files, edits, failures and stops.
THEOREM ObjectsIntact == Spec => []CasIntegrity
<1>1. CasInv => CasIntegrity
  BY DEF CasInv
<1>. QED  BY <1>1, InitCas, CasStep, PTL DEF Spec
-----------------------------------------------------------------------------
(* Published trees *)

\* The content x can be had as an object, or its id is skewed.
ObjectOf(x) == store[x] = x \/ (\E c \in Client : cache[c][x] = x) \/ x \in skewed

\* A client that pushes has an object for every entry that it is done with.
HasObjects(c) ==
    pc[c] \in {"push", "fill", "upload"} =>
        \A p \in Entries(pushing[c]) \ todo[c] : cache[c][pushing[c][p]] # None

RecoverInv == CasInv /\ Recoverable /\ \A c \in Client : HasObjects(c)

\* Nothing is published at the start.
LEMMA InitRecover == Init => RecoverInv
<1> SUFFICES ASSUME Init PROVE RecoverInv
  OBVIOUS
<1>1. CasInv
  BY InitCas
<1>. QED  BY <1>1 DEF Init, RecoverInv, Recoverable, HasObjects

\* An object once there can be had ever after.
LEMMA ObjectOfStays ==
    ASSUME CasInv, [Next]_vars, NEW x \in Content, ObjectOf(x)
    PROVE  ObjectOf(x)'
<1>1. NothingTaken /\ None \notin Content
  BY ObjectsStay, Constants
<1>. QED  BY <1>1 DEF NothingTaken, ObjectOf

\* The entries that a client is done with have their objects.
LEMMA HasObjectsStep ==
    ASSUME CasInv, [Next]_vars, \A c \in Client : HasObjects(c)
    PROVE  \A c \in Client : HasObjects(c)'
<1>n. NothingTaken /\ SyncOK /\ SyncOK'
  BY ObjectsStay, SyncStep DEF CasInv
\* It is enough to look at the client that steps.
<1>o. ASSUME NEW c \in Client, OwnStep(c), HasObjects(c)'
      PROVE  \A d \in Client : HasObjects(d)'
  <2>1. \A d \in Client \ {c} : HasObjects(d)'
    BY <1>o DEF OwnStep, HasObjects, Entries
  <2>. QED  BY <2>1, <1>o
\* A client that only moves on keeps them.
<1>u. ASSUME NEW c \in Client, OwnStep(c),
             \/ pc'[c] \notin {"push", "fill", "upload"}
             \/ UNCHANGED <<pushing, todo>> /\ pc[c] \in {"push", "fill", "upload"}
      PROVE  \A d \in Client : HasObjects(d)'
  <2>1. \A p \in Entries(pushing[c]) : pushing[c][p] \in Content
    BY <1>n, Constants DEF SyncOK, TypeOK
  <2>2. HasObjects(c)'
    BY <2>1, <1>u, <1>n DEF NothingTaken, HasObjects, Entries
  <2>. QED  BY <2>2, <1>u, <1>o
\* A client that starts a push is done with nothing.
<1>b. ASSUME NEW c \in Client, OwnStep(c), todo'[c] = Entries(pushing'[c])
      PROVE  \A d \in Client : HasObjects(d)'
  <2>1. HasObjects(c)'
    BY <1>b DEF HasObjects, Entries
  <2>. QED  BY <2>1, <1>b, <1>o
<1>1. ASSUME NEW c \in Client, Start(c)
      PROVE  \A d \in Client : HasObjects(d)'
  BY <1>1, <1>n, <1>u, <1>b, StartFine DEF Fine
<1>2. ASSUME NEW c \in Client, Poll(c) \/ WatchNothing(c)
      PROVE  \A d \in Client : HasObjects(d)'
  BY <1>2, <1>n, <1>u, PollFine, WatchNothingFine DEF Fine
<1>3. ASSUME NEW c \in Client, NEW p \in Path,
             \/ PullCompare(c, p) \/ PullCreate(c, p) \/ PullWrite(c, p) \/ PullCache(c, p)
             \/ PullMiss(c, p)
      PROVE  \A d \in Client : HasObjects(d)'
  BY <1>3, <1>n, <1>u, PullCompareFine, PullWriteFine, PullCacheFine, PullMissFine
     DEF Fine, Compared, Wrote, Caching
<1>4. ASSUME NEW c \in Client, FillObject(c)
      PROVE  \A d \in Client : HasObjects(d)'
  BY <1>4, <1>n, <1>u, FillObjectFine DEF Fine, Filled
<1>5. ASSUME NEW c \in Client, FinishPull(c)
      PROVE  \A d \in Client : HasObjects(d)'
  BY <1>5, <1>n, <1>u, <1>b, FinishPullFine DEF Fine, Finished
<1>6. ASSUME NEW c \in Client, Watch(c)
      PROVE  \A d \in Client : HasObjects(d)'
  BY <1>6, <1>n, <1>b, WatchFine DEF Fine
<1>7. ASSUME NEW c \in Client, NEW p \in Path, PushRead(c, p)
      PROVE  \A d \in Client : HasObjects(d)'
  BY <1>7, <1>n, <1>u, PushReadFine DEF Fine, ReadFor
<1>8. ASSUME NEW c \in Client, NEW p \in Path, PushDenied(c, p) \/ PushLocked(c, p)
      PROVE  \A d \in Client : HasObjects(d)'
  <2>1. Passed(c, p) /\ OwnStep(c)
    BY <1>8, <1>n, PushPassFine DEF Fine
  <2>2. \A q \in Entries(pushing[c]) \ (todo[c] \ {p}) : cache[c][pushing[c][q]] # None
    BY <2>1 DEF Passed, HasObjects
  <2>3. HasObjects(c)'
    BY <2>1, <2>2 DEF Passed, HasObjects, Entries
  <2>. QED  BY <2>1, <2>3, <1>o
<1>9. ASSUME NEW c \in Client, PushUpload(c)
      PROVE  \A d \in Client : HasObjects(d)'
  BY <1>9, <1>n, <1>u, PushUploadFine DEF Fine, Uploaded
<1>10. ASSUME NEW c \in Client, PushRefused(c) \/ SaveTree(c) \/ SaveLatest(c)
       PROVE  \A d \in Client : HasObjects(d)'
  BY <1>10, <1>n, <1>u, MoveFine DEF Fine
<1>11. ASSUME NEW c \in Client, Stop(c) \/ \E p \in Path : PushUnreadable(c, p)
       PROVE  \A d \in Client : HasObjects(d)'
  BY <1>11, <1>n, <1>u, StopFine DEF Fine, Stopped
<1>12. ASSUME NEW c \in Client, NEW p \in Path, Edit(c, p)
       PROVE  \A d \in Client : HasObjects(d)'
  BY <1>12, <1>n, <1>u, EditFine DEF Fine, Edited
<1>13. ASSUME (\E p \in Path : Expire(p)) \/ (\E c \in Client : PollNothing(c)) \/ UNCHANGED vars
       PROVE  \A d \in Client : HasObjects(d)'
  BY <1>13, <1>n, ExpireFine DEF HasObjects, Entries
<1>. QED
  BY <1>1, <1>2, <1>3, <1>4, <1>5, <1>6, <1>7, <1>8, <1>9, <1>10, <1>11, <1>12, <1>13, Cases

\* Only SaveTree publishes a tree.
LEMMA OnlySaveTree ==
    ASSUME SyncOK, [Next]_vars, NEW t \in archive' \ archive
    PROVE  \E c \in Client : SaveTree(c) /\ t = pushing[c]
<1>1. ASSUME NEW c \in Client,
             \/ Start(c) \/ Poll(c) \/ FillObject(c) \/ FinishPull(c) \/ Watch(c) \/ WatchNothing(c)
             \/ PushUpload(c) \/ Stop(c) \/ \E p \in Path : PushUnreadable(c, p)
      PROVE  archive' = archive
  BY <1>1, StartFine, PollFine, FillObjectFine, FinishPullFine, WatchFine, WatchNothingFine,
     PushUploadFine, StopFine DEF Filled, Finished, Uploaded, Stopped
<1>2. ASSUME NEW c \in Client, NEW p \in Path,
             \/ PullCompare(c, p) \/ PullCreate(c, p) \/ PullWrite(c, p) \/ PullCache(c, p)
             \/ PullMiss(c, p)
      PROVE  archive' = archive
  BY <1>2, PullCompareFine, PullWriteFine, PullCacheFine, PullMissFine DEF Compared, Wrote, Caching
<1>3. ASSUME NEW c \in Client, NEW p \in Path,
             PushRead(c, p) \/ PushDenied(c, p) \/ PushLocked(c, p) \/ Edit(c, p)
      PROVE  archive' = archive
  BY <1>3, PushReadFine, PushPassFine, EditFine DEF ReadFor, Passed, Edited
<1>4. ASSUME NEW c \in Client, PushRefused(c) \/ SaveTree(c) \/ SaveLatest(c)
      PROVE  archive' = archive \/ (SaveTree(c) /\ archive' = archive \cup {pushing[c]})
  BY <1>4, MoveFine
<1>. QED  BY <1>1, <1>2, <1>3, <1>4, ExpireFine, Cases

\* A tree is published when every entry of it has an object.
LEMMA RecoverStep == RecoverInv /\ [Next]_vars => RecoverInv'
<1> SUFFICES ASSUME RecoverInv, [Next]_vars PROVE RecoverInv'
  OBVIOUS
<1>t. CasInv /\ CasInv' /\ SyncOK /\ CasIntegrity /\ \A c \in Client : HasObjects(c)
  BY CasStep DEF RecoverInv, CasInv
<1>h. \A c \in Client : HasObjects(c)'
  BY <1>t, HasObjectsStep
<1>a. archive \subseteq Tree
  BY <1>t DEF SyncOK, TypeOK
<1>1. \A t \in archive : \A p \in Entries(t) : ObjectOf(t[p])'
  <2>1. \A t \in archive : \A p \in Entries(t) : t[p] \in Content /\ ObjectOf(t[p])
    BY <1>a, Constants DEF RecoverInv, Recoverable, ObjectOf, Entries
  <2>. QED  BY <2>1, <1>t, ObjectOfStays
<1>2. ASSUME NEW c \in Client, SaveTree(c), NEW t, t = pushing[c], NEW p \in Entries(t)
      PROVE  ObjectOf(t[p])'
  <2>1. pc[c] = "push" /\ todo[c] = {}
    BY <1>2 DEF SaveTree
  <2>2. t[p] \in Content /\ None \notin Content
    BY <1>2, <1>t, Constants DEF SyncOK, TypeOK
  <2>3. cache[c][t[p]] # None /\ writing[c] = None
    BY <1>2, <2>1, <1>t DEF HasObjects, SyncOK, ClientOK
  <2>4. ObjectOf(t[p])
    BY <2>2, <2>3, <1>t DEF ObjectOf, CasIntegrity
  <2>. QED  BY <2>2, <2>4, <1>t, ObjectOfStays
<1>3. \A t \in archive' \ archive : \E c \in Client : SaveTree(c) /\ t = pushing[c]
  BY <1>t, OnlySaveTree
<1>4. \A t \in archive' : \A p \in Entries(t) : ObjectOf(t[p])'
  BY <1>1, <1>2, <1>3
<1>5. Recoverable'
  BY <1>4 DEF Recoverable, ObjectOf, Entries
<1>. QED  BY <1>5, <1>h, <1>t DEF RecoverInv

\* The content named by any tree that was ever published can be had from the server or from
\* the cache of some client, or its id is skewed.
THEOREM PublishedRecoverable == Spec => []Recoverable
<1>1. RecoverInv => Recoverable
  BY DEF RecoverInv
<1>. QED  BY <1>1, InitRecover, RecoverStep, PTL DEF Spec
-----------------------------------------------------------------------------
(* Edits *)

\* What the user of c saved as x is in the share directory of c, or was kept when it was
\* replaced there, or was lost in one of the known ways.
KeptFor(c, x) ==
    \/ store[x] = x \/ cache[c][x] = x \/ x \in copies[c]
    \/ \E p \in Path : dir[c][p] = x
    \/ x \in purged \/ x \in raced \/ x \in skewed

OwedInv ==
    /\ CasInv
    /\ \A c \in Client : 0 \notin owed[c] /\ \A x \in owed[c] : KeptFor(c, x)

\* Nothing is owed at the start.
LEMMA InitOwed == Init => OwedInv
<1> SUFFICES ASSUME Init PROVE OwedInv
  OBVIOUS
<1>1. CasInv
  BY InitCas
<1>. QED  BY <1>1 DEF Init, OwedInv

\* Every step keeps what is owed to a user.
LEMMA OwedStep == OwedInv /\ [Next]_vars => OwedInv'
<1> SUFFICES ASSUME OwedInv, [Next]_vars PROVE OwedInv'
  OBVIOUS
<1>t. CasInv /\ CasInv' /\ SyncOK /\ TypeOK /\ CasIntegrity /\ NothingTaken /\ None \notin Content
  BY CasStep, ObjectsStay, Constants DEF OwedInv, CasInv, SyncOK
<1>x. \A c \in Client : 0 \notin owed[c] /\ \A x \in owed[c] : x \in Content /\ KeptFor(c, x)
  BY <1>t DEF OwedInv, TypeOK
\* Only a content that leaves the share directory needs an argument.
<1>k. ASSUME NEW c \in Client, NEW x \in owed[c],
             \A p \in Path : dir[c][p] = x => KeptFor(c, x)'
      PROVE  KeptFor(c, x)'
  BY <1>k, <1>x, <1>t DEF KeptFor, NothingTaken
<1>s. ASSUME NEW c \in Client, OwnStep(c), owed' = owed,
             \A x \in owed[c] : \A p \in Path : dir[c][p] = x => KeptFor(c, x)'
      PROVE  OwedInv'
  <2>1. ASSUME NEW d \in Client, NEW x \in owed[d]
        PROVE  KeptFor(d, x)'
    <3>1. CASE d = c
      BY <3>1, <1>s, <1>k
    <3>2. CASE d # c
      BY <3>2, <1>s, <1>k DEF OwnStep, KeptFor
    <3>. QED  BY <3>1, <3>2
  <2>. QED  BY <2>1, <1>s, <1>x, <1>t DEF OwedInv
<1>u. CASE UNCHANGED <<dir, owed>>
  <2>1. ASSUME NEW c \in Client, NEW x \in owed[c]
        PROVE  KeptFor(c, x)'
    BY <1>u, <1>k DEF KeptFor
  <2>. QED  BY <2>1, <1>u, <1>x, <1>t DEF OwedInv
<1>1. ASSUME NEW c \in Client, NEW p \in Path, PullCreate(c, p) \/ PullWrite(c, p)
      PROVE  OwedInv'
  <2>1. PICK y \in Content \cup {None} : Wrote(c, p, y)
    BY <1>1, <1>t, PullWriteFine
  <2>2. OwnStep(c)
    BY <1>1, <1>t, PullWriteFine DEF Fine
  <2>3. ASSUME NEW x \in owed[c], NEW q \in Path, dir[c][q] = x
        PROVE  KeptFor(c, x)'
    <3>1. CASE q # p
      BY <3>1, <2>1, <2>3 DEF Wrote, KeptFor
    <3>2. CASE q = p /\ pc[c] = "create" /\ x = held[c]
      <4>1. x = pull[c].tree[p] \/ x \in copies[c]
        BY <3>2, <2>1, <1>t, <1>x DEF Wrote, SyncOK, ClientOK
      <4>2. CASE x \in copies[c]
        BY <4>2, <1>t DEF KeptFor, NothingTaken
      <4>3. CASE x = pull[c].tree[p]
        <5>1. store[x] # None
          BY <3>2, <4>3, <2>1, <1>t DEF Wrote, SyncOK, ClientOK
        <5>2. store[x] = x \/ x \in skewed
          BY <5>1, <1>t, <1>x DEF CasIntegrity
        <5>. QED  BY <5>2, <2>1 DEF Wrote, KeptFor
      <4>. QED  BY <4>1, <4>2, <4>3
    <3>3. CASE q = p /\ (pc[c] = "create" => x # held[c])
      BY <3>3, <2>1, <2>3 DEF Wrote, KeptFor
    <3>. QED  BY <3>1, <3>2, <3>3
  <2>. QED  BY <2>1, <2>2, <2>3, <1>s DEF Wrote
<1>2. ASSUME NEW c \in Client, FinishPull(c)
      PROVE  OwedInv'
  <2>1. /\ OwnStep(c) /\ dir'[c] = Remaining(c) /\ owed' = owed
        /\ purged' = purged \cup (owed[c] \cap {dir[c][p] : p \in pull[c].removed})
    BY <1>2, <1>t, FinishPullFine DEF Fine, Finished
  <2>2. ASSUME NEW x \in owed[c], NEW q \in Path, dir[c][q] = x
        PROVE  KeptFor(c, x)'
    <3>1. CASE q \in pull[c].removed
      BY <3>1, <2>1, <2>2 DEF KeptFor
    <3>2. CASE q \notin pull[c].removed
      BY <3>2, <2>1, <2>2 DEF Remaining, KeptFor
    <3>. QED  BY <3>1, <3>2
  <2>. QED  BY <2>1, <2>2, <1>s
<1>3. ASSUME NEW c \in Client, NEW p \in Path, Edit(c, p)
      PROVE  OwedInv'
  <2>1. Edited(c, p) /\ OwnStep(c)
    BY <1>3, <1>t, EditFine DEF Fine
  <2>2. ASSUME NEW d \in Client, NEW x \in owed'[d]
        PROVE  x # 0 /\ KeptFor(d, x)'
    <3>1. CASE d # c
      <4>1. x \in owed[d] /\ dir'[d] = dir[d]
        BY <3>1, <2>1, <2>2 DEF OwnStep
      <4>. QED  BY <4>1, <1>x, <1>k DEF KeptFor
    <3>2. CASE d = c /\ x = dir'[c][p]
      BY <3>2, <2>1, <2>2, <1>x, <1>t DEF Edited, KeptFor
    <3>3. CASE d = c /\ x # dir'[c][p]
      <4>1. x \in owed[c] /\ x # dir[c][p]
        BY <3>3, <2>1, <2>2 DEF Edited
      <4>2. \A q \in Path : dir[c][q] = x => dir'[c][q] = x
        BY <4>1, <2>1 DEF Edited
      <4>. QED  BY <4>1, <4>2, <3>3, <1>x, <1>k DEF KeptFor
    <3>. QED  BY <3>1, <3>2, <3>3
  <2>. QED  BY <2>2, <1>t DEF OwedInv
<1>4. ASSUME NEW c \in Client,
             \/ Start(c) \/ Poll(c) \/ FillObject(c) \/ Watch(c) \/ WatchNothing(c) \/ PushUpload(c)
             \/ PushRefused(c) \/ SaveTree(c) \/ SaveLatest(c)
             \/ Stop(c) \/ \E p \in Path : PushUnreadable(c, p)
      PROVE  UNCHANGED <<dir, owed>>
  BY <1>4, <1>t, StartFine, PollFine, FillObjectFine, WatchFine, WatchNothingFine, PushUploadFine,
     MoveFine, StopFine DEF Filled, Uploaded, Stopped
<1>5. ASSUME NEW c \in Client, NEW p \in Path,
             \/ PullCompare(c, p) \/ PullCache(c, p) \/ PullMiss(c, p)
             \/ PushRead(c, p) \/ PushDenied(c, p) \/ PushLocked(c, p)
      PROVE  UNCHANGED <<dir, owed>>
  BY <1>5, <1>t, PullCompareFine, PullCacheFine, PullMissFine, PushReadFine, PushPassFine
     DEF Compared, Caching, ReadFor, Passed
<1>6. ASSUME (\E p \in Path : Expire(p)) \/ (\E c \in Client : PollNothing(c)) \/ UNCHANGED vars
      PROVE  UNCHANGED <<dir, owed>>
  BY <1>6, <1>t, ExpireFine
<1>. QED  BY <1>1, <1>2, <1>3, <1>u, <1>4, <1>5, <1>6, Cases

\* Synchronisation loses an edit only by the removal list of a pull, by a pull that writes
\* over what it has not looked at or not copied, or through a skewed object, whatever the
\* clients, the users, the leases and the failures do.
THEOREM OnlyKnownWays == Spec => []LostInKnownWays
<1>1. OwedInv => LostInKnownWays
  BY DEF OwedInv, KeptFor, LostInKnownWays, Survives
<1>. QED  BY <1>1, InitOwed, OwedStep, PTL DEF Spec
-----------------------------------------------------------------------------
(* One client at a time *)

\* Where clients take turns and users do not edit during a synchronisation: client c
\* pushes the directory as it is, removes only what can be had as an object, writes over
\* what it has compared, and is in line with the latest tree when it is in its loop.
HandOK(c) ==
    /\ pc[c] \in {"push", "fill", "upload", "save"} => pushing[c] = dir[c]
    /\ pc[c] \in {"pull", "create", "write", "cache", "keep"} =>
          /\ init[c] = TRUE
          /\ pull[c].changed \cap pull[c].removed = {}
          /\ \A p \in pull[c].removed, x \in Content : dir[c][p] = x => ObjectOf(x)
    /\ pc[c] = "create" => \A p \in Path : IsFirst(p, pull[c].changed) => held[c] = dir[c][p]
    /\ pc[c] = "write" => \A p \in Path : IsFirst(p, pull[c].changed) => dir[c][p] = 0
    /\ pc[c] = "save" => latest = NoTree /\ pushing[c] \in archive
    /\ pc[c] = "loop" => latest = local[c] /\ local[c] \in archive

HandInv ==
    /\ RecoverInv /\ OwedInv
    /\ skewed = {} /\ raced = {}
    /\ \A x \in purged : ObjectOf(x)
    /\ \A c, d \in Client : pc[c] # "off" /\ pc[d] # "off" => c = d
    /\ \A c \in Client : HandOK(c)

\* Nobody runs at the start.
LEMMA InitHand == Init => HandInv
<1> SUFFICES ASSUME Init PROVE HandInv
  OBVIOUS
<1>1. RecoverInv /\ OwedInv
  BY InitRecover, InitOwed
<1>2. skewed = {} /\ raced = {} /\ purged = {} /\ \A c \in Client : pc[c] = "off"
  BY DEF Init
<1>. QED  BY <1>1, <1>2 DEF HandInv, HandOK

\* A client that is in line with the latest tree has nothing to pull.
LEMMA NoPoll ==
    ASSUME SyncOK, NEW c \in Client, latest = local[c], local[c] \in archive
    PROVE  ~ Poll(c)
<1> SUFFICES ASSUME Poll(c) PROVE FALSE
  OBVIOUS
<1>1. local[c] \in Tree /\ latest # NoTree
  BY NoTreeAssumption DEF SyncOK, TypeOK
<1>2. PICK touched \in SUBSET MayBeTouched(local[c]) :
          DiffResult(local[c], touched).changed \cup DiffResult(local[c], touched).removed # {}
  BY DEF Poll
<1>3. touched = {} /\ Known(local[c]) = latest
  BY <1>2 DEF MayBeTouched, Known
<1>4. DiffResult(local[c], touched) =
          [tree |-> latest, changed |-> {p \in Entries(latest) : latest[p] # latest[p] \/ p \in touched},
           removed |-> Entries(latest) \ Entries(latest), gone |-> {}]
  BY <1>1, <1>3 DEF DiffResult
<1>5. DiffResult(local[c], touched).changed = {} /\ DiffResult(local[c], touched).removed = {}
  BY <1>3, <1>4
<1>. QED  BY <1>2, <1>5

\* A step of one client at a time, with no edit while it synchronises.
LEMMA HandStep ==
    ASSUME Overlap = FALSE, EditAnytime = FALSE, "copy" \notin Faults, "tree" \notin Faults,
           "keep" \notin StopAt, "fill" \notin StopAt, HandInv, [Next]_vars
    PROVE  HandInv'
<1>t. /\ RecoverInv /\ RecoverInv' /\ OwedInv /\ OwedInv' /\ CasInv /\ SyncOK /\ TypeOK
      /\ NothingTaken /\ Recoverable /\ 0 \in Content /\ None \notin Content
  BY RecoverStep, OwedStep, ObjectsStay, Constants DEF HandInv, RecoverInv, CasInv, SyncOK
<1>k. skewed = {} /\ raced = {} /\ \A x \in purged : x \in Content /\ ObjectOf(x)
  BY <1>t DEF HandInv, TypeOK
<1>p. \A x \in purged : ObjectOf(x)'
  BY <1>k, <1>t, ObjectOfStays
<1>a. \A c, d \in Client : pc[c] # "off" /\ pc[d] # "off" => c = d
  BY DEF HandInv
<1>h. \A c \in Client : HandOK(c)
  BY DEF HandInv
<1>o. \A x \in Content : ObjectOf(x) => ObjectOf(x)'
  BY <1>t, ObjectOfStays
\* The client that runs takes a step: the others are off.
<1>s. ASSUME NEW c \in Client, OwnStep(c), \A d \in Client \ {c} : pc[d] = "off", HandOK(c)',
             skewed' = skewed, raced' = raced, \A x \in purged' : ObjectOf(x)'
      PROVE  HandInv'
  <2>1. \A d \in Client \ {c} : pc'[d] = "off"
    BY <1>s DEF OwnStep
  <2>2. \A d \in Client \ {c} : HandOK(d)'
    BY <2>1 DEF HandOK
  <2>3. \A d, e \in Client : pc'[d] # "off" /\ pc'[e] # "off" => d = e
    BY <2>1
  <2>. QED  BY <2>2, <2>3, <1>s, <1>k, <1>t DEF HandInv
<1>r. \A c \in Client : pc[c] # "off" => \A d \in Client \ {c} : pc[d] = "off"
  BY <1>a
\* The pull goes on, and changes only files that it was not told to remove.
<1>g. ASSUME NEW c \in Client, OwnStep(c), pc[c] \in {"pull", "create", "write", "cache", "keep"},
             init' = init, pull'[c].removed = pull[c].removed, pull'[c].changed \subseteq pull[c].changed,
             \A q \in Path \ pull[c].changed : dir'[c][q] = dir[c][q]
      PROVE  /\ init'[c] = TRUE
             /\ pull'[c].changed \cap pull'[c].removed = {}
             /\ \A p \in pull'[c].removed, x \in Content : dir'[c][p] = x => ObjectOf(x)'
  <2>1. /\ init[c] = TRUE /\ pull[c].changed \cap pull[c].removed = {}
        /\ \A p \in pull[c].removed, x \in Content : dir[c][p] = x => ObjectOf(x)
    BY <1>g, <1>h DEF HandOK
  <2>2. pull[c].removed \subseteq Path
    BY <1>t DEF TypeOK, Diff
  <2>3. \A p \in pull[c].removed : dir'[c][p] = dir[c][p]
    BY <2>1, <2>2, <1>g
  <2>. QED  BY <2>1, <2>3, <1>g, <1>o
<1>1. ASSUME NEW c \in Client, Start(c)
      PROVE  HandInv'
  <2>1. \A d \in Client : pc[d] = "off"
    BY <1>1 DEF Start
  <2>2. /\ init'[c] = TRUE /\ OwnStep(c)
        /\ UNCHANGED <<dir, store, cache, skewed, raced, purged>>
        /\ \/ /\ pc'[c] = "pull"
              /\ \E touched : pull'[c] = IF latest = NoTree THEN NoDiff
                                         ELSE DiffResult(dir[c], touched)
           \/ pc'[c] = "push" /\ pushing'[c] = dir[c]
    BY <1>1, <1>t, StartFine DEF Fine
  <2>3. CASE /\ pc'[c] = "pull"
             /\ \E touched : pull'[c] = IF latest = NoTree THEN NoDiff
                                        ELSE DiffResult(dir[c], touched)
    <3>1. PICK touched : pull'[c] = IF latest = NoTree THEN NoDiff ELSE DiffResult(dir[c], touched)
      BY <2>3
    <3> DEFINE d == IF latest = NoTree THEN NoDiff ELSE DiffResult(dir[c], touched)
    <3>2. dir[c] \in Tree
      BY <1>t DEF TypeOK
    <3>3. /\ d.changed \cap d.removed = {}
          /\ \A p \in d.removed : dir[c] \in archive /\ dir[c][p] # None /\ p \in Path
      <4>1. d \in Diff
        BY <3>2, <1>t, DiffFacts, Constants
      <4>2. d.removed \subseteq Path
        BY <4>1 DEF Diff
      <4>. QED  BY <4>2, <3>2, <1>t, DiffFacts, Constants
    <3>4. pull'[c] = d
      BY <3>1
    <3> HIDE DEF d
    <3>5. ASSUME NEW p \in d.removed, NEW x \in Content, dir[c][p] = x
          PROVE  ObjectOf(x)'
      <4>1. ObjectOf(x)
        BY <3>3, <3>5, <1>t DEF Recoverable, Entries, ObjectOf
      <4>. QED  BY <4>1, <1>o
    <3>6. HandOK(c)'
      BY <2>2, <2>3, <3>3, <3>4, <3>5 DEF HandOK
    <3>. QED  BY <2>1, <2>2, <3>6, <1>p, <1>s
  <2>4. CASE pc'[c] = "push" /\ pushing'[c] = dir[c]
    <3>1. HandOK(c)'
      BY <2>2, <2>4 DEF HandOK
    <3>. QED  BY <3>1, <2>1, <2>2, <1>p, <1>s
  <2>. QED  BY <2>2, <2>3, <2>4
<1>2. ASSUME NEW c \in Client, Poll(c)
      PROVE  HandInv'
  BY <1>2, <1>h, <1>t, NoPoll DEF HandOK, Poll
<1>3. ASSUME NEW c \in Client, NEW p \in Path, PullCompare(c, p)
      PROVE  HandInv'
  <2>1. Compared(c, p) /\ OwnStep(c) /\ held'[c] = dir[c][p]
    BY <1>3, <1>t, PullCompareFine DEF Fine, Compared
  <2>2. \A q \in Path : IsFirst(q, pull[c].changed) => q = p
    <3>1. \A q \in Path : IsFirst(q, pull[c].changed) => q <= p /\ p <= q
      BY <2>1 DEF IsFirst, Compared
    <3>. QED  BY <3>1, SyncAssumption
  <2>3. HandOK(c)'
    BY <2>1, <2>2, <1>g DEF HandOK, Compared, IsFirst
  <2>. QED  BY <2>1, <2>3, <1>p, <1>r, <1>s DEF Compared
<1>4. ASSUME NEW c \in Client, NEW p \in Path, PullCreate(c, p) \/ PullWrite(c, p)
      PROVE  HandInv'
  <2>1. PICK y \in Content \cup {None} : Wrote(c, p, y)
    BY <1>4, <1>t, PullWriteFine
  <2>2. OwnStep(c) /\ pc[c] \in {"create", "write"} /\ pc'[c] \in {"write", "cache"}
    BY <1>4, <2>1, <1>t, PullWriteFine DEF Fine, Wrote
  <2>3. raced' = raced
    <3>1. pc[c] = "create" => held[c] = dir[c][p]
      BY <2>1, <1>h DEF Wrote, HandOK
    <3>2. pc[c] = "write" => dir[c][p] = 0 /\ 0 \notin owed[c]
      BY <2>1, <1>h, <1>t DEF Wrote, HandOK, OwedInv
    <3>. QED  BY <3>1, <3>2, <2>1 DEF Wrote
  <2>4. \A q \in Path : IsFirst(q, pull[c].changed) => q = p
    <3>1. \A q \in Path : IsFirst(q, pull[c].changed) => q <= p /\ p <= q
      BY <2>1 DEF IsFirst, Wrote
    <3>. QED  BY <3>1, SyncAssumption
  <2>5. /\ \A q \in Path \ pull[c].changed : dir'[c][q] = dir[c][q]
        /\ UNCHANGED <<init, pull, purged, skewed>> /\ (pc'[c] = "write" => dir'[c][p] = 0)
    BY <2>1 DEF Wrote, IsFirst
  <2>6. /\ init'[c] = TRUE
        /\ pull'[c].changed \cap pull'[c].removed = {}
        /\ \A q \in pull'[c].removed, x \in Content : dir'[c][q] = x => ObjectOf(x)'
    BY <2>2, <2>5, <1>g
  <2>7. HandOK(c)'
    BY <2>2, <2>4, <2>5, <2>6 DEF HandOK, IsFirst
  <2>. QED  BY <2>2, <2>3, <2>5, <2>7, <1>p, <1>r, <1>s
<1>5. ASSUME NEW c \in Client, NEW p \in Path, PullCache(c, p) \/ PullMiss(c, p)
      PROVE  HandInv'
  <2>1. /\ OwnStep(c) /\ pc[c] \in {"cache", "pull"} /\ pc'[c] \in {"pull", "keep"}
        /\ pull'[c].changed = pull[c].changed \ {p} /\ pull'[c].removed = pull[c].removed
        /\ UNCHANGED <<init, dir, purged, raced, skewed>>
    BY <1>5, <1>t, PullCacheFine, PullMissFine DEF Fine, Caching
  <2>2. /\ init'[c] = TRUE
        /\ pull'[c].changed \cap pull'[c].removed = {}
        /\ \A q \in pull'[c].removed, x \in Content : dir'[c][q] = x => ObjectOf(x)'
    BY <2>1, <1>g
  <2>3. HandOK(c)'
    BY <2>1, <2>2 DEF HandOK
  <2>. QED  BY <2>1, <2>3, <1>p, <1>r, <1>s
<1>6. ASSUME NEW c \in Client, FillObject(c)
      PROVE  HandInv'
  <2>1. /\ OwnStep(c) /\ UNCHANGED <<init, dir, pull, pushing, purged, raced, skewed>>
        /\ (pc[c] = "keep" /\ pc'[c] = "pull") \/ (pc[c] = "fill" /\ pc'[c] = "push")
    BY <1>6, <1>t, FillObjectFine DEF Fine, Filled
  <2>2. CASE pc[c] = "keep" /\ pc'[c] = "pull"
    <3>1. /\ init'[c] = TRUE
          /\ pull'[c].changed \cap pull'[c].removed = {}
          /\ \A q \in pull'[c].removed, x \in Content : dir'[c][q] = x => ObjectOf(x)'
      BY <2>1, <2>2, <1>g
    <3>2. HandOK(c)'
      BY <2>2, <3>1 DEF HandOK
    <3>. QED  BY <3>2, <2>1, <2>2, <1>p, <1>r, <1>s
  <2>3. CASE pc[c] = "fill" /\ pc'[c] = "push"
    <3>1. HandOK(c)'
      BY <2>1, <2>3, <1>h DEF HandOK
    <3>. QED  BY <3>1, <2>1, <2>3, <1>p, <1>r, <1>s
  <2>. QED  BY <2>1, <2>2, <2>3
<1>7. ASSUME NEW c \in Client, FinishPull(c)
      PROVE  HandInv'
  <2>1. PICK built \in BOOLEAN, t \in Tree : Finished(c, built, t)
    BY <1>7, <1>t, FinishPullFine
  <2>2. pc[c] = "pull" /\ init[c] /\ built
    BY <2>1, <1>h DEF HandOK, Finished
  <2>3. /\ OwnStep(c) /\ dir'[c] = Remaining(c) /\ pc'[c] = "push" /\ pushing'[c] = Remaining(c)
        /\ purged' = purged \cup (owed[c] \cap {dir[c][p] : p \in pull[c].removed})
        /\ UNCHANGED <<raced, skewed>>
    BY <1>7, <2>1, <2>2, <1>t, FinishPullFine DEF Fine, Finished
  <2>4. HandOK(c)'
    BY <2>3 DEF HandOK
  <2>5. ASSUME NEW x \in purged' PROVE ObjectOf(x)'
    <3>1. CASE x \in purged
      BY <3>1, <1>p
    <3>2. CASE x \notin purged
      <4>1. PICK p \in pull[c].removed : x = dir[c][p] /\ x \in owed[c]
        BY <2>3, <2>5, <3>2
      <4>2. p \in Path /\ x \in Content
        BY <4>1, <1>t DEF TypeOK, Diff
      <4>. QED  BY <4>1, <4>2, <2>2, <1>h, <1>o DEF HandOK
    <3>. QED  BY <3>1, <3>2
  <2>. QED  BY <2>2, <2>3, <2>4, <2>5, <1>r, <1>s
<1>8. ASSUME NEW c \in Client, Watch(c)
      PROVE  HandInv'
  <2>1. /\ OwnStep(c) /\ pc[c] = "loop" /\ pc'[c] = "push" /\ pushing'[c] = dir[c]
        /\ UNCHANGED <<dir, purged, raced, skewed>>
    BY <1>8, <1>t, WatchFine DEF Fine
  <2>2. HandOK(c)'
    BY <2>1 DEF HandOK
  <2>. QED  BY <2>1, <2>2, <1>p, <1>r, <1>s
<1>9. ASSUME NEW c \in Client, NEW p \in Path, PushRead(c, p)
      PROVE  HandInv'
  <2>1. ReadFor(c, p) /\ OwnStep(c) /\ pushing[c] = dir[c]
    BY <1>9, <1>t, <1>h, PushReadFine DEF Fine, ReadFor, HandOK
  <2>2. skewed' = skewed
    BY <2>1 DEF ReadFor
  <2>3. HandOK(c)'
    BY <2>1 DEF HandOK, ReadFor
  <2>. QED  BY <2>1, <2>2, <2>3, <1>p, <1>r, <1>s DEF ReadFor
<1>10. ASSUME NEW c \in Client, NEW p \in Path, PushDenied(c, p) \/ PushLocked(c, p)
       PROVE  HandInv'
  <2>1. Passed(c, p) /\ OwnStep(c) /\ pushing[c] = dir[c]
    BY <1>10, <1>t, <1>h, PushPassFine DEF Fine, Passed, HandOK
  <2>2. HandOK(c)'
    BY <2>1 DEF HandOK, Passed
  <2>. QED  BY <2>1, <2>2, <1>p, <1>r, <1>s DEF Passed
<1>11. ASSUME NEW c \in Client, PushUpload(c)
       PROVE  HandInv'
  <2>1. Uploaded(c) /\ OwnStep(c) /\ pushing[c] = dir[c]
    BY <1>11, <1>t, <1>h, PushUploadFine DEF Fine, Uploaded, HandOK
  <2>2. HandOK(c)'
    BY <2>1 DEF HandOK, Uploaded
  <2>. QED  BY <2>1, <2>2, <1>p, <1>r, <1>s DEF Uploaded
<1>12. ASSUME NEW c \in Client, PushRefused(c) \/ SaveTree(c) \/ SaveLatest(c)
       PROVE  HandInv'
  <2>1. OwnStep(c) /\ UNCHANGED <<dir, purged, raced, skewed>> /\ pc[c] # "off"
    BY <1>12, <1>t, MoveFine DEF Fine
  <2>2. HandOK(c)'
    BY <1>12, <2>1, <1>t, <1>h, MoveFine DEF HandOK
  <2>. QED  BY <2>1, <2>2, <1>p, <1>r, <1>s
<1>13. ASSUME NEW c \in Client, Stop(c) \/ \E p \in Path : PushUnreadable(c, p)
       PROVE  HandInv'
  <2>1. Stopped(c) /\ OwnStep(c)
    BY <1>13, <1>t, StopFine DEF Fine
  <2>2. skewed' = skewed
    <3>1. writing[c] # None => pc[c] \in {"keep", "fill"}
      BY <1>t DEF SyncOK, ClientOK
    <3>. QED  BY <3>1, <2>1 DEF Stopped
  <2>3. HandOK(c)'
    BY <2>1 DEF HandOK, Stopped
  <2>. QED  BY <2>1, <2>2, <2>3, <1>p, <1>r, <1>s DEF Stopped
<1>14. ASSUME NEW c \in Client, NEW p \in Path, Edit(c, p)
       PROVE  HandInv'
  <2>1. Edited(c, p) /\ OwnStep(c) /\ pc[c] \in {"off", "loop"}
    BY <1>14, <1>t, EditFine DEF Fine, Edited
  <2>2. UNCHANGED <<store, archive, latest, pc, init, cache, local, pushing, held, purged, raced, skewed>>
    BY <2>1 DEF Edited
  <2>3. \A d \in Client \ {c} : HandOK(d)'
    BY <2>1, <2>2, <1>h DEF HandOK, OwnStep, ObjectOf
  <2>4. HandOK(c)'
    BY <2>1, <2>2, <1>h DEF HandOK
  <2>. QED  BY <2>2, <2>3, <2>4, <1>a, <1>k, <1>p, <1>t DEF HandInv
<1>15. ASSUME \/ \E c \in Client : WatchNothing(c)
              \/ (\E p \in Path : Expire(p)) \/ (\E c \in Client : PollNothing(c)) \/ UNCHANGED vars
       PROVE  HandInv'
  <2>1. UNCHANGED <<store, archive, latest, pc, init, dir, cache, local, pushing, pull, held, purged,
                    raced, skewed>>
    BY <1>15, <1>t, ExpireFine, WatchNothingFine
  <2>2. \A c \in Client : HandOK(c)'
    BY <2>1, <1>h DEF HandOK, ObjectOf
  <2>. QED  BY <2>1, <2>2, <1>a, <1>k, <1>p, <1>t DEF HandInv
<1>. QED
  BY <1>1, <1>2, <1>3, <1>4, <1>5, <1>6, <1>7, <1>8, <1>9, <1>10, <1>11, <1>12, <1>13, <1>14, <1>15,
     Cases

\* Where one client runs at a time, users do not edit while it synchronises, trees can be
\* built and conflicting files copied, no edit is ever lost, also when uploads are refused,
\* the first diff fails and clients are stopped anywhere but while they fill an object.
THEOREM HandoverKeepsEdits ==
    ASSUME Overlap = FALSE, EditAnytime = FALSE, "copy" \notin Faults, "tree" \notin Faults,
           "keep" \notin StopAt, "fill" \notin StopAt
    PROVE  Spec => []EditsSurvive
<1>1. HandInv => EditsSurvive
  BY DEF HandInv, OwedInv, KeptFor, ObjectOf, EditsSurvive, Survives
<1>2. HandInv /\ [Next]_vars => HandInv'
  BY HandStep
<1>. QED  BY <1>1, <1>2, InitHand, PTL DEF Spec
-----------------------------------------------------------------------------
(* The first push *)

\* Client c has, or will pull, every file of the tree that the server answered its start
\* with, or it could not get it, or its user deleted it; later it pushes them all.
AlignedOK(c) ==
    /\ pc[c] \in {"off", "loop"} => pull[c].tree = NoTree
    /\ pc[c] = "loop" => init[c] = FALSE
    /\ pc[c] \in {"pull", "create", "write", "cache", "keep"} /\ init[c] /\ pull[c].tree # NoTree =>
          /\ pull[c].removed \cap Entries(pull[c].tree) = {}
          /\ \A p \in Entries(pull[c].tree) :
                p \in pull[c].changed \/ dir[c][p] # None \/ p \in pull[c].gone
          /\ pc[c] \in {"write", "cache"} =>
                \A p \in Path : IsFirst(p, pull[c].changed) => dir[c][p] # None \/ p \in pull[c].gone
    /\ pc[c] \in {"push", "fill", "upload", "save"} /\ pull[c].tree # NoTree =>
          Entries(pull[c].tree) \subseteq Entries(pushing[c]) \cup pull[c].gone

AlignedInv == SyncOK /\ \A c \in Client : AlignedOK(c)

\* Nobody runs at the start.
LEMMA InitAligned == Init => AlignedInv
<1> SUFFICES ASSUME Init PROVE AlignedInv
  OBVIOUS
<1>1. SyncOK
  BY InitSync
<1>. QED  BY <1>1, Constants DEF Init, AlignedInv, AlignedOK

\* A path of the latest tree that the answer does not name is in the client's tree.
LEMMA DiffAligned ==
    ASSUME TypeOK, NEW t \in Tree, NEW touched, latest # NoTree
    PROVE  LET d == DiffResult(t, touched) IN
           /\ d.tree = latest
           /\ d.removed \cap Entries(latest) = {}
           /\ \A p \in Entries(latest) : p \in d.changed \/ t[p] # None
<1> DEFINE old == Known(t)
           ch == {p \in Entries(latest) : old[p] # latest[p] \/ p \in touched}
<1>1. DiffResult(t, touched) = [tree |-> latest, changed |-> ch,
                                removed |-> Entries(old) \ Entries(latest), gone |-> {}]
  BY DEF DiffResult
<1>2. \A p \in Entries(latest) : p \in ch \/ t[p] # None
  BY DEF Known, EmptyTree, Entries
<1> HIDE DEF ch, old
<1>. QED  BY <1>1, <1>2

\* Every step keeps the files of the answer in the directory or in the tree pushed.
LEMMA AlignedStep == AlignedInv /\ [Next]_vars => AlignedInv'
<1> SUFFICES ASSUME AlignedInv, [Next]_vars PROVE AlignedInv'
  OBVIOUS
<1>t. SyncOK /\ SyncOK' /\ TypeOK /\ None \notin Content
  BY SyncStep, Constants DEF AlignedInv, SyncOK
<1>h. \A c \in Client : AlignedOK(c)
  BY DEF AlignedInv
\* It is enough to look at the client that steps.
<1>s. ASSUME NEW c \in Client, OwnStep(c), AlignedOK(c)' PROVE AlignedInv'
  <2>1. \A d \in Client \ {c} : AlignedOK(d)'
    BY <1>s, <1>h DEF OwnStep, AlignedOK, Entries, IsFirst
  <2>. QED  BY <2>1, <1>s, <1>t DEF AlignedInv
<1>1. ASSUME NEW c \in Client, Start(c)
      PROVE  AlignedInv'
  <2>1. /\ init'[c] = TRUE /\ dir' = dir /\ OwnStep(c) /\ pull[c].tree = NoTree
        /\ \/ /\ pc'[c] = "pull"
              /\ \E touched : pull'[c] = IF latest = NoTree THEN NoDiff
                                         ELSE DiffResult(dir[c], touched)
           \/ pc'[c] = "push" /\ pull' = pull
    BY <1>1, <1>t, <1>h, StartFine DEF Fine, AlignedOK
  <2>2. CASE pc'[c] = "push" /\ pull' = pull
    <3>1. AlignedOK(c)'
      BY <2>1, <2>2 DEF AlignedOK
    <3>. QED  BY <3>1, <2>1, <1>s
  <2>3. CASE /\ pc'[c] = "pull"
             /\ \E touched : pull'[c] = IF latest = NoTree THEN NoDiff
                                        ELSE DiffResult(dir[c], touched)
    <3>1. PICK touched : pull'[c] = IF latest = NoTree THEN NoDiff ELSE DiffResult(dir[c], touched)
      BY <2>3
    <3>2. dir[c] \in Tree
      BY <1>t DEF TypeOK
    <3>3. CASE latest = NoTree
      <4>1. pull'[c].tree = NoTree
        BY <3>1, <3>3, Constants
      <4>2. AlignedOK(c)'
        BY <4>1, <2>3 DEF AlignedOK
      <4>. QED  BY <4>2, <2>1, <1>s
    <3>4. CASE latest # NoTree
      <4>1. /\ pull'[c].tree = latest /\ pull'[c].removed \cap Entries(latest) = {}
            /\ \A p \in Entries(latest) : p \in pull'[c].changed \/ dir[c][p] # None
        BY <3>1, <3>2, <3>4, <1>t, DiffAligned
      <4>2. AlignedOK(c)'
        BY <4>1, <2>1, <2>3 DEF AlignedOK, Entries
      <4>. QED  BY <4>2, <2>1, <1>s
    <3>. QED  BY <3>3, <3>4
  <2>. QED  BY <2>1, <2>2, <2>3
<1>2. ASSUME NEW c \in Client, Poll(c)
      PROVE  AlignedInv'
  <2>1. OwnStep(c) /\ pc'[c] = "pull" /\ init'[c] = FALSE
    BY <1>2, <1>t, <1>h, PollFine DEF Fine, AlignedOK
  <2>2. AlignedOK(c)'
    BY <2>1 DEF AlignedOK
  <2>. QED  BY <2>1, <2>2, <1>s
<1>3. ASSUME NEW c \in Client, NEW p \in Path, PullCompare(c, p)
      PROVE  AlignedInv'
  <2>1. Compared(c, p) /\ OwnStep(c)
    BY <1>3, <1>t, PullCompareFine DEF Fine
  <2>2. AlignedOK(c)'
    BY <2>1, <1>h DEF Compared, AlignedOK, Entries
  <2>. QED  BY <2>1, <2>2, <1>s
<1>4. ASSUME NEW c \in Client, NEW p \in Path, PullCreate(c, p) \/ PullWrite(c, p)
      PROVE  AlignedInv'
  <2>1. PICK y \in Content \cup {None} : Wrote(c, p, y)
    BY <1>4, <1>t, PullWriteFine
  <2>2. OwnStep(c) /\ pc[c] \in {"create", "write"} /\ pc'[c] \in {"write", "cache"}
    BY <1>4, <2>1, <1>t, PullWriteFine DEF Fine, Wrote
  <2>3. \A q \in Path : IsFirst(q, pull[c].changed) => q = p
    <3>1. \A q \in Path : IsFirst(q, pull[c].changed) => q <= p /\ p <= q
      BY <2>1 DEF IsFirst, Wrote
    <3>. QED  BY <3>1, SyncAssumption
  <2>4. UNCHANGED <<pull, init>> /\ p \in pull[c].changed /\ IsFirst(p, pull[c].changed)
    BY <2>1 DEF Wrote, IsFirst
  <2>5. CASE ~ (init[c] /\ pull[c].tree # NoTree)
    <3>1. AlignedOK(c)'
      BY <2>2, <2>4, <2>5 DEF AlignedOK
    <3>. QED  BY <3>1, <2>2, <1>s
  <2>6. CASE init[c] /\ pull[c].tree # NoTree
    <3>1. dir'[c][p] # None \/ p \in pull[c].gone
      <4>1. CASE pc[c] = "create"
        <5>1. 0 \in Content /\ dir'[c][p] = 0
          BY <4>1, <2>1, Constants DEF Wrote
        <5>. QED  BY <5>1, <1>t
      <4>2. CASE pc[c] = "write"
        <5>1. dir[c][p] # None \/ p \in pull[c].gone
          BY <4>2, <2>4, <2>6, <1>h DEF AlignedOK
        <5>. QED  BY <5>1, <2>1 DEF Wrote
      <4>. QED  BY <4>1, <4>2, <2>2
    <3>2. \A q \in Path \ {p} : dir'[c][q] = dir[c][q]
      BY <2>1 DEF Wrote
    <3>3. /\ pull[c].removed \cap Entries(pull[c].tree) = {}
          /\ \A q \in Entries(pull[c].tree) :
                q \in pull[c].changed \/ dir[c][q] # None \/ q \in pull[c].gone
      BY <2>2, <2>6, <1>h DEF AlignedOK
    <3>4. \A q \in Entries(pull[c].tree) :
                q \in pull[c].changed \/ dir'[c][q] # None \/ q \in pull[c].gone
      BY <3>2, <3>3, <2>4 DEF Entries
    <3>5. \A q \in Path : IsFirst(q, pull[c].changed) => dir'[c][q] # None \/ q \in pull[c].gone
      BY <3>1, <2>3
    <3>6. AlignedOK(c)'
      BY <3>3, <3>4, <3>5, <2>2, <2>4 DEF AlignedOK, Entries, IsFirst
    <3>. QED  BY <3>6, <2>2, <1>s
  <2>. QED  BY <2>5, <2>6
<1>5. ASSUME NEW c \in Client, NEW p \in Path, PullCache(c, p) \/ PullMiss(c, p)
      PROVE  AlignedInv'
  <2>1. /\ OwnStep(c) /\ pc[c] \in {"pull", "cache"} /\ pc'[c] \in {"pull", "keep"}
        /\ pull'[c].changed = pull[c].changed \ {p} /\ pull'[c].removed = pull[c].removed
        /\ pull'[c].tree = pull[c].tree /\ pull[c].gone \subseteq pull'[c].gone
        /\ UNCHANGED <<init, dir>>
        /\ (pc[c] = "cache" /\ IsFirst(p, pull[c].changed)) \/ p \in pull'[c].gone
    BY <1>5, <1>t, PullCacheFine, PullMissFine DEF Fine, Caching
  <2>2. CASE ~ (init[c] /\ pull[c].tree # NoTree)
    <3>1. AlignedOK(c)'
      BY <2>1, <2>2 DEF AlignedOK
    <3>. QED  BY <3>1, <2>1, <1>s
  <2>3. CASE init[c] /\ pull[c].tree # NoTree
    <3>1. dir[c][p] # None \/ p \in pull'[c].gone
      BY <2>1, <2>3, <1>h DEF AlignedOK
    <3>2. /\ pull[c].removed \cap Entries(pull[c].tree) = {}
          /\ \A q \in Entries(pull[c].tree) :
                q \in pull[c].changed \/ dir[c][q] # None \/ q \in pull[c].gone
      BY <2>1, <2>3, <1>h DEF AlignedOK
    <3>3. \A q \in Entries(pull[c].tree) :
                q \in pull'[c].changed \/ dir[c][q] # None \/ q \in pull'[c].gone
      BY <3>1, <3>2, <2>1
    <3>4. AlignedOK(c)'
      BY <3>2, <3>3, <2>1 DEF AlignedOK, Entries
    <3>. QED  BY <3>4, <2>1, <1>s
  <2>. QED  BY <2>2, <2>3
<1>6. ASSUME NEW c \in Client, FillObject(c)
      PROVE  AlignedInv'
  <2>1. Filled(c) /\ OwnStep(c)
    BY <1>6, <1>t, FillObjectFine DEF Fine
  <2>2. AlignedOK(c)'
    BY <2>1, <1>h DEF Filled, AlignedOK, Entries
  <2>. QED  BY <2>1, <2>2, <1>s
<1>7. ASSUME NEW c \in Client, FinishPull(c)
      PROVE  AlignedInv'
  <2>1. PICK built \in BOOLEAN, t \in Tree : Finished(c, built, t)
    BY <1>7, <1>t, FinishPullFine
  <2>2. OwnStep(c)
    BY <1>7, <1>t, FinishPullFine DEF Fine
  <2>3. CASE ~ (init[c] /\ built)
    <3>1. pull'[c].tree = NoTree /\ (pc'[c] = "loop" => init'[c] = FALSE)
      <4>1. init[c] \in BOOLEAN
        BY <1>t DEF TypeOK
      <4>. QED  BY <4>1, <2>1, <2>3, Constants DEF Finished
    <3>2. pc'[c] \in {"push", "loop"}
      BY <2>1 DEF Finished
    <3>3. AlignedOK(c)'
      BY <3>1, <3>2 DEF AlignedOK
    <3>. QED  BY <3>3, <2>2, <1>s
  <2>4. CASE init[c] /\ built
    <3>1. /\ pc'[c] = "push" /\ pushing'[c] = Remaining(c) /\ pull'[c].tree = pull[c].tree
          /\ pull'[c].gone = pull[c].gone /\ pc[c] = "pull" /\ pull[c].changed = {}
      BY <2>1, <2>4 DEF Finished
    <3>2. ASSUME pull[c].tree # NoTree, NEW p \in Entries(pull[c].tree)
          PROVE  p \in Entries(Remaining(c)) \cup pull[c].gone
      <4>1. p \in Path /\ p \notin pull[c].removed /\ (dir[c][p] # None \/ p \in pull[c].gone)
        BY <3>1, <3>2, <2>4, <1>h DEF AlignedOK, Entries
      <4>. QED  BY <4>1 DEF Remaining, Entries
    <3>3. AlignedOK(c)'
      BY <3>1, <3>2 DEF AlignedOK, Entries
    <3>. QED  BY <3>3, <2>2, <1>s
  <2>. QED  BY <2>3, <2>4
<1>8. ASSUME NEW c \in Client, Watch(c)
      PROVE  AlignedInv'
  <2>1. OwnStep(c) /\ pc'[c] = "push" /\ pull' = pull /\ pull[c].tree = NoTree
    BY <1>8, <1>t, <1>h, WatchFine DEF Fine, AlignedOK
  <2>2. AlignedOK(c)'
    BY <2>1 DEF AlignedOK
  <2>. QED  BY <2>1, <2>2, <1>s
<1>9. ASSUME NEW c \in Client, NEW p \in Path, PushRead(c, p) \/ PushDenied(c, p) \/ PushLocked(c, p)
      PROVE  AlignedInv'
  <2>1. /\ OwnStep(c) /\ pc[c] = "push" /\ pc'[c] \in {"push", "fill", "upload"}
        /\ UNCHANGED <<pushing, pull>>
    BY <1>9, <1>t, PushReadFine, PushPassFine DEF Fine, ReadFor, Passed
  <2>2. AlignedOK(c)'
    BY <2>1, <1>h DEF AlignedOK, Entries
  <2>. QED  BY <2>1, <2>2, <1>s
<1>10. ASSUME NEW c \in Client, PushUpload(c)
       PROVE  AlignedInv'
  <2>1. Uploaded(c) /\ OwnStep(c)
    BY <1>10, <1>t, PushUploadFine DEF Fine
  <2>2. AlignedOK(c)'
    BY <2>1, <1>h DEF Uploaded, AlignedOK, Entries
  <2>. QED  BY <2>1, <2>2, <1>s
<1>11. ASSUME NEW c \in Client, PushRefused(c) \/ SaveTree(c) \/ SaveLatest(c)
       PROVE  AlignedInv'
  <2>1. /\ OwnStep(c)
        /\ \/ pc[c] \in {"push", "upload"} /\ pc'[c] \in {"push", "save"} /\ UNCHANGED <<pushing, pull>>
           \/ pc'[c] = "loop" /\ init'[c] = FALSE /\ pull'[c] = NoDiff
    BY <1>11, <1>t, MoveFine DEF Fine
  <2>2. AlignedOK(c)'
    BY <2>1, <1>h, Constants DEF AlignedOK, Entries
  <2>. QED  BY <2>1, <2>2, <1>s
<1>12. ASSUME NEW c \in Client, Stop(c) \/ \E p \in Path : PushUnreadable(c, p)
       PROVE  AlignedInv'
  <2>1. Stopped(c) /\ OwnStep(c)
    BY <1>12, <1>t, StopFine DEF Fine
  <2>2. AlignedOK(c)'
    BY <2>1, Constants DEF Stopped, AlignedOK
  <2>. QED  BY <2>1, <2>2, <1>s
<1>13. ASSUME NEW c \in Client, NEW p \in Path, Edit(c, p)
       PROVE  AlignedInv'
  <2>1. Edited(c, p) /\ OwnStep(c)
    BY <1>13, <1>t, EditFine DEF Fine
  <2>2. \A q \in Path : init[c] /\ dir'[c][q] = None => dir[c][q] = None \/ q \in pull'[c].gone
    BY <2>1 DEF Edited
  <2>3. /\ UNCHANGED <<pc, init, pushing>> /\ pull'[c].tree = pull[c].tree
        /\ pull'[c].changed = pull[c].changed
        /\ pull'[c].removed = pull[c].removed /\ pull[c].gone \subseteq pull'[c].gone
    BY <2>1 DEF Edited
  <2>4. AlignedOK(c)'
    BY <2>2, <2>3, <1>h DEF AlignedOK, Entries, IsFirst
  <2>. QED  BY <2>1, <2>4, <1>s
<1>14. ASSUME \/ \E c \in Client : WatchNothing(c)
              \/ (\E p \in Path : Expire(p)) \/ (\E c \in Client : PollNothing(c)) \/ UNCHANGED vars
       PROVE  AlignedInv'
  <2>1. UNCHANGED <<pc, init, dir, pushing, pull>>
    BY <1>14, <1>t, ExpireFine, WatchNothingFine
  <2>2. \A c \in Client : AlignedOK(c)'
    BY <2>1, <1>h DEF AlignedOK, Entries, IsFirst
  <2>. QED  BY <2>2, <1>t DEF AlignedInv
<1>. QED
  BY <1>1, <1>2, <1>3, <1>4, <1>5, <1>6, <1>7, <1>8, <1>9, <1>10, <1>11, <1>12, <1>13, <1>14, Cases

\* The first push of a client has every file of the tree that the server answered with,
\* whatever other clients, users, leases, failures and stops do.
THEOREM FirstPushComplete == Spec => []FirstPushKeepsPulled
<1>1. AlignedInv => FirstPushKeepsPulled
  BY DEF AlignedInv, AlignedOK, FirstPushKeepsPulled
<1>. QED  BY <1>1, InitAligned, AlignedStep, PTL DEF Spec
-----------------------------------------------------------------------------
(* Files that wait to be pushed *)

\* Some tree that was published has a file with content x.
Published(x) == \E t \in archive : \E p \in Path : t[p] = x

\* What client c has in its directory and owes to its user is published, or is in the tree
\* that it pushes, or an event will make it push.
SentOK(c) ==
    /\ pc[c] = "loop" => init[c] = FALSE
    /\ pc[c] = "save" => pushing[c] \in archive
    /\ \A x \in Unsent(c) \ unseen :
          /\ pc[c] \in {"push", "fill", "upload", "save"} =>
                \/ Published(x) \/ \E p \in Path : pushing[c][p] = x
                \/ init[c] = FALSE /\ events[c] > 0
          /\ pc[c] \in {"loop", "pull", "create", "write", "cache", "keep"} /\ init[c] = FALSE =>
                Published(x) \/ events[c] > 0

SentInv == CasInv /\ \A c \in Client : SentOK(c)

\* Nobody runs at the start.
LEMMA InitSent == Init => SentInv
<1> SUFFICES ASSUME Init PROVE SentInv
  OBVIOUS
<1>1. CasInv
  BY InitCas
<1>. QED  BY <1>1 DEF Init, SentInv, SentOK

\* An event is in the queue after a change that the watcher sees.
LEMMA NotifiedPositive ==
    ASSUME TypeOK, NEW c \in Client, init[c] = FALSE
    PROVE  Notified(c) > 0
  BY SyncAssumption DEF TypeOK, Notified

\* Every step keeps the files in line.
LEMMA SentStep == SentInv /\ [Next]_vars => SentInv'
<1> SUFFICES ASSUME SentInv, [Next]_vars PROVE SentInv'
  OBVIOUS
<1>t. CasInv' /\ SyncOK /\ TypeOK /\ NothingTaken /\ None \notin Content
  BY CasStep, ObjectsStay, Constants DEF SentInv, CasInv, SyncOK
<1>h. \A c \in Client : SentOK(c)
  BY DEF SentInv
<1>i. \A c \in Client : init[c] \in BOOLEAN
  BY <1>t DEF TypeOK
<1>p. \A x : Published(x) => Published(x)'
  BY <1>t DEF Published, NothingTaken
<1>n. unseen \subseteq unseen' /\ archive \subseteq archive'
  BY <1>t DEF NothingTaken
\* It is enough to look at the client that steps.
<1>s. ASSUME NEW c \in Client, OwnStep(c), SentOK(c)' PROVE SentInv'
  <2>1. ASSUME NEW d \in Client \ {c} PROVE SentOK(d)'
    <3>1. /\ pc'[d] = pc[d] /\ init'[d] = init[d] /\ pushing'[d] = pushing[d] /\ events'[d] = events[d]
          /\ Unsent(d)' = Unsent(d)
      BY <1>s DEF OwnStep, Unsent
    <3>. QED  BY <3>1, <1>h, <1>n, <1>p DEF SentOK
  <2>. QED  BY <2>1, <1>s, <1>t DEF SentInv
\* A client that moves on within the pull or the push keeps them.
<1>u. ASSUME NEW c \in Client, OwnStep(c), UNCHANGED <<dir, owed>>,
             init'[c] = init[c], events'[c] = events[c],
             \/ /\ pc[c] \in {"loop", "pull", "create", "write", "cache", "keep"}
                /\ pc'[c] \in {"pull", "create", "write", "cache", "keep"}
             \/ /\ pc[c] \in {"push", "fill", "upload"}
                /\ pc'[c] \in {"push", "fill", "upload"} /\ pushing'[c] = pushing[c]
      PROVE  SentInv'
  <2>1. Unsent(c)' = Unsent(c)
    BY <1>u DEF Unsent
  <2>2. SentOK(c)'
    BY <2>1, <1>u, <1>h, <1>n, <1>p DEF SentOK
  <2>. QED  BY <2>2, <1>u, <1>s
\* A client that pushes its directory as it is has everything in line.
<1>d. ASSUME NEW c \in Client, OwnStep(c), pc'[c] = "push", pushing'[c] = dir'[c]
      PROVE  SentInv'
  <2>1. SentOK(c)'
    BY <1>d DEF SentOK, Unsent
  <2>. QED  BY <2>1, <1>d, <1>s
<1>1. ASSUME NEW c \in Client, Start(c)
      PROVE  SentInv'
  <2>1. /\ OwnStep(c) /\ init'[c] = TRUE /\ dir' = dir
        /\ pc'[c] = "pull" \/ (pc'[c] = "push" /\ pushing'[c] = dir[c])
    BY <1>1, <1>t, StartFine DEF Fine
  <2>2. CASE pc'[c] = "pull"
    <3>1. SentOK(c)'
      BY <2>1, <2>2 DEF SentOK
    <3>. QED  BY <3>1, <2>1, <1>s
  <2>. QED  BY <2>1, <2>2, <1>d
<1>2. ASSUME NEW c \in Client, Poll(c) \/ FillObject(c)
      PROVE  SentInv'
  BY <1>2, <1>t, <1>u, PollFine, FillObjectFine DEF Fine, Filled
<1>3. ASSUME NEW c \in Client, NEW p \in Path, PullCompare(c, p) \/ PullCache(c, p) \/ PullMiss(c, p)
      PROVE  SentInv'
  BY <1>3, <1>t, <1>u, PullCompareFine, PullCacheFine, PullMissFine DEF Fine, Compared, Caching
<1>4. ASSUME NEW c \in Client, NEW p \in Path, PullCreate(c, p) \/ PullWrite(c, p)
      PROVE  SentInv'
  <2>1. OwnStep(c) /\ init' = init /\ events'[c] = Notified(c) /\ pc'[c] \in {"write", "cache"}
    BY <1>4, <1>t, PullWriteFine DEF Fine, Wrote
  <2>2. SentOK(c)'
    BY <2>1, <1>t, NotifiedPositive DEF SentOK
  <2>. QED  BY <2>1, <2>2, <1>s
<1>5. ASSUME NEW c \in Client, FinishPull(c)
      PROVE  SentInv'
  <2>1. PICK built \in BOOLEAN, t \in Tree : Finished(c, built, t)
    BY <1>5, <1>t, FinishPullFine
  <2>2. OwnStep(c) /\ dir'[c] = Remaining(c) /\ owed' = owed /\ init' = init
    BY <1>5, <2>1, <1>t, FinishPullFine DEF Fine, Finished
  <2>3. owed[c] \subseteq Content
    BY <1>t DEF TypeOK
  <2>4. Unsent(c)' \subseteq Unsent(c)
    BY <2>2, <2>3, <1>t DEF Unsent, Remaining
  <2>5. CASE init[c] /\ built
    <3>1. pc'[c] = "push" /\ pushing'[c] = dir'[c]
      BY <2>1, <2>5 DEF Finished
    <3>. QED  BY <3>1, <2>2, <1>d
  <2>6. CASE init[c] /\ ~ built
    <3>1. unseen' = unseen \cup Unsent(c) /\ pc'[c] = "push"
      BY <2>1, <2>6 DEF Finished
    <3>2. SentOK(c)'
      BY <3>1, <2>4 DEF SentOK
    <3>. QED  BY <3>2, <2>2, <1>s
  <2>7. CASE init[c] = FALSE
    <3>1. /\ pc[c] = "pull" /\ pc'[c] = "loop" /\ unseen' = unseen
          /\ events'[c] = events[c] \/ events'[c] = Notified(c)
      BY <2>1, <2>7 DEF Finished
    <3>2. events[c] > 0 => events'[c] > 0
      BY <3>1, <2>7, <1>t, NotifiedPositive
    <3>3. SentOK(c)'
      BY <3>1, <3>2, <2>2, <2>4, <2>7, <1>h, <1>p DEF SentOK
    <3>. QED  BY <3>3, <2>2, <1>s
  <2>. QED  BY <2>5, <2>6, <2>7, <1>i
<1>6. ASSUME NEW c \in Client, Watch(c)
      PROVE  SentInv'
  BY <1>6, <1>t, <1>d, WatchFine DEF Fine
<1>7. ASSUME NEW c \in Client, WatchNothing(c)
      PROVE  SentInv'
  <2>1. OwnStep(c) /\ UNCHANGED <<pc, init, dir, owed>> /\ pc[c] = "loop" /\ unseen' = unseen \cup Unsent(c)
    BY <1>7, <1>t, WatchNothingFine DEF Fine
  <2>2. Unsent(c)' = Unsent(c)
    BY <2>1 DEF Unsent
  <2>3. SentOK(c)'
    BY <2>1, <2>2, <1>h DEF SentOK
  <2>. QED  BY <2>1, <2>3, <1>s
<1>8. ASSUME NEW c \in Client, NEW p \in Path, PushRead(c, p) \/ PushDenied(c, p) \/ PushLocked(c, p)
      PROVE  SentInv'
  BY <1>8, <1>t, <1>u, PushReadFine, PushPassFine DEF Fine, ReadFor, Passed
<1>9. ASSUME NEW c \in Client, PushUpload(c)
      PROVE  SentInv'
  BY <1>9, <1>t, <1>u, PushUploadFine DEF Fine, Uploaded
<1>10. ASSUME NEW c \in Client, PushRefused(c) \/ SaveTree(c) \/ SaveLatest(c)
       PROVE  SentInv'
  <2>1. OwnStep(c) /\ UNCHANGED <<dir, owed, unseen, events>> /\ Unsent(c)' = Unsent(c)
    BY <1>10, <1>t, MoveFine DEF Fine, Unsent
  <2>2. CASE pc[c] = "upload" /\ pc'[c] = "push" /\ UNCHANGED <<init, pushing>>
    BY <2>1, <2>2, <1>u
  <2>3. CASE pc[c] = "push" /\ pc'[c] = "save" /\ pushing[c] \in archive' /\ UNCHANGED <<init, pushing>>
    <3>1. SentOK(c)'
      BY <2>1, <2>3, <1>h, <1>p DEF SentOK
    <3>. QED  BY <3>1, <2>1, <1>s
  <2>4. CASE pc[c] = "save" /\ pc'[c] = "loop" /\ init'[c] = FALSE /\ archive' = archive
    <3>1. pushing[c] \in archive'
      BY <2>4, <1>h DEF SentOK
    <3>2. \A x \in Unsent(c) \ unseen : Published(x)' \/ events[c] > 0
      BY <2>4, <3>1, <1>h, <1>p DEF SentOK, Published
    <3>3. SentOK(c)'
      BY <2>1, <2>4, <3>2 DEF SentOK
    <3>. QED  BY <3>3, <2>1, <1>s
  <2>. QED  BY <1>10, <1>t, <2>2, <2>3, <2>4, MoveFine
<1>11. ASSUME NEW c \in Client, Stop(c) \/ \E p \in Path : PushUnreadable(c, p)
       PROVE  SentInv'
  <2>1. OwnStep(c) /\ pc'[c] = "off"
    BY <1>11, <1>t, StopFine DEF Fine, Stopped
  <2>2. SentOK(c)'
    BY <2>1 DEF SentOK
  <2>. QED  BY <2>1, <2>2, <1>s
<1>12. ASSUME NEW c \in Client, NEW p \in Path, Edit(c, p)
       PROVE  SentInv'
  <2>1. Edited(c, p) /\ OwnStep(c)
    BY <1>12, <1>t, EditFine DEF Fine
  <2>2. UNCHANGED <<pc, init, pushing, archive>> /\ (pc[c] # "off" => events'[c] = Notified(c))
    BY <2>1 DEF Edited
  <2>3. CASE init[c] = FALSE
    <3>1. SentOK(c)'
      BY <2>2, <2>3, <1>t, <1>h, NotifiedPositive DEF SentOK
    <3>. QED  BY <3>1, <2>1, <1>s
  <2>4. CASE init[c] = TRUE
    <3>1. ASSUME NEW x \in Unsent(c)' \ unseen'
          PROVE  x \in Unsent(c) \ unseen
      <4>1. /\ x \in owed'[c] /\ x \notin unseen' /\ owed[c] \subseteq Content
            /\ \E q \in Path : dir'[c][q] = x
        BY <1>t DEF Unsent, TypeOK
      <4>2. x # None
        BY <4>1, <2>1, <1>t DEF Edited
      <4>3. x # dir'[c][p]
        BY <4>1, <4>2, <2>1, <2>4 DEF Edited
      <4>4. x \in owed[c] /\ \E q \in Path : dir[c][q] = x
        BY <4>1, <4>3, <2>1 DEF Edited
      <4>. QED  BY <4>1, <4>4, <1>n DEF Unsent
    <3>2. SentOK(c)'
      BY <2>2, <2>4, <3>1, <1>h, <1>p DEF SentOK
    <3>. QED  BY <3>2, <2>1, <1>s
  <2>. QED  BY <2>3, <2>4, <1>i
<1>13. ASSUME (\E p \in Path : Expire(p)) \/ (\E c \in Client : PollNothing(c)) \/ UNCHANGED vars
       PROVE  SentInv'
  <2>1. UNCHANGED <<archive, pc, init, dir, pushing, events, owed, unseen>>
    BY <1>13, <1>t, ExpireFine
  <2>2. \A c \in Client : SentOK(c)'
    BY <2>1, <1>h DEF SentOK, Unsent, Published
  <2>. QED  BY <2>2, <1>t DEF SentInv
<1>. QED
  BY <1>1, <1>2, <1>3, <1>4, <1>5, <1>6, <1>7, <1>8, <1>9, <1>10, <1>11, <1>12, <1>13, Cases

\* A client that waits in its loop with no event to handle has published what its user
\* saved there, except what was saved before the watcher ran or when a tree could not be
\* built, for any length of the queue and whatever happens at the same time.
THEOREM NoneForgotten == Spec => []NothingForgotten
<1>1. ASSUME SentInv, NEW c \in Client, pc[c] = "loop", events[c] = 0, NEW x \in Unsent(c) \ unseen
      PROVE  \E t \in archive : x \in {t[p] : p \in Path}
  <2>1. Published(x)
    BY <1>1 DEF SentInv, SentOK
  <2>. QED  BY <2>1 DEF Published
<1>2. SentInv => NothingForgotten
  BY <1>1 DEF NothingForgotten
<1>. QED  BY <1>2, InitSent, SentStep, PTL DEF Spec
=============================================================================
