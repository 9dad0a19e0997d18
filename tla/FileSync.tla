------------------------------- MODULE FileSync -------------------------------
(***************************************************************************)
(* Synchronisation of the shared directory of one user domain: fs_mode,    *)
(* sync_push and the helpers of yggd (nsmt-client main.rs and fs.rs)       *)
(* against the FileTree, FileDiff, FileGet, FilePut and Lock handlers of   *)
(* the server (session.rs, ServerFs in nsmt-server fs.rs).                 *)
(*                                                                         *)
(* A tree maps every path to the blob id of its file, or None; its hash is *)
(* injective, so a tree stands for its own hash. The blob id of a content  *)
(* is that content. Object stores map a blob id to the bytes kept under    *)
(* it, which are not checked when they are stored, served or fetched. A    *)
(* client creates a file or an object empty and then fills it; content 0   *)
(* stands for what no user wrote: an empty, a cut off or a mixed up file.  *)
(* A client sends one request at a time and waits for the answer, so a     *)
(* request and its handling by the server are one step; what the client    *)
(* does between two requests interleaves with the other clients and with   *)
(* the user. Uploads are one step here: ObjectUpload has their detail.     *)
(***************************************************************************)
EXTENDS Naturals, FiniteSets

CONSTANTS
    Client,       \* the running yggd processes, one share directory each
    Path,         \* the file names, as numbers in the order of the names
    None,         \* no file, no entry, no object, no lock holder
    NoTree,       \* latest.json is missing or does not parse
    MaxEdits,     \* bound: number of edits by users; edit n writes content n
    MaxEvents,    \* bound: length of the watcher's queue
    Overlap,      \* TRUE: clients run at the same time
    EditAnytime,  \* TRUE: users also edit while their client synchronises
    StopAt,       \* the points of fs_mode at which a client may be stopped
    Faults,       \* what may fail: the copy of a conflicting file, the first
                  \* diff, the building of a tree, an upload (quota_exceeded)
    MaxFaults     \* bound: number of stops and failures

ASSUME SyncAssumption ==
    /\ Path \subseteq Nat
    /\ MaxEdits \in Nat
    /\ MaxFaults \in Nat
    /\ MaxEvents \in Nat \ {0}
    /\ {Overlap, EditAnytime} \subseteq BOOLEAN
    /\ StopAt \subseteq {"pull", "create", "write", "cache", "keep",
                         "push", "fill", "upload", "loop"}
    /\ Faults \subseteq {"copy", "diff", "tree", "quota"}

Content == 0 .. MaxEdits
Tree == [Path -> Content \cup {None}]
Objects == [Content -> Content \cup {None}]
EmptyTree == [p \in Path |-> None]
NoObjects == [b \in Content |-> None]

\* A missing or broken latest.json is told apart from every tree, and no file from
\* every content.
ASSUME NoTreeAssumption == (\A t \in Tree : t # NoTree) /\ None \notin Content

VARIABLES
    \* the server
    store,    \* objects/<blob_id>
    archive,  \* trees/<tree_hash>.json
    latest,   \* trees/latest.json
    lock,     \* path -> holder of the lease
    \* each client
    pc,       \* where fs_mode stands
    init,     \* it is still in the initial alignment; no watcher yet
    dir,      \* the share directory
    copies,   \* contents kept in .sync-conflict files
    cache,    \* ~/.nsmt/objects
    local,    \* local_tree
    pushing,  \* the tree that sync_push works on
    todo,     \* its entries not yet pushed
    entry,    \* the entry whose lock was granted
    pull,     \* the FileDiffResult being applied
    held,     \* the bytes it has: of a file it has compared and kept, or for the cache
    writing,  \* the id of the object that it has created and not yet filled
    events,   \* length of the watcher's queue
    \* the users
    edits,    \* number of edits so far
    owed,     \* client -> contents saved there that no user replaced or deleted
    faults,   \* number of stops and failures so far
    \* histories: contents
    purged,   \* that the removal list of a pull deleted
    raced,    \* that a pull wrote over without a copy: saved after it had looked at
              \* the file, or not copied because the copy failed
    skewed,   \* whose objects may be wrong: the file changed before it was cached,
              \* or the client was stopped while it wrote the object
    unseen    \* saved before the watcher ran, or when a tree could not be built

serverVars == <<store, archive, latest, lock>>
syncVars == <<local, pushing, todo, entry, pull, held, writing>>
histories == <<purged, raced, skewed, unseen>>
userVars == <<edits, owed, histories>>
vars == <<serverVars, pc, init, dir, copies, cache, syncVars, events, userVars, faults>>

PC == {"off", "pull", "create", "write", "cache", "keep", "push", "fill", "upload", "save", "loop"}

\* A FileDiffResult; gone are the paths that the client could not get from the
\* server, or that its user deleted since.
Diff == [tree : Tree \cup {NoTree}, changed : SUBSET Path, removed : SUBSET Path,
         gone : SUBSET Path]
NoDiff == [tree |-> NoTree, changed |-> {}, removed |-> {}, gone |-> {}]

TypeOK ==
    /\ store \in Objects
    /\ archive \subseteq Tree
    /\ latest \in Tree \cup {NoTree}
    /\ lock \in [Path -> Client \cup {None}]
    /\ pc \in [Client -> PC]
    /\ init \in [Client -> BOOLEAN]
    /\ dir \in [Client -> Tree]
    /\ copies \in [Client -> SUBSET Content]
    /\ cache \in [Client -> Objects]
    /\ local \in [Client -> Tree]
    /\ pushing \in [Client -> Tree]
    /\ todo \in [Client -> SUBSET Path]
    /\ entry \in [Client -> Path \cup {None}]
    /\ pull \in [Client -> Diff]
    /\ held \in [Client -> Content \cup {None}]
    /\ writing \in [Client -> Content \cup {None}]
    /\ events \in [Client -> 0 .. MaxEvents]
    /\ edits \in 0 .. MaxEdits
    /\ faults \in 0 .. MaxFaults
    /\ owed \in [Client -> SUBSET Content]
    /\ purged \subseteq Content /\ raced \subseteq Content
    /\ skewed \subseteq Content /\ unseen \subseteq Content

Init ==
    /\ store = NoObjects
    /\ archive = {}
    /\ latest = NoTree
    /\ lock = [p \in Path |-> None]
    /\ pc = [c \in Client |-> "off"]
    /\ init = [c \in Client |-> FALSE]
    /\ dir = [c \in Client |-> EmptyTree]
    /\ copies = [c \in Client |-> {}]
    /\ cache = [c \in Client |-> NoObjects]
    /\ local = [c \in Client |-> EmptyTree]
    /\ pushing = [c \in Client |-> EmptyTree]
    /\ todo = [c \in Client |-> {}]
    /\ entry = [c \in Client |-> None]
    /\ pull = [c \in Client |-> NoDiff]
    /\ held = [c \in Client |-> None]
    /\ writing = [c \in Client |-> None]
    /\ events = [c \in Client |-> 0]
    /\ edits = 0
    /\ faults = 0
    /\ owed = [c \in Client |-> {}]
    /\ purged = {} /\ raced = {} /\ skewed = {} /\ unseen = {}

-----------------------------------------------------------------------------
(* The diff of the server *)

\* The paths of a tree.
Entries(t) == {p \in Path : t[p] # None}

\* The entries of a tree are sorted by path and handled in that order.
IsFirst(p, S) == p \in S /\ \A q \in S : p <= q

\* The tree named by a client's hash, if the server ever stored it: get_tree.
Known(t) == IF t \in archive THEN t ELSE EmptyTree

\* ServerFs::diff between the client's tree and the latest one. Entries with the
\* same blob count as changed when the mtimes differ, which two different stored
\* trees may or may not show (touched); without a latest tree all is removed.
DiffResult(t, touched) ==
    LET old == Known(t)
    IN  IF latest = NoTree
        THEN [NoDiff EXCEPT !.removed = Entries(old)]
        ELSE [tree |-> latest,
              changed |-> {p \in Entries(latest) : old[p] # latest[p] \/ p \in touched},
              removed |-> Entries(old) \ Entries(latest),
              gone |-> {}]

\* The paths whose mtimes may differ between the two trees that are compared.
MayBeTouched(t) == IF latest \in {NoTree, t} THEN {} ELSE Entries(latest) \cap Entries(Known(t))

-----------------------------------------------------------------------------
(* fs_mode: start, pull and the main loop *)

\* A change of the share directory, seen by the watcher once it runs.
Notified(c) == IF init[c] \/ events[c] = MaxEvents THEN events[c] ELSE events[c] + 1

\* What is in the share directory of c and owed to its user.
Unsent(c) == owed[c] \cap {dir[c][p] : p \in Path}

\* Something goes wrong that may.
Fails(what) ==
    /\ what \in Faults
    /\ faults < MaxFaults
    /\ faults' = faults + 1

\* sync_push starts on tree t.
StartPush(c, t) ==
    /\ pc' = [pc EXCEPT ![c] = "push"]
    /\ pushing' = [pushing EXCEPT ![c] = t]
    /\ todo' = [todo EXCEPT ![c] = Entries(t)]

\* yggd fs starts: it builds its tree and asks for the diff; without a latest tree
\* the answer is not applied. If the request fails, it goes on to the push.
Start(c) ==
    /\ pc[c] = "off"
    /\ Overlap \/ \A d \in Client : pc[d] = "off"
    /\ init' = [init EXCEPT ![c] = TRUE]
    /\ local' = [local EXCEPT ![c] = dir[c]]
    /\ \/ /\ \E touched \in SUBSET MayBeTouched(dir[c]) :
                pull' = [pull EXCEPT ![c] = IF latest = NoTree THEN NoDiff
                                            ELSE DiffResult(dir[c], touched)]
          /\ pc' = [pc EXCEPT ![c] = "pull"]
          /\ UNCHANGED <<pushing, todo, faults>>
       \/ Fails("diff") /\ StartPush(c, dir[c]) /\ UNCHANGED pull
    /\ UNCHANGED <<serverVars, dir, copies, cache, entry, held, writing, events, userVars>>

\* The five-second branch of the loop: ask for the diff, and apply it unless it
\* is empty.
Poll(c) ==
    /\ pc[c] = "loop"
    /\ \E touched \in SUBSET MayBeTouched(local[c]) :
          LET d == DiffResult(local[c], touched)
          IN  /\ d.changed \cup d.removed # {}
              /\ pull' = [pull EXCEPT ![c] = d]
    /\ pc' = [pc EXCEPT ![c] = "pull"]
    /\ UNCHANGED <<serverVars, init, dir, copies, cache, local, pushing, todo,
                   entry, held, writing, events, userVars, faults>>

\* The same branch when the diff is empty: nothing happens.
PollNothing(c) ==
    /\ pc[c] = "loop"
    /\ \E touched \in SUBSET MayBeTouched(local[c]) :
          LET d == DiffResult(local[c], touched) IN d.changed \cup d.removed = {}
    /\ UNCHANGED vars

\* A mutant of materialize_with_conflict that keeps no conflict copy.
NoCopy(c, p) == {}

\* A mutant of materialize_with_conflict that does not ask if there is a file.
AlwaysCopy(c, p) == {dir[c][p]} \ {pull[c].tree[p]}

\* materialize_with_conflict keeps the local file if it is not the remote blob.
ConflictCopy(c, p) == {dir[c][p]} \ {None, pull[c].tree[p]}

\* The object of a changed path is fetched; the local file is compared with it and
\* copied. An error of the copy is ignored.
PullCompare(c, p) ==
    /\ pc[c] = "pull"
    /\ IsFirst(p, pull[c].changed)
    /\ store[pull[c].tree[p]] # None
    /\ \/ /\ copies' = [copies EXCEPT ![c] = @ \cup ConflictCopy(c, p)]
          /\ held' = [held EXCEPT ![c] = dir[c][p]]
          /\ UNCHANGED faults
       \/ Fails("copy") /\ ConflictCopy(c, p) # {} /\ UNCHANGED <<copies, held>>
    /\ pc' = [pc EXCEPT ![c] = "create"]
    /\ UNCHANGED <<serverVars, init, dir, cache, local, pushing, todo, entry, pull, writing,
                   events, userVars>>

\* materialize: File::create empties the file, whatever it is by now.
PullCreate(c, p) ==
    /\ pc[c] = "create"
    /\ IsFirst(p, pull[c].changed)
    /\ dir' = [dir EXCEPT ![c][p] = 0]
    /\ raced' = raced \cup ((owed[c] \cap {dir[c][p]}) \ {held[c]})
    /\ held' = [held EXCEPT ![c] = None]
    /\ events' = [events EXCEPT ![c] = Notified(c)]
    /\ pc' = [pc EXCEPT ![c] = "write"]
    /\ UNCHANGED <<serverVars, init, copies, cache, local, pushing, todo, entry, pull, writing,
                   edits, owed, purged, skewed, unseen, faults>>

\* And write_all fills it. If the user deleted the file meanwhile, or saved another in
\* its place, that stays; one written to the same file is overwritten or mixed up.
PullWrite(c, p) ==
    /\ pc[c] = "write"
    /\ IsFirst(p, pull[c].changed)
    /\ \E x \in CASE dir[c][p] = 0    -> {store[pull[c].tree[p]]}
                  [] dir[c][p] = None -> {None}
                  [] OTHER            -> {dir[c][p], store[pull[c].tree[p]], 0} :
          /\ dir' = [dir EXCEPT ![c][p] = x]
          /\ raced' = raced \cup ((owed[c] \cap {dir[c][p]}) \ {x})
    /\ events' = [events EXCEPT ![c] = Notified(c)]
    /\ pc' = [pc EXCEPT ![c] = "cache"]
    /\ UNCHANGED <<serverVars, init, copies, cache, syncVars, edits, owed, purged, skewed,
                   unseen, faults>>

\* A mutant of the pull that caches the local file.
PullCacheFile(c, p) ==
    LET b == pull[c].tree[p] IN
    /\ pc[c] = "cache"
    /\ IsFirst(p, pull[c].changed)
    /\ IF cache[c][b] # None
       THEN pc' = [pc EXCEPT ![c] = "pull"] /\ UNCHANGED <<cache, held, writing>>
       ELSE /\ cache' = [cache EXCEPT ![c][b] = 0]
            /\ held' = [held EXCEPT ![c] = dir[c][p]]
            /\ writing' = [writing EXCEPT ![c] = b]
            /\ pc' = [pc EXCEPT ![c] = "keep"]
    /\ pull' = [pull EXCEPT ![c].changed = @ \ {p}]
    /\ UNCHANGED <<serverVars, init, dir, copies, local, pushing, todo, entry, events,
                   userVars, faults>>

\* ensure_object_local: the bytes also go to the cache unless there are some already;
\* the object is created first.
PullCache(c, p) ==
    LET b == pull[c].tree[p] IN
    /\ pc[c] = "cache"
    /\ IsFirst(p, pull[c].changed)
    /\ IF cache[c][b] # None
       THEN pc' = [pc EXCEPT ![c] = "pull"] /\ UNCHANGED <<cache, held, writing>>
       ELSE /\ cache' = [cache EXCEPT ![c][b] = 0]
            /\ held' = [held EXCEPT ![c] = store[b]]
            /\ writing' = [writing EXCEPT ![c] = b]
            /\ pc' = [pc EXCEPT ![c] = "keep"]
    /\ pull' = [pull EXCEPT ![c].changed = @ \ {p}]
    /\ UNCHANGED <<serverVars, init, dir, copies, local, pushing, todo, entry, events,
                   userVars, faults>>

\* The object that the pull or the push has created is filled.
FillObject(c) ==
    /\ pc[c] \in {"keep", "fill"}
    /\ cache' = [cache EXCEPT ![c][writing[c]] = held[c]]
    /\ held' = [held EXCEPT ![c] = None]
    /\ writing' = [writing EXCEPT ![c] = None]
    /\ pc' = [pc EXCEPT ![c] = IF @ = "keep" THEN "pull" ELSE "push"]
    /\ UNCHANGED <<serverVars, init, dir, copies, local, pushing, todo, entry, pull, events,
                   userVars, faults>>

\* The server has no such object: the path is left as it is. (The peer hint is
\* no help: an owner is recorded only for an object that was stored.)
PullMiss(c, p) ==
    /\ pc[c] = "pull"
    /\ IsFirst(p, pull[c].changed)
    /\ store[pull[c].tree[p]] = None
    /\ pull' = [pull EXCEPT ![c].changed = @ \ {p}, ![c].gone = @ \cup {p}]
    /\ UNCHANGED <<serverVars, pc, init, dir, copies, cache, local, pushing, todo,
                   entry, held, writing, events, userVars, faults>>

\* What a pull leaves in the share directory when it has deleted the removed paths.
Remaining(c) == [p \in Path |-> IF p \in pull[c].removed THEN None ELSE dir[c][p]]

\* A mutant of the end of a pull that drops the events of its own changes.
FinishPullDraining(c) ==
    /\ pc[c] = "pull"
    /\ pull[c].changed = {}
    /\ dir' = [dir EXCEPT ![c] = Remaining(c)]
    /\ events' = [events EXCEPT ![c] = 0]
    /\ local' = [local EXCEPT ![c] = Remaining(c)]
    /\ pull' = [pull EXCEPT ![c] = IF init[c] THEN [@ EXCEPT !.removed = {}] ELSE NoDiff]
    /\ IF init[c]
       THEN StartPush(c, Remaining(c))
       ELSE pc' = [pc EXCEPT ![c] = "loop"] /\ UNCHANGED <<pushing, todo>>
    /\ purged' = purged \cup (owed[c] \cap {dir[c][p] : p \in pull[c].removed})
    /\ UNCHANGED <<serverVars, init, copies, cache, entry, held, writing, edits, owed, raced,
                   skewed, unseen, faults>>

\* A mutant of the end of a pull that pushes the tree built before it.
FinishPullStale(c) ==
    /\ pc[c] = "pull"
    /\ pull[c].changed = {}
    /\ dir' = [dir EXCEPT ![c] = Remaining(c)]
    /\ events' = [events EXCEPT ![c] = IF Remaining(c) = dir[c] THEN @ ELSE Notified(c)]
    /\ pull' = [pull EXCEPT ![c] = IF init[c] THEN [@ EXCEPT !.removed = {}] ELSE NoDiff]
    /\ IF init[c]
       THEN StartPush(c, local[c])
       ELSE pc' = [pc EXCEPT ![c] = "loop"] /\ UNCHANGED <<pushing, todo>>
    /\ purged' = purged \cup (owed[c] \cap {dir[c][p] : p \in pull[c].removed})
    /\ UNCHANGED <<serverVars, init, copies, cache, local, entry, held, writing, edits, owed,
                   raced, skewed, unseen, faults>>

\* The removed paths are deleted, whatever they hold now, and the tree is built
\* again; if that fails, the old one is kept. The initial alignment then pushes it;
\* the loop waits.
FinishPull(c) ==
    /\ pc[c] = "pull"
    /\ pull[c].changed = {}
    /\ dir' = [dir EXCEPT ![c] = Remaining(c)]
    /\ events' = [events EXCEPT ![c] = IF Remaining(c) = dir[c] THEN @ ELSE Notified(c)]
    /\ \E built \in BOOLEAN :
          LET tree == IF built THEN Remaining(c) ELSE local[c] IN
          /\ IF built THEN UNCHANGED faults ELSE Fails("tree")
          /\ local' = [local EXCEPT ![c] = tree]
          /\ IF init[c]
             THEN StartPush(c, tree)
             ELSE pc' = [pc EXCEPT ![c] = "loop"] /\ UNCHANGED <<pushing, todo>>
          /\ pull' = [pull EXCEPT ![c] = IF init[c] /\ built THEN [@ EXCEPT !.removed = {}]
                                         ELSE NoDiff]
          /\ unseen' = IF init[c] /\ ~ built THEN unseen \cup Unsent(c) ELSE unseen
    /\ purged' = purged \cup (owed[c] \cap {dir[c][p] : p \in pull[c].removed})
    /\ UNCHANGED <<serverVars, init, copies, cache, entry, held, writing, edits, owed,
                   raced, skewed>>

\* The watcher's branch of the loop: build the tree and push it.
Watch(c) ==
    /\ pc[c] = "loop"
    /\ events[c] > 0
    /\ events' = [events EXCEPT ![c] = @ - 1]
    /\ StartPush(c, dir[c])
    /\ UNCHANGED <<serverVars, init, dir, copies, cache, local, entry, pull, held, writing,
                   userVars, faults>>

\* The same branch when the tree cannot be built: the event is gone.
WatchNothing(c) ==
    /\ Fails("tree")
    /\ pc[c] = "loop"
    /\ events[c] > 0
    /\ events' = [events EXCEPT ![c] = @ - 1]
    /\ unseen' = unseen \cup Unsent(c)
    /\ UNCHANGED <<serverVars, pc, init, dir, copies, cache, syncVars, edits, owed, purged,
                   raced, skewed>>

-----------------------------------------------------------------------------
(* sync_push *)

\* The entry is not in the cache: its file is read NOW, and an object is created
\* under the blob id computed when the tree was built.
PushRead(c, p) ==
    LET b == pushing[c][p] IN
    /\ pc[c] = "push"
    /\ IsFirst(p, todo[c])
    /\ cache[c][b] = None
    /\ dir[c][p] # None
    /\ cache' = [cache EXCEPT ![c][b] = 0]
    /\ held' = [held EXCEPT ![c] = dir[c][p]]
    /\ writing' = [writing EXCEPT ![c] = b]
    /\ skewed' = IF dir[c][p] # b THEN skewed \cup {b} ELSE skewed
    /\ pc' = [pc EXCEPT ![c] = "fill"]
    /\ UNCHANGED <<serverVars, init, dir, copies, local, pushing, todo, entry, pull, events,
                   edits, owed, purged, raced, unseen, faults>>

\* fs_mode has ended, and what the process had in memory is gone.
Ended(c) ==
    /\ pc' = [pc EXCEPT ![c] = "off"]
    /\ init' = [init EXCEPT ![c] = FALSE]
    /\ local' = [local EXCEPT ![c] = EmptyTree]
    /\ pushing' = [pushing EXCEPT ![c] = EmptyTree]
    /\ todo' = [todo EXCEPT ![c] = {}]
    /\ entry' = [entry EXCEPT ![c] = None]
    /\ pull' = [pull EXCEPT ![c] = NoDiff]
    /\ held' = [held EXCEPT ![c] = None]
    /\ writing' = [writing EXCEPT ![c] = None]
    /\ events' = [events EXCEPT ![c] = 0]
    /\ UNCHANGED <<serverVars, dir, copies, cache, edits, owed, purged, raced, unseen>>

\* The entry's file is needed and gone: the error ends fs_mode.
PushUnreadable(c, p) ==
    /\ pc[c] = "push"
    /\ IsFirst(p, todo[c])
    /\ cache[c][pushing[c][p]] = None
    /\ dir[c][p] = None
    /\ Ended(c)
    /\ UNCHANGED <<skewed, faults>>

\* A mutant of the push of an entry that does not fill the object cache.
PushDeniedUncached(c, p) ==
    /\ pc[c] = "push"
    /\ IsFirst(p, todo[c])
    /\ lock[p] \notin {None, c}
    /\ todo' = [todo EXCEPT ![c] = @ \ {p}]
    /\ UNCHANGED <<serverVars, pc, init, dir, copies, cache, local, pushing, entry, pull,
                   held, writing, events, userVars, faults>>

\* LockDenied: the entry is skipped and the push goes on.
PushDenied(c, p) ==
    /\ pc[c] = "push"
    /\ IsFirst(p, todo[c])
    /\ cache[c][pushing[c][p]] # None
    /\ lock[p] \notin {None, c}
    /\ todo' = [todo EXCEPT ![c] = @ \ {p}]
    /\ UNCHANGED <<serverVars, pc, init, dir, copies, cache, local, pushing, entry, pull,
                   held, writing, events, userVars, faults>>

\* LockGranted: the upload of the entry starts.
PushLocked(c, p) ==
    /\ pc[c] = "push"
    /\ IsFirst(p, todo[c])
    /\ cache[c][pushing[c][p]] # None
    /\ lock[p] \in {None, c}
    /\ lock' = [lock EXCEPT ![p] = c]
    /\ pc' = [pc EXCEPT ![c] = "upload"]
    /\ todo' = [todo EXCEPT ![c] = @ \ {p}]
    /\ entry' = [entry EXCEPT ![c] = p]
    /\ UNCHANGED <<store, archive, latest, init, dir, copies, cache, local, pushing, pull,
                   held, writing, events, userVars, faults>>

\* FilePut and its chunks: the object is stored unless there is one, and the lock
\* is released, if it is still held.
PushUpload(c) ==
    LET b == pushing[c][entry[c]] IN
    /\ pc[c] = "upload"
    /\ store' = [store EXCEPT ![b] = IF @ = None THEN cache[c][b] ELSE @]
    /\ lock' = [lock EXCEPT ![entry[c]] = IF @ = c THEN None ELSE @]
    /\ pc' = [pc EXCEPT ![c] = "push"]
    /\ entry' = [entry EXCEPT ![c] = None]
    /\ UNCHANGED <<archive, latest, init, dir, copies, cache, local, pushing, todo,
                   pull, held, writing, events, userVars, faults>>

\* FilePut refused: push_entry returns without releasing the lock, and the push
\* goes on with the next entry.
PushRefused(c) ==
    /\ Fails("quota")
    /\ pc[c] = "upload"
    /\ pc' = [pc EXCEPT ![c] = "push"]
    /\ entry' = [entry EXCEPT ![c] = None]
    /\ UNCHANGED <<serverVars, init, dir, copies, cache, local, pushing, todo, pull,
                   held, writing, events, userVars>>

\* FileTree: save_tree archives the tree and opens latest.json, which truncates it.
SaveTree(c) ==
    /\ pc[c] = "push"
    /\ todo[c] = {}
    /\ archive' = archive \cup {pushing[c]}
    /\ latest' = NoTree
    /\ pc' = [pc EXCEPT ![c] = "save"]
    /\ UNCHANGED <<store, lock, init, dir, copies, cache, syncVars, events, userVars, faults>>

\* The text of tree s may be longer than that of t: not if s is t, nor if t has
\* all entries of s and more.
MayBeLonger(s, t) ==
    /\ s # t
    /\ ~ (Entries(s) \subseteq Entries(t) /\ Entries(s) # Entries(t))

\* save_tree writes latest.json from its start. If another session wrote its tree
\* since the file was truncated and that text is longer, the tail of it remains
\* and the file does not parse. The client is in its loop from here on.
SaveLatest(c) ==
    /\ pc[c] = "save"
    /\ \/ latest' = pushing[c]
       \/ latest # NoTree /\ MayBeLonger(latest, pushing[c]) /\ latest' = NoTree
    /\ pc' = [pc EXCEPT ![c] = "loop"]
    /\ init' = [init EXCEPT ![c] = FALSE]
    /\ local' = [local EXCEPT ![c] = pushing[c]]
    /\ pushing' = [pushing EXCEPT ![c] = EmptyTree]
    /\ pull' = [pull EXCEPT ![c] = NoDiff]
    /\ UNCHANGED <<store, archive, lock, dir, copies, cache, todo, entry, held, writing,
                   events, userVars, faults>>

-----------------------------------------------------------------------------
(* Leases, stops and users *)

\* A lease runs out, while its holder uploads or after it left it behind.
Expire(p) ==
    /\ lock[p] # None
    /\ lock' = [lock EXCEPT ![p] = None]
    /\ UNCHANGED <<store, archive, latest, pc, init, dir, copies, cache, syncVars,
                   events, userVars, faults>>

\* The client process is stopped, or a request of it fails; its files stay, and so does
\* an object that it has created and not filled. A tree it has sent is still saved.
Stop(c) ==
    /\ pc[c] \in StopAt
    /\ faults < MaxFaults
    /\ faults' = faults + 1
    /\ Ended(c)
    /\ skewed' = skewed \cup ({writing[c]} \ {None})

\* A user writes a new content to a file, or deletes it.
Edit(c, p) ==
    /\ edits < MaxEdits
    /\ EditAnytime \/ pc[c] \in {"off", "loop"}
    /\ edits' = edits + 1
    /\ \E x \in {edits + 1, None} \ {dir[c][p]} :
          /\ dir' = [dir EXCEPT ![c][p] = x]
          /\ owed' = [owed EXCEPT ![c] = (@ \ {dir[c][p]}) \cup ({x} \ {None})]
          /\ unseen' = IF init[c] THEN unseen \cup ({x} \ {None}) ELSE unseen
          /\ pull' = IF init[c] /\ x = None THEN [pull EXCEPT ![c].gone = @ \cup {p}] ELSE pull
    /\ events' = [events EXCEPT ![c] = IF pc[c] = "off" THEN @ ELSE Notified(c)]
    /\ UNCHANGED <<serverVars, pc, init, copies, cache, local, pushing, todo, entry, held,
                   writing, purged, raced, skewed, faults>>

\* What the client process c does on its own.
Step(c) ==
    \/ Poll(c)
    \/ PollNothing(c)
    \/ \E p \in Path : PullCompare(c, p)
    \/ \E p \in Path : PullCreate(c, p)
    \/ \E p \in Path : PullWrite(c, p)
    \/ \E p \in Path : PullCache(c, p)
    \/ \E p \in Path : PullMiss(c, p)
    \/ FillObject(c)
    \/ FinishPull(c)
    \/ Watch(c)
    \/ WatchNothing(c)
    \/ \E p \in Path : PushRead(c, p)
    \/ \E p \in Path : PushUnreadable(c, p)
    \/ \E p \in Path : PushDenied(c, p)
    \/ \E p \in Path : PushLocked(c, p)
    \/ PushUpload(c)
    \/ PushRefused(c)
    \/ SaveTree(c)
    \/ SaveLatest(c)

Next ==
    \/ \E c \in Client : Step(c)
    \/ \E c \in Client : Start(c)
    \/ \E c \in Client : Stop(c)
    \/ \E c \in Client, p \in Path : Edit(c, p)
    \/ \E p \in Path : Expire(p)

Spec == Init /\ [][Next]_vars

-----------------------------------------------------------------------------
(* Properties *)

\* Every object holds the content its blob id names, in the server's store and in
\* every client's cache, except while a client fills it, or if the file changed
\* between the moment its tree was built and the moment it was read for the cache,
\* or a client was stopped while it filled the object: no refused or skipped upload,
\* other stop, second client or file that is replaced by a pull puts a wrong object
\* there.
CasIntegrity ==
    \A b \in Content \ skewed :
        /\ store[b] \in {b, None}
        /\ \A c \in Client : writing[c] # b => cache[c][b] \in {b, None}

\* The content named by any tree that was ever published can still be had, from
\* the server or from the object cache of some client, although the tree is
\* published when uploads were skipped or refused. The exceptions are the same.
Recoverable ==
    \A t \in archive : \A p \in Entries(t) :
        \/ store[t[p]] = t[p]
        \/ \E c \in Client : cache[c][t[p]] = t[p]
        \/ t[p] \in skewed

\* Content x exists in a share directory, as a conflict copy or as an object.
Survives(x) ==
    \/ store[x] = x
    \/ \E d \in Client :
          x \in {dir[d][p] : p \in Path} \cup copies[d] \cup {cache[d][x]}

\* A content that a user saved and nobody replaced or deleted on purpose exists
\* somewhere: synchronisation loses no edit.
EditsSurvive == \A c \in Client : \A x \in owed[c] : Survives(x)

\* Synchronisation loses an edit only by the removal list of a pull, by a pull that
\* writes over what was saved after it had looked at the file or what it failed to
\* copy, or by an object that does not hold what its blob id names, which a pull
\* writes over the file with that id. No other overwrite, skipped or refused upload,
\* failed request, stop or restart does.
LostInKnownWays ==
    \A c \in Client : \A x \in owed[c] :
        Survives(x) \/ x \in purged \cup raced \cup skewed

\* The first push of a client that starts has every file of the tree the server
\* answered it with, whatever other clients do at the same time, except the files
\* whose objects the server did not have, those that the user deleted since, and all of
\* them if the tree could not be built after the pull.
FirstPushKeepsPulled ==
    \A c \in Client :
        pc[c] = "save" /\ pull[c].tree # NoTree
        => Entries(pull[c].tree) \subseteq Entries(pushing[c]) \cup pull[c].gone

\* A client that waits in its loop, with no event to handle, has published what its
\* user saved and has in the share directory, except what was saved before the
\* watcher ran, or when a tree could not be built: no pull, push or event at the same
\* time, nor the limit of the queue, makes it forget a file.
NothingForgotten ==
    \A c \in Client :
        pc[c] = "loop" /\ events[c] = 0
        => \A x \in Unsent(c) \ unseen : \E t \in archive : x \in {t[p] : p \in Path}
=============================================================================
