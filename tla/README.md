# nsmt: TLA+ models, model checking and proofs

nsmt connects the machines of a user. A server (`ygg`) keeps a table of who is
online, a pool of memories, a content-addressed store and the latest tree of a
shared directory; a daemon on each machine (`yggd`) keeps `~/nsmt_share` in line
with that tree; `ygg-admin` supervises the server. This directory models the
parts in which several actors share state, checks them with TLC on small
instances, and proves their safety properties with TLAPS for all instances.

Every definition is translated from the code; `PROJECT.json` ("map") names the
lines. Comments of properties say which behaviour of the code they are about.

## 1. Inventory

| Component | State | Operations | Interacts with |
|---|---|---|---|
| Lease locks (`nsmt-server/src/fs.rs`, `session.rs`) | path → holder, expiry; one write lock | acquire, renew, release; sweeper every 10 s; lost at restart | `push_entry` of every client |
| Object upload, store, quota (`session.rs`, `state.rs`, `nsmt-fs`) | `pending_upload` per session, `tmp/<blob>.part` per tenant, `objects/<blob>`, `usage_bytes` in memory | FilePut, FileChunk, completion, `put` | sessions of one tenant share part files, store and quota |
| Shared directory (`nsmt-client/src/main.rs`, `fs.rs`; trees in the server's `fs.rs`) | directory, local object cache and `local_tree` of each client; tree archive and `latest.json` of the server | initial pull and push, watcher, periodic pull, conflict copies, diff, save_tree | locks, uploads, the users who edit |
| Online registry (`registry.rs`, `session.rs`) | machine → last_seen, subscriber channels | register, subscribe, Join/Leave broadcasts, heartbeat, prune loop | every session; peer hints of FileGet |
| Supervisor (`nsmt-admin/src/main.rs`) | pid/child, restarts, backoff | spawn, wait, restart request, terminate | control API of ygg |
| Handshake and tenants (`session.rs`, `tenants.rs`) | tenant → domain key, machine keys; `tenants.json` | HELLO, AUTH, REGISTER, upsert, persist, reload | control API, CLI |
| Memory pool (`memory.rs`, `nsmt-memory`) | shards | capture to one shard, recall from all with a timeout | external gateways, local fallback of the client |
| Users, plans, control API (`db.rs`, `admin.rs`) | user table | register, login, plan, backup, restore | quota, tenants |
| Peer-to-peer transfer (`nsmt-client/src/main.rs`) | object owners on the server | peer authentication, fetch | online registry |
| Conflict resolution (`main.rs`, `conflicts_web.rs`) | conflict copies | list, keep, discard | shared directory |
| Frames and streams (`nsmt-core`) | read buffer, local to one call of `recv` | encode, decode, recv as a `select!` branch | everything on a connection |
| Keys and end-to-end encryption (`nsmt-core`) | key list | rotation, decrypt with each key in turn | chunks |
| OKF knowledge packages (`okf.rs`) | library directory: documents, `.trash`, `index.md`, `log.md` | libs new and rm, add, rm, restore, edit, log, index, validate | other `yggd okf` processes; no lock |

What is hard, and where: two sessions on one part file; an exists-test followed
by a write; a clock read before a lock is taken; a snapshot taken before a
subscription; a tree hashed before its files are read again; a removal list
applied to files edited since; a pid used after an HTTP request; in-memory
quotas and locks at a restart; clients that stop half-way; a table copied under
a lock and written to disk outside it; a `recv` that is dropped with bytes in its
hands; a read, a change and a write of one file by two commands; a capture that
times out and was recorded all the same. `PROJECT.json`
("hazards") lists them line by line with the properties that watch them.

What makes each component correct:

* locks: a grant means exclusive use until it runs out; nobody loses a running
  lease; a lock nobody releases comes back;
* uploads: an acknowledged object is there and has the bytes its id stands for;
  the store stays within the quota; an accepted upload ends;
* synchronisation: objects are what their ids say, published trees can be
  recovered, nobody's edit vanishes, what a user saves is published;
* online table: who is connected is listed, who is gone is removed, clients are
  told;
* supervisor: exactly one ygg, and it comes back;
* tenants: one key for each machine id among the connected, and a key that was
  reported as set lasts;
* memory: what was confirmed is kept and found again, and every request is
  answered whichever gateway hangs;
* frames: frames come out as they went in, and a peer that died in the middle of
  one is not taken for one that is done;
* conflict copies: no version that a user wrote is lost, no file is emptied;
* OKF: what was reported as done is there, the log tells the truth, documents
  stay valid.

## 2. Modules and their correspondence to the code

### LeaseLock, LockRegistry, LockRegistryProofs
`LockRegistry` has the table (`locks`), the clock (`now`), the sweeper
(`sweeping`, `sweepNow`) and, for each client, the path it pushes (`at`) and the
expiry it was told (`told`). `acquire`, `renew` and `release` are one step each,
since one write lock guards them. The sweeper is two steps, because
`cleanup_loop` reads the clock before it waits for the lock (`SweepRead`,
`SweepRetain`). A client that gives up without LockRelease (`Abandon`) is
`push_entry` after a refused upload, or a client that died. `Restart` forgets
table and sessions. `RenewingClients` sends LockRenew; yggd does not, so the set
holds a hypothetical client of the protocol. `LeaseLock` is the abstract
specification: a path has at most one owner, an owner may lose it at any moment, and
a path is taken only while nobody owns it. It has no clock, so it says nothing of
when a lease ends: `LeaseKept` does. The table is keyed by the path alone, for all user
domains, so a client of another domain is one more requester.

### ObjectUpload, ObjectUploadProofs
`phase` is the position of each session in FilePut, FileChunk and the completion
(read the part file, `exists`, create, write, remove the part file, ack). Files
are sets of chunks, so "has the bytes its id stands for" is "holds all chunks".
`temp` is one part file per blob for the whole tenant, as in the code. `Crash`
kills the server at any step: files stay, sessions and `usage_bytes` go; `torn`
remembers the objects that were being written. The limit is looked up by the plan
of the user before the lock of the usage is taken, so `FilePut` reads `limit` and
the reservation is a step of its own (phase "reserve"); `SetPlan` may come in
between. `ceiling` is the largest quota in force in this life of the server.

### FileSync, FileSyncProofs
Two clients (`pc`), each with its directory (`dir`), conflict copies, object cache,
the tree it last aligned with, its pending pull and its watcher events; the server's
objects, archive of trees, latest tree and locks. One action per stretch of
`fs_mode`, `sync_push` and `push_entry` between two points at which others, the user
or a kill can interfere:
* a pull is `Start` or `Poll`, then for each changed path `PullCompare` (fetch,
  compare, copy), `PullCreate` (`File::create`), `PullWrite` (`write_all`),
  `PullCache` and `FillObject` (`ensure_object_local` creates the object, then fills
  it) or `PullMiss`, and at the end `FinishPull` (removal list, new tree);
* a push is `Watch`, then for each entry `PushRead` and `FillObject` if the cache
  lacks it, `PushLocked` and `PushUpload`, or `PushDenied`, `PushRefused`,
  `PushUnreadable`, and `SaveTree`, `SaveLatest`.

`latest.json` is truncated before it is written, so a diff may meet no tree, and two
writers may leave one that cannot be parsed (`MayBeLonger`). `Stop` ends a client at
any of the points in `StopAt`; what it has created and not filled stays, and
`exists()` takes it for the object. `Faults` says what may fail: the conflict copy
(`let _ = fs::copy`), the first diff (the client pushes without having pulled), the
building of a tree (the old one is kept, or the event is dropped), an upload (quota).
`MaxFaults` bounds stops and failures together.

Contents are the numbers of the edits that made them, so that every edit can be told
apart; 0 is what no user wrote, an empty, cut off or mixed file. Paths are numbers
in the order of the sorted tree. With `EditAnytime` users edit at any moment, between
comparison and write too. Four history variables carry the exceptions of the
properties:

| History | Holds the contents | Excepted by |
|---|---|---|
| `purged` | that a removal list deleted | `LostInKnownWays` |
| `raced` | that a pull overwrote without a copy: saved after its look, or not copied because the copy failed | `LostInKnownWays` |
| `skewed` | whose object may be wrong: the file changed between hashing and reading, or a client was stopped while it filled the object | `CasIntegrity`, `Recoverable`, `LostInKnownWays` |
| `unseen` | saved before the watcher ran, or there when a tree could not be built | `NothingForgotten` |

### OnlineRegistry, OnlineRegistryProofs
`machines` and `age` are the table of one user domain; ages replace the clock,
because the code compares nothing else, and make the state finite without a
horizon. A session goes through register (with the snapshot of RegisterAck),
subscribe, Join and the ready loop as separate steps, as the locks are taken
separately. It ends with a Leave (`End`) or through `?` without one
(`EndSilently`, `AckFails`). The prune loop is `Scan`, `PruneRemove` (the second
look under the write lock) and `PruneAnnounce`. `view` is what a client has been
told. `astray` is a history variable: the machines about which a session was
misinformed because a frame fell between its snapshot and its subscription, or
because a Leave was announced of a machine that has a session.
`Punctual` sessions never stall for longer than a heartbeat interval; others may
stall for ever, be pruned while connected, and beat late.

### Supervisor, EndpointProofs
`loop` is the supervising task, `ygg` the state of each process, `req` and
`seen` the handlers of `/api/restart` and the pid each has read. The control API
is answered by whichever ygg listens at that moment. `tokenAgrees` is chosen at
the start: with different tokens ygg refuses and the handler still reports
success, as in the code. Process ids are not used twice.

### TenantAuth, TenantAuthProofs
`tenants` is the table of the running server, `disk` its file, `users` the user
database. A request (`req`) is one of the administrator (`add_tenant`, which takes any
key, the empty one too), a key update (`set_tenant_key`, which refuses a key that is
not 64 characters long), `/api/register`, or the CLI, which has a table of its own,
loaded when it starts. `NoKey` stands for every key that no signature verifies with.
`persist` is three steps: copy the table under the lock, open (which truncates:
`Torn`), write; two writers at once may leave a file that does not parse. `Hello`,
`Auth` and `Register` are the handshake of one connection; a machine key is bound at
its first REGISTER, in the table only, and reaches the file with the next `persist`. A
signature is represented by the key that made it. `Crash` kills the server at any step
and loads what the file holds. History: `wiped` (domains whose key a registration
emptied), `mixed` (requests that overlapped), `safe` (the key last reported as set,
while it must last).

### MemoryPool, MemoryPoolProofs
`kept` is what each gateway has recorded: the shards of the pool and one local
gateway for each client, all external. `PoolCapture` is the server's handler
(the shard of the client's fqn), `NoteLocal` and `CaptureLocal` the second write
of the client. A recall starts one task for each shard (`shards`), each with its
own answer, refusal or timeout; `RecallReply` merges, sorts and cuts, and
`Fallback` is the client's local recall when the pool is unavailable. `Start`
records the share directory unless `marker` is set. A gateway that timed out has
recorded the note or not (`GivenUp`).

### FrameStream, EndpointProofs
Bytes are numbers, and headers and lengths are encoded as in `frame.rs`
(12 bytes, little-endian length). `pipe` holds what has arrived and is unread,
`buf` the local variables of `recv`. `Recv(p)` reads up to `p` bytes and returns,
fails or goes on; `OtherBranch` drops the call and with it `buf`; `Gone` lets the
sender vanish between frames or in the middle of one. History: `ends`, where each
frame ends in the stream, and `lost`, the kind of frame in the middle of which a
call was dropped. A file chunk holds any bytes; the payloads of all other frames are
written by `serde_json`, have no control characters and end with a brace
(`TextAssumption`). Only the server's ready loop and
yggd's online mode call `recv` in `select!`; `fs_mode` does not.

### OkfLibrary, OkfLibraryProofs
A document is the set of the commands whose effect it carries, so that a lost edit
shows, and what `parse_doc` and `validate_bundle` make of its text: `typed`, `untyped`
(`type: 5`) or `broken` (`title: a: b`, or a file cut off). `add` and `edit` write the
values they are given as they are, and `odd` remembers the commands whose values YAML
reads otherwise. Every command is a process of its own and takes no lock: one step for
what it reads and checks (`cmd_add`, `cmd_rm`, `cmd_restore`, `cmd_edit`, ...), one
for each write (`AddWrite`, `RmRename`, `RestoreRename`, `EditWrite`, `IndexWrite`,
and `AppendLogRead`, `AppendLogWrite` for the log). `rm` and `restore` work on
whatever has the name (`Target`): a document, the subdirectory with all its documents,
or `./log.md`, which only the bare name is protected from. `dirs` are the directories
that exist; a write into one that is gone fails (`NoDirectory`). `Die` kills a command
at any step and leaves the file it was writing empty, an index included. `lost`,
`unsure` and `cut` are history: effects destroyed, paths made doubtful and files cut
off, for one of the reasons that the comments of the properties list.

### ConflictMerge, EndpointProofs
A file name is a sequence of tokens, so that the making of a conflict name
(`CopyName`: sanitised fqn, path with "/" replaced, time) and its parsing
(`main_name_of`) are modelled by what they do. The synchronising yggd, `yggd merge` and
requests to the web page are processes. A pull is `PullCompare`, `PullCopy`,
`PullCreate` and `PullFill`; the copy of a `LongPath` fails, because its name would be
longer than a file name may be, and the pull goes on. A resolver starts with any file
that exists (`Begin`): the command takes every path, the page what `conflict_path` lets
through, and either may take a shared file for a copy. It reads, truncates, fills and
removes in separate steps; a custom merge without a text writes an empty file. All of
them may be killed between any two steps (`PullKilled`, `Crash`). A file that is
removed while a process has it open takes that process's writes with it (`unlinked`).
`Stamp` gives each pull the time that stands in the name of its copy.

`NamesLeadBack` of `MCConflictMerge`, which TLC evaluates over all names of up to three
tokens, says of which names the parsing is the inverse of the making: exactly those of
an fqn without "-" and of a file that is not in a subdirectory. The theorem
`CopyLeadsBack` has one direction for names of any length.

`EndpointProofs` holds the proofs of these last three components, Supervisor,
FrameStream and ConflictMerge; their definitions have different names so that one
module can extend all three.

## 3. Runs

| Run | Module | Shows |
|---|---|---|
| `lock_table` | LockRegistry | exclusion, backed grants, kept leases, refinement of `LeaseLock`, reclaimed locks, with a stale sweeper, a renewing client and restarts |
| `upload_mixed` | MCObjectUpload | whole objects, presence, quota, termination, with shared and own contents, an empty file, a plan that changes, lost connections and a crash |
| `sync_any` | MCFileSync | two clients at the same time, edits at any moment, stops at any point, failing copies, diffs, trees and uploads: object integrity, recoverable trees, an edit is lost in the named ways only, a first push has what its pull brought, an idle client has published what its user saved |
| `sync_handover` | MCFileSync | one client at a time, with stops, refused uploads and failed diffs: no edit lost at all |
| `online_table` | MCOnlineRegistry | punctual machines stay listed, views are wrong for two named reasons only |
| `online_leave` | MCOnlineRegistry | a machine that is gone vanishes from the views |
| `supervisor` | Supervisor | one ygg, restarts happen, ygg comes back |
| `tenants` | MCTenantAuth | one key for each machine id, reported keys last, who can take a tenant's key away, and how often |
| `memory` | MCMemoryPool | confirmed captures are kept and recalled, every request is answered |
| `frames` | MCFrameStream | frames exact and in order, none invented after a drop in a text frame, no clean end in the middle of one, delivery |
| `okf` | MCOkfLibrary | effects of commands do not vanish, the log tells what is there, documents stay valid, with directories moved as a whole and odd values |
| `conflicts` | MCConflictMerge | versions of users are kept, files are not emptied, with pulls and merges killed between any two writes |

All runs pass. Where the code falls short of what one would like to say, the
property states the exact exception (a history variable or a named case) and
section 5 describes it. Such a property does not catch the hazard it excepts; it
shows that the damage stays within the exception. The notes of the hazards in
`PROJECT.json` say where this is so, and which hazards no property watches (the answer to
a late LockRenew, the starved periodic pull).

Each property of a passing run has a mutant in `PROJECT.json`: a small change of
a definition, in the direction of a plausible bug, under which TLC finds the
property violated. Mutants stand next to the definitions they change.

### Bounds
* Locks: 2 paths, 3 clients, TTL 2, horizon 5: a lease can run out, be taken by a
  second and by a third client, and be swept with a time two ticks old. No lease
  is granted that would end after the horizon, so all can be seen to end.
* Uploads: 2 sessions, 4 blobs of 0 to 2 chunks, 4 FilePut frames, quotas 2 (free)
  and 3 (pro), one change of plan, one crash: enough for a repeated upload, a pair
  of concurrent uploads of one blob, a refusal, a limit read before a downgrade,
  and a second life of the server.
* Synchronisation: 2 clients, 1 pending watcher event. `sync_any`: 1 path, 2 edits and 1
  fault of any kind; clients work at the same time and may stop at every point. That is
  enough for an edit to be lost by a purge, by a race with a pull and by a failing copy.
  To lose one through a wrong object takes a third edit: with 3 edits and no fault TLC
  finds that loss in 1.4 million states, and with 3 edits and a fault the instance is
  too large for a regular run. `sync_handover`: 2 paths, 3 edits
  made while the client is idle, 3 faults, clients in turn, and stops at every point
  but one: a client that is stopped while it fills a cache object leaves a wrong one,
  which a later pull may write over the file (`skewed`), so an edit can be lost then,
  as `LostInKnownWays` says. The same holds of failing copies and trees. What
  `sync_any` checks is proved for any number of paths, edits and faults (section 4).
* Online: 3 sessions of 2 machines, interval 1, limit 2 (the smallest that
  satisfies the assumption), one late heartbeat; the sessions of m1 are
  symmetric in the safety run.
* Supervisor: 2 requests, 2 crashes, 1 failed spawn, 5 processes: no request ends
  more than one process, so a sixth is never needed.
* Tenants: 2 domains, 2 domain keys, 1 machine id that 2 clients with different
  keys claim, 3 requests of which one is a CLI process, 1 crash: two writers of the
  file, a registration and a restart can meet. An administrator can empty a key and a
  registration can empty it again.
* Memory: 2 clients whose fqns hash to different shards, the share notes and one
  capture, limits 0 and 2: a limit of zero, a cut answer, one failed shard and all
  failed shards happen.
* Frames: at most 2 of 5 frames (payloads of 2 and 5 bytes, one at the size limit
  whose length looks like a header, one above it, a chunk that holds the bytes of
  a frame), pieces of 1, 7 and 345 bytes: every cut of header and
  payload boundaries happens.
* OKF: 2 processes, a document in a subdirectory and one that is called
  `sub/index.md`, 4 commands, 1 of them with odd values, 1 death: enough to add to
  a directory, remove it, add again and restore or remove again. A document at the root
  has only simpler cases (no directory to move away or to make); with one more path, 4
  commands make over 6 million states, too many for a regular run. With
  `./index.md` in place of `sub/index.md` (1.4 million states) the three properties hold
  too, and the theorems cover every set of paths.
* Conflicts: 1 merge command, 1 web request, a path at the top and one in a
  subdirectory that is too long for a copy and whose name can be taken for that of a
  copy of the first, 3 versions, 2 pulls: both resolvers can hold one copy while a
  pull writes its main file, and one can be killed there.

`okf`, `frames` and `conflicts` run with CHECK_DEADLOCK FALSE: when the commands
are given, the stream has ended, or nothing is left to resolve, nothing need
happen. The type invariants of Supervisor (`SupTypeOK`), FrameStream
(`StreamTypeOK`), LockRegistry, TenantAuth, MemoryPool and OkfLibrary document the
variables and are proved, but are not properties of a run.

### Fairness
* locks: the sweeper's task and the clock go on; clients owe nothing;
* uploads: the client sends all chunks of an accepted upload without waiting,
  QUIC delivers them while the connection lives, the session's task is polled.
  Disconnections are not fair;
* online: time, the prune loop, and the tasks of punctual sessions, in which
  `select!` picks among ready branches at random, so timer and channel are both
  served;
* supervisor: tasks and processes are scheduled; crashes and requests owe nothing;
* memory: the tasks of client and server and their timers go on; gateways owe
  nothing, not even a refusal;
* frames: bytes that were written arrive while the sender lives, and a receiver
  with something to read is polled. Dropping a call is not fair.

Synchronisation, tenants, OKF and conflicts have safety properties only. That
directories agree in the end is not claimed: a denied lock, a refused upload or an
object that the server lacks leaves two clients different until somebody edits again,
whatever the scheduling.

## 4. Proofs

`LockRegistryProofs` (all paths, requesters, TTLs, horizons):
* `TypeCorrect`, `GrantsAreBacked` (`LeaseBacked`), `Exclusion`
  (`MutualExclusion`), `RunningLeaseIsKept` (`LeaseKept`), `Refinement`
  (`ImplementsLeaseLock`).
* Exclusion is not inductive: it needs that the grant each client acts on is the
  entry of the table until it runs out. That in turn is kept by the sweeper only
  because the time it judges by is never ahead of the clock (`SweepLags`), so
  what it removes has run out. `LeaseInv` is the conjunction. For the refinement
  the table's entries that have run out map to "free".
* Assumption: `LockAssumption` (TTL positive, the two "none" values distinct from
  the others). Nothing is assumed about who renews; the claims about grants are
  for clients that never do.

`OnlineRegistryProofs` (all machines, sessions, periods):
* `TypeCorrect`, `PunctualIsListed` (`ConnectedIsListed`), `ViewsCorrect`
  (`ViewsRight`).
* "Listed" is not inductive: the prune loop removes by age. `BeatInv` adds that
  the entry of a punctual session is no older than the session's last sign of
  life, plus one interval in the ready loop, since the first heartbeat comes a
  full interval after a handshake that may have taken one. So the entry is at
  most two intervals old, and `OnlineAssumption` asks that they fit into
  OfflineAfter (10 s and 30 s in the code). The re-check of `PruneRemove` is used
  in exactly one step; without it the lemma fails, and so does the mutant.
* `ViewsRight` speaks of clients that have read their frames; the invariant must
  speak of the others. `Told(q, v, m)` is what a client with view `v` will hold of
  `m` when it has read channel `q`: the last frame about `m` decides. Lemmas say
  that a frame that is queued decides about its machine and no other, and that
  showing the next frame changes nothing. `ViewInv` claims of every running
  session, from its snapshot on, that what it will hold is right, and that it
  holds its own machine for online, since its own Join does not come to it. It
  rests on `BeatInv`: the snapshot contains every punctual machine, and a
  punctual session that ends leaves an entry for the prune loop to announce.

`ObjectUploadProofs` (all sessions, blobs, chunk counts, sizes, plans, quotas):
* `TypeCorrect` (`TypeOK`), `AckedStays` (`AckedPresent`), `SoleStaysIntact`
  (`SoleIntact`), `StoredStaysIntact` (`StoredIntact`), `QuotaHolds`
  (`StorageWithinQuota`).
* `UploadInv` follows the bytes of a content that one session alone uploads:
  marked chunks are in the part file; the part file is whole when it is read, the
  buffer when it is written; the counter is the number of marks, so that "count =
  total" means all chunks. It needs for every content that an upload past its
  write has an object, and that an object never disappears.
* The quota needs a sum. `Claimed` are the contents stored or about to be, and
  `QuotaInv` bounds their size by the usage of this life and one ceiling for each
  earlier one; a reservation pays for a content before it is claimed, and a crash
  gives up all claims that are not stored. That a sum over a finite set grows by
  the size of a new element, and is monotone, is proved from the definition of
  `SumFunctionOnSet` with the smallest counterexample of the set's cardinality.
* Assumptions: `UploadAssumption`, `MissingAssumption` (the mark for "no file" is
  not a file).

`FileSyncProofs` (all clients, paths, numbers of edits, faults and events):
* `SyncCorrect` (`SyncOK`), `TypeCorrect` (`TypeOK`), `ObjectsIntact` (`CasIntegrity`),
  `PublishedRecoverable` (`Recoverable`), `OnlyKnownWays` (`LostInKnownWays`),
  `HandoverKeepsEdits` (`EditsSurvive`), `FirstPushComplete` (`FirstPushKeepsPulled`),
  `NoneForgotten` (`NothingForgotten`). All but `HandoverKeepsEdits` hold for every
  choice of `Overlap`, `EditAnytime`, `StopAt` and `Faults`.
* `SyncOK` adds to the types what the steps of a client rely on: it pushes entries of
  the tree it hashed, pulls paths that the remote tree has, and what it holds of a file
  that it has compared is copied or equal to the remote one.
* `CasInv`: the bytes with which a client is about to fill an object are those its id
  names, or the id is skewed. `RecoverInv` adds that a client that pushes has an object
  for each entry it is done with, whether its lock was granted or not. That is why a
  published tree can be recovered.
* `OwedInv` says where the content owed to a user is: in the directory of that client,
  or where the synchronisation put it when it replaced it. Without `raced` the proof
  fails at `PullCreate`, for an edit after the look or a failed copy, and at
  `PullWrite`; without `skewed` at `PullWrite`, for an object that does not hold what its
  id names; TLC has a behaviour for each.
* `HandoverKeepsEdits` assumes `Overlap = FALSE`, `EditAnytime = FALSE`, that neither
  copies nor trees fail, and that no client stops while it fills an object, as
  `sync_handover` does; refusals, failed diffs and all other stops are free. `HandInv`:
  at most one client runs, nothing is skewed or raced, what is pushed is the directory,
  and what a removal list deletes is an object somewhere.
* `AlignedInv`, for the first push: every path of the tree that the server answered with
  is still to be pulled, or in the directory, or is one of `gone`; the removal list has
  none of them. It needs nothing about other clients.
* `SentInv`, for `NothingForgotten`: what a client owes to its user and has in its
  directory is published, or in the tree it pushes, or an event is waiting. A full queue
  does no harm, because the tree is built after the event is taken.
* Assumptions: `SyncAssumption`, `NoTreeAssumption` (the mark for "no tree" is not
  a tree, that for "no file" not a content).

`TenantAuthProofs` (all domains, keys, machines, clients, requests):
* `TypeCorrect` (`TypeInv`), `OneKey` (`OneKeyPerMachine`), `LockedOut`
  (`LockedOutOnce`), `KeyLasts` (`ReportedKeyLasts`).
* `KeyBound`: a ready client's key is the one its table row binds. An update keeps
  the bindings and a restart, which may drop them, ends all sessions.
* `RowInv`: a registration about to empty a key made the row of its user itself, and no
  two made one row. The database's unique name thus bounds the lock-outs by
  registration; the administrator may set an empty key any number of times, and
  `LockedOutOnce` says so.
* `SafeInv`: a request that no other overlapped is the only one that writes, its key
  is in the table from `upsert` on, and the copy it writes has the key of every
  domain for which one was reported.
* Assumptions: `TenantAssumption`, `AbsentAssumption` (the marks for "no row" and
  "does not parse" are neither rows nor tables).

`MemoryPoolProofs` (all clients, shards, limits):
* `TypeCorrect` (`TypeOK`), `CommittedKept` (`CommittedIsKept`), `RecallIsComplete`
  (`RecallComplete`).
* `KeptInv` adds that a client sends notes of its own, so that they go to its shard;
  `RecallInv` follows the shards of a recall: one that has answered gave all notes
  confirmed before, one that failed is struck out, and the fallback is taken only
  when no confirmed note is left to show.
* Assumption: `PoolAssumption`.

`EndpointProofs`, on the supervisor (all requests and bounds):
* `NeverTwo` (`OneYgg`), from `YggInv`: while the loop waits, its pid is one that
  was spawned; otherwise it has none and no process runs; a handler's pid is never
  one of the future. So a late signal meets the process it was meant for, or none.
* Assumption: `SupervisorAssumption`.

`EndpointProofs`, on frames (all frames, limits below 2^29, pieces, numbers of
frames):
* `StreamTypes` (`StreamTypeOK`), `FramesArriveExactly` (`FramesExact`),
  `EofNeverHidesAPart` (`EofIsClean`), `TextNeverInvents` (`NoneInvented`).
* No induction over the stream is needed, because `ends` tells where each frame
  lies. `PlaceInv`: the frames lie one after the other; `PipeInv`: an unread byte is
  the byte of the frame at its place; `BufInv`: the bytes that `recv` holds are the
  beginning of the frame after those returned, and not all of it; `RoomInv`: `recv`
  reads no byte beyond a frame. `StreamInv` is the conjunction, with `BufInv` for a
  receiver that has not dropped anything. Lemmas show that a little-endian number is
  read as it was written, and thus that a frame that begins as an encoding is found
  complete exactly when it is, and decodes to what was encoded.
* After a drop the receiver may stand anywhere. `DropInv`: what was returned is
  picked from the frames sent in increasing order (`Picked`), before the place where
  the call under way began (`Passed`), and that call began at a frame or in the
  middle of a text frame, of which it has less than a header (`Standing`). The lemma
  `TextRejected` closes the case: no twelve bytes from the middle of a text frame on,
  the next frame's bytes included, pass the tests of `recv`. A magic byte and a
  version byte 1 side by side would have to lie in a text (no control characters), at
  its end (a brace), or in a header, whose stream id is 0; where the length of the
  frame itself looks like them, the text that is read as a length is above the limit.
* Assumptions: `FrameAssumption`, `TextAssumption`.

`EndpointProofs`, on conflict copies (all names, machines, resolvers, bounds):
* `NoFileEmptied` (`NotEmptied`), `NoVersionLost` (`VersionsKept`), `CopyLeadsBack`.
* `MergeInv`: names of copies are made of a pull that was, so that two pulls never
  share one (`NameInv`); a resolver that writes nothing has a known reason, and a copy
  that is missing was removed by another resolver of it (`JobInv`); an empty file is
  being filled by a process that still has it, or is named as `broken` (`EmptyInv`).
* `VersionsKept` is not inductive: a version may be in one copy only that a resolver
  is about to remove. `KeptInv` asks for a name that nobody will remove after having
  installed it elsewhere (`Safe`); `PullInv` says that what a pull is about to empty,
  if it was copied and has not changed since, is in a second place.
* `CopyLeadsBack`: for every fqn without "-" and every name without "/", the first
  dash after the prefix ends the fqn and the last begins the time, so that the name
  between them is the file's. The least and the greatest position come from `WFMin`.
* Assumptions: `MergeAssumption`, `StampAssumption` (the time is one word, no two pulls
  have the same, and none is in the name of a file before it comes).

`OkfLibraryProofs` (all processes, paths, numbers of commands and deaths):
* `TypeInvCorrect` (`TypeInv`), `TypeCorrect` (`TypeOK`), `NeverVanishes`
  (`NothingVanishes`), `AlwaysValid` (`ConceptsValid`), `LogTells` (`LogMatches`).
* `KeepInv` adds that the effect of a command at its log step, not reported yet, is
  accounted for. `ValidInv` extends validity to the trash, from which `restore`
  brings documents back, and to the text that a command is about to write. `LogInv`: as
  long as commands have not overlapped, one at most is busy, a path differs from the
  log only while its command, or that of its directory, is at the log step, and the
  log that the command has read is the log.
* Assumptions: `OkfAssumption`, `NoneAssumption` (the mark for "no document" is not
  a document).

Every invariant, every action property and the refinement that a run checks is
stated by a theorem. Only model-checked:
* all liveness (`AbandonedReclaimed`, `UploadEnds`, `LeaveIsHeard`, `RestartEnds`,
  `ComesBack`, `Answered`, `Delivered`), which the prover does not
  handle;
* of `NamesLeadBack`, that names with a "-" in the fqn or a "/" in the path do not
  lead back. TLC evaluates it over short names.

Where a proof needs a smallest number (a smallest counterexample, a first dash), it
uses `WFMin` of WellFoundedInduction: the induction theorems proper take an operator
as a parameter, which the provers cannot instantiate.

## 5. Where code and documents disagree

Each item is something the models show or had to take into account; where a
property excepts it, the property is named.

Locks, uploads, synchronisation, online table, supervisor:
* The lock table is keyed by the path alone, for all user domains
  (`nsmt-server/src/fs.rs:152`), while `protocol/protocol.md:82` has
  `t/<user_domain>/locks/<path>` and `docs/项目策划.md:334` says that locks are
  isolated by tenant: equal paths of two tenants exclude each other.
* Two uploads of one content share one part file; the first to complete removes it
  (`session.rs:263`), and what the second then stores and acknowledges may be
  damaged, although a blob id is the hash of its content (`protocol.md:292`).
  `SoleIntact`, `StoredIntact` and `AckedPresent` say what is left.
* The removal list of a pull deletes files without comparing them
  (`nsmt-client/src/main.rs:389`), so a fresh edit is lost without the conflict copy
  that the comment at `nsmt-client/src/fs.rs:160` and `protocol.md:339` promise.
* `materialize_with_conflict` compares the local file with the id of the remote
  entry (`nsmt-client/src/fs.rs:166`) and not with the bytes that it writes. If the
  object under that id holds something else (see `sync_push` below), a
  local content is replaced without a copy: client 1 stores what its file holds
  after an edit under the hash of what it held before, and the pull of client 2,
  whose file still has the hashed content, finds the ids equal. `LostInKnownWays`
  states that nothing but this, the removal list and the pull that overwrites without a
  copy (next items) loses an edit.
* An edit between the comparison of a pull and its write is overwritten without a copy
  (`nsmt-client/src/fs.rs:164-181`; `raced` in `LostInKnownWays`, `owed` in
  `VersionsKept`).
* The error of the conflict copy is ignored (`nsmt-client/src/fs.rs:176`), and the log
  says "kept" all the same. The name of the copy holds the whole path, so a path of some
  200 bytes makes one that is too long, and the user's version is overwritten.
* `ensure_object_local` writes in place behind `exists()` (`nsmt-client/src/fs.rs:119`): a
  client killed there leaves a partial object that it takes for the object and uploads
  under the full id. `CasIntegrity` and `Recoverable` except these ids (`skewed`).
* If the first diff fails, the client pushes without having pulled
  (`nsmt-client/src/main.rs:294`), although the comment at 293 says that pulling first
  keeps an empty directory from covering the shared tree. If the tree cannot be built
  after the pull (309), the old one is pushed.
* What is saved during the first alignment, before the watcher runs (`main.rs:317`), is
  pushed only with the next event. `NothingForgotten` excepts it (`unseen`).
* A Join that falls between the snapshot of RegisterAck and the subscription
  (`session.rs:82`) is never heard, while `docs/项目策划.md:40` lets all clients know
  who is online. `ViewsRight` excepts it (`astray`).
* LockRenew is answered by LockGranted whatever `renew` returned
  (`session.rs:291`; `protocol.md:336` calls a grant the server's record). The
  lock claims therefore exclude clients that renew.
* yggd never renews (`nsmt-client/src/fs.rs:204`), while `docs/项目策划.md:297` has
  it renew every 10 s: a push longer than 30 s runs without its lock.
* Leases are in memory (`state.rs:42`); `protocol.md:340` says they persist. That
  is harmless to exclusion, since all pushes fail with their sessions.
* `usage_bytes` starts at zero with the process (`state.rs:47`): the bound of
  `StorageWithinQuota` is one quota for each life of the server. Objects that are
  already stored are charged again (`state.rs:71`; the comment at 63 says
  otherwise).
* An empty file is never acknowledged (`session.rs:128`).
* `put` writes in place (`nsmt-fs/src/lib.rs:47`): a crash leaves a partial object
  that later uploads take for the object. `StoredIntact` excepts the objects being
  written at a crash.
* `sync_push` reads files again after `build_tree` hashed them
  (`nsmt-client/src/main.rs:441`): an edit in between is stored under the wrong
  id. `CasIntegrity` and `Recoverable` except these contents (`skewed`).
* A starting client may publish over a tree that came after its pull
  (`main.rs:314`; `protocol.md:309`). `FirstPushKeepsPulled` is about the tree that it
  did pull.
* A tree is published although the lock of an entry was denied
  (`nsmt-client/src/fs.rs:214`), so that two clients can stay different; `Recoverable`
  says that its contents can be had all the same.
* A session's own timer refreshes the machine (`session.rs:115`), so missing
  HEARTBEAT frames of a client never mark it offline (`protocol.md:187`).
* A machine pruned while its session stalled is not put back by its heartbeats.
* The supervisor's backoff is 0 doubled and stays 0 (`nsmt-admin/src/main.rs:126`;
  the comments at 7 and 121 call it exponential).
* A refused restart is reported as `ok` (`nsmt-admin/src/main.rs:270`);
  `RestartEnds` is for equal tokens.
* `unsubscribe` is never called (`registry.rs:55` adds a sender for each session):
  the senders of closed sessions stay in the list.

Tenants:
* Registering a user under the name of an existing tenant sets its key to the
  empty one (`admin.rs:190`) and locks its machines out until the key is set again
  (`LockedOutOnce`). `POST /api/tenants` takes an empty key as well (`admin.rs:115`), while
  the key update of users asks for 64 characters (`admin.rs:215`).
* A tenant added by the CLI is unknown to the running server until it restarts,
  and is gone from the file after the server's next `persist`.
* A crash while `tenants.json` is written leaves a file that does not parse, and
  the error of `reload` is ignored (`tenants.rs:47`): the server starts without
  tenants. `ReportedKeyLasts` excepts a death during a write.
* The comment at `tenants.rs:131` says that machines are kept in memory only;
  `persist` writes them.

Memory:
* `share.path` is written whatever `committed` was (`nsmt-client/src/main.rs:930`);
  the comment at 854-857 makes it the sign that the directory has been recorded.
* A failed capture is answered with `queued: true` (`session.rs:174`); there is no
  queue. The client prints `local_written=yes` whatever the local write did
  (`main.rs:236`).
* Hits are sorted by content (`nsmt-server/src/memory.rs:80`); the comments at 7 and
  46 say by score.

Frames:
* A `recv` that loses in `select!` loses the bytes it has read. Mostly the next call
  fails on the magic byte and the session ends; two drops within one frame can lose
  the frame with the stream in step again, and the bytes of a file chunk can pass
  for a frame. `FramesExact`, `EofIsClean` and `Delivered` name the case (`lost`);
  `NoneInvented` says that the rest of any other frame cannot.

OKF:
* A second `rm` of a path overwrites the copy in the trash (`okf.rs:724`).
* `rm` takes directories (`okf.rs:717`): all concepts below go to the trash under one log
  entry with the name of the directory. `LogMatches` reads such an entry as one about all
  of them; after a `restore` of a directory the log does not tell what is in it. `rm
  ./log.md` moves the log itself.
* `add` and `edit` write values into the frontmatter unescaped (`okf.rs:687-702`): a title
  with ": " or a numeric type gives a concept that `validate` reports, without a word from
  `add`. `ConceptsValid` excepts the documents that carry such a command (`odd`).
* `add` refuses `index.md` at the root only (`okf.rs:662`); `sub/index.md` is
  accepted and overwritten by the next `index`.
* `append_log` reads and writes the whole log: two commands at once lose an entry,
  and one that ends after `libs rm` makes the directory again. New entries are
  appended last (the comment at 232 says newest first).

Conflict copies:
* When page and command resolve one copy at once, the page takes the missing copy
  for an empty one (`conflicts_web.rs:108`) and empties the main file
  (`NotEmptied` excepts it).
* A "-" in the fqn, or a file in a subdirectory, makes the parsed name differ from
  the main file (`main.rs:795-803`, `conflicts_web.rs:42-51`): the merge creates
  another file.
* Copies in subdirectories are not listed, and are synchronised like other files,
  for only names at the top are excluded (`nsmt-client/src/fs.rs:92`).
* `yggd merge .sync-conflict-...` is looked up in the working directory and not in
  the shared one (`main.rs:784`).
* Page and command take any file for a copy (`conflicts_web.rs:55`, `main.rs:784-791`): a
  shared file with two dashes in its name can be merged over another one.
* A request for a custom merge without a text empties the main file and removes the copy
  (`conflicts_web.rs:120`). `NotEmptied` names it.
* A pull or a merge killed between the creation of the file and its write leaves it empty
  (`nsmt-client/src/fs.rs:154`), and the next start publishes the empty file. `NotEmptied`
  names it.

## 6. Not modelled, and why

S3 and memory back ends of the object store and symlink views: other ways to store
the same bytes. Peer-to-peer transfer (hole punching, direct fetch, object owners):
network behaviour; FileSync has the case that the server lacks an object. Backup and
restore of whole directories, login tokens (nothing checks them later), status and
log queries. `lint`, `list`, `show` and `search` of OKF only read. Key rotation and
ciphers are pure functions; cryptography is taken as perfect where a signature is
checked. The starvation of the periodic pull by watcher events (`main.rs:370`) needs
a model of time that FileSync does not have: there a running client may always poll.
Faults of the disk other than the conflict copy (a full disk in `put_object`, in
`persist`, in the object cache or in a merge) are not modelled; a kill at the same place
leaves what a write that failed half-way leaves. `build_tree` is one step in FileSync,
although it reads one file after the other. FileSync has no crash of the server and no
detail of uploads (an empty file, whose upload never ends, is uploaded like others
there): ObjectUpload and LockRegistry have them. Paths of OKF commands that lead out of
the library or into `.trash`, a `restore` of the log, and names given to `yggd merge` or
the page that lead out of the shared directory, are left out.
`unsubscribe` and `online_list_frame` are never called. An address in use when
the control API of a restarted ygg binds, and process ids that the system uses
again, are left out of `Supervisor`. Wording of frames and logs.

## 7. Plan

Order of work, most important first:

1. Done: locks with abstract specification, refinement and proofs; uploads with
   plans; the shared directory with edits at any moment; online table with proof;
   supervisor; handshake and tenants; memory pool; frames; OKF libraries; conflict
   copies.
2. Done: proofs of all safety properties of all components, also with kills between any
   two writes of a pull, failing copies and directories that move as a whole.
   Next: an abstract specification of the object store that ObjectUpload implements
   for contents with one uploader.
3. Peer transfer and object owners, composed with the online table: a hint names
   a machine that was online and had stored the object; FileSync's missing
   objects then get a second source.
4. Backup and restore against running uploads; a timed loop of `fs_mode`.
