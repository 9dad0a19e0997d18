------------------------------ MODULE MemoryPool ------------------------------
(***************************************************************************)
(* Shared memory: the capture and recall commands of yggd and the note     *)
(* about the share directory (nsmt-client main.rs, memory.rs), the two     *)
(* handlers of the server's session (session.rs), the sharded pool         *)
(* (nsmt-server memory.rs) and the HTTP client of a gateway (nsmt-memory). *)
(*                                                                         *)
(* Gateways are external: the shards of the pool and one local gateway for *)
(* each client, which is named like the client. A gateway keeps what it    *)
(* has recorded and may answer, refuse, or be so slow that the caller's    *)
(* time is up, after which the request has been recorded or not. A client  *)
(* sends one request and waits for its answer.                             *)
(***************************************************************************)
EXTENDS Naturals, FiniteSets

CONSTANTS
    Client,      \* the machines that run yggd
    Shard,       \* the gateways of the pool
    ShardOf,     \* client -> the shard its fqn is hashed to
    Limits,      \* the limits that recalls ask for
    MaxCaptures  \* bound: number of capture commands

ASSUME PoolAssumption ==
    /\ Shard # {}
    /\ Shard \cap Client = {}
    /\ ShardOf \in [Client -> Shard]
    /\ Limits \subseteq Nat
    /\ MaxCaptures \in Nat

Results == {"recorded", "nothing", "error"}

Gateway == Shard \cup Client

\* A capture is [by, no]; number 0 is the note about the share directory of a client.
Note == [by : Client, no : 0 .. MaxCaptures]
Answer == [st : {"none", "asked", "failed", "ok"}, notes : SUBSET Note]
Printed == [source : {"none", "pool", "local"}, notes : SUBSET Note, cut : BOOLEAN]

VARIABLES
    kept,     \* gateway -> the notes it has recorded
    pc,       \* client -> its position
    marker,   \* client -> share.path has been written
    note,     \* client -> the note that it captures
    shards,   \* client -> shard -> the result of the task that asks it
    printed,  \* client -> source and notes of the last recall
    captures, \* number of capture commands so far
    \* history
    told,     \* the notes whose capture was answered with committed
    before    \* client -> those of them that came before its recall

vars == <<kept, pc, marker, note, shards, printed, captures, told, before>>

NothingAsked == [s \in Shard |-> [st |-> "none", notes |-> {}]]
NotPrinted == [source |-> "none", notes |-> {}, cut |-> FALSE]

TypeOK ==
    /\ kept \in [Gateway -> SUBSET Note]
    /\ pc \in [Client -> {"off", "note", "notelocal", "ready", "capture", "local", "recall",
                          "fallback", "show"}]
    /\ marker \in [Client -> BOOLEAN]
    /\ note \in [Client -> Note]
    /\ shards \in [Client -> [Shard -> Answer]]
    /\ printed \in [Client -> Printed]
    /\ captures \in 0 .. MaxCaptures
    /\ told \subseteq Note
    /\ before \in [Client -> SUBSET Note]

Init ==
    /\ kept = [g \in Gateway |-> {}]
    /\ pc = [c \in Client |-> "off"]
    /\ marker = [c \in Client |-> FALSE]
    /\ note = [c \in Client |-> [by |-> c, no |-> 0]]
    /\ shards = [c \in Client |-> NothingAsked]
    /\ printed = [c \in Client |-> NotPrinted]
    /\ captures = 0
    /\ told = {}
    /\ before = [c \in Client |-> {}]

-----------------------------------------------------------------------------
(* The process of a client *)

\* yggd connects; without the marker it first sends the note about its directory.
Start(c) ==
    /\ pc[c] = "off"
    /\ pc' = [pc EXCEPT ![c] = IF marker[c] THEN "ready" ELSE "note"]
    /\ UNCHANGED <<kept, marker, note, shards, printed, captures, told, before>>

\* The process ends. The session ends with it, and the tasks that still ask shards
\* are of no use to anybody.
Leave(c) ==
    /\ pc' = [pc EXCEPT ![c] = "off"]
    /\ note' = [note EXCEPT ![c] = [by |-> c, no |-> 0]]
    /\ shards' = [shards EXCEPT ![c] = NothingAsked]
    /\ printed' = [printed EXCEPT ![c] = NotPrinted]
    /\ before' = [before EXCEPT ![c] = {}]

\* A call whose caller no longer waits: the gateway may have recorded it.
GivenUp(g, n) == \E K \in {{}, {n}} : kept' = [kept EXCEPT ![g] = @ \cup K]

\* The command is done, failed, or was stopped.
Stop(c) ==
    /\ pc[c] # "off"
    /\ Leave(c)
    /\ \/ pc[c] \in {"note", "capture"} /\ GivenUp(ShardOf[c], note[c])
       \/ pc[c] \in {"notelocal", "local"} /\ GivenUp(c, note[c])
       \/ pc[c] \in {"ready", "recall", "fallback", "show"} /\ UNCHANGED kept
    /\ UNCHANGED <<marker, captures, told>>

-----------------------------------------------------------------------------
(* Capture *)

\* The call of gateway g to record n, as TencentClient::capture sees it: recorded
\* something (l0_recorded > 0), or nothing, or an error, among them that the time
\* of 1.5 s is up.
Recorded(g, n, result) ==
    \/ result = "recorded" /\ kept' = [kept EXCEPT ![g] = @ \cup {n}]
    \/ result = "nothing" /\ UNCHANGED kept
    \/ result = "error" /\ GivenUp(g, n)

\* A mutant of the handler that answers committed whenever the gateway answered.
CommittedIfAnswered(result) == result # "error"

\* MemoryCaptureResult.committed.
Committed(result) == result = "recorded"

\* `yggd capture`.
Capture(c) ==
    /\ pc[c] = "ready"
    /\ captures < MaxCaptures
    /\ captures' = captures + 1
    /\ note' = [note EXCEPT ![c] = [by |-> c, no |-> captures + 1]]
    /\ pc' = [pc EXCEPT ![c] = "capture"]
    /\ UNCHANGED <<kept, marker, shards, printed, told, before>>

\* The server's handler: MemoryPool::capture to the shard of the fqn, and the
\* answer. The client then writes to its local gateway, whatever it was told.
PoolCapture(c) ==
    /\ pc[c] \in {"note", "capture"}
    /\ \E result \in Results :
          /\ Recorded(ShardOf[c], note[c], result)
          /\ told' = IF Committed(result) THEN told \cup {note[c]} ELSE told
    /\ pc' = [pc EXCEPT ![c] = IF @ = "note" THEN "notelocal" ELSE "local"]
    /\ UNCHANGED <<marker, note, shards, printed, captures, before>>

\* capture_local; a failure is only logged.
LocalCall(c) == \E result \in Results : Recorded(c, note[c], result)

\* write_share_dir_note ends: the marker is written, whatever the answers were.
NoteLocal(c) ==
    /\ pc[c] = "notelocal"
    /\ LocalCall(c)
    /\ marker' = [marker EXCEPT ![c] = TRUE]
    /\ pc' = [pc EXCEPT ![c] = "ready"]
    /\ UNCHANGED <<note, shards, printed, captures, told, before>>

\* capture ends.
CaptureLocal(c) ==
    /\ pc[c] = "local"
    /\ LocalCall(c)
    /\ Leave(c)
    /\ UNCHANGED <<marker, captures, told>>

-----------------------------------------------------------------------------
(* Recall *)

\* `yggd recall`: the server asks every shard in a task of its own.
Recall(c) ==
    /\ pc[c] = "ready"
    /\ shards' = [shards EXCEPT ![c] = [s \in Shard |-> [st |-> "asked", notes |-> {}]]]
    /\ before' = [before EXCEPT ![c] = told]
    /\ pc' = [pc EXCEPT ![c] = "recall"]
    /\ UNCHANGED <<kept, marker, note, printed, captures, told>>

\* A shard answers a task with the context it has.
ShardAnswers(c, s) ==
    /\ shards[c][s].st = "asked"
    /\ shards' = [shards EXCEPT ![c][s] = [st |-> "ok", notes |-> kept[s]]]
    /\ UNCHANGED <<kept, pc, marker, note, printed, captures, told, before>>

\* Or it answers with an error.
ShardRefuses(c, s) ==
    /\ shards[c][s].st = "asked"
    /\ shards' = [shards EXCEPT ![c][s].st = "failed"]
    /\ UNCHANGED <<kept, pc, marker, note, printed, captures, told, before>>

\* A mutant of the pool that stops a slow call only when another shard has answered.
TimeUpLate(c, s) == (\E t \in Shard \ {s} : shards[c][t].st # "asked") /\ ShardRefuses(c, s)

\* The time of the call is up.
TimeUp(c, s) == ShardRefuses(c, s)

\* The shards that failed, and those that gave a context to c's recall.
Failed(c) == {s \in Shard : shards[c][s].st = "failed"}
Hits(c) == {s \in Shard \ Failed(c) : shards[c][s].notes # {}}

AtLeastOne(n) == IF n = 0 THEN 1 ELSE n
Least(m, n) == IF m < n THEN m ELSE n

\* A mutant of the pool's answer: one shard that failed makes it unavailable.
PoolUnavailableAny(c) == Failed(c) # {}

\* source is "pool_unavailable" if all shards failed.
PoolUnavailable(c) == Failed(c) = Shard

\* What the user sees: notes, and whether more were cut off.
Show(c, source, notes, cut) ==
    /\ printed' = [printed EXCEPT ![c] = [source |-> source, notes |-> notes, cut |-> cut]]
    /\ pc' = [pc EXCEPT ![c] = "show"]

\* All tasks are done: the contexts are sorted by their text, which the model does
\* not know, and cut to the limit. The client prints them, or falls back.
RecallReply(c) ==
    /\ pc[c] = "recall"
    /\ \A s \in Shard : shards[c][s].st # "asked"
    /\ IF PoolUnavailable(c) \/ Hits(c) = {}
       THEN pc' = [pc EXCEPT ![c] = "fallback"] /\ UNCHANGED printed
       ELSE \E H \in SUBSET Hits(c), limit \in Limits :
               /\ Cardinality(H) = Least(Cardinality(Hits(c)), AtLeastOne(limit))
               /\ Show(c, "pool", UNION {shards[c][s].notes : s \in H}, H # Hits(c))
    /\ before' = [before EXCEPT ![c] = {n \in @ : ShardOf[n.by] \notin Failed(c)}]
    /\ shards' = [shards EXCEPT ![c] = NothingAsked]
    /\ UNCHANGED <<kept, marker, note, captures, told>>

\* recall_local: the local gateway's answer is printed.
Fallback(c) ==
    /\ pc[c] = "fallback"
    /\ Show(c, "local", kept[c], FALSE)
    /\ UNCHANGED <<kept, marker, note, shards, captures, told, before>>

\* An error of the local gateway ends the command.
FallbackFails(c) ==
    /\ pc[c] = "fallback"
    /\ Leave(c)
    /\ UNCHANGED <<kept, marker, captures, told>>

-----------------------------------------------------------------------------
Work(c) ==
    \/ PoolCapture(c) \/ NoteLocal(c) \/ CaptureLocal(c)
    \/ RecallReply(c) \/ Fallback(c) \/ FallbackFails(c)

Ask(c, s) == ShardAnswers(c, s) \/ ShardRefuses(c, s) \/ TimeUp(c, s)

Next ==
    \/ \E c \in Client : Start(c) \/ Stop(c) \/ Capture(c) \/ Recall(c) \/ Work(c)
    \/ \E c \in Client, s \in Shard : Ask(c, s)

Spec == Init /\ [][Next]_vars

\* The server's and the client's tasks and timers go on; gateways owe nothing, not
\* even a refusal.
FairSpec ==
    /\ Spec
    /\ \A c \in Client : WF_vars(Work(c))
    /\ \A c \in Client, s \in Shard : WF_vars(TimeUp(c, s))

-----------------------------------------------------------------------------
(* Properties *)

\* A capture that was answered with committed is in the shard of its client's fqn,
\* where every recall looks for it: a slow or refusing gateway is not taken for one
\* that recorded.
CommittedIsKept == \A n \in told : n \in kept[ShardOf[n.by]]

\* A recall shows every note whose capture had been confirmed to any client before
\* the recall was sent, unless the shard of the note failed in this very recall or
\* the answer was cut to the limit: neither the failure of other shards nor the
\* fallback to the local memory hides it.
RecallComplete ==
    \A c \in Client :
        pc[c] = "show" => before[c] \subseteq printed[c].notes \/ printed[c].cut

\* Every request is answered, whichever gateways hang and for however long.
Answered ==
    \A c \in Client : pc[c] \in {"note", "capture", "recall"} ~> pc[c] \notin {"note", "capture", "recall"}
=============================================================================
