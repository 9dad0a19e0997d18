----------------------------- MODULE ObjectUpload -----------------------------
(***************************************************************************)
(* Chunked upload of content-addressed objects into the store of ONE       *)
(* tenant: FilePut, FileChunk and the completion of an upload in           *)
(* session.rs, the quota of state.rs, the plan it comes from (db.rs, and   *)
(* the upgrade call of admin.rs) and LocalObjectStore of nsmt-fs.          *)
(*                                                                         *)
(* A file is abstracted to the set of chunks of the right content that it  *)
(* holds: chunk i is written at offset i * CHUNK_SIZE, so a chunk that is  *)
(* not written is a hole or a missing tail. The file under object b is     *)
(* what b names (its SHA-256 is b) exactly when it holds all chunks of b.  *)
(* The part file is named after the blob only, so all sessions of the      *)
(* tenant that upload the same blob share it. The handlers use blocking    *)
(* file calls without a lock: what one session does between two of them is *)
(* visible to the others, hence one step per file operation.               *)
(***************************************************************************)
EXTENDS Naturals, FiniteSets, Functions

CONSTANTS
    Session,     \* the connections of the tenant
    Blob,        \* the objects
    Missing,     \* "no such file"
    Chunks,      \* number of chunks of each blob (0: the empty file)
    Size,        \* its size in bytes
    QuotaOf,     \* plan -> the limit of a tenant that has it
    FirstPlan,   \* the plan of the tenant when the server starts
    MayUpload,   \* the blobs each session uploads
    MaxPuts,     \* bound: number of FilePut frames
    MaxPlans,    \* bound: number of changes of the plan
    MaxCrashes   \* bound: number of times the server is killed

Plan == {"free", "pro"}

ASSUME UploadAssumption ==
    /\ Chunks \in [Blob -> Nat]
    /\ Size \in [Blob -> Nat]
    /\ QuotaOf \in [Plan -> Nat]
    /\ FirstPlan \in Plan
    /\ MaxPuts \in Nat
    /\ MaxPlans \in Nat
    /\ MaxCrashes \in Nat
    /\ MayUpload \in [Session -> SUBSET Blob]

VARIABLES
    phase,     \* where each session stands
    blob,      \* pending_upload: the blob,
    received,  \*   the chunks marked as received,
    count,     \*   and received_count
    buf,       \* the bytes read back from the part file
    temp,      \* tmp/<blob>.part
    store,     \* objects/<blob>
    usage,     \* usage_bytes of the tenant
    plan,      \* its plan in the user database
    limit,     \* session -> the limit that try_reserve_quota has read
    plans,     \* number of changes of the plan so far
    ceiling,   \* history: the highest limit so far
    acked,     \* client -> the blobs it was told are stored
    puts,      \* number of FilePut frames so far
    crashes,   \* number of times the server was killed so far
    torn       \* history: the blobs that were being written at such a moment

vars == <<phase, blob, received, count, buf, temp, store, usage, plan, limit, plans, ceiling,
          acked, puts, crashes, torn>>
planVars == <<plan, plans, ceiling>>
quotaVars == <<usage, limit, planVars>>
pendingVars == <<blob, received, count>>
crashVars == <<crashes, torn>>

Phase == {"idle", "reserve", "upload", "read", "exists", "create", "write", "clean", "closed"}

Index(b) == 0 .. Chunks[b] - 1
File(b) == SUBSET Index(b)

\* The absence of a file is told apart from every file.
ASSUME MissingAssumption == \A b \in Blob : \A f \in File(b) : f # Missing

TypeOK ==
    /\ phase \in [Session -> Phase]
    /\ blob \in [Session -> Blob]
    /\ received \in [Session -> SUBSET Nat]
    /\ \A s \in Session : received[s] \in File(blob[s])
    /\ count \in [Session -> Nat]
    /\ buf \in [Session -> SUBSET Nat]
    /\ \A s \in Session : buf[s] \in File(blob[s])
    /\ temp \in [Blob -> {Missing} \cup SUBSET Nat]
    /\ store \in [Blob -> {Missing} \cup SUBSET Nat]
    /\ \A b \in Blob : {temp[b], store[b]} \subseteq {Missing} \cup File(b)
    /\ usage \in Nat
    /\ plan \in Plan
    /\ limit \in [Session -> Nat]
    /\ plans \in 0 .. MaxPlans
    /\ ceiling \in Nat
    /\ acked \in [Session -> SUBSET Blob]
    /\ puts \in 0 .. MaxPuts
    /\ crashes \in 0 .. MaxCrashes
    /\ torn \subseteq Blob

Init ==
    /\ phase = [s \in Session |-> "idle"]
    /\ blob \in [Session -> Blob]
    /\ received = [s \in Session |-> {}]
    /\ count = [s \in Session |-> 0]
    /\ buf = [s \in Session |-> {}]
    /\ temp = [b \in Blob |-> Missing]
    /\ store = [b \in Blob |-> Missing]
    /\ usage = 0
    /\ plan = FirstPlan
    /\ limit = [s \in Session |-> 0]
    /\ plans = 0
    /\ ceiling = QuotaOf[plan]
    /\ acked = [s \in Session |-> {}]
    /\ puts = 0
    /\ crashes = 0
    /\ torn = {}

\* Session s is at phase "from" and goes on to phase "to".
Goto(s, from, to) == phase[s] = from /\ phase' = [phase EXCEPT ![s] = to]

-----------------------------------------------------------------------------
(* FilePut *)

\* A mutant of FilePut that keeps the marks of the previous upload.
FilePutKeepingMarks(s, b) ==
    /\ Goto(s, "idle", "reserve")
    /\ puts < MaxPuts
    /\ limit' = [limit EXCEPT ![s] = QuotaOf[plan]]
    /\ blob' = [blob EXCEPT ![s] = b]
    /\ puts' = puts + 1
    /\ UNCHANGED <<received, count, buf, temp, store, usage, planVars, acked, crashVars>>

\* FilePut arrives: quota_for reads the plan, and waits for the database.
FilePut(s, b) ==
    /\ Goto(s, "idle", "reserve")
    /\ puts < MaxPuts
    /\ limit' = [limit EXCEPT ![s] = QuotaOf[plan]]
    /\ blob' = [blob EXCEPT ![s] = b]
    /\ received' = [received EXCEPT ![s] = {}]
    /\ count' = [count EXCEPT ![s] = 0]
    /\ buf' = [buf EXCEPT ![s] = {}]
    /\ puts' = puts + 1
    /\ UNCHANGED <<temp, store, usage, planVars, acked, crashVars>>

\* A mutant of the quota that lets the upload that crosses the limit pass.
FitsBeforeAdding(s) == usage < limit[s]

\* try_reserve_quota: the bytes of the upload fit under the limit it has read.
Fits(s) == usage + Size[blob[s]] <= limit[s]

\* It is accepted: the bytes are charged, an old part file is removed and the
\* upload starts with no chunk received.
FilePutAccepted(s) ==
    /\ Goto(s, "reserve", "upload")
    /\ Fits(s)
    /\ usage' = usage + Size[blob[s]]
    /\ limit' = [limit EXCEPT ![s] = 0]
    /\ temp' = [temp EXCEPT ![blob[s]] = Missing]
    /\ UNCHANGED <<pendingVars, buf, store, planVars, acked, puts, crashVars>>

\* It is refused with quota_exceeded: nothing changes, the client goes on.
FilePutRefused(s) ==
    /\ Goto(s, "reserve", "idle")
    /\ ~Fits(s)
    /\ limit' = [limit EXCEPT ![s] = 0]
    /\ UNCHANGED <<pendingVars, buf, temp, store, usage, planVars, acked, puts, crashVars>>

\* The administrator changes the plan of the user (upgrade_user, set_plan): the
\* limit follows, also below what is stored, and uploads that have read the old one
\* go by that.
SetPlan(p) ==
    /\ plans < MaxPlans
    /\ p # plan
    /\ plan' = p
    /\ plans' = plans + 1
    /\ ceiling' = IF QuotaOf[p] > ceiling THEN QuotaOf[p] ELSE ceiling
    /\ UNCHANGED <<phase, pendingVars, buf, temp, store, usage, limit, acked, puts, crashVars>>

-----------------------------------------------------------------------------
(* FileChunk *)

\* The chunks of a file after chunk i was written; write creates the file.
Written(f, i) == (IF f = Missing THEN {} ELSE f) \cup {i}

\* A mutant of the guard that takes a chunk again that was already counted.
AnyIndex(s, i) == i \in Index(blob[s])

\* handle_chunk ignores an index out of range and a chunk already received.
Fresh(s, i) == i \in Index(blob[s]) \ received[s]

\* A mutant of the completion test: one chunk early.
AlmostComplete(s) == count'[s] + 1 >= Chunks[blob[s]]

\* A mutant of the completion test: one chunk late.
PastComplete(s) == count'[s] > Chunks[blob[s]]

\* The upload is complete: as many chunks were counted as were announced. The
\* test is made only after a chunk.
Complete(s) == count'[s] = Chunks[blob[s]]

\* A chunk arrives: it is written to the part file, marked and counted; when all
\* are there the session turns to completing the upload.
FileChunk(s, i) ==
    /\ phase[s] = "upload"
    /\ Fresh(s, i)
    /\ temp' = [temp EXCEPT ![blob[s]] = Written(@, i)]
    /\ received' = [received EXCEPT ![s] = @ \cup {i}]
    /\ count' = [count EXCEPT ![s] = @ + 1]
    /\ phase' = IF Complete(s) THEN [phase EXCEPT ![s] = "read"] ELSE phase
    /\ UNCHANGED <<blob, buf, store, quotaVars, acked, puts, crashVars>>

-----------------------------------------------------------------------------
(* Completion: read the part file, put_object, remove the part file, ack *)

\* The part file is read back.
ReadTemp(s) ==
    /\ temp[blob[s]] # Missing
    /\ Goto(s, "read", "exists")
    /\ buf' = [buf EXCEPT ![s] = temp[blob[s]]]
    /\ UNCHANGED <<pendingVars, temp, store, quotaVars, acked, puts, crashVars>>

\* A mutant of the failed read: the upload is acknowledged all the same.
ReadTempFailsAcked(s) ==
    /\ temp[blob[s]] = Missing
    /\ Goto(s, "read", "idle")
    /\ acked' = [acked EXCEPT ![s] = @ \cup {blob[s]}]
    /\ UNCHANGED <<pendingVars, buf, temp, store, quotaVars, puts, crashVars>>

\* The part file is gone (another session removed it): the error ends the session.
ReadTempFails(s) ==
    /\ temp[blob[s]] = Missing
    /\ Goto(s, "read", "closed")
    /\ UNCHANGED <<pendingVars, buf, temp, store, quotaVars, acked, puts, crashVars>>

\* put: an object that exists is left as it is.
PutExists(s) ==
    /\ store[blob[s]] # Missing
    /\ Goto(s, "exists", "clean")
    /\ UNCHANGED <<pendingVars, buf, temp, store, quotaVars, acked, puts, crashVars>>

\* put: no such object.
PutAbsent(s) ==
    /\ store[blob[s]] = Missing
    /\ Goto(s, "exists", "create")
    /\ UNCHANGED <<pendingVars, buf, temp, store, quotaVars, acked, puts, crashVars>>

\* std::fs::write, first half: the file is created, or truncated.
PutCreate(s) ==
    /\ Goto(s, "create", "write")
    /\ store' = [store EXCEPT ![blob[s]] = {}]
    /\ UNCHANGED <<pendingVars, buf, temp, quotaVars, acked, puts, crashVars>>

\* std::fs::write, second half: the bytes.
PutWrite(s) ==
    /\ Goto(s, "write", "clean")
    /\ store' = [store EXCEPT ![blob[s]] = buf[s]]
    /\ UNCHANGED <<pendingVars, buf, temp, quotaVars, acked, puts, crashVars>>

\* The part file is removed and FilePutAck{completed} is sent.
CleanAck(s) ==
    /\ Goto(s, "clean", "idle")
    /\ temp' = [temp EXCEPT ![blob[s]] = Missing]
    /\ acked' = [acked EXCEPT ![s] = @ \cup {blob[s]}]
    /\ UNCHANGED <<pendingVars, buf, store, quotaVars, puts, crashVars>>

-----------------------------------------------------------------------------
(* Failures *)

\* The connection is lost between two frames: the session ends, its
\* pending_upload is dropped, the part file stays and nothing is refunded.
Disconnect(s) ==
    /\ phase[s] \in {"idle", "upload"}
    /\ phase' = [phase EXCEPT ![s] = "closed"]
    /\ UNCHANGED <<pendingVars, buf, temp, store, quotaVars, acked, puts, crashVars>>

\* The client connects again.
Reconnect(s) ==
    /\ Goto(s, "closed", "idle")
    /\ UNCHANGED <<pendingVars, buf, temp, store, quotaVars, acked, puts, crashVars>>

\* The server is killed: sessions and usage_bytes are in memory, files stay. An
\* object that was created and not yet written keeps what it has.
Crash ==
    /\ crashes < MaxCrashes
    /\ crashes' = crashes + 1
    /\ torn' = torn \cup {blob[s] : s \in {t \in Session : phase[t] = "write"}}
    /\ phase' = [s \in Session |-> "closed"]
    /\ usage' = 0
    /\ limit' = [s \in Session |-> 0]
    /\ UNCHANGED <<pendingVars, buf, temp, store, planVars, acked, puts>>

\* Everything the server's session s does on its own to complete an upload.
Finish(s) ==
    \/ ReadTemp(s)
    \/ ReadTempFails(s)
    \/ PutExists(s)
    \/ PutAbsent(s)
    \/ PutCreate(s)
    \/ PutWrite(s)
    \/ CleanAck(s)

Upload(s) == \E i \in 0 .. Chunks[blob[s]] : FileChunk(s, i)

Next ==
    \/ \E s \in Session :
          \/ \E b \in MayUpload[s] : FilePut(s, b)
          \/ FilePutAccepted(s)
          \/ FilePutRefused(s)
          \/ Upload(s)
          \/ Finish(s)
          \/ Disconnect(s)
          \/ Reconnect(s)
    \/ \E p \in Plan : SetPlan(p)
    \/ Crash

Spec == Init /\ [][Next]_vars

\* The client sends all chunks of an accepted upload without waiting, QUIC
\* delivers them while the connection lives, and the session's task is polled.
FairSpec ==
    /\ Spec
    /\ \A s \in Session : WF_vars(Upload(s)) /\ WF_vars(Finish(s))

-----------------------------------------------------------------------------
(* Properties *)

\* The bytes stored as b are the content whose SHA-256 is b.
Intact(b) == store[b] = Index(b)

\* Nobody but one session uploads b.
Sole(b) == \A s, t \in Session : b \in MayUpload[s] \cap MayUpload[t] => s = t

\* An acknowledged object that one session alone uploads has its whole content:
\* neither a repeated upload, a lost connection nor the uploads of other sessions
\* damages it, and a crash damages no object but those being written at that moment.
SoleIntact == \A s \in Session : \A b \in acked[s] \ torn : Sole(b) => Intact(b)

\* An object that a client was told is stored is there, damaged or not, even if
\* several sessions uploaded it at once, removed each other's part files, or the
\* server was killed in between.
AckedPresent == \A s \in Session : \A b \in acked[s] : store[b] # Missing

\* Such an object, while nobody is writing it, is absent or has its whole content,
\* acknowledged or not.
StoredIntact ==
    \A b \in Blob \ torn : Sole(b) =>
        \/ store[b] = Missing
        \/ Intact(b)
        \/ \E s \in Session : phase[s] = "write" /\ blob[s] = b

\* The bytes of the objects in the store.
StoredBytes == SumFunctionOnSet(Size, {b \in Blob : store[b] # Missing})

\* The objects of a tenant never take more bytes than the highest quota it has had,
\* for every life of the server: usage_bytes starts again at zero, but what was
\* charged before a crash is not stored after it; and two uploads at once, or a plan
\* that changes between the reading of the limit and the charge, exceed nothing.
StorageWithinQuota == StoredBytes <= (1 + crashes) * ceiling

\* An accepted upload of a file that is not empty comes to an end: it is
\* acknowledged, or its session ends. (An empty file has no chunk, so that the
\* completion test is never made and the client waits until it disconnects.)
UploadEnds ==
    \A s \in Session :
        (phase[s] = "upload" /\ Chunks[blob[s]] > 0) ~> (phase[s] \in {"idle", "closed"})
=============================================================================
