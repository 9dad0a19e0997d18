-------------------------- MODULE ObjectUploadProofs --------------------------
(***************************************************************************)
(* Proofs about ObjectUpload, for any number of sessions, blobs, chunks,   *)
(* plans, crashes and any sizes and quotas. Session, Blob and what each    *)
(* session uploads need not be finite.                                     *)
(***************************************************************************)
EXTENDS ObjectUpload, FiniteSetTheorems, TLAPS

-----------------------------------------------------------------------------
(* Types *)

\* The indices of the chunks of a blob are finitely many natural numbers, and a
\* file is not the absence of one.
LEMMA IndexFacts ==
    ASSUME NEW b \in Blob
    PROVE  /\ Index(b) \in SUBSET Nat
           /\ IsFiniteSet(Index(b)) /\ Cardinality(Index(b)) = Chunks[b]
           /\ File(b) \subseteq SUBSET Nat
           /\ {} \in File(b) /\ Index(b) \in File(b)
           /\ \A f \in File(b) : f # Missing
<1>1. Chunks[b] \in Nat
  BY UploadAssumption
<1>2. Index(b) \in SUBSET Nat
  BY <1>1 DEF Index
<1>3. IsFiniteSet(Index(b)) /\ Cardinality(Index(b)) = Chunks[b]
  BY <1>1, FS_Interval DEF Index
<1>. QED
  BY <1>2, <1>3, MissingAssumption DEF File

\* The initial state has the types.
LEMMA InitTyped == Init => TypeOK
<1> SUFFICES ASSUME Init PROVE TypeOK
  OBVIOUS
<1>1. \A b \in Blob : {} \in File(b)
  BY IndexFacts
<1>. QED
  BY <1>1, UploadAssumption DEF Init, TypeOK, Phase, Plan

\* Each step keeps the types.
LEMMA TypeStep == TypeOK /\ [Next]_vars => TypeOK'
<1> SUFFICES ASSUME TypeOK, [Next]_vars PROVE TypeOK'
  OBVIOUS
<1>c. /\ QuotaOf \in [Plan -> Nat] /\ Size \in [Blob -> Nat] /\ MaxPuts \in Nat
      /\ MaxPlans \in Nat /\ MaxCrashes \in Nat /\ MayUpload \in [Session -> SUBSET Blob]
  BY UploadAssumption
<1>f. \A b \in Blob : /\ {} \in File(b) /\ File(b) \subseteq SUBSET Nat
                      /\ \A f \in File(b) : f # Missing
  BY IndexFacts
<1> USE DEF quotaVars, planVars, pendingVars, crashVars
<1>1. ASSUME NEW s \in Session, NEW b \in MayUpload[s], FilePut(s, b)
      PROVE  TypeOK'
  <2>1. b \in Blob /\ QuotaOf[plan] \in Nat /\ puts' \in 0 .. MaxPuts
    <3>1. puts \in 0 .. MaxPuts /\ puts < MaxPuts /\ puts' = puts + 1
      BY <1>1 DEF FilePut, TypeOK
    <3>2. b \in Blob /\ plan \in Plan
      BY <1>c DEF TypeOK
    <3>. QED  BY <3>1, <3>2, <1>c
  <2>2. /\ phase' \in [Session -> Phase] /\ blob' \in [Session -> Blob]
        /\ received' \in [Session -> SUBSET Nat] /\ buf' \in [Session -> SUBSET Nat]
        /\ count' \in [Session -> Nat] /\ limit' \in [Session -> Nat]
    BY <1>1, <2>1 DEF FilePut, Goto, TypeOK, Phase
  <2>3. \A t \in Session : received'[t] \in File(blob'[t]) /\ buf'[t] \in File(blob'[t])
    BY <1>1, <2>1, <1>f DEF FilePut, TypeOK
  <2>. QED  BY <1>1, <2>1, <2>2, <2>3 DEF FilePut, TypeOK, File, Index
<1>2. ASSUME NEW s \in Session, FilePutAccepted(s)
      PROVE  TypeOK'
  <2>1. blob[s] \in Blob /\ usage' \in Nat
    <3>1. usage \in Nat /\ blob[s] \in Blob /\ usage' = usage + Size[blob[s]]
      BY <1>2 DEF FilePutAccepted, TypeOK
    <3>. QED  BY <3>1, <1>c
  <2>2. /\ temp' \in [Blob -> {Missing} \cup SUBSET Nat]
        /\ \A b \in Blob : {temp'[b], store'[b]} \subseteq {Missing} \cup File(b)
    BY <1>2, <2>1 DEF FilePutAccepted, TypeOK
  <2>. QED  BY <1>2, <2>1, <2>2 DEF FilePutAccepted, Goto, TypeOK, Phase
<1>3. ASSUME NEW s \in Session, FilePutRefused(s)
      PROVE  TypeOK'
  BY <1>3 DEF FilePutRefused, Goto, TypeOK, Phase
<1>4. ASSUME NEW s \in Session, NEW i, FileChunk(s, i)
      PROVE  TypeOK'
  BY <1>4, <1>f DEF FileChunk, Fresh, Written, File, TypeOK, Phase
<1>5. ASSUME NEW s \in Session, ReadTemp(s)
      PROVE  TypeOK'
  BY <1>5, <1>f DEF ReadTemp, Goto, TypeOK, Phase
<1>6. ASSUME NEW s \in Session,
             ReadTempFails(s) \/ PutExists(s) \/ PutAbsent(s) \/ Disconnect(s) \/ Reconnect(s)
      PROVE  TypeOK'
  BY <1>6 DEF ReadTempFails, PutExists, PutAbsent, Disconnect, Reconnect, Goto, TypeOK, Phase
<1>7. ASSUME NEW s \in Session, PutCreate(s)
      PROVE  TypeOK'
  BY <1>7, <1>f DEF PutCreate, Goto, TypeOK, Phase
<1>8. ASSUME NEW s \in Session, PutWrite(s)
      PROVE  TypeOK'
  BY <1>8, <1>f DEF PutWrite, Goto, TypeOK, Phase
<1>9. ASSUME NEW s \in Session, CleanAck(s)
      PROVE  TypeOK'
  BY <1>9, <1>f DEF CleanAck, Goto, TypeOK, Phase
<1>10. ASSUME NEW p \in Plan, SetPlan(p)
       PROVE  TypeOK'
  BY <1>10, <1>c DEF SetPlan, TypeOK
<1>11. CASE Crash
  BY <1>11, <1>c DEF Crash, TypeOK, Phase
<1>12. CASE UNCHANGED vars
  BY <1>12 DEF vars, TypeOK
<1>. QED
  BY <1>1, <1>2, <1>3, <1>4, <1>5, <1>6, <1>7, <1>8, <1>9, <1>10, <1>11, <1>12
     DEF Next, Finish, Upload

\* The types of the state hold in every reachable state: in particular a file never
\* holds a chunk beyond the end of its blob, and what is read back is no more.
THEOREM TypeCorrect == Spec => []TypeOK
  BY InitTyped, TypeStep, PTL DEF Spec
-----------------------------------------------------------------------------
(* What is stored *)

\* What can be read of a file that may be missing.
Held(f) == IF f = Missing THEN {} ELSE f

Active(s) == phase[s] \notin {"idle", "closed"}

\* What holds of every session: it works on a blob of its own list, counts what it
\* has marked, and is about to acknowledge only what is there.
Works(s) ==
    /\ Active(s) => blob[s] \in MayUpload[s]
    /\ acked[s] \subseteq MayUpload[s]
    /\ count[s] = Cardinality(received[s])
    /\ phase[s] = "reserve" => received[s] = {}
    /\ phase[s] = "clean" => store[blob[s]] # Missing

\* What holds beyond that of a session alone with its blob: every marked chunk is in
\* the part file, the complete part file and what is read from it are the blob, an
\* object is created only where there is none, hence never over an acknowledged one,
\* and one found in the store is whole unless a crash tore it.
WorksAlone(s) ==
    Sole(blob[s]) =>
        /\ phase[s] = "upload" => received[s] \subseteq Held(temp[blob[s]])
        /\ phase[s] = "read" => temp[blob[s]] = Index(blob[s])
        /\ phase[s] \in {"exists", "create", "write"} => buf[s] = Index(blob[s])
        /\ phase[s] = "create" => store[blob[s]] = Missing
        /\ phase[s] = "write" => \A t \in Session : blob[s] \notin acked[t]
        /\ phase[s] = "clean" => blob[s] \in torn \/ Intact(blob[s])

UploadInv ==
    /\ TypeOK
    /\ \A s \in Session : Works(s) /\ WorksAlone(s)
    /\ AckedPresent
    /\ SoleIntact
    /\ StoredIntact

\* At the start there are no files, and no session uploads.
LEMMA InitUpload == Init => UploadInv
<1> SUFFICES ASSUME Init PROVE UploadInv
  OBVIOUS
<1>1. TypeOK
  BY InitTyped
<1>2. ASSUME NEW s \in Session PROVE Works(s) /\ WorksAlone(s)
  BY <1>2, FS_EmptySet DEF Init, Works, WorksAlone, Active
<1>. QED
  BY <1>1, <1>2 DEF UploadInv, AckedPresent, SoleIntact, StoredIntact, Init

\* A step of session s touches its own state and the files of its own blob, and the
\* files only while it has an upload; no object disappears.
OwnStep(s) ==
    /\ \A t \in Session \ {s} :
          /\ phase'[t] = phase[t] /\ blob'[t] = blob[t] /\ received'[t] = received[t]
          /\ count'[t] = count[t] /\ buf'[t] = buf[t] /\ acked'[t] = acked[t]
    /\ \A b \in Blob : b # blob[s] \/ ~Active(s) => temp'[b] = temp[b] /\ store'[b] = store[b]
    /\ \A b \in Blob : store[b] # Missing => store'[b] # Missing
    /\ acked'[s] \subseteq acked[s] \cup (IF Active(s) THEN {blob[s]} ELSE {})
    /\ torn' = torn

\* Then the other sessions go on as before: one that is alone with its blob shares no
\* file with s.
LEMMA OthersWork ==
    ASSUME UploadInv, NEW s \in Session, OwnStep(s), NEW t \in Session, t # s
    PROVE  Works(t)' /\ WorksAlone(t)'
<1>1. Works(t) /\ WorksAlone(t) /\ Works(s) /\ blob[t] \in Blob
  BY DEF UploadInv, TypeOK
<1>2. /\ phase'[t] = phase[t] /\ blob'[t] = blob[t] /\ received'[t] = received[t]
      /\ count'[t] = count[t] /\ buf'[t] = buf[t] /\ acked'[t] = acked[t] /\ torn' = torn
  BY DEF OwnStep
<1>3. Works(t)'
  BY <1>1, <1>2 DEF Works, Active, OwnStep
<1>4. ASSUME Sole(blob[t]), Active(t)
      PROVE  /\ temp'[blob[t]] = temp[blob[t]] /\ store'[blob[t]] = store[blob[t]]
             /\ \A u \in Session : blob[t] \in acked'[u] => blob[t] \in acked[u]
  <2>1. blob[t] # blob[s] \/ ~Active(s)
    BY <1>1, <1>4 DEF Works, Sole
  <2>2. temp'[blob[t]] = temp[blob[t]] /\ store'[blob[t]] = store[blob[t]]
    BY <1>1, <2>1 DEF OwnStep
  <2>3. blob[t] \in acked'[s] => blob[t] \in acked[s]
    BY <2>1 DEF OwnStep
  <2>4. \A u \in Session \ {s} : acked'[u] = acked[u]
    BY DEF OwnStep
  <2>. QED  BY <2>2, <2>3, <2>4
<1>5. WorksAlone(t)'
  <2>1. SUFFICES ASSUME Sole(blob[t]), Active(t) PROVE WorksAlone(t)'
    BY <1>2 DEF WorksAlone, Active, Sole
  <2>. QED  BY <1>1, <1>2, <1>4, <2>1 DEF WorksAlone, Sole, Intact
<1>. QED  BY <1>3, <1>5

\* The invariant after a step of session s, from what the step does to its own state
\* and to the object of its own blob.
LEMMA OwnStepInv ==
    ASSUME UploadInv, TypeOK', NEW s \in Session, OwnStep(s), Works(s)', WorksAlone(s)',
           Sole(blob[s]) =>
               /\ \/ blob[s] \in torn
                  \/ store'[blob[s]] = Missing \/ store'[blob[s]] = Index(blob[s])
                  \/ phase'[s] = "write" /\ blob'[s] = blob[s]
                  \/ phase[s] # "write" /\ store'[blob[s]] = store[blob[s]]
               /\ \/ store'[blob[s]] = store[blob[s]]
                  \/ \A t \in Session : blob[s] \notin acked[t],
           blob[s] \in acked'[s] \ acked[s] =>
               /\ store'[blob[s]] # Missing
               /\ Sole(blob[s]) => blob[s] \in torn \/ store'[blob[s]] = Index(blob[s])
    PROVE  UploadInv'
<1>t. blob[s] \in Blob /\ torn' = torn /\ \A t \in Session : acked[t] \subseteq Blob /\ acked'[t] \subseteq Blob
  BY DEF UploadInv, TypeOK, OwnStep
<1>o. \A b \in Blob : b # blob[s] => store'[b] = store[b]
  BY DEF OwnStep
<1>a. \A t \in Session : \A b \in acked'[t] : b \in acked[t] \/ (t = s /\ b = blob[s])
  BY DEF OwnStep
<1>1. \A t \in Session : Works(t)' /\ WorksAlone(t)'
  BY OthersWork
<1>2. AckedPresent'
  <2> SUFFICES ASSUME NEW t \in Session, NEW b \in acked'[t] PROVE store'[b] # Missing
    BY DEF AckedPresent
  <2>1. CASE b \in acked[t]
    BY <2>1, <1>t DEF UploadInv, AckedPresent, OwnStep
  <2>2. CASE b \notin acked[t]
    BY <2>2, <1>a
  <2>. QED  BY <2>1, <2>2
<1>3. SoleIntact'
  <2> SUFFICES ASSUME NEW t \in Session, NEW b \in acked'[t], b \notin torn, Sole(b)
               PROVE  store'[b] = Index(b)
    BY <1>t DEF SoleIntact, Sole, Intact
  <2>1. CASE b \in acked[t]
    <3>1. Intact(b)
      BY <2>1 DEF UploadInv, SoleIntact
    <3>2. store'[b] = store[b]
      BY <2>1, <1>o, <1>t
    <3>. QED  BY <3>1, <3>2 DEF Intact
  <2>2. CASE b \notin acked[t]
    BY <2>2, <1>a
  <2>. QED  BY <2>1, <2>2
<1>4. StoredIntact'
  <2> SUFFICES ASSUME NEW b \in Blob, b \notin torn, Sole(b)
               PROVE  \/ store'[b] = Missing
                      \/ store'[b] = Index(b)
                      \/ \E u \in Session : phase'[u] = "write" /\ blob'[u] = b
    BY <1>t DEF StoredIntact, Sole, Intact
  <2>0. \/ store[b] = Missing \/ Intact(b)
        \/ \E u \in Session : phase[u] = "write" /\ blob[u] = b
    BY DEF UploadInv, StoredIntact
  <2>1. ASSUME store'[b] = store[b], b # blob[s] \/ phase[s] # "write"
        PROVE  \/ store'[b] = Missing \/ store'[b] = Index(b)
               \/ \E u \in Session : phase'[u] = "write" /\ blob'[u] = b
    <3>1. CASE store[b] = Missing \/ Intact(b)
      BY <3>1, <2>1 DEF Intact
    <3>2. ASSUME NEW u \in Session, phase[u] = "write", blob[u] = b
          PROVE  phase'[u] = "write" /\ blob'[u] = b
      BY <3>2, <2>1 DEF OwnStep
    <3>. QED  BY <3>1, <3>2, <2>0
  <2>2. CASE b # blob[s]
    BY <2>1, <2>2, <1>o
  <2>3. CASE b = blob[s]
    BY <2>1, <2>3
  <2>. QED  BY <2>2, <2>3
<1>. QED  BY <1>1, <1>2, <1>3, <1>4 DEF UploadInv
\* A chunk that is marked is one that was not marked before, so that the count
\* reaches the announced number only when the part file is whole.
LEMMA ChunkCounts ==
    ASSUME NEW b \in Blob, NEW r \in File(b), NEW i \in Index(b) \ r
    PROVE  /\ IsFiniteSet(r) /\ Cardinality(r) \in Nat
           /\ Cardinality(r \cup {i}) = Cardinality(r) + 1
           /\ Cardinality(r \cup {i}) = Chunks[b] => r \cup {i} = Index(b)
<1>1. IsFiniteSet(r) /\ Cardinality(r) \in Nat
  BY IndexFacts, FS_Subset, FS_CardinalityType DEF File
<1>2. Cardinality(r \cup {i}) = Cardinality(r) + 1
  BY <1>1, FS_AddElement
<1>3. r \cup {i} \in SUBSET Index(b) /\ IsFiniteSet(Index(b)) /\ Cardinality(Index(b)) = Chunks[b]
  BY IndexFacts DEF File
<1>4. Cardinality(r \cup {i}) = Chunks[b] => r \cup {i} = Index(b)
  BY <1>3, FS_Subset
<1>. QED  BY <1>1, <1>2, <1>4

\* Every step keeps the invariant.
LEMMA UploadStep == UploadInv /\ [Next]_vars => UploadInv'
<1> SUFFICES ASSUME UploadInv, [Next]_vars PROVE UploadInv'
  OBVIOUS
<1>t. TypeOK /\ TypeOK'
  BY TypeStep DEF UploadInv
<1>b. \A s \in Session : Works(s) /\ WorksAlone(s) /\ blob[s] \in Blob
  BY <1>t DEF UploadInv, TypeOK
<1>f. \A s \in Session : {} # Missing /\ buf[s] # Missing
  BY <1>t, <1>b, IndexFacts DEF TypeOK
<1> USE DEF quotaVars, planVars, pendingVars, crashVars, Goto
<1>1. ASSUME NEW s \in Session, NEW b \in MayUpload[s], FilePut(s, b)
      PROVE  UploadInv'
  <2>1. OwnStep(s) /\ ~Active(s) /\ store' = store /\ acked' = acked /\ phase[s] # "write"
    BY <1>1, <1>t DEF FilePut, OwnStep, Active, TypeOK
  <2>2. /\ phase'[s] = "reserve" /\ blob'[s] = b /\ received'[s] = {} /\ count'[s] = 0
    BY <1>1, <1>t DEF FilePut, TypeOK
  <2>3. Works(s)' /\ WorksAlone(s)'
    BY <2>1, <2>2, <1>b, FS_EmptySet DEF Works, WorksAlone, Active
  <2>. QED  BY <2>1, <2>3, <1>t, OwnStepInv
<1>2. ASSUME NEW s \in Session, FilePutAccepted(s)
      PROVE  UploadInv'
  <2>1. OwnStep(s) /\ store' = store /\ acked' = acked /\ phase[s] # "write"
    BY <1>2, <1>t DEF FilePutAccepted, OwnStep, Active, TypeOK
  <2>2. /\ phase[s] = "reserve" /\ phase'[s] = "upload" /\ blob'[s] = blob[s]
        /\ received'[s] = received[s] /\ count'[s] = count[s]
    BY <1>2, <1>t DEF FilePutAccepted, TypeOK
  <2>3. Works(s)' /\ WorksAlone(s)'
    BY <2>1, <2>2, <1>b DEF Works, WorksAlone, Active
  <2>. QED  BY <2>1, <2>3, <1>t, OwnStepInv
<1>3. ASSUME NEW s \in Session,
             FilePutRefused(s) \/ ReadTempFails(s) \/ Disconnect(s) \/ Reconnect(s)
      PROVE  UploadInv'
  <2>1. /\ store' = store /\ temp' = temp /\ acked' = acked /\ torn' = torn
        /\ blob' = blob /\ received' = received /\ count' = count /\ buf' = buf
        /\ phase[s] # "write"
        /\ \E to \in {"idle", "closed"} : phase' = [phase EXCEPT ![s] = to]
    BY <1>3 DEF FilePutRefused, ReadTempFails, Disconnect, Reconnect
  <2>2. phase'[s] \in {"idle", "closed"} /\ \A t \in Session \ {s} : phase'[t] = phase[t]
    BY <2>1, <1>t DEF TypeOK
  <2>3. OwnStep(s)
    BY <2>1, <2>2 DEF OwnStep
  <2>4. Works(s)' /\ WorksAlone(s)'
    BY <2>1, <2>2, <1>b DEF Works, WorksAlone, Active
  <2>. QED  BY <2>1, <2>3, <2>4, <1>t, OwnStepInv
<1>4. ASSUME NEW s \in Session, NEW i, FileChunk(s, i)
      PROVE  UploadInv'
  <2>1. /\ phase[s] = "upload" /\ i \in Index(blob[s]) \ received[s]
        /\ temp'[blob[s]] = Held(temp[blob[s]]) \cup {i}
        /\ received'[s] = received[s] \cup {i} /\ count'[s] = count[s] + 1
        /\ UNCHANGED <<blob, buf, store, acked, torn>>
        /\ phase'[s] = IF count'[s] = Chunks[blob[s]] THEN "read" ELSE "upload"
        /\ \A t \in Session \ {s} : /\ phase'[t] = phase[t] /\ received'[t] = received[t]
                                   /\ count'[t] = count[t]
        /\ \A b \in Blob : b # blob[s] => temp'[b] = temp[b]
    BY <1>4, <1>t, <1>b DEF FileChunk, Fresh, Written, Held, Complete, TypeOK
  <2>2. OwnStep(s)
    BY <2>1 DEF OwnStep, Active
  <2>3. received[s] \in File(blob[s])
    BY <1>t DEF TypeOK
  <2>4. /\ count'[s] = Cardinality(received'[s])
        /\ count'[s] = Chunks[blob[s]] => received'[s] = Index(blob[s])
    BY <2>1, <2>3, <1>b, ChunkCounts DEF Works
  <2>5. temp'[blob[s]] # Missing /\ temp'[blob[s]] \subseteq Index(blob[s])
    <3>1. Held(temp[blob[s]]) \subseteq Index(blob[s])
      BY <1>t, <1>b DEF Held, TypeOK, File
    <3>2. temp'[blob[s]] \in File(blob[s])
      BY <3>1, <2>1 DEF File
    <3>. QED  BY <3>2, <1>b, IndexFacts DEF File
  <2>6. Works(s)'
    BY <2>1, <2>4, <1>b DEF Works, Active
  <2>7. ASSUME Sole(blob[s]) PROVE received'[s] \subseteq temp'[blob[s]]
    BY <2>1, <2>7, <1>b DEF WorksAlone
  <2>8. WorksAlone(s)'
    <3>1. CASE count'[s] = Chunks[blob[s]]
      BY <2>1, <2>4, <2>5, <2>7, <3>1 DEF WorksAlone, Sole
    <3>2. CASE count'[s] # Chunks[blob[s]]
      BY <2>1, <2>5, <2>7, <3>2 DEF WorksAlone, Sole, Held
    <3>. QED  BY <3>1, <3>2
  <2>. QED  BY <2>1, <2>2, <2>6, <2>8, <1>t, OwnStepInv
<1>5. ASSUME NEW s \in Session, ReadTemp(s) \/ PutExists(s) \/ PutAbsent(s)
      PROVE  UploadInv'
  <2>1. /\ UNCHANGED <<blob, received, count, temp, store, acked, torn>>
        /\ Active(s) /\ phase[s] # "write"
        /\ \A t \in Session \ {s} : phase'[t] = phase[t] /\ buf'[t] = buf[t]
    BY <1>5, <1>t DEF ReadTemp, PutExists, PutAbsent, Active, TypeOK
  <2>2. OwnStep(s)
    BY <2>1 DEF OwnStep
  <2>3. \/ phase[s] = "read" /\ phase'[s] = "exists" /\ buf'[s] = temp[blob[s]]
        \/ /\ phase[s] = "exists" /\ phase'[s] = "clean"
           /\ store[blob[s]] # Missing /\ buf'[s] = buf[s]
        \/ /\ phase[s] = "exists" /\ phase'[s] = "create"
           /\ store[blob[s]] = Missing /\ buf'[s] = buf[s]
    BY <1>5, <1>t DEF ReadTemp, PutExists, PutAbsent, TypeOK
  <2>4. Works(s)'
    BY <2>1, <2>3, <1>b DEF Works, Active
  <2>5. ASSUME Sole(blob[s]), phase[s] = "exists", store[blob[s]] # Missing, blob[s] \notin torn
        PROVE  store[blob[s]] = Index(blob[s])
    <3>1. ASSUME NEW u \in Session, phase[u] = "write", blob[u] = blob[s]
          PROVE  FALSE
      <4>1. Active(u) /\ Active(s)
        BY <3>1, <2>1 DEF Active
      <4>2. u = s
        BY <4>1, <3>1, <2>5, <1>b DEF Works, Sole
      <4>. QED  BY <4>2, <3>1, <2>5
    <3>. QED  BY <3>1, <2>5, <1>b DEF UploadInv, StoredIntact, Intact
  <2>6. WorksAlone(s)'
    BY <2>1, <2>3, <2>5, <1>b DEF WorksAlone, Sole, Intact
  <2>. QED  BY <2>1, <2>2, <2>4, <2>6, <1>t, OwnStepInv
<1>6. ASSUME NEW s \in Session, PutCreate(s)
      PROVE  UploadInv'
  <2>1. /\ UNCHANGED <<blob, received, count, buf, temp, acked, torn>>
        /\ phase[s] = "create" /\ phase'[s] = "write" /\ store'[blob[s]] = {}
        /\ \A t \in Session \ {s} : phase'[t] = phase[t]
        /\ \A b \in Blob : b # blob[s] => store'[b] = store[b]
    BY <1>6, <1>t, <1>b DEF PutCreate, TypeOK
  <2>2. OwnStep(s)
    BY <2>1, <1>f DEF OwnStep, Active
  <2>3. Sole(blob[s]) => \A t \in Session : blob[s] \notin acked[t]
    BY <2>1, <1>b DEF WorksAlone, UploadInv, AckedPresent
  <2>4. Works(s)' /\ WorksAlone(s)'
    BY <2>1, <2>3, <1>b DEF Works, WorksAlone, Active, Sole
  <2>. QED  BY <2>1, <2>2, <2>3, <2>4, <1>t, OwnStepInv
<1>7. ASSUME NEW s \in Session, PutWrite(s)
      PROVE  UploadInv'
  <2>1. /\ UNCHANGED <<blob, received, count, buf, temp, acked, torn>>
        /\ phase[s] = "write" /\ phase'[s] = "clean" /\ store'[blob[s]] = buf[s]
        /\ \A t \in Session \ {s} : phase'[t] = phase[t]
        /\ \A b \in Blob : b # blob[s] => store'[b] = store[b]
    BY <1>7, <1>t, <1>b DEF PutWrite, TypeOK
  <2>2. OwnStep(s)
    BY <2>1, <1>f DEF OwnStep, Active
  <2>3. Sole(blob[s]) => /\ \A t \in Session : blob[s] \notin acked[t]
                         /\ store'[blob[s]] = Index(blob[s])
    BY <2>1, <1>b DEF WorksAlone
  <2>4. Works(s)' /\ WorksAlone(s)'
    BY <2>1, <2>3, <1>b, <1>f DEF Works, WorksAlone, Active, Sole, Intact
  <2>. QED  BY <2>1, <2>2, <2>3, <2>4, <1>t, OwnStepInv
<1>8. ASSUME NEW s \in Session, CleanAck(s)
      PROVE  UploadInv'
  <2>1. /\ UNCHANGED <<blob, received, count, buf, store, torn>>
        /\ phase[s] = "clean" /\ phase'[s] = "idle" /\ acked'[s] = acked[s] \cup {blob[s]}
        /\ \A t \in Session \ {s} : phase'[t] = phase[t] /\ acked'[t] = acked[t]
        /\ \A b \in Blob : b # blob[s] => temp'[b] = temp[b]
    BY <1>8, <1>t, <1>b DEF CleanAck, TypeOK
  <2>2. OwnStep(s) /\ Active(s)
    BY <2>1 DEF OwnStep, Active
  <2>3. /\ store[blob[s]] # Missing /\ blob[s] \in MayUpload[s]
        /\ Sole(blob[s]) => blob[s] \in torn \/ store[blob[s]] = Index(blob[s])
    BY <2>1, <2>2, <1>b DEF Works, WorksAlone, Intact
  <2>4. Works(s)' /\ WorksAlone(s)'
    BY <2>1, <2>3, <1>b DEF Works, WorksAlone, Active
  <2>. QED  BY <2>1, <2>2, <2>3, <2>4, <1>t, OwnStepInv
<1>9. CASE Crash
  <2>1. /\ UNCHANGED <<blob, received, count, buf, temp, store, acked>>
        /\ torn' = torn \cup {blob[s] : s \in {t \in Session : phase[t] = "write"}}
        /\ \A s \in Session : phase'[s] = "closed"
    BY <1>9 DEF Crash
  <2>2. \A s \in Session : Works(s)' /\ WorksAlone(s)'
    BY <2>1, <1>b DEF Works, WorksAlone, Active
  <2>3. AckedPresent' /\ SoleIntact'
    BY <2>1 DEF UploadInv, AckedPresent, SoleIntact, Sole, Intact
  <2>4. StoredIntact'
    BY <2>1 DEF UploadInv, StoredIntact, Sole, Intact
  <2>. QED  BY <2>2, <2>3, <2>4, <1>t DEF UploadInv
<1>10. CASE (\E p \in Plan : SetPlan(p)) \/ UNCHANGED vars
  <2>1. UNCHANGED <<phase, blob, received, count, buf, temp, store, acked, torn>>
    BY <1>10 DEF SetPlan, vars
  <2>2. \A s \in Session : Works(s)' /\ WorksAlone(s)'
    BY <2>1, <1>b DEF Works, WorksAlone, Active, Sole, Intact
  <2>3. AckedPresent' /\ SoleIntact' /\ StoredIntact'
    BY <2>1 DEF UploadInv, AckedPresent, SoleIntact, StoredIntact, Sole, Intact
  <2>. QED  BY <2>2, <2>3, <1>t DEF UploadInv
<1>. QED
  BY <1>1, <1>2, <1>3, <1>4, <1>5, <1>6, <1>7, <1>8, <1>9, <1>10 DEF Next, Finish, Upload

\* What the part files, the marks and the objects hold, at every step of every
\* session (session.rs, nsmt-fs): the invariant behind the next three theorems.
THEOREM UploadCorrect == Spec => []UploadInv
  BY InitUpload, UploadStep, PTL DEF Spec

\* An object that a client was told is stored is there, however sessions that upload
\* the same blob share, truncate and remove its files and wherever the server is
\* killed.
THEOREM AckedStays == Spec => []AckedPresent
<1>1. UploadInv => AckedPresent
  BY DEF UploadInv
<1>. QED  BY <1>1, UploadCorrect, PTL

\* An acknowledged object that one session alone uploads holds the content of its
\* name, unless the server was killed while it wrote that object.
THEOREM SoleStaysIntact == Spec => []SoleIntact
<1>1. UploadInv => SoleIntact
  BY DEF UploadInv
<1>. QED  BY <1>1, UploadCorrect, PTL

\* The same of every stored object that nobody is writing, acknowledged or not.
THEOREM StoredStaysIntact == Spec => []StoredIntact
<1>1. UploadInv => StoredIntact
  BY DEF UploadInv
<1>. QED  BY <1>1, UploadCorrect, PTL
-----------------------------------------------------------------------------
(* Sums over finite sets *)

\* The element that a fold takes next.
Picked(t) == CHOOSE x \in t : TRUE

\* g sums f over every subset of s, as MapThenFoldSet recurses.
IsSum(f, s, g) ==
    g = [t \in SUBSET s |-> IF t = {} THEN 0 ELSE f[Picked(t)] + g[t \ {Picked(t)}]]

\* The function that the recursion defines.
SumOf(f, s) == CHOOSE g : IsSum(f, s, g)

\* SumFunctionOnSet in these terms.
LEMMA SumDef ==
    ASSUME NEW f, NEW S
    PROVE  SumFunctionOnSet(f, S) = SumOf(f, S)[S]
  BY DEF SumFunctionOnSet, FoldFunctionOnSet, MapThenFoldSet, IsSum, SumOf, Picked

\* An element is taken from a set that has one.
LEMMA PickedIn == \A t : t # {} => Picked(t) \in t
  BY DEF Picked

\* Induction over finite sets, as the existence of a smallest counterexample.
LEMMA SmallestSubset ==
    ASSUME NEW S, IsFiniteSet(S), NEW T, T \subseteq SUBSET S, T # {}
    PROVE  \E t \in T : \A u \in T : u \subseteq t => u = t
<1>1. IsWellFoundedOn(StrictSubsetOrdering(S), SUBSET S)
  BY FS_StrictSubsetOrderingWellFounded, FS_FiniteSubsetsOfFinite
<1>2. PICK t \in T : \A u \in T : ~(<<u, t>> \in StrictSubsetOrdering(S))
  BY <1>1, WFMin
<1>3. ASSUME NEW u \in T, u \subseteq t, u # t
      PROVE  <<u, t>> \in StrictSubsetOrdering(S)
  <2> DEFINE ss == <<u, t>>
  <2>1. ss \in (SUBSET S) \X (SUBSET S) /\ ss[1] \subseteq ss[2] /\ ss[1] # ss[2]
    BY <1>3
  <2> HIDE DEF ss
  <2>2. ss \in StrictSubsetOrdering(S)
    BY <2>1 DEF StrictSubsetOrdering
  <2>. QED  BY <2>2, Zenon DEF ss
<1>4. \A u \in T : u \subseteq t => u = t
  BY <1>2, <1>3
<1>. QED  BY <1>4, Zenon

\* The recursion defines at most one function
LEMMA SumUnique ==
    ASSUME NEW S, IsFiniteSet(S), NEW f, NEW g, NEW h, IsSum(f, S, g), IsSum(f, S, h)
    PROVE  g = h
<1> DEFINE bad == {t \in SUBSET S : g[t] # h[t]}
<1>1. \A t \in SUBSET S : /\ t = {} => g[t] = 0 /\ h[t] = 0
                          /\ t # {} => /\ g[t] = f[Picked(t)] + g[t \ {Picked(t)}]
                                       /\ h[t] = f[Picked(t)] + h[t \ {Picked(t)}]
  BY DEF IsSum
<1>2. bad = {}
  <2>1. SUFFICES ASSUME bad # {} PROVE FALSE
    OBVIOUS
  <2>2. PICK t \in bad : \A u \in bad : u \subseteq t => u = t
    <3>1. bad \subseteq SUBSET S
      OBVIOUS
    <3> HIDE DEF bad
    <3>. QED  BY <2>1, <3>1, SmallestSubset
  <2>3. t # {}
    BY <2>2, <1>1
  <2>4. t \ {Picked(t)} \notin bad
    BY <2>2, <2>3, PickedIn
  <2>5. g[t \ {Picked(t)}] = h[t \ {Picked(t)}]
    BY <2>4
  <2>. QED  BY <2>3, <2>5, <1>1
<1>. QED  BY <1>2 DEF IsSum

\* and, for a finite set, there is one: it takes its values from the sums over the
\* smaller sets.
LEMMA SumExists ==
    ASSUME NEW S, IsFiniteSet(S), NEW f
    PROVE  \E g : IsSum(f, S, g)
<1> DEFINE bad == {t \in SUBSET S : ~ \E g : IsSum(f, t, g)}
<1>1. SUFFICES ASSUME bad # {} PROVE FALSE
  BY S \in SUBSET S
<1>2. PICK s \in bad : \A u \in bad : u \subseteq s => u = s
  <2>1. bad \subseteq SUBSET S
    OBVIOUS
  <2> HIDE DEF bad
  <2>. QED  BY <1>1, <2>1, SmallestSubset
<1>3. ASSUME NEW t \in SUBSET s, t # s
      PROVE  IsSum(f, t, SumOf(f, t))
  <2>1. t \in SUBSET S /\ t \notin bad
    BY <1>2, <1>3
  <2>. QED  BY <2>1 DEF SumOf
<1>4. ASSUME NEW t \in SUBSET s, t # s, NEW u \in SUBSET t
      PROVE  SumOf(f, t)[u] = SumOf(f, u)[u]
  <2> DEFINE g == SumOf(f, t)
             h == [v \in SUBSET u |-> g[v]]
  <2>1. IsSum(f, t, g)
    BY <1>3, <1>4
  <2>2. IsSum(f, u, SumOf(f, u))
    BY <1>3, <1>4
  <2> HIDE DEF g
  <2>3. \A v \in SUBSET u : g[v] = IF v = {} THEN 0 ELSE f[Picked(v)] + g[v \ {Picked(v)}]
    BY <2>1 DEF IsSum
  <2>4. IsSum(f, u, h)
    <3>1. \A v \in SUBSET u : h[v] = IF v = {} THEN 0 ELSE f[Picked(v)] + h[v \ {Picked(v)}]
      BY <2>3
    <3>. QED  BY <3>1 DEF IsSum
  <2>5. IsFiniteSet(u)
    BY <1>2, FS_Subset
  <2>6. h = SumOf(f, u)
    BY <2>2, <2>4, <2>5, SumUnique
  <2>. QED  BY <2>6 DEF g
<1> DEFINE val(t) == IF t = {} THEN 0
                     ELSE f[Picked(t)] + SumOf(f, t \ {Picked(t)})[t \ {Picked(t)}]
           G == [t \in SUBSET s |-> val(t)]
<1>5. ASSUME NEW t \in SUBSET s, t # s
      PROVE  G[t] = SumOf(f, t)[t]
  <2>1. CASE t = {}
    <3>1. SumOf(f, t)[t] = 0
      BY <2>1, <1>3, <1>5 DEF IsSum
    <3>. QED  BY <3>1, <2>1
  <2>2. CASE t # {}
    <3>1. SumOf(f, t)[t] = f[Picked(t)] + SumOf(f, t)[t \ {Picked(t)}]
      BY <2>2, <1>3, <1>5 DEF IsSum
    <3>2. SumOf(f, t)[t \ {Picked(t)}] = SumOf(f, t \ {Picked(t)})[t \ {Picked(t)}]
      BY <1>4, <1>5
    <3>. QED  BY <3>1, <3>2, <2>2
  <2>. QED  BY <2>1, <2>2
<1>6. \A t \in SUBSET s : t # {} => G[t] = f[Picked(t)] + G[t \ {Picked(t)}]
  <2>1. SUFFICES ASSUME NEW t \in SUBSET s, t # {}
                 PROVE  G[t] = f[Picked(t)] + G[t \ {Picked(t)}]
    OBVIOUS
  <2>2. t \ {Picked(t)} \in SUBSET s /\ t \ {Picked(t)} # s
    BY <2>1, PickedIn
  <2>3. G[t \ {Picked(t)}] = SumOf(f, t \ {Picked(t)})[t \ {Picked(t)}]
    BY <1>5, <2>2
  <2>. QED  BY <2>1, <2>3
<1>7. {} \in SUBSET s => G[{}] = 0
  OBVIOUS
<1>8. G = [t \in SUBSET s |-> IF t = {} THEN 0 ELSE f[Picked(t)] + G[t \ {Picked(t)}]]
  <2>1. \A t \in SUBSET s : G[t] = IF t = {} THEN 0 ELSE f[Picked(t)] + G[t \ {Picked(t)}]
    BY <1>6, <1>7
  <2>2. G = [t \in SUBSET s |-> G[t]]
    OBVIOUS
  <2> HIDE DEF G
  <2>. QED  BY <2>1, <2>2
<1>9. IsSum(f, s, G)
  BY <1>8 DEF IsSum
<1>. QED  BY <1>2, <1>9

\* So the sum obeys its recursion.
LEMMA SumFacts ==
    ASSUME NEW S, IsFiniteSet(S), NEW f
    PROVE  /\ S = {} => SumFunctionOnSet(f, S) = 0
           /\ S # {} => SumFunctionOnSet(f, S)
                          = f[Picked(S)] + SumFunctionOnSet(f, S \ {Picked(S)})
<1> DEFINE u == S \ {Picked(S)}
           g == SumOf(f, S)
           h == [v \in SUBSET u |-> g[v]]
<1>1. IsSum(f, S, g)
  BY SumExists DEF SumOf
<1>2. IsFiniteSet(u)
  BY FS_Subset
<1>3. IsSum(f, u, SumOf(f, u))
  BY <1>2, SumExists DEF SumOf
<1>4. SumFunctionOnSet(f, S) = g[S] /\ SumFunctionOnSet(f, u) = SumOf(f, u)[u]
  BY SumDef
<1> HIDE DEF g
<1>5. \A v \in SUBSET S : g[v] = IF v = {} THEN 0 ELSE f[Picked(v)] + g[v \ {Picked(v)}]
  BY <1>1 DEF IsSum
<1>6. IsSum(f, u, h)
  <2>1. \A v \in SUBSET u : h[v] = IF v = {} THEN 0 ELSE f[Picked(v)] + h[v \ {Picked(v)}]
    BY <1>5
  <2>. QED  BY <2>1 DEF IsSum
<1>7. h = SumOf(f, u)
  BY <1>2, <1>3, <1>6, SumUnique
<1>8. g[u] = SumFunctionOnSet(f, u)
  BY <1>4, <1>7
<1>. QED  BY <1>4, <1>5, <1>8

\* Sums of natural numbers are natural numbers,
LEMMA SumType ==
    ASSUME NEW D, NEW f \in [D -> Nat], NEW S \in SUBSET D, IsFiniteSet(S)
    PROVE  SumFunctionOnSet(f, S) \in Nat
<1> DEFINE bad == {t \in SUBSET S : SumFunctionOnSet(f, t) \notin Nat}
<1>1. SUFFICES ASSUME bad # {} PROVE FALSE
  BY S \in SUBSET S
<1>2. PICK t \in bad : \A u \in bad : u \subseteq t => u = t
  <2>1. bad \subseteq SUBSET S
    OBVIOUS
  <2> HIDE DEF bad
  <2>. QED  BY <1>1, <2>1, SmallestSubset
<1>3. t \in SUBSET S /\ IsFiniteSet(t) /\ SumFunctionOnSet(f, t) \notin Nat
  BY <1>2, FS_Subset
<1>a. t # {}
  <2>1. SumFunctionOnSet(f, {}) = 0
    BY SumFacts, FS_EmptySet
  <2>. QED  BY <1>3, <2>1
<1>4. SumFunctionOnSet(f, t) = f[Picked(t)] + SumFunctionOnSet(f, t \ {Picked(t)})
  BY <1>3, <1>a, SumFacts
<1>5. Picked(t) \in t
  BY <1>a, PickedIn
<1>6. SumFunctionOnSet(f, t \ {Picked(t)}) \in Nat
  BY <1>2, <1>5
<1>7. f[Picked(t)] \in Nat
  BY <1>3, <1>5
<1>. QED  BY <1>3, <1>4, <1>6, <1>7

\* do not depend on the order in which elements are taken,
LEMMA SumRemove ==
    ASSUME NEW D, NEW f \in [D -> Nat], NEW S \in SUBSET D, IsFiniteSet(S), NEW x \in S
    PROVE  SumFunctionOnSet(f, S) = f[x] + SumFunctionOnSet(f, S \ {x})
<1> DEFINE sum(t) == SumFunctionOnSet(f, t)
           bad == {t \in SUBSET S : \E y \in t : sum(t) # f[y] + sum(t \ {y})}
<1>1. SUFFICES ASSUME bad # {} PROVE FALSE
  <2>1. S \notin bad => \A y \in S : sum(S) = f[y] + sum(S \ {y})
    OBVIOUS
  <2>. QED  BY <2>1
<1>2. PICK t \in bad : \A u \in bad : u \subseteq t => u = t
  <2>1. bad \subseteq SUBSET S
    OBVIOUS
  <2> HIDE DEF bad
  <2>. QED  BY <1>1, <2>1, SmallestSubset
<1>3. PICK y \in t : sum(t) # f[y] + sum(t \ {y})
  BY <1>2
<1> DEFINE c == Picked(t)
           r == (t \ {c}) \ {y}
<1>4. \A u \in SUBSET S : IsFiniteSet(u) /\ sum(u) \in Nat
  BY FS_Subset, SumType
<1>5. t \in SUBSET S /\ c \in t /\ sum(t) = f[c] + sum(t \ {c})
  BY <1>2, <1>3, <1>4, SumFacts, PickedIn
<1>6. c # y
  BY <1>3, <1>5
<1>7. sum(t \ {c}) = f[y] + sum(r)
  <2>1. t \ {c} \in SUBSET S /\ t \ {c} \notin bad
    BY <1>2, <1>5
  <2>. QED  BY <2>1, <1>6
<1>8. sum(t \ {y}) = f[c] + sum(r)
  <2>1. t \ {y} \in SUBSET S /\ t \ {y} \notin bad
    BY <1>2, <1>3
  <2>2. (t \ {y}) \ {c} = r
    OBVIOUS
  <2>3. sum(t \ {y}) = f[c] + sum((t \ {y}) \ {c})
    BY <2>1, <1>5, <1>6
  <2>. QED  BY <2>2, <2>3
<1>9. f[c] \in Nat /\ f[y] \in Nat /\ sum(r) \in Nat
  BY <1>4, <1>5
<1>. QED
  <2> HIDE DEF sum, c, r
  <2>. QED  BY <1>3, <1>5, <1>7, <1>8, <1>9

\* grow with the set,
LEMMA SumMonotone ==
    ASSUME NEW D, NEW f \in [D -> Nat], NEW S \in SUBSET D, IsFiniteSet(S), NEW T \in SUBSET S
    PROVE  SumFunctionOnSet(f, T) <= SumFunctionOnSet(f, S)
<1> DEFINE sum(t) == SumFunctionOnSet(f, t)
           bad == {t \in SUBSET S : T \subseteq t /\ ~ (sum(T) <= sum(t))}
<1>1. SUFFICES ASSUME bad # {} PROVE FALSE
  BY S \in SUBSET S
<1>2. PICK t \in bad : \A u \in bad : u \subseteq t => u = t
  <2>1. bad \subseteq SUBSET S
    OBVIOUS
  <2> HIDE DEF bad
  <2>. QED  BY <1>1, <2>1, SmallestSubset
<1>3. \A u \in SUBSET S : IsFiniteSet(u) /\ sum(u) \in Nat
  BY FS_Subset, SumType
<1>4. t # T
  BY <1>2, <1>3
<1>5. PICK y \in t : y \notin T
  BY <1>2, <1>4
<1>6. sum(T) <= sum(t \ {y})
  BY <1>2, <1>5
<1>7. sum(t) = f[y] + sum(t \ {y})
  BY <1>2, <1>3, SumRemove
<1>8. f[y] \in Nat /\ sum(t \ {y}) \in Nat /\ sum(t) \in Nat /\ sum(T) \in Nat
  BY <1>2, <1>3
<1>9. ~ (sum(T) <= sum(t))
  BY <1>2
<1>. QED
  <2> HIDE DEF sum
  <2>. QED  BY <1>6, <1>7, <1>8, <1>9

\* and by no more than the size of what is added.
LEMMA SumAdd ==
    ASSUME NEW D, NEW f \in [D -> Nat], NEW S \in SUBSET D, IsFiniteSet(S), NEW x \in D
    PROVE  SumFunctionOnSet(f, S \cup {x}) <= SumFunctionOnSet(f, S) + f[x]
<1> DEFINE u == S \cup {x}
<1>1. IsFiniteSet(u) /\ u \in SUBSET D
  BY FS_AddElement
<1>2. SumFunctionOnSet(f, u) = f[x] + SumFunctionOnSet(f, u \ {x})
  BY <1>1, SumRemove
<1>3. SumFunctionOnSet(f, u \ {x}) <= SumFunctionOnSet(f, S)
  BY SumMonotone
<1>4. /\ SumFunctionOnSet(f, u \ {x}) \in Nat /\ SumFunctionOnSet(f, S) \in Nat
      /\ f[x] \in Nat
  <2>1. IsFiniteSet(u \ {x})
    BY FS_Subset
  <2>. QED  BY <2>1, SumType
<1>. QED  BY <1>2, <1>3, <1>4
-----------------------------------------------------------------------------
(* The quota *)

\* The blobs that have an object, or that a session has paid for and not yet written.
Claimed ==
    {b \in Blob : \/ store[b] # Missing
                  \/ \E s \in Session :
                        /\ blob[s] = b
                        /\ phase[s] \in {"upload", "read", "exists", "create", "write"}}

\* Each life of the server has charged at most the highest quota, and what is claimed
\* was charged in one of them: the present one, with usage, or one that ended in a
\* crash.
QuotaInv ==
    /\ TypeOK
    /\ \A s \in Session : phase[s] = "clean" => store[blob[s]] # Missing
    /\ usage <= ceiling
    /\ QuotaOf[plan] <= ceiling
    /\ \A s \in Session : limit[s] <= ceiling
    /\ IsFiniteSet(Claimed)
    /\ SumFunctionOnSet(Size, Claimed) <= crashes * ceiling + usage

\* Nothing is claimed at the start.
LEMMA InitQuota == Init => QuotaInv
<1> SUFFICES ASSUME Init PROVE QuotaInv
  OBVIOUS
<1>1. TypeOK
  BY InitTyped
<1>2. Claimed = {}
  BY DEF Init, Claimed
<1>3. IsFiniteSet(Claimed) /\ SumFunctionOnSet(Size, Claimed) = 0
  BY <1>2, FS_EmptySet, SumFacts
<1>4. /\ crashes = 0 /\ usage = 0 /\ ceiling \in Nat /\ ceiling = QuotaOf[plan]
      /\ \A s \in Session : phase[s] = "idle" /\ limit[s] = 0
  BY <1>1 DEF Init, TypeOK
<1>. QED
  BY <1>1, <1>3, <1>4 DEF QuotaInv

\* A step that claims nothing new and changes neither charges nor plans.
LEMMA QuotaQuiet ==
    ASSUME QuotaInv, TypeOK', Claimed' \subseteq Claimed,
           UNCHANGED <<usage, plan, ceiling, crashes>>,
           \A s \in Session : phase'[s] = "clean" => store'[blob'[s]] # Missing,
           \A s \in Session : limit'[s] <= ceiling
    PROVE  QuotaInv'
<1>1. IsFiniteSet(Claimed) /\ Claimed \in SUBSET Blob /\ Size \in [Blob -> Nat]
  BY UploadAssumption DEF QuotaInv, Claimed
<1>2. IsFiniteSet(Claimed')
  BY <1>1, FS_Subset
<1>3. SumFunctionOnSet(Size, Claimed') <= SumFunctionOnSet(Size, Claimed)
  BY <1>1, SumMonotone
<1>4. SumFunctionOnSet(Size, Claimed') \in Nat /\ SumFunctionOnSet(Size, Claimed) \in Nat
  BY <1>1, <1>2, SumType
<1>5. SumFunctionOnSet(Size, Claimed') <= crashes * ceiling + usage
  <2> DEFINE a == SumFunctionOnSet(Size, Claimed)
             b == SumFunctionOnSet(Size, Claimed')
             c == crashes * ceiling + usage
  <2>1. a <= c /\ b <= a /\ a \in Nat /\ b \in Nat
    BY <1>3, <1>4 DEF QuotaInv
  <2>2. c \in Nat
    BY DEF QuotaInv, TypeOK
  <2> HIDE DEF a, b, c
  <2>3. b <= c
    BY <2>1, <2>2
  <2>. QED  BY <2>3 DEF b, c
<1>. QED  BY <1>2, <1>5 DEF QuotaInv

\* Products of natural numbers grow with their factors.
LEMMA ProductGrows ==
    ASSUME NEW a \in Nat, NEW b \in Nat, NEW c \in Nat, b <= c
    PROVE  a * b \in Nat /\ a * c \in Nat /\ a * b <= a * c /\ (a + 1) * b = a * b + b
  BY SMTT(30)
\* Every step keeps the invariant.
LEMMA QuotaStep == QuotaInv /\ [Next]_vars => QuotaInv'
<1> SUFFICES ASSUME QuotaInv, [Next]_vars PROVE QuotaInv'
  OBVIOUS
<1>t. TypeOK /\ TypeOK'
  BY TypeStep DEF QuotaInv
<1>n. /\ usage \in Nat /\ ceiling \in Nat /\ crashes \in Nat /\ ceiling' \in Nat
      /\ QuotaOf[plan] \in Nat /\ \A s \in Session : limit[s] \in Nat /\ blob[s] \in Blob
  BY <1>t, UploadAssumption DEF TypeOK
<1>q. /\ IsFiniteSet(Claimed) /\ Claimed \in SUBSET Blob /\ Size \in [Blob -> Nat]
      /\ SumFunctionOnSet(Size, Claimed) \in Nat
      /\ SumFunctionOnSet(Size, Claimed) <= crashes * ceiling + usage
      /\ usage <= ceiling /\ QuotaOf[plan] <= ceiling
      /\ \A s \in Session : limit[s] <= ceiling
      /\ \A s \in Session : phase[s] = "clean" => store[blob[s]] # Missing
  BY UploadAssumption, SumType DEF QuotaInv, Claimed
<1>f. \A s \in Session : {} # Missing /\ buf[s] # Missing
  BY <1>t, <1>n, IndexFacts DEF TypeOK
<1> USE DEF quotaVars, planVars, pendingVars, crashVars, Goto
<1>1. ASSUME NEW s \in Session, NEW b \in MayUpload[s], FilePut(s, b)
      PROVE  QuotaInv'
  <2>1. /\ phase[s] = "idle" /\ phase'[s] = "reserve" /\ limit'[s] = QuotaOf[plan]
        /\ \A t \in Session \ {s} : phase'[t] = phase[t] /\ blob'[t] = blob[t] /\ limit'[t] = limit[t]
        /\ UNCHANGED <<store, usage, plan, ceiling, crashes>>
    BY <1>1, <1>t DEF FilePut, TypeOK
  <2>2. Claimed' \subseteq Claimed
    BY <2>1 DEF Claimed
  <2>3. \A t \in Session : phase'[t] = "clean" => store'[blob'[t]] # Missing
    BY <2>1, <1>q
  <2>4. \A t \in Session : limit'[t] <= ceiling
    BY <2>1, <1>q
  <2>. QED  BY <2>1, <2>2, <2>3, <2>4, <1>t, QuotaQuiet
<1>2. ASSUME NEW s \in Session, FilePutAccepted(s)
      PROVE  QuotaInv'
  <2>1. /\ phase'[s] = "upload" /\ limit'[s] = 0 /\ usage' = usage + Size[blob[s]]
        /\ usage + Size[blob[s]] <= limit[s]
        /\ \A t \in Session \ {s} : phase'[t] = phase[t] /\ limit'[t] = limit[t]
        /\ UNCHANGED <<blob, store, plan, ceiling, crashes>>
    BY <1>2, <1>t DEF FilePutAccepted, Fits, TypeOK
  <2>2. Claimed' \subseteq Claimed \cup {blob[s]} /\ Claimed' \in SUBSET Blob
    BY <2>1, <1>t DEF Claimed
  <2>3. IsFiniteSet(Claimed \cup {blob[s]}) /\ Claimed \cup {blob[s]} \in SUBSET Blob
    BY <1>q, <1>n, FS_AddElement
  <2>4. IsFiniteSet(Claimed')
    BY <2>2, <2>3, FS_Subset
  <2>5. SumFunctionOnSet(Size, Claimed') <= SumFunctionOnSet(Size, Claimed \cup {blob[s]})
    BY <2>2, <2>3, <1>q, SumMonotone
  <2>6. SumFunctionOnSet(Size, Claimed \cup {blob[s]})
          <= SumFunctionOnSet(Size, Claimed) + Size[blob[s]]
    BY <1>q, <1>n, SumAdd
  <2>7. SumFunctionOnSet(Size, Claimed') <= crashes' * ceiling' + usage'
    <3> DEFINE a == SumFunctionOnSet(Size, Claimed)
               b == SumFunctionOnSet(Size, Claimed \cup {blob[s]})
               c == SumFunctionOnSet(Size, Claimed')
               m == crashes * ceiling
    <3>1. /\ a \in Nat /\ b \in Nat /\ c \in Nat /\ m \in Nat /\ Size[blob[s]] \in Nat
      BY <2>2, <2>3, <2>4, <1>q, <1>n, SumType
    <3>2. a <= m + usage /\ b <= a + Size[blob[s]] /\ c <= b
      BY <2>5, <2>6, <1>q
    <3> HIDE DEF a, b, c, m
    <3>3. c <= m + (usage + Size[blob[s]])
      BY <3>1, <3>2, <1>n
    <3>. QED  BY <3>3, <2>1 DEF c, m
  <2>8. usage' <= ceiling'
    <3>1. Size[blob[s]] \in Nat
      BY <1>q, <1>n
    <3>. QED  BY <2>1, <3>1, <1>n, <1>q
  <2>9. \A t \in Session : limit'[t] <= ceiling'
    BY <2>1, <1>q, <1>n
  <2>10. \A t \in Session : phase'[t] = "clean" => store'[blob'[t]] # Missing
    BY <2>1, <1>q
  <2>. QED  BY <2>1, <2>4, <2>7, <2>8, <2>9, <2>10, <1>t, <1>q DEF QuotaInv
<1>3. ASSUME NEW s \in Session,
             \/ FilePutRefused(s) \/ ReadTempFails(s) \/ Disconnect(s) \/ Reconnect(s)
             \/ ReadTemp(s) \/ PutExists(s) \/ PutAbsent(s) \/ CleanAck(s)
      PROVE  QuotaInv'
  <2>1. /\ UNCHANGED <<blob, store, usage, plan, ceiling, crashes>>
        /\ \A t \in Session \ {s} : phase'[t] = phase[t]
        /\ phase'[s] = "clean" => store[blob[s]] # Missing
        /\ \/ phase'[s] \in {"idle", "closed", "clean"}
           \/ phase[s] = "read" /\ phase'[s] = "exists"
           \/ phase[s] = "exists" /\ phase'[s] = "create"
    BY <1>3, <1>t DEF FilePutRefused, ReadTempFails, Disconnect, Reconnect, ReadTemp,
                      PutExists, PutAbsent, CleanAck, TypeOK
  <2>2. \A t \in Session : limit'[t] <= ceiling
    <3>1. limit' = limit \/ limit' = [limit EXCEPT ![s] = 0]
      BY <1>3 DEF FilePutRefused, ReadTempFails, Disconnect, Reconnect, ReadTemp,
                  PutExists, PutAbsent, CleanAck
    <3>2. limit \in [Session -> Nat]
      BY <1>t DEF TypeOK
    <3>. QED  BY <3>1, <3>2, <1>q, <1>n
  <2>3. Claimed' \subseteq Claimed
    BY <2>1 DEF Claimed
  <2>4. \A t \in Session : phase'[t] = "clean" => store'[blob'[t]] # Missing
    BY <2>1, <1>q
  <2>. QED  BY <2>1, <2>2, <2>3, <2>4, <1>t, QuotaQuiet
<1>4. ASSUME NEW s \in Session, NEW i, FileChunk(s, i)
      PROVE  QuotaInv'
  <2>1. /\ UNCHANGED <<blob, store, usage, plan, ceiling, crashes, limit>>
        /\ \A t \in Session \ {s} : phase'[t] = phase[t]
        /\ phase[s] = "upload" /\ phase'[s] \in {"upload", "read"}
    BY <1>4, <1>t DEF FileChunk, TypeOK
  <2>2. Claimed' \subseteq Claimed
    BY <2>1 DEF Claimed
  <2>3. \A t \in Session : phase'[t] = "clean" => store'[blob'[t]] # Missing
    BY <2>1, <1>q
  <2>. QED  BY <2>1, <2>2, <2>3, <1>t, <1>q, QuotaQuiet
<1>5. ASSUME NEW s \in Session, PutCreate(s) \/ PutWrite(s)
      PROVE  QuotaInv'
  <2>1. /\ UNCHANGED <<blob, usage, plan, ceiling, crashes, limit>>
        /\ \A t \in Session \ {s} : phase'[t] = phase[t]
        /\ phase[s] \in {"create", "write"} /\ phase'[s] \in {"write", "clean"}
        /\ store'[blob[s]] # Missing
        /\ \A b \in Blob : b # blob[s] => store'[b] = store[b]
    BY <1>5, <1>t, <1>n, <1>f DEF PutCreate, PutWrite, TypeOK
  <2>2. Claimed' \subseteq Claimed
    BY <2>1 DEF Claimed
  <2>3. \A t \in Session : phase'[t] = "clean" => store'[blob'[t]] # Missing
    BY <2>1, <1>q, <1>n
  <2>. QED  BY <2>1, <2>2, <2>3, <1>t, <1>q, QuotaQuiet
<1>6. ASSUME NEW p \in Plan, SetPlan(p)
      PROVE  QuotaInv'
  <2>1. /\ UNCHANGED <<phase, blob, store, usage, limit, crashes>> /\ plan' = p
        /\ ceiling' = IF QuotaOf[p] > ceiling THEN QuotaOf[p] ELSE ceiling
    BY <1>6 DEF SetPlan
  <2>2. QuotaOf[p] \in Nat
    BY UploadAssumption
  <2>3. ceiling <= ceiling' /\ QuotaOf[p] <= ceiling'
    BY <2>1, <2>2, <1>n
  <2>4. Claimed' = Claimed
    BY <2>1 DEF Claimed
  <2>5. SumFunctionOnSet(Size, Claimed) <= crashes * ceiling' + usage
    <3> DEFINE a == SumFunctionOnSet(Size, Claimed)
               m == crashes * ceiling
               n == crashes * ceiling'
    <3>1. m \in Nat /\ n \in Nat /\ m <= n
      BY <1>n, <2>3, ProductGrows
    <3>2. a \in Nat /\ a <= m + usage
      BY <1>q
    <3> HIDE DEF a, m, n
    <3>3. a <= n + usage
      BY <3>1, <3>2, <1>n
    <3>. QED  BY <3>3 DEF a, n
  <2>6. usage' <= ceiling' /\ \A s \in Session : limit'[s] <= ceiling'
    BY <2>1, <2>3, <1>n, <1>q
  <2>. QED  BY <2>1, <2>3, <2>4, <2>5, <2>6, <1>t, <1>q DEF QuotaInv
<1>7. CASE Crash
  <2>1. /\ UNCHANGED <<blob, store, plan, ceiling>> /\ usage' = 0 /\ crashes' = crashes + 1
        /\ \A s \in Session : phase'[s] = "closed" /\ limit'[s] = 0
    BY <1>7 DEF Crash
  <2>2. Claimed' \in SUBSET Claimed
    BY <2>1 DEF Claimed
  <2>3. IsFiniteSet(Claimed')
    BY <2>2, <1>q, FS_Subset
  <2>4. SumFunctionOnSet(Size, Claimed') <= SumFunctionOnSet(Size, Claimed)
    BY <2>2, <1>q, SumMonotone
  <2>5. SumFunctionOnSet(Size, Claimed') <= crashes' * ceiling' + usage'
    <3> DEFINE a == SumFunctionOnSet(Size, Claimed)
               b == SumFunctionOnSet(Size, Claimed')
               m == crashes * ceiling
               n == (crashes + 1) * ceiling
    <3>1. m \in Nat /\ n = m + ceiling
      BY <1>n, ProductGrows
    <3>2. a \in Nat /\ b \in Nat /\ a <= m + usage /\ b <= a
      BY <2>2, <2>3, <2>4, <1>q, SumType
    <3> HIDE DEF a, b, m, n
    <3>3. b <= n + 0
      BY <3>1, <3>2, <1>n, <1>q
    <3>. QED  BY <3>3, <2>1 DEF b, n
  <2>6. usage' <= ceiling' /\ \A s \in Session : limit'[s] <= ceiling'
    BY <2>1, <1>n
  <2>. QED  BY <2>1, <2>3, <2>5, <2>6, <1>t, <1>q DEF QuotaInv
<1>8. CASE UNCHANGED vars
  <2>1. UNCHANGED <<phase, blob, store, usage, plan, limit, ceiling, crashes>>
    BY <1>8 DEF vars
  <2>2. Claimed' = Claimed
    BY <2>1 DEF Claimed
  <2>. QED  BY <2>1, <2>2, <1>t DEF QuotaInv
<1>. QED
  BY <1>1, <1>2, <1>3, <1>4, <1>5, <1>6, <1>7, <1>8 DEF Next, Finish, Upload

\* The objects of the tenant never take more bytes than the highest quota it has had,
\* once for every life of the server, for any sizes, any number of sessions and
\* changes of the plan, and wherever crashes and lost connections fall.
THEOREM QuotaHolds == Spec => []StorageWithinQuota
<1>1. QuotaInv => StorageWithinQuota
  <2> SUFFICES ASSUME QuotaInv PROVE StorageWithinQuota
    OBVIOUS
  <2> DEFINE here == {b \in Blob : store[b] # Missing}
             a == SumFunctionOnSet(Size, Claimed)
             b == SumFunctionOnSet(Size, here)
             m == crashes * ceiling
             n == (crashes + 1) * ceiling
  <2>1. here \in SUBSET Claimed /\ Claimed \in SUBSET Blob /\ IsFiniteSet(Claimed)
    BY DEF QuotaInv, Claimed
  <2>2. IsFiniteSet(here) /\ Size \in [Blob -> Nat]
    BY <2>1, FS_Subset, UploadAssumption
  <2> HIDE DEF here
  <2>3. b <= a /\ a \in Nat /\ b \in Nat
    BY <2>1, <2>2, SumMonotone, SumType
  <2>4. /\ crashes \in Nat /\ ceiling \in Nat /\ usage \in Nat /\ usage <= ceiling
        /\ a <= m + usage
    BY DEF QuotaInv, TypeOK
  <2>5. m \in Nat /\ n = m + ceiling
    BY <2>4, ProductGrows
  <2> HIDE DEF a, b, m, n
  <2>6. b <= n
    BY <2>3, <2>4, <2>5
  <2>7. 1 + crashes = crashes + 1
    BY <2>4
  <2>. QED  BY <2>6, <2>7 DEF StorageWithinQuota, StoredBytes, here, b, n
<1>. QED
  BY <1>1, InitQuota, QuotaStep, PTL DEF Spec
=============================================================================
