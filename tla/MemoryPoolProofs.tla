--------------------------- MODULE MemoryPoolProofs ---------------------------
(***************************************************************************)
(* Proofs about MemoryPool, for all clients, shards, hashings of clients   *)
(* to shards and limits.                                                   *)
(***************************************************************************)
EXTENDS MemoryPool, TLAPS

\* Where the note of a client is kept, and what a note is.
LEMMA NoteFacts ==
    /\ \A c \in Client : [by |-> c, no |-> 0] \in Note
    /\ \A n \in Note : n.by \in Client /\ ShardOf[n.by] \in Shard
    /\ \A c \in Client : ShardOf[c] \in Gateway /\ c \in Gateway
  BY PoolAssumption DEF Note, Gateway

\* A call of a gateway, answered or given up, adds the note or nothing; an answer
\* with committed means that it was added.
LEMMA RecordedFacts ==
    ASSUME kept \in [Gateway -> SUBSET Note], NEW g \in Gateway, NEW n \in Note,
           NEW result \in Results, Recorded(g, n, result) \/ GivenUp(g, n)
    PROVE  /\ kept' \in [Gateway -> SUBSET Note]
           /\ \A h \in Gateway : kept[h] \subseteq kept'[h]
           /\ Recorded(g, n, result) /\ Committed(result) => n \in kept'[g]
  BY DEF Recorded, GivenUp, Committed, Results

\* The initial states are well typed.
LEMMA InitTyped == Init => TypeOK
  BY PoolAssumption, NoteFacts
     DEF Init, TypeOK, NothingAsked, NotPrinted, Answer, Printed, Results

\* A client that ends has clean variables.
LEMMA LeaveTyped ==
    ASSUME TypeOK, NEW c \in Client, Leave(c)
    PROVE  /\ pc' \in [Client -> {"off", "note", "notelocal", "ready", "capture", "local", "recall",
                                  "fallback", "show"}]
           /\ note' \in [Client -> Note]
           /\ shards' \in [Client -> [Shard -> Answer]]
           /\ printed' \in [Client -> Printed]
           /\ before' \in [Client -> SUBSET Note]
<1>1. NothingAsked \in [Shard -> Answer]
  BY DEF NothingAsked, Answer
<1>2. NotPrinted \in Printed
  BY DEF NotPrinted, Printed
<1>. QED
  BY <1>1, <1>2, NoteFacts DEF TypeOK, Leave

\* Every step keeps the types.
LEMMA TypeStep == TypeOK /\ [Next]_vars => TypeOK'
<1> SUFFICES ASSUME TypeOK, [Next]_vars PROVE TypeOK'
  OBVIOUS
<1> USE PoolAssumption DEF TypeOK
<1>1. ASSUME NEW c \in Client, Start(c)
      PROVE  TypeOK'
  BY <1>1 DEF Start
<1>2. ASSUME NEW c \in Client, Stop(c)
      PROVE  TypeOK'
  <2>1. kept' \in [Gateway -> SUBSET Note]
    BY <1>2, RecordedFacts, NoteFacts DEF Stop, Results
  <2>. QED  BY <1>2, <2>1, LeaveTyped DEF Stop
<1>3. ASSUME NEW c \in Client, Capture(c)
      PROVE  TypeOK'
  <2>1. [by |-> c, no |-> captures + 1] \in Note
    BY <1>3 DEF Capture, Note
  <2>. QED  BY <1>3, <2>1 DEF Capture
<1>4. ASSUME NEW c \in Client, Recall(c)
      PROVE  TypeOK'
  <2>1. [s \in Shard |-> [st |-> "asked", notes |-> {}]] \in [Shard -> Answer]
    BY DEF Answer
  <2>. QED  BY <1>4, <2>1 DEF Recall
<1>5. ASSUME NEW c \in Client, PoolCapture(c)
      PROVE  TypeOK'
  <2>1. kept' \in [Gateway -> SUBSET Note] /\ told' \subseteq Note
    BY <1>5, RecordedFacts, NoteFacts DEF PoolCapture
  <2>. QED  BY <1>5, <2>1 DEF PoolCapture
<1>6. ASSUME NEW c \in Client, NoteLocal(c)
      PROVE  TypeOK'
  <2>1. kept' \in [Gateway -> SUBSET Note]
    BY <1>6, RecordedFacts, NoteFacts DEF NoteLocal, LocalCall
  <2>. QED  BY <1>6, <2>1 DEF NoteLocal
<1>7. ASSUME NEW c \in Client, CaptureLocal(c)
      PROVE  TypeOK'
  <2>1. kept' \in [Gateway -> SUBSET Note]
    BY <1>7, RecordedFacts, NoteFacts DEF CaptureLocal, LocalCall
  <2>. QED  BY <1>7, <2>1, LeaveTyped DEF CaptureLocal
<1>8. ASSUME NEW c \in Client, RecallReply(c)
      PROVE  TypeOK'
  <2>1. NothingAsked \in [Shard -> Answer]
    BY DEF NothingAsked, Answer
  <2>2. \A H \in SUBSET Hits(c) : UNION {shards[c][s].notes : s \in H} \subseteq Note
    BY DEF Hits, Answer
  <2>3. pc' = [pc EXCEPT ![c] = "fallback"] \/ pc' = [pc EXCEPT ![c] = "show"]
    BY <1>8 DEF RecallReply, Show
  <2>4. \/ printed' = printed
        \/ \E H \in SUBSET Hits(c) :
              printed' = [printed EXCEPT ![c] = [source |-> "pool",
                                                 notes |-> UNION {shards[c][s].notes : s \in H},
                                                 cut |-> H # Hits(c)]]
    BY <1>8 DEF RecallReply, Show
  <2>5. \A H \in SUBSET Hits(c) :
           [source |-> "pool", notes |-> UNION {shards[c][s].notes : s \in H}, cut |-> H # Hits(c)]
              \in Printed
    <3>1. \A H \in SUBSET Hits(c) : (H # Hits(c)) \in BOOLEAN
      OBVIOUS
    <3>. QED  BY <2>2, <3>1, Zenon DEF Printed
  <2>6. printed' \in [Client -> Printed]
    <3>1. CASE printed' = printed
      BY <3>1
    <3>2. CASE printed' # printed
      <4>1. PICK H \in SUBSET Hits(c) :
               printed' = [printed EXCEPT ![c] = [source |-> "pool",
                                                  notes |-> UNION {shards[c][s].notes : s \in H},
                                                  cut |-> H # Hits(c)]]
        BY <2>4, <3>2
      <4> DEFINE new == [source |-> "pool", notes |-> UNION {shards[c][s].notes : s \in H},
                         cut |-> H # Hits(c)]
      <4>2. new \in Printed /\ printed' = [printed EXCEPT ![c] = new]
        BY <4>1, <2>5
      <4> HIDE DEF new
      <4>. QED  BY <4>2
    <3>. QED  BY <3>1, <3>2
  <2>. QED  BY <1>8, <2>1, <2>3, <2>6 DEF RecallReply
<1>9. ASSUME NEW c \in Client, Fallback(c)
      PROVE  TypeOK'
  <2>1. [source |-> "local", notes |-> kept[c], cut |-> FALSE] \in Printed
    BY NoteFacts DEF Printed
  <2>. QED  BY <1>9, <2>1 DEF Fallback, Show
<1>10. ASSUME NEW c \in Client, FallbackFails(c)
       PROVE  TypeOK'
  BY <1>10, LeaveTyped DEF FallbackFails
<1>11. ASSUME NEW c \in Client, NEW s \in Shard, ShardAnswers(c, s)
       PROVE  TypeOK'
  <2>1. [st |-> "ok", notes |-> kept[s]] \in Answer
    BY DEF Answer, Gateway
  <2>2. shards' = [shards EXCEPT ![c] = [shards[c] EXCEPT ![s] = [st |-> "ok", notes |-> kept[s]]]]
    BY <1>11 DEF ShardAnswers
  <2>3. [shards[c] EXCEPT ![s] = [st |-> "ok", notes |-> kept[s]]] \in [Shard -> Answer]
    BY <2>1
  <2>4. shards' \in [Client -> [Shard -> Answer]]
    BY <2>2, <2>3
  <2>. QED  BY <1>11, <2>4 DEF ShardAnswers
<1>12. ASSUME NEW c \in Client, NEW s \in Shard, ShardRefuses(c, s)
       PROVE  TypeOK'
  <2>1. shards[c] \in [Shard -> Answer] /\ shards[c][s] \in Answer
    OBVIOUS
  <2> DEFINE new == [shards[c][s] EXCEPT !.st = "failed"]
  <2>2. new \in Answer
    BY <2>1 DEF Answer
  <2>3. shards' = [shards EXCEPT ![c] = [shards[c] EXCEPT ![s] = new]]
    BY <1>12 DEF ShardRefuses
  <2> HIDE DEF new
  <2>4. shards' \in [Client -> [Shard -> Answer]]
    BY <2>1, <2>2, <2>3
  <2>. QED  BY <1>12, <2>4 DEF ShardRefuses
<1>13. CASE UNCHANGED vars
  BY <1>13 DEF vars
<1>. QED
  BY <1>1, <1>2, <1>3, <1>4, <1>5, <1>6, <1>7, <1>8, <1>9, <1>10, <1>11, <1>12, <1>13
     DEF Next, Work, Ask, TimeUp

\* The variables of the memory pool are well typed in every reachable state.
THEOREM TypeCorrect == Spec => []TypeOK
  BY InitTyped, TypeStep, PTL DEF Spec

-----------------------------------------------------------------------------
(***************************************************************************)
(* A confirmed capture is kept. A client captures notes of its own only,   *)
(* so that the shard in which the server records a note is the shard of    *)
(* the note; and no gateway forgets.                                       *)
(***************************************************************************)
KeptInv ==
    /\ CommittedIsKept
    /\ \A c \in Client : note[c].by = c

\* What a step does to notes that matter later: gateways forget nothing, and a note
\* that is confirmed is of its client and is in the client's shard.
LEMMA KeptStep ==
    ASSUME TypeOK, KeptInv, [Next]_vars
    PROVE  KeptInv' /\ told \subseteq told'
<1> USE PoolAssumption DEF KeptInv, CommittedIsKept
<1>t. /\ kept \in [Gateway -> SUBSET Note] /\ note \in [Client -> Note] /\ told \subseteq Note
  BY DEF TypeOK
<1>1. ASSUME \A g \in Gateway : kept[g] \subseteq kept'[g], told' = told,
             \A c \in Client : note'[c].by = note[c].by
      PROVE  KeptInv' /\ told \subseteq told'
  BY <1>1, <1>t, NoteFacts
<1>2. ASSUME NEW c \in Client, Leave(c)
      PROVE  \A e \in Client : note'[e].by = note[e].by
  <2>1. note' = [note EXCEPT ![c] = [by |-> c, no |-> 0]]
    BY <1>2 DEF Leave
  <2>. QED  BY <2>1, <1>t
<1>3. ASSUME NEW c \in Client, NEW g \in {c, ShardOf[c]}, NEW result \in Results,
             Recorded(g, note[c], result) \/ GivenUp(g, note[c])
      PROVE  \A h \in Gateway : kept[h] \subseteq kept'[h]
  BY <1>3, <1>t, NoteFacts, RecordedFacts
<1>4. ASSUME NEW c \in Client, Stop(c)
      PROVE  KeptInv' /\ told \subseteq told'
  <2>1. \A h \in Gateway : kept[h] \subseteq kept'[h]
    BY <1>4, <1>3 DEF Stop, Results
  <2>. QED  BY <1>4, <2>1, <1>1, <1>2 DEF Stop
<1>5. ASSUME NEW c \in Client, PoolCapture(c)
      PROVE  KeptInv' /\ told \subseteq told'
  <2>1. PICK result \in Results :
           /\ Recorded(ShardOf[c], note[c], result)
           /\ told' = IF Committed(result) THEN told \cup {note[c]} ELSE told
    BY <1>5 DEF PoolCapture
  <2>2. /\ \A h \in Gateway : kept[h] \subseteq kept'[h]
        /\ Committed(result) => note[c] \in kept'[ShardOf[c]]
    BY <2>1, <1>t, NoteFacts, RecordedFacts
  <2>3. note' = note
    BY <1>5 DEF PoolCapture
  <2>4. \A n \in told : n \in kept'[ShardOf[n.by]]
    BY <2>2, <1>t, NoteFacts
  <2>5. \A n \in told' : n \in told \/ (n = note[c] /\ Committed(result))
    BY <2>1
  <2>6. \A n \in told' : n \in kept'[ShardOf[n.by]]
    BY <2>2, <2>4, <2>5
  <2>. QED  BY <2>1, <2>3, <2>6
<1>6. ASSUME NEW c \in Client, NoteLocal(c) \/ CaptureLocal(c)
      PROVE  KeptInv' /\ told \subseteq told'
  <2>1. \A h \in Gateway : kept[h] \subseteq kept'[h]
    BY <1>6, <1>3 DEF NoteLocal, CaptureLocal, LocalCall
  <2>2. told' = told /\ \A e \in Client : note'[e].by = note[e].by
    BY <1>6, <1>2 DEF NoteLocal, CaptureLocal
  <2>. QED  BY <2>1, <2>2, <1>1
<1>7. ASSUME NEW c \in Client, Capture(c)
      PROVE  KeptInv' /\ told \subseteq told'
  <2>1. \A e \in Client : note'[e].by = note[e].by
    BY <1>7, <1>t DEF Capture
  <2>. QED  BY <1>7, <2>1, <1>1 DEF Capture
<1>8. ASSUME NEW c \in Client, FallbackFails(c)
      PROVE  KeptInv' /\ told \subseteq told'
  BY <1>8, <1>1, <1>2 DEF FallbackFails
<1>9. ASSUME UNCHANGED <<kept, note, told>>
      PROVE  KeptInv' /\ told \subseteq told'
  BY <1>9
<1>10. ASSUME NEW c \in Client, Start(c) \/ Recall(c) \/ RecallReply(c) \/ Fallback(c)
       PROVE  UNCHANGED <<kept, note, told>>
  BY <1>10 DEF Start, Recall, RecallReply, Fallback
<1>11. ASSUME NEW c \in Client, NEW s \in Shard, ShardAnswers(c, s) \/ ShardRefuses(c, s)
       PROVE  UNCHANGED <<kept, note, told>>
  BY <1>11 DEF ShardAnswers, ShardRefuses
<1>12. UNCHANGED vars => UNCHANGED <<kept, note, told>>
  BY DEF vars
<1>. QED
  BY <1>4, <1>5, <1>6, <1>7, <1>8, <1>9, <1>10, <1>11, <1>12 DEF Next, Work, Ask, TimeUp

\* KeptInv holds in every reachable state.
LEMMA KeptCorrect == Spec => []KeptInv
<1>1. Init => KeptInv
  BY DEF Init, KeptInv, CommittedIsKept
<1>2. TypeOK /\ KeptInv /\ [Next]_vars => KeptInv'
  BY KeptStep
<1>. QED
  BY <1>1, <1>2, TypeCorrect, PTL DEF Spec

\* Every capture that a client was told is committed is in the shard of its fqn from
\* then on, whichever gateways refuse, hang, or are given up on.
THEOREM CommittedKept == Spec => []CommittedIsKept
<1>1. KeptInv => CommittedIsKept
  BY DEF KeptInv
<1>. QED
  BY <1>1, KeptCorrect, PTL

-----------------------------------------------------------------------------
(***************************************************************************)
(* A recall is complete. While the shards are asked, a shard that has      *)
(* answered gave all notes of it that were confirmed before the recall. So *)
(* when the answers are put together, a note that is missing was in a      *)
(* shard that failed, or was cut off; and a fallback to the local memory,  *)
(* for want of any hit, has no such note to hide.                          *)
(***************************************************************************)
Gave(c, s) == \A n \in before[c] : ShardOf[n.by] = s => n \in shards[c][s].notes

RecallInv(c) ==
    /\ before[c] \subseteq told
    /\ pc[c] # "recall" => shards[c] = NothingAsked
    /\ pc[c] = "recall" =>
          \A s \in Shard : /\ shards[c][s].st \in {"asked", "failed", "ok"}
                           /\ shards[c][s].st = "ok" => Gave(c, s)
    /\ pc[c] = "fallback" => before[c] = {}
    /\ pc[c] = "show" => before[c] \subseteq printed[c].notes \/ printed[c].cut

\* A client that does nothing keeps its recall as it is.
LEMMA RecallFrame ==
    ASSUME NEW c \in Client, RecallInv(c), told \subseteq told',
           pc'[c] = pc[c], shards'[c] = shards[c], before'[c] = before[c], printed'[c] = printed[c]
    PROVE  RecallInv(c)'
  BY DEF RecallInv, Gave

\* A client that is done, or goes on outside a recall, has no recall.
LEMMA RecallOver ==
    ASSUME NEW c \in Client, shards'[c] = NothingAsked, before'[c] \subseteq told',
           pc'[c] \notin {"recall", "fallback", "show"}
    PROVE  RecallInv(c)'
  BY DEF RecallInv, Gave

\* The reply to a recall shows what the shards gave, falls back with nothing to
\* hide, or cuts.
LEMMA ReplyComplete ==
    ASSUME TypeOK, NEW c \in Client, RecallInv(c), RecallReply(c)
    PROVE  RecallInv(c)'
<1>t. /\ shards \in [Client -> [Shard -> Answer]] /\ before \in [Client -> SUBSET Note]
      /\ pc \in [Client -> {"off", "note", "notelocal", "ready", "capture", "local", "recall",
                             "fallback", "show"}]
      /\ printed \in [Client -> Printed]
  BY DEF TypeOK
<1>1. /\ pc[c] = "recall" /\ told' = told
      /\ shards'[c] = NothingAsked
      /\ before'[c] = {n \in before[c] : ShardOf[n.by] \notin Failed(c)}
  BY <1>t DEF RecallReply
<1>2. ASSUME NEW n \in before'[c]
      PROVE  /\ ShardOf[n.by] \in Hits(c)
             /\ n \in shards[c][ShardOf[n.by]].notes
  <2> DEFINE s == ShardOf[n.by]
  <2>1. n \in before[c] /\ s \notin Failed(c) /\ s \in Shard
    BY <1>1, <1>2, <1>t, NoteFacts
  <2>2. shards[c][s].st = "ok"
    BY <2>1, <1>1 DEF RecallInv, RecallReply, Failed
  <2>3. n \in shards[c][s].notes
    BY <2>1, <2>2, <1>1 DEF RecallInv, Gave
  <2>. QED  BY <2>1, <2>3 DEF Hits
<1>3. CASE PoolUnavailable(c) \/ Hits(c) = {}
  <2>1. pc'[c] = "fallback"
    BY <1>3, <1>t DEF RecallReply
  <2>2. before'[c] = {}
    BY <1>2, <1>3 DEF PoolUnavailable, Hits
  <2>. QED  BY <2>1, <2>2, <1>1 DEF RecallInv
<1>4. CASE ~ (PoolUnavailable(c) \/ Hits(c) = {})
  <2>1. PICK H \in SUBSET Hits(c) :
           Show(c, "pool", UNION {shards[c][s].notes : s \in H}, H # Hits(c))
    BY <1>4 DEF RecallReply
  <2>2. /\ pc'[c] = "show"
        /\ printed'[c].notes = UNION {shards[c][s].notes : s \in H}
        /\ printed'[c].cut = (H # Hits(c))
    BY <2>1, <1>t DEF Show
  <2>3. H = Hits(c) => before'[c] \subseteq printed'[c].notes
    BY <2>2, <1>2
  <2>. QED  BY <2>2, <2>3, <1>1 DEF RecallInv
<1>. QED  BY <1>3, <1>4

\* Every step keeps the recall of every client complete.
LEMMA RecallStep ==
    ASSUME TypeOK, KeptInv, [Next]_vars, NEW e \in Client, RecallInv(e)
    PROVE  RecallInv(e)'
<1>t. /\ shards \in [Client -> [Shard -> Answer]] /\ before \in [Client -> SUBSET Note]
      /\ pc \in [Client -> {"off", "note", "notelocal", "ready", "capture", "local", "recall",
                             "fallback", "show"}]
      /\ printed \in [Client -> Printed] /\ told \subseteq Note
  BY DEF TypeOK
<1>k. told \subseteq told'
  BY KeptStep
<1>b. before[e] \subseteq told /\ (pc[e] # "recall" => shards[e] = NothingAsked)
  BY DEF RecallInv
<1>1. ASSUME NEW c \in Client, Leave(c)
      PROVE  RecallInv(e)'
  <2>1. CASE c = e
    <3>1. shards'[e] = NothingAsked /\ before'[e] = {} /\ pc'[e] = "off"
      BY <1>1, <2>1, <1>t DEF Leave
    <3>. QED  BY <3>1, RecallOver
  <2>2. CASE c # e
    <3>1. pc'[e] = pc[e] /\ shards'[e] = shards[e] /\ before'[e] = before[e] /\ printed'[e] = printed[e]
      BY <1>1, <2>2, <1>t DEF Leave
    <3>. QED  BY <3>1, <1>k, RecallFrame
  <2>. QED  BY <2>1, <2>2
<1>2. ASSUME NEW c \in Client, Start(c) \/ Capture(c) \/ PoolCapture(c) \/ NoteLocal(c)
      PROVE  RecallInv(e)'
  <2>1. /\ UNCHANGED <<shards, before, printed>>
        /\ pc[c] \in {"off", "ready", "note", "capture", "notelocal"}
        /\ pc'[c] \in {"note", "ready", "capture", "notelocal", "local"}
        /\ \A d \in Client \ {c} : pc'[d] = pc[d]
    BY <1>2, <1>t DEF Start, Capture, PoolCapture, NoteLocal
  <2>2. CASE c = e
    BY <2>1, <2>2, <1>b, <1>k, RecallOver
  <2>3. CASE c # e
    BY <2>1, <2>3, <1>k, RecallFrame
  <2>. QED  BY <2>2, <2>3
<1>3. ASSUME NEW c \in Client, Recall(c)
      PROVE  RecallInv(e)'
  <2>1. CASE c = e
    <3>1. /\ pc'[e] = "recall" /\ before'[e] = told /\ told' = told
          /\ \A s \in Shard : shards'[e][s] = [st |-> "asked", notes |-> {}]
      BY <1>3, <2>1, <1>t DEF Recall
    <3>2. \A s \in Shard : shards'[e][s].st = "asked"
      BY <3>1
    <3>. QED  BY <3>1, <3>2 DEF RecallInv
  <2>2. CASE c # e
    <3>1. pc'[e] = pc[e] /\ shards'[e] = shards[e] /\ before'[e] = before[e] /\ printed'[e] = printed[e]
      BY <1>3, <2>2, <1>t DEF Recall
    <3>. QED  BY <3>1, <1>k, RecallFrame
  <2>. QED  BY <2>1, <2>2
<1>4. ASSUME NEW c \in Client, RecallReply(c)
      PROVE  RecallInv(e)'
  <2>1. CASE c = e
    BY <1>4, <2>1, ReplyComplete
  <2>2. CASE c # e
    <3>1. shards'[e] = shards[e] /\ before'[e] = before[e]
      BY <1>4, <2>2, <1>t DEF RecallReply
    <3>2. pc'[e] = pc[e] /\ printed'[e] = printed[e]
      BY <1>4, <2>2, <1>t DEF RecallReply, Show
    <3>. QED  BY <3>1, <3>2, <1>k, RecallFrame
  <2>. QED  BY <2>1, <2>2
<1>5. ASSUME NEW c \in Client, Fallback(c)
      PROVE  RecallInv(e)'
  <2>1. /\ UNCHANGED <<shards, before, told>>
        /\ pc[c] = "fallback" /\ pc'[c] = "show"
        /\ \A d \in Client \ {c} : pc'[d] = pc[d] /\ printed'[d] = printed[d]
    BY <1>5, <1>t DEF Fallback, Show
  <2>2. CASE c = e
    <3>1. before'[e] = {} /\ shards'[e] = NothingAsked
      BY <2>1, <2>2 DEF RecallInv
    <3>. QED  BY <2>1, <2>2, <3>1 DEF RecallInv
  <2>3. CASE c # e
    BY <2>1, <2>3, <1>k, RecallFrame
  <2>. QED  BY <2>2, <2>3
<1>6. ASSUME NEW c \in Client, NEW s \in Shard, ShardAnswers(c, s) \/ ShardRefuses(c, s)
      PROVE  RecallInv(e)'
  <2>1. /\ UNCHANGED <<pc, before, printed, told>> /\ shards[c][s].st = "asked"
        /\ \A d \in Client \ {c} : shards'[d] = shards[d]
        /\ \A u \in Shard \ {s} : shards'[c][u] = shards[c][u]
    BY <1>6, <1>t DEF ShardAnswers, ShardRefuses
  <2>2. CASE c # e
    BY <2>1, <2>2, <1>k, RecallFrame
  <2>3. CASE c = e
    <3>1. pc[e] = "recall"
      BY <2>1, <2>3, <1>b DEF NothingAsked
    <3>2. CASE ShardAnswers(c, s)
      <4>1. shards'[c][s].st = "ok" /\ shards'[c][s].notes = kept[s]
        BY <3>2, <1>t DEF ShardAnswers
      <4>2. Gave(e, s)'
        BY <4>1, <2>1, <2>3, <1>b DEF Gave, KeptInv, CommittedIsKept
      <4>3. \A u \in Shard \ {s} : Gave(e, u) => Gave(e, u)'
        BY <2>1, <2>3 DEF Gave
      <4>. QED  BY <2>1, <2>3, <3>1, <4>1, <4>2, <4>3 DEF RecallInv
    <3>3. CASE ShardRefuses(c, s)
      <4>1. shards'[c][s].st = "failed"
        BY <3>3, <1>t DEF ShardRefuses, Answer
      <4>3. \A u \in Shard \ {s} : Gave(e, u) => Gave(e, u)'
        BY <2>1, <2>3 DEF Gave
      <4>. QED  BY <2>1, <2>3, <3>1, <4>1, <4>3 DEF RecallInv
    <3>. QED  BY <1>6, <3>2, <3>3
  <2>. QED  BY <2>2, <2>3
<1>7. CASE UNCHANGED vars
  BY <1>7, <1>k, RecallFrame DEF vars
<1>8. ASSUME NEW c \in Client, Stop(c) \/ CaptureLocal(c) \/ FallbackFails(c)
      PROVE  RecallInv(e)'
  BY <1>1, <1>8 DEF Stop, CaptureLocal, FallbackFails
<1>. QED
  BY <1>2, <1>3, <1>4, <1>5, <1>6, <1>7, <1>8 DEF Next, Work, Ask, TimeUp

\* A recall shows every note that had been confirmed before it was sent, except
\* those of shards that failed in this recall and those that the limit cut off.
THEOREM RecallIsComplete == Spec => []RecallComplete
<1> DEFINE Inv == \A c \in Client : RecallInv(c)
<1>1. Init => Inv
  BY DEF Init, RecallInv
<1>2. TypeOK /\ KeptInv /\ Inv /\ [Next]_vars => Inv'
  BY RecallStep
<1>3. Inv => RecallComplete
  BY DEF RecallInv, RecallComplete
<1> HIDE DEF Inv
<1>. QED
  BY <1>1, <1>2, <1>3, TypeCorrect, KeptCorrect, PTL DEF Spec
=============================================================================
