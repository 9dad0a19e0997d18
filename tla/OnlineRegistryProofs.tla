------------------------- MODULE OnlineRegistryProofs -------------------------
(***************************************************************************)
(* Proofs about OnlineRegistry, for every set of machines and sessions and *)
(* every pair of periods with 2 * Interval <= OfflineAfter.                *)
(***************************************************************************)
EXTENDS OnlineRegistry, TLAPS

\* Broadcasting a delta keeps the type of the channels and touches only
\* sessions that listen (Registry::broadcast, broadcast_except).
LEMMA QueuedType ==
    ASSUME TypeOK, NEW d \in Delta, NEW To
    PROVE  /\ Queued(d, To) \in [Session -> Seq(Delta)]
           /\ \A s \in Session : ~Listening(s) => Queued(d, To)[s] = <<>>
<1>1. ASSUME NEW s \in Session PROVE Append(chan[s], d) \in Seq(Delta)
  BY DEF TypeOK
<1> QED BY <1>1 DEF Queued, TypeOK

\* The history of misinformed sessions keeps its type.
LEMMA InformedType ==
    ASSUME TypeOK, NEW m \in Machine, NEW To, NEW wrong
    PROVE  Informed(m, To, wrong) \in [Session -> SUBSET Machine]
  BY DEF Informed, TypeOK


\* Every action keeps the types: the channel of a session that does not listen
\* stays empty, and the age of a machine that is not listed stays zero.
LEMMA TypeStep == TypeOK /\ [Next]_vars => TypeOK'
<1> SUFFICES ASSUME TypeOK, [Next]_vars PROVE TypeOK' OBVIOUS
<1> USE OnlineAssumption DEF Listening, Running, Stage
<1>1. ASSUME NEW s \in Session, Register(s) PROVE TypeOK'
  BY <1>1 DEF TypeOK, Register, prune
<1>2. ASSUME NEW s \in Session, AckFails(s) PROVE TypeOK'
  BY <1>2 DEF TypeOK, AckFails, Closed, table, prune
<1>3. ASSUME NEW s \in Session, Subscribe(s) PROVE TypeOK'
  BY <1>3 DEF TypeOK, Subscribe, table, prune
<1>4. ASSUME NEW s \in Session, AnnounceJoin(s) PROVE TypeOK'
  <2> DEFINE d == [kind |-> "join", machine |-> Owner[s]]
  <2>1. d \in Delta BY DEF Delta
  <2>2. /\ chan' \in [Session -> Seq(Delta)]
        /\ \A t \in Session : ~Listening(t) => chan'[t] = <<>>
    BY <1>4, <2>1, QueuedType DEF AnnounceJoin
  <2>3. astray' \in [Session -> SUBSET Machine]
    BY <1>4, InformedType DEF AnnounceJoin
  <2>4. /\ stage' \in [Session -> Stage]
        /\ idle' \in [Session -> 0 .. Interval + 1]
        /\ \A t \in Session : ~Running(t)' => idle'[t] = 0
        /\ \A t \in Session : ~Listening(t)' => ~Listening(t)
    BY <1>4 DEF TypeOK, AnnounceJoin
  <2>5. UNCHANGED <<machines, age, view, stale, leaving, late>>
    BY <1>4 DEF AnnounceJoin, table, prune
  <2> HIDE DEF Listening, Running, Stage
  <2> QED BY <2>2, <2>3, <2>4, <2>5 DEF TypeOK
<1>5. ASSUME NEW s \in Session, Heartbeat(s) PROVE TypeOK'
  BY <1>5 DEF TypeOK, Heartbeat, prune
<1>6. ASSUME NEW s \in Session, Deliver(s) PROVE TypeOK'
  <2>1. chan[s] \in Seq(Delta) /\ chan[s] # <<>> BY <1>6 DEF TypeOK, Deliver
  <2>2. Tail(chan[s]) \in Seq(Delta) /\ Head(chan[s]) \in Delta BY <2>1
  <2>3. Head(chan[s]).machine \in Machine BY <2>2 DEF Delta
  <2>4. view' \in [Session -> SUBSET Machine] BY <1>6, <2>3 DEF TypeOK, Deliver
  <2>5. /\ chan' \in [Session -> Seq(Delta)]
        /\ \A t \in Session : ~Listening(t) => chan'[t] = <<>>
    BY <1>6, <2>2 DEF TypeOK, Deliver
  <2> QED BY <1>6, <2>4, <2>5 DEF TypeOK, Deliver, table, sessions, prune
<1>7. ASSUME NEW s \in Session, End(s) PROVE TypeOK'
  <2> DEFINE d == [kind |-> "leave", machine |-> Owner[s]]
  <2>1. d \in Delta BY DEF Delta
  <2>2. /\ Queued(d, Session) \in [Session -> Seq(Delta)]
        /\ \A t \in Session : ~Listening(t) => Queued(d, Session)[t] = <<>>
    BY <2>1, QueuedType
  <2>3. /\ chan' \in [Session -> Seq(Delta)]
        /\ chan'[s] = <<>>
        /\ \A t \in Session : ~Listening(t) => chan'[t] = <<>>
    BY <1>7, <2>2 DEF End
  <2>4. astray' \in [Session -> SUBSET Machine]
    BY <1>7, InformedType DEF End
  <2> QED BY <1>7, <2>3, <2>4 DEF TypeOK, End, Closed, table, prune
<1>8. ASSUME NEW s \in Session, EndSilently(s) PROVE TypeOK'
  BY <1>8 DEF TypeOK, EndSilently, Closed, table, prune
<1>9. CASE Scan
  BY <1>9 DEF TypeOK, Scan, table, sessions
<1>10. ASSUME NEW m \in Machine, PruneRemove(m) PROVE TypeOK'
  BY <1>10 DEF TypeOK, PruneRemove, sessions
<1>11. CASE PruneAnnounce
  <2> DEFINE d == [kind |-> "leave", machine |-> leaving]
  <2>1. leaving \in Machine BY <1>11 DEF TypeOK, PruneAnnounce
  <2>2. d \in Delta BY <2>1 DEF Delta
  <2>3. /\ chan' \in [Session -> Seq(Delta)]
        /\ \A t \in Session : ~Listening(t) => chan'[t] = <<>>
    BY <1>11, <2>2, QueuedType DEF PruneAnnounce
  <2>4. astray' \in [Session -> SUBSET Machine]
    BY <1>11, <2>1, InformedType DEF PruneAnnounce
  <2> QED BY <1>11, <2>3, <2>4 DEF TypeOK, PruneAnnounce, table, sessions
<1>12. CASE Restart
  BY <1>12 DEF TypeOK, Restart
<1>13. CASE Tick
  BY <1>13 DEF TypeOK, Tick, prune
<1>14. CASE UNCHANGED vars
  BY <1>14 DEF TypeOK, vars
<1> QED
  BY <1>1, <1>2, <1>3, <1>4, <1>5, <1>6, <1>7, <1>8, <1>9, <1>10, <1>11, <1>12,
     <1>13, <1>14 DEF Next, SessionStep, PruneStep

\* The online table keeps its type (all of registry.rs).
THEOREM TypeCorrect == Spec => []TypeOK
<1>1. Init => TypeOK
  BY OnlineAssumption DEF Init, TypeOK, Stage, Listening, Running
<1> QED BY <1>1, TypeStep, PTL DEF Spec

-----------------------------------------------------------------------------

\* A punctual running session finds its machine listed and its entry fresh,
\* whichever session or loop takes the step. The prune loop removes nothing
\* that is fresh, because it looks again under the write lock.
LEMMA BeatStep == BeatInv /\ [Next]_vars => BeatInv'
<1> SUFFICES ASSUME BeatInv, [Next]_vars PROVE BeatInv' OBVIOUS
<1> DEFINE Listed(s) == Owner[s] \in machines /\ Fresh(s)
<1>a. TypeOK' BY TypeStep DEF BeatInv
<1>b. SUFFICES ASSUME NEW p \in Punctual, Running(p)' PROVE Listed(p)'
  BY <1>a DEF BeatInv
<1>c. /\ TypeOK
      /\ Running(p) => Listed(p)
      /\ p \in Session
      /\ Owner[p] \in Machine
  BY OnlineAssumption DEF BeatInv
<1> USE OnlineAssumption, <1>b, <1>c DEF TypeOK, Running, Fresh
<1>1. ASSUME NEW s \in Session, Register(s) PROVE Listed(p)'
  BY <1>1 DEF Register, prune
<1>2. ASSUME NEW s \in Session, AckFails(s) PROVE Listed(p)'
  BY <1>2 DEF AckFails, Closed, table
<1>3. ASSUME NEW s \in Session, Subscribe(s) PROVE Listed(p)'
  BY <1>3 DEF Subscribe, table
<1>4. ASSUME NEW s \in Session, AnnounceJoin(s) PROVE Listed(p)'
  BY <1>4 DEF AnnounceJoin, table
<1>5. ASSUME NEW s \in Session, Heartbeat(s) PROVE Listed(p)'
  BY <1>5 DEF Heartbeat
<1>6. ASSUME NEW s \in Session, Deliver(s) PROVE Listed(p)'
  BY <1>6 DEF Deliver, table, sessions
<1>7. ASSUME NEW s \in Session, End(s) PROVE Listed(p)'
  BY <1>7 DEF End, Closed, table
<1>8. ASSUME NEW s \in Session, EndSilently(s) PROVE Listed(p)'
  BY <1>8 DEF EndSilently, Closed, table
<1>9. CASE Scan
  BY <1>9 DEF Scan, table, sessions
<1>10. ASSUME NEW m \in Machine, PruneRemove(m) PROVE Listed(p)'
  <2>1. Running(p) BY <1>10 DEF PruneRemove, sessions
  <2>2. age[Owner[p]] <= OfflineAfter BY <2>1
  <2>3. ~Stale(Owner[p]) BY <2>2 DEF Stale
  <2> QED BY <1>10, <2>1, <2>3 DEF PruneRemove, sessions
<1>11. CASE PruneAnnounce
  BY <1>11 DEF PruneAnnounce, table, sessions
<1>12. CASE Restart
  BY <1>12 DEF Restart, Stage
<1>13. CASE Tick
  BY <1>13 DEF Tick
<1>14. CASE UNCHANGED vars
  BY <1>14 DEF vars
<1> QED
  BY <1>1, <1>2, <1>3, <1>4, <1>5, <1>6, <1>7, <1>8, <1>9, <1>10, <1>11, <1>12,
     <1>13, <1>14 DEF Next, SessionStep, PruneStep

\* The machine of a running session that does not stall is always in the online
\* table, whatever the prune loop and other sessions of the machine do.
THEOREM PunctualIsListed == Spec => []ConnectedIsListed
<1>1. Init => BeatInv
  BY OnlineAssumption DEF Init, BeatInv, TypeOK, Stage, Listening, Running
<1>2. BeatInv => ConnectedIsListed
  BY DEF BeatInv, ConnectedIsListed
<1> QED BY <1>1, <1>2, BeatStep, PTL DEF Spec
-----------------------------------------------------------------------------
(* What clients are told *)

\* The last delta of channel q about machine m is a Join; q has none about m.
LastJoin(q, m) ==
    \E i \in DOMAIN q : /\ q[i].machine = m /\ q[i].kind = "join"
                        /\ \A j \in DOMAIN q : j > i => q[j].machine # m
Silent(q, m) == \A i \in DOMAIN q : q[i].machine # m

\* A client with view v will hold m for online when it has read channel q.
Told(q, v, m) == LastJoin(q, m) \/ (Silent(q, m) /\ m \in v)

\* The client's view after one delta, as Deliver has it.
Shown(v, d) == IF d.kind = "join" THEN v \cup {d.machine} ELSE v \ {d.machine}

\* With an empty channel the view counts.
LEMMA ToldEmpty == \A v, m : Told(<<>>, v, m) <=> m \in v
  BY DEF Told, LastJoin, Silent

\* A delta that is queued decides about its machine and no other.
LEMMA ToldAppend ==
    ASSUME NEW q \in Seq(Delta), NEW d \in Delta, NEW v, NEW m
    PROVE  /\ m = d.machine => (Told(Append(q, d), v, m) <=> d.kind = "join")
           /\ m # d.machine => (Told(Append(q, d), v, m) <=> Told(q, v, m))
<1> DEFINE n == Len(q) + 1
           r == Append(q, d)
<1>1. /\ Len(q) \in Nat /\ DOMAIN q = 1 .. Len(q) /\ DOMAIN r = 1 .. n
      /\ r[n] = d /\ \A i \in 1 .. Len(q) : r[i] = q[i]
  OBVIOUS
<1>2. n \in DOMAIN r /\ n \notin DOMAIN q /\ \A i \in DOMAIN r : i \in DOMAIN q \/ i = n
  BY <1>1
<1>3. \A i \in DOMAIN q : i \in DOMAIN r /\ n > i /\ ~(i > n) /\ r[i] = q[i]
  BY <1>1
<1>4. ~(n > n) /\ r[n] = d
  BY <1>1
<1> HIDE DEF n, r
<1>5. CASE m = d.machine
  <2>1. ~ Silent(r, m)
    BY <1>2, <1>4, <1>5 DEF Silent
  <2>2. ASSUME d.kind = "join" PROVE LastJoin(r, m)
    BY <2>2, <1>2, <1>3, <1>4, <1>5 DEF LastJoin
  <2>3. ASSUME LastJoin(r, m) PROVE d.kind = "join"
    BY <2>3, <1>2, <1>3, <1>4, <1>5 DEF LastJoin
  <2>. QED  BY <1>5, <2>1, <2>2, <2>3 DEF Told, r
<1>6. CASE m # d.machine
  <2>1. Silent(r, m) <=> Silent(q, m)
    BY <1>2, <1>3, <1>4, <1>6 DEF Silent
  <2>2. ASSUME LastJoin(q, m) PROVE LastJoin(r, m)
    BY <2>2, <1>2, <1>3, <1>4, <1>6 DEF LastJoin
  <2>3. ASSUME LastJoin(r, m) PROVE LastJoin(q, m)
    BY <2>3, <1>2, <1>3, <1>4, <1>6 DEF LastJoin
  <2>. QED  BY <1>6, <2>1, <2>2, <2>3 DEF Told, r
<1>. QED  BY <1>5, <1>6

\* Showing the next delta to the client does not change what it will hold.
LEMMA ToldTail ==
    ASSUME NEW q \in Seq(Delta), q # <<>>, NEW v, NEW m
    PROVE  Told(Tail(q), Shown(v, Head(q)), m) <=> Told(q, v, m)
<1> DEFINE r == Tail(q)
           d == Head(q)
<1>1. /\ Len(q) \in Nat \ {0} /\ DOMAIN q = 1 .. Len(q) /\ DOMAIN r = 1 .. Len(q) - 1
      /\ q[1] = d /\ \A i \in 1 .. Len(q) - 1 : r[i] = q[i + 1]
  OBVIOUS
<1>2. 1 \in DOMAIN q /\ \A i \in DOMAIN q : i = 1 \/ (i - 1 \in DOMAIN r /\ r[i - 1] = q[i] /\ i > 1)
  BY <1>1
<1>3. \A i \in DOMAIN r : i + 1 \in DOMAIN q /\ r[i] = q[i + 1] /\ i + 1 > 1
  BY <1>1
<1>4. d \in Delta
  OBVIOUS
<1>5. DOMAIN r \subseteq Nat /\ DOMAIN q \subseteq Nat
  BY <1>1
<1>6. q[1] = d
  BY <1>1
<1> HIDE DEF r, d
<1>7. ASSUME LastJoin(r, m) PROVE LastJoin(q, m)
  <2>1. PICK i \in DOMAIN r : /\ r[i].machine = m /\ r[i].kind = "join"
                              /\ \A j \in DOMAIN r : j > i => r[j].machine # m
    BY <1>7 DEF LastJoin
  <2>2. ASSUME NEW j \in DOMAIN q, j > i + 1 PROVE q[j].machine # m
    <3>1. j - 1 \in DOMAIN r /\ r[j - 1] = q[j] /\ j - 1 > i
      BY <2>2, <1>2, <1>5
    <3>. QED  BY <3>1, <2>1
  <2>. QED  BY <2>1, <2>2, <1>3 DEF LastJoin
<1>8. ASSUME LastJoin(q, m) PROVE LastJoin(r, m) \/ (Silent(r, m) /\ d.machine = m /\ d.kind = "join")
  <2>1. PICK i \in DOMAIN q : /\ q[i].machine = m /\ q[i].kind = "join"
                              /\ \A j \in DOMAIN q : j > i => q[j].machine # m
    BY <1>8 DEF LastJoin
  <2>2. CASE i = 1
    BY <2>1, <2>2, <1>3, <1>6 DEF Silent
  <2>3. CASE i # 1
    <3>1. i - 1 \in DOMAIN r /\ r[i - 1] = q[i]
      BY <2>3, <1>2
    <3>2. ASSUME NEW j \in DOMAIN r, j > i - 1 PROVE r[j].machine # m
      <4>1. j + 1 \in DOMAIN q /\ r[j] = q[j + 1] /\ j + 1 > i
        BY <3>2, <1>3, <1>5
      <4>. QED  BY <4>1, <2>1
    <3>. QED  BY <3>1, <3>2, <2>1 DEF LastJoin
  <2>. QED  BY <2>2, <2>3
<1>9. Silent(q, m) <=> (Silent(r, m) /\ d.machine # m)
  BY <1>2, <1>3, <1>6 DEF Silent
<1>10. ASSUME Silent(r, m), d.machine = m, d.kind = "join" PROVE LastJoin(q, m)
  BY <1>10, <1>2, <1>5, <1>6 DEF LastJoin, Silent
<1>11. ASSUME Silent(r, m) PROVE ~ LastJoin(r, m)
  BY <1>11 DEF Silent, LastJoin
<1>12. m \in Shown(v, d) <=> (IF m = d.machine THEN d.kind = "join" ELSE m \in v)
  BY DEF Shown
<1>. QED  BY <1>7, <1>8, <1>9, <1>10, <1>11, <1>12 DEF Told, r, d

\* What a broadcast does to what session s will hold of machine m: s hears a frame
\* about m and will hold what it says, or nothing changes for it. Only a session
\* that has its snapshot and does not listen yet is left out.
LEMMA Broadcast ==
    ASSUME TypeOK, NEW d \in Delta, NEW To, NEW s \in Session, Running(s),
           NEW m \in Machine, m = d.machine => stage[s] # "acked"
    PROVE  /\ m # d.machine \/ s \notin To =>
                (Told(Queued(d, To)[s], view[s], m) <=> Told(chan[s], view[s], m))
           /\ m = d.machine /\ s \in To =>
                (Told(Queued(d, To)[s], view[s], m) <=> d.kind = "join")
<1>1. chan[s] \in Seq(Delta)
  BY DEF TypeOK
<1>2. /\ m = d.machine => (Told(Append(chan[s], d), view[s], m) <=> d.kind = "join")
      /\ m # d.machine => (Told(Append(chan[s], d), view[s], m) <=> Told(chan[s], view[s], m))
  BY <1>1, ToldAppend
<1>3. Queued(d, To)[s] = IF s \in To /\ Listening(s) THEN Append(chan[s], d) ELSE chan[s]
  BY DEF Queued
<1>4. stage[s] # "acked" => Listening(s)
  BY DEF Running, Listening
<1>. QED  BY <1>2, <1>3, <1>4

\* There is a reason to hold machine m for online: an entry, a Leave of it on its
\* way, a session, or the excuse that one of its sessions may stall.
Backed(m) ==
    \/ m \in machines \cup {leaving}
    \/ Connected(m)
    \/ \E t \in Session \ Punctual : Owner[t] = m

\* Session s must hear of machine m: its own, or one with a ready session that
\* does not stall.
Due(s, m) ==
    \/ m = Owner[s]
    \/ \E t \in Punctual : Owner[t] = m /\ stage[t] = "ready"

\* What s will hold of m when it has read its channel is right.
SeesRight(s, m) ==
    /\ Due(s, m) => Told(chan[s], view[s], m)
    /\ Told(chan[s], view[s], m) => Backed(m)

\* The inductive invariant behind ViewsRight. It speaks of every running session,
\* from its snapshot on, and of what its channel will make it show.
ViewInv ==
    /\ BeatInv
    /\ \A s \in Session : Running(s) =>
         \A m \in Machine \ astray[s] : SeesRight(s, m)

\* A session that ends takes no reason away: its machine keeps its entry, or the
\* session was one that may stall.
LEMMA ClosedKeepsBacked ==
    ASSUME BeatInv, NEW s \in Session, Running(s), Closed(s), UNCHANGED <<machines, leaving>>,
           NEW m \in Machine, Backed(m)
    PROVE  Backed(m)'
<1> USE OnlineAssumption
<1>1. \A t \in Session \ {s} : Running(t) => Running(t)'
  BY DEF Closed, Running, BeatInv, TypeOK
<1>2. Owner[s] \in machines \/ s \in Session \ Punctual
  BY DEF BeatInv
<1>. QED  BY <1>1, <1>2 DEF Backed, Connected

\* A session that ends makes nobody ready.
LEMMA ClosedKeepsDue ==
    ASSUME TypeOK, NEW s \in Session, Closed(s), NEW r \in Session, NEW m \in Machine, Due(r, m)'
    PROVE  /\ Due(r, m)
           /\ m = Owner[r] \/ \E t \in Session \ {s} : Owner[t] = m /\ Running(t)
<1> USE OnlineAssumption
<1>1. \A t \in Session : stage'[t] = "ready" => t # s /\ stage[t] = "ready"
  BY DEF Closed, TypeOK
<1>. QED  BY <1>1 DEF Due, Running

\* Every step keeps ViewInv.
LEMMA ViewStep == ViewInv /\ [Next]_vars => ViewInv'
<1> SUFFICES ASSUME ViewInv, [Next]_vars PROVE ViewInv' OBVIOUS
<1>a. BeatInv'
  BY BeatStep DEF ViewInv
<1>b. BeatInv /\ TypeOK /\ TypeOK'
  BY <1>a DEF ViewInv, BeatInv
<1>c. SUFFICES ASSUME NEW s \in Session, Running(s)', NEW m \in Machine, m \notin astray'[s]
               PROVE  SeesRight(s, m)'
  BY <1>a DEF ViewInv
<1>d. Running(s) /\ m \notin astray[s] => SeesRight(s, m)
  BY DEF ViewInv
<1> USE OnlineAssumption, <1>b, <1>c
<1>1. ASSUME NEW t \in Session, Register(t) PROVE SeesRight(s, m)'
  <2>1. /\ machines' = machines \cup {Owner[t]}
        /\ leaving' = leaving /\ chan' = chan /\ astray' = astray
        /\ \A r \in Session : Running(r) => Running(r)'
        /\ \A r \in Session : stage'[r] = "ready" => stage[r] = "ready"
    BY <1>1 DEF Register, prune, TypeOK, Running
  <2>2. Backed(m) => Backed(m)'
    BY <2>1 DEF Backed, Connected
  <2>3. Due(s, m)' => Due(s, m)
    BY <2>1 DEF Due
  <2>4. CASE s # t
    <3>1. Running(s) /\ view'[s] = view[s]
      BY <1>1, <2>4 DEF Register, TypeOK, Running
    <3>. QED  BY <3>1, <2>1, <2>2, <2>3, <1>d DEF SeesRight
  <2>5. CASE s = t
    <3>1. view'[s] = machines' /\ chan'[s] = <<>>
      BY <1>1, <2>5, <2>1 DEF Register, TypeOK, Listening
    <3>2. Told(chan'[s], view'[s], m) <=> m \in machines'
      BY <3>1, ToldEmpty
    <3>3. Due(s, m)' => m \in machines'
      BY <2>1, <2>5 DEF Due, BeatInv, Running
    <3>. QED  BY <3>2, <3>3 DEF SeesRight, Backed
  <2>. QED  BY <2>4, <2>5
<1>2. ASSUME NEW t \in Session, AckFails(t) PROVE SeesRight(s, m)'
  <2>1. s # t /\ Running(s) /\ Running(t)
    BY <1>2 DEF AckFails, Closed, Running, TypeOK
  <2>2. chan'[s] = chan[s] /\ view'[s] = view[s] /\ astray'[s] = astray[s]
    BY <1>2, <2>1 DEF AckFails, Closed, TypeOK
  <2>3. Backed(m) => Backed(m)'
    BY <1>2, <2>1, ClosedKeepsBacked DEF AckFails, table, prune
  <2>4. Due(s, m)' => Due(s, m)
    BY <1>2, ClosedKeepsDue DEF AckFails
  <2>. QED  BY <2>1, <2>2, <2>3, <2>4, <1>d DEF SeesRight
<1>3. ASSUME NEW t \in Session, Subscribe(t) PROVE SeesRight(s, m)'
  <2>1. /\ UNCHANGED <<machines, leaving, chan, view, astray>>
        /\ \A r \in Session : Running(r) <=> Running(r)'
        /\ \A r \in Session : stage'[r] = "ready" => stage[r] = "ready"
    BY <1>3 DEF Subscribe, table, prune, TypeOK, Running
  <2>. QED  BY <2>1, <1>d DEF SeesRight, Due, Backed, Connected
<1>4. ASSUME NEW t \in Session, AnnounceJoin(t) PROVE SeesRight(s, m)'
  <2> DEFINE d == [kind |-> "join", machine |-> Owner[t]]
             To == Session \ {t}
  <2>1. d \in Delta /\ d.machine = Owner[t] /\ d.kind = "join"
    BY DEF Delta
  <2>2. /\ UNCHANGED <<machines, leaving, view>>
        /\ chan' = Queued(d, To) /\ astray' = Informed(d.machine, To, FALSE)
    BY <1>4 DEF AnnounceJoin, table, prune
  <2>3. /\ \A r \in Session : Running(r) <=> Running(r)'
        /\ \A r \in Session \ {t} : stage'[r] = "ready" => stage[r] = "ready"
        /\ Running(t)
    BY <1>4 DEF AnnounceJoin, TypeOK, Running
  <2>0. /\ m = d.machine => stage[s] # "acked"
        /\ m # d.machine \/ s \notin To => m \notin astray[s]
    BY <2>2, <2>3 DEF Informed, Running, Listening
  <2> HIDE DEF d, To
  <2>4. Backed(m)' <=> Backed(m)
    BY <2>2, <2>3 DEF Backed, Connected
  <2>5. \/ /\ m # d.machine \/ s \notin To
           /\ m \notin astray[s]
           /\ Told(chan'[s], view'[s], m) <=> Told(chan[s], view[s], m)
        \/ /\ m = d.machine
           /\ Told(chan'[s], view'[s], m) <=> d.kind = "join"
    BY <2>1, <2>2, <2>3, <2>0, Broadcast
  <2>6. CASE m = d.machine /\ (Told(chan'[s], view'[s], m) <=> d.kind = "join")
    <3>1. Connected(m)
      BY <2>1, <2>3, <2>6 DEF Connected
    <3>. QED  BY <3>1, <2>1, <2>4, <2>6 DEF SeesRight, Backed
  <2>7. CASE /\ m # d.machine \/ s \notin To
             /\ m \notin astray[s]
             /\ Told(chan'[s], view'[s], m) <=> Told(chan[s], view[s], m)
    <3>1. SeesRight(s, m)
      BY <2>3, <2>7, <1>d
    <3>2. Due(s, m)' => Due(s, m)
      BY <2>1, <2>3, <2>7 DEF Due, To
    <3>. QED  BY <3>1, <3>2, <2>4, <2>7 DEF SeesRight
  <2>. QED  BY <2>5, <2>6, <2>7
<1>5. ASSUME NEW t \in Session, Heartbeat(t) PROVE SeesRight(s, m)'
  <2>1. UNCHANGED <<machines, leaving, chan, view, astray, stage>>
    BY <1>5 DEF Heartbeat, prune
  <2>. QED  BY <2>1, <1>d DEF SeesRight, Due, Backed, Connected, Running
<1>6. ASSUME NEW t \in Session, Deliver(t) PROVE SeesRight(s, m)'
  <2>1. UNCHANGED <<machines, leaving, astray, stage>>
    BY <1>6 DEF Deliver, table, prune, sessions
  <2>2. SeesRight(s, m)
    BY <2>1, <1>d DEF Running
  <2>3. (Backed(m)' <=> Backed(m)) /\ (Due(s, m)' <=> Due(s, m))
    BY <2>1 DEF Backed, Connected, Running, Due
  <2>4. Told(chan'[s], view'[s], m) <=> Told(chan[s], view[s], m)
    <3>1. CASE s # t
      BY <1>6, <3>1 DEF Deliver, TypeOK
    <3>2. CASE s = t
      <4>1. chan[s] \in Seq(Delta) /\ chan[s] # <<>>
        BY <1>6, <3>2 DEF Deliver, TypeOK
      <4>2. chan'[s] = Tail(chan[s]) /\ view'[s] = Shown(view[s], Head(chan[s]))
        BY <1>6, <3>2 DEF Deliver, TypeOK, Shown
      <4>. QED  BY <4>1, <4>2, ToldTail
    <3>. QED  BY <3>1, <3>2
  <2>. QED  BY <2>2, <2>3, <2>4 DEF SeesRight
<1>7. ASSUME NEW t \in Session, End(t) PROVE SeesRight(s, m)'
  <2> DEFINE d == [kind |-> "leave", machine |-> Owner[t]]
  <2>1. d \in Delta /\ d.machine = Owner[t] /\ d.kind # "join"
    BY DEF Delta
  <2>2. s # t /\ Running(s) /\ Running(t)
    BY <1>7 DEF End, Closed, Running, TypeOK
  <2>3. /\ view'[s] = view[s]
        /\ chan'[s] = Queued(d, Session)[s]
        /\ astray'[s] = Informed(d.machine, Session, OtherSession(t))[s]
    BY <1>7, <2>2 DEF End, Closed, TypeOK, Queued, Informed
  <2>0. /\ m = d.machine => stage[s] # "acked" /\ ~ OtherSession(t)
        /\ m # d.machine => m \notin astray[s]
    BY <2>2, <2>3 DEF Informed, Running, Listening
  <2> HIDE DEF d
  <2>4. Backed(m) => Backed(m)'
    BY <1>7, <2>2, ClosedKeepsBacked DEF End, table, prune
  <2>5. /\ Due(s, m)' => Due(s, m)
        /\ Due(s, m)' => m = Owner[s] \/ \E r \in Session \ {t} : Owner[r] = m /\ Running(r)
    BY <1>7, ClosedKeepsDue DEF End
  <2>6. \/ /\ m \notin astray[s]
           /\ Told(chan'[s], view'[s], m) <=> Told(chan[s], view[s], m)
        \/ /\ m = d.machine /\ ~ OtherSession(t)
           /\ Told(chan'[s], view'[s], m) <=> d.kind = "join"
    BY <2>1, <2>2, <2>3, <2>0, Broadcast
  <2>7. CASE /\ m = d.machine /\ ~ OtherSession(t)
             /\ Told(chan'[s], view'[s], m) <=> d.kind = "join"
    <3>1. ~ Due(s, m)'
      BY <2>1, <2>2, <2>5, <2>7 DEF OtherSession
    <3>. QED  BY <3>1, <2>1, <2>7 DEF SeesRight
  <2>8. CASE /\ m \notin astray[s]
             /\ Told(chan'[s], view'[s], m) <=> Told(chan[s], view[s], m)
    BY <2>8, <2>2, <2>4, <2>5, <1>d DEF SeesRight
  <2>. QED  BY <2>6, <2>7, <2>8
<1>8. ASSUME NEW t \in Session, EndSilently(t) PROVE SeesRight(s, m)'
  <2>1. s # t /\ Running(s) /\ Running(t)
    BY <1>8 DEF EndSilently, Closed, Running, TypeOK
  <2>2. chan'[s] = chan[s] /\ view'[s] = view[s] /\ astray'[s] = astray[s]
    BY <1>8, <2>1 DEF EndSilently, Closed, TypeOK
  <2>3. Backed(m) => Backed(m)'
    BY <1>8, <2>1, ClosedKeepsBacked DEF EndSilently, table, prune
  <2>4. Due(s, m)' => Due(s, m)
    BY <1>8, ClosedKeepsDue DEF EndSilently
  <2>. QED  BY <2>1, <2>2, <2>3, <2>4, <1>d DEF SeesRight
<1>9. CASE Scan
  <2>1. UNCHANGED <<machines, leaving, chan, view, astray, stage>>
    BY <1>9 DEF Scan, table, sessions
  <2>. QED  BY <2>1, <1>d DEF SeesRight, Due, Backed, Connected, Running
<1>10. ASSUME NEW p \in Machine, PruneRemove(p) PROVE SeesRight(s, m)'
  <2>1. /\ UNCHANGED <<chan, view, astray, stage>>
        /\ machines \cup {leaving} \subseteq machines' \cup {leaving', Nobody}
    BY <1>10 DEF PruneRemove, sessions
  <2>2. SeesRight(s, m)
    BY <2>1, <1>d DEF Running
  <2>3. Backed(m) => Backed(m)'
    BY <2>1 DEF Backed, Connected, Running
  <2>. QED  BY <2>1, <2>2, <2>3 DEF SeesRight, Due
<1>11. CASE PruneAnnounce
  <2> DEFINE d == [kind |-> "leave", machine |-> leaving]
  <2>1. d \in Delta /\ d.machine = leaving /\ d.kind # "join"
    BY <1>11 DEF Delta, PruneAnnounce, TypeOK
  <2>2. UNCHANGED <<machines, stage, view>>
    BY <1>11 DEF PruneAnnounce, table, sessions
  <2>3. /\ chan' = Queued(d, Session)
        /\ astray' = Informed(d.machine, Session, Connected(leaving))
    BY <1>11 DEF PruneAnnounce
  <2>0. /\ m = d.machine => stage[s] # "acked" /\ ~ Connected(leaving)
        /\ m # d.machine => m \notin astray[s]
    BY <2>2, <2>3 DEF Informed, Running, Listening
  <2> HIDE DEF d
  <2>4. Running(s) /\ (Due(s, m)' <=> Due(s, m))
    BY <2>2 DEF Running, Due
  <2>5. \/ /\ m # d.machine
           /\ m \notin astray[s]
           /\ Told(chan'[s], view'[s], m) <=> Told(chan[s], view[s], m)
        \/ /\ m = d.machine /\ ~ Connected(leaving)
           /\ Told(chan'[s], view'[s], m) <=> d.kind = "join"
    BY <2>1, <2>2, <2>3, <2>4, <2>0, Broadcast
  <2>6. CASE /\ m = d.machine /\ ~ Connected(leaving)
             /\ Told(chan'[s], view'[s], m) <=> d.kind = "join"
    <3>1. ~ Due(s, m)
      BY <2>1, <2>4, <2>6 DEF Due, Connected, Running
    <3>. QED  BY <3>1, <2>1, <2>4, <2>6 DEF SeesRight
  <2>7. CASE /\ m # d.machine
             /\ m \notin astray[s]
             /\ Told(chan'[s], view'[s], m) <=> Told(chan[s], view[s], m)
    <3>1. Backed(m) => Backed(m)'
      BY <2>1, <2>2, <2>7 DEF Backed, Connected, Running
    <3>. QED  BY <3>1, <2>4, <2>7, <1>d DEF SeesRight
  <2>. QED  BY <2>5, <2>6, <2>7
<1>12. CASE Restart
  BY <1>12 DEF Restart, Running
<1>13. CASE Tick
  <2>1. UNCHANGED <<machines, leaving, chan, view, astray, stage>>
    BY <1>13 DEF Tick, prune
  <2>. QED  BY <2>1, <1>d DEF SeesRight, Due, Backed, Connected, Running
<1>14. CASE UNCHANGED vars
  <2>1. UNCHANGED <<machines, leaving, chan, view, astray, stage>>
    BY <1>14 DEF vars
  <2>. QED  BY <2>1, <1>d DEF SeesRight, Due, Backed, Connected, Running
<1> QED
  BY <1>1, <1>2, <1>3, <1>4, <1>5, <1>6, <1>7, <1>8, <1>9, <1>10, <1>11, <1>12,
     <1>13, <1>14 DEF Next, SessionStep, PruneStep

\* A client that has read its frames and was not misled has the right picture of
\* every machine, for any number of sessions, machines and frames on their way
\* (what session.rs and prune_loop send, in the order a channel keeps).
THEOREM ViewsCorrect == Spec => []ViewsRight
<1>1. Init => ViewInv
  BY OnlineAssumption DEF Init, ViewInv, BeatInv, TypeOK, Stage, Listening, Running
<1>2. ViewInv => ViewsRight
  BY ToldEmpty DEF ViewInv, ViewsRight, SeesRight, Due, Backed, Running
<1>. QED  BY <1>1, <1>2, ViewStep, PTL DEF Spec
=============================================================================
