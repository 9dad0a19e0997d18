---------------------------- MODULE OnlineRegistry ----------------------------
(***************************************************************************)
(* The online table of one user domain (Registry in                        *)
(* nsmt-server/src/registry.rs), the sessions that register in it and hear *)
(* of its changes (nsmt-server/src/session.rs), and the prune loop.        *)
(*                                                                         *)
(* A session registers its machine and takes the snapshot that RegisterAck *)
(* carries under one write lock, subscribes under a second one and         *)
(* announces the Join under a third, so other sessions and the prune loop  *)
(* run in between. The prune loop scans, re-checks and removes, and        *)
(* announces under separate locks, too. A session that ends announces a    *)
(* Leave but keeps its machine in the table; one that ends by an error of  *)
(* a handler says nothing. In both cases the prune loop removes the        *)
(* machine.                                                                *)
(*                                                                         *)
(* Time is kept as ages (now_ms() - last_seen), cut off one above the      *)
(* limit, since nothing in the code compares anything but ages. Domains    *)
(* share no entry, so one of them is modelled.                             *)
(***************************************************************************)
EXTENDS Naturals, Sequences

CONSTANTS
    Machine,       \* machine ids
    Session,       \* the sessions that ever run
    Owner,         \* session -> the machine that connects
    Punctual,      \* the sessions that never stall for longer than Interval
    Interval,      \* HEARTBEAT_INTERVAL (10 s), in ticks of the clock
    OfflineAfter,  \* OFFLINE_AFTER (30 s), in ticks
    MaxLate,       \* bound: heartbeats that come later than Interval
    Nobody         \* "the prune loop has nothing to announce"

ASSUME OnlineAssumption ==
    /\ Owner \in [Session -> Machine]
    /\ Punctual \subseteq Session
    /\ Interval \in Nat \ {0}
    /\ OfflineAfter \in Nat
    /\ 2 * Interval <= OfflineAfter
    /\ MaxLate \in Nat
    /\ Nobody \notin Machine

VARIABLES
    machines,  \* the machines of the online table
    age,       \* machine -> time since last_seen (0 for one not in the table)
    stage,     \* session -> how far handle() has come
    idle,      \* session -> time since it registered, got ready or last beat
    chan,      \* session -> the deltas in its channel
    view,      \* session -> the machines its client has been told are online
    stale,     \* what the prune loop's scan found and has not re-checked
    leaving,   \* the machine whose Leave the prune loop is about to announce
    late,      \* number of late heartbeats so far
    astray     \* history: session -> machines it has been misinformed about

table == <<machines, age>>
sessions == <<stage, idle>>
prune == <<stale, leaving>>
vars == <<machines, age, stage, idle, chan, view, stale, leaving, late, astray>>

Stage == {"new", "acked", "subscribed", "ready", "closed"}
Delta == [kind : {"join", "leave"}, machine : Machine]

\* A session has a receiver in the subscriber list from subscribe to its end.
\* (The sender stays in the list for ever; sending to it then has no effect.)
Listening(s) == stage[s] \in {"subscribed", "ready"}
Running(s) == stage[s] \in {"acked", "subscribed", "ready"}
Connected(m) == \E s \in Session : Owner[s] = m /\ Running(s)

\* The age from which prune_loop takes a machine for offline.
Stale(m) == age[m] > OfflineAfter

TypeOK ==
    /\ machines \subseteq Machine
    /\ age \in [Machine -> 0 .. OfflineAfter + 1]
    /\ \A m \in Machine \ machines : age[m] = 0
    /\ stage \in [Session -> Stage]
    /\ idle \in [Session -> 0 .. Interval + 1]
    /\ chan \in [Session -> Seq(Delta)]
    /\ \A s \in Session : ~Listening(s) => chan[s] = <<>>
    /\ \A s \in Session : ~Running(s) => idle[s] = 0
    /\ view \in [Session -> SUBSET Machine]
    /\ stale \subseteq Machine
    /\ leaving \in Machine \cup {Nobody}
    /\ late \in 0 .. MaxLate
    /\ astray \in [Session -> SUBSET Machine]

Init ==
    /\ machines = {}
    /\ age = [m \in Machine |-> 0]
    /\ stage = [s \in Session |-> "new"]
    /\ idle = [s \in Session |-> 0]
    /\ chan = [s \in Session |-> <<>>]
    /\ view = [s \in Session |-> {}]
    /\ stale = {}
    /\ leaving = Nobody
    /\ late = 0
    /\ astray = [s \in Session |-> {}]

-----------------------------------------------------------------------------
(* Broadcasts. *)

\* The channels after a frame has gone to the sessions of To that listen.
Queued(d, To) ==
    [s \in Session |-> IF s \in To /\ Listening(s) THEN Append(chan[s], d) ELSE chan[s]]

\* Who is misinformed by a frame about m: a session between its snapshot and
\* its subscription does not hear it, and a wrong Leave tells those who hear it
\* something false. A right frame puts those who hear it straight again.
Informed(m, To, wrong) ==
    [s \in Session |->
       IF stage[s] = "acked" \/ (s \in To /\ Listening(s) /\ wrong)
       THEN astray[s] \cup {m}
       ELSE IF s \in To /\ Listening(s) THEN astray[s] \ {m} ELSE astray[s]]

-----------------------------------------------------------------------------
(* A session, from REGISTER to its end. *)

\* handle() has returned; what the client was told does not matter any more.
Closed(s) ==
    /\ stage' = [stage EXCEPT ![s] = "closed"]
    /\ idle' = [idle EXCEPT ![s] = 0]
    /\ view' = [view EXCEPT ![s] = {}]

\* The machine of s has another session.
OtherSession(s) == \E t \in Session \ {s} : Owner[t] = Owner[s] /\ Running(t)

\* A mutant: the snapshot is taken before the machine is inserted.
RegisterSnapshotFirst(s) ==
    /\ stage[s] = "new"
    /\ machines' = machines \cup {Owner[s]}
    /\ age' = [age EXCEPT ![Owner[s]] = 0]
    /\ view' = [view EXCEPT ![s] = machines]
    /\ stage' = [stage EXCEPT ![s] = "acked"]
    /\ UNCHANGED <<idle, chan, prune, late, astray>>

\* REGISTER is accepted: the machine enters the table (or its entry is
\* replaced) and RegisterAck carries the table that results.
Register(s) ==
    /\ stage[s] = "new"
    /\ machines' = machines \cup {Owner[s]}
    /\ age' = [age EXCEPT ![Owner[s]] = 0]
    /\ view' = [view EXCEPT ![s] = machines']
    /\ stage' = [stage EXCEPT ![s] = "acked"]
    /\ UNCHANGED <<idle, chan, prune, late, astray>>

\* RegisterAck cannot be sent: handle() returns, the machine stays in the table.
AckFails(s) ==
    /\ stage[s] = "acked"
    /\ Closed(s)
    /\ UNCHANGED <<table, chan, prune, late>>
    /\ astray' = [astray EXCEPT ![s] = {}]

\* The receiver starts with an empty channel; the second snapshot is dropped.
Subscribe(s) ==
    /\ stage[s] = "acked"
    /\ stage' = [stage EXCEPT ![s] = "subscribed"]
    /\ UNCHANGED <<table, idle, chan, view, prune, late, astray>>

\* Join goes to everybody else, and the ready loop starts its own timer.
AnnounceJoin(s) ==
    /\ stage[s] = "subscribed"
    /\ chan' = Queued([kind |-> "join", machine |-> Owner[s]], Session \ {s})
    /\ astray' = Informed(Owner[s], Session \ {s}, FALSE)
    /\ stage' = [stage EXCEPT ![s] = "ready"]
    /\ idle' = [idle EXCEPT ![s] = 0]
    /\ UNCHANGED <<table, view, prune, late>>

\* The session's timer, or a Heartbeat frame of the client: the entry is
\* refreshed if it is still there, and never put back.
Heartbeat(s) ==
    /\ stage[s] = "ready"
    /\ idle[s] > Interval => late < MaxLate
    /\ late' = IF idle[s] > Interval THEN late + 1 ELSE late
    /\ age' = [age EXCEPT ![Owner[s]] = 0]
    /\ idle' = [idle EXCEPT ![s] = 0]
    /\ UNCHANGED <<machines, stage, chan, view, prune, astray>>

\* The ready loop sends the next delta to the client, which shows it.
Deliver(s) ==
    /\ stage[s] = "ready"
    /\ chan[s] # <<>>
    /\ LET d == Head(chan[s]) IN
         view' = [view EXCEPT ![s] = IF d.kind = "join" THEN @ \cup {d.machine}
                                     ELSE @ \ {d.machine}]
    /\ chan' = [chan EXCEPT ![s] = Tail(@)]
    /\ UNCHANGED <<table, sessions, prune, late, astray>>

\* A mutant: the receiver of an ended session goes on taking frames.
EndKeepingReceiver(s) ==
    /\ stage[s] = "ready"
    /\ Closed(s)
    /\ chan' = Queued([kind |-> "leave", machine |-> Owner[s]], Session)
    /\ astray' = [Informed(Owner[s], Session, OtherSession(s)) EXCEPT ![s] = {}]
    /\ UNCHANGED <<table, prune, late>>

\* The connection ends: the loop breaks and Leave goes to everybody, whether or
\* not the machine has another session by now. The table keeps the machine.
End(s) ==
    /\ stage[s] = "ready"
    /\ Closed(s)
    /\ chan' = [Queued([kind |-> "leave", machine |-> Owner[s]], Session) EXCEPT ![s] = <<>>]
    /\ astray' = [Informed(Owner[s], Session, OtherSession(s)) EXCEPT ![s] = {}]
    /\ UNCHANGED <<table, prune, late>>

\* An answer cannot be sent or a payload cannot be read: `?` leaves handle()
\* without a Leave.
EndSilently(s) ==
    /\ stage[s] = "ready"
    /\ Closed(s)
    /\ chan' = [chan EXCEPT ![s] = <<>>]
    /\ astray' = [astray EXCEPT ![s] = {}]
    /\ UNCHANGED <<table, prune, late>>

-----------------------------------------------------------------------------
(* The prune loop. *)

\* A mutant: the cutoff is so early that nothing is ever found.
ScanNothing ==
    /\ stale = {} /\ leaving = Nobody
    /\ stale' = {m \in machines : age[m] > OfflineAfter + 1}
    /\ UNCHANGED <<table, sessions, chan, view, leaving, late, astray>>

\* The machines whose age is over the limit, collected under the read lock.
Scan ==
    /\ stale = {} /\ leaving = Nobody
    /\ stale' = {m \in machines : Stale(m)}
    /\ UNCHANGED <<table, sessions, chan, view, leaving, late, astray>>

\* A mutant: what the scan found is removed without a second look.
PruneRemoveUnchecked(m) ==
    /\ m \in stale /\ leaving = Nobody
    /\ stale' = stale \ {m}
    /\ leaving' = m
    /\ machines' = machines \ {m}
    /\ age' = [age EXCEPT ![m] = 0]
    /\ UNCHANGED <<sessions, chan, view, late, astray>>

\* One entry of the scan, in any order, under the write lock: it goes if it is
\* over the limit now.
PruneRemove(m) ==
    /\ m \in stale /\ leaving = Nobody
    /\ stale' = stale \ {m}
    /\ leaving' = m
    /\ machines' = IF Stale(m) THEN machines \ {m} ELSE machines
    /\ age' = IF Stale(m) THEN [age EXCEPT ![m] = 0] ELSE age
    /\ UNCHANGED <<sessions, chan, view, late, astray>>

\* Leave goes to everybody, also if the entry was kept or has come back.
PruneAnnounce ==
    /\ leaving # Nobody
    /\ chan' = Queued([kind |-> "leave", machine |-> leaving], Session)
    /\ astray' = Informed(leaving, Session, Connected(leaving))
    /\ leaving' = Nobody
    /\ UNCHANGED <<table, sessions, view, stale, late>>

-----------------------------------------------------------------------------

\* The server restarts: the table, the sessions and the prune loop start over.
Restart ==
    /\ machines' = {}
    /\ age' = [m \in Machine |-> 0]
    /\ stage' = [s \in Session |-> IF stage[s] = "new" THEN "new" ELSE "closed"]
    /\ idle' = [s \in Session |-> 0]
    /\ chan' = [s \in Session |-> <<>>]
    /\ stale' = {}
    /\ leaving' = Nobody
    /\ view' = [s \in Session |-> {}]
    /\ astray' = [s \in Session |-> {}]
    /\ UNCHANGED late

\* The age of everything grows. A punctual session has taken its next step, or
\* sent its next heartbeat, before Interval has passed.
Tick ==
    /\ \A s \in Punctual : Running(s) => idle[s] < Interval
    /\ age' = [m \in Machine |-> IF m \in machines /\ age[m] <= OfflineAfter
                                 THEN age[m] + 1 ELSE age[m]]
    /\ idle' = [s \in Session |-> IF Running(s) /\ idle[s] <= Interval
                                  THEN idle[s] + 1 ELSE idle[s]]
    /\ UNCHANGED <<machines, stage, chan, view, prune, late, astray>>

PruneStep == Scan \/ PruneAnnounce \/ \E m \in Machine : PruneRemove(m)

SessionStep(s) ==
    \/ Register(s) \/ AckFails(s) \/ Subscribe(s) \/ AnnounceJoin(s)
    \/ Heartbeat(s) \/ Deliver(s) \/ End(s) \/ EndSilently(s)

Next ==
    \/ \E s \in Session : SessionStep(s)
    \/ PruneStep
    \/ Restart
    \/ Tick

Spec == Init /\ [][Next]_vars

\* The runtime schedules the prune loop's task and the tasks of the sessions
\* that do not stall, select! serves the timer and the channel of a session
\* alike, and time passes.
FairSpec ==
    /\ Spec
    /\ WF_vars(Tick)
    /\ WF_vars(PruneStep)
    /\ \A s \in Punctual :
         /\ WF_vars(Subscribe(s) \/ AnnounceJoin(s) \/ Heartbeat(s))
         /\ WF_vars(Deliver(s))

-----------------------------------------------------------------------------
(* Properties. *)

\* The machine of a running session that does not stall is in the online table
\* (and its peers can be pointed to it), whatever older sessions of the machine
\* and a prune loop with an old scan do. The handshake adds up to one interval
\* before the first heartbeat, so two intervals must fit into OfflineAfter.
ConnectedIsListed ==
    \A s \in Punctual : Running(s) => Owner[s] \in machines

\* What keeps a punctual session's machine listed: the entry is not older than
\* the session's last sign of life, plus the time the handshake took.
Fresh(s) ==
    /\ idle[s] <= Interval
    /\ age[Owner[s]] <= idle[s] + (IF stage[s] = "ready" THEN Interval ELSE 0)

\* The inductive invariant behind ConnectedIsListed.
BeatInv ==
    /\ TypeOK
    /\ \A s \in Punctual : Running(s) => Owner[s] \in machines /\ Fresh(s)

\* A client that has read its frames has the right picture of a machine, unless
\* it was misled in one of two ways: a frame came between its snapshot and its
\* subscription, or a Leave was announced of a machine that has a session. It
\* knows of the machine if that has a ready session; and if the machine has
\* neither an entry nor a session, it has been told so. Both only for machines
\* that do not stall: one that does may be pruned, is in no later snapshot, and
\* if it was pruned during its handshake it announces itself without an entry.
ViewsRight ==
    \A s \in Session : stage[s] = "ready" /\ chan[s] = <<>> =>
        \A m \in Machine \ astray[s] :
            /\ (\E t \in Punctual : Owner[t] = m /\ stage[t] = "ready") => m \in view[s]
            /\ m \in view[s] =>
                 \/ m \in machines \cup {leaving}
                 \/ Connected(m)
                 \/ \E t \in Session \ Punctual : Owner[t] = m

\* A machine whose sessions have all ended, in silence or not, vanishes from the
\* view of every client that stays and was not misled, by way of the prune loop
\* if need be.
LeaveIsHeard ==
    \A s \in Punctual, m \in Machine :
        (\A t \in Session : Owner[t] = m => t \in Punctual) =>
            ((stage[s] = "ready" /\ ~Connected(m))
              ~> (m \notin view[s] \/ m \in astray[s] \/ Connected(m) \/ stage[s] # "ready"))
=============================================================================
