----------------------------- MODULE LockRegistry -----------------------------
(***************************************************************************)
(* The lease locks of the server (LockRegistry in nsmt-server/src/fs.rs),  *)
(* driven by the lock handlers of the session loop and by the only client  *)
(* that takes locks, push_entry of yggd.                                   *)
(*                                                                         *)
(* The table maps a path to the holder of its lease and the time at which  *)
(* the lease ends. One write lock guards it, so acquire, renew and release *)
(* are single steps; the sweeper reads the clock BEFORE it asks for the    *)
(* write lock, so its two halves are two steps and other sessions may run  *)
(* in between.                                                             *)
(***************************************************************************)
EXTENDS Naturals

CONSTANTS
    Path,             \* the paths that are locked
    Requester,        \* the FQNs that ask for locks
    NoHolder,         \* "no entry for this path"
    NoPath,           \* "this client is not pushing"
    TTL,              \* ttl_ms of a LockAcquire, and of every LockRenew
    RenewingClients,  \* the requesters that send LockRenew (yggd never does)
    MaxTime           \* bound: the last instant of the clock

ASSUME LockAssumption ==
    /\ NoHolder \notin Requester
    /\ NoPath \notin Path
    /\ TTL \in Nat \ {0}
    /\ MaxTime \in Nat
    /\ RenewingClients \subseteq Requester

VARIABLES
    locks,     \* path -> lease, the table of the registry
    now,       \* now_ms()
    sweeping,  \* the sweeper has read the clock and waits for the write lock
    sweepNow,  \* the time it read
    at,        \* client -> the path it was granted and is pushing
    told       \* client -> expires_at of the LockGranted it acts on

vars == <<locks, now, sweeping, sweepNow, at, told>>
clientVars == <<at, told>>
sweepVars == <<sweeping, sweepNow>>

Lease == [holder : Requester, expires_at : Nat]
NoLease == [holder |-> NoHolder, expires_at |-> 0]

\* The lease of p still runs at time t.
Live(p, t) == locks[p].expires_at > t

TypeOK ==
    /\ locks \in [Path -> Lease \cup {NoLease}]
    /\ now \in Nat
    /\ sweeping \in BOOLEAN
    /\ sweepNow \in Nat
    /\ at \in [Requester -> Path \cup {NoPath}]
    /\ told \in [Requester -> Nat]

Init ==
    /\ locks = [p \in Path |-> NoLease]
    /\ now = 0
    /\ sweeping = FALSE
    /\ sweepNow = 0
    /\ at = [r \in Requester |-> NoPath]
    /\ told = [r \in Requester |-> 0]

-----------------------------------------------------------------------------
(* The table's operations. *)

\* Horizon of the model: no lease is given that ends after MaxTime, so that
\* every lease can be seen to run out.
WithinHorizon == now + TTL <= MaxTime

\* A mutant of the guard: only leases in the last tick of their life block.
BlockedOffByOne(p, r) == locks[p].expires_at > now + 1 /\ locks[p].holder # r

\* acquire refuses a path whose lease runs and belongs to somebody else.
Blocked(p, r) == Live(p, now) /\ locks[p].holder # r

\* A mutant of release that does not compare the holder.
ReleaseAnyHolder(p, r) == locks' = [locks EXCEPT ![p] = NoLease]

\* release removes the entry if the requester holds it, expired or not.
release(p, r) ==
    locks' = IF locks[p].holder = r THEN [locks EXCEPT ![p] = NoLease] ELSE locks

\* renew extends the entry of its holder, even one that has expired.
renew(p, r) ==
    locks' = IF locks[p].holder = r
             THEN [locks EXCEPT ![p].expires_at = now + TTL]
             ELSE locks

-----------------------------------------------------------------------------
(* The session's handlers, with what the client does with the answer. *)

\* LockAcquire answered by LockGranted: the client starts to push the entry.
AcquireGranted(r, p) ==
    /\ at[r] = NoPath
    /\ ~Blocked(p, r)
    /\ WithinHorizon
    /\ locks' = [locks EXCEPT ![p] = [holder |-> r, expires_at |-> now + TTL]]
    /\ at' = [at EXCEPT ![r] = p]
    /\ told' = [told EXCEPT ![r] = now + TTL]
    /\ UNCHANGED <<now, sweepVars>>

\* LockAcquire answered by LockDenied: the client skips the entry. The table is
\* keyed by the path alone, so the holder may be of another user domain.
AcquireDenied(r, p) ==
    /\ at[r] = NoPath
    /\ Blocked(p, r)
    /\ UNCHANGED vars

\* LockRenew is always answered by LockGranted, whether the lease was found
\* or not: the handler drops the result of renew.
Renew(r) ==
    /\ r \in RenewingClients
    /\ at[r] # NoPath
    /\ WithinHorizon
    /\ renew(at[r], r)
    /\ told' = [told EXCEPT ![r] = now + TTL]
    /\ UNCHANGED <<now, sweepVars, at>>

\* The upload is complete: LockRelease.
Release(r) ==
    /\ at[r] # NoPath
    /\ release(at[r], r)
    /\ at' = [at EXCEPT ![r] = NoPath]
    /\ told' = [told EXCEPT ![r] = 0]
    /\ UNCHANGED <<now, sweepVars>>

\* The push ends without LockRelease: the server refused the upload (push_entry
\* returns at once) or the client is gone. The session has no clean-up of locks.
Abandon(r) ==
    /\ at[r] # NoPath
    /\ at' = [at EXCEPT ![r] = NoPath]
    /\ told' = [told EXCEPT ![r] = 0]
    /\ UNCHANGED <<locks, now, sweepVars>>

\* cleanup_loop, first half: the clock is read.
SweepRead ==
    /\ ~sweeping
    /\ sweeping' = TRUE
    /\ sweepNow' = now
    /\ UNCHANGED <<locks, now, clientVars>>

\* A mutant of the sweep that drops the leases that still run.
SweepEverything ==
    /\ sweeping
    /\ locks' = [p \in Path |-> NoLease]
    /\ sweeping' = FALSE
    /\ UNCHANGED <<now, sweepNow, clientVars>>

\* A mutant of the sweep that keeps every entry.
SweepNothing ==
    /\ sweeping
    /\ sweeping' = FALSE
    /\ UNCHANGED <<locks, now, sweepNow, clientVars>>

\* cleanup_loop, second half: under the write lock, entries that had ended at
\* the time read before are dropped.
SweepRetain ==
    /\ sweeping
    /\ locks' = [p \in Path |-> IF Live(p, sweepNow) THEN locks[p] ELSE NoLease]
    /\ sweeping' = FALSE
    /\ UNCHANGED <<now, sweepNow, clientVars>>

\* The clock advances.
Tick ==
    /\ now < MaxTime
    /\ now' = now + 1
    /\ UNCHANGED <<locks, sweepVars, clientVars>>

\* A mutant of the restart after which the clients go on pushing.
RestartKeepingSessions ==
    /\ locks' = [p \in Path |-> NoLease]
    /\ sweeping' = FALSE
    /\ UNCHANGED <<now, sweepNow, clientVars>>

\* The server restarts. The table lives in memory only and starts empty; the
\* sessions are gone, so every push fails at its next frame.
Restart ==
    /\ locks' = [p \in Path |-> NoLease]
    /\ sweeping' = FALSE
    /\ at' = [r \in Requester |-> NoPath]
    /\ told' = [r \in Requester |-> 0]
    /\ UNCHANGED <<now, sweepNow>>

Next ==
    \/ \E r \in Requester, p \in Path : AcquireGranted(r, p)
    \/ \E r \in Requester, p \in Path : AcquireDenied(r, p)
    \/ \E r \in Requester : Renew(r)
    \/ \E r \in Requester : Release(r)
    \/ \E r \in Requester : Abandon(r)
    \/ SweepRead
    \/ SweepRetain
    \/ Tick
    \/ Restart

Spec == Init /\ [][Next]_vars

\* Time passes and the sweeper's task is polled: cleanup_loop runs for ever.
FairSpec == Spec /\ WF_vars(Tick) /\ WF_vars(SweepRead) /\ WF_vars(SweepRetain)

-----------------------------------------------------------------------------
(* Properties *)

\* The grant that r acts on is the entry of the server's table, or has run out.
Backed(r) == told[r] > now => locks[at[r]] = [holder |-> r, expires_at |-> told[r]]

\* A client that acts on a LockGranted whose time has not run out really is the
\* holder in the server's table, until that very time: no other requester, no
\* renewal by somebody else, no late release, no sweep with an old clock and no
\* restart has taken the lease from under it. The clients are those that never
\* send LockRenew, as yggd.
LeaseBacked == \A r \in Requester \ RenewingClients : Backed(r)

\* Two clients (of the kind that never renews) never both act on a running grant
\* of the same path, across expiry, takeover, late release and server restarts.
MutualExclusion ==
    \A r, s \in Requester \ RenewingClients :
        /\ r # s
        /\ told[r] > now
        /\ told[s] > now
        => at[r] # at[s]

\* A running lease leaves the table in no other way than through LockRelease of
\* its holder, or together with all sessions when the server restarts: a path is
\* not handed over, swept or forgotten while its lease runs.
LeaseKept ==
    [][\A p \in Path :
          /\ Live(p, now)
          /\ locks'[p].holder # locks[p].holder
          => /\ locks'[p] = NoLease
             /\ \/ at[locks[p].holder] = p /\ at'[locks[p].holder] = NoPath
                \/ \A q \in Path, r \in Requester : locks'[q] = NoLease /\ at'[r] = NoPath]_vars

\* The lock of a client that stopped pushing without LockRelease (it crashed, or
\* its upload was refused) does not stay in the table for ever.
AbandonedReclaimed ==
    \A r \in Requester, p \in Path :
        (locks[p].holder = r /\ at[r] # p) ~> (locks[p].holder # r \/ at[r] = p)

\* The table implements the abstract lease lock: an entry whose time has run out
\* counts as no owner, so sweeping is invisible and expiry is a loss of ownership.
Ownership == INSTANCE LeaseLock
    WITH owner <- [p \in Path |-> IF Live(p, now) THEN locks[p].holder ELSE NoHolder]

\* Ownership of a path passes from one requester to another only through a
\* moment at which nobody owns it, whatever the sweeper and the clock do.
ImplementsLeaseLock == Ownership!Spec
=============================================================================
