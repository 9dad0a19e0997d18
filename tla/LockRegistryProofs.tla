-------------------------- MODULE LockRegistryProofs --------------------------
(***************************************************************************)
(* Proofs about LockRegistry, for every set of paths and requesters, every *)
(* TTL and every horizon.                                                  *)
(***************************************************************************)
EXTENDS LockRegistry, TLAPS

\* The initial states are well typed.
LEMMA InitTyped == Init => TypeOK
<1> SUFFICES ASSUME Init PROVE TypeOK
  OBVIOUS
<1>1. locks \in [Path -> Lease \cup {NoLease}]
  BY DEF Init
<1>2. sweeping \in BOOLEAN
  BY DEF Init
<1>3. at \in [Requester -> Path \cup {NoPath}]
  BY DEF Init
<1>4. now \in Nat /\ sweepNow \in Nat /\ told \in [Requester -> Nat]
  BY DEF Init
<1>. QED
  BY <1>1, <1>2, <1>3, <1>4 DEF TypeOK

\* The type invariant of the lock table holds in every reachable state.
THEOREM TypeCorrect == Spec => []TypeOK
<1>1. Init => TypeOK
  BY InitTyped
<1>2. TypeOK /\ [Next]_vars => TypeOK'
  <2> SUFFICES ASSUME TypeOK, [Next]_vars
               PROVE  TypeOK'
    OBVIOUS
  <2> USE LockAssumption DEF TypeOK, Lease, NoLease
  <2>1. ASSUME NEW r \in Requester, NEW p \in Path, AcquireGranted(r, p)
        PROVE  TypeOK'
    BY <2>1 DEF AcquireGranted, sweepVars
  <2>2. ASSUME NEW r \in Requester, NEW p \in Path, AcquireDenied(r, p)
        PROVE  TypeOK'
    BY <2>2 DEF AcquireDenied, vars, sweepVars
  <2>3. ASSUME NEW r \in Requester, Renew(r)
        PROVE  TypeOK'
    <3> DEFINE p == at[r]
    <3>1. p \in Path
      BY <2>3 DEF Renew
    <3>2. now + TTL \in Nat
      OBVIOUS
    <3>3. CASE locks[p].holder = r
      <4>1. locks[p] \in Lease
        BY <3>1, <3>3
      <4>2. [locks[p] EXCEPT !.expires_at = now + TTL] \in Lease
        BY <4>1, <3>2
      <4>3. locks' = [locks EXCEPT ![p] = [locks[p] EXCEPT !.expires_at = now + TTL]]
        BY <2>3, <3>3, <3>1 DEF Renew, renew
      <4>. QED  BY <2>3, <4>2, <4>3, <3>1, <3>2 DEF Renew, sweepVars
    <3>4. CASE locks[p].holder # r
      BY <2>3, <3>4, <3>2 DEF Renew, renew, sweepVars
    <3>. QED  BY <3>3, <3>4
  <2>4. ASSUME NEW r \in Requester, Release(r)
        PROVE  TypeOK'
    BY <2>4 DEF Release, release, sweepVars
  <2>5. ASSUME NEW r \in Requester, Abandon(r)
        PROVE  TypeOK'
    BY <2>5 DEF Abandon, sweepVars
  <2>6. CASE SweepRead
    BY <2>6 DEF SweepRead, clientVars
  <2>7. CASE SweepRetain
    BY <2>7 DEF SweepRetain, clientVars, Live
  <2>8. CASE Tick
    BY <2>8 DEF Tick, clientVars, sweepVars
  <2>9. CASE Restart
    BY <2>9 DEF Restart
  <2>10. CASE UNCHANGED vars
    BY <2>10 DEF vars
  <2>. QED
    BY <2>1, <2>2, <2>3, <2>4, <2>5, <2>6, <2>7, <2>8, <2>9, <2>10 DEF Next
<1>. QED
  BY <1>1, <1>2, PTL DEF Spec

-----------------------------------------------------------------------------
(***************************************************************************)
(* Exclusion between clients that never renew, next to clients that do.    *)
(* LeaseBacked is inductive once the sweeper's clock is known to lag       *)
(* behind the real one and idle clients are known to act on no grant.      *)
(***************************************************************************)
LeaseInv ==
    /\ TypeOK
    /\ LeaseBacked
    /\ sweepNow <= now
    /\ \A r \in Requester : at[r] = NoPath => told[r] = 0

\* The inductive step of LeaseInv.
LEMMA LeaseInvStep ==
    ASSUME LeaseInv, TypeOK', [Next]_vars
    PROVE  LeaseInv'
<1> USE LockAssumption DEF LeaseInv, LeaseBacked, Backed
<1>t. /\ locks \in [Path -> Lease \cup {NoLease}]
      /\ at \in [Requester -> Path \cup {NoPath}]
      /\ told \in [Requester -> Nat]
      /\ now \in Nat /\ sweepNow \in Nat /\ TTL \in Nat
  BY DEF TypeOK
<1>1. ASSUME NEW r \in Requester, NEW p \in Path, AcquireGranted(r, p)
      PROVE  LeaseInv'
  <2>1. ASSUME NEW s \in Requester \ RenewingClients, told'[s] > now'
        PROVE  locks'[at'[s]] = [holder |-> s, expires_at |-> told'[s]]
    <3>1. CASE s = r
      BY <1>1, <2>1, <3>1, <1>t DEF AcquireGranted
    <3>2. CASE s # r
      <4>1. told[s] > now /\ told'[s] = told[s] /\ at'[s] = at[s]
        BY <1>1, <2>1, <3>2, <1>t DEF AcquireGranted, sweepVars
      <4>2. locks[at[s]] = [holder |-> s, expires_at |-> told[s]]
        BY <4>1
      <4>3. at[s] # p
        BY <1>1, <4>1, <4>2, <3>2, <1>t DEF AcquireGranted, Blocked, Live
      <4>4. at[s] \in Path
        BY <4>1, <1>t
      <4>. QED  BY <1>1, <4>1, <4>2, <4>3, <4>4, <1>t DEF AcquireGranted
    <3>. QED  BY <3>1, <3>2
  <2>2. \A s \in Requester : at'[s] = NoPath => told'[s] = 0
    BY <1>1, <1>t DEF AcquireGranted
  <2>. QED  BY <2>1, <2>2, <1>1, <1>t DEF AcquireGranted, sweepVars
<1>2. ASSUME NEW r \in Requester, NEW p \in Path, AcquireDenied(r, p)
      PROVE  LeaseInv'
  BY <1>2 DEF AcquireDenied, vars, sweepVars
<1>3. ASSUME NEW r \in Requester, Renew(r)
      PROVE  LeaseInv'
  <2>1. ASSUME NEW s \in Requester \ RenewingClients, told'[s] > now'
        PROVE  locks'[at'[s]] = [holder |-> s, expires_at |-> told'[s]]
    <3>1. s # r /\ told[s] > now /\ told'[s] = told[s] /\ at'[s] = at[s]
      BY <1>3, <2>1, <1>t DEF Renew, sweepVars
    <3>2. locks[at[s]] = [holder |-> s, expires_at |-> told[s]]
      BY <3>1
    <3>3. at[s] \in Path /\ at[r] \in Path
      BY <3>1, <1>3, <1>t DEF Renew
    <3>4. at[s] = at[r] => locks' = locks
      BY <3>1, <3>2, <1>3 DEF Renew, renew
    <3>5. at[s] # at[r] => locks'[at[s]] = locks[at[s]]
      BY <3>3, <1>3, <1>t DEF Renew, renew
    <3>. QED  BY <3>1, <3>2, <3>4, <3>5
  <2>2. \A s \in Requester : at'[s] = NoPath => told'[s] = 0
    BY <1>3, <1>t DEF Renew
  <2>. QED  BY <2>1, <2>2, <1>3, <1>t DEF Renew, sweepVars
<1>4. ASSUME NEW r \in Requester, Release(r)
      PROVE  LeaseInv'
  <2>1. ASSUME NEW s \in Requester \ RenewingClients, told'[s] > now'
        PROVE  locks'[at'[s]] = [holder |-> s, expires_at |-> told'[s]]
    <3>1. s # r /\ told[s] > now /\ told'[s] = told[s] /\ at'[s] = at[s]
      BY <1>4, <2>1, <1>t DEF Release, sweepVars
    <3>2. locks[at[s]] = [holder |-> s, expires_at |-> told[s]]
      BY <3>1
    <3>3. at[s] \in Path /\ at[r] \in Path
      BY <3>1, <1>4, <1>t DEF Release
    <3>4. at[s] = at[r] => locks' = locks
      BY <3>1, <3>2, <1>4 DEF Release, release
    <3>5. at[s] # at[r] => locks'[at[s]] = locks[at[s]]
      BY <3>3, <1>4, <1>t DEF Release, release
    <3>. QED  BY <3>1, <3>2, <3>4, <3>5
  <2>2. \A s \in Requester : at'[s] = NoPath => told'[s] = 0
    BY <1>4, <1>t DEF Release
  <2>. QED  BY <2>1, <2>2, <1>4, <1>t DEF Release, sweepVars
<1>5. ASSUME NEW r \in Requester, Abandon(r)
      PROVE  LeaseInv'
  BY <1>5, <1>t DEF Abandon, sweepVars
<1>6. CASE SweepRead
  BY <1>6, <1>t DEF SweepRead, clientVars
<1>7. CASE SweepRetain
  <2>1. ASSUME NEW s \in Requester \ RenewingClients, told'[s] > now'
        PROVE  locks'[at'[s]] = [holder |-> s, expires_at |-> told'[s]]
    <3>1. told[s] > now /\ told'[s] = told[s] /\ at'[s] = at[s]
      BY <1>7, <2>1 DEF SweepRetain, clientVars
    <3>2. locks[at[s]] = [holder |-> s, expires_at |-> told[s]] /\ at[s] \in Path
      BY <3>1, <1>t
    <3>3. Live(at[s], sweepNow)
      BY <3>1, <3>2, <1>t DEF Live
    <3>. QED  BY <1>7, <3>1, <3>2, <3>3 DEF SweepRetain
  <2>. QED  BY <2>1, <1>7 DEF SweepRetain, clientVars
<1>8. CASE Tick
  <2>1. now' = now + 1 /\ UNCHANGED <<locks, sweepNow, at, told>>
    BY <1>8 DEF Tick, clientVars, sweepVars
  <2>2. \A s \in Requester : told'[s] > now' => told[s] > now
    BY <2>1, <1>t
  <2>. QED  BY <2>1, <2>2, <1>t
<1>9. CASE Restart
  BY <1>9, <1>t DEF Restart
<1>10. CASE UNCHANGED vars
  BY <1>10 DEF vars
<1>. QED
  BY <1>1, <1>2, <1>3, <1>4, <1>5, <1>6, <1>7, <1>8, <1>9, <1>10 DEF Next

\* For a client that never sends LockRenew, as yggd, a grant whose time has not
\* run out is always backed by the lease in the server's table.
THEOREM GrantsAreBacked == Spec => []LeaseBacked
<1>1. Init => LeaseInv
  <2>. QED  BY InitTyped DEF Init, LeaseInv, LeaseBacked, Backed
<1>2. LeaseInv /\ TypeOK' /\ [Next]_vars => LeaseInv'
  BY LeaseInvStep
<1>3. LeaseInv => LeaseBacked
  BY DEF LeaseInv
<1>. QED
  BY <1>1, <1>2, <1>3, TypeCorrect, PTL DEF Spec

\* Two clients never both act on a running grant of the same path: one table
\* entry cannot back two grants.
THEOREM Exclusion == Spec => []MutualExclusion
<1>1. LeaseBacked => MutualExclusion
  <2> SUFFICES ASSUME LeaseBacked,
                      NEW r \in Requester \ RenewingClients,
                      NEW s \in Requester \ RenewingClients,
                      r # s, told[r] > now, told[s] > now, at[r] = at[s]
               PROVE  FALSE
    BY DEF MutualExclusion
  <2>1. [holder |-> r, expires_at |-> told[r]] = [holder |-> s, expires_at |-> told[s]]
    BY DEF LeaseBacked, Backed
  <2>. QED  BY <2>1
<1>. QED
  BY <1>1, GrantsAreBacked, PTL

-----------------------------------------------------------------------------
(***************************************************************************)
(* The table seen on its own, for clients that renew or not.               *)
(***************************************************************************)

\* The sweeper's clock never runs ahead of the real one.
SweepLags == sweepNow <= now

\* The time the sweeper works with is never later than the present, although
\* it is read before the write lock is taken.
LEMMA SweepLagsAlways == Spec => []SweepLags
<1>1. Init => SweepLags
  BY DEF Init, SweepLags
<1>2. SweepLags /\ TypeOK /\ [Next]_vars => SweepLags'
  BY DEF SweepLags, TypeOK, Next, AcquireGranted, AcquireDenied, Renew, Release,
         Abandon, SweepRead, SweepRetain, Tick, Restart, vars, sweepVars
<1>. QED
  BY <1>1, <1>2, TypeCorrect, PTL DEF Spec

\* What one step may do to an entry whose lease runs: it stays with its holder,
\* its holder releases it, or a restart empties the table and ends all sessions.
LEMMA RunningEntryStep ==
    ASSUME TypeOK, SweepLags, [Next]_vars, NEW p \in Path, Live(p, now)
    PROVE  \/ locks'[p].holder = locks[p].holder
           \/ /\ locks'[p] = NoLease
              /\ at[locks[p].holder] = p
              /\ at'[locks[p].holder] = NoPath
           \/ \A q \in Path, r \in Requester : locks'[q] = NoLease /\ at'[r] = NoPath
<1> DEFINE Goal == \/ locks'[p].holder = locks[p].holder
                   \/ /\ locks'[p] = NoLease
                      /\ at[locks[p].holder] = p
                      /\ at'[locks[p].holder] = NoPath
                   \/ \A q \in Path, r \in Requester : locks'[q] = NoLease /\ at'[r] = NoPath
<1> SUFFICES Goal
  OBVIOUS
<1>t. /\ locks \in [Path -> Lease \cup {NoLease}]
      /\ at \in [Requester -> Path \cup {NoPath}]
      /\ now \in Nat /\ sweepNow \in Nat /\ TTL \in Nat
      /\ sweepNow <= now
  BY LockAssumption DEF TypeOK, SweepLags
<1>e. locks[p].expires_at \in Nat /\ locks[p].holder \in Requester
  BY <1>t DEF Lease, NoLease, Live
<1>1. ASSUME NEW r \in Requester, NEW q \in Path, AcquireGranted(r, q)
      PROVE  Goal
  BY <1>1, <1>t DEF AcquireGranted, Blocked
<1>2. ASSUME NEW r \in Requester, NEW q \in Path, AcquireDenied(r, q)
      PROVE  Goal
  BY <1>2 DEF AcquireDenied, vars
<1>3. ASSUME NEW r \in Requester, Renew(r)
      PROVE  Goal
  <2>1. CASE locks[at[r]].holder = r /\ at[r] = p
    <3>1. locks'[p] = [locks[p] EXCEPT !.expires_at = now + TTL]
      BY <1>3, <1>t, <2>1 DEF Renew, renew
    <3>2. locks[p] \in Lease
      BY <1>t, <1>e, LockAssumption DEF NoLease
    <3>. QED  BY <3>1, <3>2 DEF Lease
  <2>2. CASE ~(locks[at[r]].holder = r /\ at[r] = p)
    BY <1>3, <1>t, <2>2 DEF Renew, renew
  <2>. QED  BY <2>1, <2>2
<1>4. ASSUME NEW r \in Requester, Release(r)
      PROVE  Goal
  BY <1>4, <1>t DEF Release, release
<1>5. ASSUME NEW r \in Requester, Abandon(r)
      PROVE  Goal
  BY <1>5 DEF Abandon
<1>6. CASE SweepRead
  BY <1>6 DEF SweepRead
<1>7. CASE SweepRetain
  <2>1. Live(p, sweepNow)
    BY <1>t, <1>e DEF Live
  <2>. QED  BY <1>7, <2>1 DEF SweepRetain
<1>8. CASE Tick
  BY <1>8 DEF Tick
<1>9. CASE Restart
  BY <1>9 DEF Restart
<1>10. CASE UNCHANGED vars
  BY <1>10 DEF vars
<1>. QED
  BY <1>1, <1>2, <1>3, <1>4, <1>5, <1>6, <1>7, <1>8, <1>9, <1>10 DEF Next

\* A running lease leaves the table only through its holder's LockRelease or with
\* a restart that also ends the sessions: neither another client nor a sweep that works with an old time removes it.
THEOREM RunningLeaseIsKept == Spec => LeaseKept
<1> DEFINE Kept ==
      \A p \in Path :
          /\ Live(p, now)
          /\ locks'[p].holder # locks[p].holder
          => /\ locks'[p] = NoLease
             /\ \/ at[locks[p].holder] = p /\ at'[locks[p].holder] = NoPath
                \/ \A q \in Path, r \in Requester : locks'[q] = NoLease /\ at'[r] = NoPath
<1>1. TypeOK /\ SweepLags /\ [Next]_vars => [Kept]_vars
  <2> SUFFICES ASSUME TypeOK, SweepLags, [Next]_vars, NEW p \in Path,
                      Live(p, now), locks'[p].holder # locks[p].holder
               PROVE  /\ locks'[p] = NoLease
                      /\ \/ at[locks[p].holder] = p /\ at'[locks[p].holder] = NoPath
                         \/ \A q \in Path, r \in Requester :
                               locks'[q] = NoLease /\ at'[r] = NoPath
    OBVIOUS
  <2>1. locks[p].holder \in Requester
    BY DEF TypeOK, Lease, NoLease, Live
  <2>. QED  BY <2>1, RunningEntryStep
<1>. QED
  BY <1>1, TypeCorrect, SweepLagsAlways, PTL DEF Spec, LeaseKept

-----------------------------------------------------------------------------
(***************************************************************************)
(* The table implements the abstract lease lock.                           *)
(***************************************************************************)

\* The owner of each path under the refinement mapping.
Owner == [p \in Path |-> IF Live(p, now) THEN locks[p].holder ELSE NoHolder]

\* Every step of the registry is a step of the abstract lock or leaves the
\* owners alone.
LEMMA OwnershipStep ==
    ASSUME TypeOK, SweepLags, [Next]_vars
    PROVE  [Ownership!Next]_Owner
<1> USE DEF Owner
<1>t. /\ locks \in [Path -> Lease \cup {NoLease}]
      /\ at \in [Requester -> Path \cup {NoPath}]
      /\ now \in Nat /\ sweepNow \in Nat /\ TTL \in Nat /\ TTL > 0
      /\ sweepNow <= now
      /\ \A p \in Path : locks[p].expires_at \in Nat
  BY LockAssumption DEF TypeOK, SweepLags, Lease, NoLease
<1>u. ASSUME NEW q \in Path, NEW r \in Requester, now' = now,
             locks'[q].holder = r, locks'[q].expires_at = now + TTL,
             \A p \in Path : p # q => locks'[p] = locks[p]
      PROVE  Owner' = [Owner EXCEPT ![q] = r]
  <2>1. Live(q, now)'
    BY <1>u, <1>t DEF Live
  <2>2. Owner'[q] = r
    BY <2>1, <1>u
  <2>3. \A p \in Path : p # q => Owner'[p] = Owner[p]
    BY <1>u DEF Live
  <2>. QED  BY <2>2, <2>3
<1>s. ASSUME UNCHANGED Owner
      PROVE  [Ownership!Next]_Owner
  BY <1>s
<1>k. ASSUME NEW q \in Path, NEW r \in Requester,
             Owner[q] = NoHolder, Owner' = [Owner EXCEPT ![q] = r]
      PROVE  [Ownership!Next]_Owner
  BY <1>k DEF Ownership!Next, Ownership!Take
<1>l. ASSUME NEW S \in SUBSET Path,
             Owner' = [p \in Path |-> IF p \in S THEN NoHolder ELSE Owner[p]]
      PROVE  [Ownership!Next]_Owner
  BY <1>l DEF Ownership!Next, Ownership!Lose
<1>1. ASSUME NEW r \in Requester, NEW q \in Path, AcquireGranted(r, q)
      PROVE  [Ownership!Next]_Owner
  <2>1. /\ locks' = [locks EXCEPT ![q] = [holder |-> r, expires_at |-> now + TTL]]
        /\ now' = now
        /\ Owner[q] \in {NoHolder, r}
    BY <1>1 DEF AcquireGranted, Blocked
  <2>2. Owner' = [Owner EXCEPT ![q] = r]
    <3>1. locks'[q].holder = r /\ locks'[q].expires_at = now + TTL
      BY <2>1, <1>t
    <3>2. \A p \in Path : p # q => locks'[p] = locks[p]
      BY <2>1, <1>t
    <3>. QED  BY <3>1, <3>2, <2>1, <1>u
  <2>3. CASE Owner[q] = NoHolder
    BY <2>2, <2>3, <1>k
  <2>4. CASE Owner[q] = r
    BY <2>2, <2>4, <1>s
  <2>. QED  BY <2>1, <2>3, <2>4
<1>2. ASSUME NEW r \in Requester, NEW q \in Path, AcquireDenied(r, q)
      PROVE  [Ownership!Next]_Owner
  BY <1>2 DEF AcquireDenied, vars, Live
<1>3. ASSUME NEW r \in Requester, Renew(r)
      PROVE  [Ownership!Next]_Owner
  <2> DEFINE q == at[r]
  <2>1. q \in Path /\ now' = now
    BY <1>3, <1>t DEF Renew
  <2>2. CASE locks[q].holder # r
    BY <1>3, <2>1, <2>2, <1>s DEF Renew, renew, Live
  <2>3. CASE locks[q].holder = r
    <3>1. locks' = [locks EXCEPT ![q] = [locks[q] EXCEPT !.expires_at = now + TTL]]
      BY <1>3, <2>3, <2>1 DEF Renew, renew
    <3>2. locks[q] \in Lease
      BY <1>t, <2>1, <2>3, LockAssumption DEF NoLease
    <3>3. locks'[q].holder = r /\ locks'[q].expires_at = now + TTL
      BY <3>1, <3>2, <2>1, <2>3, <1>t DEF Lease
    <3>4. \A p \in Path : p # q => locks'[p] = locks[p]
      BY <3>1, <1>t
    <3>5. Owner' = [Owner EXCEPT ![q] = r]
      BY <3>3, <3>4, <2>1, <1>u
    <3>6. Owner[q] \in {NoHolder, r}
      BY <2>1, <2>3
    <3>7. CASE Owner[q] = NoHolder
      BY <3>5, <3>7, <2>1, <1>k
    <3>8. CASE Owner[q] = r
      BY <3>5, <3>8, <2>1, <1>s
    <3>. QED  BY <3>6, <3>7, <3>8
  <2>. QED  BY <2>2, <2>3
<1>4. ASSUME NEW r \in Requester, Release(r)
      PROVE  [Ownership!Next]_Owner
  <2>1. at[r] \in Path /\ now' = now
    BY <1>4, <1>t DEF Release
  <2>2. CASE locks[at[r]].holder = r
    <3>1. locks' = [locks EXCEPT ![at[r]] = NoLease]
      BY <1>4, <2>2 DEF Release, release
    <3>2. Owner' = [p \in Path |-> IF p \in {at[r]} THEN NoHolder ELSE Owner[p]]
      BY <3>1, <2>1, <1>t DEF Live, NoLease
    <3>. QED  BY <3>2, <2>1, <1>l
  <2>3. CASE locks[at[r]].holder # r
    BY <1>4, <2>1, <2>3, <1>s DEF Release, release, Live
  <2>. QED  BY <2>2, <2>3
<1>5. ASSUME NEW r \in Requester, Abandon(r)
      PROVE  [Ownership!Next]_Owner
  BY <1>5, <1>s DEF Abandon, Live
<1>6. CASE SweepRead
  BY <1>6, <1>s DEF SweepRead, Live
<1>7. CASE SweepRetain
  <2>1. now' = now /\ locks' = [p \in Path |-> IF Live(p, sweepNow) THEN locks[p] ELSE NoLease]
    BY <1>7 DEF SweepRetain
  <2>2. ASSUME NEW p \in Path
        PROVE  Owner'[p] = Owner[p]
    BY <2>1, <1>t DEF Live, NoLease
  <2>3. UNCHANGED Owner
    BY <2>2
  <2>. QED  BY <2>3, <1>s
<1>8. CASE Tick
  <2>1. now' = now + 1 /\ locks' = locks
    BY <1>8 DEF Tick
  <2> DEFINE S == {p \in Path : ~Live(p, now + 1)}
  <2>2. Owner' = [p \in Path |-> IF p \in S THEN NoHolder ELSE Owner[p]]
    BY <2>1, <1>t DEF Live
  <2>. QED  BY <2>2, <1>l
<1>9. CASE Restart
  <2>1. Owner' = [p \in Path |-> IF p \in Path THEN NoHolder ELSE Owner[p]]
    BY <1>9, <1>t DEF Restart, Live, NoLease
  <2>. QED  BY <2>1, <1>l
<1>10. CASE UNCHANGED vars
  BY <1>10, <1>s DEF vars, Live
<1>. QED
  BY <1>1, <1>2, <1>3, <1>4, <1>5, <1>6, <1>7, <1>8, <1>9, <1>10 DEF Next

\* The lock table, with its clock, its expired entries and its sweeper, is an
\* implementation of the abstract lease lock.
THEOREM Refinement == Spec => ImplementsLeaseLock
<1>1. Init => Ownership!Init
  <2>1. ASSUME Init, NEW p \in Path
        PROVE  ~Live(p, now)
    BY <2>1 DEF Init, Live, NoLease
  <2>. QED  BY <2>1 DEF Ownership!Init
<1>2. TypeOK /\ SweepLags /\ [Next]_vars => [Ownership!Next]_Owner
  BY OwnershipStep
<1>. QED
  BY <1>1, <1>2, TypeCorrect, SweepLagsAlways, PTL
     DEF Spec, ImplementsLeaseLock, Ownership!Spec, Owner
=============================================================================
