--------------------------- MODULE TenantAuthProofs ---------------------------
(***************************************************************************)
(* Proofs about TenantAuth, for all domains, keys, machines, clients and   *)
(* requests, and any number of crashes.                                    *)
(***************************************************************************)
EXTENDS TenantAuth, TLAPS

-----------------------------------------------------------------------------
(* The table *)

\* What upsert_tenant does to a table: the key of d is k, the machines of d are
\* kept, and no other tenant changes.
LEMMA UpsertFacts ==
    ASSUME NEW t \in Table, NEW d \in Domain, NEW k \in GivenKey
    PROVE  /\ Upsert(t, d, k) \in Table
           /\ Upsert(t, d, k)[d] # None
           /\ Upsert(t, d, k)[d].key = k
           /\ t[d] # None => Upsert(t, d, k)[d].machines = t[d].machines
           /\ \A e \in Domain \ {d} : Upsert(t, d, k)[e] = t[e]
<1> DEFINE machines == IF t[d] = None THEN [m \in Machine |-> None] ELSE t[d].machines
           new == [key |-> k, machines |-> machines]
<1>1. machines \in [Machine -> MachineKey \cup {None}]
  BY DEF Table, Tenant
<1>2. new \in Tenant
  BY <1>1 DEF Tenant
<1>3. new # None
  BY <1>2, AbsentAssumption
<1>4. Upsert(t, d, k) = [t EXCEPT ![d] = new]
  BY DEF Upsert
<1> HIDE DEF new
<1>5. /\ [t EXCEPT ![d] = new] \in Table
      /\ [t EXCEPT ![d] = new][d] = new
      /\ \A e \in Domain \ {d} : [t EXCEPT ![d] = new][e] = t[e]
  BY <1>2 DEF Table
<1>6. new.key = k /\ new.machines = machines
  BY DEF new
<1>. QED
  BY <1>3, <1>4, <1>5, <1>6

\* What an accepted REGISTER does to the table: the machine of c has the key of c,
\* and keys, other machines and other tenants stay as they are.
LEMMA RegisterFacts ==
    ASSUME NEW t \in Table, NEW d \in Domain, t[d] # None,
           NEW m \in Machine, NEW k \in MachineKey
    PROVE  LET u == [t EXCEPT ![d].machines[m] = k]
           IN  /\ u \in Table
               /\ u[d] # None
               /\ u[d].key = t[d].key
               /\ u[d].machines[m] = k
               /\ \A n \in Machine \ {m} : u[d].machines[n] = t[d].machines[n]
               /\ \A e \in Domain \ {d} : u[e] = t[e]
<1> DEFINE new == [t[d] EXCEPT !.machines[m] = k]
<1>1. t[d] \in Tenant
  BY DEF Table
<1>2. /\ new \in Tenant
      /\ new.key = t[d].key
      /\ new.machines[m] = k
      /\ \A n \in Machine \ {m} : new.machines[n] = t[d].machines[n]
  BY <1>1 DEF Tenant
<1>3. new # None
  BY <1>2, AbsentAssumption
<1>4. [t EXCEPT ![d].machines[m] = k] = [t EXCEPT ![d] = new]
  OBVIOUS
<1> HIDE DEF new
<1>5. /\ [t EXCEPT ![d] = new] \in Table
      /\ [t EXCEPT ![d] = new][d] = new
      /\ \A e \in Domain \ {d} : [t EXCEPT ![d] = new][e] = t[e]
  BY <1>2 DEF Table
<1>. QED
  BY <1>2, <1>3, <1>4, <1>5

-----------------------------------------------------------------------------
(***************************************************************************)
(* Types. The domain and key of a request, and the table it is going to    *)
(* write, are there from the steps that note them to the steps that use    *)
(* them.                                                                   *)
(***************************************************************************)
RequestTyped ==
    \A r \in Request :
        /\ Writing(r) => asked[r] \in Asked
        /\ req[r] \in {"open", "write"} => copy[r] \in Table

TypeInv == TypeOK /\ RequestTyped

\* What a request that begins does to the variables of the requests.
LEMMA BeginTyped ==
    ASSUME TypeInv, NEW r \in Request, NEW d \in Domain, NEW k \in GivenKey,
           NEW by \in {"admin", "user"},
           NEW next \in {"insert", "upsert", "open"}, Begin(r, d, k, by, next)
    PROVE  /\ req' \in [Request -> {"new", "insert", "upsert", "copy", "open", "write", "done"}]
           /\ asked' \in [Request -> Asked \cup {None}]
           /\ mixed' \subseteq Request
           /\ safe' \in [Domain -> DomainKey \cup {NoKey, None}]
           /\ req'[r] = next /\ asked'[r] = [domain |-> d, key |-> k, by |-> by] /\ asked'[r] \in Asked
           /\ \A q \in Request \ {r} : req'[q] = req[q] /\ asked'[q] = asked[q]
  BY DEF TypeInv, TypeOK, Begin, Asked, NothingSafe, GivenKey

\* What POST /api/tenants/key does: it goes on like POST /api/tenants, or refuses.
Refused(r) ==
    /\ req[r] = "new" /\ req' = [req EXCEPT ![r] = "done"]
    /\ UNCHANGED <<serverVars, asked, copy, session, crashes, history>>

\* The steps of POST /api/tenants/key are of these two kinds.
LEMMA SetKeySteps ==
    ASSUME NEW r \in Request, NEW d \in Domain, NEW k \in GivenKey, set_tenant_key(r, d, k)
    PROVE  add_tenant(r, d, k) \/ Refused(r)
  BY DEF set_tenant_key, Refused

\* The initial states are well typed.
LEMMA InitTyped == Init => TypeInv
<1> SUFFICES ASSUME Init PROVE TypeInv
  OBVIOUS
<1>1. NoTenants \in Table
  BY DEF NoTenants, Table
<1>. QED
  BY <1>1, TenantAssumption DEF Init, TypeInv, TypeOK, RequestTyped, Writing

\* Every step keeps the types.
LEMMA TypeStep == TypeInv /\ [Next]_vars => TypeInv'
<1> SUFFICES ASSUME TypeInv, [Next]_vars PROVE TypeInv'
  OBVIOUS
<1> USE DEF TypeInv, TypeOK, RequestTyped, Writing
<1>l. Loaded \in Table
  BY DEF Loaded, NoTenants, Table
<1>1. ASSUME NEW r \in Request, NEW d \in Domain, NEW k \in GivenKey, add_tenant(r, d, k)
      PROVE  TypeInv'
  <2>1. Begin(r, d, k, "admin", "upsert")
    BY <1>1 DEF add_tenant
  <2>. QED  BY <1>1, <2>1, BeginTyped DEF add_tenant, serverVars
<1>2. ASSUME NEW r \in Request, NEW d \in Domain, register_user(r, d)
      PROVE  TypeInv'
  <2>1. Begin(r, d, NoKey, "user", "insert")
    BY <1>2 DEF register_user
  <2>. QED  BY <1>2, <2>1, BeginTyped DEF register_user, serverVars, GivenKey
<1>3. ASSUME NEW r \in Request, NEW d \in Domain, NEW k \in GivenKey, CliLoad(r, d, k)
      PROVE  TypeInv'
  <2>1. Begin(r, d, k, "admin", "open")
    BY <1>3 DEF CliLoad
  <2>2. Upsert(Loaded, d, k) \in Table
    BY <1>l, UpsertFacts
  <2>. QED  BY <1>3, <2>1, <2>2, BeginTyped DEF CliLoad, serverVars
<1>4. ASSUME NEW r \in Request, DbRegister(r)
      PROVE  TypeInv'
  BY <1>4 DEF DbRegister, history, Asked
<1>5. ASSUME NEW r \in Request, upsert_tenant(r)
      PROVE  TypeInv'
  <2>1. asked[r].domain \in Domain /\ asked[r].key \in GivenKey
    BY <1>5 DEF upsert_tenant, Asked
  <2>2. tenants' \in Table
    BY <1>5, <2>1, UpsertFacts DEF upsert_tenant
  <2>. QED  BY <1>5, <2>1, <2>2 DEF upsert_tenant
<1>6. ASSUME NEW r \in Request, PersistCopy(r)
      PROVE  TypeInv'
  BY <1>6 DEF PersistCopy, serverVars, history
<1>7. ASSUME NEW r \in Request, PersistOpen(r)
      PROVE  TypeInv'
  BY <1>7 DEF PersistOpen, history
<1>8. ASSUME NEW r \in Request, PersistWrite(r)
      PROVE  TypeInv'
  BY <1>8 DEF PersistWrite, Asked, GivenKey
<1>9. ASSUME NEW c \in Client, Hello(c)
      PROVE  TypeInv'
  BY <1>9 DEF Hello, serverVars, history
<1>10. ASSUME NEW c \in Client, Auth(c)
       PROVE  TypeInv'
  BY <1>10 DEF Auth, serverVars, history
<1>11. ASSUME NEW c \in Client, Register(c)
       PROVE  TypeInv'
  <2>1. tenants' \in Table
    <3>1. DomainOf[c] \in Domain /\ MachineOf[c] \in Machine /\ MachineKeyOf[c] \in MachineKey
      BY TenantAssumption
    <3>2. CASE MachineAccepted(c)
      BY <1>11, <3>1, <3>2, RegisterFacts DEF Register, MachineAccepted
    <3>3. CASE ~ MachineAccepted(c)
      BY <1>11, <3>3 DEF Register
    <3>. QED  BY <3>2, <3>3
  <2>. QED  BY <1>11, <2>1 DEF Register, history
<1>12. ASSUME NEW c \in Client, Disconnect(c)
       PROVE  TypeInv'
  BY <1>12 DEF Disconnect, serverVars, history
<1>13. CASE Crash
  BY <1>13, <1>l, TenantAssumption DEF Crash, NothingSafe
<1>14. CASE UNCHANGED vars
  BY <1>14 DEF vars, serverVars, history
<1>r. ASSUME NEW r \in Request, Refused(r)
      PROVE  TypeInv'
  BY <1>r DEF Refused, serverVars, history
<1>. QED
  BY SetKeySteps, <1>r, <1>1, <1>2, <1>3, <1>4, <1>5, <1>6, <1>7, <1>8, <1>9, <1>10, <1>11, <1>12, <1>13, <1>14
     DEF Next, Persist, Handshake

\* Tables, files, requests and sessions are well typed in every reachable state: no
\* handler uses the domain, the key or the copy of a request before it is there.
THEOREM TypeCorrect == Spec => []TypeInv
  BY InitTyped, TypeStep, PTL DEF Spec

-----------------------------------------------------------------------------
(***************************************************************************)
(* One key for each machine id. The key of a connected client is the one   *)
(* noted in the table: a request that sets the key of the domain keeps the *)
(* machines of its record, and a restart, which may bring an older table   *)
(* back, ends all sessions.                                                *)
(***************************************************************************)
KeyBound ==
    \A c \in Client :
        session[c] = "ready" =>
            /\ tenants[DomainOf[c]] # None
            /\ tenants[DomainOf[c]].machines[MachineOf[c]] = MachineKeyOf[c]

\* Every step keeps the keys of the connected clients in the table.
LEMMA KeyBoundStep == TypeInv /\ KeyBound /\ [Next]_vars => KeyBound'
<1> SUFFICES ASSUME TypeInv, KeyBound, [Next]_vars PROVE KeyBound'
  OBVIOUS
<1> USE DEF KeyBound
<1>t. /\ tenants \in Table
      /\ session \in [Client -> {"off", "hello", "authed", "ready", "refused"}]
  BY DEF TypeInv, TypeOK
<1>a. \A c \in Client :
         DomainOf[c] \in Domain /\ MachineOf[c] \in Machine /\ MachineKeyOf[c] \in MachineKey
  BY TenantAssumption
<1>1. ASSUME UNCHANGED <<tenants, session>>
      PROVE  KeyBound'
  BY <1>1
<1>2. ASSUME NEW r \in Request, upsert_tenant(r)
      PROVE  KeyBound'
  <2>1. asked[r].domain \in Domain /\ asked[r].key \in GivenKey
    BY <1>2 DEF upsert_tenant, Asked, TypeInv, RequestTyped, Writing
  <2>2. session' = session /\ tenants' = Upsert(tenants, asked[r].domain, asked[r].key)
    BY <1>2 DEF upsert_tenant
  <2>3. \A d \in Domain :
           tenants[d] # None => tenants'[d] # None /\ tenants'[d].machines = tenants[d].machines
    BY <2>1, <2>2, <1>t, UpsertFacts
  <2>. QED  BY <2>2, <2>3, <1>a
<1>3. ASSUME NEW c \in Client, Hello(c) \/ Auth(c) \/ Disconnect(c)
      PROVE  KeyBound'
  <2>1. tenants' = tenants /\ \A e \in Client : session'[e] = "ready" => session[e] = "ready"
    BY <1>3, <1>t DEF Hello, Auth, Disconnect, serverVars
  <2>. QED  BY <2>1
<1>4. ASSUME NEW c \in Client, Register(c)
      PROVE  KeyBound'
  <2>1. CASE ~ MachineAccepted(c)
    BY <1>4, <2>1, <1>t DEF Register
  <2>2. CASE MachineAccepted(c)
    <3> DEFINE d == DomainOf[c]
               m == MachineOf[c]
    <3>1. /\ tenants[d] # None
          /\ tenants[d].machines[m] \in {None, MachineKeyOf[c]}
          /\ tenants' = [tenants EXCEPT ![d].machines[m] = MachineKeyOf[c]]
          /\ session' = [session EXCEPT ![c] = "ready"]
      BY <1>4, <2>2 DEF Register, MachineAccepted
    <3>2. /\ tenants'[d] # None
          /\ tenants'[d].machines[m] = MachineKeyOf[c]
          /\ \A n \in Machine \ {m} : tenants'[d].machines[n] = tenants[d].machines[n]
          /\ \A e \in Domain \ {d} : tenants'[e] = tenants[e]
      BY <3>1, <1>t, <1>a, RegisterFacts
    <3>3. ASSUME NEW e \in Client, session'[e] = "ready", e # c
          PROVE  /\ tenants'[DomainOf[e]] # None
                 /\ tenants'[DomainOf[e]].machines[MachineOf[e]] = MachineKeyOf[e]
      <4>1. /\ tenants[DomainOf[e]] # None
            /\ tenants[DomainOf[e]].machines[MachineOf[e]] = MachineKeyOf[e]
        BY <3>1, <3>3, <1>t
      <4>2. CASE DomainOf[e] = d /\ MachineOf[e] = m
        <5>1. MachineKeyOf[e] = MachineKeyOf[c]
          BY <4>1, <4>2, <3>1, <1>a, TenantAssumption
        <5>. QED  BY <5>1, <4>2, <3>2
      <4>3. CASE ~ (DomainOf[e] = d /\ MachineOf[e] = m)
        BY <4>1, <4>3, <3>2, <1>a
      <4>. QED  BY <4>2, <4>3
    <3>. QED  BY <3>2, <3>3
  <2>. QED  BY <2>1, <2>2
<1>5. CASE Crash
  BY <1>5 DEF Crash
<1>6. ASSUME NEW r \in Request, NEW d \in Domain, NEW k \in GivenKey,
             add_tenant(r, d, k) \/ CliLoad(r, d, k)
      PROVE  UNCHANGED <<tenants, session>>
  BY <1>6 DEF add_tenant, CliLoad, serverVars
<1>6r. ASSUME NEW r \in Request, NEW d \in Domain, register_user(r, d)
       PROVE  UNCHANGED <<tenants, session>>
  BY <1>6r DEF register_user, serverVars
<1>7. ASSUME NEW r \in Request,
             DbRegister(r) \/ PersistCopy(r) \/ PersistOpen(r) \/ PersistWrite(r)
      PROVE  UNCHANGED <<tenants, session>>
  BY <1>7 DEF DbRegister, PersistCopy, PersistOpen, PersistWrite, serverVars
<1>8. UNCHANGED vars => UNCHANGED <<tenants, session>>
  BY DEF vars, serverVars
<1>r. ASSUME NEW r \in Request, Refused(r)
      PROVE  UNCHANGED <<tenants, session>>
  BY <1>r DEF Refused, serverVars
<1>. QED
  BY SetKeySteps, <1>r, <1>1, <1>2, <1>3, <1>4, <1>5, <1>6, <1>6r, <1>7, <1>8
     DEF Next, Persist, Handshake

\* Two connected clients that give the same machine id of one domain have the same
\* machine key, in every run of requests, CLI processes, crashes and handshakes.
THEOREM OneKey == Spec => []OneKeyPerMachine
<1>1. Init => KeyBound
  BY DEF Init, KeyBound
<1>2. KeyBound => OneKeyPerMachine
  BY DEF KeyBound, OneKeyPerMachine
<1>. QED
  BY <1>1, <1>2, TypeCorrect, KeyBoundStep, PTL DEF Spec

-----------------------------------------------------------------------------
(***************************************************************************)
(* A registration locks a tenant out at most once. It goes on to           *)
(* upsert_tenant only after it has put the row of its user into the        *)
(* database, where there is one row for a name: so at any time there is at *)
(* most one such request for a domain, and none after the one that did the *)
(* harm. Only the request of an administrator can do it again.             *)
(***************************************************************************)
Emptying(r) == req[r] = "upsert" /\ asked[r].by = "user"

RowInv ==
    /\ wiped \subseteq users
    /\ \A r \in Request : Emptying(r) => asked[r].domain \in users \ wiped
    /\ \A r, q \in Request :
          Emptying(r) /\ Emptying(q) /\ asked[r].domain = asked[q].domain => r = q

\* Every step keeps at most one such request for a domain.
LEMMA RowStep == TypeInv /\ RowInv /\ [Next]_vars => RowInv'
<1> SUFFICES ASSUME TypeInv, RowInv, [Next]_vars PROVE RowInv'
  OBVIOUS
<1> USE TenantAssumption DEF RowInv, Emptying
<1>1. ASSUME NEW r \in Request, NEW d \in Domain, NEW k \in GivenKey, add_tenant(r, d, k)
      PROVE  RowInv'
  <2>1. Begin(r, d, k, "admin", "upsert") /\ users' = users /\ wiped' = wiped
    BY <1>1 DEF add_tenant, serverVars
  <2>2. /\ asked'[r] = [domain |-> d, key |-> k, by |-> "admin"]
        /\ \A q \in Request \ {r} : req'[q] = req[q] /\ asked'[q] = asked[q]
    BY <2>1, BeginTyped
  <2>3. asked'[r].by # "user"
    BY <2>2
  <2>. QED  BY <2>1, <2>2, <2>3
<1>2. ASSUME NEW r \in Request, NEW d \in Domain, register_user(r, d)
      PROVE  RowInv'
  <2>1. Begin(r, d, NoKey, "user", "insert") /\ users' = users /\ wiped' = wiped
    BY <1>2 DEF register_user, serverVars
  <2>2. /\ req'[r] # "upsert"
        /\ \A q \in Request \ {r} : req'[q] = req[q] /\ asked'[q] = asked[q]
    BY <2>1, BeginTyped DEF GivenKey
  <2>. QED  BY <2>1, <2>2
<1>3. ASSUME NEW r \in Request, NEW d \in Domain, NEW k \in GivenKey, CliLoad(r, d, k)
      PROVE  RowInv'
  <2>1. Begin(r, d, k, "admin", "open") /\ users' = users /\ wiped' = wiped
    BY <1>3 DEF CliLoad, serverVars
  <2>2. /\ req'[r] # "upsert"
        /\ \A q \in Request \ {r} : req'[q] = req[q] /\ asked'[q] = asked[q]
    BY <2>1, BeginTyped
  <2>. QED  BY <2>1, <2>2
<1>4. ASSUME NEW r \in Request, DbRegister(r)
      PROVE  RowInv'
  <2>1. /\ req[r] = "insert" /\ wiped' = wiped /\ asked' = asked
        /\ users' = users \cup {asked[r].domain}
        /\ req'[r] = "upsert" => asked[r].domain \notin users
        /\ \A q \in Request \ {r} : req'[q] = req[q]
    BY <1>4 DEF DbRegister, history, TypeInv, TypeOK
  <2>. QED  BY <2>1
<1>5. ASSUME NEW r \in Request, upsert_tenant(r)
      PROVE  RowInv'
  BY <1>5 DEF upsert_tenant, TypeInv, TypeOK
<1>6. ASSUME NEW r \in Request, PersistCopy(r) \/ PersistOpen(r) \/ PersistWrite(r)
      PROVE  RowInv'
  <2>1. /\ users' = users /\ wiped' = wiped
        /\ req'[r] # "upsert"
        /\ \A q \in Request \ {r} : req'[q] = req[q] /\ asked'[q] = asked[q]
    BY <1>6 DEF PersistCopy, PersistOpen, PersistWrite, serverVars, history, TypeInv, TypeOK
  <2>. QED  BY <2>1
<1>7. ASSUME NEW c \in Client, Hello(c) \/ Auth(c) \/ Register(c) \/ Disconnect(c)
      PROVE  RowInv'
  BY <1>7 DEF Hello, Auth, Register, Disconnect, serverVars, history
<1>8. CASE Crash
  <2>1. users' = users /\ wiped' = wiped
    BY <1>8 DEF Crash
  <2>2. \A r \in Request : req'[r] = "upsert" => req[r] = "upsert" /\ asked'[r] = asked[r]
    BY <1>8 DEF Crash, Writing
  <2>. QED  BY <2>1, <2>2
<1>9. CASE UNCHANGED vars
  BY <1>9 DEF vars, serverVars, history
<1>r. ASSUME NEW r \in Request, Refused(r)
      PROVE  RowInv'
  BY <1>r DEF Refused, serverVars, history, TypeInv, TypeOK
<1>. QED
  BY SetKeySteps, <1>r, <1>1, <1>2, <1>3, <1>4, <1>5, <1>6, <1>7, <1>8, <1>9
     DEF Next, Persist, Handshake

\* The request r of an administrator sets the key of d in this step.
EmptiedBy(r, d) ==
    /\ req[r] = "upsert" /\ req'[r] # "upsert"
    /\ asked[r].domain = d /\ asked[r].by = "admin"

\* A step that takes the key of a tenant away, and is not a restart, is made by an
\* administrator's request for it, or by the registration of a user of its name, the
\* first that does so.
LEMMA LockedOutStep ==
    ASSUME TypeInv, RowInv, [Next]_vars, NEW d \in Domain,
           HasKey(tenants[d]), ~ HasKey(tenants'[d]), crashes' = crashes
    PROVE  d \in users \ wiped \/ \E r \in Request : EmptiedBy(r, d)
<1>t. tenants \in Table /\ crashes \in Nat
  BY TenantAssumption DEF TypeInv, TypeOK
<1>1. tenants' # tenants
  OBVIOUS
<1>2. ASSUME NEW r \in Request, upsert_tenant(r)
      PROVE  d \in users \ wiped \/ EmptiedBy(r, d)
  <2>1. asked[r].domain \in Domain /\ asked[r].key \in GivenKey
    BY <1>2 DEF upsert_tenant, Asked, TypeInv, RequestTyped, Writing
  <2>2. tenants' = Upsert(tenants, asked[r].domain, asked[r].key)
    BY <1>2 DEF upsert_tenant
  <2>3. asked[r].domain = d
    BY <2>1, <2>2, <1>t, UpsertFacts
  <2>4. tenants'[d] # None /\ tenants'[d].key = asked[r].key
    BY <2>1, <2>2, <2>3, <1>t, UpsertFacts
  <2>5. asked[r].by \in {"admin", "user"} /\ req'[r] = "copy" /\ req[r] = "upsert"
    BY <1>2 DEF upsert_tenant, Asked, TypeInv, TypeOK, RequestTyped, Writing
  <2>. QED  BY <2>3, <2>5 DEF RowInv, Emptying, EmptiedBy
<1>3. ASSUME NEW c \in Client, Register(c)
      PROVE  FALSE
  <2>1. DomainOf[c] \in Domain /\ MachineOf[c] \in Machine /\ MachineKeyOf[c] \in MachineKey
    BY TenantAssumption
  <2>2. /\ tenants[DomainOf[c]] # None
        /\ tenants' = [tenants EXCEPT ![DomainOf[c]].machines[MachineOf[c]] = MachineKeyOf[c]]
    BY <1>1, <1>3 DEF Register, MachineAccepted
  <2>3. /\ tenants'[DomainOf[c]] # None
        /\ tenants'[DomainOf[c]].key = tenants[DomainOf[c]].key
        /\ \A e \in Domain \ {DomainOf[c]} : tenants'[e] = tenants[e]
    BY <2>1, <2>2, <1>t, RegisterFacts
  <2>. QED  BY <2>3 DEF HasKey
<1>4. ~ Crash
  BY <1>t DEF Crash
<1>5. ASSUME NEW r \in Request, NEW e \in Domain, NEW k \in GivenKey,
             add_tenant(r, e, k) \/ CliLoad(r, e, k)
      PROVE  FALSE
  BY <1>1, <1>5 DEF add_tenant, CliLoad, serverVars
<1>6. ASSUME NEW r \in Request, NEW e \in Domain, register_user(r, e)
      PROVE  FALSE
  BY <1>1, <1>6 DEF register_user, serverVars
<1>7. ASSUME NEW r \in Request,
             DbRegister(r) \/ PersistCopy(r) \/ PersistOpen(r) \/ PersistWrite(r)
      PROVE  FALSE
  BY <1>1, <1>7 DEF DbRegister, PersistCopy, PersistOpen, PersistWrite, serverVars
<1>8. ASSUME NEW c \in Client, Hello(c) \/ Auth(c) \/ Disconnect(c)
      PROVE  FALSE
  BY <1>1, <1>8 DEF Hello, Auth, Disconnect, serverVars
<1>9. ~ UNCHANGED vars
  BY <1>1 DEF vars, serverVars
<1>r. ASSUME NEW r \in Request, Refused(r)
      PROVE  FALSE
  BY <1>1, <1>r DEF Refused, serverVars
<1>. QED
  BY SetKeySteps, <1>r, <1>2, <1>3, <1>4, <1>5, <1>6, <1>7, <1>8, <1>9 DEF Next, Persist, Handshake

\* A tenant that has a key is locked out only by an administrator's request for it
\* with an unusable key or, at most once, by the registration of a user of its name:
\* no other request, no handshake, no key that a user sets and no second registration
\* takes the key away.
THEOREM LockedOut == Spec => LockedOutOnce
<1>1. Init => RowInv
  BY DEF Init, RowInv, Emptying
<1>2. TypeInv /\ RowInv /\ [Next]_vars =>
        [\A d \in Domain :
           (HasKey(tenants[d]) /\ ~ HasKey(tenants'[d]) /\ crashes' = crashes)
           => \/ d \in users \ wiped
              \/ \E r \in Request :
                    /\ req[r] = "upsert" /\ req'[r] # "upsert"
                    /\ asked[r].domain = d /\ asked[r].by = "admin"]_vars
  BY LockedOutStep DEF EmptiedBy
<1>. QED
  BY <1>1, <1>2, TypeCorrect, RowStep, PTL DEF Spec, LockedOutOnce

-----------------------------------------------------------------------------
(***************************************************************************)
(* A reported key lasts. A request that overlaps no other and is no CLI    *)
(* process is the only writer: between its steps nobody changes a key or   *)
(* the file, so that its copy holds the key it has set and all the keys    *)
(* that must last, and the file is empty only from its opening to its      *)
(* writing. While any other kind of writer is at work nothing must last.   *)
(***************************************************************************)
Alone(r) == Writing(r) /\ r \notin mixed \cup Cli

KeyIs(t, d, k) == t # Torn /\ t[d] # None /\ t[d].key = k

SafeInv ==
    /\ \A r \in mixed : req[r] # "new"
    /\ \A r \in Request : Writing(r) /\ ~ Alone(r) => safe = NothingSafe
    /\ \A r \in Request : Alone(r) =>
          /\ safe[asked[r].domain] = None
          /\ \A q \in Request : Writing(q) => q = r
          /\ req[r] \in {"copy", "open", "write"} => KeyIs(tenants, asked[r].domain, asked[r].key)
          /\ req[r] \in {"open", "write"} =>
                \A d \in Domain :
                    safe[d] # None \/ d = asked[r].domain => KeyIs(copy[r], d, tenants[d].key)
          /\ req[r] = "write" => disk = Torn
    /\ \A d \in Domain : safe[d] # None =>
          /\ KeyIs(tenants, d, safe[d])
          /\ (\A r \in Request : req[r] # "write") => KeyIs(disk, d, safe[d])

\* A request that begins is alone, or nothing must last.
LEMMA SafeBegin ==
    ASSUME TypeInv, SafeInv, NEW r \in Request, NEW d \in Domain, NEW k \in GivenKey,
           NEW by \in {"admin", "user"},
           NEW next \in {"insert", "upsert", "open"}, Begin(r, d, k, by, next),
           r \notin Cli => next # "open",
           UNCHANGED <<tenants, disk>>, \A q \in Request \ {r} : copy'[q] = copy[q]
    PROVE  SafeInv'
<1> DEFINE others == {q \in Request : Writing(q)}
<1>t. /\ safe \in [Domain -> DomainKey \cup {NoKey, None}]
      /\ mixed \subseteq Request
      /\ \A q \in Request : Writing(q) => asked[q].domain \in Domain
  BY DEF TypeInv, TypeOK, RequestTyped, Asked
<1>1. /\ req'[r] = next /\ asked'[r].domain = d
      /\ \A q \in Request \ {r} : req'[q] = req[q] /\ asked'[q] = asked[q]
  <2>1. /\ req'[r] = next /\ asked'[r] = [domain |-> d, key |-> k, by |-> by]
        /\ \A q \in Request \ {r} : req'[q] = req[q] /\ asked'[q] = asked[q]
    BY DEF Begin, TypeInv, TypeOK
  <2>. QED  BY <2>1
<1>2. /\ req[r] = "new"
      /\ mixed' = IF others = {} THEN mixed ELSE mixed \cup others \cup {r}
      /\ safe' = IF others = {} /\ r \notin Cli THEN [safe EXCEPT ![d] = None] ELSE NothingSafe
  BY DEF Begin
<1>3. ~ Writing(r) /\ Writing(r)' /\ \A q \in Request \ {r} : Writing(q)' <=> Writing(q)
  BY <1>1, <1>2 DEF Writing
<1>4. CASE others # {} \/ r \in Cli
  <2>1. safe' = NothingSafe
    BY <1>2, <1>4
  <2>3. \A q \in mixed' : req'[q] # "new"
    BY <1>1, <1>2, <1>3, <1>4, <1>t DEF SafeInv, Writing
  <2>2. \A q \in Request : ~ Alone(q)'
    BY <1>2, <1>3, <1>4 DEF Alone
  <2>. QED  BY <2>1, <2>2, <2>3 DEF SafeInv, NothingSafe
<1>5. CASE others = {} /\ r \notin Cli
  <2>1. safe' = [safe EXCEPT ![d] = None] /\ mixed' = mixed
    BY <1>2, <1>5
  <2>2. \A q \in Request : Writing(q)' => q = r
    BY <1>3, <1>5
  <2>3. safe'[d] = None /\ req'[r] \in {"insert", "upsert"} /\ asked'[r].domain = d
    BY <2>1, <1>1, <1>5, <1>t
  <2>4. ASSUME NEW e \in Domain, safe'[e] # None
        PROVE  KeyIs(tenants', e, safe'[e]) /\ KeyIs(disk', e, safe'[e])
    <3>1. safe[e] # None /\ safe'[e] = safe[e]
      BY <2>1, <2>4, <1>t
    <3>2. \A q \in Request : req[q] # "write"
      BY <1>5 DEF Writing
    <3>. QED  BY <3>1, <3>2 DEF SafeInv, KeyIs
  <2>5. Alone(r)' /\ \A q \in mixed' : req'[q] # "new"
    BY <2>1, <1>1, <1>2, <1>3, <1>5, <1>t DEF SafeInv, Alone
  <2>. QED  BY <2>2, <2>3, <2>4, <2>5 DEF SafeInv, Alone
<1>. QED  BY <1>4, <1>5

\* The steps of a handshake, and the insertion of a row, change no key.
LEMMA SafeQuiet ==
    ASSUME TypeInv, SafeInv, UNCHANGED <<asked, copy, mixed, safe, disk>>,
           \A d \in Domain : tenants[d] # None => tenants'[d] # None /\ tenants'[d].key = tenants[d].key,
           tenants' \in Table,
           \A r \in Request : /\ Writing(r)' => Writing(r)
                              /\ req'[r] # req[r] => req[r] = "insert" /\ req'[r] \in {"done", "upsert"}
    PROVE  SafeInv'
<1>1. /\ safe' = safe /\ asked' = asked /\ copy' = copy /\ mixed' = mixed /\ disk' = disk
      /\ mixed \subseteq Request
  BY DEF TypeInv, TypeOK
<1>2. \A d \in Domain : \A k : KeyIs(tenants, d, k) => KeyIs(tenants', d, k)
  BY AbsentAssumption DEF KeyIs
<1>3. \A r \in Request :
         /\ req'[r] \in {"copy", "open", "write"} => req'[r] = req[r]
         /\ req'[r] = "new" => req[r] = "new"
         /\ req[r] = "write" => req'[r] = "write"
         /\ Alone(r)' => Alone(r)
         /\ Writing(r)' /\ ~ Alone(r)' => Writing(r) /\ ~ Alone(r)
  BY <1>1 DEF Alone
<1>4. \A r \in Request : (Alone(r) /\ req[r] \in {"copy", "open", "write"}) => asked[r].domain \in Domain
  BY DEF TypeInv, RequestTyped, Asked, Alone
<1>5. ASSUME NEW r \in Request, Alone(r)'
      PROVE  /\ safe'[asked'[r].domain] = None
             /\ \A q \in Request : Writing(q)' => q = r
             /\ req'[r] \in {"copy", "open", "write"} => KeyIs(tenants', asked'[r].domain, asked'[r].key)
             /\ req'[r] = "write" => disk' = Torn
  BY <1>1, <1>2, <1>3, <1>4, <1>5 DEF SafeInv
<1>6. ASSUME NEW r \in Request, Alone(r)', req'[r] \in {"open", "write"}, NEW d \in Domain,
             safe'[d] # None \/ d = asked'[r].domain
      PROVE  KeyIs(copy'[r], d, tenants'[d].key)
  <2>1. KeyIs(copy[r], d, tenants[d].key)
    BY <1>1, <1>3, <1>6 DEF SafeInv
  <2>2. tenants[d] # None
    BY <1>1, <1>3, <1>6 DEF SafeInv, KeyIs
  <2>. QED  BY <2>1, <2>2, <1>1
<1>7. ASSUME NEW d \in Domain, safe'[d] # None
      PROVE  /\ KeyIs(tenants', d, safe'[d])
             /\ (\A r \in Request : req'[r] # "write") => KeyIs(disk', d, safe'[d])
  BY <1>1, <1>2, <1>3, <1>7 DEF SafeInv
<1>8. /\ \A r \in mixed' : req'[r] # "new"
      /\ \A r \in Request : Writing(r)' /\ ~ Alone(r)' => safe' = NothingSafe
  BY <1>1, <1>3 DEF SafeInv
<1>. QED
  BY <1>5, <1>6, <1>7, <1>8 DEF SafeInv

\* A step in which one writer goes on: what the others are does not change.
LEMMA WriterGoesOn ==
    ASSUME TypeInv, NEW r \in Request, Writing(r), UNCHANGED <<mixed, asked>>,
           NEW to \in {"copy", "open", "write"}, req' = [req EXCEPT ![r] = to]
    PROVE  /\ req'[r] = to
           /\ \A q \in Request \ {r} : req'[q] = req[q]
           /\ \A q \in Request : (Writing(q)' <=> Writing(q)) /\ (Alone(q)' <=> Alone(q))
           /\ \A q \in mixed' : req'[q] = "new" => req[q] = "new"
  BY DEF TypeInv, TypeOK, Writing, Alone

\* Every step keeps what must last.
LEMMA SafeStep == TypeInv /\ SafeInv /\ [Next]_vars => SafeInv'
<1> SUFFICES ASSUME TypeInv, SafeInv, [Next]_vars PROVE SafeInv'
  OBVIOUS
<1>t. /\ tenants \in Table /\ disk \in Table \cup {Torn} /\ mixed \subseteq Request
      /\ req \in [Request -> {"new", "insert", "upsert", "copy", "open", "write", "done"}]
      /\ copy \in [Request -> Table \cup {None}]
      /\ safe \in [Domain -> DomainKey \cup {NoKey, None}]
  BY DEF TypeInv, TypeOK
<1>a. \A r \in Request : Writing(r) =>
         asked[r].domain \in Domain /\ asked[r].key \in GivenKey
  BY DEF TypeInv, RequestTyped, Asked
<1>u. Torn \notin Table
  BY AbsentAssumption
<1>1. ASSUME NEW r \in Request, NEW d \in Domain, NEW k \in GivenKey, add_tenant(r, d, k)
      PROVE  SafeInv'
  BY <1>1, SafeBegin DEF add_tenant, serverVars
<1>2. ASSUME NEW r \in Request, NEW d \in Domain, register_user(r, d)
      PROVE  SafeInv'
  BY <1>2, SafeBegin DEF register_user, serverVars, GivenKey
<1>3. ASSUME NEW r \in Request, NEW d \in Domain, NEW k \in GivenKey, CliLoad(r, d, k)
      PROVE  SafeInv'
  <2>1. Begin(r, d, k, "admin", "open") /\ r \in Cli /\ UNCHANGED <<tenants, disk>>
        /\ \A q \in Request \ {r} : copy'[q] = copy[q]
    BY <1>3, <1>t DEF CliLoad, serverVars
  <2>. QED  BY <2>1, SafeBegin
<1>4. ASSUME NEW r \in Request, DbRegister(r)
      PROVE  SafeInv'
  <2>1. /\ UNCHANGED <<tenants, asked, copy, mixed, safe, disk>>
        /\ \A q \in Request : /\ Writing(q)' => Writing(q)
                              /\ req'[q] # req[q] => req[q] = "insert" /\ req'[q] \in {"done", "upsert"}
    BY <1>4, <1>t DEF DbRegister, history, Writing
  <2>. QED  BY <2>1, <1>t, SafeQuiet
<1>5. ASSUME NEW r \in Request, upsert_tenant(r)
      PROVE  SafeInv'
  <2> DEFINE d == asked[r].domain
             k == asked[r].key
  <2>1. /\ Writing(r) /\ req[r] = "upsert" /\ tenants' = Upsert(tenants, d, k)
        /\ UNCHANGED <<disk, asked, copy, mixed, safe>> /\ req' = [req EXCEPT ![r] = "copy"]
    BY <1>5 DEF upsert_tenant, Writing
  <2>2. /\ tenants' \in Table /\ tenants'[d] # None /\ tenants'[d].key = k
        /\ \A e \in Domain \ {d} : tenants'[e] = tenants[e]
    BY <2>1, <1>t, <1>a, UpsertFacts
  <2>3. /\ req'[r] = "copy"
        /\ \A q \in Request \ {r} : req'[q] = req[q]
        /\ \A q \in Request : (Writing(q)' <=> Writing(q)) /\ (Alone(q)' <=> Alone(q))
        /\ \A q \in mixed' : req'[q] = "new" => req[q] = "new"
    BY <2>1, WriterGoesOn
  <2>4. CASE ~ Alone(r)
    <3>1. safe = NothingSafe /\ \A q \in Request : ~ Alone(q)
      BY <2>1, <2>4 DEF SafeInv
    <3>. QED  BY <3>1, <2>1, <2>3 DEF SafeInv, NothingSafe
  <2>5. CASE Alone(r)
    <3>1. safe[d] = None /\ \A q \in Request : Writing(q) => q = r
      BY <2>5 DEF SafeInv
    <3>2. \A q \in Request : Alone(q)' => q = r
      BY <2>3, <3>1 DEF Alone
    <3>3. KeyIs(tenants', d, k)
      BY <2>2, <1>u DEF KeyIs
    <3>4. \A e \in Domain : safe[e] # None => KeyIs(tenants', e, safe[e])
      BY <2>2, <3>1, <1>u DEF SafeInv, KeyIs
    <3>5. \A e \in Domain : safe[e] # None => KeyIs(disk, e, safe[e])
      BY <2>1, <3>1 DEF SafeInv, Writing
    <3>. QED  BY <2>1, <2>3, <2>5, <3>1, <3>2, <3>3, <3>4, <3>5 DEF SafeInv
  <2>. QED  BY <2>4, <2>5
<1>6. ASSUME NEW r \in Request, PersistCopy(r)
      PROVE  SafeInv'
  <2>1. /\ Writing(r) /\ req[r] = "copy" /\ copy' = [copy EXCEPT ![r] = tenants]
        /\ UNCHANGED <<tenants, disk, asked, mixed, safe>> /\ req' = [req EXCEPT ![r] = "open"]
    BY <1>6 DEF PersistCopy, Writing, serverVars, history
  <2>2. copy'[r] = tenants /\ \A q \in Request \ {r} : copy'[q] = copy[q]
    BY <2>1, <1>t
  <2>3. /\ req'[r] = "open"
        /\ \A q \in Request \ {r} : req'[q] = req[q]
        /\ \A q \in Request : (Writing(q)' <=> Writing(q)) /\ (Alone(q)' <=> Alone(q))
        /\ \A q \in mixed' : req'[q] = "new" => req[q] = "new"
    BY <2>1, WriterGoesOn
  <2>4. CASE ~ Alone(r)
    <3>1. safe = NothingSafe /\ \A q \in Request : ~ Alone(q)
      BY <2>1, <2>4 DEF SafeInv
    <3>. QED  BY <3>1, <2>1, <2>3 DEF SafeInv, NothingSafe
  <2>5. CASE Alone(r)
    <3>1. /\ safe[asked[r].domain] = None /\ \A q \in Request : Writing(q) => q = r
          /\ KeyIs(tenants, asked[r].domain, asked[r].key)
      BY <2>1, <2>5 DEF SafeInv
    <3>2. \A q \in Request : Alone(q)' => q = r
      BY <2>3, <3>1 DEF Alone
    <3>3. \A d \in Domain : safe[d] # None \/ d = asked[r].domain => KeyIs(tenants, d, tenants[d].key)
      BY <3>1 DEF SafeInv, KeyIs
    <3>4. \A d \in Domain : safe[d] # None => KeyIs(tenants, d, safe[d]) /\ KeyIs(disk, d, safe[d])
      BY <2>1, <3>1 DEF SafeInv, Writing
    <3>. QED  BY <2>1, <2>2, <2>3, <2>5, <3>1, <3>2, <3>3, <3>4 DEF SafeInv
  <2>. QED  BY <2>4, <2>5
<1>7. ASSUME NEW r \in Request, PersistOpen(r)
      PROVE  SafeInv'
  <2>1. /\ Writing(r) /\ req[r] = "open" /\ disk' = Torn
        /\ UNCHANGED <<tenants, copy, asked, mixed, safe>> /\ req' = [req EXCEPT ![r] = "write"]
    BY <1>7 DEF PersistOpen, Writing, history
  <2>3. /\ req'[r] = "write"
        /\ \A q \in Request \ {r} : req'[q] = req[q]
        /\ \A q \in Request : (Writing(q)' <=> Writing(q)) /\ (Alone(q)' <=> Alone(q))
        /\ \A q \in mixed' : req'[q] = "new" => req[q] = "new"
    BY <2>1, WriterGoesOn
  <2>4. CASE ~ Alone(r)
    <3>1. safe = NothingSafe /\ \A q \in Request : ~ Alone(q)
      BY <2>1, <2>4 DEF SafeInv
    <3>. QED  BY <3>1, <2>1, <2>3 DEF SafeInv, NothingSafe
  <2>5. CASE Alone(r)
    <3>1. \A q \in Request : Writing(q) => q = r
      BY <2>1, <2>5 DEF SafeInv
    <3>2. \A q \in Request : Alone(q)' => q = r
      BY <2>3, <3>1 DEF Alone
    <3>. QED  BY <2>1, <2>3, <2>5, <3>1, <3>2 DEF SafeInv
  <2>. QED  BY <2>4, <2>5
<1>8. ASSUME NEW r \in Request, PersistWrite(r)
      PROVE  SafeInv'
  <2>1. /\ Writing(r) /\ req[r] = "write" /\ req' = [req EXCEPT ![r] = "done"]
        /\ tenants' = tenants /\ mixed' = mixed
        /\ asked' = [asked EXCEPT ![r] = None] /\ copy' = [copy EXCEPT ![r] = None]
    BY <1>8 DEF PersistWrite, Writing
  <2>2. /\ req'[r] = "done"
        /\ \A q \in Request \ {r} : req'[q] = req[q] /\ asked'[q] = asked[q] /\ copy'[q] = copy[q]
    BY <2>1, <1>t DEF TypeInv, TypeOK
  <2>3. /\ ~ Writing(r)' /\ \A q \in Request \ {r} : Writing(q)' <=> Writing(q)
        /\ \A q \in Request : Alone(q)' => Alone(q) /\ q # r
        /\ \A q \in mixed' : req'[q] = "new" => req[q] = "new"
    BY <2>1, <2>2, <1>t DEF Writing, Alone
  <2>4. CASE ~ Alone(r)
    <3>1. safe = NothingSafe /\ \A q \in Request : ~ Alone(q)
      BY <2>1, <2>4 DEF SafeInv
    <3>2. safe' = safe
      BY <1>8, <2>1, <2>4 DEF PersistWrite, Alone
    <3>. QED  BY <3>1, <3>2, <2>1, <2>3 DEF SafeInv, NothingSafe
  <2>5. CASE Alone(r)
    <3> DEFINE d == asked[r].domain
    <3>1. /\ safe[d] = None /\ \A q \in Request : Writing(q) => q = r
          /\ KeyIs(tenants, d, asked[r].key) /\ disk = Torn
          /\ \A e \in Domain : safe[e] # None \/ e = d => KeyIs(copy[r], e, tenants[e].key)
      BY <2>1, <2>5 DEF SafeInv
    <3>2. disk' = copy[r] /\ safe' = [safe EXCEPT ![d] = asked[r].key]
      BY <1>8, <2>5, <3>1 DEF PersistWrite, Alone
    <3>3. \A q \in Request : ~ Writing(q)' /\ ~ Alone(q)'
      BY <2>3, <3>1 DEF Alone
    <3>4. ASSUME NEW e \in Domain, safe'[e] # None
          PROVE  KeyIs(tenants', e, safe'[e]) /\ KeyIs(disk', e, safe'[e])
      <4>1. CASE e = d
        BY <4>1, <3>1, <3>2, <2>1, <1>t DEF KeyIs
      <4>2. CASE e # d
        <5>1. safe[e] # None /\ safe'[e] = safe[e]
          BY <4>2, <3>4, <3>2, <1>t
        <5>. QED  BY <5>1, <3>1, <3>2, <2>1 DEF SafeInv, KeyIs
      <4>. QED  BY <4>1, <4>2
    <3>. QED  BY <2>1, <2>3, <3>3, <3>4 DEF SafeInv
  <2>. QED  BY <2>4, <2>5
<1>9. ASSUME NEW c \in Client, Hello(c) \/ Auth(c) \/ Disconnect(c)
      PROVE  SafeInv'
  <2>1. UNCHANGED <<tenants, asked, copy, mixed, safe, disk, req>>
    BY <1>9 DEF Hello, Auth, Disconnect, serverVars, history
  <2>. QED  BY <2>1, <1>t, SafeQuiet DEF Writing
<1>10. ASSUME NEW c \in Client, Register(c)
       PROVE  SafeInv'
  <2>1. UNCHANGED <<asked, copy, mixed, safe, disk, req>>
    BY <1>10 DEF Register, history
  <2>2. DomainOf[c] \in Domain /\ MachineOf[c] \in Machine /\ MachineKeyOf[c] \in MachineKey
    BY TenantAssumption
  <2>3. /\ tenants' \in Table
        /\ \A d \in Domain : tenants[d] # None => tenants'[d] # None /\ tenants'[d].key = tenants[d].key
    <3>1. CASE MachineAccepted(c)
      <4>1. /\ tenants[DomainOf[c]] # None
            /\ tenants' = [tenants EXCEPT ![DomainOf[c]].machines[MachineOf[c]] = MachineKeyOf[c]]
        BY <1>10, <3>1 DEF Register, MachineAccepted
      <4>2. tenants' \in Table
        BY <2>2, <4>1, <1>t, RegisterFacts
      <4>3. /\ tenants'[DomainOf[c]] # None
            /\ tenants'[DomainOf[c]].key = tenants[DomainOf[c]].key
            /\ \A d \in Domain \ {DomainOf[c]} : tenants'[d] = tenants[d]
        BY <2>2, <4>1, <1>t, RegisterFacts
      <4>. QED  BY <4>2, <4>3
    <3>2. CASE ~ MachineAccepted(c)
      BY <1>10, <3>2, <1>t DEF Register
    <3>. QED  BY <3>1, <3>2
  <2>. QED  BY <2>1, <2>3, SafeQuiet DEF Writing
<1>11. CASE Crash
  <2>1. /\ tenants' = Loaded /\ disk' = disk /\ mixed' = mixed
        /\ safe' = IF \E r \in Request : req[r] = "write" THEN NothingSafe ELSE safe
        /\ \A r \in Request : /\ Writing(r)' => Writing(r) /\ r \in Cli
                              /\ req'[r] = "new" => req[r] = "new"
    BY <1>11 DEF Crash, Writing
  <2>2. \A r \in Request : ~ Alone(r)'
    BY <2>1 DEF Alone
  <2>3. \A r \in Request : Writing(r)' => safe' = NothingSafe
    BY <2>1 DEF SafeInv, Alone
  <2>4. ASSUME NEW d \in Domain, safe'[d] # None
        PROVE  KeyIs(tenants', d, safe'[d]) /\ KeyIs(disk', d, safe'[d])
    <3>1. safe' = safe /\ \A r \in Request : req[r] # "write"
      BY <2>1, <2>4 DEF NothingSafe
    <3>2. KeyIs(disk, d, safe[d])
      BY <3>1, <2>4 DEF SafeInv
    <3>3. Loaded = disk
      BY <3>2 DEF Loaded, KeyIs
    <3>. QED  BY <2>1, <3>1, <3>2, <3>3
  <2>. QED  BY <2>1, <2>2, <2>3, <2>4, <1>t DEF SafeInv
<1>12. CASE UNCHANGED vars
  <2>1. UNCHANGED <<tenants, asked, copy, mixed, safe, disk, req>>
    BY <1>12 DEF vars, serverVars, history
  <2>. QED  BY <2>1, <1>t, SafeQuiet DEF Writing
<1>r. ASSUME NEW r \in Request, Refused(r)
      PROVE  SafeInv'
  <2>1. /\ UNCHANGED <<tenants, asked, copy, mixed, safe, disk>>
        /\ req[r] = "new" /\ req' = [req EXCEPT ![r] = "done"]
    BY <1>r DEF Refused, serverVars, history
  <2>2. /\ \A q \in Request : Writing(q)' <=> Writing(q)
        /\ \A q \in Request : Alone(q)' <=> Alone(q)
        /\ \A q \in Request : /\ req'[q] \in {"copy", "open", "write"} <=> req[q] \in {"copy", "open", "write"}
                              /\ req'[q] \in {"open", "write"} <=> req[q] \in {"open", "write"}
                              /\ req'[q] = "write" <=> req[q] = "write"
                              /\ req'[q] = "new" => req[q] = "new"
    BY <2>1, <1>t DEF Writing, Alone
  <2>. QED  BY <2>1, <2>2, <1>t DEF SafeInv
<1>. QED
  BY SetKeySteps, <1>r, <1>1, <1>2, <1>3, <1>4, <1>5, <1>6, <1>7, <1>8, <1>9, <1>10, <1>11, <1>12
     DEF Next, Persist, Handshake

\* A domain key that the control API reported as set is the key of the running
\* server and, when no request is under way, the key in the file, for any number of
\* requests: what can undo it is an overlapping request, a CLI process, or a death
\* while the file is written.
THEOREM KeyLasts == Spec => []ReportedKeyLasts
<1>1. Init => SafeInv
  BY DEF Init, SafeInv, Alone, Writing
<1>2. SafeInv => ReportedKeyLasts
  <2> SUFFICES ASSUME SafeInv, NEW d \in Domain, safe[d] # None
               PROVE  /\ tenants[d] # None /\ tenants[d].key = safe[d]
                      /\ (\A r \in Request : ~ Writing(r)) =>
                            disk # Torn /\ disk[d] # None /\ disk[d].key = safe[d]
    BY DEF ReportedKeyLasts
  <2>. QED  BY DEF SafeInv, KeyIs, Writing
<1>. QED
  BY <1>1, <1>2, TypeCorrect, SafeStep, PTL DEF Spec
=============================================================================
