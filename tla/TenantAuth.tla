------------------------------ MODULE TenantAuth ------------------------------
(***************************************************************************)
(* Who may connect: the tenant table of the server and its file            *)
(* (tenants.rs), the requests that change it (admin.rs, db.rs and          *)
(* `ygg admin add-tenant`), and the handshake HELLO, AUTH, REGISTER        *)
(* (session.rs, and connect_and_handshake of the client), which checks     *)
(* signatures against it.                                                  *)
(*                                                                         *)
(* A signature verifies exactly with the key that made it, so a signed     *)
(* nonce is represented by its key; no signature verifies with the empty   *)
(* key. The table is read and written under one lock, so each access is    *)
(* one step; persist copies the table under the lock and writes the file   *)
(* outside it, truncating it first.                                        *)
(***************************************************************************)
EXTENDS Naturals, FiniteSets

CONSTANTS
    Domain,      \* user domains, which are also user names
    DomainKey,   \* public keys of domains
    Machine,     \* machine ids
    MachineKey,  \* public keys of machines
    Client,      \* client processes; each makes one connection at a time
    DomainOf, MachineOf, DomainKeyOf, MachineKeyOf,  \* what each client is set up with
    Request,     \* the requests to the control API and the CLI processes
    Cli,         \* those of them that are `ygg admin add-tenant`
    None,        \* no tenant, no binding, no table
    NoKey,       \* no usable key: the empty one, or a text that is not 64 characters long
    Torn,        \* a file that does not parse
    MaxCrashes   \* bound: number of crashes of the server

ASSUME TenantAssumption ==
    /\ Cli \subseteq Request
    /\ NoKey \notin DomainKey
    /\ None \notin MachineKey
    /\ MaxCrashes \in Nat
    /\ DomainOf \in [Client -> Domain]
    /\ MachineOf \in [Client -> Machine]
    /\ DomainKeyOf \in [Client -> DomainKey]
    /\ MachineKeyOf \in [Client -> MachineKey]

GivenKey == DomainKey \cup {NoKey}
Tenant == [key : GivenKey, machines : [Machine -> MachineKey \cup {None}]]
Table == [Domain -> Tenant \cup {None}]
NoTenants == [d \in Domain |-> None]

\* A missing record is no record, and a text that does not parse is no table.
ASSUME AbsentAssumption == None \notin Tenant /\ Torn \notin Table

VARIABLES
    tenants,  \* the table of the running server
    disk,     \* tenants.json
    users,    \* the domains with a row in the user database
    req,      \* request -> its position
    asked,    \* request -> its domain and key, and who asks: an administrator or a new user
    copy,     \* request -> the table it is going to write
    session,  \* client -> the state of its connection
    crashes,
    \* history
    wiped,    \* the domains whose key a registration replaced by the empty one
    mixed,    \* the requests that overlapped another one
    safe      \* domain -> the key last reported as set, while it must last

serverVars == <<tenants, disk, users>>
history == <<wiped, mixed, safe>>
vars == <<serverVars, req, asked, copy, session, crashes, history>>

Asked == [domain : Domain, key : GivenKey, by : {"admin", "user"}]

TypeOK ==
    /\ tenants \in Table
    /\ disk \in Table \cup {Torn}
    /\ users \subseteq Domain
    /\ req \in [Request -> {"new", "insert", "upsert", "copy", "open", "write", "done"}]
    /\ asked \in [Request -> Asked \cup {None}]
    /\ copy \in [Request -> Table \cup {None}]
    /\ session \in [Client -> {"off", "hello", "authed", "ready", "refused"}]
    /\ crashes \in 0 .. MaxCrashes
    /\ wiped \subseteq Domain
    /\ mixed \subseteq Request
    /\ safe \in [Domain -> DomainKey \cup {NoKey, None}]

Init ==
    /\ tenants = NoTenants
    /\ disk = NoTenants
    /\ users = {}
    /\ req = [r \in Request |-> "new"]
    /\ asked = [r \in Request |-> None]
    /\ copy = [r \in Request |-> None]
    /\ session = [c \in Client |-> "off"]
    /\ crashes = 0
    /\ wiped = {}
    /\ mixed = {}
    /\ safe = [d \in Domain |-> None]

-----------------------------------------------------------------------------
(* The table *)

\* The table that reload finds: none if the file is missing or does not parse.
Loaded == IF disk = Torn THEN NoTenants ELSE disk

\* A mutant of upsert_tenant that replaces the record and its machines.
UpsertFresh(t, d, k) == [t EXCEPT ![d] = [key |-> k, machines |-> [m \in Machine |-> None]]]

\* upsert_tenant sets the key and keeps the machines of the record.
Upsert(t, d, k) ==
    [t EXCEPT ![d] = [key |-> k,
                      machines |-> IF @ = None THEN [m \in Machine |-> None] ELSE @.machines]]

Writing(r) == req[r] \in {"insert", "upsert", "copy", "open", "write"}

NothingSafe == [d \in Domain |-> None]

\* A request starts. When two overlap, or when a CLI process works on the file
\* behind the back of the server, what was reported need not last.
Begin(r, d, k, by, next) ==
    LET others == {q \in Request : Writing(q)} IN
    /\ req[r] = "new"
    /\ req' = [req EXCEPT ![r] = next]
    /\ asked' = [asked EXCEPT ![r] = [domain |-> d, key |-> k, by |-> by]]
    /\ mixed' = IF others = {} THEN mixed ELSE mixed \cup others \cup {r}
    /\ safe' = IF others = {} /\ r \notin Cli THEN [safe EXCEPT ![d] = None] ELSE NothingSafe

\* POST /api/tenants. The key is not looked at.
add_tenant(r, d, k) ==
    /\ r \notin Cli
    /\ Begin(r, d, k, "admin", "upsert")
    /\ UNCHANGED <<serverVars, copy, session, crashes, wiped>>

\* POST /api/tenants/key, for a user who registered: a key must have 64 characters.
set_tenant_key(r, d, k) ==
    \/ k # NoKey /\ add_tenant(r, d, k)
    \/ /\ k = NoKey /\ r \notin Cli /\ req[r] = "new"
       /\ req' = [req EXCEPT ![r] = "done"]
       /\ UNCHANGED <<serverVars, asked, copy, session, crashes, history>>

\* A mutant of register_user that makes the tenant before the row.
RegisterTenantFirst(r, d) ==
    /\ r \notin Cli
    /\ Begin(r, d, NoKey, "user", "upsert")
    /\ UNCHANGED <<serverVars, copy, session, crashes, wiped>>

\* POST /api/users/register: a new row first, refused if there is one.
register_user(r, d) ==
    /\ r \notin Cli
    /\ Begin(r, d, NoKey, "user", "insert")
    /\ UNCHANGED <<serverVars, copy, session, crashes, wiped>>

DbRegister(r) ==
    /\ req[r] = "insert"
    /\ users' = users \cup {asked[r].domain}
    /\ req' = [req EXCEPT ![r] = IF asked[r].domain \in users THEN "done" ELSE "upsert"]
    /\ UNCHANGED <<tenants, disk, asked, copy, session, crashes, history>>

HasKey(t) == t # None /\ t.key # NoKey

upsert_tenant(r) ==
    LET d == asked[r].domain IN
    /\ req[r] = "upsert"
    /\ tenants' = Upsert(tenants, d, asked[r].key)
    /\ req' = [req EXCEPT ![r] = "copy"]
    /\ wiped' = IF HasKey(tenants[d]) /\ asked[r].by = "user" THEN wiped \cup {d} ELSE wiped
    /\ UNCHANGED <<disk, users, asked, copy, session, crashes, mixed, safe>>

\* A mutant of persist that writes what the file held before.
PersistCopyOld(r) ==
    /\ req[r] = "copy"
    /\ copy' = [copy EXCEPT ![r] = Loaded]
    /\ req' = [req EXCEPT ![r] = "open"]
    /\ UNCHANGED <<serverVars, asked, session, crashes, history>>

\* persist copies the table under the lock.
PersistCopy(r) ==
    /\ req[r] = "copy"
    /\ copy' = [copy EXCEPT ![r] = tenants]
    /\ req' = [req EXCEPT ![r] = "open"]
    /\ UNCHANGED <<serverVars, asked, session, crashes, history>>

\* `ygg admin add-tenant`: another process with a table of its own, which it loads
\* from the file. The file is its own when it has written it; the server does not
\* look at it until it starts again.
CliLoad(r, d, k) ==
    /\ r \in Cli
    /\ Begin(r, d, k, "admin", "open")
    /\ copy' = [copy EXCEPT ![r] = Upsert(Loaded, d, k)]
    /\ UNCHANGED <<serverVars, session, crashes, wiped>>

\* fs::write opens the file, which truncates it.
PersistOpen(r) ==
    /\ req[r] = "open"
    /\ disk' = Torn
    /\ req' = [req EXCEPT ![r] = "write"]
    /\ UNCHANGED <<tenants, users, asked, copy, session, crashes, history>>

\* What makes the text of a table long: its tenants, their keys and machines.
Parts(t) ==
    LET rows == {d \in Domain : t[d] # None}
    IN  rows \cup {<<d, "key">> : d \in {d \in rows : t[d].key # NoKey}}
             \cup {x \in rows \X Machine : t[x[1]].machines[x[2]] # None}

MayBeLonger(s, t) == ~ (Parts(s) \subseteq Parts(t))

\* And writes it from the start; the tail of a longer text that another one wrote
\* meanwhile remains. Then success is reported.
PersistWrite(r) ==
    /\ req[r] = "write"
    /\ \/ disk' = copy[r]
       \/ disk # Torn /\ MayBeLonger(disk, copy[r]) /\ disk' = Torn
    /\ req' = [req EXCEPT ![r] = "done"]
    /\ copy' = [copy EXCEPT ![r] = None]
    /\ asked' = [asked EXCEPT ![r] = None]
    /\ safe' = IF r \in mixed \cup Cli THEN safe
               ELSE [safe EXCEPT ![asked[r].domain] = asked[r].key]
    /\ UNCHANGED <<tenants, users, session, crashes, wiped, mixed>>

\* The server dies and starts again: requests and sessions end, the table is
\* loaded from the file. A CLI process goes on.
Crash ==
    /\ crashes < MaxCrashes
    /\ crashes' = crashes + 1
    /\ tenants' = Loaded
    /\ req' = [r \in Request |-> IF Writing(r) /\ r \notin Cli THEN "done" ELSE req[r]]
    /\ copy' = [r \in Request |-> IF r \in Cli THEN copy[r] ELSE None]
    /\ asked' = [r \in Request |-> IF r \in Cli THEN asked[r] ELSE None]
    /\ session' = [c \in Client |-> "off"]
    /\ safe' = IF \E r \in Request : req[r] = "write" THEN NothingSafe ELSE safe
    /\ UNCHANGED <<disk, users, wiped, mixed>>

-----------------------------------------------------------------------------
(* The handshake *)

\* HELLO and HelloAck with a nonce; tenant_exists is always true.
Hello(c) ==
    /\ session[c] = "off"
    /\ session' = [session EXCEPT ![c] = "hello"]
    /\ UNCHANGED <<serverVars, req, asked, copy, crashes, history>>

\* verify_auth: the tenant exists and its key made the signature.
VerifyAuth(c) ==
    LET t == tenants[DomainOf[c]] IN t # None /\ t.key = DomainKeyOf[c]

Auth(c) ==
    /\ session[c] = "hello"
    /\ session' = [session EXCEPT ![c] = IF VerifyAuth(c) THEN "authed" ELSE "refused"]
    /\ UNCHANGED <<serverVars, req, asked, copy, crashes, history>>

\* verify_register: a known machine must come with its key.
MachineAccepted(c) ==
    LET t == tenants[DomainOf[c]]
    IN  t # None /\ t.machines[MachineOf[c]] \in {None, MachineKeyOf[c]}

\* A new machine's key is noted, under the same lock.
Register(c) ==
    LET d == DomainOf[c] IN
    /\ session[c] = "authed"
    /\ IF MachineAccepted(c)
       THEN /\ tenants' = [tenants EXCEPT ![d].machines[MachineOf[c]] = MachineKeyOf[c]]
            /\ session' = [session EXCEPT ![c] = "ready"]
       ELSE /\ session' = [session EXCEPT ![c] = "refused"]
            /\ UNCHANGED tenants
    /\ UNCHANGED <<disk, users, req, asked, copy, crashes, history>>

\* What the client and the server do, in turns, to connect.
Handshake(c) == Hello(c) \/ Auth(c) \/ Register(c)

\* The connection ends, and the client may connect again.
Disconnect(c) ==
    /\ session[c] # "off"
    /\ session' = [session EXCEPT ![c] = "off"]
    /\ UNCHANGED <<serverVars, req, asked, copy, crashes, history>>

-----------------------------------------------------------------------------

Persist(r) == DbRegister(r) \/ upsert_tenant(r) \/ PersistCopy(r) \/ PersistOpen(r) \/ PersistWrite(r)

Next ==
    \/ \E r \in Request, d \in Domain, k \in GivenKey :
          add_tenant(r, d, k) \/ set_tenant_key(r, d, k) \/ CliLoad(r, d, k)
    \/ \E r \in Request, d \in Domain : register_user(r, d)
    \/ \E r \in Request : Persist(r)
    \/ \E c \in Client : Handshake(c) \/ Disconnect(c)
    \/ Crash

Spec == Init /\ [][Next]_vars

-----------------------------------------------------------------------------
(* Properties *)

\* Two connected clients that give the same machine id of one domain have the same
\* machine key, whatever key updates, registrations, CLI runs and restarts come in
\* between: nobody is connected under the machine id of another.
OneKeyPerMachine ==
    \A c, e \in Client :
        (/\ session[c] = "ready" /\ session[e] = "ready"
         /\ DomainOf[c] = DomainOf[e] /\ MachineOf[c] = MachineOf[e])
        => MachineKeyOf[c] = MachineKeyOf[e]

\* A domain key that the control API reported as set is the key of the running
\* server, and still is after a restart, as long as no other request overlapped
\* and no CLI process wrote the file, and the server did not die while it wrote.
ReportedKeyLasts ==
    \A d \in Domain : safe[d] # None =>
        /\ tenants[d] # None /\ tenants[d].key = safe[d]
        /\ (\A r \in Request : ~ Writing(r)) => disk # Torn /\ disk[d] # None /\ disk[d].key = safe[d]

\* A tenant that has a key loses it, so that its clients are locked out, only in two
\* ways: an administrator's request for this very domain carries an unusable key, or a
\* user of that name registers, which does it at most once. Not by a handshake, by the
\* saving of another request, by the key a user sets or by a second registration. (A
\* restart may bring an older file back.)
LockedOutOnce ==
    [][\A d \in Domain :
          (HasKey(tenants[d]) /\ ~ HasKey(tenants'[d]) /\ crashes' = crashes)
          => \/ d \in users \ wiped
             \/ \E r \in Request :
                   /\ req[r] = "upsert" /\ req'[r] # "upsert"
                   /\ asked[r].domain = d /\ asked[r].by = "admin"]_vars
=============================================================================
