------------------------------ MODULE Supervisor ------------------------------
(***************************************************************************)
(* ygg-admin (nsmt-admin/src/main.rs): the loop that starts ygg, waits for *)
(* its end and starts it again, and the handler of POST /api/restart, with *)
(* ygg's own end of that request (admin_restart in                         *)
(* nsmt-server/src/admin.rs).                                              *)
(*                                                                         *)
(* The handler reads the pid under the lock, lets the lock go, asks the    *)
(* control API, and kills the pid if nobody answers. By then ygg may have  *)
(* crashed and have been replaced, so that the answer comes from another   *)
(* process than the one whose pid was read. Process ids are taken as never *)
(* used twice: pid N is the N-th ygg.                                      *)
(***************************************************************************)
EXTENDS Naturals

CONSTANTS
    Request,      \* the restart requests
    MaxCrashes,   \* bound: how often ygg ends on its own account
    MaxFailures,  \* bound: how often ygg cannot be spawned (binary missing)
    MaxPid,       \* bound: number of ygg processes, enough for all of the above
    NoPid         \* None

ASSUME SupervisorAssumption ==
    /\ MaxCrashes \in Nat
    /\ MaxFailures \in Nat
    /\ MaxPid \in Nat \ {0}
    /\ NoPid \notin 1 .. MaxPid

VARIABLES
    tokenAgrees,  \* ygg and ygg-admin were started with the same admin token
    ygg,          \* pid -> what the process is doing
    exit3,        \* pids that ended with exit code 3
    spawned,      \* number of processes started so far
    failures,     \* number of failed spawns so far
    crashes,      \* number of crashes so far
    loop,         \* where the supervising task is
    pid,          \* YggProcess.pid (child is Some exactly when pid is)
    code,         \* what wait_child returned: 3 or something else
    backoff_ms,   \* YggProcess.backoff_ms
    restarts,     \* YggProcess.restarts
    req,          \* request -> where its handler is
    seen          \* request -> the pid its handler read

processes == <<ygg, exit3, spawned, failures, crashes>>
supervisor == <<loop, pid, code, backoff_ms, restarts>>
requests == <<req, seen>>
supVars == <<tokenAgrees, processes, supervisor, requests>>

Pid == 1 .. MaxPid
Alive == {p \in Pid : ygg[p] \in {"starting", "up", "exiting"}}

SupTypeOK ==
    /\ tokenAgrees \in BOOLEAN
    /\ ygg \in [Pid -> {"none", "starting", "up", "exiting", "zombie"}]
    /\ exit3 \subseteq Pid
    /\ spawned \in 0 .. MaxPid
    /\ failures \in 0 .. MaxFailures
    /\ crashes \in 0 .. MaxCrashes
    /\ loop \in {"top", "retry", "wait", "note", "sleep"}
    /\ pid \in Pid \cup {NoPid}
    /\ code \in {0, 3}
    /\ backoff_ms \in 0 .. 10000
    /\ restarts \in 0 .. spawned
    /\ req \in [Request -> {"new", "post", "kill", "poll", "ok", "error"}]
    /\ seen \in [Request -> Pid \cup {NoPid}]

SupInit ==
    /\ tokenAgrees \in BOOLEAN
    /\ ygg = [p \in Pid |-> "none"]
    /\ exit3 = {}
    /\ spawned = 0 /\ failures = 0 /\ crashes = 0
    /\ loop = "top"
    /\ pid = NoPid
    /\ code = 0
    /\ backoff_ms = 0
    /\ restarts = 0
    /\ req = [r \in Request |-> "new"]
    /\ seen = [r \in Request |-> NoPid]

-----------------------------------------------------------------------------
(* The supervising task. *)

\* spawn_ygg: the child is recorded and the backoff starts over.
Spawn ==
    /\ loop = "top" /\ pid = NoPid
    /\ spawned < MaxPid
    /\ spawned' = spawned + 1
    /\ ygg' = [ygg EXCEPT ![spawned + 1] = "starting"]
    /\ pid' = spawned + 1
    /\ backoff_ms' = 0
    /\ loop' = "wait"
    /\ UNCHANGED <<tokenAgrees, exit3, failures, crashes, code, restarts, requests>>

\* The spawn fails: two seconds later the loop starts over.
SpawnFails ==
    /\ loop = "top" /\ pid = NoPid
    /\ failures < MaxFailures
    /\ failures' = failures + 1
    /\ loop' = "retry"
    /\ UNCHANGED <<tokenAgrees, ygg, exit3, spawned, crashes, pid, code, backoff_ms, restarts, requests>>

\* A mutant: any answer of try_wait is taken for the end of the child.
WaitAnyAnswer ==
    /\ loop = "wait"
    /\ ygg' = [ygg EXCEPT ![pid] = IF @ = "zombie" THEN "none" ELSE @]
    /\ code' = IF pid \in exit3 THEN 3 ELSE 0
    /\ pid' = NoPid
    /\ loop' = "note"
    /\ UNCHANGED <<tokenAgrees, exit3, spawned, failures, crashes, backoff_ms, restarts, requests>>

\* wait_child: try_wait reaps the child once it has ended. (It cannot fail for
\* a child that nobody else waits for.)
WaitChild ==
    /\ loop = "wait"
    /\ ygg[pid] = "zombie"
    /\ ygg' = [ygg EXCEPT ![pid] = "none"]
    /\ code' = IF pid \in exit3 THEN 3 ELSE 0
    /\ pid' = NoPid
    /\ loop' = "note"
    /\ UNCHANGED <<tokenAgrees, exit3, spawned, failures, crashes, backoff_ms, restarts, requests>>

\* try_wait finds the child alive, and wait_child looks again 500 ms later.
PollChild ==
    /\ loop = "wait"
    /\ pid \in Alive
    /\ UNCHANGED supVars

\* The end is counted, and the backoff is reset or doubled.
NoteExit ==
    /\ loop = "note"
    /\ pid' = NoPid
    /\ restarts' = restarts + 1
    /\ backoff_ms' = IF code = 3 THEN 0
                     ELSE IF 2 * backoff_ms > 10000 THEN 10000 ELSE 2 * backoff_ms
    /\ loop' = "sleep"
    /\ UNCHANGED <<tokenAgrees, processes, code, requests>>

\* The sleep of max(backoff_ms, 500) ms, or of two seconds, is over.
Wake ==
    /\ loop \in {"sleep", "retry"}
    /\ loop' = "top"
    /\ UNCHANGED <<tokenAgrees, processes, pid, code, backoff_ms, restarts, requests>>

-----------------------------------------------------------------------------
(* ygg. *)

\* A mutant: the address of the control API is never free again.
ListenOnce(p) ==
    /\ ygg[p] = "starting"
    /\ p = 1
    /\ ygg' = [ygg EXCEPT ![p] = "up"]
    /\ UNCHANGED <<tokenAgrees, exit3, spawned, failures, crashes, supervisor, requests>>

\* The control API listens.
Listen(p) ==
    /\ ygg[p] = "starting"
    /\ ygg' = [ygg EXCEPT ![p] = "up"]
    /\ UNCHANGED <<tokenAgrees, exit3, spawned, failures, crashes, supervisor, requests>>

\* The task that admin_restart left behind ends the process with code 3.
Exit3(p) ==
    /\ ygg[p] = "exiting"
    /\ ygg' = [ygg EXCEPT ![p] = "zombie"]
    /\ exit3' = exit3 \cup {p}
    /\ UNCHANGED <<tokenAgrees, spawned, failures, crashes, supervisor, requests>>

\* ygg ends on its own account, with any other code.
YggCrash(p) ==
    /\ p \in Alive
    /\ crashes < MaxCrashes
    /\ crashes' = crashes + 1
    /\ ygg' = [ygg EXCEPT ![p] = "zombie"]
    /\ UNCHANGED <<tokenAgrees, exit3, spawned, failures, supervisor, requests>>

-----------------------------------------------------------------------------
(* POST /api/restart. *)

\* The handler reads the pid; without one it answers "ygg not running".
ApiRestart(r) ==
    /\ req[r] = "new"
    /\ seen' = [seen EXCEPT ![r] = pid]
    /\ req' = [req EXCEPT ![r] = IF pid = NoPid THEN "error" ELSE "post"]
    /\ UNCHANGED <<tokenAgrees, processes, supervisor>>

\* A mutant: the request is acknowledged, and no exit is scheduled.
ControlForgets(r) ==
    /\ req[r] = "post"
    /\ \E p \in Pid : ygg[p] \in {"up", "exiting"}
    /\ req' = [req EXCEPT ![r] = "ok"]
    /\ UNCHANGED <<tokenAgrees, processes, supervisor, seen>>

\* The ygg that listens now, whichever it is, answers and will exit with code 3,
\* or refuses because of the token; the handler reports success either way.
ControlAnswers(r) ==
    /\ req[r] = "post"
    /\ \E p \in Pid :
         /\ ygg[p] \in {"up", "exiting"}
         /\ ygg' = IF tokenAgrees THEN [ygg EXCEPT ![p] = "exiting"] ELSE ygg
    /\ req' = [req EXCEPT ![r] = "ok"]
    /\ UNCHANGED <<tokenAgrees, exit3, spawned, failures, crashes, supervisor, seen>>

\* Nobody listens, or ygg ends before it answers.
ControlFails(r) ==
    /\ req[r] = "post"
    /\ \A p \in Pid : ygg[p] \notin {"up", "exiting"}
    /\ req' = [req EXCEPT ![r] = "kill"]
    /\ UNCHANGED <<tokenAgrees, processes, supervisor, seen>>

\* terminate: SIGTERM ends the process, if it is still there.
Terminate(r) ==
    /\ req[r] = "kill"
    /\ ygg' = IF seen[r] \in Alive THEN [ygg EXCEPT ![seen[r]] = "zombie"] ELSE ygg
    /\ req' = [req EXCEPT ![r] = "poll"]
    /\ UNCHANGED <<tokenAgrees, exit3, spawned, failures, crashes, supervisor, seen>>

\* kill -0 fails once the supervising task has reaped the child, or SIGKILL is
\* sent to what is no more than a zombie; then the handler reports success.
Terminated(r) ==
    /\ req[r] = "poll"
    /\ req' = [req EXCEPT ![r] = "ok"]
    /\ UNCHANGED <<tokenAgrees, processes, supervisor, seen>>

-----------------------------------------------------------------------------

Supervise == Spawn \/ SpawnFails \/ WaitChild \/ PollChild \/ NoteExit \/ Wake

Serve(r) ==
    ControlAnswers(r) \/ ControlFails(r) \/ Terminate(r) \/ Terminated(r)

SupNext ==
    \/ Supervise
    \/ \E p \in Pid : Listen(p) \/ Exit3(p) \/ YggCrash(p)
    \/ \E r \in Request : ApiRestart(r) \/ Serve(r)

SupSpec == SupInit /\ [][SupNext]_supVars

\* Tasks and processes are scheduled; requests and crashes need not happen.
FairSpec ==
    /\ SupSpec
    /\ WF_supVars(Supervise)
    /\ \A p \in Pid : WF_supVars(Listen(p)) /\ WF_supVars(Exit3(p))
    /\ \A r \in Request : WF_supVars(Serve(r))

-----------------------------------------------------------------------------
(* Properties. *)

\* Every ygg process, alive or a zombie, is the one the supervisor has recorded:
\* there are never two servers on one data directory, and none that nobody will
\* ever reap.
OneYgg ==
    \A p \in Pid : ygg[p] # "none" => pid = p /\ loop = "wait"

\* A restart that was reported as done gets rid of the process whose pid it
\* names, however the request raced with a crash, a start or another request,
\* as long as both programs know the same token.
RestartEnds ==
    \A r \in Request :
        (tokenAgrees /\ req[r] = "ok") ~> (seen[r] \in Pid /\ ygg[seen[r]] = "none")

\* Whatever ends ygg, and however often, it comes back and listens again.
ComesBack == []<>(\E p \in Pid : ygg[p] = "up")
=============================================================================
