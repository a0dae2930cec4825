------------------------------ MODULE LabLoop ------------------------------
(***************************************************************************)
(* The lab manager of the Nublado controller                               *)
(* (src/src/nublado/controller/services/lab.py): LabManager, which keeps   *)
(* the in-memory state of every user's lab, and _LabMonitor, which runs at *)
(* most one operation (spawn or delete) per user in a background task.     *)
(*                                                                         *)
(* Everything runs on one asyncio event loop.  The loop is explicit: one   *)
(* task is `running' until it suspends; a task that can continue waits in  *)
(* the FIFO `ready'.  Each action of a task below is a piece of code       *)
(* between two places where control is worth naming; a task keeps the loop *)
(* from one action to the next unless the action suspends it.  Replies of  *)
(* Kubernetes, Slack and Kafka arrive only between two task steps.         *)
(***************************************************************************)
EXTENDS Naturals, Sequences, FiniteSets

CONSTANTS
    Users,       \* usernames
    Requests,    \* one-shot HTTP requests; each is one task
    Reaper,      \* the task running reap_spawners
    Reconciler,  \* the task running reconcile, first at startup, then timed
    OpIds,       \* identities of _RunningOperation objects (and their tasks)
    StateIds,    \* identities of LabState objects
    None,        \* Python's None
    InitialCluster, \* what earlier incarnations may have left in Kubernetes
    MaxFaults    \* bound on injected failures: API errors, evictions, crashes

Callers == Requests \cup {Reaper, Reconciler}
Tasks == Callers \cup OpIds

ASSUME ConstantsAssumption ==
    /\ Reaper # Reconciler
    /\ Reaper \notin Requests /\ Reconciler \notin Requests
    /\ Callers \cap OpIds = {}
    /\ None \notin Users \cup Callers \cup OpIds \cup StateIds \cup {"cancelled"}
    /\ InitialCluster \subseteq {"absent", "partial", "Pending", "Running",
                                 "Succeeded", "Failed", "Unknown"}
    /\ MaxFaults \in Nat

VARIABLES
    running,   \* the task that has the event loop, or None
    ready,     \* tasks scheduled to run, in the order asyncio will run them
    pc,        \* where each caller is
    loc,       \* each caller's local variables
    known,     \* keys of LabManager._labs
    labState,  \* _State.state of each user: a LabState or None
    status,    \* LabState.status of each LabState object
    touched,   \* whether last_modified is after the start of the current pass
    op,        \* _LabMonitor._operation of each user
    lock,      \* _LabMonitor._lock of each user: its owner, then its waiters
    ops,       \* the operation objects and the tasks that run them
    doneEvent, \* LabManager._spawner_done
    sweep,     \* locals of reap_spawners: users left, and _labs at the start
    pass,      \* locals of reconcile: users left, observed statuses
    serving,   \* whether startup is over and HTTP requests are accepted
    k8s,       \* each user's namespace and lab pod in Kubernetes
    stray,     \* call whose sender no longer waits but that may still land
    faults     \* failures injected so far

loop == <<running, ready>>
labs == <<known, labState, status, touched>>
env  == <<k8s, stray, faults>>
vars == <<loop, pc, loc, labs, op, lock, ops, doneEvent, sweep, pass, serving, env>>

-----------------------------------------------------------------------------
(* Data *)

Phases == {"Pending", "Running", "Succeeded", "Failed", "Unknown"}

\* A namespace is absent, lacks its pod or config map (partial), or is
\* complete with a pod in some phase.
ClusterStates == {"absent", "partial"} \cup Phases

Statuses == {"PENDING", "RUNNING", "TERMINATING", "TERMINATED", "FAILED"}

\* LabStatus.from_phase
FromPhase == [p \in Phases |-> CASE p = "Pending" -> "PENDING"
                                 [] p = "Running" -> "RUNNING"
                                 [] p \in {"Succeeded", "Failed"} -> "TERMINATED"
                                 [] p = "Unknown" -> "FAILED"]

\* LabState.is_running
IsRunning(s) == status[s] \notin {"TERMINATED", "FAILED"}

\* read_pod_phase: None when the pod is missing
PodPhase(k) == IF k \in Phases THEN k ELSE None

\* read_lab_objects and recreate_lab_state: None for an incomplete lab
ObservedStatus(k) == IF k \in Phases THEN FromPhase[k] ELSE None

\* An operation is a full spawn, a spawn that only watches a pod found pending
\* during reconciliation, or a delete; the code calls the first two SPAWN.
Kinds == {"SPAWN", "WATCH", "DELETE"}
IsSpawn(o) == ops[o].kind \in {"SPAWN", "WATCH"}

\* Awaits of _monitor_operation and the coroutine it wraps.
Mutating == {"delPod", "delNs", "mkNs", "mkPod"}
Awaits == Mutating \cup {"secrets", "podStart", "unwatch", "unwatchErr", "publish",
                       "report", "publishFail"}
OpPcs == Awaits \cup {"created", "done"}

IdleOp == [user |-> None, kind |-> "DELETE", st |-> None, first |-> FALSE,
           pc |-> "done", cancel |-> FALSE, reply |-> None,
           result |-> "ok", complete |-> FALSE, waiters |-> <<>>]

Idle == [user |-> None, role |-> None, st |-> None, op |-> None,
         first |-> FALSE, val |-> None, res |-> None]

Live(o) == ops[o].pc # "done"

\* Objects no variable refers to; Python would have collected them.
FreeOps == {o \in OpIds : /\ ~Live(o)
                          /\ \A u \in Users : op[u] # o
                          /\ \A c \in Callers : loc[c].op # o}
FreeStates == {s \in StateIds : /\ \A u \in Users : labState[u] # s
                                /\ \A c \in Callers : loc[c].st # s
                                /\ \A o \in OpIds : ops[o].st # s}

-----------------------------------------------------------------------------
(* The event loop and asyncio.Lock *)

Scheduled(t) == \E i \in DOMAIN ready : ready[i] = t

At(c, l) == running = c /\ pc[c] = l
Goto(c, l) == pc' = [pc EXCEPT ![c] = l]
Continue == UNCHANGED loop
Suspend == running' = None /\ UNCHANGED ready

\* The loop takes the next scheduled task.
Dispatch ==
    /\ running = None /\ ready # <<>>
    /\ running' = Head(ready)
    /\ ready' = Tail(ready)
    /\ UNCHANGED <<pc, loc, labs, op, lock, ops, doneEvent, sweep, pass, serving, env>>

\* `async with lock': continue if it is free, else queue.  asyncio.Lock hands
\* over in FIFO order and a newcomer never overtakes a waiter, so the owner is
\* the head of the queue from the moment the previous owner releases.
Acquire(c, u) ==
    /\ lock' = [lock EXCEPT ![u] = Append(@, c)]
    /\ running' = IF lock[u] = <<>> THEN c ELSE None
    /\ UNCHANGED ready

Release(u) == lock' = [lock EXCEPT ![u] = Tail(@)]

\* The waiter woken by a release.
Granted(u) == IF Len(lock[u]) > 1 THEN <<lock[u][2]>> ELSE <<>>

\* A caller's API method ends with res.  A request is over.  The reconciler
\* ignores UnknownUserError from delete_lab and lets any other exception end
\* the pass; an exception during startup ends the process; CancelledError is
\* not an Exception and would end the background loop for good.
Return(c, res) ==
    /\ loc' = [loc EXCEPT ![c] = [Idle EXCEPT !.res = res]]
    /\ IF c # Reconciler THEN Goto(c, "over") /\ running' = None
       ELSE IF res \in {"ok", "unknown"} THEN Goto(c, "gc") /\ running' = c
       ELSE /\ Goto(c, IF res = "cancelled" THEN "dead"
                       ELSE IF serving THEN "timer" ELSE "bootFailed")
            /\ running' = None
=============================================================================
