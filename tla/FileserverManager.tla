------------------------- MODULE FileserverManager -------------------------
(***************************************************************************)
(* The file server manager of the Nublado controller                       *)
(* (src/src/nublado/controller/services/fileserver.py) with its storage    *)
(* layer (storage/kubernetes/fileserver.py).  Requests create and delete   *)
(* the file server of a user, reconcile compares memory with Kubernetes,   *)
(* and watch_servers deletes file servers whose pod has exited.  A lock in *)
(* each user's _State serializes operations, but _State objects come and   *)
(* go, and reconcile acts without the lock on users it does not know.      *)
(*                                                                         *)
(* The event loop is explicit: `running' has it until it suspends, `ready' *)
(* is the FIFO of tasks that can continue.  A caller suspended at a call   *)
(* of another service continues once that has put a reply in its locals.   *)
(***************************************************************************)
EXTENDS Naturals, Sequences

CONSTANTS
    Users,       \* usernames
    Requests,    \* one-shot HTTP requests; each is one task
    Reconciler,  \* the task running reconcile, first at startup, then timed
    Watcher,     \* the task running watch_servers
    StateIds,    \* identities of _State objects
    None,        \* Python's None
    InitialObjects, \* what earlier incarnations may have left in Kubernetes
    JobRetries,  \* whether a Job starts another pod when its pod has failed
    MaxBatch,    \* bound on the replies that one look of the loop can find
    MaxFaults    \* bound on injected failures: API errors, lost pods, crashes

Callers == Requests \cup {Reconciler, Watcher}

\* A user's ingress is missing, without IP address, or ready.  The Job is
\* missing, its pod is missing or has not started, runs, or has exited, or it
\* has several pods.
Objects == [ingress : {"none", "waiting", "ready"},
            job : {"none", "pending", "running", "exited", "duplicate"}]
NoObjects == [ingress |-> "none", job |-> "none"]

ASSUME FileserverConstants ==
    /\ Reconciler # Watcher
    /\ Reconciler \notin Requests /\ Watcher \notin Requests
    /\ None \notin Users \cup Callers \cup StateIds
    /\ InitialObjects \subseteq Objects
    /\ JobRetries \in BOOLEAN
    /\ MaxBatch \in Nat \ {0} /\ MaxFaults \in Nat

VARIABLES
    running,  \* the task that has the event loop, or None
    ready,    \* tasks scheduled to run, in the order asyncio will run them
    pc,       \* where each caller is
    loc,      \* each caller's local variables
    servers,  \* FileserverManager._servers: the _State of each user, or None
    state,    \* the fields of each _State object; `touched' is whether
              \* last_modified is after the start of the current pass
    lock,     \* _State.lock of each object: its owner, then its waiters
    pass,     \* locals of reconcile
    serving,  \* whether startup is over and HTTP requests are accepted
    k8s,      \* each user's objects in Kubernetes
    notices,  \* users with an undelivered event of a pod in a terminal phase
    faults    \* failures injected so far

loop == <<running, ready>>
memory == <<servers, state>>
env  == <<k8s, notices, faults>>
vars == <<loop, pc, loc, memory, lock, pass, serving, env>>

-----------------------------------------------------------------------------
(* Data *)

\* Whether a modification now is one since the start of the current pass; what
\* happens between two passes is before the start of the next one.
InPass == pc[Reconciler] # "timer"

\* A _State, new or settled by the end of an operation.
NewState(isRunning) == [running |-> isRunning, inProgress |-> FALSE, touched |-> InPass]
Started(s) == [state EXCEPT ![s].inProgress = TRUE, ![s].touched = InPass]

Idle == [user |-> None, st |-> None, kind |-> None, reply |-> None]

\* What reconcile gathers: jobs still to look at, the variable `pod' of
\* read_fileserver_state, the users seen, and then the three sets to delete.
NoPass == [todo |-> {}, pod |-> None, valid |-> {}, invalid |-> {},
           broken |-> {}, unexpected |-> {}, missing |-> {}]

\* is_valid: the pod is running and the ingress has an IP address.
IsValid(k) == k.job = "running" /\ k.ingress = "ready"

\* _State.modified_since the start of the current pass
ModifiedSince(s) == state[s].inProgress \/ state[s].touched

FreeStates == {s \in StateIds : /\ \A u \in Users : servers[u] # s
                                /\ \A c \in Callers : loc[c].st # s}

Fault == faults < MaxFaults /\ faults' = faults + 1

-----------------------------------------------------------------------------
(* The event loop and asyncio.Lock *)

Scheduled(c) == \E i \in DOMAIN ready : ready[i] = c

At(c, l) == running = c /\ pc[c] = l
Replied(c, l, r) == At(c, l) /\ loc[c].reply = r
Goto(c, l) == pc' = [pc EXCEPT ![c] = l]
Continue == UNCHANGED loop
Suspend == running' = None /\ UNCHANGED ready

\* Suspend at a call of another service.
Await(c, l) ==
    /\ Goto(c, l) /\ Suspend
    /\ loc' = [loc EXCEPT ![c].reply = None]

\* The loop looks for replies, timers and new requests; it can find MaxBatch
\* of them before the first one's task runs.
Poll == running = None /\ Len(ready) < MaxBatch

\* The loop takes the next scheduled task.
Dispatch ==
    /\ running = None /\ ready # <<>>
    /\ running' = Head(ready)
    /\ ready' = Tail(ready)
    /\ UNCHANGED <<pc, loc, memory, lock, pass, serving, env>>

\* `async with state.lock': FIFO, and a newcomer never overtakes a waiter.
Acquire(c, s) ==
    /\ lock' = [lock EXCEPT ![s] = Append(@, c)]
    /\ running' = IF lock[s] = <<>> THEN c ELSE None
    /\ UNCHANGED ready

\* Release the lock and, with s = None, nothing.
Release(s) == lock' = IF s = None THEN lock ELSE [lock EXCEPT ![s] = Tail(@)]
Granted(s) == IF s # None /\ Len(lock[s]) > 1 THEN <<lock[s][2]>> ELSE <<>>

-----------------------------------------------------------------------------
(* How create, delete and the removals of reconcile end *)

\* A request is over.  reconcile and watch_servers ignore UnknownUserError;
\* any other exception ends the pass, or startup, or is reported by the watcher,
\* whose events are lost then.
AfterCall(c, res) ==
    IF c \in Requests THEN "over"
    ELSE IF c = Watcher THEN IF res = "failed" THEN "watchReport" ELSE "watching"
    ELSE IF res # "failed" THEN "purge"
    ELSE IF serving THEN "timer" ELSE "bootFailed"

\* Leave the lock of _State s, or no lock if s is None, with a result.
Return(c, s, res) ==
    /\ Goto(c, AfterCall(c, res))
    /\ loc' = [loc EXCEPT ![c] = Idle]
    /\ Release(s)
    /\ running' = IF AfterCall(c, res) = "purge" THEN c ELSE None
    /\ ready' = ready \o Granted(s)
    /\ notices' = IF AfterCall(c, res) = "watchReport" THEN {} ELSE notices
    /\ UNCHANGED <<servers, pass, serving, k8s, faults>>

\* The finally clauses of create and delete.
\* Mutant: they leave in_progress alone.
SettleUnfinished(s, isRunning) ==
    state' = IF s = None THEN state
             ELSE [state EXCEPT ![s].running = isRunning, ![s].touched = InPass]
Settle(s, isRunning) ==
    state' = IF s = None THEN state
             ELSE [state EXCEPT ![s] = NewState(isRunning)]

-----------------------------------------------------------------------------
(* FileserverManager.create and FileserverStorage.create *)

\* The route under /files; a user without _State gets one.
CreateBegin(r) ==
    LET u == loc[r].user IN
    /\ At(r, "create")
    /\ \E s \in StateIds :
          /\ IF servers[u] = None
               THEN /\ FreeStates # {} /\ s = CHOOSE t \in FreeStates : TRUE
                    /\ servers' = [servers EXCEPT ![u] = s]
                    /\ state' = [state EXCEPT ![s] = NewState(FALSE)]
               ELSE s = servers[u] /\ UNCHANGED memory
          /\ loc' = [loc EXCEPT ![r].st = s]
          /\ Acquire(r, s)
    /\ Goto(r, "createLocked")
    /\ UNCHANGED <<pass, serving, env>>

CreateLocked(r) ==
    LET s == loc[r].st IN
    /\ At(r, "createLocked")
    /\ \/ state[s].running /\ Return(r, s, "ok") /\ UNCHANGED state
       \/ /\ ~state[s].running
          /\ state' = Started(s)
          /\ Await(r, "mkIngress")
          /\ UNCHANGED <<servers, lock, pass, serving, env>>

\* The awaits of FileserverStorage.create, in order: create the ingress and
\* then the job, wait for the IP address, for a pod, and for it to start.
CreateAwaits == <<"mkIngress", "mkJob", "waitIngress", "waitPod", "waitStart">>

CreateNext(r) ==
    /\ \E i \in 1..4 : /\ Replied(r, CreateAwaits[i], "ok")
                       /\ Await(r, CreateAwaits[i + 1])
    /\ UNCHANGED <<memory, lock, pass, serving, env>>

CreateEnd(r) ==
    /\ Replied(r, "waitStart", "ok")
    /\ Settle(loc[r].st, TRUE) /\ Return(r, loc[r].st, "ok")

\* An exception is reported first, then the objects are removed again.
CreateFails(r) ==
    /\ \E i \in 1..5 : Replied(r, CreateAwaits[i], "error")
    /\ Await(r, "createReport")
    /\ UNCHANGED <<memory, lock, pass, serving, env>>

CreateCleanUp(r) ==
    /\ Replied(r, "createReport", "ok")
    /\ Await(r, "rmIngress")
    /\ UNCHANGED <<memory, lock, pass, serving, env>>

CreateStep(r) == CreateBegin(r) \/ CreateLocked(r) \/ CreateNext(r) \/ CreateEnd(r)
                   \/ CreateFails(r) \/ CreateCleanUp(r)

-----------------------------------------------------------------------------
(* FileserverManager.delete and FileserverStorage.delete *)

\* Called by the admin route, the reconciler and the watcher.
DeleteBegin(c) ==
    LET s == servers[loc[c].user] IN
    /\ At(c, "delete")
    /\ \/ s = None /\ Return(c, None, "unknown")
       \/ /\ s # None
          /\ loc' = [loc EXCEPT ![c].st = s]
          /\ Goto(c, "deleteLocked") /\ Acquire(c, s)
          /\ UNCHANGED <<servers, pass, serving, env>>
    /\ UNCHANGED state

DeleteLocked(c) ==
    LET s == loc[c].st IN
    /\ At(c, "deleteLocked")
    /\ \/ ~state[s].running /\ Return(c, s, "unknown") /\ UNCHANGED state
       \/ /\ state[s].running
          /\ state' = Started(s)
          /\ Await(c, "rmIngress")
          /\ UNCHANGED <<servers, lock, pass, serving, env>>

RemoveNext(c) ==
    /\ Replied(c, "rmIngress", "ok")
    /\ Await(c, "rmJob")
    /\ UNCHANGED <<memory, lock, pass, serving, env>>

\* The objects are gone.  The cleanup of a create ends in its exception.
RemoveEnd(c) ==
    /\ Replied(c, "rmJob", "ok")
    /\ Settle(loc[c].st, FALSE)
    /\ Return(c, loc[c].st, IF loc[c].kind = "create" THEN "failed" ELSE "ok")

\* _delete_file_server reports an exception and raises it again; `running'
\* keeps its value.  The removal that reconcile does without lock just raises.
RemoveFails(c) ==
    /\ \E l \in {"rmIngress", "rmJob"} : Replied(c, l, "error")
    /\ IF loc[c].st = None THEN Return(c, None, "failed") /\ UNCHANGED state
       ELSE /\ Await(c, "rmReport")
            /\ UNCHANGED <<memory, lock, pass, serving, env>>

RemoveReported(c) ==
    /\ Replied(c, "rmReport", "ok")
    /\ Settle(loc[c].st, state[loc[c].st].running)
    /\ Return(c, loc[c].st, "failed")

DeleteStep(c) == DeleteBegin(c) \/ DeleteLocked(c) \/ RemoveNext(c) \/ RemoveEnd(c)
                   \/ RemoveFails(c) \/ RemoveReported(c)

-----------------------------------------------------------------------------
(* reconcile and FileserverStorage.read_fileserver_state *)

\* BackgroundTaskManager._loop: the interval has passed.
Timer ==
    /\ Poll /\ pc[Reconciler] = "timer" /\ ~Scheduled(Reconciler)
    /\ Goto(Reconciler, "begin")
    /\ ready' = Append(ready, Reconciler)
    /\ UNCHANGED <<running, loc, memory, lock, pass, serving, env>>

ReconcileBegin ==
    /\ At(Reconciler, "begin")
    /\ state' = [s \in StateIds |-> [state[s] EXCEPT !.touched = FALSE]]
    /\ pass' = NoPass
    /\ Await(Reconciler, "list")
    /\ UNCHANGED <<servers, lock, serving, env>>

\* An exception in a read ends the pass, or startup.
ReadFails ==
    /\ \E l \in {"list", "readPod", "readIngress"} : Replied(Reconciler, l, "error")
    /\ Return(Reconciler, None, "failed")
    /\ UNCHANGED state

ReconcileListed ==
    /\ Replied(Reconciler, "list", "ok")
    /\ Goto(Reconciler, "read") /\ Continue
    /\ UNCHANGED <<loc, memory, lock, pass, serving, env>>

\* The next job: list its pods.
ReadNext ==
    /\ At(Reconciler, "read")
    /\ \E u \in pass.todo :
          /\ pass' = [pass EXCEPT !.todo = @ \ {u}]
          /\ loc' = [loc EXCEPT ![Reconciler].user = u, ![Reconciler].reply = None]
    /\ Goto(Reconciler, "readPod") /\ Suspend
    /\ UNCHANGED <<memory, lock, serving, env>>

\* DuplicateObjectError is logged, and `pod' keeps what the previous user's job
\* left in it; for the first job it is unbound and the next use of it raises.
\* Mutant: it is taken for a pod.
PodFound(found) == found
PodAfter(found) == IF found = "duplicate" THEN pass.pod ELSE found

ReadPod ==
    LET found == loc[Reconciler].reply IN
    /\ At(Reconciler, "readPod") /\ found # "error"
    /\ pass' = [pass EXCEPT !.pod = PodAfter(found)]
    /\ Await(Reconciler, "readIngress")
    /\ UNCHANGED <<memory, lock, serving, env>>

ReadIngress ==
    LET u == loc[Reconciler].user
        k == [job |-> pass.pod, ingress |-> loc[Reconciler].reply] IN
    /\ At(Reconciler, "readIngress") /\ loc[Reconciler].reply # "error"
    /\ IF pass.pod = None
         THEN Return(Reconciler, None, "failed")
         ELSE /\ pass' = IF IsValid(k) THEN [pass EXCEPT !.valid = @ \cup {u}]
                                       ELSE [pass EXCEPT !.invalid = @ \cup {u}]
              /\ Goto(Reconciler, "read") /\ Continue
              /\ UNCHANGED <<loc, servers, lock, serving, env>>
    /\ UNCHANGED state

\* A free _State object for each of some users.
NewStates(us) == {f \in [us -> FreeStates] : \A u, v \in us : f[u] = f[v] => u = v}

KnownUsers == {u \in Users : servers[u] # None /\ state[servers[u]].running}

\* Valid file servers that are not known get a new _State, even if there is one
\* that is not running; the others are sorted into the sets to delete.
ReconcileSync ==
    LET adopted == pass.valid \ KnownUsers
        broken == {u \in pass.invalid : servers[u] # None} IN
    /\ At(Reconciler, "read") /\ pass.todo = {}
    /\ NewStates(adopted) # {}
    /\ LET fresh == CHOOSE f \in NewStates(adopted) : TRUE IN
       /\ servers' = [u \in Users |-> IF u \in adopted THEN fresh[u] ELSE servers[u]]
       /\ state' = [s \in StateIds |-> IF \E u \in adopted : fresh[u] = s
                                       THEN NewState(TRUE) ELSE state[s]]
    /\ pass' = [NoPass EXCEPT !.broken = broken,
                              !.unexpected = pass.invalid \ broken,
                              !.missing = KnownUsers \ (pass.valid \cup (pass.invalid \ broken))]
    /\ Goto(Reconciler, "purge") /\ Continue
    /\ UNCHANGED <<loc, lock, serving, env>>

\* _delete_invalid_servers and _delete_missing_servers leave a file server
\* alone that was modified since the pass began.
PurgeKnown(set) ==
    \E u \in pass[set] :
       /\ pass' = [pass EXCEPT ![set] = @ \ {u}]
       /\ IF servers[u] # None /\ ModifiedSince(servers[u])
            THEN UNCHANGED <<pc, loc>>
            ELSE /\ Goto(Reconciler, "delete")
                 /\ loc' = [loc EXCEPT ![Reconciler] = [Idle EXCEPT !.user = u]]
       /\ Continue

\* _delete_unexpected_servers calls the storage layer directly, without lock.
PurgeUnexpected ==
    \E u \in pass.unexpected :
       /\ pass' = [pass EXCEPT !.unexpected = @ \ {u}]
       /\ IF servers[u] # None THEN Continue /\ UNCHANGED <<pc, loc>>
          ELSE /\ Goto(Reconciler, "rmIngress") /\ Suspend
               /\ loc' = [loc EXCEPT ![Reconciler] = [Idle EXCEPT !.user = u]]

PurgeNext ==
    /\ At(Reconciler, "purge")
    /\ \/ PurgeKnown("broken")
       \/ pass.broken = {} /\ PurgeUnexpected
       \/ pass.broken = {} /\ pass.unexpected = {} /\ PurgeKnown("missing")
    /\ UNCHANGED <<memory, lock, serving, env>>

\* The pass is over.  The first one runs before the watcher and requests.
ReconcileEnd ==
    /\ At(Reconciler, "purge")
    /\ pass.broken = {} /\ pass.unexpected = {} /\ pass.missing = {}
    /\ pass' = NoPass
    /\ pc' = [pc EXCEPT ![Reconciler] = "timer",
                        ![Watcher] = IF serving THEN @ ELSE "watching"]
    /\ loc' = [loc EXCEPT ![Reconciler] = Idle]
    /\ serving' = TRUE
    /\ Suspend
    /\ UNCHANGED <<memory, lock, env>>

ReconcileStep == ReconcileBegin \/ ReadFails \/ ReconcileListed \/ ReadNext \/ ReadPod
                   \/ ReadIngress \/ ReconcileSync \/ PurgeNext \/ ReconcileEnd

-----------------------------------------------------------------------------
(* watch_servers *)

\* The stream yields the event of a pod that has exited.
WatchNotice(u) ==
    /\ Poll /\ pc[Watcher] = "watching" /\ u \in notices
    /\ notices' = notices \ {u}
    /\ loc' = [loc EXCEPT ![Watcher] = [Idle EXCEPT !.user = u]]
    /\ Goto(Watcher, "delete")
    /\ ready' = Append(ready, Watcher)
    /\ UNCHANGED <<running, memory, lock, pass, serving, k8s, faults>>

\* The watch raises an error; what it had not delivered is lost.
WatchFails ==
    /\ Poll /\ pc[Watcher] = "watching" /\ Fault
    /\ notices' = {}
    /\ loc' = [loc EXCEPT ![Watcher] = Idle]
    /\ Goto(Watcher, "watchReport")
    /\ UNCHANGED <<loop, memory, lock, pass, serving, k8s>>

\* The error is reported, and after a second the watch begins anew.
WatchResumes ==
    /\ At(Watcher, "watchReport")
    /\ Goto(Watcher, "watching") /\ Suspend
    /\ loc' = [loc EXCEPT ![Watcher] = Idle]
    /\ UNCHANGED <<memory, lock, pass, serving, env>>

-----------------------------------------------------------------------------
(* Kubernetes and the reporting services *)

\* A change to a terminal phase is seen while the watch is open, unless
\* KubernetesWatcher restarts it meanwhile and misses the change.
Notify(u) == \/ UNCHANGED notices
             \/ /\ pc[Watcher] \notin {"off", "watchReport"}
                /\ notices' = notices \cup {u}

\* What a call that changes something does.
Effect(call, k) == CASE call = "mkIngress" -> [k EXCEPT !.ingress = "waiting"]
                     [] call = "rmIngress" -> [k EXCEPT !.ingress = "none"]
                     [] call = "mkJob"     -> [k EXCEPT !.job = "pending"]
                     [] call = "rmJob"     -> [k EXCEPT !.job = "none"]
Mutating == {"mkIngress", "rmIngress", "mkJob", "rmJob"}

\* Deleting or replacing a job ends its pod, whose last change is to a
\* terminal phase.
Apply(call, u) ==
    /\ k8s' = [k8s EXCEPT ![u] = Effect(call, @)]
    /\ IF call \in {"mkJob", "rmJob"} /\ k8s[u].job \in {"running", "exited", "duplicate"}
         THEN Notify(u) ELSE UNCHANGED notices

Reply(c, r) ==
    /\ loc' = [loc EXCEPT ![c].reply = r]
    /\ ready' = Append(ready, c)
    /\ UNCHANGED <<running, pc, memory, lock, serving>>

Waits(c, ls) == Poll /\ pc[c] \in ls /\ ~Scheduled(c)

\* A call fails before or after it took effect; the replacement of a job may
\* also fail between its two halves.
CallReply(c) ==
    LET u == loc[c].user
        call == pc[c] IN
    /\ Waits(c, Mutating)
    /\ \/ Apply(call, u) /\ Reply(c, "ok") /\ UNCHANGED faults
       \/ /\ Fault /\ Reply(c, "error")
          /\ \/ Apply(call, u)
             \/ call = "mkJob" /\ Apply("rmJob", u)
             \/ UNCHANGED <<k8s, notices>>
    /\ UNCHANGED pass

\* wait_for_ip_address; _wait_for_pod_creation, which raises for several pods;
\* wait_for_phase, which also returns for a pod that has disappeared.
WaitOver(l, k) == \/ l = "waitIngress" /\ k.ingress = "ready"
                  \/ l = "waitPod" /\ k.job \notin {"none", "duplicate"}
                  \/ l = "waitStart" /\ k.job # "pending"

\* A wait that is not over may run into its timeout at any time.
\* Mutant: it has no timeout.
WaitUnlimited(r) ==
    /\ Waits(r, {"waitIngress", "waitPod", "waitStart"})
    /\ WaitOver(pc[r], k8s[loc[r].user])
    /\ Reply(r, "ok")
    /\ UNCHANGED <<pass, env>>
WaitReply(r) ==
    /\ Waits(r, {"waitIngress", "waitPod", "waitStart"})
    /\ IF WaitOver(pc[r], k8s[loc[r].user])
         THEN \/ Reply(r, "ok") /\ UNCHANGED faults
              \/ Fault /\ Reply(r, "error")
         ELSE Reply(r, "error") /\ UNCHANGED faults
    /\ UNCHANGED <<pass, k8s, notices>>

\* The list of jobs, the pods of a job, its ingress.
ReadReply ==
    LET u == loc[Reconciler].user
        job == k8s[u].job IN
    /\ Waits(Reconciler, {"list", "readPod", "readIngress"})
    /\ \/ /\ pc[Reconciler] = "list"
          /\ pass' = [pass EXCEPT !.todo = {v \in Users : k8s[v].job # "none"}]
          /\ Reply(Reconciler, "ok") /\ UNCHANGED faults
       \/ /\ pc[Reconciler] = "readPod"
          /\ Reply(Reconciler, job)
          /\ UNCHANGED <<pass, faults>>
       \/ /\ pc[Reconciler] = "readIngress"
          /\ Reply(Reconciler, k8s[u].ingress)
          /\ UNCHANGED <<pass, faults>>
       \/ Fault /\ Reply(Reconciler, "error") /\ UNCHANGED pass
    /\ UNCHANGED <<k8s, notices>>

\* Slack and Sentry, and the second that the watcher sleeps.
ReportReply(c) ==
    /\ Waits(c, {"createReport", "rmReport", "watchReport"})
    /\ Reply(c, "ok")
    /\ UNCHANGED <<pass, env>>

\* No task step reads or writes k8s, so that changes of the cluster need to be
\* interleaved with replies only: they happen while the loop is idle.
Cluster(u, k) ==
    /\ running = None /\ ready = <<>>
    /\ k8s' = [k8s EXCEPT ![u] = k]
    /\ UNCHANGED <<loop, pc, loc, memory, lock, pass, serving>>

IngressReady(u) == /\ k8s[u].ingress = "waiting"
                   /\ Cluster(u, [k8s[u] EXCEPT !.ingress = "ready"])
                   /\ UNCHANGED <<notices, faults>>

PodStarts(u) == /\ k8s[u].job = "pending"
                /\ Cluster(u, [k8s[u] EXCEPT !.job = "running"])
                /\ UNCHANGED <<notices, faults>>

\* The idle timeout of the file server has expired, or it has failed.
PodExits(u) == /\ k8s[u].job = "running"
               /\ Cluster(u, [k8s[u] EXCEPT !.job = "exited"])
               /\ Notify(u) /\ UNCHANGED faults

\* The Job replaces a failed pod.
PodRetried(u) == /\ JobRetries /\ k8s[u].job = "exited"
                 /\ Cluster(u, [k8s[u] EXCEPT !.job = "duplicate"])
                 /\ UNCHANGED <<notices, faults>>

\* Somebody else deletes the job, or a node is lost.
JobLost(u) == /\ k8s[u].job # "none" /\ Fault
              /\ Cluster(u, [k8s[u] EXCEPT !.job = "none"])
              /\ UNCHANGED notices

-----------------------------------------------------------------------------
(* Process start, restart, and the specification *)

Arrive(r) ==
    /\ serving /\ Poll /\ pc[r] = "idle"
    /\ \E u \in Users, kind \in {"create", "delete"} :
          /\ loc' = [loc EXCEPT ![r] = [Idle EXCEPT !.user = u, !.kind = kind]]
          /\ Goto(r, kind)
    /\ ready' = Append(ready, r)
    /\ UNCHANGED <<running, memory, lock, pass, serving, env>>

NoServers == [u \in Users |-> None]
NoStates == [s \in StateIds |-> [running |-> FALSE, inProgress |-> FALSE, touched |-> FALSE]]
NoLocks == [s \in StateIds |-> <<>>]
BootPc == [c \in Callers |-> IF c = Reconciler THEN "begin"
                             ELSE IF c = Watcher THEN "off" ELSE "idle"]

Init ==
    /\ running = None /\ ready = <<Reconciler>>
    /\ pc = BootPc /\ loc = [c \in Callers |-> Idle]
    /\ servers = NoServers /\ state = NoStates /\ lock = NoLocks
    /\ pass = NoPass /\ serving = FALSE
    /\ k8s \in [Users -> InitialObjects]
    /\ notices = {} /\ faults = 0

\* The process dies and is started again; a call in flight may take effect.
Restart ==
    LET inFlight == {c \in Callers : pc[c] \in Mutating /\ ~Scheduled(c)} IN
    /\ running = None
    /\ running' = None /\ ready' = <<Reconciler>>
    /\ servers' = NoServers /\ state' = NoStates /\ lock' = NoLocks
    /\ pass' = NoPass /\ serving' = FALSE /\ notices' = {}
    /\ pc' = [c \in Callers |-> IF c \in Requests /\ pc[c] # "idle" THEN "over" ELSE BootPc[c]]
    /\ loc' = [c \in Callers |-> Idle]
    /\ \/ UNCHANGED k8s
       \/ \E c \in inFlight : k8s' = [k8s EXCEPT ![loc[c].user] = Effect(pc[c], @)]

\* Startup reconciliation raised: the controller does not come up.
StartupFails == pc[Reconciler] = "bootFailed" /\ Restart /\ UNCHANGED faults

Crash == Restart /\ Fault

\* The loop, and the task that has it.
LoopStep ==
    \/ Dispatch
    \/ \E r \in Requests : CreateStep(r)
    \/ \E c \in Callers : DeleteStep(c)
    \/ ReconcileStep
    \/ WatchResumes

\* What a suspended caller waits for, other than a lock.
Answer ==
    \/ \E c \in Callers : CallReply(c) \/ ReportReply(c)
    \/ \E r \in Requests : WaitReply(r)
    \/ ReadReply \/ Timer
    \/ \E u \in Users : WatchNotice(u)

Next ==
    \/ LoopStep
    \/ Answer
    \/ \E r \in Requests : Arrive(r)
    \/ WatchFails
    \/ \E u \in Users : IngressReady(u) \/ PodStarts(u) \/ PodExits(u)
                          \/ PodRetried(u) \/ JobLost(u)
    \/ StartupFails
    \/ Crash

Spec == Init /\ [][Next]_vars

-----------------------------------------------------------------------------
(* Properties *)

CallerPcs == {"idle", "over", "create", "createLocked", "mkIngress", "mkJob",
              "waitIngress", "waitPod", "waitStart", "createReport", "delete",
              "deleteLocked", "rmIngress", "rmJob", "rmReport", "begin", "list", "read",
              "readPod", "readIngress", "purge", "timer", "bootFailed", "off",
              "watching", "watchReport"}

Replies == {"ok", "error", "none", "waiting", "ready", "pending", "running", "exited",
            "duplicate"}

Locals == [user : Users \cup {None}, st : StateIds \cup {None},
           kind : {"create", "delete", None}, reply : Replies \cup {None}]

\* Every variable of the file server manager holds a value of its type.
TypeOK ==
    /\ running \in Callers \cup {None}
    /\ ready \in Seq(Callers)
    /\ pc \in [Callers -> CallerPcs]
    /\ loc \in [Callers -> Locals]
    /\ servers \in [Users -> StateIds \cup {None}]
    /\ state \in [StateIds -> [running : BOOLEAN, inProgress : BOOLEAN, touched : BOOLEAN]]
    /\ lock \in [StateIds -> Seq(Callers)]
    /\ pass \in [todo : SUBSET Users, pod : {"none", "pending", "running", "exited", None},
                 valid : SUBSET Users, invalid : SUBSET Users, broken : SUBSET Users,
                 unexpected : SUBSET Users, missing : SUBSET Users]
    /\ serving \in BOOLEAN
    /\ k8s \in [Users -> Objects]
    /\ notices \in SUBSET Users
    /\ faults \in 0..MaxFaults

\* The locked part of an operation, from the first await to the last.
Operating(c) == /\ loc[c].st # None
                /\ pc[c] \in Mutating \cup {"waitIngress", "waitPod", "waitStart",
                                            "createReport", "rmReport"}

\* One operation at a time works on a _State, and in_progress says exactly
\* whether one does: all modified_since knows of an operation that takes long,
\* whoever waits for the lock meanwhile, fails, or is cleaned up after.
OneOperationPerState ==
    \A s \in StateIds :
       LET working == {c \in Callers : Operating(c) /\ loc[c].st = s} IN
       /\ \A c, d \in working : c = d
       /\ state[s].inProgress <=> working # {}

\* create, delete and the cleanup of either answer every request: no request is
\* left in the queue of a lock or of a _State that was replaced.
FileRequestsReturn == \A r \in Requests : pc[r] \notin {"idle", "over"} ~> pc[r] = "over"

\* The routes report a running file server exactly if there is a valid one.
Agree(u) == u \in KnownUsers <=> IsValid(k8s[u])

\* Once requests, failures and pod changes stop, they agree for good, whatever
\* failed creates and deletes, lost events and crashes left behind.
ServersConverge == <>[](\A u \in Users : Agree(u))

-----------------------------------------------------------------------------
(* What comments in the code say and the code does not do *)

\* _State.lock: "Lock to prevent two operations from happening at once."
OneOperationPerServer ==
    \A c, d \in Callers :
       Operating(c) /\ Operating(d) /\ loc[c].user = loc[d].user => c = d

\* _delete_missing_servers: "Servers modified since then will be left alone",
\* since the start of the pass.  It asks before delete() waits for the lock.
ReconcileSparesModified ==
    [][At(Reconciler, "deleteLocked") /\ pc'[Reconciler] = "rmIngress"
       => ~state[loc[Reconciler].st].touched]_vars

\* watch_servers: "When one exits, we want to clean up its Kubernetes objects
\* and update its state."  The watcher deletes no file server that is running.
WatcherDeletesExited ==
    [][At(Watcher, "deleteLocked") /\ pc'[Watcher] = "rmIngress"
       => ~IsValid(k8s[loc[Watcher].user])]_vars

\* reconcile: "If the file server isn't valid, queue it up for removal."  In the
\* end there is no Job in Kubernetes that is not a valid file server.
InvalidRemoved == <>[](\A u \in Users : k8s[u].job = "none" \/ IsValid(k8s[u]))
=============================================================================
