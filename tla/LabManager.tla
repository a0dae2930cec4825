----------------------------- MODULE LabManager -----------------------------
(***************************************************************************)
(* LabManager (services/lab.py): create_lab and delete_lab as called by    *)
(* HTTP requests, the background reaper of finished spawns, and the        *)
(* periodic reconciliation of the in-memory state with Kubernetes.         *)
(***************************************************************************)
EXTENDS LabMonitor

-----------------------------------------------------------------------------
(* create_lab *)

\* The request arrives (handlers/labs.py); its task is scheduled.
Arrive(r) ==
    /\ running = None /\ serving /\ pc[r] = "idle"
    /\ \E u \in Users, m \in {"create", "delete"} :
          /\ Goto(r, m)
          /\ loc' = [loc EXCEPT ![r] = [Idle EXCEPT !.user = u]]
    /\ ready' = Append(ready, r)
    /\ UNCHANGED <<running, labs, op, lock, ops, doneEvent, sweep, pass, serving, env>>

\* Quota and uid/gid checks, then the user's record, then _select_image, which
\* asks the Docker registry only if it does not know the image.
CreateBegin(r) ==
    LET u == loc[r].user IN
    /\ At(r, "create")
    /\ \/ Return(r, "denied") /\ UNCHANGED <<ready, known, touched>>
       \/ /\ known' = known \cup {u}
          /\ touched' = [touched EXCEPT ![u] = @ \/ u \notin known]
          /\ Goto(r, "image")
          /\ (Continue \/ Suspend)
          /\ UNCHANGED loc
    /\ UNCHANGED <<labState, status, op, lock, ops, doneEvent, sweep, pass, serving, env>>

\* The image, size and quota are fine or not; then
\* _get_lab_state_from_kubernetes keeps a reference to the user's current
\* LabState and asks for the pod phase.
CreateImage(r) ==
    LET st == labState[loc[r].user] IN
    /\ At(r, "image")
    /\ \/ Return(r, "rejected") /\ UNCHANGED ready
       \/ /\ st = None
          /\ Goto(r, "check") /\ Continue /\ UNCHANGED loc
       \/ /\ st # None
          /\ loc' = [loc EXCEPT ![r].st = st]
          /\ Goto(r, "phase") /\ Suspend
    /\ UNCHANGED <<labs, op, lock, ops, doneEvent, sweep, pass, serving, env>>

\* Kubernetes answered.  On an error, report it and trust the in-memory
\* status; a missing pod means failed; a pod that no longer runs is recorded.
CreatePhase(r) ==
    LET st == loc[r].st
        phase == loc[r].val IN
    /\ At(r, "phase")
    /\ loc' = [loc EXCEPT ![r].val = None]
    /\ IF phase = "error"
         THEN Goto(r, "phaseReport") /\ Suspend /\ UNCHANGED status
         ELSE /\ status' = [status EXCEPT ![st] =
                    IF phase = None THEN "FAILED"
                    ELSE IF @ = "RUNNING" THEN FromPhase[phase] ELSE @]
              /\ Goto(r, "check") /\ Continue
    /\ UNCHANGED <<known, labState, touched, op, lock, ops, doneEvent, sweep, pass, serving, env>>

CreatePhaseReported(r) ==
    /\ At(r, "phaseReport")
    /\ Goto(r, "check") /\ Continue
    /\ UNCHANGED <<loc, labs, op, lock, ops, doneEvent, sweep, pass, serving, env>>

\* delete_first is decided on the LabState captured before the phase was read;
\* the conflict checks on the current one.  Then _LabMonitor.monitor asks for
\* the lock.
CreateCheck(r) ==
    LET u == loc[r].user
        first == loc[r].st # None /\ ~IsRunning(loc[r].st) IN
    /\ At(r, "check")
    /\ IF op[u] # None THEN Return(r, "conflict") /\ UNCHANGED <<ready, lock>>
       ELSE IF labState[u] # None /\ ~first
         THEN Return(r, "exists") /\ UNCHANGED <<ready, lock>>
         ELSE /\ loc' = [loc EXCEPT ![r].st = None, ![r].first = first]
              /\ Goto(r, "spawn") /\ Acquire(r, u)
    /\ UNCHANGED <<labs, op, ops, doneEvent, sweep, pass, serving, env>>

\* monitor() for a spawn, and the assignment of the new LabState after it.
CreateSpawn(r) ==
    LET u == loc[r].user IN
    /\ At(r, "spawn")
    /\ IF Conflict(u)
         THEN /\ Return(r, "conflict") /\ Release(u)
              /\ ready' = ready \o Granted(u)
              /\ UNCHANGED <<labState, status, op, ops>>
         ELSE \E o \in FreeOps, s \in FreeStates :
              /\ o = CHOOSE p \in FreeOps : TRUE
              /\ s = CHOOSE t \in FreeStates : TRUE
              /\ StartOperation(o, u, "SPAWN", s, loc[r].first)
              /\ labState' = [labState EXCEPT ![u] = s]
              /\ status' = [status EXCEPT ![s] = "PENDING"]
              /\ Return(r, "ok")
    /\ UNCHANGED <<known, touched, doneEvent, sweep, pass, serving, env>>

-----------------------------------------------------------------------------
(* delete_lab, called by requests and by the reconciler *)

\* A spawn in progress is aborted by a delete.
\* Mutant: so is a delete in progress.
AbortsAny(o) == TRUE
Aborts(o) == IsSpawn(o)

\* Join a delete in progress, abort a spawn in progress, or delete directly.
DeleteBegin(c) ==
    LET u == loc[c].user IN
    /\ At(c, "delete")
    /\ IF u \notin known \/ labState[u] = None
         THEN Return(c, "unknown") /\ UNCHANGED <<ready, lock>>
       ELSE IF op[u] = None
         THEN Goto(c, "terminate") /\ Continue /\ UNCHANGED <<loc, lock>>
       ELSE IF Aborts(op[u])
         THEN Goto(c, "cancel") /\ Acquire(c, u) /\ UNCHANGED loc
         ELSE /\ loc' = [loc EXCEPT ![c].role = "joiner"]
              /\ Goto(c, "wait") /\ Continue /\ UNCHANGED lock
    /\ UNCHANGED <<labs, op, ops, doneEvent, sweep, pass, serving, env>>

\* Mark the lab as terminating and ask for the lock in monitor().
DeleteTerminate(c) ==
    LET u == loc[c].user
        st == labState[u] IN
    /\ At(c, "terminate")
    /\ IF st = None THEN Return(c, "unknown") /\ UNCHANGED <<ready, lock, status>>
       ELSE /\ status' = [status EXCEPT ![st] = "TERMINATING"]
            /\ loc' = [loc EXCEPT ![c].st = st, ![c].role = "owner"]
            /\ Goto(c, "remove") /\ Acquire(c, u)
    /\ UNCHANGED <<known, labState, touched, op, ops, doneEvent, sweep, pass, serving, env>>

\* monitor() for a delete
DeleteMonitor(c) ==
    LET u == loc[c].user IN
    /\ At(c, "remove")
    /\ IF Conflict(u)
         THEN /\ Return(c, "conflict") /\ Release(u)
              /\ ready' = ready \o Granted(u)
              /\ UNCHANGED <<op, ops>>
         ELSE \E o \in FreeOps :
              /\ o = CHOOSE p \in FreeOps : TRUE
              /\ StartOperation(o, u, "DELETE", loc[c].st, FALSE)
              /\ loc' = [loc EXCEPT ![c].st = None]
              /\ Goto(c, "wait") /\ UNCHANGED running
    /\ UNCHANGED <<labs, doneEvent, sweep, pass, serving, env>>

\* The end of delete_lab after wait(): the caller that started the delete
\* clears the lab state, and finds lab.state None only if someone else did.
DeleteEnd(c) ==
    LET u == loc[c].user
        st == labState[u]
        gone == st # None /\ status[st] = "TERMINATED"
        owner == loc[c].role = "owner" IN
    /\ At(c, "deleted")
    /\ touched' = IF owner THEN [touched EXCEPT ![u] = TRUE] ELSE touched
    /\ labState' = IF owner /\ gone THEN [labState EXCEPT ![u] = None] ELSE labState
    /\ Return(c, IF st = None THEN (IF owner THEN "attribute" ELSE "ok")
                 ELSE IF gone THEN "ok" ELSE "failed")
    /\ UNCHANGED <<ready, known, status, op, lock, ops, doneEvent, sweep, pass, serving, env>>

-----------------------------------------------------------------------------
(* reap_spawners *)

\* Woken by _spawner_done (or started): clear it and iterate over _labs.
ReapBegin ==
    /\ At(Reaper, "asleep")
    /\ IF doneEvent
         THEN /\ doneEvent' = FALSE
              /\ sweep' = [todo |-> known, snap |-> known]
              /\ Goto(Reaper, "sweep") /\ Continue
         ELSE Suspend /\ UNCHANGED <<doneEvent, sweep, pc>>
    /\ UNCHANGED <<loc, labs, op, lock, ops, pass, serving, env>>

\* The next item of the dict iterator, which raises RuntimeError, ending the
\* task, if _labs has grown since the iteration began.
ReapNext ==
    /\ At(Reaper, "sweep")
    /\ \/ /\ known # sweep.snap
          /\ Goto(Reaper, "dead") /\ Suspend /\ UNCHANGED <<loc, sweep>>
       \/ /\ known = sweep.snap /\ sweep.todo = {}
          /\ sweep' = [todo |-> {}, snap |-> {}]
          /\ loc' = [loc EXCEPT ![Reaper] = Idle]
          /\ Goto(Reaper, "asleep") /\ Continue
       \/ /\ known = sweep.snap
          /\ \E u \in sweep.todo :
                /\ sweep' = [sweep EXCEPT !.todo = @ \ {u}]
                /\ IF op[u] # None /\ ~Live(op[u])
                     THEN /\ loc' = [loc EXCEPT ![Reaper].user = u]
                          /\ Goto(Reaper, "wait")
                     ELSE UNCHANGED <<loc, pc>>
          /\ Continue
    /\ UNCHANGED <<labs, op, lock, ops, doneEvent, pass, serving, env>>

-----------------------------------------------------------------------------
(* reconcile *)

NoneObserved == [u \in Users |-> None]

\* The timer of BackgroundTaskManager._loop expires.
Timer ==
    /\ running = None /\ pc[Reconciler] = "timer"
    /\ Goto(Reconciler, "begin")
    /\ ready' = Append(ready, Reconciler)
    /\ UNCHANGED <<running, loc, labs, op, lock, ops, doneEvent, sweep, pass, serving, env>>

\* A Kubernetes call of the pass failed: the exception ends it.
PassFails ==
    /\ pass' = [todo |-> {}, obs |-> NoneObserved]
    /\ loc' = [loc EXCEPT ![Reconciler] = Idle]
    /\ Goto(Reconciler, IF serving THEN "timer" ELSE "bootFailed")
    /\ Suspend

\* Note the time and list the namespaces.
ReconcileBegin ==
    /\ At(Reconciler, "begin")
    /\ touched' = [u \in Users |-> FALSE]
    /\ pass' = [todo |-> {}, obs |-> NoneObserved]
    /\ loc' = [loc EXCEPT ![Reconciler] = Idle]
    /\ Goto(Reconciler, "list") /\ Suspend
    /\ UNCHANGED <<known, labState, status, op, lock, ops, doneEvent, sweep, serving, env>>

ReconcileListed ==
    /\ At(Reconciler, "list")
    /\ IF loc[Reconciler].val = "error" THEN PassFails
       ELSE Goto(Reconciler, "gather") /\ Continue /\ UNCHANGED <<loc, pass>>
    /\ UNCHANGED <<labs, op, lock, ops, doneEvent, sweep, serving, env>>

\* _gather_current_state: read the objects of the next namespace.
GatherNext ==
    /\ At(Reconciler, "gather")
    /\ \/ /\ pass.todo = {}
          /\ Goto(Reconciler, "sync") /\ Continue /\ UNCHANGED <<loc, pass>>
       \/ \E u \in pass.todo :
          /\ pass' = [pass EXCEPT !.todo = @ \ {u}]
          /\ loc' = [loc EXCEPT ![Reconciler].user = u]
          /\ Goto(Reconciler, "read") /\ Suspend
    /\ UNCHANGED <<labs, op, lock, ops, doneEvent, sweep, serving, env>>

\* _State.modified_since(start of the pass)
Modified(u) == op[u] # None \/ touched[u]

\* Whether the reconciler may delete the incomplete namespace of a user.
\* Mutant: only for users it has no record of.
UnknownOnly(u) == u \notin known
MayDeleteMalformed(u) == u \notin known \/ ~Modified(u)

\* The objects were read: record a complete lab; delete the namespace of an
\* incomplete one unless its user is known and was busy since the pass began.
GatherRead ==
    LET u == loc[Reconciler].user
        seen == loc[Reconciler].val IN
    /\ At(Reconciler, "read")
    /\ IF seen = "error" THEN PassFails
       ELSE /\ loc' = [loc EXCEPT ![Reconciler].val = None]
            /\ pass' = [pass EXCEPT !.obs[u] = ObservedStatus(seen)]
            /\ IF ObservedStatus(seen) # None \/ ~MayDeleteMalformed(u)
                 THEN Goto(Reconciler, "gather") /\ Continue
                 ELSE Goto(Reconciler, "malformed") /\ Suspend
    /\ UNCHANGED <<labs, op, lock, ops, doneEvent, sweep, serving, env>>

MalformedDeleted ==
    /\ At(Reconciler, "malformed")
    /\ IF loc[Reconciler].val = "error" THEN PassFails
       ELSE /\ loc' = [loc EXCEPT ![Reconciler].val = None]
            /\ Goto(Reconciler, "gather") /\ Continue /\ UNCHANGED pass
    /\ UNCHANGED <<labs, op, lock, ops, doneEvent, sweep, serving, env>>

\* Users whose status _reconcile_known_users overwrites.
Corrected == {u \in known : /\ labState[u] # None /\ ~Modified(u)
                            /\ status[labState[u]] # "FAILED"
                            /\ pass.obs[u] # status[labState[u]]}
\* Mutant: the case of a user who was not observed is missing.
CorrectionsUnobserved(u) == pass.obs[u]
Corrections(u) == IF pass.obs[u] = None THEN "FAILED" ELSE pass.obs[u]

\* Users whose record the second pass creates.
\* Mutant: also for users who have one.
Rediscovered == {u \in Users : pass.obs[u] # None}
Discovered == {u \in Users \ known : pass.obs[u] # None}

\* A fresh LabState for each discovered user.
NewStates == {new \in [Discovered -> FreeStates] :
                 \A u, v \in Discovered : u # v => new[u] # new[v]}

\* Both passes over the observed state, with no suspension between them.
ReconcileSync ==
    /\ At(Reconciler, "sync")
    /\ \E new \in NewStates :
       LET recreated == {new[u] : u \in Discovered}
           fixed == {labState[u] : u \in Corrected} IN
       /\ new = CHOOSE f \in NewStates : TRUE
       /\ status' = [s \in StateIds |->
             IF s \in recreated THEN pass.obs[CHOOSE u \in Discovered : new[u] = s]
             ELSE IF s \in fixed
               THEN Corrections(CHOOSE u \in Corrected : labState[u] = s)
             ELSE status[s]]
       /\ labState' = [u \in Users |-> IF u \in Discovered THEN new[u] ELSE labState[u]]
    /\ known' = known \cup Discovered
    /\ touched' = [u \in Users |-> touched[u] \/ u \in Discovered]
    /\ pass' = [obs |-> NoneObserved,
                todo |-> {u \in Corrected \cup Discovered : pass.obs[u] = "PENDING"}]
    /\ Goto(Reconciler, "watch") /\ Continue
    /\ UNCHANGED <<loc, op, lock, ops, doneEvent, sweep, serving, env>>

\* _monitor_pending_spawn for the next user found pending, up to the lock.
WatchNext ==
    /\ At(Reconciler, "watch")
    /\ \/ /\ pass.todo = {}
          /\ pass' = [pass EXCEPT !.todo = known]
          /\ loc' = [loc EXCEPT ![Reconciler] = Idle]
          /\ Goto(Reconciler, "gc") /\ Continue /\ UNCHANGED lock
       \/ \E u \in pass.todo :
          /\ pass' = [pass EXCEPT !.todo = @ \ {u}]
          /\ IF op[u] # None \/ labState[u] = None
               THEN Continue /\ UNCHANGED <<pc, loc, lock>>
               ELSE /\ loc' = [loc EXCEPT ![Reconciler].user = u,
                                          ![Reconciler].st = labState[u]]
                    /\ Goto(Reconciler, "monitor") /\ Acquire(Reconciler, u)
    /\ UNCHANGED <<labs, op, ops, doneEvent, sweep, serving, env>>

\* monitor() for a pending pod; OperationConflictError is suppressed.
WatchMonitor ==
    LET u == loc[Reconciler].user IN
    /\ At(Reconciler, "monitor")
    /\ IF Conflict(u)
         THEN Release(u) /\ ready' = ready \o Granted(u) /\ UNCHANGED <<op, ops>>
         ELSE \E o \in FreeOps :
              /\ o = CHOOSE p \in FreeOps : TRUE
              /\ StartOperation(o, u, "WATCH", loc[Reconciler].st, FALSE)
    /\ loc' = [loc EXCEPT ![Reconciler] = Idle]
    /\ Goto(Reconciler, "watch") /\ UNCHANGED running
    /\ UNCHANGED <<labs, doneEvent, sweep, pass, serving, env>>

\* _delete_completed_labs: call delete_lab for the next lab that has stopped.
GcNext ==
    /\ At(Reconciler, "gc")
    /\ \/ /\ pass.todo = {}
          /\ Goto(Reconciler, "metric") /\ Suspend /\ UNCHANGED <<loc, pass>>
       \/ \E u \in pass.todo :
          /\ pass' = [pass EXCEPT !.todo = @ \ {u}]
          /\ IF labState[u] # None /\ ~IsRunning(labState[u]) /\ op[u] = None
               THEN /\ loc' = [loc EXCEPT ![Reconciler] = [Idle EXCEPT !.user = u]]
                    /\ Goto(Reconciler, "delete")
               ELSE UNCHANGED <<loc, pc>>
          /\ Continue
    /\ UNCHANGED <<labs, op, lock, ops, doneEvent, sweep, serving, env>>

\* The active-labs metric is out and the pass is over.  The first pass runs
\* before BackgroundTaskManager.start starts the reaper and before requests.
ReconcileEnd ==
    /\ At(Reconciler, "metric")
    /\ pass' = [todo |-> {}, obs |-> NoneObserved]
    /\ loc' = [loc EXCEPT ![Reconciler] = Idle]
    /\ Goto(Reconciler, "timer")
    /\ serving' = TRUE
    /\ running' = None
    /\ ready' = IF serving THEN ready ELSE Append(ready, Reaper)
    /\ UNCHANGED <<labs, op, lock, ops, doneEvent, sweep, env>>

-----------------------------------------------------------------------------
(* Kubernetes, Slack and Kafka as seen by callers *)

\* A caller's await of something other than the lock, an event or a task ends.
CallerWaits(c, ls) == running = None /\ pc[c] \in ls /\ ~Scheduled(c)

PhaseReply(r) ==
    /\ CallerWaits(r, {"phase"})
    /\ \/ /\ loc' = [loc EXCEPT ![r].val = PodPhase(k8s[loc[r].user])]
          /\ UNCHANGED faults
       \/ Fault /\ loc' = [loc EXCEPT ![r].val = "error"]
    /\ ready' = Append(ready, r)
    /\ UNCHANGED <<running, pc, labs, op, lock, ops, doneEvent, sweep, pass, serving, k8s, stray>>

\* The registry, Slack or Kafka answered.
OtherReply(c) ==
    /\ CallerWaits(c, {"image", "phaseReport", "cancelReport", "waitReport", "metric"})
    /\ ready' = Append(ready, c)
    /\ UNCHANGED <<running, pc, loc, labs, op, lock, ops, doneEvent, sweep, pass, serving, env>>

\* list_namespaces, read_lab_objects and the delete of a malformed namespace
ReconcilerReply ==
    LET u == loc[Reconciler].user IN
    /\ CallerWaits(Reconciler, {"list", "read", "malformed"})
    /\ \/ /\ pc[Reconciler] = "list"
          /\ pass' = [pass EXCEPT !.todo = {v \in Users : k8s[v] # "absent"}]
          /\ UNCHANGED <<loc, k8s, stray, faults>>
       \/ /\ pc[Reconciler] = "read"
          /\ loc' = [loc EXCEPT ![Reconciler].val = k8s[u]]
          /\ UNCHANGED <<pass, k8s, stray, faults>>
       \/ /\ pc[Reconciler] = "malformed"
          /\ k8s' = [k8s EXCEPT ![u] = "absent"]
          /\ UNCHANGED <<pass, loc, stray, faults>>
       \/ /\ Fault
          /\ loc' = [loc EXCEPT ![Reconciler].val = "error"]
          /\ \/ UNCHANGED stray
             \/ pc[Reconciler] = "malformed" /\ stray' = [stray EXCEPT ![u] = "delNs"]
          /\ UNCHANGED <<pass, k8s>>
    /\ ready' = Append(ready, Reconciler)
    /\ UNCHANGED <<running, pc, labs, op, lock, ops, doneEvent, sweep, serving>>

\* A call whose sender was cancelled, timed out or died still takes effect.
StrayLands(u) ==
    /\ running = None /\ stray[u] # None
    /\ k8s' = [k8s EXCEPT ![u] = Effect(stray[u], @)]
    /\ stray' = [stray EXCEPT ![u] = None]
    /\ UNCHANGED <<loop, pc, loc, labs, op, lock, ops, doneEvent, sweep, pass, serving, faults>>

\* The pod starts.
PodStarts(u) ==
    /\ running = None /\ k8s[u] = "Pending"
    /\ k8s' = [k8s EXCEPT ![u] = "Running"]
    /\ UNCHANGED <<loop, pc, loc, labs, op, lock, ops, doneEvent, sweep, pass, serving, stray, faults>>

\* The pod stops, is lost with its node, or is evicted.
PodStops(u) ==
    /\ running = None /\ k8s[u] \in {"Pending", "Running"}
    /\ Fault
    /\ \E k \in {"Succeeded", "Failed", "Unknown", "partial"} : k8s' = [k8s EXCEPT ![u] = k]
    /\ UNCHANGED <<loop, pc, loc, labs, op, lock, ops, doneEvent, sweep, pass, serving, stray>>

-----------------------------------------------------------------------------
(* Process start, restart, and the specification *)

\* The memory of a new process, whose first task is the startup reconcile.
NoLabs == [u \in Users |-> None]
NoLocks == [u \in Users |-> <<>>]
Untouched == [u \in Users |-> FALSE]
NoOps == [o \in OpIds |-> IdleOp]
NoSweep == [todo |-> {}, snap |-> {}]
NoPass == [todo |-> {}, obs |-> NoneObserved]
BootPc == [c \in Callers |-> IF c = Reconciler THEN "begin"
                             ELSE IF c = Reaper THEN "asleep" ELSE "idle"]

Init ==
    /\ running = None /\ ready = <<Reconciler>>
    /\ pc = BootPc
    /\ loc = [c \in Callers |-> Idle]
    /\ known = {} /\ labState = NoLabs /\ touched = Untouched
    /\ status = [s \in StateIds |-> "PENDING"]
    /\ op = NoLabs /\ lock = NoLocks /\ ops = NoOps /\ doneEvent = FALSE
    /\ sweep = NoSweep /\ pass = NoPass /\ serving = FALSE
    /\ k8s \in [Users -> InitialCluster]
    /\ stray = [u \in Users |-> None]
    /\ faults = 0

\* The process dies and is started again.  Requests in progress are lost;
\* Kubernetes calls in flight may still take effect.
Restart ==
    LET inFlight == {o \in OpIds : ops[o].pc \in Mutating /\ ~Scheduled(o)} IN
    /\ running = None
    /\ running' = None /\ ready' = <<Reconciler>>
    /\ known' = {} /\ labState' = NoLabs /\ touched' = Untouched
    /\ status' = [s \in StateIds |-> "PENDING"]
    /\ op' = NoLabs /\ lock' = NoLocks /\ ops' = NoOps /\ doneEvent' = FALSE
    /\ sweep' = NoSweep /\ pass' = NoPass /\ serving' = FALSE
    /\ pc' = [c \in Callers |-> IF c \in Requests /\ pc[c] # "idle" THEN "over" ELSE BootPc[c]]
    /\ loc' = [c \in Callers |-> IF c \in Requests /\ pc[c] \notin {"idle", "over"}
                                 THEN [Idle EXCEPT !.res = "lost"]
                                 ELSE IF c \in Requests THEN loc[c] ELSE Idle]
    /\ \E lost \in SUBSET inFlight :
          stray' = [u \in Users |-> IF \E o \in lost : ops[o].user = u
                                    THEN ops[CHOOSE o \in lost : ops[o].user = u].pc
                                    ELSE stray[u]]
    /\ UNCHANGED k8s

\* Startup reconciliation raised: the controller does not come up.
StartupFails == pc[Reconciler] = "bootFailed" /\ Restart /\ UNCHANGED faults

Crash == Restart /\ Fault

DeleteStep(c) == DeleteBegin(c) \/ Cancel(c) \/ Cancelled(c) \/ DeleteTerminate(c)
                   \/ DeleteMonitor(c) \/ DeleteEnd(c)
WaitStep(c) == WaitBegin(c) \/ WaitCapture(c) \/ WaitComplete(c) \/ WaitCollect(c)
CreateStep(r) == CreateBegin(r) \/ CreateImage(r) \/ CreatePhase(r) \/ CreatePhaseReported(r)
                   \/ CreateCheck(r) \/ CreateSpawn(r)
ReapStep == ReapBegin \/ ReapNext
ReconcileStep == ReconcileBegin \/ ReconcileListed \/ GatherNext \/ GatherRead
                   \/ MalformedDeleted \/ ReconcileSync \/ WatchNext \/ WatchMonitor
                   \/ GcNext \/ ReconcileEnd

\* The loop, and the task that has it.
LoopStep ==
    \/ Dispatch
    \/ \E r \in Requests : CreateStep(r)
    \/ \E c \in Requests \cup {Reconciler} : DeleteStep(c)
    \/ \E c \in Callers : WaitStep(c)
    \/ \E o \in OpIds : OpStep(o)
    \/ ReapStep
    \/ ReconcileStep

\* What a suspended caller waits for, other than the lock, an event or a task.
CallerReply(c) ==
    \/ c \in Requests /\ PhaseReply(c)
    \/ OtherReply(c)
    \/ c = Reconciler /\ (ReconcilerReply \/ Timer)

Next ==
    \/ LoopStep
    \/ \E r \in Requests : Arrive(r)
    \/ \E c \in Callers : CallerReply(c)
    \/ \E o \in OpIds : OpReply(o)
    \/ \E u \in Users : StrayLands(u) \/ PodStarts(u) \/ PodStops(u)
    \/ StartupFails
    \/ Crash

Spec == Init /\ [][Next]_vars

-----------------------------------------------------------------------------
(* Properties *)

CallerPcs == {"idle", "over", "create", "image", "phase", "phaseReport", "check", "spawn",
              "delete", "cancel", "cancelled", "cancelReport", "terminate", "remove",
              "deleted", "wait", "capture", "complete", "collect", "waitReport",
              "asleep", "sweep", "dead", "timer", "begin", "list", "gather", "read",
              "malformed", "sync", "watch", "monitor", "gc", "metric", "bootFailed"}

Results == {"ok", "denied", "rejected", "conflict", "exists", "unknown", "failed",
            "attribute", "noOperation", "cancelled", "lost"}

Locals == [user : Users \cup {None}, role : {None, "owner", "joiner"},
           st : StateIds \cup {None}, op : OpIds \cup {None}, first : BOOLEAN,
           val : ClusterStates \cup {None, "error"}, res : Results \cup {None}]

Operations == [user : Users \cup {None}, kind : Kinds, st : StateIds \cup {None},
               first : BOOLEAN, pc : OpPcs, cancel : BOOLEAN,
               reply : {None, "ok", "err"}, result : {"ok", "raised", "cancelled"},
               complete : BOOLEAN, waiters : Seq(Callers)]

\* Every variable of the lab manager holds a value of its type.
TypeOK ==
    /\ running \in Tasks \cup {None}
    /\ ready \in Seq(Tasks)
    /\ pc \in [Callers -> CallerPcs]
    /\ loc \in [Callers -> Locals]
    /\ known \in SUBSET Users
    /\ labState \in [Users -> StateIds \cup {None}]
    /\ status \in [StateIds -> Statuses]
    /\ touched \in [Users -> BOOLEAN]
    /\ op \in [Users -> OpIds \cup {None}]
    /\ lock \in [Users -> Seq(Callers)]
    /\ ops \in [OpIds -> Operations]
    /\ doneEvent \in BOOLEAN
    /\ sweep \in [todo : SUBSET Users, snap : SUBSET Users]
    /\ pass \in [todo : SUBSET Users, obs : [Users -> Statuses \cup {None}]]
    /\ serving \in BOOLEAN
    /\ k8s \in [Users -> ClusterStates]
    /\ stray \in [Users -> Mutating \cup {None}]
    /\ faults \in 0..MaxFaults

\* A live operation task is its user's current operation, so a user never has
\* two (the _LabMonitor docstring: only one lab operation in progress for a
\* given user at a time), although create, delete, cancel, the reaper and the
\* reconciler all check and change _operation around suspensions.
OneOperation == \A o \in OpIds : Live(o) => op[ops[o].user] = o

\* While a spawn is in progress it works on the LabState that the status routes
\* return: nobody replaces or clears lab.state under it, although lab.state is
\* assigned after monitor() has started the task, and although the caller that
\* has waited for an earlier delete clears whatever lab.state it finds.
SpawnOwnsState ==
    \A u \in Users : op[u] # None /\ Live(op[u]) /\ ops[op[u]].kind = "SPAWN"
                     => labState[u] = ops[op[u]].st

\* cancel() only ever hits a spawn, although it cancels whatever it finds once
\* it has the lock: a delete is never aborted half way.
DeleteNeverCancelled == \A o \in OpIds : ops[o].cancel => IsSpawn(o)

\* CancelledError never comes out of wait() into delete_lab, whose callers do not
\* catch it: no request ends with it, and it does not end the reconcile loop.
CancellationContained ==
    /\ \A c \in Callers : loc[c].res # "cancelled"
    /\ pc[Reconciler] # "dead"

\* Every create or delete request that arrives gets an answer: no caller is
\* left waiting for a lock, an operation or a cancelled task.
RequestsReturn == \A r \in Requests : pc[r] \notin {"idle", "over"} ~> pc[r] = "over"

\* Every operation is collected by its waiter, its canceller or the reaper, so
\* that the user can start another one.
OperationsCollected == \A u \in Users : op[u] # None ~> op[u] = None

\* The controller and Kubernetes agree about a user: no lab and no namespace,
\* or a running lab and a running pod.
Agree(u) == \/ labState[u] = None /\ k8s[u] = "absent"
            \/ /\ labState[u] # None /\ status[labState[u]] = "RUNNING"
               /\ k8s[u] = "Running"

\* Once requests and failures stop, reconciliation makes them agree for good,
\* whatever crashes, cancelled spawns and lost replies left behind.
Converges == <>[](\A u \in Users : Agree(u))

-----------------------------------------------------------------------------
(* What comments in services/lab.py say and the code does not do *)

\* create_lab: "if the lab already exists and is not in a failed or terminated
\* state, raise an error".  A spawn replaces no lab that is still running.
SpawnReplacesStoppedLab ==
    [][\A u \in Users : /\ op[u] = None /\ op'[u] # None
                       /\ ops'[op'[u]].kind = "SPAWN"
                       => labState[u] = None \/ ~IsRunning(labState[u])]_vars

\* wait: "Callers must check that an operation is in progress with the
\* in_progress property first before calling this method", so that they meet no
\* NoOperationError.  delete_lab checks, or has started an operation itself.
OperationFound == \A c \in Callers : loc[c].res # "noOperation"

\* delete_lab: "we start the deletion and take responsibility for clearing the lab
\* state when it finishes".  So nobody else clears it, neither under the operation
\* nor before the caller that started it has returned from wait() and
\* dereferences lab.state without a check.
OperationOwnsState ==
    /\ \A u \in Users : op[u] # None /\ Live(op[u]) => labState[u] = ops[op[u]].st
    /\ \A c \in Callers : loc[c].res # "attribute"

\* reap_spawners: "Something needs to await those tasks [...] That function is
\* performed by a background task running this method."  The reaper stays alive.
ReaperAlive == pc[Reaper] # "dead"
=============================================================================
