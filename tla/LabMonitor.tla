----------------------------- MODULE LabMonitor -----------------------------
(***************************************************************************)
(* _LabMonitor (services/lab.py): at most one operation per user, run in a *)
(* task of its own.  start, cancel and wait are steps of the callers; the  *)
(* operation task runs _spawn_lab, _watch_lab_spawn or _delete_lab inside  *)
(* _monitor_operation and talks to Kubernetes.                             *)
(***************************************************************************)
EXTENDS LabLoop

-----------------------------------------------------------------------------
(* monitor and cancel *)

\* monitor() refuses to start an operation while there is one.
\* Mutant: the check is missing.
ConflictUnchecked(u) == FALSE
Conflict(u) == op[u] # None

\* _RunningOperation.start: the operation becomes the user's, its task is
\* scheduled, and the lock is released.
StartOperation(o, u, kind, st, first) ==
    /\ ops' = [ops EXCEPT ![o] = [IdleOp EXCEPT !.user = u, !.kind = kind, !.st = st,
                                                !.first = first, !.pc = "created"]]
    /\ op' = [op EXCEPT ![u] = o]
    /\ Release(u)
    /\ ready' = Append(ready, o) \o Granted(u)

\* _LabMonitor.cancel with the lock: cancel the task if it is not done and
\* wait for it, still holding the lock.  The Kubernetes call the task was
\* waiting for may still take effect.
Cancel(c) ==
    LET u == loc[c].user
        o == op[u] IN
    /\ At(c, "cancel")
    /\ IF o = None
         THEN /\ Goto(c, "terminate") /\ Release(u)
              /\ ready' = ready \o Granted(u)
              /\ UNCHANGED <<running, ops, stray>>
       ELSE IF ~Live(o)
         THEN Goto(c, "cancelled") /\ Continue /\ UNCHANGED <<lock, ops, stray>>
       ELSE /\ ops' = [ops EXCEPT ![o].cancel = TRUE]
            /\ ready' = IF Scheduled(o) THEN ready ELSE Append(ready, o)
            /\ running' = None
            /\ \/ UNCHANGED stray
               \/ /\ ~Scheduled(o) /\ ops[o].pc \in Mutating
                  /\ stray' = [stray EXCEPT ![u] = ops[o].pc]
            /\ Goto(c, "cancelled") /\ UNCHANGED lock
    /\ UNCHANGED <<loc, labs, op, doneEvent, sweep, pass, serving, k8s, faults>>

\* The task is over; an exception other than CancelledError is reported first.
Cancelled(c) ==
    LET u == loc[c].user IN
    /\ \/ At(c, "cancelled") \/ At(c, "cancelReport")
    /\ IF pc[c] = "cancelled" /\ ops[op[u]].result = "raised"
         THEN Goto(c, "cancelReport") /\ Suspend /\ UNCHANGED <<op, lock>>
         ELSE /\ op' = [op EXCEPT ![u] = None]
              /\ Release(u) /\ ready' = ready \o Granted(u)
              /\ Goto(c, "terminate") /\ UNCHANGED running
    /\ UNCHANGED <<loc, labs, ops, doneEvent, sweep, pass, serving, env>>

-----------------------------------------------------------------------------
(* _LabMonitor.wait, called by delete_lab and by the reaper *)

WaitBegin(c) ==
    /\ At(c, "wait")
    /\ Goto(c, "capture") /\ Acquire(c, loc[c].user)
    /\ UNCHANGED <<loc, labs, op, ops, doneEvent, sweep, pass, serving, env>>

\* With the lock: take a reference to the operation, release, and wait for its
\* `complete' event.  The reaper ignores NoOperationError.
WaitCapture(c) ==
    LET u == loc[c].user
        o == op[u] IN
    /\ At(c, "capture")
    /\ Release(u) /\ ready' = ready \o Granted(u)
    /\ IF o = None
         THEN /\ IF c = Reaper THEN Goto(c, "sweep") /\ UNCHANGED <<running, loc>>
                 ELSE Return(c, "noOperation")
              /\ UNCHANGED ops
         ELSE /\ loc' = [loc EXCEPT ![c].op = o]
              /\ Goto(c, "complete")
              /\ IF ops[o].complete THEN UNCHANGED <<running, ops>>
                 ELSE /\ ops' = [ops EXCEPT ![o].waiters = Append(@, c)]
                      /\ running' = None
    /\ UNCHANGED <<labs, op, doneEvent, sweep, pass, serving, env>>

WaitComplete(c) ==
    /\ At(c, "complete")
    /\ Goto(c, "collect") /\ Acquire(c, loc[c].user)
    /\ UNCHANGED <<loc, labs, op, ops, doneEvent, sweep, pass, serving, env>>

\* With the lock again: await the finished task, report what it raised, and
\* clear the operation unless another waiter already did.  CancelledError from
\* the task propagates to the caller.
WaitCollect(c) ==
    LET u == loc[c].user
        o == loc[c].op IN
    /\ \/ At(c, "collect") \/ At(c, "waitReport")
    /\ IF pc[c] = "collect" /\ ops[o].result = "raised"
         THEN Goto(c, "waitReport") /\ Suspend /\ UNCHANGED <<loc, op, lock, touched>>
       ELSE IF ops[o].result = "cancelled"
         THEN /\ Release(u) /\ ready' = ready \o Granted(u)
              /\ IF c = Reaper THEN Goto(c, "dead") /\ running' = None /\ UNCHANGED loc
                 ELSE Return(c, "cancelled")
              /\ UNCHANGED <<op, touched>>
         ELSE /\ op' = IF op[u] = o THEN [op EXCEPT ![u] = None] ELSE op
              /\ Release(u) /\ ready' = ready \o Granted(u)
              /\ loc' = [loc EXCEPT ![c].op = None]
              /\ Goto(c, IF c = Reaper THEN "sweep" ELSE "deleted")
              /\ touched' = IF c = Reaper THEN [touched EXCEPT ![u] = TRUE] ELSE touched
              /\ UNCHANGED running
    /\ UNCHANGED <<known, labState, status, ops, doneEvent, sweep, pass, serving, env>>

-----------------------------------------------------------------------------
(* The task of an operation: _monitor_operation around _spawn_lab,          *)
(* _watch_lab_spawn or _delete_lab                                          *)

OpAt(o, l) == running = o /\ ops[o].pc = l /\ ~ops[o].cancel
OpReplied(o, l) == OpAt(o, l) /\ ops[o].reply = "ok"

\* Go on to the next await.
OpAwait(o, l) ==
    /\ ops' = [ops EXCEPT ![o].pc = l, ![o].reply = None, ![o].cancel = FALSE]
    /\ Suspend
    /\ UNCHANGED doneEvent

SetStatus(o, s) == status' = [status EXCEPT ![ops[o].st] = s]

\* Whether the end of a task sets `complete': its finally clause runs unless the
\* task was cancelled before it started.
\* Mutant: it is set for spawns only, as _spawner_done is.
CompletesSpawnOnly(o, started) == started /\ IsSpawn(o)
Completes(o, started) == started

\* Whether it sets _spawner_done, which wakes the reaper.
\* Mutant: never.
SpawnerDoneNever(o, started) == FALSE
SpawnerDone(o, started) == started /\ IsSpawn(o)

\* The task ends.  Unless it never started, its finally clause sets the
\* `complete' event of the monitor's current operation, and a spawn sets
\* _spawner_done.  Waiters of `complete' are woken first, then the reaper, then
\* the task waiting in cancel() for this one.
OpFinish(o, res, started) ==
    LET u == ops[o].user
        cur == op[u]
        notify == Completes(o, started) /\ cur # None
        fin == [ops EXCEPT ![o] = [IdleOp EXCEPT !.kind = ops[o].kind, !.result = res]]
        wakeReaper == /\ SpawnerDone(o, started) /\ serving
                      /\ pc[Reaper] = "asleep" /\ ~Scheduled(Reaper)
        wakeJoiner == lock[u] # <<>> /\ pc[Head(lock[u])] = "cancelled"
    IN
    /\ ops' = IF notify THEN [fin EXCEPT ![cur].complete = TRUE, ![cur].waiters = <<>>]
              ELSE fin
    /\ doneEvent' = (doneEvent \/ SpawnerDone(o, started))
    /\ running' = None
    /\ ready' = ready \o (IF notify THEN ops[cur].waiters ELSE <<>>)
                      \o (IF wakeReaper THEN <<Reaper>> ELSE <<>>)
                      \o (IF wakeJoiner THEN <<Head(lock[u])>> ELSE <<>>)

OpStart(o) ==
    /\ OpAt(o, "created")
    /\ OpAwait(o, CASE ops[o].kind = "WATCH" -> "podStart"
                    [] ops[o].kind = "SPAWN" /\ ~ops[o].first -> "secrets"
                    [] OTHER -> "delPod")
    /\ UNCHANGED status

\* _delete_lab: the pod, then the namespace; a spawn goes on with its secrets.
OpDelete(o) ==
    \/ OpReplied(o, "delPod") /\ OpAwait(o, "delNs") /\ UNCHANGED status
    \/ /\ OpReplied(o, "delNs")
       /\ SetStatus(o, "TERMINATED")
       /\ IF ops[o].kind = "DELETE" THEN OpFinish(o, "ok", TRUE) ELSE OpAwait(o, "secrets")

\* _spawn_lab: the objects of the lab, namespace first and pod last.
OpCreate(o) ==
    \/ OpReplied(o, "secrets") /\ SetStatus(o, "PENDING") /\ OpAwait(o, "mkNs")
    \/ OpReplied(o, "mkNs") /\ OpAwait(o, "mkPod") /\ UNCHANGED status
    \/ OpReplied(o, "mkPod") /\ OpAwait(o, "podStart") /\ UNCHANGED status

\* _watch_lab_spawn: whatever wait_for_pod_start returns, the lab is running
\* once the event watcher has been stopped.  A cancellation that arrives while
\* the watcher is being awaited is suppressed with the watcher's own.
OpWatch(o) ==
    \/ OpReplied(o, "podStart") /\ OpAwait(o, "unwatch") /\ UNCHANGED status
    \/ /\ running = o /\ ops[o].pc = "unwatch"
       /\ SetStatus(o, "RUNNING") /\ OpAwait(o, "publish")
    \/ /\ running = o /\ ops[o].pc = "unwatchErr"
       /\ OpAwait(o, "report") /\ UNCHANGED status

\* The metric of a successful spawn; if publishing raises, so does the task.
OpPublish(o) ==
    /\ OpAt(o, "publish")
    /\ OpFinish(o, IF ops[o].reply = "err" THEN "raised" ELSE "ok", TRUE)
    /\ UNCHANGED status

\* An exception, TimeoutError included, is reported, then the lab is failed.
OpError(o) ==
    \/ /\ \E l \in Mutating \cup {"secrets", "podStart"} : OpAt(o, l)
       /\ ops[o].reply = "err"
       /\ OpAwait(o, IF ops[o].pc = "podStart" THEN "unwatchErr" ELSE "report")
       /\ UNCHANGED status
    \/ /\ OpAt(o, "report")
       /\ SetStatus(o, "FAILED")
       /\ IF IsSpawn(o) THEN OpAwait(o, "publishFail") ELSE OpFinish(o, "ok", TRUE)
    \/ /\ OpAt(o, "publishFail")
       /\ OpFinish(o, IF ops[o].reply = "err" THEN "raised" ELSE "ok", TRUE)
       /\ UNCHANGED status

\* CancelledError ends the task, and even skips its finally clause when the
\* task had not started.
OpCancelled(o) ==
    /\ running = o /\ ops[o].cancel /\ ops[o].pc \notin {"unwatch", "unwatchErr"}
    /\ OpFinish(o, "cancelled", ops[o].pc # "created")
    /\ UNCHANGED status

OpStep(o) ==
    /\ OpStart(o) \/ OpDelete(o) \/ OpCreate(o) \/ OpWatch(o)
         \/ OpPublish(o) \/ OpError(o) \/ OpCancelled(o)
    /\ UNCHANGED <<pc, loc, known, labState, touched, op, lock, sweep, pass, serving, env>>

-----------------------------------------------------------------------------
(* Kubernetes as seen by an operation *)

\* The effect of a mutating call on a user's namespace.
Effect(call, k) ==
    CASE call = "delPod" -> IF k \in Phases THEN "partial" ELSE k
      [] call = "delNs" -> "absent"
      [] call = "mkNs" -> IF k = "absent" THEN "partial" ELSE k
      [] call = "mkPod" -> IF k = "partial" THEN "Pending" ELSE k
      [] OTHER -> k

\* Whether a call of an operation can succeed now: creating what exists is a
\* conflict, creating a pod needs its namespace, and wait_for_pod_start returns
\* once the pod has left Pending and Unknown, or is gone.
Succeeds(call, k) ==
    CASE call = "mkNs" -> k = "absent"
      [] call = "mkPod" -> k = "partial"
      [] call = "podStart" -> k \notin {"Pending", "Unknown"}
      [] OTHER -> TRUE

Fault == faults < MaxFaults /\ faults' = faults + 1

Waiting(o) == /\ running = None /\ ~Scheduled(o)
              /\ ops[o].pc \in Awaits

OpReply(o) ==
    LET u == ops[o].user
        call == ops[o].pc IN
    /\ Waiting(o)
    /\ \/ /\ Succeeds(call, k8s[u])
          /\ k8s' = [k8s EXCEPT ![u] = Effect(call, @)]
          /\ ops' = [ops EXCEPT ![o].reply = "ok"]
          /\ UNCHANGED <<stray, faults>>
       \/ /\ ~Succeeds(call, k8s[u])
          /\ ops' = [ops EXCEPT ![o].reply = "err"]
          /\ UNCHANGED <<k8s, stray, faults>>
       \/ /\ call \notin {"unwatch", "unwatchErr", "report"}
          /\ Fault
          /\ ops' = [ops EXCEPT ![o].reply = "err"]
          /\ \/ UNCHANGED stray
             \/ call \in Mutating /\ stray' = [stray EXCEPT ![u] = call]
          /\ UNCHANGED k8s
    /\ ready' = Append(ready, o)
    /\ UNCHANGED <<running, pc, loc, labs, op, lock, doneEvent, sweep, pass, serving>>
=============================================================================
