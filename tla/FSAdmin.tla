------------------------------ MODULE FSAdmin -------------------------------
(***************************************************************************)
(* FSAdminManager: the file system admin instance, a pod and a volume      *)
(* claim, which requests create, delete and ask for under one lock.  Every *)
(* step is a call of the Kubernetes API or a wait, and may end in an error *)
(* or run out of the request's time (which began before it had the lock);  *)
(* a call that was given up may take effect later, when the lock is long   *)
(* somebody else's; the objects change of their own accord at any moment.  *)
(*                                                                         *)
(* Several volume claims are handled alike, one after the other, and are   *)
(* one claim here.                                                         *)
(***************************************************************************)
CONSTANTS
    Requests,
    NoOne

ASSUME NoOneAssumption == NoOne \notin Requests

VARIABLES
    exists,   \* of each object: "absent", "there" or, once deleted, "dying"
    phase,    \* of the pod, if there is one
    holder,   \* of the lock
    kinds,    \* what each request asks for
    calls,    \* where each request is, and about which object
    replies,  \* what it was told, or "none"
    strays    \* calls that nobody waits for any more and that may still land

adminVars == <<exists, phase, holder, kinds, calls, replies, strays>>
objects == <<exists, phase>>

Objects == {"pvc", "pod"}
Phases == {"Pending", "Running", "Exited", "Unknown"}

\* Steps of a request that has the lock.
Inside == {"status", "create", "delete", "gone", "again", "phase", "final"}

Call(at, o) == [at |-> at, obj |-> o]

\* A restarted controller finds whatever the one before left behind, whose calls
\* have all come to an end.
AdminInit ==
    /\ exists \in [Objects -> {"absent", "there", "dying"}]
    /\ phase \in Phases
    /\ holder = NoOne
    /\ kinds \in [Requests -> {"create", "delete", "status"}]
    /\ calls = [r \in Requests |-> Call("lock", "pod")]
    /\ replies = [r \in Requests |-> "none"]
    /\ strays = {}

Proceed(r, at, o) == calls' = [calls EXCEPT ![r] = Call(at, o)]

\* The request ends, which releases the lock.
Answer(r, reply) ==
    /\ replies' = [replies EXCEPT ![r] = reply]
    /\ Proceed(r, "done", calls[r].obj)
    /\ holder' = NoOne

Working(r, at) == holder = r /\ calls[r].at = at

\* A possible mistake: the lock is forgotten.
FreeAlways == TRUE

Free == holder = NoOne

Acquire(r) ==
    /\ calls[r].at = "lock" /\ Free
    /\ holder' = r
    /\ IF kinds[r] = "delete" THEN Proceed(r, "delete", "pod")
                              ELSE Proceed(r, "status", "pod")
    /\ UNCHANGED <<objects, kinds, replies, strays>>

Running == exists["pod"] # "absent" /\ phase = "Running"

\* storage.get_status: a pod in any other phase is as good as none.  Only a
\* create goes on from there.
GetStatus(r) ==
    /\ Working(r, "status")
    /\ IF Running THEN Answer(r, "running")
       ELSE IF kinds[r] = "create"
       THEN Proceed(r, "create", "pvc") /\ UNCHANGED <<holder, replies>>
       ELSE Answer(r, "missing")
    /\ UNCHANGED <<objects, kinds, strays>>

\* What follows once an object was created.
Created(r) ==
    IF calls[r].obj = "pvc" THEN Proceed(r, "create", "pod") ELSE Proceed(r, "phase", "pod")

Make(o) ==
    /\ exists' = [exists EXCEPT ![o] = "there"]
    /\ phase' = IF o = "pod" THEN "Pending" ELSE phase

\* create(replace=True): an object that exists is in the way.
Create(r) ==
    /\ Working(r, "create")
    /\ IF exists[calls[r].obj] = "absent"
       THEN Make(calls[r].obj) /\ Created(r)
       ELSE Proceed(r, "delete", calls[r].obj) /\ UNCHANGED objects
    /\ UNCHANGED <<holder, kinds, replies, strays>>

\* The second time, a conflict is an error.
CreateAgain(r) ==
    /\ Working(r, "again") /\ exists[calls[r].obj] = "absent"
    /\ Make(calls[r].obj) /\ Created(r)
    /\ UNCHANGED <<holder, kinds, replies, strays>>

\* What follows once an object is gone: a create makes it anew, a delete goes
\* on to the volume claim and is then done.
Removed(r) ==
    IF kinds[r] = "create"
    THEN Proceed(r, "again", calls[r].obj) /\ UNCHANGED <<holder, replies>>
    ELSE IF calls[r].obj = "pod"
    THEN Proceed(r, "delete", "pvc") /\ UNCHANGED <<holder, replies>>
    ELSE Answer(r, "gone")

\* delete(wait=True): no such object is as good as success.
Delete(r) ==
    /\ Working(r, "delete")
    /\ IF exists[calls[r].obj] = "absent"
       THEN Removed(r) /\ UNCHANGED exists
       ELSE /\ exists' = [exists EXCEPT ![calls[r].obj] = "dying"]
            /\ Proceed(r, "gone", calls[r].obj)
            /\ UNCHANGED <<holder, replies>>
    /\ UNCHANGED <<phase, kinds, strays>>

\* A possible mistake: an object that is being deleted counts as gone.
VanishedUnwatched(o) == exists[o] # "there"

\* What wait_for_deletion waits for.
Vanished(o) == exists[o] = "absent"

AwaitGone(r) ==
    /\ Working(r, "gone") /\ Vanished(calls[r].obj)
    /\ Removed(r)
    /\ UNCHANGED <<objects, kinds, strays>>

\* wait_for_phase: ends as well if the pod disappears.
AwaitPhase(r) ==
    /\ Working(r, "phase")
    /\ exists["pod"] = "absent" \/ phase \notin {"Pending", "Unknown"}
    /\ Proceed(r, "final", "pod")
    /\ UNCHANGED <<objects, holder, kinds, replies, strays>>

\* The status of the new pod is the answer.
FinalStatus(r) ==
    /\ Working(r, "final")
    /\ Answer(r, IF Running THEN "running" ELSE "missing")
    /\ UNCHANGED <<objects, kinds, strays>>

\* The call of a request that is under way and changes something.
Underway(r) ==
    {Call(at, calls[r].obj) : at \in CASE calls[r].at \in {"create", "again"} -> {"create"}
                                       [] calls[r].at = "delete" -> {"delete"}
                                       [] OTHER -> {}}

\* The call fails, before or after it took effect, or the time is up, and the
\* call may have been sent.
Fail(r) ==
    /\ holder = r
    /\ \E sent \in SUBSET Underway(r) : strays' = strays \cup sent
    /\ Answer(r, "error")
    /\ UNCHANGED <<objects, kinds>>

Work(r) ==
    \/ Acquire(r) \/ GetStatus(r) \/ Create(r) \/ CreateAgain(r) \/ Delete(r)
    \/ AwaitGone(r) \/ AwaitPhase(r) \/ FinalStatus(r) \/ Fail(r)

\* ------------------------------------------------------------------------
\* Kubernetes

\* The pod starts, exits, is lost from sight or found again.
PodChanges ==
    /\ exists["pod"] # "absent" /\ phase # "Exited"
    /\ phase' \in Phases \ {phase}
    /\ phase' = "Pending" => phase = "Unknown"
    /\ UNCHANGED <<exists, holder, kinds, calls, replies, strays>>

\* Somebody else deletes the pod, or its node is drained.
PodEvicted ==
    /\ exists["pod"] = "there"
    /\ exists' = [exists EXCEPT !["pod"] = "dying"]
    /\ UNCHANGED <<phase, holder, kinds, calls, replies, strays>>

\* A deleted pod goes once its processes have ended, a volume claim once no
\* pod uses it.
Vanishes(o) ==
    /\ exists[o] = "dying"
    /\ o = "pvc" => exists["pod"] = "absent" \/ phase \in {"Pending", "Exited"}
    /\ exists' = [exists EXCEPT ![o] = "absent"]
    /\ UNCHANGED <<phase, holder, kinds, calls, replies, strays>>

\* A call that was given up takes effect after all, if it still can.
CreateLands(o) ==
    /\ Call("create", o) \in strays
    /\ strays' = strays \ {Call("create", o)}
    /\ IF exists[o] = "absent" THEN Make(o) ELSE UNCHANGED objects
    /\ UNCHANGED <<holder, kinds, calls, replies>>

DeleteLands(o) ==
    /\ Call("delete", o) \in strays
    /\ strays' = strays \ {Call("delete", o)}
    /\ exists' = [exists EXCEPT ![o] = IF @ = "there" THEN "dying" ELSE @]
    /\ UNCHANGED <<phase, holder, kinds, calls, replies>>

Kubernetes ==
    \/ PodChanges \/ PodEvicted
    \/ \E o \in Objects : Vanishes(o) \/ CreateLands(o) \/ DeleteLands(o)

AdminNext == Kubernetes \/ \E r \in Requests : Work(r)

AdminSpec == AdminInit /\ [][AdminNext]_adminVars

\* ------------------------------------------------------------------------
\* Properties

\* Every variable has its type, and the lock does its work: the one request
\* that is neither waiting nor answered holds it.
AdminTypeOK ==
    /\ exists \in [Objects -> {"absent", "there", "dying"}]
    /\ phase \in Phases
    /\ holder \in Requests \cup {NoOne}
    /\ kinds \in [Requests -> {"create", "delete", "status"}]
    /\ calls \in [Requests -> [at : Inside \cup {"lock", "done"}, obj : Objects]]
    /\ replies \in [Requests -> {"none", "running", "missing", "gone", "error"}]
    /\ \A r \in Requests : calls[r].at \in Inside <=> holder = r
    /\ strays \subseteq [at : {"create", "delete"}, obj : Objects]

\* The instance as the abstract service knows it.
Instance ==
    IF Running THEN "running"
    ELSE IF \A o \in Objects : exists[o] = "absent" THEN "none"
    ELSE "partial"

Service == INSTANCE FSAdminService WITH instance <- Instance, serving <- holder

\* The manager implements the service: requests are served one at a time, and
\* in particular a delete answers only once pod and claim are gone, although
\* it removed them one after the other and others were waiting to create them;
\* the one exception is what a create that had failed still brings.
Implements == Service!Spec

\* handlers/fsadmin.py: "On successful return, the fsadmin instance is
\* operational."  Not so: get_status looks only at the phase, and a pod that
\* is being deleted keeps its phase until it is gone.
OperationalWhenTold ==
    [][\A r \in Requests :
         replies[r] = "none" /\ replies'[r] = "running" => exists["pod"] = "there"]_adminVars
=============================================================================
