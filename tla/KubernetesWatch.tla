--------------------------- MODULE KubernetesWatch ---------------------------
(***************************************************************************)
(* How the controller waits for something to happen to a Kubernetes object *)
(* (src/src/nublado/controller/storage/kubernetes/: watcher.py, deleter.py,*)
(* creator.py, namespace.py, custom.py, pod.py, ingress.py, and timeout.py *)
(* above it).  Every wait reads the object, then watches it from the       *)
(* version it read.  A watch ends and restarts at any time, and when its   *)
(* version has expired it restarts without one, which loses events.  Waits *)
(* for a deletion or a creation keep a reserve of their timeout for a last *)
(* look at the object.                                                     *)
(*                                                                         *)
(* One caller waits, everyone else changes the object.  history[i] is the  *)
(* state the object's resource version i stands for.                       *)
(***************************************************************************)
EXTENDS Integers, Sequences

CONSTANTS
    Kinds,       \* what the caller may wait for
    Duration,    \* length of the caller's Timeout, in ticks
    Reserve,     \* what is kept for the last look (2 s in the code), in ticks
    MaxVersion,  \* bound on the versions of the object
    MaxFaults,   \* bound on API errors
    None

States == {"absent", "waiting", "reached"}

\* Waits for a deletion: of an object, of a custom object, and the one inside a
\* create with replace.
Deletions == {"deletion", "custom", "replace"}
AllKinds == Deletions \cup {"creation", "phase", "address"}
Results == {"met", "gone", "conflict", "timeout", "error"}

ASSUME WatchConstants ==
    /\ Kinds \subseteq AllKinds
    /\ Duration \in Nat \ {0} /\ Reserve \in 0..Duration
    /\ MaxVersion \in Nat \ {0} /\ MaxFaults \in Nat
    /\ None \notin Nat \cup States \cup Results

VARIABLES
    history,    \* states of the object, oldest first; the first at the call
    compacted,  \* the versions before this one have expired
    now,        \* time since the call
    kind,       \* what is being waited for
    pc,         \* where the caller is
    rv,         \* args["resource_version"] of the watch, or None
    stream,     \* the open watch: the version it has reached, and the state of
                \* the object if the first event that describes it is still due
    result,     \* how the call ended, or None
    faults,     \* API errors so far
    atLimit     \* the version when the time for watching was over (auxiliary)

server == <<history, compacted>>
vars == <<server, now, kind, pc, rv, stream, result, faults, atLimit>>

Closed == [pos |-> 0, first |-> None]
Latest == Len(history)
Object == history[Latest]

-----------------------------------------------------------------------------
(* Timeouts *)

\* Waits for a deletion or a creation have a last look at the object.
LastLook == Deletions \cup {"creation"}

\* watch_timeout expires: timeout.partial(timeout.left() - 2), or all of it.
Limit == IF kind \in LastLook THEN Duration - Reserve ELSE Duration

\* Timeout.left() of a timeout that expires at time t raises.
\* Mutant: it never does.
NeverExpired(t) == FALSE
Expired(t) == t - now <= 0

-----------------------------------------------------------------------------
(* The end of a wait *)

Finish(r) == pc' = "done" /\ result' = r

\* What was waited for has happened; a replacement then creates its object.
Happened(r) == IF kind = "replace" THEN pc' = "recreate" /\ UNCHANGED result
               ELSE Finish(r)

\* A call of the API server fails.
Fails == /\ faults < MaxFaults /\ faults' = faults + 1
         /\ Finish("error")
         /\ UNCHANGED <<server, now, kind, rv, stream, atLimit>>

\* The whole timeout has expired when the next call is about to be made.
OutOfTime ==
    /\ pc \in {"create", "delete", "read", "recheck", "recreate"} /\ Expired(Duration)
    /\ Finish("timeout")
    /\ UNCHANGED <<server, now, kind, rv, stream, faults, atLimit>>

-----------------------------------------------------------------------------
(* Create with replace: create, and on a conflict delete and create again *)

Created == Latest < MaxVersion /\ history' = Append(history, "waiting")

Create ==
    /\ pc = "create" /\ ~Expired(Duration)
    /\ IF Object = "absent" THEN Created /\ Finish("met")
                            ELSE pc' = "delete" /\ UNCHANGED <<history, result>>
    /\ UNCHANGED <<compacted, now, kind, rv, stream, faults, atLimit>>

\* An object that is missing by now needs no wait.  Otherwise it goes away at
\* once or later.
Delete ==
    /\ pc = "delete" /\ ~Expired(Duration)
    /\ \/ Object = "absent" /\ pc' = "recreate" /\ UNCHANGED history
       \/ Object # "absent" /\ pc' = "read" /\ UNCHANGED history
       \/ /\ Object # "absent" /\ Latest < MaxVersion
          /\ pc' = "read" /\ history' = Append(history, "absent")
    /\ UNCHANGED <<compacted, now, kind, rv, stream, result, faults, atLimit>>

\* Someone else may have created an object of that name meanwhile.
Recreate ==
    /\ pc = "recreate" /\ ~Expired(Duration)
    /\ IF Object = "absent" THEN Created /\ Finish("met")
                            ELSE Finish("conflict") /\ UNCHANGED history
    /\ UNCHANGED <<compacted, now, kind, rv, stream, faults, atLimit>>

-----------------------------------------------------------------------------
(* The read before the watch *)

\* The states of the object in which there is nothing to wait for.
Settles(state) ==
    \/ kind \in Deletions /\ state = "absent"
    \/ kind = "creation" /\ state # "absent"
    \/ kind = "phase" /\ state # "waiting"
    \/ kind = "address" /\ state = "reached"

Outcome(state) == IF kind = "phase" /\ state = "absent" THEN "gone" ELSE "met"

\* wait_for_creation passes no version; custom objects are dictionaries, whose
\* version has another key than the one looked up.
\* Mutant: the watch begins one version too late.
VersionAfter == IF kind \in {"creation", "custom"} \/ Object = "absent" THEN None ELSE Latest + 1
VersionRead == IF kind \in {"creation", "custom"} \/ Object = "absent" THEN None ELSE Latest

\* Timeout.partial raises if less than the reserve is left.
Read ==
    /\ pc = "read" /\ ~Expired(Duration)
    /\ \/ /\ Settles(Object) /\ Happened(Outcome(Object)) /\ UNCHANGED rv
       \/ /\ ~Settles(Object) /\ now > Limit
          /\ Finish("timeout") /\ UNCHANGED rv
       \/ /\ ~Settles(Object) /\ now <= Limit
          /\ pc' = "connect" /\ rv' = VersionRead /\ UNCHANGED result
    /\ UNCHANGED <<server, now, kind, stream, faults, atLimit>>

-----------------------------------------------------------------------------
(* KubernetesWatcher.watch *)

\* A 410 error: the version watched from has expired, or the stream has fallen
\* behind; the watch restarts without a version.
Gone == /\ rv' = None /\ stream' = Closed /\ pc' = "connect"
        /\ UNCHANGED <<server, now, kind, result, faults, atLimit>>

\* A stream continues after a version, or begins with an ADDED event for the
\* object as it is now.
Connect ==
    /\ pc = "connect" /\ ~Expired(Limit)
    /\ \/ rv # None /\ rv < compacted /\ Gone
       \/ /\ rv # None => rv >= compacted
          /\ stream' = IF rv # None THEN [pos |-> rv, first |-> None]
                       ELSE [pos |-> Latest,
                             first |-> IF Object = "absent" THEN None ELSE Object]
          /\ pc' = "stream"
          /\ UNCHANGED <<server, now, kind, rv, result, faults, atLimit>>

\* The server or the client ends the stream, or sends something unexpected.
Disconnect ==
    /\ pc = "stream"
    /\ stream' = Closed /\ pc' = "connect"
    /\ UNCHANGED <<server, now, kind, rv, result, faults, atLimit>>

FallBehind == pc = "stream" /\ stream.first = None /\ stream.pos < compacted /\ Gone

\* The event that version i stands for.
EventType(i) == IF history[i] = "absent" THEN "DELETED"
                ELSE IF history[i - 1] = "absent" THEN "ADDED" ELSE "MODIFIED"

\* The event that ends the wait.
\* Mutant: any change of the object ends a wait for its deletion.
EndsOnChange(type, state) == kind \in Deletions
Ends(type, state) ==
    \/ kind \in Deletions /\ type = "DELETED"
    \/ kind = "creation" /\ type = "ADDED"
    \/ kind = "phase" /\ (type = "DELETED" \/ state = "reached")
    \/ kind = "address" /\ type # "DELETED" /\ state = "reached"

Event ==
    LET pos == stream.pos + 1
        initial == stream.first # None
        type  == IF initial THEN "ADDED" ELSE EventType(pos)
        state == IF initial THEN stream.first ELSE history[pos] IN
    /\ pc = "stream"
    /\ initial \/ (stream.pos < Latest /\ stream.pos >= compacted)
    /\ IF Ends(type, state) THEN Happened(Outcome(state)) /\ stream' = Closed
       ELSE /\ stream' = [pos |-> IF initial THEN stream.pos ELSE pos, first |-> None]
            /\ UNCHANGED <<pc, result>>
    /\ UNCHANGED <<server, now, kind, rv, faults, atLimit>>

\* left() or enforce() raises ControllerTimeoutError.
\* Mutant: the last look is left out.
NoLastLook == Finish("timeout")
AfterWatch == IF kind \in LastLook THEN pc' = "recheck" /\ UNCHANGED result
              ELSE Finish("timeout")

WatchTimeout ==
    /\ pc \in {"connect", "stream"} /\ Expired(Limit)
    /\ AfterWatch
    /\ stream' = Closed
    /\ UNCHANGED <<server, now, kind, rv, faults, atLimit>>

\* The last look at the object.
Recheck ==
    /\ pc = "recheck" /\ ~Expired(Duration)
    /\ IF Settles(Object) THEN Happened("met") ELSE Finish("timeout")
    /\ UNCHANGED <<server, now, kind, rv, stream, faults, atLimit>>

ApiError == pc # "done" /\ Fails

-----------------------------------------------------------------------------
(* Time, the other users of the object, and the specification *)

Tick ==
    /\ now < Duration /\ pc # "done"
    /\ now' = now + 1
    /\ atLimit' = IF now' <= Limit THEN Latest ELSE atLimit
    /\ UNCHANGED <<server, kind, pc, rv, stream, result, faults>>

\* The object appears, changes or disappears.
Change ==
    /\ pc # "done" /\ Latest < MaxVersion
    /\ \E s \in States :
          /\ s = "reached" => Object # "absent"
          /\ s = "absent" => Object # "absent"
          /\ history' = Append(history, s)
    /\ atLimit' = IF now <= Limit THEN Latest + 1 ELSE atLimit
    /\ UNCHANGED <<compacted, now, kind, pc, rv, stream, result, faults>>

Compact ==
    /\ pc # "done" /\ compacted < Latest
    /\ compacted' = compacted + 1
    /\ UNCHANGED <<history, now, kind, pc, rv, stream, result, faults, atLimit>>

Init ==
    /\ \E s \in States : history = <<s>>
    /\ compacted = 1 /\ now = 0
    /\ kind \in Kinds
    /\ pc = IF kind = "replace" THEN "create" ELSE "read"
    /\ rv = None /\ stream = Closed /\ result = None
    /\ faults = 0 /\ atLimit = 1

\* The caller, or the reply to what it asked.
Step == \/ Create \/ Delete \/ Recreate \/ Read
        \/ Connect \/ Disconnect \/ FallBehind \/ Event
        \/ WatchTimeout \/ Recheck \/ OutOfTime

Next == Step \/ ApiError \/ Tick \/ Change \/ Compact

Spec == Init /\ [][Next]_vars

\* asyncio runs the caller, every request has a timeout, and time passes.
FairSpec == Spec /\ WF_vars(Step) /\ WF_vars(Tick)

-----------------------------------------------------------------------------
(* Properties *)

\* Every variable of the watch model holds a value of its type.
TypeOK ==
    /\ history \in Seq(States) /\ Latest \in 1..MaxVersion
    /\ compacted \in 1..Latest
    /\ now \in 0..Duration
    /\ kind \in Kinds
    /\ pc \in {"create", "delete", "read", "connect", "stream", "recheck", "recreate", "done"}
    /\ rv \in (1..Latest) \cup {None}
    /\ stream \in [pos : 0..Latest, first : States \cup {None}]
    /\ result \in Results \cup {None}
    /\ faults \in 0..MaxFaults
    /\ atLimit \in 1..Latest

\* That the object reached what a wait is for, in one of its states.
Meets(state) ==
    \/ kind \in Deletions /\ state = "absent"
    \/ kind = "creation" /\ state # "absent"
    \/ kind = "phase" /\ state = IF result = "gone" THEN "absent" ELSE "reached"
    \/ kind = "address" /\ state = "reached"

\* No wait returns on account of something that did not happen during the call:
\* whatever restarts of the watch replayed, skipped or summarized, there was a
\* version of the object, since the call, that it waits for.
ReturnsAreTrue ==
    pc = "recreate" \/ result \in {"met", "gone"} =>
        \E i \in 1..Latest : Meets(history[i])

\* A watch that has caught up does not sit on an object that is what it waits
\* for, although it was restarted, replayed from its first version or summarized
\* in an initial event.  The exception is an object that is gone when a watch
\* without version begins, which no event tells: deletions need a last look.
NothingMissed ==
    /\ pc = "stream" /\ stream = [pos |-> Latest, first |-> None]
    /\ rv # None \/ Object # "absent"
    => ~Settles(Object)

\* "before timing out, do a final check": a wait for a deletion or a creation
\* that gives up with time left has seen that the object was still there, or
\* still missing, when the watch was over, although the event that it waited
\* for may have been lost in a restart of the watch.
TimeoutsAreTrue ==
    result = "timeout" /\ kind \in LastLook /\ now < Duration =>
        \E i \in atLimit..Latest : ~Meets(history[i])

\* Every wait ends, however often its watch is disconnected or expires.
WaitsEnd == <>(pc = "done")
=============================================================================
