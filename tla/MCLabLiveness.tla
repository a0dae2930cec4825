--------------------------- MODULE MCLabLiveness ---------------------------
(***************************************************************************)
(* LabManager for the liveness run.  The reconciler is timed, so the       *)
(* system never stops; here its timer fires only until MaxQuiet passes in  *)
(* a row have found nothing to change.  Every behaviour then ends, and the *)
(* one fairness assumption needed is that the process does not stop while  *)
(* it or a service it waits for has a step to take.                        *)
(***************************************************************************)
EXTENDS LabManager

CONSTANTS
    MaxQuiet,   \* passes without any change after which the timer stops
    MaxFaulty   \* requests that are made in a behaviour with failures
ASSUME BoundsAssumption == MaxQuiet \in Nat \ {0} /\ MaxFaulty \in Nat

VARIABLES
    quiet,      \* passes begun since the last change
    crowded     \* whether all requests may be made

\* What a pass could react to, or change.
observable == <<labState, status, op, k8s, stray, faults, [r \in Requests |-> pc[r]]>>

\* All the requests at once, on an empty cluster and without failures, or a
\* few of them on any cluster and with failures.
LiveInit ==
    /\ Init /\ quiet = 0
    /\ crowded \in BOOLEAN
    /\ crowded => \A u \in Users : k8s[u] = "absent"

Bounded ==
    IF crowded THEN faults' = 0
    ELSE Cardinality({r \in Requests : pc'[r] # "idle"}) <= MaxFaulty

TimerFires == pc[Reconciler] = "timer" /\ pc'[Reconciler] = "begin"

LiveNext ==
    /\ Next /\ Bounded
    /\ TimerFires => quiet < MaxQuiet
    /\ quiet' = IF TimerFires THEN quiet + 1
                ELSE IF UNCHANGED observable THEN quiet ELSE 0
    /\ UNCHANGED crowded

\* The loop runs what is ready; every await on another service ends, because it
\* has a timeout; sleeps end; a failed startup is retried.
Progress ==
    \/ LoopStep
    \/ \E c \in Callers : CallerReply(c)
    \/ \E o \in OpIds : OpReply(o)
    \/ \E u \in Users : StrayLands(u)
    \/ StartupFails

LiveVars == <<vars, quiet, crowded>>
LiveSpec == LiveInit /\ [][LiveNext]_LiveVars /\ WF_LiveVars(LiveNext /\ Progress)
=============================================================================
