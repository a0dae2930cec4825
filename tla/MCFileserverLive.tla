-------------------------- MODULE MCFileserverLive --------------------------
(***************************************************************************)
(* FileserverManager for the liveness runs.  As for the labs, the timer of *)
(* the reconciler fires only until MaxQuiet passes in a row have found     *)
(* nothing to change, and the process keeps going while it or a service it *)
(* waits for has a step to take.                                           *)
(***************************************************************************)
EXTENDS MCFileserver

CONSTANT MaxQuiet   \* passes without any change after which the timer stops
ASSUME MaxQuietAssumption == MaxQuiet \in Nat \ {0}

VARIABLE quiet      \* passes begun since the last change

\* What a pass could react to, or change.
observable == <<servers, [s \in StateIds |-> <<state[s].running, state[s].inProgress>>],
                k8s, faults, [r \in Requests |-> pc[r]]>>

LiveInit == Init /\ quiet = 0

TimerFires == pc[Reconciler] = "timer" /\ pc'[Reconciler] = "begin"

LiveNext ==
    /\ Next
    /\ TimerFires => quiet < MaxQuiet
    /\ quiet' = IF TimerFires THEN quiet + 1
                ELSE IF UNCHANGED observable THEN quiet ELSE 0

\* The loop runs what is ready; every await on another service ends, because it
\* has a timeout; sleeps end; a failed startup is retried.
Progress == LoopStep \/ Answer \/ StartupFails

LiveVars == <<vars, quiet>>
LiveSpec == LiveInit /\ [][LiveNext]_LiveVars /\ WF_LiveVars(LiveNext /\ Progress)
=============================================================================
