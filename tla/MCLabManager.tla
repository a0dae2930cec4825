---------------------------- MODULE MCLabManager ----------------------------
(***************************************************************************)
(* LabManager for the safety run: all requests without failures, or fewer  *)
(* of them with failures.                                                  *)
(***************************************************************************)
EXTENDS LabManager, TLC

CONSTANT MaxFaulty  \* requests that are made in a behaviour with failures
ASSUME MaxFaultyAssumption == MaxFaulty \in Nat

\* Requests are interchangeable as long as only safety is checked.
RequestSymmetry == Permutations(Requests)

Bounded == faults' = 0 \/ Cardinality({r \in Requests : pc'[r] # "idle"}) <= MaxFaulty

SafetySpec == Init /\ [][Next /\ Bounded]_vars
=============================================================================
