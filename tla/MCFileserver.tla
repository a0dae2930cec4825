---------------------------- MODULE MCFileserver ----------------------------
(* Instances of FileserverManager for TLC.                                 *)
EXTENDS FileserverManager, TLC

\* Requests are interchangeable in the runs that check only safety.
RequestSymmetry == Permutations(Requests)

\* Nothing is left of earlier incarnations; a complete file server, or one that
\* was being created.
Nothing == {NoObjects}
Complete == [ingress |-> "ready", job |-> "running"]
Leftovers == {NoObjects, Complete, [ingress |-> "waiting", job |-> "pending"]}
=============================================================================
