------------------------------ MODULE MCPurger ------------------------------
(* A policy for /scratch and, with other intervals, for /scratch/proj/sub;   *)
(* proj is above a directory of the policy, sub/old/older can become empty. *)
EXTENDS Purger

McDirs == {"scratch", "proj", "sub", "old", "older"}
McFiles == {"data", "log"}
McNamed == {"scratch", "sub"}

McParent ==
    [p \in McDirs \cup McFiles |->
       CASE p = "scratch" -> "root" [] p = "proj" -> "scratch"
         [] p = "sub" -> "proj" [] p = "old" -> "sub" [] p = "older" -> "old"
         [] p = "data" -> "proj" [] p = "log" -> "older"]

McLength ==
    [d \in McDirs |->
       CASE d = "scratch" -> 8 [] d = "proj" -> 13 [] d = "sub" -> 17
         [] d = "old" -> 21 [] d = "older" -> 27]

McThreshold == [d \in McNamed |-> 1]

\* In /scratch what was not accessed for a tick is too old; in sub what was not
\* changed or modified for a tick, and never a large file.
McInterval ==
    [d \in McNamed |->
       [c \in {"large", "small"} |->
          [k \in {"atime", "ctime", "mtime"} |->
             IF d = "scratch" THEN IF k = "atime" THEN 1 ELSE 0
             ELSE IF c = "small" /\ k # "atime" THEN 1 ELSE 0]]]
=============================================================================
