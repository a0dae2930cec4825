--------------------------- MODULE FSAdminService ---------------------------
(***************************************************************************)
(* What the routes of the file system admin instance promise, as a service *)
(* that works on one request at a time: an instance is created only while  *)
(* a create is served, and every answer is true of the instance at the     *)
(* moment it is given.  Between two requests pods start, exit and vanish   *)
(* as they like.  Only a create that failed may bring an instance later,   *)
(* also while a delete is served, which then cannot know.                  *)
(***************************************************************************)
CONSTANTS
    Requests,  \* the calls of the routes
    NoOne      \* no request is being served

VARIABLES
    instance,  \* "none", "partial" (not running, or not all of it), "running"
    serving,   \* the request being served
    kinds,     \* what each request asks for
    replies    \* what it was told, or "none"

vars == <<instance, serving, kinds, replies>>

Init ==
    /\ instance \in {"none", "partial", "running"}
    /\ serving = NoOne
    /\ kinds \in [Requests -> {"create", "delete", "status"}]
    /\ replies = [r \in Requests |-> "none"]

Serve(r) ==
    /\ serving = NoOne /\ replies[r] = "none"
    /\ serving' = r
    /\ UNCHANGED <<instance, kinds, replies>>

\* A create has failed, and a call of its may not have landed yet.
Late == \E r \in Requests : kinds[r] = "create" /\ replies[r] = "error"

\* A delete is over once nothing is left, the others succeed if the instance
\* runs.  Any of them may fail instead.
True(r, reply) ==
    /\ reply = "running" => kinds[r] # "delete" /\ instance = "running"
    /\ reply = "missing" => kinds[r] # "delete" /\ instance # "running"
    /\ reply = "gone" => kinds[r] = "delete" /\ (instance = "none" \/ Late)

Answer(r) ==
    /\ serving = r
    /\ \E reply \in {"running", "missing", "gone", "error"} :
         /\ True(r, reply)
         /\ replies' = [replies EXCEPT ![r] = reply]
    /\ serving' = NoOne
    /\ UNCHANGED <<instance, kinds>>

\* From nothing an instance comes only by a create, and does not run at once.
Change ==
    /\ instance' \in {"none", "partial", "running"}
    /\ instance = "none" =>
         /\ Late \/ (serving # NoOne /\ kinds[serving] = "create")
         /\ instance' = "partial"
    /\ UNCHANGED <<serving, kinds, replies>>

Next == Change \/ \E r \in Requests : Serve(r) \/ Answer(r)

Spec == Init /\ [][Next]_vars
=============================================================================
