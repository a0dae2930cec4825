----------------------------- MODULE LabSession -----------------------------
(***************************************************************************)
(* JupyterLabSessionManager and JupyterLabSession (client/.../_session.py) *)
(* as a program uses them through NubladoClient (client/.../_client.py):   *)
(* it logs in, opens a session in the user's lab, runs code in its kernel  *)
(* over a WebSocket and leaves.  The kernel answers on two channels, whose *)
(* messages arrive interleaved, and may be slow or die.                    *)
(***************************************************************************)
EXTENDS JupyterHttp, Sequences, FiniteSets

CONSTANTS
    MaxLogins,             \* bounds on logins,
    MaxSessions, MaxRuns,  \* on sessions opened and runs of code,
    MaxOutput              \* and on what a run prints

ASSUME SessionAssumption ==
    /\ MaxLogins \in Nat /\ MaxSessions \in Nat /\ MaxRuns \in Nat /\ MaxOutput \in Nat
    /\ None \notin {"running", "ok", "open", "enter", "body", "close", "runtime"}

VARIABLES
    manager,  \* the session manager: where its methods are, and its session
    run,      \* the run of code: its message ID, what was read, how it ended
    wire,     \* messages sent by the kernel and not yet read
    socket,   \* the WebSocket: none, open or closed by the lab
    kernel,   \* what the kernel is executing, what of it is over, what is next
    lab,      \* the sessions that exist in the lab
    printed,  \* what each run has printed so far
    opened,   \* sessions opened so far, and logins
    logins,
    outcome   \* history: how the last context ended

session == <<manager, run, wire, socket, kernel, lab, printed, opened, logins, outcome>>
vars == <<hosts, http, fetch, session>>

Ids == 0..MaxRuns

NoKernel == [id |-> 0, idle |-> FALSE, replied |-> FALSE, next |-> 0]
NoRun == [id |-> 0, complete |-> FALSE, idle |-> FALSE, out |-> 0, result |-> None, closed |-> FALSE]
NoManager == [pc |-> "none", id |-> 0, error |-> FALSE, stale |-> FALSE]
NoOutcome == [id |-> 0, error |-> FALSE, stale |-> FALSE, raised |-> None]

Init ==
    /\ HttpInit
    /\ manager = NoManager /\ run = NoRun
    /\ wire = <<>> /\ socket = None /\ kernel = NoKernel
    /\ lab = {} /\ printed = [i \in Ids |-> 0] /\ opened = 0 /\ logins = 0
    /\ outcome = NoOutcome

Unchanged_Http == UNCHANGED <<hosts, http, fetch>>
Unchanged_Kernel == UNCHANGED <<wire, socket, kernel, printed>>

-----------------------------------------------------------------------------
(* Requests                                                                 *)

\* A request to the lab, once the base URL is known, and to JupyterHub.
LabBegin(goal) ==
    IF http.base = None THEN FindBegin(goal) ELSE GetBegin(goal, LabUrl(http.base), http.base)

\* Bound: a program logs in before the runs of a session, with which a login has
\* nothing in common.
Login ==
    /\ logins < MaxLogins /\ logins' = logins + 1
    /\ run.result = None /\ (manager.pc = "none" => opened < MaxSessions)
    /\ manager.pc = "body" => socket = "open"
Free == manager.pc \in {"none", "body"} /\ fetch = NoFetch /\ run.result # "running"

\* auth_to_hub closes the HTTP client and goes on with a new one: the session
\* manager keeps the old one.
AuthToHub ==
    /\ Free /\ Login
    /\ http' = NewHttp
    /\ manager' = [manager EXCEPT !.stale = manager.pc = "body"]
    /\ GetBegin("hub", "hub", None)
    /\ UNCHANGED <<hosts, run, wire, socket, kernel, lab, printed, opened, outcome>>

AuthToLab ==
    /\ Free /\ Login
    /\ LabBegin("lab")
    /\ UNCHANGED <<hosts, http, manager, run, wire, socket, kernel, lab, printed, opened, outcome>>

\* The base URL is known: the request itself.
Found ==
    /\ fetch.pc = "found" /\ fetch.goal = "lab"
    /\ GetBegin("lab", LabUrl(http.base), http.base)
    /\ UNCHANGED <<hosts, http, session>>

\* The request of the program is over; an error in a session is one of its body.
Authenticated ==
    /\ fetch.pc \in {"done", "failed"} /\ fetch.goal \in {"hub", "lab"}
    /\ fetch' = NoFetch
    /\ manager' = IF manager.pc = "body" /\ fetch.pc = "failed"
                  THEN [manager EXCEPT !.pc = "leave", !.error = TRUE] ELSE manager
    /\ UNCHANGED <<hosts, http, run, wire, socket, kernel, lab, printed, opened, logins, outcome>>

Fetching == Fetch /\ UNCHANGED <<hosts, session>>

-----------------------------------------------------------------------------
(* __aenter__                                                               *)

\* lab_session and the start of the context: POST to the lab's sessions.
Enter ==
    /\ Free /\ manager.pc = "none" /\ opened < MaxSessions
    /\ manager' = [NoManager EXCEPT !.pc = "create"]
    /\ opened' = opened + 1
    /\ IF http.base = None THEN FindBegin("create") ELSE UNCHANGED fetch
    /\ UNCHANGED <<hosts, http, run, wire, socket, kernel, lab, printed, logins, outcome>>

\* An exception of __aenter__ leaves the context without __aexit__.
EnterFails ==
    /\ manager' = NoManager /\ fetch' = NoFetch
    /\ outcome' = [NoOutcome EXCEPT !.raised = "enter"]

\* The session is created, or not; the answer may be lost, or be a redirect,
\* which is followed to a page that is no session.
Create ==
    /\ manager.pc = "create" /\ (fetch = NoFetch \/ fetch.goal = "create")
    /\ \/ /\ fetch.pc \in {"none", "found"}
          /\ \/ /\ lab' = lab \cup {opened}
                /\ manager' = [manager EXCEPT !.pc = "connect", !.id = opened]
                /\ fetch' = NoFetch /\ UNCHANGED outcome
             \/ EnterFails /\ (UNCHANGED lab \/ lab' = lab \cup {opened})
             \/ \E url \in Targets :
                   /\ Inside(url, http.base)
                   /\ GetBegin("create", url, http.base)
                   /\ UNCHANGED <<lab, manager, outcome>>
       \/ fetch.pc \in {"done", "failed"} /\ EnterFails /\ UNCHANGED lab
    /\ UNCHANGED <<hosts, http, run, opened, logins>> /\ Unchanged_Kernel

\* open_websocket; its protocol errors and timeout end the context.
Connect ==
    /\ manager.pc = "connect"
    /\ \/ /\ socket' = "open"
          /\ manager' = [manager EXCEPT !.pc = "body"]
          /\ UNCHANGED <<fetch, outcome>>
       \/ EnterFails /\ UNCHANGED socket
    /\ UNCHANGED <<hosts, http, run, lab, opened, logins, wire, kernel, printed>>

-----------------------------------------------------------------------------
(* run_python                                                               *)

\* The request is sent, or the connection is found to be closed.  A program
\* gives a session up after a timeout, as its documentation demands.
RunBegin ==
    /\ Free /\ manager.pc = "body" /\ run.result # "timeout" /\ run.id < MaxRuns
    /\ run' = [NoRun EXCEPT !.id = run.id + 1,
                            !.result = IF socket = "open" THEN "running" ELSE "websocket"]
    /\ kernel' = IF socket = "open" THEN [kernel EXCEPT !.next = run.id + 1] ELSE kernel
    /\ UNCHANGED <<manager, wire, socket, lab, printed, opened, logins, outcome>> /\ Unchanged_Http

\* _parse_message and one turn of _read_result.  Messages with another parent,
\* those of no interest and those that cannot be parsed are passed over.
\* A possible mistake: the reply is enough; or the
\* kernel is expected to go idle after it.
Ours(m) == m.parent = run.id
OverWhenReplied(r) == r.complete
Over(r) == r.complete /\ r.idle

ReadInOrder(m) ==
    IF ~Ours(m) THEN run
    ELSE CASE m.type = "error" -> [run EXCEPT !.result = "error"]
           [] m.type = "ok" -> [run EXCEPT !.complete = TRUE]
           [] m.type = "idle" -> [run EXCEPT !.idle = run.complete]
           [] m.type = "stream" -> [run EXCEPT !.out = @ + 1]
           [] OTHER -> run
Read(m) ==
    IF ~Ours(m) THEN run
    ELSE CASE m.type = "error" -> [run EXCEPT !.result = "error"]
           [] m.type = "ok" -> [run EXCEPT !.complete = TRUE]
           [] m.type = "idle" -> [run EXCEPT !.idle = TRUE]
           [] m.type = "stream" -> [run EXCEPT !.out = @ + 1]
           [] OTHER -> run

Receive ==
    /\ run.result = "running" /\ wire # <<>>
    /\ LET r == Read(Head(wire)) IN
          run' = IF r.result = "running" /\ Over(r) THEN [r EXCEPT !.result = "ok"] ELSE r
    /\ wire' = Tail(wire)
    /\ UNCHANGED <<manager, socket, kernel, lab, printed, opened, logins, outcome>> /\ Unchanged_Http

\* The lab has closed the connection: with an error, which is raised, or
\* normally, which ends the iteration over the messages and so the run.
ReceiveEnd ==
    /\ run.result = "running" /\ wire = <<>> /\ socket # "open"
    /\ run' = [run EXCEPT !.result = IF socket = "broken" THEN "websocket" ELSE "ok",
                            !.closed = TRUE]
    /\ UNCHANGED <<manager, wire, socket, kernel, lab, printed, opened, logins, outcome>> /\ Unchanged_Http

RunTimeout ==
    /\ run.result = "running"
    /\ run' = [run EXCEPT !.result = "timeout"]
    /\ UNCHANGED <<manager, wire, socket, kernel, lab, printed, opened, logins, outcome>> /\ Unchanged_Http

\* The program goes on after a failed run, or leaves the session with its error.
GiveUp ==
    /\ Free /\ manager.pc = "body" /\ run.result \in {"error", "timeout", "websocket"}
    /\ manager' = [manager EXCEPT !.pc = "leave", !.error = TRUE]
    /\ UNCHANGED <<run, wire, socket, kernel, lab, printed, opened, logins, outcome>> /\ Unchanged_Http

Leave ==
    /\ Free /\ manager.pc = "body" /\ run.result # "timeout"
    /\ manager' = [manager EXCEPT !.pc = "leave"]
    /\ UNCHANGED <<run, wire, socket, kernel, lab, printed, opened, logins, outcome>> /\ Unchanged_Http

-----------------------------------------------------------------------------
(* The kernel                                                               *)

Send(type, id) == wire' = IF socket = "open" THEN Append(wire, [type |-> type, parent |-> id]) ELSE wire
Alive == socket = "open" /\ kernel.id # 0
Unchanged_Client == UNCHANGED <<manager, run, lab, opened, logins, outcome, hosts, http, fetch>>

\* It takes the next request, and says so.
Execute ==
    /\ socket = "open" /\ kernel.id = 0 /\ kernel.next # 0
    /\ kernel' = [NoKernel EXCEPT !.id = kernel.next]
    /\ Send("busy", kernel.next)
    /\ UNCHANGED <<socket, printed>> /\ Unchanged_Client

\* The channel of output: some output, then idle.
WriteOutput ==
    /\ Alive /\ ~kernel.idle /\ printed[kernel.id] < MaxOutput
    /\ Send("stream", kernel.id)
    /\ printed' = [printed EXCEPT ![kernel.id] = @ + 1]
    /\ UNCHANGED <<socket, kernel>> /\ Unchanged_Client

Went(k) == IF k.idle /\ k.replied THEN [NoKernel EXCEPT !.next = k.next] ELSE k

GoIdle ==
    /\ Alive /\ ~kernel.idle
    /\ Send("idle", kernel.id)
    /\ kernel' = Went([kernel EXCEPT !.idle = TRUE])
    /\ UNCHANGED <<socket, printed>> /\ Unchanged_Client

\* The shell channel: the reply.
Reply ==
    /\ Alive /\ ~kernel.replied
    /\ \E status \in {"ok", "error"} : Send(status, kernel.id)
    /\ kernel' = Went([kernel EXCEPT !.replied = TRUE])
    /\ UNCHANGED <<socket, printed>> /\ Unchanged_Client

\* The lab closes the connection normally, or it is lost.
SocketCloses ==
    /\ socket = "open"
    /\ socket' \in {"closed", "broken"}
    /\ kernel' = NoKernel
    /\ UNCHANGED <<wire, printed>> /\ Unchanged_Client

-----------------------------------------------------------------------------
(* __aexit__                                                                *)

Exit(raised) ==
    /\ manager' = NoManager
    /\ outcome' = [id |-> manager.id, error |-> manager.error, stale |-> manager.stale,
                   raised |-> raised]

\* An error in closing is raised, or only logged if the body failed.
\* A possible mistake: it never is.
CloseErrorLogged == IF manager.error THEN "body" ELSE None
CloseError == IF manager.error THEN "body" ELSE "close"

\* The WebSocket is closed, or its protocol fails and that is all.
CloseSocket ==
    /\ manager.pc = "leave"
    /\ \/ manager' = [manager EXCEPT !.pc = "delete"] /\ UNCHANGED outcome
       \/ Exit(CloseError)
    /\ socket' = None /\ wire' = <<>> /\ kernel' = NoKernel
    /\ run' = [NoRun EXCEPT !.id = run.id]
    /\ UNCHANGED <<lab, printed, opened, logins>> /\ Unchanged_Http

\* The session is deleted; a failure may come after it was.  With an HTTP client
\* that auth_to_hub closed, the error is one that is not expected.
DeleteSession ==
    /\ manager.pc = "delete"
    /\ \/ /\ ~manager.stale
          /\ lab' = lab \ {manager.id}
          /\ Exit(IF manager.error THEN "body" ELSE None)
       \/ ~manager.stale /\ Exit(CloseError) /\ (UNCHANGED lab \/ lab' = lab \ {manager.id})
       \/ manager.stale /\ Exit("runtime") /\ UNCHANGED lab
    /\ UNCHANGED <<run, opened, logins>> /\ Unchanged_Kernel /\ Unchanged_Http

Next ==
    \/ AuthToHub \/ AuthToLab \/ Found \/ Authenticated \/ Fetching
    \/ Enter \/ Create \/ Connect
    \/ RunBegin \/ Receive \/ ReceiveEnd \/ RunTimeout \/ GiveUp \/ Leave
    \/ Execute \/ WriteOutput \/ GoIdle \/ Reply \/ SocketCloses
    \/ CloseSocket \/ DeleteSession

\* Servers answer, the kernel runs what it is sent, messages are read.
Fairness ==
    /\ WF_vars(Fetching) /\ WF_vars(Found) /\ WF_vars(Authenticated) /\ WF_vars(Create)
    /\ WF_vars(Receive) /\ WF_vars(ReceiveEnd)
    /\ WF_vars(Execute) /\ WF_vars(GoIdle) /\ WF_vars(Reply)

Spec == Init /\ [][Next]_vars /\ Fairness

-----------------------------------------------------------------------------
(* Properties                                                               *)

\* Every variable has its type, and no more output is taken for a run's than a
\* run prints.
TypeOK ==
    /\ HttpTypeOK
    /\ manager \in [pc : {"none", "create", "connect", "body", "leave", "delete"},
                    id : 0..MaxSessions, error : BOOLEAN, stale : BOOLEAN]
    /\ run \in [id : Ids, complete : BOOLEAN, idle : BOOLEAN, out : 0..MaxOutput,
                result : {None, "running", "ok", "error", "timeout", "websocket"},
                closed : BOOLEAN]
    /\ wire \in Seq([type : {"busy", "stream", "idle", "ok", "error"}, parent : Ids])
    /\ socket \in {None, "open", "closed", "broken"}
    /\ kernel \in [id : Ids, idle : BOOLEAN, replied : BOOLEAN, next : Ids]
    /\ lab \subseteq 1..MaxSessions
    /\ printed \in [Ids -> 0..MaxOutput] /\ opened \in 0..MaxSessions /\ logins \in 0..MaxLogins

\* A run that succeeds returns all its kernel printed for it and nothing else,
\* whatever the order of the two channels and what an earlier run left behind;
\* unless the lab closed the connection.
OutputExact ==
    run.result = "ok" /\ ~run.closed => run.out = printed[run.id]

\* A context that ends with no error leaves no session in the lab.
CleanExitDeletes == outcome.raised = None => outcome.id \notin lab

\* An exception of the body is never hidden by one raised in leaving, unless
\* the HTTP client was closed (__aexit__: "Be careful to not raise an exception").
BodyErrorKept == outcome.error /\ ~outcome.stale => outcome.raised = "body"

\* What the client keeps fits together, and leaving the session is honest about
\* how it ended.
Consistent ==
    /\ TypeOK /\ VisitsBounded /\ LabTokenIsLabs
    /\ CleanExitDeletes /\ BodyErrorKept

\* Every chain of redirects ends (NubladoRedirectError).
FetchEnds == fetch # NoFetch ~> fetch = NoFetch

\* A run whose kernel is not lost ends without its timeout.
RunEnds == run.result = "running" ~> run.result # "running"

\* No call of the client runs for ever.
CallsEnd == FetchEnds /\ RunEnds


\* A result is returned only when the run is over ("only when the kernel is idle
\* is the code execution truly done").  Not so when the lab closes the connection.
ResultIsComplete == run.result = "ok" => run.complete /\ run.idle

\* No session is left without an attempt to delete it (JupyterLabSessionManager:
\* "automatically deleted when exiting the context manager").  Not so of one whose
\* creation or first connection failed.
NoSessionForgotten ==
    manager.pc = "none" /\ outcome.raised = "enter" => lab \subseteq 1..(opened - 1)
=============================================================================
