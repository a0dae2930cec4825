------------------------------- MODULE Spawner -------------------------------
(***************************************************************************)
(* NubladoSpawner, JupyterHub's spawner for one user                       *)
(* (hub/plugins/spawner/.../_internals.py), with the lab controller it     *)
(* calls and the events the controller reports (services/lab.py).          *)
(*                                                                         *)
(* JupyterHub starts, polls and stops the lab; each open progress page     *)
(* runs the generator progress().  JupyterHub may time a start out, or be  *)
(* killed and restarted while its requests are in flight.  The controller  *)
(* is LabManager as one client sees it: a request is handled in one step,  *)
(* an operation posts its events as it goes.                               *)
(***************************************************************************)
EXTENDS Naturals, Sequences

CONSTANTS
    Readers,       \* progress pages
    None,
    MaxStarts,     \* bound on starts by JupyterHub
    MaxProgress,   \* bound on the progress of Kubernetes events reported
    MaxFaults      \* bound on failures, timeouts and restarts

ASSUME SpawnerAssumption ==
    MaxStarts \in Nat /\ MaxProgress \in Nat /\ MaxFaults \in Nat
ASSUME NoneAssumption ==
    /\ None \notin 0..100
    /\ None \notin {"spawn", "delete", "begin", "create", "wait", "remove", "done",
                    "pending", "running", "failed", "terminating", "terminated", "ok", "refused"}

VARIABLES
    hub,       \* JupyterHub: stopped, starting, failing, stopping or running
    task,      \* the task of _start, _start_future: where it is, its local
               \* progress, and how it ended
    events,    \* _events
    readers,   \* the generators of progress() and their triggers
    stream,    \* the server-sent events not yet read, and whether more may come:
               \* the queue they are from is the user's and has not ended
    starts, faults,
    \* the controller
    lab,       \* LabState: its status, or None, and whether it has a URL
    op,        \* the operation in progress and where it is
    queue,     \* the contents of the user's event queue
    closed,    \* whether the queue has ended
    creates,   \* POST requests in flight whose client is gone
    deletes,   \* DELETE requests: of the task, of the hub, of a client gone
    \* history
    rival,     \* a create whose client is gone was handled in this start
    posted     \* how many events each start has had for JupyterHub

controller == <<lab, op, queue, closed>>
history == <<rival, posted>>
vars == <<hub, task, events, readers, stream, starts, faults, controller, creates, deletes, history>>

Clients == {"task", "hub", "late"}
Fault == faults < MaxFaults /\ faults' = faults + 1

-----------------------------------------------------------------------------
(* Events                                                                   *)

Event(kind, progress) == [kind |-> kind, progress |-> progress]
Info(progress) == Event("info", progress)

\* SpawnEvent.from_sse: the event's progress, or the current one.
FromSse(e, progress) ==
    IF e.kind = "complete" THEN Event("complete", 75)
    ELSE Event(e.kind, IF e.progress = None THEN progress ELSE e.progress)

\* The queue's put: to the contents, and to those who follow them.
Put(es) ==
    /\ queue' = queue \o es
    /\ stream' = IF stream.attached THEN [stream EXCEPT !.rest = @ \o es] ELSE stream
    /\ UNCHANGED closed

\* Its put and close, at the end of an operation (_monitor_operation): those who
\* follow, and those who come until it is cleared, see the end after that.
PutAndClose(es) ==
    /\ queue' = queue \o es /\ closed' = TRUE
    /\ stream' = IF stream.attached THEN [attached |-> FALSE, rest |-> stream.rest \o es] ELSE stream

\* Its clear: those who follow see what there was, then the end; and what is put
\* to the new contents in the same step.
PutAndClear(last, es) ==
    /\ queue' = es /\ closed' = FALSE
    /\ stream' = IF stream.attached THEN [attached |-> FALSE, rest |-> stream.rest \o last]
                 ELSE stream

-----------------------------------------------------------------------------
(* The controller's operations                                              *)

NoLab == [status |-> None, url |-> FALSE]
NoOp == [kind |-> None, step |-> None, first |-> FALSE, progress |-> 0]
Unchanged_Ctl == UNCHANGED <<hub, task, events, readers, starts, creates, deletes, history>>

\* _spawn_lab begins; a failed lab is deleted first.
SpawnBegin ==
    /\ op.kind = "spawn" /\ op.step = "begin"
    /\ Put(<<Info(1)>> \o (IF op.first THEN <<Info(2), Info(5)>> ELSE <<>>))
    /\ op' = [op EXCEPT !.step = IF op.first THEN "delete" ELSE "create"]
    /\ UNCHANGED <<lab, faults>> /\ Unchanged_Ctl

SpawnDeleted ==
    /\ op.kind = "spawn" /\ op.step = "delete"
    /\ Put(<<Info(12), Info(20)>>)
    /\ op' = [op EXCEPT !.step = "create"]
    /\ lab' = [lab EXCEPT !.status = "terminated"]
    /\ UNCHANGED faults /\ Unchanged_Ctl

SpawnCreated ==
    /\ op.kind = "spawn" /\ op.step = "create"
    /\ Put(<<Info(30)>>)
    /\ op' = [op EXCEPT !.step = "wait", !.progress = 35]
    /\ lab' = [status |-> "pending", url |-> TRUE]
    /\ UNCHANGED faults /\ Unchanged_Ctl

\* _watch_spawn_events: a third closer to 75 with each event.
Closer(progress) == progress + (75 - progress) \div 3

PodEvent ==
    /\ op.kind = "spawn" /\ op.step = "wait"
    /\ op.progress <= MaxProgress
    /\ Put(<<Info(op.progress)>>)
    /\ op' = [op EXCEPT !.progress = Closer(@)]
    /\ UNCHANGED <<lab, faults>> /\ Unchanged_Ctl

SpawnEnds ==
    /\ op.kind = "spawn" /\ op.step = "wait"
    /\ PutAndClose(<<Event("complete", None)>>)
    /\ op' = [op EXCEPT !.step = "done"]
    /\ lab' = [lab EXCEPT !.status = "running"]
    /\ UNCHANGED faults /\ Unchanged_Ctl

\* _monitor_operation: any error of an operation once it has posted its first
\* event.
OperationFails ==
    /\ op.kind # None /\ op.step \notin {"begin", "done"} /\ Fault
    /\ PutAndClose(<<Event("error", None), Event("failed", None)>>)
    /\ op' = [op EXCEPT !.step = "done"]
    /\ lab' = [lab EXCEPT !.status = "failed"]
    /\ Unchanged_Ctl

\* reap_spawners
Reap ==
    /\ op.kind = "spawn" /\ op.step = "done"
    /\ op' = NoOp
    /\ UNCHANGED <<lab, queue, closed, stream, faults>> /\ Unchanged_Ctl

\* The pod is lost and reconciliation notices.
LabLost ==
    /\ op = NoOp /\ lab.status = "running" /\ Fault
    /\ lab' = [lab EXCEPT !.status = "failed"]
    /\ UNCHANGED <<op, queue, closed, stream>> /\ Unchanged_Ctl

\* A possible mistake: the queue is left open.
DeleteEndsOpen ==
    /\ op.kind = "delete" /\ op.step = "remove"
    /\ Put(<<Info(62), Info(100)>>)
    /\ op' = [op EXCEPT !.step = "done"]
    /\ lab' = [lab EXCEPT !.status = "terminated"]
    /\ UNCHANGED faults /\ Unchanged_Ctl
DeleteEnds ==
    /\ op.kind = "delete" /\ op.step = "remove"
    /\ PutAndClose(<<Info(62), Info(100)>>)
    /\ op' = [op EXCEPT !.step = "done"]
    /\ lab' = [lab EXCEPT !.status = "terminated"]
    /\ UNCHANGED faults /\ Unchanged_Ctl

-----------------------------------------------------------------------------
(* The controller's answers                                                 *)

\* create_lab: a conflict with an operation in progress, or with a lab that runs.
Conflicts ==
    \/ op # NoOp
    \/ lab.status \notin {None, "failed", "terminated"}

\* An accepted create clears the queue and starts the spawn.
Accept ==
    /\ PutAndClear(<<>>, <<>>)
    /\ op' = [kind |-> "spawn", step |-> "begin", first |-> lab.status # None, progress |-> 0]
    /\ lab' = [status |-> "pending", url |-> FALSE]

\* The lab is being deleted.
\* A possible mistake: its URL is kept.
TerminatingKeepsUrl == [lab EXCEPT !.status = "terminating"]
Terminating == [status |-> "terminating", url |-> FALSE]

\* delete_lab until it waits: joins a delete, or aborts a spawn and deletes.
DeleteArrives(w) ==
    /\ deletes[w] = "sent"
    /\ \/ /\ lab.status = None
          /\ deletes' = [deletes EXCEPT ![w] = "gone"]
          /\ UNCHANGED <<controller, stream>>
       \/ /\ lab.status # None /\ op.kind = "delete"
          /\ deletes' = [deletes EXCEPT ![w] = "wait"]
          /\ UNCHANGED <<controller, stream>>
       \/ /\ lab.status # None /\ op.kind # "delete"
          /\ deletes' = [deletes EXCEPT ![w] = "wait"]
          /\ PutAndClear(IF op.kind = "spawn" /\ op.step # "done"
                         THEN <<Event("failed", None)>> ELSE <<>>, <<Info(25)>>)
          /\ lab' = Terminating
          /\ op' = [NoOp EXCEPT !.kind = "delete", !.step = "remove"]
    /\ UNCHANGED <<hub, task, events, readers, starts, faults, creates, history>>

\* All who waited are answered; a lab that is gone is forgotten.
DeleteAnswered ==
    /\ op.kind = "delete" /\ op.step = "done"
    /\ op' = NoOp
    /\ lab' = IF lab.status = "terminated" THEN NoLab ELSE lab
    /\ deletes' = [w \in Clients |->
                      IF deletes[w] # "wait" THEN deletes[w]
                      ELSE IF lab.status = "terminated" THEN "ok" ELSE "error"]
    /\ UNCHANGED <<queue, closed, stream, hub, task, events, readers, starts, faults, creates, history>>

\* A create whose client is gone.
LateCreate ==
    /\ creates > 0 /\ creates' = creates - 1
    /\ \/ Conflicts /\ UNCHANGED <<controller, stream>>
       \/ ~Conflicts /\ Accept
    /\ rival' = TRUE
    /\ UNCHANGED <<hub, task, events, readers, starts, faults, deletes, posted>>

\* The answer to a delete whose client is gone is lost.
LateDelete ==
    /\ deletes["late"] \in {"ok", "gone", "error"}
    /\ deletes' = [deletes EXCEPT !["late"] = "none"]
    /\ UNCHANGED <<controller, stream, hub, task, events, readers, starts, faults, creates, history>>

-----------------------------------------------------------------------------
(* _start                                                                   *)

NoTask == [pc |-> "none", progress |-> 0, result |-> None]
NoStream == [attached |-> FALSE, rest |-> <<>>]
Unchanged_Hub == UNCHANGED <<hub, starts, creates, rival>>
Unchanged_Events == UNCHANGED <<events, posted>>

Fired(rs) == [r \in Readers |-> IF rs[r].listed THEN [rs[r] EXCEPT !.fired = TRUE] ELSE rs[r]]

\* The end of _start sets the triggers; the future is then done.
Finish(result) ==
    /\ task' = [task EXCEPT !.pc = "done", !.result = result]
    /\ readers' = Fired(readers)

\* An event for JupyterHub.
Post(e) == events' = Append(events, e) /\ posted' = [posted EXCEPT ![starts] = @ + 1]

\* The new list, which leaves the old one to those who read it, and the
\* triggers; then the first request.
TaskBegin ==
    /\ task.pc = "new"
    /\ task' = [task EXCEPT !.pc = "create"]
    /\ events' = <<>>
    /\ readers' = [r \in Readers |->
           [Fired(readers)[r] EXCEPT !.listed = FALSE,
                                     !.own = FALSE,
                                     !.old = IF readers[r].own THEN events ELSE @]]
    /\ UNCHANGED <<controller, stream, deletes, faults, posted>> /\ Unchanged_Hub

\* _create_lab; on a conflict the first time, stop.
TaskCreate ==
    /\ task.pc \in {"create", "again"}
    /\ \/ /\ ~Conflicts /\ Accept
          /\ task' = [task EXCEPT !.pc = "open"]
          /\ UNCHANGED <<readers, deletes, faults>> /\ Unchanged_Events
       \/ /\ Conflicts /\ task.pc = "create"
          /\ task' = [task EXCEPT !.pc = "stop"]
          /\ Post(Info(1))
          /\ deletes' = [deletes EXCEPT !["task"] = "sent"]
          /\ UNCHANGED <<controller, stream, readers, faults>>
       \/ /\ Conflicts /\ task.pc = "again"
          /\ Finish("refused")
          /\ UNCHANGED <<controller, stream, deletes, faults>> /\ Unchanged_Events
       \/ /\ Fault /\ Finish("error")
          /\ \/ UNCHANGED <<controller, stream>>
             \/ ~Conflicts /\ Accept
          /\ UNCHANGED deletes /\ Unchanged_Events
    /\ Unchanged_Hub

\* stop returned
\* A possible mistake: it does not wait for the answer.
TaskStoppedEarly ==
    /\ task.pc = "stop"
    /\ task' = [task EXCEPT !.pc = "again"]
    /\ deletes' = [deletes EXCEPT !["task"] = "none"]
    /\ UNCHANGED <<controller, stream, readers, faults>> /\ Unchanged_Events /\ Unchanged_Hub
TaskStopped ==
    /\ task.pc = "stop" /\ deletes["task"] \in {"ok", "gone", "error"}
    /\ \/ /\ deletes["task"] # "error"
          /\ task' = [task EXCEPT !.pc = "again"]
          /\ UNCHANGED readers
       \/ deletes["task"] = "error" /\ Finish("error")
    /\ deletes' = [deletes EXCEPT !["task"] = "none"]
    /\ UNCHANGED <<controller, stream, faults>> /\ Unchanged_Events /\ Unchanged_Hub

\* _get_progress_events: the contents of the queue from its beginning, and what
\* follows unless the queue has ended.
TaskOpen ==
    /\ task.pc = "open"
    /\ \/ /\ task' = [task EXCEPT !.pc = "stream"]
          /\ stream' = [attached |-> ~closed, rest |-> queue]
          /\ UNCHANGED <<readers, faults>>
       \/ Fault /\ Finish("error") /\ UNCHANGED stream
    /\ UNCHANGED <<controller, deletes>> /\ Unchanged_Events /\ Unchanged_Hub

TaskEvent ==
    /\ task.pc = "stream" /\ stream.rest # <<>>
    /\ LET e == FromSse(Head(stream.rest), task.progress) IN
          /\ Post(e)
          /\ \/ e.kind = "failed" /\ Finish("error")
             \/ /\ e.kind # "failed"
                /\ task' = [task EXCEPT !.progress = e.progress,
                                        !.pc = IF e.kind = "complete" THEN "url" ELSE @]
                /\ UNCHANGED readers
    /\ stream' = [stream EXCEPT !.rest = Tail(@)]
    /\ UNCHANGED <<controller, deletes, faults>> /\ Unchanged_Hub

\* The stream ends with no event to say how the spawn ended, as that of a delete
\* does, or that of an operation whose end cut it off.
TaskStreamEnds ==
    /\ task.pc = "stream" /\ stream = NoStream
    /\ task' = [task EXCEPT !.pc = "url"]
    /\ UNCHANGED <<controller, stream, readers, deletes, faults>> /\ Unchanged_Events /\ Unchanged_Hub

TaskStreamFails ==
    /\ task.pc = "stream" /\ Fault
    /\ Finish("error")
    /\ UNCHANGED <<controller, stream, deletes>> /\ Unchanged_Events /\ Unchanged_Hub

\* _get_internal_url
TaskUrl ==
    /\ task.pc = "url"
    /\ \/ Finish(IF lab.url THEN "ok" ELSE "error") /\ UNCHANGED faults
       \/ Fault /\ Finish("error")
    /\ stream' = NoStream
    /\ UNCHANGED <<controller, deletes>> /\ Unchanged_Events /\ Unchanged_Hub

-----------------------------------------------------------------------------
(* progress: one turn of its loop checks whether the start is over, then    *)
(* yields the events there are, then waits for its trigger.                 *)

NoReader == [pc |-> "idle", own |-> FALSE, old |-> <<>>, next |-> 0, upto |-> 0, early |-> FALSE,
             over |-> FALSE, start |-> 0, fired |-> FALSE, listed |-> FALSE]
Unchanged_Reading == UNCHANGED <<hub, task, events, stream, starts, controller, creates, deletes, history>>

List(r) == IF readers[r].own THEN events ELSE readers[r].old
FutureDone(r) == readers[r].start < starts \/ task.pc = "done"

\* It keeps the future and the list there are, and its trigger is listed; the
\* first turn comes at once.  A page may be early: the start has been asked for,
\* and has yet to replace list and triggers.
ReaderBegin(r) ==
    /\ readers[r].pc \in {"idle", "end"} /\ task.pc # "none"
    /\ readers' = [readers EXCEPT ![r] = [NoReader EXCEPT
          !.pc = "yield", !.own = TRUE, !.start = starts, !.early = task.pc = "new",
          !.listed = TRUE, !.over = task.pc = "done", !.upto = Len(events)]]
    /\ UNCHANGED faults /\ Unchanged_Reading

\* The events have been taken by JupyterHub.
\* A possible mistake: whether the start is over is found out only now.
ReaderYieldLate(r) ==
    /\ readers[r].pc = "yield"
    /\ readers' = [readers EXCEPT ![r].next = readers[r].upto,
                                  ![r].pc = IF FutureDone(r) THEN "end" ELSE "wait"]
    /\ UNCHANGED faults /\ Unchanged_Reading
ReaderYield(r) ==
    /\ readers[r].pc = "yield"
    /\ readers' = [readers EXCEPT ![r].next = readers[r].upto,
                                  ![r].pc = IF readers[r].over THEN "end" ELSE "wait"]
    /\ UNCHANGED faults /\ Unchanged_Reading

ReaderWakes(r) ==
    /\ readers[r].pc = "wait" /\ readers[r].fired
    /\ readers' = [readers EXCEPT ![r].pc = "yield", ![r].fired = FALSE,
                                  ![r].over = FutureDone(r), ![r].upto = Len(List(r))]
    /\ UNCHANGED faults /\ Unchanged_Reading

\* start_timeout passes: longer than a spawn can take.
ReaderTimesOut(r) ==
    /\ readers[r].pc = "wait" /\ ~readers[r].fired /\ Fault
    /\ readers' = [readers EXCEPT ![r] = [NoReader EXCEPT !.pc = "end"]]
    /\ Unchanged_Reading

-----------------------------------------------------------------------------
(* JupyterHub: it never runs two starts of a spawner at the same time       *)

HubStart ==
    /\ hub = "stopped" /\ starts < MaxStarts /\ task.pc \in {"none", "done"}
    /\ hub' = "starting" /\ starts' = starts + 1
    /\ task' = [NoTask EXCEPT !.pc = "new"]
    /\ rival' = FALSE /\ UNCHANGED posted
    /\ UNCHANGED <<events, readers, stream, faults, controller, creates, deletes>>

\* A start that failed is followed by a stop.
HubStarted ==
    /\ hub = "starting" /\ task.pc = "done"
    /\ hub' = IF task.result = "ok" THEN "running" ELSE "failing"
    /\ UNCHANGED <<task, events, readers, stream, starts, faults, controller, creates, deletes, history>>

\* Requests in flight are still handled when their client is gone.
Orphan ==
    /\ creates' = IF task.pc \in {"create", "again"} THEN creates + 1 ELSE creates
    /\ deletes' = [w \in Clients |->
          IF w # "late" THEN "none"
          ELSE IF \E v \in Clients : deletes[v] = "wait" THEN "wait"
          ELSE IF \E v \in Clients : deletes[v] = "sent" THEN "sent" ELSE "none"]

\* JupyterHub's timeout of a start cancels the task, which has had its first turn
\* of the event loop long before.
HubTimeout ==
    /\ hub = "starting" /\ task.pc \notin {"new", "done"} /\ Fault
    /\ hub' = "failing" /\ Finish("error")
    /\ stream' = NoStream
    /\ Orphan
    /\ UNCHANGED <<events, starts, controller, history>>

HubStop ==
    /\ hub \in {"running", "failing"}
    /\ hub' = "stopping"
    /\ deletes' = [deletes EXCEPT !["hub"] = "sent"]
    /\ UNCHANGED <<task, events, readers, stream, starts, faults, controller, creates, history>>

HubStopped ==
    /\ hub = "stopping" /\ deletes["hub"] \in {"ok", "gone", "error"}
    /\ hub' = "stopped"
    /\ deletes' = [deletes EXCEPT !["hub"] = "none"]
    /\ UNCHANGED <<task, events, readers, stream, starts, faults, controller, creates, history>>

\* poll: None while the lab is starting or running.
Poll ==
    IF lab.status = "failed" THEN 1
    ELSE IF lab.status \in {None, "terminating", "terminated"} THEN 0
    ELSE None

HubPoll ==
    /\ hub = "running" /\ Poll # None
    /\ hub' = "stopped"
    /\ UNCHANGED <<task, events, readers, stream, starts, faults, controller, creates, deletes, history>>

\* JupyterHub is killed and restarted: it polls the labs it knows of.
HubRestart ==
    /\ Fault
    /\ hub' = IF hub # "stopped" /\ Poll = None THEN "running" ELSE "stopped"
    /\ task' = NoTask /\ events' = <<>> /\ stream' = NoStream
    /\ readers' = [r \in Readers |-> NoReader]
    /\ Orphan
    /\ UNCHANGED <<starts, controller, history>>

-----------------------------------------------------------------------------
Init ==
    /\ hub = "stopped" /\ task = NoTask /\ events = <<>>
    /\ readers = [r \in Readers |-> NoReader]
    /\ stream = NoStream
    /\ starts = 0 /\ faults = 0
    /\ lab = NoLab /\ op = NoOp /\ queue = <<>> /\ closed = FALSE
    /\ creates = 0 /\ deletes = [w \in Clients |-> "none"]
    /\ rival = FALSE /\ posted = [s \in 1..MaxStarts |-> 0]

Controller ==
    \/ SpawnBegin \/ SpawnDeleted \/ SpawnCreated \/ PodEvent \/ SpawnEnds
    \/ Reap \/ DeleteEnds \/ DeleteAnswered
    \/ LateCreate \/ LateDelete
    \/ \E w \in Clients : DeleteArrives(w)
Start ==
    \/ TaskBegin \/ TaskCreate \/ TaskStopped \/ TaskOpen
    \/ TaskEvent \/ TaskStreamEnds \/ TaskUrl
Read(r) == ReaderYield(r) \/ ReaderWakes(r)
JupyterHub == HubStarted \/ HubStopped \/ HubPoll
Next ==
    \/ Controller \/ OperationFails \/ LabLost
    \/ Start \/ TaskStreamFails
    \/ \E r \in Readers : ReaderBegin(r) \/ Read(r) \/ ReaderTimesOut(r)
    \/ JupyterHub \/ HubStart \/ HubTimeout \/ HubStop \/ HubRestart

\* Requests are answered, operations end (they have timeouts), tasks get their
\* turn, JupyterHub stops what failed to start.
Fairness ==
    /\ WF_vars(SpawnBegin) /\ WF_vars(SpawnDeleted) /\ WF_vars(SpawnCreated) /\ WF_vars(SpawnEnds)
    /\ WF_vars(Reap) /\ WF_vars(DeleteEnds) /\ WF_vars(DeleteAnswered)
    /\ \A w \in Clients : WF_vars(DeleteArrives(w))
    /\ WF_vars(Start) /\ WF_vars(JupyterHub) /\ WF_vars(hub = "failing" /\ HubStop)
    /\ \A r \in Readers : WF_vars(Read(r))

Spec == Init /\ [][Next]_vars /\ Fairness

-----------------------------------------------------------------------------
(* Properties                                                               *)

Kinds == {"info", "error", "failed", "complete"}
Answers == {"none", "sent", "wait", "ok", "gone", "error"}
EventSeq == Seq([kind : Kinds, progress : 0..100 \cup {None}])

\* Every variable has its type, and what JupyterHub is shown has a percentage
\* of progress (SpawnEvent).
TypeOK ==
    /\ hub \in {"stopped", "starting", "failing", "stopping", "running"}
    /\ task \in [pc : {"none", "new", "create", "stop", "again", "open", "stream", "url", "done"},
                 progress : 0..100, result : {None, "ok", "error", "refused"}]
    /\ events \in Seq([kind : Kinds, progress : 0..100])
    /\ readers \in [Readers -> [pc : {"idle", "yield", "wait", "end"}, own : BOOLEAN,
                       old : EventSeq, next : Nat, upto : Nat, over : BOOLEAN,
                       early : BOOLEAN, start : 0..MaxStarts, fired : BOOLEAN, listed : BOOLEAN]]
    /\ stream \in [attached : BOOLEAN, rest : EventSeq]
    /\ starts \in 0..MaxStarts /\ faults \in 0..MaxFaults
    /\ lab \in [status : {None, "pending", "running", "failed", "terminating", "terminated"},
                url : BOOLEAN]
    /\ op \in [kind : {None, "spawn", "delete"},
               step : {None, "begin", "delete", "create", "wait", "remove", "done"},
               first : BOOLEAN, progress : 0..100]
    /\ queue \in EventSeq /\ closed \in BOOLEAN
    /\ creates \in 0..MaxFaults /\ deletes \in [Clients -> Answers]
    /\ rival \in BOOLEAN /\ posted \in [1..MaxStarts -> Nat]

\* A progress page that ends before its timeout has shown as many events as the
\* start it follows ever had, the one that says how it ended included (progress:
\* "We want to process any events received before the spawner finishes"), though
\* the next start may have its list by then.  An early page is the exception.
ReaderSeesAll ==
    \A r \in Readers :
        readers[r].pc = "end" /\ readers[r].start # 0 /\ ~readers[r].early
            => readers[r].next = posted[readers[r].start]

\* The percentage shown never goes back until the start fails: what _start keeps of
\* it, what from_sse fills in and what the controller's operations report fit.
ProgressMonotone ==
    \A i \in 2..Len(events) :
        events[i].kind # "failed" => events[i - 1].progress <= events[i].progress

\* A start succeeds only with a lab that started, though _start goes on to the
\* URL when the stream of events just ends, and though the lab may be deleted
\* before the URL is asked for; its pod may have been lost since.  A create whose
\* client is gone may have had a lab created instead.
StartedIsRunning ==
    [][task'.result = "ok" /\ task.result # "ok" => lab.status \in {"running", "failed"} \/ rival]_vars

\* The second create is refused only because another one got in between.
RefusedByRival == task.result = "refused" => rival

\* A start ends, and so does every progress page that follows it from after its
\* first step, without waiting for their timeouts: every operation ends the queue
\* of its events, whoever else deletes the lab or began the operation.
StartEnds == hub = "starting" ~> hub # "starting"
ReaderEnds ==
    \A r \in Readers : readers[r].pc \in {"yield", "wait"} /\ ~readers[r].early
                          ~> readers[r].pc \in {"idle", "end"}

\* What JupyterHub is told of a start makes sense from its first event to its
\* end, whoever else deletes and creates the user's lab meanwhile.
Consistent == TypeOK /\ ProgressMonotone /\ RefusedByRival

\* Starts and progress pages end.
CallsEnd == StartEnds /\ ReaderEnds

\* The pages waiting are told of new events ("Triggers used to notify
\* listeners of new events").  Not so: only the end of the start fires them.
NewEventsNotified ==
    \A r \in Readers : readers[r].pc = "wait" /\ readers[r].own /\ readers[r].next < Len(events)
                          => readers[r].fired

\* A page shows the events of the start it follows ("so that we consistently
\* monitor the same invocation of start").  Not so: an early page has the future
\* of its start with the list of the one before.
PageOfItsStart ==
    \A r \in Readers : readers[r].pc = "end" /\ readers[r].start # 0
                          => readers[r].next = posted[readers[r].start]

\* No page is left waiting once the start is over (the end of _start: "none of
\* the progress calls will get stranded").  Not so: a page that came before the
\* start's first step waits for triggers nobody will fire.
NoReaderStranded ==
    \A r \in Readers : readers[r].pc = "wait" /\ FutureDone(r) => readers[r].fired
=============================================================================
