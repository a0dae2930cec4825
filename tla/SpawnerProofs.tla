---------------------------- MODULE SpawnerProofs ----------------------------
(***************************************************************************)
(* What a start tells JupyterHub and its progress pages, for any number of *)
(* pages, starts and faults.                                               *)
(***************************************************************************)
EXTENDS Spawner, SequenceTheorems, TLAPS

Message == [kind : Kinds, progress : 0..100 \cup {None}]
Reader == [pc : {"idle", "yield", "wait", "end"}, own : BOOLEAN,
           old : EventSeq, next : Nat, upto : Nat, over : BOOLEAN, early : BOOLEAN,
           start : 0..MaxStarts, fired : BOOLEAN, listed : BOOLEAN]

\* The types, of what belongs together.
HubType ==
    /\ hub \in {"stopped", "starting", "failing", "stopping", "running"}
    /\ task \in [pc : {"none", "new", "create", "stop", "again", "open", "stream", "url", "done"},
                 progress : 0..100, result : {None, "ok", "error", "refused"}]
    /\ starts \in 0..MaxStarts /\ faults \in 0..MaxFaults
    /\ creates \in Nat /\ creates <= faults
    /\ deletes \in [Clients -> Answers]
    /\ rival \in BOOLEAN
PageType ==
    /\ events \in Seq([kind : Kinds, progress : 0..100])
    /\ readers \in [Readers -> Reader]
ControllerType ==
    /\ lab \in [status : {None, "pending", "running", "failed", "terminating", "terminated"},
                url : BOOLEAN]
    /\ op \in [kind : {None, "spawn", "delete"},
               step : {None, "begin", "delete", "create", "wait", "remove", "done"},
               first : BOOLEAN, progress : 0..75]
    /\ queue \in EventSeq
    /\ stream \in [attached : BOOLEAN, rest : EventSeq]
Types == HubType /\ PageType /\ ControllerType
RestType == closed \in BOOLEAN /\ posted \in [1..MaxStarts -> Nat]

\* A page that saw that its start is over has seen all there is to see, as a
\* start that is over adds nothing and the next one has a list of its own.
PageInv ==
    \A r \in Readers :
        /\ readers[r].own => /\ readers[r].start <= starts
                             /\ readers[r].start < starts => task.pc \in {"new", "done"}
        /\ readers[r].pc = "yield" /\ readers[r].over =>
               readers[r].upto = Len(List(r)) /\ (readers[r].own => FutureDone(r))
        /\ readers[r].pc = "end" =>
               readers[r].next = Len(List(r)) /\ (readers[r].own => FutureDone(r))

\* A start in progress has a task.
HubInv == hub = "starting" => task.pc # "none"

\* What a page that is not early has of its start is what the start had, and the
\* next start has not replaced the list of a page that follows it.
OfItsStart(p, list) ==
    ~p.early /\ p.start # 0 =>
        /\ posted[p.start] = Len(list)
        /\ IF p.own THEN p.start = starts => task.pc # "new" ELSE p.start < starts
PostedInv ==
    /\ task.pc # "none" => starts # 0
    /\ task.pc \notin {"none", "new"} => posted[starts] = Len(events)
    /\ \A s \in 1..MaxStarts : s > starts \/ (s = starts /\ task.pc = "new") => posted[s] = 0
    /\ \A r \in Readers : OfItsStart(readers[r], List(r))

\* Only a lab that was created has a URL, until it is deleted.
LabInv ==
    /\ lab.status = None => ~lab.url /\ op = NoOp
    /\ op.kind = None => op = NoOp
    /\ op.kind = "delete" => op.step \in {"remove", "done"} /\ ~lab.url
    /\ op.kind = "spawn" => op.step \in {"begin", "delete", "create", "wait", "done"}
    /\ op.step \in {"begin", "delete", "create"} => ~lab.url
    /\ lab.url => \/ lab.status \in {"running", "failed"}
                  \/ lab.status = "pending" /\ op.kind = "spawn" /\ op.step = "wait"

\* The queue of an operation in progress has not ended.
OpenInv == op.kind # None /\ op.step # "done" => ~closed

\* Until another create gets in, a lab that was deleted stays deleted.
StopInv ==
    /\ deletes["task"] # "none" => task.pc = "stop"
    /\ ~rival /\ (deletes["task"] \in {"ok", "gone"} \/ task.pc = "again") => op = NoOp /\ lab = NoLab

\* Until then a spawn in progress is the one of this start, which follows it and
\* has not been told that it is complete.
NoComplete(s) == \A i \in 1..Len(s) : s[i].kind # "complete"
StartInv ==
    ~rival /\ task.pc \in {"open", "stream", "url"} /\ op.kind = "spawn" /\ op.step # "done" =>
        /\ task.pc # "url" /\ NoComplete(queue)
        /\ task.pc = "stream" => stream.attached /\ NoComplete(stream.rest)

\* The levels of progress that events report rise, and how far an operation can
\* have come bounds them.
Levelled(m) == m.kind \in {"info", "complete"}
Level(m) == IF m.kind = "complete" THEN 75 ELSE m.progress
Rising(s) ==
    /\ \A i \in 1..Len(s) : /\ s[i].kind = "info" => s[i].progress \in 1..100
                            /\ s[i].kind = "error" => s[i].progress = None
    /\ \A i, j \in 1..Len(s) : i < j /\ Levelled(s[i]) /\ Levelled(s[j]) => Level(s[i]) <= Level(s[j])
AtMost(s, n) == \A i \in 1..Len(s) : Levelled(s[i]) => Level(s[i]) <= n
AtLeast(s, n) == \A i \in 1..Len(s) : Levelled(s[i]) => n <= Level(s[i])
Opens(s) == s # <<>> => s[1].kind \in {"info", "failed"}
Reached ==
    IF op.step = "begin" THEN 0
    ELSE IF op.step = "delete" THEN 5
    ELSE IF op.step = "create" THEN 20
    ELSE IF op.step = "wait" THEN op.progress
    ELSE IF op.step = "remove" THEN 25 ELSE 100

QueueInv ==
    /\ Rising(queue) /\ AtMost(queue, Reached) /\ Opens(queue)
    /\ op.kind # None /\ op.step # "begin" => queue # <<>>
    /\ op.step = "wait" => op.progress >= 35
StreamInv ==
    task.pc = "stream" =>
        /\ Rising(stream.rest) /\ AtLeast(stream.rest, task.progress)
        /\ task.progress = 0 => Opens(stream.rest)
        /\ stream.attached =>
               /\ task.progress <= Reached /\ AtMost(stream.rest, Reached)
               /\ task.progress = 0 /\ stream.rest = <<>> =>
                      op.kind = None \/ op.step \in {"begin", "done"}
ShownInv ==
    /\ task.pc \in {"none", "new", "create", "stop", "again", "open"} => task.progress = 0
    /\ task.pc = "create" => events = <<>>
    /\ task.pc \in {"stop", "again", "open"} =>
           Len(events) <= 1 /\ (events # <<>> => events[1].progress = 1)
    /\ task.pc = "stream" /\ events # <<>> =>
           \/ events[Len(events)].progress <= task.progress
           \/ task.progress = 0 /\ events[Len(events)].progress = 1
    /\ ProgressMonotone

IInv ==
    /\ Types /\ RestType /\ HubInv /\ PageInv /\ PostedInv /\ LabInv /\ OpenInv
    /\ StopInv /\ StartInv /\ RefusedByRival
    /\ QueueInv /\ StreamInv /\ ShownInv

-----------------------------------------------------------------------------
(* Types                                                                    *)

LEMMA TypesSuffice == Types /\ RestType => TypeOK
BY SpawnerAssumption DEF Types, RestType, HubType, PageType, ControllerType, Reader, TypeOK

LEMMA InitTypes == Init => Types
<1>1. SUFFICES ASSUME Init PROVE Types
  OBVIOUS
<1>2. HubType
  <2>1. /\ task \in [pc : {"none", "new", "create", "stop", "again", "open", "stream", "url", "done"},
                     progress : 0..100, result : {None, "ok", "error", "refused"}]
        /\ hub = "stopped" /\ starts = 0 /\ faults = 0 /\ creates = 0
    BY <1>1 DEF Init, NoTask
  <2>3. rival \in BOOLEAN
    BY <1>1 DEF Init
  <2>2. deletes \in [Clients -> Answers]
    BY <1>1 DEF Init, Answers
  <2>. QED BY <2>1, <2>2, <2>3, SpawnerAssumption DEF HubType
<1>3. NoReader \in Reader
  BY SpawnerAssumption DEF NoReader, Reader, EventSeq
<1>4. PageType /\ ControllerType
  BY <1>1, <1>3 DEF Init, PageType, ControllerType, NoStream, NoLab, NoOp, EventSeq
<1>. QED BY <1>2, <1>4 DEF Types

\* Events are put to the queue and to those who follow it.
LEMMA PutType ==
    ASSUME ControllerType, NEW es \in EventSeq, Put(es)
    PROVE  queue' \in EventSeq /\ stream' \in [attached : BOOLEAN, rest : EventSeq]
<1>1. queue' \in EventSeq
  BY DEF ControllerType, Put, EventSeq
<1>2. stream.rest \o es \in EventSeq
  BY DEF ControllerType, EventSeq
<1>3. CASE stream.attached
  <2>1. stream' = [stream EXCEPT !.rest = stream.rest \o es]
    BY <1>3 DEF Put
  <2>. QED BY <1>1, <1>2, <2>1 DEF ControllerType
<1>4. CASE ~stream.attached
  BY <1>1, <1>4 DEF Put, ControllerType
<1>. QED BY <1>3, <1>4

LEMMA CloseType ==
    ASSUME ControllerType, NEW es \in EventSeq, PutAndClose(es)
    PROVE  queue' \in EventSeq /\ stream' \in [attached : BOOLEAN, rest : EventSeq]
<1>1. queue' \in EventSeq /\ stream.rest \o es \in EventSeq
  BY DEF ControllerType, PutAndClose, EventSeq
<1>2. CASE stream.attached
  BY <1>1, <1>2 DEF PutAndClose
<1>3. CASE ~stream.attached
  BY <1>1, <1>3 DEF PutAndClose, ControllerType
<1>. QED BY <1>2, <1>3

LEMMA ClearType ==
    ASSUME ControllerType, NEW last \in EventSeq, NEW es \in EventSeq, PutAndClear(last, es)
    PROVE  queue' \in EventSeq /\ stream' \in [attached : BOOLEAN, rest : EventSeq]
<1>1. stream.rest \o last \in EventSeq
  BY DEF ControllerType, EventSeq
<1>2. CASE stream.attached
  BY <1>1, <1>2 DEF PutAndClear, ControllerType
<1>3. CASE ~stream.attached
  BY <1>3 DEF PutAndClear, ControllerType
<1>. QED BY <1>2, <1>3

LEMMA AcceptType ==
    ASSUME ControllerType, Accept PROVE ControllerType'
<1>1. <<>> \in EventSeq
  BY DEF EventSeq
<1>2. queue' \in EventSeq /\ stream' \in [attached : BOOLEAN, rest : EventSeq]
  BY <1>1, ClearType DEF Accept
<1>3. op' \in [kind : {None, "spawn", "delete"},
               step : {None, "begin", "delete", "create", "wait", "remove", "done"},
               first : BOOLEAN, progress : 0..75]
  <2>1. CASE lab.status # None
    BY <2>1 DEF Accept
  <2>2. CASE lab.status = None
    BY <2>2 DEF Accept
  <2>. QED BY <2>1, <2>2
<1>. QED BY <1>2, <1>3 DEF Accept, ControllerType

\* The controller's operations.
Operation ==
    \/ SpawnBegin \/ SpawnDeleted \/ SpawnCreated \/ PodEvent \/ SpawnEnds
    \/ Reap \/ DeleteEnds \/ OperationFails \/ LabLost

LEMMA OperationType == ASSUME Types, Operation PROVE Types'
<1>1. /\ UNCHANGED <<hub, task, events, readers, starts, creates, deletes, history>>
      /\ faults' = faults \/ (faults < MaxFaults /\ faults' = faults + 1)
  <2>1. Unchanged_Ctl /\ (faults' = faults \/ Fault)
    BY DEF Operation, SpawnBegin, SpawnDeleted, SpawnCreated, PodEvent,
           SpawnEnds, Reap, DeleteEnds, OperationFails, LabLost
  <2>. QED BY <2>1 DEF Unchanged_Ctl, Fault
<1>2. HubType' /\ PageType'
  BY <1>1, SpawnerAssumption DEF Types, HubType, PageType, history
<1>3. /\ \A p \in 0..100 : Info(p) \in Message
      /\ Event("complete", None) \in Message /\ Event("error", None) \in Message
      /\ Event("failed", None) \in Message
      /\ EventSeq = Seq(Message)
  BY DEF Info, Event, Message, Kinds, EventSeq
<1> DEFINE Queues == queue' \in EventSeq /\ stream' \in [attached : BOOLEAN, rest : EventSeq]
<1>4. ASSUME NEW es \in EventSeq, Put(es) \/ PutAndClose(es) PROVE Queues
  BY <1>4, PutType, CloseType DEF Types
<1>5. ControllerType'
  <2>1. CASE SpawnBegin
    <3>1. <<Info(1)>> \o (IF op.first THEN <<Info(2), Info(5)>> ELSE <<>>) \in EventSeq
      BY <1>3
    <3>2. Queues
      BY <1>4, <2>1, <3>1 DEF SpawnBegin
    <3>. QED BY <2>1, <3>2 DEF SpawnBegin, Types, ControllerType
  <2>2. CASE SpawnDeleted
    <3>1. <<Info(12), Info(20)>> \in EventSeq
      BY <1>3
    <3>2. Queues
      BY <1>4, <2>2, <3>1 DEF SpawnDeleted
    <3>. QED BY <2>2, <3>2 DEF SpawnDeleted, Types, ControllerType
  <2>3. CASE SpawnCreated
    <3>1. <<Info(30)>> \in EventSeq
      BY <1>3
    <3>2. Queues
      BY <1>4, <2>3, <3>1 DEF SpawnCreated
    <3>3. /\ op' \in [kind : {None, "spawn", "delete"},
                      step : {None, "begin", "delete", "create", "wait", "remove", "done"},
                      first : BOOLEAN, progress : 0..75]
      <4>1. op' = [kind |-> "spawn", step |-> "wait", first |-> op.first, progress |-> 35]
        BY <2>3 DEF SpawnCreated, Types, ControllerType
      <4>2. op.first \in BOOLEAN
        BY DEF Types, ControllerType
      <4>. QED BY <4>1, <4>2
    <3>4. lab' \in [status : {None, "pending", "running", "failed", "terminating", "terminated"},
                    url : BOOLEAN]
      BY <2>3 DEF SpawnCreated
    <3>. QED BY <3>2, <3>3, <3>4 DEF ControllerType
  <2>4. CASE PodEvent
    <3>1. Closer(op.progress) \in 0..75
      BY DEF Closer, Types, ControllerType
    <3>2. PICK e \in Message : e = Info(op.progress)
      <4>1. op.progress \in 0..100
        BY DEF Types, ControllerType
      <4>. QED BY <1>3, <4>1
    <3>3. <<e>> \in EventSeq
      BY <1>3
    <3>4. Queues
      BY <1>4, <2>4, <3>2, <3>3 DEF PodEvent
    <3>. QED BY <2>4, <3>1, <3>4 DEF PodEvent, Types, ControllerType
  <2>5. CASE SpawnEnds
    <3>1. <<Event("complete", None)>> \in EventSeq
      BY <1>3
    <3>2. Queues
      BY <1>4, <2>5, <3>1 DEF SpawnEnds
    <3>. QED BY <2>5, <3>2 DEF SpawnEnds, Types, ControllerType
  <2>6. CASE Reap
    BY <2>6 DEF Reap, NoOp, Types, ControllerType
  <2>7. CASE DeleteEnds
    <3>1. <<Info(62), Info(100)>> \in EventSeq
      BY <1>3
    <3>2. Queues
      BY <1>4, <2>7, <3>1 DEF DeleteEnds
    <3>. QED BY <2>7, <3>2 DEF DeleteEnds, Types, ControllerType
  <2>8. CASE OperationFails
    <3>1. <<Event("error", None), Event("failed", None)>> \in EventSeq
      BY <1>3
    <3>2. Queues
      BY <1>4, <2>8, <3>1 DEF OperationFails
    <3>. QED BY <2>8, <3>2 DEF OperationFails, Types, ControllerType
  <2>9. CASE LabLost
    BY <2>9 DEF LabLost, Types, ControllerType
  <2>. QED BY <2>1, <2>2, <2>3, <2>4, <2>5, <2>6, <2>7, <2>8, <2>9 DEF Operation
<1>. QED BY <1>2, <1>5 DEF Types

-----------------------------------------------------------------------------
\* Answers to requests.
Answer == (\E w \in Clients : DeleteArrives(w)) \/ DeleteAnswered \/ LateCreate \/ LateDelete

LEMMA AnswerType == ASSUME Types, Answer PROVE Types'
<1>1. UNCHANGED <<hub, task, events, readers, starts, faults>> /\ rival' \in {rival, TRUE}
  BY DEF Answer, DeleteArrives, DeleteAnswered, LateCreate, LateDelete, history
<1>2. PageType'
  BY <1>1 DEF Types, PageType
<1>3. ASSUME NEW w \in Clients, DeleteArrives(w) PROVE Types'
  <2>1. creates' = creates /\ deletes' \in [Clients -> Answers]
    BY <1>3 DEF DeleteArrives, Types, HubType, Answers
  <2>2. HubType'
    BY <1>1, <2>1 DEF Types, HubType
  <2>3. CASE UNCHANGED <<controller, stream>>
    BY <1>2, <2>2, <2>3 DEF controller, Types, ControllerType
  <2>4. CASE /\ PutAndClear(IF op.kind = "spawn" /\ op.step # "done"
                         THEN <<Event("failed", None)>> ELSE <<>>, <<Info(25)>>)
             /\ lab' = Terminating
             /\ op' = [NoOp EXCEPT !.kind = "delete", !.step = "remove"]
    <3>1. /\ <<Event("failed", None)>> \in EventSeq /\ <<>> \in EventSeq
          /\ <<Info(25)>> \in EventSeq
      BY DEF EventSeq, Event, Info, Kinds
    <3>2. PICK last \in EventSeq : last = (IF op.kind = "spawn" /\ op.step # "done"
                                           THEN <<Event("failed", None)>> ELSE <<>>)
      BY <3>1
    <3>3. queue' \in EventSeq /\ stream' \in [attached : BOOLEAN, rest : EventSeq]
      BY <2>4, <3>1, <3>2, ClearType DEF Types
    <3>4. /\ lab' = [status |-> "terminating", url |-> FALSE]
          /\ op' = [kind |-> "delete", step |-> "remove", first |-> FALSE, progress |-> 0]
      BY <2>4 DEF Terminating, NoOp
    <3>5. ControllerType'
      BY <3>3, <3>4 DEF ControllerType
    <3>. QED BY <1>2, <2>2, <3>5 DEF Types
  <2>. QED BY <1>3, <2>3, <2>4 DEF DeleteArrives
<1>4. CASE DeleteAnswered
  <2>1. creates' = creates /\ rival' = rival /\ deletes' \in [Clients -> Answers]
    BY <1>4 DEF DeleteAnswered, Types, HubType, Answers, history
  <2>2. HubType'
    BY <1>1, <2>1 DEF Types, HubType
  <2>3. ControllerType'
    BY <1>4 DEF DeleteAnswered, NoOp, NoLab, Types, ControllerType
  <2>. QED BY <1>2, <2>2, <2>3 DEF Types
<1>5. CASE LateCreate
  <2>1. creates' = creates - 1 /\ creates > 0 /\ rival' = TRUE /\ deletes' = deletes
    BY <1>5 DEF LateCreate
  <2>2. HubType'
    BY <1>1, <2>1 DEF Types, HubType
  <2>3. ControllerType'
    BY <1>5, AcceptType DEF LateCreate, controller, Types, ControllerType
  <2>. QED BY <1>2, <2>2, <2>3 DEF Types
<1>6. CASE LateDelete
  <2>1. UNCHANGED <<creates, rival, controller, stream>> /\ deletes' \in [Clients -> Answers]
    BY <1>6 DEF LateDelete, Types, HubType, Answers, history
  <2>. QED BY <1>1, <2>1 DEF Types, HubType, PageType, ControllerType, controller
<1>. QED BY <1>3, <1>4, <1>5, <1>6 DEF Answer

-----------------------------------------------------------------------------
\* _start.
LEMMA FiredType ==
    ASSUME NEW rs \in [Readers -> Reader] PROVE Fired(rs) \in [Readers -> Reader]
<1>1. SUFFICES ASSUME NEW r \in Readers
               PROVE  (IF rs[r].listed THEN [rs[r] EXCEPT !.fired = TRUE] ELSE rs[r]) \in Reader
  BY DEF Fired
<1>. QED BY DEF Reader

LEMMA FinishType ==
    ASSUME Types, NEW result \in {None, "ok", "error", "refused"}, Finish(result)
    PROVE  /\ task' \in [pc : {"none", "new", "create", "stop", "again", "open", "stream", "url", "done"},
                         progress : 0..100, result : {None, "ok", "error", "refused"}]
           /\ readers' \in [Readers -> Reader]
BY FiredType DEF Finish, Types, HubType, PageType

LEMMA StartType == ASSUME Types, Start \/ TaskStreamFails PROVE Types'
<1> DEFINE Task == [pc : {"none", "new", "create", "stop", "again", "open", "stream", "url", "done"},
                    progress : 0..100, result : {None, "ok", "error", "refused"}]
           Stream == [attached : BOOLEAN, rest : EventSeq]
           Shown == [kind : Kinds, progress : 0..100]
<1>1. /\ UNCHANGED <<hub, starts, creates, rival>>
      /\ faults' = faults \/ (faults < MaxFaults /\ faults' = faults + 1)
  <2>1. Unchanged_Hub /\ (faults' = faults \/ Fault)
    BY DEF Start, TaskBegin, TaskCreate, TaskStopped, TaskOpen, TaskEvent, TaskStreamEnds, TaskUrl,
           TaskStreamFails
  <2>. QED BY <2>1 DEF Unchanged_Hub, Fault
<1>2. SUFFICES /\ task' \in Task /\ deletes' \in [Clients -> Answers]
               /\ PageType' /\ ControllerType'
  BY <1>1, SpawnerAssumption DEF Types, HubType
<1>3. /\ task \in Task /\ events \in Seq(Shown) /\ readers \in [Readers -> Reader]
      /\ stream \in Stream /\ deletes \in [Clients -> Answers]
  BY DEF Types, HubType, PageType, ControllerType
<1>4. ASSUME NEW result \in {None, "ok", "error", "refused"}, Finish(result)
      PROVE  task' \in Task /\ readers' \in [Readers -> Reader]
  BY <1>4, FinishType
<1>5. CASE TaskBegin
  <2>1. task' \in Task /\ UNCHANGED <<controller, stream, deletes>> /\ events' = <<>>
    BY <1>3, <1>5 DEF TaskBegin
  <2>2. events \in EventSeq
    <3>1. Shown \subseteq Message
      BY DEF Message
    <3>2. events \in Seq(Message)
      BY <1>3, <3>1, SeqMonotonic
    <3>. QED BY <3>2 DEF EventSeq, Message
  <2>3. Fired(readers) \in [Readers -> Reader]
    BY <1>3, FiredType
  <2>4. readers' \in [Readers -> Reader]
    <3>1. SUFFICES ASSUME NEW r \in Readers
                   PROVE  [Fired(readers)[r] EXCEPT !.listed = FALSE, !.own = FALSE,
                              !.old = IF readers[r].own THEN events ELSE @] \in Reader
      BY <1>5 DEF TaskBegin
    <3>2. PICK old \in EventSeq :
              old = IF readers[r].own THEN events ELSE Fired(readers)[r].old
      BY <2>2, <2>3 DEF Reader
    <3>3. [Fired(readers)[r] EXCEPT !.listed = FALSE, !.own = FALSE, !.old = old] \in Reader
      BY <2>3 DEF Reader
    <3>. QED BY <3>2, <3>3
  <2>. QED BY <1>3, <2>1, <2>4 DEF Types, PageType, ControllerType, controller
<1>6. CASE TaskCreate
  <2>1. Info(1) \in Shown
    BY DEF Info, Event, Kinds
  <2>2. deletes' \in [Clients -> Answers]
    BY <1>3, <1>6 DEF TaskCreate, Answers, Clients
  <2>3. events' \in Seq(Shown)
    <3>1. Append(events, Info(1)) \in Seq(Shown)
      BY <1>3, <2>1
    <3>2. events' = events \/ events' = Append(events, Info(1))
      BY <1>6 DEF TaskCreate, Unchanged_Events, Post
    <3>. QED BY <1>3, <3>1, <3>2
  <2>4. task' \in Task /\ readers' \in [Readers -> Reader]
    BY <1>3, <1>4, <1>6 DEF TaskCreate
  <2>5. Accept \/ UNCHANGED <<controller, stream>>
    BY <1>6 DEF TaskCreate
  <2>6. ControllerType'
    BY <2>5, AcceptType DEF Types, ControllerType, controller
  <2>. QED BY <2>2, <2>3, <2>4, <2>6 DEF PageType
<1>7. CASE TaskStopped
  <2>1. deletes' \in [Clients -> Answers] /\ UNCHANGED <<controller, stream, events>>
    BY <1>3, <1>7 DEF TaskStopped, Answers, Clients, Unchanged_Events
  <2>2. task' \in Task /\ readers' \in [Readers -> Reader]
    BY <1>3, <1>4, <1>7 DEF TaskStopped
  <2>. QED BY <1>3, <2>1, <2>2 DEF Types, PageType, ControllerType, controller
<1>8. CASE TaskOpen
  <2>1. UNCHANGED <<controller, events, deletes>>
    BY <1>8 DEF TaskOpen, Unchanged_Events
  <2>2. task' \in Task /\ readers' \in [Readers -> Reader]
    BY <1>3, <1>4, <1>8 DEF TaskOpen
  <2>3. stream' \in Stream
    <3>1. queue \in EventSeq
      BY DEF Types, ControllerType
    <3>2. [attached |-> TRUE, rest |-> queue] \in Stream /\ [attached |-> FALSE, rest |-> queue] \in Stream
      BY <3>1
    <3>. QED BY <1>3, <1>8, <3>2 DEF TaskOpen
  <2>. QED BY <1>3, <2>1, <2>2, <2>3 DEF Types, PageType, ControllerType, controller
<1>9. CASE TaskEvent
  <2>. DEFINE m == Head(stream.rest)
              e == FromSse(m, task.progress)
  <2>1. stream.rest \in Seq(Message) /\ stream.rest # <<>>
    BY <1>3, <1>9 DEF EventSeq, Message, TaskEvent
  <2>2. m \in Message /\ Tail(stream.rest) \in EventSeq
    <3>1. m \in Message /\ Tail(stream.rest) \in Seq(Message)
      BY <2>1
    <3>. QED BY <3>1 DEF EventSeq, Message
  <2>3. e \in Shown
    BY <1>3, <2>2 DEF FromSse, Event, Message, Kinds
  <2>4. UNCHANGED <<controller, deletes>> /\ events' \in Seq(Shown)
    BY <1>3, <1>9, <2>3 DEF TaskEvent, Post
  <2>5. stream' \in Stream
    BY <1>3, <1>9, <2>2 DEF TaskEvent
  <2>6. task' \in Task /\ readers' \in [Readers -> Reader]
    <3>1. CASE Finish("error")
      BY <1>4, <3>1
    <3>2. CASE /\ task' = [task EXCEPT !.progress = e.progress,
                                       !.pc = IF e.kind = "complete" THEN "url" ELSE @]
               /\ UNCHANGED readers
      BY <1>3, <2>3, <3>2
    <3>. QED BY <1>9, <3>1, <3>2 DEF TaskEvent
  <2>. QED BY <1>3, <2>4, <2>5, <2>6 DEF Types, PageType, ControllerType, controller
<1>10. CASE TaskStreamEnds \/ TaskStreamFails \/ TaskUrl
  <2>1. UNCHANGED <<controller, events, deletes>> /\ stream' \in Stream
    <3>1. NoStream \in Stream
      BY DEF NoStream, EventSeq
    <3>. QED BY <1>3, <1>10, <3>1 DEF TaskStreamEnds, TaskStreamFails, TaskUrl, Unchanged_Events
  <2>2. task' \in Task /\ readers' \in [Readers -> Reader]
    <3>1. CASE TaskUrl
      <4>1. \E result \in {"ok", "error"} : Finish(result)
        BY <3>1 DEF TaskUrl
      <4>. QED BY <1>4, <4>1
    <3>. QED BY <1>3, <1>4, <1>10, <3>1 DEF TaskStreamEnds, TaskStreamFails
  <2>. QED BY <1>3, <2>1, <2>2 DEF Types, PageType, ControllerType, controller
<1>. QED BY <1>5, <1>6, <1>7, <1>8, <1>9, <1>10 DEF Start

-----------------------------------------------------------------------------
\* progress, and JupyterHub.
Page == \E r \in Readers : ReaderBegin(r) \/ Read(r) \/ ReaderTimesOut(r)

LEMMA PageTypes == ASSUME Types, Page PROVE Types'
<1>1. PICK r \in Readers : ReaderBegin(r) \/ Read(r) \/ ReaderTimesOut(r)
  BY DEF Page
<1>2. /\ UNCHANGED <<hub, task, events, stream, starts, controller, creates, deletes, rival>>
      /\ faults' = faults \/ (faults < MaxFaults /\ faults' = faults + 1)
  BY <1>1 DEF Read, ReaderBegin, ReaderYield, ReaderWakes, ReaderTimesOut,
              Unchanged_Reading, Fault, history
<1>3. \E x \in Reader : readers' = [readers EXCEPT ![r] = x]
  <2>. DEFINE y == readers[r]
  <2>1. y \in Reader /\ readers \in [Readers -> Reader] /\ NoReader \in Reader
    <3>1. NoReader \in Reader
      BY SpawnerAssumption DEF NoReader, Reader, EventSeq
    <3>. QED BY <3>1 DEF Types, PageType
  <2>2. CASE ReaderBegin(r)
    <3>1. PICK b, early \in BOOLEAN : b = (task.pc = "done") /\ early = (task.pc = "new")
      OBVIOUS
    <3>2. Len(events) \in Nat /\ starts \in 0..MaxStarts
      BY DEF Types, PageType, HubType
    <3>3. [NoReader EXCEPT !.pc = "yield", !.own = TRUE, !.start = starts, !.early = early,
                           !.listed = TRUE, !.over = b, !.upto = Len(events)] \in Reader
      BY <2>1, <3>2 DEF Reader
    <3>4. readers' = [readers EXCEPT ![r] =
              [NoReader EXCEPT !.pc = "yield", !.own = TRUE, !.start = starts, !.early = early,
                               !.listed = TRUE, !.over = b, !.upto = Len(events)]]
      BY <2>2, <3>1 DEF ReaderBegin
    <3>. QED BY <3>3, <3>4
  <2>4. CASE ReaderYield(r)
    <3>1. PICK pc \in {"end", "wait"} : pc = IF y.over THEN "end" ELSE "wait"
      OBVIOUS
    <3>2. [y EXCEPT !.next = y.upto, !.pc = pc] \in Reader
      BY <2>1 DEF Reader
    <3>3. readers' = [readers EXCEPT ![r] = [y EXCEPT !.next = y.upto, !.pc = pc]]
      BY <2>1, <2>4, <3>1 DEF ReaderYield
    <3>. QED BY <3>2, <3>3
  <2>5. CASE ReaderWakes(r)
    <3>1. Len(List(r)) \in Nat
      BY <2>1 DEF List, Types, PageType, Reader, EventSeq
    <3>2. PICK b \in BOOLEAN : b = FutureDone(r)
      BY DEF FutureDone
    <3>3. [y EXCEPT !.pc = "yield", !.fired = FALSE, !.over = b, !.upto = Len(List(r))] \in Reader
      BY <2>1, <3>1 DEF Reader
    <3>4. readers' = [readers EXCEPT ![r] = [y EXCEPT !.pc = "yield", !.fired = FALSE,
                                                      !.over = b, !.upto = Len(List(r))]]
      BY <2>1, <2>5, <3>2 DEF ReaderWakes
    <3>. QED BY <3>3, <3>4
  <2>6. CASE ReaderTimesOut(r)
    <3>1. [NoReader EXCEPT !.pc = "end"] \in Reader
      BY <2>1 DEF Reader
    <3>. QED BY <2>6, <3>1 DEF ReaderTimesOut
  <2>. QED BY <1>1, <2>2, <2>4, <2>5, <2>6 DEF Read
<1>4. readers' \in [Readers -> Reader]
  BY <1>3 DEF Types, PageType
<1>. QED BY <1>2, <1>4, SpawnerAssumption DEF Types, HubType, PageType, ControllerType, controller

JupyterHubStep == JupyterHub \/ HubStart \/ HubTimeout \/ HubStop \/ HubRestart

\* Only the requests of creates that are cut off are added, one to a fault.
LEMMA OrphanType ==
    ASSUME Types, Orphan, faults < MaxFaults, faults' = faults + 1
    PROVE  creates' \in Nat /\ creates' <= faults' /\ deletes' \in [Clients -> Answers]
BY SpawnerAssumption DEF Types, HubType, Orphan, Answers

LEMMA HubTypes == ASSUME Types, JupyterHubStep PROVE Types'
<1>1. UNCHANGED controller /\ stream' \in {stream, NoStream}
  BY DEF JupyterHubStep, JupyterHub, HubStarted, HubStopped, HubPoll, HubStart, HubTimeout, HubStop,
         HubRestart
<1>2. NoStream \in [attached : BOOLEAN, rest : EventSeq] /\ NoReader \in Reader
  BY SpawnerAssumption DEF NoStream, NoReader, Reader, EventSeq
<1>3. ControllerType'
  BY <1>1, <1>2 DEF Types, ControllerType, controller
<1>4. CASE JupyterHub \/ HubStop
  <2>1. /\ UNCHANGED <<task, events, readers, starts, faults, creates, rival>>
        /\ hub' \in {"running", "failing", "stopped", "stopping"}
    BY <1>4 DEF JupyterHub, HubStarted, HubStopped, HubPoll, HubStop, history
  <2>2. deletes' \in [Clients -> Answers]
    BY <1>4 DEF JupyterHub, HubStarted, HubStopped, HubPoll, HubStop, Types, HubType, Answers
  <2>. QED BY <1>3, <2>1, <2>2 DEF Types, HubType, PageType
<1>5. CASE HubStart
  <2>1. /\ UNCHANGED <<events, readers, faults, creates, deletes>>
        /\ hub' = "starting" /\ starts' \in 0..MaxStarts /\ rival' = FALSE
        /\ task' = [pc |-> "new", progress |-> 0, result |-> None]
    BY <1>5, SpawnerAssumption DEF HubStart, NoTask, Types, HubType
  <2>2. rival' \in BOOLEAN
    BY <2>1
  <2>. QED BY <1>3, <2>1, <2>2 DEF Types, HubType, PageType
<1>6. CASE HubTimeout
  <2>1. /\ hub' = "failing" /\ UNCHANGED <<events, starts, rival>>
        /\ faults < MaxFaults /\ faults' = faults + 1 /\ faults' \in 0..MaxFaults
    BY <1>6, SpawnerAssumption DEF HubTimeout, Fault, Types, HubType, history
  <2>2. creates' \in Nat /\ creates' <= faults' /\ deletes' \in [Clients -> Answers]
    BY <1>6, <2>1, OrphanType DEF HubTimeout
  <2>3. /\ task' \in [pc : {"none", "new", "create", "stop", "again", "open", "stream", "url", "done"},
                      progress : 0..100, result : {None, "ok", "error", "refused"}]
        /\ readers' \in [Readers -> Reader]
    BY <1>6, FinishType DEF HubTimeout
  <2>. QED BY <1>3, <2>1, <2>2, <2>3 DEF Types, HubType, PageType
<1>7. CASE HubRestart
  <2>1. /\ hub' \in {"running", "stopped"} /\ UNCHANGED <<starts, rival>>
        /\ faults < MaxFaults /\ faults' = faults + 1 /\ faults' \in 0..MaxFaults
        /\ task' = [pc |-> "none", progress |-> 0, result |-> None]
        /\ events' = <<>> /\ readers' = [r \in Readers |-> NoReader]
    BY <1>7, SpawnerAssumption DEF HubRestart, Fault, NoTask, Types, HubType, history
  <2>2. creates' \in Nat /\ creates' <= faults' /\ deletes' \in [Clients -> Answers]
    BY <1>7, <2>1, OrphanType DEF HubRestart
  <2>3. PageType'
    BY <1>2, <2>1 DEF PageType
  <2>. QED BY <1>3, <2>1, <2>2, <2>3 DEF Types, HubType
<1>. QED BY <1>4, <1>5, <1>6, <1>7 DEF JupyterHubStep

LEMMA StepSplits ==
    ASSUME [Next]_vars
    PROVE  \/ Operation \/ Answer \/ Start \/ TaskStreamFails \/ Page \/ JupyterHubStep
           \/ UNCHANGED vars
BY DEF Next, Controller, Operation, Answer, Page, JupyterHubStep

LEMMA StepTypes == Types /\ [Next]_vars => Types'
<1>1. ASSUME Types, UNCHANGED vars PROVE Types'
  BY <1>1 DEF Types, HubType, PageType, ControllerType, vars, controller, history
<1>. QED BY <1>1, StepSplits, OperationType, AnswerType, StartType, PageTypes, HubTypes

-----------------------------------------------------------------------------
(* What each start had                                                      *)

\* Only a start that goes on adds to it, and to the list.
LEMMA PostedSteps ==
    ASSUME [Next]_vars
    PROVE  \/ posted' = posted
           \/ /\ Start /\ \E e : Post(e)
              /\ task.pc \notin {"none", "new", "done"} /\ ~TaskBegin
<1>1. CASE Operation \/ Answer
  BY <1>1 DEF Operation, SpawnBegin, SpawnDeleted, SpawnCreated, PodEvent, SpawnEnds, Reap, DeleteEnds,
     OperationFails, LabLost, Unchanged_Ctl, Answer, DeleteArrives, DeleteAnswered, LateCreate,
     LateDelete, history
<1>2. CASE Page \/ JupyterHubStep \/ UNCHANGED vars
  BY <1>2 DEF Page, Read, ReaderBegin, ReaderYield, ReaderWakes, ReaderTimesOut, Unchanged_Reading,
     JupyterHubStep, JupyterHub, HubStarted, HubStopped, HubPoll, HubStart, HubTimeout, HubStop,
     HubRestart, vars, history
<1>3. CASE TaskCreate
  BY <1>3 DEF TaskCreate, Unchanged_Events, Start, TaskBegin
<1>4. CASE TaskEvent
  BY <1>4 DEF TaskEvent, Start, TaskBegin
<1>5. CASE TaskBegin \/ TaskStopped \/ TaskOpen \/ TaskStreamEnds \/ TaskStreamFails \/ TaskUrl
  BY <1>5 DEF TaskBegin, TaskStopped, TaskOpen, TaskStreamEnds, TaskStreamFails, TaskUrl,
     Unchanged_Events
<1>. QED BY <1>1, <1>2, <1>3, <1>4, <1>5, StepSplits DEF Start

\* What is left of the types.
LEMMA StepRest == RestType /\ [Next]_vars => RestType'
<1>1. SUFFICES ASSUME RestType, [Next]_vars PROVE RestType'
  OBVIOUS
<1>2. closed' = closed \/ closed' \in BOOLEAN
  <2>1. CASE Operation
    BY <2>1 DEF Operation, SpawnBegin, SpawnDeleted, SpawnCreated, PodEvent, SpawnEnds, Reap,
        DeleteEnds, OperationFails, LabLost, Put, PutAndClose
  <2>2. CASE Answer
    BY <2>2 DEF Answer, DeleteArrives, DeleteAnswered, LateCreate, LateDelete, Accept, PutAndClear,
        controller
  <2>3. CASE Start \/ TaskStreamFails
    BY <2>3 DEF Start, TaskBegin, TaskCreate, TaskStopped, TaskOpen, TaskEvent, TaskStreamEnds,
        TaskUrl, TaskStreamFails, Accept, PutAndClear, controller
  <2>4. CASE Page \/ JupyterHubStep \/ UNCHANGED vars
    BY <2>4 DEF Page, Read, ReaderBegin, ReaderYield, ReaderWakes, ReaderTimesOut, Unchanged_Reading,
        JupyterHubStep, JupyterHub, HubStarted, HubStopped, HubPoll, HubStart, HubTimeout, HubStop,
        HubRestart, vars, controller
  <2>. QED BY <1>1, <2>1, <2>2, <2>3, <2>4, StepSplits
<1>3. posted' = posted \/ \E s : posted' = [posted EXCEPT ![s] = posted[s] + 1]
  BY <1>1, PostedSteps DEF Post
<1>. QED BY <1>1, <1>2, <1>3 DEF RestType

-----------------------------------------------------------------------------
(* Pages see all there is                                                   *)

PageOk(p, list, over) ==
    /\ p.pc = "yield" /\ p.over => p.upto = Len(list) /\ (p.own => over)
    /\ p.pc = "end" => p.next = Len(list) /\ (p.own => over)

\* The end of a start fires triggers and changes nothing else of a page.
SamePage(p, q) ==
    /\ q.pc = p.pc /\ q.own = p.own /\ q.old = p.old /\ q.next = p.next /\ q.upto = p.upto
    /\ q.over = p.over /\ q.start = p.start /\ q.early = p.early

LEMMA FiredSame ==
    ASSUME NEW rs \in [Readers -> Reader], NEW r \in Readers PROVE SamePage(rs[r], Fired(rs)[r])
<1>1. rs[r] \in Reader
  OBVIOUS
<1>2. Fired(rs)[r] = IF rs[r].listed THEN [rs[r] EXCEPT !.fired = TRUE] ELSE rs[r]
  BY DEF Fired
<1>. QED BY <1>1, <1>2 DEF SamePage, Reader

LEMMA StartPage ==
    ASSUME Types, PageInv, Start \/ TaskStreamFails PROVE PageInv'
<1>1. readers \in [Readers -> Reader] /\ starts' = starts
  BY DEF Types, PageType, Start, TaskBegin, TaskCreate, TaskStopped, TaskOpen, TaskEvent,
         TaskStreamEnds, TaskUrl, TaskStreamFails, Unchanged_Hub
<1>2. CASE TaskBegin
  <2>1. SUFFICES ASSUME NEW r \in Readers
                 PROVE  /\ ~readers'[r].own
                        /\ readers'[r].pc = readers[r].pc /\ readers'[r].over = readers[r].over
                        /\ readers'[r].upto = readers[r].upto /\ readers'[r].next = readers[r].next
                        /\ List(r)' = List(r)
    BY DEF PageInv
  <2>2. SamePage(readers[r], Fired(readers)[r])
    BY <1>1, FiredSame
  <2>3. Fired(readers)[r] \in Reader
    BY <1>1, FiredType
  <2>4. readers'[r] = [Fired(readers)[r] EXCEPT
            !.listed = FALSE, !.own = FALSE,
            !.old = IF readers[r].own THEN events ELSE Fired(readers)[r].old]
    BY <1>2 DEF TaskBegin
  <2>5. /\ ~readers'[r].own
        /\ readers'[r].pc = readers[r].pc /\ readers'[r].over = readers[r].over
        /\ readers'[r].upto = readers[r].upto /\ readers'[r].next = readers[r].next
        /\ readers'[r].old = IF readers[r].own THEN events ELSE readers[r].old
    BY <2>2, <2>3, <2>4 DEF SamePage, Reader
  <2>. QED BY <2>5 DEF List
<1>3. CASE ~TaskBegin
  <2>1. task.pc \notin {"none", "new", "done"}
    BY <1>3 DEF Start, TaskCreate, TaskStopped, TaskOpen, TaskEvent,
                TaskStreamEnds, TaskUrl, TaskStreamFails
  <2>2. ASSUME NEW r \in Readers PROVE SamePage(readers[r], readers'[r])
    <3>1. readers' = readers \/ readers' = Fired(readers)
      BY <1>3 DEF Start, TaskCreate, TaskStopped, TaskOpen, TaskEvent,
                  TaskStreamEnds, TaskUrl, TaskStreamFails, Finish
    <3>. QED BY <1>1, <3>1, FiredSame DEF SamePage
  <2>3. SUFFICES ASSUME NEW r \in Readers
                 PROVE  /\ readers'[r].own => readers'[r].start = starts
                        /\ PageOk(readers'[r], List(r)', FutureDone(r)')
    BY <1>1 DEF PageInv, PageOk, Types, HubType
  <2>4. SamePage(readers[r], readers'[r])
    BY <2>2
  <2>5. readers[r] \in Reader /\ starts \in Nat
    BY <1>1 DEF Types, HubType
  <2>6. readers[r].own => readers[r].start = starts /\ ~FutureDone(r)
    BY <2>1, <2>5 DEF PageInv, FutureDone, Reader
  <2>7. CASE readers[r].own
    BY <2>4, <2>6, <2>7 DEF SamePage, PageInv, PageOk
  <2>8. CASE ~readers[r].own
    <3>1. List(r)' = List(r)
      BY <2>4, <2>8 DEF SamePage, List
    <3>. QED BY <2>4, <2>8, <3>1 DEF SamePage, PageInv, PageOk
  <2>. QED BY <2>7, <2>8
<1>. QED BY <1>2, <1>3

LEMMA ReaderPage == ASSUME Types, PageInv, Page PROVE PageInv'
<1>1. PICK r \in Readers : ReaderBegin(r) \/ Read(r) \/ ReaderTimesOut(r)
  BY DEF Page
<1>2. UNCHANGED <<task, events, starts>> /\ readers \in [Readers -> Reader] /\ starts \in Nat
  BY <1>1 DEF Read, ReaderBegin, ReaderYield, ReaderWakes, ReaderTimesOut,
              Unchanged_Reading, Types, PageType, HubType
<1>3. ASSUME NEW x \in Readers, x # r PROVE readers'[x] = readers[x]
  BY <1>1, <1>2, <1>3 DEF Read, ReaderBegin, ReaderYield, ReaderWakes, ReaderTimesOut
<1> DEFINE p == readers[r]
           q == readers'[r]
<1>4. p \in Reader
  BY <1>2
<1>5. SUFFICES /\ q.own => q.start <= starts /\ (q.start < starts => task.pc \in {"new", "done"})
               /\ PageOk(q, List(r)', FutureDone(r)')
  BY <1>2, <1>3 DEF PageInv, PageOk, List, FutureDone
<1>6. CASE ReaderBegin(r)
  <2>1. /\ q.pc = "yield" /\ q.start = starts /\ q.own
        /\ q.upto = Len(events) /\ q.over = (task.pc = "done")
    BY <1>2, <1>6 DEF ReaderBegin, NoReader
  <2>2. List(r)' = events /\ (q.over => FutureDone(r)')
    BY <1>2, <2>1 DEF List, FutureDone
  <2>3. PageOk(q, List(r)', FutureDone(r)')
    BY <2>1, <2>2 DEF PageOk
  <2>. QED BY <1>2, <2>1, <2>3
<1>7. CASE ReaderTimesOut(r)
  <2>1. q.pc = "end" /\ ~q.own /\ q.next = 0 /\ q.old = <<>>
    BY <1>2, <1>7 DEF ReaderTimesOut, NoReader
  <2>. QED BY <2>1 DEF PageOk, List
<1>8. CASE Read(r)
  <2>1. q.own = p.own /\ q.old = p.old /\ q.start = p.start
    BY <1>2, <1>4, <1>8 DEF Read, ReaderYield, ReaderWakes, Reader
  <2>2. List(r)' = List(r) /\ FutureDone(r)' = FutureDone(r)
    BY <1>2, <2>1 DEF List, FutureDone
  <2>3. PageOk(q, List(r), FutureDone(r))
    <3>2. CASE ReaderYield(r)
      <4>1. q.next = p.upto /\ p.pc = "yield" /\ q.pc = IF p.over THEN "end" ELSE "wait"
        BY <1>2, <1>4, <3>2 DEF ReaderYield, Reader
      <4>. QED BY <2>1, <4>1 DEF PageOk, PageInv
    <3>3. CASE ReaderWakes(r)
      <4>1. q.pc = "yield" /\ q.over = FutureDone(r) /\ q.upto = Len(List(r))
        BY <1>2, <1>4, <3>3 DEF ReaderWakes, Reader
      <4>. QED BY <4>1 DEF PageOk
    <3>. QED BY <1>8, <3>2, <3>3 DEF Read
  <2>. QED BY <2>1, <2>2, <2>3 DEF PageInv
<1>. QED BY <1>1, <1>6, <1>7, <1>8

LEMMA HubPage == ASSUME Types, PageInv, JupyterHubStep PROVE PageInv'
<1>1. CASE JupyterHub \/ HubStop
  BY <1>1 DEF JupyterHub, HubStarted, HubStopped, HubPoll, HubStop, PageInv, List, FutureDone
<1>2. CASE HubStart
  <2>1. /\ UNCHANGED <<events, readers>> /\ starts' = starts + 1 /\ starts \in Nat
        /\ task'.pc = "new" /\ task.pc \in {"none", "done"}
    BY <1>2 DEF HubStart, NoTask, Types, HubType
  <2>2. \A r \in Readers : readers[r].start \in Nat
    BY DEF Types, PageType, Reader
  <2>3. \A r \in Readers : /\ List(r)' = List(r)
                           /\ readers[r].own => FutureDone(r)' /\ readers[r].start <= starts'
    BY <2>1, <2>2 DEF List, FutureDone, PageInv
  <2>. QED BY <2>1, <2>3 DEF PageInv
<1>3. CASE HubTimeout
  <2>1. UNCHANGED <<events, starts>> /\ task'.pc = "done" /\ readers' = Fired(readers)
    BY <1>3 DEF HubTimeout, Finish, Types, HubType
  <2>2. \A r \in Readers : SamePage(readers[r], readers'[r])
    BY <2>1, FiredSame DEF Types, PageType
  <2>3. \A r \in Readers : List(r)' = List(r) /\ FutureDone(r)'
    BY <2>1, <2>2 DEF SamePage, List, FutureDone
  <2>. QED BY <2>1, <2>2, <2>3 DEF PageInv, SamePage
<1>4. CASE HubRestart
  <2>1. \A r \in Readers : ~readers'[r].own /\ readers'[r].pc = "idle"
    BY <1>4 DEF HubRestart, NoReader
  <2>. QED BY <2>1 DEF PageInv
<1>. QED BY <1>1, <1>2, <1>3, <1>4 DEF JupyterHubStep

LEMMA StepPage == Types /\ PageInv /\ [Next]_vars => PageInv'
<1>1. ASSUME Types, PageInv, Operation \/ Answer \/ UNCHANGED vars PROVE PageInv'
  <2>1. UNCHANGED <<task, events, readers, starts>>
    BY <1>1 DEF Operation, SpawnBegin, SpawnDeleted, SpawnCreated, PodEvent, SpawnEnds, Reap, DeleteEnds,
         OperationFails, LabLost, Unchanged_Ctl, Answer, DeleteArrives, DeleteAnswered, LateCreate,
         LateDelete, vars
  <2>. QED BY <1>1, <2>1 DEF PageInv, List, FutureDone
<1>. QED BY <1>1, StepSplits, StartPage, ReaderPage, HubPage

-----------------------------------------------------------------------------
(* The controller's lab and its operation                                   *)

\* What the steps do to them.
LEMMA LabSteps ==
    ASSUME [Next]_vars
    PROVE  \/ Operation \/ (\E w \in Clients : DeleteArrives(w)) \/ DeleteAnswered
           \/ Accept \/ UNCHANGED <<lab, op, queue, stream>>
           \/ (UNCHANGED <<lab, op, queue>> /\ (Start \/ TaskStreamFails \/ HubTimeout \/ HubRestart))
<1>1. ASSUME Start PROVE Accept \/ UNCHANGED <<lab, op, queue>>
  BY <1>1 DEF Start, TaskBegin, TaskCreate, TaskStopped, TaskOpen, TaskEvent, TaskStreamEnds, TaskUrl,
              controller
<1>2. ASSUME TaskStreamFails \/ HubTimeout \/ HubRestart PROVE UNCHANGED <<lab, op, queue>>
  BY <1>2 DEF TaskStreamFails, HubTimeout, HubRestart, controller
<1>3. ASSUME Page PROVE UNCHANGED <<lab, op, queue, stream>>
  BY <1>3 DEF Page, Read, ReaderBegin, ReaderYield, ReaderWakes, ReaderTimesOut,
              Unchanged_Reading, controller
<1>4. ASSUME JupyterHub \/ HubStart \/ HubStop PROVE UNCHANGED <<lab, op, queue, stream>>
  BY <1>4 DEF JupyterHub, HubStarted, HubStopped, HubPoll, HubStart, HubStop, controller
<1>5. ASSUME LateCreate \/ LateDelete PROVE Accept \/ UNCHANGED <<lab, op, queue, stream>>
  BY <1>5 DEF LateCreate, LateDelete, controller
<1>6. ASSUME UNCHANGED vars PROVE UNCHANGED <<lab, op, queue, stream>>
  BY <1>6 DEF vars, controller
<1>. QED BY <1>1, <1>2, <1>3, <1>4, <1>5, <1>6, StepSplits DEF Answer, JupyterHubStep

\* A delete that begins.
LEMMA DeleteBegins ==
    ASSUME Types, NEW w \in Clients, DeleteArrives(w)
    PROVE  \/ UNCHANGED <<lab, op, queue, stream>> /\ deletes'[w] = "wait" /\ op.kind = "delete"
           \/ UNCHANGED <<lab, op, queue, stream>> /\ deletes'[w] = "gone" /\ lab.status = None
           \/ /\ deletes'[w] = "wait" /\ op.kind # "delete" /\ lab.status # None
              /\ lab' = [status |-> "terminating", url |-> FALSE]
              /\ op' = [kind |-> "delete", step |-> "remove", first |-> FALSE, progress |-> 0]
              /\ queue' = <<Info(25)>>
              /\ PutAndClear(IF op.kind = "spawn" /\ op.step # "done"
                             THEN <<Event("failed", None)>> ELSE <<>>, <<Info(25)>>)
BY DEF DeleteArrives, controller, Terminating, NoOp, PutAndClear, Types, HubType

LEMMA StepLab == Types /\ LabInv /\ [Next]_vars => LabInv'
<1>1. SUFFICES ASSUME Types, LabInv, [Next]_vars PROVE LabInv'
  OBVIOUS
<1>2. /\ lab.url \in BOOLEAN /\ lab = [status |-> lab.status, url |-> lab.url]
      /\ op = [kind |-> op.kind, step |-> op.step, first |-> op.first, progress |-> op.progress]
  BY <1>1 DEF Types, ControllerType
<1>3. CASE UNCHANGED <<lab, op>>
  BY <1>1, <1>3 DEF LabInv
<1>4. CASE Accept
  <2>1. lab' = [status |-> "pending", url |-> FALSE] /\ op'.kind = "spawn" /\ op'.step = "begin"
    BY <1>4 DEF Accept
  <2>. QED BY <2>1, NoneAssumption DEF LabInv, NoOp
<1>5. ASSUME NEW w \in Clients, DeleteArrives(w) PROVE LabInv'
  <2>1. CASE UNCHANGED <<lab, op>>
    BY <1>1, <2>1 DEF LabInv
  <2>2. CASE /\ lab' = [status |-> "terminating", url |-> FALSE]
             /\ op' = [kind |-> "delete", step |-> "remove", first |-> FALSE, progress |-> 0]
    BY <2>2, NoneAssumption DEF LabInv
  <2>. QED BY <1>1, <1>5, <2>1, <2>2, DeleteBegins
<1>6. CASE DeleteAnswered
  <2>1. op' = NoOp /\ op.kind = "delete" /\ (lab' = lab \/ lab' = NoLab)
    BY <1>6 DEF DeleteAnswered
  <2>2. ~lab'.url
    BY <1>1, <2>1 DEF LabInv, NoLab
  <2>. QED BY <2>1, <2>2, NoneAssumption DEF LabInv, NoOp
<1>7. CASE SpawnBegin
  <2>1. op' = [op EXCEPT !.step = IF op.first THEN "delete" ELSE "create"] /\ lab' = lab
        /\ op.kind = "spawn" /\ op.step = "begin"
    BY <1>7 DEF SpawnBegin
  <2>2. op'.kind = "spawn" /\ op'.step \in {"delete", "create"}
    BY <1>2, <2>1
  <2>. QED BY <1>1, <2>1, <2>2, NoneAssumption DEF LabInv, NoOp
<1>8. CASE SpawnDeleted
  <2>1. op'.kind = "spawn" /\ op'.step = "create" /\ op.kind = "spawn" /\ op.step = "delete"
        /\ lab' = [status |-> "terminated", url |-> lab.url]
    BY <1>2, <1>8 DEF SpawnDeleted
  <2>. QED BY <1>1, <2>1, NoneAssumption DEF LabInv, NoOp
<1>9. CASE SpawnCreated
  <2>1. op'.kind = "spawn" /\ op'.step = "wait" /\ lab'.status = "pending"
    BY <1>2, <1>9 DEF SpawnCreated
  <2>. QED BY <1>1, <2>1, NoneAssumption DEF LabInv, NoOp
<1>10. CASE PodEvent
  <2>1. op'.kind = "spawn" /\ op'.step = "wait" /\ op.kind = "spawn" /\ op.step = "wait" /\ lab' = lab
    BY <1>2, <1>10 DEF PodEvent
  <2>. QED BY <1>1, <2>1, NoneAssumption DEF LabInv, NoOp
<1>11. CASE SpawnEnds
  <2>1. op'.kind = "spawn" /\ op'.step = "done" /\ lab'.status = "running"
    BY <1>2, <1>11 DEF SpawnEnds
  <2>. QED BY <1>1, <2>1, NoneAssumption DEF LabInv, NoOp
<1>12. CASE OperationFails
  <2>1. /\ op'.kind = op.kind /\ op'.step = "done" /\ op.kind # None
        /\ lab' = [status |-> "failed", url |-> lab.url]
    BY <1>2, <1>12 DEF OperationFails
  <2>. QED BY <1>1, <2>1, NoneAssumption DEF LabInv, Types, ControllerType
<1>13. CASE Reap
  <2>1. op' = NoOp /\ lab' = lab /\ op.kind = "spawn" /\ op.step = "done"
    BY <1>13 DEF Reap
  <2>. QED BY <1>1, <2>1, NoneAssumption DEF LabInv, NoOp
<1>14. CASE LabLost
  <2>1. op' = op /\ op = NoOp /\ lab' = [status |-> "failed", url |-> lab.url]
    BY <1>2, <1>14 DEF LabLost
  <2>. QED BY <1>1, <2>1, NoneAssumption DEF LabInv, NoOp
<1>15. CASE DeleteEnds
  <2>1. /\ op'.kind = "delete" /\ op'.step = "done" /\ op.kind = "delete"
        /\ lab' = [status |-> "terminated", url |-> lab.url]
    BY <1>2, <1>15 DEF DeleteEnds
  <2>. QED BY <1>1, <2>1, NoneAssumption DEF LabInv, NoOp
<1>. QED BY <1>1, <1>3, <1>4, <1>5, <1>6, <1>7, <1>8, <1>9, <1>10, <1>11, <1>12, <1>13, <1>14, <1>15,
            LabSteps DEF Operation

\* An operation ends with its queue, and another begins with a new one.
LEMMA StepOpen == OpenInv /\ Types /\ [Next]_vars => OpenInv'
<1>1. SUFFICES ASSUME Types, OpenInv, [Next]_vars PROVE OpenInv'
  OBVIOUS
<1>2. op = [kind |-> op.kind, step |-> op.step, first |-> op.first, progress |-> op.progress]
  BY <1>1 DEF Types, ControllerType
<1>3. CASE UNCHANGED <<op, closed>>
  BY <1>1, <1>3 DEF OpenInv
<1>4. CASE Operation
  <2>1. CASE SpawnBegin \/ SpawnDeleted \/ SpawnCreated \/ PodEvent
    <3>1. op.kind # None /\ op.step # "done" /\ UNCHANGED closed
      BY <2>1, NoneAssumption DEF SpawnBegin, SpawnDeleted, SpawnCreated, PodEvent, Put
    <3>. QED BY <1>1, <3>1 DEF OpenInv
  <2>2. CASE SpawnEnds \/ OperationFails \/ DeleteEnds
    <3>1. op'.step = "done"
      BY <1>2, <2>2 DEF SpawnEnds, OperationFails, DeleteEnds
    <3>. QED BY <3>1 DEF OpenInv
  <2>3. CASE Reap
    BY <2>3 DEF Reap, NoOp, OpenInv
  <2>4. CASE LabLost
    BY <1>3, <2>4 DEF LabLost
  <2>. QED BY <1>4, <2>1, <2>2, <2>3, <2>4 DEF Operation
<1>5. CASE Accept
  BY <1>5 DEF Accept, PutAndClear, OpenInv
<1>6. CASE Answer
  <2>1. ASSUME NEW w \in Clients, DeleteArrives(w) PROVE OpenInv'
    BY <1>3, <2>1 DEF DeleteArrives, PutAndClear, OpenInv, controller
  <2>2. CASE DeleteAnswered
    BY <2>2 DEF DeleteAnswered, NoOp, OpenInv
  <2>3. CASE LateCreate \/ LateDelete
    BY <1>3, <1>5, <2>3 DEF LateCreate, LateDelete, controller
  <2>. QED BY <1>6, <2>1, <2>2, <2>3 DEF Answer
<1>7. CASE Start \/ TaskStreamFails
  BY <1>3, <1>5, <1>7 DEF Start, TaskBegin, TaskCreate, TaskStopped, TaskOpen, TaskEvent,
     TaskStreamEnds, TaskUrl, TaskStreamFails, controller
<1>8. CASE Page \/ JupyterHubStep \/ UNCHANGED vars
  BY <1>3, <1>8 DEF Page, Read, ReaderBegin, ReaderYield, ReaderWakes, ReaderTimesOut,
     Unchanged_Reading, JupyterHubStep, JupyterHub, HubStarted, HubStopped, HubPoll, HubStart,
     HubTimeout, HubStop, HubRestart, vars, controller
<1>. QED BY <1>1, <1>4, <1>6, <1>7, <1>8, StepSplits

-----------------------------------------------------------------------------
(* A start is refused, or succeeds, with reason                             *)

\* A start that is over.
LEMMA FinishFacts ==
    ASSUME Types, NEW result, Finish(result)
    PROVE  task'.pc = "done" /\ task'.result = result /\ task'.progress = task.progress
BY DEF Finish, Types, HubType

LEMMA OrphanFacts == Orphan => deletes'["task"] = "none"
BY DEF Orphan, Clients

\* What a step of the start does to what it waits for.
LEMMA CreateFacts ==
    ASSUME Types, TaskCreate
    PROVE  /\ task.pc \in {"create", "again"} /\ rival' = rival
           /\ \/ /\ Accept /\ task'.pc = "open" /\ task'.result = task.result
                 /\ task'.progress = task.progress
                 /\ UNCHANGED <<deletes, events>>
              \/ /\ task.pc = "create" /\ task'.pc = "stop" /\ task'.result = task.result
                 /\ task'.progress = task.progress
                 /\ UNCHANGED <<lab, op, queue, stream>> /\ events' = Append(events, Info(1))
              \/ /\ Conflicts /\ task.pc = "again"
                 /\ task'.pc = "done" /\ task'.result = "refused"
                 /\ UNCHANGED <<lab, op, queue, stream, deletes, events>>
              \/ /\ task'.pc = "done" /\ task'.result = "error"
                 /\ UNCHANGED <<deletes, events>>
                 /\ Accept \/ UNCHANGED <<lab, op, queue, stream>>
<1>1. task.pc \in {"create", "again"} /\ rival' = rival
  BY DEF TaskCreate, Unchanged_Hub
<1>2. CASE /\ ~Conflicts /\ Accept
           /\ task' = [task EXCEPT !.pc = "open"]
           /\ UNCHANGED <<readers, deletes, faults>> /\ Unchanged_Events
  BY <1>1, <1>2 DEF Types, HubType, Unchanged_Events
<1>3. CASE /\ Conflicts /\ task.pc = "create"
           /\ task' = [task EXCEPT !.pc = "stop"]
           /\ Post(Info(1))
           /\ UNCHANGED <<controller, stream>>
  BY <1>1, <1>3 DEF Types, HubType, controller, Post
<1>4. CASE /\ Conflicts /\ task.pc = "again" /\ Finish("refused")
           /\ UNCHANGED <<controller, stream, deletes, faults>> /\ Unchanged_Events
  BY <1>1, <1>4, FinishFacts DEF controller, Unchanged_Events
<1>5. CASE /\ Finish("error") /\ UNCHANGED deletes /\ Unchanged_Events
           /\ Accept \/ UNCHANGED <<controller, stream>>
  BY <1>1, <1>5, FinishFacts DEF controller, Unchanged_Events
<1>. QED BY <1>2, <1>3, <1>4, <1>5 DEF TaskCreate

LEMMA FollowFacts ==
    ASSUME Types, TaskOpen \/ TaskEvent \/ TaskStreamEnds \/ TaskStreamFails \/ TaskUrl
    PROVE  /\ UNCHANGED <<lab, op, queue, deletes, rival>>
           /\ task.pc \in {"open", "stream", "url"} /\ task'.pc \in {"stream", "url", "done"}
           /\ task'.result \in {task.result, "error"} \/ (TaskUrl /\ lab.url)
           /\ task'.result # "refused" \/ task'.result = task.result
<1>1. /\ UNCHANGED <<lab, op, queue, deletes, rival>>
      /\ task.pc \in {"open", "stream", "url"}
  BY DEF TaskOpen, TaskEvent, TaskStreamEnds, TaskStreamFails, TaskUrl, Unchanged_Hub, controller
<1>2. CASE Finish("error")
  BY <1>1, <1>2, FinishFacts
<1>3. CASE TaskUrl /\ Finish(IF lab.url THEN "ok" ELSE "error")
  BY <1>1, <1>3, FinishFacts
<1>4. CASE task'.pc \in {"stream", "url"} /\ task'.result = task.result
  BY <1>1, <1>4
<1>5. ASSUME TaskOpen, ~Finish("error") PROVE task'.pc = "stream" /\ task'.result = task.result
  BY <1>5 DEF TaskOpen, Types, HubType
<1>6. ASSUME TaskStreamEnds PROVE task'.pc = "url" /\ task'.result = task.result
  BY <1>6 DEF TaskStreamEnds, Types, HubType
<1>7. ASSUME TaskEvent, ~Finish("error")
      PROVE  task'.pc \in {"stream", "url"} /\ task'.result = task.result
  <2>1. PICK p, c : task' = [task EXCEPT !.progress = p, !.pc = c]
                    /\ c = IF FromSse(Head(stream.rest), task.progress).kind = "complete"
                           THEN "url" ELSE task.pc
    BY <1>7 DEF TaskEvent
  <2>2. task.pc = "stream"
    BY <1>7 DEF TaskEvent
  <2>. QED BY <2>1, <2>2 DEF Types, HubType
<1>8. TaskUrl => Finish("error") \/ Finish(IF lab.url THEN "ok" ELSE "error")
  BY DEF TaskUrl
<1>9. TaskStreamFails => Finish("error")
  BY DEF TaskStreamFails
<1>. QED BY <1>2, <1>3, <1>4, <1>5, <1>6, <1>7, <1>8, <1>9

LEMMA BeginFacts ==
    ASSUME Types, TaskBegin
    PROVE  /\ UNCHANGED <<lab, op, queue, stream, deletes, rival>> /\ events' = <<>>
           /\ task.pc = "new" /\ task'.pc = "create" /\ task'.result = task.result
           /\ task'.progress = task.progress
BY DEF TaskBegin, Unchanged_Hub, controller, Types, HubType

LEMMA StoppedFacts ==
    ASSUME Types, TaskStopped
    PROVE  /\ UNCHANGED <<lab, op, queue, stream, rival, events>>
           /\ task.pc = "stop" /\ deletes'["task"] = "none"
           /\ \/ /\ deletes["task"] \in {"ok", "gone"} /\ task'.pc = "again"
                 /\ task'.result = task.result /\ task'.progress = task.progress
              \/ task'.pc = "done" /\ task'.result = "error"
<1>1. /\ UNCHANGED <<lab, op, queue, stream, rival, events>>
      /\ task.pc = "stop" /\ deletes'["task"] = "none"
      /\ deletes["task"] \in {"ok", "gone", "error"}
  BY DEF TaskStopped, Unchanged_Hub, Unchanged_Events, controller, Types, HubType, Clients
<1>2. CASE deletes["task"] # "error" /\ task' = [task EXCEPT !.pc = "again"]
  BY <1>1, <1>2 DEF Types, HubType
<1>3. CASE Finish("error")
  BY <1>1, <1>3, FinishFacts
<1>. QED BY <1>2, <1>3 DEF TaskStopped

LEMMA HubFacts ==
    ASSUME Types
    PROVE  /\ HubStart => /\ UNCHANGED <<lab, op, queue, stream, deletes, events>>
                          /\ task.pc \in {"none", "done"} /\ task'.pc = "new" /\ task'.result = None
                          /\ task'.progress = 0
           /\ HubTimeout => /\ UNCHANGED <<lab, op, queue, rival, events>> /\ deletes'["task"] = "none"
                            /\ task'.pc = "done" /\ task'.result = "error"
           /\ HubRestart => /\ UNCHANGED <<lab, op, queue, rival>> /\ deletes'["task"] = "none"
                            /\ task'.pc = "none" /\ task'.result = None /\ task'.progress = 0
                            /\ events' = <<>>
<1>1. ASSUME HubStart
      PROVE /\ UNCHANGED <<lab, op, queue, stream, deletes, events>>
            /\ task.pc \in {"none", "done"} /\ task'.pc = "new" /\ task'.result = None
            /\ task'.progress = 0
  BY <1>1 DEF HubStart, NoTask, controller
<1>2. ASSUME HubTimeout
      PROVE /\ UNCHANGED <<lab, op, queue, rival, events>> /\ deletes'["task"] = "none"
            /\ task'.pc = "done" /\ task'.result = "error"
  BY <1>2, FinishFacts, OrphanFacts DEF HubTimeout, controller, history
<1>3. ASSUME HubRestart
      PROVE /\ UNCHANGED <<lab, op, queue, rival>> /\ deletes'["task"] = "none"
            /\ task'.pc = "none" /\ task'.result = None /\ task'.progress = 0
            /\ events' = <<>>
  BY <1>3, OrphanFacts DEF HubRestart, NoTask, controller, history
<1>. QED BY <1>1, <1>2, <1>3

\* The rest leaves a start alone.
LEMMA OtherFacts ==
    ASSUME Types
    PROVE  /\ Operation => UNCHANGED <<task, events, deletes, rival>>
           /\ (\E w \in Clients : DeleteArrives(w)) \/ DeleteAnswered => UNCHANGED <<task, events, rival>>
           /\ LateCreate => UNCHANGED <<task, events, deletes>> /\ rival'
           /\ LateDelete \/ JupyterHub \/ HubStop =>
                  /\ UNCHANGED <<task, events, rival, lab, op, queue, stream>>
                  /\ deletes'["task"] = deletes["task"]
           /\ Page \/ UNCHANGED vars =>
                  UNCHANGED <<task, events, deletes, rival, lab, op, queue, stream>>
<1>1. Operation => UNCHANGED <<task, events, deletes, rival>>
  BY DEF Operation, SpawnBegin, SpawnDeleted, SpawnCreated, PodEvent, SpawnEnds, Reap, DeleteEnds,
         OperationFails, LabLost, Unchanged_Ctl, history
<1>2. (\E w \in Clients : DeleteArrives(w)) \/ DeleteAnswered => UNCHANGED <<task, events, rival>>
  BY DEF DeleteArrives, DeleteAnswered, history
<1>3. LateCreate => UNCHANGED <<task, events, deletes>> /\ rival'
  BY DEF LateCreate
<1>4. LateDelete \/ JupyterHub \/ HubStop =>
          /\ UNCHANGED <<task, events, rival, lab, op, queue, stream>>
          /\ deletes'["task"] = deletes["task"]
  BY DEF LateDelete, JupyterHub, HubStarted, HubStopped, HubPoll, HubStop, controller, history, Types, HubType,
         Clients
<1>5. Page => UNCHANGED <<task, events, deletes, rival, lab, op, queue, stream>>
  BY DEF Page, Read, ReaderBegin, ReaderYield, ReaderWakes, ReaderTimesOut,
         Unchanged_Reading, controller, history
<1>6. UNCHANGED vars => UNCHANGED <<task, events, deletes, rival, lab, op, queue, stream>>
  BY DEF vars, controller, history
<1>. QED BY <1>1, <1>2, <1>3, <1>4, <1>5, <1>6

LEMMA StartSplits ==
    Start \/ TaskStreamFails =>
        \/ TaskBegin \/ TaskCreate \/ TaskStopped
        \/ TaskOpen \/ TaskEvent \/ TaskStreamEnds \/ TaskStreamFails \/ TaskUrl
BY DEF Start

LEMMA StepHub == Types /\ HubInv /\ [Next]_vars => HubInv'
<1>1. SUFFICES ASSUME Types, HubInv, [Next]_vars PROVE HubInv'
  OBVIOUS
<1>2. CASE HubStart \/ HubTimeout \/ HubRestart
  BY <1>1, <1>2, HubFacts DEF HubInv, HubRestart
<1>3. CASE TaskBegin \/ TaskCreate \/ TaskStopped
           \/ TaskOpen \/ TaskEvent \/ TaskStreamEnds \/ TaskStreamFails \/ TaskUrl
  BY <1>1, <1>3, BeginFacts, CreateFacts, StoppedFacts, FollowFacts DEF HubInv
<1>4. CASE JupyterHub \/ HubStop
  BY <1>4 DEF JupyterHub, HubStarted, HubStopped, HubPoll, HubStop, HubInv
<1>5. CASE Operation \/ Answer \/ Page \/ UNCHANGED vars
  <2>1. UNCHANGED <<hub, task>>
    BY <1>5 DEF Operation, SpawnBegin, SpawnDeleted, SpawnCreated, PodEvent, SpawnEnds, Reap,
       DeleteEnds, OperationFails, LabLost, Unchanged_Ctl, Answer, DeleteArrives, DeleteAnswered,
       LateCreate, LateDelete, Page, Read, ReaderBegin, ReaderYield, ReaderWakes, ReaderTimesOut,
       Unchanged_Reading, vars
  <2>. QED BY <1>1, <2>1 DEF HubInv
<1>. QED BY <1>1, <1>2, <1>3, <1>4, <1>5, StepSplits, StartSplits DEF JupyterHubStep

\* What the start of a page had is what its list has, whoever has the list.
LEMMA StepPosted ==
    Types /\ RestType /\ HubInv /\ PageInv /\ PostedInv /\ [Next]_vars => PostedInv'
<1>1. SUFFICES ASSUME Types, RestType, HubInv, PageInv, PostedInv, [Next]_vars PROVE PostedInv'
  OBVIOUS
<1>2. /\ readers \in [Readers -> Reader] /\ starts \in 0..MaxStarts
      /\ posted \in [1..MaxStarts -> Nat] /\ MaxStarts \in Nat
      /\ events \in Seq([kind : Kinds, progress : 0..100])
  BY <1>1, SpawnerAssumption DEF Types, PageType, HubType, RestType
<1>3. \A r \in Readers : readers[r].start \in 0..MaxStarts /\ readers[r].early \in BOOLEAN
  BY <1>2 DEF Reader
<1>4. CASE UNCHANGED <<task, events, readers, starts, posted>>
  BY <1>1, <1>4 DEF PostedInv, OfItsStart, List
<1>5. CASE TaskBegin
  <2>1. /\ UNCHANGED <<starts, posted>> /\ events' = <<>> /\ task.pc = "new" /\ task'.pc = "create"
    BY <1>1, <1>5, BeginFacts DEF TaskBegin, Unchanged_Hub
  <2>2. starts \in 1..MaxStarts /\ posted[starts] = 0
    BY <1>1, <1>2, <2>1 DEF PostedInv
  <2>3. ASSUME NEW r \in Readers PROVE OfItsStart(readers[r], List(r))'
    <3>1. SamePage(readers[r], Fired(readers)[r]) /\ Fired(readers)[r] \in Reader
      BY <1>2, FiredSame, FiredType
    <3>2. readers'[r] = [Fired(readers)[r] EXCEPT
              !.listed = FALSE, !.own = FALSE,
              !.old = IF readers[r].own THEN events ELSE Fired(readers)[r].old]
      BY <1>5 DEF TaskBegin
    <3>3. /\ ~readers'[r].own
          /\ readers'[r].start = readers[r].start /\ readers'[r].early = readers[r].early
          /\ readers'[r].old = IF readers[r].own THEN events ELSE readers[r].old
      BY <3>1, <3>2 DEF SamePage, Reader
    <3>4. OfItsStart(readers[r], List(r)) /\ List(r)' = List(r)
      BY <1>1, <3>3 DEF PostedInv, List
    <3>5. readers[r].own => readers[r].start <= starts
      BY <1>1 DEF PageInv
    <3>6. readers'[r].start # 0 /\ ~readers'[r].early => readers'[r].start < starts
      BY <1>2, <1>3, <2>1, <3>3, <3>4, <3>5 DEF OfItsStart
    <3>. QED BY <2>1, <3>3, <3>4, <3>6 DEF OfItsStart
  <2>4. starts' # 0 /\ posted'[starts'] = Len(events')
    BY <2>1, <2>2
  <2>5. \A s \in 1..MaxStarts : s > starts' => posted'[s] = 0
    BY <1>1, <2>1 DEF PostedInv
  <2>. QED BY <2>1, <2>3, <2>4, <2>5 DEF PostedInv
<1>6. CASE (Start \/ TaskStreamFails \/ HubTimeout) /\ ~TaskBegin
  <2>1. /\ starts' = starts /\ task.pc \notin {"none", "new", "done"}
        /\ readers' = readers \/ readers' = Fired(readers)
    BY <1>1, <1>6 DEF Start, TaskCreate, TaskStopped, TaskOpen, TaskEvent, TaskStreamEnds, TaskUrl,
       TaskStreamFails, Finish, Unchanged_Hub, HubTimeout, HubInv
  <2>0. task'.pc \notin {"none", "new"}
    <3>1. TaskCreate => task'.pc \in {"open", "stop", "done"}
      BY <1>1, CreateFacts
    <3>2. TaskStopped => task'.pc \in {"again", "done"}
      BY <1>1, StoppedFacts
    <3>3. TaskOpen \/ TaskEvent \/ TaskStreamEnds \/ TaskStreamFails \/ TaskUrl =>
              task'.pc \in {"stream", "url", "done"}
      BY <1>1, FollowFacts
    <3>4. HubTimeout => task'.pc = "done"
      BY <1>1, HubFacts
    <3>. QED BY <1>6, <3>1, <3>2, <3>3, <3>4 DEF Start
  <2>2. starts \in 1..MaxStarts /\ posted[starts] = Len(events)
    BY <1>1, <1>2, <2>1 DEF PostedInv
  <2>3. ASSUME NEW r \in Readers PROVE SamePage(readers[r], readers'[r])
    BY <1>2, <2>1, FiredSame DEF SamePage
  <2>4. \/ UNCHANGED <<events, posted>>
        \/ /\ \E e : events' = Append(events, e)
           /\ posted' = [posted EXCEPT ![starts] = posted[starts] + 1]
    <3>1. HubTimeout => UNCHANGED <<events, posted>>
      BY DEF HubTimeout, history
    <3>2. TaskCreate => UNCHANGED <<events, posted>> \/ \E e : Post(e)
      BY DEF TaskCreate, Unchanged_Events
    <3>3. TaskEvent => \E e : Post(e)
      BY DEF TaskEvent
    <3>4. TaskStopped \/ TaskOpen \/ TaskStreamEnds \/ TaskStreamFails \/ TaskUrl =>
              UNCHANGED <<events, posted>>
      BY DEF TaskStopped, TaskOpen, TaskStreamEnds, TaskStreamFails, TaskUrl, Unchanged_Events
    <3>. QED BY <1>6, <3>1, <3>2, <3>3, <3>4 DEF Start, Post
  <2>5. /\ Len(events') = posted'[starts]
        /\ \A s \in 1..MaxStarts : s # starts => posted'[s] = posted[s]
    <3>1. CASE UNCHANGED <<events, posted>>
      BY <2>2, <3>1
    <3>2. CASE /\ \E e : events' = Append(events, e)
               /\ posted' = [posted EXCEPT ![starts] = posted[starts] + 1]
      <4>1. Len(events') = Len(events) + 1
        BY <1>2, <3>2
      <4>. QED BY <1>2, <2>2, <3>2, <4>1
    <3>. QED BY <2>4, <3>1, <3>2
  <2>6. ASSUME NEW r \in Readers PROVE OfItsStart(readers[r], List(r))'
    <3>1. /\ readers'[r].own = readers[r].own /\ readers'[r].old = readers[r].old
          /\ readers'[r].start = readers[r].start /\ readers'[r].early = readers[r].early
      BY <2>3 DEF SamePage
    <3>2. OfItsStart(readers[r], List(r))
      BY <1>1 DEF PostedInv
    <3>3. CASE readers[r].own
      <4>1. readers[r].start = starts
        BY <1>1, <1>2, <1>3, <2>1, <3>3 DEF PageInv
      <4>2. List(r)' = events'
        BY <3>1, <3>3 DEF List
      <4>. QED BY <2>0, <2>5, <3>1, <3>3, <4>1, <4>2 DEF OfItsStart
    <3>4. CASE ~readers[r].own
      <4>1. List(r)' = List(r)
        BY <3>1, <3>4 DEF List
      <4>2. readers[r].start # 0 /\ ~readers[r].early =>
                /\ readers[r].start < starts /\ readers[r].start \in 1..MaxStarts
                /\ posted[readers[r].start] = Len(List(r))
        BY <1>2, <1>3, <3>2, <3>4 DEF OfItsStart
      <4>3. readers[r].start < starts => readers[r].start # starts
        BY <1>2, <1>3
      <4>. QED BY <2>1, <2>5, <3>1, <3>4, <4>1, <4>2, <4>3 DEF OfItsStart
    <3>. QED BY <3>3, <3>4
  <2>7. \A s \in 1..MaxStarts : s > starts => posted'[s] = 0
    <3>1. \A s \in 1..MaxStarts : s > starts => s # starts /\ posted[s] = 0
      BY <1>1, <1>2 DEF PostedInv
    <3>. QED BY <2>5, <3>1
  <2>. QED BY <2>0, <2>1, <2>2, <2>5, <2>6, <2>7 DEF PostedInv
<1>7. CASE HubStart
  <2>1. /\ UNCHANGED <<events, readers, posted>> /\ starts' = starts + 1
        /\ task'.pc = "new" /\ task.pc \in {"none", "done"}
    BY <1>1, <1>7, HubFacts DEF HubStart
  <2>2. \A s \in 1..MaxStarts : s > starts' \/ (s = starts' /\ task'.pc = "new") => posted'[s] = 0
    BY <1>1, <1>2, <2>1 DEF PostedInv
  <2>3. ASSUME NEW r \in Readers PROVE OfItsStart(readers[r], List(r))'
    <3>1. OfItsStart(readers[r], List(r)) /\ List(r)' = List(r)
      BY <1>1, <2>1 DEF PostedInv, List
    <3>2. readers[r].own => readers[r].start <= starts
      BY <1>1 DEF PageInv
    <3>3. readers[r].own => readers[r].start # starts'
      BY <1>2, <1>3, <2>1, <3>2
    <3>4. readers[r].start < starts => readers[r].start < starts'
      BY <1>2, <1>3, <2>1
    <3>. QED BY <2>1, <3>1, <3>3, <3>4 DEF OfItsStart
  <2>4. starts' # 0
    BY <1>2, <2>1
  <2>. QED BY <2>1, <2>2, <2>3, <2>4 DEF PostedInv
<1>8. CASE HubRestart
  <2>1. /\ UNCHANGED <<starts, posted>> /\ task'.pc = "none"
        /\ \A r \in Readers : readers'[r].start = 0
    BY <1>1, <1>8, HubFacts DEF HubRestart, NoReader, history
  <2>2. \A s \in 1..MaxStarts : s > starts' => posted'[s] = 0
    BY <1>1, <2>1 DEF PostedInv
  <2>. QED BY <2>1, <2>2 DEF PostedInv, OfItsStart
<1>9. CASE Page
  <2>1. PICK r \in Readers : ReaderBegin(r) \/ Read(r) \/ ReaderTimesOut(r)
    BY <1>9 DEF Page
  <2>2. UNCHANGED <<task, events, starts, posted>>
    BY <2>1 DEF Read, ReaderBegin, ReaderYield, ReaderWakes, ReaderTimesOut, Unchanged_Reading, history
  <2>3. ASSUME NEW x \in Readers, x # r PROVE readers'[x] = readers[x]
    BY <1>2, <2>1, <2>3 DEF Read, ReaderBegin, ReaderYield, ReaderWakes, ReaderTimesOut
  <2>4. OfItsStart(readers'[r], List(r)')
    <3>1. CASE ReaderBegin(r)
      <4>1. /\ readers'[r].own /\ readers'[r].start = starts
            /\ readers'[r].early = (task.pc = "new") /\ task.pc # "none"
        BY <1>2, <3>1 DEF ReaderBegin, NoReader
      <4>2. List(r)' = events
        BY <2>2, <4>1 DEF List
      <4>. QED BY <1>1, <2>2, <4>1, <4>2 DEF OfItsStart, PostedInv
    <3>2. CASE ReaderTimesOut(r)
      <4>1. readers'[r].start = 0
        BY <1>2, <3>2 DEF ReaderTimesOut, NoReader
      <4>. QED BY <4>1 DEF OfItsStart
    <3>3. CASE Read(r)
      <4>1. /\ readers'[r].own = readers[r].own /\ readers'[r].old = readers[r].old
            /\ readers'[r].start = readers[r].start /\ readers'[r].early = readers[r].early
        BY <1>2, <3>3 DEF Read, ReaderYield, ReaderWakes, Reader
      <4>2. List(r)' = List(r) /\ OfItsStart(readers[r], List(r))
        BY <1>1, <2>2, <4>1 DEF List, PostedInv
      <4>. QED BY <4>1, <4>2 DEF OfItsStart
    <3>. QED BY <2>1, <3>1, <3>2, <3>3
  <2>5. ASSUME NEW x \in Readers PROVE OfItsStart(readers[x], List(x))'
    <3>1. CASE x = r
      BY <2>2, <2>4, <3>1 DEF OfItsStart, List
    <3>2. CASE x # r
      <4>1. readers'[x] = readers[x] /\ List(x)' = List(x) /\ OfItsStart(readers[x], List(x))
        BY <1>1, <2>2, <2>3, <3>2 DEF List, PostedInv
      <4>. QED BY <2>2, <4>1 DEF OfItsStart
    <3>. QED BY <3>1, <3>2
  <2>. QED BY <1>1, <2>2, <2>5 DEF PostedInv
<1>10. CASE Operation \/ Answer \/ JupyterHub \/ HubStop \/ UNCHANGED vars
  <2>1. UNCHANGED <<task, events, readers, starts, posted>>
    BY <1>10 DEF Operation, SpawnBegin, SpawnDeleted, SpawnCreated, PodEvent, SpawnEnds, Reap,
       DeleteEnds, OperationFails, LabLost, Unchanged_Ctl, Answer, DeleteArrives, DeleteAnswered,
       LateCreate, LateDelete, JupyterHub, HubStarted, HubStopped, HubPoll, HubStop, vars, history
  <2>. QED BY <1>4, <2>1
<1>. QED BY <1>1, <1>5, <1>6, <1>7, <1>8, <1>9, <1>10, StepSplits DEF JupyterHubStep

LEMMA StepStop == Types /\ LabInv /\ StopInv /\ [Next]_vars => StopInv'
<1>1. SUFFICES ASSUME Types, LabInv, StopInv, [Next]_vars PROVE StopInv'
  OBVIOUS
<1> DEFINE Gone == op = NoOp /\ lab = NoLab
           Told == deletes["task"] \in {"ok", "gone"} \/ task.pc = "again"
<1>2. /\ Gone => op.kind = None /\ lab.status = None
      /\ lab.status = None => lab = NoLab
  BY <1>1, NoneAssumption DEF NoOp, NoLab, LabInv, Types, ControllerType
<1>3. CASE Operation
  <2>1. op.kind # None \/ lab.status = "running"
    BY <1>3, NoneAssumption DEF Operation, SpawnBegin, SpawnDeleted, SpawnCreated, PodEvent,
       SpawnEnds, Reap, DeleteEnds, OperationFails, LabLost
  <2>. QED BY <1>1, <1>2, <1>3, <2>1, OtherFacts, NoneAssumption DEF StopInv
<1>4. ASSUME NEW w \in Clients, DeleteArrives(w) PROVE StopInv'
  <2>1. UNCHANGED <<task, rival>>
    BY <1>1, <1>4, OtherFacts
  <2>2. /\ deletes[w] = "sent"
        /\ w # "task" => deletes'["task"] = deletes["task"]
    BY <1>1, <1>4 DEF DeleteArrives, Types, HubType, Clients
  <2>3. deletes'["task"] # "none" => deletes["task"] # "none"
    BY <2>2
  <2>4. CASE UNCHANGED <<lab, op>> /\ deletes'[w] = "wait"
    BY <1>1, <2>1, <2>2, <2>3, <2>4 DEF StopInv
  <2>5. CASE UNCHANGED <<lab, op>> /\ deletes'[w] = "gone" /\ lab.status = None
    BY <1>1, <1>2, <2>1, <2>2, <2>3, <2>5 DEF StopInv, LabInv
  <2>6. CASE deletes'[w] = "wait" /\ lab.status # None
    BY <1>1, <1>2, <2>1, <2>2, <2>3, <2>6 DEF StopInv
  <2>. QED BY <1>1, <1>4, <2>4, <2>5, <2>6, DeleteBegins
<1>5. CASE DeleteAnswered
  <2>1. /\ UNCHANGED <<task, rival>> /\ op.kind = "delete" /\ op' = NoOp
        /\ deletes'["task"] # "none" => deletes["task"] # "none"
        /\ deletes["task"] # "wait" => deletes'["task"] = deletes["task"]
        /\ deletes'["task"] \in {"ok", "gone"} => deletes["task"] # "wait" \/ lab' = NoLab
    BY <1>1, <1>5, OtherFacts DEF DeleteAnswered, Clients
  <2>. QED BY <1>1, <1>2, <2>1, NoneAssumption DEF StopInv
<1>6. CASE LateCreate
  BY <1>1, <1>6, OtherFacts DEF StopInv
<1>7. CASE LateDelete \/ JupyterHub \/ HubStop
  BY <1>1, <1>7, OtherFacts DEF StopInv
<1>8. CASE Page \/ UNCHANGED vars
  BY <1>1, <1>8, OtherFacts DEF StopInv
<1>9. CASE TaskBegin
  BY <1>1, <1>9, BeginFacts DEF StopInv
<1>10. CASE TaskCreate
  <2>1. deletes["task"] = "none"
    BY <1>1, <1>10, CreateFacts DEF StopInv
  <2>2. CASE task.pc = "create" /\ task'.pc = "stop"
    <3>1. deletes' = deletes \/ deletes'["task"] = "sent"
      BY <1>1, <1>10 DEF TaskCreate, Types, HubType, Clients
    <3>. QED BY <2>1, <2>2, <3>1 DEF StopInv
  <2>. QED BY <1>1, <1>10, <2>1, <2>2, CreateFacts DEF StopInv
<1>11. CASE TaskStopped
  BY <1>1, <1>11, StoppedFacts DEF StopInv
<1>12. CASE TaskOpen \/ TaskEvent \/ TaskStreamEnds \/ TaskStreamFails \/ TaskUrl
  BY <1>1, <1>12, FollowFacts DEF StopInv
<1>13. CASE HubStart
  BY <1>1, <1>13, HubFacts DEF StopInv
<1>14. CASE HubTimeout \/ HubRestart
  BY <1>1, <1>14, HubFacts DEF StopInv
<1>. QED BY <1>1, <1>3, <1>4, <1>5, <1>6, <1>7, <1>8, <1>9, <1>10, <1>11, <1>12, <1>13, <1>14,
            StepSplits, StartSplits DEF Answer, JupyterHubStep

\* The second create meets no other lab, so only another create can refuse it.
LEMMA StepRefused == Types /\ StopInv /\ RefusedByRival /\ [Next]_vars => RefusedByRival'
<1>1. SUFFICES ASSUME Types, StopInv, RefusedByRival, [Next]_vars PROVE RefusedByRival'
  OBVIOUS
<1>2. CASE UNCHANGED <<task, rival>> \/ (UNCHANGED task /\ rival')
  BY <1>1, <1>2 DEF RefusedByRival
<1>3. CASE TaskBegin
  BY <1>1, <1>3, BeginFacts DEF RefusedByRival
<1>4. CASE TaskCreate
  <2>1. task.pc = "again" /\ Conflicts => rival
    BY <1>1 DEF StopInv, Conflicts, NoLab
  <2>. QED BY <1>1, <1>4, <2>1, CreateFacts DEF RefusedByRival
<1>5. CASE TaskStopped
  BY <1>1, <1>5, StoppedFacts DEF RefusedByRival
<1>6. CASE TaskOpen \/ TaskEvent \/ TaskStreamEnds \/ TaskStreamFails \/ TaskUrl
  BY <1>1, <1>6, FollowFacts DEF RefusedByRival
<1>7. CASE HubStart \/ HubTimeout \/ HubRestart
  BY <1>1, <1>7, HubFacts, NoneAssumption DEF RefusedByRival
<1>. QED BY <1>1, <1>2, <1>3, <1>4, <1>5, <1>6, <1>7, OtherFacts, StepSplits, StartSplits
         DEF Answer, JupyterHubStep

-----------------------------------------------------------------------------
(* What a start follows                                                     *)

LEMMA NoCompleteAppend ==
    ASSUME NEW s \in EventSeq, NEW t \in EventSeq, NoComplete(s), NoComplete(t)
    PROVE  NoComplete(s \o t)
<1>1. SUFFICES ASSUME NEW i \in 1..Len(s \o t) PROVE (s \o t)[i].kind # "complete"
  BY DEF NoComplete
<1>2. CASE i <= Len(s)
  BY <1>1, <1>2 DEF NoComplete, EventSeq
<1>3. CASE i > Len(s)
  <2>1. i - Len(s) \in 1..Len(t) /\ (s \o t)[i] = t[i - Len(s)]
    BY <1>1, <1>3 DEF EventSeq
  <2>. QED BY <2>1 DEF NoComplete
<1>. QED BY <1>1, <1>2, <1>3 DEF EventSeq

LEMMA InfoFacts ==
    ASSUME NEW p \in 0..100
    PROVE  Info(p) \in Message /\ Info(p).kind = "info" /\ Info(p).progress = p
BY DEF Info, Event, Message, Kinds

LEMMA NoCompleteTwo ==
    ASSUME NEW a \in Message, NEW b \in Message, a.kind # "complete", b.kind # "complete"
    PROVE  /\ <<>> \in EventSeq /\ NoComplete(<<>>)
           /\ <<a>> \in EventSeq /\ NoComplete(<<a>>)
           /\ <<a, b>> \in EventSeq /\ NoComplete(<<a, b>>)
<1>1. EventSeq = Seq(Message)
  BY DEF EventSeq, Message
<1>2. <<>> \in EventSeq /\ <<a>> \in EventSeq /\ <<a, b>> \in EventSeq
  BY <1>1
<1>3. Len(<<>>) = 0 /\ Len(<<a>>) = 1 /\ Len(<<a, b>>) = 2
  OBVIOUS
<1>4. NoComplete(<<>>) /\ NoComplete(<<a>>) /\ NoComplete(<<a, b>>)
  BY <1>3 DEF NoComplete
<1>. QED BY <1>2, <1>4

\* An operation that goes on, and the events it puts.
LEMMA OperationPuts ==
    ASSUME Types, Operation, op'.kind = "spawn", op'.step # "done"
    PROVE  /\ op.kind = "spawn" /\ op.step # "done"
           /\ \E es \in EventSeq : Put(es) /\ NoComplete(es)
<1>1. ASSUME NEW p \in 0..75 PROVE Info(p) \in Message /\ Info(p).kind # "complete"
  BY <1>1, InfoFacts
<1>2. op = [kind |-> op.kind, step |-> op.step, first |-> op.first, progress |-> op.progress]
  BY DEF Types, ControllerType
<1>3. CASE SpawnBegin
  <2> DEFINE more == IF op.first THEN <<Info(2), Info(5)>> ELSE <<>>
  <2>1. <<Info(1)>> \in EventSeq /\ NoComplete(<<Info(1)>>)
    <3>1. Info(1) \in Message /\ Info(1).kind # "complete"
      BY <1>1
    <3>. QED BY <3>1, NoCompleteTwo
  <2>2. more \in EventSeq /\ NoComplete(more)
    <3>1. <<Info(2), Info(5)>> \in EventSeq /\ NoComplete(<<Info(2), Info(5)>>)
          /\ <<>> \in EventSeq /\ NoComplete(<<>>)
      <4>1. /\ Info(2) \in Message /\ Info(2).kind # "complete"
            /\ Info(5) \in Message /\ Info(5).kind # "complete"
        BY <1>1
      <4>. QED BY <4>1, NoCompleteTwo
    <3>. QED BY <3>1
  <2>3. <<Info(1)>> \o more \in EventSeq /\ NoComplete(<<Info(1)>> \o more)
    <3>. HIDE DEF more
    <3>1. NoComplete(<<Info(1)>> \o more)
      BY <2>1, <2>2, NoCompleteAppend
    <3>. QED BY <2>1, <2>2, <3>1 DEF EventSeq
  <2>4. Put(<<Info(1)>> \o more) /\ op.kind = "spawn" /\ op.step = "begin"
    BY <1>3 DEF SpawnBegin
  <2>. QED BY <2>3, <2>4
<1>4. CASE SpawnDeleted
  <2>1. <<Info(12), Info(20)>> \in EventSeq /\ NoComplete(<<Info(12), Info(20)>>)
    <3>1. /\ Info(12) \in Message /\ Info(12).kind # "complete"
          /\ Info(20) \in Message /\ Info(20).kind # "complete"
      BY <1>1
    <3>. QED BY <3>1, NoCompleteTwo
  <2>. QED BY <1>4, <2>1 DEF SpawnDeleted
<1>5. CASE SpawnCreated
  <2>1. <<Info(30)>> \in EventSeq /\ NoComplete(<<Info(30)>>)
    <3>1. Info(30) \in Message /\ Info(30).kind # "complete"
      BY <1>1
    <3>. QED BY <3>1, NoCompleteTwo
  <2>. QED BY <1>5, <2>1 DEF SpawnCreated
<1>6. CASE PodEvent
  <2>1. PICK e \in Message : e = Info(op.progress) /\ e.kind # "complete"
    BY <1>1 DEF Types, ControllerType
  <2>2. <<e>> \in EventSeq /\ NoComplete(<<e>>)
    BY <2>1, NoCompleteTwo
  <2>. QED BY <1>6, <2>1, <2>2 DEF PodEvent
<1>7. CASE SpawnEnds \/ OperationFails
  BY <1>2, <1>7 DEF SpawnEnds, OperationFails
<1>8. CASE Reap \/ LabLost
  BY <1>8, NoneAssumption DEF Reap, LabLost, NoOp
<1>9. CASE DeleteEnds
  BY <1>2, <1>9 DEF DeleteEnds
<1>. QED BY <1>3, <1>4, <1>5, <1>6, <1>7, <1>8, <1>9 DEF Operation

\* Events are put, and the queue goes on or ends.
Puts(es) == Put(es) \/ PutAndClose(es)
LEMMA PutsFacts ==
    ASSUME Types, NEW es \in EventSeq, Puts(es)
    PROVE  /\ queue' = queue \o es
           /\ stream'.attached => stream.attached
           /\ stream'.rest = IF stream.attached THEN stream.rest \o es ELSE stream.rest
<1>1. CASE Put(es)
  BY <1>1 DEF Put, Types, ControllerType
<1>2. CASE PutAndClose(es)
  <2>1. CASE stream.attached
    BY <1>2, <2>1 DEF PutAndClose
  <2>2. CASE ~stream.attached
    BY <1>2, <2>2 DEF PutAndClose
  <2>. QED BY <2>1, <2>2
<1>. QED BY <1>1, <1>2 DEF Puts

LEMMA PutFacts ==
    ASSUME Types, NEW es \in EventSeq, Put(es)
    PROVE  /\ queue' = queue \o es
           /\ stream'.attached = stream.attached
           /\ stream'.rest = IF stream.attached THEN stream.rest \o es ELSE stream.rest
BY DEF Put, Types, ControllerType

LEMMA AcceptFacts ==
    ASSUME Types, Accept
    PROVE  /\ queue' = <<>> /\ op'.kind = "spawn" /\ op'.step = "begin"
           /\ lab' = [status |-> "pending", url |-> FALSE]
           /\ ~stream'.attached /\ stream'.rest = stream.rest
BY DEF Accept, PutAndClear, Types, ControllerType, EventSeq

LEMMA StepStart == Types /\ LabInv /\ OpenInv /\ StartInv /\ [Next]_vars => StartInv'
<1>1. SUFFICES ASSUME Types, LabInv, OpenInv, StartInv, [Next]_vars,
                      ~rival', task'.pc \in {"open", "stream", "url"},
                      op'.kind = "spawn", op'.step # "done"
               PROVE  /\ task'.pc # "url" /\ NoComplete(queue')
                      /\ task'.pc = "stream" => stream'.attached /\ NoComplete(stream'.rest)
  BY DEF StartInv, NoComplete
<1>2. CASE Operation
  <2>1. UNCHANGED <<task, rival>> /\ op.kind = "spawn" /\ op.step # "done"
    BY <1>1, <1>2, OtherFacts, OperationPuts
  <2>2. PICK es \in EventSeq : Put(es) /\ NoComplete(es)
    BY <1>1, <1>2, OperationPuts
  <2>3. /\ queue' = queue \o es
        /\ stream'.attached = stream.attached
        /\ stream'.rest = IF stream.attached THEN stream.rest \o es ELSE stream.rest
    BY <1>1, <2>2, PutFacts
  <2>4. NoComplete(queue \o es) /\ task.pc # "url"
    BY <1>1, <2>1, <2>2, NoCompleteAppend DEF StartInv, Types, ControllerType
  <2>5. task.pc = "stream" => stream.attached /\ NoComplete(stream.rest \o es)
    BY <1>1, <2>1, <2>2, NoCompleteAppend DEF StartInv, Types, ControllerType
  <2>. QED BY <2>1, <2>3, <2>4, <2>5
<1>3. ASSUME NEW w \in Clients, DeleteArrives(w)
      PROVE  UNCHANGED <<task, rival, lab, op, queue, stream>>
  BY <1>1, <1>3, DeleteBegins, OtherFacts
<1>4. CASE DeleteAnswered
  BY <1>1, <1>4, NoneAssumption DEF DeleteAnswered, NoOp
<1>5. CASE UNCHANGED <<task, rival, lab, op, queue, stream>>
  BY <1>1, <1>5 DEF StartInv
<1>6. CASE LateCreate
  BY <1>1, <1>6, OtherFacts
<1>7. CASE TaskBegin
  BY <1>1, <1>7, BeginFacts
<1>8. CASE TaskCreate
  <2>1. Accept /\ task'.pc = "open"
    BY <1>1, <1>8, CreateFacts
  <2>. QED BY <1>1, <2>1, AcceptFacts DEF NoComplete
<1>9. CASE TaskStopped
  BY <1>1, <1>9, StoppedFacts
<1>10. CASE TaskOpen \/ TaskEvent \/ TaskStreamEnds \/ TaskStreamFails \/ TaskUrl
  <2>1. UNCHANGED <<lab, op, queue, rival>> /\ task.pc \in {"open", "stream", "url"}
    BY <1>1, <1>10, FollowFacts
  <2>2. /\ task.pc # "url" /\ NoComplete(queue)
        /\ task.pc = "stream" => stream.attached /\ NoComplete(stream.rest)
    BY <1>1, <2>1 DEF StartInv
  <2>3. CASE TaskOpen
    <3>1. task'.pc # "done"
      BY <1>1
    <3>2. ~Finish("error")
      BY <1>1, <3>1, FinishFacts
    <3>3. task'.pc = "stream" /\ stream' = [attached |-> ~closed, rest |-> queue]
      BY <1>1, <2>3, <3>2 DEF TaskOpen, Types, HubType
    <3>4. ~closed
      BY <1>1, <2>1, NoneAssumption DEF OpenInv
    <3>. QED BY <2>1, <2>2, <3>3, <3>4
  <2>4. CASE TaskEvent
    <3>1. /\ task.pc = "stream" /\ stream.rest # <<>>
          /\ stream' = [stream EXCEPT !.rest = Tail(stream.rest)]
      BY <2>4 DEF TaskEvent
    <3>2. stream.rest \in EventSeq /\ stream'.attached = stream.attached
          /\ stream'.rest = Tail(stream.rest)
      BY <1>1, <3>1 DEF Types, ControllerType
    <3>3. Head(stream.rest).kind # "complete" /\ NoComplete(Tail(stream.rest))
      BY <2>2, <3>1, <3>2 DEF NoComplete, EventSeq
    <3>4. ~Finish("error")
      BY <1>1, FinishFacts
    <3>5. FromSse(Head(stream.rest), task.progress).kind # "complete"
      BY <3>3 DEF FromSse, Event
    <3>6. \E p : task' = [task EXCEPT !.progress = p, !.pc = task.pc]
      BY <2>4, <3>4, <3>5 DEF TaskEvent
    <3>7. task'.pc = "stream"
      BY <1>1, <3>1, <3>6 DEF Types, HubType
    <3>. QED BY <2>1, <2>2, <3>1, <3>2, <3>3, <3>7
  <2>5. CASE TaskStreamEnds
    <3>1. task.pc = "stream" /\ ~stream.attached
      BY <2>5 DEF TaskStreamEnds, NoStream
    <3>. QED BY <2>2, <3>1
  <2>6. CASE TaskStreamFails
    BY <1>1, <2>6, FinishFacts DEF TaskStreamFails
  <2>7. CASE TaskUrl
    BY <2>2, <2>7 DEF TaskUrl
  <2>. QED BY <1>10, <2>3, <2>4, <2>5, <2>6, <2>7
<1>11. CASE HubStart \/ HubTimeout \/ HubRestart
  BY <1>1, <1>11, HubFacts
<1>. QED BY <1>1, <1>2, <1>3, <1>4, <1>5, <1>6, <1>7, <1>8, <1>9, <1>10, <1>11, OtherFacts,
            StepSplits, StartSplits DEF Answer, JupyterHubStep

\* The lab a start succeeds with was started.
LEMMA StepStarted ==
    ASSUME Types, LabInv, StartInv, [Next]_vars, task'.result = "ok", task.result # "ok"
    PROVE  lab.status \in {"running", "failed"} \/ rival
<1>1. TaskUrl /\ lab.url
  <2>1. task' # task
    OBVIOUS
  <2>2. Start \/ TaskStreamFails \/ HubStart \/ HubTimeout \/ HubRestart
    BY <2>1, OtherFacts, StepSplits DEF Answer, JupyterHubStep
  <2>3. ~TaskBegin
    BY BeginFacts
  <2>4. ~TaskCreate
    BY CreateFacts
  <2>5. ~TaskStopped
    BY StoppedFacts
  <2>6. ~HubStart /\ ~HubTimeout /\ ~HubRestart
    BY HubFacts, NoneAssumption
  <2>. QED BY <2>2, <2>3, <2>4, <2>5, <2>6, FollowFacts, StartSplits
<1>2. task.pc = "url"
  BY <1>1 DEF TaskUrl
<1>. QED BY <1>1, <1>2 DEF StartInv, LabInv

-----------------------------------------------------------------------------
(* The progress of an operation rises                                       *)

\* An event by itself, and what it does to any sequence it is put to.
Sound(e) == /\ e.kind = "info" => e.progress \in 1..100
            /\ e.kind = "error" => e.progress = None
Climbs(s, n) == Rising(s) /\ AtMost(s, n)
Lifts(es, n, m) ==
    \A s \in EventSeq :
        Climbs(s, n) => /\ Climbs(s \o es, m)
                        /\ \A k \in 0..n : AtLeast(s, k) => AtLeast(s \o es, k)

LEMMA LevelFacts == ASSUME NEW e, Sound(e), Levelled(e) PROVE Level(e) \in 1..100
<1>1. CASE e.kind = "complete"
  BY <1>1 DEF Level
<1>2. CASE e.kind = "info"
  <2>1. e.progress \in 1..100 /\ e.kind # "complete"
    BY <1>2 DEF Sound
  <2>. QED BY <2>1 DEF Level
<1>. QED BY <1>1, <1>2 DEF Levelled

LEMMA LiftsOne ==
    ASSUME NEW e \in Message, NEW n \in 0..100, NEW m \in 0..100, n <= m, Sound(e),
           Levelled(e) => n <= Level(e) /\ Level(e) <= m
    PROVE  <<e>> \in EventSeq /\ Lifts(<<e>>, n, m)
<1>1. EventSeq = Seq(Message)
  BY DEF EventSeq, Message
<1>2. SUFFICES ASSUME NEW s \in Seq(Message), Climbs(s, n)
               PROVE  /\ Climbs(s \o <<e>>, m)
                      /\ \A k \in 0..n : AtLeast(s, k) => AtLeast(s \o <<e>>, k)
  BY <1>1 DEF Lifts
<1> DEFINE t == s \o <<e>>
<1>3. /\ Len(t) = Len(s) + 1 /\ Len(s) \in Nat /\ t[Len(s) + 1] = e
      /\ \A i \in 1..Len(s) : t[i] = s[i]
  OBVIOUS
<1> HIDE DEF t
<1>4. ASSUME NEW i \in 1..Len(t), i # Len(s) + 1 PROVE i \in 1..Len(s) /\ t[i] = s[i]
  BY <1>3, <1>4
<1>5. ASSUME NEW i \in 1..Len(s), Levelled(s[i]) PROVE Level(s[i]) \in 1..100 /\ Level(s[i]) <= n
  <2>1. Sound(s[i]) /\ Level(s[i]) <= n
    BY <1>2, <1>5 DEF Climbs, Rising, AtMost, Sound
  <2>. QED BY <1>5, <2>1, LevelFacts
<1>6. Levelled(e) => Level(e) \in 1..100
  BY LevelFacts
<1>7. \A i \in 1..Len(t) : Sound(t[i])
  <2>1. \A i \in 1..Len(s) : Sound(s[i])
    BY <1>2 DEF Climbs, Rising, Sound
  <2>. QED BY <1>3, <1>4, <2>1
<1>8. ASSUME NEW i \in 1..Len(t), NEW j \in 1..Len(t), i < j, Levelled(t[i]), Levelled(t[j])
      PROVE  Level(t[i]) <= Level(t[j])
  <2>1. i \in 1..Len(s) /\ t[i] = s[i]
    BY <1>3, <1>4, <1>8
  <2>2. CASE j = Len(s) + 1
    <3>1. t[j] = e
      BY <1>3, <2>2
    <3>2. Level(t[i]) \in 1..100 /\ Level(t[i]) <= n
      BY <1>5, <1>8, <2>1
    <3>3. Level(t[j]) \in 1..100 /\ n <= Level(t[j])
      BY <1>6, <1>8, <3>1
    <3>4. PICK x \in 1..100, y \in 1..100 : x = Level(t[i]) /\ y = Level(t[j])
      BY <3>2, <3>3
    <3>5. x <= n /\ n <= y
      BY <3>2, <3>3, <3>4
    <3>6. x <= y
      BY <3>5
    <3>. QED BY <3>4, <3>6
  <2>3. CASE j # Len(s) + 1
    <3>1. j \in 1..Len(s) /\ t[j] = s[j]
      BY <1>4, <2>3
    <3>. QED BY <1>2, <1>8, <2>1, <3>1 DEF Climbs, Rising
  <2>. QED BY <2>2, <2>3
<1>9. Rising(t)
  BY <1>7, <1>8 DEF Rising, Sound
<1>10. AtMost(t, m)
  <2>1. SUFFICES ASSUME NEW i \in 1..Len(t), Levelled(t[i]) PROVE Level(t[i]) <= m
    BY DEF AtMost
  <2>2. CASE i = Len(s) + 1
    <3>1. t[i] = e
      BY <1>3, <2>2
    <3>. QED BY <2>1, <3>1
  <2>3. CASE i # Len(s) + 1
    <3>1. i \in 1..Len(s) /\ t[i] = s[i]
      BY <1>4, <2>3
    <3>2. Level(t[i]) \in 1..100 /\ Level(t[i]) <= n
      BY <1>5, <2>1, <3>1
    <3>3. PICK x \in 1..100 : x = Level(t[i])
      BY <3>2
    <3>4. x <= m
      BY <3>2, <3>3
    <3>. QED BY <3>3, <3>4
  <2>. QED BY <2>2, <2>3
<1>11. ASSUME NEW k \in 0..n, AtLeast(s, k) PROVE AtLeast(t, k)
  <2>1. SUFFICES ASSUME NEW i \in 1..Len(t), Levelled(t[i]) PROVE k <= Level(t[i])
    BY DEF AtLeast
  <2>2. CASE i = Len(s) + 1
    <3>1. t[i] = e
      BY <1>3, <2>2
    <3>2. Level(t[i]) \in 1..100 /\ n <= Level(t[i])
      BY <1>6, <2>1, <3>1
    <3>3. PICK x \in 1..100 : x = Level(t[i])
      BY <3>2
    <3>4. k <= x
      BY <3>2, <3>3
    <3>. QED BY <3>3, <3>4
  <2>3. CASE i # Len(s) + 1
    BY <1>4, <1>11, <2>1, <2>3 DEF AtLeast
  <2>. QED BY <2>2, <2>3
<1>. QED BY <1>9, <1>10, <1>11 DEF Climbs, t

LEMMA LiftsTwo ==
    ASSUME NEW es \in EventSeq, NEW fs \in EventSeq, NEW n \in 0..100, NEW m \in 0..100, NEW l \in 0..100,
           n <= m, Lifts(es, n, m), Lifts(fs, m, l)
    PROVE  es \o fs \in EventSeq /\ Lifts(es \o fs, n, l)
<1>1. es \o fs \in EventSeq
  BY DEF EventSeq
<1>2. SUFFICES ASSUME NEW s \in EventSeq, Climbs(s, n)
               PROVE  /\ Climbs(s \o (es \o fs), l)
                      /\ \A k \in 0..n : AtLeast(s, k) => AtLeast(s \o (es \o fs), k)
  BY <1>1 DEF Lifts
<1>3. s \o es \in EventSeq /\ s \o (es \o fs) = (s \o es) \o fs
  BY DEF EventSeq
<1>4. Climbs(s \o es, m) /\ \A k \in 0..n : AtLeast(s, k) => AtLeast(s \o es, k)
  BY <1>2 DEF Lifts
<1>5. /\ Climbs((s \o es) \o fs, l)
      /\ \A k \in 0..m : AtLeast(s \o es, k) => AtLeast((s \o es) \o fs, k)
  BY <1>3, <1>4 DEF Lifts
<1>. QED BY <1>3, <1>4, <1>5

\* What each operation puts lifts what is there to what it has reached now.
LEMMA LiftsMore ==
    ASSUME NEW es \in EventSeq, NEW n \in 0..100, NEW m \in 0..100, NEW l \in 0..100, m <= l,
           Lifts(es, n, m)
    PROVE  Lifts(es, n, l)
<1>1. ASSUME NEW s \in EventSeq, Climbs(s, m) PROVE Climbs(s, l)
  <2>1. SUFFICES ASSUME NEW i \in 1..Len(s), Levelled(s[i]) PROVE Level(s[i]) <= l
    BY <1>1 DEF Climbs, AtMost
  <2>2. Sound(s[i]) /\ Level(s[i]) <= m
    BY <1>1, <2>1 DEF Climbs, Rising, AtMost, Sound
  <2>3. PICK x \in 1..100 : x = Level(s[i])
    BY <2>1, <2>2, LevelFacts
  <2>4. x <= l
    BY <2>2, <2>3
  <2>. QED BY <2>3, <2>4
<1>2. \A s \in EventSeq : s \o es \in EventSeq
  BY DEF EventSeq
<1>. QED BY <1>1, <1>2 DEF Lifts

LEMMA Joined ==
    ASSUME NEW a \in Message, NEW b \in Message PROVE <<a>> \o <<b>> = <<a, b>>
<1>1. <<a>> \in Seq(Message) /\ <<b>> \in Seq(Message) /\ <<a, b>> \in Seq(Message)
  OBVIOUS
<1>2. /\ Len(<<a>>) = 1 /\ Len(<<b>>) = 1 /\ Len(<<a, b>>) = 2
      /\ <<a>>[1] = a /\ <<b>>[1] = b /\ <<a, b>>[1] = a /\ <<a, b>>[2] = b
  OBVIOUS
<1>3. /\ Len(<<a>> \o <<b>>) = 2 /\ (<<a>> \o <<b>>)[1] = a /\ (<<a>> \o <<b>>)[2] = b
      /\ <<a>> \o <<b>> \in Seq(Message)
  BY <1>1, <1>2, ConcatProperties
<1>4. \A i \in 1..2 : (<<a>> \o <<b>>)[i] = <<a, b>>[i]
  BY <1>2, <1>3
<1>. QED BY <1>1, <1>2, <1>3, <1>4, SeqEqual

LEMMA LiftsPair ==
    ASSUME NEW a \in Message, NEW b \in Message, NEW n \in 0..100, NEW l \in 0..100, NEW m \in 0..100,
           n <= l, Lifts(<<a>>, n, l), Lifts(<<b>>, l, m)
    PROVE  <<a, b>> \in EventSeq /\ <<a, b>> # <<>> /\ Lifts(<<a, b>>, n, m)
<1>1. <<a>> \in EventSeq /\ <<b>> \in EventSeq
  BY DEF EventSeq, Message
<1>2. <<a>> \o <<b>> \in EventSeq /\ Lifts(<<a>> \o <<b>>, n, m)
  BY <1>1, LiftsTwo
<1>3. <<a>> \o <<b>> = <<a, b>>
  BY Joined
<1>. QED BY <1>2, <1>3

LEMMA LiftsInfo ==
    ASSUME NEW n \in 0..100, NEW p \in 1..100, NEW m \in 0..100, n <= p, p <= m
    PROVE  \E es \in EventSeq : /\ es = <<Info(p)>> /\ es # <<>> /\ es[1].kind = "info"
                                /\ Lifts(es, n, m)
<1>1. PICK e \in Message : e = Info(p) /\ e.kind = "info" /\ e.progress = p
  <2>1. p \in 0..100
    OBVIOUS
  <2>. QED BY <2>1, InfoFacts
<1>2. Sound(e) /\ Level(e) = p
  BY <1>1 DEF Sound, Level
<1>3. n <= m /\ (Levelled(e) => n <= Level(e) /\ Level(e) <= m)
  BY <1>2
<1>4. <<e>> \in EventSeq /\ Lifts(<<e>>, n, m)
  BY <1>2, <1>3, LiftsOne
<1>5. <<e>>[1] = e /\ <<e>> # <<>>
  OBVIOUS
<1>. QED BY <1>1, <1>4, <1>5

LEMMA LiftsInfos ==
    ASSUME NEW n \in 0..100, NEW p \in 1..100, NEW q \in 1..100, NEW m \in 0..100,
           n <= p, p <= q, q <= m
    PROVE  \E es \in EventSeq : es = <<Info(p), Info(q)>> /\ es # <<>> /\ Lifts(es, n, m)
<1>1. PICK e \in Message, f \in Message :
          /\ e = Info(p) /\ e.kind = "info" /\ e.progress = p
          /\ f = Info(q) /\ f.kind = "info" /\ f.progress = q
  <2>1. p \in 0..100 /\ q \in 0..100
    OBVIOUS
  <2>. QED BY <2>1, InfoFacts
<1>2. Sound(e) /\ Level(e) = p /\ Sound(f) /\ Level(f) = q
  BY <1>1 DEF Sound, Level
<1>3. p \in 0..100 /\ p <= m /\ p <= p
  OBVIOUS
<1>4. /\ Levelled(e) => n <= Level(e) /\ Level(e) <= p
      /\ Levelled(f) => p <= Level(f) /\ Level(f) <= m
  BY <1>2
<1>5. Lifts(<<e>>, n, p) /\ Lifts(<<f>>, p, m)
  BY <1>2, <1>3, <1>4, LiftsOne
<1>6. <<e, f>> \in EventSeq /\ <<e, f>> # <<>> /\ Lifts(<<e, f>>, n, m)
  BY <1>3, <1>5, LiftsPair
<1>. QED BY <1>1, <1>6

LEMMA LiftsFailures ==
    ASSUME NEW n \in 0..100
    PROVE  /\ <<Event("failed", None)>> \in EventSeq /\ Lifts(<<Event("failed", None)>>, n, 100)
           /\ \E es \in EventSeq : /\ es = <<Event("error", None), Event("failed", None)>>
                                   /\ es # <<>> /\ Lifts(es, n, 100)
<1> DEFINE e == Event("error", None)
           f == Event("failed", None)
<1>1. /\ e \in Message /\ e.kind = "error" /\ e.progress = None
      /\ f \in Message /\ f.kind = "failed"
  <2>1. None \in 0..100 \cup {None} /\ "error" \in Kinds /\ "failed" \in Kinds
    BY DEF Kinds
  <2>. QED BY <2>1 DEF Event, Message
<1> HIDE DEF e, f
<1>2. Sound(e) /\ ~Levelled(e) /\ Sound(f) /\ ~Levelled(f)
  BY <1>1 DEF Sound, Levelled
<1>3. n <= n /\ n <= 100 /\ 100 \in 0..100
  OBVIOUS
<1>4. Lifts(<<e>>, n, n) /\ Lifts(<<f>>, n, 100) /\ <<f>> \in EventSeq
  BY <1>1, <1>2, <1>3, LiftsOne
<1>5. <<e, f>> \in EventSeq /\ <<e, f>> # <<>> /\ Lifts(<<e, f>>, n, 100)
  BY <1>1, <1>3, <1>4, LiftsPair
<1>. QED BY <1>4, <1>5 DEF e, f

LEMMA LiftsComplete ==
    ASSUME NEW n \in 0..75
    PROVE  \E es \in EventSeq : es = <<Event("complete", None)>> /\ es # <<>> /\ Lifts(es, n, 100)
<1> DEFINE e == Event("complete", None)
<1>1. e \in Message /\ e.kind = "complete"
  <2>1. None \in 0..100 \cup {None} /\ "complete" \in Kinds
    BY DEF Kinds
  <2>. QED BY <2>1 DEF Event, Message
<1> HIDE DEF e
<1>2. Sound(e) /\ Level(e) = 75
  BY <1>1 DEF Sound, Level
<1>3. PICK m \in 0..100 : m = 100
  OBVIOUS
<1>4. n \in 0..100 /\ n <= m /\ (Levelled(e) => n <= Level(e) /\ Level(e) <= m)
  BY <1>2, <1>3
<1>5. <<e>> \in EventSeq /\ Lifts(<<e>>, n, m)
  BY <1>1, <1>2, <1>4, LiftsOne
<1>6. <<e>> # <<>>
  OBVIOUS
<1>. QED BY <1>3, <1>5, <1>6 DEF e

LEMMA ReachedType == Types => Reached \in 0..100
BY DEF Types, ControllerType, Reached

LEMMA ReachedNext == Types' => Reached' \in 0..100
BY DEF Types, ControllerType, Reached

LEMMA OperationLifts ==
    ASSUME Types, LabInv, QueueInv, Operation
    PROVE  \/ UNCHANGED <<queue, stream>> /\ Reached <= Reached' /\ (op' = op \/ op' = NoOp)
           \/ /\ op.kind # None /\ op.step # "done" /\ op'.step # "begin" /\ Reached <= Reached'
              /\ op'.step = "wait" => op'.progress >= 35
              /\ \E es \in EventSeq :
                     /\ Puts(es) /\ es # <<>> /\ Lifts(es, Reached, Reached')
                     /\ op.step = "begin" => es[1].kind = "info"
<1>1. op = [kind |-> op.kind, step |-> op.step, first |-> op.first, progress |-> op.progress]
  BY DEF Types, ControllerType
<1>2. CASE SpawnBegin
  <2>1. op.kind = "spawn" /\ op.step = "begin" /\ Reached = 0
    BY <1>2 DEF SpawnBegin, Reached
  <2>2. CASE op.first
    <3>1. op'.step = "delete" /\ Reached' = 5
      BY <1>1, <1>2, <2>2 DEF SpawnBegin, Reached
    <3>2. PICK one \in EventSeq : /\ one = <<Info(1)>> /\ one # <<>> /\ one[1].kind = "info"
                                  /\ Lifts(one, 0, 1)
      <4>1. 0 \in 0..100 /\ 1 \in 1..100 /\ 1 \in 0..100 /\ 0 <= 1 /\ 1 <= 1
        OBVIOUS
      <4>. QED BY <4>1, LiftsInfo
    <3>3. PICK two \in EventSeq : two = <<Info(2), Info(5)>> /\ two # <<>> /\ Lifts(two, 1, 5)
      <4>1. 1 \in 0..100 /\ 2 \in 1..100 /\ 5 \in 1..100 /\ 5 \in 0..100 /\ 1 <= 2 /\ 2 <= 5 /\ 5 <= 5
        OBVIOUS
      <4>. QED BY <4>1, LiftsInfos
    <3>4. PICK es \in EventSeq : es = one \o two /\ Lifts(es, 0, 5)
      <4>1. 0 \in 0..100 /\ 1 \in 0..100 /\ 5 \in 0..100 /\ 0 <= 1
        OBVIOUS
      <4>2. one \o two \in EventSeq /\ Lifts(one \o two, 0, 5)
        BY <3>2, <3>3, <4>1, LiftsTwo
      <4>. QED BY <4>2
    <3>5. es # <<>> /\ es[1] = one[1]
      BY <3>2, <3>4 DEF EventSeq
    <3>6. Puts(es)
      BY <1>2, <2>2, <3>2, <3>3, <3>4 DEF SpawnBegin, Puts
    <3>7. op.kind # None
      BY <2>1, NoneAssumption
    <3>8. Reached <= Reached' /\ Lifts(es, Reached, Reached')
      BY <2>1, <3>1, <3>4
    <3>9. op'.step # "wait" /\ es[1].kind = "info"
      BY <3>1, <3>2, <3>5
    <3>. QED BY <2>1, <3>1, <3>5, <3>6, <3>7, <3>8, <3>9
  <2>3. CASE ~op.first
    <3>1. op'.step = "create" /\ Reached' = 20
      BY <1>1, <1>2, <2>3 DEF SpawnBegin, Reached
    <3>2. PICK es \in EventSeq : /\ es = <<Info(1)>> /\ es # <<>> /\ es[1].kind = "info"
                                 /\ Lifts(es, 0, 20)
      <4>1. 0 \in 0..100 /\ 1 \in 1..100 /\ 20 \in 0..100 /\ 0 <= 1 /\ 1 <= 20
        OBVIOUS
      <4>. QED BY <4>1, LiftsInfo
    <3>3. es \o <<>> = es
      BY DEF EventSeq
    <3>4. Puts(es)
      BY <1>2, <2>3, <3>2, <3>3 DEF SpawnBegin, Puts
    <3>5. op.kind # None
      BY <2>1, NoneAssumption
    <3>6. Reached <= Reached' /\ Lifts(es, Reached, Reached')
      BY <2>1, <3>1, <3>2
    <3>. QED BY <2>1, <3>1, <3>2, <3>4, <3>5, <3>6
  <2>. QED BY <2>2, <2>3
<1>3. CASE SpawnDeleted
  <2>1. op.kind = "spawn" /\ op.step = "delete" /\ Reached = 5 /\ op'.step = "create" /\ Reached' = 20
    BY <1>1, <1>3 DEF SpawnDeleted, Reached
  <2>2. PICK es \in EventSeq : es = <<Info(12), Info(20)>> /\ es # <<>> /\ Lifts(es, 5, 20)
    <3>1. 5 \in 0..100 /\ 12 \in 1..100 /\ 20 \in 1..100 /\ 20 \in 0..100 /\ 5 <= 12 /\ 12 <= 20 /\ 20 <= 20
      OBVIOUS
    <3>. QED BY <3>1, LiftsInfos
  <2>3. Puts(es)
    BY <1>3, <2>2 DEF SpawnDeleted, Puts
  <2>4. op.kind # None
    BY <2>1, NoneAssumption
  <2>5. Reached <= Reached' /\ Lifts(es, Reached, Reached')
    BY <2>1, <2>2
  <2>. QED BY <2>1, <2>2, <2>3, <2>4, <2>5
<1>4. CASE SpawnCreated
  <2>1. /\ op.kind = "spawn" /\ op.step = "create" /\ Reached = 20
        /\ op'.step = "wait" /\ op'.progress = 35 /\ Reached' = 35
    BY <1>1, <1>4 DEF SpawnCreated, Reached
  <2>2. PICK es \in EventSeq : /\ es = <<Info(30)>> /\ es # <<>> /\ es[1].kind = "info"
                               /\ Lifts(es, 20, 35)
    <3>1. 20 \in 0..100 /\ 30 \in 1..100 /\ 35 \in 0..100 /\ 20 <= 30 /\ 30 <= 35
      OBVIOUS
    <3>. QED BY <3>1, LiftsInfo
  <2>3. Puts(es)
    BY <1>4, <2>2 DEF SpawnCreated, Puts
  <2>4. op.kind # None
    BY <2>1, NoneAssumption
  <2>. QED BY <2>1, <2>2, <2>3, <2>4
<1>5. CASE PodEvent
  <2>1. /\ op.kind = "spawn" /\ op.step = "wait" /\ Reached = op.progress
        /\ op'.step = "wait" /\ op'.progress = Closer(op.progress) /\ Reached' = op'.progress
    BY <1>1, <1>5 DEF PodEvent, Reached
  <2>2. PICK p \in 35..75 : p = op.progress
    <3>1. op.progress \in 0..75 /\ op.progress >= 35
      BY <2>1 DEF QueueInv, Types, ControllerType
    <3>. QED BY <3>1
  <2>3. PICK q \in 35..75 : q = Closer(p) /\ p <= q
    BY DEF Closer
  <2>4. PICK es \in EventSeq : /\ es = <<Info(p)>> /\ es # <<>> /\ es[1].kind = "info"
                               /\ Lifts(es, p, q)
    <3>1. p \in 0..100 /\ p \in 1..100 /\ q \in 0..100 /\ p <= p
      OBVIOUS
    <3>. QED BY <2>3, <3>1, LiftsInfo
  <2>5. Puts(es)
    BY <1>5, <2>2, <2>4 DEF PodEvent, Puts
  <2>6. Reached = p /\ Reached' = q /\ op'.progress >= 35
    BY <2>1, <2>2, <2>3
  <2>7. op.kind # None
    BY <2>1, NoneAssumption
  <2>8. Reached <= Reached' /\ Lifts(es, Reached, Reached')
    BY <2>3, <2>4, <2>6
  <2>. QED BY <2>1, <2>4, <2>5, <2>6, <2>7, <2>8
<1>6. CASE SpawnEnds
  <2>1. /\ op.kind = "spawn" /\ op.step = "wait" /\ Reached = op.progress
        /\ op'.step = "done" /\ Reached' = 100
    BY <1>1, <1>6 DEF SpawnEnds, Reached
  <2>2. PICK p \in 0..75 : p = op.progress
    BY DEF Types, ControllerType
  <2>3. PICK es \in EventSeq : es = <<Event("complete", None)>> /\ es # <<>> /\ Lifts(es, p, 100)
    BY LiftsComplete
  <2>4. Puts(es)
    BY <1>6, <2>3 DEF SpawnEnds, Puts
  <2>5. op.kind # None
    BY <2>1, NoneAssumption
  <2>6. Reached <= Reached' /\ Lifts(es, Reached, Reached')
    <3>1. p <= 100
      OBVIOUS
    <3>. QED BY <2>1, <2>2, <2>3, <3>1
  <2>. QED BY <2>1, <2>3, <2>4, <2>5, <2>6
<1>7. CASE OperationFails
  <2>1. /\ op.kind # None /\ op.step \notin {"begin", "done"}
        /\ op'.step = "done" /\ Reached' = 100
    BY <1>1, <1>7 DEF OperationFails, Reached
  <2>2. PICK n \in 0..100 : n = Reached
    BY ReachedType
  <2>3. PICK es \in EventSeq : /\ es = <<Event("error", None), Event("failed", None)>>
                               /\ es # <<>> /\ Lifts(es, n, 100)
    BY LiftsFailures
  <2>4. Puts(es)
    BY <1>7, <2>3 DEF OperationFails, Puts
  <2>5. Reached <= Reached' /\ Lifts(es, Reached, Reached')
    <3>1. n <= 100
      OBVIOUS
    <3>. QED BY <2>1, <2>2, <2>3, <3>1
  <2>. QED BY <2>1, <2>3, <2>4, <2>5
<1>8. CASE Reap
  <2>1. op' = NoOp /\ UNCHANGED <<queue, stream>>
    BY <1>8 DEF Reap
  <2>2. Reached' = 100
    BY <2>1, NoneAssumption DEF Reached, NoOp
  <2>3. Reached \in 0..100
    BY ReachedType
  <2>4. Reached <= 100
    BY <2>3
  <2>. QED BY <2>1, <2>2, <2>4
<1>9. CASE LabLost
  <2>1. op' = op /\ UNCHANGED <<queue, stream>>
    BY <1>9 DEF LabLost
  <2>2. Reached' = Reached /\ Reached \in 0..100
    BY <2>1, ReachedType DEF Reached
  <2>. QED BY <2>1, <2>2
<1>10. CASE DeleteEnds
  <2>1. /\ op.kind = "delete" /\ op.step = "remove" /\ Reached = 25
        /\ op'.step = "done" /\ Reached' = 100
    BY <1>1, <1>10 DEF DeleteEnds, Reached
  <2>2. PICK es \in EventSeq : es = <<Info(62), Info(100)>> /\ es # <<>> /\ Lifts(es, 25, 100)
    <3>1. PICK m \in 1..100 : m = 100
      OBVIOUS
    <3>2. 25 \in 0..100 /\ 62 \in 1..100 /\ m \in 0..100 /\ 25 <= 62 /\ 62 <= m /\ m <= m
      BY <3>1
    <3>3. \E es \in EventSeq : es = <<Info(62), Info(m)>> /\ es # <<>> /\ Lifts(es, 25, m)
      BY <3>2, LiftsInfos
    <3>. QED BY <3>1, <3>3
  <2>3. Puts(es)
    BY <1>10, <2>2 DEF DeleteEnds, Puts
  <2>4. op.kind # None
    BY <2>1, NoneAssumption
  <2>5. Reached <= Reached' /\ Lifts(es, Reached, Reached')
    BY <2>1, <2>2
  <2>. QED BY <2>1, <2>2, <2>3, <2>4, <2>5
<1>. QED BY <1>2, <1>3, <1>4, <1>5, <1>6, <1>7, <1>8, <1>9, <1>10 DEF Operation

LEMMA LiftsNothing ==
    ASSUME NEW s \in EventSeq, Rising(s)
    PROVE  AtLeast(s, 0) /\ AtMost(s, 100)
<1>1. ASSUME NEW i \in 1..Len(s), Levelled(s[i]) PROVE 0 <= Level(s[i]) /\ Level(s[i]) <= 100
  <2>1. Sound(s[i])
    BY DEF Rising, Sound
  <2>2. Level(s[i]) \in 1..100
    BY <1>1, <2>1, LevelFacts
  <2>3. PICK x \in 1..100 : x = Level(s[i])
    BY <2>2
  <2>4. 0 <= x /\ x <= 100
    OBVIOUS
  <2>. QED BY <2>3, <2>4
<1>2. AtLeast(s, 0)
  BY <1>1 DEF AtLeast
<1>3. AtMost(s, 100)
  BY <1>1 DEF AtMost
<1>. QED BY <1>2, <1>3

\* What was put first stays first.
LEMMA OpensJoin ==
    ASSUME NEW s \in EventSeq, NEW es \in EventSeq, es # <<>>
    PROVE  /\ s \o es \in EventSeq /\ s \o es # <<>>
           /\ s # <<>> => (s \o es)[1] = s[1]
           /\ s = <<>> => (s \o es)[1] = es[1]
BY DEF EventSeq

LEMMA StepQueue == Types /\ LabInv /\ QueueInv /\ [Next]_vars => QueueInv'
<1>1. SUFFICES ASSUME Types, LabInv, QueueInv, [Next]_vars PROVE QueueInv'
  OBVIOUS
<1>2. PICK n \in 0..100 : n = Reached
  BY <1>1, ReachedType
<1>3. queue \in EventSeq /\ Climbs(queue, n)
  BY <1>1, <1>2 DEF Types, ControllerType, QueueInv, Climbs
<1>4. CASE UNCHANGED <<op, queue>>
  BY <1>1, <1>4 DEF QueueInv, Reached, Rising, AtMost, Opens, Levelled, Level
<1>5. CASE Accept
  <2>1. queue' = <<>> /\ op'.step = "begin"
    BY <1>1, <1>5, AcceptFacts
  <2>2. Rising(queue') /\ AtMost(queue', Reached') /\ Opens(queue')
    BY <2>1 DEF Rising, AtMost, Opens
  <2>. QED BY <2>1, <2>2 DEF QueueInv
<1>6. CASE queue' = queue /\ op' = NoOp
  <2>1. Reached' = 100 /\ op'.kind = None /\ op'.step = None
    BY <1>6, NoneAssumption DEF Reached, NoOp
  <2>2. Rising(queue') /\ AtMost(queue', 100) /\ Opens(queue')
    BY <1>1, <1>3, <1>6, LiftsNothing DEF QueueInv, Climbs
  <2>. QED BY <2>1, <2>2, NoneAssumption DEF QueueInv
<1>7. CASE Operation
  <2>1. CASE UNCHANGED <<queue, stream>> /\ (op' = op \/ op' = NoOp)
    BY <1>4, <1>6, <2>1
  <2>2. CASE /\ op.kind # None /\ op.step # "done" /\ op'.step # "begin"
             /\ op'.step = "wait" => op'.progress >= 35
             /\ \E es \in EventSeq :
                    /\ Puts(es) /\ es # <<>> /\ Lifts(es, Reached, Reached')
                    /\ op.step = "begin" => es[1].kind = "info"
    <3>1. PICK es \in EventSeq : /\ Puts(es) /\ es # <<>> /\ Lifts(es, n, Reached')
                                 /\ op.step = "begin" => es[1].kind = "info"
      BY <1>2, <2>2
    <3>2. queue' = queue \o es
      BY <1>1, <3>1, PutsFacts
    <3>3. Climbs(queue \o es, Reached')
      BY <1>3, <3>1 DEF Lifts
    <3>4. queue' # <<>> /\ Opens(queue')
      <4>1. /\ queue' # <<>>
            /\ queue # <<>> => queue'[1] = queue[1]
            /\ queue = <<>> => queue'[1] = es[1]
        BY <1>3, <3>1, <3>2, OpensJoin
      <4>2. queue = <<>> => op.step = "begin"
        BY <1>1, <2>2 DEF QueueInv
      <4>. QED BY <1>1, <3>1, <4>1, <4>2 DEF QueueInv, Opens
    <3>. QED BY <2>2, <3>2, <3>3, <3>4 DEF QueueInv, Climbs
  <2>. QED BY <1>1, <1>7, <2>1, <2>2, OperationLifts
<1>8. ASSUME NEW w \in Clients, DeleteArrives(w), ~UNCHANGED <<op, queue>> PROVE QueueInv'
  <2>1. queue' = <<Info(25)>> /\ op'.kind = "delete" /\ op'.step = "remove"
    BY <1>1, <1>8, DeleteBegins
  <2>2. Info(25).kind = "info" /\ Info(25).progress = 25
    BY InfoFacts
  <2>3. Len(queue') = 1 /\ queue'[1] = Info(25) /\ queue' # <<>>
    BY <2>1
  <2>4. Rising(queue') /\ AtMost(queue', 25) /\ Opens(queue')
    BY <2>2, <2>3 DEF Rising, AtMost, Opens, Level
  <2>5. Reached' = 25
    BY <2>1 DEF Reached
  <2>. QED BY <2>1, <2>3, <2>4, <2>5 DEF QueueInv
<1>9. CASE DeleteAnswered
  BY <1>6, <1>9 DEF DeleteAnswered
<1>. QED BY <1>1, <1>4, <1>5, <1>7, <1>8, <1>9, LabSteps

-----------------------------------------------------------------------------
(* The progress that is shown rises                                         *)

LEMMA SseFacts ==
    ASSUME NEW m \in Message, NEW p \in 0..100, Sound(m)
    PROVE  LET e == FromSse(m, p) IN
           /\ e \in [kind : Kinds, progress : 0..100] /\ e.kind = m.kind
           /\ m.kind \in {"info", "complete"} => e.progress = Level(m) /\ e.progress \in 1..100
           /\ m.kind = "error" => e.progress = p
<1>1. m.kind \in Kinds /\ m.progress \in 0..100 \cup {None}
  BY DEF Message
<1>2. CASE m.kind = "complete"
  <2>1. FromSse(m, p) = [kind |-> "complete", progress |-> 75]
    BY <1>2 DEF FromSse, Event
  <2>. QED BY <1>1, <1>2, <2>1 DEF Level
<1>3. CASE m.kind # "complete"
  <2>1. FromSse(m, p) = [kind |-> m.kind, progress |-> IF m.progress = None THEN p ELSE m.progress]
    BY <1>3 DEF FromSse, Event
  <2>2. CASE m.progress = None
    <3>1. FromSse(m, p) = [kind |-> m.kind, progress |-> p]
      BY <2>1, <2>2
    <3>2. m.kind # "info"
      BY <2>2, NoneAssumption DEF Sound
    <3>. QED BY <1>1, <1>3, <3>1, <3>2
  <2>3. CASE m.progress # None
    <3>1. FromSse(m, p) = [kind |-> m.kind, progress |-> m.progress] /\ m.progress \in 0..100
      BY <1>1, <2>1, <2>3
    <3>2. m.kind = "info" => m.progress \in 1..100
      BY DEF Sound
    <3>3. m.kind # "error"
      BY <2>3 DEF Sound
    <3>. QED BY <1>1, <1>3, <3>1, <3>2, <3>3 DEF Level
  <2>. QED BY <2>2, <2>3
<1>. QED BY <1>2, <1>3

\* The events not read yet, once the first of them is.
LEMMA TailFacts ==
    ASSUME NEW s \in EventSeq, s # <<>>
    PROVE  /\ Head(s) = s[1] /\ Head(s) \in Message
           /\ Tail(s) \in EventSeq /\ Len(s) \in Nat /\ Len(s) >= 1 /\ Len(Tail(s)) = Len(s) - 1
           /\ \A i \in 1..Len(Tail(s)) : i + 1 \in 1..Len(s) /\ Tail(s)[i] = s[i + 1]
<1>1. s \in Seq(Message)
  BY DEF EventSeq, Message
<1>2. /\ Head(s) = s[1] /\ Head(s) \in Message
      /\ Tail(s) \in Seq(Message) /\ Len(s) \in Nat /\ Len(s) >= 1 /\ Len(Tail(s)) = Len(s) - 1
      /\ \A i \in 1..Len(Tail(s)) : i + 1 \in 1..Len(s) /\ Tail(s)[i] = s[i + 1]
  BY <1>1
<1>. QED BY <1>2 DEF EventSeq, Message

LEMMA TailRises ==
    ASSUME NEW s \in EventSeq, s # <<>>, Rising(s)
    PROVE  /\ Sound(Head(s)) /\ Rising(Tail(s))
           /\ \A n \in 0..100 : AtMost(s, n) => AtMost(Tail(s), n)
           /\ \A n \in 0..100 : AtLeast(s, n) => AtLeast(Tail(s), n)
           /\ Levelled(Head(s)) => AtLeast(Tail(s), Level(Head(s)))
<1> DEFINE t == Tail(s)
<1>1. /\ Head(s) = s[1] /\ 1 \in 1..Len(s) /\ Len(s) \in Nat /\ Len(t) = Len(s) - 1
      /\ \A i \in 1..Len(t) : i + 1 \in 1..Len(s) /\ t[i] = s[i + 1]
  BY TailFacts
<1> HIDE DEF t
<1>2. \A i \in 1..Len(s) : Sound(s[i])
  BY DEF Rising, Sound
<1>3. ASSUME NEW i \in 1..Len(t), NEW j \in 1..Len(t), i < j, Levelled(t[i]), Levelled(t[j])
      PROVE  Level(t[i]) <= Level(t[j])
  <2>1. i + 1 < j + 1 /\ i + 1 \in 1..Len(s) /\ j + 1 \in 1..Len(s)
    BY <1>1, <1>3
  <2>. QED BY <1>1, <1>3, <2>1 DEF Rising
<1>4. Rising(t)
  BY <1>1, <1>2, <1>3 DEF Rising, Sound
<1>5. \A n \in 0..100 : (AtMost(s, n) => AtMost(t, n)) /\ (AtLeast(s, n) => AtLeast(t, n))
  BY <1>1 DEF AtMost, AtLeast
<1>6. ASSUME Levelled(Head(s)) PROVE AtLeast(t, Level(Head(s)))
  <2>1. SUFFICES ASSUME NEW i \in 1..Len(t), Levelled(t[i]) PROVE Level(s[1]) <= Level(t[i])
    BY <1>1 DEF AtLeast
  <2>2. 1 < i + 1 /\ i + 1 \in 1..Len(s) /\ t[i] = s[i + 1]
    BY <1>1
  <2>. QED BY <1>1, <1>6, <2>1, <2>2 DEF Rising
<1>. QED BY <1>1, <1>2, <1>4, <1>5, <1>6 DEF t

\* What the task reads next, and what is left to read.
LEMMA EventFacts ==
    ASSUME Types, StreamInv, TaskEvent
    PROVE  LET m == Head(stream.rest)
               e == FromSse(m, task.progress) IN
           /\ task.pc = "stream" /\ stream.rest \in EventSeq /\ stream.rest # <<>>
           /\ m \in Message /\ Sound(m) /\ e \in [kind : Kinds, progress : 0..100] /\ e.kind = m.kind
           /\ events' = Append(events, e)
           /\ stream'.attached = stream.attached /\ stream'.rest = Tail(stream.rest)
           /\ Levelled(m) => e.progress = Level(m) /\ e.progress \in 1..100 /\ task.progress <= e.progress
           /\ m.kind = "error" => e.progress = task.progress /\ task.progress # 0
           /\ task'.pc = "stream" => m.kind \in {"info", "error"} /\ task'.progress = e.progress
           /\ task'.pc \in {"stream", "url", "done"}
<1> DEFINE m == Head(stream.rest)
           e == FromSse(m, task.progress)
<1>1. /\ task.pc = "stream" /\ stream.rest # <<>> /\ events' = Append(events, e)
      /\ stream' = [stream EXCEPT !.rest = Tail(stream.rest)]
  BY DEF TaskEvent, Post
<1>2. stream.rest \in EventSeq /\ stream'.attached = stream.attached /\ stream'.rest = Tail(stream.rest)
  BY <1>1 DEF Types, ControllerType
<1>3. /\ Rising(stream.rest) /\ AtLeast(stream.rest, task.progress)
      /\ task.progress = 0 => Opens(stream.rest)
  BY <1>1 DEF StreamInv
<1>4. m \in Message /\ Sound(m) /\ m = stream.rest[1] /\ 1 \in 1..Len(stream.rest)
  BY <1>1, <1>2, <1>3, TailFacts, TailRises
<1>5. task.progress \in 0..100
  BY DEF Types, HubType
<1> HIDE DEF m
<1>6. /\ e \in [kind : Kinds, progress : 0..100] /\ e.kind = m.kind
      /\ m.kind \in {"info", "complete"} => e.progress = Level(m) /\ e.progress \in 1..100
      /\ m.kind = "error" => e.progress = task.progress
  BY <1>4, <1>5, SseFacts
<1>7. Levelled(m) => task.progress <= Level(m)
  BY <1>3, <1>4 DEF AtLeast
<1>8. m.kind = "error" => task.progress # 0
  BY <1>1, <1>3, <1>4 DEF Opens
<1> HIDE DEF e
<1>9. /\ task'.pc = "stream" => m.kind \in {"info", "error"} /\ task'.progress = e.progress
      /\ task'.pc \in {"stream", "url", "done"}
  <2>1. CASE Finish("error")
    BY <2>1, FinishFacts
  <2>2. CASE /\ e.kind # "failed"
             /\ task' = [task EXCEPT !.progress = e.progress,
                                     !.pc = IF e.kind = "complete" THEN "url" ELSE task.pc]
    <3>1. /\ task'.progress = e.progress
          /\ task'.pc = IF e.kind = "complete" THEN "url" ELSE task.pc
      BY <2>2 DEF Types, HubType
    <3>2. m.kind \in Kinds
      BY <1>4 DEF Message
    <3>. QED BY <1>1, <1>6, <2>2, <3>1, <3>2 DEF Kinds
  <2>. QED BY <2>1, <2>2 DEF TaskEvent, e, m
<1>. QED BY <1>1, <1>2, <1>4, <1>6, <1>7, <1>8, <1>9 DEF e, m, Levelled

LEMMA StepStream ==
    Types /\ LabInv /\ QueueInv /\ StreamInv /\ ShownInv /\ [Next]_vars => StreamInv'
<1>1. SUFFICES ASSUME Types, LabInv, QueueInv, StreamInv, ShownInv, [Next]_vars, task'.pc = "stream"
               PROVE  /\ Rising(stream'.rest) /\ AtLeast(stream'.rest, task'.progress)
                      /\ task'.progress = 0 => Opens(stream'.rest)
                      /\ stream'.attached =>
                             /\ task'.progress <= Reached' /\ AtMost(stream'.rest, Reached')
                             /\ task'.progress = 0 /\ stream'.rest = <<>> =>
                                    op'.kind = None \/ op'.step \in {"begin", "done"}
  BY DEF StreamInv, Rising, AtLeast, AtMost, Opens, Levelled, Level
<1>2. PICK n \in 0..100, p \in 0..100 : n = Reached /\ p = task.progress
  BY <1>1, ReachedType DEF Types, HubType
<1>3. stream.rest \in EventSeq /\ queue \in EventSeq
  BY <1>1 DEF Types, ControllerType
<1>4. CASE UNCHANGED <<task, op, stream>>
  BY <1>1, <1>4 DEF StreamInv, Reached
<1>5. CASE task' = task /\ stream' = stream /\ op' = NoOp
  <2>1. Reached' = 100 /\ op'.kind = None
    BY <1>5, NoneAssumption DEF Reached, NoOp
  <2>2. AtMost(stream.rest, 100)
    BY <1>1, <1>3, <1>5, LiftsNothing DEF StreamInv
  <2>3. task.progress <= 100
    BY <1>2
  <2>. QED BY <1>1, <1>5, <2>1, <2>2, <2>3 DEF StreamInv
<1>6. CASE Operation
  <2>1. task' = task
    BY <1>1, <1>6, OtherFacts
  <2>2. CASE UNCHANGED <<queue, stream>> /\ (op' = op \/ op' = NoOp)
    BY <1>4, <1>5, <2>1, <2>2
  <2>3. CASE /\ op.kind # None /\ op.step # "done" /\ op'.step # "begin" /\ Reached <= Reached'
             /\ \E es \in EventSeq :
                    /\ Puts(es) /\ es # <<>> /\ Lifts(es, Reached, Reached')
                    /\ op.step = "begin" => es[1].kind = "info"
    <3>1. PICK es \in EventSeq : /\ Puts(es) /\ es # <<>> /\ Lifts(es, n, Reached')
                                 /\ op.step = "begin" => es[1].kind = "info"
      BY <1>2, <2>3
    <3>2. /\ stream'.attached => stream.attached
          /\ stream'.rest = IF stream.attached THEN stream.rest \o es ELSE stream.rest
      BY <1>1, <3>1, PutsFacts
    <3>3. CASE ~stream.attached
      BY <1>1, <2>1, <3>2, <3>3 DEF StreamInv
    <3>4. CASE stream.attached
      <4>1. Climbs(stream.rest, n) /\ AtLeast(stream.rest, p) /\ p \in 0..n
        <5>1. task.pc = "stream"
          BY <1>1, <2>1
        <5>2. /\ Rising(stream.rest) /\ AtLeast(stream.rest, p)
              /\ AtMost(stream.rest, n) /\ p <= n
          BY <1>1, <1>2, <3>4, <5>1 DEF StreamInv
        <5>. QED BY <5>2 DEF Climbs
      <4>2. Climbs(stream.rest \o es, Reached') /\ AtLeast(stream.rest \o es, p)
        BY <1>3, <3>1, <4>1 DEF Lifts
      <4>3. /\ stream'.rest # <<>>
            /\ stream.rest # <<>> => stream'.rest[1] = stream.rest[1]
            /\ stream.rest = <<>> => stream'.rest[1] = es[1]
        BY <1>3, <3>1, <3>2, <3>4, OpensJoin
      <4>4. p = 0 /\ stream.rest = <<>> => op.step = "begin"
        BY <1>1, <1>2, <2>1, <2>3, <3>4 DEF StreamInv
      <4>5. p = 0 => Opens(stream'.rest)
        BY <1>1, <1>2, <2>1, <3>1, <4>3, <4>4 DEF StreamInv, Opens
      <4>6. task'.progress <= Reached'
        <5>1. PICK l \in 0..100 : l = Reached'
          BY <1>1, StepTypes, ReachedNext
        <5>2. p <= l
          BY <1>2, <2>3, <4>1, <5>1
        <5>. QED BY <1>2, <2>1, <5>1, <5>2
      <4>. QED BY <1>2, <2>1, <3>2, <3>4, <4>2, <4>3, <4>5, <4>6 DEF Climbs
    <3>. QED BY <3>3, <3>4
  <2>. QED BY <1>1, <1>6, <2>2, <2>3, OperationLifts
<1>7. ASSUME NEW w \in Clients, DeleteArrives(w), ~UNCHANGED <<op, stream>>
      PROVE  /\ Rising(stream'.rest) /\ AtLeast(stream'.rest, task'.progress)
             /\ task'.progress = 0 => Opens(stream'.rest)
             /\ ~stream'.attached
  <2>1. task' = task
    BY <1>1, <1>7, OtherFacts
  <2>2. PICK last \in EventSeq :
            /\ last \in {<<Event("failed", None)>>, <<>>}
            /\ PutAndClear(last, <<Info(25)>>)
    <3>1. <<>> \in EventSeq /\ <<Event("failed", None)>> \in EventSeq
      <4>1. <<Event("failed", None)>> \in EventSeq
        BY <1>2, LiftsFailures
      <4>2. <<>> \in EventSeq
        BY DEF EventSeq
      <4>. QED BY <4>1, <4>2
    <3>2. \E last \in {<<Event("failed", None)>>, <<>>} :
              last = IF op.kind = "spawn" /\ op.step # "done" THEN <<Event("failed", None)>> ELSE <<>>
      OBVIOUS
    <3>. QED BY <1>1, <1>7, <3>1, <3>2, DeleteBegins
  <2>3. /\ ~stream'.attached
        /\ stream'.rest = IF stream.attached THEN stream.rest \o last ELSE stream.rest
    <3>1. CASE stream.attached
      BY <2>2, <3>1 DEF PutAndClear
    <3>2. CASE ~stream.attached
      BY <2>2, <3>2 DEF PutAndClear
    <3>. QED BY <3>1, <3>2
  <2>4. CASE ~stream.attached \/ last = <<>>
    <3>1. stream'.rest = stream.rest
      <4>1. stream.rest \o <<>> = stream.rest
        BY <1>3 DEF EventSeq
      <4>2. CASE ~stream.attached
        BY <2>3, <4>2
      <4>3. CASE stream.attached /\ last = <<>>
        BY <2>3, <4>1, <4>3
      <4>. QED BY <2>4, <4>2, <4>3
    <3>. QED BY <1>1, <2>1, <2>3, <3>1 DEF StreamInv
  <2>5. CASE stream.attached /\ last = <<Event("failed", None)>>
    <3>1. Rising(stream.rest) /\ AtLeast(stream.rest, p)
      BY <1>1, <1>2, <2>1 DEF StreamInv
    <3>2. PICK m \in 0..100 : m = 100
      OBVIOUS
    <3>3. Climbs(stream.rest, m) /\ p \in 0..m
      BY <1>3, <3>1, <3>2, LiftsNothing DEF Climbs
    <3>4. Lifts(last, m, 100)
      BY <2>5, LiftsFailures
    <3>5. Rising(stream.rest \o last) /\ AtLeast(stream.rest \o last, p)
      BY <1>3, <3>1, <3>3, <3>4 DEF Lifts, Climbs
    <3>6. last # <<>> /\ last[1].kind = "failed"
      <4>1. last[1] = Event("failed", None) /\ last # <<>>
        BY <2>5
      <4>. QED BY <4>1 DEF Event
    <3>7. /\ stream.rest # <<>> => stream'.rest[1] = stream.rest[1]
          /\ stream.rest = <<>> => stream'.rest[1] = last[1]
      BY <1>3, <2>2, <2>3, <2>5, <3>6, OpensJoin
    <3>8. p = 0 => Opens(stream'.rest)
      BY <1>1, <1>2, <2>1, <3>6, <3>7 DEF StreamInv, Opens
    <3>. QED BY <1>2, <2>1, <2>3, <2>5, <3>5, <3>8
  <2>. QED BY <2>2, <2>4, <2>5
<1>8. CASE DeleteAnswered
  <2>1. task' = task /\ stream' = stream /\ op' = NoOp
    BY <1>8 DEF DeleteAnswered
  <2>. QED BY <1>5, <2>1
<1>9. CASE LateCreate
  <2>1. task' = task
    BY <1>1, <1>9, OtherFacts
  <2>2. CASE Accept
    <3>1. ~stream'.attached /\ stream'.rest = stream.rest
      BY <1>1, <2>2, AcceptFacts
    <3>. QED BY <1>1, <2>1, <3>1 DEF StreamInv
  <2>3. CASE UNCHANGED <<controller, stream>>
    BY <1>4, <2>1, <2>3 DEF controller
  <2>. QED BY <1>9, <2>2, <2>3 DEF LateCreate
<1>10. CASE TaskOpen
  <2>1. ~Finish("error")
    BY <1>1, FinishFacts
  <2>2. /\ task.pc = "open" /\ task' = [task EXCEPT !.pc = "stream"]
        /\ stream' = [attached |-> ~closed, rest |-> queue] /\ UNCHANGED op
    BY <1>10, <2>1 DEF TaskOpen, controller
  <2>3. task'.progress = 0 /\ Reached' = Reached
    BY <1>1, <2>2 DEF ShownInv, Types, HubType, Reached
  <2>4. /\ Rising(queue) /\ AtMost(queue, Reached) /\ Opens(queue)
        /\ queue = <<>> => op.kind = None \/ op.step = "begin"
    BY <1>1 DEF QueueInv
  <2>5. AtLeast(queue, 0)
    BY <1>3, <2>4, LiftsNothing
  <2>6. 0 <= Reached
    BY <1>2
  <2>. QED BY <2>2, <2>3, <2>4, <2>5, <2>6
<1>11. CASE TaskEvent
  <2> DEFINE m == Head(stream.rest)
             e == FromSse(m, task.progress)
  <2>1. /\ task.pc = "stream" /\ stream.rest # <<>> /\ e.kind = m.kind
        /\ stream'.attached = stream.attached /\ stream'.rest = Tail(stream.rest)
        /\ Levelled(m) => e.progress = Level(m) /\ e.progress \in 1..100 /\ task.progress <= e.progress
        /\ m.kind = "error" => e.progress = task.progress /\ task.progress # 0
        /\ m.kind \in {"info", "error"} /\ task'.progress = e.progress
    BY <1>1, <1>11, EventFacts
  <2>2. op' = op /\ Reached' = Reached
    BY <1>11 DEF TaskEvent, controller, Reached
  <2>3. /\ Rising(stream.rest) /\ AtLeast(stream.rest, p)
        /\ stream.attached => p <= n /\ AtMost(stream.rest, n)
    BY <1>1, <1>2, <2>1 DEF StreamInv
  <2>4. /\ Rising(Tail(stream.rest)) /\ AtLeast(Tail(stream.rest), p)
        /\ stream.attached => AtMost(Tail(stream.rest), n)
        /\ Levelled(m) => AtLeast(Tail(stream.rest), Level(m))
        /\ m = stream.rest[1] /\ 1 \in 1..Len(stream.rest)
    <3>1. /\ Rising(Tail(stream.rest)) /\ AtLeast(Tail(stream.rest), p)
          /\ stream.attached => AtMost(Tail(stream.rest), n)
          /\ Levelled(m) => AtLeast(Tail(stream.rest), Level(m))
      BY <1>3, <2>1, <2>3, TailRises
    <3>2. m = stream.rest[1] /\ Len(stream.rest) \in Nat /\ Len(stream.rest) >= 1
      BY <1>3, <2>1, TailFacts
    <3>3. 1 \in 1..Len(stream.rest)
      BY <3>2
    <3>. QED BY <3>1, <3>2, <3>3
  <2> HIDE DEF m, e
  <2>5. CASE m.kind = "info"
    <3>1. Levelled(m)
      BY <2>5 DEF Levelled
    <3>2. task'.progress = Level(m) /\ task'.progress # 0
      <4>1. PICK x \in 1..100 : x = e.progress
        BY <2>1, <3>1
      <4>2. x # 0
        OBVIOUS
      <4>. QED BY <2>1, <3>1, <4>1, <4>2
    <3>3. stream.attached => Level(m) <= n
      BY <2>3, <2>4, <3>1 DEF AtMost
    <3>. QED BY <1>2, <2>1, <2>2, <2>4, <3>1, <3>2, <3>3
  <2>6. CASE m.kind = "error"
    <3>1. task'.progress = p /\ p # 0
      BY <1>2, <2>1, <2>6
    <3>. QED BY <1>2, <2>1, <2>2, <2>3, <2>4, <3>1
  <2>. QED BY <2>1, <2>5, <2>6
<1>12. CASE TaskBegin \/ TaskCreate \/ TaskStopped
  BY <1>1, <1>12, BeginFacts, CreateFacts, StoppedFacts
<1>13. CASE TaskStreamEnds \/ TaskStreamFails \/ TaskUrl
  <2>1. ASSUME TaskStreamEnds PROVE task'.pc = "url"
    BY <1>1, <2>1 DEF TaskStreamEnds, Types, HubType
  <2>2. ASSUME TaskStreamFails \/ TaskUrl PROVE task'.pc = "done"
    BY <1>1, <2>2, FinishFacts DEF TaskStreamFails, TaskUrl
  <2>. QED BY <1>1, <1>13, <2>1, <2>2
<1>14. CASE HubStart \/ HubTimeout \/ HubRestart
  BY <1>1, <1>14, HubFacts
<1>15. CASE LateDelete \/ JupyterHub \/ HubStop \/ Page \/ UNCHANGED vars
  BY <1>1, <1>4, <1>15, OtherFacts
<1>16. ASSUME NEW w \in Clients, DeleteArrives(w), UNCHANGED <<op, stream>>
       PROVE  UNCHANGED <<task, op, stream>>
  BY <1>1, <1>16, OtherFacts
<1>. QED BY <1>1, <1>4, <1>6, <1>7, <1>8, <1>9, <1>10, <1>11, <1>12, <1>13, <1>14, <1>15, <1>16,
            StepSplits, StartSplits DEF Answer, JupyterHubStep

\* Once an event is appended, the progress still rises if it rose until then and
\* the event's is not below the last.
RisesTo(es, e) == es = <<>> \/ e.kind = "failed" \/ es[Len(es)].progress <= e.progress

LEMMA AppendRises ==
    ASSUME NEW es \in Seq([kind : Kinds, progress : 0..100]), NEW e \in [kind : Kinds, progress : 0..100],
           \A i \in 2..Len(es) : es[i].kind # "failed" => es[i - 1].progress <= es[i].progress,
           RisesTo(es, e)
    PROVE  LET fs == Append(es, e) IN
           /\ Len(fs) = Len(es) + 1 /\ fs # <<>> /\ fs[Len(fs)] = e
           /\ \A i \in 2..Len(fs) : fs[i].kind # "failed" => fs[i - 1].progress <= fs[i].progress
<1> DEFINE fs == Append(es, e)
<1>1. /\ Len(fs) = Len(es) + 1 /\ Len(es) \in Nat /\ fs[Len(es) + 1] = e /\ fs # <<>>
      /\ \A i \in 1..Len(es) : fs[i] = es[i]
      /\ es = <<>> => Len(es) = 0
  OBVIOUS
<1> HIDE DEF fs
<1>2. SUFFICES ASSUME NEW i \in 2..Len(fs), fs[i].kind # "failed"
               PROVE  fs[i - 1].progress <= fs[i].progress
  BY <1>1 DEF fs
<1>3. i - 1 \in 1..Len(es) /\ fs[i - 1] = es[i - 1]
  BY <1>1, <1>2
<1>4. CASE i = Len(es) + 1
  <2>1. fs[i] = e /\ fs[i - 1] = es[Len(es)] /\ es # <<>>
    BY <1>1, <1>3, <1>4
  <2>. QED BY <1>2, <2>1 DEF RisesTo
<1>5. CASE i # Len(es) + 1
  <2>1. i \in 2..Len(es) /\ i \in 1..Len(es)
    BY <1>1, <1>2, <1>5
  <2>2. fs[i] = es[i]
    BY <1>1, <2>1
  <2>. QED BY <1>2, <1>3, <2>1, <2>2
<1>. QED BY <1>4, <1>5

LEMMA LastType == ASSUME NEW S, NEW s \in Seq(S), s # <<>> PROVE s[Len(s)] \in S
OBVIOUS

LEMMA NothingShown == events' = <<>> => ProgressMonotone'
BY DEF ProgressMonotone

\* What is shown rises from what the start began with to what its stream reports.
LEMMA StepShown ==
    Types /\ StreamInv /\ ShownInv /\ [Next]_vars => ShownInv'
<1>1. SUFFICES ASSUME Types, StreamInv, ShownInv, [Next]_vars PROVE ShownInv'
  OBVIOUS
<1>2. CASE UNCHANGED <<task, events>>
  BY <1>1, <1>2 DEF ShownInv, ProgressMonotone
<1>3. CASE events' = <<>> /\ task'.progress = 0
  BY <1>3, NothingShown DEF ShownInv
<1>4. CASE events' = events /\ task'.pc \in {"url", "done"}
  BY <1>1, <1>4 DEF ShownInv, ProgressMonotone
<1>5. CASE TaskBegin
  <2>1. events' = <<>> /\ task'.progress = 0
    BY <1>1, <1>5, BeginFacts DEF ShownInv
  <2>. QED BY <1>3, <2>1
<1>6. CASE TaskCreate
  <2>1. task.pc \in {"create", "again"} /\ task.progress = 0
    BY <1>1, <1>6, CreateFacts DEF ShownInv
  <2>2. CASE task'.pc = "open" /\ task'.progress = task.progress /\ UNCHANGED events
    BY <1>1, <2>1, <2>2 DEF ShownInv, ProgressMonotone
  <2>3. CASE /\ task.pc = "create" /\ task'.pc = "stop" /\ task'.progress = task.progress
             /\ events' = Append(events, Info(1))
    <3>1. events = <<>>
      BY <1>1, <2>3 DEF ShownInv
    <3>2. PICK e \in Message : e = Info(1) /\ e.progress = 1
      <4>1. 1 \in 0..100
        OBVIOUS
      <4>. QED BY <4>1, InfoFacts
    <3>3. Len(events') = 1 /\ events'[1].progress = 1
      BY <2>3, <3>1, <3>2
    <3>4. ProgressMonotone'
      BY <3>3 DEF ProgressMonotone
    <3>. QED BY <2>1, <2>3, <3>3, <3>4 DEF ShownInv
  <2>4. CASE task'.pc = "done" /\ UNCHANGED events
    BY <1>4, <2>4
  <2>. QED BY <1>1, <1>6, <2>2, <2>3, <2>4, CreateFacts
<1>7. CASE TaskStopped
  <2>1. UNCHANGED events /\ task.pc = "stop"
    BY <1>1, <1>7, StoppedFacts
  <2>2. CASE task'.pc = "again" /\ task'.progress = task.progress
    BY <1>1, <2>1, <2>2 DEF ShownInv, ProgressMonotone
  <2>3. CASE task'.pc = "done"
    BY <1>4, <2>1, <2>3
  <2>. QED BY <1>1, <1>7, <2>2, <2>3, StoppedFacts
<1>8. CASE TaskOpen
  <2>1. UNCHANGED events /\ task.pc = "open" /\ task.progress = 0
    BY <1>1, <1>8 DEF TaskOpen, ShownInv, Unchanged_Events
  <2>2. CASE Finish("error")
    BY <1>1, <1>4, <2>1, <2>2, FinishFacts
  <2>3. CASE task' = [task EXCEPT !.pc = "stream"]
    <3>1. task'.pc = "stream" /\ task'.progress = 0
      BY <1>1, <2>1, <2>3 DEF Types, HubType
    <3>2. events # <<>> => Len(events) = 1 /\ events[1].progress = 1
      <4>1. Len(events) <= 1 /\ (events # <<>> => events[1].progress = 1)
        BY <1>1, <2>1 DEF ShownInv
      <4>2. events \in Seq([kind : Kinds, progress : 0..100])
        BY <1>1 DEF Types, PageType
      <4>3. events # <<>> => Len(events) \in Nat /\ Len(events) >= 1
        BY <4>2
      <4>4. ASSUME NEW l \in Nat, l >= 1, l <= 1 PROVE l = 1
        BY <4>4
      <4>5. events # <<>> => Len(events) = 1
        BY <4>1, <4>3, <4>4
      <4>. QED BY <4>1, <4>5
    <3>3. ProgressMonotone'
      BY <1>1, <2>1 DEF ShownInv, ProgressMonotone
    <3>. QED BY <2>1, <3>1, <3>2, <3>3 DEF ShownInv
  <2>. QED BY <1>8, <2>2, <2>3 DEF TaskOpen
<1>9. CASE TaskEvent
  <2> DEFINE m == Head(stream.rest)
             e == FromSse(m, task.progress)
  <2>1. /\ task.pc = "stream" /\ m \in Message /\ e \in [kind : Kinds, progress : 0..100]
        /\ e.kind = m.kind /\ events' = Append(events, e)
        /\ Levelled(m) => e.progress \in 1..100 /\ task.progress <= e.progress
        /\ m.kind = "error" => e.progress = task.progress /\ task.progress # 0
        /\ task'.pc = "stream" => task'.progress = e.progress
        /\ task'.pc \in {"stream", "url", "done"}
    BY <1>1, <1>9, EventFacts
  <2> HIDE DEF m, e
  <2>2. PICK p \in 0..100, q \in 0..100 : p = task.progress /\ q = e.progress
    BY <1>1, <2>1 DEF Types, HubType
  <2>3. events \in Seq([kind : Kinds, progress : 0..100])
    BY <1>1 DEF Types, PageType
  <2>4. RisesTo(events, e)
    <3>1. SUFFICES ASSUME events # <<>>, e.kind # "failed"
                   PROVE  events[Len(events)].progress <= e.progress
      BY DEF RisesTo
    <3>2. PICK x \in 0..100 : x = events[Len(events)].progress
      <4>1. events # <<>>
        BY <3>1
      <4>2. events[Len(events)] \in [kind : Kinds, progress : 0..100]
        BY <2>3, <4>1, LastType
      <4>3. \A a \in [kind : Kinds, progress : 0..100] : a.progress \in 0..100
        OBVIOUS
      <4>4. events[Len(events)].progress \in 0..100
        BY <4>2, <4>3
      <4>. QED BY <4>4
    <3>3. x <= p \/ (p = 0 /\ x = 1)
      BY <1>1, <2>1, <2>2, <3>1, <3>2 DEF ShownInv
    <3>4. CASE m.kind = "error"
      <4>1. q = p /\ p # 0
        BY <2>1, <2>2, <3>4
      <4>2. x <= q
        BY <3>3, <4>1
      <4>. QED BY <2>2, <3>2, <4>2
    <3>5. CASE m.kind # "error"
      <4>1. Levelled(m)
        BY <2>1, <3>1, <3>5 DEF Levelled, Message, Kinds
      <4>2. q \in 1..100 /\ p <= q
        BY <2>1, <2>2, <4>1
      <4>3. x <= q
        BY <3>3, <4>2
      <4>. QED BY <2>2, <3>2, <4>3
    <3>. QED BY <3>4, <3>5
  <2>5. /\ events' # <<>> /\ events'[Len(events')] = e
        /\ ProgressMonotone'
    BY <1>1, <2>1, <2>3, <2>4, AppendRises DEF ShownInv, ProgressMonotone
  <2>6. task'.pc = "stream" => events'[Len(events')].progress <= task'.progress
    <3>1. q <= q
      OBVIOUS
    <3>. QED BY <2>1, <2>2, <2>5, <3>1
  <2>. QED BY <2>1, <2>5, <2>6 DEF ShownInv
<1>10. CASE TaskStreamEnds \/ TaskStreamFails \/ TaskUrl
  <2>1. ASSUME TaskStreamEnds PROVE UNCHANGED events /\ task'.pc = "url"
    BY <1>1, <2>1 DEF TaskStreamEnds, Types, HubType, Unchanged_Events
  <2>2. ASSUME TaskStreamFails \/ TaskUrl PROVE UNCHANGED events /\ task'.pc = "done"
    BY <1>1, <2>2, FinishFacts DEF TaskStreamFails, TaskUrl, Unchanged_Events
  <2>. QED BY <1>4, <1>10, <2>1, <2>2
<1>11. CASE HubStart
  <2>1. UNCHANGED events /\ task'.pc = "new" /\ task'.progress = 0
    BY <1>1, <1>11, HubFacts
  <2>. QED BY <1>1, <2>1 DEF ShownInv, ProgressMonotone
<1>12. CASE HubTimeout
  BY <1>1, <1>4, <1>12, HubFacts
<1>13. CASE HubRestart
  BY <1>1, <1>3, <1>13, HubFacts
<1>. QED BY <1>1, <1>2, <1>5, <1>6, <1>7, <1>8, <1>9, <1>10, <1>11, <1>12, <1>13,
            OtherFacts, StepSplits, StartSplits DEF Answer, JupyterHubStep

-----------------------------------------------------------------------------
(* Theorems                                                                 *)

LEMMA InitInv == Init => IInv
<1>1. SUFFICES ASSUME Init PROVE IInv
  OBVIOUS
<1>2. /\ task = NoTask /\ readers = [r \in Readers |-> NoReader] /\ events = <<>> /\ queue = <<>>
      /\ lab = NoLab /\ op = NoOp /\ deletes["task"] = "none"
  BY <1>1 DEF Init, Clients
<1>3. task.pc = "none" /\ task.progress = 0 /\ task.result = None
  BY <1>2 DEF NoTask
<1>4. op.kind = None /\ op.step = None /\ lab.status = None /\ ~lab.url
  BY <1>2 DEF NoOp, NoLab
<1>5. PageInv /\ RestType /\ PostedInv /\ OpenInv /\ HubInv
  <2>1. posted = [s \in 1..MaxStarts |-> 0] /\ closed = FALSE
    BY <1>1 DEF Init
  <2>2. PageInv /\ PostedInv /\ OpenInv /\ HubInv
    BY <1>1, <1>2, <1>3, <1>4, <2>1 DEF PageInv, PostedInv, OfItsStart, OpenInv, NoReader, HubInv, Init
  <2>. QED BY <2>1, <2>2 DEF RestType
<1>6. LabInv
  BY <1>2, <1>4, NoneAssumption DEF LabInv
<1>7. StopInv /\ StartInv
  BY <1>2, <1>3 DEF StopInv, StartInv
<1>8. RefusedByRival
  BY <1>3, NoneAssumption DEF RefusedByRival
<1>9. QueueInv
  BY <1>2, <1>4, NoneAssumption DEF QueueInv, Rising, AtMost, Opens
<1>10. StreamInv
  BY <1>3 DEF StreamInv
<1>11. ShownInv
  BY <1>2, <1>3 DEF ShownInv, ProgressMonotone
<1>. QED BY <1>1, <1>5, <1>6, <1>7, <1>8, <1>9, <1>10, <1>11, InitTypes DEF IInv

LEMMA StepInv == IInv /\ [Next]_vars => IInv'
BY StepTypes, StepRest, StepHub, StepPage, StepPosted, StepLab, StepOpen, StepStop, StepStart, StepRefused, StepQueue, StepStream, StepShown
   DEF IInv

\* The start, its progress pages and the controller's operations agree: the
\* pages that ended saw all, what was deleted stays deleted until another create
\* is handled, and the progress an operation reports rises up to what it has
\* reached (_start, progress, _spawn_lab).
THEOREM Invariant == Spec => []IInv
BY InitInv, StepInv, PTL DEF Spec

\* What JupyterHub is told of a start makes sense, whoever else deletes and
\* creates the lab: the types, the percentage that never goes back until a
\* failure, and the second create that only another one can refuse (_start).
THEOREM StartConsistent == Spec => []Consistent
<1>1. IInv => Consistent
  BY TypesSuffice DEF IInv, ShownInv, Consistent
<1>. QED BY <1>1, Invariant, PTL

\* A progress page that began after the first step of its start, and ends before
\* its timeout, has shown as many events as the start had, whichever list they
\* are in by then: it finds out that the start is over before it takes the events
\* there are (progress).
THEOREM PagesSeeAll == Spec => []ReaderSeesAll
<1>1. IInv => ReaderSeesAll
  BY DEF IInv, PageInv, PostedInv, OfItsStart, ReaderSeesAll
<1>. QED BY <1>1, Invariant, PTL

\* A start that succeeds has a lab whose spawn ended, or one of another create:
\* it asks for the URL of the lab, which only a spawn that got that far gives
\* and a delete takes away, so also when the events it followed were those of a
\* delete and just ended (_start, _get_internal_url).
THEOREM StartsRunning == Spec => StartedIsRunning
<1>1. IInv /\ [Next]_vars =>
          [task'.result = "ok" /\ task.result # "ok" => lab.status \in {"running", "failed"} \/ rival]_vars
  BY StepStarted DEF IInv
<1>. QED BY <1>1, Invariant, PTL DEF Spec, StartedIsRunning
=============================================================================
