# A TLA+ model of Nublado

Nublado runs JupyterLab for the Rubin Science Platform.  Its centre is the
controller, one asyncio process that creates and deletes user labs and file
servers in Kubernetes, keeps what it knows about them in memory, and reconciles
that memory with the cluster on a timer.  This directory holds TLA+ modules for
the parts of Nublado whose correctness depends on the order of events, TLC
configurations that check them on small instances, and proofs for TLAPS of what
holds for every instance.  Paths below are relative to the repository, where
`src/nublado/controller/services/lab.py` is cited as `lab.py` and so on.

`PROJECT.json` is the index: which definition translates which lines (`map`),
what each run checks (`runs`), the mutation of the code every checked property
detects (`mutants`), what is hard about the code (`hazards`), and what is proved
(`theorems`).  Where code and comments disagree is in section 12.

## 1. The system

| Part | State it keeps | Operations | Talks to |
|---|---|---|---|
| **Lab manager** `services/lab.py` `LabManager`, `_LabMonitor` | per user: `LabState` or none, `last_modified`, the operation in progress, a lock; one `_spawner_done` event; event queues | `create_lab`, `delete_lab`, `reap_spawners`, `reconcile`, `stop_monitor_tasks`, the status routes | lab storage, image service, Slack, Kafka |
| **File server manager** `services/fileserver.py` | per user: `running`, `in_progress`, `last_modified`, a lock | `create`, `delete`, `reconcile`, `watch_servers` | file server storage |
| **File system admin** `services/fsadmin.py` | one lock | `create`, `delete`, `get_status` | its storage |
| **Image service, prepuller** `services/image.py`, `prepuller.py`, `source/` | images by tag, nodes and what is cached on them, a `refreshed` event | `refresh`, `mark_prepulled`, `prune`, `images_to_prepull` | registry, nodes, pods |
| **Background tasks** `background.py` | the started tasks | startup order, `_loop` around timed tasks | all of the above |
| **Kubernetes storage** `storage/kubernetes/` | none, but watches have a resource version and a remaining time | create with replace, delete with wait, watch with restart, wait for a pod phase | the API server |
| **JupyterHub spawner** `hub/plugins/spawner` | event list, triggers, start future | `start`, `stop`, `poll`, `progress` | the controller's lab API |
| **Client** `client/` | one session per user | hub login, spawn, WebSocket execution | JupyterHub, the controller |
| **Purger** `purger/purger.py` | a plan of files and directories | `plan`, `purge`, `_tidy` | a file tree |
| **Image and tag models** `models/images/` | an immutable collection | ordering, alias resolution, filters | - |
| **Lab start, provisioners** `startup/`, `inithome/`, `landingpage/` | none | sequential file operations | a home directory |

What interacts with what: the hub's spawner calls the controller's HTTP routes;
each request is a task of the controller's event loop.  Requests and background
tasks share the managers' dictionaries; there are no threads, so what can go
wrong is what another task does while one is suspended at an `await`.
Operations on a lab run in tasks of their own that outlive the request that
started them.  Kubernetes and the controller only agree eventually: the
controller may die between two calls, a call may fail or take effect after its
sender gave up, and pods start, stop and vanish on their own.

### What is hard, and what must hold

*Lab manager.*  `create_lab`, `delete_lab`, the operation tasks, the reaper and
the reconciler all read and write the same `_State`, and each of them awaits
between looking and acting.  It must hold that a user never has two operations
at once, that only spawns are ever aborted, that the operation in progress
works on the `LabState` that the routes report, that no caller is left hanging
or meets an internal error, and that after any crash or failure the in-memory
state and the cluster end up agreeing.

*File server manager.*  The lock is released between deciding and acting in
`reconcile`, which also runs deletions without any lock, and replaces a user's
`_State` with its lock; `watch_servers` acts on events that may be old.  It
must hold that work in progress is neither replaced nor deleted under its
owner, and that `running` ends up true exactly for file servers that exist.

*Image service and prepuller.*  Both read nodes and registry, await, and then
write shared maps.  The menu and the prepuller must believe the same of every
node, no refresh may be lost, and in the end everything is pulled and shown.

*Image and tag models.*  Aliases are resolved while images are added one by one;
what comes out must not depend on the order in which the registry lists them.
Pruning deletes by digest what policies decide by tag.

*Kubernetes storage.*  A watch that restarts must not lose the event its waiter
waits for, and every wait must end by its timeout.

*Spawner.*  `progress` and `start` run concurrently and share the event list;
every reader must see the end of the stream, and a start must not succeed
without a lab, though JupyterHub and the controller time out, restart and lose
requests independently of each other.

*Client.*  Redirects lead from host to host with the user's credentials; the
reply and the end of an execution come over two channels in any order; leaving
a session takes two calls that may both fail.

*Purger.*  A plan is made, and the tree changes before it is carried out.

*Lab startup.*  The containers before the lab are killed and restarted over a home
directory that is written in place: what the user had must survive it, and the
lab must come up.

*File system admin.*  Objects are deleted and created one after the other, and
change by themselves meanwhile; answers must be true and calls must not mix.

The complete list, line by line, is under `hazards` in `PROJECT.json`, with the
properties that guard each of them or the reason why none does yet.

## 2. Plan

| Component | Modules | Section | Proved |
|---|---|---|---|
| Lab manager | `LabLoop`, `LabMonitor`, `LabManager`, `MCLabManager`, `MCLabLiveness` | 3 | `LabManagerProofs` |
| File server manager | `FileserverManager`, `MCFileserver`, `MCFileserverLive` | 4 | `FileserverProofs` |
| Kubernetes watches and waits | `KubernetesWatch` | 5 | `KubernetesWatchProofs` |
| File system admin | `FSAdminService`, `FSAdmin` | 6 | `ComponentProofs` |
| Image tags, collections, commands | `ImageTag`, `ImageCollection`, `ImageManager`, `MCImageCollection` | 7 | `ComponentProofs` |
| Image service, prepuller, sources | `ImageService` | 7 | `ImageServiceProofs` |
| JupyterHub spawner | `Spawner` | 8 | `SpawnerProofs` |
| Client | `JupyterHttp`, `LabSession` | 9 | `LabSessionProofs` |
| Purger | `Purger`, `MCPurger` | 10 | `PurgerProofs` |
| Init containers of a lab | `LabStartup`, `MCLabStartup` | 11 | `ComponentProofs` |

The order was that of importance: the lab manager first, then what it and the
other managers stand on, then what surrounds them.  Components are composed
where they share state: the monitor with the manager, the collection with the
commands that prune it, the spawner with the controller it talks to, the HTTP
client with the session that uses it, the three init containers with the home
directory they share.

What is left, in the order it would be done:

1. The controller's event queues with several readers (`AsyncMultiQueue`), so
   that `create_lab`'s clearing of a queue with other readers can be stated.
2. An abstract lab (`absent`, `starting`, `running`, `stopping`) that
   `LabManager` implements and that `Spawner` uses in place of its own controller.
3. The client's spawning and deleting of labs over the hub's API.

The project keeps to a dozen runs and forty properties, so that all of them can
be repeated on every change.  Properties the code violates are stated in their
modules, in no run, and described in section 12.

## 3. The lab manager

### Modules

`LabLoop` declares the constants and variables and models what the rest stands
on: the event loop, `asyncio.Lock`, and the mapping from pod phases to
statuses.  `LabMonitor` extends it with `_LabMonitor` (`monitor`, `cancel`,
`wait`) and with the task of an operation.  `LabManager` extends that with the
public operations, the reaper, the reconciler, the environment, and `Next`.

| Variable | In the code |
|---|---|
| `running`, `ready` | the task asyncio is executing; its FIFO of scheduled callbacks |
| `pc`, `loc` | where each caller is and its local variables |
| `known`, `labState`, `touched` | keys of `_labs`; `_State.state`; whether `_State.last_modified` is after the current reconcile pass began |
| `status` | `LabState.status`, per `LabState` object, as several tasks hold references to one object |
| `op`, `lock` | `_LabMonitor._operation`; `_LabMonitor._lock`, as the queue of its owner and waiters |
| `ops` | the `_RunningOperation` objects and their tasks, with the `complete` event and its waiters |
| `doneEvent` | `_spawner_done` |
| `sweep`, `pass` | locals of `reap_spawners` and of `reconcile` |
| `serving` | startup is over, so that requests are accepted |
| `k8s`, `stray` | the user's namespace and pod; a call whose sender gave up but that may still land |

**Granularity.**  A task step is the code between two points where control is
worth naming.  A task that does not suspend keeps the loop (`running` stays its
name), so what the code does without an `await` is atomic in the model however
many actions it takes; a task that can continue waits in `ready`, and `Dispatch`
takes the head.  The order in which `ready` grows is the order asyncio would
schedule: an uncontended `async with lock` does not suspend, a contended one
queues, `release` wakes the next waiter and nobody overtakes it, waiters of
`complete` are woken before the reaper and the reaper before the task that
waits in `cancel()`.  This matters: with an arbitrary scheduler several of the
properties fail on schedules that asyncio cannot produce.

**Correspondence.**  Create: `CreateBegin`, `CreateImage`, `CreatePhase`,
`CreatePhaseReported`, `CreateCheck`, `CreateSpawn` are the stretches of
`create_lab` between the permission check, the image lookup, the pod phase, the
report of a failed phase lookup, the checks and `monitor()`.  Delete:
`DeleteBegin`, `Cancel`, `Cancelled`, `DeleteTerminate`, `DeleteMonitor`,
`DeleteEnd`.  Waiting: `WaitBegin`, `WaitCapture`, `WaitComplete`,
`WaitCollect`.  The operation task: one action per await of `_spawn_lab`,
`_watch_lab_spawn` and `_delete_lab` inside `_monitor_operation`.  Reaper:
`ReapBegin`, `ReapNext`.  Reconcile: `ReconcileBegin` to `ReconcileEnd`, with
`_gather_current_state`, the sync loop, the watches of pending pods and
`_delete_completed_labs` as separate stretches.  `map` gives the lines.

**Abstractions.**  A user's namespace is absent, incomplete (`partial`) or
complete with a pod in some phase; the objects inside are merged, as the code
treats any missing one the same way.  The secrets of a spawn are read in one
await.  Images, options, quotas and resources are data no property tells apart;
whether an image exists and whether a quota allows the spawn is a choice.  Lab
status routes only read.  The per-user event queues are not modelled.

**Environment.**  Replies of Kubernetes, the registry, Slack and Kafka arrive
between two task steps.  A fault is a failed or timed-out call (whose effect may
still come later, as a `stray` call), a pod that stops or is evicted, or a
`Crash`: the memory is lost, in-flight calls may land, requests are lost, and the
next process starts with the reconcile that precedes `serving`.  `MaxFaults`
bounds how many happen.  `Restart` without a crash follows a startup whose
reconcile raised (`StartupFails`).

### Runs

| Run | Checks | Instance | Shows |
|---|---|---|---|
| `lab_safety` | `TypeOK`, `SpawnOwnsState`, `CancellationContained`, `OneOperation`, `DeleteNeverCancelled` | 1 user, an empty cluster or a remnant in it; 3 requests without failures, or 2 with one fault | with one API failure, lost pod or crash anywhere, nobody takes the `LabState` of a spawn away; the `CancelledError` of an aborted spawn reaches no caller; one operation at a time; a delete is never aborted, even by a second deleter that saw the spawn the delete replaced |
| `lab_live` | `Converges`, `RequestsReturn`, `OperationsCollected` | 1 request, 1 fault and nothing, a remnant or a running pod in the cluster; or 2 requests on an empty one without failures | after requests and failures stop the lab is gone on both sides or running on both; every request is answered, and every operation is collected so that the user can start another |

**Bounds.**  Labs of different users share only the dictionary, the reaper's
event and the passes of reaper and reconciler, so that one user shows all
interleavings on one lab.  Two requests are the least that race, the third in
`lab_safety` lets a create in between two deletes that overlap; `MaxFaulty`
keeps it out of the behaviours with failures, which are the larger ones.
With reaper and reconciler there are up to five callers.  `OpIds` is large
enough for the operation in progress and the finished ones that some caller
still refers to; `StateIds` for every reference at the same time: running out
would block a step, and the deadlock check of `lab_safety`, which has
`CHECK_DEADLOCK` on, and the fired disjuncts show that it does not.  One fault
reaches every error path; two in sequence are left to the induction that
`Converges` starts from any leftovers (`InitialCluster`).  Requests are
symmetric in the safety run.

**Fairness.**  `MCLabLiveness` adds one weak fairness condition: as long as the
loop has a ready task, an awaited service an answer to give, a stray call is to
land, a timer to fire or a failed startup to be retried, something of this
happens.  The code justifies it: every Kubernetes call has a `Timeout`, sleeps
end, and asyncio runs every ready task.  Arrivals, pod starts, pod stops and
crashes are not fair.  The reconciler's timer would go on for ever, so `quiet`
counts the passes since anything observable changed, and after `MaxQuiet` the
timer rests; a pass that found nothing to do finds nothing to do the next time
either.  The liveness run ends in states without successors, so it sets
`CHECK_DEADLOCK FALSE`; so does that of section 4 for the same reason.

## 4. The file server manager

`FileserverManager` is one module: `FileserverManager` of `fileserver.py` with
the calls its storage layer makes (`storage/kubernetes/fileserver.py`).
`MCFileserver` instantiates it, `MCFileserverLive` adds fairness.

| Variable | In the code |
|---|---|
| `running`, `ready` | the task that has the event loop; asyncio's FIFO |
| `pc`, `loc` | where each request, the reconciler and the watcher are, with their locals |
| `servers` | `_servers`: the `_State` object of each user, or none |
| `state` | of each `_State`: `running`, `in_progress`, and `touched` (`last_modified` is after the current pass began) |
| `lock` | `_State.lock`, as the queue of its owner and waiters |
| `pass` | locals of `read_fileserver_state` and `reconcile` |
| `serving` | startup is over |
| `k8s` | each user's ingress (none, waiting for an address, ready) and job (none, its pod pending, running, exited, or duplicated) |
| `notices` | undelivered watch events for pods in a terminal phase |
| `faults` | injected failures so far |

**Why `_State` objects have identities.**  `reconcile` puts a new `_State` in
place of the old one for a valid file server it believes not to be running, and
with it a new lock, while a request may hold or wait for the old one.  `loc`
refers to the object a caller got, `servers` to the one the next caller gets.

**Correspondence.**  `CreateBegin`, `CreateLocked`, `CreateNext`, `CreateEnd`,
`CreateFails`, `CreateCleanUp` are `create` from the route to its `finally`
clauses, with one await for each call of `FileserverStorage.create`;
`DeleteBegin`, `DeleteLocked`, `RemoveNext`, `RemoveEnd`, `RemoveFails`,
`RemoveReported` are `delete`, which requests, the watcher and the reconciler
share, and the removal of unexpected objects, which the reconciler runs with no
lock (`st = None`).  `ReconcileBegin` to `ReadIngress` gather what Kubernetes
has, one await per object, `ReconcileSync` compares without suspending, and
`PurgeNext` starts each removal.  `WatchNotice`, `WatchFails`, `WatchResumes`
are `watch_servers`.  A call takes effect at its reply; an error reply comes
with or without the effect.

**Abstractions.**  The service is created and deleted with the job, and the
volume claims with it: no code looks at either alone.  A job without pod counts as one
whose pod is pending.  That deleting or replacing a job ends its pod, whose last
change is seen by the watch, or lost when the watch restarts just then, is
behaviour of Kubernetes and not of this repository.  No task step reads or
writes `k8s`, so that the cluster changes only while the loop is idle; replies
are found by the loop up to `MaxBatch` at a time.  The runs take them one by
one: as no task step reads `k8s`, two replies found together differ from two in
a row only in where a waiter the first one wakes is queued.  A wait for an address or a
pod may time out at any time; every other failure counts toward `MaxFaults`.

| Run | Checks | Instance | Shows |
|---|---|---|---|
| `files_races` | `TypeOK`, `OneOperationPerState` | 1 user, 2 requests, jobs that retry, 1 fault | of the callers that refer to one `_State`, requests, watcher and reconciler together, at most one is in an operation at a time, and `in_progress` says so, whatever fails and although the reconciler replaces states |
| `files_converge` | `ServersConverge`, `FileRequestsReturn` | 1 request, 2 faults, leftovers | after failures stop, `running` is true exactly for valid file servers; no request waits for ever |

**Bounds.**  Users share only the passes and the watch stream, so one user
shows the interleavings on one file server; a second would show `pod` carried
over from another user's job when pods are duplicated (section 12), which the
model has for the simpler case where there is no other user.  With two requests, the reconciler and the
watcher four callers compete; three identities suffice for the current `_State`
and every reference to a replaced one, or the deadlock check of `files_races`
would say so.  Jobs that retry (`JobRetries`) are left out of `files_converge`,
as with duplicate pods reconcile may never finish a pass (section 12).
Liveness with two requests is beyond TLC, so that `FileRequestsReturn` is about
one request against the reconciler, the watcher and the failures.

**Fairness** is that of section 3: the loop runs what is ready, every await
ends, and the reconciler's timer fires until `MaxQuiet` passes found nothing to
do.  Pod starts, exits, addresses, arrivals and crashes are not fair: a wait
for them ends by its timeout.

## 5. Waiting for Kubernetes

`KubernetesWatch` is one call that waits for something to happen to one object,
under one `Timeout`, while others change the object.  It is small enough to be
its own model: `KubernetesWatch.cfg` instantiates it directly.

| Variable | In the code |
|---|---|
| `history`, `compacted` | in Kubernetes: the state of the object at each of its versions, and the oldest version a watch may still start from |
| `now` | time since the `Timeout` was made |
| `kind` | which method was called |
| `pc`, `result` | where it is, and how it ended |
| `rv` | `args["resource_version"]` in `KubernetesWatcher.watch` |
| `stream` | the open `Watch` stream, with its position in the object's history |
| `atLimit` | auxiliary: the version when the time for watching was over |

**Kinds.**  `wait_for_deletion` exists three times with the same code
(`deleter.py`, `namespace.py`, `custom.py`) but for one thing: `custom.py` looks
up the version of a dictionary under `resource_version`, where the API has
`resourceVersion`, so that its watch always starts without one; hence
`deletion` and `custom`.  `replace` is `create` with `replace=True`, which
creates, deletes on a conflict, waits for the deletion, and creates again.
`creation` is `wait_for_creation`, `phase` `wait_for_phase`, `address`
`wait_for_ip_address`.  An object is absent, `waiting` (in a phase, or without
the address, that is not the one waited for) or `reached`.

**Correspondence.**  `Create`, `Delete`, `Recreate`, `Read` and `Recheck` are
the API calls, `Connect`, `Disconnect`, `FallBehind` and `Event` the loop of
`watch` with its restarts after a timeout, an unexpected event, or a 410 error,
which drops the version.  `WatchTimeout` and `OutOfTime` are the
`ControllerTimeoutError` of `left`, `partial` and `enforce`, for the watch and
for the whole call.  `ApiError` is any other failure.  A call reads or writes
the object in one step; a created or deleted object that changes before the
reply does so in the next `Change`.

**What must hold.**  The hard part is the time between the read and the watch
and between two streams.  With a version a watch continues exactly after what
was read; without one it begins with an event for the object as it is now, so
that only a deletion can be lost.  `NothingMissed` says that nothing else is.
`ReturnsAreTrue` says that replayed and summarized events make no wait return
for something that did not happen during the call, and `TimeoutsAreTrue` that
the last look makes up for a lost deletion.  A wait for a phase has no last
look: if its pod is deleted between two streams it ends by its timeout, which
`WaitsEnd` allows and `NothingMissed` excepts.

**Run and bounds.**  `waits` has all kinds, three ticks with one kept for the
last look, four versions of the object and one API error: enough for an object
to be deleted, created again and deleted while a watch expires, at every
distance from the end.  In real time the reserve is two seconds; only the order
of the ends matters.  Disconnects and expired versions are unbounded.

**Fairness.**  Weak fairness of the caller's steps, as asyncio runs it and no
request outlives its timeout, and of time.  Nothing is assumed of the object,
nor of the server, which may disconnect for ever.  A call that has ended has no
successor, hence `CHECK_DEADLOCK FALSE`.

## 6. The file system admin instance

`FSAdminService` says what the routes of `handlers/fsadmin.py` promise: requests
are served one at a time, an instance comes into being only while a create is
served, and every answer is true of the instance at the moment it is given.  A
create that failed is the exception (`Late`): what it still brings may come at any
time, and a delete served meanwhile cannot know.
`FSAdmin` is what `services/fsadmin.py` does: a lock, and under it one call of the
Kubernetes API after the other, through `storage/kubernetes/fsadmin.py` and the
generic storage of `deleter.py`.

| Variable | In the code |
|---|---|
| `exists`, `phase` | in Kubernetes: pod and volume claim, each absent, there or being deleted; the pod's phase |
| `holder` | `FSAdminManager._lock` |
| `kinds`, `calls`, `replies` | what each request asks for, where it is, what it was told |
| `strays` | calls of the Kubernetes API whose request gave up and which may still land |

**Correspondence.**  `GetStatus`, `Create`, `CreateAgain`, `Delete`, `AwaitGone`,
`AwaitPhase`, `FinalStatus` are the awaits of `create`, `delete` and `get_status`;
`Fail` is any of them ending in an error or running out of the request's time,
which the lock's `async with` answers for.  The call under way may have been sent:
it then lands later (`CreateLands`, `DeleteLands`), perhaps when the lock is
somebody else's.  Calls of an earlier controller process are taken to be over.  A
create makes the claim, then the
pod, and replaces what is in its way; a delete removes the pod, waits until it is
gone, then the claim.  Several claims are one, as all are handled alike.  Pods
start, exit, are evicted and vanish at any moment; a claim goes only once no
running pod uses it.

**Refinement.**  `Instance` maps the objects to what the service knows (none,
partial, running), `holder` to the request served.  `Implements` is the service's
specification under that mapping.  It is about order: between a delete's two
waits others queue for the lock, and the claim must not be declared gone while a
pod could have been created again, unless by a call of a create that failed.  The run
`fsadmin` checks it with three
requests of any kind, from every combination of leftovers; section 13 proves it
for any number of requests.  The specification is `AdminSpec`, and the names it
shares with other components have that prefix too, so that one module of proofs can
be about both this and the startup of labs.  Requests are finite and the cluster may come to
rest, hence `CHECK_DEADLOCK FALSE`.

## 7. Images

### Tags, collections and the commands that prune

`ImageTag` is the tag model: what a tag is made of, when one is newer than
another (`Compare`), subsets of the newest, and filter policies.  The regular
expressions of `_tag.py` are represented by what they recognize (`form`), not by
characters, and an age limit of zero is one that limits nothing, as in the filter.
`ImageCollection` extends it with `RSPImageCollection`: indices by
digest and tag, resolution of aliases, marks per node.  `ImageManager` extends
that with the commands that prune and delete in a registry, by digest, request
by request for Docker and in one batch for Google's registry.

| Variable | In the code |
|---|---|
| `images` | the `RSPImage` objects, which collections share |
| `full`, `subset` | `_images` of an image source and the collection it prepulls |
| `added` | how many images were added after the listing |
| `repo`, `command` | the digest of each tag in the registry; where the command is |

The initial states are the collections `__init__` builds from every listing, in
every order, of up to three of the nine tags over two digests, followed by the
addition of one more image.  That includes an alias listed before its target and
after it, two aliases of one digest, an alias of an experimental and of an
architecture-specific tag, and equal digests that are no aliases.

| Property | Says |
|---|---|
| `CollectionConsistent` | the indices point to the right images, and every possible alias that shares its digest with a proper image is resolved to one (`_replace_contents`, proper images first and aliases in a second pass) |
| `StepsExact` | a mark reaches every tag of a digest; a subset is exactly the newest of each type, equally new ones in the order of the listing, and the included tags |
| `SelectionsExact` | the order of tags is total within a type; the menu that hides aliased images still shows each of them under an alias; a filter policy and its inversion divide the tags |
| `PruneExact` | a command that succeeds has deleted exactly the digests of the tags it excludes |

That the hidden target of an alias is shown under the alias (`HiddenIsShown`) is
said of collections in which a name occurs once, as in every listing.  Node data
can add a tag again with another digest, and then an alias found under the old name
hides an image it no longer stands for.

A sorted or filtered list is a sequence of places in the order of addition.  Its
sort is by rank: the place of an element is how many are before it, by `Compare` and
then by place, as Python's stable sort in reverse has them.  `_replace_contents` and
the moves of aliases are recursive functions over their lists, one image at a time.

`Fresh` starts a command on a collection nobody has marked, as the commands are
processes of their own.  Digests are symmetric; all properties are of states and
steps.

### The service and the prepuller

`ImageService` has the background tasks of `services/image.py` and
`services/prepuller.py` over one of the two kinds of source, a registry and nodes
that change, and a Docker token that may expire.  Each await is a step.

| Variable | In the code |
|---|---|
| `registry`, `cluster` | the digest of each tag; per node what it has pulled and whether labs may run there |
| `token` | `DockerStorageClient._authorization` |
| `tags`, `images`, `seen` | of the source: the tags listed, the images known, their nodes |
| `toPrepull`, `nodes`, `refreshed` | `ImageService._to_prepull`, `_nodes`, `_refreshed` |
| `refresh`, `prepull` | the two tasks with their locals |
| `handled`, `had`, `hadNext` | history for the properties |

A pull succeeds only while node and digest exist; otherwise it fails and is
marked all the same, as in the code.  `Consistent` says that the marks the menu
reads and the node data the prepuller reads agree, although a pull may end after
a refresh has replaced both, and that a lookup never returns a digest older than
the refresh in use.  `RefreshNotMissed` is about the event that is cleared
when the wait for it ends, not when the work is done.  `Settles` says that once
registry and nodes rest, every image to prepull is on every node and in the
menu, in spite of failed pulls marked as done and refreshes that failed: the next
refresh finds out.  It assumes that the Docker token stays good, as the code
does not renew it (section 12).

**Bounds.**  Two tags of which one is recommended, two digests, two nodes one of
which may change, and two changes or failures, of which one can hit the refresh
and the other the pull or the node.  **Fairness**: the loops' timers fire, awaits
have timeouts, tasks get their turn; the world owes nothing.  The system never
stops, and deadlock is not checked since the registry alone could always change.

## 8. The JupyterHub spawner

`Spawner` is `NubladoSpawner` for one user, JupyterHub that drives it, one
progress page, and the controller as that client sees it: a request is handled in
one step, an operation posts its events as it goes, and stopping takes a while.

| Variable | In the code |
|---|---|
| `hub` | what JupyterHub believes of the lab |
| `task`, `events` | `_start_future` with the locals of `_start`; `_events` |
| `readers` | each `progress()` generator: the list it captured, its position, its trigger |
| `stream` | the server-sent events of `_start` not yet read |
| `lab`, `op` | of the controller: `LabState` and the operation |
| `queue`, `closed` | the user's event queue: its contents, and whether it has ended |
| `creates`, `deletes` | requests in flight, those of clients that gave up included |
| `rival` | history: a create whose client is gone was handled during this start |
| `posted` | history: how many events each start has had for JupyterHub |

Every operation, however it ends, ends its queue (`_monitor_operation`,
`lab.py:1504`; `PutAndClose`): those who follow it, and those who open it until the
next operation clears it, get its events and then the end.  So `_start` may open the
stream of a delete that got in between its requests; that stream just ends, and
`_start` goes on to ask for the URL (`TaskStreamEnds`).

JupyterHub may time out a start, or be killed and restarted with its requests in
flight; the stream may fail; an operation may fail; the pod may be lost.  The
creates and deletes of clients that are gone (`Orphan`) land at any time, which is
how a conflict and a lab that vanishes between two requests of one start arise.

| Property | Says |
|---|---|
| `Consistent` | events have a percentage that never goes back until a failure; the create after a conflict is refused only if another create got in between |
| `ReaderSeesAll` | a page that ends before its timeout has shown as many events as the start it follows ever had (`posted`, counted apart from the list it reads), the last one included, although the future may be done before the page looks and the next start may have its list by then |
| `StartedIsRunning` | a start succeeds only with a lab that started, although `_start` goes on when the stream of events just ends, as that of a delete does |
| `CallsEnd` | starts, and the pages that follow them, end without their timeouts, whoever else deletes or creates the lab |

A page is early if it begins after JupyterHub asked for the start and before
`_start` takes its first step: it then has the future of this start and the list
of the one before, and triggers nobody will fire.  `ReaderSeesAll` and `CallsEnd`
except early pages, which section 12 is about.  **Bounds**: two starts, so that a page can
outlive its start; one page, as pages only read; two failures, as it takes two to
have both a late create and a late delete in one start; one event of the pod.  **Fairness**: requests are answered, operations
end by their timeouts, tasks get their turn, and JupyterHub stops what failed to
start.

## 9. The client

`JupyterHttp` is `JupyterAsyncClient`: where the lab is, the XSRF tokens of hub and
lab, and redirects followed one by one, with answers of the servers left free.
`LabSession` extends it with the session manager and the session: logging in,
creating the session, the WebSocket, one run of code after another, leaving.

| Variable | In the code |
|---|---|
| `hosts` | external: the hosts whose names begin with the user's: the lab's own, if labs have hosts of their own, and another (`twin`) |
| `http`, `fetch` | the client with the base URL of the lab and the token sent to it; the request being redirected |
| `manager`, `run` | `JupyterLabSessionManager`; the locals of `run_python` and `_read_result` |
| `wire`, `socket`, `kernel`, `lab` | messages not yet read, the WebSocket, the kernel, the sessions in the lab |
| `printed`, `outcome` | history: what each run printed; how the context ended |

The client tells hosts apart only by how their names begin.  `_check_redirect` is a
`startswith` with no delimiter (`_http.py:378-383`), so a host whose name goes on
after JupyterHub's (`beyond`) or the lab's passes, and the search for the lab takes
any host that begins with `<username>.` for it (475-488), also where labs have no
hosts of their own.  `Inside` and `FindRedirect` do the same.

The kernel's two channels are merged in any order that Jupyter allows, an earlier
run that ended with an error goes on printing (after a timeout the program's session
is over), messages that do not parse are passed over,
and the lab may close the connection.  A program may log in again inside a session.

| Property | Says |
|---|---|
| `OutputExact` | a run that succeeds returns all its own output and nothing else, whatever the interleaving (unless the lab closed the connection) |
| `CredentialsStayInside` | no request, each of which has the user's credentials, goes to a host that begins neither like JupyterHub's nor like the user's name; and to one that begins with the user's name only by the search for the lab, or after a search that ended there |
| `Consistent` | a context that ends without error leaves no session behind, an exception of the body is not hidden by one raised in leaving, a redirect chain visits no URL too often, and where no host begins with the user's name a lab token is the lab's |
| `CallsEnd` | every chain of redirects ends, and so does every run whose kernel lives, without its timeout |

**Bounds**: one session with two runs that print one line each (so that the first
may overlap the second) and one more login.  Logins come before the runs of a
session, with which they have nothing in common, and while another session may
follow.  That the hosts are JupyterHub's and the lab's (`OnlyHubAndLab`) is more than
the code ensures (section 12).  **Fairness**: servers answer, the
kernel runs what it is sent, messages are read.

## 10. The purger

`Purger` walks the directories of a policy, longest path first, then unlinks what
it planned, then removes empty directories; between any two steps a user
may write, use, create or remove files and directories.  Each directory walked,
file unlinked or directory looked at and removed is a step.  The walks in which
`_tidy_victim_dirs` collects its candidates are one (`Scan`): users act before and
after it, and what it found is looked at again before it is removed.

| Variable | In the code |
|---|---|
| `file`, `dirs`, `clock` | the tree: stamps and sizes of files, the directories, the time in ticks |
| `plan` | `Purger._plan` |
| `remaining`, `visited`, `consider`, `roots`, `listed`, `records`, `then` | locals of `plan()` |
| `todo`, `failed`, `scan`, `victims`, `victim` | locals of `purge()` and `_tidy_victim_dirs` |

`Consistent` says that each planned file is planned once, under the policy of the
closest directory above it, however the tree changes during the walks.
`NamedStay` says that directories of the policy, and those above, outlive every
purge.  `LeavesRemoved` says that a purge that succeeds and that no user
interfered with leaves no removable empty leaf.  (That it leaves no empty
directory at all is what the code means and does not do, section 12.)

**Bounds**: five nested directories, two of them in the policy with different
intervals, one that is only above one of these, and two that can become empty;
two files, two ticks of the clock, two changes by users, three commands, one
failing system call.  The program is sequential and may rest for ever, hence
`CHECK_DEADLOCK FALSE`.

## 11. What runs before the lab

`LabStartup` is the three init containers of a lab pod, `inithome`,
`landingpage` and `startup`, over a home directory that outlives pods.  A
container may be killed between any two steps and is run again in the same pod
(`restart_policy` is `OnFailure`).

A file is the set of its parts.  Of the user's there is what the site has nothing
for (`own`) and what stands where the site's goes (`clash`: in a section of the
credentials, as the password of a connection, under a key of dask's); of the site's
what it requires (`site`) and an earlier form of that (`old`).  A write empties the
file first, as `open("w")` and `write_text` do, and may stop half way (`Cut`): it
leaves a fragment that reads like a shorter file (`short`), YAML that does not parse
(`torn`), or something of which reading makes an error that nothing catches (`odd`),
as a file of the user's may be too.  Three operators say what a write keeps:

* `Merged`, for the credentials and for the key written to `dashboard.yaml`: whole
  sections, connections and keys of the site's replace the user's, with no copy made
  (`credentials.py:54-55`, `81-90`; `startup_test.py:257-281` asserts it);
* `Amended`, for one value in place of another: everything else stays;
* `Fails`, an exception that is no `OSError`, so that `prepare` does not catch it
  (`preparer.py:98`) and the container fails: `configparser`'s of odd credentials
  (`credentials.py:51`), those of a dask file that is no mapping or has a string where
  the link is looked for (`dask.py:171`, `203`), the unbound `obj` of a
  `dashboard.yaml` that does not load (`dask.py:65-72`), and `ValueError` of odd
  settings (`homedir.py:167`).

| Variable | In the code |
|---|---|
| `owner`, `files`, `moved`, `backup` | the home directory: its owner, its files, the `.user_env` directories, the dated copies of dask's configuration |
| `pod` | this start: the step, the locals of `Preparer`, and what the lab is told |
| `owned`, `lost`, `faults` | history: what the user had in the files at first, files a write of which stopped half way; failures so far |

The actions are the steps of `Provisioner.provision`, `go`, and `Preparer.prepare`
in their order, with one for each write; `Abnormal` skips the rest of a `try`
block as `_set_abnormal_startup` does.  Of the environment only the scratch
directory is kept, as everything else is set afresh by each start.

`UserDataKept` says that what the user had in a file where the site has nothing is
in it, in a `.user_env` directory, or in the dated copy, after any number of starts,
resets, kills and containers that fail, but for a file a write of which stopped half
way.  It promises nothing of what the user had where the site's goes, nor of comments
and of lines that are no entries, which the merge of the credentials drops.
`Consistent` says that the directory is the user's once `inithome` is over and
that a lab that was not called abnormal has the credentials and settings the
site requires.  `StartEnds` says that the lab comes up, unless the directory is
somebody else's or one of the files that startup reads (`Parsed`) is odd: then every
start fails until the user repairs it by other means (section 12).
Section 13 proves the first two.

**Bounds**: two pods, with or without a reset of the environment, two failures or
kills in all, and every combination of the user's files with each kind of dask
configuration, an odd one included (`McInitially`).  What goes wrong is a write or
a kill; that a file cannot be read is left out.  **Fairness**: a container that was
started runs; nobody has to kill one or start another pod.  A lab that is up stays
up, hence `CHECK_DEADLOCK FALSE`.

## 12. Where comments and code disagree

Each of the following properties says what a comment or docstring says, is
defined at the end of the module that is named, and is violated by what the code
does.  No run lists them, as a run is for what holds.  To see the trace, add
`INVARIANT X` or `PROPERTY X`, with `CHECK_DEADLOCK FALSE`, to a copy of the
configuration that is named; TLC reports a violation within a minute, except for
the three that name more requests: their traces, of 74 to 139 states, take a next-state
relation that is narrowed to the events described.

| Property | Module, configuration | What happens |
|---|---|---|
| `SpawnReplacesStoppedLab` | `LabManager`, `MCLabSafety` | `delete_first` is computed from a `LabState` captured before an `await` (`lab.py:311`); a second create then deletes and replaces the running lab that another create has just made (`lab.py:330`) |
| `ReaperAlive` | `LabManager`, `MCLabSafety` with `Users = {u1, u2}` | `reap_spawners` awaits while iterating over the live dictionary (`lab.py:564`); the first create of a new user ends it with `RuntimeError`, and nothing restarts it (`background.py:109`) |
| `OperationOwnsState` | `LabManager`, `MCLabSafety` with two users and four requests | "we start the deletion and take responsibility for clearing the lab state when it finishes" (`lab.py:403-405`), but a delete clears whatever `lab.state` it finds when it returns from `wait()` (`lab.py:450-452`).  Delete A of a failed lab fails; the reaper, awake because another user's spawn ended, collects A's operation before A runs again; a create replaces the lab and delete D aborts it, with A next for the lock; a reconcile pass that began before overwrites D's `TERMINATING` by the `TERMINATED` it saw (line 1039).  A then clears the state of D's operation, and D, back from its own `wait()`, dereferences `None` |
| `OperationFound` | `LabManager`, `MCLabSafety` with six requests | "Callers must check that an operation is in progress [...] before calling this method" (`wait`), so that they meet no `NoOperationError`; of several deletes that queue behind those that abort a spawn, one calls `wait` for an operation that another has collected before it gets the lock |
| `OneOperationPerServer` | `FileserverManager`, `MCFileserverSafety` | reconcile replaces a `_State` with its lock (`fileserver.py:250`), after which two operations on one file server run at once ("Lock to prevent two operations from happening at once", line 34) |
| `WatcherDeletesExited` | `FileserverManager`, `MCFileserverSafety` | the watcher deletes a running file server because of the last event of the pod before it (`fileserver.py:375`) |
| `ReconcileSparesModified` | `FileserverManager`, `MCFileserverSafety` with four requests, `MaxBatch = 2`, nothing in the cluster and one lost job | "Servers modified since then will be left alone" (`fileserver.py:283` and 305), but the look (310) comes before `delete` waits for the lock, and the operation that holds it then may be the modification |
| `InvalidRemoved` | `FileserverManager`, `MCFileserverConverges` with `MCFileserverLive` | after a failed delete or create, reconcile finds the invalid file server and queues it for removal, and `delete` refuses as its `_State` is not running: the objects stay (`fileserver.py:292`) |
| `RetainedSurvive` | `ImageManager`, `MCImageCollection` | a policy says "what images to retain" (`services/images/_base.py:64`), and prune deletes by digest: a tag to retain that shares its digest with one to prune goes too |
| `PruneCompletes` | `ImageManager`, `MCImageCollection` | the second tag of a digest just deleted has none any more, and the command ends with the 404 (`services/images/_docker.py:78`) |
| `RefreshRecovers` | `ImageService`, `ImageService` | once a Docker token has expired every later refresh fails, as a client that has sent one does not authenticate again (`storage/docker.py:191`; "whatever the problem was to be resolved", `background.py:172`) |
| `MarkedWherePulled` | `ImageService`, `ImageService` | an image is marked as prepulled after a pull that failed (`prepuller.py:93`; "after the prepull pod succeeded", `source/base.py:80`) |
| `NewEventsNotified` | `Spawner`, `Spawner` | new events wake no progress page, only the end of the start does ("Triggers used to notify listeners of new events", `_internals.py:115`) |
| `NoReaderStranded` | `Spawner`, `Spawner` | a page that begins before `_start` has replaced list and triggers waits for a trigger nobody fires ("none of the progress calls will get stranded", `_internals.py:465`) |
| `PageOfItsStart` | `Spawner`, `Spawner` | "so that we consistently monitor the same invocation of start" (`_internals.py:289`), but a page that begins after JupyterHub asked for a start and before its first step has the list of the start before: it ends with none of the events of its own |
| `OnlyHubAndLab` | `LabSession`, `LabSession` | "ensuring that the redirects are relative to either the JupyterHub or JupyterLab base URLs" (`_http.py:173-175`), but bases are compared by `startswith` (378-383) and any host that begins with `<username>.` is taken for the lab's (475-488, as a comment there admits) |
| `ResultIsComplete` | `LabSession`, `LabSession` | if the lab closes the connection normally, a run returns what it has read so far as its result (`_session.py:49`) |
| `NoSessionForgotten` | `LabSession`, `LabSession` | a session whose first connection failed, or whose creation was answered too late, is not deleted (`_session.py:328`, "automatically deleted") |
| `NoEmptyDirLeft` | `Purger`, `MCPurger` | victims sorted deepest first become a set (`purger.py:267`), and a directory looked at before the one in it stays |
| `DaskSettingsKept` | `LabStartup`, `MCLabStartup` | other settings of the user's `dashboard.yaml` "should stay the same" (`dask.py:135`), but a proxy is injected over the whole of its top-level key, with no copy made |
| `WelcomeIsSeen` | `LabStartup`, `MCLabStartup` | whether the welcome page is shown is read from `os.getenv` (`preparer.py:186`), what `inithome` and the reset of the environment decided is in `self._env` (312) |
| `OddFilesHeal` | `LabStartup`, `MCLabStartup` | "we will be starting in a degraded mode, and offering the user an explanation, anyway" (`homedir.py:124`), but credentials that are no configuration (`credentials.py:51`), dask files that are no mapping or have a string in place of one (`dask.py:171`, `203`, and `65-72` for one that does not load), and settings that are no JSON (`homedir.py:167`) raise what `prepare` does not catch (`preparer.py:98`): the container fails in every start from then on |
| `OperationalWhenTold` | `FSAdmin`, `FSAdmin` | "On successful return, the fsadmin instance is operational" (`handlers/fsadmin.py:27`), but `get_status` looks at the phase only, also of a pod that is being deleted |

More was found in reading the code for the models, without a property of its own:

* **Lab manager.**  A create that will be refused reads the pod phase first and
  writes the status of the lab an operation works on (`lab.py:918`, against
  344-345; `CreatePhase`).  Of two deletes that abort the same spawn the second
  is refused with a conflict (`lab.py:448`, against 384-385).  Between an abort
  and the delete that follows, reconcile overwrites `TERMINATING`, as `cancel()`
  leaves `last_modified` alone (`lab.py:1334`, against 88-90).
* **File servers.**  Of a job with several pods, "complaining and ignoring"
  (`storage/kubernetes/fileserver.py:225-226`), the first one read leaves `pod`
  unbound, or holding the pod of another user, and the pass, or startup, ends in
  an exception (`PodAfter`, `ReadIngress`).
* **Images.**  Reindexing drops architecture-specific images (`_image.py:214`).
  The target of an alias is hidden although its alias is hidden as well.
  No filter applies to unknown tags (`_filter.py:152`), although "images in the
  'unknown' category are never displayed" (`_filter.py:110`).
* **Client.**  `Counter(next_url)` counts the characters of the first URL
  (`_http.py:463` and 532), so that its first visit is free (`VisitsBounded` is 3
  for that reason).  Logging in inside a session closes the HTTP client the
  session uses, and `__aexit__` then raises `RuntimeError` in place of an error of the
  body.  If closing the WebSocket fails the session is not deleted.
* **Purger.**  `_check_file` uses an unbound `st` after a `PermissionError`; after
  a purge with failures the plan is kept (`purger.py:255`).
* **Startup.**  A torn copy of a skeleton or profile file is never repaired; a
  second copy of dask's configuration on one day overwrites the first; sections and
  connections of the user's credentials are overwritten with no copy at all.

## 13. What is proved

tlapm checks the modules named `...Proofs`.  All theorems hold for every value
of the constants, under the assumptions that the modules name.

**`LabManagerProofs`**, from `ConstantsAssumption`: for all users, requests,
identities, initial clusters and fault bounds,

* `TypeCorrect`: `Spec => []TypeOK`.
* `OneOperationHolds`: `Spec => []OneOperation`, the promise of the
  `_LabMonitor` docstring.
* `Invariant`: `Spec => []IInv`, the inductive invariant behind both;
* `DeleteIsNeverCancelled`: `Spec => []DeleteNeverCancelled`;
* `CancellationIsContained`: `Spec => []CancellationContained`;
* `OrderInvariant`: `Spec => []OrderInv`, the invariant behind these two, which
  takes `IInv` for granted;
* `SpawnOwnsItsState`: `Spec => []SpawnOwnsState`;
* `OwnershipInvariant`: `Spec => []OwnInv`, the invariant behind that, which takes
  both others for granted.

`OneOperation` alone is not inductive.  A task may only clear or replace
`op[u]` because it is the one that holds the lock and because the operation it
clears has finished, and both facts depend on how asyncio schedules.  `IInv`
adds, as named conjuncts,

* `LoopInv`, the discipline of the loop: no task is scheduled twice or while it
  runs, and only a task that is alive is scheduled or runs;
* `LocalsInv`: which locals are set at which program point;
* `LockInv`: the queue of a lock holds exactly the callers that are past its
  `async with`, without repetition, and the one that runs, is scheduled, or
  holds the lock across an `await` is its head;
* `WaitInv`: the waiters of `complete` are callers suspended there;
* `OpInv`: a live operation is its user's current one, and a caller that is
  about to clear an operation refers to one that is done.

That proof has one lemma per action and under it one step per conjunct the
action disturbs; `StepInv` combines them over `Next`, `InitInv` starts the
induction, and a restart re-establishes the whole discipline at once (`Fresh`).

That a delete is never cancelled is a matter of what callers decide on before
they queue for the lock and find when they get it.  A caller queues to start an
operation only when it saw none, to cancel only when it saw a spawn, and to wait
only when it saw a delete, or started one.  `OrderInv` says of the queue of a lock
why it still finds that:

* `QueueOrder`: with no operation in progress, nobody who queues to start one is
  ahead of anybody who seeks one; with one in progress, nobody who will clear it is
  ahead of anybody who will start the next;
* `QueueKind`: who queues to cancel meets a spawn, who queues to wait a delete;
* `CallerOrder`: what a caller saw in `_operation` still holds when it asks for
  the lock, because no `await` is in between, and whoever waits waits for a delete
  and is spared its `CancelledError`;
* `CancelOrder`: the operations that were cancelled are spawns.

That nobody changes `lab.state` under a spawn is the subtlest of these.  A caller of
`delete_lab` clears whatever `lab.state` it finds when `wait()` returns, and it may
return when the operation it waited for has been collected by another and the next
spawn has begun.  What saves the spawn is the order of two queues: such a late
caller returns before the task of the spawn takes its first step, when the new lab
is still pending and so is not taken for a deleted one.  `OwnInv` has these parts:

* `RefInv`, who refers to an operation: callers between the two locks of `wait()`
  and no others; those suspended there wait for a live task and are on its list of
  waiters; every caller past an `async with` is in the queue of that lock; only
  the task of a spawn raises, so a waiter of a delete has nothing to report.
* `RaceInv`, where a late caller is, and the new operation with it.  The task of that
  operation has not taken a step: the caller runs, or is ahead of it in `ready`, or
  queues behind a caller that has cancelled it before it could (`LateOp`).  Nobody is in the queue of
  the lock before it asks, or ahead of it after, who could start another
  (`LateQueue`, `LateAhead`); waiters that were woken together ask for the lock in
  the order they were woken in (`WokenInv`); hence `DeletedInv`: when `delete_lab`
  goes on, no operation of its user has got anywhere.  The reaper, which waits
  as well, is described by `ReaperInv`: it takes references only to operations that
  are over, and to a spawn only when nobody else waits for it.
* `StateInv`, who has which `LabState`: no two users share one, not through
  `_labs`, a caller's locals or a live operation (`HoldsInv`), so that a status
  set for one user's lab is never another's; the lab of a spawn that has not started
  is pending, failed or being deleted (`OpState`); a user with a lab or an operation
  is in `_labs`, so reconciliation does not discover it again (`KnownUser`).

The actions are many and these invariants speak of few variables.  So the proof
first reduces every action to one of a dozen effects on the loop, the locks and the
operations (`StepHasEffect`: a caller asks for a lock, lets it go, collects,
begins, and so on; an operation goes on or ends; a restart), and the invariants of
references and races are proved over those.

**`KubernetesWatchProofs`**, from `WatchConstants`: for every set of kinds,
timeout, reserve, number of versions and number of errors, `TypeCorrect`
(`TypeOK`), `ReturnsTrue` (`ReturnsAreTrue`), `WatchMissesNothing`
(`NothingMissed`) and `TimeoutsTrue` (`TimeoutsAreTrue`).  None of the last three
follows from the state of the stream alone.  The invariant (`Invariant`) adds
what the watch knows: the version it starts from does not settle the wait
(`VersionUnsettled`), neither does the one its stream has reached, except for an
absence that a stream without version skipped (`ReachedUnsettled`), and the
initial event is true of the version the stream begins at (`InitialTrue`).
`EventInv` is the heart: an event ends the wait exactly if the version it stands
for settles it, which for a creation, where only `ADDED` counts, needs that the
version before was absent.  `TimeoutLooked` shows that the only steps that end
such a wait with time left are those that look at the object.

**`ComponentProofs`**, on the startup of labs, from `InitiallyAssumption` and
`BoundsAssumption`: for any contents of the home directory and any number of starts,
failed writes and killed containers, `UserDataIsKept` (`UserDataKept`) and
`StartupConsistent` (`Consistent`).  The invariant (`StartupInvariant`) says what
each step may rely on:

* `TornInv`: a fragment is there only if a write of that file stopped half way;
* `KeptInv`: what the user had where the site has nothing is in its file, or was
  moved with it, for any file no write of which stopped half way.  That is more than
  `UserDataKept` says: no dated copy is needed to keep it, as every merge does;
* `ReadyInv`: past the merge of the credentials they are the site's, past the
  look at dask's configuration a link is there unless something failed, and
  `good`, the answer of the last file alone, does not promise a link in
  vain; at the end, or once the lab was told it is at home, the settings are the
  site's too.

`WriteStep` does once what every write has in common: the contents are new, old
or a fragment, and only in the first case is the pod where the step wanted it.  A
container that fails begins again (`FailsStep`).  Whatever else happens leads to an abnormal report or to the beginning of a container, where
nothing is relied on (`NothingReady`, `GivenUp`).

**`ComponentProofs`**, on the file system admin instance, from `NoOneAssumption`: for
any number of requests, `AdminTypeCorrect` (`AdminTypeOK`) and `AdminImplements`
(`Implements`), that the manager implements `FSAdminService`.  The invariant
(`AdminInvariant`) says what the request that has the lock knows (`AdminKnows`): a
delete that is past the deletion of the pod has seen it go, and nobody can have
created another since, as only a holder of the lock creates, unless a create had failed; so
a claim that is gone stays gone until the answer.  Calls that may still land are of
requests that failed (`StraysKnown`), and once a create has failed, one always has
(`StillLate`).  Every step of `AdminNext` is then a step of the service
or leaves `Instance`, holder and answers alone.

**`LabSessionProofs`**, from `NoneAssumption` and `SessionAssumption`: for any
number of sessions, runs, logins and lines of output, `CredentialsSafe`
(`CredentialsStayInside`), `ResultsExact` (`OutputExact`) and
`ClientConsistent` (`Consistent`).  The invariant has a part for the HTTP client,
one for contexts and one for runs.  `OutputExact` is the hard one: the output a
run has read and the output still in the socket are all its kernel has printed
(`OutputInv`, a count over the sequence of unread messages, `PendingAppend` and
`PendingTail`), and once the kernel's idle message of this run has been read none
is left, because the kernel says it last on that channel and never twice
(`IdleInv`), whatever of earlier runs is in between (`NotBegunInv`).
`CredentialsSafe` is as strong as the code's comparison of prefixes and no stronger:
it excludes hosts that begin like neither base, not those that only begin alike.

**`PurgerProofs`**, from `TreeAssumption`, for any tree and policy:
`NamedDirectoriesStay` (`NamedStay`), `PlansConsistent` (`Consistent`) and
`EmptyLeavesRemoved` (`LeavesRemoved`).  A directory the purger removes has passed
the filter (`VictimInv`), and the filter spares the policy's directories because
a plan that was made has them all (`PlanningInv`, `PlanInv`), also those that were
missing when they were walked.  A file is judged by the policy of its deepest
planned ancestor because the walks go from the top down (`PlanInvariant`); that
needs the ancestors of a directory, its `Lineage`, which is the least set that is
closed under `parent`, so that what holds of every closed set holds of it without
an induction.  The tidying forgets no directory that may go: until it has been
looked at it is among the victims, and after that it stays only for something in
it, a file or a directory that the walk has seen (`LeafInv`).

**`SpawnerProofs`**, from `SpawnerAssumption` and `NoneAssumption`: for any number
of progress pages, starts and faults, `StartConsistent` (`Consistent`),
`PagesSeeAll` (`ReaderSeesAll`) and `StartsRunning` (`StartedIsRunning`), from the
invariant `Invariant`.  A page that found its start over has all events of its list
because a start that is over adds none and the next one takes a new list (`PageInv`);
and that list has as many as the start ever had, unless the page is early
(`PostedInv`, which counts them apart from the list).  A
second create that is refused without a rival contradicts `StopInv`: until another
create is handled, the lab that `stop` saw deleted is gone and no operation is in
progress.  A start succeeds with the URL of its own lab: `LabInv` ties a URL to a
spawn that got that far, and by `StartInv` the task does not go on to the URL while
that spawn is in progress, as the queue of an operation has not ended before it has
(`OpenInv`), so that its stream is open and holds no completion.  A stream that just
ends is thus of a delete, or of a spawn that a later operation's clearing cut off.
That the percentage never goes back needs all that is between the operation and
the list: what an operation has put rises and is at most `Reached` (`QueueInv`),
what the task has not read yet lies between its own progress and `Reached`
(`StreamInv`), and the last event shown is at most that progress (`ShownInv`).
`Lifts` says of a sequence that putting it anywhere keeps this order, one lemma
per operation's events, so that `StepQueue` and `StepStream` share them.

**`ImageServiceProofs`**: for any tags, digests and nodes and any number of
changes and failures, `ServiceConsistent` (`Consistent`), `NoRefreshMissed`
(`RefreshNotMissed`) and the invariant `Invariant`.  Menu and prepuller agree on a
node although each keeps data of its own, because both are made from one listing
with no `await` in between and are marked together.  A lookup is never staler than
the data in use: each tag had, since the refresh began, what the refresh has
learnt of it (`HadInv`).  A refresh that ends while the prepuller works is found
marked when the prepuller is back (`EventInv`).

**`FileserverProofs`**, from `FileserverConstants`: for any users, requests,
`_State` objects and failures, `TypeCorrect` (`TypeOK`) and `OneOperationHolds`
(`OneOperationPerState`).  An operation begins behind an `async with`, in a task
that has waited there, so the invariant (`Invariant`) describes the lock: its queue
holds exactly the callers that refer to its `_State`, all but the first are suspended
there (`LockInv`), no task is scheduled twice or while it waits (`LoopInv`), and
`in_progress` says whether the first has begun (`ProgressInv`).

**`ComponentProofs`**, on the images, from `CollectionAssumption` and
`PolicyAssumption`: for any tags, digests, listings, limits and policies,
`IndicesAndAliasesFit` (`CollectionConsistent`), `SelectionsAreExact`
(`SelectionsExact`), `PrunesExactly` (`PruneExact`) and `StepsAreExact` (`StepsExact`).

* *Order.*  `CompareChain` shows that `Compare`, six comparisons deep, orders the
  tags of the registry totally; it needs that a tag without a version has a base
  name.  With the place as the last tie-breaker the order is strict
  (`OrdersStrictly`), so the ranks in it are different and as many as there are
  elements (`Ranking`), and the list arranged by them has each element once, in order
  (`SortReverseIs`).  Filters, menus and the division of the tags by a policy follow
  from what each list has in it (`KeptIs`, `FilterIs`).
* *Induction over lists.*  `Counting` does the one induction of the module: a
  property of 0 that passes from each number to the next holds up to the bound.
  With it `Folding` shows that a recursive function over a list is the one its
  equations describe, and `Processing` that what every step keeps and what each
  element adds is there at the end.
* *Aliases.*  What a step does to the image objects only makes them `Develop`: digest
  and name stay, aliases grow, a proper image stays proper, and a target is a proper
  image of the same digest.  After the first pass every digest with a proper image
  has one that stands for it; in the second each alias that finds one is resolved.
  `CollectionInv` has the indices and the aliases of both collections, and survives a
  subset, which resolves the same objects again; and in it names are unique until
  a tag is added again.
* *Steps.*  A mark starts from the image that stands for a digest and follows the
  names of its aliases.  The invariant therefore says that every image of a digest is
  that one or named by it (`Known`), through both passes and the moves between them;
  as names are unique, the name finds the image (`ByTagFinds`).  For a subset,
  `FirstOfSorted` shows that the first elements of a sorted list are those with few
  enough before them, and `KeptSorted` that a filter leaves a list sorted.
* *Commands.*  `CommandInv` says of a command that each tag it excludes is still to
  be asked for, at hand or deleted, and that the registry is the listing without the
  digests deleted so far, each of which some excluded tag has.

**Only model-checked.**  Liveness (`Converges`, `RequestsReturn`,
`OperationsCollected`, `ServersConverge`, `FileRequestsReturn`, `WaitsEnd`,
`Settles`, `StartEnds` and both `CallsEnd`) is out of the prover's reach.
Every other property the runs check, of states or of steps, is stated by a theorem.

## 14. What is not modelled

Of the components that are modelled: the streams of events with several readers
and `stop_monitor_tasks` of the lab manager; the client's spawning and deleting of labs
over the hub's API, and its mock; the paging of registry listings; the parts of
a lab's environment and of its file system that nothing at startup reads back.

Not planned: configuration parsing and the wiring of the factories, the builders
that format Kubernetes objects, the checks of headers in the routes and in the
hub's authenticator, the wording of reports, alerts and CLI output, packaging, the lab's base image and
the Go entry point.  They keep no state whose order matters: what could go wrong in
them is a matter of single values, which unit tests reach.
