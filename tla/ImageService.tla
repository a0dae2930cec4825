---------------------------- MODULE ImageService ----------------------------
(***************************************************************************)
(* ImageService and Prepuller (services/image.py, services/prepuller.py)   *)
(* over an image source (services/source/): a background task refreshes    *)
(* what is known of the registry and of the nodes, another pulls to every  *)
(* node the images configured to be there, and requests ask for the menu   *)
(* and for the image of a tag.  All run on one event loop; an action is    *)
(* what a task does between two awaits, or the answer to an await.         *)
(*                                                                         *)
(* Node marks are kept by digest: ImageCollection shows that they reach    *)
(* every tag of the digest.                                                *)
(***************************************************************************)
EXTENDS Naturals, FiniteSets

CONSTANTS
    Tags,          \* numbers: a newer tag is larger
    Digests,
    Nodes,
    None,
    NumPrepull,    \* how many of the newest tags to prepull
    Recommended,   \* the recommended tag, prepulled and in the menu always
    Unstable,      \* the nodes that may change or fail
    Kinds,         \* kinds of source: "docker", "gar"
    MaxChanges     \* bound on changes of registry and nodes, and on failures

ASSUME ImageAssumption ==
    /\ Tags \subseteq Nat /\ Recommended \in Tags
    /\ Unstable \subseteq Nodes
    /\ NumPrepull \in Nat /\ MaxChanges \in Nat
    /\ None \notin Digests /\ None \notin Tags
    /\ Kinds \subseteq {"docker", "gar"}

VARIABLES
    registry,   \* the digest of each tag in the registry, or None
    cluster,    \* each node: None, or the digests it has and whether the lab's
                \* tolerations match its taints
    token,      \* DockerStorageClient._authorization: none, good or expired
    changes,    \* changes and failures so far
    kind,       \* the kind of source configured
    tags,       \* DockerImageSource._tags
    images,     \* _images of the source: the digest of each tag, or None
    seen,       \* the nodes those images are marked with, by digest
    toPrepull,  \* ImageService._to_prepull
    nodes,      \* ImageService._nodes
    refreshed,  \* ImageService._refreshed
    refresh,    \* the refresh task and its local variables
    prepull,    \* the prepuller: its state, and what each node's task has left
    \* history
    handled,    \* the prepuller has seen the data of the last refresh
    had,        \* digests each tag has had since the last refresh began
    hadNext     \* the same for the refresh in progress

world == <<registry, cluster, changes>>
known == <<tags, images, seen, toPrepull, nodes, refreshed>>
vars == <<world, token, kind, known, refresh, prepull, handled, had, hadNext>>

NoImages == [t \in Tags |-> None]
Listed(reg) == {t \in Tags : reg[t] # None}

\* _subset_to_prepull: the newest tags, and the recommended one.
Wanted(ts) == {t \in ts : t = Recommended \/ Cardinality({u \in ts : u > t}) < NumPrepull}
Only(imgs, ts) == [t \in Tags |-> IF t \in ts THEN imgs[t] ELSE None]
DigestsOf(imgs) == {imgs[t] : t \in Tags} \ {None}

Idle == [pc |-> "timer", cluster |-> [n \in Nodes |-> None], tags |-> {}, digests |-> NoImages]
NoWork == [n \in Nodes |-> [todo |-> {}, current |-> None]]

\* The process starts: the first refresh is part of startup.
Init ==
    /\ \E d \in Digests : registry = [NoImages EXCEPT ![Recommended] = d]
    /\ cluster = [n \in Nodes |-> [images |-> {}, eligible |-> TRUE]]
    /\ token = "none" /\ changes = 0 /\ kind \in Kinds
    /\ tags = {} /\ images = NoImages /\ toPrepull = NoImages
    /\ seen = [d \in Digests |-> {}]
    /\ nodes = [n \in Nodes |-> None]
    /\ refreshed = FALSE
    /\ refresh = [Idle EXCEPT !.pc = "list"]
    /\ prepull = [pc |-> "wait", work |-> NoWork]
    /\ handled = TRUE
    /\ had = [t \in Tags |-> {registry[t]}] /\ hadNext = had

-----------------------------------------------------------------------------
(* The registry's API: a first request without authorization is challenged  *)
(* and repeated with the token obtained; a 401 to a request that had one is *)
(* an error, and the token is kept (_authenticate).                         *)

CallOK == token # "expired"
AfterCall == IF token = "none" THEN "good" ELSE token

Change == changes < MaxChanges /\ changes' = changes + 1

TokenExpires ==
    /\ token = "good" /\ Change
    /\ token' = "expired"
    /\ UNCHANGED <<registry, cluster, kind, known, refresh, prepull, handled, had, hadNext>>

-----------------------------------------------------------------------------
(* refresh, under the service's lock, which only one task takes             *)

\* The loop of the task catches the exception and goes on.
RefreshFails ==
    /\ refresh' = Idle
    /\ UNCHANGED <<known, handled, had, hadNext>>

\* The timer of the background loop: ask Kubernetes for the nodes.
RefreshBegin ==
    /\ refresh.pc = "timer"
    /\ refresh' = [Idle EXCEPT !.pc = "list"]
    /\ hadNext' = [t \in Tags |-> {registry[t]}]
    /\ UNCHANGED <<world, token, kind, known, prepull, handled, had>>

\* NodeStorage.list and get_cached_images; then ask the registry.
NodesListed ==
    /\ refresh.pc = "list"
    /\ \/ /\ refresh' = [refresh EXCEPT !.pc = "tags", !.cluster = cluster]
          /\ UNCHANGED <<world, known, handled, had, hadNext>>
       \/ Change /\ RefreshFails /\ UNCHANGED <<registry, cluster>>
    /\ UNCHANGED <<token, kind, prepull>>

\* The marks and the node data made from what the nodes had when listed.
Marks(imgs) ==
    [d \in Digests |-> {n \in Nodes : /\ refresh.cluster[n] # None
                                      /\ d \in refresh.cluster[n].images \cap DigestsOf(imgs)}]
\* _build_nodes: of the images of a node, those to prepull.
BuildNodes(imgs) ==
    [n \in Nodes |-> IF refresh.cluster[n] = None THEN None
                     ELSE [refresh.cluster[n] EXCEPT !.images = @ \cap DigestsOf(imgs)]]

\* The end of refresh: with no await since the source stored its images.
Store(all, wanted) ==
    /\ images' = all /\ seen' = Marks(all)
    /\ toPrepull' = wanted /\ nodes' = BuildNodes(wanted)
    /\ refreshed' = TRUE
    /\ refresh' = Idle
    /\ handled' = FALSE /\ had' = hadNext /\ UNCHANGED hadNext

\* GARImageSource.update_images: one listing has tags and digests.
GarListed ==
    /\ refresh.pc = "tags" /\ kind = "gar"
    /\ \/ /\ Store(registry, Only(registry, Wanted(Listed(registry))))
          /\ UNCHANGED <<world, tags>>
       \/ Change /\ RefreshFails /\ UNCHANGED <<registry, cluster>>
    /\ UNCHANGED <<token, kind, prepull>>

\* DockerImageSource.update_images: the tags, stored at once; then the digests
\* of those to prepull are asked for in parallel, on every refresh.
Asked == Wanted(Listed(registry))

DockerListed ==
    /\ refresh.pc = "tags" /\ kind = "docker"
    /\ \/ /\ CallOK /\ token' = AfterCall
          /\ tags' = Listed(registry)
          /\ refresh' = [refresh EXCEPT !.pc = "digests", !.tags = Asked,
                !.digests = Only(images, Wanted(Listed(registry)) \ Asked)]
          /\ UNCHANGED <<world, images, seen, toPrepull, nodes, refreshed, handled, had, hadNext>>
       \/ ~CallOK /\ RefreshFails /\ UNCHANGED <<world, token>>
       \/ Change /\ RefreshFails /\ UNCHANGED <<registry, cluster, token>>
    /\ UNCHANGED <<kind, prepull>>

\* One of the digests arrives; a tag deleted meanwhile is an error, and any
\* error ends the refresh.
DigestArrives ==
    /\ refresh.pc = "digests"
    /\ \E t \in refresh.tags :
          \/ /\ CallOK /\ registry[t] # None
             /\ refresh' = [refresh EXCEPT !.tags = @ \ {t}, !.digests[t] = registry[t]]
             /\ UNCHANGED <<world, known, handled, had, hadNext>>
          \/ ~CallOK /\ RefreshFails /\ UNCHANGED world
          \/ registry[t] = None /\ RefreshFails /\ UNCHANGED world
          \/ Change /\ RefreshFails /\ UNCHANGED <<registry, cluster>>
    /\ UNCHANGED <<token, kind, prepull>>

DigestsKnown ==
    /\ refresh.pc = "digests" /\ refresh.tags = {}
    /\ Store(refresh.digests, refresh.digests)
    /\ UNCHANGED <<world, token, kind, tags, prepull>>

-----------------------------------------------------------------------------
(* The prepuller                                                            *)

\* missing_images_by_node: what a node lacks, eligible or not.
\* A possible mistake: only for eligible nodes.
MissingEligible(n) ==
    IF nodes[n] = None \/ ~nodes[n].eligible THEN {} ELSE DigestsOf(toPrepull) \ nodes[n].images
Missing(n) ==
    IF nodes[n] = None THEN {} ELSE DigestsOf(toPrepull) \ nodes[n].images

\* prepuller_wait returns and clears the event; prepull_images starts a task
\* for each node that lacks something, with no await in between.
PrepullBegin ==
    /\ prepull.pc = "wait" /\ refreshed
    /\ refreshed' = FALSE
    /\ handled' = TRUE
    /\ prepull' = [pc |-> "work",
                   work |-> [n \in Nodes |-> [todo |-> Missing(n), current |-> None]]]
    /\ UNCHANGED <<world, token, kind, tags, images, seen, toPrepull, nodes, refresh,
                   had, hadNext>>

\* _prepull_images_for_node takes its next image and creates the pod.
PullBegin(n) ==
    LET w == prepull.work[n] IN
    /\ prepull.pc = "work" /\ w.current = None
    /\ \E d \in w.todo :
          prepull' = [prepull EXCEPT !.work[n] = [todo |-> w.todo \ {d}, current |-> d]]
    /\ UNCHANGED <<world, token, kind, known, refresh, handled, had, hadNext>>

\* mark_prepulled: a refresh may have replaced the images and the nodes.
\* A possible mistake: only the image is marked.
MarkImageOnly(n, d) ==
    /\ seen' = [seen EXCEPT ![d] = IF d \in DigestsOf(toPrepull) THEN @ \cup {n} ELSE @]
    /\ UNCHANGED nodes
Mark(n, d) ==
    IF d \notin DigestsOf(toPrepull) THEN UNCHANGED <<seen, nodes>>
    ELSE /\ seen' = [seen EXCEPT ![d] = @ \cup {n}]
         /\ nodes' = IF nodes[n] = None THEN nodes
                     ELSE [nodes EXCEPT ![n].images = @ \cup {d}]

\* The pod has run, failed or timed out (the node may be gone): the exception
\* is swallowed and the image marked all the same.
PullEnds(n) ==
    LET d == prepull.work[n].current IN
    /\ d # None
    /\ \/ /\ cluster[n] # None /\ d \in DigestsOf(registry)
          /\ cluster' = [cluster EXCEPT ![n].images = @ \cup {d}]
          /\ UNCHANGED changes
       \/ n \in Unstable /\ Change /\ UNCHANGED cluster
       \/ (cluster[n] = None \/ d \notin DigestsOf(registry)) /\ UNCHANGED <<cluster, changes>>
    /\ Mark(n, d)
    /\ prepull' = [prepull EXCEPT !.work[n].current = None]
    /\ UNCHANGED <<registry, token, kind, tags, images, toPrepull, refreshed, refresh,
                   handled, had, hadNext>>

\* All tasks of the group are over.
\* A possible mistake: the event is cleared now, not when the wait for it ended.
PrepullEndClears ==
    /\ prepull.pc = "work"
    /\ \A n \in Nodes : prepull.work[n] = [todo |-> {}, current |-> None]
    /\ prepull' = [prepull EXCEPT !.pc = "wait"]
    /\ refreshed' = FALSE
    /\ UNCHANGED <<world, token, kind, tags, images, seen, toPrepull, nodes, refresh, handled,
                   had, hadNext>>
PrepullEnd ==
    /\ prepull.pc = "work"
    /\ \A n \in Nodes : prepull.work[n] = [todo |-> {}, current |-> None]
    /\ prepull' = [prepull EXCEPT !.pc = "wait"]
    /\ UNCHANGED <<world, token, kind, known, refresh, handled, had, hadNext>>

-----------------------------------------------------------------------------
(* Requests                                                                 *)

\* image_for_tag_name, image_for_reference: the image if it is known, else the
\* registry is asked for the digest of a known tag (Docker only).
ImageFor(t) ==
    IF images[t] # None THEN images[t]
    ELSE IF kind = "docker" /\ t \in tags /\ CallOK THEN registry[t] ELSE None

\* menu_images: what is marked on every eligible node, and the recommended tag.
Eligible == {n \in Nodes : nodes[n] # None /\ nodes[n].eligible}
Menu == {t \in Listed(toPrepull) : t = Recommended \/ Eligible \subseteq seen[toPrepull[t]]}

-----------------------------------------------------------------------------
(* The registry and the nodes change                                        *)

\* A tag is pushed, moved or deleted.
Push(t, d) ==
    /\ Change /\ registry[t] # d
    /\ t = Recommended => d # None
    /\ registry' = [registry EXCEPT ![t] = d]
    /\ had' = [had EXCEPT ![t] = @ \cup {d}]
    /\ hadNext' = [hadNext EXCEPT ![t] = @ \cup {d}]
    /\ UNCHANGED <<cluster, token, kind, known, refresh, prepull, handled>>

\* A node leaves, comes back empty, changes its taints or loses an image.
NodeChanges(n) ==
    /\ n \in Unstable /\ Change
    /\ \/ cluster[n] # None /\ cluster' = [cluster EXCEPT ![n] = None]
       \/ /\ cluster[n] = None
          /\ cluster' = [cluster EXCEPT ![n] = [images |-> {}, eligible |-> TRUE]]
       \/ cluster[n] # None /\ cluster' = [cluster EXCEPT ![n].eligible = ~@]
       \/ /\ cluster[n] # None
          /\ \E d \in cluster[n].images : cluster' = [cluster EXCEPT ![n].images = @ \ {d}]
    /\ UNCHANGED <<registry, token, kind, known, refresh, prepull, handled, had, hadNext>>

Next ==
    \/ RefreshBegin \/ NodesListed \/ GarListed \/ DockerListed
    \/ DigestArrives \/ DigestsKnown \/ TokenExpires
    \/ PrepullBegin \/ PrepullEnd
    \/ \E n \in Nodes : PullBegin(n) \/ PullEnds(n) \/ NodeChanges(n)
    \/ \E t \in Tags, d \in Digests \cup {None} : Push(t, d)

\* Timers fire, awaits end because they have timeouts, tasks get their turn.
Fairness ==
    /\ WF_vars(RefreshBegin) /\ WF_vars(NodesListed)
    /\ WF_vars(GarListed) /\ WF_vars(DockerListed)
    /\ WF_vars(DigestArrives) /\ WF_vars(DigestsKnown)
    /\ WF_vars(PrepullBegin) /\ WF_vars(PrepullEnd)
    /\ \A n \in Nodes : WF_vars(PullBegin(n)) /\ WF_vars(PullEnds(n))

Spec == Init /\ [][Next]_vars /\ Fairness

-----------------------------------------------------------------------------
(* Properties                                                               *)

Images == [Tags -> Digests \cup {None}]
NodeData == [images : SUBSET Digests, eligible : BOOLEAN] \cup {None}

\* Every variable has its type; the images of a Docker source are those to
\* prepull (DockerImageSource.update_images returns what it stores); and the data
\* of a node are about images to prepull (_build_nodes, mark_prepulled).
TypeOK ==
    /\ registry \in Images /\ cluster \in [Nodes -> NodeData]
    /\ token \in {"none", "good", "expired"} /\ changes \in 0..MaxChanges
    /\ kind \in Kinds
    /\ tags \subseteq Tags /\ images \in Images /\ toPrepull \in Images
    /\ seen \in [Digests -> SUBSET Nodes] /\ nodes \in [Nodes -> NodeData]
    /\ refreshed \in BOOLEAN /\ handled \in BOOLEAN
    /\ refresh \in [pc : {"timer", "list", "tags", "digests"}, cluster : [Nodes -> NodeData],
                    tags : SUBSET Tags, digests : Images]
    /\ prepull \in [pc : {"wait", "work"},
                    work : [Nodes -> [todo : SUBSET Digests, current : Digests \cup {None}]]]
    /\ had \in [Tags -> SUBSET (Digests \cup {None})]
    /\ hadNext \in [Tags -> SUBSET (Digests \cup {None})]
    /\ kind = "docker" => images = toPrepull
    /\ \A n \in Nodes : nodes[n] # None => nodes[n].images \subseteq DigestsOf(toPrepull)

\* What the menu believes of a node is what the prepuller believes of it
\* (mark_prepulled updates the source's images and the node data of the
\* service, which a refresh may have replaced since the pull began): no image
\* is kept from the menu for want of a node to which nothing will be pulled.
MenuAgreesWithPrepuller ==
    \A n \in Nodes : nodes[n] # None =>
        \A d \in DigestsOf(toPrepull) : n \in seen[d] <=> d \in nodes[n].images

\* No refresh is lost on the prepuller (prepuller_wait): while it waits, either
\* it has acted on the data of the last refresh or the event is set.
RefreshNotMissed == prepull.pc = "wait" => handled \/ refreshed

\* A tag is resolved to a digest it has had since the refresh whose data are in
\* use began (image_for_reference, image_for_tag_name).
LookupIsFresh == \A t \in Tags : ImageFor(t) \in had[t] \cup {None}

\* What the service, the source and the prepuller know fits together, and a
\* lookup by tag is no staler than the data it comes from.
Consistent == TypeOK /\ MenuAgreesWithPrepuller /\ LookupIsFresh


\* When the registry and the nodes stop changing and the registry's token stays
\* good, every node ends up with every image to prepull, though pulls that fail
\* are marked as done, and refreshes that fail leave new tags with old images.
TokenStaysGood == [](token # "expired")
AllPrepulled ==
    TokenStaysGood => <>[](\A n \in Nodes : cluster[n] # None =>
            DigestsOf(Only(registry, Wanted(Listed(registry)))) \subseteq cluster[n].images)

\* And the menu ends up with them all.
MenuCompletes == TokenStaysGood => <>[](Menu = Wanted(Listed(registry)))

\* Prepulling and the menu both settle once the world does.
Settles == AllPrepulled /\ MenuCompletes


\* After a refresh that failed a later one succeeds: waiting for the next one
\* "will provide some time for whatever the problem was to be resolved"
\* (BackgroundTaskManager._loop).  Not so of a registry's token that expired.
RefreshRecovers == []<>(tags = Listed(registry) \/ kind = "gar")

\* An image is marked as prepulled where a prepull pod succeeded
\* (ImageSource.mark_prepulled).  Not so: it is marked as well if it failed.
MarkedWherePulled ==
    [][\A n \in Nodes : PullEnds(n) /\ n \in UNION {seen'[d] \ seen[d] : d \in Digests} =>
          prepull.work[n].current \in cluster'[n].images]_vars
=============================================================================
