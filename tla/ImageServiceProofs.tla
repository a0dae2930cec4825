------------------------- MODULE ImageServiceProofs -------------------------
(***************************************************************************)
(* Theorems about ImageService, for any tags, digests and nodes, any number *)
(* of changes of registry and nodes, and any number of failures.           *)
(*                                                                         *)
(* What the menu and the prepuller believe of a node agrees although one is *)
(* kept in the source and the other in the service, because both are made  *)
(* from one listing with no await in between, and marked together.         *)
(***************************************************************************)
EXTENDS ImageService, TLAPS

-----------------------------------------------------------------------------
(* The inductive invariant *)

Refreshes == [pc : {"timer", "list", "tags", "digests"}, cluster : [Nodes -> NodeData],
              tags : SUBSET Tags, digests : Images]
Works == [Nodes -> [todo : SUBSET Digests, current : Digests \cup {None}]]
Histories == [Tags -> SUBSET (Digests \cup {None})]

WorldOK ==
    /\ registry \in Images /\ cluster \in [Nodes -> NodeData]
    /\ token \in {"none", "good", "expired"} /\ changes \in 0..MaxChanges
    /\ kind \in Kinds

KnownOK ==
    /\ tags \subseteq Tags /\ images \in Images /\ toPrepull \in Images
    /\ seen \in [Digests -> SUBSET Nodes] /\ nodes \in [Nodes -> NodeData]
    /\ kind = "docker" => images = toPrepull
    /\ \A n \in Nodes : nodes[n] # None => nodes[n].images \subseteq DigestsOf(toPrepull)

TasksOK ==
    /\ refresh \in Refreshes
    /\ prepull \in [pc : {"wait", "work"}, work : Works]
    /\ refresh.pc = "digests" => kind = "docker"

FlagsOK == refreshed \in BOOLEAN /\ handled \in BOOLEAN

\* What a refresh has learnt and what is in use, each tag had at the time: since
\* this refresh began, or since the last one did.
HadInv ==
    /\ had \in Histories /\ hadNext \in Histories
    /\ \A t \in Tags : /\ registry[t] \in had[t] /\ registry[t] \in hadNext[t]
                       /\ images[t] \in had[t] \cup {None}
                       /\ refresh.pc = "digests" => refresh.digests[t] \in hadNext[t] \cup {None}

\* Refreshed data are marked as such until the prepuller takes them.
EventInv == handled \/ refreshed

IInv == WorldOK /\ KnownOK /\ TasksOK /\ FlagsOK /\ HadInv /\ MenuAgreesWithPrepuller /\ EventInv

-----------------------------------------------------------------------------
LEMMA NoImagesOK == NoImages \in Images /\ \A ts : ts = {} => Only(images, ts) = NoImages
BY DEF NoImages, Images, Only

LEMMA OnlyOK ==
    ASSUME NEW imgs \in Images, NEW ts
    PROVE  Only(imgs, ts) \in Images /\ DigestsOf(Only(imgs, ts)) \subseteq DigestsOf(imgs)
<1>1. Only(imgs, ts) \in Images
  BY DEF Only, Images
<1>2. DigestsOf(Only(imgs, ts)) \subseteq DigestsOf(imgs)
  BY DEF Only, DigestsOf
<1>. QED BY <1>1, <1>2

LEMMA IdleOK == Idle \in Refreshes /\ Idle.pc = "timer" /\ [Idle EXCEPT !.pc = "list"] \in Refreshes
<1>1. NoImages \in Images /\ [n \in Nodes |-> None] \in [Nodes -> NodeData]
  BY NoImagesOK DEF NodeData
<1>. QED BY <1>1 DEF Idle, Refreshes

LEMMA InitInv == ImageAssumption /\ Init => IInv
<1>. SUFFICES ASSUME ImageAssumption, Init PROVE IInv
  OBVIOUS
<1>1. WorldOK
  <2>1. registry \in Images
    <3>1. PICK d \in Digests : registry = [NoImages EXCEPT ![Recommended] = d]
      BY DEF Init
    <3>. QED BY <3>1 DEF NoImages, Images
  <2>2. cluster \in [Nodes -> NodeData]
    BY DEF Init, NodeData
  <2>3. changes \in 0..MaxChanges
    BY DEF Init, ImageAssumption
  <2>. QED BY <2>1, <2>2, <2>3 DEF Init, WorldOK
<1>2. KnownOK
  BY NoImagesOK DEF Init, KnownOK, NodeData
<1>3. TasksOK
  <2>1. NoWork \in Works
    BY DEF NoWork, Works
  <2>2. refresh.pc = "list"
    BY DEF Init, Idle
  <2>. QED BY <2>1, <2>2, IdleOK DEF Init, TasksOK
<1>4. FlagsOK /\ EventInv
  BY DEF Init, FlagsOK, EventInv
<1>5. HadInv
  <2>1. \A t \in Tags : registry[t] \in Digests \cup {None}
    BY <1>1 DEF WorldOK, Images
  <2>2. refresh.pc # "digests"
    BY DEF Init, Idle
  <2>3. had \in Histories /\ hadNext \in Histories
    BY <2>1 DEF Init, Histories
  <2>4. \A t \in Tags : registry[t] \in had[t] /\ registry[t] \in hadNext[t]
    BY DEF Init
  <2>5. \A t \in Tags : images[t] = None
    BY DEF Init, NoImages
  <2>. QED BY <2>2, <2>3, <2>4, <2>5 DEF HadInv
<1>6. MenuAgreesWithPrepuller
  BY DEF Init, MenuAgreesWithPrepuller
<1>. QED BY <1>1, <1>2, <1>3, <1>4, <1>5, <1>6 DEF IInv

-----------------------------------------------------------------------------
(* Refreshes *)

\* A refresh that fails leaves what is known alone, whatever else changes but
\* the registry.
LEMMA FailStep ==
    ASSUME IInv, RefreshFails, WorldOK', UNCHANGED <<registry, kind, prepull>>
    PROVE  IInv'
<1>1. TasksOK'
  BY IdleOK DEF RefreshFails, IInv, TasksOK
<1>2. KnownOK'
  BY DEF RefreshFails, known, IInv, KnownOK
<1>3. FlagsOK' /\ EventInv'
  BY DEF RefreshFails, known, IInv, FlagsOK, EventInv
<1>4. HadInv'
  <2>1. refresh'.pc # "digests"
    BY IdleOK DEF RefreshFails
  <2>. QED BY <2>1 DEF RefreshFails, known, IInv, HadInv
<1>5. MenuAgreesWithPrepuller'
  BY DEF RefreshFails, known, IInv, MenuAgreesWithPrepuller
<1>. QED BY <1>1, <1>2, <1>3, <1>4, <1>5 DEF IInv

LEMMA ChangeOK == ImageAssumption /\ WorldOK /\ Change => changes' \in 0..MaxChanges
BY DEF ImageAssumption, WorldOK, Change

\* What a refresh stores fits together: marks and node data are made from one
\* listing, and every image to prepull is one of the images.
LEMMA StoreStep ==
    ASSUME ImageAssumption, IInv, NEW all \in Images, NEW wanted \in Images, Store(all, wanted),
           DigestsOf(wanted) \subseteq DigestsOf(all),
           kind = "docker" => all = wanted,
           \A t \in Tags : all[t] \in hadNext[t] \cup {None},
           tags' \subseteq Tags, WorldOK', UNCHANGED <<registry, kind, prepull>>
    PROVE  IInv'
<1>1. TasksOK'
  BY IdleOK DEF Store, IInv, TasksOK
<1>2. DigestsOf(wanted) \subseteq Digests
  BY DEF DigestsOf, Images
<1>3. refresh.cluster \in [Nodes -> NodeData]
  BY DEF IInv, TasksOK, Refreshes
<1>4. KnownOK'
  <2>1. seen' \in [Digests -> SUBSET Nodes]
    BY DEF Store, Marks
  <2>2. ASSUME NEW n \in Nodes, refresh.cluster[n] # None
        PROVE  /\ [refresh.cluster[n] EXCEPT !.images = @ \cap DigestsOf(wanted)] \in NodeData
               /\ [refresh.cluster[n] EXCEPT !.images = @ \cap DigestsOf(wanted)].images
                    \subseteq DigestsOf(wanted)
    BY <1>3, <2>2 DEF NodeData
  <2>3. nodes' \in [Nodes -> NodeData]
    BY <2>2 DEF Store, BuildNodes, NodeData
  <2>4. \A n \in Nodes : nodes'[n] # None => nodes'[n].images \subseteq DigestsOf(wanted)
    BY <2>2 DEF Store, BuildNodes
  <2>. QED BY <2>1, <2>3, <2>4 DEF Store, KnownOK
<1>5. FlagsOK' /\ EventInv'
  BY DEF Store, FlagsOK, EventInv
<1>6. HadInv'
  <2>1. refresh'.pc # "digests"
    BY IdleOK DEF Store
  <2>. QED BY <2>1 DEF Store, IInv, HadInv
<1>7. MenuAgreesWithPrepuller'
  <2>. SUFFICES ASSUME NEW n \in Nodes, nodes'[n] # None, NEW d \in DigestsOf(wanted)
                PROVE  n \in seen'[d] <=> d \in nodes'[n].images
    BY DEF Store, MenuAgreesWithPrepuller
  <2>1. refresh.cluster[n] # None /\ d \in Digests /\ d \in DigestsOf(all)
    BY <1>2 DEF Store, BuildNodes
  <2>2. n \in seen'[d] <=> d \in refresh.cluster[n].images
    BY <2>1 DEF Store, Marks
  <2>3. nodes'[n] = [refresh.cluster[n] EXCEPT !.images = @ \cap DigestsOf(wanted)]
    BY <2>1 DEF Store, BuildNodes
  <2>4. d \in nodes'[n].images <=> d \in refresh.cluster[n].images
    BY <1>3, <2>1, <2>3 DEF NodeData
  <2>. QED BY <2>2, <2>4
<1>. QED BY <1>1, <1>4, <1>5, <1>6, <1>7 DEF IInv

LEMMA RefreshStep ==
    ASSUME ImageAssumption, IInv, RefreshBegin \/ NodesListed PROVE IInv'
<1>1. CASE RefreshBegin
  <2>1. WorldOK' /\ KnownOK'
    BY <1>1 DEF RefreshBegin, world, known, IInv, WorldOK, KnownOK
  <2>2. TasksOK' /\ refresh'.pc = "list"
    <3>1. refresh' = [Idle EXCEPT !.pc = "list"] /\ UNCHANGED <<kind, prepull>>
      BY <1>1 DEF RefreshBegin
    <3>2. refresh'.pc = "list"
      BY <3>1 DEF Idle
    <3>. QED BY <3>1, <3>2, IdleOK DEF IInv, TasksOK
  <2>3. FlagsOK' /\ EventInv'
    BY <1>1 DEF RefreshBegin, known, IInv, FlagsOK, EventInv
  <2>4. HadInv'
    <3>1. \A t \in Tags : registry[t] \in Digests \cup {None}
      BY DEF IInv, WorldOK, Images
    <3>2. hadNext' = [t \in Tags |-> {registry[t]}] /\ UNCHANGED <<registry, images, had>>
      BY <1>1 DEF RefreshBegin, world, known
    <3>3. hadNext' \in Histories /\ \A t \in Tags : registry[t] \in hadNext'[t]
      BY <3>1, <3>2 DEF Histories
    <3>. QED BY <2>2, <3>2, <3>3 DEF IInv, HadInv
  <2>5. MenuAgreesWithPrepuller'
    BY <1>1 DEF RefreshBegin, known, IInv, MenuAgreesWithPrepuller
  <2>. QED BY <2>1, <2>2, <2>3, <2>4, <2>5 DEF IInv
<1>2. CASE NodesListed
  <2>1. CASE refresh' = [refresh EXCEPT !.pc = "tags", !.cluster = cluster]
             /\ UNCHANGED <<world, known, handled, had, hadNext>>
    <3>1. TasksOK' /\ refresh'.pc = "tags"
      BY <1>2, <2>1 DEF NodesListed, IInv, WorldOK, TasksOK, Refreshes
    <3>2. WorldOK' /\ KnownOK'
      BY <1>2, <2>1 DEF NodesListed, world, known, IInv, WorldOK, KnownOK
    <3>3. FlagsOK' /\ EventInv'
      BY <2>1 DEF known, IInv, FlagsOK, EventInv
    <3>4. HadInv'
      BY <2>1, <3>1 DEF world, known, IInv, HadInv
    <3>5. MenuAgreesWithPrepuller'
      BY <2>1 DEF known, IInv, MenuAgreesWithPrepuller
    <3>. QED BY <3>1, <3>2, <3>3, <3>4, <3>5 DEF IInv
  <2>2. CASE Change /\ RefreshFails /\ UNCHANGED <<registry, cluster>>
    <3>1. UNCHANGED <<token, kind, prepull>>
      BY <1>2 DEF NodesListed
    <3>2. WorldOK'
      BY <2>2, <3>1, ChangeOK DEF IInv, WorldOK
    <3>. QED BY <2>2, <3>1, <3>2, FailStep
  <2>. QED BY <1>2, <2>1, <2>2 DEF NodesListed
<1>. QED BY <1>1, <1>2

\* A world that only the number of changes or the token changes in.
LEMMA WorldStep ==
    ASSUME ImageAssumption, IInv, Change \/ UNCHANGED changes,
           token' \in {token, "good"}, UNCHANGED <<registry, cluster, kind>>
    PROVE  WorldOK'
<1>1. changes' \in 0..MaxChanges
  BY ChangeOK DEF IInv, WorldOK
<1>. QED BY <1>1 DEF IInv, WorldOK

LEMMA GarStep == ASSUME ImageAssumption, IInv, GarListed PROVE IInv'
<1>1. UNCHANGED <<registry, cluster, token, kind, prepull>> /\ (Change \/ UNCHANGED changes)
  BY DEF GarListed, world
<1>2. WorldOK'
  BY <1>1, WorldStep
<1>3. CASE Change /\ RefreshFails
  BY <1>1, <1>2, <1>3, FailStep
<1>4. CASE Store(registry, Only(registry, Wanted(Listed(registry)))) /\ UNCHANGED tags
  <2> DEFINE w == Only(registry, Wanted(Listed(registry)))
  <2>1. registry \in Images /\ tags' \subseteq Tags
    BY <1>4 DEF IInv, WorldOK, KnownOK
  <2>2. w \in Images /\ DigestsOf(w) \subseteq DigestsOf(registry)
    BY <2>1, OnlyOK
  <2>3. kind # "docker"
    BY DEF GarListed
  <2>4. \A t \in Tags : registry[t] \in hadNext[t] \cup {None}
    BY DEF IInv, HadInv
  <2> HIDE DEF w
  <2>5. Store(registry, w)
    BY <1>4 DEF w
  <2>. QED BY <1>1, <1>2, <2>1, <2>2, <2>3, <2>4, <2>5, StoreStep
<1>. QED BY <1>3, <1>4 DEF GarListed

LEMMA DockerStep == ASSUME ImageAssumption, IInv, DockerListed PROVE IInv'
<1>1. /\ UNCHANGED <<registry, cluster, kind, prepull>> /\ (Change \/ UNCHANGED changes)
      /\ token' \in {token, "good"} /\ kind = "docker"
  BY DEF DockerListed, world, AfterCall
<1>2. WorldOK'
  BY <1>1, WorldStep
<1>3. CASE RefreshFails
  BY <1>1, <1>2, <1>3, FailStep
<1>4. CASE /\ tags' = Listed(registry)
           /\ refresh' = [refresh EXCEPT !.pc = "digests", !.tags = Asked,
                 !.digests = Only(images, Wanted(Listed(registry)) \ Asked)]
           /\ UNCHANGED <<registry, images, seen, toPrepull, nodes, refreshed, handled, had, hadNext>>
  <2>1. Only(images, Wanted(Listed(registry)) \ Asked) = NoImages
    BY NoImagesOK DEF Asked
  <2>2. Asked \subseteq Tags
    BY DEF Asked, Wanted, Listed
  <2>3. TasksOK' /\ refresh'.digests = NoImages
    BY <1>1, <1>4, <2>1, <2>2, NoImagesOK DEF IInv, TasksOK, Refreshes
  <2>4. KnownOK'
    BY <1>1, <1>4 DEF Listed, IInv, KnownOK
  <2>5. FlagsOK' /\ EventInv'
    BY <1>4 DEF IInv, FlagsOK, EventInv
  <2>6. HadInv'
    BY <1>4, <2>3 DEF NoImages, IInv, HadInv
  <2>7. MenuAgreesWithPrepuller'
    BY <1>4 DEF IInv, MenuAgreesWithPrepuller
  <2>. QED BY <1>2, <2>3, <2>4, <2>5, <2>6, <2>7 DEF IInv
<1>. QED BY <1>3, <1>4 DEF DockerListed, world

LEMMA DigestStep == ASSUME ImageAssumption, IInv, DigestArrives PROVE IInv'
<1>1. /\ UNCHANGED <<registry, cluster, token, kind, prepull>> /\ (Change \/ UNCHANGED changes)
      /\ refresh.pc = "digests"
  BY DEF DigestArrives, world
<1>2. WorldOK'
  BY <1>1, WorldStep
<1>3. CASE RefreshFails
  BY <1>1, <1>2, <1>3, FailStep
<1>4. ASSUME NEW t \in refresh.tags,
             refresh' = [refresh EXCEPT !.tags = @ \ {t}, !.digests[t] = registry[t]],
             UNCHANGED <<world, known, handled, had, hadNext>>
      PROVE  IInv'
  <2>0. t \in Tags /\ registry[t] \in Digests \cup {None} /\ refresh.digests \in Images
    BY DEF IInv, WorldOK, TasksOK, Refreshes, Images
  <2>1. /\ refresh'.pc = refresh.pc /\ refresh' \in Refreshes
        /\ refresh'.digests = [refresh.digests EXCEPT ![t] = registry[t]]
    BY <1>4, <2>0 DEF IInv, TasksOK, Refreshes, Images
  <2>2. TasksOK'
    BY <1>1, <2>1 DEF IInv, TasksOK
  <2>3. KnownOK'
    BY <1>1, <1>4 DEF known, IInv, KnownOK
  <2>4. FlagsOK' /\ EventInv'
    BY <1>4 DEF known, IInv, FlagsOK, EventInv
  <2>5. HadInv'
    <3>1. \A s \in Tags : refresh'.digests[s] \in hadNext[s] \cup {None}
      BY <1>1, <2>0, <2>1 DEF IInv, HadInv, Images
    <3>. QED BY <1>4, <3>1 DEF world, known, IInv, HadInv
  <2>6. MenuAgreesWithPrepuller'
    BY <1>4 DEF known, IInv, MenuAgreesWithPrepuller
  <2>. QED BY <1>2, <2>2, <2>3, <2>4, <2>5, <2>6 DEF IInv
<1>. QED BY <1>3, <1>4 DEF DigestArrives

LEMMA DigestsStep == ASSUME ImageAssumption, IInv, DigestsKnown PROVE IInv'
<1>1. UNCHANGED <<registry, cluster, changes, token, kind, prepull, tags>>
  BY DEF DigestsKnown, world
<1>2. WorldOK' /\ tags' \subseteq Tags
  BY <1>1 DEF IInv, WorldOK, KnownOK
<1>3. refresh.digests \in Images
  BY DEF IInv, TasksOK, Refreshes
<1>4. \A t \in Tags : refresh.digests[t] \in hadNext[t] \cup {None}
  BY DEF IInv, HadInv, DigestsKnown
<1>5. Store(refresh.digests, refresh.digests)
  BY DEF DigestsKnown
<1>. QED BY <1>1, <1>2, <1>3, <1>4, <1>5, StoreStep

-----------------------------------------------------------------------------
(* The prepuller *)

LEMMA PrepullTaskStep ==
    ASSUME IInv, PrepullBegin \/ PrepullEnd \/ (\E n \in Nodes : PullBegin(n)) PROVE IInv'
<1>1. UNCHANGED <<world, token, kind, tags, images, seen, toPrepull, nodes, refresh, had, hadNext>>
  BY DEF PrepullBegin, PrepullEnd, PullBegin, known
<1>2. DigestsOf(toPrepull) \subseteq Digests
  BY DEF IInv, KnownOK, DigestsOf, Images
<1>3. TasksOK'
  <2>1. CASE PrepullBegin
    <3>1. \A n \in Nodes : Missing(n) \subseteq Digests
      BY <1>2 DEF Missing
    <3>. QED BY <1>1, <2>1, <3>1 DEF PrepullBegin, IInv, TasksOK, Works
  <2>2. CASE PrepullEnd
    BY <1>1, <2>2 DEF PrepullEnd, IInv, TasksOK, Works
  <2>3. ASSUME NEW n \in Nodes, PullBegin(n) PROVE TasksOK'
    <3>1. PICK d \in prepull.work[n].todo :
             prepull' = [prepull EXCEPT !.work[n] =
                           [todo |-> prepull.work[n].todo \ {d}, current |-> d]]
      BY <2>3 DEF PullBegin
    <3>2. prepull.work[n].todo \subseteq Digests
      BY DEF IInv, TasksOK, Works
    <3>. QED BY <1>1, <3>1, <3>2 DEF IInv, TasksOK, Works
  <2>. QED BY <2>1, <2>2, <2>3
<1>4. WorldOK' /\ KnownOK'
  BY <1>1 DEF world, IInv, WorldOK, KnownOK
<1>5. HadInv'
  BY <1>1 DEF world, IInv, HadInv
<1>6. FlagsOK' /\ EventInv'
  BY DEF PrepullBegin, PrepullEnd, PullBegin, known, IInv, FlagsOK, EventInv
<1>7. MenuAgreesWithPrepuller'
  BY <1>1 DEF IInv, MenuAgreesWithPrepuller
<1>. QED BY <1>3, <1>4, <1>5, <1>6, <1>7 DEF IInv

\* An image is marked in both places or in none.
LEMMA MarkStep ==
    ASSUME IInv, NEW n \in Nodes, NEW d \in Digests, Mark(n, d),
           UNCHANGED <<kind, tags, images, toPrepull>>
    PROVE  KnownOK' /\ MenuAgreesWithPrepuller'
<1>1. CASE UNCHANGED <<seen, nodes>>
  BY <1>1 DEF IInv, KnownOK, MenuAgreesWithPrepuller
<1>2. CASE /\ d \in DigestsOf(toPrepull)
           /\ seen' = [seen EXCEPT ![d] = @ \cup {n}]
           /\ nodes' = IF nodes[n] = None THEN nodes
                       ELSE [nodes EXCEPT ![n].images = @ \cup {d}]
  <2>1. seen' \in [Digests -> SUBSET Nodes]
    BY <1>2 DEF IInv, KnownOK
  <2>2. CASE nodes[n] = None
    <3>1. nodes' = nodes
      BY <1>2, <2>2
    <3>. QED BY <1>2, <2>1, <2>2, <3>1 DEF IInv, KnownOK, MenuAgreesWithPrepuller
  <2>3. CASE nodes[n] # None
    <3>1. nodes[n] \in [images : SUBSET Digests, eligible : BOOLEAN]
      BY <2>3 DEF IInv, KnownOK, NodeData
    <3>2. /\ [nodes[n] EXCEPT !.images = @ \cup {d}] \in NodeData
          /\ [nodes[n] EXCEPT !.images = @ \cup {d}].images = nodes[n].images \cup {d}
      BY <3>1 DEF NodeData
    <3>3. nodes' = [nodes EXCEPT ![n] = [nodes[n] EXCEPT !.images = @ \cup {d}]]
      BY <1>2, <2>3
    <3>4. /\ nodes' \in [Nodes -> NodeData]
          /\ nodes'[n].images = nodes[n].images \cup {d}
          /\ \A m \in Nodes \ {n} : nodes'[m] = nodes[m]
      BY <3>2, <3>3 DEF IInv, KnownOK
    <3>5. KnownOK'
      BY <1>2, <2>1, <2>3, <3>4 DEF IInv, KnownOK
    <3>6. MenuAgreesWithPrepuller'
      <4>. SUFFICES ASSUME NEW m \in Nodes, nodes'[m] # None, NEW e \in DigestsOf(toPrepull)
                    PROVE  m \in seen'[e] <=> e \in nodes'[m].images
        BY DEF MenuAgreesWithPrepuller
      <4>1. e \in Digests
        BY DEF IInv, KnownOK, DigestsOf, Images
      <4>2. m \in seen'[e] <=> m \in seen[e] \/ (e = d /\ m = n)
        BY <1>2, <4>1 DEF IInv, KnownOK
      <4>3. nodes[m] # None /\ (e \in nodes'[m].images <=> e \in nodes[m].images \/ (e = d /\ m = n))
        BY <2>3, <3>4
      <4>4. m \in seen[e] <=> e \in nodes[m].images
        BY <4>3 DEF IInv, MenuAgreesWithPrepuller
      <4>. QED BY <4>2, <4>3, <4>4
    <3>. QED BY <3>5, <3>6
  <2>. QED BY <2>2, <2>3
<1>. QED BY <1>1, <1>2 DEF Mark

LEMMA PullEndsStep == ASSUME ImageAssumption, IInv, NEW n \in Nodes, PullEnds(n) PROVE IInv'
<1> DEFINE d == prepull.work[n].current
<1>0. d # None /\ d \in Digests
  BY DEF PullEnds, IInv, TasksOK, Works
<1>1. /\ UNCHANGED <<registry, token, kind, tags, images, toPrepull, refreshed, refresh,
                     handled, had, hadNext>>
      /\ prepull' = [prepull EXCEPT !.work[n].current = None]
      /\ Mark(n, d)
  BY DEF PullEnds
<1>2. WorldOK'
  <2>1. changes' \in 0..MaxChanges
    BY ChangeOK DEF PullEnds, IInv, WorldOK
  <2>2. cluster' \in [Nodes -> NodeData]
    <3>1. CASE UNCHANGED cluster
      BY <3>1 DEF IInv, WorldOK
    <3>2. CASE cluster[n] # None /\ cluster' = [cluster EXCEPT ![n].images = @ \cup {d}]
      <4>1. cluster[n] \in [images : SUBSET Digests, eligible : BOOLEAN]
        BY <3>2 DEF IInv, WorldOK, NodeData
      <4>2. [cluster[n] EXCEPT !.images = @ \cup {d}] \in NodeData
        BY <1>0, <4>1 DEF NodeData
      <4>. QED BY <3>2, <4>2 DEF IInv, WorldOK
    <3>. QED BY <3>1, <3>2 DEF PullEnds
  <2>. QED BY <1>1, <2>1, <2>2 DEF IInv, WorldOK
<1>3. KnownOK' /\ MenuAgreesWithPrepuller'
  BY <1>0, <1>1, MarkStep
<1>4. TasksOK'
  BY <1>1 DEF IInv, TasksOK, Works
<1>5. FlagsOK' /\ EventInv' /\ HadInv'
  BY <1>1 DEF IInv, FlagsOK, EventInv, HadInv
<1>. QED BY <1>2, <1>3, <1>4, <1>5 DEF IInv

-----------------------------------------------------------------------------
(* The registry and the nodes *)

LEMMA PushStep ==
    ASSUME ImageAssumption, IInv, NEW t \in Tags, NEW d \in Digests \cup {None}, Push(t, d)
    PROVE  IInv'
<1>1. /\ registry' = [registry EXCEPT ![t] = d]
      /\ had' = [had EXCEPT ![t] = @ \cup {d}]
      /\ hadNext' = [hadNext EXCEPT ![t] = @ \cup {d}]
      /\ UNCHANGED <<cluster, token, kind, known, refresh, prepull, handled>> /\ Change
  BY DEF Push
<1>2. WorldOK'
  BY <1>1, ChangeOK DEF IInv, WorldOK, Images
<1>3. KnownOK' /\ TasksOK'
  BY <1>1 DEF known, IInv, KnownOK, TasksOK
<1>4. FlagsOK' /\ EventInv'
  BY <1>1 DEF known, IInv, FlagsOK, EventInv
<1>5. HadInv'
  <2>1. had' \in Histories /\ hadNext' \in Histories
    BY <1>1 DEF IInv, HadInv, Histories
  <2>2. ASSUME NEW s \in Tags
        PROVE  /\ had[s] \subseteq had'[s] /\ hadNext[s] \subseteq hadNext'[s]
               /\ registry'[s] \in had'[s] /\ registry'[s] \in hadNext'[s]
    BY <1>1 DEF IInv, HadInv, Histories, WorldOK, Images
  <2>. QED BY <1>1, <2>1, <2>2 DEF known, IInv, HadInv
<1>6. MenuAgreesWithPrepuller'
  BY <1>1 DEF known, IInv, MenuAgreesWithPrepuller
<1>. QED BY <1>2, <1>3, <1>4, <1>5, <1>6 DEF IInv

LEMMA NodeStep ==
    ASSUME ImageAssumption, IInv, NEW n \in Nodes, NodeChanges(n) PROVE IInv'
<1>1. UNCHANGED <<registry, token, kind, known, refresh, prepull, handled, had, hadNext>> /\ Change
  BY DEF NodeChanges
<1>2. cluster' \in [Nodes -> NodeData]
  <2>0. cluster \in [Nodes -> NodeData]
    BY DEF IInv, WorldOK
  <2>1. ASSUME NEW x \in NodeData, cluster' = [cluster EXCEPT ![n] = x] PROVE cluster' \in [Nodes -> NodeData]
    BY <2>0, <2>1
  <2>2. CASE cluster' = [cluster EXCEPT ![n] = None]
    BY <2>1, <2>2 DEF NodeData
  <2>3. CASE cluster' = [cluster EXCEPT ![n] = [images |-> {}, eligible |-> TRUE]]
    BY <2>1, <2>3 DEF NodeData
  <2>4. ASSUME cluster[n] # None
        PROVE  /\ [cluster[n] EXCEPT !.eligible = ~@] \in NodeData
               /\ \A d : [cluster[n] EXCEPT !.images = @ \ {d}] \in NodeData
    <3>1. cluster[n] \in [images : SUBSET Digests, eligible : BOOLEAN]
      BY <2>0, <2>4 DEF NodeData
    <3>2. [cluster[n] EXCEPT !.eligible = ~@] \in NodeData
      BY <3>1 DEF NodeData
    <3>3. \A d : [cluster[n] EXCEPT !.images = @ \ {d}] \in NodeData
      BY <3>1 DEF NodeData
    <3>. QED BY <3>2, <3>3
  <2>5. CASE cluster[n] # None /\ cluster' = [cluster EXCEPT ![n].eligible = ~@]
    <3>1. cluster' = [cluster EXCEPT ![n] = [cluster[n] EXCEPT !.eligible = ~@]]
      BY <2>5
    <3>. QED BY <2>1, <2>4, <2>5, <3>1
  <2>6. ASSUME NEW d, cluster[n] # None, cluster' = [cluster EXCEPT ![n].images = @ \ {d}]
        PROVE  cluster' \in [Nodes -> NodeData]
    <3>1. cluster' = [cluster EXCEPT ![n] = [cluster[n] EXCEPT !.images = @ \ {d}]]
      BY <2>6
    <3>. QED BY <2>1, <2>4, <2>6, <3>1
  <2>. QED BY <2>2, <2>3, <2>5, <2>6 DEF NodeChanges
<1>3. WorldOK'
  BY <1>1, <1>2, ChangeOK DEF IInv, WorldOK
<1>4. KnownOK' /\ TasksOK'
  BY <1>1 DEF known, IInv, KnownOK, TasksOK
<1>5. FlagsOK' /\ EventInv' /\ HadInv'
  BY <1>1 DEF known, IInv, FlagsOK, EventInv, HadInv
<1>6. MenuAgreesWithPrepuller'
  BY <1>1 DEF known, IInv, MenuAgreesWithPrepuller
<1>. QED BY <1>3, <1>4, <1>5, <1>6 DEF IInv

LEMMA ExpiresStep == ASSUME ImageAssumption, IInv, TokenExpires \/ UNCHANGED vars PROVE IInv'
<1>1. /\ UNCHANGED <<registry, cluster, kind, known, refresh, prepull, handled, had, hadNext>>
      /\ Change \/ UNCHANGED changes
      /\ token' \in {token, "expired"}
  BY DEF TokenExpires, vars, world
<1>2. changes' \in 0..MaxChanges
  BY <1>1, ChangeOK DEF IInv, WorldOK
<1>3. WorldOK' /\ KnownOK' /\ TasksOK'
  BY <1>1, <1>2 DEF known, IInv, WorldOK, KnownOK, TasksOK
<1>4. FlagsOK' /\ EventInv' /\ HadInv'
  BY <1>1 DEF known, IInv, FlagsOK, EventInv, HadInv
<1>5. MenuAgreesWithPrepuller'
  BY <1>1 DEF known, IInv, MenuAgreesWithPrepuller
<1>. QED BY <1>3, <1>4, <1>5 DEF IInv

-----------------------------------------------------------------------------
LEMMA StepInv == ImageAssumption /\ IInv /\ [Next]_vars => IInv'
<1>. SUFFICES ASSUME ImageAssumption, IInv, [Next]_vars PROVE IInv'
  OBVIOUS
<1>1. CASE \/ RefreshBegin \/ NodesListed \/ GarListed \/ DockerListed
           \/ DigestArrives \/ DigestsKnown
  BY <1>1, RefreshStep, GarStep, DockerStep, DigestStep, DigestsStep
<1>2. CASE PrepullBegin \/ PrepullEnd \/ (\E n \in Nodes : PullBegin(n))
  BY <1>2, PrepullTaskStep
<1>3. CASE \E n \in Nodes : PullEnds(n) \/ NodeChanges(n)
  BY <1>3, PullEndsStep, NodeStep
<1>4. CASE \E t \in Tags, d \in Digests \cup {None} : Push(t, d)
  BY <1>4, PushStep
<1>5. CASE TokenExpires \/ UNCHANGED vars
  BY <1>5, ExpiresStep
<1>. QED BY <1>1, <1>2, <1>3, <1>4, <1>5 DEF Next

\* What every property of the image service rests on, in every state.
THEOREM Invariant == Spec => []IInv
<1>1. Init => IInv
  BY InitInv, ImageAssumption
<1>2. IInv /\ [Next]_vars => IInv'
  BY StepInv, ImageAssumption
<1>. QED BY <1>1, <1>2, PTL DEF Spec

\* Whatever refreshes, pulls, changes and failures interleave: the menu and the
\* prepuller believe the same of every node (mark_prepulled, _build_nodes), a
\* lookup finds a digest the tag has had since the data in use were asked for
\* (image_for_reference), and every variable has its type.
THEOREM ServiceConsistent == Spec => []Consistent
<1>1. ASSUME IInv PROVE LookupIsFresh
  <2>. SUFFICES ASSUME NEW t \in Tags PROVE ImageFor(t) \in had[t] \cup {None}
    BY DEF LookupIsFresh
  <2>1. images[t] \in had[t] \cup {None} /\ registry[t] \in had[t]
    BY <1>1 DEF IInv, HadInv
  <2>. QED BY <2>1 DEF ImageFor
<1>2. ASSUME IInv PROVE TypeOK
  BY <1>2 DEF IInv, WorldOK, KnownOK, TasksOK, FlagsOK, HadInv, Refreshes, Works, Histories, TypeOK
<1>3. IInv => Consistent
  BY <1>1, <1>2 DEF IInv, Consistent
<1>. QED BY <1>3, Invariant, PTL

\* No refresh is lost on the prepuller (prepuller_wait): while it waits it has
\* acted on the data of the last refresh, or the event is set.
THEOREM NoRefreshMissed == Spec => []RefreshNotMissed
<1>1. IInv => RefreshNotMissed
  BY DEF IInv, EventInv, RefreshNotMissed
<1>. QED BY <1>1, Invariant, PTL
=============================================================================
