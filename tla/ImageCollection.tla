-------------------------- MODULE ImageCollection --------------------------
(***************************************************************************)
(* RSPImageCollection (models/images/_image.py): the images of a           *)
(* repository or of a node, indexed by digest and by tag, with aliases     *)
(* resolved to the images they stand for.  An image is a Python object     *)
(* that several collections share; here it is an index into `images'.      *)
(*                                                                         *)
(* Around it, what its users do with one collection: the image source      *)
(* lists the repository, marks the images that nodes have and takes the    *)
(* subset to prepull; the node data of the image service adds images.      *)
(***************************************************************************)
EXTENDS ImageTag

CONSTANTS
    Tags,       \* the tags in use, as records of ImageTag
    Digests,
    Nodes,
    Limits,     \* configurations of what to prepull: releases, weeklies,
                \* dailies, and the tags included anyway
    MaxListed,  \* bound on the images a repository lists
    MaxAdded,   \* bound on images added to the collection later
    NoDigest

ASSUME CollectionAssumption ==
    /\ Tags \subseteq RegistryTag /\ IsFiniteSet(Tags)
    /\ \A t, v \in Tags : t.name = v.name => t = v
    /\ NoDigest \notin Digests
    /\ Limits \subseteq [releases : Nat, weeklies : Nat, dailies : Nat, include : SUBSET Nat]
    /\ MaxListed \in Nat /\ MaxAdded \in Nat

VARIABLES
    images,   \* every image object: its tag, digest, aliases, target, nodes
    full,     \* the collection of all images
    subset,   \* the collection to prepull
    added     \* images added to the full collection

collectionVars == <<images, full, subset, added>>

Ids == DOMAIN images

\* RSPImage.is_possible_alias
PossibleAlias(img) == img.tag.type \in {"alias", "unknown"}

NewImage(t, d) == [tag |-> t, digest |-> d, aliases |-> {}, target |-> Absent, nodes |-> {}]

\* A collection: its images in the order they were added, the one that stands
\* for each digest (0 for none), and the digests with unresolved aliases.
NoImages == [members |-> <<>>, byDigest |-> [d \in Digests |-> 0], unresolved |-> {}]

-----------------------------------------------------------------------------
(* Resolving aliases.  A store is the image objects and one collection.     *)

Collection(s) == [members |-> s.members, byDigest |-> s.byDigest, unresolved |-> s.unresolved]
StoreOf(c, imgs) == [members |-> c.members, byDigest |-> c.byDigest,
                     unresolved |-> c.unresolved, images |-> imgs]
Store(c) == StoreOf(c, images)

\* tag_for_tag_name of the collection: the image added last under the tag.
TagsOf(s) == [k \in DOMAIN s.members |-> s.images[s.members[k]].tag]
ByTag(s, name) ==
    LET k == Named(TagsOf(s), name) IN IF k = 0 THEN 0 ELSE s.members[k]

Tag(s, i) == s.images[i].tag.name

AddAliases(imgs, i, names) == [imgs EXCEPT ![i].aliases = @ \cup names]

\* RSPImage.resolve_alias: an image becomes an alias of t and takes over its
\* cycle, architecture and date.
AliasTag(tag, target) ==
    [tag EXCEPT !.type = "alias", !.cycle = target.cycle,
                !.arch = IF @ = Absent THEN target.arch ELSE @,
                !.date = IF @ = Absent THEN target.date ELSE @]
Resolved(img, t) ==
    [img EXCEPT !.target = t.tag.name, !.aliases = @ \cup (t.aliases \ {img.tag.name}),
                !.tag = AliasTag(@, t.tag)]
ResolveAlias(imgs, i, t) ==
    AddAliases([imgs EXCEPT ![i] = Resolved(@, imgs[t])], t, {imgs[i].tag.name})

\* The members of the collection found under the other aliases of an image.
AliasMembers(s, names, except) == {ByTag(s, n) : n \in names \ {except}} \ {0}

\* _resolve_duplicate for a new image that may be an alias
DuplicateAlias(s, new, old) ==
    LET bothAliases == PossibleAlias(s.images[old])
        own == Tag(s, new)
        linked == IF bothAliases
                    THEN AddAliases(AddAliases(s.images, new, {Tag(s, old)}), old, {own})
                  ELSE ResolveAlias(s.images, new, old)
        others == AliasMembers(s, linked[old].aliases, own)
    IN [s EXCEPT
          !.unresolved = IF bothAliases THEN @ \cup {s.images[new].digest} ELSE @,
          !.images = [i \in DOMAIN linked |->
                        IF i \in others THEN [linked[i] EXCEPT !.aliases = @ \cup {own}]
                        ELSE linked[i]]]

\* _resolve_duplicate for a new image that is no alias: it stands for the
\* digest from now on, and aliases of the old image become its own.
MoveAlias(imgs, o, new, own, gone) ==
    LET linked == AddAliases(imgs, new, {imgs[o].tag.name}) IN
    IF imgs[o].target = gone
      THEN AddAliases(ResolveAlias(linked, o, new), o, {gone})
      ELSE AddAliases(linked, o, {own})
MoveAliases(imgs, l, new, own, gone) ==
    LET moved[k \in 0..Len(l)] ==
            IF k = 0 THEN imgs ELSE MoveAlias(moved[k-1], l[k], new, own, gone)
    IN moved[Len(l)]
DuplicateImage(s, new, old) ==
    LET own == Tag(s, new)
        gone == Tag(s, old)
        start == AddAliases(s.images, new, {gone})
        others == SetToSeq(AliasMembers(s, start[old].aliases, own))
    IN [s EXCEPT !.images = AddAliases(MoveAliases(start, others, new, own, gone), old, {own}),
                 !.byDigest[s.images[new].digest] = new]

ResolveDuplicate(s, new, old) ==
    IF PossibleAlias(s.images[new]) THEN DuplicateAlias(s, new, old)
    ELSE DuplicateImage(s, new, old)

\* The collection's image for the digest of i, or 0.
Same(s, i) == s.byDigest[s.images[i].digest]

\* First pass of _replace_contents: the first image of a digest stands for it.
PlaceImage(s, i) ==
    IF Same(s, i) # 0 THEN ResolveDuplicate(s, Same(s, i), i)
    ELSE [s EXCEPT !.byDigest[s.images[i].digest] = i]
PlaceImages(s, l) ==
    LET placed[k \in 0..Len(l)] == IF k = 0 THEN s ELSE PlaceImage(placed[k-1], l[k])
    IN placed[Len(l)]

\* Second pass: an alias stands for its digest only if nothing else does.
PlaceAlias(s, i) ==
    IF Same(s, i) # 0 THEN ResolveDuplicate(s, i, Same(s, i))
    ELSE [s EXCEPT !.byDigest[s.images[i].digest] = i,
                   !.unresolved = @ \cup {s.images[i].digest}]

PlaceAliases(s, l) ==
    LET placed[k \in 0..Len(l)] == IF k = 0 THEN s ELSE PlaceAlias(placed[k-1], l[k])
    IN placed[Len(l)]

\* _replace_contents
\* A possible mistake: in a single pass.
ReplaceOnePass(imgs, members) ==
    LET Place(s, i) == IF PossibleAlias(s.images[i]) THEN PlaceAlias(s, i)
                       ELSE PlaceImage(s, i)
    IN FoldLeft(Place, StoreOf([NoImages EXCEPT !.members = members], imgs), members)
Replace(imgs, members) ==
    LET aliases == {i \in DOMAIN imgs : PossibleAlias(imgs[i])}
        blank == StoreOf([NoImages EXCEPT !.members = members], imgs)
    IN PlaceAliases(PlaceImages(blank, Kept(members, DOMAIN imgs \ aliases)),
                    Kept(members, aliases))

\* all_images
AllImages(s, hideArch) ==
    LET l == AllTags(TagsOf(s), hideArch) IN [k \in DOMAIN l |-> s.members[l[k]]]

\* _is_image_aliased
IsAliased(s, i) ==
    /\ s.images[i].tag.type # "alias"
    /\ \E n \in s.images[i].aliases :
          LET a == ByTag(s, n) IN
          a # 0 /\ s.images[a].tag.type = "alias" /\ s.images[a].target = Tag(s, i)

-----------------------------------------------------------------------------
(* Operations *)

\* A repository lists each tag once.
Listings == UNION {[1..n -> [tag : Tags, digest : Digests]] : n \in 0..MaxListed}
Listed == {l \in Listings : \A i, j \in DOMAIN l : l[i].tag = l[j].tag => i = j}

CollectionInit ==
    \E l \in Listed :
       LET s == Replace([i \in DOMAIN l |-> NewImage(l[i].tag, l[i].digest)],
                        [i \in DOMAIN l |-> i]) IN
       /\ images = s.images
       /\ full = Collection(s)
       /\ subset = NoImages
       /\ added = 0

\* add: an image whose digest has unresolved aliases reindexes everything,
\* from all_images, which hides what is for one architecture.
Added(s, i) ==
    LET img == s.images[i] IN
    IF ~PossibleAlias(img) /\ img.digest \in s.unresolved
      THEN Replace(s.images, Append(AllImages(s, TRUE), i))
      ELSE LET placed == IF Same(s, i) # 0 THEN ResolveDuplicate(s, i, Same(s, i))
                         ELSE [s EXCEPT !.byDigest[img.digest] = i] IN
           [placed EXCEPT !.members = Append(@, i)]

\* Node data adds an image; it takes no subsets.
Add(t, d) ==
    /\ added < MaxAdded /\ subset = NoImages
    /\ added' = added + 1
    /\ LET s == Added([Store(full) EXCEPT !.images = Append(@, NewImage(t, d))],
                      Len(images) + 1) IN
       images' = s.images /\ full' = Collection(s)
    /\ UNCHANGED subset

\* mark_image_seen_on_node: the image that stands for the digest, and those
\* found under its aliases.
\* A possible mistake: only that image.
ReachedOne(s, d) == {s.byDigest[d]} \ {0}
Reached(s, d) ==
    LET i == s.byDigest[d] IN
    IF i = 0 THEN {}
    ELSE {i} \cup ({ByTag(s, n) : n \in s.images[i].aliases} \ {0})

\* Only the image source marks, and it adds nothing to its collection.
Mark(d, n) ==
    /\ added = 0
    /\ images' = [i \in Ids |-> IF i \in Reached(Store(full), d)
                                  THEN [images[i] EXCEPT !.nodes = @ \cup {n}]
                                  ELSE images[i]]
    /\ UNCHANGED <<full, subset, added>>

\* subset: a new collection of the same image objects
SubsetMembers(s, limit) ==
    LET chosen == Subset(TagsOf(s), limit, limit.include, TRUE)
        l == AllTags([k \in DOMAIN chosen |-> TagsOf(s)[chosen[k]]], FALSE)
    IN [k \in DOMAIN l |-> s.members[chosen[l[k]]]]

TakeSubset(limit) ==
    /\ subset = NoImages /\ added = 0
    /\ LET s == Replace(images, SubsetMembers(Store(full), limit)) IN
       images' = s.images /\ subset' = Collection(s)
    /\ UNCHANGED <<full, added>>

CollectionNext ==
    \/ \E t \in Tags, d \in Digests : Add(t, d)
    \/ \E d \in Digests, n \in Nodes : Mark(d, n)
    \/ \E l \in Limits : TakeSubset(l)

-----------------------------------------------------------------------------
(* Properties *)

Members(c) == {c.members[k] : k \in DOMAIN c.members}

\* Every index points to an image of the collection with that digest
\* (RSPImageCollection._by_digest).
IndicesFit ==
    /\ \A i \in Ids : /\ images[i].digest \in Digests
                      /\ images[i].tag.type \in Types
                      /\ images[i].nodes \subseteq Nodes
    /\ \A c \in {full, subset} :
          /\ Members(c) \subseteq Ids
          /\ c.unresolved \subseteq Digests
          /\ \A d \in Digests :
                \/ c.byDigest[d] = 0 /\ \A m \in Members(c) : images[m].digest # d
                \/ c.byDigest[d] \in Members(c) /\ images[c.byDigest[d]].digest = d
    /\ added \in 0..MaxAdded

\* Once a node is known to have a digest, every tag of that digest, in the
\* collection and in its subset, says so (mark_image_seen_on_node): what the
\* menu shows does not depend on which of the tags an image was found under.
MarksReachEveryTag ==
    [][\A d \in Digests, n \in Nodes : Mark(d, n) =>
          \A m \in Members(full) \cup Members(subset) :
             images[m].digest = d => n \in images'[m].nodes]_collectionVars

\* In a collection built from a listing, and in its subsets, a tag that may be
\* an alias and shares its digest with a proper image is an alias of such an
\* image (_replace_contents), also after a subset has resolved it again.
AliasesResolved ==
    added = 0 => \A c \in {full, subset} : \A m, i \in Members(c) :
        /\ images[m].digest = images[i].digest
        /\ PossibleAlias(images[m]) /\ ~PossibleAlias(images[i])
        => \E j \in Members(c) \cup Members(full) :
              /\ images[m].tag.type = "alias" /\ images[m].target = images[j].tag.name
              /\ images[j].digest = images[m].digest /\ ~PossibleAlias(images[j])

\* The indices and the aliases of a collection fit its images, however it came
\* about (RSPImageCollection).
CollectionConsistent == IndicesFit /\ AliasesResolved

\* Tags of one type are totally ordered (_compare), so that the newest of them
\* does not depend on the order in which the registry lists them.
OrderTotal ==
    \A s, t, v \in {images[i].tag : i \in Ids} :
       s.type = t.type /\ t.type = v.type =>
          /\ Compare(s, t) = -Compare(t, s)
          /\ Compare(s, t) >= 0 /\ Compare(t, v) >= 0 => Compare(s, v) >= 0

\* The subset is the newest tags of each type that are not for one
\* architecture, as many as configured, and the tags included anyway
\* (_subset_to_prepull, subset).  Equally new tags go in the order of the listing.
SubsetIsNewest ==
    [][\A l \in Limits : TakeSubset(l) =>
        LET tags == TagsOf(Store(full)) IN
        \A k \in DOMAIN tags :
          LET t == tags[k]
              newer == {j \in DOMAIN tags :
                          /\ tags[j].type = t.type /\ Generic(tags[j])
                          /\ \/ Compare(tags[j], t) = 1
                             \/ Compare(tags[j], t) = 0 /\ j < k}
              room == CASE t.type = "release" -> l.releases
                        [] t.type = "weekly" -> l.weeklies
                        [] t.type = "daily" -> l.dailies
                        [] OTHER -> 0
          IN full.members[k] \in Members(subset') <=>
                \/ t.name \in l.include
                \/ Generic(t) /\ Cardinality(newer) < room]_collectionVars

\* What two steps do to every image: a mark reaches all its tags, and a subset
\* has exactly what the limits ask for.
StepsExact == MarksReachEveryTag /\ SubsetIsNewest

\* A menu that hides the targets of aliases still shows every image: one that
\* is hidden is shown under an alias (all_images), unless that alias is hidden
\* itself, being for one architecture.  A tag that is added again, with another
\* digest, can leave an alias of that name behind.
HiddenIsShown ==
    LET s == Store(full)
        listed == ToSet(AllImages(s, TRUE)) IN
    (\A i, j \in Ids : Tag(s, i) = Tag(s, j) => i = j) => \A i \in listed : IsAliased(s, i) =>
       \E a \in Members(full) : /\ images[a].target = images[i].tag.name
                                /\ images[a].digest = images[i].digest
                                /\ a \in listed \/ images[a].tag.arch # Absent
                                /\ ~IsAliased(s, a)
=============================================================================
