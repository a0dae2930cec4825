---------------------------- MODULE ImageManager ----------------------------
(***************************************************************************)
(* The commands `nublado images prune' and `nublado images delete'         *)
(* (services/images/) against a registry: what a filter policy does not    *)
(* accept is deleted.  A registry deletes by digest, and with the digest   *)
(* every tag of it; Docker first has to be asked for the digest of a tag.  *)
(***************************************************************************)
EXTENDS ImageCollection

CONSTANTS Policies,  \* filter policies of the configuration
          Now        \* the age basis
ASSUME PolicyAssumption ==
    Now \in Nat /\ \A p \in Policies : \A type \in Filtered : p[type].number \in Int

VARIABLES repo,      \* the registry: the digest of each tag name, or NoDigest
          command    \* the command: where it is, what it has left to delete

NoCommand == [pc |-> "idle", todo |-> <<>>, digest |-> NoDigest, deleted |-> {},
              excluded |-> {}, listed |-> {}]

Names == {t.name : t \in Tags}
TagOf(n) == CHOOSE t \in Tags : t.name = n
Present == {n \in Names : repo[n] # NoDigest}

ManagerVars == <<collectionVars, repo, command>>

ManagerInit ==
    /\ CollectionInit
    /\ repo = [n \in Names |->
                 LET found == {i \in Ids : images[i].tag.name = n} IN
                 IF found = {} THEN NoDigest ELSE images[CHOOSE i \in found : TRUE].digest]
    /\ command = NoCommand

\* from_tag_names of what list_tags returns: the configured aliases are not
\* known to the command, which takes them for unknown tags.
RegistryTags ==
    LET names == SetToSeq(Present) IN
    [i \in DOMAIN names |->
        LET t == TagOf(names[i]) IN IF t.type = "alias" THEN [t EXCEPT !.type = "unknown"] ELSE t]

\* The tags the policy does not accept, newest first.
Rejected(tags, p) == Filter(tags, p, Now, TRUE, FALSE)

\* A command is a process of its own, with a collection it has just listed.
Fresh == command.pc = "idle" /\ added = 0 /\ subset = NoImages
            /\ \A i \in Ids : images[i].nodes = {}

DeleteDigests(digests) ==
    repo' = [n \in Names |-> IF repo[n] \in digests THEN NoDigest ELSE repo[n]]

\* DockerImagesManager.prune_images up to its first request for a digest; a dry
\* run ends here.
DockerPrune(p) ==
    /\ Fresh
    /\ LET tags == RegistryTags
           out == Rejected(tags, p) IN
       command' = [NoCommand EXCEPT
          !.pc = "docker", !.todo = [i \in DOMAIN out |-> tags[out[i]].name],
          !.excluded = NamesOf(tags, out), !.listed = {<<n, repo[n]>> : n \in Present}]
    /\ UNCHANGED <<collectionVars, repo>>

\* DockerImagesManager.delete_tags
DockerDelete(names) ==
    /\ Fresh
    /\ command' = [NoCommand EXCEPT
          !.pc = "docker", !.todo = SetToSeq(names), !.excluded = names,
          !.listed = {<<n, repo[n]>> : n \in Present}]
    /\ UNCHANGED <<collectionVars, repo>>

\* get_image_digest of the next tag: 404 ends the command; a digest already
\* deleted is skipped.
\* A possible mistake: 404 ends it as if all were done.
DockerDigestSwallows ==
    /\ command.pc = "docker"
    /\ IF command.todo = <<>> THEN command' = [command EXCEPT !.pc = "ok"]
       ELSE LET d == repo[Head(command.todo)] IN
            command' = IF d = NoDigest THEN [command EXCEPT !.pc = "ok"]
                       ELSE [command EXCEPT !.pc = "delete", !.todo = Tail(@), !.digest = d]
    /\ UNCHANGED <<collectionVars, repo>>
DockerDigest ==
    /\ command.pc = "docker"
    /\ IF command.todo = <<>> THEN command' = [command EXCEPT !.pc = "ok"]
       ELSE LET d == repo[Head(command.todo)] IN
            command' = IF d = NoDigest THEN [command EXCEPT !.pc = "error"]
                       ELSE IF d \in command.deleted
                         THEN [command EXCEPT !.todo = Tail(@)]
                       ELSE [command EXCEPT !.pc = "delete", !.todo = Tail(@), !.digest = d]
    /\ UNCHANGED <<collectionVars, repo>>

\* delete_image
DockerDeleted ==
    /\ command.pc = "delete"
    /\ DeleteDigests({command.digest})
    /\ command' = [command EXCEPT !.pc = "docker", !.digest = NoDigest,
                                  !.deleted = @ \cup {command.digest}]
    /\ UNCHANGED collectionVars

\* GARImagesManager.prune_images: list_images resolves aliases, and the digests
\* of what the policy rejects are deleted in batches, without asking again.
GarPrune(p) ==
    /\ Fresh
    /\ LET tags == TagsOf(Store(full))
           excluded == NamesOf(tags, Rejected(tags, p))
           digests == {repo[n] : n \in excluded} IN
       /\ DeleteDigests(digests)
       /\ command' = [NoCommand EXCEPT
             !.pc = "ok", !.deleted = digests, !.excluded = excluded,
             !.listed = {<<n, repo[n]>> : n \in Present}]
    /\ UNCHANGED collectionVars

ManagerNext ==
    \/ command.pc = "idle" /\ CollectionNext /\ UNCHANGED <<repo, command>>
    \/ \E p \in Policies : DockerPrune(p) \/ GarPrune(p)
    \/ \E names \in SUBSET Present : Cardinality(names) <= 2 /\ DockerDelete(names)
    \/ DockerDigest \/ DockerDeleted

ManagerSpec == ManagerInit /\ [][ManagerNext]_ManagerVars

-----------------------------------------------------------------------------
(* Properties *)

\* A command that succeeds has deleted exactly the images of the tags it
\* excludes (prune_images, delete_tags): no excluded tag is left, and a digest
\* without an excluded tag is untouched.
PruneExact ==
    command.pc = "ok" => \A l \in command.listed :
        repo[l[1]] = NoDigest <=> \E x \in command.excluded : <<x, l[2]>> \in command.listed

\* A filter and its inversion (_filter_image_list) divide the tags: nothing is
\* both retained and deleted, nothing neither, and what has no filter is
\* retained.
FilterDivides ==
    command.pc = "idle" /\ added = 0 => \A p \in Policies :
       LET tags == TagsOf(Store(full))
           kept == NamesOf(tags, Filter(tags, p, Now, FALSE, FALSE))
           out == NamesOf(tags, Rejected(tags, p)) IN
       /\ kept \cup out = {tags[i].name : i \in DOMAIN tags} /\ kept \cap out = {}
       /\ \A i \in DOMAIN tags : tags[i].type \notin Filtered => tags[i].name \in kept

\* What is selected from a collection does not depend on how the registry lists
\* it (_compare), leaves no image out of the menu for good (all_images), and is
\* neither retained nor deleted twice (_filter_image_list).
SelectionsExact == OrderTotal /\ HiddenIsShown /\ FilterDivides


\* The policy says what images to retain (ImagesManager.prune_images): a tag it
\* accepts is still there when the command is over.  Not so of a tag that shares
\* its digest with one the policy rejects.
RetainedSurvive ==
    command.pc = "ok" => \A l \in command.listed :
        l[1] \notin command.excluded => repo[l[1]] = l[2]

\* Tags that share a digest do not disturb a prune
\* (DockerImagesManager.prune_images keeps a record of deleted digests).  Not so:
\* asking for the digest of the second one ends the command with an error.
PruneCompletes == command.pc # "error"
=============================================================================
