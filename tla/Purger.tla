------------------------------- MODULE Purger -------------------------------
(***************************************************************************)
(* The purger of the shared scratch file systems (purger.py) beside the    *)
(* users who go on working in them.  plan() walks the directories of the   *)
(* policy, the longest path first, and keeps the files whose last access,  *)
(* change or modification is too long ago; purge() unlinks the files of    *)
(* the plan and then removes the directories left empty.  The program is   *)
(* sequential, but between any two of its system calls a lab may write,    *)
(* read, move away or create what it looks at.                             *)
(*                                                                         *)
(* A path is a member of Files or Dirs with a fixed parent.  Times are     *)
(* ticks.  Not modelled: a file replaced by a directory of the same name,  *)
(* and the text of the report.                                             *)
(***************************************************************************)
EXTENDS Naturals, FiniteSets, SequencesExt

CONSTANTS Dirs, Files,
          Parent,      \* the directory each path is in; Root for a topmost one
          Root,        \* above every directory of the policy, never touched
          Length,      \* the length of each directory's path as a string
          Named,       \* the directories of the policy
          Threshold,   \* for each of them the size from which a file is large
          Interval,    \* and the intervals: class, then kind of time; 0: none
          MaxClock, MaxChanges, MaxRuns, MaxFaults     \* bounds

Classes == {"large", "small"}
Kinds == {"atime", "ctime", "mtime"}
\* No file; a plan not made (one that is made has a directory).
Absent == [link |-> FALSE, size |-> 2, time |-> [k \in Kinds |-> 0]]
NoPlan == [files |-> <<>>, directories |-> <<>>]
None == "none"

ASSUME TreeAssumption ==
    /\ Named \subseteq Dirs /\ Named # {}
    /\ Root \notin Dirs
    /\ Dirs \cap Files = {}
    /\ Parent \in [Dirs \cup Files -> Dirs \cup {Root}]
    /\ Length \in [Dirs -> Nat]
    /\ \A d \in Dirs : Parent[d] # Root => Length[Parent[d]] < Length[d]
    /\ Threshold \in [Named -> Nat]
    /\ Interval \in [Named -> [Classes -> [Kinds -> Nat]]]
    /\ MaxClock \in Nat

VARIABLES
    file,      \* what is at the path of each file
    dirs,      \* the directories there are
    clock,
    pc,        \* where the purger is
    dry,       \* Config.dry_run
    plan,      \* self._plan
    remaining, \* plan(): `directories` not yet considered
    visited,   \* plan(): the directories done, the last one first
    consider,  \* plan(): the directory under consideration
    roots,     \* plan(): the directories Path.walk has still to list
    listed,    \* plan(): the files of the directory it listed last
    records,   \* plan(): `purge`, the records so far
    then,      \* plan(): the time the files are compared with
    todo,      \* purge(): the records still to unlink
    failed,    \* purge(): failed_files
    scan,      \* _tidy_victim_dirs: the directories its walks found
    victims,   \* those it has still to look at
    victim,    \* the one found empty, about to be removed
    calm,      \* no user has changed a thing since the walks
    changes, runs, faults

vars == <<file, dirs, clock, pc, dry, plan, remaining, visited, consider,
          roots, listed, records, then, todo, failed, scan, victims, victim,
          calm, changes, runs, faults>>

planning == <<remaining, visited, consider, roots, listed, records, then>>
purging == <<todo, failed, scan, victims, victim>>
outside == <<file, dirs, clock, dry, changes, faults>>

Stamp == 0 .. MaxClock
Entry == [link : BOOLEAN, size : 0 .. 1, time : [Kinds -> Stamp]]
Record == [path : Files, by : Named, class : Classes, kind : Kinds]
Places == {"idle", "consider", "walk", "check", "unlink", "scan", "victims",
           "rmdir"}

-----------------------------------------------------------------------------
(* Paths. *)

\* A set of directories that has the parent of each of them.
Closed(S) == \A d \in S : Parent[d] # Root => Parent[d] \in S

\* Path.parents and the path itself, for every directory.
Lineage ==
    [d \in Dirs |->
       {e \in Dirs : \A S \in SUBSET Dirs : d \in S /\ Closed(S) => e \in S}]
Above(d) == Lineage[d]

\* The user's tree is there only as far as all its parents are.
Inside(p) == IF Parent[p] = Root THEN TRUE ELSE Parent[p] \in dirs

Children(d) == {x \in dirs : Parent[x] = d}
Contents(d) == Children(d) \cup {f \in Files : Parent[f] = d /\ file[f] # Absent}

-----------------------------------------------------------------------------
(* What plan() decides. *)

\* Policy.get_directories sorts by the length of the path; plan() pops the
\* last: one of the longest.
Longest == {d \in remaining : \A e \in remaining : Length[e] <= Length[d]}

\* A possible mistake: comparing for equality only.
CheckVisitedEqual(root) == root \in Range(visited)

\* _check_visited.
CheckVisited(root) == \E v \in Range(visited) : v \in Above(root)

\* _check_file: the class of a file, and the grounds on which it is too old.
Class(d, f) == IF file[f].size >= Threshold[d] THEN "large" ELSE "small"
Grounds(d, f) ==
    LET limit == Interval[d][Class(d, f)]
    IN  {k \in Kinds : limit[k] # 0 /\ file[f].time[k] + limit[k] < then}

\* The ground reported, if there is one.
FirstGround(s) == IF "atime" \in s THEN "atime"
                  ELSE IF "ctime" \in s THEN "ctime" ELSE "mtime"

\* A possible mistake: sparing the directories of the policy only.
SparedNamed(d) == d \in Range(plan.directories)

\* _filter_victim_dirs: not the directories of the policy, nor those above.
Spared(d) == d \in UNION {Above(n) : n \in Range(plan.directories)}

\* A possible mistake: looking only one level down.
WalkedTop(d) == IF d \in dirs THEN Children(d) ELSE {}

\* The directories Path.walk reports under d, d left out.
Walked(d) == IF d \in dirs THEN {x \in dirs \ {d} : d \in Above(x)} ELSE {}

-----------------------------------------------------------------------------
(* The purger. *)

\* plan, up to its loop: a policy that cannot be read or validated leaves the
\* plan there is; one that can invalidates it.
Plan ==
    /\ pc = "idle" /\ runs < MaxRuns
    /\ runs' = runs + 1
    /\ \/ /\ faults < MaxFaults
          /\ faults' = faults + 1
          /\ UNCHANGED <<pc, plan, planning>>
       \/ /\ plan' = NoPlan
          /\ remaining' = Named
          /\ visited' = <<>>
          /\ records' = <<>>
          /\ then' = clock
          /\ pc' = "consider"
          /\ UNCHANGED <<consider, roots, listed, faults>>
    /\ UNCHANGED <<purging, calm, file, dirs, clock, dry, changes>>

\* The head of plan()'s loop and, after the last directory, its result.
Consider ==
    /\ pc = "consider"
    /\ \/ \E d \in Longest :
            /\ consider' = d
            /\ remaining' = remaining \ {d}
            /\ roots' = {d} \cap dirs
            /\ pc' = "walk"
            /\ UNCHANGED <<plan, visited, listed, records, then>>
       \/ /\ remaining = {}
          /\ plan' = [files |-> records, directories |-> visited]
          /\ pc' = "idle"
          /\ UNCHANGED planning
    /\ UNCHANGED <<purging, calm, runs, outside>>

\* One turn of Path.walk: list a directory, if it still is there, skip its
\* files if a more specific policy has dealt with them.  After the last one
\* the tree is done.
Walk ==
    /\ pc = "walk"
    /\ \/ \E root \in roots :
            /\ roots' = (roots \ {root}) \cup Children(root)
            /\ listed' = IF root \notin dirs \/ CheckVisited(root) THEN {}
                         ELSE Contents(root) \cap Files
            /\ pc' = "check"
            /\ UNCHANGED visited
       \/ /\ roots = {}
          /\ visited' = <<consider>> \o visited
          /\ pc' = "consider"
          /\ UNCHANGED <<roots, listed>>
    /\ UNCHANGED <<plan, remaining, consider, records, then, purging, calm,
                   runs, outside>>

\* _check_file.  A file gone since it was listed, and a symbolic link, are
\* skipped.  A stat that is refused is logged as skipped, but the code goes
\* on to use its result, which is unbound: the run ends with an exception.
CheckFile ==
    /\ pc = "check"
    /\ \/ \E f \in listed :
            /\ listed' = listed \ {f}
            /\ LET old == IF file[f] = Absent THEN {}
                          ELSE IF file[f].link THEN {}
                          ELSE Grounds(consider, f)
               IN  records' = IF old = {} THEN records
                              ELSE Append(records,
                                     [path |-> f, by |-> consider,
                                      class |-> Class(consider, f),
                                      kind |-> FirstGround(old)])
            /\ UNCHANGED <<pc, faults>>
       \/ /\ \E f \in listed : file[f] # Absent /\ ~file[f].link
          /\ faults < MaxFaults
          /\ faults' = faults + 1
          /\ pc' = "idle"
          /\ UNCHANGED <<listed, records>>
       \/ /\ listed = {}
          /\ pc' = "walk"
          /\ UNCHANGED <<listed, records, faults>>
    /\ UNCHANGED <<plan, remaining, visited, consider, roots, then, purging,
                   calm, runs, file, dirs, clock, dry, changes>>

\* purge, up to its loop.  With dry_run, and with future_duration, it only
\* reports; without a plan it raises PlanNotReadyError.
Purge ==
    /\ pc = "idle" /\ runs < MaxRuns
    /\ plan # NoPlan /\ ~dry
    /\ runs' = runs + 1
    /\ todo' = plan.files
    /\ failed' = {}
    /\ pc' = "unlink"
    /\ UNCHANGED <<plan, planning, scan, victims, victim, calm, outside>>

\* The loop of purge.
Unlink ==
    /\ pc = "unlink"
    /\ \/ /\ todo # <<>>
          /\ LET f == Head(todo).path
             IN  \/ /\ file[f] # Absent
                    /\ file' = [file EXCEPT ![f] = Absent]
                    /\ UNCHANGED <<failed, faults>>
                 \/ /\ file[f] = Absent
                    /\ failed' = failed \cup {f}
                    /\ UNCHANGED <<file, faults>>
                 \/ /\ faults < MaxFaults       \* PermissionError
                    /\ faults' = faults + 1
                    /\ failed' = failed \cup {f}
                    /\ UNCHANGED file
          /\ todo' = Tail(todo)
          /\ UNCHANGED pc
       \/ /\ todo = <<>>
          /\ pc' = "scan"
          /\ UNCHANGED <<todo, failed, file, faults>>
    /\ UNCHANGED <<plan, planning, scan, victims, victim, calm, runs, dirs,
                   clock, dry, changes>>

\* The walks of _tidy_victim_dirs, and the filter.  The deepest directories
\* are sorted to the front, but the filter returns a set.
Scan ==
    /\ pc = "scan"
    /\ scan' = UNION {Walked(d) : d \in Range(plan.directories)}
    /\ victims' = {d \in scan' : ~Spared(d)}
    /\ calm' = TRUE
    /\ pc' = "victims"
    /\ UNCHANGED <<plan, planning, todo, failed, victim, runs, outside>>

\* The loop over the victims: the test, and after the last one the end.  A
\* purge with failures raises PurgeFailedError and keeps the plan.
Victims ==
    /\ pc = "victims"
    /\ \/ \E d \in victims :
            /\ victims' = victims \ {d}
            /\ IF Contents(d) = {} THEN victim' = d /\ pc' = "rmdir"
               ELSE UNCHANGED <<victim, pc>>
            /\ UNCHANGED plan
       \/ /\ victims = {}
          /\ plan' = IF failed = {} THEN NoPlan ELSE plan
          /\ pc' = "idle"
          /\ UNCHANGED <<victims, victim>>
    /\ UNCHANGED <<planning, todo, failed, scan, calm, runs, outside>>

\* rmdir of the directory found empty; gone or filled meanwhile it fails.
Rmdir ==
    /\ pc = "rmdir"
    /\ \/ /\ victim \in dirs /\ Contents(victim) = {}
          /\ dirs' = dirs \ {victim}
          /\ UNCHANGED <<failed, faults>>
       \/ /\ victim \notin dirs \/ Contents(victim) # {}
          /\ failed' = failed \cup {victim}
          /\ UNCHANGED <<dirs, faults>>
       \/ /\ faults < MaxFaults                 \* PermissionError
          /\ faults' = faults + 1
          /\ failed' = failed \cup {victim}
          /\ UNCHANGED dirs
    /\ victim' = None
    /\ pc' = "victims"
    /\ UNCHANGED <<plan, planning, todo, scan, victims, calm, runs, file,
                   clock, dry, changes>>

-----------------------------------------------------------------------------
(* The users. *)

\* A file is written: its old contents and times are gone.
Write(f) ==
    /\ Inside(f)
    /\ \E l \in BOOLEAN, n \in 0 .. 1 :
         file' = [file EXCEPT ![f] = [link |-> l, size |-> n,
                                      time |-> [k \in Kinds |-> clock]]]
    /\ UNCHANGED dirs

\* A file is read, or its mode is changed.
Use(f) ==
    /\ file[f] # Absent
    /\ \E k \in {"atime", "ctime"} :
         file' = [file EXCEPT ![f].time[k] = clock]
    /\ UNCHANGED dirs

Delete(f) ==
    /\ file[f] # Absent
    /\ file' = [file EXCEPT ![f] = Absent]
    /\ UNCHANGED dirs

MakeDir(d) ==
    /\ d \notin dirs /\ Inside(d)
    /\ dirs' = dirs \cup {d}
    /\ UNCHANGED file

\* The administrators' directories are not the users' to remove.
RemoveDir(d) ==
    /\ d \in dirs /\ Contents(d) = {}
    /\ \A n \in Named : d \notin Above(n)
    /\ dirs' = dirs \ {d}
    /\ UNCHANGED file

User ==
    /\ changes < MaxChanges
    /\ changes' = changes + 1
    /\ calm' = FALSE
    /\ \/ \E f \in Files : Write(f) \/ Use(f) \/ Delete(f)
       \/ \E d \in Dirs : MakeDir(d) \/ RemoveDir(d)
    /\ UNCHANGED <<clock, pc, dry, plan, planning, purging, runs, faults>>

Tick ==
    /\ clock < MaxClock
    /\ clock' = clock + 1
    /\ UNCHANGED <<file, dirs, pc, dry, plan, planning, purging, calm, changes,
                   runs, faults>>

-----------------------------------------------------------------------------
\* Any tree, also one without some directory of the policy, and in each file
\* path an old file or nothing.
Init ==
    /\ dirs \in SUBSET Dirs
    /\ file \in [Files -> {Absent} \cup
                   [link : {FALSE}, size : 0 .. 1, time : {[k \in Kinds |-> 0]}]]
    /\ \A p \in dirs \cup {f \in Files : file[f] # Absent} : Inside(p)
    /\ clock = 0
    /\ pc = "idle"
    /\ dry \in BOOLEAN
    /\ plan = NoPlan
    /\ remaining = {} /\ visited = <<>> /\ consider = None /\ roots = {}
    /\ listed = {} /\ records = <<>> /\ then = 0
    /\ todo = <<>> /\ failed = {} /\ scan = {} /\ victims = {} /\ victim = None
    /\ calm = FALSE
    /\ changes = 0 /\ runs = 0 /\ faults = 0

Program == Plan \/ Consider \/ Walk \/ CheckFile \/ Purge \/ Unlink \/ Scan
             \/ Victims \/ Rmdir

Next == Program \/ User \/ Tick

Spec == Init /\ [][Next]_vars

-----------------------------------------------------------------------------
(* Properties. *)

\* The purger's variables and the tree have their types, and the tree is one:
\* nothing is there without the directory it is in.
TypeOK ==
    /\ file \in [Files -> {Absent} \cup Entry]
    /\ dirs \subseteq Dirs
    /\ \A p \in dirs \cup {f \in Files : file[f] # Absent} : Inside(p)
    /\ clock \in Stamp /\ then \in Stamp
    /\ pc \in Places /\ dry \in BOOLEAN /\ calm \in BOOLEAN
    /\ records \in Seq(Record) /\ todo \in Seq(Record)
    /\ plan.files \in Seq(Record)
    /\ Range(visited) \cup remaining \subseteq Named
    /\ listed \subseteq Files /\ roots \subseteq Dirs
    /\ failed \subseteq Files \cup Dirs
    /\ scan \subseteq Dirs /\ victims \subseteq scan
    /\ victim \in Dirs \cup {None} /\ consider \in Named \cup {None}

\* However the tree changes during the walks, each file is planned at most
\* once, and under the policy of the closest directory above it that has one
\* (the order of get_directories and the list of visited directories).
PlannedByOwnPolicy ==
    /\ \A i, j \in DOMAIN records : records[i].path = records[j].path => i = j
    /\ \A i \in DOMAIN records :
         LET r == records[i]
         IN  /\ r.by \in Above(Parent[r.path])
             /\ \A n \in Named \cap Above(Parent[r.path]) : n \in Above(r.by)

\* The purger's own state fits the policies, whatever became of the tree.
Consistent == TypeOK /\ PlannedByOwnPolicy


\* The directories of the policy and those above them outlive every purge,
\* also where a directory of the policy is missing and the ones above it are
\* empty (_filter_victim_dirs).
NamedStay == [][\A n \in Named : Above(n) \cap dirs \subseteq dirs']_vars

\* A directory the walks of the tidying found without a subdirectory is gone
\* after a purge that reports success, if it is empty, may be removed and no
\* user has interfered (what is promised of all empty directories holds of
\* the leaves only).
LeavesRemoved ==
    [][/\ pc = "victims" /\ pc' = "idle"
       /\ failed = {} /\ calm
       => \A d \in dirs :
            Contents(d) = {} /\ ~Spared(d)
              /\ (\E n \in Named : n \in Above(d))
            => \E c \in scan : Parent[c] = d]_vars

\* _tidy_victim_dirs ("removing empty dirs", deepest first): after a purge
\* that reports success and that no user has interfered with, no removable
\* empty directory is left.  Does not hold: the sorted list becomes a set.
NoEmptyDirLeft ==
    [][/\ pc = "victims" /\ pc' = "idle"
       /\ failed = {} /\ calm
       => \A d \in dirs :
            (\E n \in Named : n \in Above(d)) /\ ~Spared(d) => Contents(d) # {}]_vars

=============================================================================
