---------------------------- MODULE PurgerProofs ----------------------------
(***************************************************************************)
(* Theorems about Purger, for any tree, any policy and any number of       *)
(* commands, changes and failures.                                         *)
(*                                                                         *)
(* First: the directories of the policy outlive every purge.  Second: a    *)
(* file is planned once, under its own policy; that rests on the lineages  *)
(* of directories being ordered, and on the walk of a policy keeping the   *)
(* directories it has still to list apart from those it has listed.        *)
(* Third: what the tidying leaves.                                         *)
(***************************************************************************)
EXTENDS Purger, TLAPS

Purging == {"unlink", "scan", "victims", "rmdir"}

\* plan() deals with every directory of the policy: one is done, under
\* consideration, or still to come.
PlanningInv ==
    /\ pc = "consider" => Named \subseteq Range(visited) \cup remaining
    /\ pc \in {"walk", "check"} =>
           Named \subseteq Range(visited) \cup remaining \cup {consider}

\* So a plan that is made has them all, and a purge works on one that is made.
PlanInv ==
    /\ plan # NoPlan => Named \subseteq Range(plan.directories)
    /\ pc \in Purging => plan # NoPlan

\* What the tidying looks at has passed the filter.
VictimInv ==
    /\ pc \in {"victims", "rmdir"} => \A d \in victims : ~Spared(d)
    /\ pc = "rmdir" => ~Spared(victim)

IInv ==
    /\ visited \in Seq(Named) /\ remaining \subseteq Named
    /\ pc \in {"walk", "check"} => consider \in Named
    /\ PlanningInv /\ PlanInv /\ VictimInv

-----------------------------------------------------------------------------
\* A directory put before the ones visited is one of them.
LEMMA RangeCons ==
    ASSUME NEW S, NEW s \in Seq(S), NEW x \in S
    PROVE  /\ <<x>> \o s \in Seq(S)
           /\ Range(<<x>> \o s) = {x} \cup Range(s)
<1> DEFINE t == <<x>> \o s
<1>1. /\ t \in Seq(S) /\ Len(t) = Len(s) + 1
      /\ t[1] = x /\ \A i \in 1 .. Len(s) : t[i + 1] = s[i]
  OBVIOUS
<1>2. Range(t) \subseteq {x} \cup Range(s)
  <2>1. SUFFICES ASSUME NEW i \in 1 .. Len(t) PROVE t[i] \in {x} \cup Range(s)
    BY <1>1 DEF Range
  <2>2. CASE i = 1
    BY <1>1, <2>2
  <2>3. CASE i # 1
    <3>1. i - 1 \in 1 .. Len(s) /\ t[i] = s[i - 1]
      BY <1>1, <2>3
    <3>. QED BY <3>1 DEF Range
  <2>. QED BY <2>2, <2>3
<1>3. {x} \cup Range(s) \subseteq Range(t)
  <2>1. x \in Range(t)
    BY <1>1 DEF Range
  <2>2. ASSUME NEW i \in 1 .. Len(s) PROVE s[i] \in Range(t)
    <3>1. i + 1 \in DOMAIN t /\ t[i + 1] = s[i]
      BY <1>1
    <3>. QED BY <3>1 DEF Range
  <2>. QED BY <2>1, <2>2 DEF Range
<1>. QED BY <1>1, <1>2, <1>3

LEMMA InitInv == Init => IInv
<1>1. Range(<<>>) = {}
  BY DEF Range
<1>. QED BY <1>1 DEF Init, IInv, PlanningInv, PlanInv, VictimInv, NoPlan, Purging

\* plan() keeps the plan empty until it has seen every directory.
LEMMA PlanStep == ASSUME IInv, Plan PROVE IInv'
<1>1. CASE UNCHANGED <<pc, plan, planning>>
  BY <1>1 DEF IInv, PlanningInv, PlanInv, VictimInv, Plan, planning, purging, outside, Spared, Above
<1>2. CASE pc' = "consider" /\ plan' = NoPlan /\ remaining' = Named /\ visited' = <<>>
  BY <1>2 DEF IInv, PlanningInv, PlanInv, VictimInv, Purging
<1>. QED BY <1>1, <1>2 DEF Plan

LEMMA ConsiderStep == ASSUME IInv, Consider PROVE IInv'
<1>1. CASE \E d \in Longest : /\ consider' = d
                              /\ remaining' = remaining \ {d}
                              /\ pc' = "walk"
                              /\ UNCHANGED <<plan, visited>>
  BY <1>1 DEF IInv, PlanningInv, PlanInv, VictimInv, Purging, Consider, Longest
<1>2. CASE /\ remaining = {} /\ pc' = "idle"
           /\ plan' = [files |-> records, directories |-> visited]
           /\ UNCHANGED planning
  <2>1. plan'.directories = visited
    BY <1>2
  <2>2. Named \subseteq Range(visited)
    BY <1>2 DEF IInv, PlanningInv, Consider
  <2>. QED BY <1>2, <2>1, <2>2 DEF IInv, PlanningInv, PlanInv, VictimInv, Purging, planning
<1>. QED BY <1>1, <1>2 DEF Consider

LEMMA WalkStep == ASSUME IInv, Walk PROVE IInv'
<1>1. CASE pc' = "check" /\ UNCHANGED visited
  BY <1>1 DEF IInv, PlanningInv, PlanInv, VictimInv, Purging, Walk
<1>2. CASE visited' = <<consider>> \o visited /\ pc' = "consider"
  <2>1. consider \in Named
    BY DEF IInv, Walk
  <2>2. visited' \in Seq(Named) /\ Range(visited') = {consider} \cup Range(visited)
    BY <1>2, <2>1, RangeCons DEF IInv
  <2>. QED BY <1>2, <2>1, <2>2 DEF IInv, PlanningInv, PlanInv, VictimInv, Purging, Walk
<1>. QED BY <1>1, <1>2 DEF Walk

LEMMA CheckStep == ASSUME IInv, CheckFile PROVE IInv'
<1>1. /\ pc = "check" /\ pc' \in {"check", "idle", "walk"}
      /\ UNCHANGED <<plan, remaining, visited, consider>>
  BY DEF CheckFile
<1>. QED BY <1>1 DEF IInv, PlanningInv, PlanInv, VictimInv, Purging

\* purge() needs a plan, and keeps it until it is over.
LEMMA PurgeStep == ASSUME IInv, Purge \/ Unlink PROVE IInv'
<1>1. /\ pc' \in {"unlink", "scan"} /\ plan # NoPlan
      /\ UNCHANGED <<plan, visited, remaining>>
  BY DEF Purge, Unlink, planning, IInv, PlanInv, Purging
<1>. QED BY <1>1 DEF IInv, PlanningInv, PlanInv, VictimInv

\* The victims are what the filter leaves.
LEMMA TidyStep == ASSUME IInv, Scan \/ Victims \/ Rmdir PROVE IInv'
<1>1. CASE Scan
  BY <1>1 DEF Scan, planning, IInv, PlanningInv, PlanInv, VictimInv, Purging, Spared, Above
<1>2. CASE Victims
  <2>1. CASE \E d \in victims :
                /\ victims' = victims \ {d}
                /\ IF Contents(d) = {} THEN victim' = d /\ pc' = "rmdir"
                   ELSE UNCHANGED <<victim, pc>>
                /\ UNCHANGED plan
    <3>1. PICK d \in victims : \/ victim' = d /\ pc' = "rmdir"
                               \/ UNCHANGED <<victim, pc>>
      BY <2>1
    <3>. QED BY <1>2, <2>1, <3>1 DEF Victims, planning, IInv, PlanningInv, PlanInv, VictimInv,
                Purging, Spared, Above
  <2>2. CASE pc' = "idle" /\ plan' \in {NoPlan, plan}
    BY <1>2, <2>2 DEF Victims, planning, IInv, PlanningInv, PlanInv, VictimInv, Purging
  <2>. QED BY <1>2, <2>1, <2>2 DEF Victims
<1>3. CASE Rmdir
  BY <1>3 DEF Rmdir, planning, IInv, PlanningInv, PlanInv, VictimInv, Purging, Spared, Above
<1>. QED BY <1>1, <1>2, <1>3

LEMMA StepInv == IInv /\ [Next]_vars => IInv'
<1>. SUFFICES ASSUME IInv, [Next]_vars PROVE IInv'
  OBVIOUS
<1>1. CASE Program
  BY <1>1, PlanStep, ConsiderStep, WalkStep, CheckStep, PurgeStep, TidyStep DEF Program
<1>2. CASE User \/ Tick \/ UNCHANGED vars
  BY <1>2 DEF User, Tick, vars, planning, purging, IInv, PlanningInv, PlanInv, VictimInv,
     Spared, Above
<1>. QED BY <1>1, <1>2 DEF Next

\* Everything the properties rest on, in every state.
THEOREM Invariant == Spec => []IInv
BY InitInv, StepInv, PTL DEF Spec

-----------------------------------------------------------------------------
\* A directory the policy names, or above one, is spared once there is a plan.
LEMMA NamedSpared ==
    ASSUME plan # NoPlan, PlanInv, NEW n \in Named, NEW d \in Above(n)
    PROVE  Spared(d)
BY DEF PlanInv, Spared

LEMMA OnlyVictims ==
    ASSUME IInv, [Next]_vars
    PROVE  \A n \in Named : Above(n) \cap dirs \subseteq dirs'
<1>. SUFFICES ASSUME NEW n \in Named, NEW d \in Above(n), d \in dirs PROVE d \in dirs'
  OBVIOUS
<1>1. CASE Rmdir
  <2>1. Spared(d)
    BY <1>1, NamedSpared DEF IInv, PlanInv, Purging, Rmdir
  <2>2. d # victim
    BY <1>1, <2>1 DEF IInv, VictimInv, Rmdir
  <2>. QED BY <1>1, <2>2 DEF Rmdir
<1>2. CASE User
  BY <1>2 DEF User, Write, Use, Delete, MakeDir, RemoveDir
<1>3. CASE \/ Plan \/ Consider \/ Walk \/ CheckFile \/ Purge \/ Unlink \/ Scan \/ Victims
           \/ Tick \/ UNCHANGED vars
  BY <1>3 DEF Plan, Consider, Walk, CheckFile, Purge, Unlink, Scan, Victims, Tick, vars, outside
<1>. QED BY <1>1, <1>2, <1>3 DEF Next, Program

\* No purge removes a directory of the policy or one above it, even if some are
\* missing when the walks begin and come into being later (_filter_victim_dirs).
THEOREM NamedDirectoriesStay == Spec => NamedStay
<1>1. IInv /\ [Next]_vars => [\A n \in Named : Above(n) \cap dirs \subseteq dirs']_vars
  BY OnlyVictims
<1>. QED BY <1>1, Invariant, PTL DEF Spec, NamedStay


-----------------------------------------------------------------------------
(* The order of the directories *)

\* A directory is at the top of its own lineage.
LEMMA AboveSelf == \A d \in Dirs : d \in Above(d) /\ Above(d) \subseteq Dirs
BY DEF Above, Lineage

\* With a directory its parent is above d.
LEMMA AboveParent ==
    ASSUME NEW d \in Dirs, NEW e \in Above(d), TreeAssumption, Parent[e] # Root
    PROVE  Parent[e] \in Above(d)
<1>1. e \in Dirs /\ Parent[e] \in Dirs
  BY AboveSelf DEF TreeAssumption
<1>2. \A S \in SUBSET Dirs : d \in S /\ Closed(S) => Parent[e] \in S
  BY DEF Above, Lineage, Closed
<1>. QED BY <1>1, <1>2 DEF Above, Lineage

\* A closed set with d has all that is above d.
LEMMA AboveLeast ==
    ASSUME NEW d \in Dirs, NEW S \in SUBSET Dirs, d \in S, Closed(S)
    PROVE  Above(d) \subseteq S
BY DEF Above, Lineage

LEMMA AboveClosed == TreeAssumption => \A d \in Dirs : Closed(Above(d))
BY AboveParent DEF Closed

LEMMA AboveTransitive ==
    ASSUME NEW d \in Dirs, NEW e \in Above(d), TreeAssumption
    PROVE  Above(e) \subseteq Above(d)
<1>1. e \in Dirs /\ Above(d) \in SUBSET Dirs
  BY AboveSelf
<1>2. Closed(Above(d))
  BY AboveClosed
<1>. QED BY <1>1, <1>2, AboveLeast

\* Above a directory are itself and what is above its parent.
LEMMA AboveStep ==
    ASSUME NEW d \in Dirs, NEW e \in Above(d), e # d, TreeAssumption
    PROVE  Parent[d] # Root /\ e \in Above(Parent[d])
<1> DEFINE S == {d} \cup (IF Parent[d] = Root THEN {} ELSE Above(Parent[d]))
<1>1. Parent[d] # Root => Parent[d] \in Dirs
  BY DEF TreeAssumption
<1>2. S \in SUBSET Dirs /\ d \in S
  BY <1>1, AboveSelf
<1>3. Closed(S)
  <2>. SUFFICES ASSUME NEW x \in S, Parent[x] # Root PROVE Parent[x] \in S
    BY DEF Closed
  <2>1. CASE x = d
    BY <1>1, <2>1, AboveSelf
  <2>2. CASE x # d
    BY <1>1, <2>2, AboveParent
  <2>. QED BY <2>1, <2>2
<1>4. e \in S
  BY <1>2, <1>3, AboveLeast
<1>. QED BY <1>4

\* A directory above another one has a shorter path.
LEMMA AboveShorter ==
    ASSUME NEW d \in Dirs, NEW e \in Above(d), e # d, TreeAssumption
    PROVE  Length[e] < Length[d]
<1> DEFINE S == {x \in Dirs : x = d \/ Length[x] < Length[d]}
<1>1. Closed(S)
  <2>. SUFFICES ASSUME NEW x \in S, Parent[x] # Root PROVE Parent[x] \in S
    BY DEF Closed
  <2>1. /\ x \in Dirs /\ Parent[x] \in Dirs
        /\ Length[Parent[x]] < Length[x]
        /\ Length[x] \in Nat /\ Length[Parent[x]] \in Nat /\ Length[d] \in Nat
    BY DEF TreeAssumption
  <2>. QED BY <2>1
<1>2. S \in SUBSET Dirs /\ d \in S
  OBVIOUS
<1> HIDE DEF S
<1>3. e \in S
  BY <1>1, <1>2, AboveLeast
<1>. QED BY <1>3 DEF S

LEMMA AboveAntisymmetric ==
    ASSUME NEW d \in Dirs, NEW e \in Above(d), d \in Above(e), TreeAssumption
    PROVE  e = d
<1>1. e \in Dirs /\ Length[d] \in Nat /\ Length[e] \in Nat
  BY AboveSelf DEF TreeAssumption
<1>. SUFFICES ASSUME e # d PROVE FALSE
  OBVIOUS
<1>2. Length[e] < Length[d]
  BY AboveShorter
<1>3. Length[d] < Length[e]
  BY <1>1, AboveShorter
<1>. QED BY <1>1, <1>2, <1>3

\* Of two directories above a third, one is above the other.
LEMMA AboveLinear ==
    ASSUME NEW d \in Dirs, NEW e \in Above(d), NEW f \in Above(d), TreeAssumption
    PROVE  e \in Above(f) \/ f \in Above(e)
<1> DEFINE S == {x \in Dirs : x \in Above(f) \/ f \in Above(x)}
<1>1. e \in Dirs /\ f \in Dirs
  BY AboveSelf
<1>2. Closed(S)
  <2>. SUFFICES ASSUME NEW x \in S, Parent[x] # Root PROVE Parent[x] \in S
    BY DEF Closed
  <2>1. x \in Dirs /\ Parent[x] \in Dirs
    BY DEF TreeAssumption
  <2>2. CASE x \in Above(f)
    BY <1>1, <2>1, <2>2, AboveParent
  <2>3. CASE f \in Above(x) /\ f # x
    BY <2>1, <2>3, AboveStep
  <2>4. CASE f = x
    BY <1>1, <2>1, <2>4, AboveSelf, AboveParent
  <2>. QED BY <2>2, <2>3, <2>4
<1>3. S \in SUBSET Dirs /\ d \in S
  OBVIOUS
<1> HIDE DEF S
<1>4. e \in S
  BY <1>2, <1>3, AboveLeast
<1>. QED BY <1>4 DEF S

-----------------------------------------------------------------------------
(* Types, and that the tree stays one *)

TreeOK ==
    /\ file \in [Files -> {Absent} \cup Entry]
    /\ dirs \subseteq Dirs
    /\ \A p \in dirs \cup {f \in Files : file[f] # Absent} : Inside(p)
    /\ clock \in Stamp

PlanOK ==
    /\ records \in Seq(Record) /\ plan.files \in Seq(Record) /\ then \in Stamp
    /\ Range(visited) \cup remaining \subseteq Named
    /\ Range(plan.directories) \subseteq Named
    /\ listed \subseteq Files /\ roots \subseteq Dirs
    /\ consider \in Named \cup {None}

PurgeOK ==
    /\ todo \in Seq(Record)
    /\ failed \subseteq Files \cup Dirs
    /\ scan \subseteq Dirs /\ victims \subseteq scan
    /\ victim \in Dirs \cup {None}
    /\ pc = "rmdir" => victim \in Dirs

FlagsOK == pc \in Places /\ dry \in BOOLEAN /\ calm \in BOOLEAN

Types == TreeOK /\ PlanOK /\ PurgeOK /\ FlagsOK

LEMMA TypesOK == Types => TypeOK
BY DEF Types, TreeOK, PlanOK, PurgeOK, FlagsOK, TypeOK

LEMMA InitTypes == TreeAssumption /\ Init => Types
<1>. SUFFICES ASSUME TreeAssumption, Init PROVE Types
  OBVIOUS
<1>1. TreeOK
  <2>1. 0 \in Stamp
    BY DEF TreeAssumption, Stamp
  <2>2. [k \in Kinds |-> 0] \in [Kinds -> Stamp]
    BY <2>1
  <2>3. file \in [Files -> {Absent} \cup Entry]
    BY <2>2 DEF Init, Entry
  <2>. QED BY <2>1, <2>3 DEF Init, TreeOK
<1>2. PlanOK
  <2>1. Range(<<>>) = {} /\ Range(NoPlan.directories) = {} /\ 0 \in Stamp
    BY DEF Range, NoPlan, TreeAssumption, Stamp
  <2>. QED BY <2>1 DEF Init, PlanOK, NoPlan
<1>3. PurgeOK
  BY DEF Init, PurgeOK
<1>4. FlagsOK
  BY DEF Init, FlagsOK, Places
<1>. QED BY <1>1, <1>2, <1>3, <1>4 DEF Types

\* The users keep the tree a tree.
LEMMA UserTree == TreeAssumption /\ TreeOK /\ User => TreeOK'
<1>. SUFFICES ASSUME TreeAssumption, TreeOK, User PROVE TreeOK'
  OBVIOUS
<1>0. clock' = clock /\ clock \in Stamp
  BY DEF User, TreeOK
<1>1. ASSUME NEW f \in Files, Write(f) PROVE TreeOK'
  <2>1. PICK l \in BOOLEAN, n \in 0 .. 1 :
          file' = [file EXCEPT ![f] = [link |-> l, size |-> n,
                                       time |-> [k \in Kinds |-> clock]]]
    BY <1>1 DEF Write
  <2>2. [link |-> l, size |-> n, time |-> [k \in Kinds |-> clock]] \in Entry
    BY <1>0 DEF Entry
  <2>3. file' \in [Files -> {Absent} \cup Entry]
    BY <2>1, <2>2 DEF TreeOK
  <2>4. ASSUME NEW p \in Files, file'[p] # Absent PROVE p = f \/ file[p] # Absent
    BY <2>1, <2>4 DEF TreeOK
  <2>. QED BY <1>0, <1>1, <2>3, <2>4 DEF TreeOK, Write, Inside
<1>2. ASSUME NEW f \in Files, Use(f) PROVE TreeOK'
  <2>1. PICK k \in {"atime", "ctime"} : file' = [file EXCEPT ![f].time[k] = clock]
    BY <1>2 DEF Use
  <2>2. file[f] \in Entry /\ k \in Kinds
    BY <1>2 DEF Use, TreeOK, Kinds
  <2>3. [file[f] EXCEPT !.time[k] = clock] \in Entry
    BY <1>0, <2>2 DEF Entry
  <2>4. file' \in [Files -> {Absent} \cup Entry]
    BY <2>1, <2>3 DEF TreeOK
  <2>5. ASSUME NEW p \in Files, file'[p] # Absent PROVE file[p] # Absent
    BY <1>2, <2>1, <2>5 DEF TreeOK, Use
  <2>. QED BY <1>0, <1>2, <2>4, <2>5 DEF TreeOK, Use, Inside
<1>3. ASSUME NEW f \in Files, Delete(f) PROVE TreeOK'
  <2>1. file' \in [Files -> {Absent} \cup Entry]
    BY <1>3 DEF Delete, TreeOK
  <2>2. ASSUME NEW p \in Files, file'[p] # Absent PROVE file[p] # Absent
    BY <1>3, <2>2 DEF TreeOK, Delete
  <2>. QED BY <1>0, <1>3, <2>1, <2>2 DEF TreeOK, Delete, Inside
<1>4. ASSUME NEW d \in Dirs, MakeDir(d) PROVE TreeOK'
  BY <1>0, <1>4 DEF TreeOK, MakeDir, Inside
<1>5. ASSUME NEW d \in Dirs, RemoveDir(d) PROVE TreeOK'
  BY <1>0, <1>5 DEF TreeOK, RemoveDir, Inside, Contents, Children
<1>. QED BY <1>1, <1>2, <1>3, <1>4, <1>5 DEF User

\* So does the purger, which removes only files and empty directories.
LEMMA UnlinkTree == TreeOK /\ PurgeOK /\ Unlink => TreeOK'
<1>. SUFFICES ASSUME TreeOK, PurgeOK, Unlink PROVE TreeOK'
  OBVIOUS
<1>1. UNCHANGED <<dirs, clock>>
  BY DEF Unlink
<1>2. CASE UNCHANGED file
  BY <1>1, <1>2 DEF TreeOK, Inside
<1>3. CASE todo # <<>> /\ file' = [file EXCEPT ![Head(todo).path] = Absent]
  <2>1. file' \in [Files -> {Absent} \cup Entry]
    BY <1>3 DEF TreeOK
  <2>2. ASSUME NEW p \in Files, file'[p] # Absent PROVE file[p] # Absent
    BY <1>3, <2>2 DEF TreeOK
  <2>. QED BY <1>1, <2>1, <2>2 DEF TreeOK, Inside
<1>. QED BY <1>2, <1>3 DEF Unlink

LEMMA RmdirTree == TreeOK /\ Rmdir => TreeOK'
BY DEF TreeOK, Rmdir, Inside, Contents, Children

LEMMA TreeStep == TreeAssumption /\ Types /\ [Next]_vars => TreeOK'
<1>. SUFFICES ASSUME TreeAssumption, Types, [Next]_vars PROVE TreeOK'
  OBVIOUS
<1>1. CASE UNCHANGED <<file, dirs, clock>>
  BY <1>1 DEF Types, TreeOK, Inside
<1>2. CASE Tick
  BY <1>2 DEF Tick, Types, TreeOK, Inside, Stamp, TreeAssumption
<1>3. CASE Plan \/ Consider \/ Walk \/ CheckFile \/ Purge \/ Scan \/ Victims
  BY <1>1, <1>3 DEF Plan, Consider, Walk, CheckFile, Purge, Scan, Victims, outside
<1>4. CASE Unlink \/ Rmdir \/ User
  BY <1>4, UnlinkTree, RmdirTree, UserTree DEF Types
<1>. QED BY <1>1, <1>2, <1>3, <1>4 DEF Next, Program, vars

-----------------------------------------------------------------------------
\* What plan() keeps, one lemma for each of its steps.
LEMMA BeginTypes == Types /\ Plan => PlanOK' /\ PurgeOK' /\ FlagsOK'
<1>. SUFFICES ASSUME Types, Plan PROVE PlanOK' /\ PurgeOK' /\ FlagsOK'
  OBVIOUS
<1>1. PlanOK'
  <2>1. CASE UNCHANGED <<plan, planning>>
    BY <2>1 DEF planning, Types, PlanOK
  <2>2. CASE /\ plan' = NoPlan /\ remaining' = Named /\ visited' = <<>>
             /\ records' = <<>> /\ then' = clock
             /\ UNCHANGED <<consider, roots, listed>>
    <3>1. Range(<<>>) = {} /\ Range(NoPlan.directories) = {}
      BY DEF Range, NoPlan
    <3>. QED BY <2>2, <3>1 DEF NoPlan, Types, PlanOK, TreeOK
  <2>. QED BY <2>1, <2>2 DEF Plan
<1>2. PurgeOK'
  BY DEF Plan, purging, Types, PurgeOK
<1>3. FlagsOK'
  BY DEF Plan, outside, Types, FlagsOK, Places
<1>. QED BY <1>1, <1>2, <1>3

LEMMA ConsiderTypes == Types /\ Consider => PlanOK' /\ PurgeOK' /\ FlagsOK'
<1>. SUFFICES ASSUME Types, Consider PROVE PlanOK' /\ PurgeOK' /\ FlagsOK'
  OBVIOUS
<1>1. PlanOK'
  <2>1. ASSUME NEW d \in Longest, consider' = d, remaining' = remaining \ {d},
               roots' = {d} \cap dirs, UNCHANGED <<plan, visited, listed, records, then>>
        PROVE  PlanOK'
    BY <2>1 DEF Types, PlanOK, TreeOK, Longest
  <2>2. CASE plan' = [files |-> records, directories |-> visited] /\ UNCHANGED planning
    BY <2>2 DEF planning, Types, PlanOK
  <2>. QED BY <2>1, <2>2 DEF Consider
<1>2. PurgeOK'
  BY DEF Consider, purging, Types, PurgeOK
<1>3. FlagsOK'
  BY DEF Consider, outside, Types, FlagsOK, Places
<1>. QED BY <1>1, <1>2, <1>3

LEMMA WalkTypes == Types /\ IInv /\ Walk => PlanOK' /\ PurgeOK' /\ FlagsOK'
<1>. SUFFICES ASSUME Types, IInv, Walk PROVE PlanOK' /\ PurgeOK' /\ FlagsOK'
  OBVIOUS
<1>1. PlanOK'
  <2>0. UNCHANGED <<plan, remaining, consider, records, then>>
    BY DEF Walk
  <2>1. ASSUME NEW root \in roots, roots' = (roots \ {root}) \cup Children(root),
               listed' \subseteq Files, UNCHANGED visited
        PROVE  PlanOK'
    BY <2>0, <2>1 DEF Types, PlanOK, TreeOK, Children
  <2>2. CASE visited' = <<consider>> \o visited /\ UNCHANGED <<roots, listed>>
    <3>1. consider \in Named
      BY DEF IInv, Walk
    <3>2. Range(visited') = {consider} \cup Range(visited)
      BY <2>2, <3>1, RangeCons DEF IInv
    <3>. QED BY <2>0, <2>2, <3>1, <3>2 DEF Types, PlanOK
  <2>. QED BY <2>1, <2>2 DEF Walk
<1>2. PurgeOK'
  BY DEF Walk, purging, Types, PurgeOK
<1>3. FlagsOK'
  BY DEF Walk, outside, Types, FlagsOK, Places
<1>. QED BY <1>1, <1>2, <1>3

\* A record names the policy under consideration.
Planned(f, r) ==
    /\ r \in Record /\ r.path = f /\ r.by = consider
    /\ records' = Append(records, r)

LEMMA CheckRecords ==
    ASSUME Types, CheckFile, consider \in Named
    PROVE  \/ \E f \in listed : /\ listed' = listed \ {f} /\ UNCHANGED pc
                                /\ records' = records \/ \E r : Planned(f, r)
           \/ UNCHANGED <<listed, records>> /\ pc' = "idle"
           \/ UNCHANGED <<listed, records>> /\ listed = {} /\ pc' = "walk"
<1>1. ASSUME NEW f \in listed, NEW old, listed' = listed \ {f}, UNCHANGED pc,
             records' = IF old = {} THEN records
                        ELSE Append(records, [path |-> f, by |-> consider,
                                              class |-> Class(consider, f),
                                              kind |-> FirstGround(old)])
      PROVE  records' = records \/ \E r : Planned(f, r)
  <2> DEFINE r == [path |-> f, by |-> consider,
                   class |-> Class(consider, f), kind |-> FirstGround(old)]
  <2>1. Class(consider, f) \in Classes /\ FirstGround(old) \in Kinds
    BY DEF Class, Classes, FirstGround, Kinds
  <2>2. f \in Files
    BY DEF Types, PlanOK
  <2>3. r \in Record /\ r.path = f /\ r.by = consider
    BY <2>1, <2>2 DEF Record
  <2>. QED BY <1>1, <2>3 DEF Planned
<1>2. ASSUME NEW f \in listed, listed' = listed \ {f}, UNCHANGED pc,
             LET old == IF file[f] = Absent THEN {}
                        ELSE IF file[f].link THEN {}
                        ELSE Grounds(consider, f)
             IN  records' = IF old = {} THEN records
                            ELSE Append(records, [path |-> f, by |-> consider,
                                                  class |-> Class(consider, f),
                                                  kind |-> FirstGround(old)])
      PROVE  records' = records \/ \E r : Planned(f, r)
  BY <1>1, <1>2
<1>. QED BY <1>2 DEF CheckFile

LEMMA CheckTypes == Types /\ IInv /\ CheckFile => PlanOK' /\ PurgeOK' /\ FlagsOK'
<1>. SUFFICES ASSUME Types, IInv, CheckFile PROVE PlanOK' /\ PurgeOK' /\ FlagsOK'
  OBVIOUS
<1>0. consider \in Named
  BY DEF IInv, CheckFile
<1>1. PlanOK'
  <2>0. UNCHANGED <<plan, remaining, visited, consider, roots, then>>
    BY DEF CheckFile
  <2>1. listed' \subseteq listed /\ (records' = records \/ \E f, r : Planned(f, r))
    <3>1. CASE UNCHANGED <<listed, records>>
      BY <3>1
    <3>2. CASE \E f \in listed : /\ listed' = listed \ {f}
                                 /\ records' = records \/ \E r : Planned(f, r)
      BY <3>2
    <3>. QED BY <1>0, <3>1, <3>2, CheckRecords
  <2>2. records' \in Seq(Record)
    BY <2>1 DEF Planned, Types, PlanOK
  <2>. QED BY <2>0, <2>1, <2>2 DEF Types, PlanOK
<1>2. PurgeOK'
  BY DEF CheckFile, purging, Types, PurgeOK
<1>3. FlagsOK'
  <2>1. pc' \in Places /\ UNCHANGED <<dry, calm>>
    BY DEF CheckFile, Types, FlagsOK, Places
  <2>. QED BY <2>1 DEF Types, FlagsOK
<1>. QED BY <1>1, <1>2, <1>3

\* What purge() keeps.
LEMMA PurgeTypes == Types /\ (Purge \/ Unlink \/ Scan) => PlanOK' /\ PurgeOK' /\ FlagsOK'
<1>. SUFFICES ASSUME Types, Purge \/ Unlink \/ Scan PROVE PlanOK' /\ PurgeOK' /\ FlagsOK'
  OBVIOUS
<1>1. PlanOK'
  BY DEF Purge, Unlink, Scan, planning, Types, PlanOK
<1>2. PurgeOK'
  <2>1. CASE Purge
    BY <2>1 DEF Purge, Types, PlanOK, PurgeOK
  <2>2. CASE Unlink
    <3>1. todo' \in Seq(Record)
      BY <2>2 DEF Unlink, Types, PurgeOK
    <3>2. failed' \subseteq Files \cup Dirs
      <4>1. todo # <<>> => Head(todo) \in Record
        BY DEF Types, PurgeOK
      <4>2. todo # <<>> => Head(todo).path \in Files
        BY <4>1 DEF Record
      <4>. QED BY <2>2, <4>2 DEF Unlink, Types, PurgeOK
    <3>. QED BY <2>2, <3>1, <3>2 DEF Unlink, Types, PurgeOK
  <2>3. CASE Scan
    <3>1. scan' \subseteq Dirs
      BY <2>3 DEF Scan, Walked, Types, TreeOK
    <3>. QED BY <2>3, <3>1 DEF Scan, Types, PurgeOK
  <2>. QED BY <2>1, <2>2, <2>3
<1>3. FlagsOK'
  <2>1. pc' \in Places /\ dry' = dry /\ (calm' = calm \/ calm' = TRUE)
    BY DEF Purge, Unlink, Scan, outside, Types, FlagsOK, Places
  <2>. QED BY <2>1 DEF Types, FlagsOK
<1>. QED BY <1>1, <1>2, <1>3

LEMMA TidyTypes == Types /\ (Victims \/ Rmdir) => PlanOK' /\ PurgeOK' /\ FlagsOK'
<1>. SUFFICES ASSUME Types, Victims \/ Rmdir PROVE PlanOK' /\ PurgeOK' /\ FlagsOK'
  OBVIOUS
<1>1. PlanOK'
  <2>1. plan' \in {plan, NoPlan} /\ UNCHANGED planning
    BY DEF Victims, Rmdir
  <2>2. NoPlan.files \in Seq(Record) /\ Range(NoPlan.directories) = {}
    BY DEF NoPlan, Range
  <2>3. plan'.files \in Seq(Record) /\ Range(plan'.directories) \subseteq Named
    BY <2>1, <2>2 DEF Types, PlanOK
  <2>. QED BY <2>1, <2>3 DEF planning, Types, PlanOK
<1>2. PurgeOK'
  <2>1. CASE Victims
    <3>1. CASE \E d \in victims : /\ victims' = victims \ {d}
                                 /\ \/ victim' = d /\ pc' = "rmdir"
                                    \/ UNCHANGED <<victim, pc>>
      BY <2>1, <3>1 DEF Victims, Types, PurgeOK
    <3>2. CASE pc' = "idle" /\ UNCHANGED <<victims, victim>>
      BY <2>1, <3>2 DEF Victims, Types, PurgeOK
    <3>. QED BY <2>1, <3>1, <3>2 DEF Victims
  <2>2. CASE Rmdir
    BY <2>2 DEF Rmdir, Types, PurgeOK
  <2>. QED BY <2>1, <2>2
<1>3. FlagsOK'
  <2>1. pc' \in Places /\ UNCHANGED <<dry, calm>>
    BY DEF Victims, Rmdir, outside, Types, FlagsOK, Places
  <2>. QED BY <2>1 DEF Types, FlagsOK
<1>. QED BY <1>1, <1>2, <1>3

LEMMA StepTypes == TreeAssumption /\ Types /\ IInv /\ [Next]_vars => Types'
<1>. SUFFICES ASSUME TreeAssumption, Types, IInv, [Next]_vars PROVE Types'
  OBVIOUS
<1>1. TreeOK'
  BY TreeStep
<1>2. CASE Program
  BY <1>1, <1>2, BeginTypes, ConsiderTypes, WalkTypes, CheckTypes, PurgeTypes, TidyTypes
     DEF Program, Types
<1>3. CASE User \/ Tick \/ UNCHANGED vars
  <2>1. UNCHANGED <<pc, dry, plan, planning, purging>> /\ (calm' = calm \/ calm' = FALSE)
    BY <1>3 DEF User, Tick, vars, planning, purging
  <2>2. PlanOK'
    BY <2>1 DEF planning, Types, PlanOK
  <2>3. PurgeOK'
    BY <2>1 DEF purging, Types, PurgeOK
  <2>4. FlagsOK'
    BY <2>1 DEF Types, FlagsOK
  <2>. QED BY <1>1, <2>2, <2>3, <2>4 DEF Types
<1>. QED BY <1>2, <1>3 DEF Next

-----------------------------------------------------------------------------
(* Which policy a file is planned under *)

\* The directory of the file a record names.
Place(i) == Parent[records[i].path]

\* The walk of the directory under consideration: the directories to list are
\* below it, none below another one, and none above a file it has recorded.
WalkInv ==
    /\ \A n \in remaining : Length[n] <= Length[consider]
    /\ \A x \in roots : consider \in Above(x)
    /\ \A x, y \in roots : x \in Above(y) => x = y
    /\ \A i \in DOMAIN records :
         \/ records[i].by \in Range(visited)
         \/ records[i].by = consider /\ \A x \in roots : x \notin Above(Place(i))

\* A file listed is new, and no policy done before has it.
ListedInv ==
    \A f \in listed :
       /\ Parent[f] \in Dirs /\ consider \in Above(Parent[f])
       /\ \A v \in Range(visited) : v \notin Above(Parent[f])
       /\ \A x \in roots : x \notin Above(Parent[f])
       /\ \A i \in DOMAIN records : records[i].path # f

RecordInv ==
    /\ PlannedByOwnPolicy
    /\ \A i \in DOMAIN records : Place(i) \in Dirs
    /\ pc = "consider" => \A i \in DOMAIN records : records[i].by \in Range(visited)
    /\ pc \in {"walk", "check"} => WalkInv
    /\ pc = "check" => ListedInv

LEMMA InitRecord == Init => RecordInv
BY DEF Init, RecordInv, PlannedByOwnPolicy

LEMMA BeginRecord == RecordInv /\ Plan => RecordInv'
<1>. SUFFICES ASSUME RecordInv, Plan PROVE RecordInv'
  OBVIOUS
<1>1. CASE UNCHANGED <<pc, planning>>
  BY <1>1 DEF planning, RecordInv, PlannedByOwnPolicy, WalkInv, ListedInv, Place, Above
<1>2. CASE records' = <<>> /\ pc' = "consider"
  BY <1>2 DEF RecordInv, PlannedByOwnPolicy
<1>. QED BY <1>1, <1>2 DEF Plan

\* The longest of the remaining directories comes next.
LEMMA ConsiderRecord == TreeAssumption /\ Types /\ RecordInv /\ Consider => RecordInv'
<1>. SUFFICES ASSUME TreeAssumption, Types, RecordInv, Consider PROVE RecordInv'
  OBVIOUS
<1>1. ASSUME NEW d \in Longest, consider' = d, remaining' = remaining \ {d},
             roots' = {d} \cap dirs, pc' = "walk",
             UNCHANGED <<visited, records>>
      PROVE  RecordInv'
  <2>1. d \in Dirs /\ d \in Above(d)
    BY AboveSelf DEF Types, PlanOK, Longest, TreeAssumption
  <2>2. \A n \in remaining : Length[n] <= Length[d]
    BY DEF Longest
  <2>3. \A i \in DOMAIN records : records[i].by \in Range(visited)
    BY DEF RecordInv, Consider
  <2>4. WalkInv'
    BY <1>1, <2>1, <2>2, <2>3 DEF WalkInv, Above
  <2>. QED BY <1>1, <2>4 DEF RecordInv, PlannedByOwnPolicy, Place, Above
<1>2. CASE pc' = "idle" /\ UNCHANGED planning
  BY <1>2 DEF planning, RecordInv, PlannedByOwnPolicy, Place, Above
<1>. QED BY <1>1, <1>2 DEF Consider

\* Of the directories to list one is replaced by those in it.
LEMMA RootsStep ==
    ASSUME TreeAssumption, Types, WalkInv, NEW root \in roots,
           roots' = (roots \ {root}) \cup Children(root),
           UNCHANGED <<remaining, visited, consider, records>>,
           \A i \in DOMAIN records : Place(i) \in Dirs
    PROVE  WalkInv' /\ \A x \in roots' : x \notin Above(root)
<1>0. roots \subseteq Dirs /\ roots' \subseteq Dirs
  BY DEF Types, PlanOK, TreeOK, Children
<1>1. ASSUME NEW x \in Children(root)
      PROVE  /\ x \in Dirs /\ Parent[x] = root /\ x # root
             /\ \A y \in Above(x) : y = x \/ y \in Above(root)
             /\ root \in Above(x)
  <2>1. x \in Dirs /\ Parent[x] = root /\ root \in Dirs /\ root # Root
    BY <1>0 DEF Children, Types, TreeOK, TreeAssumption
  <2>2. Length[root] < Length[x] /\ Length[x] \in Nat /\ Length[root] \in Nat
    BY <2>1 DEF TreeAssumption
  <2>3. \A y \in Above(x) : y = x \/ y \in Above(root)
    BY <2>1, AboveStep
  <2>4. root \in Above(x)
    BY <2>1, AboveSelf, AboveParent
  <2>. QED BY <2>1, <2>2, <2>3, <2>4
<1>2. ASSUME NEW x \in Children(root), NEW d \in Dirs, x \in Above(d)
      PROVE  root \in Above(d)
  BY <1>1, <1>2, AboveTransitive
<1>3. \A x \in roots' : x \notin Above(root)
  <2>1. ASSUME NEW x \in Children(root) PROVE x \notin Above(root)
    BY <1>0, <1>1, AboveAntisymmetric
  <2>2. ASSUME NEW x \in roots \ {root} PROVE x \notin Above(root)
    BY DEF WalkInv
  <2>. QED BY <2>1, <2>2
<1>4. ASSUME NEW x \in roots' PROVE consider \in Above(x)
  <2>1. CASE x \in roots
    BY <2>1 DEF WalkInv
  <2>2. CASE x \in Children(root)
    BY <1>1, <2>2, AboveTransitive DEF WalkInv
  <2>. QED BY <2>1, <2>2
<1>5. ASSUME NEW x \in roots', NEW y \in roots', x \in Above(y), x # y PROVE FALSE
  <2>1. CASE x \in roots \ {root} /\ y \in roots \ {root}
    BY <1>5, <2>1 DEF WalkInv
  <2>2. CASE y \in Children(root)
    BY <1>1, <1>3, <1>5, <2>2
  <2>3. CASE x \in Children(root) /\ y \in roots \ {root}
    <3>1. root \in Above(y)
      BY <1>0, <1>2, <1>5, <2>3
    <3>. QED BY <2>3, <3>1 DEF WalkInv
  <2>. QED BY <2>1, <2>2, <2>3
<1>6. ASSUME NEW i \in DOMAIN records, records[i].by \notin Range(visited)
      PROVE  records[i].by = consider /\ \A x \in roots' : x \notin Above(Place(i))
  BY <1>2, <1>6 DEF WalkInv
<1>. QED BY <1>3, <1>4, <1>5, <1>6 DEF WalkInv, Place, Above

LEMMA WalkRecord == TreeAssumption /\ Types /\ IInv /\ RecordInv /\ Walk => RecordInv'
<1>. SUFFICES ASSUME TreeAssumption, Types, IInv, RecordInv, Walk PROVE RecordInv'
  OBVIOUS
<1>0. /\ UNCHANGED <<remaining, consider, records>> /\ WalkInv
      /\ consider \in Named /\ visited \in Seq(Named)
  BY DEF Walk, RecordInv, IInv
<1>1. ASSUME NEW root \in roots, roots' = (roots \ {root}) \cup Children(root),
             listed' = IF root \notin dirs \/ CheckVisited(root) THEN {}
                       ELSE Contents(root) \cap Files,
             pc' = "check", UNCHANGED visited
      PROVE  RecordInv'
  <2>1. root \in Dirs
    BY DEF Types, PlanOK
  <2>2. WalkInv' /\ \A x \in roots' : x \notin Above(root)
    BY <1>0, <1>1, RootsStep DEF RecordInv
  <2>3. ASSUME NEW f \in listed'
        PROVE  f \in Files /\ Parent[f] = root /\ \A v \in Range(visited) : v \notin Above(root)
    BY <1>1, <2>3 DEF CheckVisited, Contents, Children, Types, TreeOK, TreeAssumption
  <2>4. ASSUME NEW f \in listed', NEW i \in DOMAIN records, records[i].path = f PROVE FALSE
    <3>1. Place(i) = root /\ root \in Above(root)
      BY <2>1, <2>3, <2>4, AboveSelf DEF Place
    <3>2. records[i].by \in Range(visited)
      BY <1>0, <3>1 DEF WalkInv
    <3>3. records[i].by \in Above(root)
      BY <3>1 DEF RecordInv, PlannedByOwnPolicy, Place
    <3>. QED BY <2>3, <3>2, <3>3
  <2>5. ListedInv'
    BY <1>0, <1>1, <2>1, <2>2, <2>3, <2>4 DEF ListedInv, WalkInv, Above
  <2>. QED BY <1>0, <1>1, <2>2, <2>5 DEF RecordInv, PlannedByOwnPolicy, Place, Above
<1>2. CASE visited' = <<consider>> \o visited /\ pc' = "consider"
  <2>1. Range(visited') = {consider} \cup Range(visited)
    BY <1>0, <1>2, RangeCons
  <2>2. \A i \in DOMAIN records' : records'[i].by \in Range(visited')
    BY <1>0, <2>1 DEF WalkInv
  <2>. QED BY <1>0, <1>2, <2>2 DEF RecordInv, PlannedByOwnPolicy, Place, Above
<1>. QED BY <1>1, <1>2 DEF Walk

\* Every policy directory above a file that is listed is above the one under
\* consideration: it is not done, and no longer than that one.
LEMMA OwnPolicy ==
    ASSUME TreeAssumption, Types, IInv, WalkInv, ListedInv, PlanningInv, pc = "check",
           NEW f \in listed, NEW n \in Named \cap Above(Parent[f])
    PROVE  n \in Above(consider)
<1>1. consider \in Named /\ consider \in Dirs /\ n \in Dirs
  BY DEF IInv, TreeAssumption
<1>2. n = consider \/ n \in remaining
  BY DEF PlanningInv, ListedInv
<1>3. CASE n = consider
  BY <1>1, <1>3, AboveSelf
<1>4. CASE n \in remaining /\ n # consider
  <2>1. Length[n] <= Length[consider] /\ Length[n] \in Nat /\ Length[consider] \in Nat
    BY <1>1, <1>4 DEF WalkInv, TreeAssumption
  <2>2. Parent[f] \in Dirs /\ consider \in Above(Parent[f])
    BY DEF ListedInv
  <2>3. n \in Above(consider) \/ consider \in Above(n)
    BY <2>2, AboveLinear
  <2>4. ASSUME consider \in Above(n) PROVE FALSE
    <3>1. Length[consider] < Length[n]
      BY <1>1, <1>4, <2>4, AboveShorter
    <3>. QED BY <2>1, <3>1
  <2>. QED BY <2>3, <2>4
<1>. QED BY <1>2, <1>3, <1>4

LEMMA CheckRecord == TreeAssumption /\ Types /\ IInv /\ RecordInv /\ CheckFile => RecordInv'
<1>. SUFFICES ASSUME TreeAssumption, Types, IInv, RecordInv, CheckFile PROVE RecordInv'
  OBVIOUS
<1>0. /\ pc = "check" /\ UNCHANGED <<remaining, visited, consider, roots>>
      /\ WalkInv /\ ListedInv /\ consider \in Named
  BY DEF CheckFile, RecordInv, IInv
<1>1. CASE UNCHANGED records /\ listed' \subseteq listed /\ pc' \in {"check", "idle", "walk"}
  <2>1. WalkInv' /\ ListedInv'
    BY <1>0, <1>1 DEF WalkInv, ListedInv, Place, Above
  <2>. QED BY <1>0, <1>1, <2>1 DEF RecordInv, PlannedByOwnPolicy, Place, Above
<1>2. ASSUME NEW f \in listed, listed' = listed \ {f}, UNCHANGED pc,
             NEW r, Planned(f, r)
      PROVE  RecordInv'
  <2>1. /\ records \in Seq(Record) /\ records' \in Seq(Record)
        /\ DOMAIN records = 1 .. Len(records)
        /\ DOMAIN records' = 1 .. (Len(records) + 1)
        /\ \A i \in DOMAIN records : i \in DOMAIN records' /\ records'[i] = records[i]
        /\ records'[Len(records) + 1] = r
    BY <1>2 DEF Planned, Types, PlanOK
  <2>2. \A i \in DOMAIN records' : i \in DOMAIN records \/ records'[i] = r
    BY <2>1
  <2>3. r.path = f /\ r.by = consider
    BY <1>2 DEF Planned
  <2>4. \A i, j \in DOMAIN records' : records'[i].path = records'[j].path => i = j
    <3>1. \A i \in DOMAIN records : records[i].path # f
      BY <1>0 DEF ListedInv
    <3>2. \A i \in DOMAIN records' : i \in DOMAIN records \/ i = Len(records) + 1
      BY <2>1
    <3>. QED BY <2>1, <2>3, <3>1, <3>2 DEF RecordInv, PlannedByOwnPolicy
  <2>5. /\ Parent[f] \in Dirs /\ consider \in Above(Parent[f])
        /\ \A x \in roots : x \notin Above(Parent[f])
    BY <1>0 DEF ListedInv
  <2>6. \A n \in Named \cap Above(Parent[f]) : n \in Above(consider)
    BY <1>0, OwnPolicy DEF IInv
  <2>7. PlannedByOwnPolicy'
    BY <2>1, <2>2, <2>3, <2>4, <2>5, <2>6 DEF RecordInv, PlannedByOwnPolicy, Above
  <2>8. \A i \in DOMAIN records' : Place(i)' \in Dirs
    BY <2>1, <2>2, <2>3, <2>5 DEF RecordInv, Place
  <2>9. WalkInv'
    BY <1>0, <2>1, <2>2, <2>3, <2>5 DEF WalkInv, Place, Above
  <2>10. ListedInv'
    BY <1>0, <1>2, <2>1, <2>2, <2>3 DEF ListedInv, Above
  <2>. QED BY <1>0, <1>2, <2>7, <2>8, <2>9, <2>10 DEF RecordInv
<1>3. \/ \E f \in listed : /\ listed' = listed \ {f} /\ UNCHANGED pc
                           /\ records' = records \/ \E r : Planned(f, r)
      \/ UNCHANGED <<listed, records>> /\ pc' \in {"idle", "walk"}
  BY <1>0, CheckRecords
<1>4. CASE UNCHANGED <<listed, records>> /\ pc' \in {"idle", "walk"}
  BY <1>1, <1>4
<1>5. CASE \E f \in listed : /\ listed' = listed \ {f} /\ UNCHANGED pc
                             /\ records' = records \/ \E r : Planned(f, r)
  <2>1. PICK f \in listed : /\ listed' = listed \ {f} /\ UNCHANGED pc
                            /\ records' = records \/ \E r : Planned(f, r)
    BY <1>5
  <2>2. CASE records' = records
    BY <1>0, <1>1, <2>1, <2>2
  <2>3. CASE \E r : Planned(f, r)
    BY <1>2, <2>1, <2>3
  <2>. QED BY <2>1, <2>2, <2>3
<1>. QED BY <1>3, <1>4, <1>5

LEMMA StepRecord == TreeAssumption /\ Types /\ IInv /\ RecordInv /\ [Next]_vars => RecordInv'
<1>. SUFFICES ASSUME TreeAssumption, Types, IInv, RecordInv, [Next]_vars PROVE RecordInv'
  OBVIOUS
<1>1. CASE Plan \/ Consider \/ Walk \/ CheckFile
  BY <1>1, BeginRecord, ConsiderRecord, WalkRecord, CheckRecord
<1>2. CASE Purge \/ Unlink \/ Scan \/ Victims \/ Rmdir
  <2>1. UNCHANGED planning /\ pc' \notin {"consider", "walk", "check"}
    BY <1>2 DEF Purge, Unlink, Scan, Victims, Rmdir
  <2>. QED BY <2>1 DEF planning, RecordInv, PlannedByOwnPolicy, Place, Above
<1>3. CASE User \/ Tick \/ UNCHANGED vars
  <2>1. UNCHANGED <<pc, planning>>
    BY <1>3 DEF User, Tick, vars, planning
  <2>. QED BY <2>1 DEF planning, RecordInv, PlannedByOwnPolicy, WalkInv, ListedInv, Place, Above
<1>. QED BY <1>1, <1>2, <1>3 DEF Next, Program

\* The walks never plan a file twice or under another policy than its own, and
\* every variable keeps its type, for any tree that is a tree.
THEOREM PlanInvariant == Spec => [](IInv /\ Types /\ RecordInv)
<1>. DEFINE Inv == IInv /\ Types /\ RecordInv
<1>1. Init => Inv
  BY InitInv, InitTypes, InitRecord, TreeAssumption
<1>2. Inv /\ [Next]_vars => Inv'
  BY StepInv, StepTypes, StepRecord, TreeAssumption
<1>. QED BY <1>1, <1>2, PTL DEF Spec

\* However the tree changes during the walks, each file is planned at most once,
\* under the policy of the closest directory above it that has one
\* (get_directories, _check_visited), and the purger's state keeps its types.
THEOREM PlansConsistent == Spec => []Consistent
<1>1. Types /\ RecordInv => Consistent
  BY TypesOK DEF RecordInv, Consistent
<1>. QED BY <1>1, PlanInvariant, PTL

-----------------------------------------------------------------------------
(* What the tidying leaves *)

Removable(d) == ~Spared(d) /\ \E n \in Named : n \in Above(d)

\* Until a user interferes or a removal fails the walks have found every
\* directory that may go, and each of them is still to be looked at, or has a
\* file in it, or had a directory in it.
LeafInv ==
    pc \in {"victims", "rmdir"} /\ calm /\ failed = {} =>
       \A d \in dirs : Removable(d) =>
          /\ d \in scan
          /\ \/ d \in victims
             \/ pc = "rmdir" /\ d = victim
             \/ \E f \in Files : Parent[f] = d /\ file[f] # Absent
             \/ \E c \in scan : Parent[c] = d

\* A directory that is there has all above it.
LEMMA AboveThere ==
    ASSUME TreeAssumption, TreeOK, NEW d \in dirs
    PROVE  Above(d) \subseteq dirs
<1>1. d \in Dirs /\ dirs \in SUBSET Dirs /\ Closed(dirs)
  BY DEF TreeOK, Inside, Closed
<1>. QED BY <1>1, AboveLeast

LEMMA ScanLeaf == TreeAssumption /\ Types /\ IInv /\ Scan => LeafInv'
<1>. SUFFICES ASSUME TreeAssumption, Types, IInv, Scan PROVE LeafInv'
  OBVIOUS
<1>1. /\ Named \subseteq Range(plan.directories)
      /\ scan' = UNION {Walked(d) : d \in Range(plan.directories)}
      /\ victims' = {d \in scan' : ~Spared(d)}
      /\ UNCHANGED <<plan, dirs>>
  BY DEF IInv, PlanInv, Purging, Scan, outside
<1>2. ASSUME NEW d \in dirs, Removable(d) PROVE d \in victims'
  <2>1. PICK n \in Named : n \in Above(d)
    BY <1>2 DEF Removable
  <2>2. d # n
    <3>1. n \in Above(n)
      BY AboveSelf DEF TreeAssumption
    <3>. QED BY <1>1, <1>2, <3>1 DEF Removable, Spared
  <2>3. n \in dirs
    BY <2>1, AboveThere DEF Types
  <2>4. d \in Walked(n)
    BY <2>1, <2>2, <2>3 DEF Walked
  <2>. QED BY <1>1, <1>2, <2>4 DEF Removable
<1>3. \A d : Removable(d)' => Removable(d)
  BY <1>1 DEF Removable, Spared, Above
<1>4. victims' \subseteq scan'
  BY <1>1
<1>. QED BY <1>1, <1>2, <1>3, <1>4 DEF LeafInv

\* What is in a directory that may go has been found too.
LEMMA FoundChild ==
    ASSUME TreeAssumption, Types, LeafInv, pc \in {"victims", "rmdir"}, calm, failed = {},
           NEW d \in dirs, Removable(d), NEW c \in dirs, Parent[c] = d
    PROVE  c \in scan
<1>1. c \in Dirs /\ d \in Dirs /\ d # Root
  BY DEF Types, TreeOK, TreeAssumption
<1>2. d \in Above(c)
  BY <1>1, AboveSelf, AboveParent
<1>3. \E n \in Named : n \in Above(c)
  BY <1>1, <1>2, AboveTransitive DEF Removable
<1>4. ~Spared(c)
  <2>. SUFFICES ASSUME NEW n \in Range(plan.directories), c \in Above(n) PROVE FALSE
    BY DEF Spared
  <2>1. n \in Dirs
    BY DEF Types, PlanOK, TreeAssumption
  <2>2. d \in Above(n)
    BY <1>2, <2>1, AboveTransitive
  <2>. QED BY <2>2 DEF Removable, Spared
<1>. QED BY <1>3, <1>4 DEF LeafInv, Removable

LEMMA VictimsLeaf == TreeAssumption /\ Types /\ LeafInv /\ Victims => LeafInv'
<1>. SUFFICES ASSUME TreeAssumption, Types, LeafInv, Victims, LeafInv!1' PROVE LeafInv!2'
  BY DEF LeafInv
<1>1. PICK d \in victims : /\ victims' = victims \ {d}
                           /\ IF Contents(d) = {} THEN victim' = d /\ pc' = "rmdir"
                              ELSE UNCHANGED <<victim, pc>>
                           /\ UNCHANGED <<plan, scan, failed, calm, file, dirs>>
  BY DEF Victims, outside
<1>2. /\ pc = "victims" /\ calm /\ failed = {}
  BY <1>1 DEF Victims
<1>3. \A e : Removable(e)' => Removable(e)
  BY <1>1 DEF Removable, Spared, Above
<1>. SUFFICES ASSUME NEW e \in dirs, Removable(e)
     PROVE  /\ e \in scan
            /\ \/ e \in victims'
               \/ pc' = "rmdir" /\ e = victim'
               \/ \E f \in Files : Parent[f] = e /\ file[f] # Absent
               \/ \E c \in scan : Parent[c] = e
  BY <1>1, <1>3
<1>4. e \in scan
  BY <1>2 DEF LeafInv
<1>5. CASE e # d
  <2>1. \/ e \in victims \/ \E f \in Files : Parent[f] = e /\ file[f] # Absent
        \/ \E c \in scan : Parent[c] = e
    BY <1>2 DEF LeafInv
  <2>2. e \in victims => e \in victims'
    BY <1>1, <1>5
  <2>. QED BY <1>4, <2>1, <2>2
<1>6. CASE e = d /\ Contents(d) = {}
  BY <1>1, <1>4, <1>6
<1>7. CASE e = d /\ Contents(d) # {}
  <2>1. \/ \E f \in Files : Parent[f] = d /\ file[f] # Absent
        \/ \E c \in dirs : Parent[c] = d
    BY <1>7 DEF Contents, Children
  <2>. QED BY <1>2, <1>4, <1>7, <2>1, FoundChild
<1>. QED BY <1>5, <1>6, <1>7

LEMMA RmdirLeaf == LeafInv /\ Rmdir => LeafInv'
<1>. SUFFICES ASSUME LeafInv, Rmdir, calm', failed' = {} PROVE LeafInv'
  BY DEF LeafInv
<1>1. /\ dirs' = dirs \ {victim} /\ failed = {} /\ calm /\ pc = "rmdir"
      /\ UNCHANGED <<plan, scan, victims, file>>
  BY DEF Rmdir
<1>2. \A d : Removable(d)' => Removable(d)
  BY <1>1 DEF Removable, Spared, Above
<1>. QED BY <1>1, <1>2 DEF LeafInv

LEMMA StepLeaf == TreeAssumption /\ Types /\ IInv /\ LeafInv /\ [Next]_vars => LeafInv'
<1>. SUFFICES ASSUME TreeAssumption, Types, IInv, LeafInv, [Next]_vars PROVE LeafInv'
  OBVIOUS
<1>1. CASE Scan \/ Victims \/ Rmdir
  BY <1>1, ScanLeaf, VictimsLeaf, RmdirLeaf
<1>2. CASE Plan \/ Consider \/ Walk \/ CheckFile \/ Purge \/ Unlink
  BY <1>2 DEF Plan, Consider, Walk, CheckFile, Purge, Unlink, LeafInv
<1>3. CASE User
  BY <1>3 DEF User, LeafInv
<1>4. CASE Tick \/ UNCHANGED vars
  <2>1. UNCHANGED <<pc, calm, failed, dirs, scan, victims, victim, file, plan>>
    BY <1>4 DEF Tick, vars, purging
  <2>2. \A d : Removable(d)' => Removable(d)
    BY <2>1 DEF Removable, Spared, Above
  <2>. QED BY <2>1, <2>2 DEF LeafInv
<1>. QED BY <1>1, <1>2, <1>3, <1>4 DEF Next, Program

\* A purge that reports success while no user interferes leaves no removable
\* empty directory behind but those that had a directory in them when it looked
\* (_tidy_victim_dirs), for any tree and any order in which it looks.
THEOREM EmptyLeavesRemoved == Spec => LeavesRemoved
<1>. DEFINE Inv == IInv /\ Types /\ LeafInv
<1>1. Init => Inv
  <2>1. Init => LeafInv
    BY DEF Init, LeafInv
  <2>. QED BY <2>1, InitInv, InitTypes, TreeAssumption
<1>2. Inv /\ [Next]_vars => Inv'
  BY StepInv, StepTypes, StepLeaf, TreeAssumption
<1>3. Inv /\ [Next]_vars =>
        [/\ pc = "victims" /\ pc' = "idle" /\ failed = {} /\ calm
         => \A d \in dirs : Contents(d) = {} /\ ~Spared(d) /\ (\E n \in Named : n \in Above(d))
              => \E c \in scan : Parent[c] = d]_vars
  <2>. SUFFICES ASSUME Inv, [Next]_vars, pc = "victims", pc' = "idle", failed = {}, calm,
                       NEW d \in dirs, Contents(d) = {}, Removable(d)
                PROVE  \E c \in scan : Parent[c] = d
    BY DEF Removable
  <2>1. victims = {}
    BY DEF Next, Program, Plan, Consider, Walk, CheckFile, Purge, Unlink, Scan, Victims, Rmdir,
           User, Tick, vars
  <2>2. ~ \E f \in Files : Parent[f] = d /\ file[f] # Absent
    BY DEF Contents
  <2>. QED BY <2>1, <2>2 DEF LeafInv
<1>. QED BY <1>1, <1>2, <1>3, PTL DEF Spec, LeavesRemoved
=============================================================================
