-------------------------- MODULE ComponentProofs ---------------------------
(***************************************************************************)
(* Theorems about three components that share no state and no definition:  *)
(* the init containers of a lab, the file system admin instance, and the   *)
(* images of a registry with the commands that delete from it.             *)
(*                                                                         *)
(* Of the init containers, for any contents of the home directory and any  *)
(* number of starts, failed writes and killed containers: what the user    *)
(* has where the site has nothing stays, and a startup that calls itself   *)
(* normal has done its work.  The invariant says what each step of startup *)
(* may rely on; a container that starts again relies on nothing.           *)
(*                                                                         *)
(* Of the admin instance, for any set of requests: the lock admits one     *)
(* request at a time, and the manager implements the abstract service,     *)
(* whose promise knows of the calls that a failed create leaves behind.    *)
(*                                                                         *)
(* Of the images, for any tags, digests, listings and policies: tags are   *)
(* totally ordered, sorting and filtering lose nothing, resolving aliases  *)
(* in two passes leaves every index and every alias right, and a command   *)
(* deletes what it should and nothing else.  The lists and the passes are  *)
(* recursive functions; that the values on their way exist, and have what  *)
(* each step keeps, is an induction over the naturals that the lemma       *)
(* Counting does once, with the well-foundedness of finite sets.           *)
(***************************************************************************)
EXTENDS ImageManager, LabStartup, FSAdmin, FiniteSetTheorems, WellFoundedInduction, TLAPS

-----------------------------------------------------------------------------
(* The invariant of the init containers *)

\* The steps of startup after the credentials were merged, and those after the
\* dask configuration was looked at.
AfterCredentials == {"dask", "gitlfs", "profile", "skel", "settings"}
AfterDask == AfterCredentials \ {"dask"}

Steps == {"inithome", "chown", "landing", "viewer", "startup", "env", "tidy",
          "credentials", "report", "lab"} \cup AfterCredentials

Pods == [at : Steps, reset : BOOLEAN, start : 1..MaxStarts, reloc : BOOLEAN,
         dask : SUBSET Dask, good : BOOLEAN, scratch : BOOLEAN, abnormal : BOOLEAN,
         home : {"none", "home", "scratch", "tmp"}, welcome : {"none", "tmp"}]

\* There is a fragment of a file only if a write of it stopped half way, which is a
\* fault.
TornInv ==
    /\ \A f \in Files : files[f] \cap Fragments # {} => f \in lost
    /\ lost # {} => faults # 0

\* What the user has where the site has nothing stays in the file until it is moved
\* with it: copies of the dask configuration are not needed for that.
KeptInv == \A f \in Files \ lost : "own" \in owned[f] => "own" \in files[f] \cup moved[f]

\* Startup is at one of these steps, or past them and not abnormal.
Normal(steps) ==
    \/ pod.at \in steps
    \/ pod.at = "report" /\ ~pod.abnormal
    \/ pod.home = "home"

\* What the steps of startup have established.
ReadyInv ==
    /\ Normal(AfterCredentials) => "site" \in files["credentials"]
    /\ Normal({}) => "site" \in files["settings"]
    /\ Normal(AfterDask) \/ (At("dask") /\ pod.good) =>
          (faults = 0 => \E f \in Dask : "site" \in files[f])
    /\ pod.good => pod.at \in AfterCredentials \cup {"report", "lab"}
    /\ pod.home = "home" => pod.at = "lab"

StartupInv == TypeOK /\ pod \in Pods /\ TornInv /\ KeptInv /\ ReadyInv

-----------------------------------------------------------------------------
(* The pod and the files *)

\* What the pod becomes when a container goes on, fails or starts again.
LEMMA PodMoves ==
    ASSUME StartupInv, NEW step \in Steps
    PROVE  /\ Goto(step) \in Pods /\ Goto(step).at = step /\ Goto(step).start = pod.start
           /\ (Goto(step).good <=> pod.good) /\ Goto(step).home = pod.home
           /\ Goto(step).abnormal = pod.abnormal
           /\ Abnormal(step) \in Pods /\ Abnormal(step).at = step
           /\ Abnormal(step).start = pod.start
           /\ (Abnormal(step).good <=> pod.good) /\ Abnormal(step).home = pod.home
           /\ Abnormal(step).abnormal = TRUE
  BY DEF StartupInv, Pods, Goto, Abnormal, Steps, AfterCredentials

LEMMA NewPods ==
    ASSUME NEW reset \in BOOLEAN, NEW n \in 1..MaxStarts
    PROVE  /\ NewPod(reset, n) \in Pods /\ NewPod(reset, n).start = n
           /\ NewPod(reset, n).at = "inithome"
           /\ ~NewPod(reset, n).good /\ NewPod(reset, n).home = "none"
  BY DEF NewPod, Pods, Steps

LEMMA RestartedPod ==
    ASSUME StartupInv
    PROVE  /\ Restarted \in Pods /\ Restarted.start = pod.start
           /\ Restarted.at \in {"inithome", "landing", "startup"}
           /\ Restarted.at # "inithome" => owner = "user"
           /\ ~Restarted.good /\ Restarted.home = "none"
<1>0. pod.reset \in BOOLEAN /\ pod.start \in 1..MaxStarts
  BY DEF StartupInv, Pods
<1>1. PICK q : q = NewPod(pod.reset, pod.start)
  OBVIOUS
<1>2. /\ q \in Pods /\ q.start = pod.start /\ q.at = "inithome" /\ ~q.good /\ q.home = "none"
      /\ pod.at \notin {"inithome", "chown"} => owner = "user"
  BY <1>0, <1>1, NewPods DEF StartupInv, TypeOK
<1>3. CASE pod.at \in {"inithome", "chown"}
  <2>1. Restarted = q
    BY <1>1, <1>3 DEF Restarted
  <2> QED BY <1>2, <2>1
<1>4. CASE pod.at \notin {"inithome", "chown"}
  <2>1. PICK s \in {"landing", "startup"} : Restarted = [q EXCEPT !.at = s]
    BY <1>1, <1>4 DEF Restarted
  <2>2. /\ Restarted \in Pods /\ Restarted.at = s /\ Restarted.start = q.start
        /\ Restarted.good = q.good /\ Restarted.home = q.home
    BY <1>2, <2>1 DEF Pods, Steps
  <2> QED BY <1>2, <1>4, <2>2
<1> QED BY <1>3, <1>4

\* Before the credentials are merged, and after an error, nothing is promised.
LEMMA NothingReady ==
    ASSUME pod'.home # "home", pod'.good => pod'.at = "report",
           pod'.at \notin AfterCredentials, pod'.at = "report" => pod'.abnormal
    PROVE  ReadyInv'
  BY DEF ReadyInv, Normal, At, AfterCredentials, AfterDask

\* A step that writes no file.
LEMMA QuietStep ==
    ASSUME StartupInv, UNCHANGED <<disk, owned, lost>>,
           faults' = faults \/ Fault, pod' \in Pods,
           pod'.at \notin {"inithome", "chown"} => owner = "user"
    PROVE  TypeOK' /\ TornInv' /\ KeptInv'
<1>1. faults' \in 0..MaxFaults /\ (faults # 0 => faults' # 0)
  BY BoundsAssumption DEF StartupInv, TypeOK, Fault
<1>2. pod'.start \in 1..MaxStarts
  BY DEF Pods
<1> QED BY <1>1, <1>2 DEF StartupInv, TypeOK, TornInv, KeptInv, disk

\* A write, done or not, of contents that keep what the user had.
LEMMA WriteStep ==
    ASSUME StartupInv, NEW f \in Files, NEW new \in SUBSET (Whole \cup {"odd"}),
           NEW done \in Pods, NEW failed \in Pods, Write(f, new, done, failed),
           "own" \in files[f] => "own" \in new,
           UNCHANGED <<owner, moved, owned>>, backup' \in [Dask -> SUBSET Parts],
           owner = "user"
    PROVE  /\ TypeOK' /\ pod' \in Pods /\ TornInv' /\ KeptInv'
           /\ \A g \in Files \ {f} : files'[g] = files[g]
           /\ \/ pod' = done /\ files'[f] = new /\ faults' = faults
              \/ pod' \in {failed, Restarted} /\ faults' # 0
<1>1. /\ files \in [Files -> SUBSET Parts] /\ faults \in 0..MaxFaults /\ MaxFaults \in Nat
      /\ lost \subseteq Files
  BY BoundsAssumption DEF StartupInv, TypeOK
<1>2. CASE files' = [files EXCEPT ![f] = new] /\ pod' = done /\ UNCHANGED <<faults, lost>>
  <2>1. files'[f] = new /\ \A g \in Files \ {f} : files'[g] = files[g]
    BY <1>1, <1>2
  <2>2. TypeOK'
    <3>1. files' \in [Files -> SUBSET Parts]
      BY <1>1, <1>2 DEF Parts
    <3>2. pod'.start \in 1..MaxStarts
      BY <1>2 DEF Pods
    <3>3. new \cap Fragments = {}
      BY DEF Whole, Users, Fragments
    <3> QED BY <1>2, <2>1, <3>1, <3>2, <3>3 DEF StartupInv, TypeOK
  <2>3. TornInv' /\ KeptInv'
    <3>1. new \cap Fragments = {}
      BY DEF Whole, Users, Fragments
    <3> QED BY <1>2, <2>1, <3>1 DEF StartupInv, TornInv, KeptInv
  <2> QED BY <1>2, <2>1, <2>2, <2>3
<1>3. ASSUME faults' = faults + 1, faults < MaxFaults, pod' \in {failed, Restarted},
             \/ UNCHANGED <<files, lost>>
             \/ /\ \E cut \in Fragments \cup {"odd"} : files' = [files EXCEPT ![f] = {cut}]
                /\ lost' = lost \cup {f}
      PROVE  /\ TypeOK' /\ pod' \in Pods /\ TornInv' /\ KeptInv'
             /\ \A g \in Files \ {f} : files'[g] = files[g]
             /\ faults' # 0
  <2>1. pod' \in Pods /\ pod'.start \in 1..MaxStarts
    BY <1>3, RestartedPod DEF Pods
  <2>2. /\ \A g \in Files \ {f} : files'[g] = files[g]
        /\ files' \in [Files -> SUBSET Parts]
        /\ \/ files'[f] = files[f] /\ lost' = lost
           \/ /\ \E cut \in Fragments \cup {"odd"} : files'[f] = {cut}
              /\ lost' = lost \cup {f}
    <3>1. CASE UNCHANGED <<files, lost>>
      BY <1>1, <3>1
    <3>2. CASE /\ \E cut \in Fragments \cup {"odd"} : files' = [files EXCEPT ![f] = {cut}]
               /\ lost' = lost \cup {f}
      <4>1. PICK cut \in Fragments \cup {"odd"} : files' = [files EXCEPT ![f] = {cut}]
        BY <3>2
      <4>2. {cut} \in SUBSET Parts
        BY DEF Parts
      <4> QED BY <1>1, <3>2, <4>1, <4>2
    <3> QED BY <1>3, <3>1, <3>2
  <2>3. faults' \in 0..MaxFaults /\ faults' # 0
    BY <1>1, <1>3
  <2>4. TypeOK'
    <3>1. \A g \in Files : files'[g] \cap Fragments # {} => \E cut \in Fragments : files'[g] = {cut}
      BY <2>2 DEF StartupInv, TypeOK
    <3> QED BY <1>1, <2>1, <2>2, <2>3, <3>1 DEF StartupInv, TypeOK
  <2>5. TornInv'
    BY <2>2, <2>3 DEF StartupInv, TornInv
  <2>6. KeptInv'
    BY <2>2 DEF StartupInv, TypeOK, KeptInv
  <2> QED BY <2>1, <2>2, <2>3, <2>4, <2>5, <2>6
<1>4. Cut(f) \subseteq Fragments \cup {"odd"}
  BY DEF Cut, Fragments
<1> QED BY <1>2, <1>3, <1>4 DEF Write, Fault

\* What a merge, or a change of one value, makes of a file.
LEMMA MergedFile ==
    ASSUME StartupInv, NEW f \in Files, NEW new \in {Merged(files[f]), Amended(files[f])}
    PROVE  /\ new \in SUBSET (Whole \cup {"odd"}) /\ "site" \in new
           /\ "own" \in files[f] => "own" \in new
<1>1. files[f] \in SUBSET Parts
  BY DEF StartupInv, TypeOK
<1> QED BY <1>1 DEF Merged, Amended, Parts, Whole, Fragments

-----------------------------------------------------------------------------
(* Steps that write no file *)

LEMMA HomeStep ==
    ASSUME StartupInv, MakeHome \/ Chown \/ CheckHome
    PROVE  StartupInv'
<1>1. /\ pod.at \in {"inithome", "chown"} /\ UNCHANGED <<files, moved, backup, faults, owned, lost>>
      /\ owner' \in {"absent", "root", "user"}
      /\ \/ pod' = Goto("chown")
         \/ pod' = Goto("landing") /\ owner' = "user"
         \/ pod' = pod
  BY DEF MakeHome, Chown, CheckHome, At, StartupInv, TypeOK
<1>2. pod.home # "home" /\ ~pod.good
  BY <1>1 DEF StartupInv, ReadyInv, AfterCredentials
<1>3. /\ pod' \in Pods /\ pod'.start \in 1..MaxStarts /\ pod'.home # "home" /\ ~pod'.good
      /\ pod'.at \in {"inithome", "chown", "landing"}
      /\ pod'.at = "landing" => owner' = "user"
  <2>1. "chown" \in Steps /\ "landing" \in Steps /\ pod \in Pods
    BY DEF Steps, StartupInv
  <2>2. pod' \in Pods /\ pod'.home = pod.home /\ (pod'.good <=> pod.good)
    BY <1>1, <2>1, PodMoves
  <2>3. pod'.at \in {"inithome", "chown", "landing"} /\ (pod'.at = "landing" => owner' = "user")
    BY <1>1, <2>1, PodMoves
  <2> QED BY <1>2, <2>2, <2>3 DEF Pods
<1>4. ReadyInv'
  BY <1>3, NothingReady DEF AfterCredentials
<1> QED BY <1>1, <1>3, <1>4 DEF StartupInv, TypeOK, TornInv, KeptInv

\* These are before the credentials are merged, or after an error.
LEMMA EarlyStep ==
    ASSUME StartupInv, CopyPages \/ ConfigureEnv \/ TestSpace
    PROVE  StartupInv'
<1>1. pod.at \in {"landing", "env", "tidy"} /\ UNCHANGED <<disk, owned, lost>>
      /\ (faults' = faults \/ Fault)
  BY DEF CopyPages, ConfigureEnv, TestSpace, At
<1>2. pod.home # "home" /\ ~pod.good /\ owner = "user" /\ pod \in Pods
  BY <1>1 DEF StartupInv, ReadyInv, AfterCredentials, TypeOK
<1>3. /\ pod' \in Pods /\ pod'.home # "home" /\ ~pod'.good
      /\ pod'.at \in {"viewer", "startup", "tidy", "report", "credentials"}
      /\ pod'.at = "report" => pod'.abnormal
  <2>1. CASE CopyPages
    <3>1. PICK s \in {"viewer", "startup"} : pod' = Goto(s)
      BY <2>1 DEF CopyPages
    <3>2. s \in Steps
      BY DEF Steps
    <3>3. pod' \in Pods
      BY <3>1, <3>2, PodMoves
    <3>4. pod'.at = s
      BY <3>1, <3>2, PodMoves
    <3>5. pod'.home = pod.home
      BY <3>1, <3>2, PodMoves
    <3>6. ~pod'.good
      BY <1>2, <3>1, <3>2, PodMoves
    <3> QED BY <1>2, <3>3, <3>4, <3>5, <3>6
  <2>2. CASE ConfigureEnv
    BY <1>2, <2>2 DEF ConfigureEnv, Goto, Abnormal, Pods, Steps
  <2>3. CASE TestSpace
    <3>1. PICK p \in {pod, Abnormal("tidy")} : pod' = AfterTidy(p)
      BY <2>3 DEF TestSpace
    <3>2. p \in Pods /\ p.home # "home" /\ ~p.good
      <4>1. "tidy" \in Steps
        BY DEF Steps
      <4> QED BY <1>2, <3>1, <4>1, PodMoves
    <3> QED BY <3>1, <3>2 DEF AfterTidy, Pods, Steps
  <2> QED BY <2>1, <2>2, <2>3, <1>1 DEF CopyPages, ConfigureEnv, TestSpace
<1>4. ReadyInv'
  BY <1>3, NothingReady DEF AfterCredentials
<1> QED BY <1>1, <1>2, <1>3, <1>4, QuietStep DEF StartupInv

LEMMA KilledStep ==
    ASSUME StartupInv, Killed
    PROVE  StartupInv'
<1>1. pod' = Restarted /\ Fault /\ UNCHANGED <<disk, owned, lost>>
  BY DEF Killed
<1>2. ReadyInv'
  BY <1>1, RestartedPod, NothingReady DEF AfterCredentials
<1> QED BY <1>1, <1>2, RestartedPod, QuietStep DEF StartupInv

LEMMA NextLabStep ==
    ASSUME StartupInv, NextLab
    PROVE  StartupInv'
<1>1. PICK reset \in BOOLEAN : pod' = NewPod(reset, pod.start + 1)
  BY DEF NextLab
<1>2. pod.start + 1 \in 1..MaxStarts /\ UNCHANGED <<disk, faults, owned, lost>>
  BY BoundsAssumption DEF NextLab, StartupInv, TypeOK
<1>3. /\ pod' \in Pods /\ pod'.home # "home" /\ ~pod'.good /\ pod'.at = "inithome"
  BY <1>1, <1>2, NewPods
<1>4. ReadyInv'
  BY <1>3, NothingReady DEF AfterCredentials
<1> QED BY <1>2, <1>3, <1>4, QuietStep DEF StartupInv

\* The lab gets its home directory from the pod, which was normal if that is its
\* own.
LEMMA WriteStartupFilesStep ==
    ASSUME StartupInv, WriteStartupFiles
    PROVE  StartupInv'
<1>1. /\ pod.at = "report" /\ pod \in Pods /\ owner = "user" /\ pod.home # "home"
      /\ UNCHANGED <<disk, owned, lost>> /\ (faults' = faults \/ Fault)
  BY DEF WriteStartupFiles, At, StartupInv, TypeOK, ReadyInv
<1>2. CASE pod' = Goto("lab")
  <2>1. pod' \in Pods /\ pod'.home # "home" /\ pod'.at = "lab" /\ (pod'.good <=> pod.good)
    <3>1. "lab" \in Steps
      BY DEF Steps
    <3>2. PICK q : q = Goto("lab")
      OBVIOUS
    <3>3. q \in Pods /\ q.at = "lab" /\ q.home = pod.home /\ (q.good <=> pod.good)
      BY <3>1, <3>2, PodMoves
    <3> QED BY <1>1, <1>2, <3>2, <3>3
  <2>2. ReadyInv'
    BY <2>1 DEF ReadyInv, Normal, At, AfterCredentials, AfterDask
  <2> QED BY <1>1, <2>1, <2>2, QuietStep DEF StartupInv
<1>3. CASE /\ pod' = [Goto("lab") EXCEPT !.home = StartupHome,
                       !.welcome = IF pod.abnormal THEN "tmp" ELSE "none"]
           /\ faults' = faults
  <2>1. PICK h, w : h = StartupHome /\ w = IF pod.abnormal THEN "tmp" ELSE "none"
    OBVIOUS
  <2>2. /\ h \in {"home", "scratch", "tmp"} /\ w \in {"none", "tmp"}
        /\ h = "home" => ~pod.abnormal
    BY <2>1 DEF StartupHome
  <2>3. pod' = [Goto("lab") EXCEPT !.home = h, !.welcome = w]
    BY <1>3, <2>1
  <2>4. pod' \in Pods /\ pod'.home = h /\ pod'.at = "lab" /\ (pod'.good <=> pod.good)
    <3>1. "lab" \in Steps
      BY DEF Steps
    <3>2. PICK q : q = Goto("lab")
      OBVIOUS
    <3>3. q \in Pods /\ q.at = "lab" /\ (q.good <=> pod.good)
      BY <3>1, <3>2, PodMoves
    <3> QED BY <2>2, <2>3, <3>2, <3>3 DEF Pods
  <2>5. files' = files
    BY <1>1 DEF disk
  <2>6. ReadyInv'
    <3>1. CASE h # "home"
      BY <2>4, <3>1 DEF ReadyInv, Normal, At, AfterCredentials, AfterDask
    <3>2. CASE h = "home"
      <4>1. \A S : Normal(S)
        BY <1>1, <2>2, <3>2 DEF Normal
      <4>2. ReadyInv
        BY DEF StartupInv
      <4> QED BY <1>3, <2>4, <2>5, <4>1, <4>2 DEF ReadyInv, At
    <3> QED BY <3>1, <3>2
  <2> QED BY <1>1, <2>4, <2>6, QuietStep DEF StartupInv
<1> QED BY <1>2, <1>3 DEF WriteStartupFiles

-----------------------------------------------------------------------------
(* Steps that write *)

\* What a step of a container knows of its pod.
LEMMA PodSteps ==
    ASSUME StartupInv, pod.at \notin {"inithome", "chown", "lab"}
    PROVE  /\ pod \in Pods /\ owner = "user" /\ pod.home # "home"
           /\ pod.good => pod.at \in AfterCredentials \cup {"report"}
  BY DEF StartupInv, TypeOK, ReadyInv

\* After an error nothing is promised.
LEMMA GivenUp ==
    ASSUME StartupInv, pod.at \notin {"inithome", "chown", "lab"},
           pod' \in {Abnormal("report"), Restarted}
    PROVE  ReadyInv'
<1>1. "report" \in Steps
  BY DEF Steps
<1>2. /\ pod'.home # "home"
      /\ \/ pod'.at = "report" /\ pod'.abnormal
         \/ pod'.at \in {"inithome", "landing", "startup"} /\ ~pod'.good
  BY <1>1, PodSteps, PodMoves, RestartedPod
<1> QED BY <1>2, NothingReady DEF AfterCredentials

\* A container that fails in startup or before changes no file.
LEMMA FailsStep ==
    ASSUME StartupInv, pod.at \notin {"inithome", "chown", "lab"}, Fails,
           UNCHANGED <<owner, moved, backup, owned>>
    PROVE  StartupInv'
<1>1. UNCHANGED <<disk, owned, lost>> /\ pod' \in Pods /\ owner = "user"
  BY RestartedPod, PodSteps DEF disk, Fails
<1>2. TypeOK' /\ TornInv' /\ KeptInv'
  BY <1>1, QuietStep DEF Fails
<1>3. ReadyInv'
  BY GivenUp DEF Fails
<1> QED BY <1>1, <1>2, <1>3 DEF StartupInv

\* The copies of the home directory follow one after the other.
LEMMA StillReady ==
    ASSUME StartupInv, pod.at \in AfterDask, NEW step \in AfterDask, pod' = Goto(step),
           files'["credentials"] = files["credentials"],
           \A f \in Dask : files'[f] = files[f], faults' = 0 => faults = 0
    PROVE  ReadyInv'
<1>1. step \in Steps
  BY DEF Steps, AfterDask
<1>2. pod'.at = step /\ pod'.home = pod.home /\ (pod'.good <=> pod.good)
  BY <1>1, PodMoves
<1>3. pod.home # "home"
  BY PodSteps DEF AfterDask, AfterCredentials
<1>4. Normal(AfterCredentials) /\ Normal(AfterDask)
  BY DEF Normal, AfterDask
<1>5. /\ "site" \in files'["credentials"]
      /\ faults' = 0 => \E f \in Dask : "site" \in files'[f]
  BY <1>4 DEF StartupInv, ReadyInv
<1>6. ~Normal({})'
  BY <1>2, <1>3 DEF Normal, AfterDask, AfterCredentials
<1> QED BY <1>2, <1>3, <1>5, <1>6 DEF ReadyInv, AfterDask, AfterCredentials, At

LEMMA EditViewerStep ==
    ASSUME StartupInv, EditViewer
    PROVE  StartupInv'
<1>1. pod.at = "viewer" /\ UNCHANGED <<owner, moved, backup, owned>>
  BY DEF EditViewer, At
<1>2. pod \in Pods /\ owner = "user" /\ pod.home # "home" /\ ~pod.good
  BY <1>1, PodSteps DEF AfterCredentials
<1>3. "startup" \in Steps
  BY DEF Steps
<1>4. /\ Goto("startup") \in Pods /\ Goto("startup").at = "startup"
      /\ Goto("startup").home # "home" /\ ~Goto("startup").good
  BY <1>2, <1>3, PodMoves
<1>5. ASSUME pod' \in {Goto("startup"), Restarted}
      PROVE  ReadyInv'
  BY <1>4, <1>5, RestartedPod, NothingReady DEF AfterCredentials
<1>6. CASE pod' = Goto("startup") /\ UNCHANGED <<files, faults, lost>>
  BY <1>1, <1>2, <1>4, <1>5, <1>6, QuietStep DEF StartupInv, disk
<1>7. CASE Write("viewer", Amended(files["viewer"]), Goto("startup"), PageFailed)
  <2>1. "viewer" \in Files /\ backup' \in [Dask -> SUBSET Parts]
    BY <1>1 DEF Files, StartupInv, TypeOK
  <2>2. PICK g \in Pods : g = Goto("startup")
    BY <1>4
  <2>3. PICK f \in Files : f = "viewer"
    BY <2>1
  <2>4. PICK new : new = Amended(files[f])
    OBVIOUS
  <2>5. Write(f, new, g, g)
    BY <1>7, <2>2, <2>3, <2>4 DEF PageFailed
  <2>6. /\ TypeOK' /\ pod' \in Pods /\ TornInv' /\ KeptInv'
        /\ pod' \in {g, Restarted}
    BY <1>1, <1>2, <2>1, <2>4, <2>5, WriteStep, MergedFile
  <2> QED BY <1>5, <2>2, <2>6 DEF StartupInv
<1> QED BY <1>6, <1>7 DEF EditViewer, PageFailed

LEMMA RelocateDirStep ==
    ASSUME StartupInv, RelocateDir
    PROVE  StartupInv'
<1>1. pod.at = "startup" /\ UNCHANGED <<owner, backup, owned, lost>>
  BY DEF RelocateDir, At
<1>2. pod \in Pods /\ owner = "user" /\ pod.home # "home" /\ ~pod.good
  BY <1>1, PodSteps DEF AfterCredentials
<1>3. PICK d \in DOMAIN Dirs :
        \/ /\ files' = [f \in Files |-> IF f \in Dirs[d] THEN {} ELSE files[f]]
           /\ moved' = [f \in Files |-> IF f \in Dirs[d] THEN moved[f] \cup (files[f] \cap Users)
                                        ELSE moved[f]]
           /\ pod' = [pod EXCEPT !.reloc = TRUE]
           /\ UNCHANGED faults
        \/ /\ Fault
           /\ pod' = Abnormal("tidy")
           /\ UNCHANGED <<files, moved>>
  BY DEF RelocateDir
<1>4. CASE Fault /\ pod' = Abnormal("tidy") /\ UNCHANGED <<files, moved>>
  <2>1. "tidy" \in Steps
    BY DEF Steps
  <2>2. pod' \in Pods /\ pod'.home # "home" /\ ~pod'.good /\ pod'.at = "tidy"
    BY <1>2, <1>4, <2>1, PodMoves
  <2>3. ReadyInv'
    BY <2>2, NothingReady DEF AfterCredentials
  <2> QED BY <1>1, <1>2, <1>4, <2>2, <2>3, QuietStep DEF StartupInv, disk
<1>5. CASE /\ files' = [f \in Files |-> IF f \in Dirs[d] THEN {} ELSE files[f]]
           /\ moved' = [f \in Files |-> IF f \in Dirs[d] THEN moved[f] \cup (files[f] \cap Users)
                                        ELSE moved[f]]
           /\ pod' = [pod EXCEPT !.reloc = TRUE]
           /\ UNCHANGED faults
  <2>1. Dirs[d] \subseteq Files
    BY DEF Dirs, Files, Dask
  <2>2. /\ pod' \in Pods /\ pod'.home # "home" /\ ~pod'.good /\ pod'.at = "startup"
        /\ pod'.start \in 1..MaxStarts
    BY <1>1, <1>2, <1>5 DEF Pods
  <2>3. ReadyInv'
    BY <2>2, NothingReady DEF AfterCredentials
  <2>4. /\ files \in [Files -> SUBSET Parts]
        /\ \A f \in Files : (files'[f] = {} /\ f \in Dirs[d]) \/ files'[f] = files[f]
    BY <1>5 DEF StartupInv, TypeOK
  <2>5. TypeOK'
    <3>1. files' \in [Files -> SUBSET Parts]
      BY <1>5, <2>4
    <3>2. moved' \in [Files -> SUBSET Users]
      BY <1>5 DEF StartupInv, TypeOK
    <3> QED BY <1>1, <1>2, <1>5, <2>2, <2>4, <3>1, <3>2 DEF StartupInv, TypeOK
  <2>6. TornInv'
    BY <1>1, <1>5, <2>4 DEF StartupInv, TornInv
  <2>7. KeptInv'
    BY <1>1, <1>5, <2>4 DEF StartupInv, TypeOK, KeptInv, Users
  <2> QED BY <2>2, <2>3, <2>5, <2>6, <2>7 DEF StartupInv
<1> QED BY <1>3, <1>4, <1>5

LEMMA RelocateSetupsStep ==
    ASSUME StartupInv, RelocateSetups
    PROVE  StartupInv'
<1>1. pod.at = "startup" /\ UNCHANGED <<owner, backup, owned, lost>>
  BY DEF RelocateSetups, At
<1>2. pod \in Pods /\ owner = "user" /\ pod.home # "home" /\ ~pod.good
  BY <1>1, PodSteps DEF AfterCredentials
<1>3. "tidy" \in Steps /\ "env" \in Steps
  BY DEF Steps
<1>4. pod' \in {Goto("env"), Abnormal("tidy")}
  BY DEF RelocateSetups
<1>5. /\ pod' \in Pods /\ pod'.home # "home" /\ ~pod'.good /\ pod'.at \in {"tidy", "env"}
      /\ pod'.start \in 1..MaxStarts
  <2>1. pod' \in Pods /\ pod'.home # "home" /\ ~pod'.good /\ pod'.at \in {"tidy", "env"}
    BY <1>2, <1>3, <1>4, PodMoves
  <2> QED BY <2>1 DEF Pods
<1>6. ReadyInv'
  BY <1>5, NothingReady DEF AfterCredentials
<1>7. CASE UNCHANGED <<files, moved>> /\ (faults' = faults \/ Fault)
  BY <1>1, <1>2, <1>5, <1>6, <1>7, QuietStep DEF StartupInv, disk
<1>8. CASE /\ files' = [files EXCEPT !["setups"] = {}]
           /\ moved' = [moved EXCEPT !["setups"] = @ \cup (files["setups"] \cap Users)]
           /\ UNCHANGED faults
  <2>1. PICK s \in Files : s = "setups"
    BY DEF Files
  <2>2. /\ files' \in [Files -> SUBSET Parts]
        /\ files'[s] = {} /\ \A f \in Files \ {s} : files'[f] = files[f]
    BY <1>8, <2>1 DEF StartupInv, TypeOK
  <2>3. TypeOK'
    <3>1. moved' \in [Files -> SUBSET Users]
      BY <1>8, <2>1 DEF StartupInv, TypeOK
    <3> QED BY <1>1, <1>2, <1>5, <1>8, <2>1, <2>2, <3>1 DEF StartupInv, TypeOK
  <2>4. TornInv'
    BY <1>1, <1>8, <2>2 DEF StartupInv, TornInv
  <2>5. KeptInv'
    BY <1>1, <1>8, <2>1, <2>2 DEF StartupInv, TypeOK, KeptInv, Users
  <2> QED BY <1>5, <1>6, <2>3, <2>4, <2>5 DEF StartupInv
<1> QED BY <1>7, <1>8 DEF RelocateSetups

LEMMA MergeCredentialsStep ==
    ASSUME StartupInv, MergeCredentials
    PROVE  StartupInv'
<1>1. pod.at = "credentials" /\ UNCHANGED <<owner, moved, backup, owned>>
  BY DEF MergeCredentials, At
<1>2. pod \in Pods /\ owner = "user" /\ pod.home # "home" /\ ~pod.good
  BY <1>1, PodSteps DEF AfterCredentials
<1>3. "dask" \in Steps /\ "report" \in Steps
  BY DEF Steps, AfterCredentials
<1>4. PICK f \in Files : f = "credentials"
  BY DEF Files
<1>5. PICK new : new = Merged(files[f])
  OBVIOUS
<1>6. PICK done : done = [Goto("dask") EXCEPT !.dask = {g \in Dask : files[g] # {}}]
  OBVIOUS
<1>7. /\ done \in Pods /\ done.at = "dask" /\ done.home # "home" /\ ~done.good
  <2>1. PICK q : q = Goto("dask")
    OBVIOUS
  <2>2. q \in Pods /\ q.at = "dask" /\ q.home # "home" /\ ~q.good
    BY <1>2, <1>3, <2>1, PodMoves
  <2> QED BY <1>6, <2>1, <2>2 DEF Pods
<1>8. PICK failed \in Pods : failed = Abnormal("report")
  BY <1>3, PodMoves
<1>9. backup' \in [Dask -> SUBSET Parts]
  BY <1>1 DEF StartupInv, TypeOK
<1>10. CASE Write(f, new, done, failed)
  <2>1. /\ TypeOK' /\ pod' \in Pods /\ TornInv' /\ KeptInv'
        /\ (pod' = done /\ files'[f] = new) \/ pod' \in {failed, Restarted}
    BY <1>1, <1>2, <1>5, <1>7, <1>9, <1>10, WriteStep, MergedFile
  <2>2. CASE pod' = done /\ files'[f] = new
    <3>1. "site" \in files'["credentials"]
      BY <1>4, <1>5, <2>2, MergedFile
    <3>2. ReadyInv'
      BY <1>7, <2>2, <3>1 DEF ReadyInv, Normal, At, AfterCredentials, AfterDask
    <3> QED BY <2>1, <3>2 DEF StartupInv
  <2>3. CASE pod' \in {failed, Restarted}
    BY <1>1, <1>8, <2>1, <2>3, GivenUp DEF StartupInv
  <2> QED BY <2>1, <2>2, <2>3
<1>11. CASE Fails
  BY <1>1, <1>11, FailsStep
<1> QED BY <1>4, <1>5, <1>6, <1>8, <1>10, <1>11 DEF MergeCredentials

\* The copies that startup makes and the .gitconfig, with Write or as a whole.
LEMMA SetupGitLfsStep ==
    ASSUME StartupInv, SetupGitLfs
    PROVE  StartupInv'
<1>1. pod.at = "gitlfs" /\ UNCHANGED <<owner, moved, backup, owned, lost>>
  BY DEF SetupGitLfs, At
<1>2. pod \in Pods /\ owner = "user" /\ pod.home # "home" /\ pod.at \in AfterDask
  BY <1>1, PodSteps DEF AfterDask, AfterCredentials
<1>3. "report" \in Steps /\ "profile" \in Steps /\ "profile" \in AfterDask
  BY DEF Steps, AfterDask, AfterCredentials
<1>4. PICK f \in Files : f = "gitconfig"
  BY DEF Files
<1>5. f \notin Dask \cup {"credentials"}
  BY <1>4 DEF Dask
<1>6. CASE Fault /\ pod' \in {Goto("profile"), Abnormal("report")} /\ UNCHANGED files
  <2>1. pod' \in Pods
    BY <1>3, <1>6, PodMoves
  <2>2. owner = "user" /\ UNCHANGED <<disk, owned, lost>>
    BY <1>1, <1>2, <1>6 DEF disk
  <2>3. TypeOK' /\ TornInv' /\ KeptInv'
    BY <1>6, <2>1, <2>2, QuietStep
  <2>4. faults' # 0
    BY <1>6, BoundsAssumption DEF Fault, StartupInv, TypeOK
  <2>5. ReadyInv'
    <3>1. CASE pod' = Goto("profile")
      BY <1>2, <1>3, <1>6, <2>4, <3>1, StillReady
    <3>2. CASE pod' = Abnormal("report")
      BY <1>1, <3>2, GivenUp
    <3> QED BY <1>6, <3>1, <3>2
  <2> QED BY <2>1, <2>3, <2>5 DEF StartupInv
<1>7. CASE /\ files' = [files EXCEPT ![f] = Amended(files[f])]
           /\ pod' = Goto("profile")
           /\ UNCHANGED faults
  <2>1. PICK done \in Pods : done = Goto("profile")
    BY <1>3, PodMoves
  <2>2. PICK new : new = Amended(files[f])
    OBVIOUS
  <2>3. Write(f, new, done, done)
    BY <1>1, <1>7, <2>1, <2>2 DEF Write
  <2>4. backup' \in [Dask -> SUBSET Parts]
    BY <1>1 DEF StartupInv, TypeOK
  <2>5. /\ TypeOK' /\ pod' \in Pods /\ TornInv' /\ KeptInv'
        /\ \A g \in Files \ {f} : files'[g] = files[g]
    BY <1>1, <1>2, <2>2, <2>3, <2>4, WriteStep, MergedFile
  <2>6. files'["credentials"] = files["credentials"] /\ \A g \in Dask : files'[g] = files[g]
    BY <1>5, <2>5 DEF Files
  <2>7. ReadyInv'
    BY <1>2, <1>3, <1>7, <2>6, StillReady
  <2> QED BY <2>5, <2>7 DEF StartupInv
<1> QED BY <1>4, <1>6, <1>7 DEF SetupGitLfs

\* A step that copies a file or leaves it as it is, and goes on.
LEMMA CopyStep ==
    ASSUME StartupInv, pod.at \in AfterDask, NEW step \in AfterDask,
           NEW f \in Files \ (Dask \cup {"credentials"}),
           UNCHANGED <<owner, moved, backup, owned>>,
           \/ Write(f, {"site"}, Goto(step), Abnormal("report")) /\ "own" \notin files[f]
           \/ pod' = Goto(step) /\ UNCHANGED <<files, faults, lost>>
    PROVE  StartupInv'
<1>1. pod \in Pods /\ owner = "user" /\ pod.at \notin {"inithome", "chown", "lab"}
  BY PodSteps DEF AfterDask, AfterCredentials
<1>2. step \in Steps /\ "report" \in Steps
  BY DEF Steps, AfterDask
<1>3. PICK done \in Pods : done = Goto(step)
  BY <1>2, PodMoves
<1>4. PICK failed \in Pods : failed = Abnormal("report")
  BY <1>2, PodMoves
<1>5. CASE pod' = Goto(step) /\ UNCHANGED <<files, faults, lost>>
  <2>1. UNCHANGED <<disk, owned, lost>> /\ pod' \in Pods
    BY <1>3, <1>5 DEF disk
  <2>2. TypeOK' /\ TornInv' /\ KeptInv'
    BY <1>1, <1>5, <2>1, QuietStep
  <2>3. ReadyInv'
    BY <1>5, StillReady
  <2> QED BY <2>1, <2>2, <2>3 DEF StartupInv
<1>6. CASE Write(f, {"site"}, Goto(step), Abnormal("report")) /\ "own" \notin files[f]
  <2>1. Write(f, {"site"}, done, failed) /\ {"site"} \in SUBSET (Whole \cup {"odd"})
    BY <1>3, <1>4, <1>6 DEF Whole
  <2>2. backup' \in [Dask -> SUBSET Parts]
    BY DEF StartupInv, TypeOK
  <2>3. /\ TypeOK' /\ pod' \in Pods /\ TornInv' /\ KeptInv'
        /\ \A g \in Files \ {f} : files'[g] = files[g]
        /\ (pod' = done /\ faults' = faults) \/ pod' \in {failed, Restarted}
    BY <1>1, <1>6, <2>1, <2>2, WriteStep
  <2>4. files'["credentials"] = files["credentials"] /\ \A g \in Dask : files'[g] = files[g]
    BY <2>3 DEF Files
  <2>5. ReadyInv'
    <3>1. CASE pod' = done /\ faults' = faults
      BY <1>3, <2>4, <3>1, StillReady
    <3>2. CASE pod' \in {failed, Restarted}
      BY <1>1, <1>4, <3>2, GivenUp
    <3> QED BY <2>3, <3>1, <3>2
  <2> QED BY <2>3, <2>5 DEF StartupInv
<1> QED BY <1>5, <1>6

LEMMA CopyProfileStep ==
    ASSUME StartupInv, CopyProfile
    PROVE  StartupInv'
<1>1. pod.at \in AfterDask /\ "skel" \in AfterDask
  BY DEF CopyProfile, At, AfterDask, AfterCredentials
<1>2. PICK f \in Files \ (Dask \cup {"credentials"}) : f = "profile"
  BY DEF Files, Dask
<1>3. PICK step \in AfterDask : step = "skel"
  BY <1>1
<1>4. /\ UNCHANGED <<owner, moved, backup, owned>>
      /\ \/ Write(f, {"site"}, Goto(step), Abnormal("report")) /\ "own" \notin files[f]
         \/ pod' = Goto(step) /\ UNCHANGED <<files, faults, lost>>
  BY <1>2, <1>3 DEF CopyProfile, MayReplace
<1> QED BY <1>1, <1>4, CopyStep

LEMMA CopySkelStep ==
    ASSUME StartupInv, CopySkel
    PROVE  StartupInv'
<1>1. pod.at \in AfterDask /\ "settings" \in AfterDask
  BY DEF CopySkel, At, AfterDask, AfterCredentials
<1>2. PICK f \in Files \ (Dask \cup {"credentials"}) : f = "skel"
  BY DEF Files, Dask
<1>3. PICK step \in AfterDask : step = "settings"
  BY <1>1
<1>4. /\ UNCHANGED <<owner, moved, backup, owned>>
      /\ \/ Write(f, {"site"}, Goto(step), Abnormal("report")) /\ "own" \notin files[f]
         \/ pod' = Goto(step) /\ UNCHANGED <<files, faults, lost>>
  BY <1>2, <1>3 DEF CopySkel
<1> QED BY <1>1, <1>4, CopyStep

\* Startup is not normal before it has looked at JupyterLab's settings.
LEMMA IncreaseLogLimitStep ==
    ASSUME StartupInv, IncreaseLogLimit
    PROVE  StartupInv'
<1>1. pod.at = "settings" /\ UNCHANGED <<owner, moved, backup, owned>>
  BY DEF IncreaseLogLimit, At
<1>2. pod \in Pods /\ owner = "user" /\ pod.home # "home"
  BY <1>1, PodSteps
<1>3. "report" \in Steps
  BY DEF Steps
<1>4. PICK f \in Files : f = "settings"
  BY DEF Files
<1>5. PICK done \in Pods : done = Goto("report")
  BY <1>3, PodMoves
<1>6. done.at = "report" /\ done.home # "home" /\ (done.good <=> pod.good)
  BY <1>2, <1>3, <1>5, PodMoves
<1>7. PICK failed \in Pods : failed = Abnormal("report")
  BY <1>3, PodMoves
<1>8. backup' \in [Dask -> SUBSET Parts]
  BY <1>1 DEF StartupInv, TypeOK
<1>9. ASSUME pod' = done, faults' = faults, "site" \in files'[f],
             \A g \in Files \ {f} : files'[g] = files[g]
      PROVE  ReadyInv'
  <2>1. files'["credentials"] = files["credentials"] /\ \A g \in Dask : files'[g] = files[g]
    BY <1>4, <1>9 DEF Files, Dask
  <2>2. Normal(AfterCredentials) /\ Normal(AfterDask)
    BY <1>1 DEF Normal, AfterDask, AfterCredentials
  <2>3. /\ "site" \in files'["credentials"] /\ "site" \in files'["settings"]
        /\ faults' = 0 => \E g \in Dask : "site" \in files'[g]
    BY <1>4, <1>9, <2>1, <2>2 DEF StartupInv, ReadyInv
  <2> QED BY <1>6, <1>9, <2>3 DEF ReadyInv, At
<1>10. CASE Fails
  BY <1>1, <1>10, FailsStep
<1>11. CASE pod' = done /\ UNCHANGED <<files, faults, lost>> /\ "site" \in files[f]
  <2>1. UNCHANGED <<disk, owned, lost>> /\ pod' \in Pods
    BY <1>1, <1>11 DEF disk
  <2>2. TypeOK' /\ TornInv' /\ KeptInv'
    BY <1>2, <1>11, <2>1, QuietStep
  <2>3. ReadyInv'
    BY <1>9, <1>11
  <2> QED BY <2>1, <2>2, <2>3 DEF StartupInv
<1>12. CASE Write(f, Amended(files[f]), done, failed)
  <2>1. PICK new : new = Amended(files[f])
    OBVIOUS
  <2>2. Write(f, new, done, failed)
    BY <1>12, <2>1
  <2>3. /\ TypeOK' /\ pod' \in Pods /\ TornInv' /\ KeptInv'
        /\ \A g \in Files \ {f} : files'[g] = files[g]
        /\ (pod' = done /\ files'[f] = new /\ faults' = faults) \/ pod' \in {failed, Restarted}
    BY <1>1, <1>2, <1>8, <2>1, <2>2, WriteStep, MergedFile
  <2>4. ReadyInv'
    <3>1. CASE pod' = done /\ files'[f] = new /\ faults' = faults
      <4>1. "site" \in files'[f]
        BY <2>1, <3>1, MergedFile
      <4> QED BY <1>9, <2>3, <3>1, <4>1
    <3>2. CASE pod' \in {failed, Restarted}
      BY <1>1, <1>7, <3>2, GivenUp
    <3> QED BY <2>3, <3>1, <3>2
  <2> QED BY <2>3, <2>4 DEF StartupInv
<1> QED BY <1>4, <1>5, <1>7, <1>10, <1>11, <1>12 DEF IncreaseLogLimit

-----------------------------------------------------------------------------
(* The dask configuration *)

\* Once the loop over the dask files says that a link is good, or the proxy was
\* injected, some file has it.
LEMMA DaskReady ==
    ASSUME StartupInv, pod.at = "dask", pod'.at \in {"dask", "gitlfs"}, pod'.home # "home",
           files'["credentials"] = files["credentials"],
           pod'.good \/ pod'.at = "gitlfs" => (faults' = 0 => \E f \in Dask : "site" \in files'[f])
    PROVE  ReadyInv'
<1>1. "site" \in files'["credentials"]
  BY DEF StartupInv, ReadyInv, Normal, AfterCredentials
<1>2. /\ pod'.at \in AfterCredentials /\ ~Normal({})' /\ pod'.at # "report"
      /\ Normal(AfterDask)' => pod'.at = "gitlfs"
  BY DEF AfterCredentials, AfterDask, Normal
<1> QED BY <1>1, <1>2 DEF ReadyInv, At

LEMMA LookedPod ==
    ASSUME StartupInv, pod.at = "dask", NEW f \in Dask, NEW good \in BOOLEAN
    PROVE  /\ Looked(f, good) \in Pods /\ Looked(f, good).at = "dask"
           /\ Looked(f, good).home # "home" /\ (Looked(f, good).good <=> good)
<1>1. pod \in Pods /\ pod.home # "home"
  BY PodSteps
<1> QED BY <1>1 DEF Looked, Pods

LEMMA TidyDaskStep ==
    ASSUME StartupInv, TidyDask
    PROVE  StartupInv'
<1>1. pod.at = "dask" /\ UNCHANGED <<owner, moved, owned>>
  BY DEF TidyDask, At
<1>2. pod \in Pods /\ owner = "user" /\ pod.home # "home"
  BY <1>1, PodSteps
<1>3. pod.dask \subseteq Dask /\ pod.good \in BOOLEAN
  BY <1>2 DEF Pods
<1>4. PICK f \in pod.dask :
         \/ "odd" \in files[f] /\ Fails /\ UNCHANGED backup
         \/ /\ files[f] \cap Fragments # {}
            /\ \/ /\ files' = [files EXCEPT ![f] = {}]
                  /\ backup' = [backup EXCEPT ![f] = files[f]]
                  /\ pod' = Looked(f, pod.good)
                  /\ UNCHANGED <<faults, lost>>
               \/ /\ Fault
                  /\ pod' = Abnormal("report")
                  /\ UNCHANGED <<files, backup, lost>>
               \/ /\ "short" \in files[f]
                  /\ \E isGood \in BOOLEAN : pod' = Looked(f, LinkGood(isGood))
                  /\ UNCHANGED <<files, backup, faults, lost>>
         \/ /\ "old" \in files[f] /\ "odd" \notin files[f]
            /\ \/ /\ backup' = [backup EXCEPT ![f] = files[f]]
                  /\ Write(f, Amended(files[f]), Looked(f, LinkGood(TRUE)),
                           Looked(f, LinkGood(FALSE)))
               \/ /\ Fault
                  /\ pod' = Looked(f, LinkGood(FALSE))
                  /\ UNCHANGED <<files, backup, lost>>
         \/ /\ files[f] \subseteq Users \cup {"site"}
            /\ pod' = Looked(f, LinkGood("site" \in files[f]))
            /\ UNCHANGED <<files, backup, faults, lost>>
  BY DEF TidyDask
<1>5. f \in Dask /\ f \in Files /\ f # "credentials"
  BY <1>3 DEF Files, Dask
<1>6. /\ files \in [Files -> SUBSET Parts] /\ files[f] \subseteq Parts
      /\ backup \in [Dask -> SUBSET Parts]
  BY <1>5 DEF StartupInv, TypeOK
<1>7. "report" \in Steps /\ "credentials" \in Files
  BY DEF Steps, Files
<1>8. CASE /\ files[f] \cap Fragments # {}
           /\ files' = [files EXCEPT ![f] = {}]
           /\ backup' = [backup EXCEPT ![f] = files[f]]
           /\ pod' = Looked(f, pod.good)
           /\ UNCHANGED <<faults, lost>>
  <2>1. /\ files' \in [Files -> SUBSET Parts] /\ files'[f] = {}
        /\ \A g \in Files \ {f} : files'[g] = files[g]
        /\ backup' \in [Dask -> SUBSET Parts]
    <3>1. files' \in [Files -> SUBSET Parts] /\ files'[f] = {}
      BY <1>5, <1>6, <1>8
    <3>2. \A g \in Files \ {f} : files'[g] = files[g]
      BY <1>5, <1>6, <1>8
    <3>3. backup' \in [Dask -> SUBSET Parts]
      BY <1>5, <1>6, <1>8
    <3> QED BY <3>1, <3>2, <3>3
  <2>2. pod' \in Pods /\ pod'.at = "dask" /\ pod'.home # "home"
    BY <1>1, <1>3, <1>5, <1>8, LookedPod
  <2>3. pod'.start \in 1..MaxStarts
    BY <2>2 DEF Pods
  <2>4. TypeOK'
    BY <1>1, <1>2, <1>8, <2>1, <2>3 DEF StartupInv, TypeOK
  <2>5. f \in lost /\ faults # 0
    BY <1>5, <1>8 DEF StartupInv, TornInv
  <2>6. TornInv'
    BY <1>8, <2>1 DEF StartupInv, TornInv
  <2>7. KeptInv'
    BY <1>1, <1>8, <2>1, <2>5 DEF StartupInv, TypeOK, KeptInv
  <2>8. ReadyInv'
    BY <1>1, <1>5, <1>7, <1>8, <2>1, <2>2, <2>5, DaskReady
  <2> QED BY <2>2, <2>4, <2>6, <2>7, <2>8 DEF StartupInv
<1>9. CASE pod' = Abnormal("report") /\ Fault /\ UNCHANGED <<files, backup, lost>>
  <2>1. UNCHANGED <<disk, owned, lost>> /\ pod' \in Pods
    BY <1>1, <1>7, <1>9, PodMoves DEF disk
  <2>2. TypeOK' /\ TornInv' /\ KeptInv'
    BY <1>2, <1>9, <2>1, QuietStep
  <2>3. ReadyInv'
    BY <1>1, <1>9, GivenUp
  <2> QED BY <2>1, <2>2, <2>3 DEF StartupInv
<1>10. CASE /\ backup' = [backup EXCEPT ![f] = files[f]]
            /\ Write(f, Amended(files[f]), Looked(f, LinkGood(TRUE)), Looked(f, LinkGood(FALSE)))
  <2>1. PICK done \in Pods : done = Looked(f, TRUE)
    BY <1>1, <1>5, LookedPod
  <2>2. PICK failed \in Pods : failed = Looked(f, FALSE)
    BY <1>1, <1>5, LookedPod
  <2>3. PICK new : new = Amended(files[f])
    OBVIOUS
  <2>4. Write(f, new, done, failed)
    BY <1>10, <2>1, <2>2, <2>3 DEF LinkGood
  <2>5. backup' \in [Dask -> SUBSET Parts]
    BY <1>5, <1>6, <1>10
  <2>6. /\ TypeOK' /\ pod' \in Pods /\ TornInv' /\ KeptInv'
        /\ \A g \in Files \ {f} : files'[g] = files[g]
        /\ \/ pod' = done /\ files'[f] = new
           \/ pod' \in {failed, Restarted} /\ faults' # 0
    BY <1>1, <1>2, <1>5, <2>3, <2>4, <2>5, WriteStep, MergedFile
  <2>7. files'["credentials"] = files["credentials"]
    BY <1>5, <1>7, <2>6
  <2>8. ReadyInv'
    <3>1. CASE pod' = done /\ files'[f] = new
      <4>1. pod'.at = "dask" /\ pod'.home # "home"
        BY <1>1, <1>5, <2>1, <3>1, LookedPod
      <4>2. "site" \in files'[f]
        BY <1>5, <2>3, <3>1, MergedFile
      <4> QED BY <1>1, <1>5, <2>7, <4>1, <4>2, DaskReady
    <3>2. CASE pod' = failed /\ faults' # 0
      <4>1. pod'.at = "dask" /\ pod'.home # "home"
        BY <1>1, <1>5, <2>2, <3>2, LookedPod
      <4> QED BY <1>1, <2>7, <3>2, <4>1, DaskReady
    <3>3. CASE pod' = Restarted
      BY <1>1, <3>3, GivenUp
    <3> QED BY <2>6, <3>1, <3>2, <3>3
  <2> QED BY <2>6, <2>8 DEF StartupInv
<1>11. ASSUME NEW good \in BOOLEAN, pod' = Looked(f, good), faults' = faults \/ Fault,
              UNCHANGED <<files, backup, lost>>, good => "site" \in files[f] \/ faults' # 0
       PROVE  StartupInv'
  <2>1. pod' \in Pods /\ pod'.at = "dask" /\ pod'.home # "home" /\ (pod'.good <=> good)
    BY <1>1, <1>5, <1>11, LookedPod
  <2>2. UNCHANGED <<disk, owned, lost>>
    BY <1>1, <1>11 DEF disk
  <2>3. TypeOK' /\ TornInv' /\ KeptInv'
    BY <1>2, <1>11, <2>1, <2>2, QuietStep
  <2>4. ReadyInv'
    BY <1>1, <1>5, <1>11, <2>1, DaskReady
  <2> QED BY <2>1, <2>3, <2>4 DEF StartupInv
<1>12. CASE Fault /\ pod' = Looked(f, LinkGood(FALSE)) /\ UNCHANGED <<files, backup, lost>>
  BY <1>11, <1>12 DEF LinkGood
<1>13. CASE /\ pod' = Looked(f, LinkGood("site" \in files[f]))
            /\ UNCHANGED <<files, backup, faults, lost>>
  <2>1. PICK good \in BOOLEAN : good = ("site" \in files[f])
    <3>1. ("site" \in files[f]) \in BOOLEAN
      OBVIOUS
    <3> QED BY <3>1, Zenon
  <2>2. pod' = Looked(f, good)
    BY <1>13, <2>1, Zenon DEF LinkGood
  <2> QED BY <1>11, <1>13, <2>1, <2>2
<1>14. CASE /\ files[f] \cap Fragments # {} /\ UNCHANGED <<files, backup, faults, lost>>
            /\ \E isGood \in BOOLEAN : pod' = Looked(f, LinkGood(isGood))
  <2>1. PICK isGood \in BOOLEAN : pod' = Looked(f, isGood)
    BY <1>14 DEF LinkGood
  <2>2. faults' # 0
    BY <1>5, <1>14 DEF StartupInv, TornInv
  <2> QED BY <1>11, <1>14, <2>1, <2>2
<1>15. CASE Fails /\ UNCHANGED backup
  BY <1>1, <1>15, FailsStep
<1> QED BY <1>4, <1>8, <1>9, <1>10, <1>12, <1>13, <1>14, <1>15

LEMMA InjectProxyStep ==
    ASSUME StartupInv, InjectProxy
    PROVE  StartupInv'
<1>1. pod.at = "dask" /\ UNCHANGED <<owner, moved, backup, owned>>
  BY DEF InjectProxy, At
<1>2. pod \in Pods /\ owner = "user" /\ pod.home # "home"
  BY <1>1, PodSteps
<1>3. "gitlfs" \in Steps
  BY DEF Steps, AfterCredentials
<1>4. PICK f \in Files : f = "dashboard"
  BY DEF Files, Dask
<1>5. f \in Dask /\ f # "credentials" /\ "credentials" \in Files
  BY <1>4 DEF Dask, Files
<1>6. PICK done \in Pods : done = Goto("gitlfs")
  BY <1>3, PodMoves
<1>7. done.at = "gitlfs" /\ done.home # "home"
  BY <1>2, <1>3, <1>6, PodMoves
<1>8. backup' \in [Dask -> SUBSET Parts]
  BY <1>1 DEF StartupInv, TypeOK
<1>9. CASE (pod.good \/ files[f] = {"site"}) /\ pod' = done /\ UNCHANGED <<files, faults, lost>>
  <2>1. UNCHANGED <<disk, owned, lost>> /\ pod' \in Pods
    BY <1>1, <1>9 DEF disk
  <2>2. TypeOK' /\ TornInv' /\ KeptInv'
    BY <1>2, <1>9, <2>1, QuietStep
  <2>3. faults = 0 => \E g \in Dask : "site" \in files[g]
    BY <1>1, <1>5, <1>9 DEF StartupInv, ReadyInv, At
  <2>4. ReadyInv'
    BY <1>1, <1>7, <1>9, <2>3, DaskReady
  <2> QED BY <2>1, <2>2, <2>4 DEF StartupInv
<1>10. CASE Write(f, Merged(files[f]), done, done)
  <2>0. PICK new : new = Merged(files[f])
    OBVIOUS
  <2>1. /\ new \in SUBSET (Whole \cup {"odd"}) /\ "site" \in new
        /\ "own" \in files[f] => "own" \in new
        /\ Write(f, new, done, done)
    BY <1>10, <2>0, MergedFile
  <2>2. /\ TypeOK' /\ pod' \in Pods /\ TornInv' /\ KeptInv'
        /\ \A g \in Files \ {f} : files'[g] = files[g]
        /\ \/ pod' = done /\ files'[f] = new
           \/ pod' \in {done, Restarted} /\ faults' # 0
    BY <1>1, <1>2, <1>4, <1>8, <2>1, WriteStep
  <2>3. files'["credentials"] = files["credentials"]
    BY <1>5, <2>2
  <2>4. ReadyInv'
    <3>1. CASE pod' = done
      BY <1>1, <1>5, <1>7, <2>1, <2>2, <2>3, <3>1, DaskReady
    <3>2. CASE pod' = Restarted
      BY <1>1, <3>2, GivenUp
    <3> QED BY <2>2, <3>1, <3>2
  <2> QED BY <2>2, <2>4 DEF StartupInv
<1>11. CASE Fault /\ pod' = Abnormal("report") /\ UNCHANGED <<files, lost>>
  <2>1. "report" \in Steps
    BY DEF Steps
  <2>2. UNCHANGED <<disk, owned, lost>> /\ pod' \in Pods
    BY <1>1, <1>11, <2>1, PodMoves DEF disk
  <2>3. TypeOK' /\ TornInv' /\ KeptInv'
    BY <1>2, <1>11, <2>2, QuietStep
  <2>4. ReadyInv'
    BY <1>1, <1>11, GivenUp
  <2> QED BY <2>2, <2>3, <2>4 DEF StartupInv
<1>12. CASE Fails
  BY <1>1, <1>12, FailsStep
<1> QED BY <1>4, <1>6, <1>9, <1>10, <1>11, <1>12 DEF InjectProxy

-----------------------------------------------------------------------------
(* The theorems *)

LEMMA StartupInit == Init => StartupInv
<1> SUFFICES ASSUME Init
             PROVE  StartupInv
  OBVIOUS
<1>1. PICK reset \in BOOLEAN : pod = NewPod(reset, 1)
  BY DEF Init
<1>2. 1 \in 1..MaxStarts /\ 0 \in 0..MaxFaults
  BY BoundsAssumption
<1>3. pod \in Pods /\ pod.start = 1 /\ pod.at = "inithome" /\ ~pod.good /\ pod.home = "none"
  BY <1>1, <1>2, NewPods
<1>4. files \in [Files -> SUBSET (Whole \cup {"odd"})]
  BY InitiallyAssumption DEF Init
<1>5. \A f \in Files : files[f] \cap Fragments = {}
  BY <1>4 DEF Whole, Users, Fragments
<1>6. TypeOK
  <2>1. files \in [Files -> SUBSET Parts]
    BY <1>4 DEF Parts
  <2>2. backup \in [Dask -> SUBSET Parts]
    BY DEF Init
  <2>3. moved \in [Files -> SUBSET Users] /\ owned \in [Files -> SUBSET Users]
    BY DEF Init
  <2> QED BY <1>2, <1>3, <1>5, <2>1, <2>2, <2>3 DEF Init, TypeOK
<1>7. TornInv /\ KeptInv
  BY <1>5 DEF Init, TornInv, KeptInv
<1>8. ReadyInv
  BY <1>3 DEF ReadyInv, Normal, At, AfterCredentials, AfterDask
<1> QED BY <1>3, <1>6, <1>7, <1>8 DEF StartupInv

LEMMA StartupNext == StartupInv /\ [Next]_vars => StartupInv'
<1> SUFFICES ASSUME StartupInv, [Next]_vars
             PROVE  StartupInv'
  OBVIOUS
<1>1. CASE UNCHANGED vars
  BY <1>1 DEF vars, StartupInv, TypeOK, TornInv, KeptInv, ReadyInv, Normal, At
<1>2. CASE Containers
  BY <1>2, HomeStep, EarlyStep, EditViewerStep, RelocateDirStep, RelocateSetupsStep,
     MergeCredentialsStep, TidyDaskStep, InjectProxyStep, SetupGitLfsStep, CopyProfileStep,
     CopySkelStep, IncreaseLogLimitStep, WriteStartupFilesStep DEF Containers
<1> QED BY <1>1, <1>2, KilledStep, NextLabStep DEF Next

\* What holds of the disk and of the init containers between any two steps.
THEOREM StartupInvariant == Spec => []StartupInv
  BY StartupInit, StartupNext, PTL DEF Spec

\* Whatever fails, however often a container is killed, fails, is started again or
\* told to reset the environment: what the user had in a file where the site has
\* nothing is in it, or was moved with it, unless a write of that very file stopped
\* half way.  No copy is needed for it.  What the user had in sections, connections
\* and keys of the site's is not promised (credentials.py, dask.py).
THEOREM UserDataIsKept == Spec => []UserDataKept
<1>1. StartupInv => UserDataKept
  BY DEF StartupInv, KeptInv, UserDataKept
<1> QED BY <1>1, StartupInvariant, PTL

\* A lab that is told that its startup was normal has the credentials and the
\* settings the site requires, and a link of dask unless something failed.
THEOREM StartupConsistent == Spec => []Consistent
<1>1. StartupInv => Consistent
  <2>1. ASSUME StartupInv, At("lab"), pod.home = "home"
        PROVE  /\ "site" \in files["credentials"] \cap files["settings"]
               /\ faults = 0 => \E f \in Dask : "site" \in files[f]
    <3>1. \A S : Normal(S)
      BY <2>1 DEF Normal
    <3> QED BY <2>1, <3>1 DEF StartupInv, ReadyInv
  <2> QED BY <2>1 DEF StartupInv, Consistent, NormalIsReady
<1> QED BY <1>1, StartupInvariant, PTL

-----------------------------------------------------------------------------
(* The file system admin instance *)

\* What a request knows at each of its steps, besides that it has the lock: a
\* delete that has come to the volume claim has seen the pod go, and nobody
\* can have created another but a create that failed.
AdminKnows(r) ==
    /\ calls[r].at \in {"create", "again", "phase", "final"} => kinds[r] = "create"
    /\ calls[r].at = "status" => kinds[r] # "delete"
    /\ /\ kinds[r] # "create"
       /\ calls[r].at \in {"delete", "gone"}
       => /\ kinds[r] = "delete"
          /\ calls[r].obj = "pvc" => exists["pod"] = "absent" \/ Service!Late
    /\ calls[r].at # "done" => replies[r] = "none"

\* What is created behind everybody's back is a create's that failed.
StraysKnown == \A o \in Objects : Call("create", o) \in strays => Service!Late

AdminInv == AdminTypeOK /\ StraysKnown /\ \A r \in Requests : AdminKnows(r)

USE NoOneAssumption

\* In the initial state nobody has begun.
LEMMA InitAdminInv == AdminInit => AdminInv
BY DEF AdminInit, AdminInv, AdminTypeOK, AdminKnows, StraysKnown, Call, Objects, Phases, Inside

\* Nothing is taken back: what may land late may do so until it has.
LEMMA StillLate ==
    ASSUME AdminInv, UNCHANGED <<kinds, replies>>,
           \A o \in Objects : Call("create", o) \in strays' => Call("create", o) \in strays
    PROVE  StraysKnown' /\ (Service!Late => Service!Late')
BY DEF AdminInv, StraysKnown, Service!Late

\* Taking the free lock: all others are outside.
LEMMA AcquireAdminInv ==
    ASSUME AdminInv, NEW r \in Requests, Acquire(r)
    PROVE  AdminInv'
<1>1. AdminTypeOK'
  BY DEF AdminInv, AdminTypeOK, Acquire, Free, Proceed, Call, Objects, Phases, Inside, objects
<1>2. StraysKnown' /\ (Service!Late => Service!Late')
  BY StillLate DEF Acquire
<1>3. ASSUME NEW s \in Requests PROVE AdminKnows(s)'
  BY <1>2 DEF AdminInv, AdminTypeOK, AdminKnows, Acquire, Free, Proceed, Call, Objects, Inside, objects
<1> QED BY <1>1, <1>2, <1>3 DEF AdminInv

\* An answer releases the lock, and changes what nobody else knows.
LEMMA AnswerAdminInv ==
    ASSUME AdminInv, NEW r \in Requests, holder = r,
           NEW reply \in {"running", "missing", "gone", "error"},
           Answer(r, reply), UNCHANGED <<exists, phase, kinds>>,
           strays' \subseteq [at : {"create", "delete"}, obj : Objects],
           \A o \in Objects : Call("create", o) \in strays' =>
               Call("create", o) \in strays \/ (kinds[r] = "create" /\ reply = "error")
    PROVE  AdminInv'
<1>1. AdminTypeOK'
  BY DEF AdminInv, AdminTypeOK, Answer, Proceed, Call, Objects, Phases, Inside
<1>2. replies[r] = "none" /\ replies' = [replies EXCEPT ![r] = reply]
  BY DEF Answer, AdminInv, AdminTypeOK, AdminKnows, Inside
<1>3. Service!Late => Service!Late'
  BY <1>2 DEF Service!Late, AdminInv, AdminTypeOK
<1>4. kinds[r] = "create" /\ reply = "error" => Service!Late'
  BY <1>2 DEF Service!Late, AdminInv, AdminTypeOK
<1>5. StraysKnown'
  BY <1>3, <1>4 DEF AdminInv, StraysKnown
<1>6. ASSUME NEW s \in Requests PROVE AdminKnows(s)'
  BY <1>3 DEF AdminInv, AdminTypeOK, AdminKnows, Answer, Proceed, Call, Objects, Inside
<1> QED BY <1>1, <1>5, <1>6 DEF AdminInv

\* An answer that leaves no call behind.
LEMMA QuietAnswer ==
    ASSUME AdminInv, NEW r \in Requests, holder = r,
           NEW reply \in {"running", "missing", "gone", "error"},
           Answer(r, reply), UNCHANGED <<exists, phase, kinds, strays>>
    PROVE  AdminInv'
BY AnswerAdminInv DEF AdminInv, AdminTypeOK

LEMMA GetStatusAdminInv ==
    ASSUME AdminInv, NEW r \in Requests, GetStatus(r)
    PROVE  AdminInv'
<1>1. CASE Running
  BY <1>1, QuietAnswer DEF GetStatus, Working, objects
<1>2. CASE ~Running /\ kinds[r] # "create"
  BY <1>2, QuietAnswer DEF GetStatus, Working, objects
<1>3. CASE ~Running /\ kinds[r] = "create"
  <2>1. AdminTypeOK'
    BY <1>3 DEF AdminInv, AdminTypeOK, GetStatus, Working, Proceed, Call, Objects, Phases, Inside, objects
  <2>2. StraysKnown' /\ (Service!Late => Service!Late')
    BY <1>3, StillLate DEF GetStatus
  <2>3. ASSUME NEW s \in Requests PROVE AdminKnows(s)'
    BY <1>3, <2>2 DEF AdminInv, AdminTypeOK, AdminKnows, GetStatus, Working, Proceed, Call, Objects, Inside, objects
  <2> QED BY <2>1, <2>2, <2>3 DEF AdminInv
<1> QED BY <1>1, <1>2, <1>3

\* Creating an object: only a create does, so that no delete has the lock and
\* none relies on the pod being gone.
LEMMA MakeAdminInv ==
    ASSUME AdminInv, NEW r \in Requests, holder = r, kinds[r] = "create",
           Make(calls[r].obj), Created(r), UNCHANGED <<holder, kinds, replies, strays>>
    PROVE  AdminInv'
<1>1. AdminTypeOK'
  BY DEF AdminInv, AdminTypeOK, Make, Created, Proceed, Call, Objects, Phases, Inside
<1>2. StraysKnown' /\ (Service!Late => Service!Late')
  BY StillLate
<1>3. ASSUME NEW s \in Requests PROVE AdminKnows(s)'
  BY <1>2 DEF AdminInv, AdminTypeOK, AdminKnows, Make, Created, Proceed, Call, Objects, Inside
<1> QED BY <1>1, <1>2, <1>3 DEF AdminInv

LEMMA CreateAdminInv ==
    ASSUME AdminInv, NEW r \in Requests, Create(r)
    PROVE  AdminInv'
<1>0. holder = r /\ kinds[r] = "create"
  BY DEF AdminInv, AdminKnows, Create, Working
<1>1. CASE exists[calls[r].obj] = "absent"
  BY <1>0, <1>1, MakeAdminInv DEF Create
<1>2. CASE exists[calls[r].obj] # "absent"
  <2>1. AdminTypeOK'
    BY <1>0, <1>2 DEF AdminInv, AdminTypeOK, Create, Working, Proceed, Call, Objects, Phases, Inside, objects
  <2>2. StraysKnown' /\ (Service!Late => Service!Late')
    BY <1>0, <1>2, StillLate DEF Create
  <2>3. ASSUME NEW s \in Requests PROVE AdminKnows(s)'
    BY <1>0, <1>2, <2>2 DEF AdminInv, AdminTypeOK, AdminKnows, Create, Working, Proceed, Call, Objects, Inside, objects
  <2> QED BY <2>1, <2>2, <2>3 DEF AdminInv
<1> QED BY <1>1, <1>2

LEMMA CreateAgainAdminInv ==
    ASSUME AdminInv, NEW r \in Requests, CreateAgain(r)
    PROVE  AdminInv'
<1>0. holder = r /\ kinds[r] = "create"
  BY DEF AdminInv, AdminKnows, CreateAgain, Working
<1> QED BY <1>0, MakeAdminInv DEF CreateAgain

\* An object is gone: the request goes on knowing it.
LEMMA RemovedAdminInv ==
    ASSUME AdminInv, NEW r \in Requests, holder = r, calls[r].at \in {"delete", "gone"},
           exists[calls[r].obj] = "absent", Removed(r),
           UNCHANGED <<exists, phase, kinds, strays>>
    PROVE  AdminInv'
<1>1. CASE kinds[r] # "create" /\ calls[r].obj # "pod"
  BY <1>1, QuietAnswer DEF Removed
<1>2. CASE kinds[r] = "create" \/ calls[r].obj = "pod"
  <2>1. AdminTypeOK'
    BY <1>2 DEF AdminInv, AdminTypeOK, Removed, Proceed, Call, Objects, Phases, Inside
  <2>2. StraysKnown' /\ (Service!Late => Service!Late')
    BY <1>2, StillLate DEF Removed
  <2>3. ASSUME NEW s \in Requests PROVE AdminKnows(s)'
    BY <1>2, <2>2 DEF AdminInv, AdminTypeOK, AdminKnows, Removed, Proceed, Call, Objects, Inside
  <2> QED BY <2>1, <2>2, <2>3 DEF AdminInv
<1> QED BY <1>1, <1>2

LEMMA DeleteAdminInv ==
    ASSUME AdminInv, NEW r \in Requests, Delete(r)
    PROVE  AdminInv'
<1>1. CASE exists[calls[r].obj] = "absent"
  BY <1>1, RemovedAdminInv DEF Delete, Working
<1>2. CASE exists[calls[r].obj] # "absent"
  <2>1. AdminTypeOK'
    BY <1>2 DEF AdminInv, AdminTypeOK, Delete, Working, Proceed, Call, Objects, Phases, Inside
  <2>2. StraysKnown' /\ (Service!Late => Service!Late')
    BY <1>2, StillLate DEF Delete
  <2>3. ASSUME NEW s \in Requests PROVE AdminKnows(s)'
    BY <1>2, <2>2 DEF AdminInv, AdminTypeOK, AdminKnows, Delete, Working, Proceed, Call, Objects, Inside
  <2> QED BY <2>1, <2>2, <2>3 DEF AdminInv
<1> QED BY <1>1, <1>2

LEMMA AwaitGoneAdminInv ==
    ASSUME AdminInv, NEW r \in Requests, AwaitGone(r)
    PROVE  AdminInv'
BY RemovedAdminInv DEF AwaitGone, Working, Vanished, objects

LEMMA AwaitPhaseAdminInv ==
    ASSUME AdminInv, NEW r \in Requests, AwaitPhase(r)
    PROVE  AdminInv'
<1>1. AdminTypeOK'
  BY DEF AdminInv, AdminTypeOK, AwaitPhase, Working, Proceed, Call, Objects, Phases, Inside, objects
<1>2. StraysKnown' /\ (Service!Late => Service!Late')
  BY StillLate DEF AwaitPhase
<1>3. ASSUME NEW s \in Requests PROVE AdminKnows(s)'
  BY <1>2 DEF AdminInv, AdminTypeOK, AdminKnows, AwaitPhase, Working, Proceed, Call, Objects, Inside, objects
<1> QED BY <1>1, <1>2, <1>3 DEF AdminInv

LEMMA FinalStatusAdminInv ==
    ASSUME AdminInv, NEW r \in Requests, FinalStatus(r)
    PROVE  AdminInv'
<1>1. CASE Running
  BY <1>1, QuietAnswer DEF FinalStatus, Working, objects
<1>2. CASE ~Running
  BY <1>2, QuietAnswer DEF FinalStatus, Working, objects
<1> QED BY <1>1, <1>2

\* A create that fails is the one that may have left a call to create.
LEMMA FailAdminInv ==
    ASSUME AdminInv, NEW r \in Requests, Fail(r)
    PROVE  AdminInv'
<1>1. Underway(r) \subseteq [at : {"create", "delete"}, obj : Objects]
  BY DEF Underway, Call, AdminInv, AdminTypeOK
<1>2. ASSUME NEW o \in Objects, Call("create", o) \in Underway(r)
      PROVE  kinds[r] = "create"
  BY <1>2 DEF Underway, Call, AdminInv, AdminKnows
<1>3. strays' \subseteq [at : {"create", "delete"}, obj : Objects]
  BY <1>1 DEF Fail, AdminInv, AdminTypeOK
<1>4. \A o \in Objects : Call("create", o) \in strays' => Call("create", o) \in strays \/ kinds[r] = "create"
  BY <1>2 DEF Fail
<1> QED BY <1>3, <1>4, AnswerAdminInv DEF Fail, objects

\* A call that was given up lands: of a create's it is known that it may.
LEMMA LandsAdminInv ==
    ASSUME AdminInv, NEW o \in Objects, CreateLands(o) \/ DeleteLands(o)
    PROVE  AdminInv'
<1>1. /\ UNCHANGED <<holder, kinds, calls, replies>> /\ strays' \subseteq strays
      /\ exists' \in [Objects -> {"absent", "there", "dying"}] /\ phase' \in Phases
  BY DEF CreateLands, DeleteLands, Make, AdminInv, AdminTypeOK, Phases, objects
<1>2. AdminTypeOK'
  BY <1>1 DEF AdminInv, AdminTypeOK
<1>3. StraysKnown' /\ (Service!Late => Service!Late')
  BY <1>1, StillLate
<1>4. Service!Late' \/ (exists["pod"] = "absent" => exists'["pod"] = "absent")
  <2>1. CASE CreateLands(o)
    BY <1>3, <2>1 DEF CreateLands, AdminInv, StraysKnown
  <2>2. CASE DeleteLands(o)
    BY <2>2 DEF DeleteLands, AdminInv, AdminTypeOK, Objects
  <2> QED BY <2>1, <2>2
<1>5. ASSUME NEW s \in Requests PROVE AdminKnows(s)'
  BY <1>1, <1>3, <1>4 DEF AdminInv, AdminKnows
<1> QED BY <1>2, <1>3, <1>5 DEF AdminInv

\* What Kubernetes does by itself creates nothing but what was asked of it.
LEMMA KubernetesAdminInv ==
    ASSUME AdminInv, Kubernetes
    PROVE  AdminInv'
<1>1. CASE PodChanges
  <2>1. AdminTypeOK'
    BY <1>1 DEF AdminInv, AdminTypeOK, PodChanges, Phases
  <2>2. StraysKnown' /\ (Service!Late => Service!Late')
    BY <1>1, StillLate DEF PodChanges
  <2>3. ASSUME NEW s \in Requests PROVE AdminKnows(s)'
    BY <1>1, <2>2 DEF AdminInv, AdminKnows, PodChanges
  <2> QED BY <2>1, <2>2, <2>3 DEF AdminInv
<1>2. CASE PodEvicted
  <2>1. AdminTypeOK'
    BY <1>2 DEF AdminInv, AdminTypeOK, PodEvicted, Objects
  <2>2. StraysKnown' /\ (Service!Late => Service!Late')
    BY <1>2, StillLate DEF PodEvicted
  <2>3. ASSUME NEW s \in Requests PROVE AdminKnows(s)'
    BY <1>2, <2>2 DEF AdminInv, AdminTypeOK, AdminKnows, PodEvicted, Objects
  <2> QED BY <2>1, <2>2, <2>3 DEF AdminInv
<1>3. ASSUME NEW o \in Objects, Vanishes(o) PROVE AdminInv'
  <2>1. AdminTypeOK'
    BY <1>3 DEF AdminInv, AdminTypeOK, Vanishes, Objects
  <2>2. StraysKnown' /\ (Service!Late => Service!Late')
    BY <1>3, StillLate DEF Vanishes
  <2>3. ASSUME NEW s \in Requests PROVE AdminKnows(s)'
    BY <1>3, <2>2 DEF AdminInv, AdminTypeOK, AdminKnows, Vanishes, Objects
  <2> QED BY <2>1, <2>2, <2>3 DEF AdminInv
<1>4. ASSUME NEW o \in Objects, CreateLands(o) \/ DeleteLands(o) PROVE AdminInv'
  BY <1>4, LandsAdminInv
<1> QED BY <1>1, <1>2, <1>3, <1>4 DEF Kubernetes

LEMMA NextAdminInv == AdminInv /\ [AdminNext]_adminVars => AdminInv'
<1> SUFFICES ASSUME AdminInv, [AdminNext]_adminVars PROVE AdminInv'
  OBVIOUS
<1>1. CASE Kubernetes
  BY <1>1, KubernetesAdminInv
<1>2. ASSUME NEW r \in Requests, Work(r) PROVE AdminInv'
  BY <1>2, AcquireAdminInv, GetStatusAdminInv, CreateAdminInv, CreateAgainAdminInv, DeleteAdminInv,
     AwaitGoneAdminInv, AwaitPhaseAdminInv, FinalStatusAdminInv, FailAdminInv DEF Work
<1>3. CASE UNCHANGED adminVars
  <2>1. AdminTypeOK'
    BY <1>3 DEF AdminInv, AdminTypeOK, adminVars
  <2>2. StraysKnown' /\ (Service!Late => Service!Late')
    BY <1>3, StillLate DEF adminVars
  <2>3. ASSUME NEW s \in Requests PROVE AdminKnows(s)'
    BY <1>3, <2>2 DEF AdminInv, AdminKnows, adminVars
  <2> QED BY <2>1, <2>2, <2>3 DEF AdminInv
<1> QED BY <1>1, <1>2, <1>3 DEF AdminNext

\* The inductive invariant: what a request knows while it has the lock stays
\* true whatever the others and Kubernetes do.
THEOREM AdminInvariant == AdminSpec => []AdminInv
<1>1. AdminInit => AdminInv BY InitAdminInv
<1>2. AdminInv /\ [AdminNext]_adminVars => AdminInv' BY NextAdminInv
<1> QED BY <1>1, <1>2, PTL DEF AdminSpec

\* Every variable always has its type, and exactly the request that is being
\* worked on holds the lock (async with self._lock in every method).
THEOREM AdminTypeCorrect == AdminSpec => []AdminTypeOK
<1>1. AdminInv => AdminTypeOK BY DEF AdminInv
<1> QED BY <1>1, AdminInvariant, PTL

\* ------------------------------------------------------------------------
\* The refinement

\* Starting states are starting states.
LEMMA RefinesInit == AdminInit => Service!Init
BY DEF AdminInit, Service!Init, Instance

\* An answer is the service's answer if it is true.
LEMMA RefinesAnswer ==
    ASSUME AdminInv, NEW r \in Requests, holder = r,
           NEW reply \in {"running", "missing", "gone", "error"},
           Answer(r, reply), UNCHANGED <<exists, phase, kinds>>,
           Service!True(r, reply)
    PROVE  Service!Answer(r)
BY DEF Answer, Service!Answer, Instance, Running

\* Nothing appears but by a create.
LEMMA RefinesMake ==
    ASSUME AdminInv, NEW r \in Requests, holder = r, kinds[r] = "create",
           Make(calls[r].obj), exists[calls[r].obj] = "absent",
           UNCHANGED <<holder, kinds, replies>>
    PROVE  Service!Change
<1>1. calls[r].obj \in Objects
  BY DEF AdminInv, AdminTypeOK
<1>2. CASE calls[r].obj = "pod"
  <2>1. exists'["pod"] = "there" /\ phase' = "Pending"
    BY <1>2 DEF AdminInv, AdminTypeOK, Make, Objects
  <2>2. Instance' = "partial"
    BY <2>1 DEF Instance, Running, Objects
  <2> QED BY <2>2 DEF Service!Change, AdminInv, AdminTypeOK
<1>3. CASE calls[r].obj = "pvc"
  <2>1. exists'["pvc"] = "there" /\ exists'["pod"] = exists["pod"] /\ phase' = phase
    BY <1>3 DEF AdminInv, AdminTypeOK, Make, Objects
  <2>2. /\ Instance' \in {"partial", "running"}
        /\ Instance = "none" => Instance' = "partial"
    BY <2>1 DEF Instance, Running, Objects
  <2> QED BY <2>2 DEF Service!Change, AdminInv, AdminTypeOK
<1> QED BY <1>1, <1>2, <1>3 DEF Objects

\* What is gone does not show, until the last of it is.
LEMMA RefinesRemoved ==
    ASSUME AdminInv, NEW r \in Requests, holder = r, calls[r].at \in {"delete", "gone"},
           exists[calls[r].obj] = "absent", Removed(r),
           UNCHANGED <<exists, phase, kinds>>
    PROVE  Service!Next \/ UNCHANGED Service!vars
<1>1. CASE kinds[r] # "create" /\ calls[r].obj # "pod"
  <2>1. kinds[r] = "delete" /\ (Service!Late \/ \A o \in Objects : exists[o] = "absent")
    BY <1>1 DEF AdminInv, AdminTypeOK, AdminKnows, Objects
  <2>2. Service!True(r, "gone")
    BY <2>1 DEF Service!True, Instance, Running, Objects
  <2>3. Answer(r, "gone")
    BY <1>1 DEF Removed
  <2> QED BY <2>2, <2>3, RefinesAnswer DEF Service!Next
<1>2. CASE kinds[r] = "create" \/ calls[r].obj = "pod"
  BY <1>2 DEF Removed, Service!vars, Instance, Running
<1> QED BY <1>1, <1>2

\* Every step of a request is a step of the service, or none.
LEMMA RefinesWork ==
    ASSUME AdminInv, NEW r \in Requests, Work(r)
    PROVE  Service!Next \/ UNCHANGED Service!vars
<1>1. CASE Acquire(r)
  <2>1. Service!Serve(r)
    BY <1>1 DEF Acquire, Free, objects, AdminInv, AdminKnows, Service!Serve, Instance, Running
  <2> QED BY <2>1 DEF Service!Next
<1>2. CASE GetStatus(r)
  <2>1. CASE Running
    <3>1. Service!True(r, "running")
      BY <1>2, <2>1 DEF GetStatus, Working, AdminInv, AdminKnows, Service!True, Instance
    <3> QED BY <1>2, <2>1, <3>1, RefinesAnswer DEF GetStatus, Working, objects, Service!Next
  <2>2. CASE ~Running /\ kinds[r] # "create"
    <3>1. Service!True(r, "missing")
      BY <1>2, <2>2 DEF GetStatus, Working, AdminInv, AdminKnows, Service!True, Instance
    <3> QED BY <1>2, <2>2, <3>1, RefinesAnswer DEF GetStatus, Working, objects, Service!Next
  <2>3. CASE ~Running /\ kinds[r] = "create"
    BY <1>2, <2>3 DEF GetStatus, objects, Service!vars, Instance, Running
  <2> QED BY <2>1, <2>2, <2>3
<1>3. CASE Create(r)
  <2>1. holder = r /\ kinds[r] = "create"
    BY <1>3 DEF Create, Working, AdminInv, AdminKnows
  <2>2. CASE exists[calls[r].obj] = "absent"
    BY <1>3, <2>1, <2>2, RefinesMake DEF Create, Service!Next
  <2>3. CASE exists[calls[r].obj] # "absent"
    BY <1>3, <2>3 DEF Create, objects, Service!vars, Instance, Running
  <2> QED BY <2>2, <2>3
<1>4. CASE CreateAgain(r)
  <2>1. holder = r /\ kinds[r] = "create"
    BY <1>4 DEF CreateAgain, Working, AdminInv, AdminKnows
  <2> QED BY <1>4, <2>1, RefinesMake DEF CreateAgain, Service!Next
<1>5. CASE Delete(r)
  <2>1. CASE exists[calls[r].obj] = "absent"
    BY <1>5, <2>1, RefinesRemoved DEF Delete, Working
  <2>2. CASE exists[calls[r].obj] # "absent"
    <3>1. calls[r].obj \in Objects
      BY DEF AdminInv, AdminTypeOK
    <3>2. \A o \in Objects : exists'[o] = "absent" <=> exists[o] = "absent"
      BY <1>5, <2>2, <3>1 DEF Delete, AdminInv, AdminTypeOK
    <3>3. Instance' = Instance
      BY <1>5, <3>2 DEF Delete, Instance, Running, Objects
    <3> QED BY <1>5, <2>2, <3>3 DEF Delete, Service!vars
  <2> QED BY <2>1, <2>2
<1>6. CASE AwaitGone(r)
  BY <1>6, RefinesRemoved DEF AwaitGone, Working, Vanished, objects
<1>7. CASE AwaitPhase(r)
  BY <1>7 DEF AwaitPhase, objects, Service!vars, Instance, Running
<1>8. CASE FinalStatus(r)
  <2>1. kinds[r] = "create"
    BY <1>8 DEF FinalStatus, Working, AdminInv, AdminKnows
  <2>2. CASE Running
    <3>1. Service!True(r, "running")
      BY <2>1, <2>2 DEF Service!True, Instance
    <3> QED BY <1>8, <2>2, <3>1, RefinesAnswer DEF FinalStatus, Working, objects, Service!Next
  <2>3. CASE ~Running
    <3>1. Service!True(r, "missing")
      BY <2>1, <2>3 DEF Service!True, Instance
    <3> QED BY <1>8, <2>3, <3>1, RefinesAnswer DEF FinalStatus, Working, objects, Service!Next
  <2> QED BY <2>2, <2>3
<1>9. CASE Fail(r)
  <2>1. Service!True(r, "error")
    BY DEF Service!True
  <2> QED BY <1>9, <2>1, RefinesAnswer DEF Fail, objects, Service!Next
<1> QED BY <1>1, <1>2, <1>3, <1>4, <1>5, <1>6, <1>7, <1>8, <1>9 DEF Work

\* What Kubernetes does by itself happens to an instance there is.
LEMMA RefinesKubernetes ==
    ASSUME AdminInv, Kubernetes
    PROVE  Service!Next \/ UNCHANGED Service!vars
<1>1. CASE PodChanges
  BY <1>1 DEF PodChanges, Service!Next, Service!Change, Instance, Running, Objects
<1>2. CASE PodEvicted
  BY <1>2 DEF PodEvicted, Service!Next, Service!Change, Instance, Running, Objects
<1>3. ASSUME NEW o \in Objects, Vanishes(o) PROVE Service!Next
  BY <1>3 DEF Vanishes, Service!Next, Service!Change, Instance, Running, Objects
<1>4. ASSUME NEW o \in Objects, CreateLands(o) PROVE Service!Next
  <2>1. Service!Late /\ UNCHANGED <<holder, kinds, replies>>
    BY <1>4 DEF CreateLands, AdminInv, StraysKnown
  <2>2. CASE exists[o] = "absent" /\ o = "pod"
    <3>1. exists'["pod"] = "there" /\ phase' = "Pending"
      BY <1>4, <2>2 DEF CreateLands, AdminInv, AdminTypeOK, Make, Objects
    <3>2. Instance' = "partial"
      BY <3>1 DEF Instance, Running, Objects
    <3> QED BY <2>1, <3>2 DEF Service!Next, Service!Change
  <2>3. CASE exists[o] = "absent" /\ o = "pvc"
    <3>1. exists'["pvc"] = "there" /\ exists'["pod"] = exists["pod"] /\ phase' = phase
      BY <1>4, <2>3 DEF CreateLands, AdminInv, AdminTypeOK, Make, Objects
    <3>2. /\ Instance' \in {"partial", "running"}
          /\ Instance = "none" => Instance' = "partial"
      BY <3>1 DEF Instance, Running, Objects
    <3> QED BY <2>1, <3>2 DEF Service!Next, Service!Change
  <2>4. CASE exists[o] # "absent"
    <3>1. Instance' = Instance /\ Instance \in {"partial", "running"}
      BY <1>4, <2>4 DEF CreateLands, objects, Instance, Running, Objects
    <3> QED BY <2>1, <3>1 DEF Service!Next, Service!Change
  <2> QED BY <2>2, <2>3, <2>4 DEF Objects
<1>5. ASSUME NEW o \in Objects, DeleteLands(o) PROVE Service!Next \/ UNCHANGED Service!vars
  <2>1. \A p \in Objects : exists'[p] = "absent" <=> exists[p] = "absent"
    BY <1>5 DEF DeleteLands, AdminInv, AdminTypeOK
  <2>2. Instance' = Instance
    BY <1>5, <2>1 DEF DeleteLands, Instance, Running, Objects
  <2> QED BY <1>5, <2>2 DEF DeleteLands, Service!vars
<1> QED BY <1>1, <1>2, <1>3, <1>4, <1>5 DEF Kubernetes

\* FSAdminManager implements the abstract service: requests are served one at
\* a time, and every answer is true when it is given, a delete's included unless a
\* create had failed before.
THEOREM AdminImplements == AdminSpec => Implements
<1>1. AdminInit => Service!Init BY RefinesInit
<1>2. AdminInv /\ [AdminNext]_adminVars => [Service!Next]_(Service!vars)
  <2> SUFFICES ASSUME AdminInv, [AdminNext]_adminVars
               PROVE  Service!Next \/ UNCHANGED Service!vars
    OBVIOUS
  <2>1. CASE Kubernetes BY <2>1, RefinesKubernetes
  <2>2. ASSUME NEW r \in Requests, Work(r)
        PROVE  Service!Next \/ UNCHANGED Service!vars
    BY <2>2, RefinesWork
  <2>3. CASE UNCHANGED adminVars
    BY <2>3 DEF adminVars, Service!vars, Instance, Running
  <2> QED BY <2>1, <2>2, <2>3 DEF AdminNext
<1> QED BY <1>1, <1>2, AdminInvariant, PTL DEF AdminSpec, Implements, Service!Spec

-----------------------------------------------------------------------------
(* Counting and folding *)

\* What holds of 0 and of k, if it does of k-1, holds of every number up to n.
LEMMA Counting ==
  ASSUME NEW n \in Nat, NEW T, 0 \in T, \A k \in 1..n : k-1 \in T => k \in T
  PROVE  \A k \in 0..n : k \in T
<1> DEFINE B == {k \in 0..n : k \notin T}
           R == StrictSubsetOrdering(0..n)
           I == {0..k : k \in B}
<1> SUFFICES ASSUME B # {} PROVE FALSE OBVIOUS
<1>1. IsWellFoundedOn(R, FiniteSubsetsOf(0..n))
  BY FS_StrictSubsetOrderingWellFounded
<1>2. I # {} /\ I \subseteq FiniteSubsetsOf(0..n)
  <2>1. SUFFICES ASSUME NEW k \in B PROVE (0..k) \in FiniteSubsetsOf(0..n) OBVIOUS
  <2>2. IsFiniteSet(0..k) /\ 0..k \subseteq 0..n BY FS_Interval
  <2> QED BY <2>2 DEF FiniteSubsetsOf
<1> HIDE DEF I, R
<1>3. PICK x \in I : \A y \in I : ~(<<y, x>> \in R) BY <1>1, <1>2, WFMin, Zenon
<1>4. PICK k \in B : x = 0..k BY <1>3 DEF I
<1>5. k # 0 /\ k-1 \in B /\ k \in 0..n OBVIOUS
<1>6. (0..(k-1)) \in I BY <1>5 DEF I
<1>7. /\ 0..(k-1) \subseteq 0..n /\ 0..k \subseteq 0..n
      /\ 0..(k-1) \subseteq 0..k /\ 0..(k-1) # 0..k
  BY <1>5
<1>8. <<0..(k-1), 0..k>> \in R BY <1>7 DEF R, StrictSubsetOrdering
<1> QED BY <1>3, <1>4, <1>6, <1>8

\* The values on the way of a fold exist.
OnTheWay(f, n, S, base, step) ==
    f \in [0..n -> S] /\ f[0] = base /\ \A k \in 1..n : f[k] = step[<<f[k-1], k>>]

LEMMA Folding ==
  ASSUME NEW n \in Nat, NEW S, NEW base \in S, NEW step \in [S \X (1..n) -> S]
  PROVE  \E f : OnTheWay(f, n, S, base, step)
<1> SUFFICES \E f \in [0..n -> S] : f[0] = base /\ \A k \in 1..n : f[k] = step[<<f[k-1], k>>]
  BY DEF OnTheWay
<1> DEFINE Fits(f, m) == f[0] = base /\ \A k \in 1..m : f[k] = step[<<f[k-1], k>>]
           T == {m \in 0..n : \E f \in [0..m -> S] : Fits(f, m)}
<1>1. 0 \in T
  <2> DEFINE f == [k \in 0..0 |-> base]
  <2>1. f \in [0..0 -> S] /\ Fits(f, 0) OBVIOUS
  <2> HIDE DEF f, Fits
  <2>2. \E h \in [0..0 -> S] : Fits(h, 0) BY <2>1
  <2> QED BY <2>2
<1>2. ASSUME NEW m \in 1..n, m-1 \in T PROVE m \in T
  <2>1. PICK f \in [0..(m-1) -> S] : Fits(f, m-1) BY <1>2
  <2> DEFINE g == [k \in 0..m |-> IF k = m THEN step[<<f[m-1], m>>] ELSE f[k]]
  <2>2. f[m-1] \in S /\ step[<<f[m-1], m>>] \in S OBVIOUS
  <2>3. g \in [0..m -> S] BY <2>2
  <2>4. ASSUME NEW k \in 1..m PROVE g[k] = step[<<g[k-1], k>>]
    <3>1. k-1 \in 0..m /\ k-1 # m /\ g[k-1] = f[k-1] OBVIOUS
    <3>2. CASE k = m BY <3>1, <3>2
    <3>3. CASE k # m
      <4>1. k \in 1..(m-1) BY <3>3
      <4> QED BY <4>1, <3>1, <3>3, <2>1
    <3> QED BY <3>2, <3>3
  <2>5. g[0] = base BY <2>1
  <2>6. Fits(g, m) BY <2>4, <2>5
  <2> HIDE DEF g, Fits
  <2>7. \E h \in [0..m -> S] : Fits(h, m) BY <2>3, <2>6
  <2> QED BY <2>7
<1> HIDE DEF T
<1>3. \A k \in 0..n : k \in T BY <1>1, <1>2, Counting
<1>4. n \in T BY <1>3
<1> QED BY <1>4 DEF T

-----------------------------------------------------------------------------
(* Lists: what an arrangement by ranks has *)

LEMMA ArrangedIs ==
  ASSUME NEW I, IsFiniteSet(I), NEW rank \in [I -> 1..Cardinality(I)],
         \A i, j \in I : rank[i] = rank[j] => i = j
  PROVE  /\ Arranged(rank) \in Seq(I) /\ Len(Arranged(rank)) = Cardinality(I)
         /\ \A k \in 1..Cardinality(I) : rank[Arranged(rank)[k]] = k
         /\ \A j \in I : Arranged(rank)[rank[j]] = j
<1> DEFINE n == Cardinality(I)
<1>1. n \in Nat BY FS_CardinalityType
<1>2. IsFiniteSet(1..n) /\ Cardinality(1..n) = n BY <1>1, FS_Interval
<1>3. rank \in Injection(I, 1..n) BY DEF Injection, IsInjective
<1>4. rank \in Surjection(I, 1..n) BY <1>2, <1>3, FS_Injection
<1>5. \A k \in 1..n : \E j \in I : rank[j] = k BY <1>4 DEF Surjection
<1>6. DOMAIN rank = I OBVIOUS
<1>7. Arranged(rank) = [k \in 1..n |-> CHOOSE j \in I : rank[j] = k] BY <1>6 DEF Arranged
<1>8. \A k \in 1..n : Arranged(rank)[k] \in I /\ rank[Arranged(rank)[k]] = k
  BY <1>5, <1>7
<1>9. Arranged(rank) \in [1..n -> I] BY <1>7, <1>8
<1> QED BY <1>1, <1>8, <1>9

\* A relation that orders the elements of I strictly, and the rank it gives each
\* of them: how many are before it, itself included.
OrdersStrictly(I, B) ==
  /\ \A i \in I : <<i, i>> \notin B
  /\ \A i, j \in I : i # j => <<i, j>> \in B \/ <<j, i>> \in B
  /\ \A i, j, k \in I : <<i, j>> \in B /\ <<j, k>> \in B => <<i, k>> \in B

RankIn(I, B) == [j \in I |-> Cardinality({i \in I : i = j \/ <<i, j>> \in B})]

Ranks(I, B, rank) ==
  /\ rank \in [I -> 1..Cardinality(I)]
  /\ \A i, j \in I : rank[i] = rank[j] => i = j
  /\ \A i, j \in I : <<i, j>> \in B <=> rank[i] < rank[j]

\* By a strict total order the ranks are different, and ordered as the elements are.
LEMMA Ranking ==
  ASSUME NEW I, NEW B, IsFiniteSet(I), OrdersStrictly(I, B)
  PROVE  Ranks(I, B, RankIn(I, B))
<1> DEFINE rank == RankIn(I, B)
<1> USE DEF OrdersStrictly
<1> DEFINE D(j) == {i \in I : i = j \/ <<i, j>> \in B}
<1>1. ASSUME NEW j \in I
      PROVE  IsFiniteSet(D(j)) /\ Cardinality(D(j)) \in 1..Cardinality(I)
  <2>1. D(j) \in SUBSET I /\ D(j) # {} OBVIOUS
  <2> HIDE DEF D
  <2>2. IsFiniteSet(D(j)) /\ Cardinality(D(j)) <= Cardinality(I) BY <2>1, FS_Subset
  <2>3. Cardinality(D(j)) \in Nat /\ Cardinality(I) \in Nat BY <2>2, FS_CardinalityType
  <2>4. Cardinality(D(j)) # 0 BY <2>1, <2>2, FS_EmptySet
  <2> QED BY <2>2, <2>3, <2>4
<1>2. ASSUME NEW i \in I, NEW j \in I, <<i, j>> \in B
      PROVE  Cardinality(D(i)) < Cardinality(D(j))
  <2>1. D(i) \subseteq D(j) BY <1>2
  <2>2. j \in D(j) /\ j \notin D(i) BY <1>2
  <2> HIDE DEF D
  <2>3. Cardinality(D(i)) <= Cardinality(D(j)) /\ Cardinality(D(i)) # Cardinality(D(j))
    BY <2>1, <2>2, <1>1, FS_Subset
  <2>4. Cardinality(D(i)) \in Nat /\ Cardinality(D(j)) \in Nat BY <1>1, FS_CardinalityType
  <2> QED BY <2>3, <2>4
<1>3. rank = [j \in I |-> Cardinality(D(j))] BY DEF RankIn
<1> HIDE DEF D, rank
<1>4. rank \in [I -> 1..Cardinality(I)] BY <1>1, <1>3
<1>5. Cardinality(I) \in Nat BY FS_CardinalityType
<1>6. \A i, j \in I : <<i, j>> \in B => rank[i] < rank[j] BY <1>2, <1>3
<1>7. \A i \in I : rank[i] \in Nat BY <1>4, <1>5
<1>8. ASSUME NEW i \in I, NEW j \in I, ~(rank[j] < rank[i]), i # j
      PROVE  <<i, j>> \in B /\ rank[i] < rank[j]
  <2>1. <<j, i>> \notin B BY <1>6, <1>8
  <2>2. <<i, j>> \in B BY <2>1, <1>8
  <2> QED BY <2>2, <1>6
<1>9. ASSUME NEW i \in I, NEW j \in I, rank[i] = rank[j], i # j PROVE FALSE
  <2>1. rank[i] \in Nat /\ rank[j] \in Nat BY <1>7
  <2>2. ~(rank[j] < rank[i]) BY <2>1, <1>9
  <2>3. rank[i] < rank[j] BY <2>2, <1>8, <1>9
  <2> QED BY <2>1, <2>3, <1>9
<1>10. ASSUME NEW i \in I, NEW j \in I, rank[i] < rank[j] PROVE <<i, j>> \in B
  <2>1. rank[i] \in Nat /\ rank[j] \in Nat BY <1>7
  <2>2. ~(rank[j] < rank[i]) /\ i # j BY <2>1, <1>10
  <2> QED BY <2>2, <1>8
<1> QED BY <1>4, <1>6, <1>9, <1>10 DEF Ranks, rank

-----------------------------------------------------------------------------
(* The order of tags *)

\* Ranks of three pairs s and t, t and v, s and v, and of t and s, fit each other.
Chain(p, q, r, o) ==
    /\ p \in {-1, 0, 1} /\ q \in {-1, 0, 1} /\ r \in {-1, 0, 1} /\ o \in {-1, 0, 1}
    /\ p = -o
    /\ p = 0 => r = q
    /\ q = 0 => r = p
    /\ p = q => r = p

LEMMA RankChain ==
  ASSUME NEW a \in Optional, NEW b \in Optional, NEW c \in Optional
  PROVE  /\ Chain(Rank(a, b), Rank(b, c), Rank(a, c), Rank(b, a))
         /\ Chain(RankNoneLast(a, b), RankNoneLast(b, c), RankNoneLast(a, c),
                  RankNoneLast(b, a))
<1>1. Chain(Rank(a, b), Rank(b, c), Rank(a, c), Rank(b, a))
  BY DEF Chain, Rank, Optional, Absent
<1>2. ASSUME NEW x \in Optional, NEW y \in Optional
      PROVE  RankNoneLast(x, y) = IF x = y THEN 0 ELSE IF y = Absent THEN -1
                 ELSE IF x = Absent THEN 1 ELSE IF x < y THEN -1 ELSE 1
  <2>1. Absent \in {x, y} <=> x = Absent \/ y = Absent OBVIOUS
  <2>2. RankNoneLast(x, y) = IF x # y /\ (x = Absent \/ y = Absent) THEN Rank(y, x)
                             ELSE Rank(x, y)
    BY <2>1, Zenon DEF RankNoneLast
  <2>3. CASE x = y BY <2>2, <2>3 DEF Rank
  <2>4. CASE x # y /\ y = Absent BY <2>2, <2>4 DEF Rank, Optional, Absent
  <2>5. CASE x # y /\ x = Absent BY <2>2, <2>5 DEF Rank, Optional, Absent
  <2>6. CASE x # y /\ x # Absent /\ y # Absent BY <2>2, <2>6 DEF Rank
  <2> QED BY <2>3, <2>4, <2>5, <2>6
<1>3. Chain(RankNoneLast(a, b), RankNoneLast(b, c), RankNoneLast(a, c), RankNoneLast(b, a))
  BY <1>2 DEF Chain, Optional, Absent
<1> QED BY <1>1, <1>3

LEMMA ThenChain ==
  ASSUME NEW p, NEW q, NEW r, NEW o, Chain(p, q, r, o),
         NEW x, NEW y, NEW z, NEW w, Chain(x, y, z, w)
  PROVE  Chain(Then(p, x), Then(q, y), Then(r, z), Then(o, w))
  BY DEF Chain, Then

Versions == [1..4 -> Nat]

LEMMA VersionChain ==
  ASSUME NEW a \in Versions, NEW b \in Versions, NEW c \in Versions
  PROVE  Chain(RankVersion(a, b), RankVersion(b, c), RankVersion(a, c), RankVersion(b, a))
<1>1. \A i \in 1..4 : a[i] \in Optional /\ b[i] \in Optional /\ c[i] \in Optional
  BY DEF Versions, Optional
<1>2. \A i \in 1..4 : Chain(Rank(a[i], b[i]), Rank(b[i], c[i]), Rank(a[i], c[i]),
                           Rank(b[i], a[i]))
  BY <1>1, RankChain
<1>3. 1 \in 1..4 /\ 2 \in 1..4 /\ 3 \in 1..4 /\ 4 \in 1..4 OBVIOUS
<1> QED BY <1>2, <1>3, ThenChain, Zenon DEF RankVersion

\* What decides first: versions, or base names if one has no version.
FirstRank(s, t) ==
    IF s.version = <<>> \/ t.version = <<>> THEN Rank(s.base, t.base)
    ELSE RankVersion(s.version, t.version)

LEMMA FirstRankChain ==
  ASSUME NEW s \in RegistryTag, NEW t \in RegistryTag, NEW v \in RegistryTag
  PROVE  Chain(FirstRank(s, t), FirstRank(t, v), FirstRank(s, v), FirstRank(t, s))
<1>1. ASSUME NEW x \in RegistryTag
      PROVE  /\ x.base \in Optional /\ x.base \in Int
             /\ x.version = <<>> => x.base # Absent
             /\ x.version # <<>> => x.base = Absent /\ x.version \in Versions
  BY DEF RegistryTag, Versions, Optional, Absent
<1>2. ASSUME NEW x \in RegistryTag, NEW y \in RegistryTag
      PROVE  FirstRank(x, y) = -FirstRank(y, x) /\ FirstRank(x, y) \in {-1, 0, 1}
  <2>1. CASE x.version = <<>> \/ y.version = <<>>
    BY <1>1, <2>1, RankChain DEF FirstRank, Chain
  <2>2. CASE ~(x.version = <<>> \/ y.version = <<>>)
    BY <1>1, <2>2, VersionChain DEF FirstRank, Chain
  <2> QED BY <2>1, <2>2
<1>3. CASE s.version # <<>> /\ t.version # <<>> /\ v.version # <<>>
  BY <1>1, <1>2, <1>3, VersionChain DEF FirstRank
<1>4. CASE s.version = <<>> \/ t.version = <<>> \/ v.version = <<>>
  <2>1. Chain(Rank(s.base, t.base), Rank(t.base, v.base), Rank(s.base, v.base),
              Rank(t.base, s.base))
    BY <1>1, RankChain
  <2>2. CASE s.version # <<>> /\ t.version # <<>>
    <3>1. FirstRank(t, v) = Rank(t.base, v.base) /\ FirstRank(s, v) = Rank(s.base, v.base)
      BY <1>4, <2>2 DEF FirstRank
    <3>2. s.base = t.base /\ Rank(t.base, v.base) \in {-1, 1} /\ s.base \in Int
      BY <1>1, <1>4, <2>2 DEF Rank
    <3> QED BY <1>2, <3>1, <3>2 DEF Chain
  <2>3. CASE t.version # <<>> /\ v.version # <<>>
    <3>1. FirstRank(s, t) = Rank(s.base, t.base) /\ FirstRank(s, v) = Rank(s.base, v.base)
      BY <1>4, <2>3 DEF FirstRank
    <3>2. v.base = t.base /\ Rank(s.base, t.base) \in {-1, 1}
      BY <1>1, <1>4, <2>3 DEF Rank
    <3> QED BY <1>2, <3>1, <3>2 DEF Chain
  <2>4. CASE s.version # <<>> /\ v.version # <<>>
    <3>1. FirstRank(s, t) = Rank(s.base, t.base) /\ FirstRank(t, v) = Rank(t.base, v.base)
      BY <1>4, <2>4 DEF FirstRank
    <3>2. /\ s.base = v.base /\ s.base # t.base
          /\ s.base \in Int /\ t.base \in Int
      BY <1>1, <1>4, <2>4
    <3>3. Rank(s.base, t.base) = -Rank(t.base, v.base) /\ Rank(s.base, t.base) \in {-1, 1}
      BY <3>2 DEF Rank
    <3> QED BY <1>2, <3>1, <3>3 DEF Chain
  <2>5. CASE ~(\/ s.version # <<>> /\ t.version # <<>>
               \/ t.version # <<>> /\ v.version # <<>>
               \/ s.version # <<>> /\ v.version # <<>>)
    BY <1>2, <2>1, <2>5 DEF FirstRank
  <2> QED BY <2>2, <2>3, <2>4, <2>5
<1> QED BY <1>3, <1>4

LEMMA CompareChain ==
  ASSUME NEW s \in RegistryTag, NEW t \in RegistryTag, NEW v \in RegistryTag
  PROVE  Chain(Compare(s, t), Compare(t, v), Compare(s, v), Compare(t, s))
<1>1. ASSUME NEW x \in RegistryTag
      PROVE  /\ x.cycle \in Optional /\ x.cycleBuild \in Optional /\ x.build \in Optional
             /\ x.extra \in Optional /\ x.arch \in Optional
  BY DEF RegistryTag
<1>2. Chain(Rank(s.cycle, t.cycle), Rank(t.cycle, v.cycle), Rank(s.cycle, v.cycle),
            Rank(t.cycle, s.cycle))
  BY <1>1, RankChain
<1>3. Chain(Rank(s.cycleBuild, t.cycleBuild), Rank(t.cycleBuild, v.cycleBuild),
            Rank(s.cycleBuild, v.cycleBuild), Rank(t.cycleBuild, s.cycleBuild))
  BY <1>1, RankChain
<1>4. Chain(Rank(s.build, t.build), Rank(t.build, v.build), Rank(s.build, v.build),
            Rank(t.build, s.build))
  BY <1>1, RankChain
<1>5. Chain(Rank(s.extra, t.extra), Rank(t.extra, v.extra), Rank(s.extra, v.extra),
            Rank(t.extra, s.extra))
  BY <1>1, RankChain
<1>6. Chain(RankNoneLast(s.arch, t.arch), RankNoneLast(t.arch, v.arch),
            RankNoneLast(s.arch, v.arch), RankNoneLast(t.arch, s.arch))
  BY <1>1, RankChain
<1>7. \A x, y : Compare(x, y) = Then(FirstRank(x, y), Then(Rank(x.cycle, y.cycle),
                   Then(Rank(x.cycleBuild, y.cycleBuild), Then(Rank(x.build, y.build),
                   Then(Rank(x.extra, y.extra), RankNoneLast(x.arch, y.arch))))))
  BY DEF Compare, FirstRank
<1>8. Chain(FirstRank(s, t), FirstRank(t, v), FirstRank(s, v), FirstRank(t, s))
  BY FirstRankChain
<1> QED BY <1>2, <1>3, <1>4, <1>5, <1>6, <1>7, <1>8, ThenChain, Zenon

\* _compare is an order: it depends on no listing.
TagsOrdered(tags) ==
    \A s, t, v \in tags :
       /\ Compare(s, t) = -Compare(t, s)
       /\ Compare(s, t) >= 0 /\ Compare(t, v) >= 0 => Compare(s, v) >= 0

LEMMA RegistryTagsOrdered == TagsOrdered(RegistryTag)
<1>1. SUFFICES ASSUME NEW s \in RegistryTag, NEW t \in RegistryTag, NEW v \in RegistryTag
               PROVE  /\ Compare(s, t) = -Compare(t, s)
                      /\ Compare(s, t) >= 0 /\ Compare(t, v) >= 0 => Compare(s, v) >= 0
  BY DEF TagsOrdered
<1> QED BY CompareChain DEF Chain

-----------------------------------------------------------------------------
(* Lists of tags *)

LEMMA ListIs ==
  ASSUME NEW X, NEW l \in Seq(X)
  PROVE  /\ Len(l) \in Nat /\ DOMAIN l = 1..Len(l)
         /\ \A k \in DOMAIN l : l[k] \in X /\ l[k] \in ToSet(l)
         /\ ToSet(l) \subseteq X /\ l \in [1..Len(l) -> X]
  BY DEF ToSet

LEMMA Concatenated ==
  ASSUME NEW X, NEW l \in Seq(X), NEW m \in Seq(X)
  PROVE  l \o m \in Seq(X) /\ ToSet(l \o m) = ToSet(l) \cup ToSet(m)
<1>1. l \o m \in Seq(X) OBVIOUS
<1>2. /\ DOMAIN (l \o m) = 1..(Len(l) + Len(m)) /\ Len(l) \in Nat /\ Len(m) \in Nat
      /\ DOMAIN l = 1..Len(l) /\ DOMAIN m = 1..Len(m)
      /\ \A k \in 1..Len(l) : (l \o m)[k] = l[k]
      /\ \A k \in 1..Len(m) : (l \o m)[Len(l) + k] = m[k]
  OBVIOUS
<1>3. ToSet(l \o m) \subseteq ToSet(l) \cup ToSet(m)
  <2>1. SUFFICES ASSUME NEW k \in 1..(Len(l) + Len(m))
                 PROVE  (l \o m)[k] \in ToSet(l) \cup ToSet(m)
    BY <1>2 DEF ToSet
  <2>2. CASE k \in 1..Len(l) BY <1>2, <2>2 DEF ToSet
  <2>3. CASE k \notin 1..Len(l)
    <3>1. k - Len(l) \in 1..Len(m) /\ k = Len(l) + (k - Len(l)) BY <1>2, <2>3
    <3>2. (l \o m)[k] = m[k - Len(l)] BY <1>2, <3>1
    <3> QED BY <1>2, <3>1, <3>2 DEF ToSet
  <2> QED BY <2>2, <2>3
<1>4. ToSet(l) \subseteq ToSet(l \o m)
  <2>1. \A k \in 1..Len(l) : k \in 1..(Len(l) + Len(m)) BY <1>2
  <2> QED BY <1>2, <2>1 DEF ToSet
<1>5. ToSet(m) \subseteq ToSet(l \o m)
  <2>1. \A k \in 1..Len(m) : Len(l) + k \in 1..(Len(l) + Len(m)) BY <1>2
  <2> QED BY <1>2, <2>1 DEF ToSet
<1> QED BY <1>1, <1>3, <1>4, <1>5

LEMMA AppendedIs ==
  ASSUME NEW X, NEW l \in Seq(X), NEW x \in X
  PROVE  Append(l, x) \in Seq(X) /\ ToSet(Append(l, x)) = ToSet(l) \cup {x}
<1>1. <<x>> \in Seq(X) /\ ToSet(<<x>>) = {x} BY DEF ToSet
<1>2. Append(l, x) = l \o <<x>> OBVIOUS
<1>3. l \o <<x>> \in Seq(X) /\ ToSet(l \o <<x>>) = ToSet(l) \cup ToSet(<<x>>)
  BY <1>1, Concatenated
<1> QED BY <1>1, <1>2, <1>3

LEMMA InMenuOrderIs ==
  ASSUME NEW X, NEW l, \A type \in Types : l[type] \in Seq(X)
  PROVE  /\ InMenuOrder(l) \in Seq(X)
         /\ ToSet(InMenuOrder(l)) = UNION {ToSet(l[type]) : type \in Types}
<1>1. /\ l["alias"] \in Seq(X) /\ l["release"] \in Seq(X) /\ l["weekly"] \in Seq(X)
      /\ l["daily"] \in Seq(X) /\ l["candidate"] \in Seq(X)
      /\ l["experimental"] \in Seq(X) /\ l["unknown"] \in Seq(X)
  BY DEF Types
<1> DEFINE L2 == l["alias"] \o l["release"]
           L3 == L2 \o l["weekly"]
           L4 == L3 \o l["daily"]
           L5 == L4 \o l["candidate"]
           L6 == L5 \o l["experimental"]
           L7 == L6 \o l["unknown"]
<1>2. InMenuOrder(l) = L7 BY DEF InMenuOrder
<1> HIDE DEF L7
<1>3. L7 = L6 \o l["unknown"] BY DEF L7
<1> HIDE DEF L6
<1>4. L6 = L5 \o l["experimental"] BY DEF L6
<1> HIDE DEF L5
<1>5. L5 = L4 \o l["candidate"] BY DEF L5
<1> HIDE DEF L4
<1>6. L4 = L3 \o l["daily"] BY DEF L4
<1> HIDE DEF L3
<1>7. L3 = L2 \o l["weekly"] BY DEF L3
<1>a. L2 = l["alias"] \o l["release"] OBVIOUS
<1> HIDE DEF L2
<1>8. /\ L3 \in Seq(X)
      /\ ToSet(L3) = ToSet(l["alias"]) \cup ToSet(l["release"]) \cup ToSet(l["weekly"])
  <2>1. L2 \in Seq(X) /\ ToSet(L2) = ToSet(l["alias"]) \cup ToSet(l["release"])
    BY <1>1, <1>a, Concatenated
  <2>2. L3 \in Seq(X) /\ ToSet(L3) = ToSet(L2) \cup ToSet(l["weekly"])
    BY <2>1, <1>1, <1>7, Concatenated
  <2> QED BY <2>1, <2>2
<1>9. L4 \in Seq(X) /\ ToSet(L4) = ToSet(L3) \cup ToSet(l["daily"])
  BY <1>1, <1>6, <1>8, Concatenated
<1>10. L5 \in Seq(X) /\ ToSet(L5) = ToSet(L4) \cup ToSet(l["candidate"])
  BY <1>1, <1>5, <1>9, Concatenated
<1>11. L6 \in Seq(X) /\ ToSet(L6) = ToSet(L5) \cup ToSet(l["experimental"])
  BY <1>1, <1>4, <1>10, Concatenated
<1>12. L7 \in Seq(X) /\ ToSet(L7) = ToSet(L6) \cup ToSet(l["unknown"])
  BY <1>1, <1>3, <1>11, Concatenated
<1>13. UNION {ToSet(l[type]) : type \in Types} =
         ToSet(l["alias"]) \cup ToSet(l["release"]) \cup ToSet(l["weekly"])
           \cup ToSet(l["daily"]) \cup ToSet(l["candidate"])
           \cup ToSet(l["experimental"]) \cup ToSet(l["unknown"])
  BY DEF Types
<1> QED BY <1>2, <1>8, <1>9, <1>10, <1>11, <1>12, <1>13

LEMMA FirstOfIs ==
  ASSUME NEW X, NEW l \in Seq(X), NEW n \in Nat
  PROVE  FirstOf(l, n) \in Seq(X) /\ ToSet(FirstOf(l, n)) \subseteq ToSet(l)
<1> DEFINE m == IF n < Len(l) THEN n ELSE Len(l)
<1>1. m \in 0..Len(l) OBVIOUS
<1> HIDE DEF m
<1>2. /\ SubSeq(l, 1, m) \in Seq(X) /\ DOMAIN SubSeq(l, 1, m) = 1..m
      /\ \A k \in 1..m : SubSeq(l, 1, m)[k] = l[k] /\ k \in DOMAIN l
  BY <1>1
<1>3. FirstOf(l, n) = SubSeq(l, 1, m) BY DEF FirstOf, m
<1>4. DOMAIN FirstOf(l, n) = 1..m /\ \A k \in 1..m : FirstOf(l, n)[k] \in ToSet(l)
  BY <1>2, <1>3 DEF ToSet
<1>5. ToSet(FirstOf(l, n)) \subseteq ToSet(l) BY <1>4 DEF ToSet
<1> QED BY <1>2, <1>3, <1>5

LEMMA Rearranged ==
  ASSUME NEW I, IsFiniteSet(I), NEW rank \in [I -> 1..Cardinality(I)],
         \A i, j \in I : rank[i] = rank[j] => i = j
  PROVE  /\ Arranged(rank) \in Seq(I) /\ ToSet(Arranged(rank)) = I
         /\ \A k \in DOMAIN Arranged(rank) :
               Arranged(rank)[k] \in I /\ rank[Arranged(rank)[k]] = k
<1>1. Cardinality(I) \in Nat BY FS_CardinalityType
<1>2. /\ Arranged(rank) \in Seq(I) /\ DOMAIN Arranged(rank) = 1..Cardinality(I)
      /\ \A j \in I : Arranged(rank)[rank[j]] = j
      /\ \A k \in 1..Cardinality(I) : rank[Arranged(rank)[k]] = k
  BY <1>1, ArrangedIs
<1>3. \A j \in I : rank[j] \in DOMAIN Arranged(rank) BY <1>2
<1>4. \A k \in DOMAIN Arranged(rank) : Arranged(rank)[k] \in I BY <1>2, ListIs
<1>5. ToSet(Arranged(rank)) = I BY <1>2, <1>3, <1>4 DEF ToSet
<1> QED BY <1>2, <1>4, <1>5

LEMMA InOrderIs ==
  ASSUME NEW I \in SUBSET Nat, IsFiniteSet(I)
  PROVE  /\ InOrder(I) \in Seq(I) /\ ToSet(InOrder(I)) = I
         /\ \A k, m \in DOMAIN InOrder(I) : k < m <=> InOrder(I)[k] < InOrder(I)[m]
<1> DEFINE B == {p \in I \X I : p[1] < p[2]}
           rank == [j \in I |-> Cardinality({i \in I : i <= j})]
           ranked == RankIn(I, B)
<1>1. \A i, j \in I : <<i, j>> \in B <=> i < j OBVIOUS
<1> HIDE DEF B
<1>2. ASSUME NEW i \in I, NEW j \in I PROVE i <= j <=> i = j \/ <<i, j>> \in B
  <2>1. i \in Nat /\ j \in Nat OBVIOUS
  <2> QED BY <1>1, <2>1
<1>3. \A j \in I : {i \in I : i <= j} = {i \in I : i = j \/ <<i, j>> \in B} BY <1>2
<1>4. rank = ranked BY <1>3 DEF RankIn
<1>5. OrdersStrictly(I, B) BY <1>1 DEF OrdersStrictly
<1>6. Ranks(I, B, ranked) BY <1>5, Ranking
<1>7. InOrder(I) = Arranged(ranked) BY <1>4 DEF InOrder
<1> HIDE DEF ranked
<1>7a. /\ ranked \in [I -> 1..Cardinality(I)] /\ \A i, j \in I : ranked[i] = ranked[j] => i = j
       /\ \A i, j \in I : <<i, j>> \in B <=> ranked[i] < ranked[j]
  BY <1>6 DEF Ranks
<1> DEFINE l == Arranged(ranked)
<1>8. /\ l \in Seq(I) /\ ToSet(l) = I
      /\ \A k \in DOMAIN l : l[k] \in I /\ ranked[l[k]] = k
  BY <1>7a, Rearranged
<1>8a. l = InOrder(I) BY <1>7
<1> HIDE DEF l
<1>9. ASSUME NEW k \in DOMAIN l, NEW m \in DOMAIN l PROVE k < m <=> l[k] < l[m]
  <2>1. l[k] \in I /\ l[m] \in I /\ ranked[l[k]] = k /\ ranked[l[m]] = m BY <1>8
  <2>2. <<l[k], l[m]>> \in B <=> l[k] < l[m] BY <1>1, <2>1
  <2>3. <<l[k], l[m]>> \in B <=> k < m BY <1>7a, <2>1
  <2> QED BY <2>2, <2>3
<1> QED BY <1>8, <1>8a, <1>9

LEMMA KeptIs ==
  ASSUME NEW X, NEW l \in Seq(X), NEW S
  PROVE  Kept(l, S) \in Seq(X) /\ ToSet(Kept(l, S)) = ToSet(l) \cap S
<1> DEFINE I == {k \in DOMAIN l : l[k] \in S}
           places == InOrder(I)
<1>1. I \in SUBSET Nat /\ I \subseteq 1..Len(l) /\ Len(l) \in Nat OBVIOUS
<1>2. IsFiniteSet(I) BY <1>1, FS_Interval, FS_Subset
<1>3. places \in Seq(I) /\ ToSet(places) = I BY <1>1, <1>2, InOrderIs
<1>4. Kept(l, S) = [k \in DOMAIN places |-> l[places[k]]] BY DEF Kept
<1>5. DOMAIN places = 1..Len(places) /\ Len(places) \in Nat /\ I \subseteq DOMAIN l
  BY <1>3
<1>6. \A i \in I : l[i] \in X /\ l[i] \in S OBVIOUS
<1>7. ToSet(l) \cap S = {l[i] : i \in I} BY DEF ToSet
<1> HIDE DEF places, I
<1>8. \A k \in DOMAIN places : places[k] \in I BY <1>3
<1>9. Kept(l, S) \in Seq(X) BY <1>4, <1>5, <1>6, <1>8
<1>10. DOMAIN Kept(l, S) = DOMAIN places BY <1>4
<1>11. ToSet(Kept(l, S)) = {l[places[k]] : k \in DOMAIN places} BY <1>4, <1>10 DEF ToSet
<1>12. I = {places[k] : k \in DOMAIN places} BY <1>3 DEF ToSet
<1>13. {l[places[k]] : k \in DOMAIN places} = {l[i] : i \in I} BY <1>12
<1> QED BY <1>7, <1>9, <1>11, <1>13

LEMMA SetToSeqIs ==
  ASSUME NEW S, IsFiniteSet(S)
  PROVE  SetToSeq(S) \in Seq(S) /\ ToSet(SetToSeq(S)) = S
<1> DEFINE n == Cardinality(S)
           f == SetToSeq(S)
<1>1. n \in Nat /\ ExistsBijection(1..n, S) BY FS_CardinalityType
<1>2. PICK g : g \in Injection(1..n, S) BY <1>1 DEF ExistsBijection, Bijection
<1>3. f \in [1..n -> S] /\ IsInjective(f)
  BY <1>2 DEF SetToSeq, Injection
<1> HIDE DEF f
<1>4. f \in Injection(1..n, S) BY <1>3 DEF Injection
<1>5. Cardinality(1..n) = n BY <1>1, FS_Interval
<1>6. f \in Surjection(1..n, S) BY <1>4, <1>5, FS_Injection
<1>7. \A x \in S : \E k \in 1..n : f[k] = x BY <1>6 DEF Surjection
<1>8. ToSet(f) = S BY <1>3, <1>7 DEF ToSet
<1>9. f \in Seq(S) BY <1>1, <1>3
<1> QED BY <1>8, <1>9 DEF f

LEMMA MaxIs ==
  ASSUME NEW n \in Nat, NEW S \in SUBSET (1..n), S # {}
  PROVE  Max(S) \in S
<1> DEFINE Has(I) == \E x \in I : \A y \in I : x >= y
           T == {k \in 0..n : \A I \in SUBSET (1..k) : I # {} => Has(I)}
<1>1. 0 \in T
  <2>1. \A I \in SUBSET (1..0) : I = {} OBVIOUS
  <2> HIDE DEF Has
  <2>2. \A I \in SUBSET (1..0) : I # {} => Has(I) BY <2>1
  <2>3. 0 \in 0..n OBVIOUS
  <2> QED BY <2>2, <2>3, Zenon
<1>2. ASSUME NEW k \in 1..n, k-1 \in T PROVE k \in T
  <2>1. SUFFICES ASSUME NEW I \in SUBSET (1..k), I # {} PROVE Has(I) OBVIOUS
  <2>2. CASE k \in I BY <2>2
  <2>3. CASE k \notin I
    <3>1. I \in SUBSET (1..(k-1)) BY <2>3
    <3>2. \A J \in SUBSET (1..(k-1)) : J # {} => Has(J) BY <1>2
    <3> HIDE DEF Has
    <3> QED BY <3>1, <3>2, <2>1
  <2> QED BY <2>2, <2>3
<1> HIDE DEF T
<1>3. n \in T BY <1>1, <1>2, Counting
<1>4. Has(S) BY <1>3 DEF T
<1> QED BY <1>4 DEF Max

TagList == Seq(RegistryTag)

LEMMA PlacesFinite ==
  ASSUME NEW X, NEW l \in Seq(X), NEW I \in SUBSET DOMAIN l
  PROVE  I \in SUBSET Nat /\ IsFiniteSet(I)
<1>1. DOMAIN l = 1..Len(l) /\ Len(l) \in Nat OBVIOUS
<1>2. IsFiniteSet(1..Len(l)) BY <1>1, FS_Interval
<1> QED BY <1>1, <1>2, FS_Subset

LEMMA NamedIs ==
  ASSUME NEW X, NEW tags \in Seq(X), NEW name
  PROVE  LET found == {i \in DOMAIN tags : tags[i].name = name} IN
         IF found = {} THEN Named(tags, name) = 0 ELSE Named(tags, name) \in found
<1> DEFINE found == {i \in DOMAIN tags : tags[i].name = name}
<1>1. found \in SUBSET (1..Len(tags)) /\ Len(tags) \in Nat OBVIOUS
<1>2. Named(tags, name) = IF found = {} THEN 0 ELSE Max(found) BY DEF Named
<1> HIDE DEF found
<1>3. found # {} => Max(found) \in found BY <1>1, MaxIs
<1>4. IF found = {} THEN Named(tags, name) = 0 ELSE Named(tags, name) \in found
  BY <1>2, <1>3
<1> QED BY <1>4 DEF found

\* A sorted list has every place once, and what is before in the order is before
\* in the list.
LEMMA SortReverseIs ==
  ASSUME NEW tags \in TagList, NEW I \in SUBSET DOMAIN tags
  PROVE  LET l == SortReverse(tags, I) IN
         /\ l \in Seq(I) /\ ToSet(l) = I
         /\ \A k, m \in DOMAIN l : k < m <=> Before(tags, l[k], l[m])
<1> DEFINE B == {p \in I \X I : Before(tags, p[1], p[2])}
           l == SortReverse(tags, I)
           rank == [j \in I |-> Cardinality({i \in I : i = j \/ Before(tags, i, j)})]
           ranked == RankIn(I, B)
<1>1. \A i, j \in I : <<i, j>> \in B <=> Before(tags, i, j) OBVIOUS
<1>2. \A i \in I : tags[i] \in RegistryTag /\ i \in Nat BY DEF TagList
<1> HIDE DEF B
<1>3. \A j \in I : {i \in I : i = j \/ Before(tags, i, j)} = {i \in I : i = j \/ <<i, j>> \in B}
  BY <1>1
<1>4. rank = ranked BY <1>3 DEF RankIn
<1>5. ASSUME NEW i \in I PROVE <<i, i>> \notin B
  <2>1. Compare(tags[i], tags[i]) = 0 BY <1>2, CompareChain DEF Chain
  <2> QED BY <1>1, <1>2, <2>1 DEF Before
<1>6. ASSUME NEW i \in I, NEW j \in I, i # j PROVE <<i, j>> \in B \/ <<j, i>> \in B
  <2>1. /\ Compare(tags[i], tags[j]) \in {-1, 0, 1}
        /\ Compare(tags[j], tags[i]) = -Compare(tags[i], tags[j])
    BY <1>2, CompareChain DEF Chain
  <2>2. i < j \/ j < i BY <1>2, <1>6
  <2> QED BY <1>1, <2>1, <2>2 DEF Before
<1>7. ASSUME NEW i \in I, NEW j \in I, NEW k \in I, <<i, j>> \in B, <<j, k>> \in B
      PROVE  <<i, k>> \in B
  <2>1. Chain(Compare(tags[i], tags[j]), Compare(tags[j], tags[k]), Compare(tags[i], tags[k]),
              Compare(tags[j], tags[i]))
    BY <1>2, CompareChain
  <2>2. Before(tags, i, j) /\ Before(tags, j, k) BY <1>1, <1>7
  <2>3. Before(tags, i, k) BY <1>2, <2>1, <2>2 DEF Before, Chain
  <2> QED BY <1>1, <2>3
<1>8. IsFiniteSet(I) /\ Cardinality(I) \in Nat
  BY PlacesFinite, FS_CardinalityType DEF TagList
<1>9. Ranks(I, B, ranked)
  <2>1. OrdersStrictly(I, B) BY <1>5, <1>6, <1>7 DEF OrdersStrictly
  <2> QED BY <2>1, <1>8, Ranking
<1>10. l = Arranged(ranked) BY <1>4 DEF SortReverse
<1> HIDE DEF ranked, l
<1>11. l \in Seq(I) /\ ToSet(l) = I BY <1>8, <1>9, <1>10, Rearranged DEF Ranks
<1>12. DOMAIN l = 1..Cardinality(I) /\ \A k \in DOMAIN l : l[k] \in I /\ ranked[l[k]] = k
  <2>1. Len(l) = Cardinality(I) /\ \A k \in 1..Cardinality(I) : ranked[l[k]] = k
    BY <1>8, <1>9, <1>10, ArrangedIs DEF Ranks
  <2>2. DOMAIN l = 1..Len(l) /\ \A k \in DOMAIN l : l[k] \in I BY <1>11, ListIs
  <2> QED BY <2>1, <2>2
<1>13. ASSUME NEW k \in DOMAIN l, NEW m \in DOMAIN l
       PROVE  k < m <=> Before(tags, l[k], l[m])
  <2>1. l[k] \in I /\ l[m] \in I /\ ranked[l[k]] = k /\ ranked[l[m]] = m BY <1>12
  <2> QED BY <2>1, <1>1, <1>9 DEF Ranks
<1> QED BY <1>11, <1>13 DEF l

OfType(tags, type) == {i \in DOMAIN tags : tags[i].type = type}

LEMMA Widened ==
  ASSUME NEW X, NEW Y, X \subseteq Y, NEW l \in Seq(X)
  PROVE  l \in Seq(Y)
  OBVIOUS

LEMMA ByTypeIs ==
  ASSUME NEW tags \in TagList, NEW type
  PROVE  ByType(tags, type) \in Seq(DOMAIN tags) /\ ToSet(ByType(tags, type)) = OfType(tags, type)
<1> DEFINE I == OfType(tags, type)
<1>1. I \in SUBSET DOMAIN tags BY DEF OfType
<1>2. ByType(tags, type) = SortReverse(tags, I) BY DEF ByType, OfType
<1> HIDE DEF I
<1>3. SortReverse(tags, I) \in Seq(I) /\ ToSet(SortReverse(tags, I)) = I
  BY <1>1, SortReverseIs, Zenon
<1>4. SortReverse(tags, I) \in Seq(DOMAIN tags) BY <1>1, <1>3, Widened
<1> QED BY <1>2, <1>3, <1>4 DEF I

LEMMA TypesCover ==
  ASSUME NEW tags \in TagList
  PROVE  UNION {OfType(tags, type) : type \in Types} = DOMAIN tags
<1>1. \A i \in DOMAIN tags : tags[i].type \in Types BY DEF TagList, RegistryTag
<1> QED BY <1>1 DEF OfType

LEMMA AllTagsIs ==
  ASSUME NEW tags \in TagList, NEW hideArch \in BOOLEAN
  PROVE  /\ AllTags(tags, hideArch) \in Seq(DOMAIN tags)
         /\ ToSet(AllTags(tags, hideArch)) = IF hideArch THEN Generics(tags) ELSE DOMAIN tags
<1> DEFINE lists == [type \in Types |-> ByType(tags, type)]
           sorted == InMenuOrder(lists)
<1>1. \A type \in Types : /\ lists[type] \in Seq(DOMAIN tags)
                          /\ ToSet(lists[type]) = OfType(tags, type)
  BY ByTypeIs
<1> HIDE DEF lists
<1>2. sorted \in Seq(DOMAIN tags) /\ ToSet(sorted) = UNION {ToSet(lists[type]) : type \in Types}
  BY <1>1, InMenuOrderIs
<1>3. ToSet(sorted) = DOMAIN tags BY <1>1, <1>2, TypesCover
<1>4. AllTags(tags, hideArch) = IF hideArch THEN Kept(sorted, Generics(tags)) ELSE sorted
  BY DEF AllTags, lists
<1> HIDE DEF sorted
<1>5. /\ Kept(sorted, Generics(tags)) \in Seq(DOMAIN tags)
      /\ ToSet(Kept(sorted, Generics(tags))) = ToSet(sorted) \cap Generics(tags)
  BY <1>2, KeptIs
<1>6. Generics(tags) \subseteq DOMAIN tags BY DEF Generics
<1> QED BY <1>2, <1>3, <1>4, <1>5, <1>6

\* The places of the subset: the first ones of three types, and the included ones.
LEMMA SubsetPlaces ==
  ASSUME NEW tags \in TagList,
         NEW limit \in [releases : Nat, weeklies : Nat, dailies : Nat, include : SUBSET Nat],
         NEW removeArch \in BOOLEAN
  PROVE  Subset(tags, limit, limit.include, removeArch) \in Seq(DOMAIN tags)
<1>1. ASSUME NEW type, NEW n \in Nat
      PROVE  FirstTags(tags, type, n, removeArch) \in Seq(DOMAIN tags)
  <2>1. ByType(tags, type) \in Seq(DOMAIN tags) BY ByTypeIs
  <2>2. Kept(ByType(tags, type), Generics(tags)) \in Seq(DOMAIN tags) BY <2>1, KeptIs
  <2> QED BY <2>1, <2>2, FirstOfIs DEF FirstTags
<1>2. Included(tags, limit.include) \in Seq(DOMAIN tags)
  <2> DEFINE I == {Named(tags, n) : n \in limit.include} \ {0}
  <2>1. ASSUME NEW n PROVE Named(tags, n) \in DOMAIN tags \cup {0}
    BY NamedIs DEF TagList
  <2>2. I \in SUBSET DOMAIN tags BY <2>1
  <2>3. Included(tags, limit.include) = SetToSeq(I) BY DEF Included
  <2> HIDE DEF I
  <2>4. IsFiniteSet(I) BY <2>2, PlacesFinite DEF TagList
  <2>5. SetToSeq(I) \in Seq(I) BY <2>4, SetToSeqIs
  <2> QED BY <2>2, <2>3, <2>5, Widened
<1>3. limit.releases \in Nat /\ limit.weeklies \in Nat /\ limit.dailies \in Nat OBVIOUS
<1>4. /\ FirstTags(tags, "release", limit.releases, removeArch) \in Seq(DOMAIN tags)
      /\ FirstTags(tags, "weekly", limit.weeklies, removeArch) \in Seq(DOMAIN tags)
      /\ FirstTags(tags, "daily", limit.dailies, removeArch) \in Seq(DOMAIN tags)
  BY <1>1, <1>3
<1> QED BY <1>2, <1>4, Concatenated DEF Subset

\* What a filter and its inversion say of the tags of one type.
LEMMA FilterListIs ==
  ASSUME NEW tags \in TagList, NEW type \in Types, NEW policy, NEW now,
         type \in Filtered => policy[type].number \in Int
  PROVE  LET kept == FilterList(tags, type, policy, now, FALSE, FALSE)
             out == FilterList(tags, type, policy, now, TRUE, FALSE) IN
         /\ kept \in Seq(DOMAIN tags) /\ ToSet(kept) \subseteq OfType(tags, type)
         /\ type \notin Filtered => ToSet(kept) = OfType(tags, type)
         /\ out \in Seq(DOMAIN tags)
         /\ ToSet(out) = {i \in OfType(tags, type) : tags[i].name \notin NamesOf(tags, kept)}
<1> DEFINE l == ByType(tags, type)
           allowed == Kept(l, {i \in DOMAIN tags : Allows(policy[type], now, tags[i])})
           kept == IF type \in Filtered THEN TagFilter(tags, l, policy[type], now) ELSE l
           new == {i \in DOMAIN tags : tags[i].name \notin NamesOf(tags, kept)}
<1>1. /\ FilterList(tags, type, policy, now, FALSE, FALSE) = kept
      /\ FilterList(tags, type, policy, now, TRUE, FALSE) = Kept(l, new)
  BY DEF FilterList
<1>2. l \in Seq(DOMAIN tags) /\ ToSet(l) = OfType(tags, type) BY ByTypeIs
<1>3. ASSUME type \in Filtered
      PROVE  kept \in Seq(DOMAIN tags) /\ ToSet(kept) \subseteq ToSet(l)
  <2>1. allowed \in Seq(DOMAIN tags) /\ ToSet(allowed) \subseteq ToSet(l)
    BY <1>2, KeptIs
  <2>2. kept = IF policy[type].number <= 0 THEN allowed ELSE FirstOf(allowed, policy[type].number)
    BY <1>3 DEF TagFilter
  <2> HIDE DEF allowed, kept, l
  <2>3. CASE policy[type].number <= 0 BY <2>1, <2>2, <2>3
  <2>4. CASE ~(policy[type].number <= 0)
    <3>1. policy[type].number \in Nat BY <1>3, <2>4
    <3>2. /\ FirstOf(allowed, policy[type].number) \in Seq(DOMAIN tags)
          /\ ToSet(FirstOf(allowed, policy[type].number)) \subseteq ToSet(allowed)
      BY <3>1, <2>1, FirstOfIs
    <3> QED BY <2>1, <2>2, <2>4, <3>2
  <2> QED BY <2>3, <2>4
<1>4. type \notin Filtered => kept = l OBVIOUS
<1>5. OfType(tags, type) \subseteq DOMAIN tags BY DEF OfType
<1> HIDE DEF l, kept
<1>6. kept \in Seq(DOMAIN tags) /\ ToSet(kept) \subseteq OfType(tags, type)
  BY <1>2, <1>3, <1>4
<1>7. Kept(l, new) \in Seq(DOMAIN tags) /\ ToSet(Kept(l, new)) = ToSet(l) \cap new
  BY <1>2, KeptIs
<1>8. OfType(tags, type) \cap new = {i \in OfType(tags, type) : tags[i].name \notin NamesOf(tags, kept)}
  BY <1>5
<1> QED BY <1>1, <1>2, <1>4, <1>6, <1>7, <1>8

NamesAt(tags, I) == {tags[i].name : i \in I}

LEMMA NamesOfIs ==
  ASSUME NEW tags, NEW l
  PROVE  NamesOf(tags, l) = NamesAt(tags, ToSet(l))
  BY DEF NamesOf, NamesAt, ToSet

\* A filter and its inversion divide the names, if these are unique.
LEMMA FilterIs ==
  ASSUME NEW tags \in TagList, NEW policy, NEW now,
         \A type \in Filtered : policy[type].number \in Int
  PROVE  LET kept == Filter(tags, policy, now, FALSE, FALSE)
             out == Filter(tags, policy, now, TRUE, FALSE) IN
         /\ kept \in Seq(DOMAIN tags) /\ out \in Seq(DOMAIN tags)
         /\ \A i \in DOMAIN tags : tags[i].type \notin Filtered => i \in ToSet(kept)
         /\ (\A i, j \in DOMAIN tags : tags[i].name = tags[j].name => i = j)
              => ToSet(out) = DOMAIN tags \ ToSet(kept)
<1> DEFINE K(type) == FilterList(tags, type, policy, now, FALSE, FALSE)
           O(type) == FilterList(tags, type, policy, now, TRUE, FALSE)
           kl == [type \in Types |-> K(type)]
           ol == [type \in Types |-> O(type)]
           kept == InMenuOrder(kl)
           out == InMenuOrder(ol)
<1>1. kept = Filter(tags, policy, now, FALSE, FALSE) /\ out = Filter(tags, policy, now, TRUE, FALSE)
  BY DEF Filter
<1>2. ASSUME NEW type \in Types
      PROVE  /\ K(type) \in Seq(DOMAIN tags) /\ ToSet(K(type)) \subseteq OfType(tags, type)
             /\ type \notin Filtered => ToSet(K(type)) = OfType(tags, type)
             /\ O(type) \in Seq(DOMAIN tags)
             /\ ToSet(O(type)) = {i \in OfType(tags, type) :
                                    tags[i].name \notin NamesOf(tags, K(type))}
  BY FilterListIs
<1> HIDE DEF K, O
<1>3. \A type \in Types : kl[type] = K(type) /\ ol[type] = O(type) OBVIOUS
<1> HIDE DEF kl, ol
<1>4. kept \in Seq(DOMAIN tags) /\ ToSet(kept) = UNION {ToSet(kl[type]) : type \in Types}
  BY <1>2, <1>3, InMenuOrderIs
<1>5. out \in Seq(DOMAIN tags) /\ ToSet(out) = UNION {ToSet(ol[type]) : type \in Types}
  BY <1>2, <1>3, InMenuOrderIs
<1> HIDE DEF kept, out
<1>6. \A i \in DOMAIN tags : tags[i].type \in Types BY DEF TagList, RegistryTag
<1>7. ASSUME NEW i \in DOMAIN tags
      PROVE  /\ i \in ToSet(kept) <=> i \in ToSet(K(tags[i].type))
             /\ i \in ToSet(out) <=> i \in ToSet(O(tags[i].type))
  <2>1. \A type \in Types : i \in OfType(tags, type) => type = tags[i].type BY DEF OfType
  <2>2. \A type \in Types : i \in ToSet(K(type)) \/ i \in ToSet(O(type)) => type = tags[i].type
    BY <1>2, <2>1
  <2> QED BY <1>3, <1>4, <1>5, <1>6, <2>2
<1>8. \A i \in DOMAIN tags : i \in OfType(tags, tags[i].type) BY DEF OfType
<1>9. \A i \in DOMAIN tags : tags[i].type \notin Filtered => i \in ToSet(kept)
  BY <1>2, <1>6, <1>7, <1>8
<1>10. ASSUME \A i, j \in DOMAIN tags : tags[i].name = tags[j].name => i = j
       PROVE  ToSet(out) = DOMAIN tags \ ToSet(kept)
  <2>1. ToSet(out) \subseteq DOMAIN tags BY <1>5, ListIs
  <2>2. ASSUME NEW i \in DOMAIN tags PROVE i \in ToSet(out) <=> i \notin ToSet(kept)
    <3> DEFINE type == tags[i].type
    <3>1. type \in Types /\ i \in OfType(tags, type) BY <1>6, <1>8
    <3>2. ToSet(K(type)) \subseteq DOMAIN tags BY <1>2, <3>1, ListIs
    <3>3. NamesOf(tags, K(type)) = NamesAt(tags, ToSet(K(type))) BY NamesOfIs
    <3>4. tags[i].name \in NamesOf(tags, K(type)) <=> i \in ToSet(K(type))
      BY <1>10, <3>2, <3>3 DEF NamesAt
    <3> QED BY <1>2, <1>7, <3>1, <3>4
  <2> QED BY <2>1, <2>2
<1> QED BY <1>1, <1>4, <1>5, <1>9, <1>10

-----------------------------------------------------------------------------
(* Images, and what resolving aliases does to them *)

Image ==
    {img \in [tag : RegistryTag, digest : Digests, aliases : SUBSET Nat, target : Optional,
              nodes : SUBSET Nodes] :
        img.target # Absent => img.tag.type = "alias"}

LEMMA ImageFields ==
  ASSUME NEW img \in Image
  PROVE  /\ img.tag \in RegistryTag /\ img.digest \in Digests /\ img.aliases \in SUBSET Nat
         /\ img.target \in Optional /\ img.nodes \in SUBSET Nodes
         /\ img.target # Absent => img.tag.type = "alias"
         /\ img.tag.name \in Nat /\ img.tag.name # Absent /\ img.tag.type \in Types
  BY DEF Image, RegistryTag, Absent

\* What no step undoes.
Outlives(new, old) ==
    /\ new \in Image
    /\ new.digest = old.digest /\ new.tag.name = old.tag.name /\ new.nodes = old.nodes
    /\ old.aliases \subseteq new.aliases
    /\ PossibleAlias(new) <=> PossibleAlias(old)
    /\ old.target # Absent => new.target # Absent

LEMMA WithAliases ==
  ASSUME NEW img \in Image, NEW names \in SUBSET Nat
  PROVE  LET w == [img EXCEPT !.aliases = @ \cup names] IN
         /\ Outlives(w, img) /\ w.tag = img.tag /\ w.target = img.target
         /\ names \subseteq w.aliases
<1> DEFINE w == [img EXCEPT !.aliases = @ \cup names]
<1>1. /\ w.tag = img.tag /\ w.target = img.target /\ w.digest = img.digest
      /\ w.nodes = img.nodes /\ w.aliases = img.aliases \cup names
  BY DEF Image
<1>2. w \in Image BY DEF Image
<1> QED BY <1>1, <1>2 DEF Outlives, PossibleAlias

LEMMA ResolvedIs ==
  ASSUME NEW img \in Image, NEW t \in Image, PossibleAlias(img)
  PROVE  /\ Outlives(Resolved(img, t), img)
         /\ Resolved(img, t).target = t.tag.name
         /\ Resolved(img, t).tag.name = img.tag.name
<1> DEFINE r == Resolved(img, t)
           tag == AliasTag(img.tag, t.tag)
<1>1. img.tag \in RegistryTag /\ t.tag \in RegistryTag BY DEF Image
<1>2. tag \in RegistryTag /\ tag.name = img.tag.name /\ tag.type = "alias"
  BY <1>1 DEF RegistryTag, Types, AliasTag
<1>3. /\ r.tag = tag /\ r.target = t.tag.name /\ r.digest = img.digest /\ r.nodes = img.nodes
      /\ r.aliases = img.aliases \cup (t.aliases \ {img.tag.name})
  <2>1. img \in [tag : RegistryTag, digest : Digests, aliases : SUBSET Nat, target : Optional,
                 nodes : SUBSET Nodes]
    BY DEF Image
  <2>2. r.tag = tag BY <2>1 DEF Resolved
  <2>3. r.target = t.tag.name BY <2>1 DEF Resolved
  <2>4. r.aliases = img.aliases \cup (t.aliases \ {img.tag.name}) BY <2>1 DEF Resolved
  <2>5. r.digest = img.digest /\ r.nodes = img.nodes BY <2>1 DEF Resolved
  <2> QED BY <2>2, <2>3, <2>4, <2>5
<1> HIDE DEF tag, r
<1>4. t.tag.name \in Nat /\ t.aliases \in SUBSET Nat BY ImageFields
<1>5. t.tag.name \in Optional /\ t.tag.name # Absent BY <1>4 DEF Optional, Absent
<1>7. r \in [tag : RegistryTag, digest : Digests, aliases : SUBSET Nat, target : Optional,
              nodes : SUBSET Nodes]
  <2> DEFINE A == img.aliases \cup (t.aliases \ {img.tag.name})
             T == t.tag.name
  <2>1. A \in SUBSET Nat BY <1>4, ImageFields
  <2>2. img \in [tag : RegistryTag, digest : Digests, aliases : SUBSET Nat, target : Optional,
                 nodes : SUBSET Nodes]
    BY DEF Image
  <2>3. r = [img EXCEPT !.target = T, !.aliases = A, !.tag = tag]
    BY <2>2 DEF r, tag, Resolved
  <2>4. T \in Optional BY <1>5
  <2> HIDE DEF A, T
  <2> QED BY <1>2, <2>1, <2>2, <2>3, <2>4
<1>8. r \in Image BY <1>2, <1>3, <1>7 DEF Image
<1>9. PossibleAlias(r) BY <1>2, <1>3 DEF PossibleAlias
<1>10. Outlives(r, img) BY <1>2, <1>3, <1>5, <1>8, <1>9 DEF Outlives
<1> QED BY <1>2, <1>3, <1>10 DEF r

LEMMA OutlivesTransitive ==
  ASSUME NEW a, NEW b, NEW c, Outlives(b, a), Outlives(c, b)
  PROVE  Outlives(c, a)
  BY DEF Outlives

LEMMA OutlivesItself ==
  ASSUME NEW a \in Image
  PROVE  Outlives(a, a)
  BY DEF Outlives

Albums(n) == [1..n -> Image]

Develops(imgs, old) == \A i \in DOMAIN old : Outlives(imgs[i], old[i])

LEMMA DevelopsFurther ==
  ASSUME NEW n, NEW a \in Albums(n), NEW b \in Albums(n), NEW c \in Albums(n),
         Develops(b, a), Develops(c, b)
  PROVE  Develops(c, a)
  BY OutlivesTransitive DEF Develops, Albums

LEMMA DevelopsItself ==
  ASSUME NEW n, NEW a \in Albums(n)
  PROVE  Develops(a, a)
  BY OutlivesItself DEF Develops, Albums

\* Every target is a proper image of the same digest.
Proper(img) == ~PossibleAlias(img)
Resolves(imgs, m) ==
    imgs[m].target # Absent =>
       \E j \in DOMAIN imgs : /\ Proper(imgs[j]) /\ imgs[j].tag.name = imgs[m].target
                              /\ imgs[j].digest = imgs[m].digest
Sound(imgs) == \A m \in DOMAIN imgs : Resolves(imgs, m)

\* What keeps the targets keeps soundness.
LEMMA SoundStays ==
  ASSUME NEW n, NEW old \in Albums(n), NEW imgs \in Albums(n), Develops(imgs, old), Sound(old),
         NEW m \in 1..n, imgs[m].target = old[m].target
  PROVE  Resolves(imgs, m)
<1>1. DOMAIN imgs = 1..n /\ DOMAIN old = 1..n BY DEF Albums
<1>2. SUFFICES ASSUME imgs[m].target # Absent
               PROVE  \E j \in DOMAIN imgs : /\ Proper(imgs[j])
                                             /\ imgs[j].tag.name = imgs[m].target
                                             /\ imgs[j].digest = imgs[m].digest
  BY DEF Resolves
<1>3. PICK j \in 1..n : Proper(old[j]) /\ old[j].tag.name = old[m].target
                        /\ old[j].digest = old[m].digest
  BY <1>1, <1>2 DEF Sound, Resolves
<1>4. Outlives(imgs[j], old[j]) /\ Outlives(imgs[m], old[m]) BY <1>1 DEF Develops
<1>5. Proper(imgs[j]) /\ imgs[j].tag.name = imgs[m].target /\ imgs[j].digest = imgs[m].digest
  BY <1>3, <1>4 DEF Outlives, Proper
<1> QED BY <1>1, <1>5

LEMMA AddAliasesIs ==
  ASSUME NEW n, NEW imgs \in Albums(n), NEW i \in 1..n, NEW names \in SUBSET Nat
  PROVE  LET new == AddAliases(imgs, i, names) IN
         /\ new \in Albums(n) /\ Develops(new, imgs)
         /\ \A m \in 1..n : new[m].target = imgs[m].target /\ new[m].tag = imgs[m].tag
         /\ names \subseteq new[i].aliases
         /\ Sound(imgs) => Sound(new)
<1> DEFINE new == AddAliases(imgs, i, names)
           w == [imgs[i] EXCEPT !.aliases = @ \cup names]
<1>1. new = [imgs EXCEPT ![i] = w] BY DEF AddAliases
<1>2. DOMAIN imgs = 1..n /\ \A m \in 1..n : imgs[m] \in Image BY DEF Albums
<1>3. /\ Outlives(w, imgs[i]) /\ w.tag = imgs[i].tag /\ w.target = imgs[i].target
      /\ names \subseteq w.aliases
  BY <1>2, WithAliases
<1>4. w \in Image BY <1>3 DEF Outlives
<1> HIDE DEF w, new
<1>5. \A m \in 1..n : new[m] = IF m = i THEN w ELSE imgs[m] BY <1>1, <1>2
<1>6. new \in Albums(n) BY <1>1, <1>2, <1>4 DEF Albums
<1>7. Develops(new, imgs) BY <1>2, <1>3, <1>5, OutlivesItself DEF Develops
<1>8. \A m \in 1..n : new[m].target = imgs[m].target /\ new[m].tag = imgs[m].tag
  BY <1>3, <1>5
<1>9. Sound(imgs) => Sound(new)
  <2>1. DOMAIN new = 1..n BY <1>6 DEF Albums
  <2> QED BY <2>1, <1>6, <1>7, <1>8, SoundStays DEF Sound
<1> QED BY <1>3, <1>5, <1>6, <1>7, <1>8, <1>9 DEF new

LEMMA ResolveAliasIs ==
  ASSUME NEW n, NEW imgs \in Albums(n), NEW i \in 1..n, NEW t \in 1..n, PossibleAlias(imgs[i])
  PROVE  LET new == ResolveAlias(imgs, i, t) IN
         /\ new \in Albums(n) /\ Develops(new, imgs)
         /\ new[i].target = imgs[t].tag.name
         /\ \A m \in 1..n : m # i => new[m].target = imgs[m].target
         /\ imgs[i].tag.name \in new[t].aliases
         /\ Sound(imgs) /\ Proper(imgs[t]) /\ imgs[t].digest = imgs[i].digest => Sound(new)
<1> DEFINE new == ResolveAlias(imgs, i, t)
           r == Resolved(imgs[i], imgs[t])
           mid == [imgs EXCEPT ![i] = r]
           own == imgs[i].tag.name
<1>1. DOMAIN imgs = 1..n /\ \A m \in 1..n : imgs[m] \in Image BY DEF Albums
<1>3. new = AddAliases(mid, t, {own}) BY DEF ResolveAlias
<1>4. own \in Nat BY <1>1, ImageFields
<1>5. Outlives(r, imgs[i]) /\ r.target = imgs[t].tag.name BY <1>1, ResolvedIs
<1>6. r \in Image BY <1>5 DEF Outlives
<1> HIDE DEF r
<1>7. mid \in Albums(n) BY <1>1, <1>6 DEF Albums
<1>8. \A m \in 1..n : mid[m] = IF m = i THEN r ELSE imgs[m] BY <1>1
<1>9. Develops(mid, imgs) BY <1>1, <1>5, <1>8, OutlivesItself DEF Develops
<1> HIDE DEF mid, new
<1>10. /\ new \in Albums(n) /\ Develops(new, mid) /\ {own} \subseteq new[t].aliases
       /\ \A m \in 1..n : new[m].target = mid[m].target
  BY <1>3, <1>4, <1>7, AddAliasesIs
<1>11. Develops(new, imgs) BY <1>7, <1>9, <1>10, DevelopsFurther
<1>12. new[i].target = imgs[t].tag.name /\ \A m \in 1..n : m # i => new[m].target = imgs[m].target
  BY <1>5, <1>8, <1>10
<1>13. ASSUME Sound(imgs), Proper(imgs[t]), imgs[t].digest = imgs[i].digest
       PROVE  Sound(new)
  <2>1. DOMAIN new = 1..n BY <1>10 DEF Albums
  <2>2. Outlives(new[t], imgs[t]) /\ Outlives(new[i], imgs[i]) BY <1>1, <1>11 DEF Develops
  <2>3. Resolves(new, i)
    BY <1>12, <1>13, <2>1, <2>2 DEF Resolves, Outlives, Proper
  <2>4. \A m \in 1..n : m # i => Resolves(new, m)
    BY <1>10, <1>11, <1>12, <1>13, SoundStays
  <2> QED BY <2>1, <2>3, <2>4 DEF Sound
<1> QED BY <1>10, <1>11, <1>12, <1>13 DEF new

-----------------------------------------------------------------------------
(* Lists processed element by element *)

\* The states on the way: each follows from the one before by a step, and what
\* a step establishes of its element, no later step of another undoes.
Processed(f, S, base, l, step, G) ==
    /\ f \in [0..Len(l) -> S] /\ f[0] = base
    /\ \A k \in 1..Len(l) : f[k] = step[<<f[k-1], l[k]>>]
    /\ \A x \in ToSet(l) : <<f[Len(l)], x>> \in G

LEMMA Processing ==
  ASSUME NEW X, NEW l \in Seq(X), NEW S, NEW base \in S, NEW step \in [S \X X -> S], NEW G,
         \A s \in S, x \in X : <<step[<<s, x>>], x>> \in G,
         \A s \in S, x, y \in X : <<s, y>> \in G => <<step[<<s, x>>], y>> \in G
  PROVE  \E f : Processed(f, S, base, l, step, G)
<1> DEFINE n == Len(l)
           move == [x \in S \X (1..n) |-> step[<<x[1], l[x[2]]>>]]
<1>1. n \in Nat /\ \A k \in 1..n : l[k] \in X OBVIOUS
<1>2. move \in [S \X (1..n) -> S] BY <1>1
<1>3. \A s \in S, k \in 1..n : move[<<s, k>>] = step[<<s, l[k]>>] OBVIOUS
<1> HIDE DEF move, n
<1>4. PICK f : OnTheWay(f, n, S, base, move) BY <1>1, <1>2, Folding, Zenon
<1>4a. f \in [0..n -> S] /\ f[0] = base /\ \A k \in 1..n : f[k] = move[<<f[k-1], k>>]
  BY <1>4 DEF OnTheWay
<1>5. \A k \in 1..n : f[k-1] \in S /\ f[k] = step[<<f[k-1], l[k]>>]
  <2> SUFFICES ASSUME NEW k \in 1..n PROVE f[k-1] \in S /\ f[k] = step[<<f[k-1], l[k]>>]
    OBVIOUS
  <2>1. k-1 \in 0..n BY <1>1
  <2>2. f[k-1] \in S BY <2>1, <1>4a
  <2> QED BY <2>2, <1>3, <1>4a
<1> DEFINE T == {k \in 0..n : \A j \in 1..k : <<f[k], l[j]>> \in G}
<1>6. 0 \in T BY <1>1
<1>7. ASSUME NEW k \in 1..n, k-1 \in T PROVE k \in T
  <2>1. f[k-1] \in S /\ f[k] = step[<<f[k-1], l[k]>>] /\ l[k] \in X BY <1>1, <1>5
  <2>2. <<f[k], l[k]>> \in G BY <2>1
  <2>3. ASSUME NEW j \in 1..k, j # k PROVE <<f[k], l[j]>> \in G
    <3>1. j \in 1..(k-1) /\ j \in 1..n BY <1>1, <2>3
    <3>2. <<f[k-1], l[j]>> \in G /\ l[j] \in X BY <3>1, <1>1, <1>7
    <3> QED BY <3>2, <2>1
  <2>4. \A j \in 1..k : <<f[k], l[j]>> \in G BY <2>2, <2>3
  <2>5. k \in 0..n BY <1>1
  <2> QED BY <2>4, <2>5
<1> HIDE DEF T
<1>8. \A k \in 0..n : k \in T BY <1>1, <1>6, <1>7, Counting
<1>9. n \in T BY <1>1, <1>8
<1>10. ASSUME NEW x \in ToSet(l) PROVE <<f[n], x>> \in G
  <2>1. PICK j \in 1..n : x = l[j] BY DEF ToSet, n
  <2> QED BY <1>9, <2>1 DEF T
<1>11. Processed(f, S, base, l, step, G) BY <1>4a, <1>5, <1>10 DEF n, Processed
<1> QED BY <1>11

\* Two sequences of states that start alike and take the same steps are one.
LEMMA SameSteps ==
  ASSUME NEW n \in Nat, NEW f, NEW g, f[0] = g[0],
         \A k \in 1..n : f[k-1] = g[k-1] => f[k] = g[k]
  PROVE  f[n] = g[n]
<1> DEFINE T == {k \in 0..n : f[k] = g[k]}
<1>1. 0 \in T OBVIOUS
<1>2. \A k \in 1..n : k-1 \in T => k \in T OBVIOUS
<1> HIDE DEF T
<1>3. \A k \in 0..n : k \in T BY <1>1, <1>2, Counting
<1>4. n \in T BY <1>3
<1> QED BY <1>4 DEF T

PlacingImages(f, s, l) ==
    f = [k \in 0..Len(l) |-> IF k = 0 THEN s ELSE PlaceImage(f[k-1], l[k])]

LEMMA PlaceImagesAre ==
  ASSUME NEW s, NEW l, NEW f, Len(l) \in Nat, PlacingImages(f, s, l)
  PROVE  PlaceImages(s, l) = f[Len(l)]
<1> DEFINE g == CHOOSE g : g = [k \in 0..Len(l) |-> IF k = 0 THEN s ELSE PlaceImage(g[k-1], l[k])]
<1>1. g = [k \in 0..Len(l) |-> IF k = 0 THEN s ELSE PlaceImage(g[k-1], l[k])] OBVIOUS
<1>2. PlaceImages(s, l) = g[Len(l)] BY DEF PlaceImages
<1> HIDE DEF g
<1>3. g[0] = f[0] BY <1>1 DEF PlacingImages
<1>4. \A k \in 1..Len(l) : g[k-1] = f[k-1] => g[k] = f[k] BY <1>1 DEF PlacingImages
<1>5. g[Len(l)] = f[Len(l)] BY <1>3, <1>4, SameSteps
<1> QED BY <1>2, <1>5

PlacingAliases(f, s, l) ==
    f = [k \in 0..Len(l) |-> IF k = 0 THEN s ELSE PlaceAlias(f[k-1], l[k])]

LEMMA PlaceAliasesAre ==
  ASSUME NEW s, NEW l, NEW f, Len(l) \in Nat, PlacingAliases(f, s, l)
  PROVE  PlaceAliases(s, l) = f[Len(l)]
<1> DEFINE g == CHOOSE g : g = [k \in 0..Len(l) |-> IF k = 0 THEN s ELSE PlaceAlias(g[k-1], l[k])]
<1>1. g = [k \in 0..Len(l) |-> IF k = 0 THEN s ELSE PlaceAlias(g[k-1], l[k])] OBVIOUS
<1>2. PlaceAliases(s, l) = g[Len(l)] BY DEF PlaceAliases
<1> HIDE DEF g
<1>3. g[0] = f[0] BY <1>1 DEF PlacingAliases
<1>4. \A k \in 1..Len(l) : g[k-1] = f[k-1] => g[k] = f[k] BY <1>1 DEF PlacingAliases
<1>5. g[Len(l)] = f[Len(l)] BY <1>3, <1>4, SameSteps
<1> QED BY <1>2, <1>5

MovingAliases(f, imgs, l, new, own, gone) ==
    f = [k \in 0..Len(l) |-> IF k = 0 THEN imgs ELSE MoveAlias(f[k-1], l[k], new, own, gone)]

LEMMA MoveAliasesAre ==
  ASSUME NEW imgs, NEW l, NEW new, NEW own, NEW gone, NEW f, Len(l) \in Nat,
         MovingAliases(f, imgs, l, new, own, gone)
  PROVE  MoveAliases(imgs, l, new, own, gone) = f[Len(l)]
<1> DEFINE g == CHOOSE g : g = [k \in 0..Len(l) |->
                   IF k = 0 THEN imgs ELSE MoveAlias(g[k-1], l[k], new, own, gone)]
<1>1. g = [k \in 0..Len(l) |-> IF k = 0 THEN imgs ELSE MoveAlias(g[k-1], l[k], new, own, gone)]
  OBVIOUS
<1>2. MoveAliases(imgs, l, new, own, gone) = g[Len(l)] BY DEF MoveAliases
<1> HIDE DEF g
<1>3. g[0] = f[0] BY <1>1 DEF MovingAliases
<1>4. \A k \in 1..Len(l) : g[k-1] = f[k-1] => g[k] = f[k] BY <1>1 DEF MovingAliases
<1>5. g[Len(l)] = f[Len(l)] BY <1>3, <1>4, SameSteps
<1> QED BY <1>2, <1>5

-----------------------------------------------------------------------------
(* Duplicates of a digest *)

Unique(imgs) == \A i, j \in DOMAIN imgs : imgs[i].tag.name = imgs[j].tag.name => i = j

LEMMA UniqueStays ==
  ASSUME NEW n, NEW old \in Albums(n), NEW imgs \in Albums(n), Develops(imgs, old), Unique(old)
  PROVE  Unique(imgs)
<1>1. DOMAIN imgs = 1..n /\ DOMAIN old = 1..n BY DEF Albums
<1>2. \A i \in 1..n : imgs[i].tag.name = old[i].tag.name BY <1>1 DEF Develops, Outlives
<1> QED BY <1>1, <1>2 DEF Unique

\* What lets the aliases of an image go over to another one.
Successor(imgs, new, gone) ==
    /\ Sound(imgs) /\ Unique(imgs) /\ Proper(imgs[new])
    /\ \E j \in DOMAIN imgs : imgs[j].tag.name = gone /\ imgs[j].digest = imgs[new].digest

LEMMA SuccessorStays ==
  ASSUME NEW n, NEW old \in Albums(n), NEW imgs \in Albums(n), Develops(imgs, old), Sound(imgs),
         NEW new \in 1..n, NEW gone, Successor(old, new, gone)
  PROVE  Successor(imgs, new, gone)
<1>1. DOMAIN imgs = 1..n /\ DOMAIN old = 1..n BY DEF Albums
<1>2. Unique(imgs) BY UniqueStays DEF Successor
<1>3. \A i \in 1..n : Outlives(imgs[i], old[i]) BY <1>1 DEF Develops
<1>4. Proper(imgs[new]) BY <1>3 DEF Outlives, Proper, Successor
<1>5. PICK j \in 1..n : old[j].tag.name = gone /\ old[j].digest = old[new].digest
  BY <1>1 DEF Successor
<1>6. imgs[j].tag.name = gone /\ imgs[j].digest = imgs[new].digest
  BY <1>3, <1>5 DEF Outlives
<1> QED BY <1>1, <1>2, <1>4, <1>6 DEF Successor

LEMMA MoveAliasIs ==
  ASSUME NEW n, NEW imgs \in Albums(n), NEW o \in 1..n, NEW new \in 1..n,
         NEW own \in Nat, NEW gone \in Nat
  PROVE  LET shifted == MoveAlias(imgs, o, new, own, gone) IN
         /\ shifted \in Albums(n) /\ Develops(shifted, imgs)
         /\ Successor(imgs, new, gone) => Sound(shifted)
<1> DEFINE shifted == MoveAlias(imgs, o, new, own, gone)
           linked == AddAliases(imgs, new, {imgs[o].tag.name})
           resolved == ResolveAlias(linked, o, new)
<1>1. DOMAIN imgs = 1..n /\ \A m \in 1..n : imgs[m] \in Image BY DEF Albums
<1>2. imgs[o].tag.name \in Nat /\ gone # Absent BY <1>1, ImageFields DEF Absent
<1>3. /\ linked \in Albums(n) /\ Develops(linked, imgs)
      /\ Sound(imgs) => Sound(linked)
      /\ \A m \in 1..n : linked[m].target = imgs[m].target /\ linked[m].tag = imgs[m].tag
  BY <1>2, AddAliasesIs
<1>4. CASE imgs[o].target = gone
  <2>1. shifted = AddAliases(resolved, o, {gone}) BY <1>4 DEF MoveAlias
  <2> HIDE DEF shifted, linked
  <2>2. PossibleAlias(imgs[o]) BY <1>1, <1>2, <1>4, ImageFields DEF PossibleAlias
  <2>3. PossibleAlias(linked[o]) BY <1>3, <2>2 DEF PossibleAlias
  <2>4. /\ resolved \in Albums(n) /\ Develops(resolved, linked)
        /\ Sound(linked) /\ Proper(linked[new]) /\ linked[new].digest = linked[o].digest
             => Sound(resolved)
    BY <1>3, <2>3, ResolveAliasIs
  <2> HIDE DEF resolved
  <2>5. /\ shifted \in Albums(n) /\ Develops(shifted, resolved)
        /\ Sound(resolved) => Sound(shifted)
    BY <2>1, <2>4, AddAliasesIs
  <2>6. Develops(resolved, imgs) BY <1>3, <2>4, DevelopsFurther
  <2>7. Develops(shifted, imgs) BY <2>4, <2>5, <2>6, DevelopsFurther
  <2>8. ASSUME Successor(imgs, new, gone) PROVE Sound(shifted)
    <3>1. PICK j \in 1..n : imgs[j].tag.name = gone /\ imgs[j].digest = imgs[new].digest
      BY <1>1, <2>8 DEF Successor
    <3>2. PICK i \in 1..n : imgs[i].tag.name = imgs[o].target /\ imgs[i].digest = imgs[o].digest
      BY <1>1, <1>2, <1>4, <2>8 DEF Successor, Sound, Resolves
    <3>3. i = j BY <1>1, <1>4, <2>8, <3>1, <3>2 DEF Successor, Unique
    <3>4. imgs[o].digest = imgs[new].digest BY <3>1, <3>2, <3>3
    <3>4a. Sound(linked) BY <1>3, <2>8 DEF Successor
    <3>5. Successor(linked, new, gone) BY <1>3, <2>8, <3>4a, SuccessorStays
    <3>6. Outlives(linked[o], imgs[o]) /\ Outlives(linked[new], imgs[new])
      BY <1>1, <1>3 DEF Develops
    <3>7. linked[new].digest = linked[o].digest BY <3>4, <3>6 DEF Outlives
    <3> QED BY <2>4, <2>5, <3>5, <3>7 DEF Successor
  <2> QED BY <2>5, <2>7, <2>8 DEF shifted
<1>5. CASE imgs[o].target # gone
  <2>1. shifted = AddAliases(linked, o, {own}) BY <1>5 DEF MoveAlias
  <2> HIDE DEF shifted, linked
  <2>2. shifted \in Albums(n) /\ Develops(shifted, linked) /\ (Sound(linked) => Sound(shifted))
    BY <1>3, <2>1, AddAliasesIs
  <2>3. Develops(shifted, imgs) BY <1>3, <2>2, DevelopsFurther
  <2> QED BY <1>3, <2>2, <2>3 DEF shifted, Successor
<1> QED BY <1>4, <1>5

LEMMA MoveAliasesIs ==
  ASSUME NEW n, NEW imgs \in Albums(n), NEW l \in Seq(1..n), NEW new \in 1..n,
         NEW own \in Nat, NEW gone \in Nat
  PROVE  LET shifted == MoveAliases(imgs, l, new, own, gone) IN
         /\ shifted \in Albums(n) /\ Develops(shifted, imgs)
         /\ Successor(imgs, new, gone) => Sound(shifted)
<1> DEFINE S == {a \in Albums(n) : /\ Develops(a, imgs)
                                   /\ Successor(imgs, new, gone) => Sound(a)}
           X == 1..n
           step == [x \in S \X X |-> MoveAlias(x[1], x[2], new, own, gone)]
           G == S \X X
<1>1. imgs \in S BY DevelopsItself DEF Successor
<1>2. ASSUME NEW a \in S, NEW o \in X PROVE MoveAlias(a, o, new, own, gone) \in S
  <2> DEFINE b == MoveAlias(a, o, new, own, gone)
  <2>1. b \in Albums(n) /\ Develops(b, a) /\ (Successor(a, new, gone) => Sound(b))
    BY MoveAliasIs
  <2> HIDE DEF b
  <2>2. Develops(b, imgs) BY <2>1, DevelopsFurther
  <2>3. Successor(imgs, new, gone) => Successor(a, new, gone) BY SuccessorStays
  <2> QED BY <2>1, <2>2, <2>3 DEF b
<1>3. step \in [S \X X -> S] BY <1>2
<1>4. \A a \in S, o \in X : step[<<a, o>>] = MoveAlias(a, o, new, own, gone) OBVIOUS
<1>5. /\ \A a \in S, o \in X : <<step[<<a, o>>], o>> \in G
      /\ \A a \in S, o, p \in X : <<a, p>> \in G => <<step[<<a, o>>], p>> \in G
  BY <1>2
<1>6. l \in Seq(X) /\ Len(l) \in Nat OBVIOUS
<1> HIDE DEF S, step, G, X
<1>7. PICK f : Processed(f, S, imgs, l, step, G) BY <1>1, <1>3, <1>5, <1>6, Processing
<1>8. /\ f \in [0..Len(l) -> S] /\ f[0] = imgs
      /\ \A k \in 1..Len(l) : f[k] = step[<<f[k-1], l[k]>>]
  BY <1>7 DEF Processed
<1>9. \A k \in 1..Len(l) : l[k] \in X /\ f[k-1] \in S
  <2>1. \A k \in 1..Len(l) : k-1 \in 0..Len(l) BY <1>6
  <2> QED BY <1>6, <1>8, <2>1
<1>10. \A k \in 1..Len(l) : f[k] = MoveAlias(f[k-1], l[k], new, own, gone)
  BY <1>4, <1>8, <1>9
<1>11. MovingAliases(f, imgs, l, new, own, gone) BY <1>6, <1>8, <1>10 DEF MovingAliases
<1>12. MoveAliases(imgs, l, new, own, gone) = f[Len(l)] BY <1>6, <1>11, MoveAliasesAre, Zenon
<1>13. f[Len(l)] \in S BY <1>6, <1>8
<1> QED BY <1>12, <1>13 DEF S

-----------------------------------------------------------------------------
(* Collections of n images *)

Stores(n) == [members : Seq(1..n), byDigest : [Digests -> 0..n], unresolved : SUBSET Digests,
              images : Albums(n)]

LEMMA StoreFields ==
  ASSUME NEW n, NEW s \in Stores(n)
  PROVE  /\ s.members \in Seq(1..n) /\ s.byDigest \in [Digests -> 0..n]
         /\ s.unresolved \in SUBSET Digests
         /\ s.images \in Albums(n) /\ DOMAIN s.images = 1..n /\ \A i \in 1..n : s.images[i] \in Image
         /\ s = [members |-> s.members, byDigest |-> s.byDigest,
                 unresolved |-> s.unresolved, images |-> s.images]
  BY DEF Stores, Albums

LEMMA TagsOfIs ==
  ASSUME NEW n, NEW s \in Stores(n)
  PROVE  /\ TagsOf(s) \in Seq(RegistryTag) /\ DOMAIN TagsOf(s) = DOMAIN s.members
         /\ DOMAIN s.members = 1..Len(s.members) /\ Len(s.members) \in Nat
         /\ \A k \in DOMAIN s.members : /\ s.members[k] \in 1..n
                                        /\ TagsOf(s)[k] = s.images[s.members[k]].tag
<1>1. s.members \in Seq(1..n) /\ \A i \in 1..n : s.images[i] \in Image BY StoreFields
<1>2. /\ DOMAIN s.members = 1..Len(s.members) /\ Len(s.members) \in Nat
      /\ \A k \in DOMAIN s.members : s.members[k] \in 1..n
  BY <1>1, ListIs
<1>3. \A k \in DOMAIN s.members : s.images[s.members[k]].tag \in RegistryTag
  BY <1>1, <1>2, ImageFields
<1>4. TagsOf(s) = [k \in 1..Len(s.members) |-> s.images[s.members[k]].tag]
  BY <1>2 DEF TagsOf
<1>5. TagsOf(s) \in [1..Len(s.members) -> RegistryTag] BY <1>2, <1>3, <1>4
<1> QED BY <1>2, <1>4, <1>5

LEMMA ByTagIs ==
  ASSUME NEW n, NEW s \in Stores(n), NEW name
  PROVE  ByTag(s, name) \in (1..n) \cup {0} /\ ByTag(s, name) \in ToSet(s.members) \cup {0}
<1> DEFINE tags == TagsOf(s)
           found == {i \in DOMAIN tags : tags[i].name = name}
           k == Named(tags, name)
<1>1. /\ tags \in Seq(RegistryTag) /\ DOMAIN tags = DOMAIN s.members
      /\ \A i \in DOMAIN s.members : s.members[i] \in 1..n
  BY TagsOfIs
<1> HIDE DEF tags
<1>2. IF found = {} THEN Named(tags, name) = 0 ELSE Named(tags, name) \in found
  BY <1>1, NamedIs
<1> HIDE DEF k
<1>3. k = 0 \/ k \in DOMAIN s.members BY <1>1, <1>2 DEF k
<1>4. ByTag(s, name) = IF k = 0 THEN 0 ELSE s.members[k] BY DEF ByTag, k, tags
<1>5. k # 0 => s.members[k] \in ToSet(s.members) BY <1>3 DEF ToSet
<1> QED BY <1>1, <1>3, <1>4, <1>5

LEMMA AliasMembersAre ==
  ASSUME NEW n \in Nat, NEW s \in Stores(n), NEW names, NEW except
  PROVE  AliasMembers(s, names, except) \in SUBSET (1..n)
         /\ IsFiniteSet(AliasMembers(s, names, except))
<1>1. AliasMembers(s, names, except) \in SUBSET (1..n) BY ByTagIs DEF AliasMembers
<1>2. IsFiniteSet(1..n) BY FS_Interval
<1> QED BY <1>1, <1>2, FS_Subset

Naming(imgs, I, name) ==
    [i \in DOMAIN imgs |-> IF i \in I THEN [imgs[i] EXCEPT !.aliases = @ \cup {name}]
                           ELSE imgs[i]]

LEMMA SomeAliases ==
  ASSUME NEW n, NEW imgs \in Albums(n), NEW I, NEW name \in Nat
  PROVE  LET new == Naming(imgs, I, name) IN
         /\ new \in Albums(n) /\ Develops(new, imgs)
         /\ \A m \in 1..n : new[m].target = imgs[m].target
         /\ Sound(imgs) => Sound(new)
<1> DEFINE new == Naming(imgs, I, name)
<1>0. new = [i \in DOMAIN imgs |-> IF i \in I THEN [imgs[i] EXCEPT !.aliases = @ \cup {name}]
                                   ELSE imgs[i]]
  BY DEF Naming
<1> HIDE DEF new
<1>1. DOMAIN imgs = 1..n /\ \A m \in 1..n : imgs[m] \in Image BY DEF Albums
<1>2. {name} \in SUBSET Nat OBVIOUS
<1>3. ASSUME NEW m \in 1..n PROVE Outlives(new[m], imgs[m]) /\ new[m].target = imgs[m].target
  <2> DEFINE w == [imgs[m] EXCEPT !.aliases = @ \cup {name}]
  <2>1. new[m] = IF m \in I THEN w ELSE imgs[m] BY <1>0, <1>1
  <2>2. Outlives(w, imgs[m]) /\ w.target = imgs[m].target BY <1>1, <1>2, WithAliases
  <2>3. Outlives(imgs[m], imgs[m]) BY <1>1, OutlivesItself
  <2> HIDE DEF w
  <2> QED BY <2>1, <2>2, <2>3
<1>4. DOMAIN new = 1..n /\ new = [m \in 1..n |-> new[m]] BY <1>0, <1>1
<1>5. \A m \in 1..n : new[m] \in Image BY <1>3 DEF Outlives
<1>6. new \in Albums(n) BY <1>4, <1>5 DEF Albums
<1>7. Develops(new, imgs) BY <1>1, <1>3 DEF Develops
<1>8. Sound(imgs) => Sound(new) BY <1>3, <1>4, <1>6, <1>7, SoundStays DEF Sound
<1> QED BY <1>3, <1>6, <1>7, <1>8 DEF new

LEMMA DuplicateImageIs ==
  ASSUME NEW n \in Nat, NEW s \in Stores(n), NEW new \in 1..n, NEW old \in 1..n,
         s.images[new].digest = s.images[old].digest
  PROVE  LET r == DuplicateImage(s, new, old) IN
         /\ r \in Stores(n) /\ r.members = s.members /\ r.unresolved = s.unresolved
         /\ r.byDigest = [s.byDigest EXCEPT ![s.images[new].digest] = new]
         /\ Develops(r.images, s.images)
         /\ s.images[old].tag.name \in r.images[new].aliases
         /\ Sound(s.images) /\ Unique(s.images) /\ Proper(s.images[new]) => Sound(r.images)
<1> DEFINE r == DuplicateImage(s, new, old)
           own == Tag(s, new)
           gone == Tag(s, old)
           start == AddAliases(s.images, new, {gone})
           others == SetToSeq(AliasMembers(s, start[old].aliases, own))
           shifted == MoveAliases(start, others, new, own, gone)
           final == AddAliases(shifted, old, {own})
           by == [s.byDigest EXCEPT ![s.images[new].digest] = new]
<1>1. /\ s.members \in Seq(1..n) /\ s.byDigest \in [Digests -> 0..n]
      /\ s.unresolved \in SUBSET Digests
      /\ s.images \in Albums(n) /\ DOMAIN s.images = 1..n
      /\ \A i \in 1..n : s.images[i] \in Image
  BY StoreFields
<1>0. s = [members |-> s.members, byDigest |-> s.byDigest,
           unresolved |-> s.unresolved, images |-> s.images]
  BY StoreFields
<1>2. own \in Nat /\ gone \in Nat BY <1>1, ImageFields DEF Tag
<1>3. r = [members |-> s.members, byDigest |-> by, unresolved |-> s.unresolved, images |-> final]
  <2>1. r = [s EXCEPT !.images = final, !.byDigest[s.images[new].digest] = new]
    BY DEF DuplicateImage
  <2> HIDE DEF r, final
  <2> QED BY <1>0, <2>1
<1>4. by \in [Digests -> 0..n]
  <2> DEFINE b == s.byDigest
             d == s.images[new].digest
  <2>1. b \in [Digests -> 0..n] /\ new \in 0..n BY <1>1
  <2> HIDE DEF b, d
  <2>2. [b EXCEPT ![d] = new] \in [Digests -> 0..n] BY <2>1
  <2> QED BY <2>2 DEF b, d
<1> HIDE DEF by, r
<1>5. /\ start \in Albums(n) /\ Develops(start, s.images) /\ gone \in start[new].aliases
      /\ Sound(s.images) => Sound(start)
  BY <1>1, <1>2, AddAliasesIs
<1>6. others \in Seq(1..n)
  <2> DEFINE A == AliasMembers(s, start[old].aliases, own)
  <2>1. A \in SUBSET (1..n) /\ IsFiniteSet(A) BY AliasMembersAre
  <2> HIDE DEF A
  <2>2. SetToSeq(A) \in Seq(A) BY <2>1, SetToSeqIs
  <2>3. SetToSeq(A) \in Seq(1..n) BY <2>1, <2>2, Widened
  <2> QED BY <2>3 DEF A
<1> HIDE DEF others, start, own, gone
<1>7. /\ shifted \in Albums(n) /\ Develops(shifted, start)
      /\ Successor(start, new, gone) => Sound(shifted)
  BY <1>2, <1>5, <1>6, MoveAliasesIs
<1> HIDE DEF shifted
<1>8. /\ final \in Albums(n) /\ Develops(final, shifted)
      /\ Sound(shifted) => Sound(final)
  BY <1>2, <1>7, AddAliasesIs
<1> HIDE DEF final
<1>9. Develops(shifted, s.images) BY <1>1, <1>5, <1>7, DevelopsFurther
<1>10. Develops(final, s.images) BY <1>1, <1>7, <1>8, <1>9, DevelopsFurther
<1>11. ASSUME Sound(s.images), Unique(s.images), Proper(s.images[new]) PROVE Sound(final)
  <2>1. s.images[old].tag.name = gone BY DEF gone, Tag
  <2>2. Successor(s.images, new, gone) BY <1>1, <1>11, <2>1 DEF Successor
  <2>3. Successor(start, new, gone) BY <1>1, <1>5, <1>11, <2>2, SuccessorStays
  <2> QED BY <1>7, <1>8, <2>3
<1>11a. s.images[old].tag.name \in final[new].aliases
  <2>1. DOMAIN start = 1..n /\ DOMAIN shifted = 1..n BY <1>5, <1>7 DEF Albums
  <2>2. Outlives(shifted[new], start[new]) /\ Outlives(final[new], shifted[new])
    BY <1>7, <1>8, <2>1 DEF Develops
  <2>3. s.images[old].tag.name = gone BY DEF gone, Tag
  <2> QED BY <1>5, <2>2, <2>3 DEF Outlives
<1>12. /\ r \in Stores(n) /\ r.members = s.members /\ r.byDigest = by
       /\ r.unresolved = s.unresolved /\ r.images = final
  <2> DEFINE m == s.members
             b == by
             u == s.unresolved
  <2>1. m \in Seq(1..n) /\ u \in SUBSET Digests /\ b \in [Digests -> 0..n] BY <1>1, <1>4
  <2>2. r = [members |-> m, byDigest |-> b, unresolved |-> u, images |-> final] BY <1>3
  <2> HIDE DEF m, b, u
  <2>3. /\ r \in Stores(n) /\ r.members = m /\ r.byDigest = b /\ r.unresolved = u
        /\ r.images = final
    BY <2>1, <2>2, <1>8 DEF Stores
  <2> QED BY <2>3 DEF m, b, u
<1> QED BY <1>10, <1>11, <1>11a, <1>12 DEF r, by

LEMMA DuplicateAliasIs ==
  ASSUME NEW n \in Nat, NEW s \in Stores(n), NEW new \in 1..n, NEW old \in 1..n,
         s.images[new].digest = s.images[old].digest, PossibleAlias(s.images[new])
  PROVE  LET r == DuplicateAlias(s, new, old) IN
         /\ r \in Stores(n) /\ r.members = s.members /\ r.byDigest = s.byDigest
         /\ Develops(r.images, s.images)
         /\ s.images[new].tag.name \in r.images[old].aliases
         /\ Proper(s.images[old]) => r.images[new].target # Absent
         /\ Sound(s.images) => Sound(r.images)
<1> DEFINE r == DuplicateAlias(s, new, old)
           both == PossibleAlias(s.images[old])
           own == Tag(s, new)
           one == AddAliases(s.images, new, {Tag(s, old)})
           two == AddAliases(one, old, {own})
           resolved == ResolveAlias(s.images, new, old)
           linked == IF both THEN two ELSE resolved
           others == AliasMembers(s, linked[old].aliases, own)
           final == [i \in DOMAIN linked |->
                        IF i \in others THEN [linked[i] EXCEPT !.aliases = @ \cup {own}]
                        ELSE linked[i]]
           un == IF both THEN s.unresolved \cup {s.images[new].digest} ELSE s.unresolved
<1>1. /\ s.members \in Seq(1..n) /\ s.byDigest \in [Digests -> 0..n]
      /\ s.unresolved \in SUBSET Digests
      /\ s.images \in Albums(n) /\ DOMAIN s.images = 1..n
      /\ \A i \in 1..n : s.images[i] \in Image
  BY StoreFields
<1>0. s = [members |-> s.members, byDigest |-> s.byDigest,
           unresolved |-> s.unresolved, images |-> s.images]
  BY StoreFields
<1>2. /\ own \in Nat /\ Tag(s, old) \in Nat /\ s.images[new].digest \in Digests
      /\ s.images[old].tag.name \in Nat
  BY <1>1, ImageFields DEF Tag
<1>3. r = [members |-> s.members, byDigest |-> s.byDigest, unresolved |-> un, images |-> final]
  <2>1. r = [s EXCEPT !.unresolved = un, !.images = final] BY DEF DuplicateAlias
  <2> HIDE DEF r, final, un
  <2> QED BY <1>0, <2>1
<1>4. un \in SUBSET Digests BY <1>1, <1>2
<1> HIDE DEF un, r
<1>5. /\ linked \in Albums(n) /\ Develops(linked, s.images) /\ own \in linked[old].aliases
      /\ ~both => linked[new].target # Absent
      /\ Sound(s.images) => Sound(linked)
  <2>1. CASE both
    <3>1. /\ one \in Albums(n) /\ Develops(one, s.images)
          /\ Sound(s.images) => Sound(one)
      BY <1>1, <1>2, AddAliasesIs
    <3> HIDE DEF one
    <3>2. /\ two \in Albums(n) /\ Develops(two, one) /\ own \in two[old].aliases
          /\ Sound(one) => Sound(two)
      BY <1>2, <3>1, AddAliasesIs
    <3> HIDE DEF two
    <3>3. Develops(two, s.images) BY <1>1, <3>1, <3>2, DevelopsFurther
    <3> QED BY <2>1, <3>1, <3>2, <3>3
  <2>2. CASE ~both
    <3>1. /\ resolved \in Albums(n) /\ Develops(resolved, s.images)
          /\ resolved[new].target = s.images[old].tag.name
          /\ own \in resolved[old].aliases
          /\ Sound(s.images) /\ Proper(s.images[old])
             /\ s.images[old].digest = s.images[new].digest => Sound(resolved)
      BY <1>1, ResolveAliasIs DEF Tag
    <3>2. Proper(s.images[old]) BY <2>2 DEF Proper
    <3>3. linked = resolved BY <2>2
    <3> HIDE DEF resolved, linked
    <3>4. linked[new].target # Absent BY <1>2, <3>1, <3>3 DEF Absent
    <3> QED BY <3>1, <3>2, <3>3, <3>4
  <2> QED BY <2>1, <2>2
<1> HIDE DEF linked, own
<1>6. final = Naming(linked, others, own) BY DEF Naming
<1> HIDE DEF final, others
<1>7. /\ final \in Albums(n) /\ Develops(final, linked)
      /\ \A m \in 1..n : final[m].target = linked[m].target
      /\ Sound(linked) => Sound(final)
  BY <1>2, <1>5, <1>6, SomeAliases
<1>8. Develops(final, s.images) BY <1>1, <1>5, <1>7, DevelopsFurther
<1>9. Proper(s.images[old]) => final[new].target # Absent BY <1>5, <1>7 DEF Proper
<1>9a. s.images[new].tag.name \in final[old].aliases
  <2>1. DOMAIN linked = 1..n BY <1>5 DEF Albums
  <2>2. Outlives(final[old], linked[old]) BY <1>7, <2>1 DEF Develops
  <2>3. s.images[new].tag.name = own BY DEF own, Tag
  <2> QED BY <1>5, <2>2, <2>3 DEF Outlives
<1>10. /\ r \in Stores(n) /\ r.members = s.members /\ r.byDigest = s.byDigest
       /\ r.images = final
  <2> DEFINE m == s.members
             b == s.byDigest
             u == un
  <2>1. m \in Seq(1..n) /\ u \in SUBSET Digests /\ b \in [Digests -> 0..n] BY <1>1, <1>4
  <2>2. r = [members |-> m, byDigest |-> b, unresolved |-> u, images |-> final] BY <1>3
  <2> HIDE DEF m, b, u
  <2>3. /\ r \in Stores(n) /\ r.members = m /\ r.byDigest = b /\ r.unresolved = u
        /\ r.images = final
    BY <2>1, <2>2, <1>7 DEF Stores
  <2> QED BY <2>3 DEF m, b, u
<1> QED BY <1>5, <1>7, <1>8, <1>9, <1>9a, <1>10 DEF r

-----------------------------------------------------------------------------
(* The two passes of _replace_contents *)

\* The store s developed from base, and its index by digest fits.
Follows(s, base, n) ==
    /\ s \in Stores(n) /\ s.members = base.members
    /\ Develops(s.images, base.images)
    /\ Unique(base.images) /\ Sound(base.images) => Sound(s.images)
    /\ \A d \in Digests : s.byDigest[d] # 0 =>
          s.byDigest[d] \in ToSet(base.members) /\ s.images[s.byDigest[d]].digest = d

LEMMA FollowsOn ==
  ASSUME NEW n, NEW base \in Stores(n), NEW s, Follows(s, base, n), NEW t \in Stores(n),
         t.members = s.members, Develops(t.images, s.images),
         Unique(s.images) /\ Sound(s.images) => Sound(t.images),
         \A d \in Digests : t.byDigest[d] # 0 =>
            t.byDigest[d] \in ToSet(base.members) /\ s.images[t.byDigest[d]].digest = d
  PROVE  Follows(t, base, n)
<1>1. s \in Stores(n) BY DEF Follows
<1>2. s.images \in Albums(n) /\ t.images \in Albums(n) /\ base.images \in Albums(n)
      /\ base.members \in Seq(1..n) /\ DOMAIN s.images = 1..n
  BY <1>1, StoreFields
<1>3. Develops(t.images, base.images) BY <1>2, DevelopsFurther DEF Follows
<1>4. Unique(base.images) => Unique(s.images) BY <1>2, UniqueStays DEF Follows
<1>5. Unique(base.images) /\ Sound(base.images) => Sound(t.images) BY <1>4 DEF Follows
<1>6. ASSUME NEW d \in Digests, t.byDigest[d] # 0
      PROVE  t.byDigest[d] \in ToSet(base.members) /\ t.images[t.byDigest[d]].digest = d
  <2> DEFINE j == t.byDigest[d]
  <2>1. j \in ToSet(base.members) /\ s.images[j].digest = d BY <1>6
  <2> HIDE DEF j
  <2>2. j \in 1..n BY <1>2, <2>1, ListIs
  <2>3. Outlives(t.images[j], s.images[j]) BY <1>2, <2>2 DEF Develops
  <2>4. t.images[j].digest = d BY <2>1, <2>3 DEF Outlives
  <2> QED BY <2>1, <2>4 DEF j
<1>7. t.members = base.members BY DEF Follows
<1> QED BY <1>3, <1>5, <1>6, <1>7 DEF Follows

\* An image that is still proper, or still not, after what followed.
LEMMA FollowsKind ==
  ASSUME NEW n, NEW base \in Stores(n), NEW s, Follows(s, base, n), NEW i \in 1..n
  PROVE  /\ s \in Stores(n) /\ s.images[i] \in Image /\ s.images[i].digest \in Digests
         /\ s.images[i].digest = base.images[i].digest
         /\ PossibleAlias(s.images[i]) <=> PossibleAlias(base.images[i])
         /\ Proper(s.images[i]) <=> Proper(base.images[i])
<1>1. s \in Stores(n) /\ DOMAIN base.images = 1..n /\ s.images[i] \in Image
  BY StoreFields DEF Follows
<1>2. Outlives(s.images[i], base.images[i]) BY <1>1 DEF Follows, Develops
<1>3. s.images[i].digest \in Digests BY <1>1, ImageFields
<1> QED BY <1>1, <1>2, <1>3 DEF Outlives, Proper

\* An image is found by its digest: it stands for it, or is an alias of what does.
Knows(s, i) ==
    LET j == s.byDigest[s.images[i].digest] IN
    j # 0 /\ (j = i \/ s.images[i].tag.name \in s.images[j].aliases)

LEMMA KnowsStays ==
  ASSUME NEW n, NEW s \in Stores(n), NEW t \in Stores(n), Develops(t.images, s.images),
         \A d \in Digests : s.byDigest[d] # 0 => t.byDigest[d] = s.byDigest[d],
         NEW p \in 1..n, Knows(s, p)
  PROVE  Knows(t, p)
<1> DEFINE d == s.images[p].digest
           j == s.byDigest[d]
<1>1. /\ DOMAIN s.images = 1..n /\ s.images[p] \in Image /\ s.byDigest \in [Digests -> 0..n]
  BY StoreFields
<1>2. d \in Digests BY <1>1, ImageFields
<1>3. j # 0 /\ (j = p \/ s.images[p].tag.name \in s.images[j].aliases) BY DEF Knows
<1>4. j \in 1..n /\ t.byDigest[d] = j BY <1>1, <1>2, <1>3
<1> HIDE DEF j
<1>5. Outlives(t.images[p], s.images[p]) /\ Outlives(t.images[j], s.images[j])
  BY <1>1, <1>4 DEF Develops
<1>6. t.images[p].digest = d /\ t.images[p].tag.name = s.images[p].tag.name
      /\ s.images[j].aliases \subseteq t.images[j].aliases
  BY <1>5 DEF Outlives
<1> HIDE DEF d
<1> QED BY <1>3, <1>4, <1>6 DEF Knows

\* After the first pass, only proper images stand for a digest.
First(s, base, n) ==
    /\ Follows(s, base, n)
    /\ \A d \in Digests : s.byDigest[d] # 0 => Proper(base.images[s.byDigest[d]])

LEMMA PlaceImageIs ==
  ASSUME NEW n \in Nat, NEW base \in Stores(n), NEW s, First(s, base, n),
         NEW i \in ToSet(base.members), Proper(base.images[i])
  PROVE  LET t == PlaceImage(s, i) IN
         /\ First(t, base, n) /\ Knows(t, i)
         /\ \A p \in 1..n : Knows(s, p) => Knows(t, p)
<1> DEFINE t == PlaceImage(s, i)
           d0 == s.images[i].digest
           j == s.byDigest[d0]
<1>0. Follows(s, base, n) BY DEF First
<1>1. i \in 1..n BY StoreFields, ListIs
<1>2. /\ s \in Stores(n) /\ s.images[i] \in Image /\ d0 \in Digests
      /\ d0 = base.images[i].digest /\ Proper(s.images[i])
  BY <1>0, <1>1, FollowsKind
<1>3. s.byDigest \in [Digests -> 0..n] /\ s.images \in Albums(n) /\ DOMAIN s.images = 1..n
  BY <1>2, StoreFields
<1>4. Same(s, i) = j BY DEF Same
<1> HIDE DEF j, d0
<1>5. CASE j # 0
  <2>1. j \in 1..n /\ j \in ToSet(base.members) /\ s.images[j].digest = d0
    BY <1>0, <1>2, <1>3, <1>5 DEF Follows, j
  <2>2. Proper(base.images[j]) BY <1>2, <1>5 DEF First, j
  <2>3. Proper(s.images[j]) BY <1>0, <2>1, <2>2, FollowsKind
  <2>4. t = DuplicateImage(s, j, i)
    BY <1>4, <1>5, <2>3 DEF PlaceImage, ResolveDuplicate, Proper
  <2>5. s.images[j].digest = s.images[i].digest BY <2>1 DEF d0
  <2> HIDE DEF t
  <2>6. /\ t \in Stores(n) /\ t.members = s.members
        /\ t.byDigest = [s.byDigest EXCEPT ![s.images[j].digest] = j]
        /\ Develops(t.images, s.images)
        /\ s.images[i].tag.name \in t.images[j].aliases
        /\ Sound(s.images) /\ Unique(s.images) /\ Proper(s.images[j]) => Sound(t.images)
    BY <1>1, <1>2, <2>1, <2>4, <2>5, DuplicateImageIs
  <2>7. t.byDigest = s.byDigest
    <3>1. t.byDigest = [s.byDigest EXCEPT ![d0] = s.byDigest[d0]] BY <2>1, <2>6 DEF j
    <3> QED BY <1>3, <3>1
  <2>8. \A d \in Digests : t.byDigest[d] # 0 =>
           t.byDigest[d] \in ToSet(base.members) /\ s.images[t.byDigest[d]].digest = d
    BY <1>0, <2>7 DEF Follows
  <2>9. Follows(t, base, n) BY <1>0, <2>3, <2>6, <2>8, FollowsOn
  <2>10. First(t, base, n) BY <2>7, <2>9 DEF First
  <2>11. Knows(t, i)
    <3>1. Outlives(t.images[i], s.images[i]) BY <1>1, <1>3, <2>6 DEF Develops
    <3>2. t.images[i].digest = d0 /\ t.images[i].tag.name = s.images[i].tag.name
      BY <3>1 DEF Outlives, d0
    <3> QED BY <1>5, <2>6, <2>7, <3>2 DEF Knows, j
  <2>12. \A p \in 1..n : Knows(s, p) => Knows(t, p) BY <1>2, <2>6, <2>7, KnowsStays
  <2> QED BY <2>10, <2>11, <2>12 DEF t
<1>6. CASE j = 0
  <2> DEFINE by == [s.byDigest EXCEPT ![d0] = i]
  <2>1. t = [s EXCEPT !.byDigest[d0] = i] BY <1>4, <1>6 DEF PlaceImage, d0
  <2>2. /\ \A d \in Digests : by[d] = IF d = d0 THEN i ELSE s.byDigest[d]
        /\ by \in [Digests -> 0..n]
    <3> DEFINE b == s.byDigest
    <3>1. b \in [Digests -> 0..n] /\ i \in 0..n BY <1>1, <1>3
    <3> HIDE DEF b
    <3>2. [b EXCEPT ![d0] = i] \in [Digests -> 0..n] BY <3>1
    <3>3. \A d \in Digests : [b EXCEPT ![d0] = i][d] = IF d = d0 THEN i ELSE b[d] BY <3>1
    <3> QED BY <3>2, <3>3 DEF b
  <2> HIDE DEF t
  <2>3. /\ t \in Stores(n) /\ t.members = s.members /\ t.images = s.images /\ t.byDigest = by
    <3>1. s \in [members : Seq(1..n), byDigest : [Digests -> 0..n], unresolved : SUBSET Digests,
                 images : Albums(n)]
      BY <1>2 DEF Stores
    <3>2. t = [s EXCEPT !.byDigest = by] BY <2>1, <3>1
    <3> HIDE DEF by
    <3> QED BY <2>2, <3>1, <3>2 DEF Stores
  <2> HIDE DEF by
  <2>4. Develops(t.images, s.images) BY <1>3, <2>3, DevelopsItself
  <2>5. \A d \in Digests : t.byDigest[d] # 0 =>
           t.byDigest[d] \in ToSet(base.members) /\ s.images[t.byDigest[d]].digest = d
    BY <1>0, <2>2, <2>3 DEF Follows, d0
  <2>6. Follows(t, base, n) BY <1>0, <2>3, <2>4, <2>5, FollowsOn
  <2>7. First(t, base, n) BY <2>2, <2>3, <2>6 DEF First
  <2>8. /\ t.byDigest[d0] = i /\ i # 0
        /\ \A d \in Digests : s.byDigest[d] # 0 => t.byDigest[d] = s.byDigest[d]
    BY <1>1, <1>2, <1>6, <2>2, <2>3 DEF j
  <2>9. Knows(t, i) BY <2>3, <2>8 DEF Knows, d0
  <2>10. \A p \in 1..n : Knows(s, p) => Knows(t, p) BY <1>2, <2>3, <2>4, <2>8, KnowsStays
  <2> QED BY <2>7, <2>9, <2>10 DEF t
<1> QED BY <1>5, <1>6

LEMMA PlaceImagesIs ==
  ASSUME NEW n \in Nat, NEW base \in Stores(n), First(base, base, n), NEW X,
         X \subseteq {i \in ToSet(base.members) : Proper(base.images[i])}, NEW l \in Seq(X)
  PROVE  LET t == PlaceImages(base, l) IN
         /\ First(t, base, n)
         /\ \A i \in ToSet(l) : Knows(t, i)
<1> DEFINE S == {s \in Stores(n) : First(s, base, n)}
           step == [x \in S \X X |-> PlaceImage(x[1], x[2])]
           G == {x \in S \X X : Knows(x[1], x[2])}
<1>1. ASSUME NEW s \in S, NEW i \in X
      PROVE  LET t == PlaceImage(s, i) IN
             /\ t \in S /\ Knows(t, i)
             /\ \A p \in 1..n : Knows(s, p) => Knows(t, p)
  <2> DEFINE t == PlaceImage(s, i)
  <2>1. /\ First(t, base, n) /\ Knows(t, i)
        /\ \A p \in 1..n : Knows(s, p) => Knows(t, p)
    BY PlaceImageIs
  <2> QED BY <2>1 DEF First, Follows
<1>2. base \in S OBVIOUS
<1>3. \A i \in X : i \in 1..n BY StoreFields, ListIs
<1>4. step \in [S \X X -> S] BY <1>1
<1>5. \A s \in S, i \in X : step[<<s, i>>] = PlaceImage(s, i) OBVIOUS
<1>6. \A s \in S, i \in X : <<s, i>> \in G <=> Knows(s, i) OBVIOUS
<1> HIDE DEF S, step, G
<1>7. \A s \in S, i \in X : <<step[<<s, i>>], i>> \in G BY <1>1, <1>5, <1>6
<1>8. \A s \in S, i, p \in X : <<s, p>> \in G => <<step[<<s, i>>], p>> \in G
  BY <1>1, <1>3, <1>5, <1>6
<1>9. PICK f : Processed(f, S, base, l, step, G) BY <1>2, <1>4, <1>7, <1>8, Processing
<1>10. Len(l) \in Nat /\ \A k \in 1..Len(l) : l[k] \in X OBVIOUS
<1>11. /\ f \in [0..Len(l) -> S] /\ f[0] = base
       /\ \A k \in 1..Len(l) : f[k] = step[<<f[k-1], l[k]>>]
       /\ \A i \in ToSet(l) : <<f[Len(l)], i>> \in G
  BY <1>9 DEF Processed
<1>12. \A k \in 1..Len(l) : f[k-1] \in S
  <2>1. \A k \in 1..Len(l) : k-1 \in 0..Len(l) BY <1>10
  <2> QED BY <1>11, <2>1
<1>13. \A k \in 1..Len(l) : f[k] = PlaceImage(f[k-1], l[k]) BY <1>5, <1>10, <1>11, <1>12
<1>14. PlacingImages(f, base, l) BY <1>10, <1>11, <1>13 DEF PlacingImages
<1>15. PlaceImages(base, l) = f[Len(l)] BY <1>10, <1>14, PlaceImagesAre
<1>16. f[Len(l)] \in S BY <1>10, <1>11
<1>17. \A i \in ToSet(l) : i \in X BY DEF ToSet
<1> QED BY <1>6, <1>11, <1>15, <1>16, <1>17 DEF S

\* In the second pass, what stands for a digest already does so for good, and
\* an alias of its digest is resolved.
Second(s, base, n) ==
    /\ Follows(s, base, n)
    /\ \A d \in Digests : base.byDigest[d] # 0 => s.byDigest[d] = base.byDigest[d]

Placed(s, base, i) ==
    /\ s.byDigest[base.images[i].digest] # 0
    /\ base.byDigest[base.images[i].digest] # 0 => s.images[i].target # Absent
    /\ Knows(s, i)

LEMMA PlaceAliasIs ==
  ASSUME NEW n \in Nat, NEW base \in Stores(n), First(base, base, n), NEW s, Second(s, base, n),
         NEW i \in ToSet(base.members), PossibleAlias(base.images[i])
  PROVE  LET t == PlaceAlias(s, i) IN
         /\ Second(t, base, n) /\ Placed(t, base, i)
         /\ \A p \in 1..n : Placed(s, base, p) => Placed(t, base, p)
<1> DEFINE t == PlaceAlias(s, i)
           d0 == s.images[i].digest
           j == s.byDigest[d0]
<1>0. Follows(s, base, n) BY DEF Second
<1>1. i \in 1..n BY StoreFields, ListIs
<1>2. /\ s \in Stores(n) /\ s.images[i] \in Image /\ d0 \in Digests
      /\ d0 = base.images[i].digest /\ PossibleAlias(s.images[i])
  BY <1>0, <1>1, FollowsKind
<1>3. /\ s.byDigest \in [Digests -> 0..n] /\ s.images \in Albums(n) /\ DOMAIN s.images = 1..n
      /\ \A p \in 1..n : base.images[p] \in Image
  BY <1>2, StoreFields
<1>4. Same(s, i) = j BY DEF Same
<1>4a. \A p \in 1..n : base.images[p].digest \in Digests BY <1>3, ImageFields
<1> HIDE DEF j, d0
<1>5. CASE j # 0
  <2>1. j \in 1..n /\ j \in ToSet(base.members) /\ s.images[j].digest = d0
    BY <1>0, <1>2, <1>3, <1>5 DEF Follows, j
  <2>2. base.byDigest[d0] # 0 => base.byDigest[d0] = j BY <1>2 DEF Second, j
  <2>3. base.byDigest[d0] # 0 => Proper(base.images[j]) BY <1>2, <2>2 DEF First
  <2>4. base.byDigest[d0] # 0 => Proper(s.images[j]) BY <1>0, <2>1, <2>3, FollowsKind
  <2>5. t = DuplicateAlias(s, i, j) BY <1>2, <1>4, <1>5 DEF PlaceAlias, ResolveDuplicate
  <2>6. s.images[i].digest = s.images[j].digest BY <2>1 DEF d0
  <2> HIDE DEF t
  <2>7. /\ t \in Stores(n) /\ t.members = s.members /\ t.byDigest = s.byDigest
        /\ Develops(t.images, s.images)
        /\ s.images[i].tag.name \in t.images[j].aliases
        /\ Proper(s.images[j]) => t.images[i].target # Absent
        /\ Sound(s.images) => Sound(t.images)
    BY <1>1, <1>2, <2>1, <2>5, <2>6, DuplicateAliasIs
  <2>8. \A d \in Digests : t.byDigest[d] # 0 =>
           t.byDigest[d] \in ToSet(base.members) /\ s.images[t.byDigest[d]].digest = d
    BY <1>0, <2>7 DEF Follows
  <2>9. Follows(t, base, n) BY <1>0, <2>7, <2>8, FollowsOn
  <2>10. Second(t, base, n) BY <2>7, <2>9 DEF Second
  <2>10a. Knows(t, i)
    <3>1. Outlives(t.images[i], s.images[i]) BY <1>1, <1>3, <2>7 DEF Develops
    <3>2. t.images[i].digest = d0 /\ t.images[i].tag.name = s.images[i].tag.name
      BY <3>1 DEF Outlives, d0
    <3> QED BY <1>5, <2>7, <3>2 DEF Knows, j
  <2>11. Placed(t, base, i) BY <1>2, <1>5, <2>4, <2>7, <2>10a DEF Placed, j
  <2>12. ASSUME NEW p \in 1..n, Placed(s, base, p) PROVE Placed(t, base, p)
    <3>1. Outlives(t.images[p], s.images[p]) BY <1>3, <2>7 DEF Develops
    <3>2. Knows(s, p) BY <2>12 DEF Placed
    <3>3. Knows(t, p) BY <1>2, <2>7, <3>2, KnowsStays
    <3> QED BY <2>7, <2>12, <3>1, <3>3 DEF Placed, Outlives
  <2> QED BY <2>10, <2>11, <2>12 DEF t
<1>6. CASE j = 0
  <2> DEFINE by == [s.byDigest EXCEPT ![d0] = i]
             un == s.unresolved \cup {d0}
  <2>1. t = [s EXCEPT !.byDigest[d0] = i, !.unresolved = un]
    BY <1>4, <1>6 DEF PlaceAlias, d0
  <2>2. /\ \A d \in Digests : by[d] = IF d = d0 THEN i ELSE s.byDigest[d]
        /\ by \in [Digests -> 0..n]
    <3> DEFINE b == s.byDigest
    <3>1. b \in [Digests -> 0..n] /\ i \in 0..n BY <1>1, <1>3
    <3> HIDE DEF b
    <3>2. [b EXCEPT ![d0] = i] \in [Digests -> 0..n] BY <3>1
    <3>3. \A d \in Digests : [b EXCEPT ![d0] = i][d] = IF d = d0 THEN i ELSE b[d] BY <3>1
    <3> QED BY <3>2, <3>3 DEF b
  <2> HIDE DEF t
  <2>3. /\ t \in Stores(n) /\ t.members = s.members /\ t.images = s.images /\ t.byDigest = by
    <3>1. s \in [members : Seq(1..n), byDigest : [Digests -> 0..n], unresolved : SUBSET Digests,
                 images : Albums(n)]
      BY <1>2 DEF Stores
    <3>2. t = [s EXCEPT !.byDigest = by, !.unresolved = un] BY <2>1, <3>1
    <3>3. un \in SUBSET Digests BY <1>2, <3>1
    <3> HIDE DEF by, un
    <3> QED BY <2>2, <3>1, <3>2, <3>3 DEF Stores
  <2> HIDE DEF by
  <2>4. Develops(t.images, s.images) BY <1>3, <2>3, DevelopsItself
  <2>5. \A d \in Digests : t.byDigest[d] # 0 =>
           t.byDigest[d] \in ToSet(base.members) /\ s.images[t.byDigest[d]].digest = d
    BY <1>0, <2>2, <2>3 DEF Follows, d0
  <2>6. Follows(t, base, n) BY <1>0, <2>3, <2>4, <2>5, FollowsOn
  <2>7. base.byDigest[d0] = 0
    <3>1. base.byDigest[d0] # 0 => s.byDigest[d0] = base.byDigest[d0] BY <1>2 DEF Second
    <3> QED BY <3>1, <1>6 DEF j
  <2>8. \A d \in Digests : base.byDigest[d] # 0 => t.byDigest[d] = base.byDigest[d]
    BY <2>2, <2>3, <2>7 DEF Second
  <2>9. Second(t, base, n) BY <2>6, <2>8 DEF Second
  <2>10. t.byDigest[d0] = i /\ i # 0 BY <1>1, <1>2, <2>2, <2>3
  <2>10a. Knows(t, i) BY <2>3, <2>10 DEF Knows, d0
  <2>11. Placed(t, base, i) BY <1>2, <2>7, <2>10, <2>10a DEF Placed
  <2>12. ASSUME NEW p \in 1..n, Placed(s, base, p) PROVE Placed(t, base, p)
    <3>1. \A d \in Digests : s.byDigest[d] # 0 => t.byDigest[d] = s.byDigest[d]
      BY <1>2, <1>6, <2>2, <2>3 DEF j
    <3>2. Knows(s, p) BY <2>12 DEF Placed
    <3>3. Knows(t, p) BY <1>2, <2>3, <2>4, <3>1, <3>2, KnowsStays
    <3>4. s.byDigest[base.images[p].digest] # 0 BY <2>12 DEF Placed
    <3>5. t.byDigest[base.images[p].digest] # 0 BY <1>4a, <3>1, <3>4
    <3> QED BY <2>3, <2>12, <3>3, <3>5 DEF Placed
  <2> QED BY <2>9, <2>11, <2>12 DEF t
<1> QED BY <1>5, <1>6

LEMMA PlaceAliasesIs ==
  ASSUME NEW n \in Nat, NEW base \in Stores(n), First(base, base, n), NEW X,
         X \subseteq {i \in ToSet(base.members) : PossibleAlias(base.images[i])}, NEW l \in Seq(X)
  PROVE  LET t == PlaceAliases(base, l) IN
         /\ Second(t, base, n)
         /\ \A i \in ToSet(l) : Placed(t, base, i)
<1> DEFINE S == {s \in Stores(n) : Second(s, base, n)}
           step == [x \in S \X X |-> PlaceAlias(x[1], x[2])]
           G == {x \in S \X X : Placed(x[1], base, x[2])}
<1>1. ASSUME NEW s \in S, NEW i \in X
      PROVE  LET t == PlaceAlias(s, i) IN
             /\ t \in S /\ Placed(t, base, i)
             /\ \A p \in 1..n : Placed(s, base, p) => Placed(t, base, p)
  <2> DEFINE t == PlaceAlias(s, i)
  <2>1. /\ Second(t, base, n) /\ Placed(t, base, i)
        /\ \A p \in 1..n : Placed(s, base, p) => Placed(t, base, p)
    BY PlaceAliasIs
  <2> QED BY <2>1 DEF Second, Follows
<1>2. base \in S BY DEF Second, First
<1>3. \A i \in X : i \in 1..n BY StoreFields, ListIs
<1>4. step \in [S \X X -> S] BY <1>1
<1>5. \A s \in S, i \in X : step[<<s, i>>] = PlaceAlias(s, i) OBVIOUS
<1>6. \A s \in S, i \in X : <<s, i>> \in G <=> Placed(s, base, i) OBVIOUS
<1> HIDE DEF S, step, G
<1>7. \A s \in S, i \in X : <<step[<<s, i>>], i>> \in G BY <1>1, <1>5, <1>6
<1>8. \A s \in S, i, p \in X : <<s, p>> \in G => <<step[<<s, i>>], p>> \in G
  BY <1>1, <1>3, <1>5, <1>6
<1>9. PICK f : Processed(f, S, base, l, step, G) BY <1>2, <1>4, <1>7, <1>8, Processing
<1>10. Len(l) \in Nat /\ \A k \in 1..Len(l) : l[k] \in X OBVIOUS
<1>11. /\ f \in [0..Len(l) -> S] /\ f[0] = base
       /\ \A k \in 1..Len(l) : f[k] = step[<<f[k-1], l[k]>>]
       /\ \A i \in ToSet(l) : <<f[Len(l)], i>> \in G
  BY <1>9 DEF Processed
<1>12. \A k \in 1..Len(l) : f[k-1] \in S
  <2>1. \A k \in 1..Len(l) : k-1 \in 0..Len(l) BY <1>10
  <2> QED BY <1>11, <2>1
<1>13. \A k \in 1..Len(l) : f[k] = PlaceAlias(f[k-1], l[k]) BY <1>5, <1>10, <1>11, <1>12
<1>14. PlacingAliases(f, base, l) BY <1>10, <1>11, <1>13 DEF PlacingAliases
<1>15. PlaceAliases(base, l) = f[Len(l)] BY <1>10, <1>14, PlaceAliasesAre
<1>16. f[Len(l)] \in S BY <1>10, <1>11
<1>17. \A i \in ToSet(l) : i \in X BY DEF ToSet
<1> QED BY <1>6, <1>11, <1>15, <1>16, <1>17 DEF S

\* What _replace_contents makes of a list of images.
Replaced(r, imgs, members, n) ==
    /\ r \in Stores(n) /\ r.members = members /\ Develops(r.images, imgs)
    /\ Unique(imgs) /\ Sound(imgs) => Sound(r.images)
    /\ \A d \in Digests : r.byDigest[d] # 0 =>
          r.byDigest[d] \in ToSet(members) /\ r.images[r.byDigest[d]].digest = d
    /\ \A i \in ToSet(members) : r.byDigest[imgs[i].digest] # 0 /\ Knows(r, i)
    /\ \A m, i \in ToSet(members) :
          imgs[m].digest = imgs[i].digest /\ PossibleAlias(imgs[m]) /\ Proper(imgs[i])
             => r.images[m].target # Absent

LEMMA ReplaceIs ==
  ASSUME NEW n \in Nat, NEW imgs \in Albums(n), NEW members \in Seq(1..n)
  PROVE  Replaced(Replace(imgs, members), imgs, members, n)
<1> DEFINE aliases == {i \in DOMAIN imgs : PossibleAlias(imgs[i])}
           blank == StoreOf([NoImages EXCEPT !.members = members], imgs)
           l1 == Kept(members, DOMAIN imgs \ aliases)
           l2 == Kept(members, aliases)
           X1 == {i \in ToSet(members) : Proper(imgs[i])}
           X2 == {i \in ToSet(members) : PossibleAlias(imgs[i])}
           s == PlaceImages(blank, l1)
           t == PlaceAliases(s, l2)
<1>1. Replace(imgs, members) = t BY DEF Replace
<1>2. DOMAIN imgs = 1..n /\ \A i \in 1..n : imgs[i] \in Image BY DEF Albums
<1>3. ToSet(members) \subseteq 1..n BY ListIs
<1>4. /\ l1 \in Seq(1..n) /\ ToSet(l1) = ToSet(members) \cap (DOMAIN imgs \ aliases)
      /\ l2 \in Seq(1..n) /\ ToSet(l2) = ToSet(members) \cap aliases
  BY KeptIs
<1>5. ToSet(l1) = X1 /\ ToSet(l2) = X2 BY <1>2, <1>3, <1>4 DEF Proper
<1>6. /\ blank = [members |-> members, byDigest |-> [d \in Digests |-> 0], unresolved |-> {},
                  images |-> imgs]
  BY DEF StoreOf, NoImages
<1>7. /\ blank \in Stores(n) /\ blank.members = members /\ blank.images = imgs
      /\ \A d \in Digests : blank.byDigest[d] = 0
  <2> DEFINE by == [d \in Digests |-> 0]
  <2>1. by \in [Digests -> 0..n] /\ \A d \in Digests : by[d] = 0 OBVIOUS
  <2>2. blank = [members |-> members, byDigest |-> by, unresolved |-> {}, images |-> imgs]
    BY <1>6
  <2> HIDE DEF by, blank
  <2>3. {} \in SUBSET Digests OBVIOUS
  <2> QED BY <2>1, <2>2, <2>3 DEF Stores
<1> HIDE DEF blank
<1>8. First(blank, blank, n) BY <1>7, DevelopsItself DEF First, Follows
<1> HIDE DEF l1, l2
<1>9. l1 \in Seq(X1) /\ l2 \in Seq(X2)
  <2>1. Len(l1) \in Nat /\ l1 \in [1..Len(l1) -> X1] BY <1>4, <1>5, ListIs
  <2>2. Len(l2) \in Nat /\ l2 \in [1..Len(l2) -> X2] BY <1>4, <1>5, ListIs
  <2> HIDE DEF X1, X2
  <2> QED BY <2>1, <2>2
<1>10. X1 \subseteq {i \in ToSet(blank.members) : Proper(blank.images[i])} BY <1>7
<1> HIDE DEF X1, X2
<1>11. First(s, blank, n) /\ \A i \in ToSet(l1) : Knows(s, i)
  BY <1>7, <1>8, <1>9, <1>10, PlaceImagesIs
<1> HIDE DEF s
<1>12. /\ Follows(s, blank, n) /\ s \in Stores(n) /\ s.members = members
       /\ s.images \in Albums(n) /\ Develops(s.images, imgs)
  BY <1>7, <1>11, StoreFields DEF First, Follows
<1>13. \A i \in 1..n : /\ s.images[i].digest = imgs[i].digest /\ imgs[i].digest \in Digests
                       /\ Proper(s.images[i]) <=> Proper(imgs[i])
                       /\ PossibleAlias(s.images[i]) <=> PossibleAlias(imgs[i])
  BY <1>7, <1>12, FollowsKind
<1>14. First(s, s, n)
  <2>1. Develops(s.images, s.images) BY <1>12, DevelopsItself
  <2>2. \A d \in Digests : s.byDigest[d] # 0 =>
           /\ s.byDigest[d] \in ToSet(members) /\ s.images[s.byDigest[d]].digest = d
           /\ Proper(imgs[s.byDigest[d]])
    BY <1>7, <1>11 DEF First, Follows
  <2>3. \A d \in Digests : s.byDigest[d] # 0 => Proper(s.images[s.byDigest[d]])
    BY <1>3, <1>13, <2>2
  <2> QED BY <1>12, <2>1, <2>2, <2>3 DEF First, Follows
<1>15. X2 \subseteq {i \in ToSet(s.members) : PossibleAlias(s.images[i])}
  BY <1>3, <1>12, <1>13 DEF X2
<1>16. Second(t, s, n) /\ \A i \in ToSet(l2) : Placed(t, s, i)
  BY <1>9, <1>12, <1>14, <1>15, PlaceAliasesIs
<1> HIDE DEF t
<1>17. Follows(t, s, n) /\ t \in Stores(n) /\ t.members = members /\ t.images \in Albums(n)
  BY <1>12, <1>16, StoreFields DEF Second, Follows
<1>18. Develops(t.images, imgs)
  <2>1. Develops(t.images, s.images) BY <1>17 DEF Follows
  <2> QED BY <1>12, <1>17, <2>1, DevelopsFurther
<1>19. Unique(imgs) /\ Sound(imgs) => Sound(t.images)
  <2>1. Unique(imgs) => Unique(s.images) BY <1>12, UniqueStays
  <2>2. Unique(imgs) /\ Sound(imgs) => Sound(s.images) BY <1>7, <1>12 DEF Follows
  <2> QED BY <1>17, <2>1, <2>2 DEF Follows
<1>20. \A d \in Digests : t.byDigest[d] # 0 =>
          t.byDigest[d] \in ToSet(members) /\ t.images[t.byDigest[d]].digest = d
  BY <1>12, <1>17 DEF Follows
<1>21. \A i \in X1 : s.byDigest[imgs[i].digest] # 0
  BY <1>3, <1>5, <1>11, <1>13 DEF Knows, X1
<1>22. \A i \in X2 : t.byDigest[imgs[i].digest] # 0
  BY <1>3, <1>5, <1>13, <1>16 DEF Placed, X2
<1>23. \A i \in X1 : t.byDigest[imgs[i].digest] # 0
  BY <1>3, <1>13, <1>16, <1>21 DEF Second, X1
<1>23a. \A i \in X1 : Knows(t, i)
  <2>1. \A i \in X1 : Knows(s, i) /\ i \in 1..n BY <1>3, <1>5, <1>11 DEF X1
  <2>2. /\ Develops(t.images, s.images)
        /\ \A d \in Digests : s.byDigest[d] # 0 => t.byDigest[d] = s.byDigest[d]
    BY <1>16 DEF Second, Follows
  <2> QED BY <1>12, <1>17, <2>1, <2>2, KnowsStays
<1>23b. \A i \in X2 : Knows(t, i) BY <1>5, <1>16 DEF Placed
<1>24. \A i \in ToSet(members) : i \in X1 \/ i \in X2 BY DEF X1, X2, Proper
<1>25. ASSUME NEW m \in ToSet(members), NEW i \in ToSet(members),
              imgs[m].digest = imgs[i].digest, PossibleAlias(imgs[m]), Proper(imgs[i])
       PROVE  t.images[m].target # Absent
  <2>1. i \in X1 /\ m \in X2 BY <1>25 DEF X1, X2
  <2>2. s.byDigest[s.images[m].digest] # 0 BY <1>3, <1>13, <1>21, <1>25, <2>1
  <2> QED BY <1>5, <1>16, <2>1, <2>2 DEF Placed
<1> QED BY <1>1, <1>17, <1>18, <1>19, <1>20, <1>22, <1>23, <1>23a, <1>23b, <1>24, <1>25 DEF Replaced

-----------------------------------------------------------------------------
(* CollectionConsistent *)

\* An index of images as _by_digest is meant.
Fitting(c, imgs) ==
    /\ StoreOf(c, imgs) \in Stores(Len(imgs))
    /\ \A d \in Digests : c.byDigest[d] # 0 =>
          c.byDigest[d] \in ToSet(c.members) /\ imgs[c.byDigest[d]].digest = d
    /\ \A i \in ToSet(c.members) : c.byDigest[imgs[i].digest] # 0

\* What may be an alias of a proper image of the collection has been resolved.
Linked(c, imgs) ==
    \A m, i \in ToSet(c.members) :
       imgs[m].digest = imgs[i].digest /\ PossibleAlias(imgs[m]) /\ Proper(imgs[i])
          => imgs[m].target # Absent

\* Every image is found by its digest.
Known(c, imgs) == \A i \in ToSet(c.members) : Knows(StoreOf(c, imgs), i)

CollectionInv ==
    /\ images \in Albums(Len(images)) /\ Len(images) \in Nat
    /\ \A i \in Ids : images[i].tag.name \in Names
    /\ Fitting(full, images) /\ Fitting(subset, images)
    /\ added \in 0..MaxAdded
    /\ Unique(images) => Sound(images)
    /\ added = 0 => /\ ToSet(full.members) = Ids /\ Unique(images)
                    /\ \A k, m \in DOMAIN full.members : full.members[k] = full.members[m] => k = m
                    /\ Linked(full, images) /\ Linked(subset, images) /\ Known(full, images)

LEMMA StoreOfIs ==
  ASSUME NEW c, NEW imgs
  PROVE  /\ StoreOf(c, imgs).members = c.members /\ StoreOf(c, imgs).byDigest = c.byDigest
         /\ StoreOf(c, imgs).unresolved = c.unresolved /\ StoreOf(c, imgs).images = imgs
  BY DEF StoreOf

LEMMA AlbumLength ==
  ASSUME NEW n \in Nat, NEW imgs \in Albums(n)
  PROVE  Len(imgs) = n
  BY DEF Albums

LEMMA CollectionIs ==
  ASSUME NEW s
  PROVE  /\ Collection(s).members = s.members /\ Collection(s).byDigest = s.byDigest
         /\ Collection(s).unresolved = s.unresolved
  BY DEF Collection

LEMMA CollectionStore ==
  ASSUME NEW n, NEW s \in Stores(n)
  PROVE  StoreOf(Collection(s), s.images) \in Stores(n)
<1>1. StoreOf(Collection(s), s.images)
        = [members |-> s.members, byDigest |-> s.byDigest, unresolved |-> s.unresolved,
           images |-> s.images]
  BY DEF StoreOf, Collection
<1> QED BY <1>1, StoreFields

LEMMA ReplacedFits ==
  ASSUME NEW n \in Nat, NEW imgs \in Albums(n), NEW members \in Seq(1..n), NEW r,
         Replaced(r, imgs, members, n)
  PROVE  /\ Fitting(Collection(r), r.images) /\ Linked(Collection(r), r.images)
         /\ Known(Collection(r), r.images)
         /\ r.images \in Albums(n) /\ Len(r.images) = n /\ Develops(r.images, imgs)
         /\ Collection(r).members = members
<1>1. r \in Stores(n) /\ r.members = members /\ Develops(r.images, imgs) BY DEF Replaced
<1>2. r.images \in Albums(n) /\ DOMAIN imgs = 1..n BY <1>1, StoreFields DEF Albums
<1>3. Len(r.images) = n BY <1>2, AlbumLength
<1>4. /\ Collection(r).members = members /\ Collection(r).byDigest = r.byDigest
  BY <1>1, CollectionIs
<1>5. StoreOf(Collection(r), r.images) \in Stores(n) BY <1>1, CollectionStore
<1>6. ToSet(members) \subseteq 1..n BY ListIs
<1>7. \A i \in 1..n : Outlives(r.images[i], imgs[i]) BY <1>1, <1>2 DEF Develops
<1>8. \A i \in 1..n : /\ r.images[i].digest = imgs[i].digest
                      /\ PossibleAlias(r.images[i]) <=> PossibleAlias(imgs[i])
                      /\ Proper(r.images[i]) <=> Proper(imgs[i])
  BY <1>7 DEF Outlives, Proper
<1>9. Fitting(Collection(r), r.images)
  <2>1. \A i \in ToSet(members) : r.byDigest[r.images[i].digest] # 0
    BY <1>6, <1>8 DEF Replaced
  <2>2. \A d \in Digests : r.byDigest[d] # 0 =>
           r.byDigest[d] \in ToSet(members) /\ r.images[r.byDigest[d]].digest = d
    BY DEF Replaced
  <2> QED BY <1>3, <1>4, <1>5, <2>1, <2>2 DEF Fitting
<1>10. Linked(Collection(r), r.images)
  <2>1. \A m, i \in ToSet(members) :
           imgs[m].digest = imgs[i].digest /\ PossibleAlias(imgs[m]) /\ Proper(imgs[i])
              => r.images[m].target # Absent
    BY DEF Replaced
  <2>2. \A m, i \in ToSet(members) :
           r.images[m].digest = r.images[i].digest /\ PossibleAlias(r.images[m])
             /\ Proper(r.images[i]) => r.images[m].target # Absent
    BY <1>6, <1>8, <2>1
  <2> QED BY <1>4, <2>2 DEF Linked
<1>11. Known(Collection(r), r.images)
  <2>1. \A i \in ToSet(members) : Knows(r, i) BY DEF Replaced
  <2>2. /\ StoreOf(Collection(r), r.images).byDigest = r.byDigest
        /\ StoreOf(Collection(r), r.images).images = r.images
    BY <1>4, StoreOfIs
  <2> QED BY <1>4, <2>1, <2>2 DEF Known, Knows
<1> QED BY <1>1, <1>2, <1>3, <1>4, <1>9, <1>10, <1>11

LEMMA NoImagesFits ==
  ASSUME NEW n \in Nat, NEW imgs \in Albums(n)
  PROVE  Fitting(NoImages, imgs) /\ Linked(NoImages, imgs)
<1> DEFINE by == [d \in Digests |-> 0]
<1>1. by \in [Digests -> 0..n] /\ \A d \in Digests : by[d] = 0 OBVIOUS
<1>2. StoreOf(NoImages, imgs) = [members |-> <<>>, byDigest |-> by, unresolved |-> {},
                                 images |-> imgs]
  BY DEF StoreOf, NoImages
<1>3. NoImages.members = <<>> /\ NoImages.byDigest = by BY DEF NoImages
<1> HIDE DEF by
<1>4. Len(imgs) = n BY AlbumLength
<1>5. <<>> \in Seq(1..n) /\ {} \in SUBSET Digests OBVIOUS
<1>6. StoreOf(NoImages, imgs) \in Stores(n) BY <1>1, <1>2, <1>5 DEF Stores
<1>7. ToSet(NoImages.members) = {} BY <1>3 DEF ToSet
<1> QED BY <1>1, <1>3, <1>4, <1>6, <1>7 DEF Fitting, Linked

\* A collection is as good as before when its images have developed.
LEMMA FitsOn ==
  ASSUME NEW n \in Nat, NEW old \in Albums(n), NEW imgs \in Albums(n), NEW c, Fitting(c, old),
         \A i \in 1..n : imgs[i].digest = old[i].digest
  PROVE  Fitting(c, imgs)
<1>1. Len(old) = n /\ Len(imgs) = n BY AlbumLength
<1>2. StoreOf(c, old) \in Stores(n) BY <1>1 DEF Fitting
<1>3. /\ c.members \in Seq(1..n) /\ c.byDigest \in [Digests -> 0..n]
      /\ c.unresolved \in SUBSET Digests
  BY <1>2, StoreFields, StoreOfIs
<1>4. StoreOf(c, imgs) = [members |-> c.members, byDigest |-> c.byDigest,
                          unresolved |-> c.unresolved, images |-> imgs]
  BY DEF StoreOf
<1>5. StoreOf(c, imgs) \in Stores(n) BY <1>3, <1>4 DEF Stores
<1>6. ToSet(c.members) \subseteq 1..n BY <1>3, ListIs
<1>7. ASSUME NEW d \in Digests, c.byDigest[d] # 0
      PROVE  c.byDigest[d] \in ToSet(c.members) /\ imgs[c.byDigest[d]].digest = d
  <2> DEFINE j == c.byDigest[d]
  <2>1. j \in ToSet(c.members) /\ old[j].digest = d BY <1>7 DEF Fitting
  <2> HIDE DEF j
  <2>2. imgs[j].digest = d BY <1>6, <2>1
  <2> QED BY <2>1, <2>2 DEF j
<1>8. \A i \in ToSet(c.members) : c.byDigest[imgs[i].digest] # 0 BY <1>6 DEF Fitting
<1> QED BY <1>1, <1>5, <1>7, <1>8 DEF Fitting

LEMMA LinkedOn ==
  ASSUME NEW n \in Nat, NEW old \in Albums(n), NEW imgs \in Albums(n), NEW c,
         Fitting(c, old), Linked(c, old),
         \A i \in 1..n : /\ imgs[i].digest = old[i].digest
                         /\ PossibleAlias(imgs[i]) <=> PossibleAlias(old[i])
                         /\ old[i].target # Absent => imgs[i].target # Absent
  PROVE  Linked(c, imgs)
<1>1. Len(old) = n BY AlbumLength
<1>2. StoreOf(c, old) \in Stores(n) BY <1>1 DEF Fitting
<1>3. c.members \in Seq(1..n) BY <1>2, StoreFields, StoreOfIs
<1>4. ToSet(c.members) \subseteq 1..n BY <1>3, ListIs
<1> QED BY <1>4 DEF Linked, Proper

LEMMA KnownOn ==
  ASSUME NEW n \in Nat, NEW old \in Albums(n), NEW imgs \in Albums(n), NEW c, Fitting(c, old),
         Known(c, old),
         \A i \in 1..n : /\ imgs[i].digest = old[i].digest /\ imgs[i].tag.name = old[i].tag.name
                         /\ old[i].aliases \subseteq imgs[i].aliases
  PROVE  Known(c, imgs)
<1>1. Len(old) = n BY AlbumLength
<1>2. StoreOf(c, old) \in Stores(n) BY <1>1 DEF Fitting
<1>3. c.members \in Seq(1..n) /\ c.byDigest \in [Digests -> 0..n] BY <1>2, StoreFields, StoreOfIs
<1>4. ToSet(c.members) \subseteq 1..n BY <1>3, ListIs
<1>5. /\ StoreOf(c, old).byDigest = c.byDigest /\ StoreOf(c, old).images = old
      /\ StoreOf(c, imgs).byDigest = c.byDigest /\ StoreOf(c, imgs).images = imgs
  BY StoreOfIs
<1>6. ASSUME NEW i \in ToSet(c.members) PROVE Knows(StoreOf(c, imgs), i)
  <2> DEFINE j == c.byDigest[old[i].digest]
  <2>1. Knows(StoreOf(c, old), i) BY <1>6 DEF Known
  <2>2. j # 0 /\ (j = i \/ old[i].tag.name \in old[j].aliases) BY <1>5, <2>1 DEF Knows
  <2>3. i \in 1..n /\ old[i] \in Image BY <1>4 DEF Albums
  <2>4. j \in 1..n
    <3>1. old[i].digest \in Digests BY <2>3, ImageFields
    <3> QED BY <1>3, <2>2, <3>1
  <2>5. j = c.byDigest[imgs[i].digest] BY <2>3
  <2> HIDE DEF j
  <2> QED BY <1>5, <2>2, <2>3, <2>4, <2>5 DEF Knows
<1> QED BY <1>6 DEF Known

LEMMA ImagesDevelop ==
  ASSUME NEW n, NEW old \in Albums(n), NEW imgs \in Albums(n), Develops(imgs, old)
  PROVE  \A i \in 1..n : /\ imgs[i].digest = old[i].digest /\ imgs[i].tag.name = old[i].tag.name
                         /\ PossibleAlias(imgs[i]) <=> PossibleAlias(old[i])
                         /\ old[i].target # Absent => imgs[i].target # Absent
                         /\ imgs[i].nodes = old[i].nodes
                         /\ old[i].aliases \subseteq imgs[i].aliases
<1>1. DOMAIN old = 1..n BY DEF Albums
<1>2. \A i \in 1..n : Outlives(imgs[i], old[i]) BY <1>1 DEF Develops
<1> QED BY <1>2 DEF Outlives

LEMMA NewImageIs ==
  ASSUME NEW t \in Tags, NEW d \in Digests
  PROVE  /\ NewImage(t, d) \in Image /\ NewImage(t, d).digest = d /\ NewImage(t, d).tag = t
         /\ NewImage(t, d).target = Absent /\ NewImage(t, d).nodes = {}
<1>1. t \in RegistryTag BY CollectionAssumption
<1>2. NewImage(t, d) = [tag |-> t, digest |-> d, aliases |-> {}, target |-> Absent, nodes |-> {}]
  BY DEF NewImage
<1>3. Absent \in Optional /\ {} \in SUBSET Nat /\ {} \in SUBSET Nodes BY DEF Optional
<1> QED BY <1>1, <1>2, <1>3 DEF Image

LEMMA CollectionStart == CollectionInit => CollectionInv
<1> SUFFICES ASSUME CollectionInit PROVE CollectionInv OBVIOUS
<1>1. PICK l \in Listed :
         LET r == Replace([i \in DOMAIN l |-> NewImage(l[i].tag, l[i].digest)],
                          [i \in DOMAIN l |-> i]) IN
         images = r.images /\ full = Collection(r) /\ subset = NoImages /\ added = 0
  BY DEF CollectionInit
<1>2. PICK n \in 0..MaxListed : l \in [1..n -> [tag : Tags, digest : Digests]]
  BY DEF Listed, Listings
<1>3. n \in Nat /\ DOMAIN l = 1..n BY <1>2, CollectionAssumption
<1>4. \A i \in 1..n : l[i].tag \in Tags /\ l[i].digest \in Digests BY <1>2
<1> DEFINE imgs == [i \in 1..n |-> NewImage(l[i].tag, l[i].digest)]
           members == [i \in 1..n |-> i]
           r == Replace(imgs, members)
<1>5. images = r.images /\ full = Collection(r) /\ subset = NoImages /\ added = 0 BY <1>1, <1>3
<1>6. /\ imgs \in Albums(n)
      /\ \A i \in 1..n : imgs[i].tag = l[i].tag /\ imgs[i].target = Absent
  BY <1>4, NewImageIs DEF Albums
<1>7. /\ members \in Seq(1..n) /\ ToSet(members) = 1..n
      /\ \A k, m \in DOMAIN members : members[k] = members[m] => k = m
  <2>1. members \in [1..n -> 1..n] /\ DOMAIN members = 1..n OBVIOUS
  <2>2. \A i \in 1..n : members[i] = i OBVIOUS
  <2> HIDE DEF members
  <2>3. members \in Seq(1..n) BY <1>3, <2>1
  <2> QED BY <2>1, <2>2, <2>3 DEF ToSet
<1> HIDE DEF imgs, members
<1>8. Unique(imgs)
  <2>1. DOMAIN imgs = 1..n BY <1>6 DEF Albums
  <2>2. ASSUME NEW i \in 1..n, NEW j \in 1..n, imgs[i].tag.name = imgs[j].tag.name PROVE i = j
    <3>1. l[i].tag = l[j].tag BY <1>4, <1>6, <2>2, CollectionAssumption
    <3> QED BY <1>3, <3>1 DEF Listed
  <2> QED BY <2>1, <2>2 DEF Unique
<1>9. Sound(imgs)
  <2>1. DOMAIN imgs = 1..n BY <1>6 DEF Albums
  <2> QED BY <2>1, <1>6 DEF Sound, Resolves
<1>10. Replaced(r, imgs, members, n) BY <1>3, <1>6, <1>7, ReplaceIs
<1> HIDE DEF r
<1>11. /\ Fitting(full, images) /\ Linked(full, images) /\ Known(full, images)
       /\ images \in Albums(n) /\ Len(images) = n /\ Develops(images, imgs)
       /\ full.members = members
  BY <1>3, <1>5, <1>6, <1>7, <1>10, ReplacedFits
<1>12. Sound(images) /\ Unique(images)
  <2>1. Sound(images) BY <1>5, <1>8, <1>9, <1>10 DEF Replaced
  <2> QED BY <2>1, <1>6, <1>8, <1>11, UniqueStays
<1>13. Ids = 1..n BY <1>11 DEF Ids, Albums
<1>14. \A i \in Ids : images[i].tag.name \in Names
  <2>1. \A i \in 1..n : images[i].tag.name = imgs[i].tag.name BY <1>6, <1>11, ImagesDevelop
  <2> QED BY <1>4, <1>6, <1>13, <2>1 DEF Names
<1>15. Fitting(subset, images) /\ Linked(subset, images) BY <1>3, <1>5, <1>11, NoImagesFits
<1>16. added \in 0..MaxAdded BY <1>5, CollectionAssumption
<1> QED BY <1>3, <1>7, <1>11, <1>12, <1>13, <1>14, <1>15, <1>16 DEF CollectionInv

LEMMA ListOf ==
  ASSUME NEW m \in Nat, NEW X, NEW q \in [1..m -> X]
  PROVE  q \in Seq(X)
  OBVIOUS

LEMMA AllImagesAre ==
  ASSUME NEW n, NEW s \in Stores(n), NEW hideArch \in BOOLEAN
  PROVE  AllImages(s, hideArch) \in Seq(1..n)
<1> DEFINE tags == TagsOf(s)
           l == AllTags(tags, hideArch)
<1>1. /\ tags \in Seq(RegistryTag) /\ DOMAIN tags = DOMAIN s.members
      /\ \A k \in DOMAIN s.members : s.members[k] \in 1..n
  BY TagsOfIs
<1> HIDE DEF tags
<1>2. l \in Seq(DOMAIN tags) BY <1>1, AllTagsIs DEF TagList
<1>3. AllImages(s, hideArch) = [k \in DOMAIN l |-> s.members[l[k]]] BY DEF AllImages, tags
<1> HIDE DEF l
<1>4. Len(l) \in Nat /\ DOMAIN l = 1..Len(l) /\ \A k \in 1..Len(l) : l[k] \in DOMAIN tags
  BY <1>2, ListIs
<1>5. \A k \in 1..Len(l) : s.members[l[k]] \in 1..n BY <1>1, <1>4
<1>6. AllImages(s, hideArch) \in [1..Len(l) -> 1..n] BY <1>3, <1>4, <1>5
<1> DEFINE m == Len(l)
           q == AllImages(s, hideArch)
<1>7. m \in Nat /\ q \in [1..m -> 1..n] BY <1>4, <1>6
<1> HIDE DEF m, q
<1>8. q \in Seq(1..n) BY <1>7, ListOf
<1> QED BY <1>8 DEF q

\* Adding an image to a collection, to the end of its images.
LEMMA AddedIs ==
  ASSUME NEW n \in Nat, NEW s \in Stores(n), NEW i \in 1..n,
         Fitting(Collection(s), s.images)
  PROVE  LET r == Added(s, i) IN
         /\ Fitting(Collection(r), r.images)
         /\ r.images \in Albums(n) /\ Len(r.images) = n /\ Develops(r.images, s.images)
         /\ Unique(s.images) /\ Sound(s.images) => Sound(r.images)
<1> DEFINE r == Added(s, i)
           d0 == s.images[i].digest
           j == s.byDigest[d0]
           again == Append(AllImages(s, TRUE), i)
           longer == Append(s.members, i)
           placed == IF j # 0 THEN ResolveDuplicate(s, i, j) ELSE [s EXCEPT !.byDigest[d0] = i]
<1>1. /\ s.members \in Seq(1..n) /\ s.byDigest \in [Digests -> 0..n]
      /\ s.images \in Albums(n) /\ DOMAIN s.images = 1..n
      /\ \A p \in 1..n : s.images[p] \in Image
  BY StoreFields
<1>2. d0 \in Digests /\ j \in 0..n BY <1>1, ImageFields
<1>3. Len(s.images) = n BY <1>1, AlbumLength
<1>4. /\ \A d \in Digests : s.byDigest[d] # 0 =>
            s.byDigest[d] \in ToSet(s.members) /\ s.images[s.byDigest[d]].digest = d
      /\ \A p \in ToSet(s.members) : s.byDigest[s.images[p].digest] # 0
  BY CollectionIs DEF Fitting
<1>5. CASE ~PossibleAlias(s.images[i]) /\ d0 \in s.unresolved
  <2>1. r = Replace(s.images, again) BY <1>5 DEF Added
  <2>2. AllImages(s, TRUE) \in Seq(1..n) BY AllImagesAre
  <2>3. again \in Seq(1..n) BY <2>2, AppendedIs
  <2> HIDE DEF again, r
  <2>4. Replaced(r, s.images, again, n) BY <1>1, <2>1, <2>3, ReplaceIs
  <2>5. /\ Fitting(Collection(r), r.images)
        /\ r.images \in Albums(n) /\ Len(r.images) = n /\ Develops(r.images, s.images)
    BY <1>1, <2>3, <2>4, ReplacedFits
  <2>6. Unique(s.images) /\ Sound(s.images) => Sound(r.images) BY <2>4 DEF Replaced
  <2> QED BY <2>5, <2>6 DEF r
<1>6. CASE ~(~PossibleAlias(s.images[i]) /\ d0 \in s.unresolved)
  <2>1. r = [placed EXCEPT !.members = Append(@, i)] BY <1>6 DEF Added, Same
  <2>2. /\ placed \in Stores(n) /\ placed.members = s.members
        /\ Develops(placed.images, s.images)
        /\ Unique(s.images) /\ Sound(s.images) => Sound(placed.images)
        /\ \/ placed.byDigest = s.byDigest /\ j # 0
           \/ placed.byDigest = [s.byDigest EXCEPT ![d0] = i]
    <3>1. CASE j # 0
      <4>1. j \in 1..n /\ s.images[j].digest = d0 BY <1>2, <1>4, <3>1
      <4>2. placed = ResolveDuplicate(s, i, j) BY <3>1
      <4> HIDE DEF placed, j
      <4>3. CASE PossibleAlias(s.images[i])
        <5>1. placed = DuplicateAlias(s, i, j) BY <4>2, <4>3 DEF ResolveDuplicate
        <5>2. /\ placed \in Stores(n) /\ placed.members = s.members
              /\ placed.byDigest = s.byDigest /\ Develops(placed.images, s.images)
              /\ Sound(s.images) => Sound(placed.images)
          BY <4>1, <4>3, <5>1, DuplicateAliasIs
        <5> QED BY <3>1, <5>2
      <4>4. CASE ~PossibleAlias(s.images[i])
        <5>1. placed = DuplicateImage(s, i, j) BY <4>2, <4>4 DEF ResolveDuplicate
        <5>2. /\ placed \in Stores(n) /\ placed.members = s.members
              /\ placed.byDigest = [s.byDigest EXCEPT ![d0] = i]
              /\ Develops(placed.images, s.images)
              /\ Unique(s.images) /\ Sound(s.images) => Sound(placed.images)
          <6>1. s.images[i].digest = s.images[j].digest BY <4>1
          <6>2. /\ placed \in Stores(n) /\ placed.members = s.members
                /\ placed.byDigest = [s.byDigest EXCEPT ![s.images[i].digest] = i]
                /\ Develops(placed.images, s.images)
            BY <4>1, <5>1, <6>1, DuplicateImageIs
          <6>3. Sound(s.images) /\ Unique(s.images) /\ Proper(s.images[i])
                   => Sound(placed.images)
            BY <4>1, <5>1, <6>1, DuplicateImageIs
          <6> QED BY <4>4, <6>2, <6>3 DEF Proper
        <5> QED BY <5>2
      <4> QED BY <4>3, <4>4
    <3>2. CASE j = 0
      <4> DEFINE by == [s.byDigest EXCEPT ![d0] = i]
      <4>1. placed = [s EXCEPT !.byDigest[d0] = i] BY <3>2
      <4>2. by \in [Digests -> 0..n]
        <5> DEFINE b == s.byDigest
        <5>1. b \in [Digests -> 0..n] /\ i \in 0..n BY <1>1
        <5> HIDE DEF b, d0
        <5> QED BY <5>1 DEF b
      <4>3. s \in [members : Seq(1..n), byDigest : [Digests -> 0..n], unresolved : SUBSET Digests,
                   images : Albums(n)]
        BY DEF Stores
      <4>4. placed = [s EXCEPT !.byDigest = by] BY <4>1, <4>3
      <4> HIDE DEF placed, by
      <4>5. /\ placed \in Stores(n) /\ placed.members = s.members /\ placed.images = s.images
            /\ placed.byDigest = by
        BY <4>2, <4>3, <4>4 DEF Stores
      <4> QED BY <1>1, <3>2, <4>5, DevelopsItself DEF by
    <3> QED BY <3>1, <3>2
  <2> HIDE DEF placed
  <2>3. /\ r \in Stores(n) /\ r.members = longer /\ r.images = placed.images
        /\ r.byDigest = placed.byDigest
    <3>1. longer \in Seq(1..n) BY <1>1, AppendedIs
    <3>2. placed \in [members : Seq(1..n), byDigest : [Digests -> 0..n],
                      unresolved : SUBSET Digests, images : Albums(n)]
      BY <2>2 DEF Stores
    <3>3. r = [placed EXCEPT !.members = longer] BY <2>1, <2>2, <3>2
    <3> HIDE DEF r, longer
    <3> QED BY <3>1, <3>2, <3>3 DEF Stores
  <2>4. ToSet(longer) = ToSet(s.members) \cup {i} BY <1>1, AppendedIs
  <2> HIDE DEF r, longer
  <2>5. r.images \in Albums(n) /\ Len(r.images) = n /\ Develops(r.images, s.images)
    BY <2>2, <2>3, StoreFields, AlbumLength
  <2>6. \A p \in 1..n : r.images[p].digest = s.images[p].digest
    BY <1>1, <2>5, ImagesDevelop
  <2>7. /\ r.byDigest[d0] # 0
        /\ \A d \in Digests : r.byDigest[d] = s.byDigest[d] \/ (d = d0 /\ r.byDigest[d] = i)
    BY <1>1, <1>2, <2>2, <2>3
  <2>8. ToSet(s.members) \subseteq 1..n BY <1>1, ListIs
  <2>9. ASSUME NEW d \in Digests, r.byDigest[d] # 0
        PROVE  r.byDigest[d] \in ToSet(longer) /\ r.images[r.byDigest[d]].digest = d
    <3>1. CASE d = d0 /\ r.byDigest[d] = i BY <2>4, <2>6, <3>1
    <3>2. CASE r.byDigest[d] = s.byDigest[d]
      <4>1. s.byDigest[d] \in ToSet(s.members) /\ s.images[s.byDigest[d]].digest = d
        BY <1>4, <2>9, <3>2
      <4>2. r.images[s.byDigest[d]].digest = s.images[s.byDigest[d]].digest
        BY <2>6, <2>8, <4>1
      <4> QED BY <2>4, <3>2, <4>1, <4>2
    <3> QED BY <2>7, <3>1, <3>2
  <2>10. ASSUME NEW p \in ToSet(longer) PROVE r.byDigest[r.images[p].digest] # 0
    <3>1. CASE p = i BY <2>6, <2>7, <3>1
    <3>2. CASE p \in ToSet(s.members)
      <4>1. s.byDigest[s.images[p].digest] # 0 /\ p \in 1..n BY <1>4, <2>8, <3>2
      <4>2. s.images[p].digest \in Digests BY <1>1, <4>1, ImageFields
      <4> QED BY <1>1, <2>6, <2>7, <4>1, <4>2
    <3> QED BY <2>4, <3>1, <3>2
  <2>11. StoreOf(Collection(r), r.images) \in Stores(n) BY <2>3, CollectionStore
  <2>12. Collection(r).members = longer /\ Collection(r).byDigest = r.byDigest
    BY <2>3, CollectionIs
  <2>13. Fitting(Collection(r), r.images) BY <2>5, <2>9, <2>10, <2>11, <2>12 DEF Fitting
  <2> QED BY <2>2, <2>3, <2>5, <2>13 DEF r
<1> QED BY <1>5, <1>6

LEMMA AddKeeps ==
  ASSUME CollectionInv, NEW t \in Tags, NEW d \in Digests, Add(t, d)
  PROVE  CollectionInv'
<1> DEFINE n == Len(images)
           m == n + 1
           imgs == Append(images, NewImage(t, d))
           s == [Store(full) EXCEPT !.images = Append(@, NewImage(t, d))]
           r == Added(s, m)
<1>1. /\ images \in Albums(n) /\ n \in Nat /\ DOMAIN images = 1..n
      /\ Fitting(full, images) /\ added \in 0..MaxAdded
      /\ \A i \in 1..n : images[i].tag.name \in Names /\ images[i] \in Image
  BY DEF CollectionInv, Ids, Albums
<1>2. /\ images' = r.images /\ full' = Collection(r) /\ subset' = NoImages
      /\ added < MaxAdded /\ added' = added + 1
  BY DEF Add
<1>3. m \in Nat /\ m \in 1..m /\ 1..n \subseteq 1..m BY <1>1
<1>4. /\ imgs \in Albums(m) /\ \A i \in 1..n : imgs[i] = images[i]
      /\ imgs[m] = NewImage(t, d)
  <2> DEFINE x == NewImage(t, d)
  <2>1. x \in Image BY NewImageIs
  <2>2. images \in [1..n -> Image] BY <1>1 DEF Albums
  <2>3. images \in Seq(Image) BY <1>1, <2>2
  <2> HIDE DEF x
  <2>4. Append(images, x) \in [1..(Len(images) + 1) -> Image]
    <3>1. Append(images, x) \in Seq(Image) /\ Len(Append(images, x)) = Len(images) + 1
      BY <2>1, <2>3
    <3> QED BY <3>1, ListIs
  <2>5. /\ \A i \in 1..Len(images) : Append(images, x)[i] = images[i]
        /\ Append(images, x)[Len(images) + 1] = x
    BY <2>1, <2>3
  <2> QED BY <2>4, <2>5 DEF Albums, x
<1>5. s = StoreOf(full, imgs) BY DEF Store, StoreOf
<1> HIDE DEF imgs, s, r
<1>6. StoreOf(full, images) \in Stores(n) BY <1>1 DEF Fitting
<1>7. /\ full.members \in Seq(1..n) /\ full.byDigest \in [Digests -> 0..n]
      /\ full.unresolved \in SUBSET Digests
  BY <1>6, StoreFields, StoreOfIs
<1> HIDE DEF m, n
<1>8. s \in Stores(m)
  <2> DEFINE mem == full.members
             by == full.byDigest
             un == full.unresolved
  <2>1. s = [members |-> mem, byDigest |-> by, unresolved |-> un, images |-> imgs]
    BY <1>5 DEF StoreOf
  <2>2. mem \in Seq(1..n) /\ by \in [Digests -> 0..n] /\ un \in SUBSET Digests BY <1>7
  <2> HIDE DEF mem, by, un
  <2>3. mem \in Seq(1..m) BY <1>3, <2>2, Widened
  <2>4. 0..n \subseteq 0..m BY <1>1 DEF m
  <2>5. by \in [Digests -> 0..m] BY <2>2, <2>4
  <2> QED BY <1>4, <2>1, <2>2, <2>3, <2>5 DEF Stores
<1>9. Collection(s).members = full.members /\ Collection(s).byDigest = full.byDigest
      /\ s.images = imgs
  BY <1>5, CollectionIs, StoreOfIs
<1>10. Fitting(Collection(s), s.images)
  <2>1. StoreOf(Collection(s), s.images) \in Stores(m) BY <1>8, CollectionStore
  <2>2. Len(imgs) = m BY <1>3, <1>4, AlbumLength
  <2>3. ToSet(full.members) \subseteq 1..n BY <1>7, ListIs
  <2>4. ASSUME NEW e \in Digests, full.byDigest[e] # 0
        PROVE  full.byDigest[e] \in ToSet(full.members) /\ imgs[full.byDigest[e]].digest = e
    <3> DEFINE j == full.byDigest[e]
    <3>1. j \in ToSet(full.members) /\ images[j].digest = e BY <1>1, <2>4 DEF Fitting
    <3> HIDE DEF j
    <3>2. imgs[j] = images[j] BY <1>4, <2>3, <3>1
    <3> QED BY <3>1, <3>2 DEF j
  <2>5. \A i \in ToSet(full.members) : full.byDigest[imgs[i].digest] # 0
    BY <1>1, <1>4, <2>3 DEF Fitting
  <2> QED BY <1>9, <2>1, <2>2, <2>4, <2>5 DEF Fitting
<1>11. /\ Fitting(Collection(r), r.images)
       /\ r.images \in Albums(m) /\ Len(r.images) = m /\ Develops(r.images, s.images)
       /\ Unique(s.images) /\ Sound(s.images) => Sound(r.images)
  BY <1>3, <1>8, <1>10, AddedIs DEF r
<1>12. \A i \in 1..m : r.images[i].tag.name \in Names
  <2>1. \A i \in 1..m : r.images[i].tag.name = imgs[i].tag.name
    BY <1>4, <1>9, <1>11, ImagesDevelop
  <2>2. t.name \in Names /\ NewImage(t, d).tag = t BY NewImageIs DEF Names
  <2>3. \A i \in 1..m : i = m \/ i \in 1..n BY <1>1 DEF m
  <2>4. \A i \in 1..m : imgs[i].tag.name \in Names BY <1>1, <1>4, <2>2, <2>3
  <2> QED BY <2>1, <2>4
<1>13. images' \in Albums(m) /\ Len(images') = m /\ DOMAIN images' = 1..m
  BY <1>2, <1>11 DEF Albums
<1>14. Fitting(full', images') BY <1>2, <1>11
<1>15. Fitting(subset', images') BY <1>2, <1>3, <1>13, NoImagesFits
<1>16. added' \in 0..MaxAdded /\ added' # 0 BY <1>1, <1>2, CollectionAssumption
<1>17. \A i \in Ids' : images'[i].tag.name \in Names BY <1>2, <1>12, <1>13 DEF Ids
<1>18. ASSUME Unique(images') PROVE Sound(images')
  <2>1. DOMAIN imgs = 1..m BY <1>4 DEF Albums
  <2>2. \A i \in 1..m : r.images[i].tag.name = imgs[i].tag.name
    BY <1>4, <1>9, <1>11, ImagesDevelop
  <2>3. Unique(imgs) BY <1>2, <1>13, <1>18, <2>1, <2>2 DEF Unique
  <2>4. Unique(images) BY <1>1, <1>3, <1>4, <2>1, <2>3 DEF Unique
  <2>5. Sound(images) BY <2>4 DEF CollectionInv
  <2>6. ASSUME NEW i \in 1..m PROVE Resolves(imgs, i)
    <3>1. CASE i = m
      <4>1. imgs[i].target = Absent BY <1>4, <3>1, NewImageIs
      <4> QED BY <4>1 DEF Resolves
    <3>2. CASE i \in 1..n
      <4>1. Resolves(images, i) /\ imgs[i] = images[i] BY <1>1, <1>4, <2>5, <3>2 DEF Sound
      <4>2. \A j \in 1..n : j \in 1..m /\ imgs[j] = images[j] BY <1>3, <1>4
      <4> QED BY <1>1, <2>1, <4>1, <4>2 DEF Resolves
    <3>3. i = m \/ i \in 1..n BY <1>1 DEF m
    <3> QED BY <3>1, <3>2, <3>3
  <2>7. Sound(imgs) BY <2>1, <2>6 DEF Sound
  <2> QED BY <1>2, <1>9, <1>11, <2>3, <2>7
<1> QED BY <1>3, <1>13, <1>14, <1>15, <1>16, <1>17, <1>18 DEF CollectionInv, Ids

\* A mark changes the nodes of images and nothing else.
LEMMA MarkImages ==
  ASSUME CollectionInv, NEW d \in Digests, NEW node \in Nodes, Mark(d, node)
  PROVE  /\ images' \in Albums(Len(images)) /\ Len(images') = Len(images)
         /\ \A i \in 1..Len(images) :
               /\ images'[i].tag = images[i].tag /\ images'[i].digest = images[i].digest
               /\ images'[i].target = images[i].target /\ images'[i].aliases = images[i].aliases
<1> DEFINE n == Len(images)
           reached == Reached(Store(full), d)
<1>1. images \in Albums(n) /\ n \in Nat /\ DOMAIN images = 1..n BY DEF CollectionInv, Albums
<1>2. images' = [i \in 1..n |-> IF i \in reached THEN [images[i] EXCEPT !.nodes = @ \cup {node}]
                                ELSE images[i]]
  BY <1>1 DEF Mark, Ids
<1> HIDE DEF n, reached
<1>3. ASSUME NEW i \in 1..n
      PROVE  LET img == images'[i] IN
             /\ img \in Image /\ img.tag = images[i].tag /\ img.digest = images[i].digest
             /\ img.target = images[i].target /\ img.aliases = images[i].aliases
  <2> DEFINE w == [images[i] EXCEPT !.nodes = @ \cup {node}]
  <2>1. images'[i] = IF i \in reached THEN w ELSE images[i] BY <1>2
  <2>2. images[i] \in Image BY <1>1 DEF Albums
  <2>3. w \in Image /\ w.tag = images[i].tag /\ w.digest = images[i].digest
        /\ w.target = images[i].target /\ w.aliases = images[i].aliases
    BY <2>2 DEF Image
  <2> HIDE DEF w
  <2> QED BY <2>1, <2>2, <2>3
<1>4. images' \in Albums(n) BY <1>2, <1>3 DEF Albums
<1>5. Len(images') = n BY <1>1, <1>4, AlbumLength
<1> QED BY <1>3, <1>4, <1>5 DEF n

LEMMA MarkKeeps ==
  ASSUME CollectionInv, NEW d \in Digests, NEW node \in Nodes, Mark(d, node)
  PROVE  CollectionInv'
<1> DEFINE n == Len(images)
           now == images'
<1>1. /\ images \in Albums(n) /\ n \in Nat /\ DOMAIN images = 1..n
      /\ Fitting(full, images) /\ Fitting(subset, images)
  BY DEF CollectionInv, Albums
<1>2. /\ now \in Albums(n) /\ Len(now) = n
      /\ \A i \in 1..n : /\ now[i].tag = images[i].tag /\ now[i].digest = images[i].digest
                         /\ now[i].target = images[i].target
                         /\ now[i].aliases = images[i].aliases
  BY MarkImages
<1>3. full' = full /\ subset' = subset /\ added' = added BY DEF Mark
<1> HIDE DEF now, n
<1>4. DOMAIN now = 1..n BY <1>2 DEF Albums
<1>5. \A i \in 1..n : PossibleAlias(now[i]) <=> PossibleAlias(images[i])
  BY <1>2 DEF PossibleAlias
<1>6. Fitting(full, now) /\ Fitting(subset, now) BY <1>1, <1>2, FitsOn
<1>7. ASSUME added = 0
      PROVE  /\ ToSet(full.members) = DOMAIN now /\ Unique(now)
             /\ \A k, m \in DOMAIN full.members : full.members[k] = full.members[m] => k = m
             /\ Linked(full, now) /\ Linked(subset, now) /\ Known(full, now)
  <2>1. /\ ToSet(full.members) = 1..n /\ Unique(images)
        /\ \A k, m \in DOMAIN full.members : full.members[k] = full.members[m] => k = m
        /\ Linked(full, images) /\ Linked(subset, images) /\ Known(full, images)
    BY <1>1, <1>7 DEF CollectionInv, Ids
  <2>2. Unique(now) BY <1>1, <1>2, <1>4, <2>1 DEF Unique
  <2>4. Linked(full, now) BY <1>1, <1>2, <1>5, <2>1, LinkedOn
  <2>5. Linked(subset, now) BY <1>1, <1>2, <1>5, <2>1, LinkedOn
  <2>6. Known(full, now) BY <1>1, <1>2, <2>1, KnownOn
  <2> QED BY <1>4, <2>1, <2>2, <2>4, <2>5, <2>6
<1>7a. ASSUME Unique(now) PROVE Sound(now)
  <2>1. Unique(images) BY <1>1, <1>2, <1>4, <1>7a DEF Unique
  <2>2. Sound(images) BY <2>1 DEF CollectionInv
  <2> QED BY <1>1, <1>2, <1>4, <1>5, <2>2 DEF Sound, Resolves, Proper
<1>8. /\ \A i \in DOMAIN now : now[i].tag.name \in Names
      /\ added \in 0..MaxAdded
  BY <1>1, <1>2, <1>4 DEF CollectionInv, Ids
<1> QED BY <1>1, <1>2, <1>3, <1>6, <1>7, <1>7a, <1>8 DEF CollectionInv, Ids, now

LEMMA SubsetMembersAre ==
  ASSUME NEW n, NEW s \in Stores(n), NEW limit \in Limits
  PROVE  /\ SubsetMembers(s, limit) \in Seq(1..n)
         /\ ToSet(SubsetMembers(s, limit)) =
              {s.members[k] : k \in ToSet(Subset(TagsOf(s), limit, limit.include, TRUE))}
<1> DEFINE tags == TagsOf(s)
           chosen == Subset(tags, limit, limit.include, TRUE)
           some == [k \in DOMAIN chosen |-> tags[chosen[k]]]
           l == AllTags(some, FALSE)
           q == SubsetMembers(s, limit)
           m == Len(l)
<1>1. /\ tags \in Seq(RegistryTag) /\ DOMAIN tags = DOMAIN s.members
      /\ \A k \in DOMAIN s.members : s.members[k] \in 1..n
  BY TagsOfIs
<1>2. q = [k \in DOMAIN l |-> s.members[chosen[l[k]]]] BY DEF SubsetMembers
<1> HIDE DEF tags, q
<1>3. limit \in [releases : Nat, weeklies : Nat, dailies : Nat, include : SUBSET Nat]
  BY CollectionAssumption
<1>4. chosen \in Seq(DOMAIN tags) BY <1>1, <1>3, SubsetPlaces DEF TagList
<1> HIDE DEF chosen
<1>5. Len(chosen) \in Nat /\ DOMAIN chosen = 1..Len(chosen)
      /\ \A k \in DOMAIN chosen : chosen[k] \in DOMAIN tags
  BY <1>4, ListIs
<1>6. \A k \in DOMAIN chosen : tags[chosen[k]] \in RegistryTag BY <1>1, <1>5, ListIs
<1>7. some \in Seq(RegistryTag) /\ DOMAIN some = DOMAIN chosen
  <2>1. some \in [1..Len(chosen) -> RegistryTag] /\ DOMAIN some = DOMAIN chosen BY <1>5, <1>6
  <2> DEFINE c == Len(chosen)
  <2>2. c \in Nat /\ some \in [1..c -> RegistryTag] BY <1>5, <2>1
  <2> HIDE DEF c, some
  <2>3. some \in Seq(RegistryTag) BY <2>2
  <2> QED BY <2>1, <2>3
<1> HIDE DEF some
<1>8. l \in Seq(DOMAIN some) /\ ToSet(l) = DOMAIN some BY <1>7, AllTagsIs DEF TagList
<1> HIDE DEF l
<1>9. m \in Nat /\ DOMAIN l = 1..m /\ \A k \in 1..m : l[k] \in DOMAIN chosen
  BY <1>7, <1>8, ListIs
<1> HIDE DEF m
<1>10. \A k \in 1..m : s.members[chosen[l[k]]] \in 1..n BY <1>1, <1>5, <1>9
<1>11. q \in [1..m -> 1..n] BY <1>2, <1>9, <1>10
<1>12. q \in Seq(1..n) BY <1>9, <1>11, ListOf
<1>13. ToSet(q) = {s.members[k] : k \in ToSet(chosen)}
  <2>1. DOMAIN q = DOMAIN l BY <1>2
  <2>2. ToSet(q) = {s.members[chosen[l[k]]] : k \in DOMAIN l} BY <1>2, <2>1 DEF ToSet
  <2>3. ToSet(l) = {l[k] : k \in DOMAIN l} /\ ToSet(chosen) = {chosen[k] : k \in DOMAIN chosen}
    BY DEF ToSet
  <2>4. {l[k] : k \in DOMAIN l} = DOMAIN chosen BY <1>7, <1>8, <2>3
  <2> QED BY <2>2, <2>3, <2>4
<1> QED BY <1>12, <1>13 DEF q, chosen, tags

LEMMA TakeSubsetKeeps ==
  ASSUME CollectionInv, NEW limit \in Limits, TakeSubset(limit)
  PROVE  CollectionInv'
<1> DEFINE n == Len(images)
           members == SubsetMembers(Store(full), limit)
           r == Replace(images, members)
           now == r.images
<1>1. /\ images \in Albums(n) /\ n \in Nat /\ DOMAIN images = 1..n
      /\ Fitting(full, images)
      /\ ToSet(full.members) = 1..n /\ Unique(images) /\ Sound(images)
      /\ Linked(full, images) /\ Known(full, images)
      /\ \A k, m \in DOMAIN full.members : full.members[k] = full.members[m] => k = m
      /\ \A i \in 1..n : images[i].tag.name \in Names
      /\ added \in 0..MaxAdded
  BY DEF CollectionInv, Albums, TakeSubset, Ids
<1>2. images' = now /\ subset' = Collection(r) /\ full' = full /\ added' = added
  BY DEF TakeSubset
<1>3. Store(full) \in Stores(n) BY <1>1 DEF Fitting, Store
<1>4. members \in Seq(1..n) BY <1>3, SubsetMembersAre
<1> HIDE DEF members, n
<1>5. Replaced(r, images, members, n) BY <1>1, <1>4, ReplaceIs
<1> HIDE DEF r
<1>6. /\ Fitting(Collection(r), now) /\ Linked(Collection(r), now)
      /\ now \in Albums(n) /\ Len(now) = n /\ Develops(now, images)
  BY <1>1, <1>4, <1>5, ReplacedFits
<1>7. Sound(now) BY <1>1, <1>5 DEF Replaced
<1> HIDE DEF now
<1>8. Unique(now) BY <1>1, <1>6, UniqueStays
<1>9. \A i \in 1..n : /\ now[i].digest = images[i].digest /\ now[i].tag.name = images[i].tag.name
                      /\ PossibleAlias(now[i]) <=> PossibleAlias(images[i])
                      /\ images[i].target # Absent => now[i].target # Absent
                      /\ images[i].aliases \subseteq now[i].aliases
  BY <1>1, <1>6, ImagesDevelop
<1>10. Fitting(full, now) BY <1>1, <1>6, <1>9, FitsOn
<1>11. Linked(full, now) BY <1>1, <1>6, <1>9, LinkedOn
<1>11a. Known(full, now) BY <1>1, <1>6, <1>9, KnownOn
<1>12. DOMAIN now = 1..n BY <1>6 DEF Albums
<1> QED BY <1>1, <1>2, <1>6, <1>7, <1>8, <1>9, <1>10, <1>11, <1>11a, <1>12 DEF CollectionInv, Ids

LEMMA CollectionNextKeeps ==
  ASSUME CollectionInv, CollectionNext
  PROVE  CollectionInv'
  BY AddKeeps, MarkKeeps, TakeSubsetKeeps DEF CollectionNext

LEMMA CollectionRests ==
  ASSUME CollectionInv, UNCHANGED collectionVars
  PROVE  CollectionInv'
  BY DEF CollectionInv, collectionVars, Ids

\* The images, the indices and the targets of a registry's collection at every
\* moment (RSPImageCollection), whatever a command does meanwhile.
THEOREM CollectionIsConsistent == ManagerSpec => []CollectionInv
<1>1. ManagerInit => CollectionInv BY CollectionStart DEF ManagerInit
<1>2. CollectionInv /\ [ManagerNext]_ManagerVars => CollectionInv'
  <2> SUFFICES ASSUME CollectionInv, [ManagerNext]_ManagerVars PROVE CollectionInv' OBVIOUS
  <2>1. CollectionNext \/ UNCHANGED collectionVars
    BY DEF ManagerNext, ManagerVars, DockerPrune, GarPrune, DockerDelete, DockerDigest,
           DockerDeleted
  <2> QED BY <2>1, CollectionNextKeeps, CollectionRests
<1> QED BY <1>1, <1>2, PTL DEF ManagerSpec

\* Every index points to an image of the collection with that digest, and a tag
\* that may be an alias is one of a proper image that shares its digest
\* (RSPImageCollection, _replace_contents).
THEOREM IndicesAndAliasesFit == ManagerSpec => []CollectionConsistent
<1>1. CollectionInv => CollectionConsistent
  <2> SUFFICES ASSUME CollectionInv PROVE CollectionConsistent OBVIOUS
  <2> DEFINE n == Len(images)
  <2>1. /\ images \in Albums(n) /\ n \in Nat /\ DOMAIN images = 1..n /\ Ids = 1..n
        /\ \A i \in 1..n : images[i] \in Image
    BY DEF CollectionInv, Albums, Ids
  <2>2. ASSUME NEW c \in {full, subset}
        PROVE  /\ c.members \in Seq(1..n) /\ c.byDigest \in [Digests -> 0..n]
               /\ c.unresolved \in SUBSET Digests
               /\ Members(c) = ToSet(c.members) /\ Members(c) \subseteq 1..n
               /\ Fitting(c, images)
    <3>1. Fitting(c, images) BY <2>2 DEF CollectionInv
    <3>2. StoreOf(c, images) \in Stores(n) BY <3>1 DEF Fitting
    <3>3. /\ c.members \in Seq(1..n) /\ c.byDigest \in [Digests -> 0..n]
          /\ c.unresolved \in SUBSET Digests
      BY <3>2, StoreFields, StoreOfIs
    <3>4. Members(c) = ToSet(c.members) BY DEF Members, ToSet
    <3>5. ToSet(c.members) \subseteq 1..n BY <3>3, ListIs
    <3> QED BY <3>1, <3>3, <3>4, <3>5
  <2> HIDE DEF n
  <2>3. \A i \in Ids : /\ images[i].digest \in Digests /\ images[i].tag.type \in Types
                       /\ images[i].nodes \subseteq Nodes
    BY <2>1, ImageFields
  <2>4. ASSUME NEW c \in {full, subset}, NEW d \in Digests
        PROVE  \/ c.byDigest[d] = 0 /\ \A m \in Members(c) : images[m].digest # d
               \/ c.byDigest[d] \in Members(c) /\ images[c.byDigest[d]].digest = d
    <3>1. Members(c) = ToSet(c.members) /\ Fitting(c, images) BY <2>2
    <3>2. /\ c.byDigest[d] # 0 =>
                c.byDigest[d] \in ToSet(c.members) /\ images[c.byDigest[d]].digest = d
          /\ \A i \in ToSet(c.members) : c.byDigest[images[i].digest] # 0
      BY <3>1 DEF Fitting
    <3> QED BY <3>1, <3>2
  <2>5. IndicesFit
    <3>1. \A c \in {full, subset} : Members(c) \subseteq Ids /\ c.unresolved \subseteq Digests
      BY <2>1, <2>2
    <3>2. added \in 0..MaxAdded BY DEF CollectionInv
    <3> QED BY <2>3, <2>4, <3>1, <3>2 DEF IndicesFit
  <2>6. AliasesResolved
    <3> SUFFICES ASSUME added = 0, NEW c \in {full, subset},
                        NEW m \in Members(c), NEW i \in Members(c),
                        images[m].digest = images[i].digest,
                        PossibleAlias(images[m]), ~PossibleAlias(images[i])
                 PROVE  \E j \in Members(c) \cup Members(full) :
                           /\ images[m].tag.type = "alias"
                           /\ images[m].target = images[j].tag.name
                           /\ images[j].digest = images[m].digest /\ ~PossibleAlias(images[j])
      BY DEF AliasesResolved
    <3>1. /\ ToSet(full.members) = 1..n /\ Unique(images) /\ Sound(images)
          /\ Linked(full, images) /\ Linked(subset, images)
      BY <2>1 DEF CollectionInv
    <3>2. Linked(c, images) BY <3>1
    <3>3. m \in ToSet(c.members) /\ i \in ToSet(c.members) /\ m \in 1..n BY <2>2
    <3>4. images[m].target # Absent BY <3>2, <3>3 DEF Linked, Proper
    <3>5. images[m].tag.type = "alias" BY <2>1, <3>3, <3>4, ImageFields
    <3>6. PICK j \in 1..n : /\ Proper(images[j]) /\ images[j].tag.name = images[m].target
                            /\ images[j].digest = images[m].digest
      BY <2>1, <3>1, <3>3, <3>4 DEF Sound, Resolves
    <3>7. j \in Members(full) BY <2>2, <3>1
    <3> QED BY <3>5, <3>6, <3>7 DEF Proper
  <2> QED BY <2>5, <2>6 DEF CollectionConsistent
<1> QED BY <1>1, CollectionIsConsistent, PTL

-----------------------------------------------------------------------------
(* SelectionsExact *)

LEMMA GenericsListed ==
  ASSUME NEW n, NEW s \in Stores(n), NEW a \in ToSet(s.members), s.images[a].tag.arch = Absent
  PROVE  a \in ToSet(AllImages(s, TRUE))
<1> DEFINE tags == TagsOf(s)
           l == AllTags(tags, TRUE)
<1>1. /\ tags \in Seq(RegistryTag) /\ DOMAIN tags = DOMAIN s.members
      /\ \A k \in DOMAIN s.members : tags[k] = s.images[s.members[k]].tag
  BY TagsOfIs
<1>2. AllImages(s, TRUE) = [k \in DOMAIN l |-> s.members[l[k]]] BY DEF AllImages
<1> HIDE DEF tags
<1>3. ToSet(l) = Generics(tags) BY <1>1, AllTagsIs DEF TagList
<1>4. PICK k \in DOMAIN s.members : s.members[k] = a BY DEF ToSet
<1>5. k \in Generics(tags) BY <1>1, <1>4 DEF Generics, Generic
<1> HIDE DEF l
<1>6. PICK m \in DOMAIN l : l[m] = k BY <1>3, <1>5 DEF ToSet
<1>7. m \in DOMAIN AllImages(s, TRUE) /\ AllImages(s, TRUE)[m] = a BY <1>2, <1>4, <1>6
<1> QED BY <1>7 DEF ToSet

LEMMA ShownAlias ==
  ASSUME CollectionInv
  PROVE  HiddenIsShown
<1> DEFINE n == Len(images)
           s == Store(full)
           listed == ToSet(AllImages(s, TRUE))
<1>1. /\ images \in Albums(n) /\ n \in Nat /\ Ids = 1..n
      /\ \A i \in 1..n : images[i] \in Image
  BY DEF CollectionInv, Albums, Ids
<1>2. s \in Stores(n) BY DEF CollectionInv, Fitting, Store
<1>3. s.images = images /\ s.members = full.members BY StoreOfIs DEF Store
<1> HIDE DEF n, s
<1>4. SUFFICES ASSUME \A i, j \in Ids : Tag(s, i) = Tag(s, j) => i = j,
                      NEW i \in listed, IsAliased(s, i)
               PROVE  \E a \in Members(full) : /\ images[a].target = images[i].tag.name
                                               /\ images[a].digest = images[i].digest
                                               /\ a \in listed \/ images[a].tag.arch # Absent
                                               /\ ~IsAliased(s, a)
  BY DEF HiddenIsShown, s
<1>5. Unique(images) BY <1>3, <1>4 DEF Unique, Tag, Ids
<1>6. Sound(images) BY <1>5 DEF CollectionInv
<1>7. i \in 1..n
  <2>1. AllImages(s, TRUE) \in Seq(1..n) BY <1>2, AllImagesAre
  <2> QED BY <2>1, ListIs
<1>8. PICK name : LET a == ByTag(s, name) IN
                  a # 0 /\ s.images[a].tag.type = "alias" /\ s.images[a].target = Tag(s, i)
  BY <1>4 DEF IsAliased
<1> DEFINE a == ByTag(s, name)
<1>9. a # 0 /\ images[a].tag.type = "alias" /\ images[a].target = images[i].tag.name
  BY <1>3, <1>8 DEF Tag
<1>10. a \in 1..n /\ a \in ToSet(full.members) BY <1>2, <1>3, <1>8, ByTagIs
<1> HIDE DEF a
<1>11. images[a].target # Absent BY <1>1, <1>7, <1>9, ImageFields
<1>12. PICK j \in 1..n : /\ images[j].tag.name = images[a].target
                         /\ images[j].digest = images[a].digest
  BY <1>1, <1>6, <1>10, <1>11 DEF Sound, Resolves, Ids
<1>13. j = i BY <1>1, <1>5, <1>7, <1>9, <1>12 DEF Unique, Ids
<1>14. a \in listed \/ images[a].tag.arch # Absent BY <1>2, <1>3, <1>10, GenericsListed
<1>15. ~IsAliased(s, a) BY <1>3, <1>9 DEF IsAliased
<1>16. a \in Members(full) BY <1>10 DEF Members, ToSet
<1> QED BY <1>9, <1>12, <1>13, <1>14, <1>15, <1>16

LEMMA OrderedTags ==
  ASSUME CollectionInv
  PROVE  OrderTotal
<1>1. \A i \in Ids : images[i] \in Image BY DEF CollectionInv, Albums, Ids
<1>2. \A i \in Ids : images[i].tag \in RegistryTag BY <1>1, ImageFields
<1>3. {images[i].tag : i \in Ids} \subseteq RegistryTag BY <1>2
<1> QED BY <1>3, RegistryTagsOrdered DEF OrderTotal, TagsOrdered

LEMMA DividedTags ==
  ASSUME CollectionInv
  PROVE  FilterDivides
<1> SUFFICES ASSUME added = 0, NEW p \in Policies
             PROVE  LET tags == TagsOf(Store(full))
                        kept == NamesOf(tags, Filter(tags, p, Now, FALSE, FALSE))
                        out == NamesOf(tags, Rejected(tags, p)) IN
                    /\ kept \cup out = {tags[i].name : i \in DOMAIN tags} /\ kept \cap out = {}
                    /\ \A i \in DOMAIN tags : tags[i].type \notin Filtered => tags[i].name \in kept
  BY DEF FilterDivides
<1> DEFINE n == Len(images)
           s == Store(full)
           tags == TagsOf(s)
           kept == Filter(tags, p, Now, FALSE, FALSE)
           out == Filter(tags, p, Now, TRUE, FALSE)
<1>1. images \in Albums(n) /\ DOMAIN images = 1..n BY DEF CollectionInv, Albums
<1>2. s \in Stores(n) BY DEF CollectionInv, Fitting, Store
<1>3. s.images = images /\ s.members = full.members BY StoreOfIs DEF Store
<1> HIDE DEF n, s
<1>4. /\ tags \in Seq(RegistryTag) /\ DOMAIN tags = DOMAIN full.members
      /\ \A k \in DOMAIN full.members : /\ full.members[k] \in 1..n
                                        /\ tags[k] = images[full.members[k]].tag
  BY <1>2, <1>3, TagsOfIs
<1> HIDE DEF tags
<1>5. \A k, m \in DOMAIN tags : tags[k].name = tags[m].name => k = m
  <2> SUFFICES ASSUME NEW k \in DOMAIN tags, NEW m \in DOMAIN tags, tags[k].name = tags[m].name
               PROVE  k = m
    OBVIOUS
  <2>1. images[full.members[k]].tag.name = images[full.members[m]].tag.name BY <1>4
  <2>2. full.members[k] = full.members[m] BY <1>1, <1>4, <2>1 DEF CollectionInv, Unique
  <2> QED BY <1>4, <2>2 DEF CollectionInv
<1>6. \A type \in Filtered : p[type].number \in Int BY PolicyAssumption
<1>7. /\ kept \in Seq(DOMAIN tags) /\ out \in Seq(DOMAIN tags)
      /\ \A i \in DOMAIN tags : tags[i].type \notin Filtered => i \in ToSet(kept)
      /\ ToSet(out) = DOMAIN tags \ ToSet(kept)
  BY <1>4, <1>5, <1>6, FilterIs DEF TagList
<1>8. ToSet(kept) \subseteq DOMAIN tags BY <1>7, ListIs
<1>9. /\ NamesOf(tags, kept) = NamesAt(tags, ToSet(kept))
      /\ NamesOf(tags, out) = NamesAt(tags, ToSet(out))
  BY NamesOfIs
<1>10. out = Rejected(tags, p) BY DEF Rejected
<1> HIDE DEF kept, out
<1>11. /\ NamesOf(tags, kept) \cup NamesOf(tags, out) = {tags[i].name : i \in DOMAIN tags}
       /\ NamesOf(tags, kept) \cap NamesOf(tags, out) = {}
  BY <1>5, <1>7, <1>8, <1>9 DEF NamesAt
<1>12. \A i \in DOMAIN tags : tags[i].type \notin Filtered => tags[i].name \in NamesOf(tags, kept)
  BY <1>7, <1>9 DEF NamesAt
<1> QED BY <1>10, <1>11, <1>12 DEF kept, tags, s

\* What is selected from a collection does not depend on how the registry lists
\* it (_compare), leaves no image out of the menu for good (all_images), and is
\* neither retained nor deleted twice (_filter_image_list).
THEOREM SelectionsAreExact == ManagerSpec => []SelectionsExact
<1>1. CollectionInv => SelectionsExact
  BY OrderedTags, ShownAlias, DividedTags DEF SelectionsExact
<1> QED BY <1>1, CollectionIsConsistent, PTL

-----------------------------------------------------------------------------
(* PruneExact *)

Commands ==
    [pc : {"idle", "docker", "delete", "ok", "error"}, todo : Seq(Names),
     digest : Digests \cup {NoDigest}, deleted : SUBSET (Digests \cup {NoDigest}),
     excluded : SUBSET Names, listed : SUBSET (Names \X Digests)]

\* The registry is what was listed, without the digests that were deleted.
Recorded(c, r) ==
    /\ \A n \in Names, d \in Digests : <<n, d>> \in c.listed =>
          IF d \in c.deleted THEN r[n] = NoDigest ELSE r[n] = d
    /\ \A n \in Names : r[n] # NoDigest => <<n, r[n]>> \in c.listed

\* Every digest of an excluded tag is deleted, or will be; no other is.
Accounted(c) ==
    /\ \A d \in Digests : d \in c.deleted \/ d = c.digest =>
          \E x \in c.excluded : <<x, d>> \in c.listed
    /\ \A x \in c.excluded, d \in Digests : <<x, d>> \in c.listed =>
          d \in c.deleted \/ d = c.digest \/ x \in ToSet(c.todo)

CommandInv ==
    /\ repo \in [Names -> Digests \cup {NoDigest}]
    /\ command \in Commands
    /\ command.pc # "idle" => Recorded(command, repo) /\ Accounted(command)
    /\ ToSet(command.todo) \subseteq command.excluded
    /\ command.pc # "delete" => command.digest = NoDigest
    /\ command.pc = "ok" => command.todo = <<>>

LEMMA CommandFields ==
  ASSUME NEW c \in Commands
  PROVE  /\ c.pc \in {"idle", "docker", "delete", "ok", "error"} /\ c.todo \in Seq(Names)
         /\ c.digest \in Digests \cup {NoDigest}
         /\ c.deleted \in SUBSET (Digests \cup {NoDigest})
         /\ c.excluded \in SUBSET Names /\ c.listed \in SUBSET (Names \X Digests)
  BY DEF Commands

LEMMA NamesFinite == IsFiniteSet(Names)
<1>1. IsFiniteSet(Tags) BY CollectionAssumption
<1> DEFINE f == [t \in Tags |-> t.name]
<1>2. f \in [Tags -> Names] /\ \A n \in Names : \E t \in Tags : f[t] = n BY DEF Names
<1> HIDE DEF f
<1>3. f \in Surjection(Tags, Names) BY <1>2 DEF Surjection
<1> QED BY <1>1, <1>3, FS_Surjection

LEMMA PresentIs ==
  Present \in SUBSET Names /\ IsFiniteSet(Present)
  BY NamesFinite, FS_Subset DEF Present

LEMMA TagOfIs ==
  ASSUME NEW n \in Names
  PROVE  TagOf(n) \in RegistryTag /\ TagOf(n).name = n
<1>1. \E t \in Tags : t.name = n BY DEF Names
<1>2. TagOf(n) \in Tags /\ TagOf(n).name = n BY <1>1 DEF TagOf
<1> QED BY <1>2, CollectionAssumption

LEMMA UnknownTag ==
  ASSUME NEW t \in RegistryTag
  PROVE  LET u == [t EXCEPT !.type = "unknown"] IN u \in RegistryTag /\ u.name = t.name
  BY DEF RegistryTag, Types

LEMMA RegistryTagsAre ==
  /\ RegistryTags \in Seq(RegistryTag)
  /\ \A i \in DOMAIN RegistryTags : RegistryTags[i].name \in Present
<1> DEFINE names == SetToSeq(Present)
           Renamed(t) == IF t.type = "alias" THEN [t EXCEPT !.type = "unknown"] ELSE t
           m == Len(names)
<1>1. names \in Seq(Present) BY PresentIs, SetToSeqIs
<1>2. RegistryTags = [i \in DOMAIN names |-> Renamed(TagOf(names[i]))] BY DEF RegistryTags
<1> HIDE DEF names
<1>3. m \in Nat /\ DOMAIN names = 1..m /\ \A i \in 1..m : names[i] \in Present BY <1>1, ListIs
<1>4. ASSUME NEW i \in 1..m
      PROVE  Renamed(TagOf(names[i])) \in RegistryTag /\ Renamed(TagOf(names[i])).name = names[i]
  <2>1. names[i] \in Names BY <1>3, PresentIs
  <2>2. TagOf(names[i]) \in RegistryTag /\ TagOf(names[i]).name = names[i] BY <2>1, TagOfIs
  <2>3. \A t \in RegistryTag : Renamed(t) \in RegistryTag /\ Renamed(t).name = t.name BY UnknownTag
  <2> HIDE DEF Renamed
  <2> QED BY <2>2, <2>3
<1> HIDE DEF Renamed, m
<1>5. RegistryTags = [i \in 1..m |-> Renamed(TagOf(names[i]))] BY <1>2, <1>3
<1> DEFINE tags == RegistryTags
<1>6. /\ tags \in [1..m -> RegistryTag]
      /\ \A i \in 1..m : tags[i].name \in Present
  BY <1>3, <1>4, <1>5
<1> HIDE DEF tags
<1>7. tags \in Seq(RegistryTag) BY <1>3, <1>6, ListOf
<1> QED BY <1>3, <1>6, <1>7 DEF tags

\* What a command that has just listed the registry knows.
LEMMA JustListed ==
  ASSUME repo \in [Names -> Digests \cup {NoDigest}], NEW c \in Commands,
         c.listed = {<<n, repo[n]>> : n \in Present}, c.deleted = {}
  PROVE  Recorded(c, repo)
<1>1. \A n \in Names : repo[n] # NoDigest => n \in Present /\ repo[n] \in Digests BY DEF Present
<1> QED BY <1>1, CollectionAssumption DEF Recorded, Present

LEMMA ListedGraph ==
  ASSUME repo \in [Names -> Digests \cup {NoDigest}]
  PROVE  {<<n, repo[n]>> : n \in Present} \in SUBSET (Names \X Digests)
  BY DEF Present

\* A command against Docker starts with every excluded tag to do.
LEMMA DockerStarts ==
  ASSUME CommandInv, NEW todo \in Seq(Names), NEW excluded \in SUBSET Names,
         ToSet(todo) = excluded, UNCHANGED repo,
         command' = [NoCommand EXCEPT
            !.pc = "docker", !.todo = todo, !.excluded = excluded,
            !.listed = {<<n, repo[n]>> : n \in Present}]
  PROVE  CommandInv'
<1> DEFINE listed == {<<n, repo[n]>> : n \in Present}
           c == command'
<1>1. c = [pc |-> "docker", todo |-> todo, digest |-> NoDigest, deleted |-> {},
           excluded |-> excluded, listed |-> listed]
  BY DEF NoCommand
<1>2. repo \in [Names -> Digests \cup {NoDigest}] /\ listed \in SUBSET (Names \X Digests)
  BY ListedGraph DEF CommandInv
<1> HIDE DEF listed, c
<1>3. c \in Commands
  <2>1. {} \in SUBSET (Digests \cup {NoDigest}) OBVIOUS
  <2>2. NoDigest \in Digests \cup {NoDigest} OBVIOUS
  <2>3. "docker" \in {"idle", "docker", "delete", "ok", "error"} OBVIOUS
  <2> QED BY <1>1, <1>2, <2>1, <2>2, <2>3 DEF Commands
<1>4. /\ c.pc = "docker" /\ c.todo = todo /\ c.digest = NoDigest /\ c.deleted = {}
      /\ c.excluded = excluded /\ c.listed = listed
  BY <1>1
<1>5. Recorded(c, repo) BY <1>2, <1>3, <1>4, JustListed DEF listed
<1>6. Accounted(c) BY <1>4, CollectionAssumption DEF Accounted
<1> QED BY <1>2, <1>3, <1>4, <1>5, <1>6 DEF CommandInv, c

LEMMA DockerPruneKeeps ==
  ASSUME CommandInv, NEW p \in Policies, DockerPrune(p)
  PROVE  CommandInv'
<1> DEFINE tags == RegistryTags
           out == Rejected(tags, p)
           todo == [i \in DOMAIN out |-> tags[out[i]].name]
           excluded == NamesOf(tags, out)
           m == Len(out)
<1>1. /\ command' = [NoCommand EXCEPT
           !.pc = "docker", !.todo = todo, !.excluded = excluded,
           !.listed = {<<n, repo[n]>> : n \in Present}]
      /\ UNCHANGED repo
  BY DEF DockerPrune
<1>2. tags \in Seq(RegistryTag) /\ \A i \in DOMAIN tags : tags[i].name \in Present
  BY RegistryTagsAre
<1> HIDE DEF tags
<1>3. \A type \in Filtered : p[type].number \in Int BY PolicyAssumption
<1>4. out \in Seq(DOMAIN tags) BY <1>2, <1>3, FilterIs DEF Rejected, TagList
<1>5. m \in Nat /\ DOMAIN out = 1..m /\ \A i \in 1..m : out[i] \in DOMAIN tags BY <1>4, ListIs
<1> HIDE DEF out, m
<1>6. \A i \in 1..m : tags[out[i]].name \in Names BY <1>2, <1>5, PresentIs
<1>7. todo \in [1..m -> Names] BY <1>5, <1>6
<1>8. excluded = {todo[i] : i \in DOMAIN todo} BY DEF NamesOf
<1> HIDE DEF todo, excluded
<1>9. todo \in Seq(Names) BY <1>5, <1>7, ListOf
<1>10. ToSet(todo) = excluded BY <1>8 DEF ToSet
<1>11. excluded \in SUBSET Names BY <1>9, <1>10, ListIs
<1> QED BY <1>1, <1>9, <1>10, <1>11, DockerStarts

LEMMA DockerDeleteKeeps ==
  ASSUME CommandInv, NEW names \in SUBSET Present, DockerDelete(names)
  PROVE  CommandInv'
<1> DEFINE todo == SetToSeq(names)
<1>1. /\ command' = [NoCommand EXCEPT
           !.pc = "docker", !.todo = todo, !.excluded = names,
           !.listed = {<<n, repo[n]>> : n \in Present}]
      /\ UNCHANGED repo
  BY DEF DockerDelete
<1>2. names \in SUBSET Names /\ IsFiniteSet(names) BY PresentIs, FS_Subset
<1>3. todo \in Seq(names) /\ ToSet(todo) = names BY <1>2, SetToSeqIs
<1> HIDE DEF todo
<1>4. todo \in Seq(Names) BY <1>2, <1>3, Widened
<1> QED BY <1>1, <1>2, <1>3, <1>4, DockerStarts

LEMMA GarPruneKeeps ==
  ASSUME CommandInv, CollectionInv, NEW p \in Policies, GarPrune(p)
  PROVE  CommandInv'
<1> DEFINE s == Store(full)
           tags == TagsOf(s)
           out == Rejected(tags, p)
           excluded == NamesOf(tags, out)
           digests == {repo[n] : n \in excluded}
           listed == {<<n, repo[n]>> : n \in Present}
           c == command'
<1>1. /\ DeleteDigests(digests)
      /\ c = [NoCommand EXCEPT !.pc = "ok", !.deleted = digests, !.excluded = excluded,
                               !.listed = listed]
  BY DEF GarPrune
<1>2. s \in Stores(Len(images)) /\ s.images = images
  BY StoreOfIs DEF CollectionInv, Fitting, Store
<1>3. \A i \in 1..Len(images) : images[i].tag.name \in Names
  BY DEF CollectionInv, Albums, Ids
<1> HIDE DEF s
<1>4. /\ tags \in Seq(RegistryTag) /\ DOMAIN tags = DOMAIN s.members
      /\ \A k \in DOMAIN s.members : /\ s.members[k] \in 1..Len(images)
                                     /\ tags[k] = images[s.members[k]].tag
  BY <1>2, TagsOfIs
<1> HIDE DEF tags
<1>5. \A type \in Filtered : p[type].number \in Int BY PolicyAssumption
<1>6. out \in Seq(DOMAIN tags) BY <1>4, <1>5, FilterIs DEF Rejected, TagList
<1>7. ToSet(out) \subseteq DOMAIN tags BY <1>6, ListIs
<1>8. excluded = NamesAt(tags, ToSet(out)) BY NamesOfIs
<1>9. excluded \in SUBSET Names BY <1>3, <1>4, <1>7, <1>8 DEF NamesAt
<1> HIDE DEF out, excluded
<1>10. repo \in [Names -> Digests \cup {NoDigest}] /\ listed \in SUBSET (Names \X Digests)
  BY ListedGraph DEF CommandInv
<1>11. digests \in SUBSET (Digests \cup {NoDigest}) BY <1>9, <1>10
<1>12. repo' = [n \in Names |-> IF repo[n] \in digests THEN NoDigest ELSE repo[n]]
  BY <1>1 DEF DeleteDigests
<1>13. \A d : d \in digests <=> \E x \in excluded : d = repo[x] OBVIOUS
<1>14. \A n, d : <<n, d>> \in listed <=> n \in Present /\ d = repo[n] OBVIOUS
<1> HIDE DEF digests, listed, c
<1>15. c = [pc |-> "ok", todo |-> <<>>, digest |-> NoDigest, deleted |-> digests,
            excluded |-> excluded, listed |-> listed]
  BY <1>1 DEF NoCommand
<1>16. c \in Commands
  <2>1. <<>> \in Seq(Names) OBVIOUS
  <2>2. NoDigest \in Digests \cup {NoDigest} OBVIOUS
  <2>3. "ok" \in {"idle", "docker", "delete", "ok", "error"} OBVIOUS
  <2> QED BY <1>9, <1>10, <1>11, <1>15, <2>1, <2>2, <2>3 DEF Commands
<1>17. /\ c.pc = "ok" /\ c.todo = <<>> /\ c.digest = NoDigest /\ c.deleted = digests
       /\ c.excluded = excluded /\ c.listed = listed
  BY <1>15
<1>18. repo' \in [Names -> Digests \cup {NoDigest}] BY <1>10, <1>12
<1>19. Recorded(c, repo')
  <2>1. \A n \in Names, d \in Digests : <<n, d>> \in listed =>
           IF d \in digests THEN repo'[n] = NoDigest ELSE repo'[n] = d
    BY <1>12, <1>14
  <2>2. \A n \in Names : repo'[n] # NoDigest => <<n, repo'[n]>> \in listed
    BY <1>12, <1>14 DEF Present
  <2> QED BY <1>17, <2>1, <2>2 DEF Recorded
<1>20. Accounted(c)
  <2>1. ASSUME NEW d \in Digests, d \in digests PROVE \E x \in excluded : <<x, d>> \in listed
    <3>1. PICK x \in excluded : d = repo[x] BY <1>13, <2>1
    <3>2. x \in Present BY <1>9, <2>1, <3>1, CollectionAssumption DEF Present
    <3> QED BY <1>14, <3>1, <3>2
  <2>2. \A x \in excluded, d \in Digests : <<x, d>> \in listed => d \in digests
    BY <1>13, <1>14
  <2> QED BY <1>17, <2>1, <2>2, CollectionAssumption DEF Accounted
<1>21. ToSet(c.todo) \subseteq c.excluded BY <1>17 DEF ToSet
<1> QED BY <1>16, <1>17, <1>18, <1>19, <1>20, <1>21 DEF CommandInv, c

LEMMA DockerDigestKeeps ==
  ASSUME CommandInv, DockerDigest
  PROVE  CommandInv'
<1> DEFINE c == command
           x == Head(c.todo)
           d == repo[x]
           rest == Tail(c.todo)
<1>1. /\ c \in Commands /\ repo \in [Names -> Digests \cup {NoDigest}]
      /\ c.pc = "docker" /\ repo' = repo /\ Recorded(c, repo) /\ Accounted(c)
      /\ ToSet(c.todo) \subseteq c.excluded /\ c.digest = NoDigest
  BY DEF DockerDigest, CommandInv
<1>2. /\ c.todo \in Seq(Names) /\ c.deleted \in SUBSET (Digests \cup {NoDigest})
      /\ c.excluded \in SUBSET Names /\ c.listed \in SUBSET (Names \X Digests)
  BY <1>1, CommandFields
<1>3. \/ c.todo = <<>> /\ command' = [c EXCEPT !.pc = "ok"]
      \/ c.todo # <<>> /\ d = NoDigest /\ command' = [c EXCEPT !.pc = "error"]
      \/ c.todo # <<>> /\ d # NoDigest /\ d \in c.deleted /\ command' = [c EXCEPT !.todo = Tail(@)]
      \/ c.todo # <<>> /\ d # NoDigest /\ d \notin c.deleted
         /\ command' = [c EXCEPT !.pc = "delete", !.todo = Tail(@), !.digest = d]
  BY DEF DockerDigest
<1>4. ASSUME c.todo # <<>>
      PROVE  /\ x \in Names /\ x \in c.excluded /\ rest \in Seq(Names)
             /\ ToSet(c.todo) = {x} \cup ToSet(rest)
             /\ d \in Digests \cup {NoDigest}
             /\ d # NoDigest => <<x, d>> \in c.listed
  <2> DEFINE l == c.todo
  <2>1. l \in Seq(Names) /\ l # <<>> BY <1>2, <1>4
  <2> HIDE DEF l
  <2>2. /\ Tail(l) \in Seq(Names) /\ Len(l) \in Nat /\ Len(l) # 0
        /\ Len(Tail(l)) = Len(l) - 1 /\ \A k \in 1..Len(Tail(l)) : Tail(l)[k] = l[k+1]
        /\ Head(l) = l[1] /\ DOMAIN l = 1..Len(l) /\ DOMAIN Tail(l) = 1..Len(Tail(l))
    BY <2>1
  <2>3. ToSet(l) = {Head(l)} \cup ToSet(Tail(l))
    <3>1. ASSUME NEW k \in 1..Len(l) PROVE l[k] \in {Head(l)} \cup ToSet(Tail(l))
      <4>1. CASE k = 1 BY <2>2, <4>1
      <4>2. CASE k # 1
        <5>1. k-1 \in 1..Len(Tail(l)) /\ (k-1)+1 = k BY <2>2, <4>2
        <5>2. Tail(l)[k-1] = l[k] BY <2>2, <5>1
        <5> QED BY <2>2, <5>1, <5>2 DEF ToSet
      <4> QED BY <4>1, <4>2
    <3>2. ASSUME NEW k \in 1..Len(Tail(l)) PROVE Tail(l)[k] \in ToSet(l)
      <4>1. k+1 \in 1..Len(l) /\ Tail(l)[k] = l[k+1] BY <2>2
      <4> QED BY <2>2, <4>1 DEF ToSet
    <3>3. Head(l) \in ToSet(l)
      <4>1. 1 \in 1..Len(l) BY <2>2
      <4> QED BY <2>2, <4>1 DEF ToSet
    <3> QED BY <2>2, <3>1, <3>2, <3>3 DEF ToSet
  <2>4. Head(l) \in ToSet(l) /\ Head(l) \in Names BY <2>1, <2>3, ListIs
  <2>5. d \in Digests \cup {NoDigest} BY <1>1, <2>4 DEF l
  <2>6. d # NoDigest => <<x, d>> \in c.listed BY <1>1, <2>4 DEF l, Recorded
  <2> QED BY <1>1, <2>2, <2>3, <2>4, <2>5, <2>6 DEF l
<1> DEFINE now == command'
<1> HIDE DEF c, x, d, rest, now
<1>5. CASE c.todo = <<>> /\ now = [c EXCEPT !.pc = "ok"]
  <2>1. /\ now \in Commands /\ now.pc = "ok" /\ now.todo = c.todo /\ now.digest = c.digest
        /\ now.deleted = c.deleted /\ now.excluded = c.excluded /\ now.listed = c.listed
    BY <1>1, <1>5 DEF Commands
  <2>2. Recorded(now, repo) /\ Accounted(now) BY <1>1, <2>1 DEF Recorded, Accounted
  <2> QED BY <1>1, <1>5, <2>1, <2>2 DEF CommandInv, now
<1>6. CASE now = [c EXCEPT !.pc = "error"]
  <2>1. /\ now \in Commands /\ now.pc = "error" /\ now.todo = c.todo /\ now.digest = c.digest
        /\ now.deleted = c.deleted /\ now.excluded = c.excluded /\ now.listed = c.listed
    BY <1>1, <1>6 DEF Commands
  <2>2. Recorded(now, repo) /\ Accounted(now) BY <1>1, <2>1 DEF Recorded, Accounted
  <2> QED BY <1>1, <2>1, <2>2 DEF CommandInv, now
<1>7. CASE c.todo # <<>> /\ d # NoDigest /\ d \in c.deleted /\ now = [c EXCEPT !.todo = rest]
  <2>1. rest \in Seq(Names) /\ ToSet(c.todo) = {x} \cup ToSet(rest) /\ d \in Digests
        /\ <<x, d>> \in c.listed /\ x \in Names
    BY <1>4, <1>7
  <2>2. /\ now \in Commands /\ now.pc = "docker" /\ now.todo = rest /\ now.digest = c.digest
        /\ now.deleted = c.deleted /\ now.excluded = c.excluded /\ now.listed = c.listed
    BY <1>1, <1>7, <2>1 DEF Commands
  <2>3. Recorded(now, repo) BY <1>1, <2>2 DEF Recorded
  <2>4. \A e \in Digests : <<x, e>> \in c.listed => e \in c.deleted
    BY <1>1, <1>7, <2>1 DEF Recorded, d
  <2>5. Accounted(now) BY <1>1, <2>1, <2>2, <2>4 DEF Accounted
  <2> QED BY <1>1, <2>1, <2>2, <2>3, <2>5 DEF CommandInv, now
<1>8. CASE /\ c.todo # <<>> /\ d # NoDigest
           /\ now = [c EXCEPT !.pc = "delete", !.todo = rest, !.digest = d]
  <2>1. rest \in Seq(Names) /\ ToSet(c.todo) = {x} \cup ToSet(rest) /\ d \in Digests
        /\ <<x, d>> \in c.listed /\ x \in Names /\ x \in c.excluded
    BY <1>4, <1>8
  <2>2. /\ now \in Commands /\ now.pc = "delete" /\ now.todo = rest /\ now.digest = d
        /\ now.deleted = c.deleted /\ now.excluded = c.excluded /\ now.listed = c.listed
    BY <1>1, <1>8, <2>1 DEF Commands
  <2>3. Recorded(now, repo) BY <1>1, <2>2 DEF Recorded
  <2>4. \A e \in Digests : <<x, e>> \in c.listed => e \in c.deleted \/ e = d
    BY <1>1, <1>8, <2>1 DEF Recorded, d
  <2>5. Accounted(now)
    <3>1. \A e \in Digests : e \in c.deleted \/ e = d => \E y \in c.excluded : <<y, e>> \in c.listed
      BY <1>1, <2>1 DEF Accounted
    <3>2. \A y \in c.excluded, e \in Digests : <<y, e>> \in c.listed =>
             e \in c.deleted \/ e = d \/ y \in ToSet(rest)
      BY <1>1, <2>1, <2>4, CollectionAssumption DEF Accounted
    <3> QED BY <2>2, <3>1, <3>2 DEF Accounted
  <2> QED BY <1>1, <2>1, <2>2, <2>3, <2>5 DEF CommandInv, now
<1> QED BY <1>3, <1>5, <1>6, <1>7, <1>8 DEF c, now, rest

LEMMA DockerDeletedKeeps ==
  ASSUME CommandInv, DockerDeleted
  PROVE  CommandInv'
<1> DEFINE c == command
           now == command'
           gone == c.deleted \cup {c.digest}
<1>1. /\ c \in Commands /\ repo \in [Names -> Digests \cup {NoDigest}]
      /\ c.pc = "delete" /\ Recorded(c, repo) /\ Accounted(c)
      /\ ToSet(c.todo) \subseteq c.excluded
      /\ repo' = [n \in Names |-> IF repo[n] \in {c.digest} THEN NoDigest ELSE repo[n]]
      /\ now = [c EXCEPT !.pc = "docker", !.digest = NoDigest, !.deleted = gone]
  BY DEF DockerDeleted, CommandInv, DeleteDigests
<1> HIDE DEF c, now
<1>2. c.digest \in Digests \cup {NoDigest} /\ gone \in SUBSET (Digests \cup {NoDigest})
  BY <1>1, CommandFields
<1>3. /\ now \in Commands /\ now.pc = "docker" /\ now.todo = c.todo /\ now.digest = NoDigest
      /\ now.deleted = gone /\ now.excluded = c.excluded /\ now.listed = c.listed
  <2> HIDE DEF gone
  <2> QED BY <1>1, <1>2 DEF Commands
<1>4. repo' \in [Names -> Digests \cup {NoDigest}] BY <1>1
<1>5. Recorded(now, repo')
  <2>1. ASSUME NEW n \in Names, NEW e \in Digests, <<n, e>> \in c.listed
        PROVE  IF e \in gone THEN repo'[n] = NoDigest ELSE repo'[n] = e
    <3>1. IF e \in c.deleted THEN repo[n] = NoDigest ELSE repo[n] = e
      BY <1>1, <2>1 DEF Recorded
    <3>2. repo'[n] = IF repo[n] = c.digest THEN NoDigest ELSE repo[n] BY <1>1
    <3> QED BY <3>1, <3>2
  <2>2. ASSUME NEW n \in Names, repo'[n] # NoDigest PROVE <<n, repo'[n]>> \in c.listed
    <3>1. repo'[n] = repo[n] BY <1>1, <2>2
    <3> QED BY <1>1, <2>2, <3>1 DEF Recorded
  <2> QED BY <1>3, <2>1, <2>2 DEF Recorded
<1>6. Accounted(now)
  <2>1. \A e \in Digests : e \in gone => \E y \in c.excluded : <<y, e>> \in c.listed
    BY <1>1 DEF Accounted
  <2>2. \A y \in c.excluded, e \in Digests : <<y, e>> \in c.listed =>
           e \in gone \/ y \in ToSet(c.todo)
    BY <1>1 DEF Accounted
  <2> QED BY <1>3, <2>1, <2>2, CollectionAssumption DEF Accounted
<1> QED BY <1>1, <1>3, <1>4, <1>5, <1>6 DEF CommandInv, now

LEMMA CommandStart == ManagerInit => CommandInv
<1> SUFFICES ASSUME ManagerInit PROVE CommandInv OBVIOUS
<1>1. \A i \in Ids : images[i] \in Image
  BY CollectionStart DEF ManagerInit, CollectionInv, Albums, Ids
<1>2. ASSUME NEW n \in Names
      PROVE  LET found == {i \in Ids : images[i].tag.name = n} IN
             (IF found = {} THEN NoDigest ELSE images[CHOOSE i \in found : TRUE].digest)
                \in Digests \cup {NoDigest}
  <2> DEFINE found == {i \in Ids : images[i].tag.name = n}
             k == CHOOSE i \in found : TRUE
  <2>1. found # {} => k \in found OBVIOUS
  <2>2. found # {} => images[k].digest \in Digests
    <3> SUFFICES ASSUME found # {} PROVE images[k].digest \in Digests OBVIOUS
    <3>1. k \in Ids BY <2>1
    <3> HIDE DEF k
    <3> QED BY <1>1, <3>1, ImageFields
  <2> QED BY <2>2
<1>3. repo \in [Names -> Digests \cup {NoDigest}] BY <1>2 DEF ManagerInit
<1>4. command = [pc |-> "idle", todo |-> <<>>, digest |-> NoDigest, deleted |-> {},
                 excluded |-> {}, listed |-> {}]
  BY DEF ManagerInit, NoCommand
<1>5. command \in Commands
  <2>1. <<>> \in Seq(Names) OBVIOUS
  <2>2. "idle" \in {"idle", "docker", "delete", "ok", "error"} OBVIOUS
  <2>3. {} \in SUBSET (Digests \cup {NoDigest}) /\ NoDigest \in Digests \cup {NoDigest} OBVIOUS
  <2>4. {} \in SUBSET Names /\ {} \in SUBSET (Names \X Digests) OBVIOUS
  <2> QED BY <1>4, <2>1, <2>2, <2>3, <2>4 DEF Commands
<1>6. /\ command.pc = "idle" /\ command.digest = NoDigest /\ command.todo = <<>>
  BY <1>4
<1>7. ToSet(command.todo) \subseteq command.excluded BY <1>6 DEF ToSet
<1> QED BY <1>3, <1>5, <1>6, <1>7 DEF CommandInv

LEMMA CommandRests ==
  ASSUME CommandInv, UNCHANGED <<repo, command>>
  PROVE  CommandInv'
  BY DEF CommandInv, Recorded, Accounted

\* What a command has done so far, and what it has left to do.
THEOREM CommandsAccount == ManagerSpec => []CommandInv
<1>1. ManagerInit => CommandInv BY CommandStart
<1>2. CollectionInv /\ CommandInv /\ [ManagerNext]_ManagerVars => CommandInv'
  <2> SUFFICES ASSUME CollectionInv, CommandInv, [ManagerNext]_ManagerVars PROVE CommandInv'
    OBVIOUS
  <2>1. CASE UNCHANGED <<repo, command>> BY <2>1, CommandRests
  <2>2. CASE \E p \in Policies : DockerPrune(p) BY <2>2, DockerPruneKeeps
  <2>3. CASE \E p \in Policies : GarPrune(p) BY <2>3, GarPruneKeeps
  <2>4. CASE \E names \in SUBSET Present : DockerDelete(names) BY <2>4, DockerDeleteKeeps
  <2>5. CASE DockerDigest BY <2>5, DockerDigestKeeps
  <2>6. CASE DockerDeleted BY <2>6, DockerDeletedKeeps
  <2> QED BY <2>1, <2>2, <2>3, <2>4, <2>5, <2>6 DEF ManagerNext, ManagerVars
<1> QED BY <1>1, <1>2, CollectionIsConsistent, PTL DEF ManagerSpec

\* A command that succeeds has deleted exactly the images of the tags it
\* excludes (prune_images, delete_tags).
THEOREM PrunesExactly == ManagerSpec => []PruneExact
<1>1. CommandInv => PruneExact
  <2> SUFFICES ASSUME CommandInv, command.pc = "ok", NEW l \in command.listed
               PROVE  repo[l[1]] = NoDigest <=>
                         \E x \in command.excluded : <<x, l[2]>> \in command.listed
    BY DEF PruneExact
  <2>1. /\ command \in Commands /\ Recorded(command, repo) /\ Accounted(command)
        /\ command.digest = NoDigest /\ command.todo = <<>>
    BY DEF CommandInv
  <2>2. command.listed \in SUBSET (Names \X Digests) BY <2>1, CommandFields
  <2>3. PICK n \in Names, d \in Digests : l = <<n, d>> BY <2>2
  <2>4. repo[n] = NoDigest <=> d \in command.deleted
    BY <2>1, <2>3, CollectionAssumption DEF Recorded
  <2>5. ToSet(command.todo) = {} BY <2>1 DEF ToSet
  <2>6. d \in command.deleted <=> \E x \in command.excluded : <<x, d>> \in command.listed
    BY <2>1, <2>5, CollectionAssumption DEF Accounted
  <2> QED BY <2>3, <2>4, <2>6
<1> QED BY <1>1, CommandsAccount, PTL


-----------------------------------------------------------------------------
(* StepsExact *)

\* The image a name finds is the one that has it, if names are unique.
LEMMA ByTagFinds ==
  ASSUME NEW n, NEW s \in Stores(n), Unique(s.images), NEW m \in ToSet(s.members)
  PROVE  ByTag(s, s.images[m].tag.name) = m
<1> DEFINE tags == TagsOf(s)
           name == s.images[m].tag.name
           k == Named(tags, name)
<1>1. /\ tags \in Seq(RegistryTag) /\ DOMAIN tags = DOMAIN s.members
      /\ DOMAIN s.members = 1..Len(s.members)
      /\ \A i \in DOMAIN s.members : /\ s.members[i] \in 1..n
                                     /\ tags[i] = s.images[s.members[i]].tag
  BY TagsOfIs
<1>2. DOMAIN s.images = 1..n BY StoreFields
<1> HIDE DEF tags
<1>3. PICK i \in DOMAIN tags : s.members[i] = m BY <1>1 DEF ToSet
<1>4. tags[i].name = name BY <1>1, <1>3
<1>5. k \in DOMAIN tags /\ tags[k].name = name BY <1>1, <1>4, NamedIs
<1>6. ByTag(s, name) = IF k = 0 THEN 0 ELSE s.members[k] BY DEF ByTag, tags
<1> HIDE DEF k
<1>7. s.members[k] = m BY <1>1, <1>2, <1>3, <1>5 DEF Unique
<1>8. k # 0 BY <1>1, <1>5
<1> QED BY <1>6, <1>7, <1>8

\* A mark reaches every image of the digest.
LEMMA MarkReaches ==
  ASSUME CollectionInv, NEW d \in Digests, NEW node \in Nodes, Mark(d, node),
         NEW m \in Members(full) \cup Members(subset), images[m].digest = d
  PROVE  node \in images'[m].nodes
<1> DEFINE n == Len(images)
           s == Store(full)
           j == full.byDigest[d]
<1>1. /\ images \in Albums(n) /\ n \in Nat /\ Ids = 1..n /\ added = 0
      /\ Fitting(subset, images)
      /\ ToSet(full.members) = 1..n /\ Unique(images) /\ Known(full, images)
      /\ \A i \in 1..n : images[i] \in Image
  BY DEF CollectionInv, Albums, Ids, Mark
<1>2. s \in Stores(n) BY DEF CollectionInv, Fitting, Store
<1>3. s.images = images /\ s.members = full.members /\ s.byDigest = full.byDigest
  BY StoreOfIs DEF Store
<1>4. m \in 1..n
  <2>1. Members(full) = ToSet(full.members) /\ Members(subset) = ToSet(subset.members)
    BY DEF Members, ToSet
  <2>2. StoreOf(subset, images) \in Stores(n) BY <1>1 DEF Fitting
  <2>3. subset.members \in Seq(1..n) BY <2>2, StoreFields, StoreOfIs
  <2>4. ToSet(subset.members) \subseteq 1..n BY <2>3, ListIs
  <2> QED BY <1>1, <2>1, <2>4
<1>5. s = StoreOf(full, images) BY DEF Store
<1> HIDE DEF s, n
<1>6. Knows(s, m) BY <1>1, <1>4, <1>5 DEF Known
<1>7. j # 0 /\ (j = m \/ images[m].tag.name \in images[j].aliases)
  BY <1>3, <1>6 DEF Knows
<1>8. ByTag(s, images[m].tag.name) = m BY <1>1, <1>2, <1>3, <1>4, ByTagFinds
<1>9. m # 0 BY <1>1, <1>4
<1>10. Reached(s, d) = {j} \cup ({ByTag(s, name) : name \in images[j].aliases} \ {0})
  BY <1>3, <1>7 DEF Reached
<1> HIDE DEF j
<1>11. m \in Reached(s, d) BY <1>7, <1>8, <1>9, <1>10
<1>12. images' = [i \in 1..n |-> IF i \in Reached(s, d)
                                   THEN [images[i] EXCEPT !.nodes = @ \cup {node}]
                                   ELSE images[i]]
  BY <1>1 DEF Mark, s
<1>13. images'[m] = [images[m] EXCEPT !.nodes = @ \cup {node}] BY <1>4, <1>11, <1>12
<1>14. images[m] \in Image BY <1>1, <1>4
<1> QED BY <1>13, <1>14 DEF Image

\* The places of a list rise with a relation on its elements.
SortedBy(l, B) == \A k, m \in DOMAIN l : k < m <=> <<l[k], l[m]>> \in B

LEMMA KeptSorted ==
  ASSUME NEW X, NEW l \in Seq(X), NEW S, NEW B, SortedBy(l, B)
  PROVE  SortedBy(Kept(l, S), B)
<1> DEFINE I == {k \in DOMAIN l : l[k] \in S}
           places == InOrder(I)
<1>1. I \in SUBSET Nat /\ I \subseteq 1..Len(l) /\ Len(l) \in Nat OBVIOUS
<1>2. IsFiniteSet(I) BY <1>1, FS_Interval, FS_Subset
<1>3. /\ places \in Seq(I) /\ ToSet(places) = I
      /\ \A k, m \in DOMAIN places : k < m <=> places[k] < places[m]
  BY <1>1, <1>2, InOrderIs
<1>4. Kept(l, S) = [k \in DOMAIN places |-> l[places[k]]] BY DEF Kept
<1>5. I \subseteq DOMAIN l OBVIOUS
<1> HIDE DEF places, I
<1>6. \A k \in DOMAIN places : places[k] \in DOMAIN l BY <1>3, <1>5, ListIs
<1>7. \A k, m \in DOMAIN places : places[k] < places[m] <=> <<l[places[k]], l[places[m]]>> \in B
  BY <1>6 DEF SortedBy
<1> QED BY <1>3, <1>4, <1>7 DEF SortedBy

\* The first elements of a sorted list are those with few before them.
LEMMA FirstOfSorted ==
  ASSUME NEW X, NEW l \in Seq(X), NEW n \in Nat, NEW B, SortedBy(l, B), NEW x \in ToSet(l)
  PROVE  x \in ToSet(FirstOf(l, n)) <=> Cardinality({y \in ToSet(l) : <<y, x>> \in B}) < n
<1>1. Len(l) \in Nat /\ DOMAIN l = 1..Len(l) BY ListIs
<1>2. PICK k \in 1..Len(l) : l[k] = x BY <1>1 DEF ToSet
<1>3. ASSUME NEW i \in 1..Len(l), NEW j \in 1..Len(l), l[i] = l[j] PROVE i = j
  <2>1. /\ i < j <=> <<l[i], l[j]>> \in B
        /\ j < i <=> <<l[j], l[i]>> \in B
        /\ i < i <=> <<l[i], l[i]>> \in B
    BY <1>1 DEF SortedBy
  <2>2. ~(i < i) OBVIOUS
  <2>3. ~(i < j) /\ ~(j < i) BY <2>1, <2>2, <1>3
  <2> QED BY <2>3
<1> DEFINE Y == {y \in ToSet(l) : <<y, x>> \in B}
           before == [j \in 1..(k-1) |-> l[j]]
<1>4. k - 1 \in Nat /\ \A j \in 1..(k-1) : j \in 1..Len(l) /\ j < k BY <1>1
<1>5. \A j \in 1..Len(l) : <<l[j], x>> \in B <=> j < k BY <1>1, <1>2 DEF SortedBy
<1>6. before \in Bijection(1..(k-1), Y)
  <2>1. \A j \in 1..(k-1) : l[j] \in Y BY <1>1, <1>4, <1>5 DEF ToSet
  <2>2. ASSUME NEW y \in Y PROVE \E j \in 1..(k-1) : l[j] = y
    <3>1. PICK j \in 1..Len(l) : l[j] = y BY <1>1 DEF ToSet
    <3>2. j < k BY <1>5, <3>1
    <3>3. j \in 1..(k-1) BY <1>1, <3>2
    <3> QED BY <3>1, <3>3
  <2>3. \A i, j \in 1..(k-1) : l[i] = l[j] => i = j BY <1>3, <1>4
  <2> HIDE DEF Y
  <2>4. before \in [1..(k-1) -> Y] BY <2>1
  <2>5. before \in Injection(1..(k-1), Y) BY <2>3, <2>4 DEF Injection, IsInjective
  <2>6. before \in Surjection(1..(k-1), Y) BY <2>2, <2>4 DEF Surjection
  <2> QED BY <2>5, <2>6 DEF Bijection
<1> HIDE DEF before, Y
<1>7. IsFiniteSet(1..(k-1)) /\ Cardinality(1..(k-1)) = k-1 BY <1>4, FS_Interval
<1>8. ExistsBijection(1..(k-1), Y) BY <1>6 DEF ExistsBijection
<1>9. Cardinality(Y) = k-1 BY <1>7, <1>8, FS_Bijection
<1> DEFINE m == IF n < Len(l) THEN n ELSE Len(l)
<1>10. m \in 0..Len(l) BY <1>1
<1>11. k <= m <=> k-1 < n BY <1>1
<1>12. FirstOf(l, n) = SubSeq(l, 1, m) BY DEF FirstOf
<1> HIDE DEF m
<1>13. /\ DOMAIN SubSeq(l, 1, m) = 1..m
       /\ \A j \in 1..m : SubSeq(l, 1, m)[j] = l[j] /\ j \in 1..Len(l)
  BY <1>1, <1>10
<1>14. x \in ToSet(FirstOf(l, n)) <=> k \in 1..m
  <2>1. ToSet(FirstOf(l, n)) = {SubSeq(l, 1, m)[j] : j \in 1..m} BY <1>12, <1>13 DEF ToSet
  <2>2. ASSUME x \in ToSet(FirstOf(l, n)) PROVE k \in 1..m
    <3>1. PICK j \in 1..m : SubSeq(l, 1, m)[j] = x BY <2>1, <2>2
    <3>2. l[j] = l[k] /\ j \in 1..Len(l) BY <1>2, <1>13, <3>1
    <3>3. j = k BY <1>3, <3>2
    <3> QED BY <3>3
  <2>3. ASSUME k \in 1..m PROVE x \in ToSet(FirstOf(l, n))
    <3>1. SubSeq(l, 1, m)[k] = x BY <1>2, <1>13, <2>3
    <3> QED BY <2>1, <2>3, <3>1
  <2> QED BY <2>2, <2>3
<1>15. k \in 1..m <=> k <= m BY <1>1, <1>10
<1> QED BY <1>9, <1>11, <1>14, <1>15 DEF Y

\* The places of the tags of a type that are for no architecture.
Ordinary(tags, type) == OfType(tags, type) \cap Generics(tags)
Newest(tags, type, n) ==
    {k \in Ordinary(tags, type) :
       Cardinality({j \in Ordinary(tags, type) : Before(tags, j, k)}) < n}

LEMMA FirstTagsAre ==
  ASSUME NEW tags \in TagList, NEW type, NEW n \in Nat
  PROVE  /\ FirstTags(tags, type, n, TRUE) \in Seq(DOMAIN tags)
         /\ ToSet(FirstTags(tags, type, n, TRUE)) = Newest(tags, type, n)
<1> DEFINE I == OfType(tags, type)
           B == {p \in (DOMAIN tags) \X (DOMAIN tags) : Before(tags, p[1], p[2])}
           l == ByType(tags, type)
           q == Kept(l, Generics(tags))
           o == Ordinary(tags, type)
<1>1. l \in Seq(DOMAIN tags) /\ ToSet(l) = I BY ByTypeIs
<1>2. I \in SUBSET DOMAIN tags /\ l = SortReverse(tags, I) BY DEF OfType, ByType
<1>3. \A k, m \in DOMAIN tags : <<k, m>> \in B <=> Before(tags, k, m) OBVIOUS
<1>4. FirstTags(tags, type, n, TRUE) = FirstOf(q, n) BY DEF FirstTags
<1>5. o = I \cap Generics(tags) /\ o \subseteq DOMAIN tags BY <1>2 DEF Ordinary
<1> HIDE DEF I, B, l
<1>6. \A k, m \in DOMAIN l : k < m <=> Before(tags, l[k], l[m]) BY <1>2, SortReverseIs, Zenon
<1>7. \A k \in DOMAIN l : l[k] \in DOMAIN tags BY <1>1, ListIs
<1>8. SortedBy(l, B) BY <1>3, <1>6, <1>7 DEF SortedBy
<1>9. q \in Seq(DOMAIN tags) /\ ToSet(q) = o BY <1>1, <1>5, KeptIs
<1>10. SortedBy(q, B) BY <1>1, <1>8, KeptSorted
<1> HIDE DEF q, o
<1>11. FirstOf(q, n) \in Seq(DOMAIN tags) /\ ToSet(FirstOf(q, n)) \subseteq o
  BY <1>9, FirstOfIs
<1>12. ASSUME NEW k \in o
       PROVE  k \in ToSet(FirstOf(q, n)) <=> Cardinality({j \in o : Before(tags, j, k)}) < n
  <2>1. k \in ToSet(FirstOf(q, n)) <=> Cardinality({j \in ToSet(q) : <<j, k>> \in B}) < n
    BY <1>9, <1>10, FirstOfSorted
  <2>2. {j \in ToSet(q) : <<j, k>> \in B} = {j \in o : Before(tags, j, k)}
    BY <1>3, <1>5, <1>9
  <2> QED BY <2>1, <2>2
<1>13. ToSet(FirstOf(q, n)) = {k \in o : Cardinality({j \in o : Before(tags, j, k)}) < n}
  BY <1>11, <1>12
<1> QED BY <1>4, <1>11, <1>13 DEF Newest, o

LEMMA IncludedAre ==
  ASSUME NEW tags \in TagList, NEW include,
         \A i, j \in DOMAIN tags : tags[i].name = tags[j].name => i = j
  PROVE  /\ Included(tags, include) \in Seq(DOMAIN tags)
         /\ ToSet(Included(tags, include)) = {k \in DOMAIN tags : tags[k].name \in include}
<1> DEFINE I == {Named(tags, name) : name \in include} \ {0}
<1>1. ASSUME NEW name
      PROVE  /\ Named(tags, name) # 0 =>
                  Named(tags, name) \in DOMAIN tags /\ tags[Named(tags, name)].name = name
             /\ Named(tags, name) = 0 => \A i \in DOMAIN tags : tags[i].name # name
  <2> DEFINE found == {i \in DOMAIN tags : tags[i].name = name}
  <2>1. IF found = {} THEN Named(tags, name) = 0 ELSE Named(tags, name) \in found
    BY NamedIs DEF TagList
  <2>2. 0 \notin DOMAIN tags BY DEF TagList
  <2> QED BY <2>1, <2>2
<1>2. I \in SUBSET DOMAIN tags BY <1>1
<1>3. Included(tags, include) = SetToSeq(I) BY DEF Included
<1>4. I = {k \in DOMAIN tags : tags[k].name \in include}
  <2>1. ASSUME NEW k \in DOMAIN tags, tags[k].name \in include PROVE k \in I
    <3> DEFINE i == Named(tags, tags[k].name)
    <3>1. i # 0 BY <1>1
    <3>2. i = k BY <1>1, <3>1
    <3> QED BY <2>1, <3>1, <3>2
  <2>2. ASSUME NEW k \in I PROVE k \in DOMAIN tags /\ tags[k].name \in include
    BY <1>1
  <2> QED BY <2>1, <2>2
<1> HIDE DEF I
<1>5. IsFiniteSet(I) BY <1>2, PlacesFinite DEF TagList
<1>6. SetToSeq(I) \in Seq(I) /\ ToSet(SetToSeq(I)) = I BY <1>5, SetToSeqIs
<1>7. SetToSeq(I) \in Seq(DOMAIN tags) BY <1>2, <1>6, Widened
<1> QED BY <1>3, <1>4, <1>6, <1>7

\* What the limits ask for.
LEMMA SubsetIs ==
  ASSUME NEW tags \in TagList,
         NEW limit \in [releases : Nat, weeklies : Nat, dailies : Nat, include : SUBSET Nat],
         \A i, j \in DOMAIN tags : tags[i].name = tags[j].name => i = j
  PROVE  ToSet(Subset(tags, limit, limit.include, TRUE)) =
            Newest(tags, "release", limit.releases) \cup Newest(tags, "weekly", limit.weeklies)
              \cup Newest(tags, "daily", limit.dailies)
              \cup {k \in DOMAIN tags : tags[k].name \in limit.include}
<1> DEFINE r == FirstTags(tags, "release", limit.releases, TRUE)
           w == FirstTags(tags, "weekly", limit.weeklies, TRUE)
           d == FirstTags(tags, "daily", limit.dailies, TRUE)
           v == Included(tags, limit.include)
<1>1. limit.releases \in Nat /\ limit.weeklies \in Nat /\ limit.dailies \in Nat OBVIOUS
<1>2. /\ r \in Seq(DOMAIN tags) /\ ToSet(r) = Newest(tags, "release", limit.releases)
      /\ w \in Seq(DOMAIN tags) /\ ToSet(w) = Newest(tags, "weekly", limit.weeklies)
      /\ d \in Seq(DOMAIN tags) /\ ToSet(d) = Newest(tags, "daily", limit.dailies)
  BY <1>1, FirstTagsAre
<1>3. v \in Seq(DOMAIN tags) /\ ToSet(v) = {k \in DOMAIN tags : tags[k].name \in limit.include}
  BY IncludedAre
<1>4. Subset(tags, limit, limit.include, TRUE) = r \o w \o d \o v BY DEF Subset
<1> HIDE DEF r, w, d, v
<1> DEFINE rw == r \o w
<1>5. rw \in Seq(DOMAIN tags) /\ ToSet(rw) = ToSet(r) \cup ToSet(w) BY <1>2, Concatenated
<1> DEFINE rwd == rw \o d
<1>6. rwd = r \o w \o d OBVIOUS
<1> HIDE DEF rw
<1>7. rwd \in Seq(DOMAIN tags) /\ ToSet(rwd) = ToSet(rw) \cup ToSet(d)
  BY <1>2, <1>5, Concatenated
<1> HIDE DEF rwd
<1>8. ToSet(rwd \o v) = ToSet(rwd) \cup ToSet(v) BY <1>3, <1>7, Concatenated
<1>9. Subset(tags, limit, limit.include, TRUE) = rwd \o v BY <1>4, <1>6
<1> QED BY <1>2, <1>3, <1>5, <1>7, <1>8, <1>9

\* Of one tag: whether it is among the newest of its type.
LEMMA NewestFit ==
  ASSUME NEW tags \in TagList, NEW k \in DOMAIN tags,
         NEW limit \in [releases : Nat, weeklies : Nat, dailies : Nat, include : SUBSET Nat]
  PROVE  LET t == tags[k]
             newer == {j \in DOMAIN tags :
                         /\ tags[j].type = t.type /\ Generic(tags[j])
                         /\ \/ Compare(tags[j], t) = 1
                            \/ Compare(tags[j], t) = 0 /\ j < k}
             room == CASE t.type = "release" -> limit.releases
                       [] t.type = "weekly" -> limit.weeklies
                       [] t.type = "daily" -> limit.dailies
                       [] OTHER -> 0
         IN k \in Newest(tags, "release", limit.releases) \cup Newest(tags, "weekly", limit.weeklies)
                    \cup Newest(tags, "daily", limit.dailies)
            <=> Generic(t) /\ Cardinality(newer) < room
<1> DEFINE t == tags[k]
           type == t.type
           newer == {j \in DOMAIN tags :
                       /\ tags[j].type = t.type /\ Generic(tags[j])
                       /\ \/ Compare(tags[j], t) = 1
                          \/ Compare(tags[j], t) = 0 /\ j < k}
           room == CASE type = "release" -> limit.releases
                     [] type = "weekly" -> limit.weeklies
                     [] type = "daily" -> limit.dailies
                     [] OTHER -> 0
<1>1. {j \in Ordinary(tags, type) : Before(tags, j, k)} = newer
  BY DEF Ordinary, OfType, Generics, Before
<1>2. \A x : k \in Ordinary(tags, x) <=> type = x /\ Generic(t)
  BY DEF Ordinary, OfType, Generics
<1>3. newer \in SUBSET DOMAIN tags OBVIOUS
<1> HIDE DEF newer
<1>4. Cardinality(newer) \in Nat BY <1>3, PlacesFinite, FS_CardinalityType DEF TagList
<1>5. \A x, n : k \in Newest(tags, x, n) <=> type = x /\ Generic(t) /\ Cardinality(newer) < n
  BY <1>1, <1>2 DEF Newest
<1> DEFINE c == Cardinality(newer)
<1> HIDE DEF t, type, c
<1>6. k \in Newest(tags, "release", limit.releases) \cup Newest(tags, "weekly", limit.weeklies)
              \cup Newest(tags, "daily", limit.dailies)
      <=> Generic(t) /\ \/ type = "release" /\ c < limit.releases
                        \/ type = "weekly" /\ c < limit.weeklies
                        \/ type = "daily" /\ c < limit.dailies
  BY <1>5 DEF c
<1>7. c < room <=> \/ type = "release" /\ c < limit.releases
                   \/ type = "weekly" /\ c < limit.weeklies
                   \/ type = "daily" /\ c < limit.dailies
  <2>1. CASE type = "release" BY <2>1
  <2>2. CASE type = "weekly" BY <2>2
  <2>3. CASE type = "daily" BY <2>3
  <2>4. CASE type \notin {"release", "weekly", "daily"}
    <3>1. room = 0 BY <2>4
    <3>2. ~(c < 0) BY <1>4 DEF c
    <3> QED BY <2>4, <3>1, <3>2
  <2> QED BY <2>1, <2>2, <2>3, <2>4
<1> QED BY <1>6, <1>7 DEF c, newer, type, t

\* The subset has the images that the limits ask for.
LEMMA SubsetHas ==
  ASSUME CollectionInv, NEW limit \in Limits, TakeSubset(limit),
         NEW k \in DOMAIN TagsOf(Store(full))
  PROVE  LET tags == TagsOf(Store(full)) IN
         full.members[k] \in Members(subset') <=>
            \/ tags[k].name \in limit.include
            \/ k \in Newest(tags, "release", limit.releases)
                       \cup Newest(tags, "weekly", limit.weeklies)
                       \cup Newest(tags, "daily", limit.dailies)
<1> DEFINE n == Len(images)
           s == Store(full)
           tags == TagsOf(s)
           members == SubsetMembers(s, limit)
           r == Replace(images, members)
           chosen == ToSet(Subset(tags, limit, limit.include, TRUE))
<1>1. /\ images \in Albums(n) /\ n \in Nat /\ DOMAIN images = 1..n /\ Fitting(full, images)
      /\ Unique(images)
      /\ \A i, m \in DOMAIN full.members : full.members[i] = full.members[m] => i = m
  BY DEF CollectionInv, Albums, TakeSubset, Ids
<1>2. subset' = Collection(r) BY DEF TakeSubset
<1>3. s \in Stores(n) BY <1>1 DEF Fitting, Store
<1>4. members \in Seq(1..n) /\ ToSet(members) = {s.members[i] : i \in chosen}
  BY <1>3, SubsetMembersAre
<1>5. s.images = images /\ s.members = full.members BY StoreOfIs DEF Store
<1> HIDE DEF members, s, n
<1>6. Replaced(r, images, members, n) BY <1>1, <1>4, ReplaceIs
<1> HIDE DEF r
<1>7. subset'.members = members BY <1>2, <1>6, CollectionIs DEF Replaced
<1>8. Members(subset') = ToSet(members) BY <1>7 DEF Members, ToSet
<1>9. /\ tags \in TagList /\ DOMAIN tags = DOMAIN full.members
      /\ \A i \in DOMAIN full.members : /\ full.members[i] \in 1..n
                                        /\ tags[i] = images[full.members[i]].tag
  BY <1>3, <1>5, TagsOfIs DEF TagList
<1>10. k \in DOMAIN tags BY DEF s
<1> HIDE DEF tags
<1>11. \A i, j \in DOMAIN tags : tags[i].name = tags[j].name => i = j
  BY <1>1, <1>9 DEF Unique
<1>12. limit \in [releases : Nat, weeklies : Nat, dailies : Nat, include : SUBSET Nat]
  BY CollectionAssumption
<1>13. chosen = Newest(tags, "release", limit.releases)
                  \cup Newest(tags, "weekly", limit.weeklies)
                  \cup Newest(tags, "daily", limit.dailies)
                  \cup {i \in DOMAIN tags : tags[i].name \in limit.include}
  BY <1>9, <1>11, <1>12, SubsetIs
<1>14. \A x, m : Newest(tags, x, m) \subseteq DOMAIN tags BY DEF Newest, Ordinary, OfType
<1>15. chosen \subseteq DOMAIN full.members BY <1>9, <1>13, <1>14
<1> HIDE DEF chosen
<1>16. full.members[k] \in Members(subset') <=> k \in chosen
  BY <1>1, <1>4, <1>5, <1>8, <1>9, <1>10, <1>15
<1> QED BY <1>10, <1>13, <1>16 DEF tags, s

\* A mark reaches every image of its digest, whichever tag it was found under
\* (mark_image_seen_on_node), and the subset to prepull has the newest tags of
\* each type, as many as configured, and the tags included anyway (subset,
\* _subset_to_prepull): the loops and the lists take no more and no less.
THEOREM StepsAreExact == ManagerSpec => StepsExact
<1>1. CollectionInv =>
        [\A d \in Digests, n \in Nodes : Mark(d, n) =>
           \A m \in Members(full) \cup Members(subset) :
              images[m].digest = d => n \in images'[m].nodes]_collectionVars
  BY MarkReaches
<1>2. CollectionInv =>
        \A l \in Limits : TakeSubset(l) =>
          LET tags == TagsOf(Store(full)) IN
          \A k \in DOMAIN tags :
            LET t == tags[k]
                newer == {j \in DOMAIN tags :
                            /\ tags[j].type = t.type /\ Generic(tags[j])
                            /\ \/ Compare(tags[j], t) = 1
                               \/ Compare(tags[j], t) = 0 /\ j < k}
                room == CASE t.type = "release" -> l.releases
                          [] t.type = "weekly" -> l.weeklies
                          [] t.type = "daily" -> l.dailies
                          [] OTHER -> 0
            IN full.members[k] \in Members(subset') <=>
                  \/ t.name \in l.include
                  \/ Generic(t) /\ Cardinality(newer) < room
  <2> SUFFICES ASSUME CollectionInv, NEW l \in Limits, TakeSubset(l),
                      NEW k \in DOMAIN TagsOf(Store(full))
      PROVE LET tags == TagsOf(Store(full))
                t == tags[k]
                newer == {j \in DOMAIN tags :
                            /\ tags[j].type = t.type /\ Generic(tags[j])
                            /\ \/ Compare(tags[j], t) = 1
                               \/ Compare(tags[j], t) = 0 /\ j < k}
                room == CASE t.type = "release" -> l.releases
                          [] t.type = "weekly" -> l.weeklies
                          [] t.type = "daily" -> l.dailies
                          [] OTHER -> 0
            IN full.members[k] \in Members(subset') <=>
                  \/ t.name \in l.include
                  \/ Generic(t) /\ Cardinality(newer) < room
    OBVIOUS
  <2>1. TagsOf(Store(full)) \in TagList
    <3>1. Store(full) \in Stores(Len(images)) BY DEF CollectionInv, Fitting, Store
    <3> QED BY <3>1, TagsOfIs DEF TagList
  <2>2. l \in [releases : Nat, weeklies : Nat, dailies : Nat, include : SUBSET Nat]
    BY CollectionAssumption
  <2> QED BY <2>1, <2>2, SubsetHas, NewestFit
<1>3. ManagerSpec => MarksReachEveryTag BY <1>1, CollectionIsConsistent, PTL DEF MarksReachEveryTag
<1>4. ManagerSpec => SubsetIsNewest BY <1>2, CollectionIsConsistent, PTL DEF SubsetIsNewest
<1> QED BY <1>3, <1>4 DEF StepsExact
=============================================================================
