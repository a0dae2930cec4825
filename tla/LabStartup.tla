----------------------------- MODULE LabStartup -----------------------------
(***************************************************************************)
(* The init containers of a lab pod, which run one after the other on the  *)
(* user's home directory before the lab starts: inithome creates the       *)
(* directory, landingpage copies the tutorial page of a "science" site,    *)
(* and startup merges the site's files with the user's and leaves the      *)
(* environment of the lab in env.json and args.json.                       *)
(*                                                                         *)
(* The home directory outlives the pod, the containers do not: a write may *)
(* fail half way (quota), a container may be killed at any time, and the   *)
(* pod's restart policy OnFailure then runs the same container again.      *)
(* What matters is whether the user's own data survives all this, and      *)
(* whether the lab always comes up.                                        *)
(*                                                                         *)
(* A file is the set of its parts: what the user put there, what the site  *)
(* requires, or an outdated form of that.  No part: there is no file.  A   *)
(* write that stops half way leaves a fragment of a file, which the code   *)
(* that reads it next may or may not be able to take.                      *)
(***************************************************************************)
EXTENDS Integers, FiniteSets

CONSTANTS
    Initially,  \* the contents of the files before the first start
    MaxFaults,  \* bound: failed writes and killed containers
    MaxStarts   \* bound: pods

\* "own": what the user has where the site has nothing; "clash": what the user has
\* next to the site's, in a section of the credentials, as the password of a
\* connection or under a key of dask's; "site": what the site requires; "old": an
\* earlier form of that; "short": a fragment that reads like a shorter file;
\* "torn": one of YAML that does not parse; "odd": one, or a file of the user's, of
\* which reading makes an error that nothing catches.  Settings and viewer are JSON
\* files of JupyterLab.
Users == {"own", "clash"}
Whole == Users \cup {"site", "old"}
Fragments == {"short", "torn"}
Parts == Whole \cup Fragments \cup {"odd"}
Dask == {"dashboard", "other"}
Files == Dask \cup {"credentials", "settings", "viewer", "profile", "skel",
                    "gitconfig", "setups"}

ASSUME InitiallyAssumption == Initially \subseteq [Files -> SUBSET (Whole \cup {"odd"})]
ASSUME BoundsAssumption == MaxFaults \in Nat /\ MaxStarts \in Nat \ {0}

VARIABLES
    owner,   \* of the home directory: "absent", "root" or "user"
    files,   \* the contents of the home directory
    moved,   \* what of the user's is in .user_env directories
    backup,  \* <name>.yaml.<date>: what dask configuration was moved to
    pod,     \* this start: where it is and what it does
    faults,  \* how many things have gone wrong
    owned,   \* history: what the user had in the files at first
    lost     \* history: the files a write of which stopped half way

vars == <<owner, files, moved, backup, pod, faults, owned, lost>>
disk == <<owner, files, moved, backup>>

\* What is in the directories .config and .jupyter, which a reset of the
\* environment moves in this order.
Dirs == <<Dask, {"settings", "viewer"}>>

Gone(d) == \A f \in Dirs[d] : files[f] = {}

(***************************************************************************)
(* A pod: the step it is at, whether RESET_USER_ENV is set, whether the    *)
(* directory of this relocation exists, the dask files still to be looked  *)
(* at and whether the last one was good, whether a scratch directory was   *)
(* found, whether startup is abnormal, and what the lab is told: its home  *)
(* directory, and where the page that explains the failure was put.        *)
(***************************************************************************)
NewPod(reset, n) ==
    [at |-> "inithome", reset |-> reset, start |-> n, reloc |-> FALSE,
     dask |-> {}, good |-> FALSE, scratch |-> FALSE, abnormal |-> FALSE,
     home |-> "none", welcome |-> "none"]

Init ==
    /\ files \in Initially
    /\ owner \in {"absent", "root", "user"}
    /\ owner = "absent" => \A f \in Files : files[f] = {}
    /\ moved = [f \in Files |-> {}]
    /\ backup = [f \in Dask |-> {}]
    /\ \E reset \in BOOLEAN : pod = NewPod(reset, 1)
    /\ faults = 0
    /\ owned = [f \in Files |-> files[f] \cap Users]
    /\ lost = {}

\* A container that is killed or fails runs again from its beginning, in the
\* same pod and on the same home directory.
Restarted ==
    CASE pod.at \in {"inithome", "chown"} -> NewPod(pod.reset, pod.start)
      [] pod.at \in {"landing", "viewer"} ->
            [NewPod(pod.reset, pod.start) EXCEPT !.at = "landing"]
      [] OTHER -> [NewPod(pod.reset, pod.start) EXCEPT !.at = "startup"]

At(step) == pod.at = step
Goto(step) == [pod EXCEPT !.at = step]

\* _set_abnormal_startup: the rest of this try block is skipped.
Abnormal(step) == [pod EXCEPT !.at = step, !.abnormal = TRUE]

\* Something goes wrong here, which the bound allows.
Fault == faults < MaxFaults /\ faults' = faults + 1

\* What may be left of a file by a write that stops: every fragment of a JSON
\* object is odd, and what is never parsed is not.
Cut(f) ==
    CASE f \in {"settings", "viewer"} -> {"odd"}
      [] f \in Dask -> {"short", "torn", "odd"}
      [] f = "credentials" -> {"short", "odd"}
      [] OTHER -> {"short"}

(***************************************************************************)
(* Write new contents to file f with open("w") or write_text, which empty  *)
(* the file first.  It may fail before or after that, which leads to       *)
(* failed, or the container may be killed in the middle of it.             *)
(***************************************************************************)
Write(f, new, done, failed) ==
    \/ /\ files' = [files EXCEPT ![f] = new]
       /\ pod' = done
       /\ UNCHANGED <<faults, lost>>
    \/ /\ Fault
       /\ pod' = failed
       /\ UNCHANGED <<files, lost>>
    \/ /\ Fault
       /\ \E cut \in Cut(f) : files' = [files EXCEPT ![f] = {cut}]
       /\ lost' = lost \cup {f}
       /\ pod' \in {failed, Restarted}

MergedOverwrites(content) == {"site"}

\* The file with what the site requires for whole sections, connections or keys:
\* what the user has elsewhere stays, what they have there goes.
Merged(content) == (content \ ({"clash", "old"} \cup Fragments)) \cup {"site"}

\* The file with one value of the site's in place of an earlier one.
Amended(content) == (content \ ({"old"} \cup Fragments)) \cup {"site"}

\* A container fails: an exception that nothing catches.
Fails == pod' = Restarted /\ UNCHANGED <<files, faults, lost>>

\* ------------------------------------------------------------------------
\* inithome (as root)

\* mkdir, and chown as a step of its own: the container may die in between.
MakeHome ==
    /\ At("inithome") /\ owner = "absent"
    /\ owner' = "root"
    /\ pod' = Goto("chown")
    /\ UNCHANGED <<files, moved, backup, faults, owned, lost>>

Chown ==
    /\ At("chown")
    /\ owner' = "user"
    /\ pod' = Goto("landing")
    /\ UNCHANGED <<files, moved, backup, faults, owned, lost>>

Empty == \A f \in Files : files[f] = {}

\* A directory of somebody else is taken over if it is empty; if it is not,
\* InvalidHomeError ends the container, which is started again, and again.
MayTakeOver == owner = "root" /\ Empty

CheckHome ==
    /\ At("inithome") /\ owner # "absent"
    /\ IF owner = "user" \/ MayTakeOver
       THEN owner' = "user" /\ pod' = Goto("landing")
       ELSE UNCHANGED <<owner, pod>>
    /\ UNCHANGED <<files, moved, backup, faults, owned, lost>>

\* ------------------------------------------------------------------------
\* landingpage: no exception leaves it, whatever fails the next container runs

\* _copy_files: each page is removed and copied again.  The pages belong to
\* the site; they are not among the files of the model.
CopyPages ==
    /\ At("landing")
    /\ \/ pod' = Goto("viewer") /\ UNCHANGED faults
       \/ pod' = Goto("startup") /\ Fault
    /\ UNCHANGED <<disk, owned, lost>>

PageFailedRestarts == Goto("landing")

\* Where an exception of the landing page provisioner leads.
PageFailed == Goto("startup")

\* _edit_settings: settings that are not JSON raise, and a choice of the user
\* stays.
EditViewer ==
    /\ At("viewer")
    /\ IF "odd" \in files["viewer"]
       THEN pod' = PageFailed /\ UNCHANGED <<files, faults, lost>>
       ELSE IF "site" \in files["viewer"]
       THEN pod' = Goto("startup") /\ UNCHANGED <<files, faults, lost>>
       ELSE Write("viewer", Amended(files["viewer"]), Goto("startup"), PageFailed)
    /\ UNCHANGED <<owner, moved, backup, owned>>

\* ------------------------------------------------------------------------
\* startup: Preparer.prepare

\* _relocate_user_environment_if_requested: one directory after the other.
RelocateDir ==
    /\ At("startup") /\ pod.reset
    /\ \E d \in DOMAIN Dirs :
         /\ ~Gone(d) /\ \A e \in 1..d - 1 : Gone(e)
         /\ \/ /\ files' = [f \in Files |-> IF f \in Dirs[d] THEN {} ELSE files[f]]
               /\ moved' = [f \in Files |-> IF f \in Dirs[d] THEN moved[f] \cup (files[f] \cap Users)
                                            ELSE moved[f]]
               /\ pod' = [pod EXCEPT !.reloc = TRUE]
               /\ UNCHANGED faults
            \/ /\ Fault
               /\ pod' = Abnormal("tidy")
               /\ UNCHANGED <<files, moved>>
    /\ UNCHANGED <<owner, backup, owned, lost>>

\* The user's setups follow.  Their new directory is made without its parents,
\* which fails if this run has moved no directory: neither those of the model
\* nor one of the others (.cache, .conda, .eups, .local).
RelocateSetups ==
    /\ At("startup")
    /\ pod.reset => \A d \in DOMAIN Dirs : Gone(d)
    /\ IF ~pod.reset \/ files["setups"] = {}
       THEN pod' = Goto("env") /\ UNCHANGED <<files, moved, faults>>
       ELSE \/ /\ files' = [files EXCEPT !["setups"] = {}]
               /\ moved' = [moved EXCEPT !["setups"] = @ \cup (files["setups"] \cap Users)]
               /\ pod' = Goto("env")
               /\ UNCHANGED faults
            \/ /\ ~pod.reloc
               /\ pod' = Abnormal("tidy")
               /\ UNCHANGED <<files, moved, faults>>
            \/ /\ Fault
               /\ pod' = Abnormal("tidy")
               /\ UNCHANGED <<files, moved>>
    /\ UNCHANGED <<owner, backup, owned, lost>>

\* configure_env: of what it sets, only the scratch directory, which may be
\* unusable or missing, matters later.
ConfigureEnv ==
    /\ At("env")
    /\ \E scratch \in BOOLEAN :
         \/ pod' = [Goto("tidy") EXCEPT !.scratch = scratch] /\ UNCHANGED faults
         \/ pod' = [Abnormal("tidy") EXCEPT !.scratch = scratch] /\ Fault
    /\ UNCHANGED <<disk, owned, lost>>

\* What follows tidy_homedir: the copies only if nothing is broken.
AfterTidy(p) == [p EXCEPT !.at = IF p.abnormal THEN "report" ELSE "credentials"]

\* tidy_homedir: write a megabyte.  If that fails, the caches are removed and
\* it is tried again; only if that fails too is startup abnormal.
TestSpace ==
    /\ At("tidy")
    /\ \/ pod' = AfterTidy(pod) /\ UNCHANGED faults
       \/ /\ Fault
          /\ pod' \in {AfterTidy(pod), AfterTidy(Abnormal("tidy"))}
    /\ UNCHANGED <<disk, owned, lost>>

\* copy_butler_credentials: a file that is no configuration raises an error of
\* configparser's, which prepare does not catch.
MergeCredentials ==
    /\ At("credentials")
    /\ IF "odd" \in files["credentials"]
       THEN Fails
       ELSE Write("credentials", Merged(files["credentials"]),
                  [Goto("dask") EXCEPT !.dask = {f \in Dask : files[f] # {}}],
                  Abnormal("report"))
    /\ UNCHANGED <<owner, moved, backup, owned>>

LinkGoodFirst(isGood) == TRUE

\* Whether the configuration has a good link so far, once a file that says
\* isGood was looked at: the variable holds the answer of the last file.
LinkGood(isGood) == isGood

Looked(f, good) ==
    [pod EXCEPT !.dask = @ \ {f}, !.good = good]

(***************************************************************************)
(* _tidy_extant_config: the files in any order.  One that is no mapping, or *)
(* has a string where the link is looked for, raises what nothing catches; *)
(* one that does not parse, or is empty, as a short one may be, is moved   *)
(* aside; one with the old link is copied aside and rewritten, where a     *)
(* failure only counts as not good; of the others only their link is       *)
(* asked.  An existing backup of the same day is overwritten.              *)
(***************************************************************************)
TidyDask ==
    /\ At("dask")
    /\ \E f \in pod.dask :
         \/ "odd" \in files[f] /\ Fails /\ UNCHANGED backup
         \/ /\ files[f] \cap Fragments # {}
            /\ \/ /\ files' = [files EXCEPT ![f] = {}]
                  /\ backup' = [backup EXCEPT ![f] = files[f]]
                  /\ pod' = Looked(f, pod.good)
                  /\ UNCHANGED <<faults, lost>>
               \/ /\ Fault
                  /\ pod' = Abnormal("report")
                  /\ UNCHANGED <<files, backup, lost>>
               \/ /\ "short" \in files[f]
                  /\ \E isGood \in BOOLEAN : pod' = Looked(f, LinkGood(isGood))
                  /\ UNCHANGED <<files, backup, faults, lost>>
         \/ /\ "old" \in files[f] /\ "odd" \notin files[f]
            /\ \/ /\ backup' = [backup EXCEPT ![f] = files[f]]
                  /\ Write(f, Amended(files[f]), Looked(f, LinkGood(TRUE)),
                           Looked(f, LinkGood(FALSE)))
               \/ /\ Fault
                  /\ pod' = Looked(f, LinkGood(FALSE))
                  /\ UNCHANGED <<files, backup, lost>>
         \/ /\ files[f] \subseteq Users \cup {"site"}
            /\ pod' = Looked(f, LinkGood("site" \in files[f]))
            /\ UNCHANGED <<files, backup, faults, lost>>
    /\ UNCHANGED <<owner, moved, owned>>

\* _inject_new_proxy: write the link to dashboard.yaml under its top-level key,
\* all of which it replaces; a failure to write is only logged.  A file that does
\* not load, torn by the rewriting just before, leaves obj unbound, which is an
\* error in the handler of that very error.  A new directory may not be made.
InjectProxy ==
    /\ At("dask") /\ pod.dask = {}
    /\ IF pod.good \/ files["dashboard"] = {"site"}
       THEN pod' = Goto("gitlfs") /\ UNCHANGED <<files, faults, lost>>
       ELSE \/ /\ files["dashboard"] \cap {"torn", "odd"} = {}
               /\ Write("dashboard", Merged(files["dashboard"]), Goto("gitlfs"), Goto("gitlfs"))
            \/ files["dashboard"] \cap {"torn", "odd"} # {} /\ Fails
            \/ /\ \A f \in Dask : files[f] = {}
               /\ Fault /\ pod' = Abnormal("report") /\ UNCHANGED <<files, lost>>
    /\ UNCHANGED <<owner, moved, backup, owned>>

\* _setup_gitlfs: git replaces .gitconfig as a whole; its failure is ignored,
\* a missing git is an OSError.
SetupGitLfs ==
    /\ At("gitlfs")
    /\ \/ /\ files' = [files EXCEPT !["gitconfig"] = Amended(@)]
          /\ pod' = Goto("profile")
          /\ UNCHANGED faults
       \/ /\ Fault
          /\ pod' \in {Goto("profile"), Abnormal("report")}
          /\ UNCHANGED files
    /\ UNCHANGED <<owner, moved, backup, owned, lost>>

\* A logging profile is replaced only if there is none or it is one of the
\* earlier versions; a modified one, and one torn by a failure, stays.
MayReplace(content) == content = {} \/ content = {"old"}

CopyProfile ==
    /\ At("profile")
    /\ IF MayReplace(files["profile"])
       THEN Write("profile", {"site"}, Goto("skel"), Abnormal("report"))
       ELSE pod' = Goto("skel") /\ UNCHANGED <<files, faults, lost>>
    /\ UNCHANGED <<owner, moved, backup, owned>>

\* _copy_dircolors, _copy_etc_skel: what exists is left alone.
CopySkel ==
    /\ At("skel")
    /\ IF files["skel"] = {}
       THEN Write("skel", {"site"}, Goto("settings"), Abnormal("report"))
       ELSE pod' = Goto("settings") /\ UNCHANGED <<files, faults, lost>>
    /\ UNCHANGED <<owner, moved, backup, owned>>

\* _increase_log_limit: settings that are not JSON raise ValueError, which is
\* no OSError: prepare does not catch it and the container fails.
IncreaseLogLimit ==
    /\ At("settings")
    /\ IF "odd" \in files["settings"]
       THEN Fails
       ELSE IF "site" \in files["settings"]
       THEN pod' = Goto("report") /\ UNCHANGED <<files, faults, lost>>
       ELSE Write("settings", Amended(files["settings"]), Goto("report"),
                  Abnormal("report"))
    /\ UNCHANGED <<owner, moved, backup, owned>>

\* _write_lab_startup_files: an abnormal lab gets a home directory elsewhere
\* and a page that explains why.  The page goes to the SCRATCH_DIR of this
\* process, which has none; the home directory is that of the environment.
StartupHome ==
    IF ~pod.abnormal THEN "home" ELSE IF pod.scratch THEN "scratch" ELSE "tmp"

WriteStartupFiles ==
    /\ At("report")
    /\ \/ /\ pod' = [Goto("lab") EXCEPT !.home = StartupHome,
                       !.welcome = IF pod.abnormal THEN "tmp" ELSE "none"]
          /\ UNCHANGED faults
       \/ pod' = Goto("lab") /\ Fault
    /\ UNCHANGED <<disk, owned, lost>>

\* ------------------------------------------------------------------------
\* The world

\* A container is killed between two steps.
Killed ==
    /\ ~At("lab") /\ Restarted # pod
    /\ Fault
    /\ pod' = Restarted
    /\ UNCHANGED <<disk, owned, lost>>

\* The user deletes the lab, running or not, and starts another.
NextLab ==
    /\ pod.start < MaxStarts
    /\ \E reset \in BOOLEAN : pod' = NewPod(reset, pod.start + 1)
    /\ UNCHANGED <<disk, faults, owned, lost>>

Containers ==
    \/ MakeHome \/ Chown \/ CheckHome \/ CopyPages \/ EditViewer
    \/ RelocateDir \/ RelocateSetups \/ ConfigureEnv \/ TestSpace
    \/ MergeCredentials \/ TidyDask \/ InjectProxy \/ SetupGitLfs
    \/ CopyProfile \/ CopySkel \/ IncreaseLogLimit \/ WriteStartupFiles

Next == Containers \/ Killed \/ NextLab

\* A container that was started runs; nobody has to kill it or start another.
Spec == Init /\ [][Next]_vars /\ WF_vars(Containers)

\* ------------------------------------------------------------------------
\* Properties

\* Every variable has its type, and init containers run on a home directory
\* of the user's: once inithome is over, the directory is theirs (the chown
\* that a killed inithome did not get to included).
TypeOK ==
    /\ owner \in {"absent", "root", "user"}
    /\ files \in [Files -> SUBSET Parts]
    /\ \A f \in Files : files[f] \cap Fragments # {} => \E cut \in Fragments : files[f] = {cut}
    /\ moved \in [Files -> SUBSET Users]
    /\ backup \in [Dask -> SUBSET Parts]
    /\ faults \in 0..MaxFaults
    /\ lost \subseteq Files /\ owned \in [Files -> SUBSET Users]
    /\ pod.start \in 1..MaxStarts
    /\ pod.at \notin {"inithome", "chown"} => owner = "user"

\* What the user had in a file where the site has nothing is there, in a .user_env
\* directory or in the dated copy of it, after any number of starts, resets, kills
\* and containers that fail, unless a write of that very file stopped half way:
\* every merge keeps what is not the site's, and every replacement is of what the
\* site once provided.  What the user has in a section, connection or key of the
\* site's goes (credentials.py: "we assume that the information in the container
\* is correct"), as do comments and lines that are no entries; for dask see
\* DaskSettingsKept.
UserDataKept ==
    \A f \in Files \ lost : "own" \in owned[f] =>
        \/ "own" \in files[f] \cup moved[f]
        \/ f \in Dask /\ "own" \in backup[f]

\* If startup did not call itself abnormal, the credentials and settings of
\* the lab have what the site requires, and if nothing ever failed so has some
\* file of the dask configuration.
NormalIsReady ==
    At("lab") /\ pod.home = "home" =>
        /\ "site" \in files["credentials"] \cap files["settings"]
        /\ faults = 0 => \E f \in Dask : "site" \in files[f]

\* What is on the persistent volume fits what the pod goes on with.
Consistent == TypeOK /\ NormalIsReady


\* The files whose contents startup reads, and makes an error of if they are odd.
Parsed == Dask \cup {"credentials", "settings"}

\* The lab comes up at every start, normal or not, unless the home directory
\* cannot be used at all or startup reads a file that it cannot take, one that a
\* stopped write left or one of the user's (OddFilesHeal).
StartEnds ==
    (pod.start = MaxStarts) ~>
        \/ At("lab")
        \/ owner = "root" /\ ~Empty
        \/ \E f \in Parsed : "odd" \in files[f]

\* dask.py: "Other settings should stay the same".  Not so: what the user has
\* in dashboard.yaml next to the link, or a link of their own, is replaced
\* without a copy.
DaskSettingsKept ==
    \A f \in Dask \ lost : owned[f] \subseteq files[f] \cup backup[f] \cup moved[f]

\* The page that explains an abnormal startup is in the home directory of the
\* lab.  Not so if there is scratch space.
WelcomeIsSeen == At("lab") => pod.welcome \in {"none", pod.home}

\* The lab comes up whatever a write that stopped half way left (_test_for_space:
\* "we will be starting in a degraded mode, and offering the user an explanation,
\* anyway").  Not so: with odd credentials, an odd dask file or odd settings every
\* later start fails, until the user repairs the file by other means.
OddFilesHeal == (pod.start = MaxStarts) ~> (At("lab") \/ (owner = "root" /\ ~Empty))
=============================================================================
