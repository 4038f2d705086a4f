------------------------------ MODULE GitSync ------------------------------
(***************************************************************************)
(* From a push to what visitors see: the webhook, the trigger of a job,    *)
(* internal/gitsource (pull, or clone and swap), and the end of the job    *)
(* that puts the working copy live.                                        *)
(*                                                                         *)
(* One project with a Git repository.  A commit is a number, counted in    *)
(* the order in which it became the head of the tracked branch.  One       *)
(* action is one step after which the process may die, or a visitor of a   *)
(* static site may look at the working copy it is served from.             *)
(*                                                                         *)
(* trigger tests the flag of running jobs and sets it in two critical      *)
(* sections; here it is one step, so one job runs at a time.  What two     *)
(* jobs do to each other is the subject of Deploy.                         *)
(***************************************************************************)
EXTENDS Integers

CONSTANTS
  None,         \* no directory, no release
  Mixed,        \* files of two commits
  Alien,        \* files of another repository
  Faults,       \* whether the network, the disk, a build or a health check may fail
  MaxPushes,    \* bound: pushes to the branch
  MaxClicks,    \* bound: presses of Deploy or Update
  MaxCrashes    \* bound: restarts of the process

Commits == 0 .. MaxPushes
Trees   == [ours : BOOLEAN,      \* a checkout of this remote that opens
            head : Commits,
            files : Commits \cup {Mixed, Alien}]
Releases == [commit : Commits, content : Commits \cup {Mixed, Alien}]

ASSUME BoundsAssumption == MaxPushes \in Nat /\ MaxClicks \in Nat /\ MaxCrashes \in Nat
ASSUME FaultsAssumption == Faults \in BOOLEAN
ASSUME ValuesAssumption ==
  /\ None \notin Trees \cup Releases
  /\ {Mixed, Alien} \cap Int = {}

VARIABLES
  remote,     \* head of the tracked branch
  hooks,      \* push webhooks on their way
  dir,        \* <repos>/<project>, the document root of a static site
  strategy,   \* Project.Strategy
  live,       \* what the last successful job released
  outcome,    \* how the last job ended
  deploying,  \* projDeploying[id]
  job,        \* the job
  scar,       \* history: dir was left damaged by the disk or a crash
  clicks, crashes

vars == <<remote, hooks, dir, strategy, live, outcome, deploying, job, scar, clicks, crashes>>
outside == <<remote, hooks>>
bounds  == <<clicks, crashes>>

Pcs == {"idle", "open", "fetch", "reset", "clean", "clone", "retire", "install",
        "detect", "site", "build", "run"}
Job == [pc : Pcs,
        ref : Commits,               \* the commit it has fetched or cloned
        aside : Trees \cup {None},   \* the tree swapDir has renamed away
        content : Releases \cup {None},   \* what its image was built from
        since : Commits]             \* history: the head of the branch when it began
Idle == [pc |-> "idle", ref |-> 0, aside |-> None, content |-> None, since |-> 0]

TypeOK ==
  /\ remote \in Commits
  /\ hooks \in 0 .. MaxPushes
  /\ dir \in Trees \cup {None}
  /\ strategy \in {"auto", "static", "container"}
  /\ live \in Releases \cup {None}
  /\ outcome \in {"none", "ok", "failed", "killed"}
  /\ deploying \in BOOLEAN
  /\ job \in Job
  /\ scar \in BOOLEAN
  /\ clicks \in 0 .. MaxClicks
  /\ crashes \in 0 .. MaxCrashes
  /\ deploying = (job.pc # "idle")

(* A project of the same name may have left its working copy behind, of    *)
(* this remote or of another.                                              *)
Init ==
  /\ remote = 0
  /\ hooks = 0
  /\ dir \in {None, [ours |-> FALSE, head |-> 0, files |-> Alien],
                    [ours |-> TRUE, head |-> 0, files |-> 0]}
  /\ strategy \in {"auto", "static", "container"}
  /\ live = None
  /\ outcome = "none"
  /\ deploying = FALSE
  /\ job = Idle
  /\ scar = FALSE
  /\ clicks = 0
  /\ crashes = 0

-----------------------------------------------------------------------------
(* Pushes, webhooks and buttons.                                           *)

Push ==
  /\ remote < MaxPushes
  /\ remote' = remote + 1
  /\ hooks' = hooks + 1
  /\ UNCHANGED <<dir, strategy, live, outcome, deploying, job, scar, bounds>>

(* The provider could not deliver, and does not try again.                 *)
LoseHook ==
  /\ Faults
  /\ hooks > 0
  /\ hooks' = hooks - 1
  /\ UNCHANGED <<remote, dir, strategy, live, outcome, deploying, job, scar, bounds>>

(* trigger: nothing happens while a job runs.                              *)
Trigger ==
  \/ /\ deploying
     /\ UNCHANGED <<deploying, job>>
  \/ /\ ~deploying
     /\ deploying' = TRUE
     /\ job' = [Idle EXCEPT !.pc = "open", !.since = remote]

(* A signed push event: answered 202 whether or not a job starts.          *)
Deliver ==
  /\ hooks > 0
  /\ hooks' = hooks - 1
  /\ Trigger
  /\ UNCHANGED <<remote, dir, strategy, live, outcome, scar, bounds>>

Click ==
  /\ clicks < MaxClicks
  /\ clicks' = clicks + 1
  /\ Trigger
  /\ UNCHANGED <<outside, dir, strategy, live, outcome, scar, crashes>>

-----------------------------------------------------------------------------
(* The steps of a job.                                                     *)

Goto(pc) == job' = [job EXCEPT !.pc = pc]
Frame    == UNCHANGED <<outside, bounds>>
Running  == UNCHANGED <<strategy, live, outcome, deploying>> /\ Frame

(* Wrong on purpose: only a job that succeeds clears the flag.             *)
EndKeepsFlag(result) ==
  /\ outcome' = result
  /\ deploying' = (result # "ok")
  /\ job' = Idle

(* The deferred setDeploying(false).                                       *)
End(result) ==
  /\ outcome' = result
  /\ deploying' = FALSE
  /\ job' = Idle

(* Manager.fail: the row is failed, nothing else is touched.               *)
Fail == End("failed") /\ UNCHANGED <<strategy, live>> /\ Frame

Usable == dir # None /\ dir.ours

(* SyncResult: pull, if there is a checkout of this remote, or clone.      *)
Open ==
  /\ job.pc = "open"
  /\ Goto(IF Usable THEN "fetch" ELSE "clone")
  /\ UNCHANGED <<dir, scar>> /\ Running

(* Wrong on purpose: the branch as it was when the checkout was made.      *)
FetchedLocal == IF Usable THEN dir.head ELSE remote

(* What a fetch of the tracked branch returns.                             *)
Fetched == remote

Fetch ==
  /\ job.pc = "fetch"
  /\ \/ job' = [job EXCEPT !.pc = "reset", !.ref = Fetched]
     \/ Faults /\ Goto("clone")
  /\ UNCHANGED <<dir, scar>> /\ Running

(* Wrong on purpose: a checkout that is up to date is left alone.          *)
ResetsIfBehind == dir.head # job.ref

(* The hard reset is done also when the fetch says "already up to date".   *)
Resets == TRUE

(* Reset moves the head and then goes over the files one by one.           *)
Reset ==
  /\ job.pc = "reset"
  /\ IF Resets
     THEN /\ dir' = [dir EXCEPT !.head = job.ref, !.files = IF @ = job.ref THEN @ ELSE Mixed]
          /\ Goto("clean")
     ELSE UNCHANGED dir /\ Goto("detect")
  /\ UNCHANGED scar /\ Running

(* Reset and Clean are done, or the disk stops them half way.              *)
Clean ==
  /\ job.pc = "clean"
  /\ \/ /\ dir' = [dir EXCEPT !.files = job.ref]
        /\ scar' = FALSE
        /\ Goto("detect")
     \/ /\ Faults
        /\ scar' = TRUE
        /\ Goto("clone")
        /\ UNCHANGED dir
  /\ Running

(* A clone into a directory of its own beside dir.                         *)
Clone ==
  /\ job.pc = "clone"
  /\ \/ /\ job' = [job EXCEPT !.pc = IF dir = None THEN "install" ELSE "retire", !.ref = Fetched]
        /\ UNCHANGED <<dir, scar>> /\ Running
     \/ /\ Faults
        /\ Fail
        /\ UNCHANGED <<dir, scar>>

(* swapDir: the first rename takes the old tree away ...                   *)
Retire ==
  /\ job.pc = "retire"
  /\ \/ /\ job' = [job EXCEPT !.pc = "install", !.aside = dir]
        /\ dir' = None
        /\ UNCHANGED scar /\ Running
     \/ /\ Faults
        /\ Fail
        /\ UNCHANGED <<dir, scar>>

(* Wrong on purpose: the old tree is not put back.                         *)
PutBackNot == dir' = None /\ UNCHANGED scar

(* What is left when the second rename fails: the old tree is renamed back *)
(* if that works.                                                          *)
PutBack ==
  \/ dir' = job.aside /\ UNCHANGED scar
  \/ dir' = None /\ scar' = TRUE

(* ... and the second one puts the new tree in its place.                  *)
Install ==
  /\ job.pc = "install"
  /\ \/ /\ dir' = [ours |-> TRUE, head |-> job.ref, files |-> job.ref]
        /\ scar' = FALSE
        /\ job' = [job EXCEPT !.pc = "detect", !.aside = None]
        /\ Running
     \/ /\ Faults
        /\ Fail
        /\ PutBack

(* The strategy of a new project is found from its files, once.            *)
Detect ==
  /\ job.pc = "detect"
  /\ strategy' \in IF strategy = "auto" THEN {"static", "container"} ELSE {strategy}
  /\ Goto(IF strategy' = "static" THEN "site" ELSE "build")
  /\ UNCHANGED <<dir, scar, live, outcome, deploying>> /\ Frame

Released(r) ==
  /\ live' = r
  /\ End("ok")
  /\ UNCHANGED <<dir, scar, strategy>> /\ Frame

(* finishStatic: the site points at dir, whose files are live already.     *)
PublishStatic ==
  /\ job.pc = "site"
  /\ \/ Released([commit |-> job.ref, content |-> dir.files])
     \/ Faults /\ Fail /\ UNCHANGED <<dir, scar>>

(* finishContainer: an image is built from dir ...                         *)
Build ==
  /\ job.pc = "build"
  /\ \/ /\ job' = [job EXCEPT !.pc = "run",
                      !.content = [commit |-> job.ref, content |-> dir.files]]
        /\ UNCHANGED <<dir, scar>> /\ Running
     \/ Faults /\ Fail /\ UNCHANGED <<dir, scar>>

(* ... runs, is healthy, and is routed to.                                 *)
Run ==
  /\ job.pc = "run"
  /\ \/ Released(job.content)
     \/ Faults /\ Fail /\ UNCHANGED <<dir, scar>>

(* The process is killed and started again.  Nobody looks for trees that   *)
(* a job had renamed away.                                                 *)
Crash ==
  /\ crashes < MaxCrashes
  /\ crashes' = crashes + 1
  /\ deploying' = FALSE
  /\ job' = Idle
  /\ outcome' = IF deploying THEN "killed" ELSE outcome
  /\ scar' = (scar \/ job.pc = "clean" \/ job.aside # None)
  /\ UNCHANGED <<outside, dir, strategy, live, clicks>>

Work ==
  \/ Open \/ Fetch \/ Reset \/ Clean \/ Clone \/ Retire \/ Install
  \/ Detect \/ PublishStatic \/ Build \/ Run

Next == Push \/ LoseHook \/ Deliver \/ Click \/ Work \/ Crash

Spec == Init /\ [][Next]_vars

-----------------------------------------------------------------------------
(* Properties.                                                             *)

(* The commit of the row that says "running" is what visitors get: what    *)
(* the image was built from, or, for a static site after a job that        *)
(* succeeded, what the working copy holds, whatever was interrupted before.*)
Honest ==
  live # None =>
    /\ live.content = live.commit
    /\ strategy = "static" /\ outcome = "ok" /\ ~deploying =>
         dir # None /\ dir.files = live.commit

(* A job that succeeds releases what was pushed before it began.           *)
ReleasesPushed == live' # live => live' # None /\ live'.commit >= job.since
Fresh == [][ReleasesPushed]_vars

(* Failed fetches, clones, renames and builds, at any moment, leave a      *)
(* whole working copy to serve: it is missing or mixed only while a job is *)
(* at work on it, or after a crash or a failing disk in that very moment.  *)
Damaged == dir = None \/ dir.files = Mixed
WholeAtRest ==
  live # None /\ Damaged => scar \/ job.pc \in {"clean", "install"}
=============================================================================
