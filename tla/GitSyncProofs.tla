--------------------------- MODULE GitSyncProofs ---------------------------
(***************************************************************************)
(* What holds of GitSync for any number of pushes, presses and restarts.   *)
(***************************************************************************)
EXTENDS GitSync, TLAPS

LEMMA CommitsDistinct ==
  ASSUME NEW c \in Commits
  PROVE  c # Mixed /\ c # Alien
BY ValuesAssumption, BoundsAssumption DEF Commits

LEMMA NoneIsNoTree == \A t \in Trees : t # None
BY ValuesAssumption

LEMMA NoneIsNoRelease == \A r \in Releases : r # None
BY ValuesAssumption

-----------------------------------------------------------------------------
(* The inductive invariant, in parts.                                      *)

(* A webhook on its way is of a push of its own.                           *)
HooksOfPushes == hooks <= remote

(* Between the steps that need it there is a checkout to work on.          *)
CheckoutThere ==
  /\ job.pc \in {"fetch", "reset", "clean"} => dir # None /\ dir.ours
  /\ job.pc = "retire" => dir # None

(* From the end of the sync on, the working copy is the commit of the job. *)
Synced == job.pc \in {"detect", "site", "build", "run"} => dir # None /\ dir.files = job.ref

Built ==
  job.pc = "run" => /\ job.content # None
                    /\ job.content.content = job.content.commit
                    /\ job.content.commit >= job.since

ContainerOnly == job.pc \in {"build", "run"} => strategy = "container"

(* A tree is aside only between the two renames.                           *)
AsideInSwap == job.aside # None => job.pc = "install"

(* What a failed swap puts back is damaged only if the scar tells.         *)
AsideWhole ==
  live # None /\ job.pc = "install" /\ (job.aside = None \/ job.aside.files = Mixed) => scar

(* What was pushed before the job began is in what it fetched.             *)
Recent ==
  /\ job.since <= remote
  /\ job.pc \in {"reset", "clean", "retire", "install", "detect", "site", "build"} =>
       job.ref >= job.since

Inv == /\ TypeOK /\ HooksOfPushes /\ CheckoutThere /\ Synced /\ Built /\ ContainerOnly
       /\ AsideInSwap /\ AsideWhole /\ Recent /\ Honest /\ WholeAtRest
-----------------------------------------------------------------------------
(* What a step does to the job, field by field.                            *)

Moved(pc) ==
  /\ job' \in Job
  /\ job'.pc = pc /\ job'.ref = job.ref /\ job'.aside = job.aside
  /\ job'.content = job.content /\ job'.since = job.since

Got(pc, c) ==
  /\ job' \in Job
  /\ job'.pc = pc /\ job'.ref = c /\ job'.aside = job.aside
  /\ job'.content = job.content /\ job'.since = job.since

Swapped(pc, t) ==
  /\ job' \in Job
  /\ job'.pc = pc /\ job'.ref = job.ref /\ job'.aside = t
  /\ job'.content = job.content /\ job'.since = job.since

Made(pc, r) ==
  /\ job' \in Job
  /\ job'.pc = pc /\ job'.ref = job.ref /\ job'.aside = job.aside
  /\ job'.content = r /\ job'.since = job.since

Begun ==
  /\ job' \in Job
  /\ job'.pc = "open" /\ job'.aside = None /\ job'.since = remote

Ended ==
  /\ job' \in Job
  /\ job'.pc = "idle" /\ job'.aside = None /\ job'.since = 0

LEMMA IdleIsJob == Idle \in Job /\ Idle.pc = "idle" /\ Idle.aside = None /\ Idle.since = 0
BY BoundsAssumption DEF Idle, Job, Pcs, Commits

LEMMA GotoMoves ==
  ASSUME job \in Job, NEW pc \in Pcs, Goto(pc)
  PROVE  Moved(pc)
BY DEF Goto, Moved, Job

LEMMA FetchGets ==
  ASSUME job \in Job, NEW pc \in Pcs, NEW c \in Commits,
         job' = [job EXCEPT !.pc = pc, !.ref = c]
  PROVE  Got(pc, c)
BY DEF Got, Job

LEMMA RenameSwaps ==
  ASSUME job \in Job, NEW pc \in Pcs, NEW t \in Trees \cup {None},
         job' = [job EXCEPT !.pc = pc, !.aside = t]
  PROVE  Swapped(pc, t)
BY DEF Swapped, Job

LEMMA BuildMakes ==
  ASSUME job \in Job, NEW pc \in Pcs, NEW r \in Releases,
         job' = [job EXCEPT !.pc = pc, !.content = r]
  PROVE  Made(pc, r)
BY DEF Made, Job

LEMMA TriggerBegins ==
  ASSUME remote \in Commits, job' = [Idle EXCEPT !.pc = "open", !.since = remote]
  PROVE  Begun
BY IdleIsJob DEF Begun, Job, Pcs

LEMMA EndEnds ==
  ASSUME job' = Idle
  PROVE  Ended
BY IdleIsJob DEF Ended

LEMMA JobFields ==
  ASSUME NEW j \in Job
  PROVE  /\ j.pc \in Pcs /\ j.ref \in Commits /\ j.since \in Commits
         /\ j.aside \in Trees \cup {None} /\ j.content \in Releases \cup {None}
BY DEF Job

LEMMA TreeFields ==
  ASSUME NEW t \in Trees
  PROVE  t.ours \in BOOLEAN /\ t.head \in Commits /\ t.files \in Commits \cup {Mixed, Alien}
BY DEF Trees

-----------------------------------------------------------------------------
(* Every step keeps the invariant.                                         *)

LEMMA InvInit == Init => Inv
<1> SUFFICES ASSUME Init PROVE Inv
  OBVIOUS
<1>1. /\ job \in Job /\ job.pc = "idle" /\ job.aside = None /\ job.since = 0
      /\ live = None /\ remote = 0
  BY IdleIsJob DEF Init
<1>2. TypeOK
  <2>1. /\ [ours |-> FALSE, head |-> 0, files |-> Alien] \in Trees
        /\ [ours |-> TRUE, head |-> 0, files |-> 0] \in Trees
    BY BoundsAssumption DEF Trees, Commits
  <2>2. dir \in Trees \cup {None}
    BY <2>1 DEF Init
  <2>3. remote \in Commits /\ hooks \in 0 .. MaxPushes /\ clicks \in 0 .. MaxClicks /\ crashes \in 0 .. MaxCrashes
    BY BoundsAssumption DEF Init, Commits
  <2>4. deploying \in BOOLEAN /\ deploying = (job.pc # "idle")
    BY <1>1 DEF Init
  <2> QED
    BY <1>1, <2>2, <2>3, <2>4 DEF Init, TypeOK
<1>3. HooksOfPushes /\ Recent
  BY <1>1 DEF Init, HooksOfPushes, Recent
<1>4. CheckoutThere /\ Synced /\ Built /\ ContainerOnly /\ AsideInSwap /\ AsideWhole
  BY <1>1 DEF CheckoutThere, Synced, Built, ContainerOnly, AsideInSwap, AsideWhole
<1>5. Honest /\ WholeAtRest
  BY <1>1 DEF Honest, WholeAtRest
<1> QED
  BY <1>2, <1>3, <1>4, <1>5 DEF Inv

(* Pushes and webhooks that start nothing leave everything else alone.     *)
LEMMA OutsideKeeps ==
  ASSUME Inv, remote' \in Commits, remote' >= remote, hooks' \in 0 .. MaxPushes, hooks' <= remote',
         clicks' \in 0 .. MaxClicks, crashes' \in 0 .. MaxCrashes,
         UNCHANGED <<dir, strategy, live, outcome, deploying, job, scar>>
  PROVE  Inv'
<1>1. TypeOK'
  BY DEF Inv, TypeOK
<1>2. HooksOfPushes' /\ Recent'
  BY JobFields DEF Inv, TypeOK, HooksOfPushes, Recent, Commits
<1>3. CheckoutThere' /\ Synced' /\ Built' /\ ContainerOnly' /\ AsideInSwap'
  BY DEF Inv, CheckoutThere, Synced, Built, ContainerOnly, AsideInSwap
<1>4. AsideWhole' /\ Honest' /\ WholeAtRest'
  BY DEF Inv, AsideWhole, Honest, WholeAtRest, Damaged
<1> QED
  BY <1>1, <1>2, <1>3, <1>4 DEF Inv

(* A new job owns nothing yet.                                             *)
LEMMA BeginKeeps ==
  ASSUME Inv, ~deploying, deploying' = TRUE, job' = [Idle EXCEPT !.pc = "open", !.since = remote],
         hooks' \in 0 .. MaxPushes, hooks' <= remote, clicks' \in 0 .. MaxClicks,
         UNCHANGED <<remote, dir, strategy, live, outcome, scar, crashes>>
  PROVE  Inv'
<1>1. Begun
  BY TriggerBegins DEF Inv, TypeOK
<1>2. TypeOK'
  BY <1>1 DEF Begun, Inv, TypeOK
<1>3. HooksOfPushes' /\ Recent'
  BY <1>1 DEF Begun, Inv, TypeOK, HooksOfPushes, Recent, Commits
<1>4. CheckoutThere' /\ Synced' /\ Built' /\ ContainerOnly' /\ AsideInSwap' /\ AsideWhole'
  BY <1>1 DEF Begun, CheckoutThere, Synced, Built, ContainerOnly, AsideInSwap, AsideWhole
<1>5. job.pc = "idle"
  BY DEF Inv, TypeOK
<1>6. Honest' /\ WholeAtRest'
  BY <1>1, <1>5 DEF Begun, Inv, Honest, WholeAtRest, Damaged
<1> QED
  BY <1>2, <1>3, <1>4, <1>6 DEF Inv

LEMMA TriggerKeeps ==
  ASSUME Inv, Trigger, hooks' \in 0 .. MaxPushes, hooks' <= remote, clicks' \in 0 .. MaxClicks,
         UNCHANGED <<remote, dir, strategy, live, outcome, scar, crashes>>
  PROVE  Inv'
<1>1. CASE deploying /\ UNCHANGED <<deploying, job>>
  <2>1. remote \in Commits /\ remote >= remote /\ crashes \in 0 .. MaxCrashes
    BY BoundsAssumption DEF Inv, TypeOK, Commits
  <2> QED
    BY <1>1, <2>1, OutsideKeeps
<1>2. CASE ~deploying /\ deploying' = TRUE /\ job' = [Idle EXCEPT !.pc = "open", !.since = remote]
  BY <1>2, BeginKeeps
<1> QED
  BY <1>1, <1>2 DEF Trigger

(* A job that fails leaves what is live, and the working copy, alone.      *)
LEMMA FailKeeps ==
  ASSUME Inv, Fail, job.pc \notin {"clean", "install"}, UNCHANGED <<dir, scar>>
  PROVE  Inv'
<1> USE DEF Fail, End, Frame, outside, bounds
<1>1. Ended
  BY EndEnds
<1>2. TypeOK'
  BY <1>1 DEF Ended, Inv, TypeOK
<1>3. HooksOfPushes' /\ Recent'
  BY <1>1 DEF Ended, Inv, TypeOK, HooksOfPushes, Recent, Commits
<1>4. CheckoutThere' /\ Synced' /\ Built' /\ ContainerOnly' /\ AsideInSwap' /\ AsideWhole'
  BY <1>1 DEF Ended, CheckoutThere, Synced, Built, ContainerOnly, AsideInSwap, AsideWhole
<1>5. Honest' /\ WholeAtRest'
  BY <1>1 DEF Ended, Inv, Honest, WholeAtRest, Damaged
<1> QED
  BY <1>2, <1>3, <1>4, <1>5 DEF Inv

(* A job that succeeds with the commit it has synced.                      *)
LEMMA ReleaseKeeps ==
  ASSUME Inv, NEW r \in Releases, Released(r), r.content = r.commit,
         dir # None, dir.files \in Commits, strategy = "static" => dir.files = r.commit
  PROVE  Inv'
<1> USE DEF Released, End, Frame, outside, bounds
<1>1. Ended
  BY EndEnds
<1>2. TypeOK'
  BY <1>1 DEF Ended, Inv, TypeOK
<1>3. HooksOfPushes' /\ Recent'
  BY <1>1 DEF Ended, Inv, TypeOK, HooksOfPushes, Recent, Commits
<1>4. CheckoutThere' /\ Synced' /\ Built' /\ ContainerOnly' /\ AsideInSwap' /\ AsideWhole'
  BY <1>1 DEF Ended, CheckoutThere, Synced, Built, ContainerOnly, AsideInSwap, AsideWhole
<1>5. Honest'
  BY <1>1 DEF Ended, Honest
<1>6. WholeAtRest'
  BY <1>1, CommitsDistinct DEF WholeAtRest, Damaged
<1> QED
  BY <1>2, <1>3, <1>4, <1>5, <1>6 DEF Inv

-----------------------------------------------------------------------------
(* The steps of a job that goes on.                                        *)

LEMMA OpenKeeps == ASSUME Inv, Open PROVE Inv'
<1> USE DEF Open, Running, Frame, outside, bounds
<1>1. job \in Job /\ dir' = dir
  BY DEF Inv, TypeOK
<1>2. PICK pc \in {"fetch", "clone"} : Goto(pc) /\ (pc = "fetch" => Usable)
  OBVIOUS
<1>3. Moved(pc)
  BY <1>1, <1>2, GotoMoves DEF Pcs
<1>4. TypeOK'
  BY <1>2, <1>3 DEF Moved, Inv, TypeOK
<1>5. HooksOfPushes' /\ Recent'
  BY <1>2, <1>3 DEF Moved, Inv, HooksOfPushes, Recent
<1>6. CheckoutThere' /\ Synced' /\ Built' /\ ContainerOnly' /\ AsideInSwap' /\ AsideWhole'
  BY <1>2, <1>3 DEF Moved, Usable, Inv, CheckoutThere, Synced, Built, ContainerOnly, AsideInSwap, AsideWhole
<1>7. Honest' /\ WholeAtRest'
  BY <1>2, <1>3 DEF Moved, Inv, TypeOK, Honest, WholeAtRest, Damaged
<1> QED
  BY <1>4, <1>5, <1>6, <1>7 DEF Inv

LEMMA FetchKeeps == ASSUME Inv, Fetch PROVE Inv'
<1> USE DEF Fetch, Running, Frame, outside, bounds
<1>0. job \in Job /\ remote \in Commits /\ job.pc = "fetch" /\ dir' = dir
  BY DEF Inv, TypeOK
<1>1. CASE job' = [job EXCEPT !.pc = "reset", !.ref = Fetched]
  <2>1. Got("reset", remote)
    BY <1>0, <1>1, FetchGets DEF Fetched, Pcs
  <2>2. TypeOK'
    BY <2>1, <1>0 DEF Got, Inv, TypeOK
  <2>3. HooksOfPushes' /\ Recent'
    BY <2>1, <1>0 DEF Got, Inv, HooksOfPushes, Recent
  <2>4. CheckoutThere' /\ Synced' /\ Built' /\ ContainerOnly' /\ AsideInSwap' /\ AsideWhole'
    BY <2>1, <1>0 DEF Got, Inv, CheckoutThere, Synced, Built, ContainerOnly, AsideInSwap, AsideWhole
  <2>5. Honest' /\ WholeAtRest'
    BY <2>1, <1>0 DEF Got, Inv, TypeOK, Honest, WholeAtRest, Damaged
  <2> QED
    BY <2>2, <2>3, <2>4, <2>5 DEF Inv
<1>2. CASE Goto("clone")
  <2>1. Moved("clone")
    BY <1>0, <1>2, GotoMoves DEF Pcs
  <2>2. TypeOK'
    BY <2>1, <1>0 DEF Moved, Inv, TypeOK
  <2>3. HooksOfPushes' /\ Recent'
    BY <2>1, <1>0 DEF Moved, Inv, HooksOfPushes, Recent
  <2>4. CheckoutThere' /\ Synced' /\ Built' /\ ContainerOnly' /\ AsideInSwap' /\ AsideWhole'
    BY <2>1, <1>0 DEF Moved, Inv, CheckoutThere, Synced, Built, ContainerOnly, AsideInSwap, AsideWhole
  <2>5. Honest' /\ WholeAtRest'
    BY <2>1, <1>0 DEF Moved, Inv, TypeOK, Honest, WholeAtRest, Damaged
  <2> QED
    BY <2>2, <2>3, <2>4, <2>5 DEF Inv
<1> QED
  BY <1>1, <1>2

LEMMA ResetKeeps == ASSUME Inv, Reset PROVE Inv'
<1> USE DEF Reset, Resets, Running, Frame, outside, bounds
<1>0. job \in Job /\ job.pc = "reset" /\ dir \in Trees /\ dir.ours /\ job.ref \in Commits
  BY JobFields DEF Inv, TypeOK, CheckoutThere
<1>1. Moved("clean")
  BY <1>0, GotoMoves DEF Pcs
<1>2. dir' \in Trees /\ dir'.ours
  BY <1>0 DEF Trees
<1>3. TypeOK'
  BY <1>0, <1>1, <1>2 DEF Moved, Inv, TypeOK
<1>4. HooksOfPushes' /\ Recent'
  BY <1>0, <1>1 DEF Moved, Inv, HooksOfPushes, Recent
<1>5. CheckoutThere' /\ Synced' /\ Built' /\ ContainerOnly' /\ AsideInSwap' /\ AsideWhole'
  BY <1>0, <1>1, <1>2, NoneIsNoTree DEF Moved, Inv, CheckoutThere, Synced, Built, ContainerOnly, AsideInSwap, AsideWhole
<1>6. Honest' /\ WholeAtRest'
  BY <1>0, <1>1 DEF Moved, Inv, TypeOK, Honest, WholeAtRest
<1> QED
  BY <1>3, <1>4, <1>5, <1>6 DEF Inv

LEMMA CleanKeeps == ASSUME Inv, Clean PROVE Inv'
<1> USE DEF Running, Frame, outside, bounds
<1>0. job \in Job /\ job.pc = "clean" /\ dir \in Trees /\ job.ref \in Commits
  BY JobFields DEF Clean, Inv, TypeOK, CheckoutThere
<1>1. ASSUME dir' = [dir EXCEPT !.files = job.ref], scar' = FALSE, Goto("detect"), Running
      PROVE  Inv'
  <2>1. Moved("detect")
    BY <1>0, <1>1, GotoMoves DEF Pcs
  <2>2. dir' \in Trees /\ dir'.files = job.ref
    BY <1>0, <1>1 DEF Trees
  <2>3. TypeOK'
    BY <1>0, <1>1, <2>1, <2>2 DEF Moved, Inv, TypeOK
  <2>4. HooksOfPushes' /\ Recent'
    BY <1>0, <1>1, <2>1 DEF Moved, Inv, HooksOfPushes, Recent
  <2>5. CheckoutThere' /\ Synced' /\ Built' /\ ContainerOnly' /\ AsideInSwap' /\ AsideWhole'
    BY <1>0, <1>1, <2>1, <2>2, NoneIsNoTree DEF Moved, Inv, CheckoutThere, Synced, Built, ContainerOnly, AsideInSwap, AsideWhole
  <2>6. Honest' /\ WholeAtRest'
    BY <1>0, <1>1, <2>1, <2>2, NoneIsNoTree, CommitsDistinct DEF Moved, Inv, TypeOK, Honest, WholeAtRest, Damaged
  <2> QED
    BY <2>3, <2>4, <2>5, <2>6 DEF Inv
<1>2. ASSUME scar' = TRUE, Goto("clone"), UNCHANGED dir, Running
      PROVE  Inv'
  <2>1. Moved("clone")
    BY <1>0, <1>2, GotoMoves DEF Pcs
  <2>2. TypeOK'
    BY <1>0, <1>2, <2>1 DEF Moved, Inv, TypeOK
  <2>3. HooksOfPushes' /\ Recent'
    BY <1>0, <1>2, <2>1 DEF Moved, Inv, HooksOfPushes, Recent
  <2>4. CheckoutThere' /\ Synced' /\ Built' /\ ContainerOnly' /\ AsideInSwap' /\ AsideWhole'
    BY <1>0, <1>2, <2>1 DEF Moved, Inv, CheckoutThere, Synced, Built, ContainerOnly, AsideInSwap, AsideWhole
  <2>5. Honest' /\ WholeAtRest'
    BY <1>0, <1>2, <2>1 DEF Moved, Inv, TypeOK, Honest, WholeAtRest
  <2> QED
    BY <2>2, <2>3, <2>4, <2>5 DEF Inv
<1> QED
  BY <1>1, <1>2 DEF Clean

LEMMA CloneKeeps == ASSUME Inv, Clone PROVE Inv'
<1> USE DEF Running, Frame, outside, bounds
<1>0. job \in Job /\ remote \in Commits /\ job.pc = "clone" /\ dir' = dir
  BY DEF Clone, Inv, TypeOK
<1>1. ASSUME job' = [job EXCEPT !.pc = IF dir = None THEN "install" ELSE "retire", !.ref = Fetched],
             UNCHANGED <<dir, scar>>, Running
      PROVE  Inv'
  <2>1. PICK pc \in {"install", "retire"} :
            (pc = "install" <=> dir = None) /\ job' = [job EXCEPT !.pc = pc, !.ref = Fetched]
    BY <1>1
  <2>2. Got(pc, remote)
    BY <1>0, <2>1, FetchGets DEF Fetched, Pcs
  <2>3. TypeOK'
    BY <1>0, <1>1, <2>1, <2>2 DEF Got, Inv, TypeOK
  <2>4. HooksOfPushes' /\ Recent'
    BY <1>0, <1>1, <2>1, <2>2 DEF Got, Inv, HooksOfPushes, Recent
  <2>5. CheckoutThere' /\ Synced' /\ Built' /\ ContainerOnly' /\ AsideInSwap'
    BY <1>0, <1>1, <2>1, <2>2 DEF Got, Inv, CheckoutThere, Synced, Built, ContainerOnly, AsideInSwap
  <2>6. AsideWhole'
    BY <1>0, <1>1, <2>1, <2>2, NoneIsNoTree DEF Got, Inv, AsideInSwap, AsideWhole, WholeAtRest, Damaged
  <2>7. Honest' /\ WholeAtRest'
    BY <1>0, <1>1, <2>1, <2>2 DEF Got, Inv, TypeOK, Honest, WholeAtRest, Damaged
  <2> QED
    BY <2>3, <2>4, <2>5, <2>6, <2>7 DEF Inv
<1>2. ASSUME Fail, UNCHANGED <<dir, scar>>
      PROVE  Inv'
  BY <1>0, <1>2, FailKeeps
<1> QED
  BY <1>1, <1>2 DEF Clone

LEMMA RetireKeeps == ASSUME Inv, Retire PROVE Inv'
<1> USE DEF Running, Frame, outside, bounds
<1>0. job \in Job /\ job.pc = "retire" /\ dir \in Trees \cup {None} /\ dir # None
  BY DEF Retire, Inv, TypeOK, CheckoutThere
<1>1. ASSUME job' = [job EXCEPT !.pc = "install", !.aside = dir], dir' = None, UNCHANGED scar, Running
      PROVE  Inv'
  <2>1. Swapped("install", dir)
    BY <1>0, <1>1, RenameSwaps DEF Pcs
  <2>2. TypeOK'
    BY <1>0, <1>1, <2>1 DEF Swapped, Inv, TypeOK
  <2>3. HooksOfPushes' /\ Recent'
    BY <1>0, <1>1, <2>1 DEF Swapped, Inv, HooksOfPushes, Recent
  <2>4. CheckoutThere' /\ Synced' /\ Built' /\ ContainerOnly' /\ AsideInSwap'
    BY <1>0, <1>1, <2>1 DEF Swapped, CheckoutThere, Synced, Built, ContainerOnly, AsideInSwap
  <2>5. AsideWhole'
    BY <1>0, <1>1, <2>1 DEF Swapped, Inv, AsideWhole, WholeAtRest, Damaged
  <2>6. Honest' /\ WholeAtRest'
    BY <1>0, <1>1, <2>1 DEF Swapped, Inv, TypeOK, Honest, WholeAtRest
  <2> QED
    BY <2>2, <2>3, <2>4, <2>5, <2>6 DEF Inv
<1>2. ASSUME Fail, UNCHANGED <<dir, scar>>
      PROVE  Inv'
  BY <1>0, <1>2, FailKeeps
<1> QED
  BY <1>1, <1>2 DEF Retire

LEMMA InstallKeeps == ASSUME Inv, Install PROVE Inv'
<1> USE DEF Running, Frame, outside, bounds
<1>0. job \in Job /\ job.pc = "install" /\ job.ref \in Commits /\ job.aside \in Trees \cup {None}
  BY JobFields DEF Install, Inv, TypeOK
<1>1. ASSUME dir' = [ours |-> TRUE, head |-> job.ref, files |-> job.ref], scar' = FALSE,
             job' = [job EXCEPT !.pc = "detect", !.aside = None], Running
      PROVE  Inv'
  <2>1. Swapped("detect", None)
    BY <1>0, <1>1, RenameSwaps DEF Pcs
  <2>2. dir' \in Trees /\ dir'.files = job.ref
    BY <1>0, <1>1 DEF Trees
  <2>3. TypeOK'
    BY <1>0, <1>1, <2>1, <2>2 DEF Swapped, Inv, TypeOK
  <2>4. HooksOfPushes' /\ Recent'
    BY <1>0, <1>1, <2>1 DEF Swapped, Inv, HooksOfPushes, Recent
  <2>5. CheckoutThere' /\ Synced' /\ Built' /\ ContainerOnly' /\ AsideInSwap' /\ AsideWhole'
    BY <1>0, <1>1, <2>1, <2>2, NoneIsNoTree DEF Swapped, CheckoutThere, Synced, Built, ContainerOnly, AsideInSwap, AsideWhole
  <2>6. Honest' /\ WholeAtRest'
    BY <1>0, <1>1, <2>1, <2>2, NoneIsNoTree, CommitsDistinct DEF Swapped, Inv, TypeOK, Honest, WholeAtRest, Damaged
  <2> QED
    BY <2>3, <2>4, <2>5, <2>6 DEF Inv
<1>2. ASSUME Fail, PutBack
      PROVE  Inv'
  <2>1. Ended
    BY <1>2, EndEnds DEF Fail, End
  <2>2. dir' \in Trees \cup {None} /\ scar' \in BOOLEAN
    BY <1>0, <1>2 DEF PutBack, Inv, TypeOK
  <2>3. TypeOK'
    BY <1>2, <2>1, <2>2 DEF Ended, Fail, End, Inv, TypeOK
  <2>4. HooksOfPushes' /\ Recent'
    BY <1>2, <2>1 DEF Ended, Fail, Inv, TypeOK, HooksOfPushes, Recent, Commits
  <2>5. CheckoutThere' /\ Synced' /\ Built' /\ ContainerOnly' /\ AsideInSwap' /\ AsideWhole'
    BY <2>1 DEF Ended, CheckoutThere, Synced, Built, ContainerOnly, AsideInSwap, AsideWhole
  <2>6. Honest'
    BY <1>2 DEF Fail, End, Inv, Honest
  <2>7. WholeAtRest'
    BY <1>0, <1>2 DEF Fail, PutBack, Inv, AsideWhole, WholeAtRest, Damaged
  <2> QED
    BY <2>3, <2>4, <2>5, <2>6, <2>7 DEF Inv
<1> QED
  BY <1>1, <1>2 DEF Install

LEMMA DetectKeeps == ASSUME Inv, Detect PROVE Inv'
<1> USE DEF Detect, Frame, outside, bounds
<1>0. job \in Job /\ job.pc = "detect" /\ dir' = dir
  BY DEF Inv, TypeOK
<1>1. PICK pc \in {"site", "build"} : Goto(pc) /\ (pc = "site" <=> strategy' = "static")
  OBVIOUS
<1>2. Moved(pc)
  BY <1>0, <1>1, GotoMoves DEF Pcs
<1>3. strategy' \in {"static", "container"} /\ (strategy # "auto" => strategy' = strategy)
  BY DEF Inv, TypeOK
<1>4. TypeOK'
  BY <1>0, <1>1, <1>2, <1>3 DEF Moved, Inv, TypeOK
<1>5. HooksOfPushes' /\ Recent'
  BY <1>0, <1>1, <1>2 DEF Moved, Inv, HooksOfPushes, Recent
<1>6. CheckoutThere' /\ Synced' /\ Built' /\ ContainerOnly' /\ AsideInSwap' /\ AsideWhole'
  BY <1>0, <1>1, <1>2, <1>3 DEF Moved, Inv, CheckoutThere, Synced, Built, ContainerOnly, AsideInSwap, AsideWhole
<1>7. Honest' /\ WholeAtRest'
  BY <1>0, <1>1, <1>2 DEF Moved, Inv, TypeOK, Honest, WholeAtRest, Damaged
<1> QED
  BY <1>4, <1>5, <1>6, <1>7 DEF Inv

LEMMA PublishStaticKeeps == ASSUME Inv, PublishStatic PROVE Inv'
<1> DEFINE r == [commit |-> job.ref, content |-> dir.files]
<1>0. job.pc = "site" /\ dir # None /\ dir.files = job.ref /\ job.ref \in Commits
  BY JobFields DEF PublishStatic, Inv, TypeOK, Synced
<1>1. r \in Releases /\ r.commit = job.ref /\ r.content = job.ref
  BY <1>0 DEF Releases
<1>2. CASE Released(r)
  <2> HIDE DEF r
  <2> QED
    BY <1>0, <1>1, <1>2, ReleaseKeeps
<1>3. ASSUME Fail, UNCHANGED <<dir, scar>>
      PROVE  Inv'
  BY <1>0, <1>3, FailKeeps
<1> QED
  BY <1>2, <1>3 DEF PublishStatic

LEMMA BuildKeeps == ASSUME Inv, Build PROVE Inv'
<1> DEFINE r == [commit |-> job.ref, content |-> dir.files]
<1> USE DEF Running, Frame, outside, bounds
<1>0. /\ job \in Job /\ job.pc = "build" /\ dir # None /\ dir.files = job.ref
      /\ job.ref \in Commits /\ job.ref >= job.since
  BY JobFields DEF Build, Inv, TypeOK, Synced, Recent
<1>1. r \in Releases /\ r.commit = job.ref /\ r.content = job.ref
  BY <1>0 DEF Releases
<1>2. ASSUME job' = [job EXCEPT !.pc = "run", !.content = r], UNCHANGED <<dir, scar>>, Running
      PROVE  Inv'
  <2> HIDE DEF r
  <2>1. Made("run", r)
    BY <1>0, <1>1, <1>2, BuildMakes DEF Pcs
  <2>2. TypeOK'
    BY <1>0, <1>2, <2>1 DEF Made, Inv, TypeOK
  <2>3. HooksOfPushes' /\ Recent'
    BY <1>0, <1>2, <2>1 DEF Made, Inv, HooksOfPushes, Recent
  <2>4. CheckoutThere' /\ Synced' /\ Built' /\ ContainerOnly' /\ AsideInSwap' /\ AsideWhole'
    BY <1>0, <1>1, <1>2, <2>1, NoneIsNoRelease DEF Made, Inv, CheckoutThere, Synced, Built, ContainerOnly, AsideInSwap, AsideWhole
  <2>5. Honest' /\ WholeAtRest'
    BY <1>0, <1>2, <2>1 DEF Made, Inv, TypeOK, Honest, WholeAtRest, Damaged
  <2> QED
    BY <2>2, <2>3, <2>4, <2>5 DEF Inv
<1>3. ASSUME Fail, UNCHANGED <<dir, scar>>
      PROVE  Inv'
  BY <1>0, <1>3, FailKeeps
<1> QED
  BY <1>2, <1>3 DEF Build

LEMMA RunKeeps == ASSUME Inv, Run PROVE Inv'
<1>0. /\ job.pc = "run" /\ dir # None /\ dir.files \in Commits /\ strategy = "container"
      /\ job.content \in Releases /\ job.content.content = job.content.commit
  BY JobFields DEF Run, Inv, TypeOK, Synced, Built, ContainerOnly
<1>1. CASE Released(job.content)
  BY <1>0, <1>1, ReleaseKeeps
<1>2. ASSUME Fail, UNCHANGED <<dir, scar>>
      PROVE  Inv'
  BY <1>0, <1>2, FailKeeps
<1> QED
  BY <1>1, <1>2 DEF Run

LEMMA CrashKeeps == ASSUME Inv, Crash PROVE Inv'
<1> USE DEF Crash, outside
<1>1. Ended
  BY EndEnds
<1>2. scar' \in BOOLEAN /\ outcome' \in {"none", "ok", "failed", "killed"} /\ crashes' \in 0 .. MaxCrashes
  BY BoundsAssumption DEF Inv, TypeOK
<1>3. TypeOK'
  BY <1>1, <1>2 DEF Ended, Inv, TypeOK
<1>4. HooksOfPushes' /\ Recent'
  BY <1>1 DEF Ended, Inv, TypeOK, HooksOfPushes, Recent, Commits
<1>5. CheckoutThere' /\ Synced' /\ Built' /\ ContainerOnly' /\ AsideInSwap' /\ AsideWhole'
  BY <1>1 DEF Ended, CheckoutThere, Synced, Built, ContainerOnly, AsideInSwap, AsideWhole
<1>6. Honest'
  BY DEF Inv, TypeOK, Honest
<1>7. WholeAtRest'
  BY DEF Inv, AsideWhole, WholeAtRest, Damaged
<1> QED
  BY <1>3, <1>4, <1>5, <1>6, <1>7 DEF Inv

-----------------------------------------------------------------------------
(* The theorems.                                                           *)

LEMMA InvStep == Inv /\ [Next]_vars => Inv'
<1> SUFFICES ASSUME Inv, [Next]_vars PROVE Inv'
  OBVIOUS
<1> USE DEF outside, bounds
<1>0. /\ remote \in Commits /\ remote >= remote /\ hooks \in 0 .. MaxPushes /\ hooks <= remote
      /\ clicks \in 0 .. MaxClicks /\ crashes \in 0 .. MaxCrashes
  BY BoundsAssumption DEF Inv, TypeOK, HooksOfPushes, Commits
<1>1. CASE Push
  <2>1. /\ remote' \in Commits /\ remote' >= remote
        /\ hooks' \in 0 .. MaxPushes /\ hooks' <= remote'
    BY <1>0, <1>1, BoundsAssumption DEF Push, Commits
  <2> QED
    BY <1>0, <1>1, <2>1, OutsideKeeps DEF Push
<1>2. CASE LoseHook
  <2>1. hooks' \in 0 .. MaxPushes /\ hooks' <= remote
    BY <1>0, <1>2, BoundsAssumption DEF LoseHook, Commits
  <2> QED
    BY <1>0, <1>2, <2>1, OutsideKeeps DEF LoseHook
<1>3. CASE Deliver
  <2>1. hooks' \in 0 .. MaxPushes /\ hooks' <= remote
    BY <1>0, <1>3, BoundsAssumption DEF Deliver, Commits
  <2> QED
    BY <1>0, <1>3, <2>1, TriggerKeeps DEF Deliver
<1>4. CASE Click
  <2>1. clicks' \in 0 .. MaxClicks
    BY <1>0, <1>4, BoundsAssumption DEF Click
  <2> QED
    BY <1>0, <1>4, <2>1, TriggerKeeps DEF Click
<1>5. CASE Work
  BY <1>5, OpenKeeps, FetchKeeps, ResetKeeps, CleanKeeps, CloneKeeps, RetireKeeps, InstallKeeps,
     DetectKeeps, PublishStaticKeeps, BuildKeeps, RunKeeps DEF Work
<1>6. CASE Crash
  BY <1>6, CrashKeeps
<1>7. CASE UNCHANGED vars
  BY <1>0, <1>7, OutsideKeeps DEF vars
<1> QED
  BY <1>1, <1>2, <1>3, <1>4, <1>5, <1>6, <1>7 DEF Next

THEOREM Inductive == Spec => []Inv
BY InvInit, InvStep, PTL DEF Spec

(* Every variable keeps its type, and the flag of running jobs is up       *)
(* exactly while the job runs.                                             *)
THEOREM TypeCorrect == Spec => []TypeOK
BY Inductive, PTL DEF Inv

(* What is recorded as released is what visitors get, whatever was         *)
(* interrupted, lost or refused before (pull resets always, cloneSwap).    *)
THEOREM HonestRelease == Spec => []Honest
BY Inductive, PTL DEF Inv

(* Outside of the windows that WholeAtRest names, a project that is live   *)
(* has a whole working copy (pull, cloneSwap, swapDir).                    *)
THEOREM WholeTree == Spec => []WholeAtRest
BY Inductive, PTL DEF Inv

(* A job that succeeds releases what was pushed before it began.           *)
THEOREM FreshRelease == Spec => Fresh
<1>1. Inv /\ [Next]_vars => [ReleasesPushed]_vars
  <2> SUFFICES ASSUME Inv, [Next]_vars, live' # live PROVE ReleasesPushed
    BY DEF ReleasesPushed
  <2>1. CASE PublishStatic
    <3>1. live' = [commit |-> job.ref, content |-> dir.files] /\ job.ref >= job.since
      BY <2>1 DEF PublishStatic, Released, Fail, Inv, Recent
    <3>2. [commit |-> job.ref, content |-> dir.files] \in Releases
      BY <2>1, JobFields DEF PublishStatic, Inv, TypeOK, Synced, Releases
    <3> QED
      BY <3>1, <3>2, NoneIsNoRelease DEF ReleasesPushed
  <2>2. CASE Run
    BY <2>2 DEF Run, Released, Fail, Inv, Built, ReleasesPushed
  <2>3. UNCHANGED live \/ PublishStatic \/ Run
    BY DEF Next, Work, vars, Push, LoseHook, Deliver, Click, Open, Fetch, Reset, Clean, Clone,
           Retire, Install, Detect, Build, Crash, Running, Fail
  <2> QED
    BY <2>1, <2>2, <2>3
<1> QED
  BY <1>1, Inductive, PTL DEF Fresh, Spec
=============================================================================
