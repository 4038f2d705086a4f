--------------------------- MODULE ServicesProofs --------------------------
(***************************************************************************)
(* What holds of Services for any number of services, projects, requests   *)
(* and crashes: types, whole backups, passwords that open, no orphans.     *)
(***************************************************************************)
EXTENDS Services, FiniteSetTheorems, TLAPS

-----------------------------------------------------------------------------
(* The first inductive invariant: types, and what they rest on.            *)

(* A link's service exists: the foreign key.                               *)
LinksRefer == \A l \in links : Exists(l[2])

(* There is a password left for every provisioning that will ask for one.  *)
Waiting == {t \in Procs : job[t].pc \in {"mark", "get"}}
Budget == lastPass + Cardinality(Waiting) <= MaxPasswords

(* A container that runs has a data volume.                                *)
VolumesThere == \A n \in Names : cont[n] # None => vol[n] # None

Writing(t) == job[t].pc \in {"dump", "rename"}
Target(t) == <<job[t].name, job[t].sec>>

(* The .part of a backup is there while it is written, by its one writer.  *)
PartsThere == \A t \in Procs : Writing(t) => part[job[t].name][job[t].sec] # None
OneWriter == \A t, u \in Procs : Writing(t) /\ Writing(u) /\ Target(t) = Target(u) => t = u

(* What is renamed, and what is restored, is a whole dump.                 *)
DumpsWhole ==
  \A t \in Procs : job[t].pc = "rename" => part[job[t].name][job[t].sec] \in Contents
FeedsWhole ==
  \A t \in Procs : job[t].pc = "feed" => sql[job[t].name][job[t].sec] \in Contents

Backups == PartsThere /\ OneWriter /\ DumpsWhole /\ FeedsWhole /\ BackupsWhole

Inv == TypeOK /\ LinksRefer /\ Budget /\ VolumesThere /\ Backups

-----------------------------------------------------------------------------
(* The second: who works on a name, and what its database was given.       *)

Provisioning(t) == job[t].pc \in {"clear", "run", "save"}
Removing(t) == job[t].pc \in {"rmCont", "rmRow"}
Alone(n) == "overlap" \notin scar[n]
Seen(n) == scar[n] \cap {"overlap", "leaked", "killed"} = {}

(* A name is that of one service (UNIQUE).                                 *)
NamesUnique == \A i, k \in Ids : Exists(i) /\ Exists(k) /\ row[i].name = row[k].name => i = k

(* Two goroutines on one name have left their scar.                        *)
OneWorker == \A n \in Names : \A t, u \in Procs :
  Alone(n) /\ Working(t, n) /\ Working(u, n) => t = u

(* A goroutine works on the name of its service, which stays when nobody   *)
(* else works on that name.                                                *)
WorksOnOwn == \A t \in Procs : \A n \in Names :
  Working(t, n) =>
    /\ job[t].id < nextId
    /\ Exists(job[t].id) => row[job[t].id].name = n
    /\ Alone(n) => Exists(job[t].id)
    /\ Provisioning(t) /\ Exists(job[t].id) => Managed(job[t].id)

(* A provisioning that leaves no scar starts without a volume, and what it *)
(* reports as running has its password.                                    *)
FreshVolume == \A t \in Procs : \A n \in Names :
  Working(t, n) /\ scar[n] = {} /\ job[t].pc \in {"clear", "run"} => vol[n] = None
RunningOpens == \A t \in Procs : \A n \in Names :
  Working(t, n) /\ scar[n] = {} /\ job[t].pc = "save" /\ job[t].status = "running" =>
    cont[n] = job[t].creds /\ vol[n] # None /\ vol[n].pass = job[t].creds

(* The two halves of CredentialsHold, at any moment: the volume knows the  *)
(* password of a running service, and those it was injected with.          *)
VolumeOpens ==
  \A i \in Ids : IsUp(i) /\ scar[row[i].name] = {} =>
    /\ vol[row[i].name] # None /\ vol[row[i].name].pass = row[i].creds
    /\ Quiet(row[i].name) => cont[row[i].name] = row[i].creds
GivenOpens ==
  \A p \in Projects, i \in Ids :
    injected[p][i] # None /\ Managed(i) /\ injected[p][i].status = "running"
      /\ scar[row[i].name] = {} =>
        vol[row[i].name] # None /\ vol[row[i].name].pass = injected[p][i].creds
GivenBefore == \A p \in Projects, i \in Ids : injected[p][i] # None => i < nextId

(* A container has its service until the last step of its removal, before  *)
(* which it has gone.                                                      *)
Owned == \A n \in Names : cont[n] # None /\ Seen(n) => \E i \in Ids : Managed(i) /\ row[i].name = n
GoneFirst == \A t \in Procs : \A n \in Names :
  Working(t, n) /\ job[t].pc = "rmRow" /\ Seen(n) => cont[n] = None

NameInv == /\ NamesUnique /\ OneWorker /\ WorksOnOwn /\ FreshVolume /\ RunningOpens
           /\ VolumeOpens /\ GivenOpens /\ GivenBefore /\ Owned /\ GoneFirst
-----------------------------------------------------------------------------
(* What a step does to the goroutines' records.                            *)

Others(t) ==
  /\ job' \in [Procs -> Job]
  /\ \A u \in Procs : u # t => job'[u] = job[u]

Kept(t) ==
  /\ job'[t].id = job[t].id /\ job'[t].name = job[t].name /\ job'[t].creds = job[t].creds
  /\ job'[t].sec = job[t].sec /\ job'[t].project = job[t].project /\ job'[t].todo = job[t].todo

LEMMA IdleIsJob == Idle \in Job /\ Idle.pc = "idle" /\ Placed(Idle)
BY BoundsAssumption DEF Idle, Job, Pcs, Passwords, NoPass, Placed

LEMMA SetOthers ==
  ASSUME job \in [Procs -> Job], NEW t \in Procs, NEW j \in Job, job' = [job EXCEPT ![t] = j]
  PROVE  Others(t) /\ job'[t] = j
BY DEF Others

(* Goto.                                                                   *)
LEMMA GotoKeeps ==
  ASSUME job \in [Procs -> Job], NEW t \in Procs, NEW pc \in Pcs, Goto(t, pc)
  PROVE  Others(t) /\ Kept(t) /\ job'[t].pc = pc /\ job'[t].status = job[t].status
<1>1. [job[t] EXCEPT !.pc = pc] \in Job
  BY DEF Job
<1>2. job' = [job EXCEPT ![t] = [job[t] EXCEPT !.pc = pc]]
  BY DEF Goto
<1> QED
  BY <1>1, <1>2, SetOthers DEF Kept, Job

(* Ran.                                                                    *)
LEMMA RanKeeps ==
  ASSUME job \in [Procs -> Job], NEW t \in Procs, NEW st \in {"running", "failed"}, Ran(t, st)
  PROVE  Others(t) /\ Kept(t) /\ job'[t].pc = "save" /\ job'[t].status = st
<1>1. [job[t] EXCEPT !.pc = "save", !.status = st] \in Job
  BY DEF Job, Pcs
<1>2. job' = [job EXCEPT ![t] = [job[t] EXCEPT !.pc = "save", !.status = st]]
  BY DEF Ran
<1> QED
  BY <1>1, <1>2, SetOthers DEF Kept, Job

(* Exit.                                                                   *)
LEMMA ExitIdles ==
  ASSUME job \in [Procs -> Job], NEW t \in Procs, Exit(t)
  PROVE  Others(t) /\ job'[t] = Idle /\ job'[t].pc = "idle" /\ Placed(job'[t])
BY SetOthers, IdleIsJob DEF Exit

LEMMA JobFields ==
  ASSUME NEW j \in Job
  PROVE  /\ j.pc \in Pcs /\ j.id \in Ids \cup {None} /\ j.name \in Names \cup {None}
         /\ j.creds \in Passwords /\ j.status \in {"", "running", "failed"}
         /\ j.sec \in Seconds \cup {None} /\ j.project \in Projects \cup {None}
         /\ j.todo \in SUBSET Ids
BY DEF Job

LEMMA RowFields ==
  ASSUME NEW r \in Row
  PROVE  /\ r.name \in Names /\ r.engine \in Engines /\ r.mode \in {"managed", "external"}
         /\ r.status \in {"", "running", "failed", "external"} /\ r.creds \in Passwords \cup {Url}
BY DEF Row

LEMMA LinkFields == TypeOK => \A l \in links : l[1] \in Projects /\ l[2] \in Ids
BY DEF TypeOK

LEMMA VolumeFields == \A v \in Volume : v.pass \in Passwords /\ v.data \in Contents
BY DEF Volume

LEMMA NoPassIsPassword == NoPass \in Passwords
BY BoundsAssumption DEF Passwords, NoPass

LEMMA NoneIsNothing ==
  /\ None \notin Row /\ None \notin Volume /\ None \notin Given /\ None \notin Names
  /\ None \notin Projects /\ None \notin Seconds /\ None \notin Contents /\ None # Half
  /\ None \notin Ids /\ None \notin Passwords
BY ValuesAssumption, RecordsAssumption, BoundsAssumption DEF Contents, Ids, Passwords, NoPass

(* Three values of which there are three are different.                    *)
LEMMA HalfIsNotWhole == Half \notin Contents
<1> SUFFICES ASSUME Half \in Contents PROVE FALSE
  OBVIOUS
<1> DEFINE P == {Data, Mixed}
<1>1. {Data, Half, Mixed} = P
  BY DEF Contents
<1>2. IsFiniteSet({Data}) /\ Cardinality({Data}) = 1
  BY FS_Singleton
<1>3. P = {Data} \cup {Mixed}
  OBVIOUS
<1>4. Cardinality(P) <= 2
  <2>1. Cardinality({Data} \cup {Mixed}) = IF Mixed \in {Data} THEN Cardinality({Data}) ELSE Cardinality({Data}) + 1
    BY <1>2, FS_AddElement
  <2> QED
    BY <1>2, <1>3, <2>1
<1> QED
  BY <1>1, <1>4, ValuesAssumption

-----------------------------------------------------------------------------
(* Steps that leave a part of the invariant alone.                         *)

LEMMA WaitingFinite == IsFiniteSet(Waiting) /\ Cardinality(Waiting) \in Nat
<1>1. IsFiniteSet(Waiting)
  BY ValuesAssumption, FS_Subset DEF Waiting
<1> QED
  BY <1>1, FS_CardinalityType

LEMMA BudgetFrame ==
  ASSUME Inv, NEW t \in Procs, Others(t), lastPass' = lastPass,
         job'[t].pc \in {"mark", "get"} => job[t].pc \in {"mark", "get"}
  PROVE  Budget'
<1>1. Waiting' \subseteq Waiting
  BY DEF Waiting, Others
<1>2. Cardinality(Waiting') <= Cardinality(Waiting) /\ Cardinality(Waiting') \in Nat
  BY <1>1, WaitingFinite, FS_Subset, FS_CardinalityType
<1> QED
  BY <1>2, WaitingFinite, BoundsAssumption DEF Inv, Budget, TypeOK, Passwords, NoPass

LEMMA BudgetGrows ==
  ASSUME Inv, NEW t \in Procs, Others(t), lastPass' = lastPass, MayProvision
  PROVE  Budget'
<1>1. Waiting' \subseteq Waiting \cup {t}
  BY DEF Waiting, Others
<1>2. IsFiniteSet(Waiting \cup {t}) /\ Cardinality(Waiting \cup {t}) <= Cardinality(Waiting) + 1
      /\ Cardinality(Waiting \cup {t}) \in Nat
  BY WaitingFinite, FS_AddElement, FS_CardinalityType
<1>3. Cardinality(Waiting') <= Cardinality(Waiting \cup {t}) /\ Cardinality(Waiting') \in Nat
  BY <1>1, <1>2, FS_Subset, FS_CardinalityType
<1>4. lastPass + Cardinality(Waiting) < MaxPasswords
  BY DEF MayProvision, Waiting
<1> QED
  BY <1>2, <1>3, <1>4, WaitingFinite, BoundsAssumption DEF Inv, Budget, TypeOK, Passwords, NoPass

(* GetService turns one that waits for a password into one that has it.    *)
LEMMA BudgetSpent ==
  ASSUME Inv, NEW t \in Procs, Others(t), job[t].pc = "get", job'[t].pc \notin {"mark", "get"},
         lastPass' \in {lastPass, lastPass + 1}
  PROVE  Budget' /\ lastPass' \in Passwords /\ lastPass + 1 \in Passwords
<1>1. Waiting' = Waiting \ {t} /\ t \in Waiting
  BY DEF Waiting, Others
<1>2. Cardinality(Waiting') = Cardinality(Waiting) - 1
  BY <1>1, WaitingFinite, FS_RemoveElement
<1>3. Cardinality(Waiting) >= 1
  <2>1. IsFiniteSet(Waiting') /\ Cardinality(Waiting') \in Nat
    BY <1>1, WaitingFinite, FS_RemoveElement, FS_CardinalityType
  <2> QED
    BY <2>1, <1>2, WaitingFinite
<1> QED
  BY <1>2, <1>3, WaitingFinite, BoundsAssumption DEF Inv, Budget, TypeOK, Passwords, NoPass

LEMMA BackupsFrame ==
  ASSUME Inv, NEW t \in Procs, Others(t), UNCHANGED files,
         job'[t].pc \notin {"dump", "rename", "feed"}
  PROVE  Backups'
<1> USE DEF files, Others
<1>1. PartsThere' /\ OneWriter'
  BY DEF Inv, Backups, PartsThere, OneWriter, Writing, Target
<1>2. DumpsWhole' /\ FeedsWhole'
  BY DEF Inv, Backups, DumpsWhole, FeedsWhole
<1>3. BackupsWhole'
  BY DEF Inv, Backups, BackupsWhole, ListBackups
<1> QED
  BY <1>1, <1>2, <1>3 DEF Backups
-----------------------------------------------------------------------------
(* Every step keeps the first invariant.                                   *)

LEMMA InvInit == Init => Inv
<1> SUFFICES ASSUME Init PROVE Inv
  OBVIOUS
<1> USE DEF Init
<1>1. \A t \in Procs : job[t] = Idle /\ job[t].pc = "idle"
  BY IdleIsJob
<1>2. TypeOK
  BY <1>1, IdleIsJob, BoundsAssumption DEF TypeOK, Passwords, NoPass
<1>3. LinksRefer /\ VolumesThere
  BY DEF LinksRefer, VolumesThere
<1>4. Budget
  <2>1. Waiting = {}
    BY <1>1 DEF Waiting
  <2> QED
    BY <2>1, FS_EmptySet, BoundsAssumption DEF Budget, NoPass
<1>5. Backups
  BY <1>1, NoneIsNothing DEF Backups, PartsThere, OneWriter, DumpsWhole, FeedsWhole, BackupsWhole, Writing, ListBackups
<1> QED
  BY <1>2, <1>3, <1>4, <1>5 DEF Inv

(* Steps that change one goroutine's record, and the flags, only.          *)
LEMMA JobStepKeeps ==
  ASSUME Inv, NEW t \in Procs, Others(t), Placed(job'[t]), busy' \in [Ids -> BOOLEAN],
         scar' \in [Names -> SUBSET Scars], Budget',
         job'[t].pc \notin {"dump", "rename", "feed"},
         UNCHANGED <<store, docker, files, others>>
  PROVE  Inv'
<1> USE DEF store, docker, files, others
<1>1. TypeOK'
  BY DEF Inv, TypeOK, Others
<1>2. LinksRefer' /\ VolumesThere'
  BY DEF Inv, LinksRefer, Exists, VolumesThere
<1>3. Backups'
  BY BackupsFrame
<1> QED
  BY <1>1, <1>2, <1>3 DEF Inv

LEMMA ScarTyped ==
  ASSUME TypeOK, NEW n \in Names, NEW s \in SUBSET Scars, scar' = Scar(n, s)
  PROVE  scar' \in [Names -> SUBSET Scars]
BY DEF TypeOK, Scar

(* The INSERT of a service.                                                *)
LEMMA RowAdded ==
  ASSUME TypeOK, nextId \in Ids, nextId' = nextId + 1, NEW r \in Row,
         row' = [row EXCEPT ![nextId] = r]
  PROVE  /\ row' \in [Ids -> Row \cup {None}] /\ nextId' \in 1 .. MaxServices + 1
         /\ row'[nextId] = r /\ \A i \in Ids : i # nextId => row'[i] = row[i]
         /\ \A i \in Ids : i >= nextId' => row'[i] = None
         /\ \A i \in Ids : Exists(i) => i # nextId /\ Exists(i)'
<1>1. /\ row' \in [Ids -> Row \cup {None}] /\ row'[nextId] = r
      /\ \A i \in Ids : i # nextId => row'[i] = row[i]
  BY DEF TypeOK
<1>2. nextId' \in 1 .. MaxServices + 1
  BY BoundsAssumption DEF Ids
<1>3. \A i \in Ids : i >= nextId + 1 => i # nextId /\ i >= nextId
  BY BoundsAssumption DEF Ids
<1>4. row[nextId] = None
  <2>1. nextId >= nextId
    BY DEF Ids
  <2> QED
    BY <2>1 DEF TypeOK
<1>5. \A i \in Ids : i >= nextId + 1 => row'[i] = None
  BY <1>1, <1>3 DEF TypeOK
<1>6. \A i \in Ids : Exists(i) => i # nextId /\ Exists(i)'
  BY <1>1, <1>4 DEF Exists
<1> QED
  BY <1>1, <1>2, <1>5, <1>6

LEMMA CreateKeeps ==
  ASSUME Inv, NEW t \in Procs, NEW n \in Names, NEW e \in Engines,
         NEW m \in {"managed", "external"}, CreateService(t, n, e, m)
  PROVE  Inv'
<1> USE DEF CreateService, docker, files, others
<1> DEFINE j == [Idle EXCEPT !.pc = "mark", !.id = nextId]
<1>1. j \in Job /\ j.pc = "mark" /\ Placed(j)
  BY IdleIsJob, NoneIsNothing DEF Job, Pcs, Placed, Idle
<1>2. Others(t) /\ job'[t].pc \in {job[t].pc, "mark"} /\ Placed(job'[t])
  <2>1. CASE m = "managed"
    BY <2>1, <1>1, SetOthers DEF Inv, TypeOK
  <2>2. CASE m = "external"
    BY <2>2 DEF Others, Inv, TypeOK
  <2> QED
    BY <2>1, <2>2
<1> DEFINE r == [name |-> n, engine |-> e, mode |-> m,
                 status |-> IF m = "external" THEN "external" ELSE "",
                 creds |-> IF m = "external" THEN Url ELSE NoPass]
<1>3. r \in Row
  <2>1. r.status \in {"", "external"} /\ r.creds \in {NoPass, Url}
    OBVIOUS
  <2> QED
    BY <2>1, NoPassIsPassword DEF Row
<1>4. row' = [row EXCEPT ![nextId] = r]
  OBVIOUS
<1> HIDE DEF r, j
<1>5. /\ row' \in [Ids -> Row \cup {None}] /\ nextId' \in 1 .. MaxServices + 1
      /\ \A i \in Ids : i >= nextId' => row'[i] = None
      /\ \A i \in Ids : Exists(i) => Exists(i)'
  BY <1>3, <1>4, RowAdded DEF Inv
<1>6. TypeOK'
  BY <1>2, <1>5 DEF Inv, TypeOK, Others
<1>7. LinksRefer' /\ VolumesThere'
  BY <1>5, LinkFields DEF Inv, LinksRefer, VolumesThere
<1>8. Budget'
  <2>1. CASE m = "managed"
    BY <2>1, <1>2, BudgetGrows
  <2>2. CASE m = "external"
    BY <2>2, <1>2, BudgetFrame
  <2> QED
    BY <2>1, <2>2
<1>9. Backups'
  BY <1>2, BackupsFrame
<1> QED
  BY <1>6, <1>7, <1>8, <1>9 DEF Inv

LEMMA TriggerKeeps ==
  ASSUME Inv, NEW t \in Procs, NEW i \in Ids, TriggerProvision(t, i)
  PROVE  Inv'
<1> USE DEF TriggerProvision
<1> DEFINE j == [Idle EXCEPT !.pc = "mark", !.id = i]
<1>1. j \in Job /\ j.pc = "mark" /\ Placed(j)
  BY IdleIsJob, NoneIsNothing DEF Job, Pcs, Placed, Idle
<1>2. Others(t) /\ job'[t] = j
  BY <1>1, SetOthers DEF Inv, TypeOK
<1>3. Budget'
  BY <1>2, BudgetGrows DEF others
<1> QED
  BY <1>1, <1>2, <1>3, JobStepKeeps DEF Inv, TypeOK

LEMMA MarkKeeps == ASSUME Inv, NEW t \in Procs, Mark(t) PROVE Inv'
<1> USE DEF Mark
<1>1. Others(t) /\ Kept(t) /\ job'[t].pc = "get" /\ job'[t].status = job[t].status
  BY GotoKeeps DEF Inv, TypeOK, Pcs
<1>2. Placed(job'[t])
  BY <1>1 DEF Inv, TypeOK, Placed, Kept
<1>3. Budget'
  BY <1>1, BudgetFrame DEF others
<1>4. busy' \in [Ids -> BOOLEAN] /\ scar' \in [Names -> SUBSET Scars]
  BY DEF Inv, TypeOK
<1> QED
  BY <1>1, <1>2, <1>3, <1>4, JobStepKeeps

(* UPDATE of a row keeps everything but its status and credentials.        *)
LEMMA WrittenRow ==
  ASSUME TypeOK, NEW i \in Ids, NEW st \in {"", "running", "failed", "external"},
         NEW c \in Passwords \cup {Url}, row' = Written(i, st, c)
  PROVE  /\ row' \in [Ids -> Row \cup {None}]
         /\ \A k \in Ids : (row'[k] = None) <=> (row[k] = None)
         /\ \A k \in Ids : row[k] # None => /\ row'[k].name = row[k].name /\ row'[k].mode = row[k].mode
                                            /\ row'[k].engine = row[k].engine
         /\ \A k \in Ids : k # i => row'[k] = row[k]
         /\ Exists(i) => row'[i].status = st /\ row'[i].creds = c
<1>1. CASE ~Exists(i)
  BY <1>1 DEF Written, Exists, TypeOK
<1>2. CASE Exists(i)
  <2> DEFINE r == [row[i] EXCEPT !.status = st, !.creds = c]
  <2>1. row[i] \in Row
    BY <1>2 DEF TypeOK, Exists
  <2>2. r \in Row /\ r.name = row[i].name /\ r.mode = row[i].mode /\ r.engine = row[i].engine
        /\ r.status = st /\ r.creds = c
    BY <2>1 DEF Row
  <2>3. row' = [row EXCEPT ![i] = r]
    BY <1>2 DEF Written
  <2> HIDE DEF r
  <2>4. row' \in [Ids -> Row \cup {None}] /\ row'[i] = r /\ \A k \in Ids : k # i => row'[k] = row[k]
    BY <2>2, <2>3 DEF TypeOK
  <2> QED
    BY <1>2, <2>2, <2>4, NoneIsNothing DEF Exists
<1> QED
  BY <1>1, <1>2

LEMMA WrittenKeeps ==
  ASSUME Inv, NEW t \in Procs, NEW i \in Ids, NEW st \in {"", "running", "failed", "external"},
         NEW c \in Passwords \cup {Url}, row' = Written(i, st, c),
         Others(t), Placed(job'[t]), lastPass' = lastPass,
         job'[t].pc \notin {"mark", "get", "dump", "rename", "feed"},
         UNCHANGED <<nextId, links, docker, files, busy, injected, crashes, scar>>
  PROVE  Inv'
<1> USE DEF docker, files
<1>1. /\ row' \in [Ids -> Row \cup {None}]
      /\ \A k \in Ids : (row'[k] = None) <=> (row[k] = None)
  BY WrittenRow DEF Inv
<1>2. TypeOK'
  BY <1>1 DEF Inv, TypeOK, Others
<1>3. LinksRefer' /\ VolumesThere'
  BY <1>1 DEF Inv, TypeOK, LinksRefer, Exists, VolumesThere
<1>4. Budget' /\ Backups'
  BY BudgetFrame, BackupsFrame
<1> QED
  BY <1>2, <1>3, <1>4 DEF Inv

LEMMA GetKeeps == ASSUME Inv, NEW t \in Procs, GetService(t) PROVE Inv'
<1> USE DEF GetService
<1> DEFINE i == job[t].id
<1>0. i \in Ids /\ job[t] \in Job /\ Placed(job[t]) /\ job[t].pc = "get"
  BY JobFields DEF Inv, TypeOK, Placed
<1>1. CASE ~Managed(i)
  <2>1. Others(t) /\ Kept(t) /\ job'[t].pc = "end" /\ job'[t].status = job[t].status
        /\ lastPass' = lastPass /\ scar' = scar
    BY <1>1, GotoKeeps DEF Managed, Inv, TypeOK, Pcs
  <2>2. Placed(job'[t])
    BY <1>0, <2>1 DEF Placed, Kept
  <2>3. CASE row' = row
    <3>1. Budget'
      BY <2>1, BudgetFrame
    <3>2. scar' \in [Names -> SUBSET Scars] /\ busy' \in [Ids -> BOOLEAN]
      BY <2>1 DEF Inv, TypeOK
    <3> QED
      BY <2>1, <2>2, <2>3, <3>1, <3>2, JobStepKeeps DEF store, others
  <2>4. CASE Exists(i) /\ row' = Written(i, "external", row[i].creds)
    <3>1. row[i].creds \in Passwords \cup {Url}
      BY <1>0, <2>4, RowFields DEF Inv, TypeOK, Exists
    <3> QED
      BY <1>0, <2>1, <2>2, <2>4, <3>1, WrittenKeeps
  <2> QED
    BY <1>1, <2>3, <2>4 DEF Managed
<1>2. CASE Managed(i)
  <2> DEFINE j == [job[t] EXCEPT !.pc = "clear", !.name = row[i].name, !.creds = FreshPass(row[i].engine)]
  <2>1. row[i] \in Row /\ row[i].name \in Names /\ row[i].engine \in Engines
    BY <1>0, <1>2, RowFields DEF Managed, Exists, Inv, TypeOK
  <2>2. job' = [job EXCEPT ![t] = j]
    BY <1>0, <1>2 DEF Managed
  <2>3. lastPass' \in {lastPass, lastPass + 1} /\ FreshPass(row[i].engine) \in {NoPass, lastPass + 1}
    BY <1>0, <1>2 DEF Managed, FreshPass
  <2>4. lastPass + 1 \in Passwords
    <3>1. 1 <= Cardinality(Waiting)
      <4>1. t \in Waiting /\ Waiting # {}
        BY <1>0 DEF Waiting
      <4> QED
        BY <4>1, WaitingFinite, FS_EmptySet
    <3> QED
      BY <3>1, WaitingFinite, BoundsAssumption DEF Inv, TypeOK, Budget, Passwords, NoPass
  <2>5. j \in Job /\ Placed(j) /\ j.pc = "clear"
    <3>1. FreshPass(row[i].engine) \in Passwords
      BY <2>3, <2>4, BoundsAssumption DEF Passwords, NoPass
    <3> QED
      BY <1>0, <2>1, <3>1, NoneIsNothing DEF Job, Pcs, Placed
  <2>6. Others(t) /\ job'[t] = j
    BY <2>2, <2>5, SetOthers DEF Inv, TypeOK
  <2> HIDE DEF j
  <2>7. Budget' /\ lastPass' \in Passwords
    BY <1>0, <2>3, <2>5, <2>6, BudgetSpent
  <2>8. scar' \in [Names -> SUBSET Scars]
    <3> DEFINE s == (IF Overlaps(t, row[i].name) THEN {"overlap"} ELSE {}) \cup
                    (IF vol[row[i].name] # None THEN {"again"} ELSE {})
    <3>1. s \in SUBSET Scars
      BY DEF Scars
    <3>2. scar' = Scar(row[i].name, s)
      BY <1>0, <1>2 DEF Managed
    <3> QED
      BY <2>1, <3>1, <3>2, ScarTyped DEF Inv
  <2>9. row' = row
    BY <1>0, <1>2 DEF Managed
  <2>10. TypeOK'
    BY <2>5, <2>6, <2>7, <2>8, <2>9 DEF Inv, TypeOK, Others, docker, files
  <2>11. LinksRefer' /\ VolumesThere'
    BY <2>9 DEF Inv, LinksRefer, Exists, VolumesThere, docker
  <2>12. Backups'
    BY <2>5, <2>6, BackupsFrame
  <2> QED
    BY <2>7, <2>10, <2>11, <2>12 DEF Inv
<1> QED
  BY <1>1, <1>2
(* Steps on the containers and the volumes.                                *)
LEMMA DockerStepKeeps ==
  ASSUME Inv, NEW t \in Procs, Others(t), Placed(job'[t]),
         cont' \in [Names -> Passwords \cup {None}], vol' \in [Names -> Volume \cup {None}],
         \A n \in Names : cont'[n] # None => vol'[n] # None,
         scar' \in [Names -> SUBSET Scars],
         job'[t].pc \notin {"mark", "get", "dump", "rename", "feed"},
         UNCHANGED <<store, files, busy, others>>
  PROVE  Inv'
<1> USE DEF store, files, others
<1>1. TypeOK'
  BY DEF Inv, TypeOK, Others
<1>2. LinksRefer' /\ VolumesThere'
  BY DEF Inv, LinksRefer, Exists, VolumesThere
<1>3. Budget' /\ Backups'
  BY BudgetFrame, BackupsFrame
<1> QED
  BY <1>1, <1>2, <1>3 DEF Inv

LEMMA RemovedTyped ==
  ASSUME Inv, NEW n \in Names, cont' \in {cont, Removed(n)}, vol' = vol
  PROVE  /\ cont' \in [Names -> Passwords \cup {None}]
         /\ \A k \in Names : cont'[k] # None => vol'[k] # None
         /\ cont' = Removed(n) => cont'[n] = None
         /\ \A k \in Names : k # n => cont'[k] = cont[k]
         /\ cont'[n] # None => cont' = cont
BY DEF Inv, TypeOK, VolumesThere, Removed

LEMMA ClearKeeps == ASSUME Inv, NEW t \in Procs, ClearStale(t) PROVE Inv'
<1> USE DEF ClearStale
<1>0. job[t] \in Job /\ Placed(job[t]) /\ job[t].name \in Names
  BY JobFields DEF Inv, TypeOK, Placed
<1>1. Others(t) /\ Kept(t) /\ job'[t].pc = "run" /\ job'[t].status = job[t].status
  BY GotoKeeps DEF Inv, TypeOK, Pcs
<1>2. Placed(job'[t])
  BY <1>0, <1>1 DEF Placed, Kept
<1>3. /\ cont' \in [Names -> Passwords \cup {None}]
      /\ \A k \in Names : cont'[k] # None => vol'[k] # None
  BY <1>0, RemovedTyped
<1>4. scar' \in [Names -> SUBSET Scars] /\ vol' \in [Names -> Volume \cup {None}]
  BY DEF Inv, TypeOK
<1> QED
  BY <1>1, <1>2, <1>3, <1>4, DockerStepKeeps

(* docker run, as RunService uses it: either it ran, or it changed nothing. *)
LEMMA BootedTyped ==
  ASSUME Inv, NEW n \in Names, NEW c \in Passwords,
         cont' = [cont EXCEPT ![n] = c], vol' = Booted(n, c)
  PROVE  /\ cont' \in [Names -> Passwords \cup {None}] /\ vol' \in [Names -> Volume \cup {None}]
         /\ \A k \in Names : cont'[k] # None => vol'[k] # None
         /\ cont'[n] = c /\ vol'[n] # None
         /\ \A k \in Names : k # n => cont'[k] = cont[k] /\ vol'[k] = vol[k]
         /\ vol[n] = None => vol'[n].pass = c
         /\ vol[n] # None => vol' = vol
<1>1. [pass |-> c, data |-> Data] \in Volume
  BY DEF Volume, Contents
<1>2. cont' \in [Names -> Passwords \cup {None}] /\ cont'[n] = c /\ c # None
      /\ \A k \in Names : k # n => cont'[k] = cont[k]
  BY NoneIsNothing DEF Inv, TypeOK
<1>3. CASE vol[n] = None
  <2>1. vol' = [vol EXCEPT ![n] = [pass |-> c, data |-> Data]]
    BY <1>3 DEF Booted
  <2>2. vol' \in [Names -> Volume \cup {None}] /\ vol'[n] = [pass |-> c, data |-> Data]
        /\ \A k \in Names : k # n => vol'[k] = vol[k]
    BY <2>1, <1>1 DEF Inv, TypeOK
  <2> QED
    BY <1>1, <1>2, <1>3, <2>2, NoneIsNothing DEF Inv, VolumesThere
<1>4. CASE vol[n] # None
  <2>1. vol' = vol
    BY <1>4 DEF Booted
  <2> QED
    BY <1>2, <1>4, <2>1 DEF Inv, TypeOK, VolumesThere
<1> QED
  BY <1>3, <1>4

LEMMA RunKeeps == ASSUME Inv, NEW t \in Procs, RunService(t) PROVE Inv'
<1>0. job[t] \in Job /\ Placed(job[t]) /\ job[t].name \in Names /\ job[t].creds \in Passwords
      /\ job[t].pc = "run"
  BY JobFields DEF Inv, TypeOK, Placed, RunService
<1>1. PICK st \in {"running", "failed"} : Ran(t, st)
  BY DEF RunService
<1>2. Others(t) /\ Kept(t) /\ job'[t].pc = "save" /\ job'[t].status = st
  BY <1>1, RanKeeps DEF Inv, TypeOK
<1>3. Placed(job'[t])
  BY <1>0, <1>2 DEF Placed, Kept
<1>4. /\ cont' \in [Names -> Passwords \cup {None}] /\ vol' \in [Names -> Volume \cup {None}]
      /\ \A k \in Names : cont'[k] # None => vol'[k] # None
  <2>1. CASE /\ cont' = [cont EXCEPT ![job[t].name] = job[t].creds]
             /\ vol' = Booted(job[t].name, job[t].creds)
    BY <1>0, <2>1, BootedTyped
  <2>2. CASE UNCHANGED docker
    BY <2>2 DEF docker, Inv, TypeOK, VolumesThere
  <2> QED
    BY <2>1, <2>2 DEF RunService
<1>5. scar' \in [Names -> SUBSET Scars] /\ UNCHANGED <<store, files, busy, others>>
  BY DEF RunService, Inv, TypeOK
<1> QED
  BY <1>2, <1>3, <1>4, <1>5, DockerStepKeeps

LEMMA SaveKeeps == ASSUME Inv, NEW t \in Procs, SaveService(t) PROVE Inv'
<1> USE DEF SaveService
<1>0. job[t] \in Job /\ Placed(job[t]) /\ job[t].id \in Ids /\ job[t].creds \in Passwords \cup {Url}
      /\ job[t].status \in {"", "running", "failed", "external"}
  BY JobFields DEF Inv, TypeOK, Placed
<1>1. Others(t) /\ Kept(t) /\ job'[t].pc = "end" /\ job'[t].status = job[t].status
  BY GotoKeeps DEF Inv, TypeOK, Pcs
<1>2. Placed(job'[t])
  BY <1>0, <1>1 DEF Placed, Kept
<1> QED
  BY <1>0, <1>1, <1>2, WrittenKeeps DEF others

LEMMA DoneKeeps == ASSUME Inv, NEW t \in Procs, Done(t) PROVE Inv'
<1> USE DEF Done
<1>1. Others(t) /\ job'[t].pc = "idle" /\ Placed(job'[t])
  BY ExitIdles DEF Inv, TypeOK
<1>2. Budget'
  BY <1>1, BudgetFrame DEF others
<1>3. busy' \in [Ids -> BOOLEAN] /\ scar' \in [Names -> SUBSET Scars]
  BY DEF Inv, TypeOK
<1> QED
  BY <1>1, <1>2, <1>3, JobStepKeeps

LEMMA RemoveKeeps ==
  ASSUME Inv, NEW t \in Procs, NEW i \in Ids, RemoveService(t, i)
  PROVE  Inv'
<1> USE DEF RemoveService
<1>0. row[i] \in Row /\ row[i].name \in Names
  BY RowFields DEF Inv, TypeOK, Exists
<1> DEFINE j == [Idle EXCEPT !.id = i, !.name = row[i].name,
                  !.pc = IF row[i].mode = "managed" THEN "rmCont" ELSE "rmRow"]
<1>1. j \in Job /\ j.pc \in {"rmCont", "rmRow"} /\ Placed(j)
  BY <1>0, NoneIsNothing, NoPassIsPassword DEF Job, Pcs, Placed, Idle
<1>2. Others(t) /\ job'[t] = j
  BY <1>1, SetOthers DEF Inv, TypeOK
<1> HIDE DEF j
<1>3. Budget'
  BY <1>1, <1>2, BudgetFrame DEF others
<1>4. scar' \in [Names -> SUBSET Scars]
  <2>1. (IF Overlaps(t, row[i].name) THEN {"overlap"} ELSE {}) \in SUBSET Scars
    BY DEF Scars
  <2> QED
    BY <1>0, <2>1, ScarTyped DEF Inv
<1>5. busy' \in [Ids -> BOOLEAN]
  BY DEF Inv, TypeOK
<1> QED
  BY <1>1, <1>2, <1>3, <1>4, <1>5, JobStepKeeps

LEMMA RemoveContainerKeeps == ASSUME Inv, NEW t \in Procs, RemoveContainer(t) PROVE Inv'
<1> USE DEF RemoveContainer
<1>0. job[t] \in Job /\ Placed(job[t]) /\ job[t].name \in Names
  BY JobFields DEF Inv, TypeOK, Placed
<1>1. Others(t) /\ Kept(t) /\ job'[t].pc = "rmRow" /\ job'[t].status = job[t].status
  BY GotoKeeps DEF Inv, TypeOK, Pcs
<1>2. Placed(job'[t])
  BY <1>0, <1>1 DEF Placed, Kept
<1>3. /\ cont' \in [Names -> Passwords \cup {None}]
      /\ \A k \in Names : cont'[k] # None => vol'[k] # None
  BY <1>0, RemovedTyped
<1>4. scar' \in [Names -> SUBSET Scars] /\ vol' \in [Names -> Volume \cup {None}]
  <2>1. {"leaked"} \in SUBSET Scars
    BY DEF Scars
  <2> QED
    BY <1>0, <2>1, ScarTyped DEF Inv, TypeOK
<1> QED
  BY <1>1, <1>2, <1>3, <1>4, DockerStepKeeps

LEMMA DeleteKeeps == ASSUME Inv, NEW t \in Procs, DeleteService(t) PROVE Inv'
<1> USE DEF DeleteService, docker, files, others
<1>0. job[t].id \in Ids
  BY JobFields DEF Inv, TypeOK, Placed
<1>1. Others(t) /\ job'[t].pc = "idle" /\ Placed(job'[t])
  BY ExitIdles DEF Inv, TypeOK
<1>2. row' \in [Ids -> Row \cup {None}] /\ \A i \in Ids : i # job[t].id => row'[i] = row[i]
      /\ row'[job[t].id] = None
  BY <1>0 DEF Inv, TypeOK
<1>3. links' \subseteq links /\ \A l \in links' : l[2] # job[t].id
  BY DEF Cascade
<1>4. TypeOK'
  BY <1>1, <1>2, <1>3 DEF Inv, TypeOK, Others
<1>5. LinksRefer' /\ VolumesThere'
  BY <1>2, <1>3, LinkFields DEF Inv, LinksRefer, Exists, VolumesThere
<1>6. Budget' /\ Backups'
  BY <1>1, BudgetFrame, BackupsFrame
<1> QED
  BY <1>4, <1>5, <1>6 DEF Inv

-----------------------------------------------------------------------------
(* Steps on the links, and a deploy, which reads them.                     *)
LEMMA LinksStepKeeps ==
  ASSUME Inv, NEW t \in Procs, Others(t), Placed(job'[t]),
         links' \subseteq Projects \X Ids, \A l \in links' : Exists(l[2]),
         injected' \in [Projects -> [Ids -> Given \cup {None}]],
         job'[t].pc \in {job[t].pc, "idle", "link"},
         job' = job \/ job'[t].pc \in {"idle", "link"},
         UNCHANGED <<row, nextId, docker, files, busy, lastPass, crashes, scar>>
  PROVE  Inv'
<1> USE DEF docker, files
<1>1. TypeOK'
  BY DEF Inv, TypeOK, Others
<1>2. LinksRefer' /\ VolumesThere'
  BY DEF Inv, LinksRefer, Exists, VolumesThere
<1>3. Budget'
  BY BudgetFrame
<1>4. Backups'
  <2>1. CASE job' = job
    BY <2>1 DEF Inv, Backups, PartsThere, OneWriter, Writing, Target, DumpsWhole, FeedsWhole, BackupsWhole, ListBackups
  <2>2. CASE job'[t].pc \in {"idle", "link"}
    BY <2>2, BackupsFrame
  <2> QED
    BY <2>1, <2>2
<1> QED
  BY <1>1, <1>2, <1>3, <1>4 DEF Inv

LEMMA UnlinkKeeps ==
  ASSUME Inv, NEW t \in Procs, NEW p \in Projects, NEW ids \in SUBSET Ids, Unlink(t, p, ids)
  PROVE  Inv'
<1> USE DEF Unlink
<1> DEFINE j == [Idle EXCEPT !.pc = "link", !.project = p, !.todo = ids]
<1>1. j \in Job /\ Placed(j) /\ j.pc = "link"
  BY NoPassIsPassword, NoneIsNothing DEF Job, Pcs, Placed, Idle
<1>2. Others(t) /\ Placed(job'[t]) /\ (job' = job \/ job'[t].pc = "link")
  <2>1. CASE ids = {}
    BY <2>1 DEF Others, Inv, TypeOK
  <2>2. CASE ids # {}
    BY <2>2, <1>1, SetOthers DEF Inv, TypeOK
  <2> QED
    BY <2>1, <2>2
<1>3. links' \subseteq links
  OBVIOUS
<1>4. /\ links' \subseteq Projects \X Ids /\ \A l \in links' : Exists(l[2])
      /\ injected' \in [Projects -> [Ids -> Given \cup {None}]]
  BY <1>3 DEF Inv, TypeOK, LinksRefer, others
<1> QED
  BY <1>2, <1>4, LinksStepKeeps DEF others

LEMMA LinkKeeps ==
  ASSUME Inv, NEW t \in Procs, NEW i \in Ids, LinkService(t, i)
  PROVE  Inv'
<1> USE DEF LinkService
<1>0. job[t] \in Job /\ Placed(job[t]) /\ job[t].pc = "link"
  BY DEF Inv, TypeOK
<1> DEFINE j == [job[t] EXCEPT !.todo = @ \ {i}]
<1>1. j \in Job /\ Placed(j) /\ j.pc = "link"
  <2>1. job[t].todo \ {i} \in SUBSET Ids
    BY <1>0, JobFields
  <2>2. j \in Job /\ j.pc = job[t].pc /\ j.name = job[t].name /\ j.id = job[t].id
        /\ j.sec = job[t].sec /\ j.status = job[t].status /\ j.project = job[t].project
    BY <1>0, <2>1 DEF Job
  <2> HIDE DEF j
  <2> QED
    BY <1>0, <2>2 DEF Placed
<1>2. Others(t) /\ Placed(job'[t]) /\ job'[t].pc \in {"idle", "link"}
  <2>1. CASE Exit(t)
    BY <2>1, ExitIdles DEF Inv, TypeOK
  <2>2. CASE job' = [job EXCEPT ![t].todo = @ \ {i}]
    <3>1. job' = [job EXCEPT ![t] = j]
      BY <2>2
    <3> QED
      BY <3>1, <1>1, SetOthers DEF Inv, TypeOK
  <2> QED
    BY <2>1, <2>2
<1>3. links' \subseteq Projects \X Ids /\ \A l \in links' : Exists(l[2])
  <2>1. CASE links' = links
    BY <2>1 DEF Inv, TypeOK, LinksRefer
  <2>2. CASE Refers(i) /\ links' = links \cup {<<job[t].project, i>>}
    <3>1. job[t].project \in Projects
      BY <1>0, JobFields DEF Placed
    <3> QED
      BY <2>2, <3>1 DEF Inv, TypeOK, LinksRefer, Refers
  <2> QED
    BY <2>1, <2>2
<1>4. injected' \in [Projects -> [Ids -> Given \cup {None}]]
  BY DEF Inv, TypeOK, others
<1> QED
  BY <1>2, <1>3, <1>4, LinksStepKeeps DEF others

LEMMA EnvTyped ==
  ASSUME Inv, NEW p \in Projects
  PROVE  EnvForProject(p) \in [Ids -> Given \cup {None}]
<1>1. \A i \in Ids : <<p, i>> \in links => ServiceEnv(i) \in Given
  <2> TAKE i \in Ids
  <2> HAVE <<p, i>> \in links
  <2>1. row[i] # None
    BY DEF Inv, LinksRefer, Exists
  <2>2. row[i].status \in {"", "running", "failed", "external"} /\ row[i].creds \in Passwords \cup {Url}
    BY <2>1, RowFields DEF Inv, TypeOK
  <2> QED
    BY <2>2 DEF ServiceEnv, Given
<1> QED
  BY <1>1 DEF EnvForProject

LEMMA DeployKeeps ==
  ASSUME Inv, NEW p \in Projects, DeployApp(p)
  PROVE  Inv'
<1> USE DEF DeployApp, store, docker, files
<1>1. injected' \in [Projects -> [Ids -> Given \cup {None}]]
  BY EnvTyped DEF Inv, TypeOK
<1>2. TypeOK'
  BY <1>1 DEF Inv, TypeOK
<1>3. LinksRefer' /\ VolumesThere' /\ Budget'
  BY DEF Inv, LinksRefer, Exists, VolumesThere, Budget, Waiting
<1>4. Backups'
  BY DEF Inv, Backups, PartsThere, OneWriter, Writing, Target, DumpsWhole, FeedsWhole, BackupsWhole, ListBackups
<1> QED
  BY <1>2, <1>3, <1>4 DEF Inv

-----------------------------------------------------------------------------
(* Backups and restores.                                                   *)
LEMMA FileStepKeeps ==
  ASSUME Inv, NEW t \in Procs, Others(t), Placed(job'[t]), job'[t].pc \notin {"mark", "get"},
         part' \in [Names -> [Seconds -> Contents \cup {None, Half}]],
         sql' \in [Names -> [Seconds -> Contents \cup {None, Half}]],
         Backups',
         UNCHANGED <<store, docker, busy, others, scar>>
  PROVE  Inv'
<1> USE DEF store, docker, others
<1>1. TypeOK'
  BY DEF Inv, TypeOK, Others
<1>2. LinksRefer' /\ VolumesThere'
  BY DEF Inv, LinksRefer, Exists, VolumesThere
<1>3. Budget'
  BY BudgetFrame
<1> QED
  BY <1>1, <1>2, <1>3 DEF Inv

(* One file of one directory is written.                                   *)
Dirs == [Names -> [Seconds -> Contents \cup {None, Half}]]
Wrote(dir, n, s, v) == [dir EXCEPT ![n] = [dir[n] EXCEPT ![s] = v]]
LEMMA FileSet ==
  ASSUME NEW dir \in Dirs, NEW n \in Names, NEW s \in Seconds, NEW v \in Contents \cup {None, Half}
  PROVE  /\ Wrote(dir, n, s, v) \in Dirs
         /\ Wrote(dir, n, s, v)[n][s] = v
         /\ \A m \in Names : \A r \in Seconds :
              <<m, r>> # <<n, s>> => Wrote(dir, n, s, v)[m][r] = dir[m][r]
<1>1. [dir[n] EXCEPT ![s] = v] \in [Seconds -> Contents \cup {None, Half}]
  BY DEF Dirs
<1>2. Wrote(dir, n, s, v) \in Dirs
  BY <1>1 DEF Dirs, Wrote
<1>3. Wrote(dir, n, s, v)[n][s] = v
  BY DEF Dirs, Wrote
<1>4. \A m \in Names : \A r \in Seconds : <<m, r>> # <<n, s>> => Wrote(dir, n, s, v)[m][r] = dir[m][r]
  BY DEF Dirs, Wrote
<1> QED
  BY <1>2, <1>3, <1>4

LEMMA TargetOf ==
  ASSUME Inv, NEW t \in Procs, job[t].pc \in {"dump", "rename", "feed"}
  PROVE  job[t].name \in Names /\ job[t].sec \in Seconds
BY JobFields DEF Inv, TypeOK, Placed

LEMMA BackupKeeps ==
  ASSUME Inv, NEW t \in Procs, NEW i \in Ids, NEW s \in Seconds, BackupService(t, i, s)
  PROVE  Inv'
<1> DEFINE n == row[i].name
<1>0. n \in Names /\ part \in Dirs /\ sql \in Dirs /\ part[n][s] = None /\ job[t].pc = "idle"
  BY RowFields DEF Inv, TypeOK, Managed, Exists, BackupService, Dirs
<1> DEFINE j == [Idle EXCEPT !.pc = "dump", !.name = n, !.sec = s]
<1>1. j \in Job /\ Placed(j) /\ j.pc = "dump" /\ j.name = n /\ j.sec = s
  BY <1>0, NoPassIsPassword, NoneIsNothing DEF Job, Pcs, Placed, Idle
<1>2. Others(t) /\ job'[t] = j
  BY <1>1, SetOthers DEF Inv, TypeOK, BackupService
<1> HIDE DEF j
<1>3. part' = Wrote(part, n, s, Half) /\ sql' = sql
  BY DEF BackupService, Wrote
<1> HIDE DEF n
<1>4. /\ part' \in Dirs /\ part'[n][s] = Half
      /\ \A m \in Names : \A r \in Seconds : <<m, r>> # <<n, s>> => part'[m][r] = part[m][r]
  <2>1. Half \in Contents \cup {None, Half}
    OBVIOUS
  <2> QED
    BY <1>0, <1>3, <2>1, FileSet
<1>5. \A u \in Procs : Writing(u) => u # t /\ Target(u) # <<n, s>>
  BY <1>0 DEF Inv, Backups, PartsThere, Writing, Target
<1>6. PartsThere' /\ OneWriter'
  <2>1. \A u \in Procs : u # t => Writing(u)' = Writing(u) /\ Target(u)' = Target(u)
    BY <1>2 DEF Others, Writing, Target
  <2>2. Target(t)' = <<n, s>>
    BY <1>1, <1>2 DEF Target
  <2>3. OneWriter'
    BY <1>5, <2>1, <2>2 DEF Inv, Backups, OneWriter
  <2>4. \A u \in Procs : u # t /\ Writing(u)' => part'[job'[u].name][job'[u].sec] # None
    BY <1>2, <1>4, <1>5, TargetOf DEF Others, Inv, Backups, PartsThere, Writing, Target
  <2>5. part'[job'[t].name][job'[t].sec] # None
    BY <1>1, <1>2, <1>4, NoneIsNothing
  <2> QED
    BY <2>3, <2>4, <2>5 DEF PartsThere
<1>7. DumpsWhole' /\ FeedsWhole' /\ BackupsWhole'
  <2>1. DumpsWhole'
    BY <1>1, <1>2, <1>4, <1>5, TargetOf DEF Others, Inv, Backups, DumpsWhole, Writing, Target
  <2>2. FeedsWhole'
    BY <1>1, <1>2, <1>3 DEF Others, Inv, Backups, FeedsWhole
  <2>3. BackupsWhole'
    BY <1>3 DEF Inv, Backups, BackupsWhole, ListBackups
  <2> QED
    BY <2>1, <2>2, <2>3
<1>8. Placed(job'[t]) /\ job'[t].pc \notin {"mark", "get"}
  BY <1>1, <1>2
<1>9. UNCHANGED <<store, docker, busy, others, scar>>
  BY DEF BackupService
<1> QED
  BY <1>0, <1>2, <1>3, <1>4, <1>6, <1>7, <1>8, <1>9, FileStepKeeps DEF Dirs, Backups

LEMMA ExecOutKeeps == ASSUME Inv, NEW t \in Procs, ExecOut(t) PROVE Inv'
<1> DEFINE n == job[t].name  s == job[t].sec
<1>0. /\ job[t] \in Job /\ Placed(job[t]) /\ job[t].pc = "dump" /\ n \in Names /\ s \in Seconds
      /\ part \in Dirs /\ sql \in Dirs
  BY TargetOf DEF Inv, TypeOK, ExecOut, Dirs
<1>1. sql' = sql /\ UNCHANGED <<store, docker, busy, others, scar>>
  BY DEF ExecOut
<1>2. PICK v \in Contents \cup {None, Half} :
        /\ part' = Wrote(part, n, s, v)
        /\ \/ v = None /\ Exit(t)
           \/ v \in Contents /\ Goto(t, "rename")
  <2>1. PICK o \in Outcomes :
          /\ o = "ok" => cont[n] # None
          /\ IF ExecFails(o) THEN part' = Put(part, t, None) /\ Exit(t)
                             ELSE part' = Put(part, t, Dumped(o, n)) /\ Goto(t, "rename")
    BY DEF ExecOut
  <2>2. CASE ExecFails(o)
    BY <2>1, <2>2 DEF Put, Wrote
  <2>3. CASE ~ExecFails(o)
    <3>1. o = "ok"
      BY <2>3 DEF ExecFails, Outcomes
    <3>2. vol[n] # None
      BY <1>0, <2>1, <3>1 DEF Inv, VolumesThere
    <3>3. Dumped(o, n) \in Contents
      BY <1>0, <3>1, <3>2, VolumeFields DEF Dumped, Inv, TypeOK
    <3> QED
      BY <2>1, <2>3, <3>3 DEF Put, Wrote
  <2> QED
    BY <2>2, <2>3
<1>3. /\ Others(t) /\ Placed(job'[t]) /\ job'[t].pc \in {"idle", "rename"}
      /\ job'[t].pc = "rename" => job'[t].name = n /\ job'[t].sec = s /\ v \in Contents
  <2>1. CASE Exit(t)
    BY <2>1, ExitIdles DEF Inv, TypeOK
  <2>2. CASE v \in Contents /\ Goto(t, "rename")
    <3>1. Others(t) /\ Kept(t) /\ job'[t].pc = "rename" /\ job'[t].status = job[t].status
      BY <2>2, GotoKeeps DEF Inv, TypeOK, Pcs
    <3> QED
      BY <1>0, <2>2, <3>1 DEF Placed, Kept
  <2> QED
    BY <1>2, <2>1, <2>2
<1>4. Target(t) = <<n, s>> /\ \A u \in Procs : u # t /\ Writing(u) => Target(u) # <<n, s>>
  BY <1>0 DEF Inv, Backups, OneWriter, Writing, Target
<1> HIDE DEF n, s
<1>5. /\ part' \in Dirs /\ part'[n][s] = v
      /\ \A m \in Names : \A r \in Seconds : <<m, r>> # <<n, s>> => part'[m][r] = part[m][r]
  BY <1>0, <1>2, FileSet
<1>6. \A u \in Procs : u # t => job'[u] = job[u]
  BY <1>3 DEF Others
<1>7. \A u \in Procs : u # t /\ Writing(u) => part'[job'[u].name][job'[u].sec] = part[job[u].name][job[u].sec]
  BY <1>4, <1>5, <1>6, TargetOf DEF Writing, Target
<1>8. PartsThere'
  BY <1>3, <1>5, <1>6, <1>7, NoneIsNothing DEF Inv, Backups, PartsThere, Writing
<1>9. OneWriter'
  <2>1. \A u \in Procs : u # t => Writing(u)' = Writing(u) /\ Target(u)' = Target(u)
    BY <1>6 DEF Writing, Target
  <2>2. Writing(t)' => Target(t)' = <<n, s>>
    BY <1>3 DEF Writing, Target
  <2> QED
    BY <1>4, <2>1, <2>2 DEF Inv, Backups, OneWriter
<1>10. DumpsWhole'
  BY <1>3, <1>5, <1>6, <1>7 DEF Inv, Backups, DumpsWhole, Writing
<1>11. FeedsWhole' /\ BackupsWhole'
  BY <1>1, <1>3, <1>6 DEF Inv, Backups, FeedsWhole, BackupsWhole, ListBackups
<1>12. job'[t].pc \notin {"mark", "get"}
  BY <1>3
<1> QED
  BY <1>0, <1>1, <1>3, <1>5, <1>8, <1>9, <1>10, <1>11, <1>12, FileStepKeeps DEF Dirs, Backups

LEMMA RenameKeeps == ASSUME Inv, NEW t \in Procs, RenamePart(t) PROVE Inv'
<1> DEFINE n == job[t].name  s == job[t].sec
<1>0. /\ job[t].pc = "rename" /\ n \in Names /\ s \in Seconds
      /\ part \in Dirs /\ sql \in Dirs /\ part[n][s] \in Contents
  BY TargetOf DEF Inv, TypeOK, RenamePart, Dirs, Backups, DumpsWhole
<1>1. Others(t) /\ job'[t].pc = "idle" /\ Placed(job'[t])
  BY ExitIdles DEF RenamePart, Inv, TypeOK
<1>2. UNCHANGED <<store, docker, busy, others, scar>>
  BY DEF RenamePart
<1>3. part' = Wrote(part, n, s, None) /\ sql' = Wrote(sql, n, s, part[n][s])
  BY DEF RenamePart, Put, Wrote
<1>4. \A u \in Procs : u # t /\ Writing(u) => Target(u) # <<n, s>>
  BY <1>0 DEF Inv, Backups, OneWriter, Writing, Target
<1> HIDE DEF n, s
<1>5. /\ part' \in Dirs
      /\ \A m \in Names : \A r \in Seconds : <<m, r>> # <<n, s>> => part'[m][r] = part[m][r]
  <2>1. None \in Contents \cup {None, Half}
    OBVIOUS
  <2> QED
    BY <1>0, <1>3, <2>1, FileSet
<1>6. /\ sql' \in Dirs /\ sql'[n][s] \in Contents
      /\ \A m \in Names : \A r \in Seconds : <<m, r>> # <<n, s>> => sql'[m][r] = sql[m][r]
  <2>1. part[n][s] \in Contents \cup {None, Half}
    BY <1>0
  <2> QED
    BY <1>0, <1>3, <2>1, FileSet
<1>7. \A u \in Procs : u # t => job'[u] = job[u]
  BY <1>1 DEF Others
<1>8. \A u \in Procs : u # t /\ Writing(u) => part'[job'[u].name][job'[u].sec] = part[job[u].name][job[u].sec]
  BY <1>4, <1>5, <1>7, TargetOf DEF Writing, Target
<1>9. PartsThere' /\ OneWriter' /\ DumpsWhole'
  BY <1>1, <1>7, <1>8 DEF Inv, Backups, PartsThere, OneWriter, DumpsWhole, Writing, Target
<1>10. FeedsWhole'
  BY <1>1, <1>6, <1>7, TargetOf DEF Inv, Backups, FeedsWhole
<1>11. BackupsWhole'
  <2> SUFFICES ASSUME NEW m \in Names, NEW r \in Seconds, sql'[m][r] # None
               PROVE  sql'[m][r] # Half
    BY DEF BackupsWhole, ListBackups
  <2>1. CASE <<m, r>> = <<n, s>>
    BY <2>1, <1>6, HalfIsNotWhole
  <2>2. CASE <<m, r>> # <<n, s>>
    BY <2>2, <1>6 DEF Inv, Backups, BackupsWhole, ListBackups
  <2> QED
    BY <2>1, <2>2
<1>12. job'[t].pc \notin {"mark", "get"}
  BY <1>1
<1> QED
  BY <1>1, <1>2, <1>5, <1>6, <1>9, <1>10, <1>11, <1>12, FileStepKeeps DEF Dirs, Backups

LEMMA RestoreKeeps ==
  ASSUME Inv, NEW t \in Procs, NEW i \in Ids, NEW s \in Seconds, RestoreService(t, i, s)
  PROVE  Inv'
<1> DEFINE n == row[i].name
<1>0. n \in Names
  BY RowFields DEF Inv, TypeOK, Managed, Exists, RestoreService
<1> DEFINE j == [Idle EXCEPT !.pc = "feed", !.name = n, !.sec = s]
<1>1. j \in Job /\ Placed(j) /\ j.pc = "feed" /\ j.name = n /\ j.sec = s
  BY <1>0, NoPassIsPassword, NoneIsNothing DEF Job, Pcs, Placed, Idle
<1>2. Others(t) /\ job'[t] = j
  BY <1>1, SetOthers DEF Inv, TypeOK, RestoreService
<1> HIDE DEF j
<1>3. UNCHANGED <<store, docker, files, busy, others, scar>>
  BY DEF RestoreService
<1>4. sql[n][s] \in Contents
  BY <1>0 DEF RestoreService, ListBackups, Inv, TypeOK, Backups, BackupsWhole
<1>5. PartsThere' /\ OneWriter' /\ DumpsWhole'
  BY <1>1, <1>2, <1>3 DEF Others, files, Inv, Backups, PartsThere, OneWriter, DumpsWhole, Writing, Target
<1>6. FeedsWhole' /\ BackupsWhole'
  BY <1>1, <1>2, <1>3, <1>4 DEF Others, files, Inv, Backups, FeedsWhole, BackupsWhole, ListBackups
<1>7. Placed(job'[t]) /\ job'[t].pc \notin {"mark", "get"}
  BY <1>1, <1>2
<1>8. /\ part' \in [Names -> [Seconds -> Contents \cup {None, Half}]]
      /\ sql' \in [Names -> [Seconds -> Contents \cup {None, Half}]]
  BY <1>3 DEF files, Inv, TypeOK
<1> QED
  BY <1>2, <1>3, <1>5, <1>6, <1>7, <1>8, FileStepKeeps DEF files, Backups

(* A restore changes what is in a volume, never its password.              *)
LEMMA FedTyped ==
  ASSUME Inv, NEW n \in Names, NEW file \in Contents, cont[n] # None, vol' \in Fed(n, file)
  PROVE  /\ vol' \in [Names -> Volume \cup {None}]
         /\ \A k \in Names : (vol'[k] = None) <=> (vol[k] = None)
         /\ \A k \in Names : vol[k] # None => vol'[k].pass = vol[k].pass
<1>1. PICK d \in Contents : vol' = [vol EXCEPT ![n].data = d]
  BY DEF Fed, Contents
<1>2. vol[n] \in Volume
  BY DEF Inv, TypeOK, VolumesThere
<1> DEFINE v == [vol[n] EXCEPT !.data = d]
<1>3. v \in Volume /\ v.pass = vol[n].pass
  BY <1>2 DEF Volume
<1>4. vol' = [vol EXCEPT ![n] = v]
  BY <1>1
<1> HIDE DEF v
<1>5. vol' \in [Names -> Volume \cup {None}] /\ vol'[n] = v /\ \A k \in Names : k # n => vol'[k] = vol[k]
  BY <1>3, <1>4 DEF Inv, TypeOK
<1> QED
  BY <1>2, <1>3, <1>5, NoneIsNothing

LEMMA ExecInVolumes ==
  ASSUME Inv, NEW t \in Procs, ExecIn(t)
  PROVE  /\ vol' \in [Names -> Volume \cup {None}] /\ cont' = cont
         /\ \A k \in Names : (vol'[k] = None) <=> (vol[k] = None)
         /\ \A k \in Names : vol[k] # None => vol'[k].pass = vol[k].pass
<1> DEFINE n == job[t].name
<1>1. n \in Names /\ sql[n][job[t].sec] \in Contents
  BY TargetOf DEF ExecIn, Inv, Backups, FeedsWhole
<1>2. CASE vol' = vol
  BY <1>2 DEF Inv, TypeOK, ExecIn
<1>3. CASE cont[n] # None /\ vol' \in Fed(n, sql[n][job[t].sec])
  BY <1>1, <1>3, FedTyped DEF ExecIn
<1> QED
  BY <1>2, <1>3 DEF ExecIn

LEMMA ExecInKeeps == ASSUME Inv, NEW t \in Procs, ExecIn(t) PROVE Inv'
<1>1. Others(t) /\ job'[t].pc = "idle" /\ Placed(job'[t])
  BY ExitIdles DEF ExecIn, Inv, TypeOK
<1>2. /\ cont' \in [Names -> Passwords \cup {None}] /\ scar' \in [Names -> SUBSET Scars]
      /\ \A n \in Names : cont'[n] # None => vol'[n] # None
  BY ExecInVolumes DEF ExecIn, Inv, TypeOK, VolumesThere
<1>3. UNCHANGED <<store, files, busy, others>>
  BY DEF ExecIn
<1> QED
  BY <1>1, <1>2, <1>3, ExecInVolumes, DockerStepKeeps

LEMMA CrashKeeps == ASSUME Inv, Crash PROVE Inv'
<1> USE DEF Crash, store, docker, files
<1>1. \A t \in Procs : job'[t] = Idle /\ job'[t].pc = "idle" /\ Placed(job'[t])
  BY IdleIsJob
<1>2. job' \in [Procs -> Job]
  BY IdleIsJob
<1>3. scar' \in [Names -> SUBSET Scars]
  BY DEF Inv, TypeOK, Scars
<1>4. busy' \in [Ids -> BOOLEAN] /\ crashes' \in 0 .. MaxCrashes
  BY BoundsAssumption DEF Inv, TypeOK
<1>5. TypeOK'
  BY <1>1, <1>2, <1>3, <1>4 DEF Inv, TypeOK
<1>6. LinksRefer' /\ VolumesThere'
  BY DEF Inv, LinksRefer, Exists, VolumesThere
<1>7. Budget'
  <2>1. Waiting' = {}
    BY <1>1 DEF Waiting
  <2>2. Cardinality(Waiting') = 0
    BY <2>1, FS_EmptySet
  <2> QED
    BY <2>2, BoundsAssumption DEF Budget, Inv, TypeOK, Passwords, NoPass
<1>8. Backups'
  BY <1>1 DEF Inv, Backups, PartsThere, OneWriter, DumpsWhole, FeedsWhole, BackupsWhole, Writing, ListBackups
<1> QED
  BY <1>5, <1>6, <1>7, <1>8 DEF Inv

LEMMA InvNext == ASSUME Inv, Next PROVE Inv'
<1>1. CASE \E t \in Procs, n \in Names, e \in Engines, m \in {"managed", "external"} :
             CreateService(t, n, e, m)
  BY <1>1, CreateKeeps
<1>2. ASSUME NEW t \in Procs, NEW i \in Ids, HandleServiceItem(t, i)
      PROVE  Inv'
  BY <1>2, TriggerKeeps, RemoveKeeps, BackupKeeps, RestoreKeeps DEF HandleServiceItem
<1>3. ASSUME NEW t \in Procs,
             Mark(t) \/ GetService(t) \/ ClearStale(t) \/ RunService(t) \/ SaveService(t) \/ Done(t)
      PROVE  Inv'
  BY <1>3, MarkKeeps, GetKeeps, ClearKeeps, RunKeeps, SaveKeeps, DoneKeeps
<1>4. ASSUME NEW t \in Procs,
             RemoveContainer(t) \/ DeleteService(t) \/ ExecOut(t) \/ RenamePart(t) \/ ExecIn(t)
      PROVE  Inv'
  BY <1>4, RemoveContainerKeeps, DeleteKeeps, ExecOutKeeps, RenameKeeps, ExecInKeeps
<1>5. CASE \E t \in Procs, p \in Projects, ids \in SUBSET Ids : Unlink(t, p, ids)
  BY <1>5, UnlinkKeeps
<1>6. CASE \E t \in Procs, i \in Ids : LinkService(t, i)
  BY <1>6, LinkKeeps
<1>7. CASE \E p \in Projects : DeployApp(p)
  BY <1>7, DeployKeeps
<1> QED
  BY <1>1, <1>2, <1>3, <1>4, <1>5, <1>6, <1>7, CrashKeeps DEF Next

LEMMA InvStutters == ASSUME Inv, UNCHANGED vars PROVE Inv'
<1> USE DEF vars, store, docker, files, others
<1>1. TypeOK'
  BY DEF Inv, TypeOK
<1>2. LinksRefer' /\ VolumesThere' /\ Budget'
  BY DEF Inv, LinksRefer, Exists, VolumesThere, Budget, Waiting
<1>3. Backups'
  BY DEF Inv, Backups, PartsThere, OneWriter, DumpsWhole, FeedsWhole, BackupsWhole, Writing, Target, ListBackups
<1> QED
  BY <1>1, <1>2, <1>3 DEF Inv

LEMMA InvAlways == Spec => []Inv
<1>1. Inv /\ [Next]_vars => Inv'
  BY InvNext, InvStutters
<1> QED
  BY <1>1, InvInit, PTL DEF Spec

(* Rows, links, containers, volumes, backup files and every goroutine's    *)
(* record keep their types; a password is left for every provisioning that *)
(* was begun, and no deploy reads credentials of a row that has gone.      *)
THEOREM TypeCorrect == Spec => []TypeOK
<1>1. Inv => TypeOK
  BY DEF Inv
<1> QED
  BY <1>1, InvAlways, PTL

(* Whatever cuts a dump short, and however requests and restarts fall      *)
(* around it, the files ListBackups offers are whole dumps                 *)
(* (BackupService).                                                        *)
THEOREM BackupsAreWhole == Spec => []BackupsWhole
<1>1. Inv => BackupsWhole
  BY DEF Inv, Backups
<1> QED
  BY <1>1, InvAlways, PTL
-----------------------------------------------------------------------------
(* Every step keeps the second invariant.                                  *)

Works == {"clear", "run", "save", "rmCont", "rmRow"}

LEMMA WorkingOf ==
  ASSUME Inv, NEW t \in Procs, NEW n \in Names, Working(t, n)
  PROVE  job[t].name = n /\ job[t].pc \in Works /\ job[t].id \in Ids
BY JobFields DEF Inv, TypeOK, Placed, Working, Works

LEMMA ExistsBefore ==
  ASSUME Inv, NEW i \in Ids, Exists(i)
  PROVE  i < nextId /\ row[i] \in Row /\ row[i].name \in Names
<1>1. row[i] \in Row /\ row[i].name \in Names
  BY RowFields DEF Inv, TypeOK, Exists
<1>2. ~(i >= nextId)
  BY DEF Inv, TypeOK, Exists
<1>3. i \in Int /\ nextId \in Int
  BY BoundsAssumption DEF Inv, TypeOK, Ids
<1> QED
  BY <1>1, <1>2, <1>3

LEMMA NamesInit == Init => NameInv
<1> SUFFICES ASSUME Init PROVE NameInv
  OBVIOUS
<1> USE DEF Init
<1>1. \A t \in Procs : \A n \in Names : ~Working(t, n)
  BY DEF Working, Idle
<1>2. NamesUnique /\ OneWorker /\ WorksOnOwn /\ FreshVolume /\ RunningOpens /\ GoneFirst
  BY <1>1 DEF NamesUnique, Exists, OneWorker, WorksOnOwn, FreshVolume, RunningOpens, GoneFirst
<1>3. VolumeOpens /\ GivenOpens /\ GivenBefore /\ Owned
  BY DEF VolumeOpens, GivenOpens, GivenBefore, Owned, IsUp, Managed, Exists
<1> QED
  BY <1>2, <1>3 DEF NameInv

(* Steps of those that work on no name: they may rewrite rows that are not *)
(* managed, and what a volume holds.                                       *)
LEMMA IdleStepNames ==
  ASSUME Inv, NameInv, NEW t \in Procs, Others(t),
         job[t].pc \notin Works, job'[t].pc \notin Works,
         \A i \in Ids : Exists(i)' = Exists(i) /\ Managed(i)' = Managed(i),
         \A i \in Ids : Exists(i) => row'[i].name = row[i].name,
         \A i \in Ids : Managed(i) => row'[i] = row[i],
         \A n \in Names : (vol'[n] = None) <=> (vol[n] = None),
         \A n \in Names : vol[n] # None => vol'[n].pass = vol[n].pass,
         UNCHANGED <<nextId, cont, scar, injected>>
  PROVE  NameInv'
<1>1. \A u \in Procs : \A n \in Names :
        Working(u, n)' = Working(u, n) /\ (Working(u, n) => job'[u] = job[u])
  BY DEF Others, Working, Works
<1>2. \A n \in Names : Quiet(n)' = Quiet(n) /\ Alone(n)' = Alone(n) /\ Seen(n)' = Seen(n)
  BY <1>1 DEF Quiet, Alone, Seen
<1>3. NamesUnique' /\ OneWorker'
  BY <1>1, <1>2 DEF NameInv, NamesUnique, OneWorker
<1>4. WorksOnOwn'
  <2>1. \A u \in Procs : \A n \in Names : Working(u, n)' =>
          /\ Working(u, n) /\ job'[u] = job[u] /\ job[u].id \in Ids
          /\ Provisioning(u)' => Provisioning(u)
    BY <1>1, WorkingOf DEF Provisioning
  <2> QED
    BY <1>2, <2>1 DEF NameInv, WorksOnOwn, Exists, Managed
<1>5. FreshVolume' /\ RunningOpens' /\ GoneFirst'
  BY <1>1, <1>2 DEF NameInv, FreshVolume, RunningOpens, GoneFirst
<1>6. VolumeOpens'
  BY <1>2, ExistsBefore DEF NameInv, VolumeOpens, IsUp, Managed
<1>7. GivenOpens' /\ GivenBefore'
  BY ExistsBefore DEF NameInv, GivenOpens, GivenBefore, Managed
<1>8. Owned'
  BY <1>2 DEF NameInv, Owned, Managed
<1> QED
  BY <1>3, <1>4, <1>5, <1>6, <1>7, <1>8 DEF NameInv

(* The same, when no row and no volume changes at all.                     *)
LEMMA QuietStepNames ==
  ASSUME Inv, NameInv, NEW t \in Procs, Others(t),
         job[t].pc \notin Works, job'[t].pc \notin Works,
         UNCHANGED <<row, nextId, cont, vol, scar, injected>>
  PROVE  NameInv'
<1>1. \A i \in Ids : Exists(i)' = Exists(i) /\ Managed(i)' = Managed(i)
  BY DEF Exists, Managed
<1> QED
  BY <1>1, IdleStepNames

(* A goroutine turns to the name of a service: provisioning it or removing *)
(* it, it notes who else is there and whether the volume is old.           *)
LEMMA StartNames ==
  ASSUME Inv, NameInv, NEW t \in Procs, NEW i \in Ids, NEW n \in Names, Others(t),
         job[t].pc \notin Works, job'[t].pc \in {"clear", "rmCont", "rmRow"},
         job'[t].id = i, job'[t].name = n, Exists(i), row[i].name = n,
         job'[t].pc = "clear" => Managed(i), job'[t].pc = "rmRow" => ~Managed(i),
         \A k \in Names : scar[k] \subseteq scar'[k],
         Overlaps(t, n) => "overlap" \in scar'[n],
         job'[t].pc = "clear" /\ vol[n] # None => "again" \in scar'[n],
         UNCHANGED <<row, nextId, cont, vol, injected>>
  PROVE  NameInv'
<1>1. \A u \in Procs : \A k \in Names : u # t =>
        Working(u, k)' = Working(u, k) /\ job'[u] = job[u] /\ Provisioning(u)' = Provisioning(u)
  BY DEF Others, Working, Provisioning
<1>2. \A k \in Names : (Working(t, k)' => k = n) /\ ~Working(t, k)
  BY DEF Working, Works
<1>3. \A k \in Names : /\ Quiet(k)' => Quiet(k)
                       /\ Alone(k)' => Alone(k)
                       /\ Seen(k)' => Seen(k)
                       /\ scar'[k] = {} => scar[k] = {}
  BY <1>1, <1>2 DEF Quiet, Alone, Seen
<1>4. NamesUnique'
  BY DEF NameInv, NamesUnique, Exists
<1>5. OneWorker'
  <2>1. \A u \in Procs : u # t /\ Working(u, n) => ~Alone(n)'
    BY DEF Overlaps, Alone
  <2> QED
    BY <1>1, <1>2, <1>3, <2>1 DEF NameInv, OneWorker
<1>6. WorksOnOwn'
  <2>1. Provisioning(t)' => Managed(i)
    BY DEF Provisioning
  <2>2. i < nextId
    BY ExistsBefore
  <2> QED
    BY <1>1, <1>2, <1>3, <2>1, <2>2 DEF NameInv, WorksOnOwn, Exists, Managed
<1>7. FreshVolume' /\ RunningOpens'
  BY <1>1, <1>2, <1>3 DEF NameInv, FreshVolume, RunningOpens
<1>8. VolumeOpens' /\ GivenOpens' /\ GivenBefore'
  BY <1>3, ExistsBefore DEF NameInv, VolumeOpens, GivenOpens, GivenBefore, IsUp, Managed, Exists
<1>9. Owned'
  BY <1>3 DEF NameInv, Owned, Managed, Exists
<1>10. GoneFirst'
  <2>1. job'[t].pc = "rmRow" /\ Seen(n)' => cont[n] = None
    BY <1>3 DEF NameInv, Owned, NamesUnique, Managed, Exists
  <2> QED
    BY <1>1, <1>2, <1>3, <2>1 DEF NameInv, GoneFirst
<1> QED
  BY <1>4, <1>5, <1>6, <1>7, <1>8, <1>9, <1>10 DEF NameInv

(* docker rm -f of a container by the one that works on its name.          *)
LEMMA ContainerStepNames ==
  ASSUME Inv, NameInv, NEW t \in Procs, NEW n \in Names, Others(t), Kept(t), Working(t, n),
         \A k \in Names : k # n => cont'[k] = cont[k],
         cont'[n] \in {cont[n], None},
         \A k \in Names : scar[k] \subseteq scar'[k],
         \/ job[t].pc = "clear" /\ job'[t].pc = "run"
         \/ job[t].pc = "rmCont" /\ job'[t].pc = "rmRow" /\ (Seen(n)' => cont'[n] = None),
         UNCHANGED <<row, nextId, vol, injected>>
  PROVE  NameInv'
<1>0. job[t].name = n
  BY WorkingOf
<1>1. \A u \in Procs : /\ \A k \in Names : Working(u, k)' = Working(u, k)
                       /\ Provisioning(u)' = Provisioning(u)
                       /\ u # t => job'[u] = job[u]
  BY DEF Others, Kept, Working, Provisioning
<1>2. \A k \in Names : /\ Quiet(k)' = Quiet(k) /\ (Quiet(k) => k # n)
                       /\ Alone(k)' => Alone(k)
                       /\ Seen(k)' => Seen(k)
                       /\ scar'[k] = {} => scar[k] = {} /\ Alone(k)
  BY <1>1 DEF Quiet, Alone, Seen
<1>3. NamesUnique' /\ OneWorker'
  BY <1>1, <1>2 DEF NameInv, NamesUnique, OneWorker, Exists
<1>4. WorksOnOwn'
  BY <1>1, <1>2 DEF NameInv, WorksOnOwn, Exists, Managed, Kept
<1>5. FreshVolume'
  BY <1>0, <1>1, <1>2 DEF NameInv, FreshVolume
<1>6. \A u \in Procs : \A k \in Names : Working(u, k) /\ Alone(k) /\ u # t => k # n
  BY DEF NameInv, OneWorker
<1>7. RunningOpens'
  BY <1>1, <1>2, <1>6 DEF NameInv, RunningOpens
<1>8. VolumeOpens' /\ GivenOpens' /\ GivenBefore'
  BY <1>2, ExistsBefore DEF NameInv, VolumeOpens, GivenOpens, GivenBefore, IsUp, Managed, Exists
<1>9. Owned'
  BY <1>2 DEF NameInv, Owned, Managed, Exists
<1>10. GoneFirst'
  <2>1. \A k \in Names : Working(t, k) => k = n
    BY <1>0 DEF Working
  <2>2. \A k \in Names : Seen(k)' => cont[k] # None \/ cont'[k] = None
    OBVIOUS
  <2> QED
    BY <1>1, <1>2, <2>1, <2>2 DEF NameInv, GoneFirst
<1> QED
  BY <1>3, <1>4, <1>5, <1>7, <1>8, <1>9, <1>10 DEF NameInv
LEMMA GetNames == ASSUME Inv, NameInv, NEW t \in Procs, GetService(t) PROVE NameInv'
<1> DEFINE i == job[t].id
<1>0. i \in Ids /\ job[t] \in Job /\ job[t].pc = "get"
  BY JobFields DEF Inv, TypeOK, Placed, GetService
<1>1. CASE ~Managed(i)
  <2>1. Others(t) /\ job'[t].pc = "end" /\ scar' = scar
    BY <1>1, GotoKeeps DEF GetService, Managed, Inv, TypeOK, Pcs
  <2>2. UNCHANGED <<nextId, cont, vol, injected>>
    BY DEF GetService, docker
  <2>3. CASE row' = row
    BY <1>0, <2>1, <2>2, <2>3, QuietStepNames DEF Works
  <2>4. CASE /\ Exists(i) /\ row[i].mode = "external"
             /\ row' = Written(i, "external", row[i].creds)
    <3>1. row[i].creds \in Passwords \cup {Url}
      BY <1>0, <2>4, RowFields DEF Inv, TypeOK, Exists
    <3>2. /\ \A k \in Ids : (row'[k] = None) <=> (row[k] = None)
          /\ \A k \in Ids : row[k] # None => row'[k].name = row[k].name /\ row'[k].mode = row[k].mode
          /\ \A k \in Ids : k # i => row'[k] = row[k]
      BY <1>0, <2>4, <3>1, WrittenRow DEF Inv
    <3>3. /\ \A k \in Ids : Exists(k)' = Exists(k) /\ Managed(k)' = Managed(k)
          /\ \A k \in Ids : Exists(k) => row'[k].name = row[k].name
          /\ \A k \in Ids : Managed(k) => row'[k] = row[k]
      BY <1>1, <3>2 DEF Exists, Managed
    <3> QED
      BY <1>0, <2>1, <2>2, <3>3, IdleStepNames DEF Works
  <2> QED
    BY <1>1, <2>3, <2>4 DEF GetService, Managed
<1>2. CASE Managed(i)
  <2> DEFINE n == row[i].name
             j == [job[t] EXCEPT !.pc = "clear", !.name = n, !.creds = FreshPass(row[i].engine)]
             s == (IF Overlaps(t, n) THEN {"overlap"} ELSE {}) \cup
                  (IF vol[n] # None THEN {"again"} ELSE {})
  <2>1. Exists(i) /\ n \in Names
    BY <1>0, <1>2, ExistsBefore DEF Managed
  <2>2. job' = [job EXCEPT ![t] = j] /\ scar' = Scar(n, s) /\ row' = row
    BY <1>0, <1>2 DEF GetService, Managed
  <2>3. job' \in [Procs -> Job]
    BY GetKeeps DEF Inv, TypeOK
  <2>4. job'[t] = j /\ \A u \in Procs : u # t => job'[u] = job[u]
    BY <2>2 DEF Inv, TypeOK
  <2>5. j.pc = "clear" /\ j.id = i /\ j.name = n
    BY <1>0 DEF Job
  <2>6. scar'[n] = scar[n] \cup s /\ \A k \in Names : scar[k] \subseteq scar'[k]
    BY <2>1, <2>2 DEF Scar, Inv, TypeOK
  <2>7. (Overlaps(t, n) => "overlap" \in s) /\ (vol[n] # None => "again" \in s)
    OBVIOUS
  <2>8. UNCHANGED <<nextId, cont, vol, injected>>
    BY DEF GetService, docker
  <2> HIDE DEF i, n, j, s
  <2> QED
    BY <1>0, <1>2, <2>1, <2>2, <2>3, <2>4, <2>5, <2>6, <2>7, <2>8, StartNames DEF Others, Works, n
<1> QED
  BY <1>1, <1>2

LEMMA RemoveNames ==
  ASSUME Inv, NameInv, NEW t \in Procs, NEW i \in Ids, RemoveService(t, i)
  PROVE  NameInv'
<1> DEFINE n == row[i].name
           j == [Idle EXCEPT !.id = i, !.name = n,
                  !.pc = IF row[i].mode = "managed" THEN "rmCont" ELSE "rmRow"]
           s == IF Overlaps(t, n) THEN {"overlap"} ELSE {}
<1>1. Exists(i) /\ n \in Names /\ job[t].pc = "idle"
  BY ExistsBefore DEF RemoveService
<1>2. job' = [job EXCEPT ![t] = j] /\ scar' = Scar(n, s)
  BY DEF RemoveService
<1>3. job' \in [Procs -> Job]
  BY RemoveKeeps DEF Inv, TypeOK
<1>4. job'[t] = j /\ \A u \in Procs : u # t => job'[u] = job[u]
  BY <1>2 DEF Inv, TypeOK
<1>5. /\ j.id = i /\ j.name = n /\ j.pc \in {"rmCont", "rmRow"}
      /\ j.pc = "rmRow" => ~Managed(i)
  BY DEF Idle, Managed
<1>6. scar'[n] = scar[n] \cup s /\ \A k \in Names : scar[k] \subseteq scar'[k]
  BY <1>1, <1>2 DEF Scar, Inv, TypeOK
<1>7. Overlaps(t, n) => "overlap" \in s
  OBVIOUS
<1>8. UNCHANGED <<row, nextId, cont, vol, injected>>
  BY DEF RemoveService, store, docker, others
<1> HIDE DEF n, j, s
<1> QED
  BY <1>1, <1>3, <1>4, <1>5, <1>6, <1>7, <1>8, StartNames DEF Others, Works, n

LEMMA ClearNames == ASSUME Inv, NameInv, NEW t \in Procs, ClearStale(t) PROVE NameInv'
<1> DEFINE n == job[t].name
<1>1. n \in Names /\ Working(t, n)
  BY JobFields DEF Inv, TypeOK, Placed, ClearStale, Working
<1>2. Others(t) /\ Kept(t) /\ job[t].pc = "clear" /\ job'[t].pc = "run"
  BY GotoKeeps DEF ClearStale, Inv, TypeOK, Pcs
<1>3. (\A k \in Names : k # n => cont'[k] = cont[k]) /\ cont'[n] \in {cont[n], None}
  BY <1>1, RemovedTyped DEF ClearStale
<1>4. UNCHANGED <<row, nextId, vol, injected, scar>>
  BY DEF ClearStale, store, others
<1> HIDE DEF n
<1> QED
  BY <1>1, <1>2, <1>3, <1>4, ContainerStepNames

LEMMA RemoveContainerNames ==
  ASSUME Inv, NameInv, NEW t \in Procs, RemoveContainer(t)
  PROVE  NameInv'
<1>1. PICK n \in Names : job[t].name = n /\ Working(t, n)
  BY JobFields DEF Inv, TypeOK, Placed, RemoveContainer, Working
<1>2. Others(t) /\ Kept(t) /\ job[t].pc = "rmCont" /\ job'[t].pc = "rmRow"
  BY GotoKeeps DEF RemoveContainer, Inv, TypeOK, Pcs
<1>3. UNCHANGED <<row, nextId, vol, injected>>
  BY DEF RemoveContainer, store, others
<1>4. (\A k \in Names : k # n => cont'[k] = cont[k]) /\ cont'[n] \in {cont[n], None}
      /\ (cont' = Removed(n) => cont'[n] = None)
  BY <1>1, <1>3, RemovedTyped DEF RemoveContainer
<1>5. /\ \A k \in Names : scar[k] \subseteq scar'[k]
      /\ "leaked" \in scar'[n] \/ cont'[n] = None
  BY <1>1, <1>4 DEF RemoveContainer, Scar, Inv, TypeOK
<1>6. Seen(n)' => cont'[n] = None
  BY <1>1, <1>5 DEF Seen
<1> QED
  BY <1>1, <1>2, <1>3, <1>4, <1>5, <1>6, ContainerStepNames

LEMMA RunNames == ASSUME Inv, NameInv, NEW t \in Procs, RunService(t) PROVE NameInv'
<1> DEFINE n == job[t].name
<1>0. n \in Names /\ Working(t, n) /\ job[t].pc = "run" /\ job[t].creds \in Passwords
  BY JobFields DEF Inv, TypeOK, Placed, RunService, Working
<1>1. PICK st \in {"running", "failed"} :
        /\ Ran(t, st)
        /\ \/ /\ cont[n] = None /\ cont' = [cont EXCEPT ![n] = job[t].creds]
              /\ vol' = Booted(n, job[t].creds)
           \/ st = "failed" /\ UNCHANGED <<cont, vol>>
  BY DEF RunService, docker
<1>2. Others(t) /\ Kept(t) /\ job'[t].pc = "save" /\ job'[t].status = st
  BY <1>1, RanKeeps DEF Inv, TypeOK
<1>3. UNCHANGED <<row, nextId, injected, scar>>
  BY DEF RunService, store, others
<1>4. \A u \in Procs : /\ \A k \in Names : Working(u, k)' = Working(u, k)
                       /\ Provisioning(u)' = Provisioning(u)
                       /\ u # t => job'[u] = job[u]
  BY <1>0, <1>2 DEF Others, Kept, Working, Provisioning
<1>5. /\ \A k \in Names : k # n => cont'[k] = cont[k] /\ vol'[k] = vol[k]
      /\ vol[n] # None => vol'[n] = vol[n]
      /\ st = "running" => cont'[n] = job[t].creds /\ vol'[n] # None
      /\ st = "running" /\ vol[n] = None => vol'[n].pass = job[t].creds
  <2>1. CASE UNCHANGED <<cont, vol>> /\ st = "failed"
    BY <2>1
  <2>2. CASE cont' = [cont EXCEPT ![n] = job[t].creds] /\ vol' = Booted(n, job[t].creds)
    BY <2>2, <1>0, BootedTyped
  <2> QED
    BY <1>1, <2>1, <2>2
<1> HIDE DEF n
<1>6. \A k \in Names : /\ Quiet(k)' = Quiet(k) /\ (Quiet(k) => k # n)
                       /\ Alone(k)' = Alone(k) /\ Seen(k)' = Seen(k)
                       /\ (scar[k] = {} \/ Seen(k) => Alone(k))
  BY <1>0, <1>3, <1>4 DEF Quiet, Alone, Seen
<1>7. \A u \in Procs : \A k \in Names : Working(u, k) /\ Alone(k) /\ u # t => k # n
  BY <1>0 DEF NameInv, OneWorker
<1>8. \A k \in Names : Working(t, k) => k = n
  BY <1>0 DEF Working
<1>9. NamesUnique' /\ OneWorker'
  BY <1>3, <1>4, <1>6 DEF NameInv, NamesUnique, OneWorker, Exists
<1>10. WorksOnOwn'
  BY <1>2, <1>3, <1>4, <1>6 DEF NameInv, WorksOnOwn, Exists, Managed, Kept
<1>11. FreshVolume'
  BY <1>2, <1>3, <1>4, <1>5, <1>6, <1>7 DEF NameInv, FreshVolume
<1>12. RunningOpens'
  <2>1. scar[n] = {} => vol[n] = None
    BY <1>0 DEF NameInv, FreshVolume
  <2>2. \A u \in Procs : \A k \in Names :
          u # t /\ Working(u, k)' /\ scar'[k] = {} => k # n /\ Working(u, k) /\ job'[u] = job[u]
    BY <1>3, <1>4, <1>6, <1>7
  <2>3. \A u \in Procs : \A k \in Names :
          u # t /\ Working(u, k)' /\ scar'[k] = {} /\ job'[u].pc = "save" /\ job'[u].status = "running"
            => cont'[k] = job'[u].creds /\ vol'[k] # None /\ vol'[k].pass = job'[u].creds
    BY <2>2, <1>3, <1>5 DEF NameInv, RunningOpens
  <2>4. \A k \in Names :
          Working(t, k)' /\ scar'[k] = {} /\ job'[t].status = "running"
            => cont'[k] = job'[t].creds /\ vol'[k] # None /\ vol'[k].pass = job'[t].creds
    BY <2>1, <1>2, <1>3, <1>4, <1>5, <1>8 DEF Kept
  <2> QED
    BY <2>3, <2>4 DEF RunningOpens
<1>13. VolumeOpens' /\ GivenOpens' /\ GivenBefore'
  BY <1>3, <1>5, <1>6, ExistsBefore DEF NameInv, VolumeOpens, GivenOpens, GivenBefore, IsUp, Managed, Exists
<1>14. Owned'
  <2>1. Seen(n) => \E i \in Ids : Managed(i) /\ row[i].name = n
    <3>1. job[t].id \in Ids /\ Provisioning(t)
      BY <1>0, WorkingOf DEF Provisioning
    <3> QED
      BY <1>0, <1>6, <3>1 DEF NameInv, WorksOnOwn, Managed
  <2> QED
    BY <1>3, <1>5, <1>6, <2>1 DEF NameInv, Owned, Managed, Exists
<1>15. GoneFirst'
  BY <1>2, <1>4, <1>5, <1>6, <1>7 DEF NameInv, GoneFirst
<1> QED
  BY <1>9, <1>10, <1>11, <1>12, <1>13, <1>14, <1>15 DEF NameInv
LEMMA SaveNames == ASSUME Inv, NameInv, NEW t \in Procs, SaveService(t) PROVE NameInv'
<1> DEFINE n == job[t].name  i == job[t].id
<1>0. /\ n \in Names /\ i \in Ids /\ Working(t, n) /\ job[t].pc = "save"
      /\ job[t].creds \in Passwords /\ job[t].status \in {"running", "failed"}
  BY JobFields DEF Inv, TypeOK, Placed, SaveService, Working
<1>1. Others(t) /\ job'[t].pc = "end"
  BY GotoKeeps DEF SaveService, Inv, TypeOK, Pcs
<1>2. UNCHANGED <<nextId, cont, vol, injected, scar>> /\ row' = Written(i, job[t].status, job[t].creds)
  BY DEF SaveService, docker, others
<1>3. /\ \A k \in Ids : (row'[k] = None) <=> (row[k] = None)
      /\ \A k \in Ids : row[k] # None => row'[k].name = row[k].name /\ row'[k].mode = row[k].mode
      /\ \A k \in Ids : k # i => row'[k] = row[k]
      /\ Exists(i) => row'[i].status = job[t].status /\ row'[i].creds = job[t].creds
  BY <1>0, <1>2, WrittenRow DEF Inv
<1> HIDE DEF n, i
<1>4. \A u \in Procs : /\ \A k \in Names : Working(u, k)' <=> (Working(u, k) /\ u # t)
                       /\ Provisioning(u)' => Provisioning(u)
                       /\ u # t => job'[u] = job[u]
  BY <1>0, <1>1 DEF Others, Working, Provisioning
<1>5. \A k \in Names : Working(t, k) => k = n
  BY <1>0 DEF Working
<1>6. \A k \in Names : /\ Quiet(k)' /\ k # n => Quiet(k)
                       /\ Alone(k)' = Alone(k) /\ Seen(k)' = Seen(k)
                       /\ (scar[k] = {} => Alone(k))
  BY <1>2, <1>4, <1>5 DEF Quiet, Alone, Seen
<1>7. Alone(n) => Exists(i) /\ row[i].name = n
  BY <1>0 DEF NameInv, WorksOnOwn, i
<1>8. NamesUnique' /\ OneWorker'
  BY <1>3, <1>4, <1>6 DEF NameInv, NamesUnique, OneWorker, Exists
<1>9. WorksOnOwn'
  <2>1. \A u \in Procs : \A k \in Names : Working(u, k) => job[u].id \in Ids
    BY WorkingOf
  <2> QED
    BY <2>1, <1>2, <1>3, <1>4, <1>6 DEF NameInv, WorksOnOwn, Exists, Managed
<1>10. FreshVolume' /\ RunningOpens' /\ GoneFirst'
  BY <1>2, <1>4, <1>6 DEF NameInv, FreshVolume, RunningOpens, GoneFirst
<1>11. VolumeOpens'
  <2> SUFFICES ASSUME NEW k \in Ids, IsUp(k)', scar'[row'[k].name] = {}
               PROVE  /\ vol'[row'[k].name] # None /\ vol'[row'[k].name].pass = row'[k].creds
                      /\ Quiet(row[k].name)' => cont'[row'[k].name] = row'[k].creds
    BY <1>3 DEF VolumeOpens, IsUp, Managed, Exists
  <2>1. Exists(k) /\ row'[k].name = row[k].name /\ row[k].name \in Names /\ Managed(k)
    BY <1>3, ExistsBefore DEF IsUp, Managed, Exists
  <2>2. CASE k = i
    <3>1. row[k].name = n
      BY <1>0, <2>1, <2>2 DEF NameInv, WorksOnOwn, i
    <3>2. job[t].status = "running" /\ row'[k].creds = job[t].creds
      BY <2>1, <2>2, <1>3 DEF IsUp
    <3>3. cont[n] = job[t].creds /\ vol[n] # None /\ vol[n].pass = job[t].creds
      BY <1>0, <1>2, <2>1, <3>1, <3>2 DEF NameInv, RunningOpens
    <3> QED
      BY <1>2, <2>1, <3>1, <3>2, <3>3
  <2>3. CASE k # i
    <3>1. row'[k] = row[k] /\ IsUp(k) /\ scar[row[k].name] = {}
      BY <1>2, <1>3, <2>1, <2>3 DEF IsUp, Managed, Exists
    <3>2. row[k].name # n
      BY <1>0, <1>6, <1>7, <2>1, <2>3, <3>1 DEF NameInv, NamesUnique
    <3>3. row[k].name \in Names
      BY <2>1
    <3>4. vol[row[k].name] # None /\ vol[row[k].name].pass = row[k].creds
          /\ (Quiet(row[k].name) => cont[row[k].name] = row[k].creds)
      BY <3>1 DEF NameInv, VolumeOpens
    <3>5. PICK m \in Names : m = row[k].name /\ m = row'[k].name
      BY <2>1, <3>3
    <3>6. (\A u \in Procs : ~Working(u, m)') => Quiet(m)
      BY <1>4, <1>5, <3>2, <3>5 DEF Quiet
    <3>7. Quiet(row[k].name)' => Quiet(m)
      BY <3>5, <3>6 DEF Quiet, Working
    <3> QED
      BY <1>2, <3>1, <3>4, <3>5, <3>7
  <2> QED
    BY <2>2, <2>3
<1>12. GivenOpens' /\ GivenBefore'
  BY <1>2, <1>3 DEF NameInv, GivenOpens, GivenBefore, Managed, Exists
<1>13. Owned'
  BY <1>2, <1>3 DEF NameInv, Owned, Managed, Exists, Seen
<1> QED
  BY <1>8, <1>9, <1>10, <1>11, <1>12, <1>13 DEF NameInv

LEMMA DeleteNames == ASSUME Inv, NameInv, NEW t \in Procs, DeleteService(t) PROVE NameInv'
<1> DEFINE n == job[t].name  i == job[t].id
<1>0. n \in Names /\ i \in Ids /\ Working(t, n) /\ job[t].pc = "rmRow"
  BY JobFields DEF Inv, TypeOK, Placed, DeleteService, Working
<1>1. Others(t) /\ job'[t].pc = "idle"
  BY ExitIdles DEF DeleteService, Inv, TypeOK
<1>2. UNCHANGED <<nextId, cont, vol, injected, scar>>
  BY DEF DeleteService, docker, others
<1>3. row'[i] = None /\ \A k \in Ids : k # i => row'[k] = row[k]
  BY <1>0 DEF DeleteService, Inv, TypeOK
<1> HIDE DEF n, i
<1>4. \A u \in Procs : /\ \A k \in Names : Working(u, k)' <=> (Working(u, k) /\ u # t)
                       /\ Provisioning(u)' => Provisioning(u)
                       /\ u # t => job'[u] = job[u]
  BY <1>0, <1>1 DEF Others, Working, Provisioning
<1>5. \A k \in Names : Working(t, k) => k = n
  BY <1>0 DEF Working
<1>6. \A k \in Names : /\ (\A u \in Procs : ~Working(u, k)') /\ k # n => Quiet(k)
                       /\ (scar[k] = {} => Alone(k))
                       /\ Seen(k) => Alone(k)
  BY <1>4, <1>5 DEF Quiet, Alone, Seen
<1>7. Exists(i) => row[i].name = n
  BY <1>0 DEF NameInv, WorksOnOwn, i
<1>8. Alone(n) => Exists(i)
  BY <1>0 DEF NameInv, WorksOnOwn, i
<1>9. NamesUnique'
  BY <1>3 DEF NameInv, NamesUnique, Exists
<1>10. OneWorker' /\ FreshVolume' /\ RunningOpens' /\ GoneFirst'
  BY <1>2, <1>4 DEF NameInv, OneWorker, FreshVolume, RunningOpens, GoneFirst, Alone, Seen
<1>11. WorksOnOwn'
  <2>1. \A u \in Procs : \A k \in Names : Working(u, k) => job[u].id \in Ids
    BY WorkingOf
  <2>2. \A u \in Procs : \A k \in Names : u # t /\ Working(u, k) /\ Alone(k) => job[u].id # i
    <3> SUFFICES ASSUME NEW u \in Procs, NEW k \in Names, u # t, Working(u, k), Alone(k), job[u].id = i
                 PROVE  FALSE
      OBVIOUS
    <3>1. Exists(i) /\ row[i].name = k
      BY DEF NameInv, WorksOnOwn
    <3>2. k = n
      BY <1>7, <3>1
    <3> QED
      BY <1>0, <3>2 DEF NameInv, OneWorker
  <2>3. \A k \in Ids : Exists(k)' => Exists(k) /\ k # i
    BY <1>3 DEF Exists
  <2>4. \A k \in Ids : k # i => Exists(k)' = Exists(k) /\ Managed(k)' = Managed(k) /\ row'[k] = row[k]
    BY <1>3 DEF Exists, Managed
  <2> QED
    BY <2>1, <2>2, <1>2, <1>3, <1>4 DEF NameInv, WorksOnOwn, Exists, Managed, Alone
<1>12. VolumeOpens'
  <2>1. \A k \in Ids : k # i /\ Exists(k) /\ scar[row[k].name] = {} =>
          row[k].name \in Names /\ row[k].name # n
    BY <1>0, <1>6, <1>7, <1>8, ExistsBefore DEF NameInv, NamesUnique
  <2>2. \A k \in Ids : IsUp(k)' => k # i /\ row'[k] = row[k] /\ IsUp(k) /\ Exists(k)
    BY <1>3 DEF IsUp, Managed, Exists
  <2> QED
    BY <1>2, <1>6, <2>1, <2>2 DEF NameInv, VolumeOpens, Quiet
<1>13. GivenOpens' /\ GivenBefore'
  BY <1>2, <1>3 DEF NameInv, GivenOpens, GivenBefore, Managed, Exists
<1>14. Owned'
  <2> SUFFICES ASSUME NEW k \in Names, cont[k] # None, Seen(k)
               PROVE  \E m \in Ids : m # i /\ Managed(m) /\ row[m].name = k
    BY <1>2, <1>3 DEF Owned, Managed, Exists, Seen
  <2>1. PICK m \in Ids : Managed(m) /\ row[m].name = k
    BY DEF NameInv, Owned
  <2>2. m # i
    <3> SUFFICES ASSUME m = i PROVE FALSE
      OBVIOUS
    <3>1. k = n
      BY <1>7, <2>1 DEF Managed
    <3> QED
      BY <1>0, <3>1 DEF NameInv, GoneFirst
  <2> QED
    BY <2>1, <2>2
<1> QED
  BY <1>9, <1>10, <1>11, <1>12, <1>13, <1>14 DEF NameInv

LEMMA CreateNames ==
  ASSUME Inv, NameInv, NEW t \in Procs, NEW n \in Names, NEW e \in Engines,
         NEW m \in {"managed", "external"}, CreateService(t, n, e, m)
  PROVE  NameInv'
<1> DEFINE r == [name |-> n, engine |-> e, mode |-> m,
                 status |-> IF m = "external" THEN "external" ELSE "",
                 creds |-> IF m = "external" THEN Url ELSE NoPass]
           j == [Idle EXCEPT !.pc = "mark", !.id = nextId]
<1>1. r \in Row
  <2>1. r.status \in {"", "external"} /\ r.creds \in {NoPass, Url}
    OBVIOUS
  <2> QED
    BY <2>1, NoPassIsPassword DEF Row
<1>2. r.name = n /\ r.mode = m /\ r.status # "running"
  OBVIOUS
<1>3. /\ row' = [row EXCEPT ![nextId] = r] /\ nextId \in Ids /\ nextId' = nextId + 1
      /\ UNCHANGED <<cont, vol, scar, injected>>
      /\ \A k \in Ids : Exists(k) => row[k].name # n
      /\ job[t].pc = "idle" /\ (job' = job \/ job' = [job EXCEPT ![t] = j])
  BY DEF CreateService, docker, others
<1>4. j.pc = "mark"
  BY DEF Idle
<1> HIDE DEF r, j
<1>5. /\ row'[nextId] = r /\ \A k \in Ids : k # nextId => row'[k] = row[k]
      /\ \A k \in Ids : Exists(k) => k # nextId /\ row'[k] = row[k]
      /\ \A k \in Ids : row'[k] # None => Exists(k) \/ k = nextId
  BY <1>1, <1>3, RowAdded DEF Inv, Exists
<1>6. nextId \in Int /\ nextId' = nextId + 1
  BY <1>3, BoundsAssumption DEF Ids
<1>7. \A u \in Procs : \A k \in Names :
        Working(u, k)' = Working(u, k) /\ (Working(u, k) => job'[u] = job[u])
  BY <1>3, <1>4 DEF Working, Inv, TypeOK
<1>8. \A k \in Names : Quiet(k)' = Quiet(k) /\ Alone(k)' = Alone(k) /\ Seen(k)' = Seen(k)
  BY <1>3, <1>7 DEF Quiet, Alone, Seen
<1>9. NamesUnique' /\ OneWorker'
  BY <1>2, <1>3, <1>5, <1>7, <1>8 DEF NameInv, NamesUnique, OneWorker, Exists
<1>10. WorksOnOwn'
  <2>1. \A u \in Procs : \A k \in Names : Working(u, k)' =>
          /\ Working(u, k) /\ job'[u] = job[u] /\ job[u].id \in Ids
          /\ job[u].id < nextId' /\ job[u].id # nextId
    <3>1. \A x \in Ids : x < nextId => x < nextId + 1 /\ x # nextId
      BY <1>6 DEF Ids
    <3> QED
      BY <1>6, <1>7, <3>1, WorkingOf DEF NameInv, WorksOnOwn
  <2>2. \A u \in Procs : \A k \in Names : Working(u, k)' => (Provisioning(u)' => Provisioning(u))
    BY <1>7 DEF Provisioning
  <2> QED
    BY <1>5, <1>8, <2>1, <2>2 DEF NameInv, WorksOnOwn, Exists, Managed
<1>11. FreshVolume' /\ RunningOpens' /\ GoneFirst'
  BY <1>3, <1>7, <1>8 DEF NameInv, FreshVolume, RunningOpens, GoneFirst
<1>12. VolumeOpens'
  <2>1. \A k \in Ids : IsUp(k)' => IsUp(k) /\ row'[k] = row[k] /\ row[k].name \in Names
    BY <1>2, <1>5, ExistsBefore DEF IsUp, Managed, Exists
  <2> QED
    BY <1>3, <1>8, <2>1 DEF NameInv, VolumeOpens
<1>13. GivenOpens' /\ GivenBefore'
  <2>1. \A p \in Projects : \A k \in Ids : injected[p][k] # None =>
          k # nextId /\ k < nextId' /\ row'[k] = row[k]
    <3>1. \A x \in Ids : x < nextId => x < nextId + 1 /\ x # nextId
      BY <1>6 DEF Ids
    <3> QED
      BY <3>1, <1>5, <1>6 DEF NameInv, GivenBefore
  <2> QED
    BY <2>1, <1>3 DEF NameInv, GivenOpens, GivenBefore, Managed, Exists
<1>14. Owned'
  BY <1>3, <1>5, <1>8 DEF NameInv, Owned, Managed, Exists
<1> QED
  BY <1>9, <1>10, <1>11, <1>12, <1>13, <1>14 DEF NameInv

LEMMA DeployNames == ASSUME Inv, NameInv, NEW p \in Projects, DeployApp(p) PROVE NameInv'
<1> USE DEF DeployApp, store, docker
<1>1. \A q \in Projects, i \in Ids :
        injected'[q][i] # injected[q][i] =>
          injected'[q][i] = None \/ (<<p, i>> \in links /\ injected'[q][i] = ServiceEnv(i))
  BY DEF Inv, TypeOK, EnvForProject
<1>2. \A i \in Ids : <<p, i>> \in links => Exists(i)
  BY DEF Inv, LinksRefer
<1>3. \A u \in Procs : \A n \in Names : Working(u, n)' = Working(u, n)
  BY DEF Working
<1>4. NamesUnique' /\ OneWorker' /\ WorksOnOwn' /\ FreshVolume' /\ RunningOpens' /\ GoneFirst'
  BY <1>3 DEF NameInv, NamesUnique, OneWorker, WorksOnOwn, FreshVolume, RunningOpens, GoneFirst,
              Provisioning, Exists, Managed, Alone, Seen
<1>5. VolumeOpens' /\ Owned'
  BY DEF NameInv, VolumeOpens, Owned, IsUp, Managed, Exists, Quiet, Working, Seen
<1>6. GivenOpens'
  <2> SUFFICES ASSUME NEW q \in Projects, NEW i \in Ids, injected'[q][i] # None, Managed(i),
                      injected'[q][i].status = "running", scar[row[i].name] = {}
               PROVE  vol[row[i].name] # None /\ vol[row[i].name].pass = injected'[q][i].creds
    BY DEF GivenOpens, Managed, Exists
  <2>1. CASE injected'[q][i] = injected[q][i]
    BY <2>1 DEF NameInv, GivenOpens
  <2>2. CASE injected'[q][i] = ServiceEnv(i)
    BY <2>2 DEF NameInv, VolumeOpens, ServiceEnv, IsUp
  <2> QED
    BY <1>1, <2>1, <2>2
<1>7. GivenBefore'
  BY <1>1, <1>2, ExistsBefore DEF NameInv, GivenBefore
<1> QED
  BY <1>4, <1>5, <1>6, <1>7 DEF NameInv

LEMMA CrashNames == ASSUME Inv, NameInv, Crash PROVE NameInv'
<1> USE DEF Crash, store, docker
<1>1. \A t \in Procs : \A n \in Names : ~Working(t, n)'
  BY DEF Working, Idle
<1>2. \A n \in Names : /\ scar[n] \subseteq scar'[n]
                       /\ scar'[n] = {} => scar[n] = {} /\ Quiet(n)
                       /\ scar'[n] \cap {"overlap", "leaked", "killed"} = {} => Seen(n)
  BY DEF Quiet, Seen, Inv, TypeOK
<1>3. NamesUnique' /\ OneWorker' /\ WorksOnOwn' /\ FreshVolume' /\ RunningOpens' /\ GoneFirst'
  BY <1>1 DEF NameInv, NamesUnique, OneWorker, WorksOnOwn, FreshVolume, RunningOpens, GoneFirst, Exists
<1>4. VolumeOpens' /\ GivenOpens' /\ GivenBefore'
  BY <1>2, ExistsBefore DEF NameInv, VolumeOpens, GivenOpens, GivenBefore, IsUp, Managed, Exists
<1>5. Owned'
  BY <1>2 DEF NameInv, Owned, Managed, Exists, Seen
<1> QED
  BY <1>3, <1>4, <1>5 DEF NameInv

(* The steps of those that work on no name.                                *)
LEMMA OtherNames ==
  ASSUME Inv, Inv', NameInv, NEW t \in Procs,
         \/ Mark(t) \/ Done(t) \/ ExecOut(t) \/ RenamePart(t) \/ ExecIn(t)
         \/ \E i \in Ids : TriggerProvision(t, i) \/ LinkService(t, i)
         \/ \E i \in Ids, s \in Seconds : BackupService(t, i, s) \/ RestoreService(t, i, s)
         \/ \E p \in Projects, ids \in SUBSET Ids : Unlink(t, p, ids)
  PROVE  NameInv'
<1> DEFINE Calm == job[t].pc \notin Works /\ job'[t].pc \notin Works /\ \A u \in Procs : u # t => job'[u] = job[u]
<1>0. job \in [Procs -> Job] /\ job' \in [Procs -> Job]
  BY DEF Inv, TypeOK
<1>1. Calm
  <2>1. CASE Mark(t)
    BY <2>1, <1>0, GotoKeeps DEF Mark, Pcs, Works, Others
  <2>2. CASE Done(t) \/ RenamePart(t) \/ ExecIn(t)
    BY <2>2, <1>0, ExitIdles DEF Done, RenamePart, ExecIn, Works, Others
  <2>3. CASE ExecOut(t)
    BY <2>3, <1>0, ExitIdles, GotoKeeps DEF ExecOut, Pcs, Works, Others
  <2>4. ASSUME NEW i \in Ids, TriggerProvision(t, i) PROVE Calm
    BY <2>4, <1>0 DEF TriggerProvision, Idle, Works
  <2>5. ASSUME NEW i \in Ids, LinkService(t, i) PROVE Calm
    <3>1. CASE Exit(t)
      BY <2>5, <3>1, <1>0, ExitIdles DEF LinkService, Works, Others
    <3>2. CASE job' = [job EXCEPT ![t].todo = @ \ {i}]
      <4>1. job'[t].pc = job[t].pc
        BY <3>2, <1>0 DEF Job
      <4> QED
        BY <2>5, <3>2, <4>1, <1>0 DEF LinkService, Works
    <3> QED
      BY <2>5, <3>1, <3>2 DEF LinkService
  <2>6. ASSUME NEW i \in Ids, NEW s \in Seconds, BackupService(t, i, s) PROVE Calm
    BY <2>6, <1>0 DEF BackupService, Idle, Works
  <2>7. ASSUME NEW i \in Ids, NEW s \in Seconds, RestoreService(t, i, s) PROVE Calm
    BY <2>7, <1>0 DEF RestoreService, Idle, Works
  <2>8. ASSUME NEW p \in Projects, NEW ids \in SUBSET Ids, Unlink(t, p, ids) PROVE Calm
    BY <2>8, <1>0 DEF Unlink, Idle, Works
  <2> QED
    BY <2>1, <2>2, <2>3, <2>4, <2>5, <2>6, <2>7, <2>8
<1>2. Others(t)
  BY <1>0, <1>1 DEF Others
<1>3. CASE ExecIn(t)
  <2>1. UNCHANGED <<row, nextId, cont, scar, injected>>
    BY <1>3, ExecInVolumes DEF ExecIn, store, others
  <2>2. \A i \in Ids : Exists(i)' = Exists(i) /\ Managed(i)' = Managed(i)
    BY <2>1 DEF Exists, Managed
  <2> QED
    BY <1>1, <1>2, <1>3, <2>1, <2>2, ExecInVolumes, IdleStepNames
<1>4. CASE ~ExecIn(t)
  <2>1. UNCHANGED <<row, nextId, cont, vol, scar, injected>>
    BY <1>4 DEF Mark, Done, ExecOut, RenamePart, TriggerProvision, LinkService, BackupService,
                RestoreService, Unlink, store, docker, others
  <2> QED
    BY <1>1, <1>2, <2>1, QuietStepNames
<1> QED
  BY <1>3, <1>4

LEMMA NamesNext == ASSUME Inv, Inv', NameInv, Next PROVE NameInv'
<1>1. CASE \E t \in Procs, n \in Names, e \in Engines, m \in {"managed", "external"} :
             CreateService(t, n, e, m)
  BY <1>1, CreateNames
<1>2. ASSUME NEW t \in Procs, NEW i \in Ids, HandleServiceItem(t, i)
      PROVE  NameInv'
  BY <1>2, RemoveNames, OtherNames DEF HandleServiceItem
<1>3. ASSUME NEW t \in Procs,
             Mark(t) \/ GetService(t) \/ ClearStale(t) \/ RunService(t) \/ SaveService(t) \/ Done(t)
      PROVE  NameInv'
  BY <1>3, OtherNames, GetNames, ClearNames, RunNames, SaveNames
<1>4. ASSUME NEW t \in Procs,
             RemoveContainer(t) \/ DeleteService(t) \/ ExecOut(t) \/ RenamePart(t) \/ ExecIn(t)
      PROVE  NameInv'
  BY <1>4, OtherNames, RemoveContainerNames, DeleteNames
<1>5. CASE \/ \E t \in Procs, p \in Projects, ids \in SUBSET Ids : Unlink(t, p, ids)
           \/ \E t \in Procs, i \in Ids : LinkService(t, i)
  BY <1>5, OtherNames
<1>6. CASE \E p \in Projects : DeployApp(p)
  BY <1>6, DeployNames
<1> QED
  BY <1>1, <1>2, <1>3, <1>4, <1>5, <1>6, CrashNames DEF Next

LEMMA NamesStutter == ASSUME NameInv, UNCHANGED vars PROVE NameInv'
<1> USE DEF vars, store, docker, files, others
<1>1. NamesUnique' /\ OneWorker' /\ WorksOnOwn' /\ FreshVolume' /\ RunningOpens' /\ GoneFirst'
  BY DEF NameInv, NamesUnique, OneWorker, WorksOnOwn, FreshVolume, RunningOpens, GoneFirst,
         Provisioning, Exists, Managed, Alone, Seen, Working
<1>2. VolumeOpens' /\ GivenOpens' /\ GivenBefore' /\ Owned'
  BY DEF NameInv, VolumeOpens, GivenOpens, GivenBefore, Owned, IsUp, Managed, Exists, Quiet, Working, Seen
<1> QED
  BY <1>1, <1>2 DEF NameInv

LEMMA NamesAlways == Spec => []NameInv
<1>1. Inv /\ Inv' /\ NameInv /\ [Next]_vars => NameInv'
  BY NamesNext, NamesStutter
<1> QED
  BY <1>1, NamesInit, InvAlways, PTL DEF Spec

(* Whoever holds the credentials of a service that is up, the dashboard or *)
(* an app deployed with them, opens the database, however services with    *)
(* the same name are made, removed, linked and restored by overlapping     *)
(* requests, agent faults and restarts; the exceptions are the names that  *)
(* were provisioned over an old volume, by two at once, whose removal      *)
(* failed, or that a crash cut short (ProvisionService).                   *)
THEOREM CredentialsOpen == Spec => []CredentialsHold
<1>1. Inv /\ NameInv => CredentialsHold
  <2> SUFFICES ASSUME Inv, NameInv PROVE CredentialsHold
    OBVIOUS
  <2>1. StoredOpens
    BY DEF NameInv, VolumeOpens, StoredOpens
  <2>2. InjectedOpens
    BY DEF NameInv, GivenOpens, InjectedOpens
  <2> QED
    BY <2>1, <2>2 DEF CredentialsHold
<1> QED
  BY <1>1, InvAlways, NamesAlways, PTL

(* A container whose service has gone is left only where the removal met a *)
(* provisioning goroutine, a failing agent or a crash (RemoveService).     *)
THEOREM NoOrphanRunsOn == Spec => []NoOrphans
<1>1. NameInv => NoOrphans
  BY DEF NameInv, Owned, NoOrphans, Seen
<1> QED
  BY <1>1, NamesAlways, PTL
=============================================================================
