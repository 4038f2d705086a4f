------------------------------ MODULE Services ------------------------------
(***************************************************************************)
(* Managed services: provisioning, removal, the links of projects to them, *)
(* the credentials a deploy injects, backups and restores.                 *)
(* (internal/deploy/services.go, internal/store/services.go,               *)
(* internal/ui/services.go, and exec and rm of internal/agent.)            *)
(*                                                                         *)
(* One action is one SQL statement, agent call or file operation.  Docker  *)
(* and the database image are modelled from how the code uses them: the    *)
(* image sets the password in its data volume on the first boot, and never *)
(* again; the volume outlives the container.                               *)
(*                                                                         *)
(* A name stands for the container, the volume and the backup directory    *)
(* that ServiceName and serviceBackupDir derive from it; different names   *)
(* are taken to have different safeNames.                                  *)
(***************************************************************************)
EXTENDS Integers, FiniteSets

CONSTANTS
  Names,          \* names of services
  Engines,        \* "sql" (postgres, mysql) and "redis"
  Projects,       \* projects that may be linked to services
  Procs,          \* HTTP requests and provisioning goroutines
  None,           \* no row, container, volume or file
  Data,           \* a database as its apps have it, and a whole dump of it
  Url,            \* the connection string of an external service
  Half,           \* a dump that is not complete
  Mixed,          \* a database in which a restore stopped half-way
  AgentFaults,    \* whether agent calls may fail, or lose their answer
  MaxServices,    \* bound: rows ever inserted
  MaxPasswords,   \* bound: passwords ever generated
  Seconds,        \* the seconds in which a backup may be asked for
  MaxCrashes      \* bound: restarts of the process

ASSUME BoundsAssumption ==
  /\ MaxServices \in Nat /\ MaxPasswords \in Nat /\ MaxCrashes \in Nat
ASSUME ValuesAssumption ==
  /\ Engines \subseteq {"sql", "redis"} /\ AgentFaults \in BOOLEAN /\ IsFiniteSet(Procs)
  /\ {None, Url} \cap Int = {} /\ Cardinality({Data, Half, Mixed}) = 3
  /\ None \notin Names \cup Projects \cup Seconds \cup {Data, Half, Mixed}

Ids == 1 .. MaxServices
NoPass == 0
Passwords == NoPass .. MaxPasswords
Contents == {Data, Mixed}

Row == [name : Names, engine : Engines, mode : {"managed", "external"},
        status : {"", "running", "failed", "external"},
        creds : Passwords \cup {Url}]
Volume == [pass : Passwords, data : Contents]
Scars == {"overlap", "again", "leaked", "killed"}

VARIABLES
  row,        \* table services
  nextId,     \* AUTOINCREMENT
  links,      \* table project_services
  cont,       \* containers by name: the password in their environment
  vol,        \* data volumes by name
  part, sql,  \* <backups>/<name>/<second>.sql.part and .sql
  injected,   \* per project, what its running app was given of each service
  busy,       \* svcBusy
  job,        \* what every goroutine is doing
  lastPass,   \* passwords generated so far
  crashes,
  scar        \* history: what has happened to a name that may break its service

vars == <<row, nextId, links, cont, vol, part, sql, injected, busy, job, lastPass,
          crashes, scar>>
store   == <<row, nextId, links>>
docker  == <<cont, vol>>
files   == <<part, sql>>
others  == <<injected, lastPass, crashes>>

Pcs == {"idle", "mark", "get", "clear", "run", "save", "end", "rmCont", "rmRow",
        "dump", "rename", "feed", "link"}
Job == [pc : Pcs, id : Ids \cup {None},
        name : Names \cup {None},      \* of the service it has read
        creds : Passwords,             \* the credentials it provisions
        status : {"", "running", "failed"},
        sec : Seconds \cup {None},                 \* of the backup it writes or restores
        project : Projects \cup {None}, todo : SUBSET Ids]
Idle == [pc |-> "idle", id |-> None, name |-> None, creds |-> NoPass, status |-> "",
         sec |-> None, project |-> None, todo |-> {}]
Given == [status : {"", "running", "failed", "external"}, creds : Passwords \cup {Url}]

ASSUME RecordsAssumption == None \notin Row \cup Volume \cup Given

(* What a goroutine has in hand follows from where it stands.              *)
Placed(j) ==
  /\ j.pc \in {"clear", "run", "save", "rmCont", "rmRow", "dump", "rename", "feed"} => j.name # None
  /\ j.pc \in {"mark", "get", "clear", "run", "save", "end", "rmCont", "rmRow"} => j.id # None
  /\ j.pc \in {"dump", "rename", "feed"} => j.sec # None
  /\ j.pc = "link" => j.project # None
  /\ j.pc \in {"save", "end"} \/ j.status = ""
  /\ j.pc = "save" => j.status # ""

TypeOK ==
  /\ row \in [Ids -> Row \cup {None}]
  /\ nextId \in 1 .. MaxServices + 1
  /\ links \subseteq Projects \X Ids
  /\ cont \in [Names -> Passwords \cup {None}]
  /\ vol \in [Names -> Volume \cup {None}]
  /\ part \in [Names -> [Seconds -> Contents \cup {None, Half}]]
  /\ sql \in [Names -> [Seconds -> Contents \cup {None, Half}]]
  /\ injected \in [Projects -> [Ids -> Given \cup {None}]]
  /\ busy \in [Ids -> BOOLEAN]
  /\ job \in [Procs -> Job]
  /\ lastPass \in Passwords /\ crashes \in 0 .. MaxCrashes
  /\ scar \in [Names -> SUBSET Scars]
  /\ \A i \in Ids : i >= nextId => row[i] = None
  /\ \A t \in Procs : Placed(job[t])

Init ==
  /\ row = [i \in Ids |-> None] /\ nextId = 1 /\ links = {}
  /\ cont = [n \in Names |-> None] /\ vol = [n \in Names |-> None]
  /\ part = [n \in Names |-> [s \in Seconds |-> None]] /\ sql = part
  /\ injected = [p \in Projects |-> [i \in Ids |-> None]]
  /\ busy = [i \in Ids |-> FALSE] /\ job = [t \in Procs |-> Idle]
  /\ lastPass = NoPass /\ crashes = 0
  /\ scar = [n \in Names |-> {}]

Exists(i) == row[i] # None
Managed(i) == Exists(i) /\ row[i].mode = "managed"
Goto(t, pc) == job' = [job EXCEPT ![t].pc = pc]
Exit(t) == job' = [job EXCEPT ![t] = Idle]

(* UPDATE services ... WHERE id: nothing happens when the row has gone.    *)
Written(i, st, c) ==
  IF Exists(i) THEN [row EXCEPT ![i].status = st, ![i].creds = c] ELSE row

(* DELETE FROM services, and what ON DELETE CASCADE leaves of the links.   *)
Cascade(i) == {l \in links : l[2] # i}

(* Changed form: docker stop in place of docker rm -f.                     *)
RemovedNot(n) == cont

(* docker rm -f of the container of that name.                             *)
Removed(n) == [cont EXCEPT ![n] = None]

(* Provisioning or removing n at this moment.                              *)
Working(t, n) ==
  job[t].pc \in {"clear", "run", "save", "rmCont", "rmRow"} /\ job[t].name = n
Overlaps(t, n) == \E u \in Procs \ {t} : Working(u, n)
Scar(n, s) == [scar EXCEPT ![n] = @ \cup s]

(* The bound on passwords, kept where a provisioning is asked for so that   *)
(* none is stuck without one.                                              *)
MayProvision ==
  lastPass + Cardinality({t \in Procs : job[t].pc \in {"mark", "get"}}) < MaxPasswords

----------------------------------------------------------------------------
(* Creation.  name is UNIQUE; an external service comes with its URL.      *)
CreateService(t, n, e, m) ==
  /\ job[t].pc = "idle" /\ nextId \in Ids
  /\ m = "managed" => MayProvision
  /\ \A i \in Ids : Exists(i) => row[i].name # n
  /\ row' = [row EXCEPT ![nextId] =
       [name |-> n, engine |-> e, mode |-> m,
        status |-> IF m = "external" THEN "external" ELSE "",
        creds |-> IF m = "external" THEN Url ELSE NoPass]]
  /\ nextId' = nextId + 1
  /\ job' = IF m = "managed" THEN [job EXCEPT ![t] = [Idle EXCEPT !.pc = "mark", !.id = nextId]]
                             ELSE job
  /\ UNCHANGED <<links, docker, files, busy, others, scar>>

(* The Provision button; the flag is tested here and set in Mark.          *)
TriggerProvision(t, i) ==
  /\ job[t].pc = "idle" /\ Exists(i) /\ ~busy[i] /\ MayProvision
  /\ job' = [job EXCEPT ![t] = [Idle EXCEPT !.pc = "mark", !.id = i]]
  /\ UNCHANGED <<store, docker, files, busy, others, scar>>

Mark(t) ==
  /\ job[t].pc = "mark"
  /\ busy' = [busy EXCEPT ![job[t].id] = TRUE]
  /\ Goto(t, "get")
  /\ UNCHANGED <<store, docker, files, others, scar>>

(* engineSpec generates a password each time; redis is run without one.    *)
FreshPass(e) == IF e = "redis" THEN NoPass ELSE lastPass + 1

(* GetService and engineSpec.  The new credentials are in memory only.     *)
GetService(t) ==
  LET i == job[t].id IN
  /\ job[t].pc = "get"
  /\ \/ ~Exists(i) /\ Goto(t, "end") /\ UNCHANGED <<row, lastPass, scar>>
     \/ /\ Exists(i) /\ row[i].mode = "external"
        /\ row' = Written(i, "external", row[i].creds)
        /\ Goto(t, "end") /\ UNCHANGED <<lastPass, scar>>
     \/ /\ Managed(i)
        /\ job' = [job EXCEPT ![t].pc = "clear", ![t].name = row[i].name,
                              ![t].creds = FreshPass(row[i].engine)]
        /\ lastPass' = IF row[i].engine = "redis" THEN lastPass ELSE FreshPass(row[i].engine)
        /\ scar' = Scar(row[i].name,
             (IF Overlaps(t, row[i].name) THEN {"overlap"} ELSE {}) \cup
             (IF vol[row[i].name] # None THEN {"again"} ELSE {}))
        /\ UNCHANGED row
  /\ UNCHANGED <<nextId, links, docker, files, busy, injected, crashes>>

(* The error of Agent.Remove is ignored.                                   *)
ClearStale(t) ==
  /\ job[t].pc = "clear"
  /\ \/ cont' = Removed(job[t].name)
     \/ AgentFaults /\ cont' = cont
  /\ Goto(t, "run")
  /\ UNCHANGED <<store, vol, files, busy, others, scar>>

(* docker run on the volume of that name, which the image initialises when *)
(* it is new.  It fails when the name is taken, or for reasons of its own  *)
(* (no image, no network); its answer may be lost.                         *)
Booted(n, pass) == IF vol[n] = None THEN [vol EXCEPT ![n] = [pass |-> pass, data |-> Data]] ELSE vol

(* Changed form: the outcome is not noted in the row.                      *)
RanSilently(t, st) == job' = [job EXCEPT ![t].pc = "save"]

Ran(t, st) == job' = [job EXCEPT ![t].pc = "save", ![t].status = st]

RunService(t) ==
  LET s == job[t] IN
  /\ job[t].pc = "run"
  /\ \/ /\ cont[s.name] = None
        /\ cont' = [cont EXCEPT ![s.name] = s.creds]
        /\ vol' = Booted(s.name, s.creds)
        /\ \/ Ran(t, "running")
           \/ AgentFaults /\ Ran(t, "failed")
     \/ /\ cont[s.name] # None \/ AgentFaults
        /\ Ran(t, "failed")
        /\ UNCHANGED docker
  /\ UNCHANGED <<store, files, busy, others, scar>>

(* UpdateService writes status and credentials, after a failed run too.    *)
SaveService(t) ==
  /\ job[t].pc = "save"
  /\ row' = Written(job[t].id, job[t].status, job[t].creds)
  /\ Goto(t, "end")
  /\ UNCHANGED <<nextId, links, docker, files, busy, others, scar>>

Done(t) ==
  /\ job[t].pc = "end"
  /\ busy' = [busy EXCEPT ![job[t].id] = FALSE]
  /\ Exit(t)
  /\ UNCHANGED <<store, docker, files, others, scar>>

----------------------------------------------------------------------------
(* RemoveService looks at no flag; the volume is left behind.              *)
RemoveService(t, i) ==
  /\ job[t].pc = "idle" /\ Exists(i)
  /\ job' = [job EXCEPT ![t] = [Idle EXCEPT !.id = i, !.name = row[i].name,
               !.pc = IF row[i].mode = "managed" THEN "rmCont" ELSE "rmRow"]]
  /\ scar' = Scar(row[i].name, IF Overlaps(t, row[i].name) THEN {"overlap"} ELSE {})
  /\ UNCHANGED <<store, docker, files, busy, others>>

RemoveContainer(t) ==
  LET n == job[t].name IN
  /\ job[t].pc = "rmCont"
  /\ \/ cont' = Removed(n) /\ UNCHANGED scar
     \/ AgentFaults /\ cont' = cont /\ scar' = Scar(n, {"leaked"})
  /\ Goto(t, "rmRow")
  /\ UNCHANGED <<store, vol, files, busy, others>>

DeleteService(t) ==
  /\ job[t].pc = "rmRow"
  /\ row' = [row EXCEPT ![job[t].id] = None]
  /\ links' = Cascade(job[t].id)
  /\ Exit(t)
  /\ UNCHANGED <<nextId, docker, files, busy, others, scar>>

----------------------------------------------------------------------------
(* SetProjectServices: one DELETE, then an INSERT OR IGNORE for each       *)
(* service, which fails on the foreign key when the service has gone; the  *)
(* rest is then not inserted.  No transaction.  The page offers the        *)
(* services there are when it is sent.                                     *)
Unlink(t, p, ids) ==
  /\ job[t].pc = "idle" /\ \A i \in ids : Exists(i)
  /\ links' = {l \in links : l[1] # p}
  /\ job' = IF ids = {} THEN job
            ELSE [job EXCEPT ![t] = [Idle EXCEPT !.pc = "link", !.project = p, !.todo = ids]]
  /\ UNCHANGED <<row, nextId, docker, files, busy, others, scar>>

Refers(i) == Exists(i)

LinkService(t, i) ==
  /\ job[t].pc = "link" /\ i \in job[t].todo
  /\ \/ ~Refers(i) /\ Exit(t) /\ UNCHANGED links
     \/ /\ Refers(i) /\ links' = links \cup {<<job[t].project, i>>}
        /\ IF job[t].todo = {i} THEN Exit(t)
           ELSE job' = [job EXCEPT ![t].todo = @ \ {i}]
  /\ UNCHANGED <<row, nextId, docker, files, busy, others, scar>>

(* Changed form: the service is injected without its password.             *)
ServiceEnvStale(i) == [status |-> row[i].status, creds |-> NoPass]

(* A deploy of p, from LinkedServices to docker run: the credentials of    *)
(* every linked service, whatever its status.                              *)
ServiceEnv(i) == [status |-> row[i].status, creds |-> row[i].creds]
EnvForProject(p) == [i \in Ids |-> IF <<p, i>> \in links THEN ServiceEnv(i) ELSE None]

DeployApp(p) ==
  /\ injected' = [injected EXCEPT ![p] = EnvForProject(p)]
  /\ injected' # injected
  /\ UNCHANGED <<store, docker, files, busy, job, lastPass, crashes, scar>>

----------------------------------------------------------------------------
(* dumpCommand, restoreCommand: there is none for redis.                   *)
Dumps(e) == e = "sql"

(* Backups.  The file is named by the second in which the request comes.   *)
(* One backup of a service per second: two requests within one second      *)
(* would share the .part, which is not modelled.                           *)
BackupService(t, i, sec) ==
  LET n == row[i].name IN
  /\ job[t].pc = "idle" /\ Managed(i) /\ Dumps(row[i].engine)
  /\ part[n][sec] = None /\ sql[n][sec] = None
  /\ part' = [part EXCEPT ![n][sec] = Half]
  /\ job' = [job EXCEPT ![t] = [Idle EXCEPT !.pc = "dump", !.name = n, !.sec = sec]]
  /\ UNCHANGED <<store, docker, sql, busy, others, scar>>

Put(dir, t, v) == [dir EXCEPT ![job[t].name][job[t].sec] = v]

(* What ExecOut can meet: the agent refuses (no 200), the stream is cut,   *)
(* the command ends with an error, which arrives in the trailer, or it     *)
(* ends well.                                                              *)
(* Changed form: the trailer is not looked at.                             *)
ExecFailsNoTrailer(o) == o \in {"refused", "cut"}

Outcomes == {"refused", "cut", "error", "ok"}
ExecFails(o) == o \in {"refused", "cut", "error"}

(* What docker exec has written to the file by then.                       *)
Dumped(o, n) == IF o = "ok" THEN vol[n].data ELSE Half

ExecOut(t) ==
  LET n == job[t].name IN
  /\ job[t].pc = "dump"
  /\ \E o \in Outcomes :
       /\ o = "ok" => cont[n] # None
       /\ IF ExecFails(o) THEN part' = Put(part, t, None) /\ Exit(t)
                          ELSE part' = Put(part, t, Dumped(o, n)) /\ Goto(t, "rename")
  /\ UNCHANGED <<store, docker, sql, busy, others, scar>>

RenamePart(t) ==
  /\ job[t].pc = "rename"
  /\ sql' = Put(sql, t, part[job[t].name][job[t].sec])
  /\ part' = Put(part, t, None)
  /\ Exit(t)
  /\ UNCHANGED <<store, docker, busy, others, scar>>

(* ListBackups: the names that end in .sql.                                *)
ListBackups(n) == {s \in Seconds : sql[n][s] # None}

(* A restore feeds a listed file to the client of the database.  Nothing   *)
(* makes it a transaction: when it stops, the part that was fed stays.     *)
RestoreService(t, i, s) ==
  /\ job[t].pc = "idle" /\ Managed(i) /\ Dumps(row[i].engine)
  /\ s \in ListBackups(row[i].name)
  /\ job' = [job EXCEPT ![t] = [Idle EXCEPT !.pc = "feed", !.name = row[i].name, !.sec = s]]
  /\ UNCHANGED <<store, docker, files, busy, others, scar>>

(* docker exec -i: all of the file, or what came before an error.          *)
Fed(n, file) == {[vol EXCEPT ![n].data = d] : d \in {file, Mixed}}

ExecIn(t) ==
  LET n == job[t].name IN
  /\ job[t].pc = "feed"
  /\ \/ /\ cont[n] # None
        /\ vol' \in Fed(n, sql[n][job[t].sec])
     \/ UNCHANGED vol
  /\ Exit(t)
  /\ UNCHANGED <<store, cont, files, busy, others, scar>>

----------------------------------------------------------------------------
(* The process dies and starts again.                                      *)
Crash ==
  /\ crashes < MaxCrashes /\ crashes' = crashes + 1
  /\ job' = [t \in Procs |-> Idle]
  /\ busy' = [i \in Ids |-> FALSE]
  /\ scar' = [n \in Names |-> IF \E t \in Procs : Working(t, n)
                              THEN scar[n] \cup {"killed"} ELSE scar[n]]
  /\ UNCHANGED <<store, docker, files, injected, lastPass>>

(* The buttons of a service's page.                                        *)
HandleServiceItem(t, i) ==
  \/ TriggerProvision(t, i)
  \/ RemoveService(t, i)
  \/ \E s \in Seconds : BackupService(t, i, s)
  \/ \E s \in Seconds : RestoreService(t, i, s)

Next ==
  \/ \E t \in Procs, n \in Names, e \in Engines, m \in {"managed", "external"} :
       CreateService(t, n, e, m)
  \/ \E t \in Procs, i \in Ids : HandleServiceItem(t, i)
  \/ \E t \in Procs : Mark(t)
  \/ \E t \in Procs : GetService(t)
  \/ \E t \in Procs : ClearStale(t)
  \/ \E t \in Procs : RunService(t)
  \/ \E t \in Procs : SaveService(t)
  \/ \E t \in Procs : Done(t)
  \/ \E t \in Procs : RemoveContainer(t)
  \/ \E t \in Procs : DeleteService(t)
  \/ \E t \in Procs, p \in Projects, ids \in SUBSET Ids : Unlink(t, p, ids)
  \/ \E t \in Procs, i \in Ids : LinkService(t, i)
  \/ \E p \in Projects : DeployApp(p)
  \/ \E t \in Procs : ExecOut(t)
  \/ \E t \in Procs : RenamePart(t)
  \/ \E t \in Procs : ExecIn(t)
  \/ Crash

Spec == Init /\ [][Next]_vars

----------------------------------------------------------------------------
Quiet(n) == \A t \in Procs : ~Working(t, n)
IsUp(i) == Managed(i) /\ row[i].status = "running"

(* A service shown as running has its container, and the stored password   *)
(* opens the database, unless its name was provisioned over an old volume, *)
(* by two goroutines at once, or cut short by a crash (ProvisionService).  *)
StoredOpens ==
  \A i \in Ids : IsUp(i) /\ Quiet(row[i].name) /\ scar[row[i].name] = {} =>
    cont[row[i].name] = row[i].creds /\ vol[row[i].name].pass = row[i].creds

(* An app that was deployed while its service was up holds a password that *)
(* the service accepts, however the links and rows have changed since      *)
(* (envForProject).                                                        *)
InjectedOpens ==
  \A p \in Projects, i \in Ids :
    LET g == injected[p][i] IN
    g # None /\ Managed(i) =>
      (g.status = "running" /\ Quiet(row[i].name) /\ scar[row[i].name] = {} =>
         vol[row[i].name].pass = g.creds)

(* Whoever holds the credentials of a service that is up, the dashboard or *)
(* an app, opens the database with them.                                   *)
CredentialsHold == StoredOpens /\ InjectedOpens

(* No container of a removed service runs on, unless the removal met a     *)
(* provisioning goroutine, a failing agent or a crash (RemoveService).     *)
NoOrphans ==
  \A n \in Names :
    cont[n] # None /\ Quiet(n) /\ scar[n] \cap {"overlap", "leaked", "killed"} = {} =>
      \E i \in Ids : Managed(i) /\ row[i].name = n

(* Every listed backup is a whole dump, whatever befell the database, the  *)
(* agent or the process while it was written (BackupService).              *)
BackupsWhole == \A n \in Names : \A s \in ListBackups(n) : sql[n][s] # Half
=============================================================================
