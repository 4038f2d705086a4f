------------------------------- MODULE Deploy -------------------------------
(***************************************************************************)
(* The deployment lifecycle: internal/deploy over the platform store, the  *)
(* docker agent, the sites directory and the router.                       *)
(*                                                                         *)
(* Every goroutine that works on a project is a member of Procs: a deploy, *)
(* update or rollback job started by TriggerDeploy, TriggerUpdate or       *)
(* actionRollback, and the HTTP handlers that run Stop and Remove.  Its    *)
(* record job[t] holds the program counter and its own copy of the         *)
(* deployment row it works on; one action is one statement against a       *)
(* shared resource (a SQL statement, an agent call, a file, the router),   *)
(* so any two goroutines interleave between them.                          *)
(*                                                                         *)
(* A container is named after the deployment that ran it, so it is         *)
(* identified by that deployment's id.  A row's container id and host port *)
(* are only ever written together, so port # NoPort stands for both.       *)
(***************************************************************************)
EXTENDS Integers, FiniteSets

CONSTANTS
  Projects,        \* ids of projects; each project has a domain of its own
  Procs,           \* goroutines that may work on projects at the same time
  PortLo, PortHi,  \* the range of loopback ports (8300..8999 in the code)
  MaxDeployments,  \* bound: deployments created in a behaviour
  Foreign,         \* ports of the range another program on the host listens on
  AgentFaults,     \* whether the agent may fail a stop or remove, or lose the answer of a run
  NoProject        \* no project

Ports      == PortLo .. PortHi
Ids        == 1 .. MaxDeployments
Strategies == {"auto", "static", "container"}

ASSUME PortsAssumption ==
  /\ PortLo \in Nat \ {0}
  /\ PortHi \in Nat
  /\ PortLo <= PortHi
  /\ Foreign \subseteq Ports
ASSUME BoundAssumption == MaxDeployments \in Nat
ASSUME FaultsAssumption == AgentFaults \in BOOLEAN
ASSUME NoProjectAssumption == NoProject \notin Projects

VARIABLES
  project,    \* table projects: "absent", a strategy, or "removed"
  rows,       \* table deployments
  nextId,     \* its AUTOINCREMENT counter
  alloc,      \* table port_allocations: the deployment that holds each port
  cont,       \* docker: the state of each deployment's container
  cport,      \* docker: the loopback port it publishes
  site,       \* sites/<domain>.yml of each project
  route,      \* the live router's target for the project's domain
  deploying,  \* ui.Server.projDeploying
  job         \* what each goroutine is doing

vars == <<project, rows, nextId, alloc, cont, cport, site, route, deploying, job>>
db   == <<project, rows, nextId, alloc>>
host == <<cont, cport>>
edge == <<site, route>>

NoPort     == 0    \* host_port of a row that has no container
Free       == -1   \* port not in port_allocations
Orphan     == 0    \* deployment_id NULL: the deployment row was deleted
NoSite     == -1   \* no site file / no route
StaticRoot == 0    \* a site that serves a folder

Statuses == {"building", "running", "failed", "stopped"}
Row ==
  [project : Projects \cup {NoProject}, status : Statuses \cup {"absent"},
   port : Ports \cup {NoPort}, image : BOOLEAN]
NoRow == [project |-> NoProject, status |-> "absent", port |-> NoPort, image |-> FALSE]

JobPcs ==
  {"checked", "begin", "sync", "publish", "build", "scan", "insert", "run",
   "health", "flip", "reload", "install", "list", "drainContainer", "drainPort",
   "drainRow", "succeed", "done"}
RequestPcs ==
  {"stopContainer", "stopRow",
   "rmContainer", "rmPort", "rmSite", "rmReload", "rmInstall", "rmRow"}

Sites == [Projects -> {NoSite, StaticRoot} \cup Ports]
Copy == [id : Ids, port : Ports, image : BOOLEAN]
Job ==
  [pc : {"idle"} \cup JobPcs \cup RequestPcs,
   op : {"none", "deploy", "rollback", "stop", "remove"},
   proj : Projects \cup {NoProject},
   strategy : Strategies,            \* p.Strategy, read by GetProject
   id : {0} \cup Ids,                \* dep.ID
   port : Ports \cup {NoPort},       \* dep.HostPort (and dep.ContainerID)
   image : BOOLEAN,                  \* dep.ImageRef is set
   cursor : 0 .. PortHi + 1,         \* AllocatePort's p, then the port it returned
   todo : SUBSET Copy,               \* rows drainOld has still to drain
   snap : Sites]                     \* the sites as reloadNow has read them

(* What a goroutine's place in the code says of its record.                *)
Rowless == {"idle", "checked", "begin", "done", "rmSite", "rmReload", "rmInstall", "rmRow"}
Placed(j) ==
  /\ j.pc # "idle" => j.proj \in Projects
  /\ j.pc \notin Rowless => j.id \in Ids
  /\ j.pc \in {"insert", "run"} => j.cursor \in Ports
NoSites == [p \in Projects |-> NoSite]
Idle ==
  [pc |-> "idle", op |-> "none", proj |-> NoProject, strategy |-> "auto", id |-> 0,
   port |-> NoPort, image |-> FALSE, cursor |-> 0, todo |-> {}, snap |-> NoSites]

TypeOK ==
  /\ project \in [Projects -> Strategies \cup {"absent", "removed"}]
  /\ rows \in [Ids -> Row]
  /\ nextId \in 1 .. MaxDeployments + 1
  /\ alloc \in [Ports -> {Free, Orphan} \cup Ids]
  /\ cont \in [Ids -> {"none", "starting", "up", "stopped"}]
  /\ cport \in [Ids -> Ports \cup {NoPort}]
  /\ site \in Sites
  /\ route \in Sites
  /\ deploying \subseteq Projects
  /\ job \in [Procs -> Job]
  /\ \A t \in Procs : Placed(job[t])

Init ==
  /\ project = [p \in Projects |-> "absent"]
  /\ rows = [d \in Ids |-> NoRow]
  /\ nextId = 1
  /\ alloc = [q \in Ports |-> Free]
  /\ cont = [d \in Ids |-> "none"]
  /\ cport = [d \in Ids |-> NoPort]
  /\ site = NoSites
  /\ route = NoSites
  /\ deploying = {}
  /\ job = [t \in Procs |-> Idle]

-----------------------------------------------------------------------------
(* The store, the host and the router.                                     *)

Exists(p)  == project[p] \in Strategies
Present(d) == rows[d].status # "absent"
RowsOf(p)  == {d \in Ids : rows[d].project = p}

(* LatestDeployment: d is the row of p with the greatest id.               *)
IsLatest(d, p) == d \in RowsOf(p) /\ \A e \in RowsOf(p) : e <= d

(* Wrong on purpose: saving a row has no effect.                           *)
WrittenNowhere(d, status, port, image) == rows

(* UpdateDeployment: an UPDATE of every mutable column from the caller's   *)
(* copy; it changes nothing when the row has been deleted.                 *)
Written(d, status, port, image) ==
  IF Present(d)
    THEN [rows EXCEPT ![d] = [@ EXCEPT !.status = status, !.port = port, !.image = image]]
    ELSE rows

(* Wrong on purpose: the port is not given back.                           *)
ReleasedNot(q) == alloc

(* ReleasePort deletes by port number, whoever holds the port.             *)
Released(q) == [alloc EXCEPT ![q] = Free]

(* docker refuses to publish a port somebody on the host listens on.       *)
Running(d) == cont[d] \in {"starting", "up"}
Listening  == Foreign \cup {cport[d] : d \in {e \in Ids : Running(e)}}

(* Wrong on purpose: a container is taken for healthy without a dial.      *)
AnswersUnasked(q) == TRUE

(* A TCP dial to the port is accepted.                                     *)
Answers(q) == \E d \in Ids : cont[d] = "up" /\ cport[d] = q

(* Goroutine t's record becomes j; t goes on at pc; t is finished.         *)
Becomes(t, j) == job' = [job EXCEPT ![t] = j]
Goto(t, pc)   == Becomes(t, [job[t] EXCEPT !.pc = pc])
Return(t)     == Becomes(t, Idle)

(* Wrong on purpose: no action on delete.                                  *)
OrphanedNot(ds) == alloc

(* The foreign key of port_allocations: ON DELETE SET NULL.                *)
Orphaned(ds) == [q \in Ports |-> IF alloc[q] \in ds THEN Orphan ELSE alloc[q]]

(* Manager.fail saves the job's copy of the row as failed.                 *)
Fail(t) ==
  /\ rows' = Written(job[t].id, "failed", job[t].port, job[t].image)
  /\ Becomes(t, [job[t] EXCEPT !.pc = "done", !.cursor = 0])

-----------------------------------------------------------------------------
(* Triggering a job: isDeploying, then setDeploying and the goroutine.     *)

Bounded ==
  nextId + Cardinality({t \in Procs : job[t].pc \in {"checked", "begin"}}) <= MaxDeployments

CreateProject(p) ==
  /\ project[p] = "absent"
  /\ \E s \in Strategies : project' = [project EXCEPT ![p] = s]
  /\ UNCHANGED <<rows, nextId, alloc, host, edge, deploying, job>>

Trigger(t, p) ==
  /\ job[t].pc = "idle"
  /\ Exists(p)
  /\ p \notin deploying
  /\ Bounded
  /\ \E op \in {"deploy", "rollback"} :
        Becomes(t, [Idle EXCEPT !.pc = "checked", !.op = op, !.proj = p])
  /\ UNCHANGED <<db, host, edge, deploying>>

Start(t) ==
  /\ job[t].pc = "checked"
  /\ deploying' = deploying \cup {job[t].proj}
  /\ Goto(t, "begin")
  /\ UNCHANGED <<db, host, edge>>

-----------------------------------------------------------------------------
(* The job.  Deploy and Update create a row and sync the source; Rollback  *)
(* looks up a deployment with an image and goes straight to runImage.      *)

CreateDeployment(t, pc) ==
  LET p == job[t].proj IN
  /\ nextId <= MaxDeployments
  /\ rows' = [rows EXCEPT ![nextId] = [NoRow EXCEPT !.project = p, !.status = "building"]]
  /\ nextId' = nextId + 1
  /\ Becomes(t, [job[t] EXCEPT !.pc = pc, !.id = nextId, !.cursor = PortLo,
                               !.strategy = project[p]])

Begin(t) ==
  /\ job[t].pc = "begin"
  /\ Exists(job[t].proj)
  /\ \/ job[t].op = "deploy" /\ CreateDeployment(t, "sync")
     \/ /\ job[t].op = "rollback"
        /\ \E d \in RowsOf(job[t].proj) : rows[d].image
        /\ CreateDeployment(t, "scan")
  /\ UNCHANGED <<project, alloc, host, edge, deploying>>

(* The project is gone, or the deployment asked for has no image.          *)
Refuse(t) ==
  /\ job[t].pc = "begin"
  /\ ~Exists(job[t].proj) \/ job[t].op = "rollback"
  /\ Goto(t, "done")
  /\ UNCHANGED <<db, host, edge, deploying>>

(* The source is synced and an "auto" strategy resolved from it; the       *)
(* project row is saved with the answer.                                   *)
Sync(t) ==
  /\ job[t].pc = "sync"
  /\ \/ /\ Fail(t)
        /\ UNCHANGED project
     \/ /\ \E s \in {"static", "container"} :
             /\ job[t].strategy \in {"auto", s}
             /\ project' = IF job[t].strategy = "auto" /\ Exists(job[t].proj)
                             THEN [project EXCEPT ![job[t].proj] = s] ELSE project
             /\ Becomes(t, [job[t] EXCEPT !.pc = IF s = "static" THEN "publish" ELSE "build",
                                          !.strategy = "auto"])
        /\ UNCHANGED rows
  /\ UNCHANGED <<nextId, alloc, host, edge, deploying>>

(* finishStatic: the site file now serves the folder.                      *)
Publish(t) ==
  /\ job[t].pc = "publish"
  /\ \/ /\ site' = [site EXCEPT ![job[t].proj] = StaticRoot]
        /\ Goto(t, "reload")
        /\ UNCHANGED rows
     \/ /\ Fail(t)
        /\ UNCHANGED site
  /\ UNCHANGED <<project, nextId, alloc, host, route, deploying>>

Build(t) ==
  /\ job[t].pc = "build"
  /\ \/ /\ Becomes(t, [job[t] EXCEPT !.pc = "scan", !.image = TRUE])
        /\ UNCHANGED rows
     \/ Fail(t)
  /\ UNCHANGED <<project, nextId, alloc, host, edge, deploying>>

(* AllocatePort: one SELECT per port from PortLo up, then the INSERT.      *)
Scan(t) ==
  LET q == job[t].cursor IN
  /\ job[t].pc = "scan"
  /\ \/ /\ q \in Ports
        /\ Becomes(t, IF alloc[q] = Free THEN [job[t] EXCEPT !.pc = "insert"]
                                         ELSE [job[t] EXCEPT !.cursor = q + 1])
        /\ UNCHANGED rows
     \/ /\ q \notin Ports                    \* ErrNoFreePort
        /\ Fail(t)
  /\ UNCHANGED <<project, nextId, alloc, host, edge, deploying>>

Insert(t) ==
  LET q == job[t].cursor IN
  /\ job[t].pc = "insert"
  /\ IF alloc[q] = Free /\ Present(job[t].id)
       THEN /\ alloc' = [alloc EXCEPT ![q] = job[t].id]
            /\ Goto(t, "run")
            /\ UNCHANGED rows
       ELSE /\ Fail(t)                        \* PRIMARY KEY or FOREIGN KEY conflict
            /\ UNCHANGED alloc
  /\ UNCHANGED <<project, nextId, host, edge, deploying>>

Run(t) ==
  LET q == job[t].cursor  d == job[t].id IN
  /\ job[t].pc = "run"
  /\ \/ /\ q \notin Listening
        /\ cont' = [cont EXCEPT ![d] = "starting"]
        /\ cport' = [cport EXCEPT ![d] = q]
        /\ Becomes(t, [job[t] EXCEPT !.pc = "health", !.port = q,
                                     !.image = TRUE, !.cursor = 0])
        /\ UNCHANGED <<rows, alloc>>
     \/ /\ alloc' = Released(q)
        /\ Fail(t)
        /\ \/ UNCHANGED host
           \/ /\ AgentFaults /\ q \notin Listening   \* it ran, the answer was lost
              /\ cont' = [cont EXCEPT ![d] = "starting"]
              /\ cport' = [cport EXCEPT ![d] = q]
  /\ UNCHANGED <<project, nextId, edge, deploying>>

(* The app inside a container starts to listen, in its own time or never.  *)
AppUp(d) ==
  /\ cont[d] = "starting"
  /\ cont' = [cont EXCEPT ![d] = "up"]
  /\ UNCHANGED <<db, cport, edge, deploying, job>>

(* waitHealthy polls the port, not the container, for 30 seconds.  On      *)
(* failure the container is left for its logs.                             *)
Health(t) ==
  /\ job[t].pc = "health"
  /\ IF Answers(job[t].port)
       THEN Goto(t, "flip") /\ UNCHANGED rows
       ELSE Fail(t)
  /\ UNCHANGED <<project, nextId, alloc, host, edge, deploying>>

Flip(t) ==
  /\ job[t].pc = "flip"
  /\ \/ /\ site' = [site EXCEPT ![job[t].proj] = job[t].port]
        /\ Goto(t, "reload")
        /\ UNCHANGED rows
     \/ /\ Fail(t)
        /\ UNCHANGED site
  /\ UNCHANGED <<project, nextId, alloc, host, route, deploying>>

(* OnChange, reloadNow: every site file is read, then the router rebuilt   *)
(* from what was read.  A container deploy goes on to drainOld, a static   *)
(* one is finished, Remove deletes the project.                            *)
ReadSites(t) ==
  /\ \/ job[t].pc = "reload" /\ Becomes(t, [job[t] EXCEPT !.pc = "install", !.snap = site])
     \/ job[t].pc = "rmReload" /\ Becomes(t, [job[t] EXCEPT !.pc = "rmInstall", !.snap = site])
  /\ UNCHANGED <<db, host, edge, deploying>>

Installed(t, pc) ==
  /\ route' = job[t].snap
  /\ Becomes(t, [job[t] EXCEPT !.pc = pc, !.snap = NoSites])

Install(t) ==
  /\ \/ /\ job[t].pc = "install"
        /\ Installed(t, IF job[t].port = NoPort THEN "succeed" ELSE "list")
     \/ /\ job[t].pc = "rmInstall"
        /\ Installed(t, "rmRow")
  /\ UNCHANGED <<db, host, site, deploying>>

-----------------------------------------------------------------------------
(* drainOld: the rows to drain are read once; each is then removed from    *)
(* the host, its port released, and the row saved from that copy.          *)

(* Wrong on purpose: rows that never had a container are drained as well;  *)
(* only rows marked running are drained.                                   *)
ToDrainAll(p, keep) == RowsOf(p) \ {keep}
ToDrainRunning(p, keep) ==
  {d \in RowsOf(p) : d # keep /\ rows[d].port # NoPort /\ rows[d].status = "running"}

ToDrain(p, keep) ==
  {d \in RowsOf(p) : d # keep /\ rows[d].port # NoPort /\ rows[d].status # "stopped"}

List(t) ==
  LET ds == ToDrain(job[t].proj, job[t].id) IN
  /\ job[t].pc = "list"
  /\ Becomes(t, [job[t] EXCEPT
       !.pc = IF ds = {} THEN "succeed" ELSE "drainContainer",
       !.todo = {[id |-> d, port |-> rows[d].port, image |-> rows[d].image] : d \in ds}])
  /\ UNCHANGED <<db, host, edge, deploying>>

(* The copies drainOld is working on, newest first.                        *)
Draining(t) == {c \in job[t].todo : \A e \in job[t].todo : e.id <= c.id}

(* Wrong on purpose: the container is left running.                        *)
AgentRemoveNot(d) == UNCHANGED cont

(* Agent.Remove(d): the container is gone, or the call failed.             *)
AgentRemove(d) ==
  \/ cont' = [cont EXCEPT ![d] = "none"]
  \/ AgentFaults /\ UNCHANGED cont

DrainContainer(t) ==
  /\ job[t].pc = "drainContainer"
  /\ \E c \in Draining(t) : AgentRemove(c.id)
  /\ Goto(t, "drainPort")
  /\ UNCHANGED <<db, cport, edge, deploying>>

DrainPort(t) ==
  /\ job[t].pc = "drainPort"
  /\ \E c \in Draining(t) : alloc' = Released(c.port)
  /\ Goto(t, "drainRow")
  /\ UNCHANGED <<project, rows, nextId, host, edge, deploying>>

(* Wrong on purpose: the drained row is not marked as stopped.             *)
DrainRowUnmarked(t) ==
  /\ job[t].pc = "drainRow"
  /\ \E c \in Draining(t) :
       Becomes(t, [job[t] EXCEPT !.todo = @ \ {c},
                 !.pc = IF job[t].todo = {c} THEN "succeed" ELSE "drainContainer"])
  /\ UNCHANGED <<db, host, edge, deploying>>

DrainRow(t) ==
  /\ job[t].pc = "drainRow"
  /\ \E c \in Draining(t) :
       /\ rows' = Written(c.id, "stopped", c.port, c.image)
       /\ Becomes(t, [job[t] EXCEPT !.todo = @ \ {c},
                 !.pc = IF job[t].todo = {c} THEN "succeed" ELSE "drainContainer"])
  /\ UNCHANGED <<project, nextId, alloc, host, edge, deploying>>

Succeed(t) ==
  /\ job[t].pc = "succeed"
  /\ rows' = Written(job[t].id, "running", job[t].port, job[t].image)
  /\ Goto(t, "done")
  /\ UNCHANGED <<project, nextId, alloc, host, edge, deploying>>

(* Wrong on purpose: the flag is not deferred but forgotten.               *)
DoneForgets(t) ==
  /\ job[t].pc = "done"
  /\ Return(t)
  /\ UNCHANGED <<db, host, edge, deploying>>

(* The deferred setDeploying(id, false).                                   *)
Done(t) ==
  /\ job[t].pc = "done"
  /\ deploying' = deploying \ {job[t].proj}
  /\ Return(t)
  /\ UNCHANGED <<db, host, edge>>

-----------------------------------------------------------------------------
(* Stop and Remove run in the request's own goroutine and look at no flag. *)
(* Both work on a copy of the project's latest deployment row.             *)

Copied(t, p, d, op, pc) ==
  Becomes(t, [Idle EXCEPT !.pc = pc, !.op = op, !.proj = p, !.id = d,
                          !.port = rows[d].port, !.image = rows[d].image])

RequestStop(t, p) ==
  /\ job[t].pc = "idle"
  /\ Exists(p)
  /\ \E d \in Ids :
        /\ IsLatest(d, p)
        /\ Copied(t, p, d, "stop", IF rows[d].port # NoPort THEN "stopContainer" ELSE "stopRow")
  /\ UNCHANGED <<db, host, edge, deploying>>

(* docker stop fails for a container that is not there.                    *)
StopContainer(t) ==
  LET d == job[t].id IN
  /\ job[t].pc = "stopContainer"
  /\ \/ /\ cont[d] # "none"
        /\ cont' = [cont EXCEPT ![d] = "stopped"]
        /\ Goto(t, "stopRow")
     \/ /\ AgentFaults \/ cont[d] = "none"
        /\ Return(t)
        /\ UNCHANGED cont
  /\ UNCHANGED <<db, cport, edge, deploying>>

StopRow(t) ==
  /\ job[t].pc = "stopRow"
  /\ rows' = Written(job[t].id, "stopped", job[t].port, job[t].image)
  /\ Return(t)
  /\ UNCHANGED <<project, nextId, alloc, host, edge, deploying>>

RequestRemove(t, p) ==
  /\ job[t].pc = "idle"
  /\ Exists(p)
  /\ \/ \E d \in Ids :
           /\ IsLatest(d, p)
           /\ Copied(t, p, d, "remove", IF rows[d].port # NoPort THEN "rmContainer" ELSE "rmSite")
     \/ /\ RowsOf(p) = {}
        /\ Becomes(t, [Idle EXCEPT !.pc = "rmSite", !.op = "remove", !.proj = p])
  /\ UNCHANGED <<db, host, edge, deploying>>

RemoveContainer(t) ==
  /\ job[t].pc = "rmContainer"
  /\ AgentRemove(job[t].id)
  /\ Goto(t, "rmPort")
  /\ UNCHANGED <<db, cport, edge, deploying>>

RemovePort(t) ==
  /\ job[t].pc = "rmPort"
  /\ alloc' = Released(job[t].port)
  /\ Goto(t, "rmSite")
  /\ UNCHANGED <<project, rows, nextId, host, edge, deploying>>

(* Wrong on purpose: the site file stays behind.                           *)
RemoveSiteNot(t) ==
  /\ job[t].pc = "rmSite"
  /\ Goto(t, "rmReload")
  /\ UNCHANGED <<db, host, edge, deploying>>

RemoveSite(t) ==
  /\ job[t].pc = "rmSite"
  /\ site' = [site EXCEPT ![job[t].proj] = NoSite]
  /\ Goto(t, "rmReload")
  /\ UNCHANGED <<db, host, route, deploying>>

(* DeleteProject: its deployments go with it, and the ports they held are  *)
(* left without an owner (ON DELETE CASCADE, ON DELETE SET NULL).          *)
RemoveRow(t) ==
  LET p == job[t].proj  ds == RowsOf(p) IN
  /\ job[t].pc = "rmRow"
  /\ project' = [project EXCEPT ![p] = "removed"]
  /\ rows' = [d \in Ids |-> IF d \in ds THEN NoRow ELSE rows[d]]
  /\ alloc' = Orphaned(ds)
  /\ Return(t)
  /\ UNCHANGED <<nextId, host, edge, deploying>>

-----------------------------------------------------------------------------
(* The sites watcher reloads the router once a file has changed.  Its read *)
(* and its install are one step: see OrderlyNext.                          *)
WatcherReload ==
  /\ route # site
  /\ route' = site
  /\ UNCHANGED <<db, host, site, deploying, job>>

(* orxies dies and is started again: goroutines and flags are gone, the    *)
(* database, the site files and the containers are still there.            *)
Crash ==
  /\ job' = [t \in Procs |-> Idle]
  /\ deploying' = {}
  /\ route' = site
  /\ UNCHANGED <<db, host, site>>

Step(t) ==
  \/ Start(t) \/ Begin(t) \/ Refuse(t) \/ Sync(t) \/ Publish(t) \/ Build(t) \/ Scan(t) \/ Insert(t)
  \/ Run(t) \/ Health(t) \/ Flip(t) \/ ReadSites(t) \/ Install(t) \/ List(t)
  \/ DrainContainer(t) \/ DrainPort(t) \/ DrainRow(t) \/ Succeed(t) \/ Done(t)
  \/ StopContainer(t) \/ StopRow(t)
  \/ RemoveContainer(t) \/ RemovePort(t) \/ RemoveSite(t) \/ RemoveRow(t)

Ask(t, p) == Trigger(t, p) \/ RequestStop(t, p) \/ RequestRemove(t, p)

Background ==
  \/ \E p \in Projects : CreateProject(p)
  \/ \E t \in Procs : Step(t)
  \/ \E d \in Ids : AppUp(d)
  \/ WatcherReload

(* The code as it is: any request at any time.                             *)
ConcurrentNext ==
  \/ Background
  \/ \E t \in Procs, p \in Projects : Ask(t, p)

(* ... and crashes.                                                        *)
Next == ConcurrentNext \/ Crash

(* A careful operator: no request for a project while another one for it   *)
(* is in progress.  Different projects still run side by side.             *)
Quiet(p) == \A t \in Procs : job[t].proj # p

CarefulNext ==
  \/ Background
  \/ \E t \in Procs, p \in Projects : Quiet(p) /\ Ask(t, p)

(* ... and whose reloads of the router never overlap: from the moment one  *)
(* has read the sites until it has installed them no other one reads or    *)
(* installs.  The code has no lock that would say so.                      *)
Reloading(j) == j.pc \in {"install", "rmInstall"}
OneReload ==
  \A t \in Procs : Reloading(job[t]) /\ Reloading(job'[t]) =>
    UNCHANGED route /\ \A u \in Procs \ {t} : ~Reloading(job'[u])

OrderlyNext == CarefulNext /\ OneReload

(* A port has been released that a row still records.  After a crash here  *)
(* the row is drained or removed once more, and the second release may     *)
(* take the port from the deployment it belongs to by then.                *)
HalfReleased == \E t \in Procs : job[t].pc \in {"drainRow", "rmSite", "rmReload", "rmInstall", "rmRow"}

(* A careful operator, and crashes at any other moment (bound: when one    *)
(* more deployment may follow).                                            *)
CrashNext == OrderlyNext \/ (Crash /\ ~HalfReleased /\ nextId = MaxDeployments)

(* Deploys and rollbacks only, by button and by webhook, at any time.      *)
DeploysNext ==
  /\ Background \/ \E t \in Procs, p \in Projects : Trigger(t, p)
  /\ OneReload

(* Every agent call, SQL statement and health check returns in the end, so *)
(* a goroutine that has started goes on; nobody has to send a request.     *)
Fairness == \A t \in Procs : WF_vars(Step(t))

Spec           == Init /\ [][Next]_vars
FairSpec       == Spec /\ Fairness
DeploysSpec    == Init /\ [][DeploysNext]_vars /\ Fairness
OrderlySpec    == Init /\ [][OrderlyNext]_vars /\ Fairness
CrashSpec      == Init /\ [][CrashNext]_vars /\ Fairness

-----------------------------------------------------------------------------
(* Who answers on p's domain: nobody, the folder, or the container of one  *)
(* of p's deployments that listens on the routed port.                     *)
Answerer(p) ==
  LET own == {d \in RowsOf(p) : cont[d] = "up" /\ cport[d] = route[p]} IN
  IF route[p] \notin Ports THEN route[p] ELSE IF own = {} THEN -1 ELSE CHOOSE d \in own : TRUE

Doing(p, ops) == \E t \in Procs : job[t].proj = p /\ job[t].op \in ops

Service == INSTANCE ServiceLife WITH
  Releases <- Ids,
  live     <- [p \in Projects |-> Answerer(p)],
  asked    <- {p \in Projects : Doing(p, {"stop", "remove"})}

(* Zero downtime: a deploy or rollback, failing or not, never takes down   *)
(* what answers on the domain; it is only ever replaced by a later release *)
(* (deploy.go, Deploy: "the new container is built, run, and               *)
(* health-checked before the route flips and the old one drains").         *)
ZeroDowntime == Service!SSpec

(* A domain is never answered by another project's container, outside the  *)
(* window in which Remove has freed the port and not yet the route.        *)
NoMisroute ==
  \A p \in Projects, d \in Ids :
    /\ route[p] \in Ports
    /\ Running(d) /\ cport[d] = route[p]
    /\ ~ \E t \in Procs : job[t].proj = p /\ job[t].pc \in {"rmSite", "rmReload", "rmInstall"}
    => rows[d].project = p

(* At rest, the container deployment the dashboard shows as running is the *)
(* one the edge routes to.                                                 *)
RunningIsRouted ==
  \A p \in Projects : \A d \in RowsOf(p) :
    Quiet(p) /\ rows[d].status = "running" /\ rows[d].port # NoPort
      => route[p] = rows[d].port

(* The port of a container that runs is reserved until the container is    *)
(* gone, so that no other deployment is given it.                          *)
ReservedWhileRunning ==
  \A d \in Ids : Running(d) => alloc[cport[d]] \in {d, Orphan}

(* A reserved port is recorded in the row of the deployment that holds it, *)
(* so that somebody can release it, unless the deployment is in progress.  *)
PortsAccounted ==
  \A q \in Ports : alloc[q] \in Ids =>
    LET d == alloc[q] IN
    Quiet(rows[d].project) => rows[d].port = q

(* Once a deployment of a project has succeeded no older one still runs.   *)
(* The one exception is a container whose row never came to record it,     *)
(* because orxies died in between.                                         *)
CleanAfterSuccess ==
  \A p \in Projects, d \in Ids :
    Quiet(p) /\ IsLatest(d, p) /\ rows[d].status = "running"
      => \A e \in RowsOf(p) \ {d} : rows[e].port # NoPort => ~Running(e)

(* port_allocations never names a deployment that does not exist.          *)
OwnersExist == \A q \in Ports : alloc[q] \in Ids => Present(alloc[q])

(* A project marked as deploying is released in the end, whatever fails.   *)
FlagClears == \A p \in Projects : p \in deploying ~> p \notin deploying

(* A job never leaves its row "building": only a crash does.               *)
WorkedOn(d) == \E t \in Procs : job[t].id = d /\ job[t].pc \in JobPcs
OnlyCrashAbandons ==
  [][\A d \in Ids :
        rows[d].status = "building" /\ WorkedOn(d) /\ ~WorkedOn(d)'
          => rows'[d].status # "building" \/ Crash]_vars

(* PHASE-3.md, 5: redeploy is zero-downtime: as long as nobody stops or    *)
(* removes a project, something answers on its domain once it is live.     *)
NoOutage == [][\A p \in Projects : Answerer(p) # -1 => Answerer(p)' # -1]_vars
=============================================================================
