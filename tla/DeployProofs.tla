---------------------------- MODULE DeployProofs ----------------------------
(***************************************************************************)
(* Theorems about Deploy, for any number of projects, goroutines and ports *)
(* and any bound on the deployments.                                       *)
(***************************************************************************)
EXTENDS Deploy, TLAPS

(* The empty records have the types of the tables they stand in.           *)
LEMMA EmptyRecords ==
  NoRow \in Row /\ NoSites \in Sites /\ Idle \in Job /\ Placed(Idle)
<1>1. NoRow \in Row
  BY DEF NoRow, Row
<1>2. NoSites \in Sites
  BY DEF NoSites, Sites
<1>3. 0 \in 0 .. PortHi + 1
  BY PortsAssumption
<1>4. Idle \in Job
  BY <1>2, <1>3 DEF Idle, Job, Strategies, NoPort
<1>5. Placed(Idle)
  BY DEF Idle, Placed, Rowless
<1> QED
  BY <1>1, <1>2, <1>4, <1>5

LEMMA CursorRange == 0 \in 0 .. PortHi + 1 /\ PortLo \in 0 .. PortHi + 1
BY PortsAssumption

(* A goroutine that takes a well-formed record keeps the job table         *)
(* well-formed.                                                            *)
LEMMA BecomesType ==
  ASSUME TypeOK, NEW t \in Procs, NEW j \in Job, Placed(j), Becomes(t, j)
  PROVE  job' \in [Procs -> Job] /\ \A u \in Procs : Placed(job'[u])
BY DEF TypeOK, Becomes

LEMMA GotoType ==
  ASSUME TypeOK, NEW t \in Procs, NEW pc \in JobPcs \cup RequestPcs, Goto(t, pc),
         job[t].pc # "idle",
         pc \notin Rowless => job[t].id \in Ids,
         pc \in {"insert", "run"} => job[t].cursor \in Ports
  PROVE  job' \in [Procs -> Job] /\ \A u \in Procs : Placed(job'[u])
<1> DEFINE j == [job[t] EXCEPT !.pc = pc]
<1>1. job[t] \in Job /\ Placed(job[t])
  BY DEF TypeOK
<1>2. j \in Job
  BY <1>1 DEF Job
<1>3. Placed(j)
  BY <1>1 DEF Placed, Job, Rowless
<1> QED
  BY <1>2, <1>3, BecomesType DEF Goto

(* The statements against the store keep its tables' types.                *)
LEMMA WrittenType ==
  ASSUME TypeOK, NEW d \in Ids, NEW s \in Statuses, NEW q \in Ports \cup {NoPort},
         NEW i \in BOOLEAN
  PROVE  Written(d, s, q, i) \in [Ids -> Row]
<1>1. rows \in [Ids -> Row]
  BY DEF TypeOK
<1>2. [rows[d] EXCEPT !.status = s, !.port = q, !.image = i] \in Row
  BY <1>1 DEF Row
<1> QED BY <1>1, <1>2 DEF Written

LEMMA AllocTypes ==
  ASSUME TypeOK
  PROVE  /\ \A q \in Int : Released(q) \in [Ports -> {Free, Orphan} \cup Ids]
         /\ \A ds \in SUBSET Ids : Orphaned(ds) \in [Ports -> {Free, Orphan} \cup Ids]
BY DEF TypeOK, Released, Orphaned

(* The job's own failure path.                                             *)
LEMMA FailType ==
  ASSUME TypeOK, NEW t \in Procs, job[t].id \in Ids, job[t].pc # "idle", Fail(t)
  PROVE  /\ rows' \in [Ids -> Row]
         /\ job' \in [Procs -> Job]
         /\ \A u \in Procs : Placed(job'[u])
<1> DEFINE j == [job[t] EXCEPT !.pc = "done", !.cursor = 0]
<1>1. job[t] \in Job /\ Placed(job[t])
  BY DEF TypeOK
<1>2. job[t].port \in Ports \cup {NoPort} /\ job[t].image \in BOOLEAN
  BY <1>1 DEF Job
<1>3. rows' \in [Ids -> Row]
  BY <1>2, WrittenType DEF Fail, Statuses
<1>4. j \in Job
  BY <1>1, CursorRange DEF Job, JobPcs
<1>5. Placed(j)
  BY <1>1 DEF Placed, Job, Rowless
<1> QED
  BY <1>3, <1>4, <1>5, BecomesType DEF Fail

-----------------------------------------------------------------------------
(* Every step of a goroutine keeps the type invariant.                     *)
LEMMA StepType == ASSUME TypeOK, NEW t \in Procs, Step(t) PROVE TypeOK'
<1> USE DEF db, host, edge
<1>a. /\ job[t] \in Job
      /\ Placed(job[t])
      /\ job[t].port \in Ports \cup {NoPort}
      /\ job[t].image \in BOOLEAN
      /\ job[t].proj \in Projects \cup {NoProject}
      /\ job[t].strategy \in Strategies
      /\ job[t].todo \in SUBSET Copy
  BY DEF TypeOK, Job
<1>1. CASE Start(t)
  <2>1. job' \in [Procs -> Job] /\ \A u \in Procs : Placed(job'[u])
    BY <1>1, GotoType DEF Start, JobPcs, Rowless
  <2>2. deploying' \subseteq Projects
    BY <1>1, <1>a DEF Start, Placed, TypeOK, Rowless
  <2> QED BY <1>1, <2>1, <2>2 DEF Start, TypeOK
<1>2. CASE Begin(t)
  <2>1. PICK pc \in {"sync", "scan"} : CreateDeployment(t, pc)
    BY <1>2 DEF Begin
  <2> DEFINE r == [NoRow EXCEPT !.project = job[t].proj, !.status = "building"]
             j == [job[t] EXCEPT !.pc = pc, !.id = nextId, !.cursor = PortLo,
                                 !.strategy = project[job[t].proj]]
  <2>2. nextId \in Ids /\ nextId' \in 1 .. MaxDeployments + 1
    BY <2>1, BoundAssumption DEF CreateDeployment, Ids, TypeOK
  <2>3. project[job[t].proj] \in Strategies
    BY <1>2 DEF Begin, Exists
  <2>4. r \in Row
    BY <1>a, EmptyRecords DEF Row, Statuses
  <2>5. rows' \in [Ids -> Row]
    BY <2>1, <2>4 DEF CreateDeployment, TypeOK
  <2>6. j \in Job
    BY <1>a, <2>2, <2>3, CursorRange DEF Job, JobPcs
  <2>7. Placed(j)
    BY <1>2, <1>a, <2>2 DEF Begin, Placed, Job, Rowless
  <2>8. job' \in [Procs -> Job] /\ \A u \in Procs : Placed(job'[u])
    BY <2>1, <2>6, <2>7, BecomesType DEF CreateDeployment
  <2> QED BY <1>2, <2>2, <2>5, <2>8 DEF Begin, TypeOK
<1>3. CASE Refuse(t)
  <2>1. job' \in [Procs -> Job] /\ \A u \in Procs : Placed(job'[u])
    BY <1>3, GotoType DEF Refuse, JobPcs, Rowless
  <2> QED BY <1>3, <2>1 DEF Refuse, TypeOK
<1>4. CASE Sync(t)
  <2>1. job[t].id \in Ids /\ job[t].pc # "idle"
    BY <1>4, <1>a DEF Sync, Placed, JobPcs, Rowless
  <2>2. ASSUME Fail(t), UNCHANGED project PROVE TypeOK'
    BY <1>4, <2>1, <2>2, FailType DEF Sync, TypeOK
  <2>3. ASSUME NEW s \in {"static", "container"},
               project' = IF job[t].strategy = "auto" /\ Exists(job[t].proj)
                            THEN [project EXCEPT ![job[t].proj] = s] ELSE project,
               Becomes(t, [job[t] EXCEPT !.pc = IF s = "static" THEN "publish" ELSE "build",
                                         !.strategy = "auto"]),
               UNCHANGED rows
        PROVE  TypeOK'
    <3> DEFINE j == [job[t] EXCEPT !.pc = IF s = "static" THEN "publish" ELSE "build",
                                   !.strategy = "auto"]
    <3>1. j \in Job /\ Placed(j)
      BY <1>a, <2>1 DEF Job, JobPcs, Placed, Rowless, Strategies
    <3>2. job' \in [Procs -> Job] /\ \A u \in Procs : Placed(job'[u])
      BY <2>3, <3>1, BecomesType
    <3>3. project' \in [Projects -> Strategies \cup {"absent", "removed"}]
      BY <2>3 DEF Strategies, TypeOK
    <3> QED BY <1>4, <2>3, <3>2, <3>3 DEF Sync, TypeOK
  <2> QED BY <1>4, <2>2, <2>3 DEF Sync
<1>5. CASE Publish(t)
  <2>1. job[t].id \in Ids /\ job[t].pc # "idle"
    BY <1>5, <1>a DEF Publish, Placed, JobPcs, Rowless
  <2>2. ASSUME Fail(t), UNCHANGED site PROVE TypeOK'
    BY <1>5, <2>1, <2>2, FailType DEF Publish, TypeOK
  <2>3. ASSUME site' = [site EXCEPT ![job[t].proj] = StaticRoot], Goto(t, "reload"), UNCHANGED rows
        PROVE  TypeOK'
    <3>1. job' \in [Procs -> Job] /\ \A u \in Procs : Placed(job'[u])
      BY <2>1, <2>3, GotoType DEF JobPcs, Rowless
    <3>2. site' \in Sites
      BY <2>3 DEF TypeOK, Sites
    <3> QED BY <1>5, <2>3, <3>1, <3>2 DEF Publish, TypeOK
  <2> QED BY <1>5, <2>2, <2>3 DEF Publish
<1>6. CASE Build(t)
  <2> DEFINE j == [job[t] EXCEPT !.pc = "scan", !.image = TRUE]
  <2>1. job[t].id \in Ids /\ job[t].pc # "idle"
    BY <1>6, <1>a DEF Build, Placed, JobPcs, Rowless
  <2>2. ASSUME Fail(t) PROVE TypeOK'
    BY <1>6, <2>1, <2>2, FailType DEF Build, TypeOK
  <2>3. ASSUME Becomes(t, j), UNCHANGED rows PROVE TypeOK'
    <3>1. j \in Job /\ Placed(j)
      BY <1>a, <2>1 DEF Job, JobPcs, Placed, Rowless
    <3>2. job' \in [Procs -> Job] /\ \A u \in Procs : Placed(job'[u])
      BY <2>3, <3>1, BecomesType
    <3> QED BY <1>6, <2>3, <3>2 DEF Build, TypeOK
  <2> QED BY <1>6, <2>2, <2>3 DEF Build
<1>7. CASE Scan(t)
  <2> DEFINE q == job[t].cursor
             j == IF alloc[q] = Free THEN [job[t] EXCEPT !.pc = "insert"]
                                     ELSE [job[t] EXCEPT !.cursor = q + 1]
  <2>1. job[t].id \in Ids /\ job[t].pc = "scan"
    BY <1>7, <1>a DEF Scan, Placed, JobPcs, Rowless
  <2>2. ASSUME Fail(t) PROVE TypeOK'
    BY <1>7, <2>1, <2>2, FailType DEF Scan, TypeOK
  <2>3. ASSUME q \in Ports, Becomes(t, j), UNCHANGED rows PROVE TypeOK'
    <3>1. q + 1 \in 0 .. PortHi + 1
      BY <2>3, PortsAssumption DEF Ports
    <3>2. j \in Job
      BY <1>a, <3>1 DEF Job, JobPcs
    <3>3. Placed(j)
      BY <1>a, <2>1, <2>3 DEF Job, Placed, Rowless
    <3>4. job' \in [Procs -> Job] /\ \A u \in Procs : Placed(job'[u])
      BY <2>3, <3>2, <3>3, BecomesType
    <3> QED BY <1>7, <2>3, <3>4 DEF Scan, TypeOK
  <2> QED BY <1>7, <2>2, <2>3 DEF Scan
<1>8. CASE Insert(t)
  <2> DEFINE q == job[t].cursor
  <2>1. job[t].id \in Ids /\ job[t].pc = "insert" /\ q \in Ports
    BY <1>8, <1>a DEF Insert, Placed, JobPcs, Rowless
  <2>2. ASSUME Fail(t), UNCHANGED alloc PROVE TypeOK'
    BY <1>8, <2>1, <2>2, FailType DEF Insert, TypeOK
  <2>3. ASSUME alloc' = [alloc EXCEPT ![q] = job[t].id], Goto(t, "run"), UNCHANGED rows
        PROVE  TypeOK'
    <3>1. job' \in [Procs -> Job] /\ \A u \in Procs : Placed(job'[u])
      BY <2>1, <2>3, GotoType DEF JobPcs, Rowless
    <3> QED BY <1>8, <2>1, <2>3, <3>1 DEF Insert, TypeOK
  <2> QED BY <1>8, <2>2, <2>3 DEF Insert
<1>9. CASE Run(t)
  <2> DEFINE q == job[t].cursor
             j == [job[t] EXCEPT !.pc = "health", !.port = q, !.image = TRUE, !.cursor = 0]
  <2>1. job[t].id \in Ids /\ job[t].pc = "run" /\ q \in Ports
    BY <1>9, <1>a DEF Run, Placed, JobPcs, Rowless
  <2>2. ASSUME alloc' = Released(q), Fail(t),
               \/ UNCHANGED host
               \/ /\ cont' = [cont EXCEPT ![job[t].id] = "starting"]
                  /\ cport' = [cport EXCEPT ![job[t].id] = q]
        PROVE  TypeOK'
    <3>1. alloc' \in [Ports -> {Free, Orphan} \cup Ids]
      BY <2>1, <2>2 DEF Released, TypeOK
    <3>2. /\ cont' \in [Ids -> {"none", "starting", "up", "stopped"}]
          /\ cport' \in [Ids -> Ports \cup {NoPort}]
      BY <2>1, <2>2 DEF TypeOK
    <3> QED BY <1>9, <2>1, <2>2, <3>1, <3>2, FailType DEF Run, TypeOK
  <2>3. ASSUME cont' = [cont EXCEPT ![job[t].id] = "starting"],
               cport' = [cport EXCEPT ![job[t].id] = q],
               Becomes(t, j), UNCHANGED <<rows, alloc>>
        PROVE  TypeOK'
    <3>1. j \in Job /\ Placed(j)
      BY <1>a, <2>1, CursorRange DEF Job, JobPcs, Placed, Rowless
    <3>2. job' \in [Procs -> Job] /\ \A u \in Procs : Placed(job'[u])
      BY <2>3, <3>1, BecomesType
    <3> QED BY <1>9, <2>1, <2>3, <3>2 DEF Run, TypeOK
  <2> QED BY <1>9, <2>2, <2>3 DEF Run
<1>10. CASE Health(t)
  <2>1. job[t].id \in Ids /\ job[t].pc = "health"
    BY <1>10, <1>a DEF Health, Placed, JobPcs, Rowless
  <2>2. ASSUME Fail(t) PROVE TypeOK'
    BY <1>10, <2>1, <2>2, FailType DEF Health, TypeOK
  <2>3. ASSUME Goto(t, "flip"), UNCHANGED rows PROVE TypeOK'
    <3>1. job' \in [Procs -> Job] /\ \A u \in Procs : Placed(job'[u])
      BY <2>1, <2>3, GotoType DEF JobPcs, Rowless
    <3> QED BY <1>10, <2>3, <3>1 DEF Health, TypeOK
  <2> QED BY <1>10, <2>2, <2>3 DEF Health
<1>11. CASE Flip(t)
  <2>1. job[t].id \in Ids /\ job[t].pc = "flip"
    BY <1>11, <1>a DEF Flip, Placed, JobPcs, Rowless
  <2>2. ASSUME Fail(t), UNCHANGED site PROVE TypeOK'
    BY <1>11, <2>1, <2>2, FailType DEF Flip, TypeOK
  <2>3. ASSUME site' = [site EXCEPT ![job[t].proj] = job[t].port], Goto(t, "reload"), UNCHANGED rows
        PROVE  TypeOK'
    <3>1. job' \in [Procs -> Job] /\ \A u \in Procs : Placed(job'[u])
      BY <2>1, <2>3, GotoType DEF JobPcs, Rowless
    <3>2. site' \in Sites
      BY <1>a, <2>3 DEF TypeOK, Sites, NoPort, StaticRoot
    <3> QED BY <1>11, <2>3, <3>1, <3>2 DEF Flip, TypeOK
  <2> QED BY <1>11, <2>2, <2>3 DEF Flip
<1>12. CASE ReadSites(t)
  <2>1. PICK pc \in {"install", "rmInstall"} :
          /\ job[t].pc \in {"reload", "rmReload"}
          /\ job[t].pc = "reload" <=> pc = "install"
          /\ Becomes(t, [job[t] EXCEPT !.pc = pc, !.snap = site])
    BY <1>12 DEF ReadSites
  <2> DEFINE j == [job[t] EXCEPT !.pc = pc, !.snap = site]
  <2>2. j \in Job
    BY <1>a DEF Job, JobPcs, RequestPcs, TypeOK
  <2>3. Placed(j)
    BY <1>a, <2>1 DEF Placed, Rowless, Job
  <2>4. job' \in [Procs -> Job] /\ \A u \in Procs : Placed(job'[u])
    BY <2>1, <2>2, <2>3, BecomesType
  <2> QED BY <1>12, <2>4 DEF ReadSites, TypeOK
<1>13. CASE List(t)
  <2> DEFINE ds == ToDrain(job[t].proj, job[t].id)
             cs == {[id |-> d, port |-> rows[d].port, image |-> rows[d].image] : d \in ds}
             j == [job[t] EXCEPT !.pc = IF ds = {} THEN "succeed" ELSE "drainContainer",
                                 !.todo = cs]
  <2>1. job[t].id \in Ids /\ job[t].pc = "list"
    BY <1>13, <1>a DEF List, Placed, JobPcs, Rowless
  <2>2. \A d \in ds : d \in Ids /\ rows[d].port \in Ports /\ rows[d].image \in BOOLEAN
    BY DEF ToDrain, RowsOf, TypeOK, Row
  <2>3. cs \in SUBSET Copy
    BY <2>2 DEF Copy
  <2>4. j \in Job
    BY <1>a, <2>3 DEF Job, JobPcs
  <2>5. Placed(j)
    BY <1>a, <2>1 DEF Placed, Job, JobPcs, Rowless
  <2>6. job' \in [Procs -> Job] /\ \A u \in Procs : Placed(job'[u])
    BY <1>13, <2>4, <2>5, BecomesType DEF List
  <2> QED BY <1>13, <2>6 DEF List, TypeOK
<1>14. CASE DrainContainer(t)
  <2>1. job[t].id \in Ids /\ job[t].pc = "drainContainer"
    BY <1>14, <1>a DEF DrainContainer, Placed, JobPcs, Rowless
  <2>2. job' \in [Procs -> Job] /\ \A u \in Procs : Placed(job'[u])
    BY <1>14, <2>1, GotoType DEF DrainContainer, JobPcs, Rowless
  <2>3. cont' \in [Ids -> {"none", "starting", "up", "stopped"}]
    BY <1>14 DEF DrainContainer, AgentRemove, TypeOK
  <2> QED BY <1>14, <2>2, <2>3 DEF DrainContainer, TypeOK
<1>15. CASE DrainPort(t)
  <2>1. job[t].id \in Ids /\ job[t].pc = "drainPort"
    BY <1>15, <1>a DEF DrainPort, Placed, JobPcs, Rowless
  <2>2. job' \in [Procs -> Job] /\ \A u \in Procs : Placed(job'[u])
    BY <1>15, <2>1, GotoType DEF DrainPort, JobPcs, Rowless
  <2>3. alloc' \in [Ports -> {Free, Orphan} \cup Ids]
    BY <1>15 DEF DrainPort, Released, TypeOK
  <2> QED BY <1>15, <2>2, <2>3 DEF DrainPort, TypeOK
<1>16. CASE DrainRow(t)
  <2>1. PICK c \in Draining(t) :
          /\ rows' = Written(c.id, "stopped", c.port, c.image)
          /\ Becomes(t, [job[t] EXCEPT !.todo = @ \ {c},
                    !.pc = IF job[t].todo = {c} THEN "succeed" ELSE "drainContainer"])
    BY <1>16 DEF DrainRow
  <2> DEFINE j == [job[t] EXCEPT !.todo = @ \ {c},
                       !.pc = IF job[t].todo = {c} THEN "succeed" ELSE "drainContainer"]
  <2>2. job[t].id \in Ids /\ job[t].pc = "drainRow"
    BY <1>16, <1>a DEF DrainRow, Placed, JobPcs, Rowless
  <2>3. c.id \in Ids /\ c.port \in Ports /\ c.image \in BOOLEAN
    BY <1>a DEF Draining, Copy
  <2>4. rows' \in [Ids -> Row]
    BY <2>1, <2>3, WrittenType DEF Statuses
  <2>5. j \in Job
    BY <1>a DEF Job, JobPcs
  <2>6. Placed(j)
    BY <1>a, <2>2 DEF Placed, Job, JobPcs, Rowless
  <2>7. job' \in [Procs -> Job] /\ \A u \in Procs : Placed(job'[u])
    BY <2>1, <2>5, <2>6, BecomesType
  <2> QED BY <1>16, <2>4, <2>7 DEF DrainRow, TypeOK
<1>17. CASE Succeed(t)
  <2>1. job[t].id \in Ids /\ job[t].pc = "succeed"
    BY <1>17, <1>a DEF Succeed, Placed, JobPcs, Rowless
  <2>2. job' \in [Procs -> Job] /\ \A u \in Procs : Placed(job'[u])
    BY <1>17, <2>1, GotoType DEF Succeed, JobPcs, Rowless
  <2>3. rows' \in [Ids -> Row]
    BY <1>17, <1>a, <2>1, WrittenType DEF Succeed, Statuses
  <2> QED BY <1>17, <2>2, <2>3 DEF Succeed, TypeOK
<1>18. CASE Done(t)
  <2>1. job' \in [Procs -> Job] /\ \A u \in Procs : Placed(job'[u])
    BY <1>18, EmptyRecords, BecomesType DEF Done, Return
  <2> QED BY <1>18, <2>1 DEF Done, TypeOK
<1>19. CASE StopContainer(t)
  <2>0. job[t].id \in Ids /\ job[t].pc = "stopContainer"
    BY <1>19, <1>a DEF StopContainer, Placed, Rowless
  <2>1. job' \in [Procs -> Job] /\ \A u \in Procs : Placed(job'[u])
    <3>1. ASSUME Goto(t, "stopRow")
          PROVE  job' \in [Procs -> Job] /\ \A u \in Procs : Placed(job'[u])
      BY <2>0, <3>1, GotoType DEF RequestPcs, Rowless
    <3>2. ASSUME Return(t)
          PROVE  job' \in [Procs -> Job] /\ \A u \in Procs : Placed(job'[u])
      BY <3>2, EmptyRecords, BecomesType DEF Return
    <3> QED BY <1>19, <3>1, <3>2 DEF StopContainer
  <2>2. cont' \in [Ids -> {"none", "starting", "up", "stopped"}]
    BY <1>19 DEF StopContainer, TypeOK
  <2> QED BY <1>19, <2>1, <2>2 DEF StopContainer, TypeOK
<1>20. CASE StopRow(t)
  <2>0. job[t].id \in Ids
    BY <1>20, <1>a DEF StopRow, Placed, Rowless
  <2>1. job' \in [Procs -> Job] /\ \A u \in Procs : Placed(job'[u])
    BY <1>20, EmptyRecords, BecomesType DEF StopRow, Return
  <2>2. rows' \in [Ids -> Row]
    BY <1>20, <1>a, <2>0, WrittenType DEF StopRow, Statuses
  <2> QED BY <1>20, <2>1, <2>2 DEF StopRow, TypeOK
<1>21. CASE RemoveContainer(t)
  <2>1. job[t].id \in Ids /\ job[t].pc = "rmContainer"
    BY <1>21, <1>a DEF RemoveContainer, Placed, Rowless
  <2>2. job' \in [Procs -> Job] /\ \A u \in Procs : Placed(job'[u])
    BY <1>21, <2>1, GotoType DEF RemoveContainer, RequestPcs
  <2>3. cont' \in [Ids -> {"none", "starting", "up", "stopped"}]
    BY <1>21 DEF RemoveContainer, AgentRemove, TypeOK
  <2> QED BY <1>21, <2>2, <2>3 DEF RemoveContainer, TypeOK
<1>22. CASE RemovePort(t)
  <2>1. job' \in [Procs -> Job] /\ \A u \in Procs : Placed(job'[u])
    BY <1>22, GotoType DEF RemovePort, RequestPcs, Rowless
  <2>2. alloc' \in [Ports -> {Free, Orphan} \cup Ids]
    BY <1>22 DEF RemovePort, Released, TypeOK
  <2> QED BY <1>22, <2>1, <2>2 DEF RemovePort, TypeOK
<1>23. CASE RemoveSite(t)
  <2>1. job' \in [Procs -> Job] /\ \A u \in Procs : Placed(job'[u])
    BY <1>23, GotoType DEF RemoveSite, RequestPcs, Rowless
  <2>2. site' \in Sites
    BY <1>23 DEF RemoveSite, TypeOK, Sites
  <2> QED BY <1>23, <2>1, <2>2 DEF RemoveSite, TypeOK
<1>24. CASE Install(t)
  <2>1. PICK pc \in {"succeed", "list", "rmRow"} :
          /\ job[t].pc \in {"install", "rmInstall"}
          /\ pc \in {"succeed", "list"} => job[t].pc = "install"
          /\ Installed(t, pc)
    BY <1>24 DEF Install
  <2> DEFINE j == [job[t] EXCEPT !.pc = pc, !.snap = NoSites]
  <2>2. j \in Job
    BY <1>a, EmptyRecords DEF Job, JobPcs, RequestPcs
  <2>3. Placed(j)
    BY <1>a, <2>1 DEF Placed, Rowless, Job
  <2>4. job' \in [Procs -> Job] /\ \A u \in Procs : Placed(job'[u])
    BY <2>1, <2>2, <2>3, BecomesType DEF Installed
  <2>5. route' \in Sites
    BY <1>a, <2>1 DEF Installed, Job
  <2> QED BY <1>24, <2>4, <2>5 DEF Install, TypeOK
<1>25. CASE RemoveRow(t)
  <2>1. job' \in [Procs -> Job] /\ \A u \in Procs : Placed(job'[u])
    BY <1>25, EmptyRecords, BecomesType DEF RemoveRow, Return
  <2>2. rows' \in [Ids -> Row]
    BY <1>25, EmptyRecords DEF RemoveRow, TypeOK
  <2>3. alloc' \in [Ports -> {Free, Orphan} \cup Ids]
    BY <1>25 DEF RemoveRow, Orphaned, TypeOK
  <2> QED BY <1>25, <2>1, <2>2, <2>3 DEF RemoveRow, TypeOK
<1> QED
  BY <1>1, <1>2, <1>3, <1>4, <1>5, <1>6, <1>7, <1>8, <1>9, <1>10, <1>11, <1>12, <1>13,
     <1>14, <1>15, <1>16, <1>17, <1>18, <1>19, <1>20, <1>21, <1>22, <1>23, <1>24, <1>25
  DEF Step

(* ... and so does everything else that happens, a crash included.         *)
LEMMA TypeStep == TypeOK /\ [Next]_vars => TypeOK'
<1> SUFFICES ASSUME TypeOK, [Next]_vars PROVE TypeOK'
  OBVIOUS
<1> USE DEF db, host, edge
<1>1. ASSUME NEW p \in Projects, CreateProject(p) PROVE TypeOK'
  BY <1>1 DEF CreateProject, TypeOK, Strategies
<1>2. ASSUME NEW t \in Procs, Step(t) PROVE TypeOK'
  BY <1>2, StepType
<1>3. ASSUME NEW d \in Ids, AppUp(d) PROVE TypeOK'
  BY <1>3 DEF AppUp, TypeOK
<1>4. ASSUME WatcherReload PROVE TypeOK'
  BY <1>4 DEF WatcherReload, TypeOK
<1>5. ASSUME NEW t \in Procs, NEW p \in Projects, Ask(t, p) PROVE TypeOK'
  <2>1. ASSUME NEW pc \in JobPcs \cup RequestPcs, pc \in Rowless,
               NEW op \in {"deploy", "rollback", "stop", "remove"},
               Becomes(t, [Idle EXCEPT !.pc = pc, !.op = op, !.proj = p])
        PROVE  job' \in [Procs -> Job] /\ \A u \in Procs : Placed(job'[u])
    <3> DEFINE j == [Idle EXCEPT !.pc = pc, !.op = op, !.proj = p]
    <3>1. j \in Job
      BY EmptyRecords DEF Job
    <3>2. Placed(j)
      BY <2>1 DEF Placed, Idle, Rowless
    <3> QED BY <2>1, <3>1, <3>2, BecomesType
  <2>2. ASSUME NEW d \in Ids, d \in RowsOf(p), NEW pc \in RequestPcs,
               NEW op \in {"stop", "remove"}, Copied(t, p, d, op, pc)
        PROVE  job' \in [Procs -> Job] /\ \A u \in Procs : Placed(job'[u])
    <3> DEFINE j == [Idle EXCEPT !.pc = pc, !.op = op, !.proj = p, !.id = d,
                                 !.port = rows[d].port, !.image = rows[d].image]
    <3>1. rows[d].port \in Ports \cup {NoPort} /\ rows[d].image \in BOOLEAN
      BY DEF TypeOK, Row
    <3>2. j \in Job
      BY <3>1, EmptyRecords DEF Job, Idle
    <3>3. Placed(j)
      BY DEF Placed, Idle, RequestPcs
    <3> QED BY <2>2, <3>2, <3>3, BecomesType DEF Copied
  <2>3. ASSUME Trigger(t, p) PROVE TypeOK'
    <3>1. job' \in [Procs -> Job] /\ \A u \in Procs : Placed(job'[u])
      BY <2>1, <2>3 DEF Trigger, JobPcs, Rowless
    <3> QED BY <2>3, <3>1 DEF Trigger, TypeOK
  <2>4. ASSUME RequestStop(t, p) PROVE TypeOK'
    <3>1. job' \in [Procs -> Job] /\ \A u \in Procs : Placed(job'[u])
      BY <2>2, <2>4 DEF RequestStop, IsLatest, RequestPcs
    <3> QED BY <2>4, <3>1 DEF RequestStop, TypeOK
  <2>5. ASSUME RequestRemove(t, p) PROVE TypeOK'
    <3>1. job' \in [Procs -> Job] /\ \A u \in Procs : Placed(job'[u])
      BY <2>1, <2>2, <2>5 DEF RequestRemove, IsLatest, RequestPcs, Rowless
    <3> QED BY <2>5, <3>1 DEF RequestRemove, TypeOK
  <2> QED BY <1>5, <2>3, <2>4, <2>5 DEF Ask
<1>6. ASSUME Crash PROVE TypeOK'
  BY <1>6, EmptyRecords DEF Crash, TypeOK
<1>7. ASSUME UNCHANGED vars PROVE TypeOK'
  BY <1>7 DEF vars, TypeOK
<1> QED
  BY <1>1, <1>2, <1>3, <1>4, <1>5, <1>6, <1>7 DEF Next, ConcurrentNext, Background

LEMMA InitType == Init => TypeOK
BY EmptyRecords, BoundAssumption DEF Init, TypeOK, NoPort, Free

(* Type correctness of every table, of the host, of the edge and of every  *)
(* goroutine's record, under any requests, agent faults and crashes.       *)
THEOREM TypeCorrect == Spec => []TypeOK
BY InitType, TypeStep, PTL DEF Spec

-----------------------------------------------------------------------------
(* Saving a row keeps the set of rows: it neither revives a deleted one    *)
(* nor deletes one.                                                        *)
LEMMA WrittenPresent ==
  ASSUME TypeOK, NEW d \in Ids, NEW s \in Statuses, NEW q, NEW i, NEW e \in Ids,
         rows' = Written(d, s, q, i)
  PROVE  Present(e)' <=> Present(e)
BY DEF TypeOK, Row, Written, Present, Statuses

(* The foreign key of port_allocations survives every step.                *)
LEMMA OwnersStep == TypeOK /\ OwnersExist /\ [Next]_vars => OwnersExist'
<1> SUFFICES ASSUME TypeOK, OwnersExist, [Next]_vars PROVE OwnersExist'
  OBVIOUS
<1> USE DEF db, host, edge
<1>1. ASSUME UNCHANGED <<rows, alloc>> PROVE OwnersExist'
  BY <1>1 DEF OwnersExist, Present
<1>2. ASSUME UNCHANGED rows, NEW q \in Int, alloc' = Released(q) PROVE OwnersExist'
  BY <1>2 DEF OwnersExist, Present, Released, TypeOK, Free, Ids
<1>3. ASSUME NEW d \in Ids, NEW s \in Statuses, NEW q, NEW i,
             rows' = Written(d, s, q, i), UNCHANGED alloc
      PROVE  OwnersExist'
  BY <1>3, WrittenPresent DEF OwnersExist
<1>4. ASSUME NEW t \in Procs, Step(t) PROVE OwnersExist'
  <2>1. /\ job[t] \in Job
        /\ job[t].port \in Int
        /\ \A c \in Draining(t) : c.id \in Ids /\ c.port \in Int
    BY PortsAssumption DEF TypeOK, Job, Ports, NoPort, Draining, Copy
  <2>2. job[t].pc \notin Rowless => job[t].id \in Ids
    BY DEF TypeOK, Placed
  <2>3. ASSUME Fail(t), job[t].pc \notin Rowless, UNCHANGED alloc PROVE OwnersExist'
    BY <1>3, <2>2, <2>3 DEF Fail, Statuses
  <2>4. CASE Begin(t)
    <3>1. nextId \in Ids /\ UNCHANGED alloc
      BY <2>4, BoundAssumption DEF Begin, CreateDeployment, Ids, TypeOK
    <3>2. \A e \in Ids : Present(e) => Present(e)'
      BY <2>4 DEF Begin, CreateDeployment, Present, NoRow, TypeOK
    <3> QED BY <3>1, <3>2 DEF OwnersExist
  <2>5. CASE Sync(t) \/ Publish(t) \/ Build(t) \/ Scan(t) \/ Health(t) \/ Flip(t)
    <3>1. job[t].pc \notin Rowless
      BY <2>5 DEF Sync, Publish, Build, Scan, Health, Flip, Rowless
    <3> QED
      BY <1>1, <2>3, <2>5, <3>1 DEF Sync, Publish, Build, Scan, Health, Flip
  <2>6. CASE Insert(t)
    <3>1. job[t].pc \notin Rowless
      BY <2>6 DEF Insert, Rowless
    <3>2. CASE Fail(t) /\ UNCHANGED alloc
      BY <2>3, <3>1, <3>2
    <3>3. CASE /\ Present(job[t].id) /\ UNCHANGED rows
               /\ alloc' = [alloc EXCEPT ![job[t].cursor] = job[t].id]
      BY <3>3 DEF OwnersExist, Present, TypeOK
    <3> QED BY <2>6, <3>2, <3>3 DEF Insert
  <2>7. CASE Run(t)
    <3>1. job[t].id \in Ids /\ job[t].cursor \in Ports
      BY <2>2, <2>7 DEF Run, Rowless, TypeOK, Placed
    <3>2. CASE UNCHANGED <<rows, alloc>>
      BY <1>1, <3>2
    <3>3. CASE alloc' = Released(job[t].cursor) /\ Fail(t)
      <4>1. \A e \in Ids : Present(e)' <=> Present(e)
        BY <3>1, <3>3, WrittenPresent, <2>1 DEF Fail, Statuses
      <4> QED BY <3>1, <3>3, <4>1 DEF OwnersExist, Released, TypeOK, Free, Ids
    <3> QED BY <2>7, <3>2, <3>3 DEF Run
  <2>8. CASE DrainPort(t) \/ RemovePort(t)
    BY <1>2, <2>1, <2>8 DEF DrainPort, RemovePort
  <2>9. CASE DrainRow(t)
    BY <1>3, <2>1, <2>9 DEF DrainRow, Statuses
  <2>10. CASE Succeed(t) \/ StopRow(t)
    <3>1. job[t].id \in Ids
      BY <2>2, <2>10 DEF Succeed, StopRow, Rowless
    <3> QED BY <1>3, <2>10, <3>1 DEF Succeed, StopRow, Statuses
  <2>11. CASE RemoveRow(t)
    BY <2>11 DEF RemoveRow, Orphaned, OwnersExist, Present, TypeOK, Orphan, Ids
  <2>12. CASE \/ Start(t) \/ Refuse(t) \/ ReadSites(t) \/ Install(t) \/ List(t) \/ DrainContainer(t) \/ Done(t)
              \/ StopContainer(t) \/ RemoveContainer(t) \/ RemoveSite(t)
    BY <1>1, <2>12
    DEF Start, Refuse, ReadSites, Install, List, DrainContainer, Done,
        StopContainer, RemoveContainer, RemoveSite
  <2> QED
    BY <1>4, <2>4, <2>5, <2>6, <2>7, <2>8, <2>9, <2>10, <2>11, <2>12 DEF Step
<1>5. ASSUME NEW t \in Procs, NEW p \in Projects, Ask(t, p) PROVE OwnersExist'
  BY <1>1, <1>5 DEF Ask, Trigger, RequestStop, RequestRemove
<1>6. ASSUME \/ \E p \in Projects : CreateProject(p)
             \/ \E d \in Ids : AppUp(d)
             \/ WatcherReload \/ Crash \/ UNCHANGED vars
      PROVE  OwnersExist'
  BY <1>1, <1>6 DEF CreateProject, AppUp, WatcherReload, Crash, vars
<1> QED
  BY <1>4, <1>5, <1>6 DEF Next, ConcurrentNext, Background

(* Whatever is asked, fails or crashes, a port is never held in the name   *)
(* of a deployment whose row is gone: a reservation made after Remove has  *)
(* deleted the row is refused, one made before it loses its owner.         *)
THEOREM OwnersCorrect == Spec => []OwnersExist
<1>1. Init => OwnersExist
  BY DEF Init, OwnersExist, Free, Ids
<1> QED
  BY <1>1, OwnersStep, TypeCorrect, PTL DEF Spec

-----------------------------------------------------------------------------
(* Under a careful operator whose reloads do not overlap, with crashes: the *)
(* inductive invariant of CrashNext, in layers.  Each layer is kept by a   *)
(* step that starts and ends in the layers before it.                      *)

Working   == JobPcs \ {"checked", "begin", "done"}
Preparing == {"sync", "publish", "build", "scan", "insert", "run"}
Switched  == {"reload", "install", "list", "drainContainer", "drainPort", "drainRow", "succeed"}
Draining3 == {"drainContainer", "drainPort", "drainRow"}
Switching == {"reload", "install", "rmReload", "rmInstall"}
Removing  == {"rmSite", "rmReload", "rmInstall", "rmRow"}
Requests  == {"stopContainer", "stopRow", "rmContainer", "rmPort"}

(* Layer 1: one goroutine for a project, and what it knows of its rows.    *)
Alone ==
  \A t, u \in Procs : job[t].proj = job[u].proj /\ job[t].proj # NoProject => t = u
FreshRows == \A d \in Ids :
  /\ d >= nextId => rows[d] = NoRow
  /\ Present(d) <=> rows[d].project # NoProject
  /\ ~Present(d) => rows[d] = NoRow
Owner(t) ==
  LET j == job[t] IN
  /\ j.pc \in Working \cup Requests => IsLatest(j.id, j.proj)
  /\ j.pc \in Working => rows[j.id].status = "building" /\ rows[j.id].port = NoPort
  /\ j.pc \in Requests => rows[j.id].port = j.port /\ rows[j.id].image = j.image
  /\ j.pc \in {"stopContainer", "rmContainer", "rmPort"} => j.port # NoPort
  /\ j.pc \in {"checked", "begin"} \cup Preparing => j.port = NoPort
  /\ j.pc \in {"checked", "begin"} => ~j.image
  /\ j.pc \in {"health", "flip", "list"} \cup Draining3 => j.port # NoPort
  /\ j.pc \in JobPcs => j.op \in {"deploy", "rollback"}
  /\ j.pc \in {"stopContainer", "stopRow"} => j.op = "stop"
  /\ j.pc \in {"rmContainer", "rmPort"} \cup Removing => j.op = "remove"
  /\ j.pc \in Removing => j.id = 0 \/ IsLatest(j.id, j.proj)
Copies(t) ==
  LET j == job[t] IN
  /\ j.pc \notin Draining3 => j.todo = {}
  /\ \A c \in j.todo : /\ c.id # j.id /\ rows[c.id].project = j.proj
                       /\ rows[c.id].port = c.port /\ rows[c.id].image = c.image
                       /\ rows[c.id].status # "stopped"
  /\ j.pc \in Draining3 \cup {"succeed"} /\ j.port # NoPort =>
       \A e \in RowsOf(j.proj) \ {j.id} :
         rows[e].port # NoPort /\ rows[e].status # "stopped" => \E c \in j.todo : c.id = e
Ownership == Alone /\ FreshRows /\ \A t \in Procs : Owner(t) /\ Copies(t)

(* Layer 2: a project that deploys containers never serves a folder.       *)
KindOf(t) ==
  LET j == job[t] IN
  /\ j.pc = "sync" => j.strategy = project[j.proj]
  /\ j.pc = "publish" => project[j.proj] = "static"
  /\ j.pc \in {"build", "scan", "insert", "run", "health", "flip"} => project[j.proj] = "container"
  /\ j.pc \in Switched => project[j.proj] = IF j.port = NoPort THEN "static" ELSE "container"
  /\ j.pc \in Working /\ j.image => project[j.proj] = "container"
RowKinds ==
  \A d \in Ids : rows[d].port # NoPort \/ rows[d].image => project[rows[d].project] = "container"
Kinds == RowKinds /\ \A t \in Procs : KindOf(t)

(* Layer 3: whoever gives a port back gives back his own.                  *)
ReleasedBy(t, d) ==
  \/ job[t].pc = "drainRow" /\ \E c \in Draining(t) : c.id = d
  \/ job[t].pc \in Removing /\ job[t].id = d
Releasing(d) == \E t \in Procs : ReleasedBy(t, d)
Held(d) ==
  /\ rows[d].port # NoPort
  /\ rows[d].status # "stopped" \/ IsLatest(d, rows[d].project)
  /\ ~Releasing(d)
  => alloc[rows[d].port] = d
Reserving(t) ==
  LET j == job[t] IN
  /\ j.pc = "run" => alloc[j.cursor] = j.id
  /\ j.pc \in {"health", "flip"} \cup Switched /\ j.port # NoPort => alloc[j.port] = j.id
Reservations ==
  /\ \A d \in Ids : d >= nextId => \A q \in Ports : alloc[q] # d
  /\ \A d \in Ids : Held(d)
  /\ \A t \in Procs : Reserving(t)

(* Layer 4: a container publishes the port that is reserved for it, and    *)
(* nobody else does while it is.                                           *)
Contained(t) ==
  LET j == job[t] IN
  /\ j.pc \in Preparing => cont[j.id] = "none" /\ cport[j.id] = NoPort
  /\ j.pc \in {"health", "flip"} \cup Switched /\ j.port # NoPort => cport[j.id] = j.port
  /\ j.pc \in {"flip"} \cup Switched /\ j.port # NoPort => cont[j.id] = "up"
Exclusive ==
  /\ \A d \in Ids : Running(d) => cport[d] # NoPort
  /\ \A d, e \in Ids : Running(d) /\ Running(e) /\ cport[d] = cport[e] => d = e
  /\ \A d, e \in Ids : Running(d) /\ alloc[cport[d]] = e /\ cport[e] = cport[d] => d = e
Containers ==
  /\ \A d \in Ids : d >= nextId => cont[d] = "none" /\ cport[d] = NoPort
  /\ \A d \in Ids : rows[d].port # NoPort => cport[d] = rows[d].port
  /\ \A t \in Procs : Contained(t)
  /\ Exclusive

(* Layer 5: what is routed, or about to be, belongs to the project.        *)
Owned(p, q) ==
  q \in Ports => \E e \in Ids : rows[e].project = p /\ alloc[q] = e /\ cport[e] = q
Settled(p) == \A t \in Procs : job[t].proj = p => job[t].pc \notin Switching
OneReloading == \A t, u \in Procs : Reloading(job[t]) /\ Reloading(job[u]) => t = u
OnEdge(t) ==
  LET j == job[t] IN
  /\ j.pc \in Switched => site[j.proj] = j.port
  /\ j.pc \in {"rmReload", "rmInstall", "rmRow"} => site[j.proj] = NoSite
  /\ Reloading(j) => /\ j.snap[j.proj] = site[j.proj]
                     /\ \A p \in Projects : j.snap[p] \in {site[p], route[p]}
Followed(p) ==
  Settled(p) => /\ route[p] = site[p]
                /\ \A u \in Procs : Reloading(job[u]) => job[u].snap[p] = site[p]
Safe(p) ==
  (\A t \in Procs : job[t].proj = p => job[t].pc \notin {"rmSite", "rmReload", "rmInstall"})
    => Owned(p, site[p]) /\ Owned(p, route[p])
Edge ==
  /\ OneReloading
  /\ \A t \in Procs : OnEdge(t)
  /\ \A p \in Projects : Followed(p) /\ Safe(p)

(* Layer 6: what an agent that does not fail makes sure of.                *)
StoppedAreDown == \A d \in Ids : rows[d].port # NoPort /\ rows[d].status = "stopped" => ~Running(d)
Down(t) ==
  LET j == job[t] IN
  /\ j.pc \in {"drainPort", "drainRow"} => \A c \in Draining(t) : ~Running(c.id)
  /\ j.pc = "rmPort" => ~Running(j.id)
  /\ j.pc = "stopRow" /\ j.port # NoPort => ~Running(j.id)
Cleaned(d) ==
  IsLatest(d, rows[d].project) /\ rows[d].status = "running" =>
    \A e \in RowsOf(rows[d].project) \ {d} : rows[e].port # NoPort => ~Running(e)
Faultless ==
  /\ ReservedWhileRunning /\ StoppedAreDown
  /\ \A t \in Procs : Down(t)
  /\ \A d \in Ids : Cleaned(d)

Inv ==
  /\ TypeOK /\ OwnersExist /\ Ownership /\ Kinds /\ Reservations /\ Containers /\ Edge
  /\ ~AgentFaults => Faultless

(* ... and without crashes.                                                *)
Accounted ==
  \A q \in Ports : \A d \in Ids : alloc[q] = d =>
    \/ rows[d].port = q
    \/ \E t \in Procs : /\ job[t].id = d /\ job[t].proj = rows[d].project
                        /\ \/ job[t].pc = "run" /\ job[t].cursor = q
                           \/ job[t].pc \in {"health", "flip"} \cup Switched /\ job[t].port = q
Routed ==
  \A d \in Ids : rows[d].status = "running" /\ rows[d].port # NoPort =>
    \/ site[rows[d].project] = rows[d].port
    \/ \E t \in Procs : /\ job[t].proj = rows[d].project
                        /\ job[t].pc \in (Switched \ {"succeed"}) \cup {"rmReload", "rmInstall", "rmRow"}
OrderlyInv == Inv /\ Accounted /\ Routed

-----------------------------------------------------------------------------
(* What a step makes of the records of the goroutines.                     *)
Others(t) == \A u \in Procs \ {t} : job'[u] = job[u]
Like(j, k) ==
  /\ k.op = j.op /\ k.proj = j.proj /\ k.strategy = j.strategy /\ k.id = j.id /\ k.port = j.port
  /\ k.image = j.image /\ k.cursor = j.cursor /\ k.todo = j.todo /\ k.snap = j.snap

LEMMA Constants ==
  /\ PortLo \in Nat \ {0} /\ PortHi \in Nat /\ MaxDeployments \in Nat /\ NoProject \notin Projects
  /\ \A q \in Ports : q \in Nat \ {0}
  /\ \A d \in Ids : d \in Nat \ {0}
  /\ NoPort = 0 /\ NoPort \notin Ports /\ Free \notin Ids /\ Orphan \notin Ids
BY PortsAssumption, BoundAssumption, NoProjectAssumption DEF Ports, Ids, NoPort, Free, Orphan

LEMMA BecomesIs ==
  ASSUME TypeOK, NEW t \in Procs, NEW j, Becomes(t, j)
  PROVE  Others(t) /\ job'[t] = j
BY DEF TypeOK, Becomes, Others

LEMMA GotoIs ==
  ASSUME TypeOK, NEW t \in Procs, NEW pc, Goto(t, pc)
  PROVE  Others(t) /\ job'[t].pc = pc /\ Like(job[t], job'[t])
<1>1. Others(t) /\ job'[t] = [job[t] EXCEPT !.pc = pc]
  BY BecomesIs DEF Goto
<1>2. job[t] \in Job
  BY DEF TypeOK
<1> QED BY <1>1, <1>2 DEF Like, Job

LEMMA IdleIs ==
  /\ Idle.pc = "idle" /\ Idle.op = "none" /\ Idle.proj = NoProject /\ Idle.id = 0
  /\ Idle.port = NoPort /\ Idle.image = FALSE /\ Idle.todo = {} /\ Idle.snap = NoSites
BY DEF Idle

LEMMA ReturnIs ==
  ASSUME TypeOK, NEW t \in Procs, Return(t)
  PROVE  Others(t) /\ job'[t] = Idle
BY BecomesIs DEF Return

LEMMA WrittenIs ==
  ASSUME TypeOK, NEW d \in Ids, Present(d), NEW s, NEW q, NEW i, rows' = Written(d, s, q, i)
  PROVE  /\ rows'[d].project = rows[d].project /\ rows'[d].status = s
         /\ rows'[d].port = q /\ rows'[d].image = i
         /\ \A e \in Ids \ {d} : rows'[e] = rows[e]
<1>1. rows \in [Ids -> Row] /\ rows[d] \in Row
  BY DEF TypeOK
<1>2. rows' = [rows EXCEPT ![d] = [rows[d] EXCEPT !.status = s, !.port = q, !.image = i]]
  BY DEF Written
<1>3. rows'[d] = [rows[d] EXCEPT !.status = s, !.port = q, !.image = i]
  BY <1>1, <1>2
<1>4. \A e \in Ids \ {d} : rows'[e] = rows[e]
  BY <1>1, <1>2
<1> QED BY <1>1, <1>3, <1>4 DEF Row

LEMMA FailIs ==
  ASSUME TypeOK, NEW t \in Procs, job[t].id \in Ids, Present(job[t].id), Fail(t)
  PROVE  LET j == job[t] k == job'[t] IN
         /\ Others(t)
         /\ k.pc = "done" /\ k.op = j.op /\ k.proj = j.proj /\ k.id = j.id /\ k.port = j.port
         /\ k.image = j.image /\ k.todo = j.todo /\ k.snap = j.snap
         /\ rows'[j.id].project = rows[j.id].project /\ rows'[j.id].status = "failed"
         /\ rows'[j.id].port = j.port /\ rows'[j.id].image = j.image
         /\ \A e \in Ids \ {j.id} : rows'[e] = rows[e]
<1>1. job[t] \in Job
  BY DEF TypeOK
<1>2. Others(t) /\ job'[t] = [job[t] EXCEPT !.pc = "done", !.cursor = 0]
  BY BecomesIs DEF Fail
<1>3. rows' = Written(job[t].id, "failed", job[t].port, job[t].image)
  BY DEF Fail
<1> QED BY <1>1, <1>2, <1>3, WrittenIs DEF Job

LEMMA CreateIs ==
  ASSUME TypeOK, NEW t \in Procs, NEW pc, CreateDeployment(t, pc)
  PROVE  LET j == job[t] k == job'[t] IN
         /\ Others(t)
         /\ k.pc = pc /\ k.op = j.op /\ k.proj = j.proj /\ k.id = nextId /\ k.port = j.port
         /\ k.image = j.image /\ k.todo = j.todo /\ k.snap = j.snap
         /\ k.cursor = PortLo /\ k.strategy = project[j.proj]
         /\ nextId \in Ids /\ nextId' = nextId + 1
         /\ rows'[nextId].project = j.proj /\ rows'[nextId].status = "building"
         /\ rows'[nextId].port = NoPort /\ rows'[nextId].image = FALSE
         /\ \A e \in Ids \ {nextId} : rows'[e] = rows[e]
<1>1. job[t] \in Job /\ rows \in [Ids -> Row] /\ nextId \in Ids
  BY BoundAssumption DEF TypeOK, CreateDeployment, Ids
<1>2. Others(t) /\ job'[t] = [job[t] EXCEPT !.pc = pc, !.id = nextId, !.cursor = PortLo,
                                           !.strategy = project[job[t].proj]]
  BY BecomesIs DEF CreateDeployment
<1>3. rows' = [rows EXCEPT ![nextId] = [NoRow EXCEPT !.project = job[t].proj, !.status = "building"]]
  BY DEF CreateDeployment
<1>4. rows'[nextId] = [NoRow EXCEPT !.project = job[t].proj, !.status = "building"]
  BY <1>1, <1>3
<1>5. \A e \in Ids \ {nextId} : rows'[e] = rows[e]
  BY <1>1, <1>3
<1>6. nextId' = nextId + 1
  BY DEF CreateDeployment
<1> QED BY <1>1, <1>2, <1>4, <1>5, <1>6 DEF Job, NoRow

LEMMA SyncIs ==
  ASSUME TypeOK, NEW t \in Procs, NEW pc, Becomes(t, [job[t] EXCEPT !.pc = pc, !.strategy = "auto"])
  PROVE  LET j == job[t] k == job'[t] IN
         /\ Others(t)
         /\ k.pc = pc /\ k.op = j.op /\ k.proj = j.proj /\ k.id = j.id /\ k.port = j.port
         /\ k.image = j.image /\ k.cursor = j.cursor /\ k.todo = j.todo /\ k.snap = j.snap
<1>1. job[t] \in Job
  BY DEF TypeOK
<1>2. Others(t) /\ job'[t] = [job[t] EXCEPT !.pc = pc, !.strategy = "auto"]
  BY BecomesIs
<1> QED BY <1>1, <1>2 DEF Job

LEMMA BuildIs ==
  ASSUME TypeOK, NEW t \in Procs, Becomes(t, [job[t] EXCEPT !.pc = "scan", !.image = TRUE])
  PROVE  LET j == job[t] k == job'[t] IN
         /\ Others(t)
         /\ k.pc = "scan" /\ k.op = j.op /\ k.proj = j.proj /\ k.id = j.id /\ k.port = j.port
         /\ k.cursor = j.cursor /\ k.todo = j.todo /\ k.snap = j.snap /\ k.image = TRUE
<1>1. job[t] \in Job
  BY DEF TypeOK
<1>2. Others(t) /\ job'[t] = [job[t] EXCEPT !.pc = "scan", !.image = TRUE]
  BY BecomesIs
<1> QED BY <1>1, <1>2 DEF Job

LEMMA ScanIs ==
  ASSUME TypeOK, NEW t \in Procs, job[t].pc = "scan", NEW q,
         Becomes(t, IF alloc[q] = Free THEN [job[t] EXCEPT !.pc = "insert"]
                                       ELSE [job[t] EXCEPT !.cursor = q + 1])
  PROVE  LET j == job[t] k == job'[t] IN
         /\ Others(t)
         /\ k.pc \in {"scan", "insert"} /\ k.op = j.op /\ k.proj = j.proj /\ k.id = j.id
         /\ k.port = j.port /\ k.image = j.image /\ k.todo = j.todo /\ k.snap = j.snap
<1>1. job[t] \in Job
  BY DEF TypeOK
<1>2. Others(t) /\ job'[t] = IF alloc[q] = Free THEN [job[t] EXCEPT !.pc = "insert"]
                                               ELSE [job[t] EXCEPT !.cursor = q + 1]
  BY BecomesIs
<1>3. CASE alloc[q] = Free
  BY <1>1, <1>2, <1>3 DEF Job
<1>4. CASE alloc[q] # Free
  BY <1>1, <1>2, <1>4 DEF Job
<1> QED BY <1>3, <1>4

LEMMA RunIs ==
  ASSUME TypeOK, NEW t \in Procs, NEW q,
         Becomes(t, [job[t] EXCEPT !.pc = "health", !.port = q, !.image = TRUE, !.cursor = 0])
  PROVE  LET j == job[t] k == job'[t] IN
         /\ Others(t)
         /\ k.pc = "health" /\ k.op = j.op /\ k.proj = j.proj /\ k.id = j.id /\ k.port = q
         /\ k.image = TRUE /\ k.todo = j.todo /\ k.snap = j.snap
<1>1. job[t] \in Job
  BY DEF TypeOK
<1>2. Others(t)
      /\ job'[t] = [job[t] EXCEPT !.pc = "health", !.port = q, !.image = TRUE, !.cursor = 0]
  BY BecomesIs
<1> QED BY <1>1, <1>2 DEF Job

LEMMA SnapIs ==
  ASSUME TypeOK, NEW t \in Procs, NEW pc, NEW s, Becomes(t, [job[t] EXCEPT !.pc = pc, !.snap = s])
  PROVE  LET j == job[t] k == job'[t] IN
         /\ Others(t)
         /\ k.pc = pc /\ k.op = j.op /\ k.proj = j.proj /\ k.id = j.id /\ k.port = j.port
         /\ k.image = j.image /\ k.todo = j.todo /\ k.snap = s
<1>1. job[t] \in Job
  BY DEF TypeOK
<1>2. Others(t) /\ job'[t] = [job[t] EXCEPT !.pc = pc, !.snap = s]
  BY BecomesIs
<1> QED BY <1>1, <1>2 DEF Job

LEMMA AskIs ==
  ASSUME TypeOK, NEW t \in Procs, NEW pc, NEW op, NEW p,
         Becomes(t, [Idle EXCEPT !.pc = pc, !.op = op, !.proj = p])
  PROVE  LET k == job'[t] IN
         /\ Others(t)
         /\ k.pc = pc /\ k.op = op /\ k.proj = p /\ k.id = 0 /\ k.port = NoPort
         /\ k.image = FALSE /\ k.todo = {} /\ k.snap = NoSites
<1>1. Others(t) /\ job'[t] = [Idle EXCEPT !.pc = pc, !.op = op, !.proj = p]
  BY BecomesIs
<1> QED BY <1>1 DEF Idle

LEMMA CopiedIs ==
  ASSUME TypeOK, NEW t \in Procs, NEW p, NEW d, NEW op, NEW pc, Copied(t, p, d, op, pc)
  PROVE  LET k == job'[t] IN
         /\ Others(t)
         /\ k.pc = pc /\ k.op = op /\ k.proj = p /\ k.id = d /\ k.port = rows[d].port
         /\ k.image = rows[d].image /\ k.todo = {} /\ k.snap = NoSites
<1>1. Others(t) /\ job'[t] = [Idle EXCEPT !.pc = pc, !.op = op, !.proj = p, !.id = d,
                                         !.port = rows[d].port, !.image = rows[d].image]
  BY BecomesIs DEF Copied
<1> QED BY <1>1 DEF Idle

-----------------------------------------------------------------------------
(* Layer 1.  A step of a goroutine touches no row of another project, so   *)
(* what the other goroutines know of theirs stays true.                    *)
RowsLocal(p) ==
  \A d \in Ids : rows'[d] # rows[d] =>
    rows[d].project \in {p, NoProject} /\ rows'[d].project \in {p, NoProject}

LEMMA OthersOwn ==
  ASSUME TypeOK, TypeOK', Alone, NEW t \in Procs, Others(t), NEW p \in Projects,
         RowsLocal(p), NEW u \in Procs \ {t}, job[u].proj # p, Owner(u), Copies(u)
  PROVE  Owner(u)' /\ Copies(u)'
<1> PICK j \in Job : j = job[u]
  BY DEF TypeOK
<1>1. job'[u] = j /\ Placed(j)
  BY DEF Others, TypeOK
<1>2. CASE j.pc = "idle"
  <2>1. Owner(u)'
    BY <1>1, <1>2 DEF Owner, Working, Requests, JobPcs, Preparing, Draining3, Removing
  <2>2. Copies(u)'
    BY <1>1, <1>2 DEF Copies, Draining3
  <2> QED BY <2>1, <2>2
<1>3. CASE j.pc # "idle"
  <2>1. j.proj \in Projects /\ j.proj # p /\ j.proj # NoProject
    BY <1>1, <1>3, NoProjectAssumption DEF Placed
  <2>2. \A d \in Ids : rows[d].project = j.proj \/ rows'[d].project = j.proj => rows'[d] = rows[d]
    BY <2>1 DEF RowsLocal
  <2>3. RowsOf(j.proj)' = RowsOf(j.proj) /\ RowsOf(j.proj) \subseteq Ids
    BY <2>2 DEF RowsOf
  <2>4. \A d \in RowsOf(j.proj) : rows'[d] = rows[d]
    BY <2>2 DEF RowsOf
  <2>5. Owner(u)'
    <3>1. IsLatest(j.id, j.proj)' <=> IsLatest(j.id, j.proj)
      BY <2>3 DEF IsLatest
    <3>2. IsLatest(j.id, j.proj) => rows'[j.id] = rows[j.id]
      BY <2>4 DEF IsLatest
    <3>3. j.pc \in Working \cup Requests => rows'[j.id] = rows[j.id] /\ IsLatest(j.id, j.proj)'
      BY <3>1, <3>2 DEF Owner
    <3>4. j.pc \in Working => j.pc \in Working \cup Requests
      OBVIOUS
    <3>5. j.pc \in Requests => j.pc \in Working \cup Requests
      OBVIOUS
    <3> QED BY <1>1, <3>1, <3>3, <3>4, <3>5 DEF Owner
  <2>6. Copies(u)'
    <3>1. \A c \in j.todo : c.id \in Ids
      BY DEF Job, Copy
    <3>2. \A c \in j.todo : rows[c.id].project = j.proj
      BY DEF Copies
    <3>3. \A c \in j.todo : rows'[c.id] = rows[c.id]
      BY <2>2, <3>1, <3>2
    <3> QED BY <1>1, <2>3, <2>4, <3>3 DEF Copies
  <2> QED BY <2>5, <2>6
<1> QED BY <1>2, <1>3

(* The row a goroutine works on is there, and is of its project.           *)
LEMMA OwnRow ==
  ASSUME TypeOK, Ownership, NEW t \in Procs, job[t].pc \in Working \cup Requests
  PROVE  /\ job[t].proj \in Projects /\ job[t].id \in Ids /\ Present(job[t].id)
         /\ rows[job[t].id].project = job[t].proj
         /\ IsLatest(job[t].id, job[t].proj)
<1>1. Placed(job[t]) /\ Owner(t)
  BY DEF TypeOK, Ownership
<1>2. job[t].proj \in Projects /\ IsLatest(job[t].id, job[t].proj)
  BY <1>1 DEF Placed, Owner, Working, Requests, JobPcs
<1>3. job[t].id \in Ids /\ rows[job[t].id].project = job[t].proj
  BY <1>2 DEF IsLatest, RowsOf
<1>4. Present(job[t].id)
  BY <1>2, <1>3, NoProjectAssumption DEF Ownership, FreshRows
<1> QED BY <1>2, <1>3, <1>4

(* A step that leaves the rows alone, and what they are compared with.     *)
LEMMA LatestStays ==
  ASSUME NEW p, NEW d, \A e \in Ids : rows'[e].project = rows[e].project
  PROVE  RowsOf(p)' = RowsOf(p) /\ (IsLatest(d, p)' <=> IsLatest(d, p))
<1>1. RowsOf(p)' = RowsOf(p)
  BY DEF RowsOf
<1> QED BY <1>1 DEF IsLatest

LEMMA SavedLocal ==
  ASSUME TypeOK, FreshRows, NEW d \in Ids, Present(d),
         rows'[d].project = rows[d].project, rows'[d].status # "absent",
         \A e \in Ids \ {d} : rows'[e] = rows[e], nextId' = nextId
  PROVE  RowsLocal(rows[d].project) /\ FreshRows'
<1>1. RowsLocal(rows[d].project)
  BY DEF RowsLocal
<1>2. FreshRows'
  <2> SUFFICES ASSUME NEW e \in Ids
               PROVE  /\ e >= nextId => rows'[e] = NoRow
                      /\ rows'[e].status # "absent" <=> rows'[e].project # NoProject
                      /\ rows'[e].status = "absent" => rows'[e] = NoRow
    BY DEF FreshRows, Present
  <2>1. ~(d >= nextId)
    BY DEF FreshRows, Present, NoRow
  <2>2. CASE e = d
    BY <2>1, <2>2 DEF FreshRows, Present
  <2>3. CASE e # d
    BY <2>3 DEF FreshRows, Present
  <2> QED BY <2>2, <2>3
<1> QED BY <1>1, <1>2

(* The layer holds when it holds of the goroutine that has moved.          *)
LEMMA OwnershipFrom ==
  ASSUME TypeOK, TypeOK', Ownership, NEW t \in Procs, Others(t), NEW p \in Projects, RowsLocal(p),
         \A u \in Procs \ {t} : job[u].proj # p, job'[t].proj \in {p, NoProject},
         FreshRows', Owner(t)', Copies(t)'
  PROVE  Ownership'
<1>1. Alone'
  BY NoProjectAssumption DEF Ownership, Alone, Others
<1>2. ASSUME NEW u \in Procs PROVE Owner(u)' /\ Copies(u)'
  <2>1. CASE u = t
    BY <2>1
  <2>2. CASE u # t
    BY <2>2, OthersOwn DEF Ownership
  <2> QED BY <2>1, <2>2
<1> QED BY <1>1, <1>2 DEF Ownership

(* A job that has failed.                                                  *)
LEMMA FailOwnership ==
  ASSUME TypeOK, TypeOK', Ownership, NEW t \in Procs, job[t].pc \in Preparing \cup {"health", "flip"},
         Fail(t), UNCHANGED nextId
  PROVE  Ownership'
<1> PICK p \in Projects : p = job[t].proj
  BY OwnRow DEF Working, JobPcs, Preparing
<1> PICK d \in Ids : d = job[t].id
  BY OwnRow DEF Working, JobPcs, Preparing
<1>1. job[t].pc \in Working \cup Requests /\ job[t].pc \in JobPcs /\ job[t].pc \notin Draining3
  BY DEF Working, JobPcs, Preparing, Draining3
<1>2. Present(d) /\ rows[d].project = p
  BY <1>1, OwnRow
<1>3. /\ Others(t)
      /\ job'[t].pc = "done" /\ job'[t].op = job[t].op /\ job'[t].proj = p
      /\ job'[t].todo = job[t].todo
      /\ rows'[d].project = p /\ rows'[d].status = "failed"
      /\ \A e \in Ids \ {d} : rows'[e] = rows[e]
  BY <1>2, FailIs
<1>4. RowsLocal(p) /\ FreshRows'
  BY <1>2, <1>3, SavedLocal DEF Ownership
<1>5. Owner(t) /\ Copies(t)
  BY DEF Ownership
<1>6. Owner(t)'
  BY <1>1, <1>3, <1>5 DEF Owner, Working, Requests, JobPcs, Preparing, Draining3, Removing
<1>7. Copies(t)'
  BY <1>1, <1>3, <1>5 DEF Copies, Draining3
<1>8. \A u \in Procs \ {t} : job[u].proj # p
  BY NoProjectAssumption DEF Ownership, Alone
<1> QED BY <1>3, <1>4, <1>6, <1>7, <1>8, OwnershipFrom

(* A step that writes no row.                                              *)
LEMMA QuietOwnership ==
  ASSUME TypeOK, TypeOK', Ownership, NEW t \in Procs, Others(t), UNCHANGED <<rows, nextId>>,
         job[t].pc # "idle", job'[t].proj \in {job[t].proj, NoProject},
         Owner(t)', Copies(t)'
  PROVE  Ownership'
<1> PICK p \in Projects : p = job[t].proj
  BY DEF TypeOK, Placed
<1>1. RowsLocal(p) /\ FreshRows'
  BY DEF RowsLocal, Ownership, FreshRows, Present
<1>2. \A u \in Procs \ {t} : job[u].proj # p
  BY NoProjectAssumption DEF Ownership, Alone
<1> QED BY <1>1, <1>2, OwnershipFrom

LEMMA OwnershipStep ==
  ASSUME TypeOK, TypeOK', Ownership, NEW t \in Procs, Step(t)
  PROVE  Ownership'
<1> USE DEF db, host, edge
<1> PICK p : p = job[t].proj
  OBVIOUS
<1> PICK d : d = job[t].id
  OBVIOUS
<1>a. Owner(t) /\ Copies(t)
  BY DEF Ownership
<1>l. UNCHANGED rows => /\ RowsOf(p)' = RowsOf(p)
                        /\ IsLatest(d, p)' <=> IsLatest(d, p)
  BY LatestStays
(* The place it moves to tells what is asked of a goroutine that moves on. *)
<1>g. ASSUME NEW pc, Goto(t, pc), UNCHANGED <<rows, nextId>>,
             \/ job[t].pc = "checked" /\ pc = "begin"
             \/ job[t].pc = "begin" /\ pc = "done"
             \/ job[t].pc = "publish" /\ pc = "reload"
             \/ job[t].pc = "insert" /\ pc = "run"
             \/ job[t].pc = "health" /\ pc = "flip"
             \/ job[t].pc = "flip" /\ pc = "reload"
             \/ job[t].pc = "drainContainer" /\ pc = "drainPort"
             \/ job[t].pc = "drainPort" /\ pc = "drainRow"
             \/ job[t].pc = "stopContainer" /\ pc = "stopRow"
             \/ job[t].pc = "rmContainer" /\ pc = "rmPort"
             \/ job[t].pc = "rmPort" /\ pc = "rmSite"
             \/ job[t].pc = "rmSite" /\ pc = "rmReload"
      PROVE  Ownership'
  <2>1. Others(t) /\ job'[t].pc = pc /\ Like(job[t], job'[t])
    BY <1>g, GotoIs
  <2>2. Owner(t)'
    BY <1>a, <1>g, <1>l, <2>1 DEF Like, Owner, Working, Requests, JobPcs, Preparing, Draining3, Removing
  <2>3. Copies(t)'
    BY <1>a, <1>g, <1>l, <2>1 DEF Like, Copies, Draining3
  <2>4. job'[t].proj = job[t].proj /\ job[t].pc # "idle"
    BY <1>g, <2>1 DEF Like
  <2> QED BY <1>g, <2>1, <2>2, <2>3, <2>4, QuietOwnership
(* ... and nothing is asked of one that returns.                           *)
<1>r. ASSUME Return(t), UNCHANGED <<rows, nextId>>, job[t].pc # "idle" PROVE Ownership'
  <2>1. Others(t) /\ job'[t] = Idle
    BY <1>r, ReturnIs
  <2>2. Owner(t)' /\ Copies(t)'
    BY <2>1, IdleIs DEF Copies, Owner, Working, Requests, JobPcs, Preparing, Draining3, Removing
  <2> QED BY <1>r, <2>1, <2>2, IdleIs, QuietOwnership

<1>1. CASE Start(t)
  BY <1>1, <1>g DEF Start
<1>2. CASE Begin(t)
  <2>1. PICK pc \in {"sync", "scan"} :
          CreateDeployment(t, pc) /\ job[t].pc = "begin" /\ Exists(job[t].proj)
    BY <1>2 DEF Begin
  <2>2. p \in Projects
    BY <2>1 DEF TypeOK, Placed
  <2> PICK n \in Ids : n = nextId
    BY <2>1, CreateIs
  <2>3. /\ Others(t)
        /\ job'[t].pc = pc /\ job'[t].op = job[t].op /\ job'[t].proj = p /\ job'[t].id = n
        /\ job'[t].port = job[t].port /\ job'[t].todo = job[t].todo
        /\ nextId' = n + 1
        /\ rows'[n].project = p /\ rows'[n].status = "building" /\ rows'[n].port = NoPort
        /\ \A e \in Ids \ {n} : rows'[e] = rows[e]
    BY <2>1, CreateIs
  <2>4. \A e \in Ids : e >= n => rows[e] = NoRow
    BY DEF Ownership, FreshRows
  <2>5. RowsLocal(p)
    <3>1. n \in Nat /\ rows[n].project = NoProject
      BY <2>4, Constants DEF NoRow
    <3> QED BY <2>3, <3>1 DEF RowsLocal
  <2>6. FreshRows'
    <3> SUFFICES ASSUME NEW e \in Ids
                 PROVE  /\ e >= n + 1 => rows'[e] = NoRow
                        /\ rows'[e].status # "absent" <=> rows'[e].project # NoProject
                        /\ rows'[e].status = "absent" => rows'[e] = NoRow
      BY <2>3 DEF FreshRows, Present
    <3>1. e \in Nat /\ n \in Nat
      BY Constants
    <3>2. CASE e = n
      BY <3>1, <3>2, <2>2, <2>3, NoProjectAssumption
    <3>3. CASE e # n
      BY <3>1, <3>3, <2>3, <2>4 DEF Ownership, FreshRows, Present
    <3> QED BY <3>2, <3>3
  <2>7. IsLatest(n, p)'
    <3>1. n \in RowsOf(p)'
      BY <2>3 DEF RowsOf
    <3>2. \A e \in RowsOf(p)' : e <= n
      <4> SUFFICES ASSUME NEW e \in Ids, rows'[e].project = p PROVE e <= n
        BY DEF RowsOf
      <4>1. e \in Nat /\ n \in Nat
        BY Constants
      <4>2. CASE e = n
        BY <4>1, <4>2
      <4>3. CASE e # n
        BY <4>1, <4>3, <2>2, <2>3, <2>4, NoProjectAssumption DEF NoRow
      <4> QED BY <4>2, <4>3
    <3> QED BY <3>1, <3>2 DEF IsLatest
  <2>8. Owner(t)'
    BY <1>a, <2>1, <2>3, <2>7 DEF Owner, Working, Requests, JobPcs, Preparing, Draining3, Removing
  <2>9. Copies(t)'
    <3>1. job[t].todo = {}
      BY <1>a, <2>1 DEF Copies, Draining3
    <3> QED BY <2>1, <2>3, <3>1 DEF Copies, Draining3
  <2>10. \A u \in Procs \ {t} : job[u].proj # p
    BY <2>2, NoProjectAssumption DEF Ownership, Alone
  <2> QED BY <2>2, <2>3, <2>5, <2>6, <2>8, <2>9, <2>10, OwnershipFrom
<1>3. CASE Refuse(t)
  BY <1>3, <1>g DEF Refuse
<1>f. ASSUME job[t].pc \in Preparing \cup {"health", "flip"}, Fail(t), UNCHANGED nextId PROVE Ownership'
  BY <1>f, FailOwnership
<1>m. ASSUME Others(t), UNCHANGED <<rows, nextId>>, NEW pc, job'[t].pc = pc,
             job'[t].op = job[t].op, job'[t].proj = job[t].proj, job'[t].id = job[t].id,
             job'[t].port = job[t].port, job'[t].todo = job[t].todo,
             \/ job[t].pc = "sync" /\ pc \in {"publish", "build"}
             \/ job[t].pc = "build" /\ pc = "scan"
             \/ job[t].pc = "scan" /\ pc \in {"scan", "insert"}
             \/ job[t].pc = "reload" /\ pc = "install"
             \/ job[t].pc = "rmReload" /\ pc = "rmInstall"
             \/ job[t].pc = "install" /\ pc = "succeed" /\ job[t].port = NoPort
             \/ job[t].pc = "install" /\ pc = "list" /\ job[t].port # NoPort
             \/ job[t].pc = "rmInstall" /\ pc = "rmRow"
      PROVE  Ownership'
  <2>1. Owner(t)'
    BY <1>a, <1>m, <1>l DEF Owner, Working, Requests, JobPcs, Preparing, Draining3, Removing
  <2>2. Copies(t)'
    BY <1>a, <1>m, <1>l DEF Copies, Draining3
  <2> QED BY <1>m, <2>1, <2>2, QuietOwnership
<1>4. CASE Sync(t)
  <2>1. CASE Fail(t)
    BY <1>4, <1>f, <2>1 DEF Sync, Preparing
  <2>2. ASSUME NEW pc \in {"publish", "build"},
               Becomes(t, [job[t] EXCEPT !.pc = pc, !.strategy = "auto"]), UNCHANGED rows
        PROVE  Ownership'
    BY <1>4, <1>m, <2>2, SyncIs DEF Sync
  <2> QED BY <1>4, <2>1, <2>2 DEF Sync
<1>5. CASE Publish(t)
  BY <1>5, <1>f, <1>g DEF Publish, Preparing
<1>6. CASE Build(t)
  <2>1. CASE Fail(t)
    BY <1>6, <1>f, <2>1 DEF Build, Preparing
  <2>2. ASSUME Becomes(t, [job[t] EXCEPT !.pc = "scan", !.image = TRUE]), UNCHANGED rows
        PROVE  Ownership'
    BY <1>6, <1>m, <2>2, BuildIs DEF Build
  <2> QED BY <1>6, <2>1, <2>2 DEF Build
<1>7. CASE Scan(t)
  <2>1. CASE Fail(t)
    BY <1>7, <1>f, <2>1 DEF Scan, Preparing
  <2>2. ASSUME NEW q, Becomes(t, IF alloc[q] = Free THEN [job[t] EXCEPT !.pc = "insert"]
                                                    ELSE [job[t] EXCEPT !.cursor = q + 1]),
               UNCHANGED rows
        PROVE  Ownership'
    <3>1. job[t].pc = "scan" /\ UNCHANGED nextId
      BY <1>7 DEF Scan
    <3>2. /\ Others(t)
          /\ job'[t].pc \in {"scan", "insert"}
          /\ job'[t].op = job[t].op /\ job'[t].proj = job[t].proj /\ job'[t].id = job[t].id
          /\ job'[t].port = job[t].port /\ job'[t].todo = job[t].todo
      BY <2>2, <3>1, ScanIs
    <3> PICK pc \in {"scan", "insert"} : pc = job'[t].pc
      BY <3>2
    <3> QED BY <1>m, <2>2, <3>1, <3>2
  <2> PICK q : q = job[t].cursor
    OBVIOUS
  <2> QED BY <1>7, <2>1, <2>2 DEF Scan
<1>8. CASE Insert(t)
  BY <1>8, <1>f, <1>g DEF Insert, Preparing
<1>9. CASE Run(t)
  <2>1. CASE Fail(t)
    BY <1>9, <1>f, <2>1 DEF Run, Preparing
  <2>2. ASSUME NEW q \in Ports,
               Becomes(t, [job[t] EXCEPT !.pc = "health", !.port = q, !.image = TRUE, !.cursor = 0]),
               UNCHANGED rows
        PROVE  Ownership'
    <3>1. job[t].pc = "run" /\ UNCHANGED nextId
      BY <1>9 DEF Run
    <3>2. /\ Others(t)
          /\ job'[t].pc = "health" /\ job'[t].op = job[t].op /\ job'[t].proj = job[t].proj
          /\ job'[t].id = job[t].id /\ job'[t].port = q /\ job'[t].todo = job[t].todo
      BY <2>2, RunIs
    <3>3. Owner(t)'
      BY <1>a, <1>l, <2>2, <3>1, <3>2, Constants DEF Owner, Working, Requests, JobPcs, Preparing, Draining3, Removing
    <3>4. Copies(t)'
      BY <1>a, <1>l, <2>2, <3>1, <3>2 DEF Copies, Draining3
    <3> QED BY <2>2, <3>1, <3>2, <3>3, <3>4, QuietOwnership
  <2>3. job[t].cursor \in Ports
    BY <1>9 DEF Run, TypeOK, Placed
  <2> QED BY <1>9, <2>1, <2>2, <2>3 DEF Run
<1>10. CASE Health(t)
  BY <1>10, <1>f, <1>g DEF Health
<1>11. CASE Flip(t)
  BY <1>11, <1>f, <1>g DEF Flip
<1>12. CASE ReadSites(t)
  <2>1. UNCHANGED <<rows, nextId>>
    BY <1>12 DEF ReadSites
  <2>2. ASSUME job[t].pc = "reload", Becomes(t, [job[t] EXCEPT !.pc = "install", !.snap = site])
        PROVE  Ownership'
    BY <1>m, <2>1, <2>2, SnapIs
  <2>3. ASSUME job[t].pc = "rmReload", Becomes(t, [job[t] EXCEPT !.pc = "rmInstall", !.snap = site])
        PROVE  Ownership'
    BY <1>m, <2>1, <2>3, SnapIs
  <2> QED BY <1>12, <2>2, <2>3 DEF ReadSites
<1>13. CASE Install(t)
  <2>1. UNCHANGED <<rows, nextId>>
    BY <1>13 DEF Install
  <2>2. ASSUME NEW pc, Becomes(t, [job[t] EXCEPT !.pc = pc, !.snap = NoSites]),
               \/ job[t].pc = "install" /\ pc = "succeed" /\ job[t].port = NoPort
               \/ job[t].pc = "install" /\ pc = "list" /\ job[t].port # NoPort
               \/ job[t].pc = "rmInstall" /\ pc = "rmRow"
        PROVE  Ownership'
    BY <1>m, <2>1, <2>2, SnapIs
  <2> QED BY <1>13, <2>2 DEF Install, Installed
<1>14. CASE List(t)
  <2>d. PICK ds : ds = ToDrain(job[t].proj, job[t].id)
    OBVIOUS
  <2>c. PICK cs : cs = {[id |-> e, port |-> rows[e].port, image |-> rows[e].image] : e \in ds}
    OBVIOUS
  <2>1. /\ job[t].pc = "list" /\ UNCHANGED <<rows, nextId>>
        /\ Becomes(t, [job[t] EXCEPT !.pc = IF ds = {} THEN "succeed" ELSE "drainContainer",
                                     !.todo = cs])
    BY <1>14, <2>c, <2>d DEF List
  <2>p. PICK pc : pc = IF ds = {} THEN "succeed" ELSE "drainContainer"
    OBVIOUS
  <2>2. /\ Others(t)
        /\ job'[t].pc = pc /\ job'[t].op = job[t].op /\ job'[t].proj = p /\ job'[t].id = d
        /\ job'[t].port = job[t].port /\ job'[t].todo = cs
    <3>1. Becomes(t, [job[t] EXCEPT !.pc = pc, !.todo = cs])
      BY <2>1, <2>p, Zenon
    <3>2. Others(t) /\ job'[t] = [job[t] EXCEPT !.pc = pc, !.todo = cs]
      BY <3>1, BecomesIs
    <3>3. job[t] \in Job
      BY DEF TypeOK
    <3> QED BY <3>2, <3>3 DEF Job
  <2>3. Owner(t)'
    BY <1>a, <1>l, <2>1, <2>2, <2>p DEF Owner, Working, Requests, JobPcs, Preparing, Draining3, Removing
  <2>4. \A e : e \in ds <=> /\ e \in RowsOf(p) /\ e # d
                            /\ rows[e].port # NoPort /\ rows[e].status # "stopped"
    BY <2>d DEF ToDrain
  <2>5. \A c \in cs : \E e \in ds : c.id = e /\ c.port = rows[e].port /\ c.image = rows[e].image
    BY <2>c
  <2>6. ASSUME NEW e \in ds PROVE \E c \in cs : c.id = e
    <3> PICK c : c = [id |-> e, port |-> rows[e].port, image |-> rows[e].image]
      OBVIOUS
    <3>1. c \in cs /\ c.id = e
      BY <2>c
    <3> QED BY <3>1
  <2>7. ds = {} => cs = {}
    BY <2>5
  <2>8. Copies(t)'
    <3>1. job'[t].pc \notin Draining3 => job'[t].todo = {}
      BY <2>2, <2>7, <2>p DEF Draining3
    <3>2. \A c \in cs : /\ c.id # d /\ rows[c.id].project = p
                        /\ rows[c.id].port = c.port /\ rows[c.id].image = c.image
                        /\ rows[c.id].status # "stopped"
      BY <2>4, <2>5 DEF RowsOf
    <3>3. \A e \in RowsOf(p) \ {d} :
            rows[e].port # NoPort /\ rows[e].status # "stopped" => \E c \in cs : c.id = e
      BY <2>4, <2>6
    <3> QED BY <1>l, <2>1, <2>2, <3>1, <3>2, <3>3 DEF Copies
  <2> QED BY <2>1, <2>2, <2>3, <2>8, QuietOwnership
<1>15. CASE DrainContainer(t)
  BY <1>15, <1>g DEF DrainContainer
<1>16. CASE DrainPort(t)
  BY <1>16, <1>g DEF DrainPort
<1>17. CASE DrainRow(t)
  <2>0. job[t].pc = "drainRow" /\ UNCHANGED nextId /\ job[t] \in Job
    BY <1>17 DEF DrainRow, TypeOK
  <2>1. PICK c \in Draining(t) :
          /\ rows' = Written(c.id, "stopped", c.port, c.image)
          /\ Becomes(t, [job[t] EXCEPT !.todo = @ \ {c},
                    !.pc = IF job[t].todo = {c} THEN "succeed" ELSE "drainContainer"])
    BY <1>17 DEF DrainRow
  <2>d. PICK todo : todo = job[t].todo
    OBVIOUS
  <2>p. PICK pc : pc = IF todo = {c} THEN "succeed" ELSE "drainContainer"
    OBVIOUS
  <2>2. Becomes(t, [job[t] EXCEPT !.pc = pc, !.todo = todo \ {c}])
    <3>1. [job[t] EXCEPT !.todo = @ \ {c}, !.pc = IF job[t].todo = {c} THEN "succeed" ELSE "drainContainer"]
            = [job[t] EXCEPT !.pc = pc, !.todo = todo \ {c}]
      BY <2>0, <2>d, <2>p DEF Job
    <3> QED BY <2>1, <3>1, Zenon
  <2>3. /\ Others(t)
        /\ job'[t].pc = pc /\ job'[t].op = job[t].op /\ job'[t].proj = p /\ job'[t].id = d
        /\ job'[t].port = job[t].port /\ job'[t].todo = todo \ {c}
    <3>2. Others(t) /\ job'[t] = [job[t] EXCEPT !.pc = pc, !.todo = todo \ {c}]
      BY <2>2, BecomesIs
    <3> QED BY <2>0, <3>2 DEF Job
  <2>4. c \in todo /\ c.id \in Ids /\ c.id # d /\ rows[c.id].project = p
        /\ rows[c.id].port = c.port /\ rows[c.id].image = c.image
    BY <1>a, <2>0, <2>d DEF Draining, Job, Copy, Copies
  <2>5. p \in Projects /\ d \in Ids /\ IsLatest(d, p)
    BY <2>0, OwnRow DEF Working, JobPcs
  <2>6. Present(c.id)
    BY <2>4, <2>5, NoProjectAssumption DEF Ownership, FreshRows
  <2>7. /\ rows'[c.id].project = p /\ rows'[c.id].status = "stopped"
        /\ rows'[c.id].port = rows[c.id].port /\ rows'[c.id].image = rows[c.id].image
        /\ \A e \in Ids \ {c.id} : rows'[e] = rows[e]
    BY <2>1, <2>4, <2>6, WrittenIs
  <2>8. RowsLocal(p) /\ FreshRows'
    BY <2>0, <2>4, <2>6, <2>7, SavedLocal DEF Ownership
  <2>9. RowsOf(p)' = RowsOf(p) /\ IsLatest(d, p)'
    BY <2>4, <2>5, <2>7, LatestStays
  <2>10. rows'[d] = rows[d]
    BY <2>4, <2>5, <2>7
  <2>11. Owner(t)'
    BY <1>a, <2>0, <2>3, <2>9, <2>10, <2>p DEF Owner, Working, Requests, JobPcs, Preparing, Draining3, Removing
  <2>12. \A x, y \in todo : x.id = y.id => x = y
    <3> SUFFICES ASSUME NEW x \in todo, NEW y \in todo, x.id = y.id PROVE x = y
      OBVIOUS
    <3>1. x \in Copy /\ y \in Copy
      BY <2>0, <2>d DEF Job
    <3>2. x.port = y.port /\ x.image = y.image
      BY <1>a, <2>d DEF Copies
    <3> QED BY <3>1, <3>2 DEF Copy
  <2>13. \A x \in todo \ {c} : x.id # c.id /\ x.id \in Ids
    BY <2>0, <2>4, <2>12, <2>d DEF Job, Copy
  <2>14. Copies(t)'
    <3>1. job'[t].pc \notin Draining3 => job'[t].todo = {}
      BY <2>3, <2>p, <2>d DEF Draining3
    <3>2. \A x \in todo \ {c} :
            /\ x.id # d /\ rows'[x.id].project = p /\ rows'[x.id].port = x.port
            /\ rows'[x.id].image = x.image /\ rows'[x.id].status # "stopped"
      BY <1>a, <2>7, <2>13, <2>d DEF Copies
    <3>3. ASSUME NEW e \in RowsOf(p) \ {d}, job[t].port # NoPort,
                 rows'[e].port # NoPort, rows'[e].status # "stopped"
          PROVE  \E x \in todo \ {c} : x.id = e
      <4>1. e \in Ids /\ e # c.id
        BY <2>7, <3>3 DEF RowsOf
      <4>2. rows'[e] = rows[e]
        BY <2>7, <4>1
      <4>3. PICK x \in todo : x.id = e
        BY <1>a, <2>0, <2>d, <3>3, <4>2 DEF Copies, Draining3
      <4> QED BY <4>1, <4>3
    <3> QED BY <2>3, <2>9, <3>1, <3>2, <3>3 DEF Copies
  <2>15. \A u \in Procs \ {t} : job[u].proj # p
    BY <2>5, NoProjectAssumption DEF Ownership, Alone
  <2> QED BY <2>3, <2>5, <2>8, <2>11, <2>14, <2>15, OwnershipFrom
<1>18. CASE Succeed(t)
  <2>0. job[t].pc = "succeed" /\ UNCHANGED nextId
        /\ rows' = Written(job[t].id, "running", job[t].port, job[t].image)
    BY <1>18 DEF Succeed
  <2>1. p \in Projects /\ d \in Ids /\ Present(d) /\ rows[d].project = p
    BY <2>0, OwnRow DEF Working, JobPcs
  <2>2. Others(t) /\ job'[t].pc = "done" /\ Like(job[t], job'[t])
    BY <1>18, GotoIs DEF Succeed
  <2>3. /\ rows'[d].project = p /\ rows'[d].status = "running"
        /\ \A e \in Ids \ {d} : rows'[e] = rows[e]
    BY <2>0, <2>1, WrittenIs
  <2>4. RowsLocal(p) /\ FreshRows'
    BY <2>0, <2>1, <2>3, SavedLocal DEF Ownership
  <2>5. Owner(t)' /\ Copies(t)'
    BY <1>a, <2>0, <2>2 DEF Like, Copies, Owner, Working, Requests, JobPcs, Preparing, Draining3, Removing
  <2>6. \A u \in Procs \ {t} : job[u].proj # p
    BY <2>1, NoProjectAssumption DEF Ownership, Alone
  <2> QED BY <2>1, <2>2, <2>4, <2>5, <2>6, OwnershipFrom DEF Like
<1>19. CASE Done(t)
  BY <1>19, <1>r DEF Done
<1>20. CASE StopContainer(t)
  BY <1>20, <1>g, <1>r DEF StopContainer
<1>21. CASE StopRow(t)
  <2>0. job[t].pc = "stopRow" /\ UNCHANGED nextId
        /\ rows' = Written(job[t].id, "stopped", job[t].port, job[t].image)
    BY <1>21 DEF StopRow
  <2>1. p \in Projects /\ d \in Ids /\ Present(d) /\ rows[d].project = p
    BY <2>0, OwnRow DEF Requests
  <2>2. Others(t) /\ job'[t] = Idle
    BY <1>21, ReturnIs DEF StopRow
  <2>3. /\ rows'[d].project = p /\ rows'[d].status = "stopped"
        /\ \A e \in Ids \ {d} : rows'[e] = rows[e]
    BY <2>0, <2>1, WrittenIs
  <2>4. RowsLocal(p) /\ FreshRows'
    BY <2>0, <2>1, <2>3, SavedLocal DEF Ownership
  <2>5. Owner(t)' /\ Copies(t)'
    BY <2>2, IdleIs DEF Copies, Owner, Working, Requests, JobPcs, Preparing, Draining3, Removing
  <2>6. \A u \in Procs \ {t} : job[u].proj # p
    BY <2>1, NoProjectAssumption DEF Ownership, Alone
  <2> QED BY <2>1, <2>2, <2>4, <2>5, <2>6, IdleIs, OwnershipFrom
<1>22. CASE RemoveContainer(t)
  BY <1>22, <1>g DEF RemoveContainer
<1>23. CASE RemovePort(t)
  BY <1>23, <1>g DEF RemovePort
<1>24. CASE RemoveSite(t)
  BY <1>24, <1>g DEF RemoveSite
<1>25. CASE RemoveRow(t)
  <2>0. job[t].pc = "rmRow" /\ UNCHANGED nextId
        /\ rows' = [e \in Ids |-> IF e \in RowsOf(p) THEN NoRow ELSE rows[e]]
    BY <1>25 DEF RemoveRow
  <2>1. p \in Projects
    BY <2>0 DEF TypeOK, Placed
  <2>2. Others(t) /\ job'[t] = Idle
    BY <1>25, ReturnIs DEF RemoveRow
  <2>3. RowsLocal(p)
    BY <2>0 DEF RowsLocal, RowsOf, NoRow
  <2>4. FreshRows'
    BY <2>0 DEF Ownership, FreshRows, Present, NoRow
  <2>5. Owner(t)' /\ Copies(t)'
    BY <2>2, IdleIs DEF Copies, Owner, Working, Requests, JobPcs, Preparing, Draining3, Removing
  <2>6. \A u \in Procs \ {t} : job[u].proj # p
    BY <2>1, NoProjectAssumption DEF Ownership, Alone
  <2> QED BY <2>1, <2>2, <2>3, <2>4, <2>5, <2>6, IdleIs, OwnershipFrom
<1> QED
  BY <1>1, <1>2, <1>3, <1>4, <1>5, <1>6, <1>7, <1>8, <1>9, <1>10, <1>11, <1>12, <1>13,
     <1>14, <1>15, <1>16, <1>17, <1>18, <1>19, <1>20, <1>21, <1>22, <1>23, <1>24, <1>25
  DEF Step

(* A request of a careful operator, a crash, and what no row has to do     *)
(* with.                                                                   *)
LEMMA OwnershipAsk ==
  ASSUME TypeOK, TypeOK', Ownership, NEW t \in Procs, NEW p \in Projects, Quiet(p), Ask(t, p)
  PROVE  Ownership'
<1> USE DEF db, host, edge
<1>1. UNCHANGED <<rows, nextId>> /\ job[t].pc = "idle"
  BY DEF Ask, Trigger, RequestStop, RequestRemove
<1>2. RowsLocal(p) /\ FreshRows'
  BY <1>1 DEF RowsLocal, Ownership, FreshRows, Present
<1>3. \A u \in Procs : job[u].proj # p
  BY DEF Quiet
<1>4. \A d \in Ids : IsLatest(d, p)' <=> IsLatest(d, p)
  BY <1>1, LatestStays
<1>5. ASSUME NEW pc, NEW op, Becomes(t, [Idle EXCEPT !.pc = pc, !.op = op, !.proj = p]),
             \/ pc = "checked" /\ op \in {"deploy", "rollback"}
             \/ pc = "rmSite" /\ op = "remove"
      PROVE  Ownership'
  <2>1. /\ Others(t)
        /\ job'[t].pc = pc /\ job'[t].op = op /\ job'[t].proj = p /\ job'[t].id = 0
        /\ job'[t].port = NoPort /\ job'[t].image = FALSE /\ job'[t].todo = {}
    BY <1>5, AskIs
  <2>2. Owner(t)' /\ Copies(t)'
    BY <1>5, <2>1 DEF Copies, Owner, Working, Requests, JobPcs, Preparing, Draining3, Removing
  <2> QED BY <1>2, <1>3, <2>1, <2>2, OwnershipFrom
<1>6. ASSUME NEW d \in Ids, IsLatest(d, p), NEW pc, NEW op, Copied(t, p, d, op, pc),
             \/ pc = "stopContainer" /\ op = "stop" /\ rows[d].port # NoPort
             \/ pc = "stopRow" /\ op = "stop"
             \/ pc = "rmContainer" /\ op = "remove" /\ rows[d].port # NoPort
             \/ pc = "rmSite" /\ op = "remove"
      PROVE  Ownership'
  <2>1. /\ Others(t)
        /\ job'[t].pc = pc /\ job'[t].op = op /\ job'[t].proj = p /\ job'[t].id = d
        /\ job'[t].port = rows[d].port /\ job'[t].image = rows[d].image /\ job'[t].todo = {}
    BY <1>6, CopiedIs
  <2>2. Owner(t)' /\ Copies(t)'
    BY <1>1, <1>4, <1>6, <2>1 DEF Copies, Owner, Working, Requests, JobPcs, Preparing, Draining3, Removing
  <2> QED BY <1>2, <1>3, <2>1, <2>2, OwnershipFrom
<1>7. CASE Trigger(t, p)
  BY <1>5, <1>7 DEF Trigger
<1>8. CASE RequestStop(t, p)
  <2> PICK d \in Ids :
        /\ IsLatest(d, p)
        /\ Copied(t, p, d, "stop", IF rows[d].port # NoPort THEN "stopContainer" ELSE "stopRow")
    BY <1>8 DEF RequestStop
  <2>1. CASE rows[d].port # NoPort
    BY <1>6, <2>1
  <2>2. CASE rows[d].port = NoPort
    BY <1>6, <2>2
  <2> QED BY <2>1, <2>2
<1>9. CASE RequestRemove(t, p)
  <2>1. ASSUME NEW d \in Ids, IsLatest(d, p),
               Copied(t, p, d, "remove", IF rows[d].port # NoPort THEN "rmContainer" ELSE "rmSite")
        PROVE  Ownership'
    <3>1. CASE rows[d].port # NoPort
      BY <1>6, <2>1, <3>1
    <3>2. CASE rows[d].port = NoPort
      BY <1>6, <2>1, <3>2
    <3> QED BY <3>1, <3>2
  <2> QED BY <1>5, <1>9, <2>1 DEF RequestRemove
<1> QED BY <1>7, <1>8, <1>9 DEF Ask

LEMMA OwnershipStays ==
  ASSUME Ownership, UNCHANGED <<job, rows, nextId>>
  PROVE  Ownership'
BY DEF Ownership, Alone, FreshRows, Present, Owner, Copies, IsLatest, RowsOf

LEMMA OwnershipCrash ==
  ASSUME TypeOK, Ownership, UNCHANGED <<rows, nextId>>, job' = [t \in Procs |-> Idle]
  PROVE  Ownership'
<1>1. FreshRows'
  BY DEF Ownership, FreshRows, Present
<1>2. \A t \in Procs : job'[t] = Idle
  OBVIOUS
<1>3. Alone'
  BY <1>2, IdleIs DEF Alone
<1>4. \A t \in Procs : Owner(t)' /\ Copies(t)'
  BY <1>2, IdleIs DEF Copies, Owner, Working, Requests, JobPcs, Preparing, Draining3, Removing
<1> QED BY <1>1, <1>3, <1>4 DEF Ownership

-----------------------------------------------------------------------------
(* Layer 2.                                                                *)
LEMMA SomeProject ==
  ASSUME TypeOK, Ownership, NEW d \in Ids, rows[d].port # NoPort \/ rows[d].image
  PROVE  rows[d].project \in Projects
BY DEF TypeOK, Row, Ownership, FreshRows, NoRow

LEMMA KindsFrom ==
  ASSUME TypeOK, Ownership, Kinds, NEW t \in Procs, Others(t), NEW p \in Projects,
         \A u \in Procs \ {t} : job[u].proj # p,
         \A r \in Projects \ {p} : project'[r] = project[r],
         KindOf(t)', RowKinds'
  PROVE  Kinds'
<1> SUFFICES ASSUME NEW u \in Procs, u # t PROVE KindOf(u)'
  BY DEF Kinds
<1> PICK j \in Job : j = job[u]
  BY DEF TypeOK
<1>1. job'[u] = j /\ Placed(j) /\ KindOf(u)
  BY DEF Others, TypeOK, Kinds
<1>2. CASE j.pc = "idle"
  BY <1>1, <1>2 DEF KindOf, Working, JobPcs, Switched
<1>3. CASE j.pc # "idle"
  <2>1. j.proj \in Projects \ {p}
    BY <1>1, <1>3 DEF Placed
  <2> QED BY <1>1, <2>1 DEF KindOf
<1> QED BY <1>2, <1>3

(* One row is saved.                                                       *)
LEMMA RowKindsFrom ==
  ASSUME TypeOK, Kinds, NEW d \in Ids, \A e \in Ids \ {d} : rows'[e] = rows[e],
         UNCHANGED project,
         rows'[d].port # NoPort \/ rows'[d].image => project[rows'[d].project] = "container"
  PROVE  RowKinds'
BY DEF Kinds, RowKinds

LEMMA FailKinds ==
  ASSUME TypeOK, Ownership, Kinds, NEW t \in Procs, job[t].pc \in Preparing \cup {"health", "flip"},
         Fail(t), UNCHANGED project
  PROVE  Kinds'
<1>0. job[t].pc \in Working
  BY DEF Working, JobPcs, Preparing
<1> PICK p \in Projects : p = job[t].proj
  BY <1>0, OwnRow
<1> PICK d \in Ids : d = job[t].id
  BY <1>0, OwnRow
<1>1. Present(d) /\ rows[d].project = p
  BY <1>0, OwnRow
<1>2. /\ Others(t) /\ job'[t].pc = "done"
      /\ rows'[d].project = p /\ rows'[d].port = job[t].port /\ rows'[d].image = job[t].image
      /\ \A e \in Ids \ {d} : rows'[e] = rows[e]
  BY <1>1, FailIs
<1>3. Owner(t) /\ KindOf(t)
  BY DEF Ownership, Kinds
<1>4. job[t].port # NoPort \/ job[t].image => project[p] = "container"
  BY <1>0, <1>3 DEF Owner, KindOf, Preparing
<1>5. RowKinds'
  BY <1>2, <1>4, RowKindsFrom
<1>6. KindOf(t)'
  BY <1>2 DEF KindOf, Working, JobPcs, Switched
<1>7. \A u \in Procs \ {t} : job[u].proj # p
  BY NoProjectAssumption DEF Ownership, Alone
<1> QED BY <1>2, <1>5, <1>6, <1>7, KindsFrom

LEMMA QuietKinds ==
  ASSUME TypeOK, Ownership, Kinds, NEW t \in Procs, Others(t), UNCHANGED <<rows, project>>,
         job[t].pc # "idle", KindOf(t)'
  PROVE  Kinds'
<1> PICK p \in Projects : p = job[t].proj
  BY DEF TypeOK, Placed
<1>1. RowKinds'
  BY DEF Kinds, RowKinds
<1>2. \A u \in Procs \ {t} : job[u].proj # p
  BY NoProjectAssumption DEF Ownership, Alone
<1> QED BY <1>1, <1>2, KindsFrom

LEMMA KindsStep ==
  ASSUME TypeOK, TypeOK', Ownership, Kinds, NEW t \in Procs, Step(t)
  PROVE  Kinds'
<1> USE DEF db, host, edge
<1> PICK p : p = job[t].proj
  OBVIOUS
<1> PICK d : d = job[t].id
  OBVIOUS
<1>a. Owner(t) /\ KindOf(t) /\ job[t] \in Job
  BY DEF Ownership, Kinds, TypeOK
<1>u. p # NoProject => \A u \in Procs \ {t} : job[u].proj # p
  BY DEF Ownership, Alone
<1>f. ASSUME job[t].pc \in Preparing \cup {"health", "flip"}, Fail(t), UNCHANGED project PROVE Kinds'
  BY <1>f, FailKinds
<1>m. ASSUME Others(t), UNCHANGED <<rows, project>>, NEW pc, job'[t].pc = pc, job[t].pc # "idle",
             job'[t].proj = job[t].proj, job'[t].port = job[t].port, job'[t].image = job[t].image,
             \/ job[t].pc = "flip" /\ pc = "reload"
             \/ job[t].pc = "scan" /\ pc \in {"scan", "insert"}
             \/ job[t].pc = "insert" /\ pc = "run"
             \/ job[t].pc = "health" /\ pc = "flip"
             \/ job[t].pc = "publish" /\ pc = "reload"
             \/ job[t].pc \in Switched /\ pc \in Switched
             \/ pc \notin Working
      PROVE  Kinds'
  <2>1. KindOf(t)'
    BY <1>a, <1>m DEF KindOf, Working, JobPcs, Switched, Owner, Preparing
  <2> QED BY <1>m, <2>1, QuietKinds
<1>g. ASSUME NEW pc, Goto(t, pc), UNCHANGED <<rows, project>>, job[t].pc # "idle",
             \/ job[t].pc = "flip" /\ pc = "reload"
             \/ job[t].pc = "insert" /\ pc = "run"
             \/ job[t].pc = "health" /\ pc = "flip"
             \/ job[t].pc = "publish" /\ pc = "reload"
             \/ job[t].pc \in Switched /\ pc \in Switched
             \/ pc \notin Working
      PROVE  Kinds'
  BY <1>g, <1>m, GotoIs DEF Like
<1>r. ASSUME Return(t), UNCHANGED <<rows, project>>, job[t].pc # "idle" PROVE Kinds'
  <2>1. Others(t) /\ job'[t] = Idle
    BY <1>r, ReturnIs
  <2>2. KindOf(t)'
    BY <2>1, IdleIs DEF KindOf, Working, JobPcs, Switched
  <2> QED BY <1>r, <2>1, <2>2, QuietKinds
<1>1. CASE Start(t) \/ Refuse(t)
  BY <1>1, <1>g DEF Start, Refuse, Working
<1>2. CASE Begin(t)
  <2>1. PICK pc \in {"sync", "scan"} :
          /\ CreateDeployment(t, pc) /\ job[t].pc = "begin" /\ UNCHANGED project
          /\ pc = "scan" => \E e \in RowsOf(job[t].proj) : rows[e].image
    BY <1>2 DEF Begin
  <2>2. p \in Projects
    BY <2>1 DEF TypeOK, Placed
  <2> PICK n \in Ids : n = nextId
    BY <2>1, CreateIs
  <2>3. /\ Others(t)
        /\ job'[t].pc = pc /\ job'[t].proj = p /\ job'[t].port = job[t].port
        /\ job'[t].image = job[t].image /\ job'[t].strategy = project[p]
        /\ rows'[n].project = p /\ rows'[n].port = NoPort /\ rows'[n].image = FALSE
        /\ \A e \in Ids \ {n} : rows'[e] = rows[e]
    BY <2>1, CreateIs
  <2>4. pc = "scan" => project[p] = "container"
    BY <2>1 DEF RowsOf, Kinds, RowKinds
  <2>5. RowKinds'
    BY <2>1, <2>3, RowKindsFrom
  <2>6. ~job[t].image
    BY <1>a, <2>1 DEF Owner
  <2>7. KindOf(t)'
    BY <2>1, <2>3, <2>4, <2>6 DEF KindOf, Working, JobPcs, Switched
  <2> QED BY <1>u, <2>1, <2>2, <2>3, <2>5, <2>7, NoProjectAssumption, KindsFrom
<1>3. CASE Sync(t)
  <2>1. CASE Fail(t) /\ UNCHANGED project
    BY <1>3, <1>f, <2>1 DEF Sync, Preparing
  <2>2. ASSUME NEW s \in {"static", "container"}, job[t].strategy \in {"auto", s},
               project' = IF job[t].strategy = "auto" /\ Exists(job[t].proj)
                            THEN [project EXCEPT ![job[t].proj] = s] ELSE project,
               NEW pc, pc = IF s = "static" THEN "publish" ELSE "build",
               Becomes(t, [job[t] EXCEPT !.pc = pc, !.strategy = "auto"]), UNCHANGED rows
        PROVE  Kinds'
    <3>1. job[t].pc = "sync"
      BY <1>3 DEF Sync
    <3>2. p \in Projects /\ project \in [Projects -> Strategies \cup {"absent", "removed"}]
      BY <3>1 DEF TypeOK, Placed
    <3>3. job[t].strategy = project[p] /\ job[t].port = NoPort
      BY <1>a, <3>1 DEF KindOf, Owner, Preparing
    <3>4. project'[p] = s /\ \A r \in Projects \ {p} : project'[r] = project[r]
      BY <2>2, <3>2, <3>3 DEF Exists, Strategies
    <3>5. project[p] = "container" => project'[p] = "container"
      BY <2>2, <3>2, <3>3, <3>4
    <3>6. /\ Others(t) /\ job'[t].pc = pc /\ job'[t].proj = p
          /\ job'[t].port = NoPort /\ job'[t].image = job[t].image
      BY <2>2, <3>3, SyncIs
    <3>7. job[t].image => project[p] = "container"
      BY <1>a, <3>1 DEF KindOf, Working, JobPcs
    <3>8. KindOf(t)'
      BY <2>2, <3>4, <3>5, <3>6, <3>7 DEF KindOf, Working, JobPcs, Switched
    <3>9. RowKinds'
      <4> SUFFICES ASSUME NEW e \in Ids, rows[e].port # NoPort \/ rows[e].image
                   PROVE  project'[rows[e].project] = "container"
        BY <2>2 DEF RowKinds
      <4>1. project[rows[e].project] = "container"
        BY DEF Kinds, RowKinds
      <4>2. CASE rows[e].project = p
        BY <3>5, <4>1, <4>2
      <4>3. CASE rows[e].project # p
        <5>1. CASE project' = project
          BY <4>1, <5>1
        <5>2. CASE project' = [project EXCEPT ![p] = s]
          <6>1. rows[e].project \in Projects \cup {NoProject}
            BY DEF TypeOK, Row
          <6>2. CASE rows[e].project \in Projects
            BY <4>1, <4>3, <3>4, <6>2
          <6>3. CASE rows[e].project = NoProject
            BY <6>3, NoProjectAssumption, SomeProject
          <6> QED BY <6>1, <6>2, <6>3
        <5> QED BY <2>2, <5>1, <5>2
      <4> QED BY <4>2, <4>3
    <3> QED BY <1>u, <3>2, <3>4, <3>6, <3>8, <3>9, NoProjectAssumption, KindsFrom
  <2> QED BY <1>3, <2>1, <2>2 DEF Sync
<1>4. CASE Publish(t) \/ Insert(t) \/ Health(t) \/ Flip(t)
  BY <1>4, <1>f, <1>g DEF Publish, Insert, Health, Flip, Preparing
<1>5. CASE Build(t)
  <2>1. CASE Fail(t)
    BY <1>5, <1>f, <2>1 DEF Build, Preparing
  <2>2. ASSUME Becomes(t, [job[t] EXCEPT !.pc = "scan", !.image = TRUE]), UNCHANGED rows
        PROVE  Kinds'
    <3>1. job[t].pc = "build" /\ UNCHANGED project
      BY <1>5 DEF Build
    <3>2. /\ Others(t) /\ job'[t].pc = "scan" /\ job'[t].proj = p
          /\ job'[t].port = job[t].port /\ job'[t].image = TRUE
      BY <2>2, BuildIs
    <3>3. KindOf(t)'
      BY <1>a, <3>1, <3>2 DEF KindOf, Working, JobPcs, Switched
    <3> QED BY <2>2, <3>1, <3>2, <3>3, QuietKinds
  <2> QED BY <1>5, <2>1, <2>2 DEF Build
<1>6. CASE Scan(t)
  <2>1. CASE Fail(t)
    BY <1>6, <1>f, <2>1 DEF Scan, Preparing
  <2>2. ASSUME NEW q, Becomes(t, IF alloc[q] = Free THEN [job[t] EXCEPT !.pc = "insert"]
                                                    ELSE [job[t] EXCEPT !.cursor = q + 1]),
               UNCHANGED rows
        PROVE  Kinds'
    <3>1. job[t].pc = "scan" /\ UNCHANGED project
      BY <1>6 DEF Scan
    <3>2. /\ Others(t) /\ job'[t].pc \in {"scan", "insert"} /\ job'[t].proj = job[t].proj
          /\ job'[t].port = job[t].port /\ job'[t].image = job[t].image
      BY <2>2, <3>1, ScanIs
    <3> PICK pc \in {"scan", "insert"} : pc = job'[t].pc
      BY <3>2
    <3> QED BY <1>m, <2>2, <3>1, <3>2
  <2> PICK q : q = job[t].cursor
    OBVIOUS
  <2> QED BY <1>6, <2>1, <2>2 DEF Scan
<1>7. CASE Run(t)
  <2>1. CASE Fail(t)
    BY <1>7, <1>f, <2>1 DEF Run, Preparing
  <2>2. ASSUME NEW q,
               Becomes(t, [job[t] EXCEPT !.pc = "health", !.port = q, !.image = TRUE, !.cursor = 0]),
               UNCHANGED rows
        PROVE  Kinds'
    <3>1. job[t].pc = "run" /\ UNCHANGED project
      BY <1>7 DEF Run
    <3>2. /\ Others(t) /\ job'[t].pc = "health" /\ job'[t].proj = p
      BY <2>2, RunIs
    <3>3. KindOf(t)'
      BY <1>a, <3>1, <3>2 DEF KindOf, Working, JobPcs, Switched
    <3> QED BY <2>2, <3>1, <3>2, <3>3, QuietKinds
  <2> PICK q : q = job[t].cursor
    OBVIOUS
  <2> QED BY <1>7, <2>1, <2>2 DEF Run
<1>8. CASE ReadSites(t)
  <2>1. UNCHANGED <<rows, project>>
    BY <1>8 DEF ReadSites
  <2>2. ASSUME job[t].pc = "reload", Becomes(t, [job[t] EXCEPT !.pc = "install", !.snap = site])
        PROVE  Kinds'
    BY <1>m, <2>1, <2>2, SnapIs DEF Switched
  <2>3. ASSUME job[t].pc = "rmReload", Becomes(t, [job[t] EXCEPT !.pc = "rmInstall", !.snap = site])
        PROVE  Kinds'
    <3>1. /\ Others(t) /\ job'[t].pc = "rmInstall" /\ job'[t].proj = job[t].proj
          /\ job'[t].port = job[t].port /\ job'[t].image = job[t].image
      BY <2>3, SnapIs
    <3>2. "rmInstall" \notin Working
      BY DEF Working, JobPcs
    <3> QED BY <1>m, <2>1, <2>3, <3>1, <3>2
  <2> QED BY <1>8, <2>2, <2>3 DEF ReadSites
<1>9. CASE Install(t)
  <2>1. UNCHANGED <<rows, project>>
    BY <1>9 DEF Install
  <2>2. ASSUME NEW pc, Becomes(t, [job[t] EXCEPT !.pc = pc, !.snap = NoSites]),
               \/ job[t].pc = "install" /\ pc = "succeed"
               \/ job[t].pc = "install" /\ pc = "list"
               \/ job[t].pc = "rmInstall" /\ pc = "rmRow"
        PROVE  Kinds'
    BY <1>m, <2>1, <2>2, SnapIs DEF Switched, Working, JobPcs
  <2> QED BY <1>9, <2>2 DEF Install, Installed
<1>10. CASE List(t)
  <2>0. PICK ds : /\ job[t].pc = "list" /\ UNCHANGED <<rows, project>>
                  /\ Becomes(t, [job[t] EXCEPT
                       !.pc = IF ds = {} THEN "succeed" ELSE "drainContainer",
                       !.todo = {[id |-> e, port |-> rows[e].port, image |-> rows[e].image] : e \in ds}])
    BY <1>10 DEF List
  <2>c. PICK cs : cs = {[id |-> e, port |-> rows[e].port, image |-> rows[e].image] : e \in ds}
    OBVIOUS
  <2>p. PICK pc : pc = IF ds = {} THEN "succeed" ELSE "drainContainer"
    OBVIOUS
  <2>1. job[t].pc = "list" /\ UNCHANGED <<rows, project>> /\ pc \in {"succeed", "drainContainer"}
    BY <2>0, <2>p
  <2>2. /\ Others(t) /\ job'[t].pc = pc /\ job'[t].proj = job[t].proj
        /\ job'[t].port = job[t].port /\ job'[t].image = job[t].image
    <3>1. Becomes(t, [job[t] EXCEPT !.pc = pc, !.todo = cs])
      BY <2>0, <2>c, <2>p, Zenon
    <3>2. Others(t) /\ job'[t] = [job[t] EXCEPT !.pc = pc, !.todo = cs]
      BY <3>1, BecomesIs
    <3> QED BY <1>a, <3>2 DEF Job
  <2> QED BY <1>m, <2>1, <2>2 DEF Switched
<1>11. CASE DrainContainer(t) \/ DrainPort(t) \/ StopContainer(t) \/ RemoveContainer(t)
            \/ RemovePort(t) \/ RemoveSite(t) \/ Done(t)
  BY <1>11, <1>g, <1>r DEF DrainContainer, DrainPort, StopContainer, RemoveContainer, RemovePort,
     RemoveSite, Done, Switched, Working, JobPcs
<1>12. CASE DrainRow(t)
  <2>1. job[t].pc = "drainRow" /\ UNCHANGED project
    BY <1>12 DEF DrainRow
  <2>2. PICK c \in Draining(t) : rows' = Written(c.id, "stopped", c.port, c.image)
    BY <1>12 DEF DrainRow
  <2>3. Others(t) /\ job'[t].pc \in {"succeed", "drainContainer"}
        /\ job'[t].proj = p /\ job'[t].port = job[t].port /\ job'[t].image = job[t].image
    <3>1. PICK c1, pc : /\ pc \in {"succeed", "drainContainer"}
                        /\ Becomes(t, [job[t] EXCEPT !.todo = @ \ {c1}, !.pc = pc])
      BY <1>12 DEF DrainRow
    <3>2. Others(t) /\ job'[t] = [job[t] EXCEPT !.todo = @ \ {c1}, !.pc = pc]
      BY <3>1, BecomesIs
    <3> QED BY <1>a, <3>1, <3>2 DEF Job
  <2>4. Copies(t)
    BY DEF Ownership
  <2>5. c.id \in Ids /\ rows[c.id].project = p /\ rows[c.id].port = c.port /\ rows[c.id].image = c.image
    BY <1>a, <2>4 DEF Draining, Job, Copy, Copies
  <2>6. p \in Projects
    BY <2>1 DEF TypeOK, Placed
  <2>7. Present(c.id)
    BY <2>5, <2>6, NoProjectAssumption DEF Ownership, FreshRows
  <2>8. /\ rows'[c.id].project = p
        /\ rows'[c.id].port = rows[c.id].port /\ rows'[c.id].image = rows[c.id].image
        /\ \A e \in Ids \ {c.id} : rows'[e] = rows[e]
    BY <2>2, <2>5, <2>7, WrittenIs
  <2>9. RowKinds'
    BY <2>1, <2>5, <2>8, RowKindsFrom DEF Kinds, RowKinds
  <2>10. KindOf(t)'
    BY <1>a, <2>1, <2>3 DEF KindOf, Working, JobPcs, Switched
  <2> QED BY <1>u, <2>1, <2>3, <2>6, <2>9, <2>10, NoProjectAssumption, KindsFrom
<1>13. CASE Succeed(t) \/ StopRow(t)
  <2>0. PICK s : rows' = Written(d, s, job[t].port, job[t].image)
    BY <1>13 DEF Succeed, StopRow
  <2>1. job[t].pc \in {"succeed", "stopRow"} /\ UNCHANGED project
    BY <1>13 DEF Succeed, StopRow
  <2>2. p \in Projects /\ d \in Ids /\ Present(d) /\ rows[d].project = p
    BY <2>1, OwnRow DEF Working, JobPcs, Requests
  <2>3. /\ rows'[d].project = p
        /\ rows'[d].port = job[t].port /\ rows'[d].image = job[t].image
        /\ \A e \in Ids \ {d} : rows'[e] = rows[e]
    BY <2>0, <2>2, WrittenIs
  <2>4. job[t].port # NoPort \/ job[t].image => project[p] = "container"
    <3>1. CASE job[t].pc = "succeed"
      BY <1>a, <3>1 DEF KindOf, Working, JobPcs, Switched
    <3>2. CASE job[t].pc = "stopRow"
      BY <1>a, <2>2, <3>2 DEF Owner, Requests, Kinds, RowKinds
    <3> QED BY <2>1, <3>1, <3>2
  <2>5. RowKinds'
    BY <2>1, <2>2, <2>3, <2>4, RowKindsFrom
  <2>6. Others(t) /\ job'[t].pc \in {"done", "idle"}
    BY <1>13, GotoIs, ReturnIs, IdleIs DEF Succeed, StopRow
  <2>7. KindOf(t)'
    BY <2>6 DEF KindOf, Working, JobPcs, Switched
  <2> QED BY <1>u, <2>1, <2>2, <2>5, <2>6, <2>7, NoProjectAssumption, KindsFrom
<1>14. CASE RemoveRow(t)
  <2>0. /\ job[t].pc = "rmRow" /\ project' = [project EXCEPT ![p] = "removed"]
        /\ rows' = [e \in Ids |-> IF e \in RowsOf(p) THEN NoRow ELSE rows[e]]
    BY <1>14 DEF RemoveRow
  <2>1. p \in Projects /\ project \in [Projects -> Strategies \cup {"absent", "removed"}]
    BY <2>0 DEF TypeOK, Placed
  <2>2. Others(t) /\ job'[t] = Idle
    BY <1>14, ReturnIs DEF RemoveRow
  <2>3. KindOf(t)'
    BY <2>2, IdleIs DEF KindOf, Working, JobPcs, Switched
  <2>4. RowKinds'
    <3> SUFFICES ASSUME NEW e \in Ids, rows'[e].port # NoPort \/ rows'[e].image
                 PROVE  project'[rows'[e].project] = "container"
      BY DEF RowKinds
    <3>1. e \notin RowsOf(p) /\ rows'[e] = rows[e]
      BY <2>0 DEF NoRow
    <3>2. rows[e].project # p /\ rows[e].project \in Projects \cup {NoProject}
      BY <3>1 DEF RowsOf, TypeOK, Row
    <3>3. rows[e].project # NoProject
      BY <3>1, NoProjectAssumption, SomeProject
    <3> QED BY <2>0, <2>1, <3>1, <3>2, <3>3 DEF Kinds, RowKinds
  <2>5. \A r \in Projects \ {p} : project'[r] = project[r]
    BY <2>0, <2>1
  <2> QED BY <1>u, <2>1, <2>2, <2>3, <2>4, <2>5, NoProjectAssumption, KindsFrom
<1> QED
  BY <1>1, <1>2, <1>3, <1>4, <1>5, <1>6, <1>7, <1>8, <1>9, <1>10, <1>11, <1>12, <1>13, <1>14
  DEF Step

(* A request of a careful operator, a crash, a new project, and what has   *)
(* nothing to do with projects or rows.                                    *)
LEMMA KindsIdle ==
  ASSUME Kinds, UNCHANGED <<rows, project>>,
         \A t \in Procs : job'[t] = job[t] \/ job'[t].pc \notin Working
  PROVE  Kinds'
<1>1. RowKinds'
  BY DEF Kinds, RowKinds
<1>2. ASSUME NEW t \in Procs PROVE KindOf(t)'
  <2>1. CASE job'[t] = job[t]
    BY <2>1 DEF Kinds, KindOf
  <2>2. CASE job'[t].pc \notin Working
    BY <2>2 DEF KindOf, Working, JobPcs, Switched
  <2> QED BY <2>1, <2>2
<1> QED BY <1>1, <1>2 DEF Kinds

LEMMA KindsCreate ==
  ASSUME TypeOK, Ownership, Kinds, NEW p \in Projects, CreateProject(p)
  PROVE  Kinds'
<1> USE DEF db, host, edge
<1>1. /\ project[p] = "absent" /\ UNCHANGED <<rows, job>>
      /\ \A r \in Projects \ {p} : project'[r] = project[r]
  BY DEF CreateProject, TypeOK
<1>2. RowKinds'
  <2> SUFFICES ASSUME NEW d \in Ids, rows[d].port # NoPort \/ rows[d].image
               PROVE  project'[rows[d].project] = "container"
    BY <1>1 DEF RowKinds
  <2>1. project[rows[d].project] = "container" /\ rows[d].project \in Projects
    BY SomeProject DEF Kinds, RowKinds
  <2> QED BY <1>1, <2>1
<1>3. ASSUME NEW t \in Procs PROVE KindOf(t)'
  <2> PICK j \in Job : j = job[t]
    BY DEF TypeOK
  <2>1. job'[t] = j /\ Placed(j) /\ KindOf(t)
    BY <1>1 DEF TypeOK, Kinds
  <2>2. CASE j.pc = "idle"
    BY <2>1, <2>2 DEF KindOf, Working, JobPcs, Switched
  <2>3. CASE j.proj \in Projects \ {p}
    BY <1>1, <2>1, <2>3 DEF KindOf
  <2>4. CASE j.proj = p
    <3>1. ~(j.pc \in {"build", "scan", "insert", "run", "health", "flip"} \cup Switched)
      BY <1>1, <2>1, <2>4 DEF KindOf
    <3>2. j.pc # "publish" /\ (j.pc = "sync" => ~j.image /\ j.strategy = "absent")
      BY <1>1, <2>1, <2>4 DEF KindOf, Working, JobPcs
    <3>3. j.pc # "sync"
      BY <3>2 DEF Job, Strategies
    <3> QED BY <2>1, <3>1, <3>2, <3>3 DEF KindOf, Working, JobPcs, Switched
  <2> QED BY <2>1, <2>2, <2>3, <2>4 DEF Placed
<1> QED BY <1>2, <1>3 DEF Kinds

-----------------------------------------------------------------------------
(* What each step does, in the variables the further layers speak of, one  *)
(* shape for the actions that do the same to them.                         *)
Kept(t) ==
  /\ Others(t)
  /\ job'[t].proj = job[t].proj /\ job'[t].id = job[t].id /\ job'[t].port = job[t].port
Held4(t) == Kept(t) /\ job'[t].todo = job[t].todo /\ job'[t].snap = job[t].snap
NoRowTouched == \A e \in Ids : rows'[e] = rows[e]
Saved(d, s, q) ==
  /\ d \in Ids /\ Present(d)
  /\ rows'[d].project = rows[d].project /\ rows'[d].status = s /\ rows'[d].port = q
  /\ \A e \in Ids \ {d} : rows'[e] = rows[e]

Passes(t) ==
  LET a == job[t].pc  b == job'[t].pc IN
  /\ Held4(t) /\ UNCHANGED <<rows, nextId, alloc, cont, cport, site, route>>
  /\ \/ a = "checked" /\ b = "begin"
     \/ a = "begin" /\ b = "done"
     \/ a = "sync" /\ b \in {"publish", "build"}
     \/ a = "build" /\ b = "scan"
     \/ a = "scan" /\ b \in {"scan", "insert"}
     \/ a = "health" /\ b = "flip" /\ Answers(job[t].port)
Fails(t) ==
  /\ Held4(t) /\ UNCHANGED <<nextId, alloc, cont, cport, site, route>>
  /\ job[t].pc \in (Preparing \cup {"health", "flip"}) \ {"run"} /\ job'[t].pc = "done"
  /\ Saved(job[t].id, "failed", job[t].port)
Creates(t) ==
  /\ Others(t) /\ UNCHANGED <<alloc, cont, cport, site, route>>
  /\ job'[t].proj = job[t].proj /\ job'[t].port = job[t].port /\ job'[t].todo = job[t].todo
  /\ job'[t].snap = job[t].snap
  /\ job[t].pc = "begin" /\ job'[t].pc \in {"sync", "scan"}
  /\ nextId \in Ids /\ job'[t].id = nextId /\ nextId' = nextId + 1
  /\ rows'[nextId].project = job[t].proj /\ rows'[nextId].status = "building"
  /\ rows'[nextId].port = NoPort
  /\ \A e \in Ids \ {nextId} : rows'[e] = rows[e]
Routes(t) ==
  /\ Held4(t) /\ UNCHANGED <<rows, nextId, alloc, cont, cport, route>>
  /\ job[t].pc \in {"publish", "flip"} /\ job'[t].pc = "reload"
  /\ site' = [site EXCEPT ![job[t].proj] = job[t].port]
Inserts(t) ==
  /\ Held4(t) /\ UNCHANGED <<rows, nextId, cont, cport, site, route>>
  /\ job[t].pc = "insert" /\ job'[t].pc = "run" /\ job'[t].cursor = job[t].cursor
  /\ alloc[job[t].cursor] = Free
  /\ alloc' = [alloc EXCEPT ![job[t].cursor] = job[t].id]
Runs(t) ==
  /\ Others(t) /\ UNCHANGED <<rows, nextId, alloc, site, route>>
  /\ job'[t].proj = job[t].proj /\ job'[t].id = job[t].id /\ job'[t].port = job[t].cursor
  /\ job'[t].todo = job[t].todo /\ job'[t].snap = job[t].snap
  /\ job[t].pc = "run" /\ job'[t].pc = "health"
  /\ job[t].cursor \notin Listening
  /\ cont' = [cont EXCEPT ![job[t].id] = "starting"]
  /\ cport' = [cport EXCEPT ![job[t].id] = job[t].cursor]
RunFails(t) ==
  /\ Held4(t) /\ UNCHANGED <<nextId, site, route>>
  /\ job[t].pc = "run" /\ job'[t].pc = "done"
  /\ alloc' = Released(job[t].cursor)
  /\ Saved(job[t].id, "failed", job[t].port)
  /\ \/ UNCHANGED <<cont, cport>>
     \/ /\ AgentFaults /\ job[t].cursor \notin Listening
        /\ cont' = [cont EXCEPT ![job[t].id] = "starting"]
        /\ cport' = [cport EXCEPT ![job[t].id] = job[t].cursor]
Reads(t) ==
  /\ Kept(t) /\ job'[t].todo = job[t].todo
  /\ UNCHANGED <<rows, nextId, alloc, cont, cport, site, route>>
  /\ \/ job[t].pc = "reload" /\ job'[t].pc = "install"
     \/ job[t].pc = "rmReload" /\ job'[t].pc = "rmInstall"
  /\ job'[t].snap = site
Installs(t) ==
  /\ Kept(t) /\ job'[t].todo = job[t].todo
  /\ UNCHANGED <<rows, nextId, alloc, cont, cport, site>>
  /\ \/ job[t].pc = "install" /\ job[t].port = NoPort /\ job'[t].pc = "succeed"
     \/ job[t].pc = "install" /\ job[t].port # NoPort /\ job'[t].pc = "list"
     \/ job[t].pc = "rmInstall" /\ job'[t].pc = "rmRow"
  /\ route' = job[t].snap
Lists(t) ==
  /\ Kept(t) /\ job'[t].snap = job[t].snap
  /\ UNCHANGED <<rows, nextId, alloc, cont, cport, site, route>>
  /\ job[t].pc = "list" /\ job'[t].pc \in {"succeed", "drainContainer"}
DrainsContainer(t) ==
  /\ Held4(t) /\ UNCHANGED <<rows, nextId, alloc, cport, site, route>>
  /\ job[t].pc = "drainContainer" /\ job'[t].pc = "drainPort"
  /\ \E c \in Draining(t) : AgentRemove(c.id)
DrainsPort(t) ==
  /\ Held4(t) /\ UNCHANGED <<rows, nextId, cont, cport, site, route>>
  /\ job[t].pc = "drainPort" /\ job'[t].pc = "drainRow"
  /\ \E c \in Draining(t) : alloc' = Released(c.port)
DrainsRow(t) ==
  /\ Kept(t) /\ job'[t].snap = job[t].snap
  /\ UNCHANGED <<nextId, alloc, cont, cport, site, route>>
  /\ job[t].pc = "drainRow" /\ job'[t].pc \in {"succeed", "drainContainer"}
  /\ \E c \in Draining(t) : Saved(c.id, "stopped", c.port)
Succeeds(t) ==
  /\ Held4(t) /\ UNCHANGED <<nextId, alloc, cont, cport, site, route>>
  /\ job[t].pc = "succeed" /\ job'[t].pc = "done"
  /\ Saved(job[t].id, "running", job[t].port)
Leaves(t) ==
  /\ Others(t) /\ job'[t] = Idle
  /\ UNCHANGED <<rows, nextId, alloc, cont, cport, site, route>>
  /\ job[t].pc \in {"done", "stopContainer"}
Stops(t) ==
  /\ Held4(t) /\ UNCHANGED <<rows, nextId, alloc, cport, site, route>>
  /\ job[t].pc = "stopContainer" /\ job'[t].pc = "stopRow"
  /\ cont' = [cont EXCEPT ![job[t].id] = "stopped"]
StopsRow(t) ==
  /\ Others(t) /\ job'[t] = Idle
  /\ UNCHANGED <<nextId, alloc, cont, cport, site, route>>
  /\ job[t].pc = "stopRow"
  /\ Saved(job[t].id, "stopped", job[t].port)
RemovesContainer(t) ==
  /\ Held4(t) /\ UNCHANGED <<rows, nextId, alloc, cport, site, route>>
  /\ job[t].pc = "rmContainer" /\ job'[t].pc = "rmPort"
  /\ AgentRemove(job[t].id)
RemovesPort(t) ==
  /\ Held4(t) /\ UNCHANGED <<rows, nextId, cont, cport, site, route>>
  /\ job[t].pc = "rmPort" /\ job'[t].pc = "rmSite"
  /\ alloc' = Released(job[t].port)
RemovesSite(t) ==
  /\ Held4(t) /\ UNCHANGED <<rows, nextId, alloc, cont, cport, route>>
  /\ job[t].pc = "rmSite" /\ job'[t].pc = "rmReload"
  /\ site' = [site EXCEPT ![job[t].proj] = NoSite]
RemovesRow(t) ==
  /\ Others(t) /\ job'[t] = Idle
  /\ UNCHANGED <<nextId, cont, cport, site, route>>
  /\ job[t].pc = "rmRow"
  /\ rows' = [d \in Ids |-> IF d \in RowsOf(job[t].proj) THEN NoRow ELSE rows[d]]
  /\ alloc' = Orphaned(RowsOf(job[t].proj))

Shape(t) ==
  \/ Passes(t) \/ Fails(t) \/ Creates(t) \/ Routes(t) \/ Inserts(t) \/ Runs(t) \/ RunFails(t)
  \/ Reads(t) \/ Installs(t) \/ Lists(t) \/ DrainsContainer(t) \/ DrainsPort(t) \/ DrainsRow(t)
  \/ Succeeds(t) \/ Leaves(t) \/ Stops(t) \/ StopsRow(t) \/ RemovesContainer(t) \/ RemovesPort(t)
  \/ RemovesSite(t) \/ RemovesRow(t)

LEMMA GotoKept ==
  ASSUME TypeOK, NEW t \in Procs, NEW pc, Goto(t, pc)
  PROVE  Held4(t) /\ job'[t].pc = pc /\ job'[t].cursor = job[t].cursor
BY GotoIs DEF Like, Held4, Kept

LEMMA FailSaves ==
  ASSUME TypeOK, Ownership, NEW t \in Procs, job[t].pc \in Preparing \cup {"health", "flip"}, Fail(t)
  PROVE  Held4(t) /\ job'[t].pc = "done" /\ Saved(job[t].id, "failed", job[t].port)
<1>1. job[t].id \in Ids /\ Present(job[t].id)
  BY OwnRow DEF Working, JobPcs, Preparing
<1> QED BY <1>1, FailIs DEF Held4, Kept, Saved

LEMMA StepShape ==
  ASSUME TypeOK, Ownership, NEW t \in Procs, Step(t)
  PROVE  Shape(t)
<1> USE DEF db, host, edge
<1> PICK p : p = job[t].proj
  OBVIOUS
<1> PICK d : d = job[t].id
  OBVIOUS
<1>a. Owner(t) /\ Copies(t) /\ job[t] \in Job
  BY DEF Ownership, TypeOK
<1>1. CASE Start(t) \/ Refuse(t)
  <2>1. Passes(t)
    BY <1>1, GotoKept DEF Start, Refuse, Passes
  <2> QED BY <2>1 DEF Shape
<1>2. CASE Begin(t)
  <2>1. PICK pc \in {"sync", "scan"} : CreateDeployment(t, pc)
    BY <1>2 DEF Begin
  <2>2. Creates(t)
    BY <1>2, <2>1, CreateIs DEF Begin, Creates
  <2> QED BY <2>2 DEF Shape
<1>f. ASSUME job[t].pc \in (Preparing \cup {"health", "flip"}) \ {"run"}, Fail(t),
             UNCHANGED <<nextId, alloc, cont, cport, site, route>>
      PROVE  Shape(t)
  <2>1. Fails(t)
    BY <1>f, FailSaves DEF Fails
  <2> QED BY <2>1 DEF Shape
<1>3. CASE Sync(t)
  <2>1. job[t].pc = "sync" /\ UNCHANGED <<nextId, alloc, cont, cport, site, route>>
    BY <1>3 DEF Sync
  <2>2. CASE Fail(t)
    BY <1>f, <2>1, <2>2 DEF Preparing
  <2>3. ASSUME NEW pc \in {"publish", "build"},
               Becomes(t, [job[t] EXCEPT !.pc = pc, !.strategy = "auto"]), UNCHANGED rows
        PROVE  Shape(t)
    <3>1. Passes(t)
      BY <2>1, <2>3, SyncIs DEF Passes, Held4, Kept
    <3> QED BY <3>1 DEF Shape
  <2> QED BY <1>3, <2>2, <2>3 DEF Sync
<1>4. CASE Publish(t) \/ Flip(t)
  <2>1. job[t].pc \in {"publish", "flip"} /\ UNCHANGED <<nextId, alloc, cont, cport, route>>
    BY <1>4 DEF Publish, Flip
  <2>2. CASE Fail(t) /\ UNCHANGED site
    BY <1>f, <2>1, <2>2 DEF Preparing
  <2>3. ASSUME Goto(t, "reload"), UNCHANGED rows,
               \/ job[t].pc = "publish" /\ site' = [site EXCEPT ![job[t].proj] = StaticRoot]
               \/ job[t].pc = "flip" /\ site' = [site EXCEPT ![job[t].proj] = job[t].port]
        PROVE  Shape(t)
    <3>1. job[t].pc = "publish" => job[t].port = StaticRoot
      BY <1>a DEF Owner, Preparing, NoPort, StaticRoot
    <3>2. site' = [site EXCEPT ![job[t].proj] = job[t].port]
      BY <2>3, <3>1
    <3>3. Routes(t)
      BY <2>1, <2>3, <3>2, GotoKept DEF Routes
    <3> QED BY <3>3 DEF Shape
  <2> QED BY <1>4, <2>2, <2>3 DEF Publish, Flip
<1>5. CASE Build(t)
  <2>1. job[t].pc = "build" /\ UNCHANGED <<nextId, alloc, cont, cport, site, route>>
    BY <1>5 DEF Build
  <2>2. CASE Fail(t)
    BY <1>f, <2>1, <2>2 DEF Preparing
  <2>3. CASE Becomes(t, [job[t] EXCEPT !.pc = "scan", !.image = TRUE]) /\ UNCHANGED rows
    <3>1. Passes(t)
      BY <2>1, <2>3, BuildIs DEF Passes, Held4, Kept
    <3> QED BY <3>1 DEF Shape
  <2> QED BY <1>5, <2>2, <2>3 DEF Build
<1>6. CASE Scan(t)
  <2>1. job[t].pc = "scan" /\ UNCHANGED <<nextId, alloc, cont, cport, site, route>>
    BY <1>6 DEF Scan
  <2>2. CASE Fail(t)
    BY <1>f, <2>1, <2>2 DEF Preparing
  <2>3. ASSUME NEW q, Becomes(t, IF alloc[q] = Free THEN [job[t] EXCEPT !.pc = "insert"]
                                                    ELSE [job[t] EXCEPT !.cursor = q + 1]),
               UNCHANGED rows
        PROVE  Shape(t)
    <3>1. Held4(t) /\ job'[t].pc \in {"scan", "insert"}
      BY <2>1, <2>3, ScanIs DEF Held4, Kept
    <3>2. Passes(t)
      BY <2>1, <2>3, <3>1 DEF Passes
    <3> QED BY <3>2 DEF Shape
  <2> PICK q : q = job[t].cursor
    OBVIOUS
  <2> QED BY <1>6, <2>2, <2>3 DEF Scan
<1>7. CASE Insert(t)
  <2>1. CASE Fail(t) /\ UNCHANGED alloc
    BY <1>7, <1>f, <2>1 DEF Insert, Preparing
  <2>2. CASE /\ alloc[job[t].cursor] = Free /\ Goto(t, "run") /\ UNCHANGED rows
             /\ alloc' = [alloc EXCEPT ![job[t].cursor] = job[t].id]
    <3>1. Inserts(t)
      BY <1>7, <2>2, GotoKept DEF Insert, Inserts
    <3> QED BY <3>1 DEF Shape
  <2> QED BY <1>7, <2>1, <2>2 DEF Insert
<1>8. CASE Run(t)
  <2>1. job[t].pc = "run" /\ UNCHANGED <<nextId, site, route>>
    BY <1>8 DEF Run
  <2>2. CASE Fail(t) /\ alloc' = Released(job[t].cursor)
    <3>1. Held4(t) /\ job'[t].pc = "done" /\ Saved(job[t].id, "failed", job[t].port)
      BY <2>1, <2>2, FailSaves DEF Preparing
    <3>2. RunFails(t)
      <4>1. ~ \E q : Becomes(t, [job[t] EXCEPT !.pc = "health", !.port = q, !.image = TRUE, !.cursor = 0])
        BY <3>1, RunIs
      <4> QED BY <1>8, <2>1, <2>2, <3>1, <4>1 DEF Run, RunFails
    <3> QED BY <3>2 DEF Shape
  <2>3. ASSUME NEW q, q = job[t].cursor, q \notin Listening,
               cont' = [cont EXCEPT ![d] = "starting"], cport' = [cport EXCEPT ![d] = q],
               Becomes(t, [job[t] EXCEPT !.pc = "health", !.port = q, !.image = TRUE, !.cursor = 0]),
               UNCHANGED <<rows, alloc>>
        PROVE  Shape(t)
    <3>1. Runs(t)
      BY <2>1, <2>3, RunIs DEF Runs
    <3> QED BY <3>1 DEF Shape
  <2> PICK q : q = job[t].cursor
    OBVIOUS
  <2> QED BY <1>8, <2>2, <2>3 DEF Run
<1>9. CASE Health(t)
  <2>1. CASE Fail(t)
    BY <1>9, <1>f, <2>1 DEF Health
  <2>2. CASE Answers(job[t].port) /\ Goto(t, "flip") /\ UNCHANGED rows
    <3>1. Passes(t)
      BY <1>9, <2>2, GotoKept DEF Health, Passes
    <3> QED BY <3>1 DEF Shape
  <2> QED BY <1>9, <2>1, <2>2 DEF Health
<1>10. CASE ReadSites(t)
  <2>1. ASSUME NEW pc, Becomes(t, [job[t] EXCEPT !.pc = pc, !.snap = site]),
               \/ job[t].pc = "reload" /\ pc = "install"
               \/ job[t].pc = "rmReload" /\ pc = "rmInstall"
        PROVE  Shape(t)
    <3>1. Kept(t) /\ job'[t].pc = pc /\ job'[t].todo = job[t].todo /\ job'[t].snap = site
      <4>1. Others(t) /\ job'[t] = [job[t] EXCEPT !.pc = pc, !.snap = site]
        BY <2>1, BecomesIs
      <4> QED BY <1>a, <4>1 DEF Job, Kept
    <3>2. UNCHANGED <<rows, nextId, alloc, cont, cport, site, route>>
      BY <1>10 DEF ReadSites
    <3>3. Reads(t)
      BY <2>1, <3>1, <3>2 DEF Reads
    <3> QED BY <3>3 DEF Shape
  <2> QED BY <1>10, <2>1 DEF ReadSites
<1>11. CASE Install(t)
  <2>1. ASSUME NEW pc, Becomes(t, [job[t] EXCEPT !.pc = pc, !.snap = NoSites]), route' = job[t].snap,
               \/ job[t].pc = "install" /\ pc = IF job[t].port = NoPort THEN "succeed" ELSE "list"
               \/ job[t].pc = "rmInstall" /\ pc = "rmRow"
        PROVE  Shape(t)
    <3>1. Installs(t)
      BY <1>11, <2>1, SnapIs DEF Install, Installs, Kept
    <3> QED BY <3>1 DEF Shape
  <2> QED BY <1>11, <2>1 DEF Install, Installed
<1>12. CASE List(t)
  <2>0. PICK ds : /\ job[t].pc = "list" /\ UNCHANGED <<rows, nextId, alloc, cont, cport, site, route>>
                  /\ Becomes(t, [job[t] EXCEPT
                       !.pc = IF ds = {} THEN "succeed" ELSE "drainContainer",
                       !.todo = {[id |-> e, port |-> rows[e].port, image |-> rows[e].image] : e \in ds}])
    BY <1>12 DEF List
  <2>c. PICK cs : cs = {[id |-> e, port |-> rows[e].port, image |-> rows[e].image] : e \in ds}
    OBVIOUS
  <2>p. PICK pc : pc = IF ds = {} THEN "succeed" ELSE "drainContainer"
    OBVIOUS
  <2>1. Becomes(t, [job[t] EXCEPT !.pc = pc, !.todo = cs])
    BY <2>0, <2>c, <2>p, Zenon
  <2>2. Others(t) /\ job'[t] = [job[t] EXCEPT !.pc = pc, !.todo = cs]
    BY <2>1, BecomesIs
  <2>3. Kept(t) /\ job'[t].snap = job[t].snap /\ job'[t].pc \in {"succeed", "drainContainer"}
    BY <1>a, <2>2, <2>p DEF Job, Kept
  <2>4. Lists(t)
    BY <2>0, <2>3 DEF Lists
  <2> QED BY <2>4 DEF Shape
<1>13. CASE DrainContainer(t)
  <2>1. DrainsContainer(t)
    BY <1>13, GotoKept DEF DrainContainer, DrainsContainer
  <2> QED BY <2>1 DEF Shape
<1>14. CASE DrainPort(t)
  <2>1. DrainsPort(t)
    BY <1>14, GotoKept DEF DrainPort, DrainsPort
  <2> QED BY <2>1 DEF Shape
<1>15. CASE DrainRow(t)
  <2>0. job[t].pc = "drainRow" /\ UNCHANGED <<nextId, alloc, cont, cport, site, route>>
    BY <1>15 DEF DrainRow
  <2>1. PICK c \in Draining(t), pc \in {"succeed", "drainContainer"} :
          /\ rows' = Written(c.id, "stopped", c.port, c.image)
          /\ Becomes(t, [job[t] EXCEPT !.todo = @ \ {c}, !.pc = pc])
    BY <1>15 DEF DrainRow
  <2>2. Others(t) /\ job'[t] = [job[t] EXCEPT !.todo = @ \ {c}, !.pc = pc]
    BY <2>1, BecomesIs
  <2>3. Kept(t) /\ job'[t].snap = job[t].snap /\ job'[t].pc \in {"succeed", "drainContainer"}
    BY <1>a, <2>2 DEF Job, Kept
  <2>4. c.id \in Ids /\ rows[c.id].project = p
    BY <1>a DEF Draining, Job, Copy, Copies
  <2>5. Present(c.id)
    <3>1. p \in Projects
      BY <2>0 DEF TypeOK, Placed
    <3> QED BY <2>4, <3>1, NoProjectAssumption DEF Ownership, FreshRows
  <2>6. Saved(c.id, "stopped", c.port)
    BY <2>1, <2>4, <2>5, WrittenIs DEF Saved
  <2>7. DrainsRow(t)
    BY <2>0, <2>3, <2>6 DEF DrainsRow
  <2> QED BY <2>7 DEF Shape
<1>16. CASE Succeed(t)
  <2>1. job[t].pc = "succeed"
    BY <1>16 DEF Succeed
  <2>2. d \in Ids /\ Present(d)
    BY <2>1, OwnRow DEF Working, JobPcs
  <2>3. Saved(d, "running", job[t].port)
    BY <1>16, <2>2, WrittenIs DEF Succeed, Saved
  <2>4. Succeeds(t)
    BY <1>16, <2>3, GotoKept DEF Succeed, Succeeds
  <2> QED BY <2>4 DEF Shape
<1>17. CASE Done(t)
  <2>1. Leaves(t)
    BY <1>17, ReturnIs DEF Done, Leaves
  <2> QED BY <2>1 DEF Shape
<1>18. CASE StopContainer(t)
  <2>1. CASE Return(t) /\ UNCHANGED cont
    <3>1. Leaves(t)
      BY <1>18, <2>1, ReturnIs DEF StopContainer, Leaves
    <3> QED BY <3>1 DEF Shape
  <2>2. CASE Goto(t, "stopRow") /\ cont' = [cont EXCEPT ![job[t].id] = "stopped"]
    <3>1. Stops(t)
      BY <1>18, <2>2, GotoKept DEF StopContainer, Stops
    <3> QED BY <3>1 DEF Shape
  <2> QED BY <1>18, <2>1, <2>2 DEF StopContainer
<1>19. CASE StopRow(t)
  <2>1. job[t].pc = "stopRow"
    BY <1>19 DEF StopRow
  <2>2. d \in Ids /\ Present(d)
    BY <2>1, OwnRow DEF Requests
  <2>3. Saved(d, "stopped", job[t].port)
    BY <1>19, <2>2, WrittenIs DEF StopRow, Saved
  <2>4. StopsRow(t)
    BY <1>19, <2>3, ReturnIs DEF StopRow, StopsRow
  <2> QED BY <2>4 DEF Shape
<1>20. CASE RemoveContainer(t)
  <2>1. RemovesContainer(t)
    BY <1>20, GotoKept DEF RemoveContainer, RemovesContainer
  <2> QED BY <2>1 DEF Shape
<1>21. CASE RemovePort(t)
  <2>1. RemovesPort(t)
    BY <1>21, GotoKept DEF RemovePort, RemovesPort
  <2> QED BY <2>1 DEF Shape
<1>22. CASE RemoveSite(t)
  <2>1. RemovesSite(t)
    BY <1>22, GotoKept DEF RemoveSite, RemovesSite
  <2> QED BY <2>1 DEF Shape
<1>23. CASE RemoveRow(t)
  <2>1. RemovesRow(t)
    BY <1>23, ReturnIs DEF RemoveRow, RemovesRow
  <2> QED BY <2>1 DEF Shape
<1> QED
  BY <1>1, <1>2, <1>3, <1>4, <1>5, <1>6, <1>7, <1>8, <1>9, <1>10, <1>11, <1>12, <1>13,
     <1>14, <1>15, <1>16, <1>17, <1>18, <1>19, <1>20, <1>21, <1>22, <1>23
  DEF Step

(* ... and what a request does.                                            *)
Asked(t, p) ==
  /\ Others(t) /\ UNCHANGED <<rows, nextId, alloc, cont, cport, site, route>>
  /\ job[t].pc = "idle"
  /\ job'[t].proj = p /\ job'[t].todo = {} /\ job'[t].snap = NoSites
  /\ \/ job'[t].pc = "checked" /\ job'[t].port = NoPort
     \/ job'[t].pc = "rmSite"
     \/ job'[t].pc \in {"stopContainer", "rmContainer"} /\ job'[t].port # NoPort
     \/ job'[t].pc = "stopRow" /\ job'[t].port = NoPort

LEMMA AskShape ==
  ASSUME TypeOK, NEW t \in Procs, NEW p \in Projects, Ask(t, p)
  PROVE  Asked(t, p)
<1> USE DEF db, host, edge
<1>1. UNCHANGED <<rows, nextId, alloc, cont, cport, site, route>> /\ job[t].pc = "idle"
  BY DEF Ask, Trigger, RequestStop, RequestRemove
<1>2. ASSUME NEW pc \in {"checked", "rmSite"}, NEW op,
             Becomes(t, [Idle EXCEPT !.pc = pc, !.op = op, !.proj = p])
      PROVE  Asked(t, p)
  BY <1>1, <1>2, AskIs DEF Asked
<1>3. ASSUME NEW d \in Ids, NEW op, NEW pc, Copied(t, p, d, op, pc),
             \/ pc \in {"stopContainer", "rmContainer"} /\ rows[d].port # NoPort
             \/ pc \in {"stopRow", "rmSite"} /\ rows[d].port = NoPort
      PROVE  Asked(t, p)
  BY <1>1, <1>3, CopiedIs DEF Asked
<1>4. CASE Trigger(t, p)
  BY <1>2, <1>4 DEF Trigger
<1>5. CASE RequestStop(t, p)
  <2>1. PICK d \in Ids :
          Copied(t, p, d, "stop", IF rows[d].port # NoPort THEN "stopContainer" ELSE "stopRow")
    BY <1>5 DEF RequestStop
  <2>2. CASE rows[d].port # NoPort
    BY <1>3, <2>1, <2>2
  <2>3. CASE rows[d].port = NoPort
    BY <1>3, <2>1, <2>3
  <2> QED BY <2>2, <2>3
<1>6. CASE RequestRemove(t, p)
  <2>1. ASSUME NEW d \in Ids,
               Copied(t, p, d, "remove", IF rows[d].port # NoPort THEN "rmContainer" ELSE "rmSite")
        PROVE  Asked(t, p)
    <3>1. CASE rows[d].port # NoPort
      BY <1>3, <2>1, <3>1
    <3>2. CASE rows[d].port = NoPort
      BY <1>3, <2>1, <3>2
    <3> QED BY <3>1, <3>2
  <2> QED BY <1>2, <1>6, <2>1 DEF RequestRemove
<1> QED BY <1>4, <1>5, <1>6 DEF Ask

(* A goroutine that moves has a project to itself and touches no other     *)
(* project's rows.                                                         *)
LEMMA Mover ==
  ASSUME TypeOK, Ownership, NEW t \in Procs, job[t].pc # "idle"
  PROVE  job[t].proj \in Projects /\ \A u \in Procs \ {t} : job[u].proj # job[t].proj
BY NoProjectAssumption DEF TypeOK, Placed, Ownership, Alone

LEMMA DrainedRow ==
  ASSUME TypeOK, Ownership, NEW t \in Procs, NEW c \in Draining(t)
  PROVE  /\ c \in job[t].todo /\ c.id \in Ids /\ c.port \in Ports
         /\ c.id # job[t].id /\ rows[c.id].project = job[t].proj
         /\ rows[c.id].port = c.port /\ rows[c.id].status # "stopped"
         /\ \A e \in Draining(t) : e.id = c.id
<1>1. job[t] \in Job /\ Copies(t) /\ c \in job[t].todo
  BY DEF TypeOK, Ownership, Draining
<1>2. ASSUME NEW e \in Draining(t) PROVE e.id = c.id
  <2>1. e \in job[t].todo /\ e.id \in Ids /\ c.id \in Ids /\ e.id <= c.id /\ c.id <= e.id
    BY <1>1 DEF Draining, Job, Copy
  <2>2. e.id \in Nat /\ c.id \in Nat
    BY <2>1, Constants
  <2> QED BY <2>1, <2>2
<1> QED BY <1>1, <1>2 DEF Job, Copy, Copies

LEMMA ShapeMoves ==
  ASSUME TypeOK, Ownership, NEW t \in Procs, Shape(t)
  PROVE  Others(t) /\ job[t].pc # "idle" /\ RowsLocal(job[t].proj)
<1> PICK p : p = job[t].proj
  OBVIOUS
<1>s. ASSUME NEW d, NEW s, NEW q, Saved(d, s, q), rows[d].project = p PROVE RowsLocal(p)
  BY <1>s DEF Saved, RowsLocal
<1>q. ASSUME UNCHANGED rows PROVE RowsLocal(p)
  BY <1>q DEF RowsLocal
<1>1. CASE \/ Passes(t) \/ Routes(t) \/ Inserts(t) \/ Runs(t) \/ Reads(t) \/ Installs(t) \/ Lists(t)
           \/ DrainsContainer(t) \/ DrainsPort(t) \/ Leaves(t) \/ Stops(t) \/ RemovesContainer(t)
           \/ RemovesPort(t) \/ RemovesSite(t)
  BY <1>1, <1>q DEF Passes, Routes, Inserts, Runs, Reads, Installs, Lists, DrainsContainer,
     DrainsPort, Leaves, Stops, RemovesContainer, RemovesPort, RemovesSite, Held4, Kept
<1>2. CASE Fails(t) \/ RunFails(t) \/ Succeeds(t) \/ StopsRow(t)
  <2>1. job[t].pc \in Working \cup Requests /\ job[t].pc # "idle" /\ Others(t)
    BY <1>2 DEF Fails, RunFails, Succeeds, StopsRow, Held4, Kept, Working, Requests, JobPcs, Preparing
  <2>2. rows[job[t].id].project = p
    BY <2>1, OwnRow
  <2> QED BY <1>2, <1>s, <2>1, <2>2 DEF Fails, RunFails, Succeeds, StopsRow
<1>3. CASE DrainsRow(t)
  <2> PICK c \in Draining(t) : Saved(c.id, "stopped", c.port)
    BY <1>3 DEF DrainsRow
  <2>1. rows[c.id].project = p
    BY DrainedRow
  <2> QED BY <1>3, <1>s, <2>1 DEF DrainsRow, Kept
<1>4. CASE Creates(t)
  <2> PICK n \in Ids : n = nextId
    BY <1>4 DEF Creates
  <2>1. rows[n].project = NoProject
    <3>1. n >= n
      BY Constants
    <3> QED BY <3>1 DEF Ownership, FreshRows, NoRow
  <2> QED BY <1>4, <2>1 DEF Creates, RowsLocal
<1>5. CASE RemovesRow(t)
  BY <1>5 DEF RemovesRow, RowsLocal, RowsOf, NoRow
<1> QED BY <1>1, <1>2, <1>3, <1>4, <1>5 DEF Shape

-----------------------------------------------------------------------------
(* Layer 3.                                                                *)
AllocLocal(p) ==
  \A q \in Ports : alloc'[q] # alloc[q] =>
    alloc[q] = Free \/ (alloc[q] \in Ids /\ rows[alloc[q]].project = p)

LEMMA ReleasesOwn ==
  ASSUME TypeOK, Ownership, NEW t \in Procs, NEW e \in Ids, ReleasedBy(t, e)
  PROVE  rows[e].project = job[t].proj /\ job[t].pc # "idle"
<1>1. CASE job[t].pc = "drainRow"
  BY <1>1, DrainedRow DEF ReleasedBy, Removing
<1>2. CASE job[t].pc \in Removing
  <2>1. Owner(t) /\ e # 0
    BY Constants DEF Ownership
  <2> QED BY <1>2, <2>1 DEF ReleasedBy, Removing, Owner, IsLatest, RowsOf
<1> QED BY <1>1, <1>2 DEF ReleasedBy

LEMMA ReleasingStays ==
  ASSUME NEW t \in Procs, Others(t), NEW e, ReleasedBy(t, e) => ReleasedBy(t, e)'
  PROVE  Releasing(e) => Releasing(e)'
<1> SUFFICES ASSUME NEW u \in Procs, ReleasedBy(u, e) PROVE ReleasedBy(u, e)'
  BY DEF Releasing
<1>1. CASE u # t
  <2>1. job'[u] = job[u]
    BY <1>1 DEF Others
  <2> QED BY <2>1 DEF ReleasedBy, Draining
<1> QED BY <1>1

LEMMA HeldStays ==
  ASSUME NEW e \in Ids, Held(e), rows'[e] = rows[e], NEW r, r = rows[e].project,
         IsLatest(e, r)' => IsLatest(e, r), Releasing(e) => Releasing(e)',
         NEW q, q = rows[e].port, alloc[q] = e => alloc'[q] = e
  PROVE  Held(e)'
BY DEF Held

LEMMA ReservationsFrom ==
  ASSUME TypeOK, TypeOK', Ownership, Ownership', Reservations, NEW t \in Procs, Others(t),
         NEW p \in Projects, \A u \in Procs \ {t} : job[u].proj # p, job[t].proj \in {p, NoProject},
         RowsLocal(p), AllocLocal(p),
         \A d \in Ids : d >= nextId' => \A q \in Ports : alloc'[q] # d,
         Reserving(t)', \A e \in Ids : rows'[e].project = p => Held(e)'
  PROVE  Reservations'
<1>1. ASSUME NEW u \in Procs, u # t PROVE Reserving(u)'
  <2> PICK j \in Job : j = job[u]
    BY DEF TypeOK
  <2>1. job'[u] = j /\ Reserving(u) /\ Placed(j)
    BY <1>1 DEF Others, Reservations, TypeOK
  <2>2. CASE j.pc \in {"run", "health", "flip"} \cup Switched
    <3>1. j.pc \in Working
      BY <2>2 DEF Working, JobPcs, Switched
    <3>2. j.id \in Ids /\ rows[j.id].project = j.proj /\ j.proj # p
      BY <1>1, <3>1, OwnRow
    <3>3. \A q \in Ports : alloc[q] = j.id => alloc'[q] = j.id
      BY <3>2, Constants DEF AllocLocal
    <3>4. j.pc = "run" => j.cursor \in Ports
      BY <2>1 DEF Placed
    <3>5. j.port # NoPort => j.port \in Ports
      BY DEF Job
    <3> QED BY <2>1, <3>3, <3>4, <3>5 DEF Reserving
  <2>3. CASE j.pc \notin {"run", "health", "flip"} \cup Switched
    BY <2>1, <2>3 DEF Reserving
  <2> QED BY <2>2, <2>3
<1>2. ASSUME NEW e \in Ids, rows'[e].project # p PROVE Held(e)'
  <2>1. CASE rows'[e] # rows[e]
    <3>1. rows'[e].project = NoProject
      BY <1>2, <2>1 DEF RowsLocal
    <3>2. rows'[e] = NoRow
      BY <3>1 DEF Ownership, FreshRows
    <3> QED BY <3>2 DEF Held, NoRow
  <2>2. CASE rows[e].port = NoPort /\ rows'[e] = rows[e]
    BY <2>2 DEF Held
  <2>3. CASE rows[e].port # NoPort /\ rows'[e] = rows[e]
    <3> PICK r : r = rows[e].project
      OBVIOUS
    <3> PICK q : q = rows[e].port
      OBVIOUS
    <3>1. r \in Projects /\ r # p /\ r # NoProject
      BY <1>2, <2>3, SomeProject, NoProjectAssumption
    <3>2. q \in Ports
      BY <2>3 DEF TypeOK, Row
    <3>3. RowsOf(r)' = RowsOf(r)
      BY <3>1 DEF RowsLocal, RowsOf
    <3>4. IsLatest(e, r)' => IsLatest(e, r)
      BY <3>3 DEF IsLatest
    <3>5. ~ReleasedBy(t, e)
      BY <3>1, ReleasesOwn
    <3>6. Releasing(e) => Releasing(e)'
      BY <3>5, ReleasingStays
    <3>7. alloc[q] = e => alloc'[q] = e
      BY <3>1, <3>2, Constants DEF AllocLocal
    <3>8. Held(e)
      BY DEF Reservations
    <3> QED BY <2>3, <3>4, <3>6, <3>7, <3>8, HeldStays
  <2> QED BY <2>1, <2>2, <2>3
<1> QED BY <1>1, <1>2 DEF Reservations

(* No row is written and no port changes hands.                            *)
LEMMA QuietReservations ==
  ASSUME TypeOK, Reservations, NEW t \in Procs, Others(t), UNCHANGED <<rows, nextId, alloc>>,
         Reserving(t)', \A e \in Ids : ReleasedBy(t, e) => ReleasedBy(t, e)'
  PROVE  Reservations'
<1>1. ASSUME NEW u \in Procs, u # t PROVE Reserving(u)'
  <2>1. job'[u] = job[u] /\ Reserving(u)
    BY <1>1 DEF Others, Reservations
  <2> QED BY <2>1 DEF Reserving
<1>2. ASSUME NEW e \in Ids PROVE Held(e)'
  <2>1. Releasing(e) => Releasing(e)'
    BY ReleasingStays
  <2> PICK r : r = rows[e].project
    OBVIOUS
  <2> PICK q : q = rows[e].port
    OBVIOUS
  <2>2. IsLatest(e, r)' => IsLatest(e, r)
    BY LatestStays
  <2>3. Held(e)
    BY DEF Reservations
  <2> QED BY <2>1, <2>2, <2>3, HeldStays
<1> QED BY <1>1, <1>2 DEF Reservations

(* One row is saved, by a goroutine that gives no port back meanwhile.     *)
LEMMA SavedReservations ==
  ASSUME TypeOK, TypeOK', Ownership, Ownership', Reservations, NEW t \in Procs, Others(t),
         NEW p \in Projects, p = job[t].proj, \A u \in Procs \ {t} : job[u].proj # p,
         NEW d \in Ids, NEW s, NEW q, Saved(d, s, q), rows[d].project = p, Held(d)', AllocLocal(p),
         \A e \in Ids \ {d}, x \in Ports : alloc[x] = e <=> alloc'[x] = e, UNCHANGED nextId,
         Reserving(t)', \A e \in Ids \ {d} : ReleasedBy(t, e) => ReleasedBy(t, e)'
  PROVE  Reservations'
<1>1. \A e \in Ids : rows'[e].project = rows[e].project
  BY DEF Saved
<1>2. RowsLocal(p)
  BY DEF Saved, RowsLocal
<1>3. ASSUME NEW e \in Ids, rows'[e].project = p PROVE Held(e)'
  <2>1. CASE e = d
    BY <2>1
  <2>2. CASE e # d
    <3> PICK r : r = rows[e].project
      OBVIOUS
    <3> PICK x : x = rows[e].port
      OBVIOUS
    <3>1. IsLatest(e, r)' => IsLatest(e, r)
      BY <1>1, LatestStays
    <3>2. Releasing(e) => Releasing(e)'
      BY <2>2, ReleasingStays
    <3>3. Held(e) /\ rows'[e] = rows[e]
      BY <2>2 DEF Reservations, Saved
    <3>4. CASE x = NoPort
      BY <3>3, <3>4 DEF Held
    <3>5. CASE x # NoPort
      <4>1. x \in Ports
        BY <3>5 DEF TypeOK, Row
      <4> QED BY <2>2, <3>1, <3>2, <3>3, <4>1, HeldStays
    <3> QED BY <3>4, <3>5
  <2> QED BY <2>1, <2>2
<1>4. \A e \in Ids : e >= nextId' => \A x \in Ports : alloc'[x] # e
  <2>1. rows[d] # NoRow
    BY DEF Saved, Present, NoRow
  <2>2. ~(d >= nextId)
    BY <2>1 DEF Ownership, FreshRows
  <2> QED BY <2>2 DEF Reservations
<1> QED BY <1>2, <1>3, <1>4, ReservationsFrom

(* The port that is about to be given back.                                *)
LEMMA DrainedPort ==
  ASSUME TypeOK, Ownership, Reservations, NEW t \in Procs, job[t].pc = "drainPort",
         NEW c \in Draining(t)
  PROVE  alloc[c.port] = c.id
<1> PICK x \in Ids : x = c.id
  BY DrainedRow
<1>1. /\ c.port \in Ports /\ rows[x].project = job[t].proj
      /\ rows[x].port = c.port /\ rows[x].status # "stopped"
  BY DrainedRow
<1>2. ASSUME NEW u \in Procs, ReleasedBy(u, x) PROVE FALSE
  <2>1. u = t
    BY <1>1, <1>2, ReleasesOwn, Mover
  <2> QED BY <1>2, <2>1 DEF ReleasedBy, Removing
<1>3. Held(x)
  BY DEF Reservations
<1> QED BY <1>1, <1>2, <1>3, Constants DEF Held, Releasing

LEMMA RemovedPort ==
  ASSUME TypeOK, Ownership, Reservations, NEW t \in Procs, job[t].pc = "rmPort"
  PROVE  /\ job[t].port \in Ports /\ job[t].id \in Ids
         /\ alloc[job[t].port] = job[t].id /\ rows[job[t].id].port = job[t].port
<1> PICK x \in Ids : x = job[t].id
  BY OwnRow DEF Requests
<1>1. rows[x].project = job[t].proj /\ IsLatest(x, job[t].proj)
  BY OwnRow DEF Requests
<1>2. job[t].port \in Ports /\ rows[x].port = job[t].port
  BY DEF Ownership, Owner, Requests, TypeOK, Job
<1>3. ASSUME NEW u \in Procs, ReleasedBy(u, x) PROVE FALSE
  <2>1. u = t
    BY <1>1, <1>3, ReleasesOwn, Mover
  <2> QED BY <1>3, <2>1 DEF ReleasedBy, Removing
<1>4. Held(x)
  BY DEF Reservations
<1> QED BY <1>1, <1>2, <1>3, <1>4, Constants DEF Held, Releasing

LEMMA ReservationsStep ==
  ASSUME TypeOK, TypeOK', Ownership, Ownership', Reservations, NEW t \in Procs, Shape(t)
  PROVE  Reservations'
<1> PICK p : p = job[t].proj
  OBVIOUS
<1> PICK d : d = job[t].id
  OBVIOUS
<1>a. /\ Owner(t) /\ Reserving(t) /\ job[t] \in Job /\ Placed(job[t])
      /\ Others(t) /\ job[t].pc # "idle" /\ RowsLocal(p)
  BY ShapeMoves DEF Ownership, Reservations, TypeOK
<1>p. p \in Projects /\ \A u \in Procs \ {t} : job[u].proj # p
  BY <1>a, Mover
<1>o. job[t].pc \in Working \cup Requests => d \in Ids /\ rows[d].project = p /\ IsLatest(d, p)
  BY OwnRow
<1>1. CASE Passes(t) \/ Routes(t) \/ Runs(t) \/ Reads(t) \/ Installs(t) \/ Lists(t)
           \/ DrainsContainer(t) \/ Leaves(t) \/ Stops(t) \/ RemovesContainer(t) \/ RemovesSite(t)
  <2>1. UNCHANGED <<rows, nextId, alloc>>
    BY <1>1 DEF Passes, Routes, Runs, Reads, Installs, Lists, DrainsContainer, Leaves, Stops,
       RemovesContainer, RemovesSite
  <2>2. Reserving(t)'
    <3>1. CASE Passes(t) \/ Routes(t)
      BY <1>a, <2>1, <3>1 DEF Passes, Routes, Held4, Kept, Reserving, Owner, Preparing, Switched
    <3>2. CASE Runs(t)
      BY <1>a, <2>1, <3>2 DEF Runs, Reserving, Switched
    <3>3. CASE Reads(t) \/ Installs(t) \/ Lists(t) \/ DrainsContainer(t)
      BY <1>a, <2>1, <3>3 DEF Reads, Installs, Lists, DrainsContainer, Held4, Kept, Reserving, Switched
    <3>4. CASE Leaves(t) \/ Stops(t) \/ RemovesContainer(t) \/ RemovesSite(t)
      BY <3>4, IdleIs DEF Leaves, Stops, RemovesContainer, RemovesSite, Reserving, Switched
    <3> QED BY <1>1, <3>1, <3>2, <3>3, <3>4
  <2>3. ASSUME NEW e \in Ids, ReleasedBy(t, e) PROVE ReleasedBy(t, e)'
    <3>1. job[t].pc # "drainRow" /\ job[t].pc # "rmRow"
      BY <1>1 DEF Passes, Routes, Runs, Reads, Installs, Lists, DrainsContainer, Leaves, Stops,
         RemovesContainer, RemovesSite
    <3>2. job[t].pc \in Removing /\ d = e
      BY <2>3, <3>1 DEF ReleasedBy
    <3>3. Reads(t) \/ Installs(t) \/ RemovesSite(t)
      BY <1>1, <3>2 DEF Removing, Passes, Routes, Runs, Lists, DrainsContainer, Leaves, Stops,
         RemovesContainer
    <3> QED BY <3>2, <3>3 DEF Reads, Installs, RemovesSite, Held4, Kept, ReleasedBy, Removing
  <2> QED BY <1>a, <2>1, <2>2, <2>3, QuietReservations
<1>2. CASE Fails(t) \/ Succeeds(t)
  <2>1. /\ UNCHANGED <<nextId, alloc>> /\ job'[t].pc = "done"
        /\ job[t].pc \in ((Preparing \cup {"health", "flip"}) \ {"run"}) \cup {"succeed"}
        /\ \E s : Saved(d, s, job[t].port)
    BY <1>2 DEF Fails, Succeeds
  <2>2. job[t].pc \in Working
    BY <2>1 DEF Working, JobPcs, Preparing
  <2>3. Held(d)'
    <3>1. job[t].port = NoPort \/ alloc[job[t].port] = d
      BY <1>a, <2>1 DEF Reserving, Owner, Preparing, Switched
    <3> QED BY <2>1, <3>1 DEF Saved, Held
  <2>4. Reserving(t)' /\ \A e \in Ids : ~ReleasedBy(t, e)
    BY <2>1 DEF Reserving, Switched, ReleasedBy, Removing, Preparing
  <2> QED BY <1>a, <1>o, <1>p, <2>1, <2>2, <2>3, <2>4, SavedReservations DEF AllocLocal
<1>3. CASE RunFails(t)
  <2> PICK q \in Ports : q = job[t].cursor
    BY <1>3, <1>a DEF RunFails, Placed
  <2>1. alloc[q] = d /\ job[t].port = NoPort
    BY <1>a, <1>3 DEF RunFails, Reserving, Owner, Preparing
  <2>2. alloc' = [alloc EXCEPT ![q] = Free] /\ alloc \in [Ports -> {Free, Orphan} \cup Ids]
    BY <1>3 DEF RunFails, Released, TypeOK
  <2>3. d \in Ids /\ rows[d].project = p
    BY <1>3, <1>o DEF RunFails, Working, JobPcs
  <2>4. AllocLocal(p) /\ \A e \in Ids \ {d}, x \in Ports : alloc[x] = e <=> alloc'[x] = e
    BY <2>1, <2>2, <2>3, Constants DEF AllocLocal
  <2>5. Held(d)'
    BY <1>3, <2>1 DEF RunFails, Saved, Held
  <2>6. Reserving(t)' /\ \A e \in Ids : ~ReleasedBy(t, e)
    BY <1>3 DEF RunFails, Reserving, Switched, ReleasedBy, Removing
  <2> QED BY <1>a, <1>p, <1>3, <2>3, <2>4, <2>5, <2>6, SavedReservations DEF RunFails
<1>4. CASE StopsRow(t)
  <2>1. /\ UNCHANGED <<nextId, alloc>> /\ job'[t] = Idle /\ job[t].pc = "stopRow"
        /\ Saved(d, "stopped", job[t].port)
    BY <1>4 DEF StopsRow
  <2>2. d \in Ids /\ rows[d].project = p /\ IsLatest(d, p) /\ rows[d].port = job[t].port
    BY <1>a, <1>o, <2>1 DEF Requests, Owner
  <2>3. Held(d)'
    <3>1. \A u \in Procs : ~ReleasedBy(u, d)
      <4> SUFFICES ASSUME NEW u \in Procs, ReleasedBy(u, d) PROVE FALSE
        OBVIOUS
      <4>1. job[u].proj = p
        BY <2>2, ReleasesOwn
      <4>2. u = t
        BY <1>p, <4>1
      <4> QED BY <2>1, <4>2 DEF ReleasedBy, Removing
    <3>2. Held(d)
      BY <2>2 DEF Reservations
    <3>3. rows[d].port # NoPort => alloc[rows[d].port] = d
      BY <2>2, <3>1, <3>2 DEF Held, Releasing
    <3> QED BY <2>1, <2>2, <3>3 DEF Saved, Held
  <2>4. Reserving(t)' /\ \A e \in Ids : ~ReleasedBy(t, e)
    BY <2>1, IdleIs DEF Reserving, Switched, ReleasedBy, Removing
  <2> QED BY <1>a, <1>p, <2>1, <2>2, <2>3, <2>4, SavedReservations DEF AllocLocal
<1>5. CASE DrainsRow(t)
  <2>1. /\ UNCHANGED <<nextId, alloc>> /\ job[t].pc = "drainRow"
        /\ job'[t].pc \in {"succeed", "drainContainer"} /\ Kept(t)
    BY <1>5 DEF DrainsRow
  <2>2. PICK c \in Draining(t) : Saved(c.id, "stopped", c.port)
    BY <1>5 DEF DrainsRow
  <2>3. c.id \in Ids /\ c.id # d /\ rows[c.id].project = p /\ \A e \in Draining(t) : e.id = c.id
    BY DrainedRow
  <2>4. Held(c.id)'
    <3>1. ~IsLatest(c.id, p)'
      <4>1. IsLatest(d, p) /\ d \in Ids
        BY <1>o, <2>1 DEF Working, JobPcs
      <4>2. d \in RowsOf(p)' /\ c.id <= d
        BY <2>2, <2>3, <4>1 DEF Saved, IsLatest, RowsOf
      <4> QED BY <2>3, <4>1, <4>2, Constants DEF IsLatest
    <3> QED BY <2>2, <2>3, <3>1 DEF Saved, Held
  <2>5. Reserving(t)'
    BY <1>a, <2>1 DEF Kept, Reserving, Switched
  <2>6. \A e \in Ids \ {c.id} : ~ReleasedBy(t, e)
    BY <2>1, <2>3 DEF ReleasedBy, Removing
  <2> PICK x : x = c.id
    OBVIOUS
  <2> PICK q : q = c.port
    OBVIOUS
  <2>7. /\ x \in Ids /\ Saved(x, "stopped", q) /\ rows[x].project = p /\ Held(x)'
        /\ \A e \in Ids \ {x} : ~ReleasedBy(t, e)
    BY <2>2, <2>3, <2>4, <2>6
  <2>8. AllocLocal(p) /\ \A e \in Ids \ {x}, y \in Ports : alloc[y] = e <=> alloc'[y] = e
    BY <2>1 DEF AllocLocal
  <2> QED BY <1>a, <1>p, <2>1, <2>5, <2>7, <2>8, SavedReservations
<1>6. CASE Creates(t)
  <2> PICK n \in Ids : n = nextId
    BY <1>6 DEF Creates
  <2>1. /\ UNCHANGED alloc /\ nextId' = n + 1 /\ rows'[n].port = NoPort /\ rows'[n].project = p
        /\ \A e \in Ids \ {n} : rows'[e] = rows[e]
        /\ job[t].pc = "begin" /\ job'[t].pc \in {"sync", "scan"}
    BY <1>6 DEF Creates
  <2>2. \A e \in Ids : e >= nextId' => \A q \in Ports : alloc'[q] # e
    <3> SUFFICES ASSUME NEW e \in Ids, e >= n + 1 PROVE \A q \in Ports : alloc[q] # e
      BY <2>1
    <3>1. e \in Nat /\ n \in Nat
      BY Constants
    <3>2. e >= n
      BY <3>1
    <3> QED BY <3>2 DEF Reservations
  <2>3. Reserving(t)' /\ \A e \in Ids : ~ReleasedBy(t, e)
    BY <2>1 DEF Reserving, Switched, ReleasedBy, Removing
  <2>4. ASSUME NEW e \in Ids, rows'[e].project = p PROVE Held(e)'
    <3>1. CASE e = n
      BY <2>1, <3>1 DEF Held
    <3>2. CASE e # n
      <4>1. Held(e) /\ rows'[e] = rows[e]
        BY <2>1, <3>2 DEF Reservations
      <4>2. IsLatest(e, p)' => IsLatest(e, p)
        BY <1>p, <2>1, <3>2 DEF IsLatest, RowsOf
      <4>3. Releasing(e) => Releasing(e)'
        BY <1>a, <2>3, ReleasingStays
      <4> PICK q : q = rows[e].port
        OBVIOUS
      <4> QED BY <2>1, <2>4, <4>1, <4>2, <4>3, HeldStays
    <3> QED BY <3>1, <3>2
  <2> QED BY <1>a, <1>p, <2>1, <2>2, <2>3, <2>4, ReservationsFrom DEF AllocLocal
<1>7. CASE Inserts(t)
  <2> PICK q \in Ports : q = job[t].cursor
    BY <1>7, <1>a DEF Inserts, Placed
  <2>1. /\ UNCHANGED <<rows, nextId>> /\ alloc[q] = Free /\ alloc' = [alloc EXCEPT ![q] = d]
        /\ alloc \in [Ports -> {Free, Orphan} \cup Ids]
        /\ job[t].pc = "insert" /\ job'[t].pc = "run" /\ job'[t].id = d /\ job'[t].cursor = q
    BY <1>7 DEF Inserts, Held4, Kept, TypeOK
  <2>2. d \in Ids /\ rows[d].project = p /\ ~(d >= nextId)
    <3>1. d \in Ids /\ rows[d].project = p
      BY <1>o, <2>1 DEF Working, JobPcs
    <3> QED BY <1>p, <3>1, NoProjectAssumption DEF Ownership, FreshRows, NoRow
  <2>3. AllocLocal(p)
    BY <2>1 DEF AllocLocal
  <2>4. \A e \in Ids : e >= nextId' => \A x \in Ports : alloc'[x] # e
    BY <2>1, <2>2 DEF Reservations
  <2>5. Reserving(t)' /\ \A e \in Ids : ~ReleasedBy(t, e)
    BY <2>1 DEF Reserving, Switched, ReleasedBy, Removing
  <2>6. ASSUME NEW e \in Ids, rows'[e].project = p PROVE Held(e)'
    <3>1. Held(e) /\ rows'[e] = rows[e]
      BY <2>1 DEF Reservations
    <3>2. IsLatest(e, p)' => IsLatest(e, p)
      BY <2>1, LatestStays
    <3>3. Releasing(e) => Releasing(e)'
      BY <1>a, <2>5, ReleasingStays
    <3> PICK x : x = rows[e].port
      OBVIOUS
    <3>4. CASE x = NoPort
      BY <3>1, <3>4 DEF Held
    <3>5. CASE x # NoPort
      <4>1. x \in Ports
        BY <3>5 DEF TypeOK, Row
      <4>2. alloc[x] = e => alloc'[x] = e
        BY <2>1, <4>1, Constants
      <4> QED BY <2>1, <2>6, <3>1, <3>2, <3>3, <4>2, HeldStays
    <3> QED BY <3>4, <3>5
  <2> QED BY <1>a, <1>p, <2>3, <2>4, <2>5, <2>6, ReservationsFrom
<1>r. ASSUME NEW x \in Ids, rows[x].project = p, NEW q \in Ports, rows[x].port = q, alloc[q] = x,
             alloc' = Released(q), UNCHANGED <<rows, nextId>>, ReleasedBy(t, x)', Reserving(t)',
             \A e \in Ids : ~ReleasedBy(t, e)
      PROVE  Reservations'
  <2>1. alloc' = [alloc EXCEPT ![q] = Free] /\ alloc \in [Ports -> {Free, Orphan} \cup Ids]
    BY <1>r DEF Released, TypeOK
  <2>2. AllocLocal(p)
    BY <1>r, <2>1 DEF AllocLocal
  <2>3. \A e \in Ids : e >= nextId' => \A y \in Ports : alloc'[y] # e
    BY <1>r, <2>1, Constants DEF Reservations
  <2>4. ASSUME NEW e \in Ids, rows'[e].project = p PROVE Held(e)'
    <3>1. CASE e = x
      <4>1. Releasing(e)'
        BY <1>r, <3>1 DEF Releasing
      <4> QED BY <4>1 DEF Held
    <3>2. CASE e # x
      <4>1. Held(e) /\ rows'[e] = rows[e]
        BY <1>r DEF Reservations
      <4>2. IsLatest(e, p)' => IsLatest(e, p)
        BY <1>r, LatestStays
      <4>3. Releasing(e) => Releasing(e)'
        BY <1>a, <1>r, ReleasingStays
      <4> PICK y : y = rows[e].port
        OBVIOUS
      <4>4. CASE y = NoPort
        BY <4>1, <4>4 DEF Held
      <4>5. CASE y # NoPort
        <5>1. y \in Ports
          BY <4>5 DEF TypeOK, Row
        <5>2. alloc[y] = e => alloc'[y] = e
          BY <1>r, <2>1, <3>2, <5>1
        <5> QED BY <1>r, <2>4, <4>1, <4>2, <4>3, <5>2, HeldStays
      <4> QED BY <4>4, <4>5
    <3> QED BY <3>1, <3>2
  <2> QED BY <1>a, <1>p, <1>r, <2>2, <2>3, <2>4, ReservationsFrom
<1>8. CASE DrainsPort(t)
  <2>1. /\ UNCHANGED <<rows, nextId>> /\ Held4(t)
        /\ job[t].pc = "drainPort" /\ job'[t].pc = "drainRow"
    BY <1>8 DEF DrainsPort
  <2>2. PICK c \in Draining(t) : alloc' = Released(c.port)
    BY <1>8 DEF DrainsPort
  <2>3. /\ c.id \in Ids /\ c.id # d /\ c.port \in Ports /\ rows[c.id].project = p
        /\ rows[c.id].port = c.port /\ rows[c.id].status # "stopped"
    BY DrainedRow
  <2> PICK x \in Ids : x = c.id
    BY <2>3
  <2> PICK q \in Ports : q = c.port
    BY <2>3
  <2>4. \A e \in Ids : ~ReleasedBy(t, e)
    BY <2>1 DEF ReleasedBy, Removing
  <2>5. alloc[q] = x
    BY <2>1, DrainedPort
  <2>6. ReleasedBy(t, x)'
    <3>1. Draining(t)' = Draining(t)
      BY <2>1 DEF Held4, Draining
    <3> QED BY <2>1, <3>1 DEF ReleasedBy
  <2>7. Reserving(t)'
    <3>1. d \in Ids /\ (job[t].port # NoPort => alloc[job[t].port] = d /\ job[t].port \in Ports)
      BY <1>a, <1>o, <2>1 DEF Reserving, Switched, Working, JobPcs, Job
    <3>2. job[t].port # NoPort => job[t].port # q
      BY <2>3, <2>5, <3>1
    <3> QED BY <2>1, <2>2, <3>1, <3>2 DEF Reserving, Switched, Held4, Kept, Released, TypeOK
  <2> QED BY <1>r, <2>1, <2>2, <2>3, <2>4, <2>5, <2>6, <2>7
<1>9. CASE RemovesPort(t)
  <2>1. /\ UNCHANGED <<rows, nextId>> /\ Held4(t) /\ alloc' = Released(job[t].port)
        /\ job[t].pc = "rmPort" /\ job'[t].pc = "rmSite"
    BY <1>9 DEF RemovesPort
  <2>2. d \in Ids /\ rows[d].project = p /\ IsLatest(d, p)
    BY <1>o, <2>1 DEF Requests
  <2> PICK q \in Ports : q = job[t].port
    BY <2>1, RemovedPort
  <2>3. rows[d].port = q /\ alloc[q] = d
    BY <2>1, RemovedPort
  <2>4. \A e \in Ids : ~ReleasedBy(t, e)
    BY <2>1 DEF ReleasedBy, Removing
  <2>6. ReleasedBy(t, d)' /\ Reserving(t)'
    BY <2>1 DEF ReleasedBy, Removing, Reserving, Switched, Held4, Kept
  <2> QED BY <1>r, <2>1, <2>2, <2>3, <2>4, <2>6
<1>10. CASE RemovesRow(t)
  <2>1. /\ UNCHANGED nextId /\ job'[t] = Idle /\ job[t].pc = "rmRow"
        /\ rows' = [e \in Ids |-> IF e \in RowsOf(p) THEN NoRow ELSE rows[e]]
        /\ alloc' = [q \in Ports |-> IF alloc[q] \in RowsOf(p) THEN Orphan ELSE alloc[q]]
    BY <1>10 DEF RemovesRow, Orphaned
  <2>2. AllocLocal(p)
    BY <2>1 DEF AllocLocal, RowsOf
  <2>3. \A e \in Ids : e >= nextId' => \A q \in Ports : alloc'[q] # e
    BY <2>1, Constants DEF Reservations
  <2>4. Reserving(t)'
    BY <2>1, IdleIs DEF Reserving, Switched
  <2>5. \A e \in Ids : rows'[e].project # p
    BY <1>p, <2>1, NoProjectAssumption DEF RowsOf, NoRow
  <2> QED BY <1>a, <1>p, <2>2, <2>3, <2>4, <2>5, ReservationsFrom
<1> QED
  BY <1>1, <1>2, <1>3, <1>4, <1>5, <1>6, <1>7, <1>8, <1>9, <1>10 DEF Shape

(* A request gives nothing back before it has begun; a crash in the middle *)
(* of giving back is what HalfReleased rules out.                          *)
LEMMA ReservationsIdle ==
  ASSUME Reservations, UNCHANGED <<rows, nextId, alloc>>,
         \A e \in Ids : Releasing(e) => Releasing(e)', \A t \in Procs : Reserving(t)'
  PROVE  Reservations'
<1>1. ASSUME NEW e \in Ids PROVE Held(e)'
  <2> PICK r : r = rows[e].project
    OBVIOUS
  <2> PICK q : q = rows[e].port
    OBVIOUS
  <2>1. IsLatest(e, r)' => IsLatest(e, r)
    BY LatestStays
  <2>2. Held(e)
    BY DEF Reservations
  <2> QED BY <2>1, <2>2, HeldStays
<1> QED BY <1>1 DEF Reservations

LEMMA ReservationsAsk ==
  ASSUME TypeOK, Reservations, NEW t \in Procs, NEW p \in Projects, Asked(t, p)
  PROVE  Reservations'
<1>1. Others(t) /\ UNCHANGED <<rows, nextId, alloc>> /\ job[t].pc = "idle"
  BY DEF Asked
<1>2. Reserving(t)'
  BY DEF Asked, Reserving, Switched
<1>3. \A e \in Ids : ~ReleasedBy(t, e)
  BY <1>1 DEF ReleasedBy, Removing
<1> QED BY <1>1, <1>2, <1>3, QuietReservations

LEMMA ReservationsCrash ==
  ASSUME Reservations, UNCHANGED <<rows, nextId, alloc>>, job' = [t \in Procs |-> Idle],
         ~HalfReleased
  PROVE  Reservations'
<1>1. \A t \in Procs : job'[t].pc = "idle"
  BY IdleIs
<1>2. \A t \in Procs : Reserving(t)'
  BY <1>1 DEF Reserving, Switched
<1>3. \A e \in Ids : ~Releasing(e)
  BY DEF HalfReleased, Releasing, ReleasedBy, Removing
<1> QED BY <1>2, <1>3, ReservationsIdle

LEMMA ReservationsStays ==
  ASSUME Reservations, UNCHANGED <<rows, nextId, alloc, job>>
  PROVE  Reservations'
<1>1. \A t \in Procs : Reserving(t)'
  BY DEF Reservations, Reserving
<1>2. \A e \in Ids : Releasing(e) => Releasing(e)'
  BY DEF Releasing, ReleasedBy, Draining
<1> QED BY <1>1, <1>2, ReservationsIdle

-----------------------------------------------------------------------------
(* Layer 4.                                                                *)
HostLocal(p) ==
  \A d \in Ids : rows[d].project # p => cont'[d] = cont[d] /\ cport'[d] = cport[d]

LEMMA ContainersFrom ==
  ASSUME TypeOK, TypeOK', Ownership, Containers, NEW t \in Procs, Others(t),
         NEW p \in Projects, \A u \in Procs \ {t} : job[u].proj # p, HostLocal(p),
         \A d \in Ids : d >= nextId' => cont'[d] = "none" /\ cport'[d] = NoPort,
         \A d \in Ids : rows'[d].port # NoPort => cport'[d] = rows'[d].port,
         Contained(t)', Exclusive'
  PROVE  Containers'
<1> SUFFICES ASSUME NEW u \in Procs, u # t PROVE Contained(u)'
  BY DEF Containers
<1> PICK j \in Job : j = job[u]
  BY DEF TypeOK
<1>1. job'[u] = j /\ Contained(u)
  BY DEF Others, Containers
<1>2. CASE j.pc \in Preparing \cup {"health", "flip"} \cup Switched
  <2>1. j.pc \in Working
    BY <1>2 DEF Working, JobPcs, Switched, Preparing
  <2>2. j.id \in Ids /\ rows[j.id].project # p
    BY <2>1, OwnRow
  <2>3. cont'[j.id] = cont[j.id] /\ cport'[j.id] = cport[j.id]
    BY <2>2 DEF HostLocal
  <2> QED BY <1>1, <2>3 DEF Contained
<1>3. CASE j.pc \notin Preparing \cup {"health", "flip"} \cup Switched
  BY <1>1, <1>3 DEF Contained
<1> QED BY <1>2, <1>3

(* Containers only go, and ports are given only to who publishes none.     *)
LEMMA ExclusiveStays ==
  ASSUME TypeOK, Exclusive, UNCHANGED cport, \A d \in Ids : Running(d)' => Running(d),
         \A q \in Ports, e \in Ids : alloc'[q] = e /\ cport[e] = q => alloc[q] = e
  PROVE  Exclusive'
<1>1. \A d \in Ids : Running(d)' => cport'[d] # NoPort
  BY DEF Exclusive
<1>2. ASSUME NEW d \in Ids, NEW e \in Ids, Running(d)', Running(e)', cport'[d] = cport'[e] PROVE d = e
  BY <1>2 DEF Exclusive
<1>3. ASSUME NEW d \in Ids, NEW e \in Ids, Running(d)', alloc'[cport'[d]] = e, cport'[e] = cport'[d]
      PROVE  d = e
  <2> PICK q : q = cport[d]
    OBVIOUS
  <2>1. Running(d) /\ cport[e] = q /\ alloc'[q] = e
    BY <1>3
  <2>2. q \in Ports
    BY <2>1 DEF Exclusive, TypeOK
  <2>3. alloc[q] = e
    BY <2>1, <2>2
  <2> QED BY <2>1, <2>3 DEF Exclusive
<1> QED BY <1>1, <1>2, <1>3 DEF Exclusive

(* A container is started on a port nobody listens on.                     *)
LEMMA ExclusiveRuns ==
  ASSUME TypeOK, Exclusive, NEW d \in Ids, cport[d] = NoPort, NEW q \in Ports, q \notin Listening,
         alloc[q] = d, alloc'[q] \in {d, Free},
         \A x \in Ports \ {q} : alloc'[x] = alloc[x],
         cont' = [cont EXCEPT ![d] = "starting"], cport' = [cport EXCEPT ![d] = q]
  PROVE  Exclusive'
<1>1. \A e \in Ids : Running(e) => cport[e] # q /\ cport[e] \in Ports
  BY DEF Listening, Exclusive, TypeOK
<1>2. /\ cport'[d] = q /\ \A e \in Ids \ {d} : cport'[e] = cport[e]
      /\ \A e \in Ids \ {d} : Running(e)' => Running(e)
  BY DEF TypeOK, Running
<1>3. \A e \in Ids : Running(e)' => cport'[e] # NoPort
  BY <1>1, <1>2, Constants
<1>4. ASSUME NEW e \in Ids, NEW f \in Ids, Running(e)', Running(f)', cport'[e] = cport'[f] PROVE e = f
  BY <1>1, <1>2, <1>4 DEF Exclusive
<1>5. ASSUME NEW e \in Ids, NEW f \in Ids, Running(e)', alloc'[cport'[e]] = f, cport'[f] = cport'[e]
      PROVE  e = f
  <2>1. CASE e = d
    BY <1>2, <1>5, <2>1, Constants
  <2>2. CASE e # d
    <3> PICK x : x = cport[e]
      OBVIOUS
    <3>1. Running(e) /\ x \in Ports \ {q} /\ cport'[f] = x /\ alloc'[x] = f
      BY <1>1, <1>2, <1>5, <2>2
    <3>2. f # d /\ cport[f] = x /\ alloc[x] = f
      BY <1>2, <3>1
    <3> QED BY <3>1, <3>2 DEF Exclusive
  <2> QED BY <2>1, <2>2
<1> QED BY <1>3, <1>4, <1>5 DEF Exclusive

(* What is known of the containers of a row that is there.                 *)
LEMMA PresentIsOld ==
  ASSUME TypeOK, Ownership, NEW d \in Ids, rows[d].project \in Projects
  PROVE  ~(d >= nextId)
BY NoProjectAssumption DEF Ownership, FreshRows, NoRow

LEMMA ContainersStep ==
  ASSUME TypeOK, TypeOK', Ownership, Reservations, Containers, NEW t \in Procs, Shape(t)
  PROVE  Containers'
<1> PICK p : p = job[t].proj
  OBVIOUS
<1> PICK d : d = job[t].id
  OBVIOUS
<1>a. /\ Owner(t) /\ Reserving(t) /\ Contained(t) /\ job[t] \in Job /\ Placed(job[t])
      /\ Others(t) /\ job[t].pc # "idle" /\ Exclusive
  BY ShapeMoves DEF Ownership, Reservations, Containers, TypeOK
<1>p. p \in Projects /\ \A u \in Procs \ {t} : job[u].proj # p
  BY <1>a, Mover
<1>o. job[t].pc \in Working \cup Requests => d \in Ids /\ rows[d].project = p
  BY OwnRow
(* No container is started.                                                *)
<1>q. ASSUME UNCHANGED <<nextId, cport>>, \A e \in Ids : cont'[e] = cont[e] \/ cont'[e] \in {"none", "stopped"},
             HostLocal(p), \A e \in Ids : rows'[e].port # NoPort => cport[e] = rows'[e].port,
             \A e \in Ids : e >= nextId => cont'[e] = "none",
             \A q \in Ports, e \in Ids : alloc'[q] = e /\ cport[e] = q => alloc[q] = e,
             Contained(t)'
      PROVE  Containers'
  <2>1. \A e \in Ids : Running(e)' => Running(e)
    BY <1>q DEF Running
  <2>2. Exclusive'
    BY <1>a, <1>q, <2>1, ExclusiveStays
  <2>3. \A e \in Ids : e >= nextId' => cont'[e] = "none" /\ cport'[e] = NoPort
    BY <1>q DEF Containers
  <2>4. \A e \in Ids : rows'[e].port # NoPort => cport'[e] = rows'[e].port
    BY <1>q
  <2> QED BY <1>a, <1>p, <1>q, <2>2, <2>3, <2>4, ContainersFrom
<1>1. CASE Passes(t) \/ Routes(t) \/ Reads(t) \/ Installs(t) \/ Lists(t) \/ Leaves(t) \/ RemovesSite(t)
  <2>1. UNCHANGED <<rows, nextId, alloc, cont, cport>>
    BY <1>1 DEF Passes, Routes, Reads, Installs, Lists, Leaves, RemovesSite
  <2>2. Contained(t)'
    <3>1. CASE Passes(t)
      <4>1. CASE job[t].pc = "health" /\ job'[t].pc = "flip"
        <5>1. job[t].port # NoPort /\ cport[d] = job[t].port /\ alloc[job[t].port] = d
          BY <1>a, <4>1 DEF Owner, Contained, Reserving
        <5>2. d \in Ids
          BY <1>o, <4>1 DEF Working, JobPcs
        <5>3. PICK x \in Ids : cont[x] = "up" /\ cport[x] = job[t].port
          BY <3>1, <4>1 DEF Passes, Answers
        <5>4. x = d
          BY <1>a, <5>1, <5>2, <5>3 DEF Exclusive, Running
        <5> QED BY <2>1, <3>1, <4>1, <5>1, <5>3, <5>4
                DEF Passes, Held4, Kept, Contained, Preparing, Switched
      <4>2. CASE ~(job[t].pc = "health" /\ job'[t].pc = "flip")
        BY <1>a, <2>1, <3>1, <4>2 DEF Passes, Held4, Kept, Contained, Preparing, Switched
      <4> QED BY <4>1, <4>2
    <3>2. CASE Routes(t)
      BY <1>a, <2>1, <3>2 DEF Routes, Held4, Kept, Contained, Owner, Preparing, Switched
    <3>3. CASE Reads(t) \/ Installs(t) \/ Lists(t)
      BY <1>a, <2>1, <3>3 DEF Reads, Installs, Lists, Kept, Contained, Preparing, Switched
    <3>4. CASE Leaves(t) \/ RemovesSite(t)
      BY <3>4, IdleIs DEF Leaves, RemovesSite, Contained, Preparing, Switched
    <3> QED BY <1>1, <3>1, <3>2, <3>3, <3>4
  <2>3. \A e \in Ids : rows'[e].port # NoPort => cport[e] = rows'[e].port
    BY <2>1 DEF Containers
  <2>4. \A e \in Ids : e >= nextId => cont'[e] = "none"
    BY <2>1 DEF Containers
  <2> QED BY <1>q, <2>1, <2>2, <2>3, <2>4 DEF HostLocal
(* A row is saved.                                                         *)
<1>s. ASSUME UNCHANGED <<nextId, alloc, cont, cport>>, NEW x, NEW s, NEW q, Saved(x, s, q),
             q # NoPort => cport[x] = q, Contained(t)'
      PROVE  Containers'
  <2>1. \A e \in Ids : rows'[e].port # NoPort => cport[e] = rows'[e].port
    BY <1>s DEF Saved, Containers
  <2>2. \A e \in Ids : e >= nextId => cont'[e] = "none"
    BY <1>s DEF Containers
  <2> QED BY <1>q, <1>s, <2>1, <2>2 DEF HostLocal
<1>2. CASE Fails(t) \/ Succeeds(t)
  <2>1. /\ UNCHANGED <<nextId, alloc, cont, cport>> /\ job'[t].pc = "done"
        /\ job[t].pc \in ((Preparing \cup {"health", "flip"}) \ {"run"}) \cup {"succeed"}
        /\ \E s : Saved(d, s, job[t].port)
    BY <1>2 DEF Fails, Succeeds
  <2>2. job[t].port # NoPort => cport[d] = job[t].port
    BY <1>a, <2>1 DEF Owner, Contained, Preparing, Switched
  <2>3. Contained(t)'
    BY <2>1 DEF Contained, Preparing, Switched
  <2> QED BY <1>s, <2>1, <2>2, <2>3
<1>3. CASE StopsRow(t)
  <2>1. d \in Ids /\ rows[d].port = job[t].port
    BY <1>a, <1>o, <1>3 DEF StopsRow, Owner, Requests
  <2>2. job[t].port # NoPort => cport[d] = job[t].port
    BY <2>1 DEF Containers
  <2>3. Contained(t)'
    BY <1>3, IdleIs DEF StopsRow, Contained, Preparing, Switched
  <2> QED BY <1>3, <1>s, <2>2, <2>3 DEF StopsRow
<1>4. CASE DrainsRow(t)
  <2>1. PICK c \in Draining(t) : Saved(c.id, "stopped", c.port)
    BY <1>4 DEF DrainsRow
  <2> PICK x : x = c.id
    OBVIOUS
  <2> PICK q : q = c.port
    OBVIOUS
  <2>2. x \in Ids /\ rows[x].port = q
    BY DrainedRow
  <2>3. Saved(x, "stopped", q) /\ (q # NoPort => cport[x] = q)
    BY <2>1, <2>2 DEF Containers
  <2>4. Contained(t)'
    BY <1>a, <1>4 DEF DrainsRow, Kept, Contained, Preparing, Switched
  <2> QED BY <1>4, <1>s, <2>3, <2>4 DEF DrainsRow
<1>5. CASE Creates(t)
  <2> PICK n \in Ids : n = nextId
    BY <1>5 DEF Creates
  <2>1. /\ UNCHANGED <<alloc, cont, cport>> /\ nextId' = n + 1 /\ rows'[n].port = NoPort
        /\ \A e \in Ids \ {n} : rows'[e] = rows[e]
        /\ job'[t].pc \in {"sync", "scan"} /\ job'[t].id = n /\ job'[t].port = job[t].port
    BY <1>5 DEF Creates
  <2>2. \A e \in Ids : e >= n => cont[e] = "none" /\ cport[e] = NoPort
    BY DEF Containers
  <2>3. n >= n /\ \A e \in Ids : e >= n + 1 => e >= n
    BY Constants
  <2>4. Contained(t)'
    BY <2>1, <2>2, <2>3 DEF Contained, Preparing, Switched
  <2>5. Exclusive'
    BY <1>a, <2>1, ExclusiveStays DEF Running
  <2>6. \A e \in Ids : e >= nextId' => cont'[e] = "none" /\ cport'[e] = NoPort
    BY <2>1, <2>2, <2>3
  <2>7. \A e \in Ids : rows'[e].port # NoPort => cport'[e] = rows'[e].port
    BY <2>1 DEF Containers
  <2> QED BY <1>a, <1>p, <2>1, <2>4, <2>5, <2>6, <2>7, ContainersFrom DEF HostLocal
(* A container goes.                                                       *)
<1>g. ASSUME UNCHANGED <<rows, nextId, alloc, cport>>, NEW x \in Ids, rows[x].project = p,
             \/ UNCHANGED cont
             \/ \E s \in {"none", "stopped"} : cont' = [cont EXCEPT ![x] = s],
             Contained(t)'
      PROVE  Containers'
  <2>1. \A e \in Ids \ {x} : cont'[e] = cont[e]
    BY <1>g DEF TypeOK
  <2>2. cont'[x] = cont[x] \/ cont'[x] \in {"none", "stopped"}
    BY <1>g DEF TypeOK
  <2>3. ~(x >= nextId)
    BY <1>g, <1>p, PresentIsOld
  <2>4. \A e \in Ids : e >= nextId => cont'[e] = "none"
    BY <2>1, <2>3 DEF Containers
  <2>5. \A e \in Ids : rows'[e].port # NoPort => cport[e] = rows'[e].port
    BY <1>g DEF Containers
  <2> QED BY <1>g, <1>q, <2>1, <2>2, <2>4, <2>5 DEF HostLocal
<1>6. CASE DrainsContainer(t)
  <2>1. PICK c \in Draining(t) : AgentRemove(c.id)
    BY <1>6 DEF DrainsContainer
  <2> PICK x : x = c.id
    OBVIOUS
  <2>2. x \in Ids /\ rows[x].project = p /\ x # d /\ (UNCHANGED cont \/ cont' = [cont EXCEPT ![x] = "none"])
    BY <2>1, DrainedRow DEF AgentRemove
  <2>3. d \in Ids /\ cont'[d] = cont[d]
    BY <1>6, <1>o, <2>2 DEF TypeOK, DrainsContainer, Working, JobPcs
  <2>4. Contained(t)'
    BY <1>a, <1>6, <2>3 DEF DrainsContainer, Held4, Kept, Contained, Preparing, Switched
  <2> QED BY <1>6, <1>g, <2>2, <2>4 DEF DrainsContainer
<1>7. CASE Stops(t) \/ RemovesContainer(t)
  <2>1. d \in Ids /\ rows[d].project = p
    BY <1>7, <1>o DEF Stops, RemovesContainer, Requests
  <2>2. Contained(t)'
    BY <1>7 DEF Stops, RemovesContainer, Contained, Preparing, Switched
  <2> QED BY <1>7, <1>g, <2>1, <2>2 DEF Stops, RemovesContainer, AgentRemove
(* A port changes hands.                                                   *)
<1>c. ASSUME UNCHANGED <<nextId, cont, cport>>, \A e \in Ids : rows'[e].port # NoPort => rows'[e] = rows[e],
             \A q \in Ports, e \in Ids : alloc'[q] = e /\ cport[e] = q => alloc[q] = e,
             Contained(t)'
      PROVE  Containers'
  <2>1. \A e \in Ids : rows'[e].port # NoPort => cport[e] = rows'[e].port
    BY <1>c DEF Containers
  <2>2. \A e \in Ids : e >= nextId => cont'[e] = "none"
    BY <1>c DEF Containers
  <2> QED BY <1>q, <1>c, <2>1, <2>2 DEF HostLocal
<1>8. CASE Inserts(t)
  <2>1. d \in Ids /\ cport[d] = NoPort
    BY <1>a, <1>o, <1>8 DEF Inserts, Contained, Preparing, Working, JobPcs
  <2>2. job[t].cursor \in Ports
    BY <1>8, <1>a DEF Inserts, Placed
  <2>3. \A q \in Ports, e \in Ids : alloc'[q] = e /\ cport[e] = q => alloc[q] = e
    BY <1>8, <2>1, <2>2, Constants DEF Inserts, TypeOK
  <2>4. Contained(t)'
    BY <1>a, <1>8 DEF Inserts, Held4, Kept, Contained, Preparing, Switched
  <2> QED BY <1>8, <1>c, <2>3, <2>4 DEF Inserts
<1>9. CASE DrainsPort(t)
  <2>1. PICK c \in Draining(t) : alloc' = Released(c.port)
    BY <1>9 DEF DrainsPort
  <2>2. c.port \in Ports
    BY DrainedRow
  <2>3. \A q \in Ports, e \in Ids : alloc'[q] = e /\ cport[e] = q => alloc[q] = e
    BY <2>1, <2>2, Constants DEF Released, TypeOK
  <2>4. Contained(t)'
    BY <1>a, <1>9 DEF DrainsPort, Held4, Kept, Contained, Preparing, Switched
  <2> QED BY <1>9, <1>c, <2>3, <2>4 DEF DrainsPort
<1>10. CASE RemovesPort(t)
  <2>1. job[t].port \in Ports
    BY <1>a, <1>10 DEF RemovesPort, Owner, Job
  <2>2. \A q \in Ports, e \in Ids : alloc'[q] = e /\ cport[e] = q => alloc[q] = e
    BY <1>10, <2>1, Constants DEF RemovesPort, Released, TypeOK
  <2>3. Contained(t)'
    BY <1>10 DEF RemovesPort, Contained, Preparing, Switched
  <2> QED BY <1>10, <1>c, <2>2, <2>3 DEF RemovesPort
<1>11. CASE RemovesRow(t)
  <2>1. \A e \in Ids : rows'[e].port # NoPort => rows'[e] = rows[e]
    BY <1>11 DEF RemovesRow, NoRow
  <2>2. \A q \in Ports, e \in Ids : alloc'[q] = e /\ cport[e] = q => alloc[q] = e
    BY <1>11, Constants DEF RemovesRow, Orphaned
  <2>3. Contained(t)'
    BY <1>11, IdleIs DEF RemovesRow, Contained, Preparing, Switched
  <2> QED BY <1>11, <1>c, <2>1, <2>2, <2>3 DEF RemovesRow
(* A container is started.                                                 *)
<1>12. CASE Runs(t) \/ RunFails(t)
  <2> PICK q \in Ports : q = job[t].cursor
    BY <1>12, <1>a DEF Runs, RunFails, Placed
  <2>1. /\ job[t].pc = "run" /\ UNCHANGED nextId /\ job[t].port = NoPort
        /\ d \in Ids /\ rows[d].project = p /\ cport[d] = NoPort /\ cont[d] = "none" /\ alloc[q] = d
    BY <1>12, <1>a, <1>o
    DEF Runs, RunFails, Owner, Contained, Reserving, Preparing, Working, JobPcs
  <2>2. CASE UNCHANGED <<cont, cport>>
    <3>1. RunFails(t)
      BY <1>12, <2>1, <2>2, Constants DEF Runs, TypeOK
    <3>2. Contained(t)'
      BY <3>1 DEF RunFails, Contained, Preparing, Switched
    <3>3. \A x \in Ports, e \in Ids : alloc'[x] = e /\ cport[e] = x => alloc[x] = e
      BY <3>1, Constants DEF RunFails, Released, TypeOK
    <3>4. \A e \in Ids : rows'[e].port # NoPort => rows'[e] = rows[e]
      BY <2>1, <3>1 DEF RunFails, Saved
    <3> QED BY <1>c, <2>1, <2>2, <3>2, <3>3, <3>4
  <2>3. CASE /\ q \notin Listening
             /\ cont' = [cont EXCEPT ![d] = "starting"] /\ cport' = [cport EXCEPT ![d] = q]
    <3>1. alloc'[q] \in {d, Free} /\ \A x \in Ports \ {q} : alloc'[x] = alloc[x]
      BY <1>12, <2>1 DEF Runs, RunFails, Released, TypeOK
    <3>2. Exclusive'
      BY <1>a, <2>1, <2>3, <3>1, ExclusiveRuns
    <3>3. /\ cport'[d] = q /\ cont'[d] = "starting"
          /\ \A e \in Ids \ {d} : cont'[e] = cont[e] /\ cport'[e] = cport[e]
      BY <2>1, <2>3 DEF TypeOK
    <3>4. ~(d >= nextId)
      BY <1>p, <2>1, PresentIsOld
    <3>5. \A e \in Ids : e >= nextId' => cont'[e] = "none" /\ cport'[e] = NoPort
      BY <2>1, <3>3, <3>4 DEF Containers
    <3>6. rows'[d].port = NoPort /\ \A e \in Ids \ {d} : rows'[e] = rows[e]
      <4>1. rows[d].port = NoPort
        BY <1>a, <2>1 DEF Owner, Working, JobPcs
      <4> QED BY <1>12, <2>1, <4>1 DEF Runs, RunFails, Saved
    <3>7. \A e \in Ids : rows'[e].port # NoPort => cport'[e] = rows'[e].port
      BY <3>3, <3>6 DEF Containers
    <3>8. Contained(t)'
      BY <1>12, <3>3 DEF Runs, RunFails, Contained, Preparing, Switched
    <3>9. HostLocal(p)
      BY <2>1, <3>3 DEF HostLocal
    <3> QED BY <1>a, <1>p, <3>2, <3>5, <3>7, <3>8, <3>9, ContainersFrom
  <2> QED BY <1>12, <2>2, <2>3 DEF Runs, RunFails
<1> QED
  BY <1>1, <1>2, <1>3, <1>4, <1>5, <1>6, <1>7, <1>8, <1>9, <1>10, <1>11, <1>12 DEF Shape

LEMMA ContainersIdle ==
  ASSUME Containers, UNCHANGED <<rows, nextId, alloc, cont, cport>>, \A t \in Procs : Contained(t)'
  PROVE  Containers'
BY DEF Containers, Exclusive, Running

LEMMA ContainersAsk ==
  ASSUME TypeOK, Containers, NEW t \in Procs, NEW p \in Projects, Asked(t, p)
  PROVE  Containers'
<1>1. UNCHANGED <<rows, nextId, alloc, cont, cport>> /\ Others(t)
  BY DEF Asked
<1>2. Contained(t)'
  BY DEF Asked, Contained, Preparing, Switched
<1>3. ASSUME NEW u \in Procs, u # t PROVE Contained(u)'
  BY <1>1, <1>3 DEF Others, Containers, Contained
<1> QED BY <1>1, <1>2, <1>3, ContainersIdle

LEMMA ContainersCrash ==
  ASSUME Containers, UNCHANGED <<rows, nextId, alloc, cont, cport>>, job' = [t \in Procs |-> Idle]
  PROVE  Containers'
<1>1. \A t \in Procs : Contained(t)'
  BY IdleIs DEF Contained, Preparing, Switched
<1> QED BY <1>1, ContainersIdle

LEMMA ContainersUp ==
  ASSUME TypeOK, Containers, NEW d \in Ids, AppUp(d)
  PROVE  Containers'
<1> USE DEF db
<1>1. /\ UNCHANGED <<rows, nextId, alloc, cport, job>> /\ cont[d] = "starting" /\ cont'[d] = "up"
      /\ \A e \in Ids \ {d} : cont'[e] = cont[e]
  BY DEF AppUp, TypeOK
<1>2. \A e \in Ids : Running(e)' => Running(e)
  BY <1>1 DEF Running
<1>3. Exclusive'
  BY <1>1, <1>2, ExclusiveStays DEF Containers
<1>4. ASSUME NEW t \in Procs PROVE Contained(t)'
  <2>1. CASE job[t].id = d
    BY <1>1, <2>1 DEF Containers, Contained
  <2>2. CASE job[t].id # d
    <3>1. CASE job[t].pc \in Preparing \cup {"health", "flip"} \cup Switched
      <4>1. job[t].id \in Ids
        BY <3>1 DEF TypeOK, Placed, Rowless, Preparing, Switched
      <4> QED BY <1>1, <2>2, <4>1 DEF Containers, Contained
    <3>2. CASE job[t].pc \notin Preparing \cup {"health", "flip"} \cup Switched
      BY <1>1, <3>2 DEF Contained
    <3> QED BY <3>1, <3>2
  <2> QED BY <2>1, <2>2
<1>5. \A e \in Ids : e >= nextId => e # d
  BY <1>1 DEF Containers
<1> QED BY <1>1, <1>3, <1>4, <1>5 DEF Containers

-----------------------------------------------------------------------------
(* Layer 5.  A port that belongs to a project stays its own, unless the    *)
(* project gives it back.                                                  *)
LEMMA OwnedStays ==
  ASSUME TypeOK, Ownership, Reservations, Containers, NEW t \in Procs, Shape(t),
         NEW r \in Projects, NEW q, Owned(r, q),
         r = job[t].proj => ~RemovesRow(t) /\ ~RemovesPort(t) /\ (DrainsPort(t) => q = job[t].port)
  PROVE  Owned(r, q)'
<1> SUFFICES ASSUME q \in Ports PROVE Owned(r, q)'
  BY DEF Owned
<1> PICK p : p = job[t].proj
  OBVIOUS
<1> PICK d : d = job[t].id
  OBVIOUS
<1>e. PICK e \in Ids : rows[e].project = r /\ alloc[q] = e /\ cport[e] = q
  BY DEF Owned
<1>a. job[t].pc # "idle" /\ Reserving(t) /\ Contained(t) /\ job[t] \in Job /\ Placed(job[t])
  BY ShapeMoves DEF Reservations, Containers, TypeOK
<1>o. job[t].pc \in Working \cup Requests => d \in Ids /\ rows[d].project = p
  BY OwnRow
<1>1. CASE RemovesRow(t)
  <2>1. e \notin RowsOf(p)
    BY <1>e, <1>1 DEF RowsOf
  <2> QED BY <1>1, <1>e, <2>1 DEF RemovesRow, Orphaned, Owned
<1>2. ASSUME ~RemovesRow(t) PROVE rows'[e].project = r
  <2>1. CASE \/ Passes(t) \/ Routes(t) \/ Inserts(t) \/ Runs(t) \/ Reads(t) \/ Installs(t) \/ Lists(t)
             \/ DrainsContainer(t) \/ DrainsPort(t) \/ Leaves(t) \/ Stops(t) \/ RemovesContainer(t)
             \/ RemovesPort(t) \/ RemovesSite(t)
    BY <1>e, <2>1 DEF Passes, Routes, Inserts, Runs, Reads, Installs, Lists, DrainsContainer,
       DrainsPort, Leaves, Stops, RemovesContainer, RemovesPort, RemovesSite
  <2>2. CASE \/ Fails(t) \/ RunFails(t) \/ Succeeds(t) \/ StopsRow(t) \/ DrainsRow(t)
    BY <1>e, <2>2 DEF Fails, RunFails, Succeeds, StopsRow, DrainsRow, Saved
  <2>3. CASE Creates(t)
    <3>1. ~(e >= nextId)
      BY <1>e, PresentIsOld
    <3>2. e # nextId
      BY <2>3, <3>1, Constants DEF Creates
    <3> QED BY <1>e, <2>3, <3>2 DEF Creates
  <2> QED BY <1>2, <2>1, <2>2, <2>3 DEF Shape
<1>3. CASE Runs(t) \/ RunFails(t)
  <2>1. /\ job[t].pc = "run" /\ cport[d] = NoPort /\ alloc[job[t].cursor] = d /\ d \in Ids
        /\ job[t].cursor \in Ports
    BY <1>3, <1>a, <1>o DEF Runs, RunFails, Contained, Reserving, Preparing, Working, JobPcs, Placed
  <2>2. e # d
    BY <1>e, <2>1, Constants
  <2>3. job[t].cursor # q
    BY <1>e, <2>1, <2>2
  <2>4. cport'[e] = q /\ alloc'[q] = e
    BY <1>3, <1>e, <2>1, <2>2, <2>3 DEF Runs, RunFails, Released, TypeOK
  <2>5. ~RemovesRow(t)
    BY <2>1 DEF RemovesRow
  <2> QED BY <1>2, <2>4, <2>5 DEF Owned
<1>4. CASE Inserts(t)
  <2>1. job[t].cursor # q
    BY <1>4, <1>e, Constants DEF Inserts
  <2>2. cport'[e] = q /\ alloc'[q] = e /\ ~RemovesRow(t)
    BY <1>4, <1>e, <2>1 DEF Inserts, TypeOK, RemovesRow
  <2> QED BY <1>2, <2>2 DEF Owned
<1>5. CASE DrainsPort(t)
  <2>1. PICK c \in Draining(t) : alloc' = Released(c.port)
    BY <1>5 DEF DrainsPort
  <2>2. c.port \in Ports /\ c.id # d /\ rows[c.id].project = p /\ alloc[c.port] = c.id
    BY <1>5, DrainedRow, DrainedPort DEF DrainsPort
  <2>3. job[t].port # NoPort => alloc[job[t].port] = d
    BY <1>a, <1>5 DEF DrainsPort, Reserving, Switched
  <2>4. c.port # q
    <3>1. CASE r = p
      BY <1>5, <2>2, <2>3, <3>1, Constants
    <3>2. CASE r # p
      BY <1>e, <2>2, <3>2
    <3> QED BY <3>1, <3>2
  <2>5. cport'[e] = q /\ alloc'[q] = e /\ ~RemovesRow(t)
    BY <1>5, <1>e, <2>1, <2>2, <2>4 DEF DrainsPort, Released, TypeOK, RemovesRow
  <2> QED BY <1>2, <2>5 DEF Owned
<1>6. CASE RemovesPort(t)
  <2>1. job[t].port \in Ports /\ alloc[job[t].port] = d /\ rows[d].project = p
    BY <1>6, <1>o, RemovedPort DEF RemovesPort, Requests
  <2>2. job[t].port # q
    BY <1>6, <1>e, <2>1
  <2>3. cport'[e] = q /\ alloc'[q] = e /\ ~RemovesRow(t)
    BY <1>6, <1>e, <2>1, <2>2 DEF RemovesPort, Released, TypeOK, RemovesRow
  <2> QED BY <1>2, <2>3 DEF Owned
<1>7. CASE \/ Passes(t) \/ Fails(t) \/ Creates(t) \/ Routes(t) \/ Reads(t) \/ Installs(t) \/ Lists(t)
           \/ DrainsContainer(t) \/ DrainsRow(t) \/ Succeeds(t) \/ Leaves(t) \/ Stops(t) \/ StopsRow(t)
           \/ RemovesContainer(t) \/ RemovesSite(t)
  <2>1. UNCHANGED <<alloc, cport>> /\ job[t].pc # "rmRow"
    BY <1>7 DEF Passes, Fails, Creates, Routes, Reads, Installs, Lists, DrainsContainer, DrainsRow,
       Succeeds, Leaves, Stops, StopsRow, RemovesContainer, RemovesSite, Preparing
  <2>2. ~RemovesRow(t)
    BY <2>1 DEF RemovesRow
  <2> QED BY <1>2, <1>e, <2>1, <2>2 DEF Owned
<1> QED BY <1>1, <1>3, <1>4, <1>5, <1>6, <1>7 DEF Shape

LEMMA NoPortOwned ==
  ASSUME NEW r, NEW q \in {NoSite, StaticRoot}
  PROVE  Owned(r, q)
BY Constants DEF Owned, NoSite, StaticRoot

LEMMA SafeStep ==
  ASSUME TypeOK, TypeOK', Ownership, Reservations, Containers, Edge, NEW t \in Procs, Shape(t),
         NEW r \in Projects
  PROVE  Safe(r)'
<1> PICK p : p = job[t].proj
  OBVIOUS
<1> PICK d : d = job[t].id
  OBVIOUS
<1>a. /\ job[t].pc # "idle" /\ Others(t) /\ Owner(t) /\ Reserving(t) /\ Contained(t) /\ OnEdge(t)
      /\ job[t] \in Job
  BY ShapeMoves DEF Ownership, Reservations, Containers, Edge, TypeOK
<1>p. p \in Projects /\ \A u \in Procs \ {t} : job[u].proj # p
  BY <1>a, Mover
<1>s. Safe(r) /\ Followed(r)
  BY DEF Edge
<1> DEFINE Window == {"rmSite", "rmReload", "rmInstall"}
<1>w. SUFFICES ASSUME \A u \in Procs : job'[u].proj = r => job'[u].pc \notin Window
      PROVE  Owned(r, site[r])' /\ Owned(r, route[r])'
  BY DEF Safe
<1>u. \A u \in Procs \ {t} : job[u].proj = r => job[u].pc \notin Window
  BY <1>a, <1>w DEF Others
<1>o. ASSUME r # p \/ job[t].pc \notin Window PROVE Owned(r, site[r]) /\ Owned(r, route[r])
  BY <1>o, <1>s, <1>u DEF Safe
<1> PICK x : x = site[r]
  OBVIOUS
<1> PICK y : y = route[r]
  OBVIOUS
<1> HIDE DEF Window
<1>k. ASSUME r # p PROVE Owned(r, x)' /\ Owned(r, y)'
  BY <1>k, <1>o, OwnedStays
<1>1. CASE RemovesRow(t)
  <2>1. UNCHANGED <<site, route>> /\ job[t].pc = "rmRow"
    BY <1>1 DEF RemovesRow
  <2>2. CASE r # p
    BY <1>k, <2>1, <2>2
  <2>3. CASE r = p
    <3>1. Settled(p)
      BY <1>p, <2>1 DEF Settled, Switching
    <3>2. site'[p] = NoSite /\ route'[p] = NoSite
      BY <1>a, <1>s, <2>1, <2>3, <3>1 DEF OnEdge, Followed
    <3>3. site'[r] \in {NoSite, StaticRoot} /\ route'[r] \in {NoSite, StaticRoot}
      BY <2>3, <3>2
    <3> QED BY <3>3, Constants DEF Owned, NoSite, StaticRoot
  <2> QED BY <2>2, <2>3
<1>2. CASE RemovesPort(t) \/ RemovesSite(t)
  <2>1. /\ job[t].pc \in {"rmPort", "rmSite"} /\ job'[t].pc \in {"rmSite", "rmReload"}
        /\ job'[t].proj = p
        /\ UNCHANGED route /\ \A z \in Projects \ {p} : site'[z] = site[z]
    BY <1>2, <1>p DEF RemovesPort, RemovesSite, Held4, Kept, TypeOK, Sites
  <2>2. r # p
    BY <1>w, <2>1 DEF Window
  <2>3. site'[r] = x /\ route'[r] = y
    BY <2>1, <2>2
  <2> QED BY <1>k, <2>2, <2>3
<1>3. CASE Routes(t)
  <2>1. /\ job[t].pc \in {"publish", "flip"} /\ UNCHANGED <<rows, alloc, cport, route>>
        /\ site' = [site EXCEPT ![p] = job[t].port]
    BY <1>3 DEF Routes
  <2>2. ~RemovesRow(t) /\ ~RemovesPort(t) /\ ~DrainsPort(t) /\ job[t].pc \notin Window
    BY <2>1 DEF RemovesRow, RemovesPort, DrainsPort, Window
  <2>3. Owned(r, x)' /\ Owned(r, y)'
    BY <1>o, <2>2, OwnedStays
  <2>4. CASE r # p
    BY <2>1, <2>3, <2>4 DEF TypeOK, Sites
  <2>5. CASE r = p
    <3>1. site'[r] = job[t].port
      BY <2>1, <2>5, <1>p DEF TypeOK, Sites
    <3>2. CASE job[t].port = NoPort
      BY <2>1, <2>3, <3>1, <3>2, Constants DEF Owned
    <3>3. CASE job[t].port # NoPort
      <4>1. job[t].pc = "flip"
        BY <1>a, <2>1, <3>3 DEF Owner, Preparing
      <4>2. d \in Ids /\ rows[d].project = p
        BY <4>1, OwnRow DEF Working, JobPcs
      <4>3. alloc[job[t].port] = d /\ cport[d] = job[t].port
        BY <1>a, <3>3, <4>1 DEF Reserving, Contained
      <4> QED BY <2>1, <2>3, <2>5, <3>1, <4>2, <4>3 DEF Owned
    <3> QED BY <3>2, <3>3
  <2> QED BY <2>4, <2>5
<1>4. CASE Installs(t)
  <2>1. /\ job[t].pc \in {"install", "rmInstall"} /\ UNCHANGED <<rows, alloc, cport, site>>
        /\ route' = job[t].snap
    BY <1>4 DEF Installs
  <2>2. /\ Reloading(job[t])
        /\ ~RemovesRow(t) /\ ~RemovesPort(t) /\ ~DrainsPort(t)
    BY <2>1 DEF Reloading, RemovesRow, RemovesPort, DrainsPort
  <2>3. route'[r] \in {x, y} /\ site'[r] = x
    BY <1>a, <2>1, <2>2 DEF OnEdge
  <2>4. CASE r # p \/ job[t].pc = "install"
    <3>1. Owned(r, x) /\ Owned(r, y)
      BY <1>o, <2>4 DEF Window
    <3>2. Owned(r, x)' /\ Owned(r, y)'
      BY <2>2, <3>1, OwnedStays
    <3> QED BY <2>3, <3>2
  <2>5. CASE r = p /\ job[t].pc = "rmInstall"
    <3>1. site[p] = NoSite /\ job[t].snap[p] = site[p]
      BY <1>a, <2>2, <2>5 DEF OnEdge
    <3>2. site'[r] \in {NoSite, StaticRoot} /\ route'[r] \in {NoSite, StaticRoot}
      BY <2>1, <2>5, <3>1
    <3> QED BY <3>2, Constants DEF Owned, NoSite, StaticRoot
  <2> QED BY <2>1, <2>4, <2>5
<1>5. CASE \/ Passes(t) \/ Fails(t) \/ Creates(t) \/ Inserts(t) \/ Runs(t) \/ RunFails(t) \/ Reads(t)
           \/ Lists(t) \/ DrainsContainer(t) \/ DrainsPort(t) \/ DrainsRow(t) \/ Succeeds(t) \/ Leaves(t)
           \/ Stops(t) \/ StopsRow(t) \/ RemovesContainer(t)
  <2>1. UNCHANGED <<site, route>> /\ job[t].pc \notin {"rmRow", "rmPort", "rmSite", "rmInstall"}
    BY <1>5 DEF Passes, Fails, Creates, Inserts, Runs, RunFails, Reads, Lists, DrainsContainer,
       DrainsPort, DrainsRow, Succeeds, Leaves, Stops, StopsRow, RemovesContainer, Preparing
  <2>2. ~RemovesRow(t) /\ ~RemovesPort(t)
    BY <2>1 DEF RemovesRow, RemovesPort
  <2>3. CASE r # p
    BY <1>k, <2>1, <2>3
  <2>4. CASE r = p
    <3>1. job[t].pc \notin Window
      <4>1. CASE Reads(t)
        BY <1>w, <2>1, <2>4, <4>1 DEF Reads, Kept, Window
      <4>2. CASE ~Reads(t)
        BY <1>5, <4>2 DEF Passes, Fails, Creates, Inserts, Runs, RunFails, Lists, DrainsContainer,
           DrainsPort, DrainsRow, Succeeds, Leaves, Stops, StopsRow, RemovesContainer, Preparing, Window
      <4> QED BY <4>1, <4>2
    <3>2. DrainsPort(t) => x = job[t].port /\ y = job[t].port
      <4> SUFFICES ASSUME job[t].pc = "drainPort" PROVE x = job[t].port /\ y = job[t].port
        BY DEF DrainsPort
      <4>1. Settled(p)
        BY <1>p DEF Settled, Switching
      <4> QED BY <1>a, <1>s, <2>4, <4>1 DEF OnEdge, Followed, Switched
    <3>3. Owned(r, x) /\ Owned(r, y)
      BY <1>o, <3>1
    <3>4. Owned(r, x)' /\ Owned(r, y)'
      BY <2>2, <3>2, <3>3, OwnedStays
    <3> QED BY <2>1, <3>4
  <2> QED BY <2>3, <2>4
<1> QED BY <1>1, <1>2, <1>3, <1>4, <1>5 DEF Shape

(* The step neither writes a site nor touches the router.                  *)
LEMMA EdgeFrom ==
  ASSUME TypeOK, TypeOK', Edge, NEW t \in Procs, Others(t), UNCHANGED <<site, route>>,
         job[t].pc \notin Switching, job'[t].pc \notin Switching \cup {"rmRow"},
         job'[t].pc \in Switched =>
           job[t].pc \in Switched /\ job'[t].proj = job[t].proj /\ job'[t].port = job[t].port,
         \A r \in Projects : Safe(r)'
  PROVE  Edge'
<1>1. \A u \in Procs : Reloading(job'[u]) => Reloading(job[u]) /\ u # t /\ job'[u] = job[u]
  BY DEF Others, Reloading, Switching
<1>2. OneReloading'
  BY <1>1 DEF Edge, OneReloading
<1>3. ASSUME NEW u \in Procs PROVE OnEdge(u)'
  <2>1. CASE u = t
    BY <2>1 DEF Edge, OnEdge, Switching, Reloading
  <2>2. CASE u # t
    <3>1. job'[u] = job[u]
      BY <2>2 DEF Others
    <3> QED BY <3>1 DEF Edge, OnEdge
  <2> QED BY <2>1, <2>2
<1>4. ASSUME NEW r \in Projects PROVE Followed(r)'
  <2>1. Settled(r)' => Settled(r)
    BY DEF Settled, Others
  <2> QED BY <1>1, <2>1 DEF Edge, Followed
<1> QED BY <1>2, <1>3, <1>4 DEF Edge

(* The site of t's project is written.                                     *)
LEMMA EdgeWrites ==
  ASSUME TypeOK, TypeOK', Ownership, Edge, NEW t \in Procs, Others(t),
         NEW p \in Projects, p = job[t].proj, job'[t].proj = p,
         \A u \in Procs \ {t} : job[u].proj # p,
         NEW q, site' = [site EXCEPT ![p] = q], UNCHANGED route,
         job[t].pc \notin Switching,
         \/ job'[t].pc = "reload" /\ job'[t].port = q
         \/ job'[t].pc = "rmReload" /\ q = NoSite,
         \A r \in Projects : Safe(r)'
  PROVE  Edge'
<1>1. \A u \in Procs : Reloading(job'[u]) => Reloading(job[u]) /\ u # t /\ job'[u] = job[u]
  BY DEF Others, Reloading, Switching
<1>2. OneReloading'
  BY <1>1 DEF Edge, OneReloading
<1>3. site'[p] = q /\ \A r \in Projects \ {p} : site'[r] = site[r]
  BY DEF TypeOK, Sites
<1>4. Settled(p)
  BY DEF Settled, Switching
<1>5. ASSUME NEW u \in Procs PROVE OnEdge(u)'
  <2>1. CASE u = t
    BY <1>3, <2>1 DEF OnEdge, Switched, Reloading
  <2>2. CASE u # t
    <3> PICK j \in Job : j = job[u]
      BY DEF TypeOK
    <3>1. job'[u] = j /\ OnEdge(u) /\ Placed(j) /\ j.proj # p
      BY <2>2 DEF Others, Edge, TypeOK
    <3>2. CASE j.pc = "idle"
      BY <3>1, <3>2 DEF OnEdge, Switched, Reloading
    <3>3. CASE j.pc # "idle"
      <4>1. j.proj \in Projects \ {p}
        BY <3>1, <3>3 DEF Placed
      <4>2. site'[j.proj] = site[j.proj]
        BY <1>3, <4>1
      <4>3. ASSUME Reloading(j), NEW r \in Projects PROVE j.snap[r] \in {site'[r], route[r]}
        <5>1. CASE r = p
          BY <1>4, <4>3, <5>1 DEF Edge, Followed
        <5>2. CASE r # p
          BY <1>3, <3>1, <4>3, <5>2 DEF OnEdge
        <5> QED BY <5>1, <5>2
      <4> QED BY <3>1, <4>2, <4>3 DEF OnEdge
    <3> QED BY <3>2, <3>3
  <2> QED BY <2>1, <2>2
<1>6. ASSUME NEW r \in Projects PROVE Followed(r)'
  <2>1. CASE r = p
    <3>1. ~Settled(r)'
      BY <2>1 DEF Settled, Switching
    <3> QED BY <3>1 DEF Followed
  <2>2. CASE r # p
    <3>1. Settled(r)' => Settled(r)
      BY <2>2 DEF Settled, Others
    <3> QED BY <1>1, <1>3, <2>2, <3>1 DEF Edge, Followed
  <2> QED BY <2>1, <2>2
<1> QED BY <1>2, <1>5, <1>6 DEF Edge

LEMMA EdgeStep ==
  ASSUME TypeOK, TypeOK', Ownership, Reservations, Containers, Edge, NEW t \in Procs, Shape(t),
         OneReload
  PROVE  Edge'
<1> PICK p : p = job[t].proj
  OBVIOUS
<1>a. /\ job[t].pc # "idle" /\ Others(t) /\ Owner(t) /\ OnEdge(t) /\ job[t] \in Job
  BY ShapeMoves DEF Ownership, Edge, TypeOK
<1>p. p \in Projects /\ \A u \in Procs \ {t} : job[u].proj # p
  BY <1>a, Mover
<1>s. \A r \in Projects : Safe(r)'
  BY SafeStep
<1>1. CASE Routes(t)
  BY <1>1, <1>a, <1>p, <1>s, EdgeWrites DEF Routes, Held4, Kept, Switching
<1>2. CASE RemovesSite(t)
  BY <1>2, <1>a, <1>p, <1>s, EdgeWrites DEF RemovesSite, Held4, Kept, Switching
<1>3. CASE Reads(t)
  <2>1. /\ UNCHANGED <<site, route>> /\ job'[t].snap = site /\ Kept(t)
        /\ \/ job[t].pc = "reload" /\ job'[t].pc = "install"
           \/ job[t].pc = "rmReload" /\ job'[t].pc = "rmInstall"
    BY <1>3 DEF Reads
  <2>2. \A u \in Procs \ {t} : job'[u] = job[u] /\ ~Reloading(job[u])
    BY <1>a, <2>1 DEF Others, OneReload, Reloading
  <2>3. OneReloading'
    BY <2>2 DEF OneReloading
  <2>4. ASSUME NEW u \in Procs PROVE OnEdge(u)'
    <3>1. CASE u = t
      BY <1>a, <2>1, <3>1 DEF OnEdge, Kept, Switched
    <3>2. CASE u # t
      BY <2>1, <2>2, <3>2 DEF OnEdge, Edge
    <3> QED BY <3>1, <3>2
  <2>5. ASSUME NEW r \in Projects PROVE Followed(r)'
    <3>1. Settled(r)' => Settled(r)
      BY <2>1, <2>2 DEF Settled, Kept, Switching
    <3>2. \A u \in Procs : Reloading(job'[u]) => job'[u].snap = site
      BY <2>1, <2>2
    <3> QED BY <2>1, <3>1, <3>2 DEF Followed, Edge
  <2> QED BY <1>s, <2>3, <2>4, <2>5 DEF Edge
<1>4. CASE Installs(t)
  <2>1. /\ UNCHANGED site /\ route' = job[t].snap /\ Kept(t)
        /\ \/ job[t].pc = "install" /\ job'[t].pc \in {"succeed", "list"}
           \/ job[t].pc = "rmInstall" /\ job'[t].pc = "rmRow"
    BY <1>4 DEF Installs
  <2>2. Reloading(job[t]) /\ ~Reloading(job'[t])
    BY <2>1 DEF Reloading
  <2>3. \A u \in Procs \ {t} : job'[u] = job[u] /\ ~Reloading(job[u])
    BY <1>a, <2>2 DEF Others, Edge, OneReloading
  <2>4. \A u \in Procs : ~Reloading(job'[u])
    BY <2>2, <2>3
  <2>5. OneReloading'
    BY <2>4 DEF OneReloading
  <2>6. ASSUME NEW u \in Procs PROVE OnEdge(u)'
    <3>1. CASE u = t
      BY <1>a, <2>1, <2>2, <3>1 DEF OnEdge, Kept, Switched
    <3>2. CASE u # t
      BY <2>1, <2>3, <3>2 DEF OnEdge, Edge
    <3> QED BY <3>1, <3>2
  <2>7. ASSUME NEW r \in Projects PROVE Followed(r)'
    <3>1. CASE r = p
      BY <1>a, <2>1, <2>2, <2>4, <3>1 DEF OnEdge, Followed
    <3>2. CASE r # p
      <4>1. Settled(r)' => Settled(r)
        BY <2>3, <3>2 DEF Settled
      <4>2. Settled(r) => job[t].snap[r] = site[r]
        BY <2>2 DEF Edge, Followed
      <4> QED BY <2>1, <2>4, <4>1, <4>2 DEF Followed
    <3> QED BY <3>1, <3>2
  <2> QED BY <1>s, <2>5, <2>6, <2>7 DEF Edge
<1>5. CASE Passes(t) \/ Fails(t) \/ Creates(t) \/ Inserts(t) \/ Runs(t) \/ RunFails(t) \/ Lists(t)
  <2>1. UNCHANGED <<site, route>>
    BY <1>5 DEF Passes, Fails, Creates, Inserts, Runs, RunFails, Lists
  <2>2. job[t].pc \notin Switching /\ job'[t].pc \notin Switching \cup {"rmRow"}
    BY <1>5 DEF Passes, Fails, Creates, Inserts, Runs, RunFails, Lists, Preparing, Switching
  <2>3. job'[t].pc \in Switched =>
          job[t].pc \in Switched /\ job'[t].proj = job[t].proj /\ job'[t].port = job[t].port
    BY <1>5 DEF Passes, Fails, Creates, Inserts, Runs, RunFails, Lists, Kept, Switched
  <2> QED BY <1>a, <1>s, <2>1, <2>2, <2>3, EdgeFrom
<1>6. CASE \/ DrainsContainer(t) \/ DrainsPort(t) \/ DrainsRow(t) \/ Succeeds(t) \/ Leaves(t)
           \/ Stops(t) \/ StopsRow(t) \/ RemovesContainer(t) \/ RemovesPort(t) \/ RemovesRow(t)
  <2>1. UNCHANGED <<site, route>>
    BY <1>6 DEF DrainsContainer, DrainsPort, DrainsRow, Succeeds, Leaves, Stops, StopsRow,
       RemovesContainer, RemovesPort, RemovesRow
  <2>2. job[t].pc \notin Switching /\ job'[t].pc \notin Switching \cup {"rmRow"}
    BY <1>6, IdleIs DEF DrainsContainer, DrainsPort, DrainsRow, Succeeds, Leaves, Stops, StopsRow,
       RemovesContainer, RemovesPort, RemovesRow, Switching
  <2>3. job'[t].pc \in Switched =>
          job[t].pc \in Switched /\ job'[t].proj = job[t].proj /\ job'[t].port = job[t].port
    BY <1>6, IdleIs DEF DrainsContainer, DrainsPort, DrainsRow, Succeeds, Leaves, Stops, StopsRow,
       RemovesContainer, RemovesPort, RemovesRow, Held4, Kept, Switched
  <2> QED BY <1>a, <1>s, <2>1, <2>2, <2>3, EdgeFrom
<1> QED BY <1>1, <1>2, <1>3, <1>4, <1>5, <1>6 DEF Shape

LEMMA EdgeAsk ==
  ASSUME TypeOK, TypeOK', Edge, NEW t \in Procs, NEW p \in Projects, Asked(t, p)
  PROVE  Edge'
<1>1. /\ Others(t) /\ UNCHANGED <<rows, alloc, cport, site, route>> /\ job[t].pc = "idle"
      /\ job'[t].pc \notin Switching \cup Switched \cup {"rmRow"}
  BY DEF Asked, Switching, Switched
<1>2. ASSUME NEW r \in Projects PROVE Safe(r)'
  <2>1. Safe(r)
    BY DEF Edge
  <2>2. (\A u \in Procs : job'[u].proj = r => job'[u].pc \notin {"rmSite", "rmReload", "rmInstall"})
          => \A u \in Procs : job[u].proj = r => job[u].pc \notin {"rmSite", "rmReload", "rmInstall"}
    BY <1>1 DEF Others
  <2> PICK x : x = site[r]
    OBVIOUS
  <2> PICK y : y = route[r]
    OBVIOUS
  <2>3. Owned(r, x)' = Owned(r, x) /\ Owned(r, y)' = Owned(r, y)
    BY <1>1 DEF Owned
  <2> QED BY <1>1, <2>1, <2>2, <2>3 DEF Safe
<1> QED BY <1>1, <1>2, EdgeFrom DEF Switching

LEMMA EdgeStays ==
  ASSUME Edge, UNCHANGED <<rows, alloc, cport, site, route, job>>
  PROVE  Edge'
BY DEF Edge, OneReloading, OnEdge, Followed, Settled, Safe, Owned

(* The watcher installs what is in the files.                              *)
LEMMA EdgeWatcher ==
  ASSUME Edge, UNCHANGED <<rows, alloc, cport, site, job>>, route' = site, route # site, OneReload
  PROVE  Edge'
<1>1. \A u \in Procs : ~Reloading(job[u])
  BY DEF OneReload
<1>2. OneReloading' /\ \A u \in Procs : OnEdge(u)'
  BY <1>1 DEF Edge, OneReloading, OnEdge
<1>3. \A r \in Projects : Followed(r)'
  BY <1>1 DEF Followed
<1>4. \A r \in Projects : Safe(r)'
  BY DEF Edge, Safe, Owned
<1> QED BY <1>2, <1>3, <1>4 DEF Edge

LEMMA EdgeCrash ==
  ASSUME Edge, UNCHANGED <<rows, alloc, cport, site>>, job' = [t \in Procs |-> Idle],
         route' = site, ~HalfReleased
  PROVE  Edge'
<1>1. \A u \in Procs : job'[u] = Idle /\ ~Reloading(job'[u])
  BY IdleIs DEF Reloading
<1>2. OneReloading' /\ \A u \in Procs : OnEdge(u)'
  BY <1>1, IdleIs DEF OneReloading, OnEdge, Switched
<1>3. \A r \in Projects : Followed(r)'
  BY <1>1 DEF Followed
<1>4. ASSUME NEW r \in Projects PROVE Safe(r)'
  <2>1. Owned(r, site[r])
    BY DEF HalfReleased, Edge, Safe
  <2> QED BY <2>1 DEF Safe, Owned
<1> QED BY <1>2, <1>3, <1>4 DEF Edge

-----------------------------------------------------------------------------
(* Layer 6.                                                                *)
LEMMA FaultlessFrom ==
  ASSUME TypeOK, TypeOK', Ownership, Ownership', Faultless, NEW t \in Procs, Others(t),
         NEW p \in Projects, \A u \in Procs \ {t} : job[u].proj # p, RowsLocal(p),
         \A e \in Ids : rows[e].project # p => (Running(e)' => Running(e)),
         ReservedWhileRunning', Down(t)',
         \A e \in Ids : rows'[e].project = p /\ rows'[e].port # NoPort /\ rows'[e].status = "stopped"
           => ~Running(e)',
         \A e \in Ids : rows'[e].project = p => Cleaned(e)'
  PROVE  Faultless'
<1>1. ASSUME NEW e \in Ids, rows'[e].project # p, rows'[e] # NoRow
      PROVE  /\ rows'[e] = rows[e] /\ rows[e].project \in Projects \ {p}
             /\ Running(e)' => Running(e)
  <2>1. rows'[e].project \in Projects \ {p}
    BY <1>1 DEF Ownership, FreshRows, TypeOK, Row
  <2>2. rows'[e] = rows[e]
    BY <2>1, NoProjectAssumption DEF RowsLocal
  <2> QED BY <2>1, <2>2
<1>2. StoppedAreDown'
  <2> SUFFICES ASSUME NEW e \in Ids, rows'[e].port # NoPort, rows'[e].status = "stopped"
               PROVE  ~Running(e)'
    BY DEF StoppedAreDown
  <2>1. CASE rows'[e].project = p
    BY <2>1
  <2>2. CASE rows'[e].project # p
    <3>1. rows'[e] # NoRow
      BY DEF NoRow
    <3>2. rows'[e] = rows[e] /\ (Running(e)' => Running(e))
      BY <1>1, <2>2, <3>1
    <3> QED BY <3>2 DEF Faultless, StoppedAreDown
  <2> QED BY <2>1, <2>2
<1>3. ASSUME NEW u \in Procs PROVE Down(u)'
  <2>1. CASE u = t
    BY <2>1
  <2>2. CASE u # t
    <3> PICK j \in Job : j = job[u]
      BY DEF TypeOK
    <3>1. job'[u] = j /\ Down(u) /\ j.proj # p /\ Draining(u)' = Draining(u)
      BY <2>2 DEF Others, Faultless, Draining
    <3>2. ASSUME NEW c \in Draining(u), Running(c.id)' PROVE Running(c.id)
      <4>1. c.id \in Ids /\ rows[c.id].project # p
        BY <3>1, DrainedRow
      <4> PICK x \in Ids : x = c.id
        BY <4>1
      <4>2. Running(x)' => Running(x)
        BY <4>1
      <4> QED BY <3>2, <4>2
    <3>3. ASSUME j.pc \in Requests, Running(j.id)' PROVE Running(j.id)
      <4>1. j.id \in Ids /\ rows[j.id].project # p
        BY <3>1, <3>3, OwnRow
      <4> QED BY <3>3, <4>1
    <3>4. "rmPort" \in Requests /\ "stopRow" \in Requests
      BY DEF Requests
    <3> QED BY <3>1, <3>2, <3>3, <3>4 DEF Down
  <2> QED BY <2>1, <2>2
<1>4. ASSUME NEW d \in Ids PROVE Cleaned(d)'
  <2>1. CASE rows'[d].project = p
    BY <2>1
  <2>2. CASE rows'[d] = NoRow
    BY <2>2 DEF Cleaned, NoRow
  <2>3. CASE rows'[d].project # p /\ rows'[d] # NoRow
    <3> PICK r \in Projects \ {p} : r = rows[d].project
      BY <1>1, <2>3
    <3>1. rows'[d] = rows[d] /\ rows'[d].project = r
      BY <1>1, <2>3
    <3>2. \A e \in Ids : rows[e].project = r \/ rows'[e].project = r => rows'[e] = rows[e]
      BY NoProjectAssumption DEF RowsLocal
    <3>3. RowsOf(r)' = RowsOf(r)
      BY <3>2 DEF RowsOf
    <3>4. IsLatest(d, r)' => IsLatest(d, r)
      BY <3>3 DEF IsLatest
    <3>5. \A e \in RowsOf(r) : e \in Ids /\ rows'[e] = rows[e] /\ (Running(e)' => Running(e))
      BY <3>2 DEF RowsOf
    <3>6. Cleaned(d)
      BY DEF Faultless
    <3>7. IsLatest(d, r)' /\ rows[d].status = "running" =>
            \A e \in RowsOf(r) \ {d} : rows[e].port # NoPort => ~Running(e)'
      BY <3>4, <3>5, <3>6 DEF Cleaned
    <3> QED BY <3>1, <3>3, <3>5, <3>7 DEF Cleaned
  <2> QED BY <2>1, <2>2, <2>3
<1> QED BY <1>2, <1>3, <1>4 DEF Faultless

(* No row is written and no container started.                             *)
LEMMA QuietFaultless ==
  ASSUME TypeOK, TypeOK', Ownership, Ownership', Faultless, NEW t \in Procs, Others(t),
         job[t].pc # "idle", UNCHANGED rows, \A e \in Ids : Running(e)' => Running(e),
         ReservedWhileRunning', Down(t)'
  PROVE  Faultless'
<1> PICK p \in Projects : p = job[t].proj
  BY Mover
<1>1. \A u \in Procs \ {t} : job[u].proj # p
  BY Mover
<1>2. ASSUME NEW e \in Ids PROVE Cleaned(e)'
  <2> PICK r : r = rows[e].project
    OBVIOUS
  <2>1. RowsOf(r)' = RowsOf(r) /\ (IsLatest(e, r)' <=> IsLatest(e, r)) /\ RowsOf(r) \subseteq Ids
    BY LatestStays DEF RowsOf
  <2> QED BY <2>1 DEF Faultless, Cleaned
<1>3. \A e \in Ids : rows'[e].port # NoPort /\ rows'[e].status = "stopped" => ~Running(e)'
  BY DEF Faultless, StoppedAreDown
<1> QED BY <1>1, <1>2, <1>3, FaultlessFrom DEF RowsLocal

(* A row is saved.                                                         *)
LEMMA SavedFaultless ==
  ASSUME TypeOK, TypeOK', Ownership, Ownership', Faultless, NEW t \in Procs, Others(t),
         job[t].pc # "idle", NEW d \in Ids, NEW s, NEW q, Saved(d, s, q), rows[d].project = job[t].proj,
         \A e \in Ids : Running(e)' <=> Running(e), ReservedWhileRunning', Down(t)',
         s = "stopped" /\ q # NoPort => ~Running(d),
         s = "running" => \A e \in RowsOf(job[t].proj) \ {d} : rows[e].port # NoPort => ~Running(e),
         IsLatest(d, job[t].proj) \/ (s = "stopped" /\ rows[d].port = q)
  PROVE  Faultless'
<1> PICK p \in Projects : p = job[t].proj
  BY Mover
<1>1. (\A u \in Procs \ {t} : job[u].proj # p) /\ RowsLocal(p)
  BY Mover DEF RowsLocal, Saved
<1>2. \A e \in Ids : rows'[e].project = rows[e].project
  BY DEF Saved
<1>3. /\ RowsOf(p)' = RowsOf(p) /\ RowsOf(p) \subseteq Ids
      /\ \A e \in Ids : IsLatest(e, p)' <=> IsLatest(e, p)
  BY <1>2, LatestStays DEF RowsOf
<1>4. ASSUME NEW e \in Ids, rows'[e].port # NoPort, rows'[e].status = "stopped" PROVE ~Running(e)'
  BY <1>4 DEF Saved, Faultless, StoppedAreDown
<1>5. ASSUME NEW e \in Ids, rows'[e].project = p PROVE Cleaned(e)'
  <2> SUFFICES ASSUME IsLatest(e, p)', rows'[e].status = "running", NEW f \in RowsOf(p)' \ {e},
                      rows'[f].port # NoPort
               PROVE  ~Running(f)'
    BY <1>5 DEF Cleaned
  <2>1. f \in Ids /\ f \in RowsOf(p) /\ IsLatest(e, p) /\ d \in RowsOf(p)
    BY <1>3 DEF RowsOf
  <2>2. CASE e = d
    <3>1. s = "running" /\ rows'[f] = rows[f]
      BY <2>1, <2>2 DEF Saved
    <3> QED BY <2>1, <2>2, <3>1
  <2>3. CASE e # d
    <3>1. rows'[e] = rows[e] /\ rows[e].project = p
      BY <1>2, <1>5, <2>3 DEF Saved
    <3>2. ~IsLatest(d, p)
      <4>1. e \in RowsOf(p) /\ d \in Nat /\ e \in Nat
        BY <2>1, Constants DEF IsLatest
      <4> QED BY <2>1, <2>3, <4>1 DEF IsLatest
    <3>3. rows'[d].port = rows[d].port
      BY <3>2 DEF Saved
    <3>4. rows[f].port # NoPort
      BY <2>1, <3>3 DEF Saved
    <3>5. Cleaned(e)
      BY DEF Faultless
    <3>6. ~Running(f)
      BY <2>1, <3>1, <3>4, <3>5 DEF Cleaned
    <3> QED BY <2>1, <3>6
  <2> QED BY <2>2, <2>3
<1> QED BY <1>1, <1>4, <1>5, FaultlessFrom

(* Ports change hands only where nothing runs.                             *)
LEMMA ReservedStays ==
  ASSUME TypeOK, Containers, ReservedWhileRunning, UNCHANGED cport,
         \A e \in Ids : Running(e)' => Running(e),
         \A q \in Ports : \/ alloc'[q] = alloc[q] \/ alloc[q] = Free \/ alloc'[q] = Orphan
                          \/ \E x \in Ids : alloc[q] = x /\ ~Running(x)
  PROVE  ReservedWhileRunning'
<1> SUFFICES ASSUME NEW d \in Ids, Running(d)' PROVE alloc'[cport[d]] \in {d, Orphan}
  BY DEF ReservedWhileRunning
<1> PICK q : q = cport[d]
  OBVIOUS
<1>1. Running(d) /\ q \in Ports /\ alloc[q] \in {d, Orphan}
  BY DEF Containers, Exclusive, TypeOK, ReservedWhileRunning
<1> QED BY <1>1, Constants DEF Orphan, Free

LEMMA FaultlessStep ==
  ASSUME TypeOK, TypeOK', Ownership, Ownership', Kinds, Reservations, Containers, Faultless,
         ~AgentFaults, NEW t \in Procs, Shape(t)
  PROVE  Faultless'
<1> PICK p : p = job[t].proj
  OBVIOUS
<1> PICK d : d = job[t].id
  OBVIOUS
<1>a. /\ job[t].pc # "idle" /\ Others(t) /\ RowsLocal(p) /\ Owner(t) /\ Copies(t) /\ KindOf(t)
      /\ Reserving(t) /\ Contained(t) /\ Down(t) /\ job[t] \in Job /\ Placed(job[t])
      /\ ReservedWhileRunning /\ StoppedAreDown
  BY ShapeMoves DEF Ownership, Kinds, Reservations, Containers, Faultless, TypeOK
<1>p. p \in Projects /\ \A u \in Procs \ {t} : job[u].proj # p
  BY <1>a, Mover
<1>o. job[t].pc \in Working \cup Requests => d \in Ids /\ rows[d].project = p /\ IsLatest(d, p)
  BY OwnRow
<1>1. CASE Passes(t) \/ Routes(t) \/ Reads(t) \/ Installs(t) \/ Lists(t) \/ Leaves(t) \/ RemovesSite(t)
  <2>1. UNCHANGED <<rows, alloc, cont, cport>>
    BY <1>1 DEF Passes, Routes, Reads, Installs, Lists, Leaves, RemovesSite
  <2>2. \A e \in Ids : Running(e)' => Running(e)
    BY <2>1 DEF Running
  <2>3. ReservedWhileRunning'
    BY <1>a, <2>1, <2>2, ReservedStays
  <2>4. Down(t)'
    BY <1>1, IdleIs DEF Passes, Routes, Reads, Installs, Lists, Leaves, RemovesSite, Down
  <2> QED BY <1>a, <2>1, <2>2, <2>3, <2>4, QuietFaultless
<1>2. CASE DrainsContainer(t)
  <2>0. /\ UNCHANGED <<rows, alloc, cport>> /\ Held4(t)
        /\ job[t].pc = "drainContainer" /\ job'[t].pc = "drainPort"
    BY <1>2 DEF DrainsContainer
  <2>1. PICK c \in Draining(t) : cont' = [cont EXCEPT ![c.id] = "none"]
    BY <1>2 DEF DrainsContainer, AgentRemove
  <2> PICK x : x = c.id
    OBVIOUS
  <2>2. x \in Ids /\ \A e \in Draining(t) : e.id = x
    BY DrainedRow
  <2>3. ~Running(x)' /\ \A e \in Ids : Running(e)' => Running(e)
    BY <2>1, <2>2 DEF TypeOK, Running
  <2>4. ReservedWhileRunning'
    BY <1>a, <2>0, <2>3, ReservedStays
  <2>5. Down(t)'
    <3>1. Draining(t)' = Draining(t)
      BY <2>0 DEF Held4, Draining
    <3> QED BY <2>0, <2>2, <2>3, <3>1 DEF Down
  <2> QED BY <1>a, <2>0, <2>3, <2>4, <2>5, QuietFaultless
<1>3. CASE Stops(t) \/ RemovesContainer(t)
  <2>1. /\ UNCHANGED <<rows, alloc, cport>> /\ Held4(t)
        /\ job[t].pc \in {"stopContainer", "rmContainer"} /\ job'[t].pc \in {"stopRow", "rmPort"}
        /\ \E s \in {"none", "stopped"} : cont' = [cont EXCEPT ![d] = s]
    BY <1>3 DEF Stops, RemovesContainer, AgentRemove
  <2>2. d \in Ids
    BY <1>o, <2>1 DEF Requests
  <2>3. ~Running(d)' /\ \A e \in Ids : Running(e)' => Running(e)
    BY <2>1, <2>2 DEF TypeOK, Running
  <2>4. ReservedWhileRunning'
    BY <1>a, <2>1, <2>3, ReservedStays
  <2>5. Down(t)'
    BY <2>1, <2>3 DEF Down, Held4, Kept
  <2> QED BY <1>a, <2>1, <2>3, <2>4, <2>5, QuietFaultless
<1>4. CASE Inserts(t)
  <2>1. /\ UNCHANGED <<rows, cont, cport>> /\ job'[t].pc = "run"
        /\ alloc[job[t].cursor] = Free /\ alloc' = [alloc EXCEPT ![job[t].cursor] = d]
    BY <1>4 DEF Inserts
  <2>2. \A e \in Ids : Running(e)' => Running(e)
    BY <2>1 DEF Running
  <2>3. \A q \in Ports : alloc'[q] = alloc[q] \/ alloc[q] = Free
    BY <2>1 DEF TypeOK
  <2>4. ReservedWhileRunning'
    BY <1>a, <2>1, <2>2, <2>3, ReservedStays
  <2>5. Down(t)'
    BY <2>1 DEF Down
  <2> QED BY <1>a, <2>1, <2>2, <2>4, <2>5, QuietFaultless
<1>5. CASE DrainsPort(t)
  <2>0. /\ UNCHANGED <<rows, cont, cport>> /\ Held4(t)
        /\ job[t].pc = "drainPort" /\ job'[t].pc = "drainRow"
    BY <1>5 DEF DrainsPort
  <2>1. PICK c \in Draining(t) : alloc' = Released(c.port)
    BY <1>5 DEF DrainsPort
  <2> PICK x \in Ids : x = c.id
    BY DrainedRow
  <2>2. c.port \in Ports /\ alloc[c.port] = x /\ ~Running(x)
    BY <1>a, <2>0, DrainedRow, DrainedPort DEF Down
  <2>3. \A e \in Ids : Running(e)' <=> Running(e)
    BY <2>0 DEF Running
  <2>4. \A q \in Ports : alloc'[q] = alloc[q] \/ \E y \in Ids : alloc[q] = y /\ ~Running(y)
    BY <2>1, <2>2 DEF Released, TypeOK
  <2>5. ReservedWhileRunning'
    BY <1>a, <2>0, <2>3, <2>4, ReservedStays
  <2>6. Down(t)'
    <3>1. Draining(t)' = Draining(t) /\ \A e \in Draining(t) : e.id = x
      BY <2>0, DrainedRow DEF Held4, Draining
    <3> QED BY <2>0, <2>2, <2>3, <3>1 DEF Down
  <2> QED BY <1>a, <2>0, <2>3, <2>5, <2>6, QuietFaultless
<1>6. CASE RemovesPort(t)
  <2>1. /\ UNCHANGED <<rows, cont, cport>> /\ alloc' = Released(job[t].port)
        /\ job[t].pc = "rmPort" /\ job'[t].pc = "rmSite"
    BY <1>6 DEF RemovesPort
  <2>2. d \in Ids /\ job[t].port \in Ports /\ alloc[job[t].port] = d /\ ~Running(d)
    BY <1>a, <2>1, RemovedPort DEF Down
  <2>3. \A e \in Ids : Running(e)' => Running(e)
    BY <2>1 DEF Running
  <2>4. \A q \in Ports : alloc'[q] = alloc[q] \/ \E y \in Ids : alloc[q] = y /\ ~Running(y)
    BY <2>1, <2>2 DEF Released, TypeOK
  <2>5. ReservedWhileRunning'
    BY <1>a, <2>1, <2>3, <2>4, ReservedStays
  <2>6. Down(t)'
    BY <2>1 DEF Down
  <2> QED BY <1>a, <2>1, <2>3, <2>5, <2>6, QuietFaultless
<1>7. CASE Fails(t) \/ RunFails(t)
  <2>1. /\ UNCHANGED <<cont, cport>> /\ job'[t].pc = "done" /\ Saved(d, "failed", job[t].port)
        /\ job[t].pc \in Preparing \cup {"health", "flip"}
    BY <1>7 DEF Fails, RunFails, Preparing
  <2>2. d \in Ids /\ rows[d].project = p /\ IsLatest(d, p)
    BY <1>o, <2>1 DEF Working, JobPcs, Preparing
  <2>3. \A e \in Ids : Running(e)' <=> Running(e)
    BY <2>1 DEF Running
  <2>4. \A q \in Ports : alloc'[q] = alloc[q] \/ \E y \in Ids : alloc[q] = y /\ ~Running(y)
    <3>1. CASE Fails(t)
      BY <3>1 DEF Fails
    <3>2. CASE RunFails(t)
      <4>1. alloc[job[t].cursor] = d /\ cont[d] = "none" /\ alloc' = Released(job[t].cursor)
            /\ job[t].cursor \in Ports
        BY <1>a, <3>2 DEF RunFails, Reserving, Contained, Preparing, Placed
      <4> QED BY <2>2, <4>1 DEF Released, TypeOK, Running
    <3> QED BY <1>7, <3>1, <3>2
  <2>5. ReservedWhileRunning'
    BY <1>a, <2>1, <2>3, <2>4, ReservedStays
  <2>6. Down(t)'
    BY <2>1 DEF Down
  <2> QED BY <1>a, <2>1, <2>2, <2>3, <2>5, <2>6, SavedFaultless
<1>8. CASE Succeeds(t)
  <2>1. /\ UNCHANGED <<alloc, cont, cport>> /\ job[t].pc = "succeed" /\ job'[t].pc = "done"
        /\ Saved(d, "running", job[t].port)
    BY <1>8 DEF Succeeds
  <2>2. d \in Ids /\ rows[d].project = p /\ IsLatest(d, p)
    BY <1>o, <2>1 DEF Working, JobPcs
  <2>3. \A e \in Ids : Running(e)' <=> Running(e)
    BY <2>1 DEF Running
  <2>4. ReservedWhileRunning'
    BY <1>a, <2>1, <2>3, ReservedStays
  <2>5. Down(t)'
    BY <2>1 DEF Down
  <2>6. ASSUME NEW e \in RowsOf(p) \ {d}, rows[e].port # NoPort PROVE ~Running(e)
    <3>1. e \in Ids /\ rows[e].project = p
      BY DEF RowsOf
    <3>2. CASE job[t].port = NoPort
      BY <1>a, <2>1, <2>6, <3>1, <3>2 DEF KindOf, Switched, Kinds, RowKinds
    <3>3. CASE job[t].port # NoPort
      <4>1. rows[e].status = "stopped"
        BY <1>a, <2>1, <2>6, <3>3 DEF Copies, Draining3
      <4> QED BY <1>a, <2>6, <3>1, <4>1 DEF StoppedAreDown
    <3> QED BY <3>2, <3>3
  <2> QED BY <1>a, <2>1, <2>2, <2>3, <2>4, <2>5, <2>6, SavedFaultless
<1>9. CASE StopsRow(t)
  <2>1. /\ UNCHANGED <<alloc, cont, cport>> /\ job[t].pc = "stopRow" /\ job'[t] = Idle
        /\ Saved(d, "stopped", job[t].port)
    BY <1>9 DEF StopsRow
  <2>2. d \in Ids /\ rows[d].project = p /\ IsLatest(d, p)
    BY <1>o, <2>1 DEF Requests
  <2>3. \A e \in Ids : Running(e)' <=> Running(e)
    BY <2>1 DEF Running
  <2>4. ReservedWhileRunning'
    BY <1>a, <2>1, <2>3, ReservedStays
  <2>5. Down(t)'
    BY <2>1, IdleIs DEF Down
  <2>6. job[t].port # NoPort => ~Running(d)
    BY <1>a, <2>1 DEF Down
  <2> QED BY <1>a, <2>1, <2>2, <2>3, <2>4, <2>5, <2>6, SavedFaultless
<1>10. CASE DrainsRow(t)
  <2>0. /\ UNCHANGED <<alloc, cont, cport>> /\ job[t].pc = "drainRow"
        /\ job'[t].pc \in {"succeed", "drainContainer"}
    BY <1>10 DEF DrainsRow
  <2>1. PICK c \in Draining(t) : Saved(c.id, "stopped", c.port)
    BY <1>10 DEF DrainsRow
  <2> PICK x \in Ids : x = c.id
    BY DrainedRow
  <2> PICK q : q = c.port
    OBVIOUS
  <2>2. rows[x].project = p /\ rows[x].port = q /\ ~Running(x) /\ Saved(x, "stopped", q)
    BY <1>a, <2>0, <2>1, DrainedRow DEF Down
  <2>3. \A e \in Ids : Running(e)' <=> Running(e)
    BY <2>0 DEF Running
  <2>4. ReservedWhileRunning'
    BY <1>a, <2>0, <2>3, ReservedStays
  <2>5. Down(t)'
    BY <2>0 DEF Down
  <2> QED BY <1>a, <2>0, <2>2, <2>3, <2>4, <2>5, SavedFaultless
<1>11. CASE Creates(t)
  <2> PICK n \in Ids : n = nextId
    BY <1>11 DEF Creates
  <2>1. /\ UNCHANGED <<alloc, cont, cport>> /\ job'[t].pc \in {"sync", "scan"}
        /\ rows'[n].project = p /\ rows'[n].status = "building" /\ rows'[n].port = NoPort
        /\ \A e \in Ids \ {n} : rows'[e] = rows[e]
    BY <1>11 DEF Creates
  <2>2. \A e \in Ids : Running(e)' => Running(e)
    BY <2>1 DEF Running
  <2>3. ReservedWhileRunning'
    BY <1>a, <2>1, <2>2, ReservedStays
  <2>4. Down(t)'
    BY <2>1 DEF Down
  <2>5. \A e \in Ids : rows'[e].port # NoPort /\ rows'[e].status = "stopped" => ~Running(e)'
    BY <1>a, <2>1, <2>2 DEF StoppedAreDown
  <2>6. ASSUME NEW e \in Ids, rows'[e].project = p PROVE Cleaned(e)'
    <3>1. CASE e = n
      BY <2>1, <3>1 DEF Cleaned
    <3>2. CASE e # n
      <4>1. n \in RowsOf(p)'
        BY <2>1 DEF RowsOf
      <4>2. ~(e >= n)
        <5>1. rows[e].project = p
          BY <2>1, <2>6, <3>2
        <5> QED BY <1>p, <5>1, PresentIsOld
      <4>3. ~IsLatest(e, p)'
        BY <3>2, <4>1, <4>2, Constants DEF IsLatest
      <4> QED BY <2>6, <4>3 DEF Cleaned
    <3> QED BY <3>1, <3>2
  <2> QED BY <1>a, <1>p, <2>2, <2>3, <2>4, <2>5, <2>6, FaultlessFrom
<1>12. CASE RemovesRow(t)
  <2>1. /\ UNCHANGED <<cont, cport>> /\ job'[t] = Idle
        /\ rows' = [e \in Ids |-> IF e \in RowsOf(p) THEN NoRow ELSE rows[e]]
        /\ alloc' = [q \in Ports |-> IF alloc[q] \in RowsOf(p) THEN Orphan ELSE alloc[q]]
    BY <1>12 DEF RemovesRow, Orphaned
  <2>2. \A e \in Ids : Running(e)' => Running(e)
    BY <2>1 DEF Running
  <2>3. \A q \in Ports : alloc'[q] = alloc[q] \/ alloc'[q] = Orphan
    BY <2>1
  <2>4. ReservedWhileRunning'
    BY <1>a, <2>1, <2>2, <2>3, ReservedStays
  <2>5. Down(t)'
    BY <2>1, IdleIs DEF Down
  <2>6. \A e \in Ids : rows'[e].project # p
    BY <1>p, <2>1, NoProjectAssumption DEF RowsOf, NoRow
  <2> QED BY <1>a, <1>p, <2>2, <2>4, <2>5, <2>6, FaultlessFrom
<1>13. CASE Runs(t)
  <2> PICK q \in Ports : q = job[t].cursor
    BY <1>13, <1>a DEF Runs, Placed
  <2>1. /\ UNCHANGED <<rows, alloc>> /\ job'[t].pc = "health" /\ job[t].pc = "run"
        /\ cont' = [cont EXCEPT ![d] = "starting"] /\ cport' = [cport EXCEPT ![d] = q]
    BY <1>13 DEF Runs
  <2>2. /\ d \in Ids /\ rows[d].project = p /\ IsLatest(d, p) /\ alloc[q] = d
        /\ rows[d].status = "building" /\ rows[d].port = NoPort
    BY <1>a, <1>o, <2>1 DEF Reserving, Owner, Working, JobPcs
  <2>3. \A e \in Ids \ {d} : cport'[e] = cport[e] /\ (Running(e)' <=> Running(e))
    BY <2>1, <2>2 DEF TypeOK, Running
  <2>4. ReservedWhileRunning'
    <3> SUFFICES ASSUME NEW e \in Ids, Running(e)' PROVE alloc[cport'[e]] \in {e, Orphan}
      BY <2>1 DEF ReservedWhileRunning
    <3>1. CASE e = d
      BY <2>1, <2>2, <3>1 DEF TypeOK
    <3>2. CASE e # d
      BY <1>a, <2>3, <3>2 DEF ReservedWhileRunning
    <3> QED BY <3>1, <3>2
  <2>5. Down(t)'
    BY <2>1 DEF Down
  <2>6. \A e \in Ids : rows'[e].port # NoPort /\ rows'[e].status = "stopped" => ~Running(e)'
    BY <1>a, <2>1, <2>2, <2>3 DEF StoppedAreDown
  <2>7. ASSUME NEW e \in Ids, rows'[e].project = p PROVE Cleaned(e)'
    <3>1. RowsOf(p)' = RowsOf(p) /\ RowsOf(p) \subseteq Ids /\ (IsLatest(e, p)' <=> IsLatest(e, p))
      BY <2>1, LatestStays DEF RowsOf
    <3>2. Cleaned(e)
      BY DEF Faultless
    <3>3. rows[e].project = p
      BY <2>1, <2>7
    <3>4. \A f \in RowsOf(p) : rows[f].port # NoPort => f # d
      BY <2>2
    <3> QED BY <2>1, <2>3, <3>1, <3>2, <3>3, <3>4 DEF Cleaned
  <2>8. \A e \in Ids : rows[e].project # p => (Running(e)' => Running(e))
    BY <2>2, <2>3
  <2> QED BY <1>a, <1>p, <2>4, <2>5, <2>6, <2>7, <2>8, FaultlessFrom
<1> QED
  BY <1>1, <1>2, <1>3, <1>4, <1>5, <1>6, <1>7, <1>8, <1>9, <1>10, <1>11, <1>12, <1>13 DEF Shape

LEMMA FaultlessIdle ==
  ASSUME TypeOK, Containers, Faultless, UNCHANGED <<rows, alloc, cport>>,
         \A e \in Ids : Running(e)' => Running(e), \A t \in Procs : Down(t)'
  PROVE  Faultless'
<1>1. ReservedWhileRunning'
  BY ReservedStays DEF Faultless
<1>2. StoppedAreDown'
  BY DEF Faultless, StoppedAreDown
<1>3. ASSUME NEW e \in Ids PROVE Cleaned(e)'
  <2> PICK r : r = rows[e].project
    OBVIOUS
  <2>1. RowsOf(r)' = RowsOf(r) /\ (IsLatest(e, r)' <=> IsLatest(e, r)) /\ RowsOf(r) \subseteq Ids
    BY LatestStays DEF RowsOf
  <2> QED BY <2>1 DEF Faultless, Cleaned
<1> QED BY <1>1, <1>2, <1>3 DEF Faultless

LEMMA FaultlessAsk ==
  ASSUME TypeOK, Containers, Faultless, NEW t \in Procs, NEW p \in Projects, Asked(t, p)
  PROVE  Faultless'
<1>1. UNCHANGED <<rows, alloc, cont, cport>> /\ Others(t)
  BY DEF Asked
<1>2. Down(t)'
  BY DEF Asked, Down
<1>3. ASSUME NEW u \in Procs, u # t PROVE Down(u)'
  BY <1>1, <1>3 DEF Others, Faultless, Down, Draining, Running
<1> QED BY <1>1, <1>2, <1>3, FaultlessIdle DEF Running

LEMMA FaultlessCrash ==
  ASSUME TypeOK, Containers, Faultless, UNCHANGED <<rows, alloc, cont, cport>>,
         job' = [t \in Procs |-> Idle]
  PROVE  Faultless'
<1>1. \A t \in Procs : Down(t)'
  BY IdleIs DEF Down
<1> QED BY <1>1, FaultlessIdle DEF Running

LEMMA FaultlessStays ==
  ASSUME TypeOK, Containers, Faultless, UNCHANGED <<rows, alloc, cport, job>>,
         \A e \in Ids : Running(e)' => Running(e)
  PROVE  Faultless'
<1>1. ASSUME NEW t \in Procs PROVE Down(t)'
  <2>1. Down(t) /\ Draining(t)' = Draining(t)
    BY DEF Faultless, Draining
  <2>2. job[t].pc \in {"rmPort", "stopRow"} => job[t].id \in Ids
    BY DEF TypeOK, Placed, Rowless
  <2>3. \A c \in Draining(t) : c.id \in Ids
    BY DEF TypeOK, Job, Copy, Draining
  <2> QED BY <2>1, <2>2, <2>3 DEF Down
<1> QED BY <1>1, FaultlessIdle

-----------------------------------------------------------------------------
(* The layers together.                                                    *)
LEMMA InvInit == Init => Inv
<1> SUFFICES ASSUME Init PROVE Inv
  OBVIOUS
<1>1. TypeOK /\ OwnersExist
  BY InitType DEF Init, OwnersExist, Free, Ids
<1>2. \A t \in Procs : job[t] = Idle
  BY DEF Init
<1>3. \A d \in Ids : rows[d] = NoRow /\ cont[d] = "none" /\ cport[d] = NoPort
  BY DEF Init
<1>4. NoRow.project = NoProject /\ NoRow.status = "absent" /\ NoRow.port = NoPort /\ ~NoRow.image
  BY DEF NoRow
<1>5. \A q \in Ports : alloc[q] = Free
  BY DEF Init
<1>6. Ownership
  BY <1>2, <1>3, <1>4, IdleIs
  DEF Ownership, Alone, FreshRows, Present, Owner, Copies, Working, Requests, JobPcs, Preparing,
      Draining3, Removing
<1>7. Kinds
  BY <1>2, <1>3, <1>4, IdleIs DEF Kinds, RowKinds, KindOf, Working, JobPcs, Switched
<1>8. Reservations
  BY <1>2, <1>3, <1>4, <1>5, IdleIs, Constants DEF Reservations, Held, Reserving, Switched
<1>9. Containers
  BY <1>2, <1>3, <1>4, IdleIs DEF Containers, Contained, Exclusive, Running, Preparing, Switched
<1>10. Edge
  <2>1. \A p \in Projects : site[p] = NoSite /\ route[p] = NoSite
    BY DEF Init, NoSites
  <2>2. \A p \in Projects : Safe(p)
    BY <2>1, Constants DEF Safe, Owned, NoSite
  <2> QED
    BY <1>2, <2>1, <2>2, IdleIs DEF Edge, OneReloading, OnEdge, Followed, Reloading, Switched
<1>11. Faultless
  BY <1>2, <1>3, <1>4, IdleIs
  DEF Faultless, ReservedWhileRunning, StoppedAreDown, Down, Cleaned, Running
<1> QED BY <1>1, <1>6, <1>7, <1>8, <1>9, <1>10, <1>11 DEF Inv

(* Every layer survives a step of a goroutine ...                          *)
LEMMA InvGoes ==
  ASSUME TypeOK', OwnersExist', Inv, OneReload, NEW t \in Procs, Step(t)
  PROVE  Inv'
<1>1. TypeOK /\ Ownership /\ Kinds /\ Reservations /\ Containers /\ Edge
  BY DEF Inv
<1>2. Shape(t)
  BY <1>1, StepShape
<1>3. Ownership'
  BY <1>1, OwnershipStep
<1>4. Kinds'
  BY <1>1, KindsStep
<1>5. Reservations'
  BY <1>1, <1>2, <1>3, ReservationsStep
<1>6. Containers'
  BY <1>1, <1>2, ContainersStep
<1>7. Edge'
  BY <1>1, <1>2, EdgeStep
<1>8. ~AgentFaults => Faultless'
  BY <1>1, <1>2, <1>3, FaultlessStep DEF Inv
<1> QED BY <1>3, <1>4, <1>5, <1>6, <1>7, <1>8 DEF Inv

(* ... a request for a project nobody works on ...                         *)
LEMMA InvAsk ==
  ASSUME TypeOK', OwnersExist', Inv, NEW t \in Procs, NEW p \in Projects, Quiet(p), Ask(t, p)
  PROVE  Inv'
<1>1. TypeOK /\ Ownership /\ Kinds /\ Reservations /\ Containers /\ Edge
  BY DEF Inv
<1>2. Asked(t, p)
  BY <1>1, AskShape
<1>3. Ownership'
  BY <1>1, OwnershipAsk
<1>4. Kinds'
  <2>1. UNCHANGED <<rows, project>>
    BY DEF Ask, Trigger, RequestStop, RequestRemove, db
  <2>2. \A u \in Procs : job'[u] = job[u] \/ job'[u].pc \notin Working
    BY <1>2 DEF Asked, Others, Working, JobPcs
  <2> QED BY <1>1, <2>1, <2>2, KindsIdle
<1>5. Reservations'
  BY <1>1, <1>2, ReservationsAsk
<1>6. Containers'
  BY <1>1, <1>2, ContainersAsk
<1>7. Edge'
  BY <1>1, <1>2, EdgeAsk
<1>8. ~AgentFaults => Faultless'
  BY <1>1, <1>2, FaultlessAsk DEF Inv
<1> QED BY <1>3, <1>4, <1>5, <1>6, <1>7, <1>8 DEF Inv

(* ... a restart ...                                                       *)
LEMMA InvCrash ==
  ASSUME TypeOK', OwnersExist', Inv, Crash, ~HalfReleased
  PROVE  Inv'
<1>1. TypeOK /\ Ownership /\ Kinds /\ Reservations /\ Containers /\ Edge
  BY DEF Inv
<1>2. /\ UNCHANGED <<project, rows, nextId, alloc, cont, cport, site>>
      /\ route' = site /\ job' = [t \in Procs |-> Idle]
  BY DEF Crash, db, host
<1>3. \A t \in Procs : job'[t].pc \notin Working
  BY <1>2, IdleIs DEF Working, JobPcs
<1>4. Ownership' /\ Kinds'
  BY <1>1, <1>2, <1>3, OwnershipCrash, KindsIdle
<1>5. Reservations' /\ Containers' /\ Edge'
  BY <1>1, <1>2, ReservationsCrash, ContainersCrash, EdgeCrash
<1>6. ~AgentFaults => Faultless'
  BY <1>1, <1>2, FaultlessCrash DEF Inv
<1> QED BY <1>4, <1>5, <1>6 DEF Inv

(* ... and what happens while no goroutine moves.                          *)
LEMMA InvRests ==
  ASSUME TypeOK', OwnersExist', Inv,
         \/ \E p \in Projects : CreateProject(p)
         \/ \E d \in Ids : AppUp(d)
         \/ WatcherReload /\ OneReload
         \/ UNCHANGED vars
  PROVE  Inv'
<1>1. TypeOK /\ Ownership /\ Kinds /\ Reservations /\ Containers /\ Edge
  BY DEF Inv
<1>2. UNCHANGED <<job, rows, nextId, alloc, cport, site>>
  BY DEF CreateProject, AppUp, WatcherReload, vars, db, host, edge
<1>3. Ownership' /\ Reservations'
  BY <1>1, <1>2, OwnershipStays, ReservationsStays
<1>4. UNCHANGED project \/ \E p \in Projects : CreateProject(p)
  BY DEF AppUp, WatcherReload, vars, db
<1>5. Kinds'
  BY <1>1, <1>2, <1>4, KindsIdle, KindsCreate
<1>6. UNCHANGED cont \/ \E d \in Ids : AppUp(d)
  BY DEF CreateProject, WatcherReload, vars, host
<1>7. Containers'
  <2>1. CASE UNCHANGED cont
    <3>1. \A t \in Procs : Contained(t)'
      BY <1>1, <1>2, <2>1 DEF Containers, Contained
    <3> QED BY <1>1, <1>2, <2>1, <3>1, ContainersIdle
  <2> QED BY <1>1, <1>6, <2>1, ContainersUp
<1>8. UNCHANGED route \/ (WatcherReload /\ OneReload)
  BY DEF CreateProject, AppUp, vars, edge
<1>9. Edge'
  BY <1>1, <1>2, <1>8, EdgeStays, EdgeWatcher DEF WatcherReload
<1>10. \A e \in Ids : Running(e)' => Running(e)
  BY <1>1, <1>6 DEF Running, AppUp, TypeOK
<1>11. ~AgentFaults => Faultless'
  BY <1>1, <1>2, <1>10, FaultlessStays DEF Inv
<1> QED BY <1>3, <1>5, <1>7, <1>9, <1>11 DEF Inv

LEMMA CrashNextIsNext == [CrashNext]_vars => [Next]_vars
BY DEF CrashNext, OrderlyNext, CarefulNext, Next, ConcurrentNext

LEMMA InvStep == Inv /\ [CrashNext]_vars => Inv'
<1> SUFFICES ASSUME Inv, [CrashNext]_vars PROVE Inv'
  OBVIOUS
<1>1. TypeOK' /\ OwnersExist'
  BY CrashNextIsNext, TypeStep, OwnersStep DEF Inv
<1>2. CASE OrderlyNext
  BY <1>1, <1>2, InvGoes, InvAsk, InvRests DEF OrderlyNext, CarefulNext, Background
<1>3. CASE Crash /\ ~HalfReleased
  BY <1>1, <1>3, InvCrash
<1>4. CASE UNCHANGED vars
  BY <1>1, <1>4, InvRests
<1> QED BY <1>2, <1>3, <1>4 DEF CrashNext

LEMMA InvCorrect == CrashSpec => []Inv
BY InvInit, InvStep, PTL DEF CrashSpec

(* With one request per project at a time, reloads that do not overlap and *)
(* crashes between the steps, no domain is ever answered by the container  *)
(* of another project: not while ports are given back and handed out again *)
(* by AllocatePort, and whatever the agent fails to do (drainOld, Remove,  *)
(* reloadNow).                                                             *)
THEOREM NeverMisrouted == CrashSpec => []NoMisroute
<1>1. Inv => NoMisroute
  <2> SUFFICES ASSUME Inv, NEW p \in Projects, NEW d \in Ids,
                      route[p] \in Ports, Running(d), cport[d] = route[p],
                      ~ \E t \in Procs : job[t].proj = p /\ job[t].pc \in {"rmSite", "rmReload", "rmInstall"}
               PROVE  rows[d].project = p
    BY DEF NoMisroute
  <2> PICK e \in Ids : rows[e].project = p /\ alloc[route[p]] = e /\ cport[e] = route[p]
    BY DEF Inv, Edge, Safe, Owned
  <2>1. d = e
    BY DEF Inv, Containers, Exclusive
  <2> QED BY <2>1
<1> QED BY <1>1, InvCorrect, PTL

(* When the agent does what it is asked, the port of a container that runs *)
(* stays in port_allocations until the container is gone: every caller of  *)
(* ReleasePort has removed its container before.                           *)
THEOREM PortsStayReserved == CrashSpec => [](~AgentFaults => ReservedWhileRunning)
<1>1. Inv => (~AgentFaults => ReservedWhileRunning)
  BY DEF Inv, Faultless
<1> QED BY <1>1, InvCorrect, PTL

(* ... and when a deployment is shown as running no older one of its       *)
(* project still runs: drainOld has stopped all of them before Deploy and  *)
(* Rollback save the row, also those a crash has left behind.              *)
THEOREM OldReleasesStop == CrashSpec => [](~AgentFaults => CleanAfterSuccess)
<1>1. Inv => (~AgentFaults => CleanAfterSuccess)
  <2> SUFFICES ASSUME Inv, ~AgentFaults, NEW p \in Projects, NEW d \in Ids,
                      IsLatest(d, p), rows[d].status = "running"
               PROVE  \A e \in RowsOf(p) \ {d} : rows[e].port # NoPort => ~Running(e)
    BY DEF CleanAfterSuccess
  <2>1. rows[d].project = p
    BY DEF IsLatest, RowsOf
  <2> QED BY <2>1 DEF Inv, Faultless, Cleaned
<1> QED BY <1>1, InvCorrect, PTL

-----------------------------------------------------------------------------
(* Without crashes: every reservation is recorded by its deployment's row, *)
(* or known to the goroutine that made it.                                 *)
Claims(t, q, d) ==
  /\ job[t].id = d /\ job[t].proj = rows[d].project
  /\ \/ job[t].pc = "run" /\ job[t].cursor = q
     \/ job[t].pc \in {"health", "flip"} \cup Switched /\ job[t].port = q
ClaimStays(t, q, d) ==
  /\ alloc[q] = d /\ rows'[d].project = rows[d].project
  /\ rows[d].port = q \/ Claims(t, q, d) => rows'[d].port = q \/ Claims(t, q, d)'

LEMMA AccountedFrom ==
  ASSUME Accounted, NEW t \in Procs, Others(t),
         \A q \in Ports : \A d \in Ids : alloc'[q] = d => ClaimStays(t, q, d) \/ Claims(t, q, d)'
  PROVE  Accounted'
<1> SUFFICES ASSUME NEW q \in Ports, NEW d \in Ids, alloc'[q] = d
             PROVE  rows'[d].port = q \/ \E u \in Procs : Claims(u, q, d)'
  BY DEF Accounted, Claims
<1>1. CASE ClaimStays(t, q, d)
  <2>1. rows[d].port = q \/ \E u \in Procs : Claims(u, q, d)
    BY <1>1 DEF Accounted, Claims, ClaimStays
  <2>2. ASSUME NEW u \in Procs \ {t}, Claims(u, q, d) PROVE Claims(u, q, d)'
    BY <1>1, <2>2 DEF Claims, ClaimStays, Others
  <2> QED BY <1>1, <2>1, <2>2 DEF ClaimStays
<1> QED BY <1>1

LEMMA AccountedStep ==
  ASSUME TypeOK, Ownership, Reservations, Accounted, NEW t \in Procs, Shape(t)
  PROVE  Accounted'
<1> DEFINE Goal == \A q \in Ports : \A d \in Ids :
             alloc'[q] = d => ClaimStays(t, q, d) \/ Claims(t, q, d)'
<1> SUFFICES Goal
  BY ShapeMoves, AccountedFrom
<1>1. /\ job[t].pc \in Working \cup Requests => rows[job[t].id].project = job[t].proj
      /\ job[t].pc \in Working => rows[job[t].id].port = NoPort
      /\ job[t].pc \in Requests => rows[job[t].id].port = job[t].port
  BY DEF Ownership, Owner, IsLatest, RowsOf
<1>2. alloc \in [Ports -> {Free, Orphan} \cup Ids]
  BY DEF TypeOK
<1>r. ASSUME NEW x, alloc' = Released(x), NEW q \in Ports, NEW d \in Ids, alloc'[q] = d
      PROVE  alloc[q] = d /\ q # x
  BY <1>2, <1>r, Constants DEF Released
<1>3. CASE Passes(t) \/ Routes(t)
  BY <1>3 DEF Passes, Routes, Held4, Kept, ClaimStays, Claims, Switched
<1>4. CASE Fails(t)
  <2>1. job[t].pc \in Working
    BY <1>4 DEF Fails, Working, JobPcs, Preparing
  <2> QED BY <1>1, <1>4, <2>1, Constants DEF Fails, Saved, ClaimStays, Claims, Switched, Preparing
<1>5. CASE Creates(t)
  <2> PICK n \in Ids : n = nextId
    BY <1>5 DEF Creates
  <2>1. \A q \in Ports : alloc[q] # n
    <3>1. n >= nextId
      BY Constants
    <3> QED BY <3>1 DEF Reservations
  <2> QED BY <1>5, <2>1 DEF Creates, ClaimStays, Claims, Switched
<1>6. CASE Inserts(t)
  <2> PICK x : x = job[t].cursor
    OBVIOUS
  <2> PICK n : n = job[t].id
    OBVIOUS
  <2>1. rows[n].project = job[t].proj
    BY <1>1, <1>6 DEF Inserts, Working, JobPcs
  <2> SUFFICES ASSUME NEW q \in Ports, NEW d \in Ids, alloc'[q] = d
               PROVE  ClaimStays(t, q, d) \/ Claims(t, q, d)'
    OBVIOUS
  <2>2. CASE q = x
    <3>1. d = n
      BY <1>2, <1>6, <2>2 DEF Inserts
    <3> QED BY <1>6, <2>1, <2>2, <3>1 DEF Inserts, Held4, Kept, Claims
  <2>3. CASE q # x
    <3>1. alloc[q] = d
      BY <1>2, <1>6, <2>3 DEF Inserts
    <3> QED BY <1>6, <3>1 DEF Inserts, Held4, Kept, ClaimStays, Claims, Switched
  <2> QED BY <2>2, <2>3
<1>7. CASE Runs(t)
  BY <1>7 DEF Runs, ClaimStays, Claims, Switched
<1>8. CASE RunFails(t)
  <2>1. job[t].pc \in Working
    BY <1>8 DEF RunFails, Working, JobPcs
  <2>2. rows[job[t].id].port = NoPort
    BY <1>1, <2>1
  <2> SUFFICES ASSUME NEW q \in Ports, NEW d \in Ids, alloc'[q] = d PROVE ClaimStays(t, q, d)
    OBVIOUS
  <2>3. alloc[q] = d /\ q # job[t].cursor
    BY <1>8, <1>r DEF RunFails
  <2>4. ~Claims(t, q, d)
    BY <1>8, <2>3 DEF RunFails, Claims, Switched
  <2> QED BY <1>8, <2>2, <2>3, <2>4, Constants DEF RunFails, Saved, ClaimStays
<1>9. CASE Reads(t) \/ Installs(t)
  BY <1>9 DEF Reads, Installs, Kept, ClaimStays, Claims, Switched
<1>10. CASE Lists(t) \/ DrainsContainer(t)
  BY <1>10 DEF Lists, DrainsContainer, Held4, Kept, ClaimStays, Claims, Switched
<1>11. CASE DrainsPort(t)
  BY <1>11, <1>r DEF DrainsPort, Held4, Kept, ClaimStays, Claims, Switched
<1>12. CASE DrainsRow(t)
  <2> PICK c \in Draining(t) : Saved(c.id, "stopped", c.port)
    BY <1>12 DEF DrainsRow
  <2>1. rows[c.id].port = c.port
    BY DrainedRow
  <2> QED BY <1>12, <2>1 DEF DrainsRow, Kept, Saved, ClaimStays, Claims, Switched
<1>13. CASE Succeeds(t)
  <2>1. job[t].pc \in Working
    BY <1>13 DEF Succeeds, Working, JobPcs
  <2> QED BY <1>1, <1>13, <2>1, Constants DEF Succeeds, Saved, ClaimStays, Claims
<1>14. CASE Leaves(t) \/ Stops(t) \/ RemovesContainer(t) \/ RemovesSite(t)
  BY <1>14 DEF Leaves, Stops, RemovesContainer, RemovesSite, Held4, Kept, ClaimStays, Claims, Switched
<1>15. CASE StopsRow(t)
  <2>1. job[t].pc \in Requests
    BY <1>15 DEF StopsRow, Requests
  <2> QED BY <1>1, <1>15, <2>1 DEF StopsRow, Saved, ClaimStays, Claims, Switched
<1>16. CASE RemovesPort(t)
  BY <1>16, <1>r DEF RemovesPort, Held4, Kept, ClaimStays, Claims, Switched
<1>17. CASE RemovesRow(t)
  <2> SUFFICES ASSUME NEW q \in Ports, NEW d \in Ids, alloc'[q] = d PROVE ClaimStays(t, q, d)
    OBVIOUS
  <2>1. alloc[q] = d /\ d \notin RowsOf(job[t].proj)
    BY <1>2, <1>17, Constants DEF RemovesRow, Orphaned
  <2>2. rows'[d] = rows[d]
    BY <1>17, <2>1 DEF RemovesRow
  <2> QED BY <1>17, <2>1, <2>2 DEF RemovesRow, ClaimStays, Claims, Switched
<1> QED
  BY <1>3, <1>4, <1>5, <1>6, <1>7, <1>8, <1>9, <1>10, <1>11, <1>12, <1>13, <1>14, <1>15, <1>16,
     <1>17 DEF Shape

(* A container deployment that counts as running is routed by its          *)
(* project's site file, or a newer site file is being put into place.      *)
Replacing == (Switched \ {"succeed"}) \cup {"rmReload", "rmInstall", "rmRow"}
Replaces(t, d) == job[t].proj = rows[d].project /\ job[t].pc \in Replacing
InSite(d) == site[rows[d].project] = rows[d].port
RouteStays(t, d) ==
  /\ rows[d].status = "running" /\ rows[d].port # NoPort
  /\ rows'[d].project = rows[d].project
  /\ InSite(d) \/ Replaces(t, d) => InSite(d)' \/ Replaces(t, d)'

LEMMA RoutedFrom ==
  ASSUME Routed, NEW t \in Procs, Others(t),
         \A d \in Ids : rows'[d].status = "running" /\ rows'[d].port # NoPort =>
           RouteStays(t, d) \/ InSite(d)'
  PROVE  Routed'
<1> SUFFICES ASSUME NEW d \in Ids, rows'[d].status = "running", rows'[d].port # NoPort
             PROVE  InSite(d)' \/ \E u \in Procs : Replaces(u, d)'
  BY DEF Routed, InSite, Replaces, Replacing
<1>1. CASE RouteStays(t, d)
  <2>1. InSite(d) \/ \E u \in Procs : Replaces(u, d)
    BY <1>1 DEF Routed, InSite, Replaces, Replacing, RouteStays
  <2>2. ASSUME NEW u \in Procs \ {t}, Replaces(u, d) PROVE Replaces(u, d)'
    BY <1>1, <2>2 DEF Replaces, RouteStays, Others
  <2> QED BY <1>1, <2>1, <2>2 DEF RouteStays
<1> QED BY <1>1

LEMMA RoutedStep ==
  ASSUME TypeOK, Ownership, Ownership', Kinds, Edge, Routed, NEW t \in Procs, Shape(t)
  PROVE  Routed'
<1> DEFINE Shown(d) == rows[d].status = "running" /\ rows[d].port # NoPort
<1> SUFFICES \A d \in Ids : rows'[d].status = "running" /\ rows'[d].port # NoPort =>
               RouteStays(t, d) \/ InSite(d)'
  BY ShapeMoves, RoutedFrom
<1>1. job[t].pc \in Working =>
        /\ rows[job[t].id].project = job[t].proj
        /\ rows[job[t].id].status = "building"
  BY DEF Ownership, Owner, IsLatest, RowsOf
<1>2. site \in [Projects -> {NoSite, StaticRoot} \cup Ports]
  BY DEF TypeOK, Sites
<1>3. CASE Passes(t) \/ Inserts(t) \/ Runs(t)
  BY <1>3 DEF Passes, Inserts, Runs, Held4, Kept, RouteStays, InSite, Replaces, Replacing, Switched
<1>4. CASE Fails(t) \/ RunFails(t)
  BY <1>4 DEF Fails, RunFails, Saved, RouteStays, InSite, Replaces, Replacing, Switched, Preparing
<1>5. CASE Creates(t)
  BY <1>5 DEF Creates, RouteStays, InSite, Replaces, Replacing, Switched
<1>6. CASE Routes(t) \/ RemovesSite(t)
  <2> PICK p : p = job[t].proj
    OBVIOUS
  <2>1. /\ job'[t].proj = p /\ job'[t].pc \in Replacing /\ UNCHANGED rows
        /\ \A o \in Projects \ {p} : site'[o] = site[o]
    BY <1>2, <1>6 DEF Routes, RemovesSite, Held4, Kept, Replacing, Switched
  <2> SUFFICES ASSUME NEW d \in Ids, Shown(d) PROVE RouteStays(t, d)
    BY <2>1
  <2>2. CASE rows[d].project = p
    BY <2>1, <2>2 DEF RouteStays, Replaces
  <2>3. CASE rows[d].project # p
    <3>1. rows[d].project \in Projects
      BY DEF TypeOK, Row, Ownership, FreshRows, Present
    <3> QED BY <2>1, <2>3, <3>1 DEF RouteStays, InSite, Replaces
  <2> QED BY <2>2, <2>3
<1>7. CASE Reads(t)
  BY <1>7 DEF Reads, Kept, RouteStays, InSite, Replaces, Replacing, Switched
<1>8. CASE Installs(t)
  <2>1. CASE job[t].pc = "install" /\ job[t].port = NoPort
    <3>1. project[job[t].proj] = "static"
      BY <2>1 DEF Kinds, KindOf, Switched
    <3>2. \A d \in Ids : Shown(d) => rows[d].project # job[t].proj
      BY <3>1 DEF Kinds, RowKinds
    <3> QED BY <1>8, <2>1, <3>2 DEF Installs, Kept, RouteStays, InSite, Replaces
  <2>2. CASE ~(job[t].pc = "install" /\ job[t].port = NoPort)
    BY <1>8, <2>2 DEF Installs, Kept, RouteStays, InSite, Replaces, Replacing, Switched
  <2> QED BY <2>1, <2>2
<1>9. CASE Lists(t) \/ DrainsRow(t)
  <2>1. /\ job'[t].proj = job[t].proj /\ job'[t].id = job[t].id /\ job'[t].port = job[t].port
        /\ UNCHANGED site /\ job[t].pc \in {"list", "drainRow"}
        /\ job'[t].pc \in {"succeed", "drainContainer"}
    BY <1>9 DEF Lists, DrainsRow, Kept
  <2>2. ASSUME NEW d \in Ids, rows'[d].status = "running", rows'[d].port # NoPort
        PROVE  rows'[d] = rows[d]
    <3>1. CASE Lists(t)
      BY <3>1 DEF Lists
    <3>2. CASE DrainsRow(t)
      BY <2>2, <3>2 DEF DrainsRow, Saved
    <3> QED BY <1>9, <3>1, <3>2
  <2>3. CASE job'[t].pc = "drainContainer"
    BY <2>1, <2>2, <2>3 DEF RouteStays, InSite, Replaces, Replacing, Switched
  <2>4. CASE job'[t].pc = "succeed"
    <3> PICK n : n = job[t].id
      OBVIOUS
    <3> PICK p : p = job[t].proj
      OBVIOUS
    <3>1. Owner(t) /\ Owner(t)' /\ Copies(t)'
      BY DEF Ownership
    <3>2. job[t].port # NoPort
      BY <2>1, <3>1 DEF Owner, Draining3
    <3>3. rows'[n].status = "building"
      BY <2>1, <2>4, <3>1 DEF Owner, Working, JobPcs
    <3>4. \A e \in Ids : rows'[e].project = p /\ e # n => ~Shown(e)'
      BY <2>1, <2>4, <3>1, <3>2 DEF Copies, Draining3, RowsOf
    <3>5. \A d \in Ids : Shown(d)' => rows'[d].project # p
      BY <3>3, <3>4
    <3> QED BY <2>1, <2>2, <3>5 DEF RouteStays, InSite, Replaces
  <2> QED BY <2>1, <2>3, <2>4
<1>10. CASE DrainsContainer(t) \/ DrainsPort(t)
  BY <1>10 DEF DrainsContainer, DrainsPort, Held4, Kept, RouteStays, InSite, Replaces, Replacing, Switched
<1>11. CASE Succeeds(t)
  <2> PICK n : n = job[t].id
    OBVIOUS
  <2>1. rows[n].project = job[t].proj /\ site[job[t].proj] = job[t].port
    BY <1>1, <1>11 DEF Succeeds, Working, JobPcs, Edge, OnEdge, Switched
  <2>2. InSite(n)'
    BY <1>11, <2>1 DEF Succeeds, Saved, InSite
  <2>3. ASSUME NEW d \in Ids \ {n}, Shown(d)' PROVE RouteStays(t, d)
    BY <1>11, <2>3 DEF Succeeds, Saved, RouteStays, InSite, Replaces, Replacing
  <2> QED BY <2>2, <2>3
<1>12. CASE Leaves(t) \/ Stops(t) \/ RemovesContainer(t) \/ RemovesPort(t)
  BY <1>12 DEF Leaves, Stops, RemovesContainer, RemovesPort, Held4, Kept, RouteStays, InSite, Replaces, Replacing, Switched
<1>13. CASE StopsRow(t)
  BY <1>13 DEF StopsRow, Saved, RouteStays, InSite, Replaces, Replacing, Switched
<1>14. CASE RemovesRow(t)
  <2> SUFFICES ASSUME NEW d \in Ids, Shown(d)' PROVE RouteStays(t, d)
    OBVIOUS
  <2>1. d \notin RowsOf(job[t].proj) /\ rows'[d] = rows[d]
    BY <1>14 DEF RemovesRow, NoRow
  <2>2. rows[d].project # job[t].proj
    BY <2>1 DEF RowsOf
  <2> QED BY <1>14, <2>1, <2>2 DEF RemovesRow, RouteStays, InSite, Replaces
<1> QED
  BY <1>3, <1>4, <1>5, <1>6, <1>7, <1>8, <1>9, <1>10, <1>11, <1>12, <1>13, <1>14 DEF Shape

LEMMA OrderlyStep == OrderlyInv /\ [OrderlyNext]_vars => OrderlyInv'
<1> SUFFICES ASSUME OrderlyInv, [OrderlyNext]_vars PROVE OrderlyInv'
  OBVIOUS
<1> USE DEF db, host, edge
<1>1. Inv /\ Inv' /\ Accounted /\ Routed
  BY InvStep DEF OrderlyInv, CrashNext
<1>2. TypeOK /\ Ownership /\ Kinds /\ Reservations /\ Edge /\ Ownership'
  BY <1>1 DEF Inv
<1>3. CASE \E t \in Procs : Step(t)
  BY <1>1, <1>2, <1>3, StepShape, AccountedStep, RoutedStep DEF OrderlyInv
<1>4. CASE \E t \in Procs, p \in Projects : Ask(t, p)
  <2> PICK t \in Procs, p \in Projects : Asked(t, p)
    BY <1>2, <1>4, AskShape
  <2>1. Accounted'
    <3>1. \A q \in Ports : \A d \in Ids : alloc'[q] = d => ClaimStays(t, q, d)
      BY DEF Asked, ClaimStays, Claims, Switched
    <3> QED BY <1>1, <3>1, AccountedFrom DEF Asked
  <2>2. Routed'
    <3>1. \A d \in Ids : rows'[d].status = "running" /\ rows'[d].port # NoPort => RouteStays(t, d)
      BY DEF Asked, RouteStays, InSite, Replaces, Replacing, Switched
    <3> QED BY <1>1, <3>1, RoutedFrom DEF Asked
  <2> QED BY <1>1, <2>1, <2>2 DEF OrderlyInv
<1>5. CASE UNCHANGED <<rows, alloc, site, job>>
  BY <1>1, <1>5 DEF OrderlyInv, Accounted, Routed
<1>6. CASE \/ \E p \in Projects : CreateProject(p)
           \/ \E d \in Ids : AppUp(d)
           \/ WatcherReload \/ UNCHANGED vars
  BY <1>5, <1>6 DEF CreateProject, AppUp, WatcherReload, vars
<1> QED BY <1>3, <1>4, <1>6 DEF OrderlyNext, CarefulNext, Background

LEMMA OrderlyCorrect == OrderlySpec => []OrderlyInv
<1>1. Init => OrderlyInv
  <2> SUFFICES ASSUME Init PROVE Accounted /\ Routed
    BY InvInit DEF OrderlyInv
  <2> QED BY Constants DEF Init, Accounted, Routed, NoRow
<1> QED BY <1>1, OrderlyStep, PTL DEF OrderlySpec

(* At rest, what the dashboard shows as the running container deployment   *)
(* is what the edge routes to: saving the row comes after the flip and the *)
(* reload, and every later flip drains that row before it saves its own    *)
(* (finishContainer, drainOld).                                            *)
THEOREM RunningRouted == OrderlySpec => []RunningIsRouted
<1>1. OrderlyInv => RunningIsRouted
  <2> SUFFICES ASSUME OrderlyInv, NEW p \in Projects, NEW d \in RowsOf(p), Quiet(p),
                      rows[d].status = "running", rows[d].port # NoPort
               PROVE  route[p] = rows[d].port
    BY DEF RunningIsRouted
  <2>1. d \in Ids /\ rows[d].project = p
    BY DEF RowsOf
  <2>2. site[p] = rows[d].port
    BY <2>1 DEF OrderlyInv, Routed, Quiet
  <2>3. route[p] = site[p]
    BY DEF OrderlyInv, Inv, Edge, Followed, Settled, Quiet
  <2> QED BY <2>2, <2>3
<1> QED BY <1>1, OrderlyCorrect, PTL

(* Unless orxies dies, no port leaks: a port that is reserved while nobody *)
(* works on its project is recorded in the row of the deployment it is     *)
(* reserved for, from which drainOld and Remove release it (runImage gives *)
(* it back when the run fails, fail and succeed save it in the row).       *)
THEOREM NoPortLeaks == OrderlySpec => []PortsAccounted
<1>1. OrderlyInv => PortsAccounted
  <2> SUFFICES ASSUME OrderlyInv, NEW q \in Ports, alloc[q] \in Ids,
                      Quiet(rows[alloc[q]].project)
               PROVE  rows[alloc[q]].port = q
    BY DEF PortsAccounted
  <2> PICK d \in Ids : d = alloc[q]
    OBVIOUS
  <2> QED BY DEF OrderlyInv, Accounted, Quiet
<1> QED BY <1>1, OrderlyCorrect, PTL

-----------------------------------------------------------------------------
(* The refinement of ServiceLife.  At most one container answers on a      *)
(* project's domain, so Answerer is a function of the state.               *)
Serves(d, p) == d \in RowsOf(p) /\ cont[d] = "up" /\ cport[d] = route[p]

LEMMA AnswererIs ==
  ASSUME Exclusive, NEW p \in Projects
  PROVE  /\ route[p] \notin Ports => Answerer(p) = route[p]
         /\ route[p] \in Ports /\ (\A d \in Ids : ~Serves(d, p)) => Answerer(p) = -1
         /\ route[p] \in Ports => \A d \in Ids : Serves(d, p) => Answerer(p) = d
<1> DEFINE own == {d \in RowsOf(p) : cont[d] = "up" /\ cport[d] = route[p]}
<1>1. Answerer(p) = IF route[p] \notin Ports THEN route[p]
                      ELSE IF own = {} THEN -1 ELSE CHOOSE d \in own : TRUE
  BY DEF Answerer
<1>2. \A d \in Ids : Serves(d, p) <=> d \in own
  BY DEF Serves
<1>3. own \subseteq Ids
  BY DEF RowsOf
<1>4. \A d, e \in own : d = e
  BY <1>3 DEF Exclusive, Running
<1> HIDE DEF own
<1>5. \A d \in own : (CHOOSE e \in own : TRUE) = d
  BY <1>4
<1> QED BY <1>1, <1>2, <1>3, <1>5

(* The same after a step.                                                  *)
LEMMA NextAnswererIs ==
  ASSUME Exclusive', NEW p \in Projects
  PROVE  /\ route'[p] \notin Ports => Answerer(p)' = route'[p]
         /\ route'[p] \in Ports /\ (\A d \in Ids : ~Serves(d, p)') => Answerer(p)' = -1
         /\ route'[p] \in Ports => \A d \in Ids : Serves(d, p)' => Answerer(p)' = d
<1> DEFINE own == {d \in Ids : rows'[d].project = p /\ cont'[d] = "up" /\ cport'[d] = route'[p]}
<1>1. Answerer(p)' = IF route'[p] \notin Ports THEN route'[p]
                       ELSE IF own = {} THEN -1 ELSE CHOOSE d \in own : TRUE
  BY DEF Answerer, RowsOf
<1>2. \A d \in Ids : Serves(d, p)' <=> d \in own
  BY DEF Serves, RowsOf
<1>3. \A d, e \in own : d = e
  BY DEF Exclusive, Running
<1>4. own \subseteq Ids
  OBVIOUS
<1> HIDE DEF own
<1>5. \A d \in own : (CHOOSE e \in own : TRUE) = d
  BY <1>3
<1> QED BY <1>1, <1>2, <1>4, <1>5

(* What ServiceLife allows to happen to a project in one step.             *)
Lives(p) ==
  \/ Answerer(p)' = Answerer(p)
  \/ /\ Answerer(p)' \in Ids \cup {0}
     /\ Answerer(p) \in Ids /\ Answerer(p)' \in Ids => Answerer(p)' > Answerer(p)
  \/ Doing(p, {"stop", "remove"}) /\ Answerer(p)' = -1

LEMMA LivesSame ==
  ASSUME TypeOK, Exclusive, Exclusive', NEW p \in Projects, route'[p] = route[p],
         \A d \in Ids : Serves(d, p)' <=> Serves(d, p)
  PROVE  Lives(p)
BY AnswererIs, NextAnswererIs DEF Lives

LEMMA LivesLess ==
  ASSUME TypeOK, Exclusive, Exclusive', NEW p \in Projects, route'[p] = route[p],
         \A d \in Ids : Serves(d, p)' => Serves(d, p), Doing(p, {"stop", "remove"})
  PROVE  Lives(p)
BY AnswererIs, NextAnswererIs DEF Lives

(* The router comes to follow p's site file.  If that is news the job that *)
(* has written it is under way: its container has been found healthy, or   *)
(* the project is being removed.                                           *)
LEMMA LivesRouted ==
  ASSUME Inv, Exclusive', NEW p \in Projects, UNCHANGED <<rows, cont, cport>>,
         route'[p] \in {route[p], site[p]}
  PROVE  Lives(p)
<1> SUFFICES ASSUME route'[p] # route[p], route'[p] = site[p] PROVE Lives(p)
  BY LivesSame DEF Inv, Containers, Serves, RowsOf
<1>1. TypeOK /\ Ownership /\ Exclusive
  BY DEF Inv, Containers
<1>2. ~Settled(p)
  BY DEF Inv, Edge, Followed
<1> PICK t \in Procs : job[t].proj = p /\ job[t].pc \in Switching
  BY <1>2 DEF Settled
<1> PICK j \in Job : j = job[t]
  BY <1>1 DEF TypeOK
<1>3. Owner(t) /\ OnEdge(t) /\ Contained(t)
  BY DEF Inv, Ownership, Edge, Containers
<1>4. CASE j.pc \in {"rmReload", "rmInstall"}
  <2>1. site[p] = NoSite /\ j.op = "remove"
    BY <1>3, <1>4 DEF OnEdge, Owner, Removing
  <2>2. Doing(p, {"stop", "remove"})
    BY <2>1 DEF Doing
  <2>3. Answerer(p)' = -1
    BY <2>1, NextAnswererIs, Constants DEF NoSite
  <2> QED BY <2>2, <2>3 DEF Lives
<1>5. CASE j.pc \in {"reload", "install"}
  <2>1. site[p] = j.port /\ IsLatest(j.id, p)
    BY <1>3, <1>5 DEF OnEdge, Owner, Switched, Working, JobPcs
  <2>2. CASE j.port = NoPort
    <3>1. Answerer(p)' = 0
      BY <2>1, <2>2, NextAnswererIs, Constants
    <3> QED BY <3>1, Constants DEF Lives
  <2>3. CASE j.port # NoPort
    <3> PICK n \in Ids : n = j.id
      BY <2>1 DEF IsLatest, RowsOf
    <3>1. j.port \in Ports
      BY <2>3 DEF Job
    <3>2. cport[n] = j.port /\ cont[n] = "up"
      BY <1>3, <1>5, <2>3 DEF Contained, Switched
    <3>3. Serves(n, p)'
      BY <2>1, <3>2 DEF Serves, IsLatest, RowsOf
    <3>4. Answerer(p)' = n
      BY <2>1, <3>1, <3>3, NextAnswererIs
    <3>5. Answerer(p) \in Ids => Answerer(p) <= n
      <4>1. \A e \in Ids : Serves(e, p) => e <= n
        BY <2>1 DEF Serves, IsLatest
      <4>2. route[p] \in {NoSite, StaticRoot} \cup Ports
        BY <1>1 DEF TypeOK, Sites
      <4>3. NoSite \notin Ids /\ StaticRoot \notin Ids /\ -1 \notin Ids
        BY DEF NoSite, StaticRoot, Ids
      <4> QED BY <1>1, <4>1, <4>2, <4>3, AnswererIs
    <3>6. n \in Nat /\ (Answerer(p) \in Ids => Answerer(p) \in Nat)
      BY Constants
    <3> QED BY <3>4, <3>5, <3>6 DEF Lives
  <2> QED BY <2>2, <2>3
<1> QED BY <1>4, <1>5 DEF Switching

LEMMA LivesShape ==
  ASSUME Inv, Exclusive', NEW t \in Procs, Shape(t), NEW p \in Projects
  PROVE  Lives(p)
<1>1. TypeOK /\ Ownership /\ Containers /\ Exclusive
  BY DEF Inv, Containers
<1>2. Owner(t) /\ Contained(t) /\ OnEdge(t)
  BY <1>1 DEF Inv, Ownership, Containers, Edge
<1> PICK n : n = job[t].id
  OBVIOUS
<1>3. /\ job[t].pc \in Working \cup Requests => rows[n].project = job[t].proj
      /\ job[t].pc \in {"stopContainer", "rmContainer", "rmRow"} =>
           job[t].op \in {"stop", "remove"}
  BY <1>2 DEF Owner, IsLatest, RowsOf, Removing
<1>d. job[t].pc \in {"stopContainer", "rmContainer", "rmRow"} /\ job[t].proj = p =>
        Doing(p, {"stop", "remove"})
  BY <1>3 DEF Doing
<1>4. CASE \/ Passes(t) \/ Fails(t) \/ Routes(t) \/ Inserts(t) \/ Reads(t) \/ Lists(t) \/ DrainsPort(t)
           \/ DrainsRow(t) \/ Succeeds(t) \/ Leaves(t) \/ StopsRow(t) \/ RemovesPort(t) \/ RemovesSite(t)
  <2>1. UNCHANGED <<cont, cport, route>>
    BY <1>4 DEF Passes, Fails, Routes, Inserts, Reads, Lists, DrainsPort, DrainsRow, Succeeds,
       Leaves, StopsRow, RemovesPort, RemovesSite
  <2>2. \A d \in Ids : rows'[d].project = rows[d].project
    BY <1>4 DEF Passes, Fails, Routes, Inserts, Reads, Lists, DrainsPort, DrainsRow, Succeeds,
       Leaves, StopsRow, RemovesPort, RemovesSite, Saved
  <2>3. \A d \in Ids : Serves(d, p)' <=> Serves(d, p)
    BY <2>1, <2>2 DEF Serves, RowsOf
  <2> QED BY <1>1, <2>1, <2>3, LivesSame
<1>5. CASE Creates(t)
  <2> PICK m \in Ids : m = nextId
    BY <1>5 DEF Creates
  <2>1. cont[m] = "none"
    <3>1. m >= m
      BY Constants
    <3> QED BY <1>1, <3>1 DEF Containers
  <2>2. \A d \in Ids : Serves(d, p)' <=> Serves(d, p)
    BY <1>5, <2>1 DEF Creates, Serves, RowsOf
  <2> QED BY <1>1, <1>5, <2>2, LivesSame DEF Creates
<1>6. CASE Runs(t) \/ RunFails(t)
  <2>1. cont[n] = "none"
    BY <1>2, <1>6 DEF Runs, RunFails, Contained, Preparing
  <2>2. \A d \in Ids : rows'[d].project = rows[d].project
    BY <1>6 DEF Runs, RunFails, Saved
  <2>3. /\ \A d \in Ids : d # n => cont'[d] = cont[d] /\ cport'[d] = cport[d]
        /\ n \in Ids => cont'[n] # "up"
    BY <1>1, <1>6, <2>1 DEF Runs, RunFails, TypeOK
  <2>4. \A d \in Ids : Serves(d, p)' <=> Serves(d, p)
    BY <1>6, <2>1, <2>2, <2>3 DEF Runs, RunFails, Serves, RowsOf
  <2> QED BY <1>1, <1>6, <2>4, LivesSame DEF Runs, RunFails
<1>7. CASE Installs(t)
  <2>1. job[t].snap[p] \in {site[p], route[p]}
    BY <1>2, <1>7 DEF Installs, OnEdge, Reloading
  <2> QED BY <1>7, <2>1, LivesRouted DEF Installs
<1>8. CASE DrainsContainer(t)
  <2> PICK c \in Draining(t) : AgentRemove(c.id)
    BY <1>8 DEF DrainsContainer
  <2> PICK m \in Ids : m = c.id
    BY <1>1, DrainedRow
  <2>1. m # n /\ rows[m].project = job[t].proj
    BY <1>1, DrainedRow
  <2>2. ~Serves(m, p)
    <3>1. CASE p # job[t].proj
      BY <2>1, <3>1 DEF Serves, RowsOf
    <3>2. CASE p = job[t].proj
      <4>1. Settled(p)
        BY <1>1, <1>8, <3>2, Mover DEF DrainsContainer, Settled, Switching
      <4>2. route[p] = site[p] /\ site[p] = job[t].port /\ job[t].port # NoPort
        BY <1>2, <1>8, <3>2, <4>1 DEF Inv, Edge, Followed, DrainsContainer, OnEdge, Switched, Owner, Draining3
      <4>3. cport[n] = job[t].port /\ cont[n] = "up" /\ n \in Ids
        BY <1>1, <1>2, <1>8, <4>2
        DEF DrainsContainer, Contained, Switched, Owner, Working, JobPcs, IsLatest, RowsOf
      <4> QED BY <1>1, <2>1, <4>2, <4>3 DEF Serves, Exclusive, Running
    <3> QED BY <3>1, <3>2
  <2>3. \A d \in Ids : d # m => cont'[d] = cont[d]
    BY <1>1 DEF AgentRemove, TypeOK
  <2>4. cont'[m] # "up" \/ cont'[m] = cont[m]
    BY <1>1 DEF AgentRemove, TypeOK
  <2>5. \A d \in Ids : Serves(d, p)' <=> Serves(d, p)
    BY <1>8, <2>2, <2>3, <2>4 DEF DrainsContainer, Serves, RowsOf
  <2> QED BY <1>1, <1>8, <2>5, LivesSame DEF DrainsContainer
<1>9. CASE Stops(t) \/ RemovesContainer(t)
  <2>1. job[t].pc \in {"stopContainer", "rmContainer"} /\ UNCHANGED <<rows, cport, route>>
    BY <1>9 DEF Stops, RemovesContainer
  <2>2. /\ \A d \in Ids : d # n => cont'[d] = cont[d]
        /\ n \in Ids => cont'[n] # "up" \/ cont'[n] = cont[n]
    BY <1>1, <1>9 DEF Stops, RemovesContainer, AgentRemove, TypeOK
  <2>3. rows[n].project = job[t].proj
    BY <1>3, <2>1 DEF Requests
  <2>4. CASE p = job[t].proj
    <3>1. \A d \in Ids : Serves(d, p)' => Serves(d, p)
      BY <2>1, <2>2 DEF Serves, RowsOf
    <3> QED BY <1>1, <1>d, <2>1, <2>4, <3>1, LivesLess
  <2>5. CASE p # job[t].proj
    <3>1. \A d \in Ids : Serves(d, p)' <=> Serves(d, p)
      BY <2>1, <2>2, <2>3, <2>5 DEF Serves, RowsOf
    <3> QED BY <1>1, <2>1, <3>1, LivesSame
  <2> QED BY <2>4, <2>5
<1>10. CASE RemovesRow(t)
  <2>1. UNCHANGED <<cont, cport, route>> /\ job[t].pc = "rmRow"
    BY <1>10 DEF RemovesRow
  <2>2. \A d \in Ids : IF rows[d].project = job[t].proj THEN rows'[d] = NoRow ELSE rows'[d] = rows[d]
    BY <1>10 DEF RemovesRow, RowsOf
  <2>3. NoRow.project # p
    BY Constants DEF NoRow
  <2>4. CASE p = job[t].proj
    <3>1. \A d \in Ids : Serves(d, p)' => Serves(d, p)
      BY <2>1, <2>2, <2>3 DEF Serves, RowsOf
    <3> QED BY <1>1, <1>d, <2>1, <2>4, <3>1, LivesLess
  <2>5. CASE p # job[t].proj
    <3>1. \A d \in Ids : Serves(d, p)' <=> Serves(d, p)
      BY <2>1, <2>2, <2>3, <2>5 DEF Serves, RowsOf
    <3> QED BY <1>1, <2>1, <3>1, LivesSame
  <2> QED BY <2>4, <2>5
<1> QED BY <1>4, <1>5, <1>6, <1>7, <1>8, <1>9, <1>10 DEF Shape

LEMMA LivesUp ==
  ASSUME Inv, Exclusive', NEW e \in Ids, AppUp(e), NEW p \in Projects
  PROVE  Lives(p)
<1>1. TypeOK /\ Exclusive
  BY DEF Inv, Containers
<1>2. /\ UNCHANGED <<rows, cport, route>> /\ cont[e] = "starting" /\ cont'[e] = "up"
      /\ \A d \in Ids : d # e => cont'[d] = cont[d]
  BY <1>1 DEF AppUp, db, edge, TypeOK
<1>3. CASE rows[e].project = p /\ cport[e] = route[p] /\ route[p] \in Ports
  <2>1. Answerer(p) = -1
    <3>1. \A d \in Ids : ~Serves(d, p)
      BY <1>1, <1>2, <1>3 DEF Serves, Exclusive, Running
    <3> QED BY <1>1, <1>3, <3>1, AnswererIs
  <2>2. Answerer(p)' = e
    BY <1>2, <1>3, NextAnswererIs DEF Serves, RowsOf
  <2> QED BY <2>1, <2>2, Constants DEF Lives
<1>4. CASE ~(rows[e].project = p /\ cport[e] = route[p] /\ route[p] \in Ports)
  <2>1. CASE route[p] \notin Ports
    BY <1>1, <1>2, <2>1, AnswererIs, NextAnswererIs DEF Lives
  <2>2. CASE route[p] \in Ports
    <3>1. \A d \in Ids : Serves(d, p)' <=> Serves(d, p)
      BY <1>2, <1>4, <2>2 DEF Serves, RowsOf
    <3> QED BY <1>1, <1>2, <3>1, LivesSame
  <2> QED BY <2>1, <2>2
<1> QED BY <1>3, <1>4

LEMMA LivesStep ==
  ASSUME Inv, Inv', [CrashNext]_vars, NEW p \in Projects
  PROVE  Lives(p)
<1> USE DEF db, host, edge
<1>1. TypeOK /\ Ownership /\ Exclusive /\ Exclusive'
  BY DEF Inv, Containers
<1>2. CASE \E t \in Procs : Step(t)
  BY <1>1, <1>2, StepShape, LivesShape
<1>3. CASE UNCHANGED <<rows, cont, cport>> /\ route'[p] \in {route[p], site[p]}
  BY <1>1, <1>3, LivesRouted
<1>4. CASE \/ \E q \in Projects : CreateProject(q)
           \/ \E t \in Procs, q \in Projects : Ask(t, q)
           \/ WatcherReload \/ Crash \/ UNCHANGED vars
  BY <1>3, <1>4 DEF CreateProject, Ask, Trigger, RequestStop, RequestRemove, WatcherReload, Crash, vars
<1>5. CASE \E d \in Ids : AppUp(d)
  BY <1>1, <1>5, LivesUp
<1> QED BY <1>2, <1>4, <1>5 DEF CrashNext, OrderlyNext, CarefulNext, Background

(* Zero downtime, for any number of projects, goroutines and ports, with   *)
(* agent faults and crashes: what a visitor of a domain sees is replaced   *)
(* only by a later release, in the step in which the router is rebuilt,    *)
(* and goes away only under a Stop or Remove (Deploy, Rollback, drainOld). *)
THEOREM DowntimeFree == CrashSpec => ZeroDowntime
<1>1. Init => Service!SInit
  <2> SUFFICES ASSUME Init PROVE Service!SInit
    OBVIOUS
  <2>1. \A p \in Projects : Answerer(p) = -1
    <3> SUFFICES ASSUME NEW p \in Projects PROVE Answerer(p) = -1
      OBVIOUS
    <3>1. route[p] = NoSite /\ NoSite \notin Ports
      BY Constants DEF Init, NoSites, NoSite
    <3> QED BY <3>1 DEF Answerer, NoSite
  <2>2. \A p \in Projects : ~Doing(p, {"stop", "remove"})
    BY IdleIs DEF Init, Doing
  <2> QED BY <2>1, <2>2 DEF Service!SInit, Service!Down
<1>2. Inv /\ Inv' /\ [CrashNext]_vars => [Service!SNext]_(Service!sVars)
  <2> SUFFICES ASSUME Inv, Inv', [CrashNext]_vars PROVE Service!SNext
    OBVIOUS
  <2>1. \A p \in Projects : Lives(p)
    BY LivesStep
  <2>2. {p \in Projects : Doing(p, {"stop", "remove"})}' \in SUBSET Projects
    OBVIOUS
  <2>3. DOMAIN [p \in Projects |-> Answerer(p)]' = Projects
    OBVIOUS
  <2>4. ASSUME NEW p \in Projects
        PROVE  [q \in Projects |-> Answerer(q)]'[p] = [q \in Projects |-> Answerer(q)][p]
               \/ Service!Publish(p) \/ Service!TakeDown(p)
    <3>1. Lives(p)
      BY <2>1
    <3> QED BY <3>1 DEF Lives, Service!Publish, Service!TakeDown, Service!Down, Service!Static
  <2> QED BY <2>2, <2>3, <2>4 DEF Service!SNext
<1> QED BY <1>1, <1>2, InvCorrect, PTL DEF CrashSpec, ZeroDowntime, Service!SSpec

-----------------------------------------------------------------------------
(* Under any requests at any time, with agent faults and crashes: what a   *)
(* goroutine knows of the row it has created.                              *)
Recorded(t) ==
  LET j == job[t] IN
  /\ j.id < nextId
  /\ j.pc \in {"checked", "begin"} => j.id = 0
  /\ j.pc = "done" /\ j.id \in Ids => rows[j.id].status # "building"
NoRowsAhead == \A d \in Ids : d >= nextId => rows[d].project = NoProject
Records == NoRowsAhead /\ \A t \in Procs : Recorded(t)

(* Rows that exist are saved over, never with "building", and a goroutine  *)
(* keeps its deployment until it returns.                                  *)
Saves == \A d \in Ids :
  /\ rows'[d].project \in {rows[d].project, NoProject}
  /\ rows'[d].status = "building" => rows[d].status = "building"

LEMMA WrittenSaves ==
  ASSUME TypeOK, NEW d \in Ids, NEW s \in Statuses, s # "building", NEW q, NEW i,
         rows' = Written(d, s, q, i)
  PROVE  Saves /\ rows'[d].status # "building"
<1>1. CASE Present(d)
  BY <1>1, WrittenIs DEF Saves
<1>2. CASE ~Present(d)
  BY <1>2 DEF Saves, Written, Present
<1> QED BY <1>1, <1>2

LEMMA RecordsFrom ==
  ASSUME TypeOK, Records, NEW t \in Procs, Others(t), Saves, UNCHANGED nextId, Recorded(t)'
  PROVE  Records'
<1>1. NoRowsAhead'
  BY DEF Records, NoRowsAhead, Saves
<1>2. ASSUME NEW u \in Procs \ {t} PROVE Recorded(u)'
  BY <1>2 DEF Records, Recorded, Saves, Others
<1> QED BY <1>1, <1>2 DEF Records

(* A step of t keeps t's deployment and saves nothing as "building", until *)
(* it is done with a row that is not.                                      *)
Keeps(t) == job'[t].id = job[t].id /\ job[t].pc # "begin" /\ job[t].pc # "checked"
Goes(t) ==
  \/ /\ UNCHANGED nextId /\ Saves /\ Keeps(t)
     /\ job'[t].pc = "done" /\ job'[t].id \in Ids => rows'[job'[t].id].status # "building"
     /\ job'[t].pc \notin {"checked", "begin"}
     /\ job[t].pc \in JobPcs => job'[t].pc \in JobPcs
  \/ /\ UNCHANGED <<nextId, rows>> /\ job[t].id = 0 /\ job'[t].id = 0
  \/ UNCHANGED nextId /\ Saves /\ job[t].pc \notin JobPcs \ {"done"} /\ job'[t] = Idle

LEMMA SavesNothing == ASSUME UNCHANGED rows PROVE Saves
BY DEF Saves

LEMMA GoesOn ==
  ASSUME TypeOK, Records, NEW t \in Procs, NEW pc, Goto(t, pc), Saves, UNCHANGED nextId,
         job[t].pc \notin {"begin", "checked"}, pc \notin {"checked", "begin"},
         job[t].pc \in JobPcs => pc \in JobPcs,
         pc = "done" /\ job[t].id \in Ids => rows'[job[t].id].status # "building"
  PROVE  Others(t) /\ Goes(t)
<1>1. Others(t) /\ job'[t].pc = pc /\ job'[t].id = job[t].id
  BY GotoIs DEF Like
<1> QED BY <1>1 DEF Goes, Keeps

LEMMA StepGoes ==
  ASSUME TypeOK, Records, NEW t \in Procs, Step(t), ~Begin(t)
  PROVE  Others(t) /\ Goes(t)
<1> USE DEF db, host, edge
<1>1. job[t] \in Job /\ Recorded(t)
  BY DEF TypeOK, Records
<1>2. job[t].pc \notin Rowless => job[t].id \in Ids
  BY DEF TypeOK, Placed
<1>f. ASSUME Fail(t), UNCHANGED nextId, job[t].pc \in JobPcs \ {"checked", "begin", "done"}
      PROVE  Others(t) /\ Goes(t)
  <2>1. Others(t) /\ job'[t] = [job[t] EXCEPT !.pc = "done", !.cursor = 0]
    BY <1>f, BecomesIs DEF Fail
  <2>2. job'[t].pc = "done" /\ job'[t].id = job[t].id
    BY <1>1, <2>1 DEF Job
  <2>3. job[t].id \in Ids
    BY <1>2, <1>f DEF Rowless, JobPcs
  <2>4. Saves /\ rows'[job[t].id].status # "building"
    BY <1>f, <2>3, WrittenSaves DEF Fail, Statuses
  <2> QED BY <1>f, <2>1, <2>2, <2>4 DEF Goes, Keeps, JobPcs
<1>3. CASE Start(t)
  <2>1. Others(t) /\ job'[t].id = job[t].id
    BY <1>3, GotoIs DEF Start, Like
  <2> QED BY <1>1, <1>3, <2>1 DEF Start, Recorded, Goes
<1>4. CASE Refuse(t)
  <2>1. Others(t) /\ job'[t].id = job[t].id
    BY <1>4, GotoIs DEF Refuse, Like
  <2> QED BY <1>1, <1>4, <2>1 DEF Refuse, Recorded, Goes
<1>5. CASE Sync(t)
  <2>1. CASE Fail(t)
    BY <1>5, <1>f, <2>1 DEF Sync, JobPcs
  <2>2. CASE ~Fail(t)
    <3> PICK s \in {"static", "container"} :
          Becomes(t, [job[t] EXCEPT !.pc = IF s = "static" THEN "publish" ELSE "build",
                                    !.strategy = "auto"])
      BY <1>5, <2>2 DEF Sync
    <3>1. Others(t) /\ job'[t].pc \in {"publish", "build"} /\ job'[t].id = job[t].id
      BY SyncIs
    <3> QED BY <1>5, <2>2, <3>1, SavesNothing DEF Sync, Goes, Keeps, JobPcs
  <2> QED BY <2>1, <2>2
<1>6. CASE Build(t)
  <2>1. CASE Fail(t)
    BY <1>6, <1>f, <2>1 DEF Build, JobPcs
  <2>2. CASE ~Fail(t)
    <3>1. Others(t) /\ job'[t].pc = "scan" /\ job'[t].id = job[t].id
      BY <1>6, <2>2, BuildIs DEF Build
    <3> QED BY <1>6, <2>2, <3>1, SavesNothing DEF Build, Goes, Keeps, JobPcs
  <2> QED BY <2>1, <2>2
<1>7. CASE Scan(t)
  <2>1. CASE Fail(t)
    BY <1>7, <1>f, <2>1 DEF Scan, JobPcs
  <2>2. CASE ~Fail(t)
    <3>1. Others(t) /\ job'[t].pc \in {"scan", "insert"} /\ job'[t].id = job[t].id
      BY <1>7, <2>2, ScanIs DEF Scan
    <3> QED BY <1>7, <2>2, <3>1, SavesNothing DEF Scan, Goes, Keeps, JobPcs
  <2> QED BY <2>1, <2>2
<1>8. CASE Run(t)
  <2>1. CASE Fail(t)
    BY <1>8, <1>f, <2>1 DEF Run, JobPcs
  <2>2. CASE ~Fail(t)
    <3>1. Others(t) /\ job'[t].pc = "health" /\ job'[t].id = job[t].id
      BY <1>8, <2>2, RunIs DEF Run
    <3> QED BY <1>8, <2>2, <3>1, SavesNothing DEF Run, Goes, Keeps, JobPcs
  <2> QED BY <2>1, <2>2
<1>9. CASE Publish(t) \/ Insert(t) \/ Health(t) \/ Flip(t)
  <2>1. /\ UNCHANGED nextId
        /\ job[t].pc \in {"publish", "insert", "health", "flip"}
    BY <1>9 DEF Publish, Insert, Health, Flip
  <2>2. CASE Fail(t)
    BY <1>f, <2>1, <2>2 DEF JobPcs
  <2>3. CASE ~Fail(t)
    <3>1. UNCHANGED rows /\ \E pc \in {"reload", "run", "flip"} : Goto(t, pc)
      BY <1>9, <2>3 DEF Publish, Insert, Health, Flip
    <3> QED BY <2>1, <3>1, SavesNothing, GoesOn DEF JobPcs
  <2> QED BY <2>2, <2>3
<1>10. CASE ReadSites(t)
  <2> PICK pc \in {"install", "rmInstall"} :
        /\ Becomes(t, [job[t] EXCEPT !.pc = pc, !.snap = site])
        /\ job[t].pc = IF pc = "install" THEN "reload" ELSE "rmReload"
    BY <1>10 DEF ReadSites
  <2>1. Others(t) /\ job'[t].pc = pc /\ job'[t].id = job[t].id
    BY SnapIs
  <2> QED BY <1>10, <2>1, SavesNothing DEF ReadSites, Goes, Keeps, JobPcs
<1>11. CASE Install(t)
  <2> PICK pc \in {"succeed", "list", "rmRow"} :
        /\ Becomes(t, [job[t] EXCEPT !.pc = pc, !.snap = NoSites])
        /\ job[t].pc \in {"install", "rmInstall"} /\ (job[t].pc = "install" => pc # "rmRow")
    BY <1>11 DEF Install, Installed
  <2>1. Others(t) /\ job'[t].pc = pc /\ job'[t].id = job[t].id
    BY SnapIs
  <2> QED BY <1>11, <2>1, SavesNothing DEF Install, Goes, Keeps, JobPcs
<1>12. CASE List(t)
  <2> PICK s : \E pc \in {"succeed", "drainContainer"} :
        Becomes(t, [job[t] EXCEPT !.pc = pc, !.todo = s])
    BY <1>12 DEF List
  <2> PICK pc \in {"succeed", "drainContainer"} :
        Becomes(t, [job[t] EXCEPT !.pc = pc, !.todo = s])
    OBVIOUS
  <2>1. Others(t) /\ job'[t] = [job[t] EXCEPT !.pc = pc, !.todo = s]
    BY BecomesIs
  <2>2. job'[t].pc = pc /\ job'[t].id = job[t].id
    BY <1>1, <2>1 DEF Job
  <2> QED BY <1>12, <2>1, <2>2, SavesNothing DEF List, Goes, Keeps, JobPcs
<1>13. CASE DrainContainer(t) \/ DrainPort(t) \/ StopContainer(t) \/ RemoveContainer(t) \/ RemovePort(t) \/ RemoveSite(t)
  <2>1. UNCHANGED <<rows, nextId>>
    BY <1>13 DEF DrainContainer, DrainPort, StopContainer, RemoveContainer, RemovePort, RemoveSite
  <2>2. CASE Return(t)
    <3>1. job[t].pc \notin JobPcs
      BY <1>13, <2>2, GotoIs, ReturnIs, IdleIs
      DEF DrainContainer, DrainPort, StopContainer, RemoveContainer, RemovePort, RemoveSite, JobPcs
    <3> QED BY <2>1, <2>2, <3>1, SavesNothing, ReturnIs DEF Goes
  <2>3. CASE ~Return(t)
    BY <1>13, <2>1, <2>3, SavesNothing, GoesOn
    DEF DrainContainer, DrainPort, StopContainer, RemoveContainer, RemovePort, RemoveSite, JobPcs
  <2> QED BY <2>2, <2>3
<1>14. CASE DrainRow(t)
  <2> PICK c \in Draining(t) :
        /\ rows' = Written(c.id, "stopped", c.port, c.image)
        /\ Becomes(t, [job[t] EXCEPT !.todo = @ \ {c},
                 !.pc = IF job[t].todo = {c} THEN "succeed" ELSE "drainContainer"])
    BY <1>14 DEF DrainRow
  <2>1. c.id \in Ids
    BY <1>1 DEF Draining, Job, Copy
  <2>2. Saves
    BY <2>1, WrittenSaves DEF Statuses
  <2>3. Others(t) /\ job'[t] = [job[t] EXCEPT !.todo = job[t].todo \ {c},
                 !.pc = IF job[t].todo = {c} THEN "succeed" ELSE "drainContainer"]
    BY BecomesIs
  <2>4. job'[t].pc \in {"succeed", "drainContainer"} /\ job'[t].id = job[t].id
    BY <1>1, <2>3 DEF Job
  <2> QED BY <1>14, <2>2, <2>3, <2>4 DEF DrainRow, Goes, Keeps, JobPcs
<1>15. CASE Succeed(t)
  <2>1. job[t].id \in Ids
    BY <1>2, <1>15 DEF Succeed, Rowless
  <2>2. Saves /\ rows'[job[t].id].status # "building"
    BY <1>15, <2>1, WrittenSaves DEF Succeed, Statuses
  <2> QED BY <1>15, <2>2, GoesOn DEF Succeed, JobPcs
<1>16. CASE Done(t)
  BY <1>16, ReturnIs, SavesNothing DEF Done, Goes, JobPcs
<1>17. CASE StopRow(t)
  <2>1. job[t].id \in Ids
    BY <1>2, <1>17 DEF StopRow, Rowless
  <2>2. Saves
    BY <1>17, <2>1, WrittenSaves DEF StopRow, Statuses
  <2> QED BY <1>17, <2>2, ReturnIs DEF StopRow, Goes, JobPcs
<1>18. CASE RemoveRow(t)
  <2>1. Saves
    BY <1>18 DEF RemoveRow, Saves, NoRow
  <2> QED BY <1>18, <2>1, ReturnIs DEF RemoveRow, Goes, JobPcs
<1> QED
  BY <1>3, <1>4, <1>5, <1>6, <1>7, <1>8, <1>9, <1>10, <1>11, <1>12, <1>13, <1>14, <1>15, <1>16,
     <1>17, <1>18 DEF Step

LEMMA RecordsGo ==
  ASSUME TypeOK, Records, NEW t \in Procs, Others(t), Goes(t)
  PROVE  Records'
<1>1. nextId \in Nat /\ 0 < nextId /\ nextId' = nextId
  BY Constants DEF TypeOK, Goes
<1>2. Saves
  BY SavesNothing DEF Goes
<1>3. Recorded(t)
  BY DEF Records
<1>4. Recorded(t)'
  BY <1>1, <1>3, IdleIs DEF Goes, Keeps, Recorded, Ids
<1> QED BY <1>1, <1>2, <1>4, RecordsFrom

LEMMA RecordsStep == TypeOK /\ Records /\ [Next]_vars => Records'
<1> SUFFICES ASSUME TypeOK, Records, [Next]_vars PROVE Records'
  OBVIOUS
<1> USE DEF db, host, edge
<1>1. CASE \E t \in Procs : Step(t) /\ ~Begin(t)
  BY <1>1, StepGoes, RecordsGo
<1>2. CASE \E t \in Procs : Begin(t)
  <2> PICK t \in Procs : Begin(t)
    BY <1>2
  <2> PICK pc \in {"sync", "scan"} : CreateDeployment(t, pc)
    BY DEF Begin
  <2> PICK n \in Ids : n = nextId
    BY CreateIs
  <2>1. /\ Others(t) /\ job'[t].pc = pc /\ job'[t].id = n /\ nextId' = n + 1
        /\ \A e \in Ids \ {n} : rows'[e] = rows[e]
    BY CreateIs
  <2>2. n \in Nat
    BY Constants
  <2>3. NoRowsAhead'
    <3> SUFFICES ASSUME NEW d \in Ids, d >= n + 1 PROVE rows'[d].project = NoProject
      BY <2>1 DEF NoRowsAhead
    <3>1. d # n /\ d >= n
      BY <2>2, Constants
    <3> QED BY <2>1, <3>1 DEF Records, NoRowsAhead
  <2>4. Recorded(t)'
    BY <2>1, <2>2 DEF Recorded
  <2>5. ASSUME NEW u \in Procs \ {t} PROVE Recorded(u)'
    <3> PICK i \in {0} \cup Ids : i = job[u].id
      BY DEF TypeOK, Job
    <3>1. i < n /\ Recorded(u) /\ job'[u] = job[u]
      BY <2>1 DEF Records, Recorded, Others
    <3>2. i # n /\ i < n + 1
      BY <2>2, <3>1, Constants
    <3> QED BY <2>1, <3>1, <3>2 DEF Recorded
  <2> QED BY <2>3, <2>4, <2>5 DEF Records
<1>3. CASE \E t \in Procs, p \in Projects : Ask(t, p)
  <2> PICK t \in Procs, p \in Projects : Ask(t, p)
    BY <1>3
  <2>1. UNCHANGED <<rows, nextId>> /\ nextId \in Nat /\ 0 < nextId
    BY Constants DEF Ask, Trigger, RequestStop, RequestRemove, TypeOK
  <2>c. ASSUME NEW d \in Ids, NEW op, NEW pc \in RequestPcs, IsLatest(d, p), Copied(t, p, d, op, pc)
        PROVE  Others(t) /\ Recorded(t)'
    <3>1. Others(t) /\ job'[t].id = d /\ job'[t].pc = pc
      BY <2>c, CopiedIs
    <3>2. ~(d >= nextId)
      BY <2>c, Constants DEF IsLatest, RowsOf, Records, NoRowsAhead
    <3>3. d < nextId
      BY <2>1, <3>2, Constants
    <3> QED BY <2>1, <3>1, <3>3 DEF Recorded, RequestPcs
  <2>a. ASSUME NEW op, NEW pc, Becomes(t, [Idle EXCEPT !.pc = pc, !.op = op, !.proj = p]), pc # "done"
        PROVE  Others(t) /\ Recorded(t)'
    <3>1. Others(t) /\ job'[t].id = 0 /\ job'[t].pc = pc
      BY <2>a, AskIs
    <3> QED BY <2>1, <2>a, <3>1 DEF Recorded
  <2>2. ASSUME Trigger(t, p) PROVE Others(t) /\ Recorded(t)'
    BY <2>2, <2>a DEF Trigger
  <2>3. ASSUME RequestStop(t, p) PROVE Others(t) /\ Recorded(t)'
    BY <2>3, <2>c DEF RequestStop, RequestPcs
  <2>4. ASSUME RequestRemove(t, p) PROVE Others(t) /\ Recorded(t)'
    BY <2>4, <2>a, <2>c DEF RequestRemove, RequestPcs
  <2>5. Others(t) /\ Recorded(t)'
    BY <2>2, <2>3, <2>4 DEF Ask
  <2> QED BY <2>1, <2>5, SavesNothing, RecordsFrom
<1>4. CASE Crash
  <2>1. \A t \in Procs : Recorded(t)'
    BY <1>4, IdleIs, Constants DEF Crash, Recorded, TypeOK, Ids
  <2>2. NoRowsAhead'
    BY <1>4 DEF Crash, Records, NoRowsAhead
  <2> QED BY <2>1, <2>2 DEF Records
<1>5. CASE UNCHANGED <<rows, nextId, job>>
  BY <1>5 DEF Records, Recorded, NoRowsAhead
<1>6. CASE \/ \E p \in Projects : CreateProject(p)
           \/ \E d \in Ids : AppUp(d)
           \/ WatcherReload \/ UNCHANGED vars
  BY <1>5, <1>6 DEF CreateProject, AppUp, WatcherReload, vars
<1> QED BY <1>1, <1>2, <1>3, <1>4, <1>6 DEF Next, ConcurrentNext, Background

LEMMA RecordsCorrect == Spec => []Records
<1>1. Init => Records
  BY IdleIs DEF Init, Records, NoRowsAhead, Recorded, NoRow
<1> QED BY <1>1, RecordsStep, TypeCorrect, PTL DEF Spec

(* Whatever is asked at the same time and whatever fails, a job that ends  *)
(* does not leave its row "building" on the dashboard: every return of     *)
(* Deploy, Update and Rollback has saved the row as failed or running, and *)
(* no other goroutine saves it as building again.  Only a crash does.      *)
THEOREM OnlyCrashes == Spec => OnlyCrashAbandons
<1>1. ASSUME TypeOK, Records, [Next]_vars, NEW d \in Ids, rows[d].status = "building",
             WorkedOn(d), ~WorkedOn(d)'
      PROVE  Crash
  <2> PICK u \in Procs : job[u].id = d /\ job[u].pc \in JobPcs
    BY <1>1 DEF WorkedOn
  <2>1. job'[u] # job[u]
    BY <1>1 DEF WorkedOn
  <2>2. Recorded(u) /\ job[u].pc # "done" /\ d # 0 /\ job[u].pc # "idle"
    BY <1>1, Constants DEF Records, Recorded, JobPcs
  <2>3. ASSUME NEW t \in Procs, Step(t) PROVE FALSE
    <3>1. CASE Begin(t)
      <4>1. Others(t)
        BY <1>1, <3>1, CreateIs DEF Begin
      <4> QED BY <2>1, <2>2, <3>1, <4>1 DEF Others, Begin, Recorded
    <3>2. CASE ~Begin(t)
      <4>1. Others(t) /\ Goes(t)
        BY <1>1, <2>3, <3>2, StepGoes
      <4>2. t = u
        BY <2>1, <4>1 DEF Others
      <4>3. job'[u].id = d /\ job'[u].pc \in JobPcs
        BY <2>2, <4>1, <4>2 DEF Goes, Keeps
      <4> QED BY <1>1, <4>3 DEF WorkedOn
    <3> QED BY <3>1, <3>2
  <2>4. ASSUME NEW t \in Procs, NEW p \in Projects, Ask(t, p) PROVE FALSE
    <3>1. Asked(t, p)
      BY <1>1, <2>4, AskShape
    <3> QED BY <2>1, <2>2, <3>1 DEF Asked, Others
  <2> QED
    BY <1>1, <2>1, <2>3, <2>4
    DEF Next, ConcurrentNext, Background, CreateProject, AppUp, WatcherReload, vars
<1>2. TypeOK /\ Records /\ [Next]_vars =>
        [\A d \in Ids : rows[d].status = "building" /\ WorkedOn(d) /\ ~WorkedOn(d)'
            => rows'[d].status # "building" \/ Crash]_vars
  BY <1>1
<1> QED BY <1>2, RecordsCorrect, TypeCorrect, PTL DEF Spec, OnlyCrashAbandons

-----------------------------------------------------------------------------
(* The flag of a project.                                                  *)

(* From setDeploying(id, true) to the deferred setDeploying(id, false).    *)
Flagged == JobPcs \ {"checked"}

(* A flag that is set has a job that will clear it.                        *)
FlagHeld == \A p \in deploying : \E t \in Procs : job[t].proj = p /\ job[t].pc \in Flagged

(* A step of t that leaves the flags alone, and is not the end of a job.   *)
Carries(t) ==
  /\ Others(t) /\ UNCHANGED deploying
  /\ job[t].pc \in Flagged => job'[t].pc \in Flagged /\ job'[t].proj = job[t].proj

LEMMA FlagCarried ==
  ASSUME FlagHeld, NEW t \in Procs, Carries(t)
  PROVE  FlagHeld'
<1> SUFFICES ASSUME NEW p \in deploying
             PROVE  \E u \in Procs : job'[u].proj = p /\ job'[u].pc \in Flagged
  BY DEF FlagHeld, Carries
<1>1. PICK u \in Procs : job[u].proj = p /\ job[u].pc \in Flagged
  BY DEF FlagHeld
<1>2. CASE u = t
  BY <1>1, <1>2 DEF Carries
<1>3. CASE u # t
  BY <1>1, <1>3 DEF Carries, Others
<1> QED BY <1>2, <1>3

LEMMA JobCarries ==
  ASSUME TypeOK, NEW t \in Procs,
         \/ Begin(t) \/ Refuse(t) \/ Sync(t) \/ Publish(t) \/ Build(t) \/ Scan(t) \/ Insert(t)
         \/ Run(t) \/ Health(t) \/ Flip(t)
  PROVE  Carries(t)
<1>1. UNCHANGED deploying
  BY DEF Begin, Refuse, Sync, Publish, Build, Scan, Insert, Run, Health, Flip, CreateDeployment
<1>2. ASSUME Others(t), job'[t].pc \in Flagged, job'[t].proj = job[t].proj
      PROVE  Carries(t)
  BY <1>1, <1>2 DEF Carries
<1>3. /\ "sync" \in Flagged /\ "scan" \in Flagged /\ "done" \in Flagged /\ "publish" \in Flagged
      /\ "build" \in Flagged /\ "insert" \in Flagged /\ "reload" \in Flagged
      /\ "run" \in Flagged /\ "health" \in Flagged /\ "flip" \in Flagged
  BY DEF Flagged, JobPcs
<1>4. ASSUME NEW pc \in Flagged, Goto(t, pc) PROVE Carries(t)
  BY <1>2, <1>4, GotoIs DEF Like
<1>5. ASSUME Fail(t) PROVE Carries(t)
  <2>1. Others(t) /\ job'[t] = [job[t] EXCEPT !.pc = "done", !.cursor = 0]
    BY <1>5, BecomesIs DEF Fail
  <2>2. job'[t].pc = "done" /\ job'[t].proj = job[t].proj
    BY <2>1 DEF TypeOK, Job
  <2> QED BY <1>2, <1>3, <2>1, <2>2
<1>6. CASE Begin(t)
  <2>1. PICK pc \in {"sync", "scan"} : CreateDeployment(t, pc)
    BY <1>6 DEF Begin
  <2>2. Others(t) /\ job'[t].pc = pc /\ job'[t].proj = job[t].proj
    BY <2>1, CreateIs
  <2> QED BY <1>2, <1>3, <2>1, <2>2
<1>7. CASE Refuse(t)
  BY <1>3, <1>4, <1>7 DEF Refuse
<1>8. CASE Sync(t)
  <2>1. ASSUME NEW s \in {"static", "container"},
               Becomes(t, [job[t] EXCEPT !.pc = IF s = "static" THEN "publish" ELSE "build",
                                         !.strategy = "auto"])
        PROVE  Carries(t)
    BY <1>2, <1>3, <2>1, SyncIs
  <2> QED BY <1>5, <1>8, <2>1 DEF Sync
<1>9. CASE Publish(t) \/ Flip(t)
  BY <1>3, <1>4, <1>5, <1>9 DEF Publish, Flip
<1>10. CASE Build(t)
  <2>1. ASSUME Becomes(t, [job[t] EXCEPT !.pc = "scan", !.image = TRUE]) PROVE Carries(t)
    BY <1>2, <1>3, <2>1, BuildIs
  <2> QED BY <1>5, <1>10, <2>1 DEF Build
<1>11. CASE Scan(t)
  <2>1. ASSUME NEW q, Becomes(t, IF alloc[q] = Free THEN [job[t] EXCEPT !.pc = "insert"]
                                                   ELSE [job[t] EXCEPT !.cursor = q + 1])
        PROVE  Carries(t)
    <3>1. job[t].pc = "scan"
      BY <1>11 DEF Scan
    <3>2. Others(t) /\ job'[t].pc \in {"scan", "insert"} /\ job'[t].proj = job[t].proj
      BY <2>1, <3>1, ScanIs
    <3> QED BY <1>2, <1>3, <3>2
  <2> QED BY <1>5, <1>11, <2>1 DEF Scan
<1>12. CASE Insert(t)
  BY <1>3, <1>4, <1>5, <1>12 DEF Insert
<1>13. CASE Run(t)
  <2>1. ASSUME NEW q,
               Becomes(t, [job[t] EXCEPT !.pc = "health", !.port = q, !.image = TRUE, !.cursor = 0])
        PROVE  Carries(t)
    BY <1>2, <1>3, <2>1, RunIs
  <2> QED BY <1>5, <1>13, <2>1 DEF Run
<1>14. CASE Health(t)
  BY <1>3, <1>4, <1>5, <1>14 DEF Health
<1> QED BY <1>6, <1>7, <1>8, <1>9, <1>10, <1>11, <1>12, <1>13, <1>14

LEMMA EdgeCarries ==
  ASSUME TypeOK, NEW t \in Procs,
         \/ ReadSites(t) \/ Install(t) \/ List(t)
         \/ DrainContainer(t) \/ DrainPort(t) \/ DrainRow(t) \/ Succeed(t)
  PROVE  Carries(t)
<1>1. UNCHANGED deploying
  BY DEF ReadSites, Install, List, DrainContainer, DrainPort, DrainRow, Succeed
<1>2. ASSUME Others(t), job'[t].proj = job[t].proj,
             job'[t].pc \in Flagged \/ job[t].pc \notin Flagged
      PROVE  Carries(t)
  BY <1>1, <1>2 DEF Carries
<1>3. /\ "install" \in Flagged /\ "succeed" \in Flagged /\ "list" \in Flagged
      /\ "drainContainer" \in Flagged /\ "drainPort" \in Flagged /\ "drainRow" \in Flagged
      /\ "done" \in Flagged /\ "rmReload" \notin Flagged /\ "rmInstall" \notin Flagged
  BY DEF Flagged, JobPcs
<1>4. ASSUME NEW pc \in Flagged, Goto(t, pc) PROVE Carries(t)
  BY <1>2, <1>4, GotoIs DEF Like
<1>5. CASE ReadSites(t)
  <2>1. PICK pc : /\ Becomes(t, [job[t] EXCEPT !.pc = pc, !.snap = site])
                  /\ pc = "install" \/ job[t].pc = "rmReload"
    BY <1>5 DEF ReadSites
  <2>2. Others(t) /\ job'[t].pc = pc /\ job'[t].proj = job[t].proj
    BY <2>1, SnapIs
  <2> QED BY <1>2, <1>3, <2>1, <2>2
<1>6. CASE Install(t)
  <2>1. PICK pc : /\ Becomes(t, [job[t] EXCEPT !.pc = pc, !.snap = NoSites])
                  /\ pc \in {"succeed", "list"} \/ job[t].pc = "rmInstall"
    BY <1>6 DEF Install, Installed
  <2>2. Others(t) /\ job'[t].pc = pc /\ job'[t].proj = job[t].proj
    BY <2>1, SnapIs
  <2> QED BY <1>2, <1>3, <2>1, <2>2
<1>7. ASSUME NEW todo, NEW pc \in {"succeed", "drainContainer"},
             Becomes(t, [job[t] EXCEPT !.pc = pc, !.todo = todo])
      PROVE  Carries(t)
  <2>1. Others(t) /\ job'[t] = [job[t] EXCEPT !.pc = pc, !.todo = todo]
    BY <1>7, BecomesIs
  <2>2. job'[t].pc = pc /\ job'[t].proj = job[t].proj
    BY <2>1 DEF TypeOK, Job
  <2> QED BY <1>2, <1>3, <2>1, <2>2
<1>8. CASE List(t)
  BY <1>7, <1>8 DEF List
<1>9. CASE DrainRow(t)
  <2>1. PICK c \in Draining(t) :
          Becomes(t, [job[t] EXCEPT !.todo = @ \ {c},
                    !.pc = IF job[t].todo = {c} THEN "succeed" ELSE "drainContainer"])
    BY <1>9 DEF DrainRow
  <2> DEFINE pc == IF job[t].todo = {c} THEN "succeed" ELSE "drainContainer"
  <2>2. Others(t) /\ job'[t] = [job[t] EXCEPT !.todo = @ \ {c}, !.pc = pc]
    BY <2>1, BecomesIs
  <2>3. job'[t].pc = pc /\ job'[t].proj = job[t].proj
    BY <2>2 DEF TypeOK, Job
  <2> QED BY <1>2, <1>3, <2>2, <2>3
<1>10. CASE DrainContainer(t) \/ DrainPort(t) \/ Succeed(t)
  BY <1>3, <1>4, <1>10 DEF DrainContainer, DrainPort, Succeed
<1> QED BY <1>5, <1>6, <1>8, <1>9, <1>10

(* Stop and Remove, and requests that begin, work under no flag.           *)
LEMMA RequestCarries ==
  ASSUME TypeOK, NEW t \in Procs,
         \/ StopContainer(t) \/ StopRow(t)
         \/ RemoveContainer(t) \/ RemovePort(t) \/ RemoveSite(t) \/ RemoveRow(t)
         \/ \E p \in Projects : Ask(t, p)
  PROVE  Carries(t)
<1>1. UNCHANGED deploying
  BY DEF StopContainer, StopRow, RemoveContainer, RemovePort, RemoveSite, RemoveRow,
         Ask, Trigger, RequestStop, RequestRemove
<1>2. job[t].pc \notin Flagged
  BY DEF Flagged, JobPcs, StopContainer, StopRow, RemoveContainer, RemovePort, RemoveSite,
         RemoveRow, Ask, Trigger, RequestStop, RequestRemove
<1>3. \E j : Becomes(t, j)
  BY DEF StopContainer, StopRow, RemoveContainer, RemovePort, RemoveSite, RemoveRow,
         Ask, Trigger, RequestStop, RequestRemove, Goto, Return, Copied
<1> QED BY <1>1, <1>2, <1>3, BecomesIs DEF Carries

(* Start sets the flag, Done clears it: if another job for the same        *)
(* project is at work the flag is gone before its time, but none stays.    *)
LEMMA FlagMoves ==
  ASSUME TypeOK, FlagHeld, NEW t \in Procs, Start(t) \/ Done(t)
  PROVE  FlagHeld'
<1>1. CASE Start(t)
  <2>1. /\ Others(t) /\ job'[t].pc = "begin" /\ job'[t].proj = job[t].proj /\ job[t].pc = "checked"
        /\ deploying' = deploying \cup {job[t].proj}
    BY <1>1, GotoIs DEF Start, Like
  <2>2. "begin" \in Flagged /\ "checked" \notin Flagged
    BY DEF Flagged, JobPcs
  <2>3. ASSUME NEW p \in deploying
        PROVE  \E u \in Procs : job'[u].proj = p /\ job'[u].pc \in Flagged
    BY <2>1, <2>2 DEF FlagHeld, Others
  <2> QED BY <2>1, <2>2, <2>3 DEF FlagHeld
<1>2. CASE Done(t)
  <2>1. Others(t) /\ deploying' = deploying \ {job[t].proj}
    BY <1>2, ReturnIs DEF Done
  <2> QED BY <2>1 DEF FlagHeld, Others
<1> QED BY <1>1, <1>2

(* No project stays locked out: while its deploying flag is set there is a *)
(* job for it between setDeploying(id, true) and the deferred              *)
(* setDeploying(id, false), whatever jobs, requests and crashes overlap    *)
(* and whichever way a job ends (trigger, actionRollback).                 *)
THEOREM FlagsHaveJobs == Spec => []FlagHeld
<1>1. Init => FlagHeld
  BY DEF Init, FlagHeld
<1>2. TypeOK /\ FlagHeld /\ [Next]_vars => FlagHeld'
  <2> SUFFICES ASSUME TypeOK, FlagHeld, [Next]_vars PROVE FlagHeld'
    OBVIOUS
  <2>1. ASSUME NEW t \in Procs, Step(t) PROVE FlagHeld'
    <3>1. Start(t) \/ Done(t) \/ Carries(t)
      BY <2>1, JobCarries, EdgeCarries, RequestCarries DEF Step
    <3> QED BY <3>1, FlagMoves, FlagCarried
  <2>2. ASSUME NEW t \in Procs, NEW p \in Projects, Ask(t, p) PROVE FlagHeld'
    BY <2>2, RequestCarries, FlagCarried
  <2>3. CASE Crash
    BY <2>3 DEF Crash, FlagHeld
  <2>4. CASE \/ \E p \in Projects : CreateProject(p)
             \/ \E d \in Ids : AppUp(d)
             \/ WatcherReload \/ UNCHANGED vars
    <3>1. UNCHANGED <<deploying, job>>
      BY <2>4 DEF CreateProject, AppUp, WatcherReload, vars
    <3> QED BY <3>1 DEF FlagHeld
  <2> QED BY <2>1, <2>2, <2>3, <2>4 DEF Next, ConcurrentNext, Background
<1> QED BY <1>1, <1>2, TypeCorrect, PTL DEF Spec
=============================================================================
