----------------------------- MODULE SitesProofs -----------------------------
(***************************************************************************)
(* Proofs about Sites.                                                     *)
(***************************************************************************)
EXTENDS Sites, FiniteSetTheorems, TLAPS

(* A list that is being read is known to its reader alone.                 *)
ReadersAlone ==
  \A g \in Goroutines : job[g].pc = "read" =>
    /\ job[g].ver # store
    /\ \A h \in Goroutines \ {g} : job[h].ver # job[g].ver

(* A Site found through the Store is a site.                               *)
FoundIsSite ==
  \A g \in Goroutines : job[g].pc \in {"negate", "assign", "marshal", "copy"} =>
    list[job[g].ver][job[g].name] # None

(* A file that is saved by one goroutine at a time has one writer, whose   *)
(* .tmp is what it made it.                                                *)
SoloWriter ==
  /\ \A g, h \in Goroutines : job[g].name \in Solo /\ job[h].name = job[g].name => g = h
  /\ \A g \in Goroutines : job[g].name \in Solo =>
       /\ job[g].pc = "write" => job[g].fd = "tmp" /\ tmp[job[g].name] = Empty
       /\ job[g].pc = "rename" => tmp[job[g].name] = job[g].site

(* Nobody is about to disable or delete a steady site, and its file stays. *)
SteadyFiles ==
  /\ \A n \in Steady : Enabled(file[n]) /\ file[n] \in Site
  /\ \A g \in Goroutines : job[g].name \in Steady =>
       /\ job[g].pc \notin {"negate", "assign", "marshal", "unlink"}
       /\ job[g].pc \in {"open", "write", "rename"} => job[g].site.on

(* A list that has been read has every steady site in it.                  *)
SteadyLists ==
  \A g \in Goroutines, n \in Steady :
    /\ job[g].pc = "read" => n \in job[g].todo \/ Enabled(list[job[g].ver][n])
    /\ job[g].pc = "install" => index[n] /\ Enabled(list[job[g].ver][n])

-----------------------------------------------------------------------------
(* Types.                                                                  *)

USE FilesAssumption, NamesAssumption, GoroutinesAssumption, DefaultAssumption,
    BoundsAssumption

(* What Becomes says of every goroutine.                                   *)
LEMMA JobAfter ==
  ASSUME TypeOK, NEW g \in Goroutines, NEW j \in Job, Placed(j),
         g = Watcher => j.pc \in {"idle"} \cup LoadPcs, Becomes(g, j)
  PROVE  /\ job' \in [Goroutines -> Job]
         /\ job'[g] = j
         /\ \A h \in Goroutines \ {g} : job'[h] = job[h]
         /\ \A h \in Goroutines : Placed(job'[h])
         /\ job'[Watcher].pc \in {"idle"} \cup LoadPcs
  BY DEF TypeOK, Becomes, Goroutines

LEMMA IdleIsJob ==
  /\ Idle \in Job /\ Placed(Idle)
  /\ Loading \in Job /\ Placed(Loading) /\ Loading.pc = "list" /\ Loading.ver = NoList
  BY DEF Idle, Loading, Job, Placed, SavePcs, LoadPcs, Versions, NoList

LEMMA NoListIsNone == NoList \notin Versions
  BY DEF NoList, Versions

(* A step of one goroutine that moves no pointer keeps the lists there are. *)
LEMMA SamePointers ==
  ASSUME TypeOK, NEW g \in Goroutines, NEW j \in Job, Placed(j), j.ver = job[g].ver,
         g = Watcher => j.pc \in {"idle"} \cup LoadPcs, Becomes(g, j), store' = store
  PROVE  Live' = Live
<1>1. \A h \in Goroutines : job'[h].ver = job[h].ver
  BY JobAfter
<1> QED
  BY <1>1 DEF Live

(* One that drops its pointer leaves the other lists.                      *)
LEMMA PointerDropped ==
  ASSUME TypeOK, NEW g \in Goroutines, NEW j \in Job, Placed(j), j.ver = NoList,
         g = Watcher => j.pc \in {"idle"} \cup LoadPcs, Becomes(g, j), store' \in Live
  PROVE  Live' \subseteq Live
<1>1. \A h \in Goroutines : job'[h].ver \in {job[h].ver, NoList}
  BY JobAfter
<1> QED
  BY <1>1 DEF Live

LEMMA KeepTypes ==
  ASSUME NEW S, NEW l \in [S -> Lists], Live' \subseteq S, Keep(l)
  PROVE  list' \in [Live' -> Lists]
  BY DEF Keep

LEMMA FindType ==
  ASSUME TypeOK, NEW t \in Procs, NEW n \in Names, Find(t, n)
  PROVE  TypeOK'
<1> DEFINE Found(pc, op) == [Idle EXCEPT !.pc = pc, !.op = op, !.name = n, !.ver = store]
<1>1. PICK j \in {Found("negate", "toggle"), Found("copy", "update")} : Becomes(t, j)
  BY DEF Find
<1>2. store \in Versions /\ t \in Goroutines /\ t # Watcher
  BY DEF TypeOK, Goroutines
<1>3. j \in Job
  BY <1>2 DEF Idle, Job, SavePcs, LoadPcs
<1>4. Placed(j) /\ j.ver = store
  BY <1>2 DEF Idle, Placed, SavePcs, LoadPcs
<1>5. Live' = Live
  <2>1. job[t].ver = NoList
    BY <1>2 DEF TypeOK, Placed, Find, Begin, Job
  <2> QED
    BY <1>1, <1>2, <1>3, <1>4, <2>1, JobAfter DEF Live, Find, served
<1>6. edits' \in 0 .. MaxEdits
  BY DEF Find, Begin, TypeOK
<1> QED
  BY <1>1, <1>2, <1>3, <1>4, <1>5, <1>6, JobAfter DEF TypeOK, Find, disk, served, events

(* Create, Flip and Delete begin with a record that points into no list.   *)
LEMMA BeginType ==
  ASSUME TypeOK, NEW t \in Procs, NEW n \in Names,
         Create(t, n) \/ Flip(t, n) \/ Delete(t, n)
  PROVE  TypeOK'
<1>1. PICK j \in Job : Becomes(t, j) /\ Placed(j) /\ j.ver = NoList
  <2>1. CASE Create(t, n)
    <3>1. PICK on \in BOOLEAN, target \in Targets :
            Becomes(t, [Idle EXCEPT !.pc = "open", !.op = "create", !.name = n,
                          !.site = [on |-> on, target |-> target, opts |-> Default]])
      BY <2>1 DEF Create
    <3> DEFINE s == [on |-> on, target |-> target, opts |-> Default]
               j == [Idle EXCEPT !.pc = "open", !.op = "create", !.name = n, !.site = s]
    <3>2. s \in Site
      BY DEF Site
    <3> HIDE DEF s
    <3>3. j \in Job /\ Placed(j) /\ j.ver = NoList
      BY <3>2, NoListIsNone DEF Idle, Job, Placed, SavePcs, LoadPcs
    <3> QED
      BY <3>1, <3>3 DEF s
  <2>2. CASE Flip(t, n)
    <3> DEFINE j == [Idle EXCEPT !.pc = "siteFor", !.op = "flip", !.name = n]
    <3>1. j \in Job /\ Placed(j) /\ j.ver = NoList
      BY NoListIsNone DEF Idle, Job, Placed, SavePcs, LoadPcs
    <3> QED
      BY <2>2, <3>1 DEF Flip
  <2>3. CASE Delete(t, n)
    <3>1. PICK op \in {"delete", "remove"} :
            Becomes(t, [Idle EXCEPT !.pc = "unlink", !.op = op, !.name = n])
      BY <2>3 DEF Delete
    <3> DEFINE j == [Idle EXCEPT !.pc = "unlink", !.op = op, !.name = n]
    <3>2. j \in Job /\ Placed(j) /\ j.ver = NoList
      BY NoListIsNone DEF Idle, Job, Placed, SavePcs, LoadPcs
    <3> QED
      BY <3>1, <3>2
  <2> QED
    BY <2>1, <2>2, <2>3
<1>2. /\ t \in Goroutines /\ t # Watcher
      /\ Begin(t, n)
      /\ UNCHANGED <<disk, list, served, events, crashes>>
  BY DEF Goroutines, Create, Flip, Delete
<1>3. job[t].ver = NoList
  BY <1>2 DEF TypeOK, Placed, Begin, Job
<1>4. Live' = Live
  BY <1>1, <1>2, <1>3, SamePointers DEF served
<1>5. edits' \in 0 .. MaxEdits
  BY <1>2 DEF Begin, TypeOK
<1> QED
  BY <1>1, <1>2, <1>4, <1>5, JobAfter DEF TypeOK, disk, served, events

(* What a goroutine with a pointer into a list finds there.                *)
LEMMA SharedIsSite ==
  ASSUME TypeOK, FoundIsSite, NEW t \in Goroutines,
         job[t].pc \in {"negate", "assign", "marshal", "copy"}
  PROVE  job[t].ver \in Live /\ job[t].name \in Names /\ Shared(t) \in Site
<1>1. job[t] \in Job /\ Placed(job[t])
  BY DEF TypeOK
<1>2. job[t].ver \in Live /\ job[t].name \in Names
  BY <1>1, NoListIsNone DEF Placed, Live, SavePcs
<1>3. list[job[t].ver] \in Lists
  BY <1>2 DEF TypeOK
<1>4. list[job[t].ver][job[t].name] \in Site \cup {None}
  BY <1>2, <1>3 DEF Lists
<1> QED
  BY <1>2, <1>4 DEF FoundIsSite, Shared

LEMMA NegateType ==
  ASSUME TypeOK, FoundIsSite, NEW t \in Procs, Negate(t)
  PROVE  TypeOK'
<1>1. t \in Goroutines /\ t # Watcher /\ job[t] \in Job /\ Placed(job[t]) /\ job[t].pc = "negate"
  BY DEF TypeOK, Negate, Goroutines
<1>2. Shared(t) \in Site
  BY <1>1, SharedIsSite
<1> DEFINE s == [Shared(t) EXCEPT !.on = ~@]
           j == [job[t] EXCEPT !.pc = "assign", !.site = s]
<1>3. s \in Site
  BY <1>2 DEF Site
<1> HIDE DEF s
<1>4. j \in Job
  BY <1>1, <1>3 DEF Job, SavePcs
<1>5. Placed(j) /\ j.ver = job[t].ver
  BY <1>1, <1>3 DEF Placed, SavePcs, Job
<1>6. Becomes(t, j) /\ UNCHANGED <<disk, list, served, events, bounds>>
  BY DEF Negate, s
<1>7. Live' = Live
  BY <1>1, <1>4, <1>5, <1>6, SamePointers DEF served
<1> QED
  BY <1>1, <1>4, <1>5, <1>6, <1>7, JobAfter DEF TypeOK, disk, served, events, bounds

LEMMA AssignType ==
  ASSUME TypeOK, FoundIsSite, NEW t \in Procs, Assign(t)
  PROVE  TypeOK'
<1>1. t \in Goroutines /\ t # Watcher /\ job[t] \in Job /\ Placed(job[t]) /\ job[t].pc = "assign"
  BY DEF TypeOK, Assign, Goroutines
<1>2. job[t].site \in Site
  BY <1>1 DEF Placed
<1>3. job[t].ver \in Live /\ job[t].name \in Names /\ Shared(t) \in Site
  BY <1>1, SharedIsSite
<1> DEFINE v == job[t].ver
           s == [Shared(t) EXCEPT !.on = job[t].site.on]
<1>4. s \in Site
  BY <1>2, <1>3 DEF Site
<1>5. list' = [list EXCEPT ![v] = [@ EXCEPT ![job[t].name] = s]]
  BY <1>1, <1>3 DEF Assign, Shared, TypeOK, Lists
<1> HIDE DEF s
<1>6. list' \in [Live -> Lists]
  BY <1>3, <1>4, <1>5 DEF TypeOK, Lists
<1> DEFINE j == [job[t] EXCEPT !.pc = "marshal"]
<1>7. j \in Job /\ Placed(j) /\ j.ver = job[t].ver
  BY <1>1 DEF Job, Placed, SavePcs
<1>8. Becomes(t, j) /\ UNCHANGED <<disk, served, events, bounds>>
  BY DEF Assign, Goto
<1>9. Live' = Live
  BY <1>1, <1>7, <1>8, SamePointers DEF served
<1> QED
  BY <1>1, <1>6, <1>7, <1>8, <1>9, JobAfter DEF TypeOK, disk, served, events, bounds

(* Marshal and Copy let go of the pointer and take the site with them.     *)
LEMMA TakeType ==
  ASSUME TypeOK, FoundIsSite, NEW t \in Procs, Marshal(t) \/ Copy(t)
  PROVE  TypeOK'
<1>1. t \in Goroutines /\ t # Watcher /\ job[t] \in Job /\ Placed(job[t])
      /\ job[t].pc \in {"marshal", "copy"}
  BY DEF TypeOK, Marshal, Copy, Goroutines
<1>2. Shared(t) \in Site
  BY <1>1, SharedIsSite
<1>3. PICK j \in Job : Becomes(t, j) /\ Placed(j) /\ j.ver = NoList
  <2> DEFINE Taken(s) == [job[t] EXCEPT !.pc = "open", !.site = s, !.ver = NoList]
  <2>1. ASSUME NEW s \in Site
        PROVE  Taken(s) \in Job /\ Placed(Taken(s)) /\ Taken(s).ver = NoList
    BY <1>1, NoListIsNone DEF Job, Placed, SavePcs
  <2>2. CASE Marshal(t)
    <3>1. Becomes(t, Taken(Shared(t)))
      BY <2>2 DEF Marshal
    <3> QED
      BY <1>2, <2>1, <3>1
  <2>3. CASE Copy(t)
    <3>1. CASE Return(t)
      BY <3>1, IdleIsJob DEF Return, Idle
    <3>2. ASSUME NEW on \in BOOLEAN, NEW target \in Targets,
                 Becomes(t, [job[t] EXCEPT !.pc = "open", !.ver = NoList,
                               !.site = [Shared(t) EXCEPT !.on = on, !.target = target]])
          PROVE  \E j \in Job : Becomes(t, j) /\ Placed(j) /\ j.ver = NoList
      <4> DEFINE s == [Shared(t) EXCEPT !.on = on, !.target = target]
      <4>1. s \in Site
        BY <1>2 DEF Site
      <4>2. Becomes(t, Taken(s))
        BY <3>2
      <4> HIDE DEF s
      <4> QED
        BY <2>1, <4>1, <4>2
    <3> QED
      BY <2>3, <3>1, <3>2 DEF Copy
  <2> QED
    BY <2>2, <2>3
<1>4. UNCHANGED <<disk, served, events, bounds>> /\ Keep(list)
  BY DEF Marshal, Copy
<1>5. Live' \subseteq Live
  BY <1>1, <1>3, <1>4, PointerDropped DEF served, Live
<1>6. list' \in [Live' -> Lists]
  BY <1>4, <1>5, KeepTypes DEF TypeOK
<1> QED
  BY <1>1, <1>3, <1>4, <1>6, JobAfter DEF TypeOK, disk, served, events, bounds

LEMMA SiteForType ==
  ASSUME TypeOK, NEW t \in Procs, SiteFor(t)
  PROVE  TypeOK'
<1>1. t \in Goroutines /\ t # Watcher /\ job[t] \in Job /\ Placed(job[t]) /\ job[t].pc = "siteFor"
  BY DEF TypeOK, SiteFor, Goroutines
<1>2. OptionsOf(job[t].name) \in Options
  BY DEF OptionsOf, Site
<1>3. PICK s \in Site : Becomes(t, [job[t] EXCEPT !.pc = "open", !.site = s])
  BY <1>2 DEF SiteFor, Site
<1> DEFINE j == [job[t] EXCEPT !.pc = "open", !.site = s]
<1>4. j \in Job /\ Placed(j) /\ j.ver = job[t].ver
  BY <1>1 DEF Job, Placed, SavePcs
<1>5. UNCHANGED <<disk, list, served, events, bounds>>
  BY DEF SiteFor
<1>6. Live' = Live
  BY <1>1, <1>3, <1>4, <1>5, SamePointers DEF served
<1> QED
  BY <1>1, <1>3, <1>4, <1>5, <1>6, JobAfter DEF TypeOK, disk, served, events, bounds

LEMMA OpenType ==
  ASSUME TypeOK, NEW t \in Procs, Open(t)
  PROVE  TypeOK'
<1>1. t \in Goroutines /\ t # Watcher /\ job[t] \in Job /\ Placed(job[t]) /\ job[t].pc = "open"
  BY DEF TypeOK, Open, Goroutines
<1> DEFINE j == [job[t] EXCEPT !.pc = "write", !.fd = "tmp"]
<1>2. j \in Job /\ Placed(j) /\ j.ver = job[t].ver
  BY <1>1 DEF Job, Placed, SavePcs
<1>3. Becomes(t, j) /\ UNCHANGED <<file, list, served, bounds>>
  BY DEF Open
<1>4. Live' = Live
  BY <1>1, <1>2, <1>3, SamePointers DEF served
<1>5. tmp' \in [Names -> Files] /\ armed' \in BOOLEAN /\ behind' \subseteq Procs
  BY DEF Open, Event, TypeOK, Files
<1> QED
  BY <1>1, <1>2, <1>3, <1>4, <1>5, JobAfter DEF TypeOK, served, bounds

LEMMA WriteType ==
  ASSUME TypeOK, NEW t \in Procs, Write(t)
  PROVE  TypeOK'
<1>1. t \in Goroutines /\ t # Watcher /\ job[t] \in Job /\ Placed(job[t]) /\ job[t].pc = "write"
  BY DEF TypeOK, Write, Goroutines
<1> DEFINE j == [job[t] EXCEPT !.pc = "rename", !.fd = "none"]
<1>2. j \in Job /\ Placed(j) /\ j.ver = job[t].ver
  BY <1>1 DEF Job, Placed, SavePcs
<1>3. Becomes(t, j) /\ UNCHANGED <<list, served, bounds>>
  BY DEF Write
<1>4. Live' = Live
  BY <1>1, <1>2, <1>3, SamePointers DEF served
<1>5. \A old : Over(old, job[t].site) \subseteq Files
  BY <1>1 DEF Over, Files, Placed
<1>6. tmp' \in [Names -> Files] /\ file' \in [Names -> Files]
  BY <1>5 DEF Write, TypeOK, disk
<1>7. armed' \in BOOLEAN /\ behind' \subseteq Procs
  BY DEF Write, Event
<1> QED
  BY <1>1, <1>2, <1>3, <1>4, <1>6, <1>7, JobAfter DEF TypeOK, served, bounds

LEMMA WriteFailsType ==
  ASSUME TypeOK, NEW t \in Procs, WriteFails(t)
  PROVE  TypeOK'
<1>1. t \in Goroutines /\ t # Watcher /\ job[t] \in Job /\ Placed(job[t]) /\ job[t].pc \in {"open", "write"}
  BY DEF TypeOK, WriteFails, Goroutines
<1>2. Becomes(t, Idle) /\ UNCHANGED <<disk, list, served, events, bounds>>
  BY DEF WriteFails, Return
<1>3. Idle.ver = job[t].ver
  BY <1>1 DEF Placed, Job, Idle
<1>4. Live' = Live
  BY <1>1, <1>2, <1>3, IdleIsJob, SamePointers DEF served
<1> QED
  BY <1>1, <1>2, <1>4, IdleIsJob, JobAfter DEF TypeOK, disk, served, events, bounds

(* Rename and Unlink may also change where the others have their file.     *)
LEMMA RelinkType ==
  ASSUME TypeOK, NEW t \in Procs, Rename(t) \/ Unlink(t)
  PROVE  TypeOK'
<1>1. t \in Goroutines /\ t # Watcher /\ job[t] \in Job /\ Placed(job[t])
      /\ job[t].pc \in {"rename", "unlink"}
  BY DEF TypeOK, Rename, Unlink, Goroutines
<1>2. job[t].ver = NoList
  BY <1>1 DEF Placed, Job
<1>3. /\ job' \in [Goroutines -> Job]
      /\ \A g \in Goroutines : Placed(job'[g]) /\ job'[g].ver = job[g].ver
      /\ job'[Watcher].pc \in {"idle"} \cup LoadPcs
  <2>1. ASSUME NEW j \in {Idle, Loading}, Becomes(t, j)
        PROVE  <1>3
    <3>1. j \in Job /\ Placed(j) /\ j.ver = NoList
      BY IdleIsJob DEF Idle
    <3>2. /\ job' \in [Goroutines -> Job]
          /\ job'[t] = j
          /\ \A h \in Goroutines \ {t} : job'[h] = job[h]
          /\ \A h \in Goroutines : Placed(job'[h])
          /\ job'[Watcher].pc \in {"idle"} \cup LoadPcs
      BY <1>1, <2>1, <3>1, JobAfter
    <3> QED
      BY <1>2, <3>1, <3>2
  <2>2. ASSUME NEW n, job' = [Relinked(n) EXCEPT ![t] = Loading] \/ job' = [Unlinked(n) EXCEPT ![t] = Loading]
        PROVE  <1>3
    <3>1. ASSUME NEW g \in Goroutines \ {t}
          PROVE  job'[g] = job[g] \/ \E fd \in {"file", "gone"} :
                    job[g].fd # "none" /\ job'[g] = [job[g] EXCEPT !.fd = fd]
      BY <1>1, <2>2, <3>1 DEF Relinked, Unlinked
    <3>2. job'[t] = Loading
      BY <1>1, <2>2 DEF Relinked, Unlinked
    <3>3. ASSUME NEW g \in Goroutines
          PROVE  job'[g] \in Job /\ Placed(job'[g]) /\ job'[g].ver = job[g].ver
                 /\ (g # t => job'[g].pc = job[g].pc)
      <4>1. job[g] \in Job /\ Placed(job[g])
        BY DEF TypeOK
      <4>2. CASE g = t
        BY <1>2, <3>2, <4>2, IdleIsJob
      <4>3. CASE g # t
        <5>1. CASE job'[g] = job[g]
          BY <4>1, <5>1
        <5>2. ASSUME NEW fd \in {"file", "gone"}, job[g].fd # "none",
                     job'[g] = [job[g] EXCEPT !.fd = fd]
              PROVE  job'[g] \in Job /\ Placed(job'[g]) /\ job'[g].ver = job[g].ver
                     /\ job'[g].pc = job[g].pc
          BY <4>1, <5>2 DEF Job, Placed
        <5> QED
          BY <3>1, <4>3, <5>1, <5>2
      <4> QED
        BY <4>2, <4>3
    <3>4. job' = [g \in Goroutines |-> job'[g]]
      BY <1>1, <2>2 DEF Relinked, Unlinked
    <3>5. job' \in [Goroutines -> Job]
      BY <3>3, <3>4
    <3> QED
      BY <1>1, <3>3, <3>5 DEF TypeOK, Goroutines
  <2>3. CASE Rename(t)
    BY <2>1, <2>2, <2>3 DEF Rename, Return
  <2>4. CASE Unlink(t)
    <3>1. \/ job' = [Unlinked(job[t].name) EXCEPT ![t] = Loading]
          \/ Becomes(t, Idle)
          \/ Becomes(t, Loading)
      BY <2>4 DEF Unlink
    <3> QED
      BY <2>1, <2>2, <3>1
  <2> QED
    BY <2>3, <2>4
<1>4. UNCHANGED <<list, served, bounds>>
  BY DEF Rename, Unlink
<1>5. Live' = Live
  BY <1>3, <1>4 DEF Live, served
<1>6. tmp' \in [Names -> Files] /\ file' \in [Names -> Files]
  BY DEF Rename, Unlink, TypeOK, Files, disk
<1>7. armed' \in BOOLEAN /\ behind' \subseteq Procs
  BY DEF Rename, Unlink, Event, TypeOK, events
<1> QED
  BY <1>3, <1>4, <1>5, <1>6, <1>7 DEF TypeOK, served, bounds

LEMMA ReadDirType ==
  ASSUME TypeOK, NEW g \in Goroutines, ReadDir(g)
  PROVE  TypeOK'
<1>1. job[g] \in Job /\ Placed(job[g]) /\ job[g].pc = "list"
  BY DEF TypeOK, ReadDir
<1>2. PICK v \in Versions \ Live :
        /\ Becomes(g, [job[g] EXCEPT !.pc = "read", !.ver = v,
                                     !.todo = {n \in Names : file[n] # None}])
        /\ UNCHANGED <<disk, served, events, bounds>>
        /\ Keep([w \in Live \cup {v} |-> IF w = v THEN Nothing ELSE list[w]])
  BY DEF ReadDir
<1> DEFINE j == [job[g] EXCEPT !.pc = "read", !.ver = v,
                               !.todo = {n \in Names : file[n] # None}]
           l == [w \in Live \cup {v} |-> IF w = v THEN Nothing ELSE list[w]]
<1>3. j \in Job /\ Placed(j) /\ j.ver = v /\ j.pc \in LoadPcs
  BY <1>1, <1>2 DEF Job, Placed, SavePcs, LoadPcs
<1> HIDE DEF j
<1>4. Becomes(g, j)
  BY <1>2 DEF j
<1>5. Live' \subseteq Live \cup {v}
  <2>1. \A h \in Goroutines : job'[h].ver \in {job[h].ver, v}
    BY <1>3, <1>4, JobAfter
  <2> QED
    BY <1>2, <2>1 DEF Live, served
<1>6. l \in [Live \cup {v} -> Lists]
  BY DEF TypeOK, Nothing, Lists
<1>7. list' \in [Live' -> Lists]
  BY <1>2, <1>5, <1>6, KeepTypes
<1> QED
  BY <1>2, <1>3, <1>4, <1>7, JobAfter DEF TypeOK, disk, served, events, bounds

LEMMA ReadFileType ==
  ASSUME TypeOK, NEW g \in Goroutines, NEW n \in Names, ReadFile(g, n)
  PROVE  TypeOK'
<1>1. job[g] \in Job /\ Placed(job[g]) /\ job[g].pc = "read"
  BY DEF TypeOK, ReadFile
<1> DEFINE j == [job[g] EXCEPT !.todo = @ \ {n}]
<1>2. j \in Job /\ Placed(j) /\ j.ver = job[g].ver /\ j.pc \in LoadPcs
  BY <1>1 DEF Job, Placed, LoadPcs
<1>3. Becomes(g, j) /\ UNCHANGED <<disk, served, events, bounds>>
  BY DEF ReadFile
<1>4. Live' = Live
  BY <1>1, <1>2, <1>3, SamePointers DEF served
<1>5. job[g].ver \in Live
  BY <1>1, NoListIsNone DEF Placed, Live
<1>6. Loaded(n) \in Site \cup {None}
  BY DEF Loaded
<1>7. list' = [list EXCEPT ![job[g].ver] = [@ EXCEPT ![n] = Loaded(n)]]
  BY DEF ReadFile
<1> HIDE DEF j
<1>8. list' \in [Live -> Lists]
  BY <1>5, <1>6, <1>7 DEF TypeOK, Lists
<1> QED
  BY <1>1, <1>2, <1>3, <1>4, <1>8, JobAfter DEF TypeOK, disk, served, events, bounds

LEMMA ReplaceType ==
  ASSUME TypeOK, NEW g \in Goroutines, Replace(g)
  PROVE  TypeOK'
<1>1. job[g] \in Job /\ Placed(job[g]) /\ job[g].pc = "read"
  BY DEF TypeOK, Replace
<1> DEFINE j == [job[g] EXCEPT !.pc = "install", !.todo = {}]
<1>2. j \in Job /\ Placed(j) /\ j.ver = job[g].ver /\ j.pc \in LoadPcs
  BY <1>1 DEF Job, Placed, SavePcs, LoadPcs
<1>3. Becomes(g, j) /\ store' = job[g].ver /\ UNCHANGED <<disk, route, up, events, bounds>>
      /\ Keep(list)
  BY DEF Replace
<1>4. store' \in Versions /\ store' \in Live
  BY <1>1, <1>3, NoListIsNone DEF Placed, Live
<1>5. Live' \subseteq Live
  <2>1. \A h \in Goroutines : job'[h].ver = job[h].ver
    BY <1>2, <1>3, JobAfter
  <2> QED
    BY <1>4, <2>1 DEF Live
<1>6. list' \in [Live' -> Lists]
  BY <1>3, <1>5, KeepTypes DEF TypeOK
<1>7. list[job[g].ver] \in Lists
  BY <1>3, <1>4 DEF TypeOK
<1>8. index' \in [Names -> BOOLEAN]
  <2>1. \A s \in Site \cup {None} : Enabled(s) \in BOOLEAN
    BY DEF Enabled, Site
  <2> QED
    BY <1>7, <2>1 DEF Replace, Lists
<1> QED
  BY <1>2, <1>3, <1>4, <1>6, <1>8, JobAfter DEF TypeOK, disk, events, bounds

LEMMA InstallType ==
  ASSUME TypeOK, NEW g \in Goroutines, Install(g)
  PROVE  TypeOK'
<1>1. job[g] \in Job /\ Placed(job[g]) /\ job[g].pc = "install"
  BY DEF TypeOK, Install
<1>2. Becomes(g, Idle) /\ UNCHANGED <<disk, store, index, armed, bounds>> /\ Keep(list)
      /\ up' = TRUE /\ behind' = behind \ {g}
  BY DEF Install, Return
<1>3. Idle \in Job /\ Placed(Idle) /\ Idle.pc = "idle" /\ Idle.ver = NoList
  BY IdleIsJob DEF Idle
<1>4. Live' \subseteq Live
  BY <1>2, <1>3, PointerDropped DEF Live
<1>5. list' \in [Live' -> Lists]
  BY <1>2, <1>4, KeepTypes DEF TypeOK
<1>6. list[job[g].ver] \in Lists
  <2>1. job[g].ver \in Live
    BY <1>1, NoListIsNone DEF Placed, Live
  <2> QED
    BY <2>1 DEF TypeOK
<1>7. route' \in Lists
  BY <1>6 DEF Install, Lists
<1> QED
  BY <1>2, <1>3, <1>5, <1>7, JobAfter DEF TypeOK, disk, bounds

(* The watcher's timer, an edit by hand, and a step that changes nothing.  *)
LEMMA OutsideType ==
  ASSUME TypeOK,
         \/ WatcherFires
         \/ \E n \in Names, c \in Site \cup {Torn} : HandEdit(n, c)
         \/ UNCHANGED vars
  PROVE  TypeOK'
<1>1. CASE WatcherFires
  <2>1. Watcher \in Goroutines /\ job[Watcher] \in Job /\ Placed(job[Watcher])
        /\ job[Watcher].pc = "idle"
    BY <1>1 DEF TypeOK, Goroutines, WatcherFires
  <2>2. Loading.pc \in LoadPcs /\ Loading.ver = job[Watcher].ver
    BY <2>1, IdleIsJob DEF LoadPcs, Placed, Job
  <2>3. Becomes(Watcher, Loading) /\ UNCHANGED <<disk, list, served, behind, bounds>>
        /\ armed' = FALSE
    BY <1>1 DEF WatcherFires
  <2>4. Live' = Live
    BY <2>1, <2>2, <2>3, IdleIsJob, SamePointers DEF served
  <2> QED
    BY <2>1, <2>2, <2>3, <2>4, IdleIsJob, JobAfter DEF TypeOK, disk, served, bounds
<1>2. ASSUME NEW n \in Names, NEW c \in Site \cup {Torn}, HandEdit(n, c)
      PROVE  TypeOK'
  <2>1. UNCHANGED <<tmp, list, served, job, crashes>> /\ Live' = Live
    BY <1>2 DEF HandEdit, served, Live
  <2>2. file' \in [Names -> Files]
    BY <1>2 DEF HandEdit, TypeOK, Files
  <2>3. edits' \in 0 .. MaxEdits /\ armed' \in BOOLEAN /\ behind' \subseteq Procs
    BY <1>2 DEF HandEdit, TypeOK, Event
  <2> QED
    BY <2>1, <2>2, <2>3 DEF TypeOK, served
<1>3. CASE UNCHANGED vars
  BY <1>3 DEF vars, TypeOK, Live
<1> QED
  BY <1>1, <1>2, <1>3

(* A start of the process, the first one or after a crash.                 *)
LEMMA FreshType ==
  LET fresh == [g \in Goroutines |-> IF g = Watcher THEN Loading ELSE Idle] IN
  /\ fresh \in [Goroutines -> Job]
  /\ \A g \in Goroutines : Placed(fresh[g]) /\ fresh[g].ver = NoList
  /\ fresh[Watcher].pc \in {"idle"} \cup LoadPcs
  /\ 1 \in Versions
  /\ [v \in {1} |-> Nothing] \in [{1} -> Lists]
<1>1. 1 \in Versions
  BY ProcsAssumption, FS_CardinalityType DEF Versions
<1>2. [v \in {1} |-> Nothing] \in [{1} -> Lists]
  BY DEF Nothing, Lists
<1> DEFINE fresh == [g \in Goroutines |-> IF g = Watcher THEN Loading ELSE Idle]
<1>3. Idle.ver = NoList /\ Loading.ver = NoList /\ Loading.pc \in LoadPcs
  BY IdleIsJob DEF Idle, LoadPcs
<1>4. fresh \in [Goroutines -> Job]
  BY IdleIsJob
<1>5. \A g \in Goroutines : Placed(fresh[g]) /\ fresh[g].ver = NoList
  BY <1>3, IdleIsJob
<1>6. fresh[Watcher].pc \in {"idle"} \cup LoadPcs
  BY <1>3 DEF Goroutines
<1> QED
  BY <1>1, <1>2, <1>4, <1>5, <1>6

LEMMA InitType == Init => TypeOK
<1> SUFFICES ASSUME Init PROVE TypeOK
  OBVIOUS
<1>1. Live = {1}
  BY FreshType DEF Init, Live
<1>2. Nothing \in Lists /\ file \in [Names -> Files] /\ tmp \in [Names -> Files]
  BY DEF Init, Nothing, Files, Lists
<1>3. job \in [Goroutines -> Job] /\ (\A g \in Goroutines : Placed(job[g]))
      /\ job[Watcher].pc \in {"idle"} \cup LoadPcs
  BY FreshType DEF Init
<1>4. store \in Versions /\ list \in [Live -> Lists]
  BY <1>1, FreshType DEF Init
<1>5. /\ index \in [Names -> BOOLEAN] /\ route \in Lists
      /\ up \in BOOLEAN /\ armed \in BOOLEAN /\ behind \subseteq Procs
      /\ edits \in 0 .. MaxEdits /\ crashes \in 0 .. MaxCrashes
  <2>1. edits \in 0 .. MaxEdits /\ crashes \in 0 .. MaxCrashes
    BY DEF Init
  <2>2. index \in [Names -> BOOLEAN] /\ route \in Lists
    BY <1>2 DEF Init
  <2> QED
    BY <2>1, <2>2 DEF Init
<1> QED
  BY <1>2, <1>3, <1>4, <1>5 DEF TypeOK

LEMMA CrashType ==
  ASSUME TypeOK, Crash
  PROVE  TypeOK'
<1>1. Live' = {1}
  BY FreshType DEF Crash, Live
<1>2. Nothing \in Lists
  BY DEF Nothing, Lists
<1>3. crashes' \in 0 .. MaxCrashes
  BY DEF Crash, TypeOK
<1> QED
  BY <1>1, <1>2, <1>3, FreshType DEF Crash, TypeOK, disk

LEMMA NextType ==
  ASSUME TypeOK, FoundIsSite, [Next]_vars
  PROVE  TypeOK'
<1>1. ASSUME NEW t \in Procs, Edit(t) \/ Save(t) PROVE TypeOK'
  BY <1>1, FindType, BeginType, NegateType, AssignType, TakeType, SiteForType, OpenType,
     WriteType, WriteFailsType, RelinkType DEF Edit, Save
<1>2. ASSUME NEW g \in Goroutines, Load(g) PROVE TypeOK'
  BY <1>2, ReadDirType, ReadFileType, ReplaceType, InstallType DEF Load
<1> QED
  BY <1>1, <1>2, OutsideType, CrashType DEF Next, Others

-----------------------------------------------------------------------------
(* Lists.                                                                  *)

Pointing == {"negate", "assign", "marshal", "copy"}

(* What the Store, the Router and the lists owe to each other.             *)
ListInv == ReadersAlone /\ FoundIsSite /\ SteadyLists /\ StaysServed

(* A goroutine that goes on holds what it held, or it just looked a site   *)
(* up in the Store.                                                        *)
GoesOn(g) ==
  /\ job'[g].pc \in {"read", "install"} =>
       job'[g].pc = job[g].pc /\ job'[g].ver = job[g].ver /\ job'[g].todo = job[g].todo
  /\ job'[g].pc \in Pointing =>
       \/ job[g].pc \in Pointing /\ job'[g].ver = job[g].ver /\ job'[g].name = job[g].name
       \/ job'[g].ver = store /\ list[store][job'[g].name] # None
  /\ job'[g].ver \in {job[g].ver, NoList, store}

(* A step that leaves the lists and what is served alone.                  *)
LEMMA ListsStay ==
  ASSUME TypeOK, ListInv, TypeOK',
         UNCHANGED served,
         list' = list \/ Keep(list),
         \A g \in Goroutines : GoesOn(g)
  PROVE  ListInv'
<1>1. \A g \in Goroutines : job'[g].ver # NoList => job'[g].ver \in Live'
  BY DEF Live
<1>2. store' = store /\ index' = index /\ route' = route /\ up' = up /\ store \in Live'
      /\ store # NoList
  BY NoListIsNone DEF served, Live, TypeOK
<1>3. \A v \in Live' : list'[v] = list[v]
  BY DEF Keep
<1>4. ReadersAlone'
  <2>1. ASSUME NEW g \in Goroutines, job'[g].pc = "read"
        PROVE  /\ job'[g].ver # store
               /\ \A h \in Goroutines \ {g} : job'[h].ver # job'[g].ver
    <3>1. job[g].pc = "read" /\ job'[g].ver = job[g].ver
      BY <2>1 DEF GoesOn
    <3>2. job[g].ver # NoList
      BY <3>1, NoListIsNone DEF TypeOK, Placed
    <3> QED
      BY <3>1, <3>2 DEF GoesOn, ListInv, ReadersAlone
  <2> QED
    BY <1>2, <2>1 DEF ReadersAlone
<1>5. FoundIsSite'
  <2>1. ASSUME NEW g \in Goroutines, job'[g].pc \in Pointing
        PROVE  list'[job'[g].ver][job'[g].name] # None
    <3>1. job'[g].ver \in Live'
      BY <1>1, <2>1, NoListIsNone DEF TypeOK, Placed, Pointing
    <3> QED
      BY <1>3, <2>1, <3>1 DEF GoesOn, ListInv, FoundIsSite, Pointing
  <2> QED
    BY <2>1 DEF FoundIsSite, Pointing
<1>6. SteadyLists'
  <2>1. ASSUME NEW g \in Goroutines, job'[g].pc \in {"read", "install"}
        PROVE  job'[g].ver \in Live'
    BY <1>1, <2>1, NoListIsNone DEF TypeOK, Placed
  <2> QED
    BY <1>2, <1>3, <2>1 DEF GoesOn, ListInv, SteadyLists
<1>7. StaysServed'
  BY <1>2 DEF ListInv, StaysServed
<1> QED
  BY <1>4, <1>5, <1>6, <1>7 DEF ListInv

LEMMA OthersGoOn ==
  ASSUME NEW g \in Goroutines, GoesOn(g), \A h \in Goroutines \ {g} : job'[h] = job[h]
  PROVE  \A h \in Goroutines : GoesOn(h)
  BY DEF GoesOn, Pointing

(* Requests, saves and the watcher's timer leave the lists alone.          *)
LEMMA BeginLists ==
  ASSUME TypeOK, ListInv, TypeOK', NEW t \in Procs, NEW n \in Names,
         Find(t, n) \/ Create(t, n) \/ Flip(t, n) \/ Delete(t, n)
  PROVE  ListInv'
<1>1. t \in Goroutines /\ job \in [Goroutines -> Job] /\ UNCHANGED <<list, served>>
  BY DEF Goroutines, TypeOK, Find, Create, Flip, Delete
<1>2. \A h \in Goroutines \ {t} : job'[h] = job[h]
  BY <1>1 DEF Find, Create, Flip, Delete, Becomes
<1>3. job[t].ver = NoList
  BY <1>1 DEF TypeOK, Placed, Job, Begin, Find, Create, Flip, Delete
<1>4. GoesOn(t)
  <2>1. CASE Find(t, n)
    BY <1>1, <2>1 DEF Find, Becomes, Idle, Pointing, GoesOn
  <2>2. CASE Create(t, n)
    <3>1. PICK s : Becomes(t, [Idle EXCEPT !.pc = "open", !.op = "create", !.name = n, !.site = s])
      BY <2>2 DEF Create
    <3> QED
      BY <1>1, <1>3, <3>1 DEF Becomes, Idle, Pointing, GoesOn
  <2>3. CASE Flip(t, n)
    BY <1>1, <1>3, <2>3 DEF Flip, Becomes, Idle, Pointing, GoesOn
  <2>4. CASE Delete(t, n)
    BY <1>1, <1>3, <2>4 DEF Delete, Becomes, Idle, Pointing, GoesOn
  <2> QED
    BY <2>1, <2>2, <2>3, <2>4
<1> QED
  BY <1>1, <1>2, <1>4, OthersGoOn, ListsStay

LEMMA SaveLists ==
  ASSUME TypeOK, ListInv, TypeOK', NEW t \in Procs,
         \/ Negate(t) \/ Marshal(t) \/ Copy(t) \/ SiteFor(t)
         \/ Open(t) \/ Write(t) \/ WriteFails(t)
  PROVE  ListInv'
<1>1. t \in Goroutines /\ job \in [Goroutines -> Job] /\ job[t] \in Job
  BY DEF Goroutines, TypeOK
<1>2. UNCHANGED served /\ (list' = list \/ Keep(list))
  BY DEF Negate, Marshal, Copy, SiteFor, Open, Write, WriteFails
<1>3. \A h \in Goroutines \ {t} : job'[h] = job[h]
  BY <1>1 DEF Negate, Marshal, Copy, SiteFor, Open, Write, WriteFails, Becomes, Return
<1>4. GoesOn(t)
  <2>1. CASE Negate(t)
    BY <1>1, <2>1 DEF Negate, Becomes, Pointing, GoesOn, Job
  <2>2. CASE Marshal(t)
    BY <1>1, <2>2 DEF Marshal, Becomes, Pointing, GoesOn, Job
  <2>3. CASE Copy(t)
    <3>1. CASE Return(t)
      BY <1>1, <3>1 DEF Becomes, Return, Idle, Pointing, GoesOn
    <3>2. ASSUME NEW s, Becomes(t, [job[t] EXCEPT !.pc = "open", !.ver = NoList, !.site = s])
          PROVE  GoesOn(t)
      BY <1>1, <3>2 DEF Becomes, Pointing, GoesOn, Job
    <3> QED
      BY <2>3, <3>1, <3>2 DEF Copy
  <2>4. CASE SiteFor(t)
    <3>1. PICK s : Becomes(t, [job[t] EXCEPT !.pc = "open", !.site = s])
      BY <2>4 DEF SiteFor
    <3> QED
      BY <1>1, <3>1 DEF Becomes, Pointing, GoesOn, Job
  <2>5. CASE Open(t)
    BY <1>1, <2>5 DEF Open, Becomes, Pointing, GoesOn, Job
  <2>6. CASE Write(t)
    BY <1>1, <2>6 DEF Write, Becomes, Pointing, GoesOn, Job
  <2>7. CASE WriteFails(t)
    BY <1>1, <2>7 DEF WriteFails, Becomes, Return, Idle, Pointing, GoesOn, Job
  <2> QED
    BY <2>1, <2>2, <2>3, <2>4, <2>5, <2>6, <2>7
<1> QED
  BY <1>1, <1>2, <1>3, <1>4, OthersGoOn, ListsStay

(* What Rename and Unlink do to the goroutines.                            *)
LEMMA Relinking ==
  ASSUME TypeOK, NEW t \in Procs, Rename(t) \/ Unlink(t)
  PROVE  /\ job'[t] \in {Idle, Loading}
         /\ \A g \in Goroutines \ {t} :
              \/ job'[g] = job[g]
              \/ job[g].name = job[t].name
                 /\ \E fd \in {"file", "gone"} : job'[g] = [job[g] EXCEPT !.fd = fd]
<1> DEFINE n == job[t].name
<1>1. t \in Goroutines /\ job \in [Goroutines -> Job]
  BY DEF Goroutines, TypeOK
<1>2. \/ \E j \in {Idle, Loading} : job' = [job EXCEPT ![t] = j]
      \/ job' = [Relinked(n) EXCEPT ![t] = Loading]
      \/ job' = [Unlinked(n) EXCEPT ![t] = Loading]
  BY DEF Rename, Unlink, Becomes, Return
<1>3. CASE \E j \in {Idle, Loading} : job' = [job EXCEPT ![t] = j]
  BY <1>1, <1>3
<1>4. CASE job' = [Relinked(n) EXCEPT ![t] = Loading]
  BY <1>1, <1>4 DEF Relinked
<1>5. CASE job' = [Unlinked(n) EXCEPT ![t] = Loading]
  BY <1>1, <1>5 DEF Unlinked
<1> QED
  BY <1>2, <1>3, <1>4, <1>5

LEMMA RelinkLists ==
  ASSUME TypeOK, ListInv, TypeOK', NEW t \in Procs, Rename(t) \/ Unlink(t)
  PROVE  ListInv'
<1>1. UNCHANGED <<list, served>> /\ t \in Goroutines
  BY DEF Rename, Unlink, Goroutines
<1>2. GoesOn(t)
  <2>1. job'[t] \in {Idle, Loading}
    BY Relinking
  <2> QED
    BY <2>1 DEF GoesOn, Idle, Loading, Pointing
<1>3. ASSUME NEW g \in Goroutines \ {t}
      PROVE  GoesOn(g)
  <2>1. job[g] \in Job
    BY DEF TypeOK
  <2>2. CASE job'[g] = job[g]
    BY <2>2 DEF GoesOn, Pointing
  <2>3. ASSUME NEW fd, job'[g] = [job[g] EXCEPT !.fd = fd]
        PROVE  GoesOn(g)
    BY <2>1, <2>3 DEF GoesOn, Pointing, Job
  <2> QED
    BY <2>2, <2>3, Relinking
<1> QED
  BY <1>1, <1>2, <1>3, ListsStay

LEMMA OutsideLists ==
  ASSUME TypeOK, ListInv, TypeOK',
         \/ WatcherFires
         \/ \E n \in Names, c \in Site \cup {Torn} : HandEdit(n, c)
         \/ UNCHANGED vars
  PROVE  ListInv'
<1>1. UNCHANGED <<list, served>>
  BY DEF WatcherFires, HandEdit, vars, served
<1>2. ASSUME NEW g \in Goroutines, job'[g] = job[g]
      PROVE  GoesOn(g)
  BY <1>2 DEF GoesOn, Pointing
<1>3. CASE WatcherFires
  <2>1. Watcher \in Goroutines /\ job \in [Goroutines -> Job]
    BY DEF Goroutines, TypeOK
  <2>2. job'[Watcher] = Loading /\ \A h \in Goroutines \ {Watcher} : job'[h] = job[h]
    BY <1>3, <2>1 DEF WatcherFires, Becomes
  <2>3. GoesOn(Watcher)
    BY <2>2 DEF GoesOn, Loading, Idle, Pointing
  <2> QED
    BY <1>1, <2>1, <2>2, <2>3, OthersGoOn, ListsStay
<1>4. CASE job' = job
  BY <1>1, <1>2, <1>4, ListsStay
<1> QED
  BY <1>3, <1>4 DEF HandEdit, vars

(* The in-place change of a toggle: no steady site, and no list being read. *)
LEMMA AssignLists ==
  ASSUME TypeOK, ListInv, SteadyFiles, TypeOK', NEW t \in Procs, Assign(t)
  PROVE  ListInv'
<1> DEFINE v == job[t].ver
           n == job[t].name
<1>1. t \in Goroutines /\ job \in [Goroutines -> Job] /\ job[t].pc = "assign"
      /\ store' = store /\ index' = index /\ route' = route /\ up' = up
  BY DEF Goroutines, TypeOK, Assign, served
<1>2. v \in Live /\ n \in Names /\ Shared(t) \in Site
  BY <1>1, SharedIsSite DEF ListInv
<1>3. n \notin Steady
  BY <1>1 DEF SteadyFiles
<1>4. \A w \in Live : w # v => list'[w] = list[w]
  BY DEF Assign, TypeOK
<1>5. \A m \in Names : m # n => list'[v][m] = list[v][m]
  BY <1>2 DEF Assign, TypeOK, Lists
<1>6. list'[v][n] # None
  <2>1. list'[v][n] = [Shared(t) EXCEPT !.on = job[t].site.on]
    BY <1>2 DEF Assign, TypeOK, Lists, Shared
  <2>2. job[t].site.on \in BOOLEAN
    BY <1>1 DEF TypeOK, Placed, Site
  <2>3. [Shared(t) EXCEPT !.on = job[t].site.on] \in Site
    BY <1>2, <2>2 DEF Site
  <2> QED
    BY <2>1, <2>3
<1>7. /\ \A g \in Goroutines : job'[g].ver = job[g].ver /\ job'[g].name = job[g].name
                               /\ job'[g].todo = job[g].todo
      /\ \A g \in Goroutines : job'[g].pc = job[g].pc
                               \/ (job'[g].pc = "marshal" /\ job[g].pc = "assign")
  <2>1. \A g \in Goroutines \ {t} : job'[g] = job[g]
    BY <1>1 DEF Assign, Goto, Becomes
  <2>2. job'[t].ver = v /\ job'[t].name = n /\ job'[t].todo = job[t].todo
        /\ job'[t].pc = "marshal"
    <3>1. job[t] \in Job
      BY <1>1 DEF TypeOK
    <3> QED
      BY <1>1, <3>1 DEF Assign, Goto, Becomes, Job
  <2>3. ASSUME NEW g \in Goroutines
        PROVE  /\ job'[g].ver = job[g].ver /\ job'[g].name = job[g].name
               /\ job'[g].todo = job[g].todo
               /\ job'[g].pc = job[g].pc \/ (job'[g].pc = "marshal" /\ job[g].pc = "assign")
    <3>1. CASE g = t
      BY <1>1, <2>2, <3>1
    <3>2. CASE g # t
      BY <2>1, <3>2
    <3> QED
      BY <3>1, <3>2
  <2> QED
    BY <2>3
<1>8. ReadersAlone'
  BY <1>1, <1>7 DEF ReadersAlone, ListInv
<1>9. \A g \in Goroutines : job[g].ver # NoList => job[g].ver \in Live
  BY DEF Live
<1>10. FoundIsSite'
  <2>1. ASSUME NEW g \in Goroutines, job'[g].pc \in {"negate", "assign", "marshal", "copy"}
        PROVE  list'[job'[g].ver][job'[g].name] # None
    <3>1. job[g].pc \in {"negate", "assign", "marshal", "copy"}
      BY <1>7, <2>1
    <3>2. job[g].ver \in Live /\ job[g].name \in Names /\ list[job[g].ver][job[g].name] # None
      BY <3>1, SharedIsSite DEF FoundIsSite, ListInv
    <3>3. CASE job[g].ver # v
      BY <1>4, <1>7, <3>2, <3>3
    <3>4. CASE job[g].ver = v /\ job[g].name # n
      <4>1. list'[v][job[g].name] = list[v][job[g].name]
        BY <1>5, <3>2, <3>4
      <4> QED
        BY <1>7, <3>2, <3>4, <4>1
    <3>5. CASE job[g].ver = v /\ job[g].name = n
      BY <1>6, <1>7, <3>5
    <3> QED
      BY <3>3, <3>4, <3>5
  <2> QED
    BY <2>1 DEF FoundIsSite
<1>11. SteadyLists'
  <2>1. ASSUME NEW g \in Goroutines, NEW m \in Steady, job[g].pc \in {"read", "install"}
        PROVE  list'[job[g].ver][m] = list[job[g].ver][m]
    <3>1. job[g].ver \in Live
      BY <1>9, <2>1, NoListIsNone DEF TypeOK, Placed
    <3> QED
      BY <1>3, <1>4, <1>5, <3>1
  <2> QED
    BY <1>1, <1>7, <2>1 DEF SteadyLists, ListInv
<1>12. StaysServed'
  BY <1>1 DEF StaysServed, ListInv
<1> QED
  BY <1>8, <1>10, <1>11, <1>12 DEF ListInv

LEMMA ReadFileLists ==
  ASSUME TypeOK, ListInv, SteadyFiles, TypeOK', NEW t \in Goroutines, NEW n \in Names,
         ReadFile(t, n)
  PROVE  ListInv'
<1> DEFINE v == job[t].ver
<1>1. job \in [Goroutines -> Job] /\ job[t].pc = "read"
      /\ store' = store /\ index' = index /\ route' = route /\ up' = up
  BY DEF TypeOK, ReadFile, served
<1>2. v \in Live
  BY <1>1, NoListIsNone DEF TypeOK, Placed, Live
<1>3. \A w \in Live : w # v => list'[w] = list[w]
  BY DEF ReadFile, TypeOK
<1>4. list'[v][n] = Loaded(n) /\ \A m \in Names : m # n => list'[v][m] = list[v][m]
  BY <1>2 DEF ReadFile, TypeOK, Lists
<1>5. n \in Steady => Enabled(Loaded(n))
  BY DEF SteadyFiles, Loaded
<1>6. /\ \A g \in Goroutines : job'[g].ver = job[g].ver /\ job'[g].name = job[g].name
                               /\ job'[g].pc = job[g].pc
      /\ \A g \in Goroutines \ {t} : job'[g].todo = job[g].todo
      /\ job'[t].todo = job[t].todo \ {n}
  BY <1>1 DEF ReadFile, Becomes, Job
<1>7. ReadersAlone'
  BY <1>1, <1>6 DEF ReadersAlone, ListInv
<1>8. \A g \in Goroutines : job[g].ver # NoList => job[g].ver \in Live
  BY DEF Live
<1>9. \A g \in Goroutines \ {t} : job[g].ver # v
  BY <1>1 DEF ReadersAlone, ListInv
<1>10. FoundIsSite'
  <2>1. ASSUME NEW g \in Goroutines, job[g].pc \in {"negate", "assign", "marshal", "copy"}
        PROVE  list'[job[g].ver] = list[job[g].ver]
    BY <1>1, <1>3, <1>9, <2>1, SharedIsSite DEF ListInv
  <2> QED
    BY <1>6, <2>1 DEF FoundIsSite, ListInv
<1>11. SteadyLists'
  <2>1. ASSUME NEW g \in Goroutines \ {t}, job[g].pc \in {"read", "install"}
        PROVE  list'[job[g].ver] = list[job[g].ver]
    BY <1>3, <1>8, <1>9, <2>1, NoListIsNone DEF TypeOK, Placed
  <2>2. ASSUME NEW m \in Steady
        PROVE  m \in job'[t].todo \/ Enabled(list'[v][m])
    BY <1>1, <1>4, <1>5, <1>6 DEF SteadyLists, ListInv
  <2> QED
    BY <1>1, <1>6, <2>1, <2>2 DEF SteadyLists, ListInv
<1>12. StaysServed'
  BY <1>1 DEF StaysServed, ListInv
<1> QED
  BY <1>7, <1>10, <1>11, <1>12 DEF ListInv

LEMMA ReadDirLists ==
  ASSUME TypeOK, ListInv, SteadyFiles, TypeOK', NEW t \in Goroutines, ReadDir(t)
  PROVE  ListInv'
<1>1. PICK v \in Versions \ Live :
        /\ Becomes(t, [job[t] EXCEPT !.pc = "read", !.ver = v,
                                     !.todo = {n \in Names : file[n] # None}])
        /\ Keep([w \in Live \cup {v} |-> IF w = v THEN Nothing ELSE list[w]])
  BY DEF ReadDir
<1>2. job \in [Goroutines -> Job]
      /\ store' = store /\ index' = index /\ route' = route /\ up' = up
  BY DEF TypeOK, ReadDir, served
<1>3. /\ \A g \in Goroutines \ {t} : job'[g] = job[g]
      /\ job'[t].pc = "read" /\ job'[t].ver = v
      /\ job'[t].todo = {n \in Names : file[n] # None}
  BY <1>1, <1>2 DEF Becomes, Job
<1>4. v # store /\ \A g \in Goroutines : job[g].ver # v
  BY <1>1, NoListIsNone DEF Live
<1>5. \A g \in Goroutines \ {t} : job[g].ver # NoList => list'[job[g].ver] = list[job[g].ver]
  <2>1. ASSUME NEW g \in Goroutines \ {t}, job[g].ver # NoList
        PROVE  job[g].ver \in Live' /\ job[g].ver \in Live
    BY <1>3, <2>1 DEF Live
  <2> QED
    BY <1>1, <1>4, <2>1 DEF Keep
<1>6. ReadersAlone'
  BY <1>2, <1>3, <1>4 DEF ReadersAlone, ListInv
<1>7. FoundIsSite'
  <2>1. ASSUME NEW g \in Goroutines, job'[g].pc \in {"negate", "assign", "marshal", "copy"}
        PROVE  g # t /\ job[g].ver # NoList
    BY <1>3, <2>1, NoListIsNone DEF TypeOK, Placed
  <2> QED
    BY <1>3, <1>5, <2>1 DEF FoundIsSite, ListInv
<1>8. SteadyLists'
  <2>1. ASSUME NEW g \in Goroutines \ {t}, job[g].pc \in {"read", "install"}
        PROVE  list'[job[g].ver] = list[job[g].ver]
    BY <1>5, <2>1, NoListIsNone DEF TypeOK, Placed
  <2>2. \A n \in Steady : n \in job'[t].todo
    BY <1>3 DEF SteadyFiles, Enabled
  <2> QED
    BY <1>2, <1>3, <2>1, <2>2 DEF SteadyLists, ListInv
<1>9. StaysServed'
  BY <1>2 DEF StaysServed, ListInv
<1> QED
  BY <1>6, <1>7, <1>8, <1>9 DEF ListInv

(* Publishing a list: by then every steady site is in it.                  *)
LEMMA ReplaceLists ==
  ASSUME TypeOK, ListInv, TypeOK', NEW t \in Goroutines, Replace(t)
  PROVE  ListInv'
<1>1. job \in [Goroutines -> Job] /\ job[t].pc = "read" /\ job[t].todo = {}
      /\ store' = job[t].ver /\ route' = route /\ up' = up
  BY DEF TypeOK, Replace, Complete
<1>2. /\ \A g \in Goroutines : job'[g].ver = job[g].ver /\ job'[g].name = job[g].name
      /\ \A g \in Goroutines \ {t} : job'[g] = job[g]
      /\ job'[t].pc = "install"
  BY <1>1 DEF Replace, Becomes, Job
<1>3. \A g \in Goroutines : job[g].ver # NoList => list'[job[g].ver] = list[job[g].ver]
  <2>1. ASSUME NEW g \in Goroutines, job[g].ver # NoList
        PROVE  job[g].ver \in Live'
    BY <1>2, <2>1 DEF Live
  <2> QED
    BY <2>1 DEF Replace, Keep
<1>4. job[t].ver # NoList
  BY <1>1, NoListIsNone DEF TypeOK, Placed
<1>5. \A n \in Steady : Enabled(list[job[t].ver][n]) /\ index'[n]
  <2>1. \A n \in Steady : Enabled(list[job[t].ver][n])
    BY <1>1 DEF SteadyLists, ListInv
  <2> QED
    BY <2>1 DEF Replace
<1>6. ReadersAlone'
  BY <1>1, <1>2 DEF ReadersAlone, ListInv
<1>7. FoundIsSite'
  <2>1. ASSUME NEW g \in Goroutines, job'[g].pc \in {"negate", "assign", "marshal", "copy"}
        PROVE  g # t /\ job[g].ver # NoList
    BY <1>2, <2>1, NoListIsNone DEF TypeOK, Placed
  <2> QED
    BY <1>2, <1>3, <2>1 DEF FoundIsSite, ListInv
<1>8. SteadyLists'
  <2>1. ASSUME NEW g \in Goroutines \ {t}, job[g].pc \in {"read", "install"}
        PROVE  list'[job[g].ver] = list[job[g].ver]
    BY <1>3, <2>1, NoListIsNone DEF TypeOK, Placed
  <2> QED
    BY <1>1, <1>2, <1>3, <1>4, <1>5, <2>1 DEF SteadyLists, ListInv
<1>9. StaysServed'
  BY <1>1, <1>5 DEF StaysServed, ListInv
<1> QED
  BY <1>6, <1>7, <1>8, <1>9 DEF ListInv

LEMMA InstallLists ==
  ASSUME TypeOK, ListInv, TypeOK', NEW t \in Goroutines, Install(t)
  PROVE  ListInv'
<1>1. job \in [Goroutines -> Job] /\ job[t].pc = "install" /\ store' = store /\ index' = index
  BY DEF TypeOK, Install
<1>2. job'[t] = Idle /\ \A g \in Goroutines \ {t} : job'[g] = job[g]
  BY <1>1 DEF Install, Becomes, Return
<1>3. Idle.pc = "idle" /\ Idle.ver = NoList
  BY DEF Idle
<1>4. \A g \in Goroutines \ {t} : job[g].ver # NoList => list'[job[g].ver] = list[job[g].ver]
  <2>1. ASSUME NEW g \in Goroutines \ {t}, job[g].ver # NoList
        PROVE  job[g].ver \in Live'
    BY <1>2, <2>1 DEF Live
  <2> QED
    BY <2>1 DEF Install, Keep
<1>5. ReadersAlone'
  <2>1. ASSUME NEW g \in Goroutines, job'[g].pc = "read"
        PROVE  g # t /\ job[g].ver # NoList
    BY <1>2, <1>3, <2>1, NoListIsNone DEF TypeOK, Placed
  <2> QED
    BY <1>1, <1>2, <1>3, <2>1 DEF ReadersAlone, ListInv
<1>6. FoundIsSite'
  <2>1. ASSUME NEW g \in Goroutines, job'[g].pc \in {"negate", "assign", "marshal", "copy"}
        PROVE  g # t /\ job[g].ver # NoList
    BY <1>2, <1>3, <2>1, NoListIsNone DEF TypeOK, Placed
  <2> QED
    BY <1>2, <1>4, <2>1 DEF FoundIsSite, ListInv
<1>7. SteadyLists'
  <2>1. ASSUME NEW g \in Goroutines \ {t}, job[g].pc \in {"read", "install"}
        PROVE  list'[job[g].ver] = list[job[g].ver]
    BY <1>4, <2>1, NoListIsNone DEF TypeOK, Placed
  <2> QED
    BY <1>1, <1>2, <1>3, <2>1 DEF SteadyLists, ListInv
<1>8. StaysServed'
  <2>1. \A n \in Steady : index[n] /\ Enabled(list[job[t].ver][n])
    BY <1>1 DEF SteadyLists, ListInv
  <2>2. \A n \in Steady : route'[n] # None
    BY <2>1 DEF Install, Enabled
  <2> QED
    BY <1>1, <2>1, <2>2 DEF StaysServed
<1> QED
  BY <1>5, <1>6, <1>7, <1>8 DEF ListInv

LEMMA FreshLists ==
  /\ Init => ListInv
  /\ Crash => ListInv'
<1> DEFINE fresh == [g \in Goroutines |-> IF g = Watcher THEN Loading ELSE Idle]
<1>1. \A g \in Goroutines : fresh[g].pc \in {"list", "idle"}
  BY DEF Loading, Idle
<1>2. Init => ListInv
  BY <1>1 DEF Init, ListInv, ReadersAlone, FoundIsSite, SteadyLists, StaysServed
<1>3. Crash => ListInv'
  BY <1>1 DEF Crash, ListInv, ReadersAlone, FoundIsSite, SteadyLists, StaysServed
<1> QED
  BY <1>2, <1>3

LEMMA NextLists ==
  ASSUME TypeOK, ListInv, SteadyFiles, TypeOK', [Next]_vars
  PROVE  ListInv'
<1>1. ASSUME NEW t \in Procs, Edit(t) \/ Save(t) PROVE ListInv'
  BY <1>1, BeginLists, SaveLists, AssignLists, RelinkLists DEF Edit, Save
<1>2. ASSUME NEW g \in Goroutines, Load(g) PROVE ListInv'
  BY <1>2, ReadDirLists, ReadFileLists, ReplaceLists, InstallLists DEF Load
<1> QED
  BY <1>1, <1>2, OutsideLists, FreshLists DEF Next, Others

-----------------------------------------------------------------------------
(* Files.                                                                  *)

DiskInv == SoloWriter /\ FilesWhole /\ SteadyFiles

(* A goroutine that goes on with the site it works on, or is done with it, *)
(* and has not just opened, written or renamed a file.                     *)
Carries(g) ==
  /\ job'[g].name \in {job[g].name, NoName}
  /\ job'[g].pc \in {"write", "rename"} => job'[g] = job[g]
  /\ job'[g].name \in Steady =>
       /\ job'[g].pc \in {"negate", "assign", "marshal", "unlink"} => job'[g].pc = job[g].pc
       /\ job'[g].pc \in {"open", "write", "rename"} => job'[g].site.on

LEMMA DiskStays ==
  ASSUME DiskInv, UNCHANGED disk, \A g \in Goroutines : Carries(g)
  PROVE  DiskInv'
<1>1. file' = file /\ tmp' = tmp /\ NoName \notin Solo /\ NoName \notin Steady
  BY DEF disk
<1>2. SoloWriter'
  BY <1>1 DEF DiskInv, SoloWriter, Carries
<1>3. FilesWhole'
  BY <1>1 DEF DiskInv, FilesWhole
<1>4. SteadyFiles'
  BY <1>1 DEF DiskInv, SteadyFiles, Carries
<1> QED
  BY <1>2, <1>3, <1>4 DEF DiskInv

LEMMA OthersCarry ==
  ASSUME TypeOK, DiskInv, NEW g \in Goroutines, Carries(g),
         \A h \in Goroutines \ {g} : job'[h] = job[h]
  PROVE  \A h \in Goroutines : Carries(h)
  BY DEF Carries, DiskInv, SteadyFiles

(* Reloads, and the watcher's timer, are of no site.                       *)
LEMMA LoadDisk ==
  ASSUME TypeOK, DiskInv, NEW g \in Goroutines, Load(g) \/ (WatcherFires /\ g = Watcher)
  PROVE  DiskInv'
<1>1. job \in [Goroutines -> Job] /\ job[g] \in Job /\ job[g].name = NoName
  BY DEF TypeOK, Placed, SavePcs, Load, ReadDir, ReadFile, Replace, Install, WatcherFires, Job
<1>2. UNCHANGED disk /\ \A h \in Goroutines \ {g} : job'[h] = job[h]
  BY <1>1 DEF Load, ReadDir, ReadFile, Replace, Install, WatcherFires, Becomes, Return
<1>3. job'[g].name = NoName /\ job'[g].pc \notin {"write", "rename"}
  <2>1. CASE ReadDir(g)
    BY <1>1, <2>1 DEF ReadDir, Becomes, Job
  <2>2. CASE \E n \in Names : ReadFile(g, n)
    BY <1>1, <2>2 DEF ReadFile, Becomes, Job
  <2>3. CASE Replace(g)
    BY <1>1, <2>3 DEF Replace, Becomes, Job
  <2>4. CASE Install(g)
    BY <1>1, <2>4 DEF Install, Becomes, Return, Idle
  <2>5. CASE WatcherFires /\ g = Watcher
    BY <1>1, <2>5 DEF WatcherFires, Becomes, Loading, Idle
  <2> QED
    BY <2>1, <2>2, <2>3, <2>4, <2>5 DEF Load
<1>4. Carries(g)
  BY <1>1, <1>3 DEF Carries
<1> QED
  BY <1>2, <1>4, OthersCarry, DiskStays

(* The steps of a save that touch no file.                                 *)
LEMMA PrepareDisk ==
  ASSUME TypeOK, DiskInv, NEW t \in Procs,
         Negate(t) \/ Assign(t) \/ Marshal(t) \/ Copy(t) \/ SiteFor(t) \/ WriteFails(t),
         FoundIsSite
  PROVE  DiskInv'
<1>1. t \in Goroutines /\ job \in [Goroutines -> Job] /\ job[t] \in Job
  BY DEF Goroutines, TypeOK
<1>2. UNCHANGED disk /\ \A h \in Goroutines \ {t} : job'[h] = job[h]
  BY <1>1 DEF Negate, Assign, Marshal, Copy, SiteFor, WriteFails, Becomes, Goto, Return
<1>3. job[t].pc \in {"negate", "assign", "marshal"} => job[t].name \notin Steady
  BY <1>1 DEF DiskInv, SteadyFiles
<1>4. Carries(t)
  <2>1. CASE Negate(t)
    <3>1. PICK s : Becomes(t, [job[t] EXCEPT !.pc = "assign", !.site = s])
      BY <2>1 DEF Negate
    <3> QED
      BY <1>1, <1>3, <2>1, <3>1 DEF Negate, Becomes, Carries, Job
  <2>2. CASE Assign(t)
    BY <1>1, <1>3, <2>2 DEF Assign, Goto, Becomes, Carries, Job
  <2>3. CASE Marshal(t)
    BY <1>1, <1>3, <2>3 DEF Marshal, Becomes, Carries, Job
  <2>4. CASE Copy(t)
    <3>1. CASE Return(t)
      BY <1>1, <3>1 DEF Return, Becomes, Idle, Carries
    <3>2. ASSUME NEW on \in BOOLEAN, NEW target \in Targets, job[t].name \in Steady => on,
                 Becomes(t, [job[t] EXCEPT !.pc = "open", !.ver = NoList,
                               !.site = [Shared(t) EXCEPT !.on = on, !.target = target]])
          PROVE  Carries(t)
      <4> DEFINE s == [Shared(t) EXCEPT !.on = on, !.target = target]
      <4>1. job[t].name \in Steady => s.on
        <5>1. Shared(t) \in Site
          BY <1>1, <2>4, SharedIsSite DEF Copy
        <5> QED
          BY <3>2, <5>1 DEF Site
      <4>2. job'[t] = [job[t] EXCEPT !.pc = "open", !.ver = NoList, !.site = s]
        BY <1>1, <3>2 DEF Becomes
      <4> HIDE DEF s
      <4> QED
        BY <1>1, <4>1, <4>2 DEF Carries, Job
    <3> QED
      BY <2>4, <3>1, <3>2 DEF Copy
  <2>5. CASE SiteFor(t)
    <3>1. PICK s : s.on = TRUE /\ Becomes(t, [job[t] EXCEPT !.pc = "open", !.site = s])
      BY <2>5 DEF SiteFor
    <3> QED
      BY <1>1, <3>1 DEF Becomes, Carries, Job
  <2>6. CASE WriteFails(t)
    BY <1>1, <2>6 DEF WriteFails, Return, Becomes, Idle, Carries
  <2> QED
    BY <2>1, <2>2, <2>3, <2>4, <2>5, <2>6
<1> QED
  BY <1>1, <1>2, <1>4, OthersCarry, DiskStays

(* Taking on a site: nobody else is at work on a solo file.                *)
LEMMA BeginDisk ==
  ASSUME TypeOK, DiskInv, NEW t \in Procs, NEW n \in Names,
         Find(t, n) \/ Create(t, n) \/ Flip(t, n) \/ Delete(t, n)
  PROVE  DiskInv'
<1>1. t \in Goroutines /\ job \in [Goroutines -> Job] /\ file' = file /\ tmp' = tmp
  BY DEF Goroutines, TypeOK, Find, Create, Flip, Delete, disk
<1>2. \A h \in Goroutines \ {t} : job'[h] = job[h]
  BY <1>1 DEF Find, Create, Flip, Delete, Becomes
<1>3. n \in Solo => \A h \in Goroutines : job[h].name # n
  <2>1. job[Watcher].name \notin Names
    <3>1. Watcher \in Goroutines /\ job[Watcher].pc \in {"idle"} \cup LoadPcs
      BY DEF TypeOK, Goroutines
    <3> QED
      BY <3>1 DEF TypeOK, Placed, SavePcs, LoadPcs
  <2> QED
    BY <2>1 DEF Find, Create, Flip, Delete, Begin, Editable, Goroutines
<1>4. /\ job'[t].name = n
      /\ job'[t].pc \notin {"write", "rename"}
      /\ n \in Steady => /\ job'[t].pc \notin {"negate", "assign", "marshal", "unlink"}
                         /\ job'[t].pc = "open" => job'[t].site.on
  <2>1. CASE Find(t, n)
    <3>1. CASE /\ n \notin Steady
               /\ Becomes(t, [Idle EXCEPT !.pc = "negate", !.op = "toggle", !.name = n, !.ver = store])
      BY <1>1, <3>1 DEF Becomes, Idle
    <3>2. CASE Becomes(t, [Idle EXCEPT !.pc = "copy", !.op = "update", !.name = n, !.ver = store])
      BY <1>1, <3>2 DEF Becomes, Idle
    <3> QED
      BY <2>1, <3>1, <3>2 DEF Find
  <2>2. CASE Create(t, n)
    <3>1. PICK on \in BOOLEAN, target \in Targets :
            /\ n \in Steady => on
            /\ Becomes(t, [Idle EXCEPT !.pc = "open", !.op = "create", !.name = n,
                          !.site = [on |-> on, target |-> target, opts |-> Default]])
      BY <2>2 DEF Create
    <3> DEFINE s == [on |-> on, target |-> target, opts |-> Default]
    <3>2. s.on = on
      OBVIOUS
    <3> HIDE DEF s
    <3>3. job'[t] = [Idle EXCEPT !.pc = "open", !.op = "create", !.name = n, !.site = s]
      BY <1>1, <3>1 DEF Becomes, s
    <3> QED
      BY <3>1, <3>2, <3>3 DEF Idle
  <2>3. CASE Flip(t, n)
    BY <1>1, <2>3 DEF Flip, Becomes, Idle
  <2>4. CASE Delete(t, n)
    BY <1>1, <2>4 DEF Delete, Becomes, Idle
  <2> QED
    BY <2>1, <2>2, <2>3, <2>4
<1>5. SoloWriter'
  <2>1. ASSUME NEW g \in Goroutines, NEW h \in Goroutines,
               job'[g].name \in Solo, job'[h].name = job'[g].name
        PROVE  g = h
    BY <1>2, <1>3, <1>4, <2>1 DEF DiskInv, SoloWriter
  <2>2. ASSUME NEW g \in Goroutines, job'[g].name \in Solo
        PROVE  /\ job'[g].pc = "write" => job'[g].fd = "tmp" /\ tmp'[job'[g].name] = Empty
               /\ job'[g].pc = "rename" => tmp'[job'[g].name] = job'[g].site
    BY <1>1, <1>2, <1>4, <2>2 DEF DiskInv, SoloWriter
  <2> QED
    BY <2>1, <2>2 DEF SoloWriter
<1>6. FilesWhole'
  BY <1>1 DEF DiskInv, FilesWhole
<1>7. SteadyFiles'
  BY <1>1, <1>2, <1>4 DEF DiskInv, SteadyFiles
<1> QED
  BY <1>5, <1>6, <1>7 DEF DiskInv

LEMMA OpenDisk ==
  ASSUME TypeOK, DiskInv, NEW t \in Procs, Open(t)
  PROVE  DiskInv'
<1> DEFINE n == job[t].name
<1>1. t \in Goroutines /\ job \in [Goroutines -> Job] /\ job[t] \in Job /\ n \in Names
      /\ job[t].pc = "open" /\ file' = file
  BY DEF Goroutines, TypeOK, Open, Placed, SavePcs
<1>2. \A h \in Goroutines \ {t} : job'[h] = job[h]
  BY <1>1 DEF Open, Becomes
<1>3. job'[t].pc = "write" /\ job'[t].fd = "tmp" /\ job'[t].name = n /\ job'[t].site = job[t].site
  BY <1>1 DEF Open, Becomes, Job
<1>4. tmp'[n] = Empty /\ \A m \in Names : m # n => tmp'[m] = tmp[m]
  BY <1>1 DEF Open, TypeOK
<1>5. SoloWriter'
  <2>1. ASSUME NEW g \in Goroutines, NEW h \in Goroutines,
               job'[g].name \in Solo, job'[h].name = job'[g].name
        PROVE  g = h
    BY <1>2, <1>3, <2>1 DEF DiskInv, SoloWriter
  <2>2. ASSUME NEW g \in Goroutines \ {t}, job[g].name \in Solo
        PROVE  tmp'[job[g].name] = tmp[job[g].name]
    BY <1>1, <1>4, <2>2 DEF DiskInv, SoloWriter
  <2> QED
    BY <1>2, <1>3, <1>4, <2>1, <2>2 DEF DiskInv, SoloWriter
<1>6. FilesWhole'
  BY <1>1 DEF DiskInv, FilesWhole
<1>7. SteadyFiles'
  BY <1>1, <1>2, <1>3 DEF DiskInv, SteadyFiles
<1> QED
  BY <1>5, <1>6, <1>7 DEF DiskInv

LEMMA WriteDisk ==
  ASSUME TypeOK, DiskInv, NEW t \in Procs, Write(t)
  PROVE  DiskInv'
<1> DEFINE n == job[t].name
<1>1. t \in Goroutines /\ job \in [Goroutines -> Job] /\ job[t] \in Job /\ n \in Names
      /\ job[t].pc = "write"
  BY DEF Goroutines, TypeOK, Write, Placed, SavePcs
<1>2. \A h \in Goroutines \ {t} : job'[h] = job[h]
  BY <1>1 DEF Write, Becomes
<1>3. job'[t].pc = "rename" /\ job'[t].name = n /\ job'[t].site = job[t].site
  BY <1>1 DEF Write, Becomes, Job
<1>4. \A m \in Names : m # n => tmp'[m] = tmp[m] /\ file'[m] = file[m]
  BY <1>1 DEF Write, TypeOK, disk
<1>5. n \in Solo => tmp'[n] = job[t].site /\ file' = file
  <2>1. ASSUME n \in Solo
        PROVE  job[t].fd = "tmp" /\ tmp[n] = Empty
    BY <1>1, <2>1 DEF DiskInv, SoloWriter
  <2> QED
    BY <1>1, <2>1 DEF Write, Over, TypeOK
<1>6. SoloWriter'
  <2>1. ASSUME NEW g \in Goroutines, NEW h \in Goroutines,
               job'[g].name \in Solo, job'[h].name = job'[g].name
        PROVE  g = h
    BY <1>2, <1>3, <2>1 DEF DiskInv, SoloWriter
  <2>2. ASSUME NEW g \in Goroutines \ {t}, job[g].name \in Solo
        PROVE  tmp'[job[g].name] = tmp[job[g].name]
    BY <1>1, <1>4, <2>2 DEF DiskInv, SoloWriter
  <2> QED
    BY <1>2, <1>3, <1>5, <2>1, <2>2 DEF DiskInv, SoloWriter
<1>7. FilesWhole'
  BY <1>4, <1>5 DEF DiskInv, FilesWhole
<1>8. SteadyFiles'
  <2>1. \A m \in Steady : file'[m] = file[m]
    BY <1>4, <1>5
  <2> QED
    BY <1>1, <1>2, <1>3, <2>1 DEF DiskInv, SteadyFiles
<1> QED
  BY <1>6, <1>7, <1>8 DEF DiskInv

LEMMA RelinkDisk ==
  ASSUME TypeOK, DiskInv, NEW t \in Procs, Rename(t) \/ Unlink(t)
  PROVE  DiskInv'
<1> DEFINE n == job[t].name
<1>1. t \in Goroutines /\ job \in [Goroutines -> Job] /\ job[t] \in Job /\ n \in Names
      /\ Placed(job[t]) /\ job[t].pc \in {"rename", "unlink"}
  BY DEF Goroutines, TypeOK, Rename, Unlink, Placed, SavePcs
<1>2. job'[t].name = NoName /\ job'[t].pc \in {"idle", "list"}
  <2>1. job'[t] \in {Idle, Loading}
    BY Relinking
  <2> QED
    BY <2>1 DEF Idle, Loading
<1>3. ASSUME NEW g \in Goroutines \ {t}
      PROVE  /\ job'[g].name = job[g].name /\ job'[g].pc = job[g].pc /\ job'[g].site = job[g].site
             /\ job[g].name \in Solo => job'[g] = job[g] /\ job[g].name # n
  <2>1. job[g] \in Job
    BY DEF TypeOK
  <2>2. job[g].name \in Solo => job[g].name # n
    BY <1>1 DEF DiskInv, SoloWriter
  <2>3. CASE job'[g] = job[g]
    BY <2>2, <2>3
  <2>4. ASSUME NEW fd, job[g].name = n, job'[g] = [job[g] EXCEPT !.fd = fd]
        PROVE  <1>3!2
    BY <2>1, <2>2, <2>4 DEF Job
  <2> QED
    BY <2>3, <2>4, Relinking
<1>4. \A m \in Names : m # n => tmp'[m] = tmp[m] /\ file'[m] = file[m]
  BY <1>1 DEF Rename, Unlink, TypeOK, disk
<1>5. n \in Solo => file'[n] \in {file[n], None, job[t].site}
  BY <1>1 DEF Rename, Unlink, TypeOK, disk, DiskInv, SoloWriter
<1>6. n \in Steady => file'[n] \in {file[n], job[t].site} /\ job[t].site.on /\ job[t].site \in Site
  <2>1. ASSUME n \in Steady
        PROVE  job[t].pc = "rename" /\ job[t].site.on /\ job[t].site \in Site
    BY <1>1, <2>1 DEF DiskInv, SteadyFiles, Placed
  <2> QED
    BY <1>1, <2>1 DEF Rename, Unlink, TypeOK, disk, DiskInv, SoloWriter
<1>7. job[t].pc = "rename" => job[t].site \in Site
  BY <1>1 DEF Placed
<1>8. n \in Solo /\ file'[n] # file[n] => file'[n] \in Site \cup {None}
  BY <1>1, <1>7 DEF Rename, Unlink, TypeOK, disk, DiskInv, SoloWriter
<1>9. SoloWriter'
  <2>1. ASSUME NEW g \in Goroutines, job'[g].name \in Solo
        PROVE  g # t /\ job'[g] = job[g] /\ job[g].name # n
               /\ tmp'[job[g].name] = tmp[job[g].name]
    <3>1. g # t
      BY <1>2, <2>1
    <3>2. job[g].name \in Solo /\ job'[g] = job[g] /\ job[g].name # n
      BY <1>3, <2>1, <3>1
    <3> QED
      BY <1>4, <3>1, <3>2
  <2>2. ASSUME NEW g \in Goroutines, NEW h \in Goroutines,
               job'[g].name \in Solo, job'[h].name = job'[g].name
        PROVE  g = h
    BY <2>1, <2>2 DEF DiskInv, SoloWriter
  <2>3. ASSUME NEW g \in Goroutines, job'[g].name \in Solo
        PROVE  /\ job'[g].pc = "write" => job'[g].fd = "tmp" /\ tmp'[job'[g].name] = Empty
               /\ job'[g].pc = "rename" => tmp'[job'[g].name] = job'[g].site
    BY <2>1, <2>3 DEF DiskInv, SoloWriter
  <2> QED
    BY <2>2, <2>3 DEF SoloWriter
<1>10. FilesWhole'
  BY <1>4, <1>8 DEF DiskInv, FilesWhole
<1>11. SteadyFiles'
  <2>1. \A m \in Steady : Enabled(file'[m]) /\ file'[m] \in Site
    BY <1>4, <1>6 DEF DiskInv, SteadyFiles, Enabled
  <2> QED
    BY <1>2, <1>3, <2>1 DEF DiskInv, SteadyFiles
<1> QED
  BY <1>9, <1>10, <1>11 DEF DiskInv

LEMMA HandEditDisk ==
  ASSUME TypeOK, DiskInv, NEW n \in Names, NEW c \in Site \cup {Torn}, HandEdit(n, c)
  PROVE  DiskInv'
<1>1. n \in ByHand /\ tmp' = tmp /\ job' = job /\ \A m \in Names : m # n => file'[m] = file[m]
  BY DEF HandEdit, TypeOK
<1> QED
  BY <1>1 DEF DiskInv, SoloWriter, FilesWhole, SteadyFiles

LEMMA FreshDisk ==
  /\ Init => DiskInv
  /\ DiskInv /\ Crash => DiskInv'
<1>1. Loading.name = NoName /\ Idle.name = NoName
  BY DEF Loading, Idle
<1>2. ASSUME Init PROVE DiskInv
  <2>1. \A g \in Goroutines : job[g].name = NoName
    BY <1>1, <1>2 DEF Init
  <2>2. SoloWriter
    BY <2>1 DEF SoloWriter
  <2>3. FilesWhole
    BY <1>2 DEF Init, FilesWhole
  <2>4. SteadyFiles
    BY <1>2, <2>1 DEF Init, SteadyFiles, Enabled
  <2> QED
    BY <2>2, <2>3, <2>4 DEF DiskInv
<1>3. ASSUME DiskInv, Crash PROVE DiskInv'
  <2>1. \A g \in Goroutines : job'[g].name = NoName
    BY <1>1, <1>3 DEF Crash
  <2>2. file' = file
    BY <1>3 DEF Crash, disk
  <2>3. SoloWriter'
    BY <2>1 DEF SoloWriter
  <2>4. FilesWhole' /\ SteadyFiles'
    BY <1>3, <2>1, <2>2 DEF DiskInv, FilesWhole, SteadyFiles
  <2> QED
    BY <2>3, <2>4 DEF DiskInv
<1> QED
  BY <1>2, <1>3

LEMMA NextDisk ==
  ASSUME TypeOK, FoundIsSite, DiskInv, [Next]_vars
  PROVE  DiskInv'
<1>1. ASSUME NEW t \in Procs, Edit(t) \/ Save(t) PROVE DiskInv'
  BY <1>1, BeginDisk, PrepareDisk, OpenDisk, WriteDisk, RelinkDisk DEF Edit, Save
<1>2. ASSUME NEW g \in Goroutines, Load(g) PROVE DiskInv'
  BY <1>2, LoadDisk
<1>3. CASE WatcherFires
  BY <1>3, LoadDisk DEF Goroutines
<1>4. CASE UNCHANGED vars
  BY <1>4 DEF vars, DiskInv, SoloWriter, FilesWhole, SteadyFiles
<1> QED
  BY <1>1, <1>2, <1>3, <1>4, HandEditDisk, FreshDisk DEF Next, Others

-----------------------------------------------------------------------------
(* Options.                                                                *)

Saving == {"open", "write", "rename"}

(* A deploy that has asked siteFor is about to save the options of the     *)
(* file, which nobody has touched since.                                   *)
FlipInv ==
  \A g \in Goroutines : job[g].op = "flip" =>
    /\ job[g].pc \in {"siteFor"} \cup Saving
    /\ (job[g].pc \in Saving /\ job[g].name \in Solo /\ file[job[g].name] \in Site)
         => job[g].site.opts = file[job[g].name].opts

(* A deploy that goes on, and its file with it.                            *)
FlipGoesOn(g) ==
  job'[g].op = "flip" =>
    \/ job'[g].pc = "siteFor"
    \/ /\ job[g].op = "flip"
       /\ job[g].pc \in Saving /\ job'[g].pc \in Saving
       /\ job'[g].name = job[g].name /\ job'[g].site = job[g].site
       /\ job[g].name \in Solo => file'[job[g].name] = file[job[g].name]

LEMMA FlipsGoOn ==
  ASSUME FlipInv, \A g \in Goroutines : FlipGoesOn(g)
  PROVE  FlipInv'
  BY DEF FlipInv, FlipGoesOn, Saving

LEMMA UntouchedFlips ==
  ASSUME FlipInv, NEW g \in Goroutines, job'[g] = job[g],
         job[g].name \in Solo => file'[job[g].name] = file[job[g].name]
  PROVE  FlipGoesOn(g)
  BY DEF FlipInv, FlipGoesOn, Saving

(* The steps that leave the files alone.                                   *)
LEMMA QuietFlips ==
  ASSUME TypeOK, FlipInv, NEW g \in Goroutines, file' = file,
         \A h \in Goroutines \ {g} : job'[h] = job[h], FlipGoesOn(g)
  PROVE  FlipInv'
<1>1. \A h \in Goroutines : FlipGoesOn(h)
  BY UntouchedFlips
<1> QED
  BY <1>1, FlipsGoOn

LEMMA EditFlips ==
  ASSUME TypeOK, FlipInv, NEW t \in Procs, NEW n \in Names,
         Find(t, n) \/ Create(t, n) \/ Flip(t, n) \/ Delete(t, n)
  PROVE  FlipInv'
<1>1. t \in Goroutines /\ job \in [Goroutines -> Job] /\ file' = file
  BY DEF Goroutines, TypeOK, Find, Create, Flip, Delete, disk
<1>2. \A h \in Goroutines \ {t} : job'[h] = job[h]
  BY <1>1 DEF Find, Create, Flip, Delete, Becomes
<1>3. job'[t].op = "flip" => job'[t].pc = "siteFor"
  <2>1. CASE Find(t, n)
    BY <1>1, <2>1 DEF Find, Becomes, Idle
  <2>2. CASE Create(t, n)
    <3>1. PICK s : Becomes(t, [Idle EXCEPT !.pc = "open", !.op = "create", !.name = n, !.site = s])
      BY <2>2 DEF Create
    <3> QED
      BY <1>1, <3>1 DEF Becomes, Idle
  <2>3. CASE Flip(t, n)
    BY <1>1, <2>3 DEF Flip, Becomes, Idle
  <2>4. CASE Delete(t, n)
    BY <1>1, <2>4 DEF Delete, Becomes, Idle
  <2> QED
    BY <2>1, <2>2, <2>3, <2>4
<1> QED
  BY <1>1, <1>2, <1>3, QuietFlips DEF FlipGoesOn

LEMMA PrepareFlips ==
  ASSUME TypeOK, FlipInv, NEW t \in Procs,
         Negate(t) \/ Assign(t) \/ Marshal(t) \/ Copy(t) \/ WriteFails(t) \/ Open(t)
  PROVE  FlipInv'
<1>1. t \in Goroutines /\ job \in [Goroutines -> Job] /\ job[t] \in Job /\ file' = file
  BY DEF Goroutines, TypeOK, Negate, Assign, Marshal, Copy, WriteFails, Open, disk
<1>2. \A h \in Goroutines \ {t} : job'[h] = job[h]
  BY <1>1 DEF Negate, Assign, Marshal, Copy, WriteFails, Open, Becomes, Goto, Return
<1>3. job[t].pc \notin {"siteFor"} \cup Saving => job[t].op # "flip"
  BY <1>1 DEF FlipInv
<1>4. FlipGoesOn(t)
  <2>1. CASE Negate(t)
    <3>1. PICK s : Becomes(t, [job[t] EXCEPT !.pc = "assign", !.site = s])
      BY <2>1 DEF Negate
    <3> QED
      BY <1>1, <1>3, <2>1, <3>1 DEF Negate, Becomes, Job, FlipGoesOn, Saving
  <2>2. CASE Assign(t)
    BY <1>1, <1>3, <2>2 DEF Assign, Goto, Becomes, Job, FlipGoesOn, Saving
  <2>3. CASE Marshal(t)
    BY <1>1, <1>3, <2>3 DEF Marshal, Becomes, Job, FlipGoesOn, Saving
  <2>4. CASE Copy(t)
    <3>1. CASE Return(t)
      BY <1>1, <3>1 DEF Return, Becomes, Idle, FlipGoesOn
    <3>2. ASSUME NEW s, Becomes(t, [job[t] EXCEPT !.pc = "open", !.ver = NoList, !.site = s])
          PROVE  FlipGoesOn(t)
      BY <1>1, <1>3, <2>4, <3>2 DEF Copy, Becomes, Job, FlipGoesOn, Saving
    <3> QED
      BY <2>4, <3>1, <3>2 DEF Copy
  <2>5. CASE WriteFails(t)
    BY <1>1, <2>5 DEF WriteFails, Return, Becomes, Idle, FlipGoesOn
  <2>6. CASE Open(t)
    BY <1>1, <2>6 DEF Open, Becomes, Job, FlipGoesOn, Saving
  <2> QED
    BY <2>1, <2>2, <2>3, <2>4, <2>5, <2>6
<1> QED
  BY <1>1, <1>2, <1>4, QuietFlips

LEMMA SiteForFlips ==
  ASSUME TypeOK, FlipInv, NEW t \in Procs, SiteFor(t)
  PROVE  FlipInv'
<1>1. t \in Goroutines /\ job \in [Goroutines -> Job] /\ job[t] \in Job /\ file' = file
  BY DEF Goroutines, TypeOK, SiteFor, disk
<1>2. PICK s : s.opts = OptionsOf(job[t].name)
               /\ job' = [job EXCEPT ![t] = [job[t] EXCEPT !.pc = "open", !.site = s]]
  BY DEF SiteFor, Becomes
<1>3. /\ job'[t].pc = "open" /\ job'[t].name = job[t].name
      /\ job'[t].site = s
      /\ \A h \in Goroutines \ {t} : job'[h] = job[h]
  BY <1>1, <1>2 DEF Job
<1>4. file[job[t].name] \in Site => s.opts = file[job[t].name].opts
  BY <1>2 DEF OptionsOf
<1> QED
  BY <1>1, <1>3, <1>4 DEF FlipInv, Saving

LEMMA WriteFlips ==
  ASSUME TypeOK, DiskInv, FlipInv, NEW t \in Procs, Write(t)
  PROVE  FlipInv'
<1> DEFINE n == job[t].name
<1>1. t \in Goroutines /\ job \in [Goroutines -> Job] /\ job[t] \in Job /\ n \in Names
      /\ job[t].pc = "write"
  BY DEF Goroutines, TypeOK, Write, Placed, SavePcs
<1>2. \A h \in Goroutines \ {t} : job'[h] = job[h]
  BY <1>1 DEF Write, Becomes
<1>3. \A m \in Solo : file'[m] = file[m]
  <2>1. n \in Solo => job[t].fd = "tmp"
    BY <1>1 DEF DiskInv, SoloWriter
  <2> QED
    BY <1>1, <2>1 DEF Write, TypeOK, disk
<1>4. FlipGoesOn(t)
  BY <1>1, <1>3 DEF Write, Becomes, Job, FlipGoesOn, Saving
<1> QED
  BY <1>2, <1>3, <1>4, UntouchedFlips, FlipsGoOn

LEMMA RelinkFlips ==
  ASSUME TypeOK, DiskInv, FlipInv, NEW t \in Procs, Rename(t) \/ Unlink(t)
  PROVE  FlipInv'
<1> DEFINE n == job[t].name
<1>1. t \in Goroutines /\ n \in Names
  BY DEF Goroutines, TypeOK, Rename, Unlink, Placed, SavePcs
<1>2. FlipGoesOn(t)
  <2>1. job'[t] \in {Idle, Loading}
    BY Relinking
  <2> QED
    BY <2>1 DEF Idle, Loading, FlipGoesOn
<1>3. \A m \in Names : m # n => file'[m] = file[m]
  BY <1>1 DEF Rename, Unlink, TypeOK, disk
<1>4. ASSUME NEW g \in Goroutines \ {t}
      PROVE  FlipGoesOn(g)
  <2>1. job[g] \in Job
    BY DEF TypeOK
  <2>2. job[g].name \in Solo => file'[job[g].name] = file[job[g].name]
    BY <1>1, <1>3 DEF DiskInv, SoloWriter
  <2>3. CASE job'[g] = job[g]
    BY <2>2, <2>3, UntouchedFlips
  <2>4. ASSUME NEW fd, job'[g] = [job[g] EXCEPT !.fd = fd]
        PROVE  FlipGoesOn(g)
    BY <2>1, <2>2, <2>4 DEF Job, FlipInv, FlipGoesOn, Saving
  <2> QED
    BY <2>3, <2>4, Relinking
<1> QED
  BY <1>2, <1>4, FlipsGoOn

LEMMA LoadFlips ==
  ASSUME TypeOK, FlipInv, NEW g \in Goroutines, Load(g) \/ (WatcherFires /\ g = Watcher)
  PROVE  FlipInv'
<1>1. job \in [Goroutines -> Job] /\ job[g] \in Job /\ job[g].op # "flip" /\ file' = file
  BY DEF TypeOK, FlipInv, Saving, Load, ReadDir, ReadFile, Replace, Install, WatcherFires, disk
<1>2. \A h \in Goroutines \ {g} : job'[h] = job[h]
  BY <1>1 DEF Load, ReadDir, ReadFile, Replace, Install, WatcherFires, Becomes, Return
<1>3. job'[g].op # "flip"
  <2>1. CASE ReadDir(g)
    BY <1>1, <2>1 DEF ReadDir, Becomes, Job
  <2>2. CASE \E n \in Names : ReadFile(g, n)
    BY <1>1, <2>2 DEF ReadFile, Becomes, Job
  <2>3. CASE Replace(g)
    BY <1>1, <2>3 DEF Replace, Becomes, Job
  <2>4. CASE Install(g)
    BY <1>1, <2>4 DEF Install, Becomes, Return, Idle
  <2>5. CASE WatcherFires /\ g = Watcher
    BY <1>1, <2>5 DEF WatcherFires, Becomes, Loading, Idle
  <2> QED
    BY <2>1, <2>2, <2>3, <2>4, <2>5 DEF Load
<1> QED
  BY <1>1, <1>2, <1>3, QuietFlips DEF FlipGoesOn

LEMMA HandEditFlips ==
  ASSUME TypeOK, FlipInv, NEW n \in Names, NEW c \in Site \cup {Torn}, HandEdit(n, c)
  PROVE  FlipInv'
<1>1. job' = job /\ \A m \in Names : m # n => file'[m] = file[m]
  BY DEF HandEdit, TypeOK
<1>2. job[Watcher].op # "flip"
  <2>1. Watcher \in Goroutines /\ job[Watcher].pc \in {"idle"} \cup LoadPcs
    BY DEF TypeOK, Goroutines
  <2> QED
    BY <2>1 DEF FlipInv, LoadPcs, Saving
<1>3. n \in Solo => \A t \in Procs : job[t].name # n
  BY DEF HandEdit, Editable
<1> QED
  BY <1>1, <1>2, <1>3 DEF FlipInv, Goroutines

LEMMA FreshFlips ==
  /\ Init => FlipInv
  /\ Crash => FlipInv'
<1>1. Loading.op = "none" /\ Idle.op = "none"
  BY DEF Loading, Idle
<1>2. ASSUME Init PROVE FlipInv
  BY <1>1, <1>2 DEF Init, FlipInv
<1>3. ASSUME Crash PROVE FlipInv'
  BY <1>1, <1>3 DEF Crash, FlipInv
<1> QED
  BY <1>2, <1>3

LEMMA NextFlips ==
  ASSUME TypeOK, DiskInv, FlipInv, [Next]_vars
  PROVE  FlipInv'
<1>1. ASSUME NEW t \in Procs, Edit(t) \/ Save(t) PROVE FlipInv'
  BY <1>1, EditFlips, PrepareFlips, SiteForFlips, WriteFlips, RelinkFlips DEF Edit, Save
<1>2. ASSUME NEW g \in Goroutines, Load(g) PROVE FlipInv'
  BY <1>2, LoadFlips
<1>3. CASE WatcherFires
  BY <1>3, LoadFlips DEF Goroutines
<1>4. CASE UNCHANGED vars
  BY <1>4 DEF vars, FlipInv
<1> QED
  BY <1>1, <1>2, <1>3, <1>4, HandEditFlips, FreshFlips DEF Next, Others

-----------------------------------------------------------------------------
(* The theorems.                                                           *)

Inv == TypeOK /\ ListInv /\ DiskInv /\ FlipInv

(* The invariant is inductive.                                             *)
THEOREM Inductive == Spec => []Inv
<1>1. Init => Inv
  BY InitType, FreshLists, FreshDisk, FreshFlips DEF Inv
<1>2. Inv /\ [Next]_vars => Inv'
  <2> SUFFICES ASSUME Inv, [Next]_vars PROVE Inv'
    OBVIOUS
  <2>1. TypeOK'
    BY NextType DEF Inv, ListInv
  <2>2. ListInv'
    BY <2>1, NextLists DEF Inv, DiskInv
  <2>3. DiskInv'
    BY NextDisk DEF Inv, ListInv
  <2>4. FlipInv'
    BY NextFlips DEF Inv
  <2> QED
    BY <2>1, <2>2, <2>3, <2>4 DEF Inv
<1> QED
  BY <1>1, <1>2, PTL DEF Spec

(* Every variable keeps its type, whatever overlaps.                       *)
THEOREM TypeCorrect == Spec => []TypeOK
<1>1. Inv => TypeOK
  BY DEF Inv
<1> QED
  BY <1>1, Inductive, PTL

(* Site files that have one writer at a time are whole at every moment.    *)
THEOREM FilesAreWhole == Spec => []FilesWhole
<1>1. Inv => FilesWhole
  BY DEF Inv, DiskInv
<1> QED
  BY <1>1, Inductive, PTL

(* A site that is on disk and enabled all along is served all along.       *)
THEOREM SteadySitesServed == Spec => []StaysServed
<1>1. Inv => StaysServed
  BY DEF Inv, ListInv
<1> QED
  BY <1>1, Inductive, PTL

(* A deploy never changes the options of a site file that loads.           *)
THEOREM DeploysKeepOptions == Spec => OptionsKept
<1>1. Inv /\ [Next]_vars => [KeepsOptions]_vars
  <2> SUFFICES ASSUME Inv, NEW n \in Solo, NEW t \in Procs,
                      job[t].op = "flip", job[t].name = n, Rename(t),
                      file[n] \in Site, file'[n] \in Site
               PROVE  file'[n].opts = file[n].opts
    BY DEF KeepsOptions
  <2>1. t \in Goroutines /\ n \in Names /\ job[t].pc = "rename"
    BY DEF Goroutines, Rename
  <2>2. tmp[n] = job[t].site /\ job[t].site.opts = file[n].opts
    BY <2>1 DEF Inv, DiskInv, SoloWriter, FlipInv, Saving
  <2>3. file'[n] \in {tmp[n], file[n]}
    BY <2>1 DEF Rename, Inv, TypeOK, disk
  <2> QED
    BY <2>2, <2>3
<1> QED
  BY <1>1, Inductive, PTL DEF OptionsKept, Spec

-----------------------------------------------------------------------------
(* At rest the Store and the Router are in step with the files.            *)

(* Nothing is left to do: no event waits, and nobody is at work.           *)
AtRest == ~armed /\ \A g \in Goroutines : job[g].pc = "idle"

(* A site has been changed in memory and is not being saved yet.           *)
Unsaved == \E t \in Procs : job[t].pc \in {"marshal", "open"}

(* The directory has not changed since g began to load it.                 *)
Current(g) ==
  /\ job[g].pc \in {"read", "install"}
  /\ g \notin behind
  /\ g = Watcher => ~armed

(* What g has read so far is what the files say.                           *)
ReadRight(g) == \A n \in Names \ job[g].todo : list[job[g].ver][n] = Loaded(n)

StoreRight == \A n \in Names : list[store][n] = Loaded(n) /\ index[n] = Enabled(Loaded(n))
RouteRight == \A n \in Names : route[n] = IF Enabled(Loaded(n)) THEN Loaded(n) ELSE None

(* No load is left behind by a timer that has fired; a load that is not    *)
(* behind reads what is there; and the last to publish, or to install, has *)
(* read it after the last event.                                           *)
Settled ==
  /\ \A g \in Goroutines : job[g].pc = "install" => job[g].todo = {}
  /\ ~armed => behind = {}
  /\ ~Unsaved => \A g \in Goroutines : Current(g) => ReadRight(g)
  /\ ~armed /\ ~Unsaved =>
       /\ (\A g \in Goroutines : job[g].pc \notin {"list", "read"}) => StoreRight
       /\ (\A g \in Goroutines : job[g].pc \notin LoadPcs) => RouteRight

(* After an event every load under way is behind, and the timer is set.    *)
LEMMA EventSettles ==
  ASSUME Settled, Event,
         \A g \in Goroutines : job'[g].pc \in {"read", "install"} =>
           job[g].pc = job'[g].pc /\ job[g].todo = job'[g].todo
  PROVE  Settled'
<1>1. armed' = TRUE /\ behind' = {t \in Procs : job[t].pc \in LoadPcs}
  BY DEF Event
<1>2. \A g \in Goroutines : job'[g].pc = "install" => job'[g].todo = {}
  BY DEF Settled
<1>3. ASSUME NEW g \in Goroutines PROVE ~Current(g)'
  BY <1>1 DEF Current, Goroutines, LoadPcs
<1> QED
  BY <1>1, <1>2, <1>3 DEF Settled

(* A step of an edit that no event comes of: what a load would find does   *)
(* not change, except in a site that is saved next.                        *)
LEMMA QuietSettles ==
  ASSUME TypeOK, Settled, NEW t \in Procs,
         \A g \in Goroutines \ {t} : job'[g] = job[g],
         job[t].pc \notin LoadPcs, job'[t].pc \notin {"read", "install"},
         job[t].pc \in {"marshal", "open"} => job'[t].pc \in {"marshal", "open"},
         UNCHANGED <<file, served, events>>,
         \/ job'[t].pc \in {"marshal", "open"}
         \/ /\ list'[store] = list[store]
            /\ \A g \in Goroutines \ {t} :
                 job[g].ver # NoList => list'[job[g].ver] = list[job[g].ver]
  PROVE  Settled'
<1>1. t \in Goroutines
  BY DEF Goroutines
<1>2. /\ store' = store /\ index' = index /\ route' = route
      /\ armed' = armed /\ behind' = behind
      /\ \A n \in Names : Loaded(n)' = Loaded(n)
  BY DEF served, events, Loaded
<1>3. \A g \in Goroutines : job'[g].pc = "install" => job'[g].todo = {}
  BY DEF Settled
<1>4. Unsaved => Unsaved'
  BY <1>1 DEF Unsaved, Goroutines
<1>5. SUFFICES ASSUME ~Unsaved' PROVE Settled'
  BY <1>2, <1>3 DEF Settled
<1>6. /\ list'[store] = list[store]
      /\ \A g \in Goroutines \ {t} : job[g].ver # NoList => list'[job[g].ver] = list[job[g].ver]
  BY <1>5 DEF Unsaved
<1>7. ASSUME NEW g \in Goroutines, Current(g)' PROVE ReadRight(g)'
  <2>1. g # t /\ job'[g] = job[g] /\ Current(g)
    BY <1>2, <1>7 DEF Current
  <2>2. job[g].ver # NoList
    BY <2>1, NoListIsNone DEF Current, TypeOK, Placed
  <2>3. ReadRight(g)
    BY <1>4, <1>5, <2>1 DEF Settled
  <2> QED
    BY <1>2, <1>6, <2>1, <2>2, <2>3 DEF ReadRight
<1>8. ASSUME ~armed, \A g \in Goroutines : job'[g].pc \notin {"list", "read"}
      PROVE  StoreRight'
  <2>1. \A g \in Goroutines : job[g].pc \notin {"list", "read"}
    BY <1>8 DEF LoadPcs
  <2>2. StoreRight
    BY <1>4, <1>5, <1>8, <2>1 DEF Settled
  <2> QED
    BY <1>2, <1>6, <2>2 DEF StoreRight, Enabled
<1>9. ASSUME ~armed, \A g \in Goroutines : job'[g].pc \notin LoadPcs
      PROVE  RouteRight'
  <2>1. \A g \in Goroutines : job[g].pc \notin LoadPcs
    BY <1>9
  <2>2. RouteRight
    BY <1>4, <1>5, <1>9, <2>1 DEF Settled
  <2> QED
    BY <1>2, <2>2 DEF RouteRight, Enabled
<1>10. ~armed' => behind' = {}
  BY <1>2 DEF Settled
<1> QED
  BY <1>2, <1>3, <1>7, <1>8, <1>9, <1>10 DEF Settled

(* The lists that stay are the ones somebody else refers to.               *)
LEMMA OthersKeep ==
  ASSUME TypeOK, NEW g \in Goroutines, Keep(list), store' \in Live,
         \A h \in Goroutines \ {g} : job'[h] = job[h]
  PROVE  /\ list'[store'] = list[store']
         /\ \A h \in Goroutines \ {g} : job[h].ver # NoList => list'[job[h].ver] = list[job[h].ver]
<1>1. store' \in Live' /\ \A h \in Goroutines \ {g} : job[h].ver # NoList => job[h].ver \in Live'
  BY DEF Live
<1> QED
  BY <1>1 DEF Keep

LEMMA ReadDirSettles ==
  ASSUME TypeOK, Settled, NEW g \in Goroutines, ReadDir(g)
  PROVE  Settled'
<1>1. PICK v \in Versions \ Live :
        /\ Becomes(g, [job[g] EXCEPT !.pc = "read", !.ver = v,
                                     !.todo = {n \in Names : file[n] # None}])
        /\ Keep([w \in Live \cup {v} |-> IF w = v THEN Nothing ELSE list[w]])
  BY DEF ReadDir
<1>2. /\ job \in [Goroutines -> Job]
      /\ file' = file /\ store' = store /\ armed' = armed /\ behind' = behind
      /\ \A n \in Names : Loaded(n)' = Loaded(n)
  BY DEF TypeOK, ReadDir, served, disk, events, Loaded
<1>3. /\ \A h \in Goroutines \ {g} : job'[h] = job[h]
      /\ job'[g].pc = "read" /\ job'[g].ver = v
      /\ job'[g].todo = {n \in Names : file[n] # None}
  BY <1>1, <1>2 DEF Becomes, Job
<1>4. \A h \in Goroutines \ {g} : job[h].ver # NoList => list'[job[h].ver] = list[job[h].ver]
  <2>1. ASSUME NEW h \in Goroutines \ {g}, job[h].ver # NoList
        PROVE  job[h].ver \in Live' /\ job[h].ver \in Live /\ job[h].ver # v
    BY <1>1, <1>3, <2>1 DEF Live
  <2> QED
    BY <1>1, <2>1 DEF Keep
<1>5. list'[v] = Nothing
  <2>1. v \in Live'
    BY <1>1, <1>3, NoListIsNone DEF Live
  <2> QED
    BY <1>1, <2>1 DEF Keep
<1>6. Unsaved' <=> Unsaved
  <2>1. \A t \in Procs : job'[t].pc \in {"marshal", "open"} <=> job[t].pc \in {"marshal", "open"}
    BY <1>3 DEF ReadDir, Goroutines
  <2> QED
    BY <2>1 DEF Unsaved
<1>7. ASSUME NEW h \in Goroutines, Current(h)', ~Unsaved PROVE ReadRight(h)'
  <2>1. CASE h = g
    BY <1>2, <1>3, <1>5, <2>1 DEF ReadRight, Nothing, Loaded
  <2>2. CASE h # g
    <3>1. Current(h) /\ job'[h] = job[h]
      BY <1>2, <1>3, <1>7, <2>2 DEF Current
    <3>2. job[h].ver # NoList
      BY <3>1, NoListIsNone DEF Current, TypeOK, Placed
    <3>3. ReadRight(h)
      BY <1>7, <3>1 DEF Settled
    <3> QED
      BY <1>2, <1>4, <2>2, <3>1, <3>2, <3>3 DEF ReadRight
  <2> QED
    BY <2>1, <2>2
<1>8. \A h \in Goroutines : job'[h].pc = "install" => job'[h].todo = {}
  BY <1>3 DEF Settled
<1>9. job'[g].pc \in {"list", "read"} /\ job'[g].pc \in LoadPcs /\ (~armed' => behind' = {})
  BY <1>2, <1>3 DEF LoadPcs, Settled
<1> QED
  BY <1>6, <1>7, <1>8, <1>9 DEF Settled

LEMMA ReadFileSettles ==
  ASSUME TypeOK, ReadersAlone, Settled, NEW g \in Goroutines, NEW n \in Names, ReadFile(g, n)
  PROVE  Settled'
<1> DEFINE v == job[g].ver
<1>1. /\ job \in [Goroutines -> Job] /\ job[g].pc = "read"
      /\ file' = file /\ store' = store /\ armed' = armed /\ behind' = behind
      /\ \A m \in Names : Loaded(m)' = Loaded(m)
  BY DEF TypeOK, ReadFile, served, disk, events, Loaded
<1>2. v \in Live
  BY <1>1, NoListIsNone DEF TypeOK, Placed, Live
<1>3. /\ \A w \in Live : w # v => list'[w] = list[w]
      /\ list'[v][n] = Loaded(n) /\ \A m \in Names : m # n => list'[v][m] = list[v][m]
  BY <1>2 DEF ReadFile, TypeOK, Lists
<1>4. /\ \A h \in Goroutines : job'[h].ver = job[h].ver /\ job'[h].pc = job[h].pc
      /\ \A h \in Goroutines \ {g} : job'[h].todo = job[h].todo
      /\ job'[g].todo = job[g].todo \ {n}
  BY <1>1 DEF ReadFile, Becomes, Job
<1>5. Unsaved' <=> Unsaved
  BY <1>4 DEF Unsaved, Goroutines
<1>6. ASSUME NEW h \in Goroutines, Current(h)', ~Unsaved PROVE ReadRight(h)'
  <2>1. Current(h)
    BY <1>1, <1>4, <1>6 DEF Current
  <2>2. ReadRight(h)
    BY <1>6, <2>1 DEF Settled
  <2>3. CASE h = g
    BY <1>1, <1>3, <1>4, <2>2, <2>3 DEF ReadRight
  <2>4. CASE h # g
    <3>1. job[h].ver # v /\ job[h].ver \in Live
      BY <1>1, <2>1, <2>4, NoListIsNone DEF ReadersAlone, Current, TypeOK, Placed, Live
    <3> QED
      BY <1>1, <1>3, <1>4, <2>2, <2>4, <3>1 DEF ReadRight
  <2> QED
    BY <2>3, <2>4
<1>7. \A h \in Goroutines : job'[h].pc = "install" => job'[h].todo = {}
  BY <1>1, <1>4 DEF Settled
<1>8. job'[g].pc \in {"list", "read"} /\ job'[g].pc \in LoadPcs /\ (~armed' => behind' = {})
  BY <1>1, <1>4 DEF LoadPcs, Settled
<1> QED
  BY <1>5, <1>6, <1>7, <1>8 DEF Settled

(* The list that is published is right, unless its load is behind.         *)
LEMMA ReplaceSettles ==
  ASSUME TypeOK, Settled, NEW g \in Goroutines, Replace(g)
  PROVE  Settled'
<1> DEFINE v == job[g].ver
<1>1. /\ job \in [Goroutines -> Job] /\ job[g].pc = "read" /\ job[g].todo = {}
      /\ store' = v /\ armed' = armed /\ behind' = behind
      /\ index' = [n \in Names |-> Enabled(list[v][n])]
      /\ Keep(list)
      /\ \A n \in Names : Loaded(n)' = Loaded(n)
  BY DEF TypeOK, Replace, Complete, disk, events, Loaded
<1>2. /\ \A h \in Goroutines \ {g} : job'[h] = job[h]
      /\ job'[g].pc = "install" /\ job'[g].ver = v /\ job'[g].todo = {}
  BY <1>1 DEF Replace, Becomes, Job
<1>3. v # NoList /\ v \in Live
  BY <1>1, NoListIsNone DEF TypeOK, Placed, Live
<1>4. /\ list'[v] = list[v]
      /\ \A h \in Goroutines \ {g} : job[h].ver # NoList => list'[job[h].ver] = list[job[h].ver]
  BY <1>1, <1>2, <1>3, OthersKeep
<1>5. Unsaved' <=> Unsaved
  <2>1. \A t \in Procs : job'[t].pc \in {"marshal", "open"} <=> job[t].pc \in {"marshal", "open"}
    BY <1>1, <1>2 DEF Goroutines
  <2> QED
    BY <2>1 DEF Unsaved
<1>6. ASSUME NEW h \in Goroutines, Current(h)', ~Unsaved PROVE ReadRight(h)'
  <2>1. CASE h = g
    <3>1. ReadRight(g)
      BY <1>1, <1>2, <1>6, <2>1 DEF Current, Settled
    <3> QED
      BY <1>1, <1>2, <1>4, <2>1, <3>1 DEF ReadRight
  <2>2. CASE h # g
    <3>1. Current(h) /\ job'[h] = job[h]
      BY <1>1, <1>2, <1>6, <2>2 DEF Current
    <3>2. job[h].ver # NoList
      BY <3>1, NoListIsNone DEF Current, TypeOK, Placed
    <3>3. ReadRight(h)
      BY <1>6, <3>1 DEF Settled
    <3> QED
      BY <1>1, <1>4, <2>2, <3>1, <3>2, <3>3 DEF ReadRight
  <2> QED
    BY <2>1, <2>2
<1>7. ASSUME ~armed, ~Unsaved PROVE StoreRight'
  <2>1. g \notin behind /\ Current(g)
    BY <1>1, <1>7 DEF Settled, Current
  <2>2. ReadRight(g)
    BY <1>7, <2>1 DEF Settled
  <2>3. \A n \in Names : list[v][n] = Loaded(n)
    BY <1>1, <2>2 DEF ReadRight
  <2> QED
    BY <1>1, <1>4, <2>3 DEF StoreRight, Enabled
<1>8. job'[g].pc \in LoadPcs /\ (~armed' => behind' = {})
  BY <1>1, <1>2 DEF LoadPcs, Settled
<1>9. \A h \in Goroutines : job'[h].pc = "install" => job'[h].todo = {}
  BY <1>2 DEF Settled
<1> QED
  BY <1>1, <1>5, <1>6, <1>7, <1>8, <1>9 DEF Settled

(* And so is what is installed.                                            *)
LEMMA InstallSettles ==
  ASSUME TypeOK, Settled, NEW g \in Goroutines, Install(g)
  PROVE  Settled'
<1> DEFINE v == job[g].ver
<1>1. /\ job \in [Goroutines -> Job] /\ job[g].pc = "install" /\ job[g].todo = {}
      /\ store' = store /\ index' = index /\ armed' = armed /\ behind' = behind \ {g}
      /\ route' = [n \in Names |-> IF Enabled(list[v][n]) THEN list[v][n] ELSE None]
      /\ Keep(list) /\ store \in Live
      /\ \A n \in Names : Loaded(n)' = Loaded(n)
  BY DEF TypeOK, Install, Settled, disk, Loaded, Live
<1>2. job'[g].pc = "idle" /\ \A h \in Goroutines \ {g} : job'[h] = job[h]
  BY <1>1 DEF Install, Becomes, Return, Idle
<1>3. /\ list'[store] = list[store]
      /\ \A h \in Goroutines \ {g} : job[h].ver # NoList => list'[job[h].ver] = list[job[h].ver]
  BY <1>1, <1>2, OthersKeep
<1>4. Unsaved' <=> Unsaved
  <2>1. \A t \in Procs : job'[t].pc \in {"marshal", "open"} <=> job[t].pc \in {"marshal", "open"}
    BY <1>1, <1>2 DEF Goroutines
  <2> QED
    BY <2>1 DEF Unsaved
<1>5. ASSUME NEW h \in Goroutines, Current(h)', ~Unsaved PROVE ReadRight(h)'
  <2>1. h # g /\ Current(h) /\ job'[h] = job[h]
    BY <1>1, <1>2, <1>5 DEF Current
  <2>2. job[h].ver # NoList
    BY <2>1, NoListIsNone DEF Current, TypeOK, Placed
  <2>3. ReadRight(h)
    BY <1>5, <2>1 DEF Settled
  <2> QED
    BY <1>1, <1>3, <2>1, <2>2, <2>3 DEF ReadRight
<1>6. ASSUME ~armed, ~Unsaved, \A h \in Goroutines : job'[h].pc \notin {"list", "read"}
      PROVE  StoreRight'
  <2>1. \A h \in Goroutines : job[h].pc \notin {"list", "read"}
    BY <1>1, <1>2, <1>6
  <2>2. StoreRight
    BY <1>6, <2>1 DEF Settled
  <2> QED
    BY <1>1, <1>3, <2>2 DEF StoreRight, Enabled
<1>7. ASSUME ~armed, ~Unsaved PROVE RouteRight'
  <2>1. Current(g)
    BY <1>1, <1>7 DEF Settled, Current
  <2>2. ReadRight(g)
    BY <1>7, <2>1 DEF Settled
  <2>3. \A n \in Names : list[v][n] = Loaded(n)
    BY <1>1, <2>2 DEF ReadRight
  <2> QED
    BY <1>1, <2>3 DEF RouteRight, Enabled
<1>8. (~armed' => behind' = {}) /\ \A h \in Goroutines : job'[h].pc = "install" => job'[h].todo = {}
  BY <1>1, <1>2 DEF Settled
<1> QED
  BY <1>1, <1>4, <1>5, <1>6, <1>7, <1>8 DEF Settled

(* Requests that begin, and the steps of a save up to the .tmp.            *)
LEMMA BeginSettles ==
  ASSUME TypeOK, Settled, NEW t \in Procs, NEW n \in Names,
         Find(t, n) \/ Create(t, n) \/ Flip(t, n) \/ Delete(t, n)
  PROVE  Settled'
<1>1. /\ t \in Goroutines /\ job \in [Goroutines -> Job] /\ job[t].pc = "idle"
      /\ UNCHANGED <<disk, list, served, events>>
  BY DEF Goroutines, TypeOK, Find, Create, Flip, Delete, Begin
<1>2. \A g \in Goroutines \ {t} : job'[g] = job[g]
  BY <1>1 DEF Find, Create, Flip, Delete, Becomes
<1>3. job'[t].pc \in {"negate", "copy", "open", "siteFor", "unlink"}
  <2>1. CASE Find(t, n)
    BY <1>1, <2>1 DEF Find, Becomes, Idle
  <2>2. CASE Create(t, n)
    <3>1. PICK s : Becomes(t, [Idle EXCEPT !.pc = "open", !.op = "create", !.name = n, !.site = s])
      BY <2>2 DEF Create
    <3> QED
      BY <1>1, <3>1 DEF Becomes, Idle
  <2>3. CASE Flip(t, n)
    BY <1>1, <2>3 DEF Flip, Becomes, Idle
  <2>4. CASE Delete(t, n)
    BY <1>1, <2>4 DEF Delete, Becomes, Idle
  <2> QED
    BY <2>1, <2>2, <2>3, <2>4
<1>4. job[t].pc \notin LoadPcs
  BY <1>1 DEF LoadPcs
<1> QED
  BY <1>1, <1>2, <1>3, <1>4, QuietSettles DEF disk

LEMMA SaveSettles ==
  ASSUME TypeOK, Settled, ~OpenFaults, NEW t \in Procs,
         \/ Negate(t) \/ Assign(t) \/ Marshal(t) \/ Copy(t) \/ SiteFor(t) \/ WriteFails(t)
  PROVE  Settled'
<1>1. /\ t \in Goroutines /\ job \in [Goroutines -> Job] /\ job[t] \in Job
      /\ UNCHANGED <<file, served, events>>
      /\ job[t].pc \in {"negate", "assign", "marshal", "copy", "siteFor", "write"}
  BY DEF Goroutines, TypeOK, Negate, Assign, Marshal, Copy, SiteFor, WriteFails, disk
<1>2. \A g \in Goroutines \ {t} : job'[g] = job[g]
  BY <1>1 DEF Negate, Assign, Marshal, Copy, SiteFor, WriteFails, Becomes, Goto, Return
<1>3. job[t].pc \notin LoadPcs
  BY <1>1 DEF LoadPcs
<1>4. CASE job'[t].pc \in {"marshal", "open"}
  BY <1>1, <1>2, <1>3, <1>4, QuietSettles
<1>5. ASSUME job'[t].pc \in {"assign", "idle"}, list' = list \/ Keep(list), job[t].pc # "marshal"
      PROVE  Settled'
  <2>1. store' \in Live
    BY <1>1 DEF served, Live
  <2>2. /\ list'[store] = list[store]
        /\ \A g \in Goroutines \ {t} : job[g].ver # NoList => list'[job[g].ver] = list[job[g].ver]
    BY <1>1, <1>2, <1>5, <2>1, OthersKeep DEF served
  <2> QED
    BY <1>1, <1>2, <1>3, <1>5, <2>2, QuietSettles
<1>6. CASE Negate(t)
  <2>1. PICK s : Becomes(t, [job[t] EXCEPT !.pc = "assign", !.site = s])
    BY <1>6 DEF Negate
  <2> QED
    BY <1>1, <1>5, <1>6, <2>1 DEF Negate, Becomes, Job
<1>7. CASE Assign(t)
  BY <1>1, <1>4, <1>7 DEF Assign, Goto, Becomes, Job
<1>8. CASE Marshal(t)
  BY <1>1, <1>4, <1>8 DEF Marshal, Becomes, Job
<1>9. CASE Copy(t)
  <2>1. CASE Return(t)
    BY <1>1, <1>5, <1>9, <2>1 DEF Copy, Return, Becomes, Idle
  <2>2. ASSUME NEW s, Becomes(t, [job[t] EXCEPT !.pc = "open", !.ver = NoList, !.site = s])
        PROVE  Settled'
    BY <1>1, <1>4, <2>2 DEF Becomes, Job
  <2> QED
    BY <1>9, <2>1, <2>2 DEF Copy
<1>10. CASE SiteFor(t)
  <2>1. PICK s : Becomes(t, [job[t] EXCEPT !.pc = "open", !.site = s])
    BY <1>10 DEF SiteFor
  <2> QED
    BY <1>1, <1>4, <2>1 DEF Becomes, Job
<1>11. CASE WriteFails(t)
  BY <1>1, <1>5, <1>11 DEF WriteFails, Return, Becomes, Idle
<1> QED
  BY <1>6, <1>7, <1>8, <1>9, <1>10, <1>11

(* Opening and writing the .tmp, and an operator's edit, are events.       *)
LEMMA WriteSettles ==
  ASSUME TypeOK, Settled, NEW t \in Procs, Open(t) \/ Write(t)
  PROVE  Settled'
<1>1. t \in Goroutines /\ job \in [Goroutines -> Job] /\ job[t] \in Job /\ Event
  BY DEF Goroutines, TypeOK, Open, Write
<1>2. /\ job'[t].pc \in {"write", "rename"}
      /\ \A g \in Goroutines \ {t} : job'[g] = job[g]
  <2> DEFINE Moved(pc, fd) == [job[t] EXCEPT !.pc = pc, !.fd = fd]
  <2>1. PICK j \in {Moved("write", "tmp"), Moved("rename", "none")} : job' = [job EXCEPT ![t] = j]
    <3>1. CASE Open(t)
      BY <3>1 DEF Open, Becomes
    <3>2. CASE Write(t)
      BY <3>2 DEF Write, Becomes
    <3> QED
      BY <3>1, <3>2
  <2>2. j.pc \in {"write", "rename"}
    BY <1>1, <2>1 DEF Job
  <2> QED
    BY <1>1, <2>1, <2>2
<1> QED
  BY <1>1, <1>2, EventSettles

LEMMA HandEditSettles ==
  ASSUME Settled, NEW n \in Names, NEW c \in Site \cup {Torn}, HandEdit(n, c)
  PROVE  Settled'
BY EventSettles DEF HandEdit

LEMMA RelinkSettles ==
  ASSUME TypeOK, Settled, NEW t \in Procs, Rename(t) \/ Unlink(t)
  PROVE  Settled'
<1>1. /\ t \in Goroutines /\ job \in [Goroutines -> Job]
      /\ job[t].pc \in {"rename", "unlink"} /\ UNCHANGED <<list, served>>
  BY DEF Goroutines, TypeOK, Rename, Unlink
<1>2. job'[t].pc \in {"idle", "list"}
  <2>1. job'[t] \in {Idle, Loading}
    BY Relinking
  <2> QED
    BY <2>1 DEF Idle, Loading
<1>3. CASE Event
  <2>1. ASSUME NEW g \in Goroutines \ {t}
        PROVE  job'[g].pc = job[g].pc /\ job'[g].todo = job[g].todo
    <3>1. job[g] \in Job
      BY DEF TypeOK
    <3>2. ASSUME NEW fd, job'[g] = [job[g] EXCEPT !.fd = fd]
          PROVE  job'[g].pc = job[g].pc /\ job'[g].todo = job[g].todo
      BY <3>1, <3>2 DEF Job
    <3> QED
      BY <3>2, Relinking
  <2> QED
    BY <1>2, <1>3, <2>1, EventSettles
<1>4. CASE UNCHANGED <<file, events>> /\ \A g \in Goroutines \ {t} : job'[g] = job[g]
  <2>1. job[t].pc \notin LoadPcs
    BY <1>1 DEF LoadPcs
  <2> QED
    BY <1>1, <1>2, <1>4, <2>1, QuietSettles
<1> QED
  BY <1>1, <1>3, <1>4 DEF Rename, Unlink, Becomes, Return, disk

(* A start, and the timer: nothing is behind, and the watcher will load.   *)
LEMMA TimerSettles ==
  ASSUME TypeOK, Settled, WatcherOnTime
  PROVE  Settled'
<1>1. /\ Watcher \in Goroutines /\ job \in [Goroutines -> Job]
      /\ behind = {} /\ behind' = {} /\ job[Watcher].pc = "idle"
      /\ UNCHANGED <<file, list, served>>
      /\ \A n \in Names : Loaded(n)' = Loaded(n)
  BY DEF Goroutines, TypeOK, WatcherOnTime, WatcherFires, disk, Loaded
<1>2. job'[Watcher].pc = "list" /\ \A g \in Goroutines \ {Watcher} : job'[g] = job[g]
  BY <1>1 DEF WatcherOnTime, WatcherFires, Becomes, Loading, Idle
<1>3. Unsaved' <=> Unsaved
  <2>1. \A t \in Procs : job'[t] = job[t]
    BY <1>2, GoroutinesAssumption DEF Goroutines
  <2> QED
    BY <2>1 DEF Unsaved
<1>4. ASSUME NEW g \in Goroutines, Current(g)', ~Unsaved PROVE ReadRight(g)'
  <2>1. g # Watcher /\ Current(g) /\ job'[g] = job[g]
    BY <1>1, <1>2, <1>4 DEF Current
  <2>2. ReadRight(g)
    BY <1>4, <2>1 DEF Settled
  <2> QED
    BY <1>1, <2>1, <2>2 DEF ReadRight
<1>5. \A g \in Goroutines : job'[g].pc = "install" => job'[g].todo = {}
  BY <1>2 DEF Settled
<1> QED
  BY <1>1, <1>2, <1>3, <1>4, <1>5 DEF Settled, LoadPcs

LEMMA FreshSettles ==
  /\ Init => Settled
  /\ Crash => Settled'
<1> DEFINE fresh == [g \in Goroutines |-> IF g = Watcher THEN Loading ELSE Idle]
<1>1. /\ \A g \in Goroutines : fresh[g].pc \in {"list", "idle"}
      /\ Watcher \in Goroutines /\ fresh[Watcher].pc = "list" /\ "list" \in LoadPcs
  BY DEF Loading, Idle, LoadPcs, Goroutines
<1> HIDE DEF fresh
<1>2. ASSUME job = fresh, behind = {} PROVE Settled
  BY <1>1, <1>2 DEF Settled, Current
<1>3. ASSUME job' = fresh, behind' = {} PROVE Settled'
  BY <1>1, <1>3 DEF Settled, Current
<1> QED
  BY <1>2, <1>3 DEF Init, Crash, fresh

LEMMA NextSettles ==
  ASSUME Inv, Settled, ~OpenFaults, [NextOnTime]_vars
  PROVE  Settled'
<1>1. TypeOK /\ ReadersAlone
  BY DEF Inv, ListInv
<1>2. ASSUME NEW t \in Procs, Edit(t) \/ Save(t) PROVE Settled'
  BY <1>1, <1>2, BeginSettles, SaveSettles, WriteSettles, RelinkSettles DEF Edit, Save
<1>3. ASSUME NEW g \in Goroutines, Load(g) PROVE Settled'
  BY <1>1, <1>3, ReadDirSettles, ReadFileSettles, ReplaceSettles, InstallSettles DEF Load
<1>4. CASE UNCHANGED vars
  BY <1>4 DEF vars, Settled, Current, ReadRight, StoreRight, RouteRight, Unsaved, Loaded, Enabled
<1> QED
  BY <1>1, <1>2, <1>3, <1>4, HandEditSettles, TimerSettles, FreshSettles DEF NextOnTime, Others

(* The safety core of Converges: unless a .tmp cannot be opened, whenever  *)
(* no event waits and nobody is at work the Store lists, Lookup finds and  *)
(* the Router serves what the files say, however requests, deploys, edits  *)
(* by hand, failed saves, reloads and restarts overlapped before.          *)
THEOREM RestInStep == FairSpec => [](AtRest /\ ~OpenFaults => InStep)
<1>1. Init /\ [][NextOnTime]_vars => Spec
  <2>1. [NextOnTime]_vars => [Next]_vars
    BY DEF NextOnTime, WatcherOnTime, Next
  <2> QED
    BY <2>1, PTL DEF Spec
<1>2. Init => Settled
  BY FreshSettles
<1>3. Inv /\ (~OpenFaults => Settled) /\ [NextOnTime]_vars => (~OpenFaults => Settled)'
  BY NextSettles
<1>4. (~OpenFaults => Settled) => (AtRest /\ ~OpenFaults => InStep)
  <2> SUFFICES ASSUME Settled, AtRest PROVE InStep
    OBVIOUS
  <2>1. ~Unsaved /\ \A g \in Goroutines : job[g].pc \notin LoadPcs \cup {"list", "read"}
    BY DEF AtRest, Unsaved, Goroutines, LoadPcs
  <2>2. StoreRight /\ RouteRight
    BY <2>1 DEF Settled, AtRest
  <2> QED
    BY <2>2 DEF InStep, StoreRight, RouteRight
<1> QED
  BY <1>1, <1>2, <1>3, <1>4, Inductive, PTL DEF FairSpec
=============================================================================
