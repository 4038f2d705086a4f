------------------------------- MODULE Sites -------------------------------
(***************************************************************************)
(* The site files and what is served from them: internal/config (LoadSites,*)
(* SaveSite, Store, Watcher), the table of internal/proxy's Router, and    *)
(* the reloadNow of cmd/orxies that ties them together.                    *)
(*                                                                         *)
(* Every goroutine that edits a site is a member of Procs: a request of    *)
(* the admin UI, or a deploy rewriting its route.  The watcher is one more *)
(* goroutine.  One action is one system call, one critical section, or one *)
(* access to a Site that other goroutines share.                           *)
(*                                                                         *)
(* Store hands out pointers: a goroutine that found a site in it holds a   *)
(* Site of the list it was found in, also after the Store has moved on.    *)
(* list[v] is the list that load v made, and lives as long as the Store or *)
(* a goroutine refers to it.                                               *)
(***************************************************************************)
EXTENDS Integers, FiniteSets

CONSTANTS
  Names,        \* site files in the order of the directory, each for a domain of its own
  Targets,      \* what a site may lead to: upstreams, or a folder
  Options,      \* settings a deploy does not own: certificates, aliases, limits, headers
  Default,      \* the options of a new site
  Procs,        \* goroutines that may edit sites at the same time
  Watcher,      \* the goroutine of Watcher.Run
  Solo,         \* files that are saved by one goroutine at a time
  Steady,       \* files that nobody disables, deletes or edits by hand
  ByHand,       \* files an operator edits in the directory
  OpenFaults,   \* whether a .tmp may fail to open at all
  None,         \* no file, no site
  Empty, Torn,  \* a file cut to length zero, and one that does not load
  NoName,
  MaxEdits,     \* bound: requests, deploys and edits by hand
  MaxCrashes    \* bound: restarts of the process

Goroutines == Procs \cup {Watcher}
Site   == [on : BOOLEAN, target : Targets, opts : Options]
Files  == Site \cup {None, Empty, Torn}
Lists  == [Names -> Site \cup {None}]

ASSUME FilesAssumption ==
  /\ {None, Empty, Torn} \cap Site = {}
  /\ None \notin {Empty, Torn}
  /\ Empty # Torn
ASSUME NamesAssumption ==
  /\ Names \subseteq Nat
  /\ NoName \notin Names
  /\ Steady \subseteq Solo
  /\ Solo \subseteq Names
  /\ ByHand \subseteq Names \ Steady
ASSUME GoroutinesAssumption == Watcher \notin Procs
ASSUME DefaultAssumption == Default \in Options
ASSUME ProcsAssumption == IsFiniteSet(Procs)
ASSUME BoundsAssumption == MaxEdits \in Nat /\ MaxCrashes \in Nat

VARIABLES
  file,     \* <name>.yml of the sites directory
  tmp,      \* <name>.yml.tmp, where SaveSite writes first
  list,     \* the lists of sites that are still referred to
  store,    \* Store.sites: the list it holds
  index,    \* Store.byDomain: the sites Lookup finds
  route,    \* Router.runtimes: the site each was built from
  up,       \* the router has had its first Reload
  armed,    \* an event of the directory waits for the watcher
  behind,   \* reloads that were under way at the last event
  job,      \* what each goroutine is doing
  edits, crashes

vars == <<file, tmp, list, store, index, route, up, armed, behind, job, edits, crashes>>
disk   == <<file, tmp>>
served == <<store, index, route, up>>
events == <<armed, behind>>
bounds == <<edits, crashes>>

SavePcs == {"negate", "assign", "marshal", "copy", "siteFor", "open", "write", "rename"}
LoadPcs == {"list", "read", "install"}
Versions == 1 .. Cardinality(Procs) + 2
NoList   == 0

Job ==
  [pc : {"idle", "unlink"} \cup SavePcs \cup LoadPcs,
   op : {"none", "toggle", "update", "create", "flip", "delete", "remove"},
   name : Names \cup {NoName},       \* the site worked on, until it is saved
   ver : Versions \cup {NoList},     \* the list it holds a pointer into, or is loading
   site : Site \cup {None},          \* the site it is about to save
   fd : {"none", "tmp", "file", "gone"},  \* where the file it has open is linked
   todo : SUBSET Names]              \* files listed and not read yet
Idle ==
  [pc |-> "idle", op |-> "none", name |-> NoName, ver |-> NoList,
   site |-> None, fd |-> "none", todo |-> {}]
Loading == [Idle EXCEPT !.pc = "list"]

(* What a goroutine's place in the code says of its record.                *)
Placed(j) ==
  /\ j.pc \in SavePcs \cup {"unlink"} <=> j.name \in Names
  /\ j.pc \in {"negate", "assign", "marshal", "copy", "read", "install"} <=> j.ver \in Versions
  /\ j.pc \in {"assign", "open", "write", "rename"} => j.site \in Site
  /\ j.pc = "write" <=> j.fd # "none"

Live == {store} \cup ({job[g].ver : g \in Goroutines} \ {NoList})
Nothing == [n \in Names |-> None]

TypeOK ==
  /\ file \in [Names -> Files]
  /\ tmp \in [Names -> Files]
  /\ store \in Versions
  /\ list \in [Live -> Lists]
  /\ index \in [Names -> BOOLEAN]
  /\ route \in Lists
  /\ up \in BOOLEAN
  /\ armed \in BOOLEAN
  /\ behind \subseteq Procs
  /\ job \in [Goroutines -> Job]
  /\ \A g \in Goroutines : Placed(job[g])
  /\ job[Watcher].pc \in {"idle"} \cup LoadPcs
  /\ edits \in 0 .. MaxEdits
  /\ crashes \in 0 .. MaxCrashes

(* Files are there from before: an enabled site for every steady name.     *)
Init ==
  /\ file \in [Names -> Site \cup {None}]
  /\ \A n \in Steady : file[n] \in Site /\ file[n].on
  /\ tmp = Nothing
  /\ list = [v \in {1} |-> Nothing]
  /\ store = 1
  /\ index = [n \in Names |-> FALSE]
  /\ route = Nothing
  /\ up = FALSE
  /\ armed = FALSE
  /\ behind = {}
  /\ job = [g \in Goroutines |-> IF g = Watcher THEN Loading ELSE Idle]
  /\ edits = 0
  /\ crashes = 0

-----------------------------------------------------------------------------
(* Goroutines, the lists they share, and the events of the directory.      *)

Becomes(g, j) == job' = [job EXCEPT ![g] = j]
Goto(g, pc)   == Becomes(g, [job[g] EXCEPT !.pc = pc])
Return(g)     == Becomes(g, Idle)

(* Of the lists in l, those that are still referred to after this step.    *)
Keep(l) == list' = [v \in Live' |-> l[v]]

(* Wrong on purpose: an event that finds the watcher at work is lost.      *)
EventUnlessBusy ==
  /\ armed' = (job[Watcher].pc = "idle")
  /\ behind' = {t \in Procs : job[t].pc \in LoadPcs}

(* Something happened in the directory: fsnotify tells the watcher, which  *)
(* waits for 200 ms without another event before it reloads.               *)
Event ==
  /\ armed' = TRUE
  /\ behind' = {t \in Procs : job[t].pc \in LoadPcs}

Editable(n) == n \in Solo => \A t \in Procs : job[t].name # n

(* Begins an edit of n by goroutine t.                                     *)
Begin(t, n) ==
  /\ job[t].pc = "idle"
  /\ edits < MaxEdits
  /\ Editable(n)
  /\ edits' = edits + 1

-----------------------------------------------------------------------------
(* What a goroutine may be asked to do with a site.                        *)

(* POST /sites/<file> and /sites/<file>/toggle look the site up in the     *)
(* Store and go on with the pointer.                                       *)
Find(t, n) ==
  /\ Begin(t, n)
  /\ list[store][n] # None
  /\ \/ /\ n \notin Steady
        /\ Becomes(t, [Idle EXCEPT !.pc = "negate", !.op = "toggle", !.name = n, !.ver = store])
     \/ Becomes(t, [Idle EXCEPT !.pc = "copy", !.op = "update", !.name = n, !.ver = store])
  /\ UNCHANGED <<disk, list, served, events, crashes>>

(* POST /sites/new saves what the form says, whether or not the file is    *)
(* there already.                                                          *)
Create(t, n) ==
  /\ Begin(t, n)
  /\ \E on \in BOOLEAN, target \in Targets :
       /\ n \in Steady => on
       /\ Becomes(t, [Idle EXCEPT !.pc = "open", !.op = "create", !.name = n,
                         !.site = [on |-> on, target |-> target, opts |-> Default]])
  /\ UNCHANGED <<disk, list, served, events, crashes>>

(* A deploy that is ready to move its route.                               *)
Flip(t, n) ==
  /\ Begin(t, n)
  /\ Becomes(t, [Idle EXCEPT !.pc = "siteFor", !.op = "flip", !.name = n])
  /\ UNCHANGED <<disk, list, served, events, crashes>>

(* POST /sites/<file>/delete, and the Remove of a project.                 *)
Delete(t, n) ==
  /\ Begin(t, n)
  /\ n \notin Steady
  /\ \E op \in {"delete", "remove"} :
        Becomes(t, [Idle EXCEPT !.pc = "unlink", !.op = op, !.name = n])
  /\ UNCHANGED <<disk, list, served, events, crashes>>

-----------------------------------------------------------------------------
(* site.Enabled = !site.Enabled on the Site the Store shares: a load and a *)
(* store that no lock holds together.                                      *)

Shared(t) == list[job[t].ver][job[t].name]

Negate(t) ==
  /\ job[t].pc = "negate"
  /\ Becomes(t, [job[t] EXCEPT !.pc = "assign",
                               !.site = [Shared(t) EXCEPT !.on = ~@]])
  /\ UNCHANGED <<disk, list, served, events, bounds>>

Assign(t) ==
  /\ job[t].pc = "assign"
  /\ list' = [list EXCEPT ![job[t].ver][job[t].name].on = job[t].site.on]
  /\ Goto(t, "marshal")
  /\ UNCHANGED <<disk, served, events, bounds>>

(* SaveSite turns the Site into YAML.                                      *)
Marshal(t) ==
  /\ job[t].pc = "marshal"
  /\ Becomes(t, [job[t] EXCEPT !.pc = "open", !.site = Shared(t), !.ver = NoList])
  /\ UNCHANGED <<disk, served, events, bounds>>
  /\ Keep(list)

(* createOrUpdateSite copies the Site and overwrites what the form has;    *)
(* a form that does not validate changes nothing.                          *)
Copy(t) ==
  /\ job[t].pc = "copy"
  /\ \/ \E on \in BOOLEAN, target \in Targets :
          /\ job[t].name \in Steady => on
          /\ Becomes(t, [job[t] EXCEPT !.pc = "open", !.ver = NoList,
               !.site = [Shared(t) EXCEPT !.on = on, !.target = target]])
     \/ Return(t)
  /\ UNCHANGED <<disk, served, events, bounds>>
  /\ Keep(list)

(* Wrong on purpose: a deploy starts from a blank site.                    *)
OptionsBlank(n) == Default

(* siteFor: a deploy keeps the options of the file, if the file loads.     *)
OptionsOf(n) == IF file[n] \in Site THEN file[n].opts ELSE Default

SiteFor(t) ==
  /\ job[t].pc = "siteFor"
  /\ \E target \in Targets :
       Becomes(t, [job[t] EXCEPT !.pc = "open",
         !.site = [on |-> TRUE, target |-> target, opts |-> OptionsOf(job[t].name)]])
  /\ UNCHANGED <<disk, list, served, events, bounds>>

-----------------------------------------------------------------------------
(* SaveSite: os.WriteFile of the .tmp, then os.Rename.  The name of the    *)
(* .tmp follows from the site's, so two goroutines may share it.           *)

(* Wrong on purpose: the site file itself is rewritten.                    *)
OpenInPlace(t) ==
  LET n == job[t].name IN
  /\ job[t].pc = "open"
  /\ file' = [file EXCEPT ![n] = Empty]
  /\ Becomes(t, [job[t] EXCEPT !.pc = "write", !.fd = "file"])
  /\ Event
  /\ UNCHANGED <<tmp, list, served, bounds>>

Open(t) ==
  LET n == job[t].name IN
  /\ job[t].pc = "open"
  /\ tmp' = [tmp EXCEPT ![n] = Empty]
  /\ Becomes(t, [job[t] EXCEPT !.pc = "write", !.fd = "tmp"])
  /\ Event
  /\ UNCHANGED <<file, list, served, bounds>>

(* What a file that holds old has after s is written over its beginning.   *)
Over(old, s) == IF old \in {Empty, s} THEN {s} ELSE {s, Torn}

Write(t) ==
  LET n == job[t].name IN
  /\ job[t].pc = "write"
  /\ \/ /\ job[t].fd = "tmp"
        /\ \E c \in Over(tmp[n], job[t].site) : tmp' = [tmp EXCEPT ![n] = c]
        /\ UNCHANGED file
     \/ /\ job[t].fd = "file"
        /\ \E c \in Over(file[n], job[t].site) : file' = [file EXCEPT ![n] = c]
        /\ UNCHANGED tmp
     \/ /\ job[t].fd = "gone"
        /\ UNCHANGED disk
  /\ Becomes(t, [job[t] EXCEPT !.pc = "rename", !.fd = "none"])
  /\ Event
  /\ UNCHANGED <<list, served, bounds>>

(* The disk is full: SaveSite gives up and leaves its .tmp.  When it could *)
(* not even be opened, the watcher hears of nothing.                       *)
WriteFails(t) ==
  /\ job[t].pc = "write" \/ (OpenFaults /\ job[t].pc = "open")
  /\ Return(t)
  /\ UNCHANGED <<disk, list, served, events, bounds>>

(* n's .tmp takes the place of its file: who has either of them open keeps *)
(* the file, under its new name or none.                                   *)
Relinked(n) ==
  [g \in Goroutines |->
     IF job[g].name # n \/ job[g].fd = "none" THEN job[g]
     ELSE [job[g] EXCEPT !.fd = IF @ = "tmp" THEN "file" ELSE "gone"]]

Rename(t) ==
  LET n == job[t].name IN
  /\ job[t].pc = "rename"
  /\ \/ /\ tmp[n] # None
        /\ file' = [file EXCEPT ![n] = tmp[n]]
        /\ tmp' = [tmp EXCEPT ![n] = None]
        /\ job' = [Relinked(n) EXCEPT ![t] = Loading]
        /\ Event
     \/ /\ tmp[n] = None                    \* another goroutine has renamed it
        /\ Return(t)
        /\ UNCHANGED <<disk, events>>
  /\ UNCHANGED <<list, served, bounds>>

(* os.Remove.  The UI gives up when there is no such file; Remove of a     *)
(* project reloads all the same.                                           *)
Unlinked(n) ==
  [g \in Goroutines |->
     IF job[g].name = n /\ job[g].fd = "file" THEN [job[g] EXCEPT !.fd = "gone"]
     ELSE job[g]]

Unlink(t) ==
  LET n == job[t].name IN
  /\ job[t].pc = "unlink"
  /\ \/ /\ file[n] # None
        /\ file' = [file EXCEPT ![n] = None]
        /\ job' = [Unlinked(n) EXCEPT ![t] = Loading]
        /\ Event
     \/ /\ file[n] = None
        /\ Becomes(t, IF job[t].op = "remove" THEN Loading ELSE Idle)
        /\ UNCHANGED <<file, events>>
  /\ UNCHANGED <<tmp, list, served, bounds>>

-----------------------------------------------------------------------------
(* A reload, by reloadNow at the end of an edit or by the watcher:         *)
(* LoadSites, Store.Replace, Router.Reload.                                *)

ReadDir(g) ==
  /\ job[g].pc = "list"
  /\ \E v \in Versions \ Live :
       /\ \A w \in Versions \ Live : v <= w
       /\ Becomes(g, [job[g] EXCEPT !.pc = "read", !.ver = v,
                                    !.todo = {n \in Names : file[n] # None}])
       /\ UNCHANGED <<disk, served, events, bounds>>
       /\ Keep([w \in Live \cup {v} |-> IF w = v THEN Nothing ELSE list[w]])

(* Wrong on purpose: a file that does not load is served all the same.     *)
LoadedUnchecked(n) == file[n]

(* loadSiteFile: a file that does not parse or validate is left out.       *)
Loaded(n) == IF file[n] \in Site THEN file[n] ELSE None

ReadFile(g, n) ==
  /\ job[g].pc = "read"
  /\ n \in job[g].todo
  /\ \A m \in job[g].todo : n <= m
  /\ list' = [list EXCEPT ![job[g].ver][n] = Loaded(n)]
  /\ Becomes(g, [job[g] EXCEPT !.todo = @ \ {n}])
  /\ UNCHANGED <<disk, served, events, bounds>>

(* Wrong on purpose: the list is published while it is being read.         *)
CompleteAtOnce(g) == TRUE

Complete(g) == job[g].todo = {}

Enabled(s) == s # None /\ s.on

Replace(g) ==
  LET l == list[job[g].ver] IN
  /\ job[g].pc = "read"
  /\ Complete(g)
  /\ store' = job[g].ver
  /\ index' = [n \in Names |-> Enabled(l[n])]
  /\ Becomes(g, [job[g] EXCEPT !.pc = "install", !.todo = {}])
  /\ UNCHANGED <<disk, route, up, events, bounds>>
  /\ Keep(list)

Install(g) ==
  LET l == list[job[g].ver] IN
  /\ job[g].pc = "install"
  /\ route' = [n \in Names |-> IF Enabled(l[n]) THEN l[n] ELSE None]
  /\ up' = TRUE
  /\ behind' = behind \ {g}
  /\ Return(g)
  /\ UNCHANGED <<disk, store, index, armed, bounds>>
  /\ Keep(list)

(* The debounce timer fires.                                               *)
WatcherFires ==
  /\ job[Watcher].pc = "idle"
  /\ armed
  /\ armed' = FALSE
  /\ Becomes(Watcher, Loading)
  /\ UNCHANGED <<disk, list, served, behind, bounds>>

-----------------------------------------------------------------------------
(* The environment.                                                        *)

(* An operator saves a file of the directory, well or badly.               *)
HandEdit(n, c) ==
  /\ n \in ByHand
  /\ Editable(n)
  /\ edits < MaxEdits
  /\ edits' = edits + 1
  /\ file' = [file EXCEPT ![n] = c]
  /\ Event
  /\ UNCHANGED <<tmp, list, served, job, crashes>>

(* The process is killed and started again.                                *)
Crash ==
  /\ crashes < MaxCrashes
  /\ crashes' = crashes + 1
  /\ list' = [v \in {1} |-> Nothing]
  /\ store' = 1
  /\ index' = [n \in Names |-> FALSE]
  /\ route' = Nothing
  /\ up' = FALSE
  /\ armed' = FALSE
  /\ behind' = {}
  /\ job' = [g \in Goroutines |-> IF g = Watcher THEN Loading ELSE Idle]
  /\ UNCHANGED <<disk, edits>>

Edit(t) ==
  \E n \in Names : Find(t, n) \/ Create(t, n) \/ Flip(t, n) \/ Delete(t, n)
Save(t) ==
  \/ Negate(t) \/ Assign(t) \/ Marshal(t) \/ Copy(t) \/ SiteFor(t)
  \/ Open(t) \/ Write(t) \/ WriteFails(t) \/ Rename(t) \/ Unlink(t)
Load(g) ==
  ReadDir(g) \/ (\E n \in Names : ReadFile(g, n)) \/ Replace(g) \/ Install(g)

Others ==
  \/ \E t \in Procs : Edit(t) \/ Save(t)
  \/ \E g \in Goroutines : Load(g)
  \/ \E n \in Names, c \in Site \cup {Torn} : HandEdit(n, c)
  \/ Crash

Next == Others \/ WatcherFires

Spec == Init /\ [][Next]_vars

(* With the clock: a reload takes less than the 200 ms of the debounce, so *)
(* one that was under way at the last event is over when the timer fires.  *)
WatcherOnTime == WatcherFires /\ behind = {}
NextOnTime == Others \/ WatcherOnTime

(* Goroutines are scheduled, and timers fire.                              *)
Fairness ==
  /\ \A t \in Procs : WF_vars(Save(t))
  /\ \A g \in Goroutines : WF_vars(Load(g))
  /\ WF_vars(WatcherOnTime)

FairSpec == Init /\ [][NextOnTime]_vars /\ Fairness

-----------------------------------------------------------------------------
(* Properties.                                                             *)

(* A file that one goroutine at a time saves never holds less than a whole *)
(* site: neither an overlapping reload nor a restart meets half a write,   *)
(* and a full disk leaves the old site in place.                           *)
FilesWhole == \A n \in Solo \ ByHand : file[n] \in Site \cup {None}

(* Once the first reload is done, a site whose file is there and enabled   *)
(* all along is found by Lookup and has a runtime, whatever reloads run    *)
(* over each other: ServeHTTP answers neither 404 nor 503 for it.          *)
StaysServed == up => \A n \in Steady : index[n] /\ route[n] # None

(* A deploy that rewrites a site file does not touch what siteFor promises *)
(* to keep: TLS, aliases, rate limits and headers set by an operator.      *)
KeepsOptions ==
  \A n \in Solo :
    (\E t \in Procs : job[t].op = "flip" /\ job[t].name = n /\ Rename(t))
    /\ file[n] \in Site /\ file'[n] \in Site => file'[n].opts = file[n].opts

OptionsKept == [][KeepsOptions]_vars

InStep ==
  \A n \in Names :
    /\ list[store][n] = Loaded(n)
    /\ index[n] = Enabled(Loaded(n))
    /\ route[n] = IF index[n] THEN Loaded(n) ELSE None

(* When edits stop, the Store ends up listing and the Router serving what  *)
(* the files say, however edits in the UI, deploys, edits by hand, failed  *)
(* saves and reloads overlapped.                                           *)
Converges == <>[]InStep
=============================================================================
