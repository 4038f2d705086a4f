------------------------------ MODULE Traffic ------------------------------
(***************************************************************************)
(* A visitor's request from the listener to the counters: the listeners    *)
(* and their shutdown, the routing of a request against tables that a      *)
(* reload replaces one after the other, and the statistics that a reload   *)
(* prunes.  (internal/server, router.go, internal/metrics, OnReload of     *)
(* cmd/orxies/main.go.)                                                    *)
(*                                                                         *)
(* Each step of a request is one critical section or one atomic operation. *)
(* The limiter's verdict is left open (module Limiter decides it), and so  *)
(* is what the upstream or the static files answer.  A counter of requests *)
(* stands for the counters of bytes, errors and statuses beside it, which  *)
(* the code moves in the same critical sections.                           *)
(***************************************************************************)
EXTENDS Integers, FiniteSets, Sequences, FiniteSetsExt

CONSTANTS
  Domains,      \* domains of site files
  Steady,       \* those enabled in every list that is loaded
  Reqs,         \* requests that may be under way together
  Order,        \* the listeners as Run shuts them down, the dashboard's last
  None,         \* no domain, no listener
  Buckets,      \* bucketCount: seconds of the window
  Lag,          \* longest wait for the lock of a site's statistics
  MaxTime,      \* bound: the clock, in seconds
  MaxReqs,      \* bound: requests accepted
  MaxReloads,   \* bound: reloads
  MaxStats      \* bound: statistics created

ASSUME TrafficAssumption ==
  /\ Steady \subseteq Domains /\ None \notin Domains /\ IsFiniteSet(Reqs)
  /\ Order \in Seq(STRING) /\ Order # <<>> /\ None \notin STRING
  /\ Buckets \in Nat \ {0}
  /\ Lag \in Nat /\ Lag < Buckets
  /\ MaxTime \in Nat /\ MaxReqs \in Nat /\ MaxReloads \in Nat /\ MaxStats \in Nat

VARIABLES
  index,      \* Store.byDomain
  routes,     \* Router.runtimes
  reload,     \* the reload under way, and how many there were
  stats,      \* Registry.sites
  stat,       \* the statistics, also those no longer in the registry
  seen,       \* history: requests recorded in a second
  counted,    \* history: requests of a domain that have reached the counters
  req,        \* the requests under way
  accepted,   \* requests accepted so far
  clock,
  server      \* Run

tables   == <<index, routes, reload>>
registry == <<stats, stat, seen, counted>>
vars == <<tables, registry, req, accepted, clock, server>>

Ids    == 1 .. MaxStats
Times  == 0 .. MaxTime
Slots  == 0 .. Buckets - 1
Empty  == [ts |-> 0 - Buckets, reqs |-> 0]
Bucket == [ts : Times \cup {0 - Buckets}, reqs : 0 .. MaxReqs]
Site   == [total : 0 .. MaxReqs, ring : [Slots -> Bucket]]
NewSite == [total |-> 0, ring |-> [i \in Slots |-> Empty]]

Listeners == {Order[i] : i \in DOMAIN Order}
Edge == Listeners \ {Order[Len(Order)]}

Request == [pc : {"idle", "admin", "lookup", "route", "answer", "create", "total", "record"},
            lis : Listeners \cup {None}, dom : Domains \cup {None},
            id : Ids \cup {0},         \* the statistics recordMetric has got hold of
            now : Times]               \* the second Record has read
Idle == [pc |-> "idle", lis |-> None, dom |-> None, id |-> 0, now |-> 0]
Active == {r \in Reqs : req[r].pc # "idle"}

TypeOK ==
  /\ index \subseteq Domains /\ routes \subseteq Domains
  /\ reload \in [pc : {"idle", "install", "prune"}, sites : SUBSET Domains, n : 0 .. MaxReloads]
  /\ stats \in [Domains -> Ids \cup {0}] /\ stat \in Seq(Site) /\ Len(stat) <= MaxStats
  /\ \A s \in 1 .. Len(stat) : \A i \in Slots :
       stat[s].ring[i] # Empty => stat[s].ring[i].ts % Buckets = i
  /\ seen \in [Ids -> [Times -> 0 .. MaxReqs]] /\ counted \in [Domains -> 0 .. MaxReqs]
  /\ req \in [Reqs -> Request] /\ accepted \in 0 .. MaxReqs
  /\ clock \in Times
  /\ server \in [phase : {"up", "told", "draining", "exited"}, open : SUBSET Listeners,
                 turn : 1 .. Len(Order) + 1, expired : BOOLEAN, cut : SUBSET Reqs]

(* The first load has been done: cmdServe waits 50 ms for it.              *)
Init ==
  /\ index \in SUBSET Domains /\ Steady \subseteq index /\ routes = index
  /\ reload = [pc |-> "idle", sites |-> {}, n |-> 0]
  /\ stats = [d \in Domains |-> 0] /\ stat = <<>>
  /\ seen = [i \in Ids |-> [t \in Times |-> 0]] /\ counted = [d \in Domains |-> 0]
  /\ req = [r \in Reqs |-> Idle] /\ accepted = 0 /\ clock = 0
  /\ server = [phase |-> "up", open |-> Listeners, turn |-> 1, expired |-> FALSE, cut |-> {}]

----------------------------------------------------------------------------
(* A reload: the list in the Store, then the runtimes, then the statistics *)
(* of the domains that are gone.                                           *)
Replace(S) ==
  /\ reload.pc = "idle" /\ reload.n < MaxReloads /\ server.phase # "exited"
  /\ index' = S /\ reload' = [pc |-> "install", sites |-> S, n |-> reload.n + 1]
  /\ UNCHANGED <<routes, registry, req, accepted, clock, server>>

Install ==
  /\ reload.pc = "install" /\ server.phase # "exited"
  /\ routes' = reload.sites /\ reload' = [reload EXCEPT !.pc = "prune"]
  /\ UNCHANGED <<index, registry, req, accepted, clock, server>>

Pruned(keep) == [d \in Domains |-> IF d \in keep THEN stats[d] ELSE 0]

Prune ==
  /\ reload.pc = "prune" /\ server.phase # "exited"
  /\ stats' = Pruned(reload.sites)
  /\ reload' = [reload EXCEPT !.pc = "idle", !.sites = {}]
  /\ UNCHANGED <<index, routes, stat, seen, counted, req, accepted, clock, server>>

----------------------------------------------------------------------------
Goto(r, pc) == req' = [req EXCEPT ![r].pc = pc]
Answered(r) == req' = [req EXCEPT ![r] = Idle]

Stopping == server.phase \in {"draining", "exited"}

(* A request reaches the dashboard, or ServeHTTP, which routes nothing     *)
(* more once the router is stopping.                                       *)
Arrive(r, l, d) ==
  /\ req[r].pc = "idle" /\ l \in server.open /\ accepted < MaxReqs
  /\ accepted' = accepted + 1
  /\ \/ l \notin Edge /\ req' = [req EXCEPT ![r] = [Idle EXCEPT !.pc = "admin", !.lis = l]]
     \/ l \in Edge /\ Stopping /\ UNCHANGED req
     \/ /\ l \in Edge /\ ~Stopping
        /\ req' = [req EXCEPT ![r] = [Idle EXCEPT !.pc = "lookup", !.lis = l, !.dom = d]]
  /\ UNCHANGED <<tables, registry, clock, server>>

(* The dashboard answers whether the router is stopping or not.            *)
AnswerAdmin(r) ==
  /\ req[r].pc = "admin" /\ Answered(r)
  /\ UNCHANGED <<tables, registry, accepted, clock, server>>

Lookup(d) == d \in index

(* ServeHTTP: no site, or one that turns the request away with a redirect or  *)
(* as an exploit; else on to its runtime.                                  *)
Look(r) ==
  /\ req[r].pc = "lookup"
  /\ \/ Answered(r)
     \/ Lookup(req[r].dom) /\ Goto(r, "route")
  /\ UNCHANGED <<tables, registry, accepted, clock, server>>

Unrouted(r) ==
  /\ req[r].pc = "route" /\ req[r].dom \notin routes /\ Answered(r)
  /\ UNCHANGED <<tables, registry, accepted, clock, server>>

(* The limiter turns it away, or an upstream or a static site takes it on. *)
Route(r) ==
  /\ req[r].pc = "route" /\ req[r].dom \in routes /\ Goto(r, "answer")
  /\ UNCHANGED <<tables, registry, accepted, clock, server>>

(* The upstream, the disk or the limiter has answered, and recordMetric    *)
(* begins: SiteFor under the read lock, then, creating it, under the other.*)
SiteFor(r) ==
  LET d == req[r].dom IN
  /\ req[r].pc = "answer"
  /\ req' = [req EXCEPT ![r].id = stats[d], ![r].pc = IF stats[d] = 0 THEN "create" ELSE "total"]
  /\ UNCHANGED <<tables, registry, accepted, clock, server>>

(* Changed form: no second look under the write lock.                      *)
MissingUnasked(d) == TRUE

Missing(d) == stats[d] = 0

Create(r) ==
  LET d == req[r].dom
      id == IF Missing(d) THEN Len(stat) + 1 ELSE stats[d]
  IN
  /\ req[r].pc = "create" /\ id <= MaxStats
  /\ stats' = [stats EXCEPT ![d] = id]
  /\ stat' = IF id > Len(stat) THEN Append(stat, NewSite) ELSE stat
  /\ req' = [req EXCEPT ![r].id = id, ![r].pc = "total"]
  /\ UNCHANGED <<tables, seen, counted, accepted, clock, server>>

(* Record: the totals, and the clock, before the lock.                     *)
Total(r) ==
  /\ req[r].pc = "total"
  /\ stat' = [stat EXCEPT ![req[r].id].total = @ + 1]
  /\ counted' = [counted EXCEPT ![req[r].dom] = @ + 1]
  /\ req' = [req EXCEPT ![r].now = clock, ![r].pc = "record"]
  /\ UNCHANGED <<tables, stats, seen, accepted, clock, server>>

(* Changed form: the bucket of the second before is used.                  *)
SlotBefore(now) == (now + Buckets - 1) % Buckets

Slot(now) == now % Buckets

(* Changed form: a bucket of another second is counted on.                 *)
HitKept(b, now) == [ts |-> now, reqs |-> b.reqs + 1]

Hit(b, now) == [ts |-> now, reqs |-> (IF b.ts = now THEN b.reqs ELSE 0) + 1]

Record(r) ==
  LET now == req[r].now IN
  /\ req[r].pc = "record"
  /\ stat' = [stat EXCEPT ![req[r].id].ring[Slot(now)] = Hit(@, now)]
  /\ seen' = [seen EXCEPT ![req[r].id][now] = @ + 1]
  /\ Answered(r)
  /\ UNCHANGED <<tables, stats, counted, accepted, clock, server>>

(* A request waits for a lock no longer than Lag.                          *)
Tick ==
  /\ clock < MaxTime /\ server.phase # "exited" /\ clock' = clock + 1
  /\ \A r \in Reqs : req[r].pc = "record" => clock' <= req[r].now + Lag
  /\ UNCHANGED <<tables, registry, req, accepted, server>>

(* ReqsLast1m of a snapshot taken now.                                     *)
ReqsLast1m(s) ==
  MapThenSumSet(LAMBDA i : stat[s].ring[i].reqs, {i \in Slots : clock - stat[s].ring[i].ts < Buckets})

----------------------------------------------------------------------------
(* Run: a signal or a listener that fails, the router told to stop, the    *)
(* three servers shut down in turn under one deadline, and the end.        *)
Untouched == UNCHANGED <<tables, registry, accepted, clock>>

Signal ==
  /\ server.phase = "up" /\ server' = [server EXCEPT !.phase = "told"]
  /\ Untouched /\ UNCHANGED req

ListenerFails(l) ==
  /\ server.phase = "up"
  /\ server' = [server EXCEPT !.phase = "told", !.open = @ \ {l}]
  /\ Untouched /\ UNCHANGED req

Stop ==
  /\ server.phase = "told" /\ server' = [server EXCEPT !.phase = "draining"]
  /\ Untouched /\ UNCHANGED req

Closing == server.phase = "draining" /\ server.turn <= Len(Order)

CloseListener ==
  /\ Closing /\ Order[server.turn] \in server.open
  /\ server' = [server EXCEPT !.open = @ \ {Order[server.turn]}]
  /\ Untouched /\ UNCHANGED req

Expire ==
  /\ server.phase = "draining" /\ ~server.expired
  /\ server' = [server EXCEPT !.expired = TRUE]
  /\ Untouched /\ UNCHANGED req

Quiet(l) == \A r \in Active : req[r].lis # l

(* Changed forms: the listeners are closed only; there is no deadline.     *)
DrainedAtOnce(l) == TRUE
DrainedForGood(l) == Quiet(l)

Drained(l) == Quiet(l) \/ server.expired

Shutdown ==
  /\ Closing /\ Order[server.turn] \notin server.open /\ Drained(Order[server.turn])
  /\ server' = [server EXCEPT !.turn = @ + 1]
  /\ Untouched /\ UNCHANGED req

Exit ==
  /\ server.phase = "draining" /\ server.turn > Len(Order)
  /\ server' = [server EXCEPT !.phase = "exited", !.cut = Active]
  /\ req' = [r \in Reqs |-> Idle]
  /\ Untouched

Next ==
  \/ \E S \in SUBSET Domains : Steady \subseteq S /\ Replace(S)
  \/ Install
  \/ Prune
  \/ \E r \in Reqs, l \in Listeners, d \in Domains : Arrive(r, l, d)
  \/ \E r \in Reqs : AnswerAdmin(r)
  \/ \E r \in Reqs : Look(r)
  \/ \E r \in Reqs : Unrouted(r)
  \/ \E r \in Reqs : Route(r)
  \/ \E r \in Reqs : SiteFor(r)
  \/ \E r \in Reqs : Create(r)
  \/ \E r \in Reqs : Total(r)
  \/ \E r \in Reqs : Record(r)
  \/ Tick
  \/ Signal
  \/ \E l \in Listeners : ListenerFails(l)
  \/ Stop
  \/ CloseListener
  \/ Expire
  \/ Shutdown
  \/ Exit

(* The shutdown goes on and its deadline passes; nothing obliges an        *)
(* upstream to answer.                                                     *)
Fairness == WF_vars(Stop) /\ WF_vars(CloseListener) /\ WF_vars(Expire) /\ WF_vars(Shutdown) /\ WF_vars(Exit)

Spec == Init /\ [][Next]_vars /\ Fairness

----------------------------------------------------------------------------
(* Every request of a site that stays enabled that reached the counters is *)
(* in the statistics the dashboard shows, although two first requests may  *)
(* create them at the same time and reloads prune (SiteFor, Prune).        *)
Counted == \A d \in Steady : counted[d] = IF stats[d] = 0 THEN 0 ELSE stat[stats[d]].total

(* A snapshot shows exactly what was recorded in the last Buckets seconds, *)
(* though requests reach the ring in another order than they read the      *)
(* clock (Record, Snapshot).                                               *)
WindowExact ==
  \A s \in 1 .. Len(stat) :
    ReqsLast1m(s) = MapThenSumSet(LAMBDA t : seen[s][t], {t \in Times : clock - t < Buckets})

(* Unless the deadline passed, no request is cut off by the end of the     *)
(* process, on whichever listener it came (Run drains gracefully).         *)
CutOnlyLate == server.cut # {} => server.expired

(* A server told to stop ends, even if a request never does.               *)
Ends == server.phase = "told" ~> server.phase = "exited"
=============================================================================
