------------------------------ MODULE Limiter ------------------------------
(***************************************************************************)
(* The rate limiter of one site: internal/proxy/ratelimit.go, as the       *)
(* router uses it (router.go, ServeHTTP).                                  *)
(*                                                                         *)
(* A request passes three gates: the site-wide token bucket, the token     *)
(* bucket of its source address, and the cap on requests in flight.  The   *)
(* clock is read before the lock of a bucket is taken, so a request may    *)
(* come to a bucket with a time that is already past, by at most Lag.      *)
(* Every reload of the router (site file changed, any deploy) starts a     *)
(* fresh limiter; requests that hold the old one finish on it.             *)
(*                                                                         *)
(* Tokens are measured in the time it takes to earn them: a bucket gains   *)
(* one unit per tick, and a request costs Cost = 1/rps ticks.              *)
(***************************************************************************)
EXTENDS Integers, Sequences, FiniteSets

CONSTANTS
  Keys,           \* source addresses
  NoKey,          \* the address of a request that has not come yet
  Reqs,           \* requests that may be in the limiter at the same time
  Cost, Burst,    \* per address: price of a request, capacity (rps + burst)
  SiteCost, SiteBurst,  \* the same for the whole site
  MaxBuckets,     \* maxBuckets (50 000 in the code)
  SweepInterval,  \* sweepInterval (30 s in the code)
  MaxInFlight,    \* cap on simultaneous requests
  Lag,            \* longest wait between reading the clock and the lock
  MaxTime,        \* bound: the last tick
  MaxReloads      \* bound: reloads of the router

ASSUME RatesAssumption ==
  /\ Cost \in Nat \ {0} /\ Burst \in Nat /\ Cost <= Burst
  /\ SiteCost \in Nat \ {0} /\ SiteBurst \in Nat /\ SiteCost <= SiteBurst
ASSUME LimitsAssumption ==
  /\ MaxBuckets \in Nat /\ SweepInterval \in Nat \ {0} /\ MaxInFlight \in Nat \ {0}
  /\ Lag \in Nat /\ MaxTime \in Nat /\ MaxReloads \in Nat
ASSUME KeysAssumption == NoKey \notin Keys

VARIABLES
  clock,      \* the time
  gen,        \* the limiter the router hands out now
  bs,         \* the bucket of each pair <<limiter, address>>
  lastSweep, sweeps,     \* of each limiter: time and number of its sweeps
  siteTokens, siteLast,  \* of each limiter: the site-wide bucket
  inFlight,   \* of each limiter: its counter
  req,        \* where each request is
  admitted,   \* history: what each address's bucket let through
  passed      \* history: what each site-wide bucket let through

ipVars   == <<bs, lastSweep, sweeps, admitted>>
siteVars == <<siteTokens, siteLast, passed>>
vars     == <<clock, gen, ipVars, siteVars, inFlight, req>>

Gens    == 1 .. MaxReloads + 1
Buckets == Gens \X Keys
Bucket  == [held : BOOLEAN, tokens : Int, last : Nat]
NoBucket == [held |-> FALSE, tokens |-> 0, last |-> 0]
Stamp   == [at : Nat, sweep : Nat]
Req ==
  [pc : {"idle", "site", "siteLock", "ip", "ipLock", "slot", "serving"},
   gen : Gens, key : Keys \cup {NoKey}, now : Nat]
Idle == [pc |-> "idle", gen |-> 1, key |-> NoKey, now |-> 0]

TypeOK ==
  /\ clock \in Nat
  /\ gen \in Gens
  /\ bs \in [Buckets -> Bucket]
  /\ lastSweep \in [Gens -> Nat]
  /\ sweeps \in [Gens -> Nat]
  /\ siteTokens \in [Gens -> Int]
  /\ siteLast \in [Gens -> Nat]
  /\ inFlight \in [Gens -> Int]
  /\ req \in [Reqs -> Req]
  /\ admitted \in [Buckets -> Seq(Stamp)]
  /\ passed \in [Gens -> Seq(Nat)]

Init ==
  /\ clock = 0
  /\ gen = 1
  /\ bs = [b \in Buckets |-> NoBucket]
  /\ lastSweep = [g \in Gens |-> 0]
  /\ sweeps = [g \in Gens |-> 0]
  /\ siteTokens = [g \in Gens |-> SiteBurst]
  /\ siteLast = [g \in Gens |-> 0]
  /\ inFlight = [g \in Gens |-> 0]
  /\ req = [r \in Reqs |-> Idle]
  /\ admitted = [b \in Buckets |-> << >>]
  /\ passed = [g \in Gens |-> << >>]

-----------------------------------------------------------------------------
Least(a, b) == IF a <= b THEN a ELSE b

(* A request goes on to a gate that reads the clock anew, or is over.      *)
Goto(r, pc) == req' = [req EXCEPT ![r] = [@ EXCEPT !.pc = pc, !.now = 0]]
Leave(r)    == req' = [req EXCEPT ![r] = Idle]

(* The request looks its site's limiter up; the address is its client's.   *)
Arrive(r, k) ==
  /\ req[r].pc = "idle"
  /\ req' = [req EXCEPT ![r] = [pc |-> "site", gen |-> gen, key |-> k, now |-> 0]]
  /\ UNCHANGED <<clock, gen, ipVars, siteVars, inFlight>>

Stamped(r, pc, now) == req' = [req EXCEPT ![r] = [@ EXCEPT !.pc = pc, !.now = now]]

(* Wrong on purpose: a clock that may step back.                           *)
ReadClockStepped(r) ==
  /\ req[r].pc = "site"
  /\ Stamped(r, "siteLock", clock - 1)
  /\ UNCHANGED <<clock, gen, ipVars, siteVars, inFlight>>

(* time.Now(), before the lock.                                            *)
ReadClock(r) ==
  /\ \/ /\ req[r].pc = "site"
        /\ Stamped(r, "siteLock", clock)
     \/ /\ req[r].pc = "ip"
        /\ Stamped(r, "ipLock", clock)
  /\ UNCHANGED <<clock, gen, ipVars, siteVars, inFlight>>

(* Wrong on purpose: the site-wide bucket has no capacity.                 *)
SiteFillUncapped(g, now) == siteTokens[g] + (now - siteLast[g])

(* What the site-wide bucket of g holds at time now.                       *)
SiteFill(g, now) == Least(siteTokens[g] + (now - siteLast[g]), SiteBurst)

(* allowGlobal, under globalMu.                                            *)
AllowGlobal(r) ==
  LET g == req[r].gen  now == req[r].now IN
  /\ req[r].pc = "siteLock"
  /\ siteLast' = [siteLast EXCEPT ![g] = now]
  /\ \/ /\ SiteFill(g, now) >= SiteCost
        /\ siteTokens' = [siteTokens EXCEPT ![g] = SiteFill(g, now) - SiteCost]
        /\ passed' = [passed EXCEPT ![g] = Append(@, now)]
        /\ Goto(r, "ip")
     \/ /\ SiteFill(g, now) < SiteCost
        /\ siteTokens' = [siteTokens EXCEPT ![g] = SiteFill(g, now)]
        /\ Leave(r)                                               \* 429
        /\ UNCHANGED passed
  /\ UNCHANGED <<clock, gen, ipVars, inFlight>>

(* What a bucket would hold at time now, were it of no capacity.           *)
Fill(bucket, now) == bucket.tokens + (now - bucket.last)

SweepDue(g, now) == now - lastSweep[g] >= SweepInterval

(* sweepLocked drops the buckets of g that have refilled to capacity.      *)
Evicted(g, now) ==
  {b \in Buckets : b[1] = g /\ bs[b].held /\ Fill(bs[b], now) >= Burst}

(* The table once the sweep, if one is due, has been made.                 *)
Swept(g, now) ==
  [b \in Buckets |-> IF SweepDue(g, now) /\ b \in Evicted(g, now) THEN NoBucket ELSE bs[b]]

NoteSweep(g, now) ==
  IF SweepDue(g, now)
    THEN /\ lastSweep' = [lastSweep EXCEPT ![g] = now]
         /\ sweeps' = [sweeps EXCEPT ![g] = @ + 1]
    ELSE UNCHANGED <<lastSweep, sweeps>>

(* Wrong on purpose: the bucket does not note when it was charged.         *)
ChargedUnstamped(tokens, now) == [held |-> TRUE, tokens |-> tokens, last |-> 0]

Tracked(table, g) == {b \in Buckets : b[1] = g /\ table[b].held}
Charged(tokens, now) == [held |-> TRUE, tokens |-> tokens, last |-> now]

Admit(r, b, now) ==
  /\ admitted' = [admitted EXCEPT ![b] = Append(@, [at |-> now, sweep |-> sweeps'[b[1]]])]
  /\ Goto(r, "slot")
Deny(r) == Leave(r) /\ UNCHANGED admitted                           \* 429

(* allowPerIP, under mu: the sweep comes first.                            *)
AllowPerIP(r) ==
  LET g == req[r].gen  now == req[r].now  b == <<g, req[r].key>>
      table == Swept(g, now)
      fill == Least(Fill(table[b], now), Burst) IN
  /\ req[r].pc = "ipLock"
  /\ NoteSweep(g, now)
  /\ \/ /\ ~table[b].held                             \* the table is full
        /\ Cardinality(Tracked(table, g)) >= MaxBuckets
        /\ bs' = table
        /\ Deny(r)
     \/ /\ ~table[b].held                             \* a new address
        /\ Cardinality(Tracked(table, g)) < MaxBuckets
        /\ bs' = [table EXCEPT ![b] = Charged(Burst - Cost, now)]
        /\ Admit(r, b, now)
     \/ /\ table[b].held
        /\ fill >= Cost
        /\ bs' = [table EXCEPT ![b] = Charged(fill - Cost, now)]
        /\ Admit(r, b, now)
     \/ /\ table[b].held
        /\ fill < Cost
        /\ bs' = [table EXCEPT ![b] = Charged(fill, now)]
        /\ Deny(r)
  /\ UNCHANGED <<clock, gen, siteVars, inFlight>>

Acquire(r) ==
  LET g == req[r].gen IN
  /\ req[r].pc = "slot"
  /\ \/ /\ inFlight[g] < MaxInFlight
        /\ inFlight' = [inFlight EXCEPT ![g] = @ + 1]
        /\ Goto(r, "serving")
     \/ /\ inFlight[g] >= MaxInFlight
        /\ Leave(r)                                               \* 503
        /\ UNCHANGED inFlight
  /\ UNCHANGED <<clock, gen, ipVars, siteVars>>

(* Wrong on purpose: the slot is given back only if the upstream answers.  *)
ReleaseNot(r) ==
  /\ req[r].pc = "serving"
  /\ Leave(r)
  /\ UNCHANGED <<clock, gen, ipVars, siteVars, inFlight>>

(* The deferred release, once the upstream has answered or failed.         *)
Release(r) ==
  /\ req[r].pc = "serving"
  /\ inFlight' = [inFlight EXCEPT ![req[r].gen] = @ - 1]
  /\ Leave(r)
  /\ UNCHANGED <<clock, gen, ipVars, siteVars>>

(* Router.Reload: a limiter that knows nothing of the old one.             *)
Reload ==
  /\ gen <= MaxReloads
  /\ gen' = gen + 1
  /\ lastSweep' = [lastSweep EXCEPT ![gen + 1] = clock]
  /\ siteLast' = [siteLast EXCEPT ![gen + 1] = clock]
  /\ UNCHANGED <<clock, bs, sweeps, admitted,
                 siteTokens, passed, inFlight, req>>

Waiting(r) == req[r].pc \in {"siteLock", "ipLock"}

Tick ==
  /\ clock < MaxTime
  /\ \A r \in Reqs : Waiting(r) => clock < req[r].now + Lag
  /\ clock' = clock + 1
  /\ UNCHANGED <<gen, ipVars, siteVars, inFlight, req>>

Next ==
  \/ \E r \in Reqs :
       \/ \E k \in Keys : Arrive(r, k)
       \/ ReadClock(r) \/ AllowGlobal(r) \/ AllowPerIP(r) \/ Acquire(r) \/ Release(r)
  \/ Reload
  \/ Tick

Spec == Init /\ [][Next]_vars

-----------------------------------------------------------------------------
(* The per-address limit: from any admission to any later one an address   *)
(* gets no more than its burst and what the time in between has earned it, *)
(* plus at most Lag for every sweep in between: a request that read the    *)
(* clock before a sweep and reached the table after it finds a full        *)
(* bucket.  With Lag = 0 this is sweepLocked's claim that evicting idle    *)
(* buckets "loses no enforcement whatsoever".                              *)
RateHolds ==
  \A b \in Buckets : LET h == admitted[b] IN
    \A i, j \in 1 .. Len(h) : i <= j =>
      Cost * (j - i + 1)
        <= Burst + (h[j].at - h[i].at) + Lag * (h[j].sweep - h[i].sweep)

(* The site-wide limit is exact: clocks read out of order cost nothing.    *)
SiteRateHolds ==
  \A g \in Gens : LET h == passed[g] IN
    \A i, j \in 1 .. Len(h) : i <= j =>
      SiteCost * (j - i + 1) <= SiteBurst + (h[j] - h[i])

(* The table of addresses never outgrows its cap, and an address that has  *)
(* gone idle does not hold its place in it: at the latest sweep every      *)
(* bucket that is still there had been used within Burst + Lag.            *)
IdleEvicted ==
  \A g \in Gens :
    /\ Cardinality(Tracked(bs, g)) <= MaxBuckets
    /\ \A b \in Tracked(bs, g) : lastSweep[g] - bs[b].last < Burst + Lag

(* Every slot taken is given back exactly once: the counter of a limiter   *)
(* is the number of its requests that are being served.                    *)
SlotsExact ==
  \A g \in Gens :
    /\ inFlight[g] = Cardinality({r \in Reqs : req[r].pc = "serving" /\ req[r].gen = g})
    /\ inFlight[g] <= MaxInFlight

(* What a limiter hands out comes back to it: places in the table of       *)
(* addresses when they are idle, slots when the request is over.           *)
GivenBack == IdleEvicted /\ SlotsExact
=============================================================================
