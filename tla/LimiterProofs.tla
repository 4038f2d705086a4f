--------------------------- MODULE LimiterProofs ---------------------------
(***************************************************************************)
(* Theorems about Limiter, for any addresses, requests, rates and bounds.  *)
(*                                                                         *)
(* Both rates rest on a potential: the price of what a bucket has let      *)
(* through since any admission, plus what it still holds, never exceeds    *)
(* its capacity and what it has earned since.  The wait between reading    *)
(* the clock and the lock costs at most Lag for each sweep in between.     *)
(***************************************************************************)
EXTENDS Limiter, FiniteSetTheorems, TLAPS

Since(h, i) == Len(h) - i + 1

LEMMA OneMore ==
  ASSUME NEW c \in Int, NEW n \in Int PROVE c * (n + 1) = c * n + c
OBVIOUS

-----------------------------------------------------------------------------
(* The site-wide bucket.                                                   *)
SitePotential(tok, lst, h) ==
  /\ tok <= SiteBurst
  /\ \A i \in 1 .. Len(h) : SiteCost * Since(h, i) + tok - lst <= SiteBurst - h[i]

SiteRate(h) ==
  \A i, j \in 1 .. Len(h) : i <= j => SiteCost * (j - i + 1) <= SiteBurst + (h[j] - h[i])

LEMMA SiteAdmit ==
  ASSUME NEW tok \in Int, NEW lst \in Nat, NEW h \in Seq(Nat), NEW now \in Nat, NEW fill \in Int,
         SitePotential(tok, lst, h), SiteRate(h),
         fill <= tok + (now - lst), fill <= SiteBurst, fill >= SiteCost
  PROVE  /\ SitePotential(fill - SiteCost, now, Append(h, now))
         /\ SiteRate(Append(h, now))
<1> DEFINE hh == Append(h, now)
           paid(i) == SiteCost * Since(h, i)
           due(i)  == SiteCost * Since(hh, i)
<1>0. SiteCost \in Nat /\ SiteBurst \in Nat
  BY RatesAssumption
<1>1. /\ Len(h) \in Nat /\ Len(hh) = Len(h) + 1
      /\ \A i \in 1 .. Len(h) : hh[i] = h[i] /\ h[i] \in Nat
      /\ hh[Len(h) + 1] = now
  OBVIOUS
<1>2. \A i \in 1 .. Len(h) : due(i) = paid(i) + SiteCost /\ paid(i) \in Int
  BY <1>0, <1>1, OneMore DEF Since
<1>4. due(Len(h) + 1) = SiteCost
  BY <1>0, <1>1 DEF Since
<1>5. \A i \in 1 .. Len(h) : paid(i) + tok - lst <= SiteBurst - h[i]
  BY DEF SitePotential
<1>10. \A i, j \in Int : i \in 1 .. Len(hh) /\ j = Len(h) + 1 => SiteCost * (j - i + 1) = due(i)
  BY <1>1 DEF Since
<1>11. \A i, j \in 1 .. Len(h) : i <= j =>
         SiteCost * (j - i + 1) <= SiteBurst + (h[j] - h[i])
  BY DEF SiteRate
<1> HIDE DEF hh, paid, due
<1>6. ASSUME NEW i \in 1 .. Len(hh)
      PROVE  due(i) + (fill - SiteCost) - now <= SiteBurst - hh[i]
  <2>1. CASE i \in 1 .. Len(h)
    <3>1. due(i) = paid(i) + SiteCost /\ paid(i) \in Int
      BY <2>1, <1>2
    <3>2. paid(i) + tok - lst <= SiteBurst - h[i]
      BY <2>1, <1>5
    <3>3. hh[i] = h[i] /\ h[i] \in Nat
      BY <2>1, <1>1
    <3> QED BY <3>1, <3>2, <3>3, <1>0, SMTT(30)
  <2>2. CASE i = Len(h) + 1
    BY <2>2, <1>0, <1>1, <1>4
  <2> QED BY <2>1, <2>2, <1>1
<1>7. SitePotential(fill - SiteCost, now, hh)
  BY <1>0, <1>6 DEF SitePotential, due
<1>8. ASSUME NEW i \in 1 .. Len(hh), NEW j \in 1 .. Len(hh), i <= j
      PROVE  SiteCost * (j - i + 1) <= SiteBurst + (hh[j] - hh[i])
  <2>1. CASE j \in 1 .. Len(h)
    BY <2>1, <1>1, <1>8, <1>11
  <2>2. CASE j = Len(h) + 1 /\ i \in 1 .. Len(h)
    <3>1. due(i) <= SiteBurst + (hh[j] - hh[i])
      <4>1. due(i) = paid(i) + SiteCost /\ paid(i) \in Int
        BY <2>2, <1>2
      <4>2. paid(i) + tok - lst <= SiteBurst - h[i]
        BY <2>2, <1>5
      <4>3. hh[i] = h[i] /\ h[i] \in Nat /\ hh[j] = now
        BY <2>2, <1>1
      <4> DEFINE p == paid(i)  x == h[i]
      <4>4. p \in Int /\ x \in Nat /\ p + tok - lst <= SiteBurst - x
        BY <4>1, <4>2, <4>3
      <4> HIDE DEF p, x
      <4>5. p + SiteCost <= SiteBurst + (now - x)
        BY <4>4, <1>0
      <4> QED BY <4>1, <4>3, <4>5 DEF p, x
    <3> QED BY <3>1, <2>2, <1>1, <1>10
  <2>3. CASE j = Len(h) + 1 /\ i = Len(h) + 1
    <3>1. SiteCost <= SiteBurst /\ hh[j] - hh[i] = 0
      BY <2>3, <1>1, RatesAssumption
    <3> QED BY <3>1, <2>3, <1>0, <1>1, <1>4, <1>10
  <2> QED BY <2>1, <2>2, <2>3, <1>1, <1>8
<1>9. SiteRate(hh)
  BY <1>8 DEF SiteRate
<1> QED BY <1>7, <1>9 DEF hh

LEMMA SiteDeny ==
  ASSUME NEW tok \in Int, NEW lst \in Nat, NEW h \in Seq(Nat), NEW now \in Nat, NEW fill \in Int,
         SitePotential(tok, lst, h), fill <= tok + (now - lst), fill <= SiteBurst
  PROVE  SitePotential(fill, now, h)
<1> USE RatesAssumption
<1>1. \A i \in 1 .. Len(h) : SiteCost * Since(h, i) \in Int /\ h[i] \in Nat
  BY DEF Since
<1> QED BY <1>1 DEF SitePotential

-----------------------------------------------------------------------------
(* The bucket of an address: swept is when its limiter last swept, count   *)
(* how often.                                                              *)
Owed(h, i)         == Cost * Since(h, i)
Slack(h, i, count) == Lag * (count - h[i].sweep)
At(h, i)           == h[i].at

Potential(bucket, h, swept, count) ==
  \A i \in 1 .. Len(h) :
    IF bucket.held
      THEN Owed(h, i) + bucket.tokens - bucket.last <= Burst - At(h, i) + Slack(h, i, count)
      ELSE Owed(h, i) <= swept - At(h, i) + Slack(h, i, count - 1)

Rate(h) ==
  \A i, j \in 1 .. Len(h) : i <= j =>
    Cost * (j - i + 1) <= Burst + (h[j].at - h[i].at) + Lag * (h[j].sweep - h[i].sweep)

LEMMA SlackType ==
  ASSUME NEW h \in Seq(Stamp), NEW i \in 1 .. Len(h), NEW count \in Int
  PROVE  /\ Owed(h, i) \in Int /\ At(h, i) \in Nat /\ h[i].sweep \in Nat
         /\ Slack(h, i, count) \in Int
         /\ Slack(h, i, count) = Slack(h, i, count - 1) + Lag
         /\ Slack(h, i, count + 1 - 1) = Slack(h, i, count)
         /\ Slack(h, i, count + 1) = Slack(h, i, count) + Lag
<1>0. Cost \in Nat /\ Lag \in Nat
  BY RatesAssumption, LimitsAssumption
<1>1. h[i] \in Stamp /\ Len(h) \in Nat
  OBVIOUS
<1>2. At(h, i) \in Nat /\ h[i].sweep \in Nat
  BY <1>1 DEF Stamp, At
<1>3. Owed(h, i) \in Int
  BY <1>0, <1>1 DEF Owed, Since
<1> DEFINE s == h[i].sweep
<1>4. s \in Nat
  BY <1>2
<1> HIDE DEF s
<1>5. /\ Lag * ((count - 1 - s) + 1) = Lag * (count - 1 - s) + Lag
      /\ Lag * ((count - s) + 1) = Lag * (count - s) + Lag
      /\ Lag * (count - s) \in Int
  BY <1>0, <1>4, OneMore
<1>6. (count - 1 - s) + 1 = count - s /\ (count - s) + 1 = count + 1 - s
      /\ count + 1 - 1 - s = count - s
  BY <1>4
<1> QED BY <1>2, <1>3, <1>5, <1>6 DEF Slack, s

(* A sweep, of a bucket it evicts and of one it keeps.                     *)
LEMMA SweepPotential ==
  ASSUME NEW bucket \in Bucket, NEW h \in Seq(Stamp), NEW swept \in Nat, NEW count \in Nat,
         NEW now \in Nat, now >= swept, Potential(bucket, h, swept, count)
  PROVE  /\ bucket.held /\ Fill(bucket, now) >= Burst => Potential(NoBucket, h, now, count + 1)
         /\ Potential(bucket, h, now, count + 1)
<1>1. Burst \in Nat /\ Lag \in Nat
  BY RatesAssumption, LimitsAssumption
<1>2. bucket.held \in BOOLEAN /\ bucket.tokens \in Int /\ bucket.last \in Nat
  BY DEF Bucket
<1>3. NoBucket.held = FALSE
  BY DEF NoBucket
<1>4. ASSUME bucket.held, Fill(bucket, now) >= Burst, NEW i \in 1 .. Len(h)
      PROVE  Owed(h, i) <= now - At(h, i) + Slack(h, i, count + 1 - 1)
  <2>1. Owed(h, i) + bucket.tokens - bucket.last <= Burst - At(h, i) + Slack(h, i, count)
    BY <1>4 DEF Potential
  <2>2. bucket.tokens + (now - bucket.last) >= Burst
    BY <1>4 DEF Fill
  <2>3. /\ Owed(h, i) \in Int /\ At(h, i) \in Nat /\ Slack(h, i, count) \in Int
        /\ Slack(h, i, count + 1 - 1) = Slack(h, i, count)
    BY SlackType
  <2> DEFINE tok == bucket.tokens  lst == bucket.last
  <2>4. /\ tok \in Int /\ lst \in Nat /\ tok + (now - lst) >= Burst
        /\ Owed(h, i) + tok - lst <= Burst - At(h, i) + Slack(h, i, count)
    BY <2>1, <2>2, <1>2
  <2> HIDE DEF tok, lst
  <2> QED BY <2>3, <2>4, <1>1
<1>5. ASSUME bucket.held, NEW i \in 1 .. Len(h)
      PROVE  Owed(h, i) + bucket.tokens - bucket.last
               <= Burst - At(h, i) + Slack(h, i, count + 1)
  <2>1. Owed(h, i) + bucket.tokens - bucket.last <= Burst - At(h, i) + Slack(h, i, count)
    BY <1>5 DEF Potential
  <2>2. /\ Owed(h, i) \in Int /\ At(h, i) \in Nat /\ Slack(h, i, count) \in Int
        /\ Slack(h, i, count + 1) = Slack(h, i, count) + Lag
    BY SlackType
  <2> DEFINE owed == Owed(h, i)  tok == bucket.tokens  lst == bucket.last
             at == At(h, i)  before == Slack(h, i, count)  after == Slack(h, i, count + 1)
  <2>3. owed \in Int /\ at \in Nat /\ before \in Int /\ after = before + Lag
    BY <2>2
  <2>4. tok \in Int /\ lst \in Nat
    BY <1>2
  <2>5. owed + tok - lst <= Burst - at + before
    BY <2>1
  <2>6. SUFFICES owed + tok - lst <= Burst - at + after
    OBVIOUS
  <2> HIDE DEF owed, tok, lst, at, before, after
  <2> QED BY <2>3, <2>4, <2>5, <1>1
<1>6. ASSUME ~bucket.held, NEW i \in 1 .. Len(h)
      PROVE  Owed(h, i) <= now - At(h, i) + Slack(h, i, count + 1 - 1)
  <2>1. Owed(h, i) <= swept - At(h, i) + Slack(h, i, count - 1)
    BY <1>6 DEF Potential
  <2>2. /\ Owed(h, i) \in Int /\ At(h, i) \in Nat /\ Slack(h, i, count) \in Int
        /\ Slack(h, i, count) = Slack(h, i, count - 1) + Lag
        /\ Slack(h, i, count + 1 - 1) = Slack(h, i, count)
    BY SlackType
  <2>3. Slack(h, i, count - 1) \in Int
    BY SlackType
  <2> QED BY <2>1, <2>2, <2>3, <1>1, <1>2
<1>7. bucket.held /\ Fill(bucket, now) >= Burst => Potential(NoBucket, h, now, count + 1)
  BY <1>3, <1>4 DEF Potential
<1>8. Potential(bucket, h, now, count + 1)
  BY <1>2, <1>5, <1>6 DEF Potential
<1> QED BY <1>7, <1>8

(* What one more admission changes.                                        *)
LEMMA Appended ==
  ASSUME NEW h \in Seq(Stamp), NEW now \in Nat, NEW count \in Nat
  PROVE  LET hh == Append(h, [at |-> now, sweep |-> count])  n == Len(h) + 1 IN
         /\ hh \in Seq(Stamp) /\ Len(h) \in Nat /\ Len(hh) = n
         /\ \A i \in 1 .. Len(h) :
              /\ Owed(hh, i) = Owed(h, i) + Cost
              /\ At(hh, i) = At(h, i)
              /\ \A c : Slack(hh, i, c) = Slack(h, i, c)
         /\ Owed(hh, n) = Cost /\ At(hh, n) = now /\ Slack(hh, n, count) = 0
<1> DEFINE e == [at |-> now, sweep |-> count]  hh == Append(h, e)
<1>0. Cost \in Nat /\ Lag \in Nat
  BY RatesAssumption, LimitsAssumption
<1>1. e \in Stamp
  BY DEF Stamp
<1>2. /\ hh \in Seq(Stamp) /\ Len(h) \in Nat /\ Len(hh) = Len(h) + 1
      /\ \A i \in 1 .. Len(h) : hh[i] = h[i]
      /\ hh[Len(h) + 1] = e
  BY <1>1
<1>3. e.at = now /\ e.sweep = count
  OBVIOUS
<1> HIDE DEF e, hh
<1>4. ASSUME NEW i \in 1 .. Len(h) PROVE Owed(hh, i) = Owed(h, i) + Cost
  <2>1. Cost * ((Len(h) - i + 1) + 1) = Cost * (Len(h) - i + 1) + Cost
    BY <1>0, <1>2, OneMore
  <2>2. Len(hh) - i + 1 = (Len(h) - i + 1) + 1
    BY <1>2
  <2> QED BY <2>1, <2>2 DEF Owed, Since
<1>5. ASSUME NEW i \in 1 .. Len(h)
      PROVE  At(hh, i) = At(h, i) /\ \A c : Slack(hh, i, c) = Slack(h, i, c)
  BY <1>2 DEF At, Slack
<1>6. Len(hh) - (Len(h) + 1) + 1 = 1 /\ Cost * 1 = Cost /\ count - count = 0 /\ Lag * 0 = 0
  BY <1>0, <1>2
<1>7. /\ Owed(hh, Len(h) + 1) = Cost /\ At(hh, Len(h) + 1) = now
      /\ Slack(hh, Len(h) + 1, count) = 0
  BY <1>2, <1>3, <1>6 DEF Owed, Since, At, Slack
<1> QED BY <1>2, <1>4, <1>5, <1>7 DEF e, hh

(* An admission leaves at most left in the bucket; paid bounds what the    *)
(* bucket had let through before.                                          *)
LEMMA AdmitPotential ==
  ASSUME NEW h \in Seq(Stamp), NEW now \in Nat, NEW count \in Nat, NEW left \in Int,
         left <= Burst - Cost, Rate(h),
         \A i \in 1 .. Len(h) :
           /\ Owed(h, i) + Cost <= Burst + (now - At(h, i)) + Slack(h, i, count)
           /\ Owed(h, i) + Cost + left - now <= Burst - At(h, i) + Slack(h, i, count)
  PROVE  LET hh == Append(h, [at |-> now, sweep |-> count]) IN
         /\ \A swept : Potential(Charged(left, now), hh, swept, count)
         /\ Rate(hh)
<1> DEFINE hh == Append(h, [at |-> now, sweep |-> count])  n == Len(h) + 1
<1>0. Cost \in Nat /\ Burst \in Nat /\ Lag \in Nat /\ Cost <= Burst
  BY RatesAssumption, LimitsAssumption
<1>1. /\ hh \in Seq(Stamp) /\ Len(h) \in Nat /\ Len(hh) = n
      /\ \A i \in 1 .. Len(h) :
           /\ Owed(hh, i) = Owed(h, i) + Cost
           /\ At(hh, i) = At(h, i)
           /\ \A c : Slack(hh, i, c) = Slack(h, i, c)
      /\ Owed(hh, n) = Cost /\ At(hh, n) = now /\ Slack(hh, n, count) = 0
  BY Appended
<1>2. \A i, j \in Int : i \in 1 .. Len(hh) /\ j = n =>
         /\ Cost * (j - i + 1) = Owed(hh, i)
         /\ Lag * (hh[j].sweep - hh[i].sweep) = Slack(hh, i, hh[j].sweep)
  BY <1>1 DEF Owed, Since, Slack
<1>3. hh[n].sweep = count /\ hh[n].at = now
  BY <1>1
<1> HIDE DEF hh
<1>4. ASSUME NEW i \in 1 .. Len(hh)
      PROVE  /\ Owed(hh, i) + left - now <= Burst - At(hh, i) + Slack(hh, i, count)
             /\ Owed(hh, i) <= Burst + (now - At(hh, i)) + Slack(hh, i, count)
  <2>1. CASE i \in 1 .. Len(h)
    BY <2>1, <1>1
  <2>2. CASE i = n
    BY <2>2, <1>0, <1>1
  <2> QED BY <2>1, <2>2, <1>1
<1>5. Charged(left, now).held /\ Charged(left, now).tokens = left /\ Charged(left, now).last = now
  BY DEF Charged
<1>6. \A swept : Potential(Charged(left, now), hh, swept, count)
  BY <1>4, <1>5 DEF Potential
<1>7. ASSUME NEW i \in 1 .. Len(hh), NEW j \in 1 .. Len(hh), i <= j
      PROVE  Cost * (j - i + 1)
               <= Burst + (hh[j].at - hh[i].at) + Lag * (hh[j].sweep - hh[i].sweep)
  <2>1. CASE j \in 1 .. Len(h)
    <3>1. i \in 1 .. Len(h) /\ hh[i] = h[i] /\ hh[j] = h[j]
      BY <2>1, <1>1, <1>7 DEF hh
    <3> QED BY <3>1, <2>1, <1>7 DEF Rate
  <2>2. CASE j = n
    <3>1. /\ Cost * (j - i + 1) = Owed(hh, i)
          /\ Lag * (hh[j].sweep - hh[i].sweep) = Slack(hh, i, count)
          /\ hh[j].at = now /\ hh[i].at = At(hh, i)
      BY <2>2, <1>2, <1>3 DEF At
    <3> QED BY <3>1, <1>4
  <2> QED BY <2>1, <2>2, <1>1
<1>8. Rate(hh)
  BY <1>7 DEF Rate
<1> QED BY <1>6, <1>8 DEF hh

-----------------------------------------------------------------------------
(* The inductive invariant.  Pending: a request has an address and a       *)
(* limiter, and has waited for a lock no longer than Lag.  Fresh: a        *)
(* limiter that has not been made yet has let nothing through.             *)
Pending ==
  /\ \A g \in Gens : lastSweep[g] <= clock
  /\ \A r \in Reqs :
       /\ req[r].pc # "idle" => req[r].key \in Keys /\ req[r].gen <= gen
       /\ Waiting(r) => req[r].now <= clock /\ clock <= req[r].now + Lag

Fresh ==
  /\ \A g \in Gens : g > gen => passed[g] = << >>
  /\ \A b \in Buckets : b[1] > gen => admitted[b] = << >> /\ ~bs[b].held

SiteSafe ==
  \A g \in Gens : SitePotential(siteTokens[g], siteLast[g], passed[g]) /\ SiteRate(passed[g])

IPSafe ==
  \A b \in Buckets :
    /\ Potential(bs[b], admitted[b], lastSweep[b[1]], sweeps[b[1]])
    /\ Rate(admitted[b])

Inv == TypeOK /\ Pending /\ Fresh /\ SiteSafe /\ IPSafe

Pcs == {"idle", "site", "siteLock", "ip", "ipLock", "slot", "serving"}

LEMMA Becomes ==
  ASSUME TypeOK, NEW r \in Reqs, NEW q \in Req, req' = [req EXCEPT ![r] = q]
  PROVE  /\ req' \in [Reqs -> Req] /\ req'[r] = q
         /\ \A u \in Reqs : u # r => req'[u] = req[u]
BY DEF TypeOK

LEMMA IdleReq == Idle \in Req /\ 1 \in Gens
<1>1. 1 \in Gens
  BY LimitsAssumption DEF Gens
<1> QED BY <1>1 DEF Idle, Req

(* Where a request may go: what it keeps, and what it forgets.             *)
LEMMA GotoReq ==
  ASSUME TypeOK, NEW r \in Reqs, NEW pc \in Pcs, Goto(r, pc)
  PROVE  /\ req' \in [Reqs -> Req]
         /\ req'[r].pc = pc /\ req'[r].gen = req[r].gen /\ req'[r].key = req[r].key
         /\ \A u \in Reqs : u # r => req'[u] = req[u]
<1> DEFINE q == [req[r] EXCEPT !.pc = pc, !.now = 0]
<1>1. req[r] \in Req
  BY DEF TypeOK
<1>2. q \in Req /\ q.pc = pc /\ q.gen = req[r].gen /\ q.key = req[r].key
  BY <1>1 DEF Req, Pcs
<1>3. req' = [req EXCEPT ![r] = q]
  BY <1>1 DEF Goto, TypeOK
<1> HIDE DEF q
<1> QED BY <1>2, <1>3, Becomes

LEMMA LeaveReq ==
  ASSUME TypeOK, NEW r \in Reqs, Leave(r)
  PROVE  /\ req' \in [Reqs -> Req] /\ req'[r].pc = "idle"
         /\ \A u \in Reqs : u # r => req'[u] = req[u]
<1>1. req'[r] = Idle
  BY IdleReq, Becomes DEF Leave
<1> QED BY <1>1, IdleReq, Becomes DEF Leave, Idle

LEMMA StampedReq ==
  ASSUME TypeOK, NEW r \in Reqs, NEW pc \in Pcs, Stamped(r, pc, clock)
  PROVE  /\ req' \in [Reqs -> Req]
         /\ req'[r].pc = pc /\ req'[r].gen = req[r].gen /\ req'[r].key = req[r].key
         /\ req'[r].now = clock
         /\ \A u \in Reqs : u # r => req'[u] = req[u]
<1> DEFINE q == [req[r] EXCEPT !.pc = pc, !.now = clock]
<1>1. req[r] \in Req /\ clock \in Nat
  BY DEF TypeOK
<1>2. q \in Req /\ q.pc = pc /\ q.gen = req[r].gen /\ q.key = req[r].key /\ q.now = clock
  BY <1>1 DEF Req, Pcs
<1>3. req' = [req EXCEPT ![r] = q]
  BY <1>1 DEF Stamped, TypeOK
<1> HIDE DEF q
<1> QED BY <1>2, <1>3, Becomes

-----------------------------------------------------------------------------
LEMMA InitInv == Init => Inv
<1> SUFFICES ASSUME Init PROVE Inv
  OBVIOUS
<1> USE RatesAssumption, LimitsAssumption
<1>1. TypeOK
  <2>1. NoBucket \in Bucket
    BY DEF NoBucket, Bucket
  <2> QED BY <2>1, IdleReq DEF Init, TypeOK
<1>2. Pending
  BY DEF Init, Pending, Idle, Waiting
<1>3. Fresh
  BY DEF Init, Fresh, NoBucket
<1>4. SiteSafe
  BY DEF Init, SiteSafe, SitePotential, SiteRate
<1>5. IPSafe
  BY DEF Init, IPSafe, Potential, Rate
<1> QED BY <1>1, <1>2, <1>3, <1>4, <1>5 DEF Inv

(* A step that leaves the buckets alone.                                   *)
LEMMA Quiet ==
  ASSUME Inv, UNCHANGED <<gen, ipVars, siteVars>>
  PROVE  Fresh' /\ SiteSafe' /\ IPSafe'
BY DEF Inv, Fresh, SiteSafe, IPSafe, ipVars, siteVars

LEMMA RequestInv ==
  ASSUME Inv, NEW r \in Reqs,
         \/ \E k \in Keys : Arrive(r, k)
         \/ ReadClock(r) \/ Acquire(r) \/ Release(r)
  PROVE  Inv'
<1> USE DEF ipVars, siteVars
<1>0. TypeOK /\ Pending
  BY DEF Inv
<1>1. /\ UNCHANGED <<clock, gen, ipVars, siteVars>>
      /\ inFlight' \in [Gens -> Int]
  <2>1. inFlight \in [Gens -> Int] /\ req[r].gen \in Gens
    BY <1>0 DEF TypeOK, Req
  <2> QED BY <2>1 DEF Arrive, ReadClock, Acquire, Release
<1>2. /\ req' \in [Reqs -> Req]
      /\ \A u \in Reqs : u # r => req'[u] = req[u]
      /\ req'[r].pc # "idle" => req'[r].key \in Keys /\ req'[r].gen <= gen
      /\ req'[r].pc \in {"siteLock", "ipLock"} => req'[r].now = clock
  <2>1. ASSUME NEW k \in Keys, Arrive(r, k) PROVE <1>2
    <3> DEFINE q == [pc |-> "site", gen |-> gen, key |-> k, now |-> 0]
    <3>1. q \in Req /\ q.pc = "site" /\ q.key = k /\ q.gen = gen /\ gen <= gen
      BY <1>0 DEF TypeOK, Req, Gens
    <3>2. req' = [req EXCEPT ![r] = q]
      BY <2>1 DEF Arrive
    <3> HIDE DEF q
    <3> QED BY <1>0, <3>1, <3>2, Becomes
  <2>2. CASE ReadClock(r)
    <3>1. \E pc \in {"siteLock", "ipLock"} : Stamped(r, pc, clock)
      BY <2>2 DEF ReadClock
    <3>2. req[r].key \in Keys /\ req[r].gen <= gen
      BY <1>0, <2>2 DEF ReadClock, Pending
    <3> QED BY <1>0, <3>1, <3>2, StampedReq DEF Pcs
  <2>3. CASE Acquire(r)
    <3>1. Goto(r, "serving") \/ Leave(r)
      BY <2>3 DEF Acquire
    <3>2. req[r].key \in Keys /\ req[r].gen <= gen
      BY <1>0, <2>3 DEF Acquire, Pending
    <3> QED BY <1>0, <3>1, <3>2, GotoReq, LeaveReq DEF Pcs
  <2>4. CASE Release(r)
    BY <1>0, <2>4, LeaveReq DEF Release
  <2> QED BY <2>1, <2>2, <2>3, <2>4
<1>3. TypeOK'
  BY <1>0, <1>1, <1>2 DEF TypeOK
<1>4. Pending'
  <2>1. /\ \A g \in Gens : lastSweep'[g] <= clock'
        /\ clock' = clock /\ gen' = gen
    BY <1>0, <1>1 DEF Pending
  <2>2. ASSUME NEW u \in Reqs
        PROVE  /\ req'[u].pc # "idle" => req'[u].key \in Keys /\ req'[u].gen <= gen
               /\ req'[u].pc \in {"siteLock", "ipLock"} =>
                    req'[u].now <= clock /\ clock <= req'[u].now + Lag
    <3>1. CASE u = r
      BY <1>0, <1>2, <3>1, LimitsAssumption DEF TypeOK
    <3>2. CASE u # r
      BY <1>0, <1>2, <3>2 DEF Pending, Waiting
    <3> QED BY <3>1, <3>2
  <2> QED BY <2>1, <2>2 DEF Pending, Waiting
<1> QED BY <1>1, <1>3, <1>4, Quiet DEF Inv

LEMMA TickInv == ASSUME Inv, Tick PROVE Inv'
<1>1. TypeOK'
  BY DEF Inv, TypeOK, Tick, ipVars, siteVars
<1>2. Pending'
  <2>1. clock' = clock + 1 /\ clock \in Nat /\ UNCHANGED <<gen, lastSweep, req>>
    BY DEF Inv, TypeOK, Tick, ipVars, siteVars
  <2>2. ASSUME NEW g \in Gens PROVE lastSweep[g] <= clock + 1
    BY <2>1 DEF Inv, TypeOK, Pending
  <2>3. ASSUME NEW u \in Reqs, Waiting(u)
        PROVE  req[u].now <= clock + 1 /\ clock + 1 <= req[u].now + Lag
    <3>1. req[u].now \in Nat /\ req[u].now <= clock /\ clock < req[u].now + Lag
      BY <2>3 DEF Inv, TypeOK, Pending, Tick, Req
    <3> QED BY <3>1, <2>1, LimitsAssumption
  <2> QED BY <2>1, <2>2, <2>3 DEF Inv, Pending, Waiting
<1>3. UNCHANGED <<gen, ipVars, siteVars>>
  BY DEF Tick
<1> QED BY <1>1, <1>2, <1>3, Quiet DEF Inv

(* The new limiter has let nothing through: its clocks may start anywhere. *)
LEMMA ReloadInv == ASSUME Inv, Reload PROVE Inv'
<1> DEFINE new == gen + 1
<1>0. /\ gen \in Gens /\ gen \in Nat /\ new \in Gens /\ clock \in Nat
      /\ lastSweep \in [Gens -> Nat] /\ siteLast \in [Gens -> Nat]
      /\ siteTokens \in [Gens -> Int]
  <2>1. gen \in Gens /\ gen <= MaxReloads /\ MaxReloads \in Nat
    BY LimitsAssumption DEF Inv, TypeOK, Reload
  <2>2. gen \in Nat /\ new \in Gens
    BY <2>1 DEF Gens
  <2> QED BY <2>1, <2>2 DEF Inv, TypeOK
<1>1. /\ gen' = new /\ UNCHANGED <<clock, bs, sweeps, admitted, siteTokens, passed, inFlight, req>>
      /\ lastSweep' = [lastSweep EXCEPT ![new] = clock]
      /\ siteLast' = [siteLast EXCEPT ![new] = clock]
  BY DEF Reload
<1>2. TypeOK'
  BY <1>0, <1>1 DEF Inv, TypeOK
<1>3. Pending'
  <2>1. ASSUME NEW g \in Gens PROVE lastSweep'[g] <= clock
    BY <1>0, <1>1 DEF Inv, Pending
  <2>2. ASSUME NEW u \in Reqs, req[u].pc # "idle" PROVE req[u].key \in Keys /\ req[u].gen <= new
    <3>1. req[u].gen \in Nat /\ req[u].gen <= gen /\ req[u].key \in Keys
      BY <2>2 DEF Inv, TypeOK, Pending, Req, Gens
    <3> QED BY <3>1, <1>0
  <2> QED BY <1>1, <2>1, <2>2 DEF Inv, Pending, Waiting
<1>4. Fresh'
  <2>1. \A g \in Gens : g > new => g > gen
    BY <1>0 DEF Gens
  <2>2. \A b \in Buckets : b[1] \in Gens
    BY DEF Buckets
  <2> QED BY <1>1, <2>1, <2>2 DEF Inv, Fresh
<1>5. new > gen
  BY <1>0
<1>6. SiteSafe'
  <2>1. ASSUME NEW g \in Gens
        PROVE  SitePotential(siteTokens[g], siteLast'[g], passed[g]) /\ SiteRate(passed[g])
    <3>1. CASE g = new
      <4>1. passed[g] = << >>
        BY <1>0, <1>5, <3>1 DEF Inv, Fresh
      <4> QED BY <4>1 DEF Inv, SiteSafe, SitePotential
    <3>2. CASE g # new
      BY <1>0, <1>1, <3>2 DEF Inv, SiteSafe
    <3> QED BY <3>1, <3>2
  <2> QED BY <1>1, <2>1 DEF SiteSafe
<1>7. IPSafe'
  <2>1. ASSUME NEW b \in Buckets
        PROVE  Potential(bs[b], admitted[b], lastSweep'[b[1]], sweeps[b[1]]) /\ Rate(admitted[b])
    <3>0. b[1] \in Gens
      BY DEF Buckets
    <3>1. CASE b[1] = new
      <4>1. admitted[b] = << >>
        BY <1>0, <1>5, <3>1 DEF Inv, Fresh
      <4> QED BY <4>1 DEF Inv, IPSafe, Potential
    <3>2. CASE b[1] # new
      BY <1>0, <1>1, <3>0, <3>2 DEF Inv, IPSafe
    <3> QED BY <3>1, <3>2
  <2> QED BY <1>1, <2>1 DEF IPSafe
<1> QED BY <1>2, <1>3, <1>4, <1>6, <1>7 DEF Inv

-----------------------------------------------------------------------------
(* The two gates.  A request at a gate stays well-formed.                  *)
LEMMA GatePending ==
  ASSUME Inv, NEW r \in Reqs, req[r].pc # "idle", UNCHANGED <<clock, gen>>,
         \A g \in Gens : lastSweep'[g] <= clock,
         Leave(r) \/ Goto(r, "ip") \/ Goto(r, "slot")
  PROVE  req' \in [Reqs -> Req] /\ Pending'
<1>0. TypeOK /\ Pending
  BY DEF Inv
<1>1. /\ req' \in [Reqs -> Req]
      /\ \A u \in Reqs : u # r => req'[u] = req[u]
      /\ req'[r].pc \in {"idle", "ip", "slot"}
      /\ req'[r].pc # "idle" => req'[r].key = req[r].key /\ req'[r].gen = req[r].gen
  BY <1>0, GotoReq, LeaveReq DEF Pcs
<1>2. ASSUME NEW u \in Reqs
      PROVE  /\ req'[u].pc # "idle" => req'[u].key \in Keys /\ req'[u].gen <= gen
             /\ req'[u].pc \in {"siteLock", "ipLock"} =>
                  req'[u].now <= clock /\ clock <= req'[u].now + Lag
  <2>1. CASE u = r
    BY <1>0, <1>1, <2>1 DEF Pending
  <2>2. CASE u # r
    BY <1>0, <1>1, <2>2 DEF Pending, Waiting
  <2> QED BY <2>1, <2>2
<1> QED BY <1>1, <1>2 DEF Pending, Waiting

LEMMA SiteFilled ==
  ASSUME TypeOK, NEW g \in Gens, NEW now \in Nat
  PROVE  /\ SiteFill(g, now) \in Int /\ SiteFill(g, now) <= SiteBurst
         /\ SiteFill(g, now) <= siteTokens[g] + (now - siteLast[g])
<1>1. siteTokens[g] \in Int /\ siteLast[g] \in Nat /\ SiteBurst \in Nat
  BY RatesAssumption DEF TypeOK
<1> QED BY <1>1 DEF SiteFill, Least

LEMMA GlobalInv == ASSUME Inv, NEW r \in Reqs, AllowGlobal(r) PROVE Inv'
<1> DEFINE g == req[r].gen  now == req[r].now  fill == SiteFill(g, now)
<1>0. /\ TypeOK /\ Pending /\ Fresh
      /\ g \in Gens /\ now \in Nat /\ req[r].pc = "siteLock" /\ g <= gen /\ gen \in Gens
      /\ siteTokens \in [Gens -> Int] /\ siteLast \in [Gens -> Nat]
      /\ passed \in [Gens -> Seq(Nat)]
  BY DEF Inv, TypeOK, Req, AllowGlobal, Pending
<1>1. /\ fill \in Int /\ fill <= SiteBurst /\ fill <= siteTokens[g] + (now - siteLast[g])
      /\ SiteCost \in Nat
  BY <1>0, SiteFilled, RatesAssumption
<1>2. /\ SitePotential(siteTokens[g], siteLast[g], passed[g]) /\ SiteRate(passed[g])
      /\ siteTokens[g] \in Int /\ siteLast[g] \in Nat /\ passed[g] \in Seq(Nat)
  BY <1>0 DEF Inv, SiteSafe
<1>3. /\ UNCHANGED <<clock, gen, ipVars, inFlight>> /\ siteLast' = [siteLast EXCEPT ![g] = now]
      /\ Leave(r) \/ Goto(r, "ip") \/ Goto(r, "slot")
  BY DEF AllowGlobal
<1> HIDE DEF g, now, fill
<1>4. PICK t \in Int, h \in Seq(Nat) :
        /\ siteTokens' = [siteTokens EXCEPT ![g] = t] /\ passed' = [passed EXCEPT ![g] = h]
        /\ SitePotential(t, now, h) /\ SiteRate(h)
  <2>1. CASE fill >= SiteCost
    <3>1. /\ siteTokens' = [siteTokens EXCEPT ![g] = fill - SiteCost]
          /\ passed' = [passed EXCEPT ![g] = Append(passed[g], now)]
      BY <1>1, <2>1 DEF AllowGlobal, g, now, fill
    <3>2. fill - SiteCost \in Int /\ Append(passed[g], now) \in Seq(Nat)
      BY <1>0, <1>1, <1>2
    <3>3. /\ SitePotential(fill - SiteCost, now, Append(passed[g], now))
          /\ SiteRate(Append(passed[g], now))
      BY <1>0, <1>1, <1>2, <2>1, SiteAdmit
    <3> QED BY <3>1, <3>2, <3>3
  <2>2. CASE fill < SiteCost
    <3>1. siteTokens' = [siteTokens EXCEPT ![g] = fill] /\ passed' = passed
      BY <1>1, <2>2 DEF AllowGlobal, g, now, fill
    <3>2. passed' = [passed EXCEPT ![g] = passed[g]]
      BY <3>1, <1>0
    <3>3. SitePotential(fill, now, passed[g])
      BY <1>0, <1>1, <1>2, SiteDeny
    <3> QED BY <3>1, <3>2, <3>3, <1>1, <1>2
  <2> QED BY <2>1, <2>2, <1>1
<1>5. req' \in [Reqs -> Req] /\ Pending'
  <2>1. \A c \in Gens : lastSweep'[c] <= clock
    BY <1>0, <1>3 DEF Pending, ipVars
  <2> QED BY <1>0, <1>3, <2>1, GatePending
<1>6. TypeOK'
  BY <1>0, <1>3, <1>4, <1>5 DEF TypeOK, ipVars
<1>7. Fresh'
  <2>1. \A c \in Gens : c > gen => c # g
    BY <1>0 DEF Gens
  <2> QED BY <1>0, <1>3, <1>4, <2>1 DEF Fresh, ipVars
<1>8. SiteSafe'
  BY <1>0, <1>3, <1>4 DEF Inv, SiteSafe
<1>9. IPSafe'
  BY <1>3 DEF Inv, IPSafe, ipVars
<1> QED BY <1>5, <1>6, <1>7, <1>8, <1>9 DEF Inv

(* What the sweep does before the request's own bucket is looked at.       *)
LEMMA SweepKeeps ==
  ASSUME Inv, NEW g \in Gens, NEW now \in Nat, now <= clock, clock <= now + Lag,
         NoteSweep(g, now)
  PROVE  LET table == Swept(g, now) IN
         /\ table \in [Buckets -> Bucket]
         /\ lastSweep' \in [Gens -> Nat] /\ sweeps' \in [Gens -> Nat]
         /\ \A c \in Gens : lastSweep'[c] <= clock
         /\ lastSweep'[g] <= now + Lag
         /\ \A b \in Buckets :
              /\ Potential(table[b], admitted[b], lastSweep'[b[1]], sweeps'[b[1]])
              /\ table[b].held => bs[b].held
<1> DEFINE table == Swept(g, now)
<1>0. /\ bs \in [Buckets -> Bucket] /\ lastSweep \in [Gens -> Nat] /\ sweeps \in [Gens -> Nat]
      /\ admitted \in [Buckets -> Seq(Stamp)] /\ clock \in Nat
      /\ \A c \in Gens : lastSweep[c] <= clock
      /\ NoBucket \in Bucket /\ NoBucket.held = FALSE
  BY DEF Inv, TypeOK, Pending, NoBucket, Bucket
<1>1. \A b \in Buckets :
        table[b] = IF SweepDue(g, now) /\ b \in Evicted(g, now) THEN NoBucket ELSE bs[b]
  BY DEF Swept
<1>2. table \in [Buckets -> Bucket]
  BY <1>0 DEF Swept
<1>3. \A b \in Buckets : table[b].held => bs[b].held
  BY <1>0, <1>1
<1> HIDE DEF table
<1>4. CASE ~SweepDue(g, now)
  <2>1. UNCHANGED <<lastSweep, sweeps>> /\ \A b \in Buckets : table[b] = bs[b]
    BY <1>1, <1>4 DEF NoteSweep
  <2>2. \A b \in Buckets : Potential(table[b], admitted[b], lastSweep'[b[1]], sweeps'[b[1]])
    BY <2>1 DEF Inv, IPSafe
  <2>3. lastSweep[g] <= now + Lag
    <3>1. lastSweep[g] \in Nat /\ lastSweep[g] <= clock /\ Lag \in Nat
      BY <1>0, LimitsAssumption
    <3> QED BY <3>1, <1>0
  <2> QED BY <1>0, <1>2, <1>3, <2>1, <2>2, <2>3 DEF table
<1>5. CASE SweepDue(g, now)
  <2>1. /\ lastSweep' = [lastSweep EXCEPT ![g] = now]
        /\ sweeps' = [sweeps EXCEPT ![g] = sweeps[g] + 1]
    BY <1>5 DEF NoteSweep
  <2>2. lastSweep' \in [Gens -> Nat] /\ sweeps' \in [Gens -> Nat]
    BY <1>0, <2>1
  <2>3. (\A c \in Gens : lastSweep'[c] <= clock) /\ lastSweep'[g] <= now + Lag
    BY <1>0, <2>1, LimitsAssumption
  <2>4. now >= lastSweep[g]
    <3>1. now - lastSweep[g] >= SweepInterval /\ SweepInterval \in Nat /\ lastSweep[g] \in Nat
      BY <1>0, <1>5, LimitsAssumption DEF SweepDue
    <3> QED BY <3>1
  <2>5. ASSUME NEW b \in Buckets
        PROVE  Potential(table[b], admitted[b], lastSweep'[b[1]], sweeps'[b[1]])
    <3>0. b[1] \in Gens
      BY DEF Buckets
    <3>1. /\ bs[b] \in Bucket /\ admitted[b] \in Seq(Stamp)
          /\ Potential(bs[b], admitted[b], lastSweep[b[1]], sweeps[b[1]])
      BY <1>0 DEF Inv, IPSafe
    <3>2. CASE b[1] = g
      <4>1. lastSweep'[b[1]] = now /\ sweeps'[b[1]] = sweeps[g] + 1
            /\ lastSweep[g] \in Nat /\ sweeps[g] \in Nat
        BY <1>0, <2>1, <3>2
      <4>2. /\ bs[b].held /\ Fill(bs[b], now) >= Burst => Potential(NoBucket, admitted[b], now, sweeps[g] + 1)
            /\ Potential(bs[b], admitted[b], now, sweeps[g] + 1)
        BY <2>4, <3>1, <3>2, <4>1, SweepPotential
      <4>3. b \in Evicted(g, now) => bs[b].held /\ Fill(bs[b], now) >= Burst
        BY DEF Evicted
      <4> QED BY <1>1, <4>1, <4>2, <4>3
    <3>3. CASE b[1] # g
      <4>1. lastSweep'[b[1]] = lastSweep[b[1]] /\ sweeps'[b[1]] = sweeps[b[1]]
        BY <1>0, <2>1, <3>0, <3>3
      <4>2. table[b] = bs[b]
        BY <1>1, <3>3 DEF Evicted
      <4> QED BY <3>1, <4>1, <4>2
    <3> QED BY <3>2, <3>3
  <2> QED BY <1>2, <1>3, <2>2, <2>3, <2>5 DEF table
<1> QED BY <1>4, <1>5

(* The four outcomes at an address's bucket.                               *)
LEMMA NewPotential ==
  ASSUME NEW bucket \in Bucket, ~bucket.held, NEW h \in Seq(Stamp), NEW swept \in Nat,
         NEW count \in Nat, NEW now \in Nat, swept <= now + Lag,
         Potential(bucket, h, swept, count), Rate(h)
  PROVE  LET hh == Append(h, [at |-> now, sweep |-> count]) IN
         Potential(Charged(Burst - Cost, now), hh, swept, count) /\ Rate(hh)
<1>0. Cost \in Nat /\ Burst \in Nat /\ Lag \in Nat /\ Cost <= Burst /\ Burst - Cost \in Int
  BY RatesAssumption, LimitsAssumption
<1>1. ASSUME NEW i \in 1 .. Len(h)
      PROVE  /\ Owed(h, i) + Cost <= Burst + (now - At(h, i)) + Slack(h, i, count)
             /\ Owed(h, i) + Cost + (Burst - Cost) - now <= Burst - At(h, i) + Slack(h, i, count)
  <2>1. Owed(h, i) <= swept - At(h, i) + Slack(h, i, count - 1)
    BY DEF Potential
  <2>2. /\ Owed(h, i) \in Int /\ At(h, i) \in Nat /\ Slack(h, i, count) \in Int
        /\ Slack(h, i, count) = Slack(h, i, count - 1) + Lag
    BY SlackType
  <2>3. Slack(h, i, count - 1) \in Int
    BY SlackType
  <2> DEFINE o == Owed(h, i)  a == At(h, i)  s == Slack(h, i, count)  t == Slack(h, i, count - 1)
  <2>4. o \in Int /\ a \in Nat /\ s \in Int /\ t \in Int /\ s = t + Lag /\ o <= swept - a + t
    BY <2>1, <2>2, <2>3
  <2> HIDE DEF o, a, s, t
  <2>5. o + Cost <= Burst + (now - a) + s /\ o + Cost + (Burst - Cost) - now <= Burst - a + s
    BY <2>4, <1>0
  <2> QED BY <2>5 DEF o, a, s
<1> DEFINE left == Burst - Cost
<1>2. /\ left \in Int /\ left <= Burst - Cost
      /\ \A i \in 1 .. Len(h) :
           /\ Owed(h, i) + Cost <= Burst + (now - At(h, i)) + Slack(h, i, count)
           /\ Owed(h, i) + Cost + left - now <= Burst - At(h, i) + Slack(h, i, count)
  BY <1>0, <1>1
<1> HIDE DEF left
<1>3. LET hh == Append(h, [at |-> now, sweep |-> count]) IN
      Potential(Charged(left, now), hh, swept, count) /\ Rate(hh)
  BY <1>2, AdmitPotential
<1> QED BY <1>3 DEF left

LEMMA HeldPotential ==
  ASSUME NEW bucket \in Bucket, bucket.held, NEW h \in Seq(Stamp), NEW swept \in Nat,
         NEW count \in Nat, NEW now \in Nat, NEW fill \in Int,
         fill <= Fill(bucket, now), fill <= Burst,
         Potential(bucket, h, swept, count), Rate(h)
  PROVE  LET hh == Append(h, [at |-> now, sweep |-> count]) IN
         /\ Potential(Charged(fill, now), h, swept, count)
         /\ fill >= Cost => Potential(Charged(fill - Cost, now), hh, swept, count) /\ Rate(hh)
<1> DEFINE tok == bucket.tokens  lst == bucket.last
<1>0. Cost \in Nat /\ Burst \in Nat /\ tok \in Int /\ lst \in Nat /\ fill <= tok + (now - lst)
  BY RatesAssumption DEF Bucket, Fill
<1>1. \A i \in 1 .. Len(h) : Owed(h, i) + tok - lst <= Burst - At(h, i) + Slack(h, i, count)
  BY DEF Potential
<1> HIDE DEF tok, lst
<1>2. \A i \in 1 .. Len(h) : Owed(h, i) \in Int /\ At(h, i) \in Nat /\ Slack(h, i, count) \in Int
  BY SlackType
<1>3. ASSUME NEW i \in 1 .. Len(h)
      PROVE  /\ Owed(h, i) + fill - now <= Burst - At(h, i) + Slack(h, i, count)
             /\ fill >= Cost =>
                  /\ Owed(h, i) + Cost <= Burst + (now - At(h, i)) + Slack(h, i, count)
                  /\ Owed(h, i) + Cost + (fill - Cost) - now <= Burst - At(h, i) + Slack(h, i, count)
  <2>1. Owed(h, i) + tok - lst <= Burst - At(h, i) + Slack(h, i, count)
    BY <1>1
  <2>2. Owed(h, i) \in Int /\ At(h, i) \in Nat /\ Slack(h, i, count) \in Int
    BY <1>2
  <2> DEFINE o == Owed(h, i)  a == At(h, i)  s == Slack(h, i, count)
  <2>3. o \in Int /\ a \in Nat /\ s \in Int /\ o + tok - lst <= Burst - a + s
    BY <2>1, <2>2
  <2> HIDE DEF o, a, s
  <2>4. /\ o + fill - now <= Burst - a + s
        /\ fill >= Cost =>
             /\ o + Cost <= Burst + (now - a) + s
             /\ o + Cost + (fill - Cost) - now <= Burst - a + s
    BY <2>3, <1>0
  <2> QED BY <2>4 DEF o, a, s
<1>4. Charged(fill, now).held /\ Charged(fill, now).tokens = fill /\ Charged(fill, now).last = now
  BY DEF Charged
<1>5. Potential(Charged(fill, now), h, swept, count)
  BY <1>3, <1>4 DEF Potential
<1>6. ASSUME fill >= Cost
      PROVE  LET hh == Append(h, [at |-> now, sweep |-> count]) IN
             Potential(Charged(fill - Cost, now), hh, swept, count) /\ Rate(hh)
  <2>1. fill - Cost \in Int /\ fill - Cost <= Burst - Cost
    BY <1>0
  <2> QED BY <2>1, <1>3, <1>6, AdmitPotential
<1> QED BY <1>5, <1>6

LEMMA PerIPInv == ASSUME Inv, NEW r \in Reqs, AllowPerIP(r) PROVE Inv'
<1> DEFINE g == req[r].gen  now == req[r].now  k == req[r].key  b == <<g, k>>
           table == Swept(g, now)
           fill == Least(Fill(table[b], now), Burst)
           count == sweeps'[g]
           more == Append(admitted[b], [at |-> now, sweep |-> count])
<1>0. /\ TypeOK /\ Pending /\ Fresh /\ gen \in Gens /\ req[r].pc = "ipLock"
      /\ g \in Gens /\ now \in Nat /\ k \in Keys /\ g <= gen
      /\ now <= clock /\ clock <= now + Lag
  BY DEF Inv, TypeOK, Req, AllowPerIP, Pending, Waiting
<1>1. NoteSweep(g, now) /\ UNCHANGED <<clock, gen, siteVars, inFlight>>
  BY DEF AllowPerIP
<1>2. b \in Buckets /\ b[1] = g
  BY <1>0 DEF Buckets
<1>3. \/ bs' = table /\ Deny(r)
      \/ ~table[b].held /\ bs' = [table EXCEPT ![b] = Charged(Burst - Cost, now)] /\ Admit(r, b, now)
      \/ /\ table[b].held /\ fill >= Cost
         /\ bs' = [table EXCEPT ![b] = Charged(fill - Cost, now)] /\ Admit(r, b, now)
      \/ table[b].held /\ bs' = [table EXCEPT ![b] = Charged(fill, now)] /\ Deny(r)
  BY DEF AllowPerIP
<1>4. Admit(r, b, now) => admitted' = [admitted EXCEPT ![b] = more] /\ Goto(r, "slot")
  BY <1>2 DEF Admit
<1>5. Deny(r) => admitted' = admitted /\ Leave(r)
  BY DEF Deny
<1> HIDE DEF g, now, k, b, table, fill, count, more
<1>6. /\ table \in [Buckets -> Bucket]
      /\ lastSweep' \in [Gens -> Nat] /\ sweeps' \in [Gens -> Nat]
      /\ \A c \in Gens : lastSweep'[c] <= clock
      /\ lastSweep'[g] <= now + Lag
      /\ \A c \in Buckets :
           /\ Potential(table[c], admitted[c], lastSweep'[c[1]], sweeps'[c[1]])
           /\ table[c].held => bs[c].held
  BY <1>0, <1>1, SweepKeeps DEF table
<1>7. /\ table[b] \in Bucket /\ admitted[b] \in Seq(Stamp) /\ count \in Nat /\ lastSweep'[g] \in Nat
      /\ Potential(table[b], admitted[b], lastSweep'[g], count) /\ Rate(admitted[b])
      /\ admitted \in [Buckets -> Seq(Stamp)]
  BY <1>0, <1>2, <1>6 DEF Inv, IPSafe, TypeOK, count
<1>8. fill \in Int /\ fill <= Fill(table[b], now) /\ fill <= Burst
  <2>1. Fill(table[b], now) \in Int /\ Burst \in Nat
    BY <1>0, <1>7, RatesAssumption DEF Fill, Bucket
  <2> QED BY <2>1 DEF fill, Least
<1>9. more \in Seq(Stamp)
  <2>1. [at |-> now, sweep |-> count] \in Stamp
    BY <1>0, <1>7 DEF Stamp
  <2> QED BY <2>1, <1>7 DEF more
<1>10. \A t \in Int : Charged(t, now) \in Bucket /\ Charged(t, now).held
  BY <1>0 DEF Charged, Bucket
<1>11. PICK q \in Bucket, h \in Seq(Stamp) :
         /\ bs' = [table EXCEPT ![b] = q] /\ admitted' = [admitted EXCEPT ![b] = h]
         /\ Potential(q, h, lastSweep'[g], count) /\ Rate(h)
         /\ Leave(r) \/ Goto(r, "slot")
  <2>0. admitted = [admitted EXCEPT ![b] = admitted[b]] /\ table = [table EXCEPT ![b] = table[b]]
    BY <1>6, <1>7
  <2>1. CASE bs' = table /\ Deny(r)
    BY <2>0, <2>1, <1>5, <1>7
  <2>2. CASE ~table[b].held /\ bs' = [table EXCEPT ![b] = Charged(Burst - Cost, now)] /\ Admit(r, b, now)
    <3>1. Burst - Cost \in Int
      BY RatesAssumption
    <3>2. Potential(Charged(Burst - Cost, now), more, lastSweep'[g], count) /\ Rate(more)
      BY <2>2, <1>0, <1>6, <1>7, NewPotential DEF more
    <3> QED BY <2>2, <3>1, <3>2, <1>4, <1>9, <1>10
  <2>3. CASE /\ table[b].held /\ fill >= Cost
             /\ bs' = [table EXCEPT ![b] = Charged(fill - Cost, now)] /\ Admit(r, b, now)
    <3>1. fill - Cost \in Int
      BY <1>8, RatesAssumption
    <3>2. Potential(Charged(fill - Cost, now), more, lastSweep'[g], count) /\ Rate(more)
      BY <2>3, <1>0, <1>7, <1>8, HeldPotential DEF more
    <3> QED BY <2>3, <3>1, <3>2, <1>4, <1>9, <1>10
  <2>4. CASE table[b].held /\ bs' = [table EXCEPT ![b] = Charged(fill, now)] /\ Deny(r)
    <3>1. Potential(Charged(fill, now), admitted[b], lastSweep'[g], count)
      BY <2>4, <1>0, <1>7, <1>8, HeldPotential
    <3> QED BY <2>0, <2>4, <3>1, <1>5, <1>7, <1>8, <1>10
  <2> QED BY <2>1, <2>2, <2>3, <2>4, <1>3
<1>12. req' \in [Reqs -> Req] /\ Pending'
  BY <1>0, <1>1, <1>6, <1>11, GatePending
<1>13. TypeOK'
  BY <1>0, <1>1, <1>6, <1>7, <1>11, <1>12 DEF TypeOK, siteVars
<1>14. Fresh'
  <2>1. ASSUME NEW c \in Buckets, c[1] > gen PROVE admitted'[c] = << >> /\ ~bs'[c].held
    <3>1. c # b
      BY <1>0, <1>2, <2>1 DEF Gens
    <3> QED BY <3>1, <2>1, <1>0, <1>6, <1>7, <1>11 DEF Fresh
  <2> QED BY <2>1, <1>0, <1>1 DEF Fresh, siteVars
<1>15. SiteSafe'
  BY <1>1 DEF Inv, SiteSafe, siteVars
<1>16. IPSafe'
  <2>1. ASSUME NEW c \in Buckets
        PROVE  Potential(bs'[c], admitted'[c], lastSweep'[c[1]], sweeps'[c[1]]) /\ Rate(admitted'[c])
    <3>1. CASE c = b
      <4>1. bs'[c] = bs'[b] /\ admitted'[c] = admitted'[b] /\ c[1] = g
        BY <1>2, <3>1
      <4> QED BY <4>1, <1>2, <1>6, <1>7, <1>11 DEF count
    <3>2. CASE c # b
      BY <3>2, <1>6, <1>7, <1>11 DEF Inv, IPSafe
    <3> QED BY <3>1, <3>2
  <2> QED BY <2>1 DEF IPSafe
<1> QED BY <1>12, <1>13, <1>14, <1>15, <1>16 DEF Inv

LEMMA StepInv == Inv /\ [Next]_vars => Inv'
<1> SUFFICES ASSUME Inv, [Next]_vars PROVE Inv'
  OBVIOUS
<1>1. CASE UNCHANGED vars
  <2>1. UNCHANGED <<clock, gen, ipVars, siteVars, inFlight, req, lastSweep>>
    BY <1>1 DEF vars, ipVars
  <2>2. TypeOK' /\ Pending'
    BY <2>1 DEF Inv, TypeOK, Pending, Waiting, ipVars, siteVars
  <2> QED BY <2>1, <2>2, Quiet DEF Inv
<1>2. ASSUME NEW r \in Reqs,
             \/ \E k \in Keys : Arrive(r, k)
             \/ ReadClock(r) \/ AllowGlobal(r) \/ AllowPerIP(r) \/ Acquire(r) \/ Release(r)
      PROVE  Inv'
  BY <1>2, RequestInv, GlobalInv, PerIPInv
<1> QED BY <1>1, <1>2, ReloadInv, TickInv DEF Next

THEOREM Invariance == Spec => []Inv
BY InitInv, StepInv, PTL DEF Spec

(* The history of every bucket and the table of every limiter keep their   *)
(* types: no request is ever without an address at its gate.               *)
THEOREM TypeCorrect == Spec => []TypeOK
<1>1. Inv => TypeOK
  BY DEF Inv
<1> QED BY <1>1, Invariance, PTL

(* No address ever gets more than its rate, plus Lag for every sweep.      *)
THEOREM RateCorrect == Spec => []RateHolds
<1>1. Inv => RateHolds
  BY DEF Inv, IPSafe, Rate, RateHolds
<1> QED BY <1>1, Invariance, PTL

(* The whole site never lets through more than its rate, exactly.          *)
THEOREM SiteRateCorrect == Spec => []SiteRateHolds
<1>1. Inv => SiteRateHolds
  BY DEF Inv, SiteSafe, SiteRate, SiteRateHolds
<1> QED BY <1>1, Invariance, PTL

-----------------------------------------------------------------------------
(* What is handed out comes back.  Serving: the requests that hold a slot  *)
(* of a limiter.  A bucket is never in debt for longer than a request      *)
(* waits for the lock, so an idle one is full at the next sweep.           *)
Serving(g) == {r \in Reqs : req[r].pc = "serving" /\ req[r].gen = g}

SlotsKept ==
  \A g \in Gens : /\ IsFiniteSet(Serving(g)) /\ inFlight[g] = Cardinality(Serving(g))
                  /\ inFlight[g] <= MaxInFlight

NoDebt ==
  \A b \in Buckets : bs[b].held => 0 <= bs[b].tokens + Lag /\ 0 <= Fill(bs[b], clock)

TablesKept ==
  \A g \in Gens :
    /\ IsFiniteSet(Tracked(bs, g)) /\ Cardinality(Tracked(bs, g)) <= MaxBuckets
    /\ \A b \in Tracked(bs, g) : lastSweep[g] - bs[b].last < Burst + Lag

Returned == SlotsKept /\ NoDebt /\ TablesKept

LEMMA BucketFields ==
  ASSUME NEW x \in Bucket PROVE x.held \in BOOLEAN /\ x.tokens \in Int /\ x.last \in Nat
BY DEF Bucket

LEMMA InitReturned == Init => Returned
<1> SUFFICES ASSUME Init PROVE Returned
  OBVIOUS
<1>0. IsFiniteSet({}) /\ Cardinality({}) = 0
  BY FS_EmptySet
<1>1. /\ \A g \in Gens : Serving(g) = {} /\ inFlight[g] = 0
      /\ \A b \in Buckets : ~bs[b].held
  BY DEF Init, Serving, Idle, NoBucket
<1>2. \A g \in Gens : Tracked(bs, g) = {}
  BY <1>1 DEF Tracked
<1>3. SlotsKept
  BY <1>0, <1>1, LimitsAssumption DEF SlotsKept
<1>4. TablesKept
  BY <1>0, <1>2, LimitsAssumption DEF TablesKept
<1>5. NoDebt
  BY <1>1 DEF NoDebt
<1> QED BY <1>3, <1>4, <1>5 DEF Returned

(* Steps that leave the slots or the tables alone.                         *)
LEMMA SlotsFrame ==
  ASSUME SlotsKept, UNCHANGED inFlight, \A g \in Gens : Serving(g)' = Serving(g)
  PROVE  SlotsKept'
BY DEF SlotsKept

LEMMA ServingFrame ==
  ASSUME NEW r \in Reqs, req[r].pc # "serving", req'[r].pc # "serving",
         \A u \in Reqs : u # r => req'[u] = req[u]
  PROVE  \A g \in Gens : Serving(g)' = Serving(g)
BY DEF Serving

LEMMA TablesFrame ==
  ASSUME NoDebt, TablesKept, UNCHANGED <<bs, lastSweep, clock>>
  PROVE  NoDebt' /\ TablesKept'
BY DEF NoDebt, TablesKept, Tracked, Fill

LEMMA AcquireReturned == ASSUME Inv, Returned, NEW r \in Reqs, Acquire(r) PROVE Returned'
<1> DEFINE g == req[r].gen
<1>0. TypeOK /\ g \in Gens /\ req[r].pc = "slot" /\ inFlight \in [Gens -> Int]
  BY DEF Inv, TypeOK, Req, Acquire
<1>1. NoDebt' /\ TablesKept'
  BY TablesFrame DEF Returned, Acquire, ipVars
<1>2. CASE inFlight[g] < MaxInFlight /\ inFlight' = [inFlight EXCEPT ![g] = @ + 1] /\ Goto(r, "serving")
  <2>1. /\ req'[r].pc = "serving" /\ req'[r].gen = g
        /\ \A u \in Reqs : u # r => req'[u] = req[u]
    BY <1>0, <1>2, GotoReq DEF Pcs
  <2>2. /\ Serving(g)' = Serving(g) \cup {r} /\ r \notin Serving(g)
        /\ \A c \in Gens : c # g => Serving(c)' = Serving(c)
    BY <1>0, <2>1 DEF Serving
  <2>3. /\ IsFiniteSet(Serving(g)) /\ inFlight[g] = Cardinality(Serving(g)) /\ inFlight[g] \in Int
        /\ MaxInFlight \in Nat
    BY <1>0, LimitsAssumption DEF Returned, SlotsKept
  <2>4. IsFiniteSet(Serving(g)') /\ Cardinality(Serving(g)') = Cardinality(Serving(g)) + 1
    BY <2>2, <2>3, FS_AddElement
  <2>5. inFlight'[g] = inFlight[g] + 1 /\ \A c \in Gens : c # g => inFlight'[c] = inFlight[c]
    BY <1>0, <1>2
  <2>6. inFlight'[g] = Cardinality(Serving(g)') /\ inFlight'[g] <= MaxInFlight
    BY <1>2, <2>3, <2>4, <2>5
  <2>7. ASSUME NEW c \in Gens
        PROVE  /\ IsFiniteSet(Serving(c)') /\ inFlight'[c] = Cardinality(Serving(c)')
               /\ inFlight'[c] <= MaxInFlight
    <3>1. CASE c = g
      <4>1. Serving(c)' = Serving(g)'
        BY <2>1, <2>2, <3>1 DEF Serving
      <4> QED BY <2>4, <2>6, <3>1, <4>1
    <3>2. CASE c # g
      BY <2>2, <2>5, <3>2 DEF Returned, SlotsKept
    <3> QED BY <3>1, <3>2
  <2> QED BY <1>1, <2>7 DEF Returned, SlotsKept
<1>3. CASE Leave(r) /\ UNCHANGED inFlight
  <2>1. \A c \in Gens : Serving(c)' = Serving(c)
    BY <1>0, <1>3, LeaveReq, ServingFrame
  <2> QED BY <1>1, <1>3, <2>1, SlotsFrame DEF Returned
<1> QED BY <1>2, <1>3 DEF Acquire

LEMMA ReleaseReturned == ASSUME Inv, Returned, NEW r \in Reqs, Release(r) PROVE Returned'
<1>g. PICK g \in Gens : g = req[r].gen
  BY DEF Inv, TypeOK, Req
<1>0. TypeOK /\ req[r].pc = "serving" /\ inFlight \in [Gens -> Int]
  BY DEF Inv, TypeOK, Release
<1>1. NoDebt' /\ TablesKept'
  BY TablesFrame DEF Returned, Release, ipVars
<1>2. req'[r].pc = "idle" /\ \A u \in Reqs : u # r => req'[u] = req[u]
  BY <1>0, LeaveReq DEF Release
<1>3. \A c \in Gens : Serving(c)' = IF c = g THEN Serving(c) \ {r} ELSE Serving(c)
  BY <1>g, <1>0, <1>2 DEF Serving
<1>4. r \in Serving(g) /\ IsFiniteSet(Serving(g)) /\ inFlight[g] = Cardinality(Serving(g)) /\ inFlight[g] \in Int
      /\ inFlight[g] <= MaxInFlight /\ MaxInFlight \in Nat
  BY <1>g, <1>0, LimitsAssumption DEF Returned, SlotsKept, Serving
<1>5. IsFiniteSet(Serving(g) \ {r}) /\ Cardinality(Serving(g) \ {r}) = Cardinality(Serving(g)) - 1
  BY <1>4, FS_RemoveElement
<1>6. inFlight'[g] = inFlight[g] - 1 /\ \A c \in Gens : c # g => inFlight'[c] = inFlight[c]
  BY <1>g, <1>0 DEF Release
<1>7. ASSUME NEW c \in Gens
      PROVE  /\ IsFiniteSet(Serving(c)') /\ inFlight'[c] = Cardinality(Serving(c)')
             /\ inFlight'[c] <= MaxInFlight
  <2>1. CASE c = g
    <3>1. Serving(c)' = Serving(g) \ {r} /\ inFlight'[c] = inFlight[g] - 1
      BY <1>3, <1>6, <2>1
    <3> QED BY <1>4, <1>5, <3>1
  <2>2. CASE c # g
    BY <1>3, <1>6, <2>2 DEF Returned, SlotsKept
  <2> QED BY <2>1, <2>2
<1> QED BY <1>1, <1>7 DEF Returned, SlotsKept

(* A request that comes, reads the clock or passes the site-wide gate.     *)
LEMMA MoveReturned ==
  ASSUME Inv, Returned, NEW r \in Reqs, (\E k \in Keys : Arrive(r, k)) \/ ReadClock(r) \/ AllowGlobal(r)
  PROVE  Returned'
<1>0. TypeOK
  BY DEF Inv
<1>1. UNCHANGED <<bs, lastSweep, clock, inFlight>> /\ req[r].pc # "serving"
  BY DEF Arrive, ReadClock, AllowGlobal, ipVars
<1>2. req'[r].pc # "serving" /\ \A u \in Reqs : u # r => req'[u] = req[u]
  <2>1. ASSUME NEW k \in Keys, Arrive(r, k) PROVE <1>2
    BY <2>1, <1>0 DEF Arrive, TypeOK
  <2>2. CASE ReadClock(r)
    <3>1. \E pc \in {"siteLock", "ipLock"} : Stamped(r, pc, clock)
      BY <2>2 DEF ReadClock
    <3> QED BY <1>0, <3>1, StampedReq DEF Pcs
  <2>3. CASE AllowGlobal(r)
    <3>1. Goto(r, "ip") \/ Leave(r)
      BY <2>3 DEF AllowGlobal
    <3> QED BY <1>0, <3>1, GotoReq, LeaveReq DEF Pcs
  <2> QED BY <2>1, <2>2, <2>3
<1>3. NoDebt' /\ TablesKept'
  BY <1>1, TablesFrame DEF Returned
<1>4. SlotsKept'
  BY <1>1, <1>2, ServingFrame, SlotsFrame DEF Returned
<1> QED BY <1>3, <1>4 DEF Returned

LEMMA ReloadReturned == ASSUME Inv, Returned, Reload PROVE Returned'
<1>0. /\ gen \in Nat /\ gen + 1 > gen /\ lastSweep' = [lastSweep EXCEPT ![gen + 1] = clock]
      /\ lastSweep \in [Gens -> Nat] /\ UNCHANGED <<clock, bs, inFlight, req>>
  BY DEF Inv, TypeOK, Reload, Gens
<1>1. SlotsKept'
  <2>1. \A g \in Gens : Serving(g)' = Serving(g)
    BY <1>0 DEF Serving
  <2> QED BY <1>0, <2>1, SlotsFrame DEF Returned
<1>2. NoDebt'
  BY <1>0 DEF Returned, NoDebt, Fill
<1>3. TablesKept'
  <2>1. \A b \in Buckets : b[1] = gen + 1 => ~bs[b].held
    BY <1>0 DEF Inv, Fresh
  <2>2. \A g \in Gens : g = gen + 1 => Tracked(bs, g) = {}
    BY <2>1 DEF Tracked
  <2>3. \A g \in Gens : g # gen + 1 => lastSweep'[g] = lastSweep[g]
    BY <1>0
  <2>4. \A g \in Gens : Tracked(bs, g)' = Tracked(bs, g)
    BY <1>0 DEF Tracked
  <2> QED BY <1>0, <2>2, <2>3, <2>4 DEF Returned, TablesKept
<1> QED BY <1>1, <1>2, <1>3 DEF Returned

LEMMA TickReturned == ASSUME Inv, Returned, Tick PROVE Returned'
<1>0. clock' = clock + 1 /\ clock \in Nat /\ UNCHANGED <<bs, lastSweep, inFlight, req>>
  BY DEF Inv, TypeOK, Tick, ipVars
<1>1. SlotsKept'
  <2>1. \A g \in Gens : Serving(g)' = Serving(g)
    BY <1>0 DEF Serving
  <2> QED BY <1>0, <2>1, SlotsFrame DEF Returned
<1>2. NoDebt'
  <2> SUFFICES ASSUME NEW b \in Buckets, bs[b].held
               PROVE  0 <= bs[b].tokens + Lag /\ 0 <= Fill(bs[b], clock + 1)
    BY <1>0 DEF NoDebt, Fill
  <2>1. 0 <= bs[b].tokens + Lag /\ 0 <= bs[b].tokens + (clock - bs[b].last)
    BY DEF Returned, NoDebt, Fill
  <2>2. bs[b].tokens \in Int /\ bs[b].last \in Nat
    BY BucketFields DEF Inv, TypeOK
  <2> QED BY <1>0, <2>1, <2>2 DEF Fill
<1>3. TablesKept'
  BY <1>0 DEF Returned, TablesKept, Tracked
<1> QED BY <1>1, <1>2, <1>3 DEF Returned

(* What a sweep leaves is what it found, and had been used lately.         *)
LEMMA SweepReturned ==
  ASSUME Inv, Returned, NEW g \in Gens, NEW now \in Nat, now <= clock, clock <= now + Lag,
         NoteSweep(g, now), NEW table, table = Swept(g, now)
  PROVE  /\ \A b \in Buckets : table[b].held => table[b] = bs[b]
         /\ \A c \in Gens : /\ IsFiniteSet(Tracked(table, c)) /\ Cardinality(Tracked(table, c)) <= MaxBuckets
                            /\ \A b \in Tracked(table, c) : lastSweep'[c] - bs[b].last < Burst + Lag
<1>0. lastSweep \in [Gens -> Nat] /\ MaxBuckets \in Nat /\ Lag \in Nat /\ Burst \in Nat
  BY LimitsAssumption, RatesAssumption DEF Inv, TypeOK
<1>1. \A b \in Buckets :
        table[b] = IF SweepDue(g, now) /\ b \in Evicted(g, now) THEN NoBucket ELSE bs[b]
  BY DEF Swept
<1>2. \A b \in Buckets : table[b].held => table[b] = bs[b] /\ ~(SweepDue(g, now) /\ b \in Evicted(g, now))
  BY <1>1 DEF NoBucket
<1>3. \A c \in Gens : Tracked(table, c) \subseteq Tracked(bs, c)
  BY <1>2 DEF Tracked
<1>4. \A c \in Gens : IsFiniteSet(Tracked(table, c)) /\ Cardinality(Tracked(table, c)) <= MaxBuckets
  <2> SUFFICES ASSUME NEW c \in Gens
               PROVE  IsFiniteSet(Tracked(table, c)) /\ Cardinality(Tracked(table, c)) <= MaxBuckets
    OBVIOUS
  <2>1. IsFiniteSet(Tracked(bs, c)) /\ Cardinality(Tracked(bs, c)) <= MaxBuckets
    BY DEF Returned, TablesKept
  <2>2. /\ IsFiniteSet(Tracked(table, c)) /\ Cardinality(Tracked(table, c)) \in Nat
        /\ Cardinality(Tracked(bs, c)) \in Nat
        /\ Cardinality(Tracked(table, c)) <= Cardinality(Tracked(bs, c))
    BY <1>3, <2>1, FS_Subset, FS_CardinalityType
  <2> QED BY <1>0, <2>1, <2>2
<1>5. ASSUME NEW c \in Gens, NEW b \in Tracked(table, c)
      PROVE  lastSweep'[c] - bs[b].last < Burst + Lag
  <2>0. b \in Buckets /\ b[1] = c /\ table[b].held /\ bs[b].held /\ b \in Tracked(bs, c)
    BY <1>2, <1>3 DEF Tracked
  <2>1. CASE lastSweep'[c] = lastSweep[c]
    BY <2>0, <2>1 DEF Returned, TablesKept
  <2>2. CASE SweepDue(g, now) /\ c = g
    <3>1. lastSweep'[c] = now
      BY <1>0, <2>2 DEF NoteSweep
    <3>2. ~(Fill(bs[b], now) >= Burst)
      BY <1>2, <2>0, <2>2 DEF Evicted
    <3>3. bs[b].tokens \in Int /\ bs[b].last \in Nat /\ 0 <= bs[b].tokens + Lag
      BY <2>0, BucketFields DEF Inv, TypeOK, Returned, NoDebt
    <3> QED BY <1>0, <3>1, <3>2, <3>3 DEF Fill
  <2> QED BY <1>0, <2>1, <2>2 DEF NoteSweep
<1> QED BY <1>2, <1>4, <1>5

(* A bucket is charged: its own place is taken by then, or there is room.  *)
LEMMA ChargedReturned ==
  ASSUME Inv, Returned, NEW g \in Gens, NEW b \in Buckets, b[1] = g, NEW now \in Nat,
         now <= clock, clock <= now + Lag, NoteSweep(g, now), UNCHANGED clock,
         NEW table \in [Buckets -> Bucket], table = Swept(g, now), lastSweep'[g] <= now + Lag, lastSweep'[g] \in Nat,
         table[b].held \/ Cardinality(Tracked(table, g)) < MaxBuckets,
         NEW t \in Int, 0 <= t + Lag, 0 <= t + (clock - now), bs' = [table EXCEPT ![b] = Charged(t, now)]
  PROVE  NoDebt' /\ TablesKept'
<1>0. /\ MaxBuckets \in Nat /\ Lag \in Nat /\ Burst \in Nat /\ Burst > 0 /\ clock \in Nat
  BY LimitsAssumption, RatesAssumption DEF Inv, TypeOK
<1>1. /\ \A c \in Buckets : table[c].held => table[c] = bs[c]
      /\ \A c \in Gens : /\ IsFiniteSet(Tracked(table, c)) /\ Cardinality(Tracked(table, c)) <= MaxBuckets
                         /\ \A d \in Tracked(table, c) : lastSweep'[c] - bs[d].last < Burst + Lag
  BY SweepReturned
<1>2. /\ bs'[b].held /\ bs'[b].tokens = t /\ bs'[b].last = now
      /\ \A c \in Buckets : c # b => bs'[c] = table[c]
  BY DEF Charged
<1>3. NoDebt'
  <2> SUFFICES ASSUME NEW c \in Buckets, bs'[c].held
               PROVE  0 <= bs'[c].tokens + Lag /\ 0 <= Fill(bs'[c], clock)
    BY DEF NoDebt, Fill
  <2>1. CASE c = b
    BY <1>2, <2>1 DEF Fill
  <2>2. CASE c # b
    <3>1. bs'[c] = bs[c] /\ bs[c].held
      BY <1>1, <1>2, <2>2
    <3> QED BY <3>1 DEF Returned, NoDebt
  <2> QED BY <2>1, <2>2
<1>4. \A c \in Gens : Tracked(bs', c) = IF c = g THEN Tracked(table, c) \cup {b} ELSE Tracked(table, c)
  BY <1>2 DEF Tracked
<1>5. IsFiniteSet(Tracked(table, g) \cup {b}) /\ Cardinality(Tracked(table, g) \cup {b}) <= MaxBuckets
  <2>1. IsFiniteSet(Tracked(table, g)) /\ Cardinality(Tracked(table, g)) <= MaxBuckets
        /\ Cardinality(Tracked(table, g)) \in Nat
    BY <1>1, FS_CardinalityType
  <2>2. CASE table[b].held
    <3>1. Tracked(table, g) \cup {b} = Tracked(table, g)
      BY <2>2 DEF Tracked
    <3> QED BY <2>1, <3>1
  <2>3. CASE ~table[b].held /\ Cardinality(Tracked(table, g)) < MaxBuckets
    <3>1. b \notin Tracked(table, g)
      BY <2>3 DEF Tracked
    <3>2. /\ IsFiniteSet(Tracked(table, g) \cup {b})
          /\ Cardinality(Tracked(table, g) \cup {b}) = Cardinality(Tracked(table, g)) + 1
      BY <2>1, <3>1, FS_AddElement
    <3> QED BY <1>0, <2>1, <2>3, <3>2
  <2> QED BY <2>2, <2>3
<1>6. TablesKept'
  <2> SUFFICES ASSUME NEW c \in Gens
               PROVE  /\ IsFiniteSet(Tracked(bs', c)) /\ Cardinality(Tracked(bs', c)) <= MaxBuckets
                      /\ \A d \in Tracked(bs', c) : lastSweep'[c] - bs'[d].last < Burst + Lag
    BY DEF TablesKept, Tracked
  <2>1. IsFiniteSet(Tracked(bs', c)) /\ Cardinality(Tracked(bs', c)) <= MaxBuckets
    BY <1>1, <1>4, <1>5
  <2>2. ASSUME NEW d \in Tracked(bs', c) PROVE lastSweep'[c] - bs'[d].last < Burst + Lag
    <3>1. CASE d = b
      <4>1. c = g
        BY <2>2, <3>1 DEF Tracked
      <4> QED BY <1>0, <1>2, <3>1, <4>1
    <3>2. CASE d # b
      <4>1. d \in Tracked(table, c) /\ d \in Buckets /\ table[d].held
        BY <1>2, <1>4, <2>2, <3>2 DEF Tracked
      <4>2. bs'[d] = bs[d]
        BY <1>1, <1>2, <3>2, <4>1
      <4> QED BY <1>1, <4>1, <4>2
    <3> QED BY <3>1, <3>2
  <2> QED BY <2>1, <2>2
<1> QED BY <1>3, <1>6

LEMMA PerIPReturned == ASSUME Inv, Returned, NEW r \in Reqs, AllowPerIP(r) PROVE Returned'
<1>g. PICK g \in Gens, now \in Nat, k \in Keys : g = req[r].gen /\ now = req[r].now /\ k = req[r].key
  BY DEF Inv, TypeOK, Req, AllowPerIP, Pending
<1>b. PICK b \in Buckets : b = <<g, k>> /\ b[1] = g
  <2>1. <<g, k>> \in Buckets /\ <<g, k>>[1] = g
    BY DEF Buckets
  <2> QED BY <2>1
<1>0. /\ TypeOK /\ req[r].pc = "ipLock" /\ now <= clock /\ clock <= now + Lag
      /\ NoteSweep(g, now) /\ UNCHANGED <<clock, inFlight>> /\ clock \in Nat
  BY <1>g DEF Inv, TypeOK, AllowPerIP, Pending, Waiting
<1>t. PICK table : table = Swept(g, now)
  OBVIOUS
<1>1. /\ table \in [Buckets -> Bucket] /\ lastSweep'[g] <= now + Lag /\ lastSweep'[g] \in Nat
  BY <1>0, <1>t, SweepKeeps
<1>2. /\ \A c \in Buckets : table[c].held => table[c] = bs[c]
      /\ \A c \in Gens : /\ IsFiniteSet(Tracked(table, c)) /\ Cardinality(Tracked(table, c)) <= MaxBuckets
                         /\ \A d \in Tracked(table, c) : lastSweep'[c] - bs[d].last < Burst + Lag
  BY <1>0, <1>t, SweepReturned
<1>f. PICK fill : fill = Least(Fill(table[b], now), Burst)
  OBVIOUS
<1>3. /\ \/ /\ ~table[b].held /\ bs' = table /\ Deny(r)
         \/ /\ ~table[b].held /\ Cardinality(Tracked(table, g)) < MaxBuckets
            /\ bs' = [table EXCEPT ![b] = Charged(Burst - Cost, now)] /\ Admit(r, b, now)
         \/ /\ table[b].held /\ fill >= Cost
            /\ bs' = [table EXCEPT ![b] = Charged(fill - Cost, now)] /\ Admit(r, b, now)
         \/ /\ table[b].held /\ fill < Cost
            /\ bs' = [table EXCEPT ![b] = Charged(fill, now)] /\ Deny(r)
  BY <1>g, <1>b, <1>t, <1>f DEF AllowPerIP
<1>4. Leave(r) \/ Goto(r, "slot")
  BY <1>3 DEF Admit, Deny
<1>5. SlotsKept'
  <2>1. req'[r].pc # "serving" /\ \A u \in Reqs : u # r => req'[u] = req[u]
    BY <1>0, <1>4, GotoReq, LeaveReq DEF Pcs
  <2> QED BY <1>0, <2>1, ServingFrame, SlotsFrame DEF Returned
<1>6. /\ Cost \in Nat /\ Burst \in Nat /\ Cost <= Burst /\ Lag \in Nat
      /\ table[b].tokens \in Int /\ table[b].last \in Nat
  BY <1>1, BucketFields, RatesAssumption, LimitsAssumption
<1>7. CASE bs' = table
  <2>1. NoDebt'
    BY <1>0, <1>2, <1>7 DEF Returned, NoDebt, Fill
  <2>2. TablesKept'
    <3>1. \A c \in Gens : Tracked(bs, c)' = Tracked(table, c)
      BY <1>7 DEF Tracked
    <3>2. \A c \in Gens : \A d \in Tracked(table, c) : table[d] = bs[d]
      BY <1>2 DEF Tracked
    <3> QED BY <1>2, <1>7, <3>1, <3>2 DEF TablesKept
  <2> QED BY <1>5, <2>1, <2>2 DEF Returned
<1>8. ASSUME NEW t \in Int, 0 <= t + Lag, 0 <= t + (clock - now),
             bs' = [table EXCEPT ![b] = Charged(t, now)],
             table[b].held \/ Cardinality(Tracked(table, g)) < MaxBuckets
      PROVE  Returned'
  BY <1>b, <1>t, <1>0, <1>1, <1>5, <1>8, ChargedReturned DEF Returned
<1>9. fill \in Int
  BY <1>0, <1>6, <1>f DEF Fill, Least
<1>10. CASE ~table[b].held /\ Cardinality(Tracked(table, g)) < MaxBuckets
            /\ bs' = [table EXCEPT ![b] = Charged(Burst - Cost, now)]
  <2>1. Burst - Cost \in Int /\ 0 <= (Burst - Cost) + Lag /\ 0 <= (Burst - Cost) + (clock - now)
    BY <1>0, <1>6
  <2> QED BY <1>8, <1>10, <2>1
<1>11. CASE table[b].held /\ fill >= Cost /\ bs' = [table EXCEPT ![b] = Charged(fill - Cost, now)]
  <2>1. fill - Cost \in Int /\ 0 <= (fill - Cost) + Lag /\ 0 <= (fill - Cost) + (clock - now)
    BY <1>0, <1>6, <1>9, <1>11
  <2> QED BY <1>8, <1>11, <2>1
<1>12. CASE table[b].held /\ fill < Cost /\ bs' = [table EXCEPT ![b] = Charged(fill, now)]
  <2>1. 0 <= table[b].tokens + (clock - table[b].last)
    BY <1>2, <1>12 DEF Returned, NoDebt, Fill
  <2>2. fill = table[b].tokens + (now - table[b].last)
    BY <1>0, <1>6, <1>f, <1>12 DEF Fill, Least
  <2>3. 0 <= fill + Lag /\ 0 <= fill + (clock - now)
    BY <1>0, <1>6, <1>9, <2>1, <2>2
  <2> QED BY <1>8, <1>9, <1>12, <2>3
<1> QED BY <1>3, <1>7, <1>10, <1>11, <1>12

LEMMA StepReturned == Inv /\ Returned /\ [Next]_vars => Returned'
<1> SUFFICES ASSUME Inv, Returned, [Next]_vars PROVE Returned'
  OBVIOUS
<1>1. CASE UNCHANGED vars
  <2>1. UNCHANGED <<bs, lastSweep, clock, inFlight, req>>
    BY <1>1 DEF vars, ipVars
  <2>2. \A g \in Gens : Serving(g)' = Serving(g)
    BY <2>1 DEF Serving
  <2> QED BY <2>1, <2>2, SlotsFrame, TablesFrame DEF Returned
<1>2. ASSUME NEW r \in Reqs,
             \/ \E k \in Keys : Arrive(r, k)
             \/ ReadClock(r) \/ AllowGlobal(r) \/ AllowPerIP(r) \/ Acquire(r) \/ Release(r)
      PROVE  Returned'
  BY <1>2, MoveReturned, PerIPReturned, AcquireReturned, ReleaseReturned
<1> QED BY <1>1, <1>2, ReloadReturned, TickReturned DEF Next

(* No table of addresses outgrows its cap or keeps an address that has     *)
(* gone idle past a sweep, and the slots in use are those of requests that *)
(* are served, for any number of requests, addresses and reloads           *)
(* (sweepLocked, Acquire, the deferred release).                           *)
THEOREM ReturnCorrect == Spec => []GivenBack
<1>1. Returned => GivenBack
  BY DEF Returned, SlotsKept, TablesKept, Serving, GivenBack, IdleEvicted, SlotsExact
<1>2. Spec => []Returned
  BY Invariance, InitReturned, StepReturned, PTL DEF Spec
<1> QED BY <1>1, <1>2, PTL
=============================================================================
