--------------------------- MODULE TrafficProofs ---------------------------
(***************************************************************************)
(* What holds of Traffic for any domains, listeners, overlapping requests, *)
(* reloads and lengths of the window: types, counters that lose nothing,   *)
(* a ring that is exact in every second of its window and in its sum, and  *)
(* a shutdown that cuts nobody off before its deadline.                    *)
(***************************************************************************)
EXTENDS Traffic, FiniteSetTheorems, WellFoundedInduction, TLAPS

-----------------------------------------------------------------------------
(* The inductive invariant, in parts.                                      *)
ToTotal  == {"lookup", "route", "answer", "create", "total"}
ToRecord == ToTotal \cup {"record"}
In(S) == {r \in Reqs : req[r].pc \in S}

(* What a request has, where it is.                                        *)
Requests == \A r \in Reqs :
  /\ req[r].pc # "idle" => req[r].lis \in Listeners
  /\ req[r].pc \in ToRecord => req[r].dom \in Domains
  /\ req[r].pc \in {"total", "record"} => req[r].id \in 1 .. Len(stat)
  /\ req[r].pc = "record" => req[r].now <= clock /\ clock <= req[r].now + Lag

(* Statistics are handed out in turn, and what has not been is untouched.  *)
IdsKnown ==
  /\ \A d \in Domains : stats[d] \in 0 .. Len(stat)
  /\ \A s \in Ids : s > Len(stat) => \A t \in Times : seen[s][t] = 0

(* No counter is ahead of what was accepted and is not still to come.      *)
Budget ==
  /\ Cardinality(In(ToRecord)) <= accepted
  /\ \A s \in 1 .. Len(stat) : stat[s].total + Cardinality(In(ToTotal)) <= accepted
  /\ \A d \in Domains : counted[d] + Cardinality(In(ToTotal)) <= accepted
  /\ \A s \in Ids : \A t \in Times : seen[s][t] + Cardinality(In(ToRecord)) <= accepted
  /\ \A s \in 1 .. Len(stat) : \A i \in Slots :
       stat[s].ring[i].reqs + Cardinality(In(ToRecord)) <= accepted

(* No statistics belong to two domains, a request that is about to count   *)
(* counts for its own, and for a steady domain for those that are shown.   *)
OwnStats ==
  /\ \A d, e \in Domains : stats[d] = stats[e] /\ stats[d] # 0 => d = e
  /\ \A r \in Reqs : req[r].pc = "total" =>
       /\ \A d \in Domains : stats[d] = req[r].id => d = req[r].dom
       /\ req[r].dom \in Steady => stats[req[r].dom] = req[r].id
  /\ reload.pc # "idle" => Steady \subseteq reload.sites

(* In every second of the window the ring holds what was recorded in it.   *)
RingPast == \A s \in 1 .. Len(stat) : \A i \in Slots : stat[s].ring[i].ts <= clock
SecondsExact ==
  \A s \in 1 .. Len(stat) : \A t \in Times : clock - t < Buckets =>
    seen[s][t] = IF stat[s].ring[Slot(t)].ts = t THEN stat[s].ring[Slot(t)].reqs ELSE 0

(* The listeners whose turn is over are closed, and quiet before the       *)
(* deadline.                                                               *)
ShutInTurn == \A i \in 1 .. Len(Order) : i < server.turn =>
  Order[i] \notin server.open /\ (server.expired \/ Quiet(Order[i]))

Inv == /\ TypeOK /\ Requests /\ IdsKnown /\ Budget /\ OwnStats /\ Counted
       /\ RingPast /\ SecondsExact /\ ShutInTurn /\ CutOnlyLate
-----------------------------------------------------------------------------
(* Numbers, records and sets of requests.                                  *)

LEMMA SlotInRing ==
  ASSUME NEW t \in Nat PROVE Slot(t) \in Slots
<1>1. \A b \in Nat \ {0} : t % b \in 0 .. b - 1
  OBVIOUS
<1> QED
  BY <1>1, TrafficAssumption DEF Slot, Slots

LEMMA Division ==
  ASSUME NEW n \in Nat, NEW b \in Nat \ {0}
  PROVE  \E q \in Int, m \in 0 .. b - 1 : n = b * q + m /\ m = n % b
BY SMTT(60)

(* Two seconds of one bucket are at least a window apart.                  *)
LEMMA SameSlot ==
  ASSUME NEW t \in Nat, NEW u \in Nat, Slot(t) = Slot(u), t < u
  PROVE  t + Buckets <= u
<1>0. PICK b \in Nat \ {0} : b = Buckets
  BY TrafficAssumption
<1>1. t % b = u % b
  BY <1>0 DEF Slot
<1>2. PICK p \in Int, k \in 0 .. b - 1 : t = b * p + k /\ k = t % b
  BY Division
<1>3. PICK q \in Int, m \in 0 .. b - 1 : u = b * q + m /\ m = u % b
  BY Division
<1>7. t = b * p + m /\ m \in Int
  BY <1>1, <1>2, <1>3
<1>4. p < q
  <2>1. ASSUME p >= q PROVE FALSE
    <3>1. b * p >= b * q
      BY <1>0, <1>3, <1>7, <2>1, SMTT(30)
    <3>2. b * p \in Int /\ b * q \in Int
      OBVIOUS
    <3> QED
      BY <1>3, <1>7, <3>1, <3>2
  <2> QED
    BY <2>1
<1>5. b * p + b <= b * q
  <2>1. b * (q - p - 1) >= 0
    BY <1>4, SMTT(30)
  <2>2. b * (q - p - 1) = b * q - b * p - b
    BY SMTT(30)
  <2>3. b * p \in Int /\ b * q \in Int
    OBVIOUS
  <2> QED
    BY <2>1, <2>2, <2>3
<1>6. b * p \in Int /\ b * q \in Int
  OBVIOUS
<1> QED
  BY <1>0, <1>3, <1>7, <1>5, <1>6

LEMMA RequestFields ==
  ASSUME NEW x \in Request
  PROVE  /\ x.pc \in {"idle", "admin", "lookup", "route", "answer", "create", "total", "record"}
         /\ x.lis \in Listeners \cup {None} /\ x.dom \in Domains \cup {None}
         /\ x.id \in Ids \cup {0} /\ x.now \in Times
BY DEF Request

LEMMA IdleIsRequest == Idle \in Request /\ Idle.pc = "idle"
BY TrafficAssumption DEF Idle, Request, Times

LEMMA SiteFields ==
  ASSUME NEW x \in Site
  PROVE  /\ x.total \in 0 .. MaxReqs /\ x.ring \in [Slots -> Bucket]
         /\ \A i \in Slots : /\ x.ring[i] \in Bucket /\ x.ring[i].reqs \in 0 .. MaxReqs
                             /\ x.ring[i].ts \in Int /\ x.ring[i].ts \in Times \cup {0 - Buckets}
BY TrafficAssumption DEF Site, Bucket, Times

LEMMA NewSiteTyped ==
  /\ NewSite \in Site /\ NewSite.total = 0
  /\ \A i \in Slots : NewSite.ring[i] = Empty /\ Empty.reqs = 0 /\ Empty.ts = 0 - Buckets
<1>1. Empty \in Bucket /\ Empty.reqs = 0 /\ Empty.ts = 0 - Buckets
  BY TrafficAssumption DEF Empty, Bucket
<1> QED
  BY <1>1, TrafficAssumption DEF NewSite, Site

LEMMA ListenersOpen == Listeners # {} /\ None \notin Listeners /\ Len(Order) \in Nat \ {0}
<1>1. Order \in Seq(STRING) /\ Order # <<>>
  BY TrafficAssumption
<1>2. Len(Order) \in Nat /\ Len(Order) # 0 /\ DOMAIN Order = 1 .. Len(Order)
  BY <1>1
<1>3. \A i \in 1 .. Len(Order) : Order[i] \in STRING
  BY <1>1
<1> QED
  BY <1>2, <1>3, TrafficAssumption DEF Listeners

Others(r) ==
  /\ req' \in [Reqs -> Request]
  /\ \A q \in Reqs : q # r => req'[q] = req[q]

LEMMA SetOthers ==
  ASSUME req \in [Reqs -> Request], NEW r \in Reqs, NEW x \in Request, req' = [req EXCEPT ![r] = x]
  PROVE  Others(r) /\ req'[r] = x
BY DEF Others

LEMMA AnsweredIdles ==
  ASSUME req \in [Reqs -> Request], NEW r \in Reqs, Answered(r)
  PROVE  Others(r) /\ req'[r].pc = "idle"
BY SetOthers, IdleIsRequest DEF Answered

LEMMA GotoGoes ==
  ASSUME req \in [Reqs -> Request], NEW r \in Reqs, NEW pc \in {"route", "answer"}, Goto(r, pc)
  PROVE  /\ Others(r) /\ req'[r].pc = pc /\ req'[r].lis = req[r].lis
         /\ req'[r].dom = req[r].dom /\ req'[r].id = req[r].id
<1>1. [req[r] EXCEPT !.pc = pc] \in Request
  BY DEF Request
<1>2. req' = [req EXCEPT ![r] = [req[r] EXCEPT !.pc = pc]]
  BY DEF Goto
<1>3. Others(r) /\ req'[r] = [req[r] EXCEPT !.pc = pc]
  BY <1>1, <1>2, SetOthers
<1> QED
  BY <1>3, RequestFields DEF Request

LEMMA InFinite ==
  ASSUME NEW S
  PROVE  IsFiniteSet(In(S)) /\ Cardinality(In(S)) \in Nat
<1>1. In(S) \subseteq Reqs
  BY DEF In
<1> QED
  BY <1>1, TrafficAssumption, FS_Subset, FS_CardinalityType

(* A request that does not come to S leaves it no larger.                  *)
LEMMA InShrinks ==
  ASSUME NEW S, NEW r \in Reqs, Others(r), req'[r].pc \in S => req[r].pc \in S
  PROVE  Cardinality(In(S)') <= Cardinality(In(S)) /\ Cardinality(In(S)') \in Nat
<1>1. In(S)' \subseteq In(S)
  BY DEF In, Others
<1> QED
  BY <1>1, InFinite, FS_Subset, FS_CardinalityType

LEMMA InLoses ==
  ASSUME NEW S, NEW r \in Reqs, Others(r), req[r].pc \in S, req'[r].pc \notin S
  PROVE  Cardinality(In(S)') = Cardinality(In(S)) - 1 /\ Cardinality(In(S)') \in Nat
<1>1. In(S)' = In(S) \ {r} /\ r \in In(S)
  BY DEF In, Others
<1>2. IsFiniteSet(In(S)')
  BY <1>1, InFinite, FS_RemoveElement
<1> QED
  BY <1>1, <1>2, InFinite, FS_RemoveElement, FS_CardinalityType

LEMMA InGrows ==
  ASSUME NEW S, NEW r \in Reqs, Others(r)
  PROVE  Cardinality(In(S)') <= Cardinality(In(S)) + 1 /\ Cardinality(In(S)') \in Nat
<1>1. In(S)' \subseteq In(S) \cup {r}
  BY DEF In, Others
<1>2. IsFiniteSet(In(S) \cup {r}) /\ Cardinality(In(S) \cup {r}) <= Cardinality(In(S)) + 1
  <2>1. IsFiniteSet(In(S)) /\ Cardinality(In(S)) \in Nat
    BY InFinite
  <2>2. /\ IsFiniteSet(In(S) \cup {r})
        /\ Cardinality(In(S) \cup {r}) \in {Cardinality(In(S)), Cardinality(In(S)) + 1}
    BY <2>1, FS_AddElement
  <2> QED
    BY <2>1, <2>2
<1>3. Cardinality(In(S)') <= Cardinality(In(S) \cup {r}) /\ Cardinality(In(S)') \in Nat
  BY <1>1, <1>2, FS_Subset, FS_CardinalityType
<1>4. Cardinality(In(S) \cup {r}) \in Nat
  BY <1>2, FS_CardinalityType
<1> QED
  BY <1>2, <1>3, <1>4, InFinite
-----------------------------------------------------------------------------
(* Steps that leave a part of the invariant alone.                         *)

LEMMA StatTyped ==
  ASSUME TypeOK
  PROVE  /\ Len(stat) \in Nat /\ clock \in Nat /\ accepted \in Nat /\ Lag \in Nat /\ Buckets \in Nat \ {0}
         /\ \A s \in 1 .. Len(stat) : /\ stat[s] \in Site /\ s \in Ids
BY TrafficAssumption DEF TypeOK, Times, Ids

LEMMA InvInit == Init => Inv
<1> SUFFICES ASSUME Init PROVE Inv
  OBVIOUS
<1> USE DEF Init
<1>0. /\ \A r \in Reqs : req[r] = Idle /\ req[r].pc = "idle" /\ Idle \in Request
      /\ stat = <<>> /\ Len(stat) = 0 /\ stat \in Seq(Site) /\ Len(Order) \in Nat \ {0}
      /\ MaxReqs \in Nat /\ MaxTime \in Nat /\ MaxReloads \in Nat /\ MaxStats \in Nat
  BY IdleIsRequest, ListenersOpen, TrafficAssumption
<1>1. TypeOK
  <2>1. req \in [Reqs -> Request] /\ clock \in Times /\ accepted \in 0 .. MaxReqs
    BY <1>0 DEF Times
  <2>2. seen \in [Ids -> [Times -> 0 .. MaxReqs]] /\ counted \in [Domains -> 0 .. MaxReqs]
    BY <1>0
  <2>3. server \in [phase : {"up", "told", "draining", "exited"}, open : SUBSET Listeners,
                    turn : 1 .. Len(Order) + 1, expired : BOOLEAN, cut : SUBSET Reqs]
    BY <1>0
  <2>4. reload \in [pc : {"idle", "install", "prune"}, sites : SUBSET Domains, n : 0 .. MaxReloads]
    BY <1>0
  <2>5. stats \in [Domains -> Ids \cup {0}] /\ Len(stat) <= MaxStats
    BY <1>0
  <2>6. index \subseteq Domains /\ routes \subseteq Domains
    OBVIOUS
  <2> QED
    BY <1>0, <2>1, <2>2, <2>3, <2>4, <2>5, <2>6 DEF TypeOK
<1>2. Requests
  BY <1>0 DEF Requests, ToRecord, ToTotal
<1>3. IdsKnown
  BY <1>0 DEF IdsKnown
<1>4. Budget
  <2>1. In(ToRecord) = {} /\ In(ToTotal) = {}
    BY <1>0 DEF In, ToRecord, ToTotal
  <2>2. Cardinality({}) = 0
    BY FS_EmptySet
  <2>3. accepted = 0 /\ Cardinality(In(ToRecord)) = 0 /\ Cardinality(In(ToTotal)) = 0
    BY <2>1, <2>2
  <2>4. /\ \A s \in Ids : \A t \in Times : seen[s][t] = 0
        /\ \A d \in Domains : counted[d] = 0
    OBVIOUS
  <2> QED
    BY <1>0, <2>3, <2>4 DEF Budget
<1>5. OwnStats
  BY <1>0, TrafficAssumption DEF OwnStats
<1>6. Counted /\ CutOnlyLate
  BY TrafficAssumption DEF Counted, CutOnlyLate
<1>7. RingPast /\ SecondsExact
  BY <1>0 DEF RingPast, SecondsExact
<1>8. ShutInTurn
  BY <1>0 DEF ShutInTurn
<1> QED
  BY <1>1, <1>2, <1>3, <1>4, <1>5, <1>6, <1>7, <1>8 DEF Inv

(* No more requests are under way than before, or one more and accepted.   *)
LEMMA BudgetFrame ==
  ASSUME Inv, UNCHANGED <<stat, seen, counted>>, accepted' \in Nat,
         Cardinality(In(ToTotal)') \in Nat, Cardinality(In(ToRecord)') \in Nat,
         Cardinality(In(ToTotal)') - Cardinality(In(ToTotal)) <= accepted' - accepted,
         Cardinality(In(ToRecord)') - Cardinality(In(ToRecord)) <= accepted' - accepted
  PROVE  Budget'
<1>1. Cardinality(In(ToTotal)) \in Nat /\ Cardinality(In(ToRecord)) \in Nat /\ accepted \in Nat
  BY InFinite, StatTyped DEF Inv
<1>2. \A s \in 1 .. Len(stat) : /\ stat[s].total \in Int
                                /\ \A i \in Slots : stat[s].ring[i].reqs \in Int
  BY StatTyped, SiteFields DEF Inv
<1>3. /\ \A d \in Domains : counted[d] \in Int
      /\ \A s \in Ids : \A t \in Times : seen[s][t] \in Int
  BY TrafficAssumption DEF Inv, TypeOK
<1>4. PICK x \in Nat, y \in Nat, xx \in Nat, yy \in Nat, a \in Nat, aa \in Nat :
        /\ x = Cardinality(In(ToTotal)) /\ y = Cardinality(In(ToRecord))
        /\ xx = Cardinality(In(ToTotal)') /\ yy = Cardinality(In(ToRecord)')
        /\ a = accepted /\ aa = accepted'
  BY <1>1
<1>5. /\ y <= a
      /\ \A s \in 1 .. Len(stat) : stat[s].total + x <= a
      /\ \A d \in Domains : counted[d] + x <= a
      /\ \A s \in Ids : \A t \in Times : seen[s][t] + y <= a
      /\ \A s \in 1 .. Len(stat) : \A i \in Slots : stat[s].ring[i].reqs + y <= a
  BY <1>4 DEF Inv, Budget
<1>6. xx - x <= aa - a /\ yy - y <= aa - a
  BY <1>4
<1>7. /\ yy <= aa
      /\ \A s \in 1 .. Len(stat) : stat[s].total + xx <= aa
      /\ \A d \in Domains : counted[d] + xx <= aa
      /\ \A s \in Ids : \A t \in Times : seen[s][t] + yy <= aa
      /\ \A s \in 1 .. Len(stat) : \A i \in Slots : stat[s].ring[i].reqs + yy <= aa
  <2>1. yy <= aa
    BY <1>5, <1>6
  <2>2. \A n \in Int : (n + x <= a => n + xx <= aa) /\ (n + y <= a => n + yy <= aa)
    BY <1>6
  <2> QED
    BY <1>2, <1>3, <1>5, <2>1, <2>2
<1>8. /\ Cardinality(In(ToRecord)') <= accepted'
      /\ \A s \in 1 .. Len(stat') : stat'[s].total + Cardinality(In(ToTotal)') <= accepted'
      /\ \A d \in Domains : counted'[d] + Cardinality(In(ToTotal)') <= accepted'
      /\ \A s \in Ids : \A t \in Times : seen'[s][t] + Cardinality(In(ToRecord)') <= accepted'
      /\ \A s \in 1 .. Len(stat') : \A i \in Slots : stat'[s].ring[i].reqs + Cardinality(In(ToRecord)') <= accepted'
  BY <1>4, <1>7
<1> QED
  BY <1>8 DEF Budget

LEMMA RingFrame ==
  ASSUME Inv, UNCHANGED <<stat, seen, clock>>
  PROVE  RingPast' /\ SecondsExact' /\ \A s \in Ids : s > Len(stat') => \A t \in Times : seen'[s][t] = 0
BY DEF Inv, RingPast, SecondsExact, IdsKnown, Slot

(* A request moves on, comes to its end, or comes in by an open listener.  *)
LEMMA ShutFrame ==
  ASSUME Inv, NEW r \in Reqs, Others(r), UNCHANGED server,
         req'[r].pc # "idle" => \/ req[r].pc # "idle" /\ req'[r].lis = req[r].lis
                                \/ req'[r].lis \in server.open
  PROVE  ShutInTurn' /\ CutOnlyLate'
<1>1. CutOnlyLate'
  BY DEF Inv, CutOnlyLate
<1>2. ShutInTurn'
  <2> SUFFICES ASSUME NEW i \in 1 .. Len(Order), i < server.turn
               PROVE  Order[i] \notin server.open /\ (server.expired \/ Quiet(Order[i])')
    BY DEF ShutInTurn
  <2>1. Order[i] \notin server.open /\ (server.expired \/ Quiet(Order[i]))
    BY DEF Inv, ShutInTurn
  <2>2. Quiet(Order[i]) => Quiet(Order[i])'
    BY <2>1 DEF Quiet, Active, Others
  <2> QED
    BY <2>1, <2>2
<1> QED
  BY <1>1, <1>2

(* A step of one request that leaves the counters alone.                   *)
LEMMA MoveKeeps ==
  ASSUME Inv, NEW r \in Reqs, Others(r), UNCHANGED <<tables, registry, clock, server>>,
         req'[r].pc # "idle" =>
           /\ req'[r].lis \in Listeners
           /\ \/ req[r].pc # "idle" /\ req'[r].lis = req[r].lis
              \/ req'[r].lis \in server.open,
         req'[r].pc \in ToRecord => req'[r].dom \in Domains,
         req'[r].pc # "record",
         req'[r].pc = "total" => req'[r].id = stats[req'[r].dom] /\ req'[r].id # 0,
         accepted' \in 0 .. MaxReqs,
         \/ accepted' = accepted /\ \A S \in {ToTotal, ToRecord} : req'[r].pc \in S => req[r].pc \in S
         \/ accepted' = accepted + 1
  PROVE  Inv'
<1> USE DEF tables, registry
<1>1. TypeOK'
  BY DEF Inv, TypeOK, Others
<1>2. Requests'
  <2>1. req'[r].pc = "total" => req'[r].id \in 1 .. Len(stat)
    <3> SUFFICES ASSUME req'[r].pc = "total" PROVE req'[r].id \in 1 .. Len(stat)
      OBVIOUS
    <3>1. req'[r].dom \in Domains /\ req'[r].id = stats[req'[r].dom] /\ req'[r].id # 0
      BY DEF ToRecord, ToTotal
    <3>2. req'[r].id \in 0 .. Len(stat) /\ Len(stat) \in Nat
      BY <3>1, StatTyped DEF Inv, IdsKnown
    <3> QED
      BY <3>1, <3>2
  <2> QED
    BY <2>1 DEF Inv, Requests, Others
<1>3. IdsKnown'
  BY DEF Inv, IdsKnown
<1>4. Budget'
  <2>1. accepted \in Nat /\ accepted' \in Nat
    BY StatTyped, TrafficAssumption DEF Inv
  <2>2. ASSUME NEW S \in {ToTotal, ToRecord}
        PROVE  /\ Cardinality(In(S)') \in Nat
               /\ Cardinality(In(S)') - Cardinality(In(S)) <= accepted' - accepted
    <3>1. Cardinality(In(S)) \in Nat
      BY InFinite
    <3>2. CASE accepted' = accepted /\ (req'[r].pc \in S => req[r].pc \in S)
      BY <2>1, <3>1, <3>2, InShrinks
    <3>3. CASE accepted' = accepted + 1
      BY <2>1, <3>1, <3>3, InGrows
    <3> QED
      BY <3>2, <3>3
  <2> QED
    BY <2>1, <2>2, BudgetFrame
<1>5. OwnStats' /\ Counted'
  BY DEF Inv, OwnStats, Counted, Others, ToRecord, ToTotal
<1>6. RingPast' /\ SecondsExact'
  BY RingFrame
<1>7. ShutInTurn' /\ CutOnlyLate'
  BY ShutFrame
<1> QED
  BY <1>1, <1>2, <1>3, <1>4, <1>5, <1>6, <1>7 DEF Inv
-----------------------------------------------------------------------------
(* Reloads, and requests that only move.                                   *)

(* A reload: nobody moves, and no steady domain is pruned.                 *)
LEMMA ReloadKeeps ==
  ASSUME Inv, UNCHANGED <<stat, seen, counted, req, accepted, clock, server>>,
         index' \subseteq Domains, routes' \subseteq Domains,
         reload' \in [pc : {"idle", "install", "prune"}, sites : SUBSET Domains, n : 0 .. MaxReloads],
         reload'.pc # "idle" => Steady \subseteq reload'.sites,
         stats' \in [Domains -> Ids \cup {0}],
         \A d \in Domains : stats'[d] = stats[d] \/ (d \notin Steady /\ stats'[d] = 0)
  PROVE  Inv'
<1>1. TypeOK'
  BY DEF Inv, TypeOK
<1>2. Requests'
  BY DEF Inv, Requests
<1>3. IdsKnown'
  BY StatTyped DEF Inv, IdsKnown
<1>4. Budget'
  BY DEF Inv, Budget, In
<1>5. OwnStats'
  <2>0. \A r \in Reqs : req[r].pc = "total" => req[r].id # 0
    BY StatTyped DEF Inv, Requests
  <2> QED
    BY <2>0, TrafficAssumption DEF Inv, OwnStats
<1>6. Counted'
  BY TrafficAssumption DEF Inv, Counted
<1>7. RingPast' /\ SecondsExact'
  BY RingFrame
<1>8. ShutInTurn' /\ CutOnlyLate'
  BY DEF Inv, ShutInTurn, CutOnlyLate, Quiet, Active
<1> QED
  BY <1>1, <1>2, <1>3, <1>4, <1>5, <1>6, <1>7, <1>8 DEF Inv

LEMMA ReplaceKeeps ==
  ASSUME Inv, NEW S \in SUBSET Domains, Steady \subseteq S, Replace(S)
  PROVE  Inv'
<1>1. reload.n + 1 \in 0 .. MaxReloads /\ reload.n \in Nat
  BY TrafficAssumption DEF Replace, Inv, TypeOK
<1>2. /\ reload' \in [pc : {"idle", "install", "prune"}, sites : SUBSET Domains, n : 0 .. MaxReloads]
      /\ reload'.sites = S
  BY <1>1 DEF Replace
<1>3. /\ UNCHANGED <<stat, seen, counted, req, accepted, clock, server>>
      /\ index' \subseteq Domains /\ routes' \subseteq Domains
      /\ stats' \in [Domains -> Ids \cup {0}] /\ stats' = stats
  BY DEF Replace, registry, Inv, TypeOK
<1>4. \A d \in Domains : stats'[d] = stats[d] \/ (d \notin Steady /\ stats'[d] = 0)
  BY <1>3
<1>5. reload'.pc # "idle" => Steady \subseteq reload'.sites
  BY <1>2
<1> QED
  BY <1>2, <1>3, <1>4, <1>5, ReloadKeeps

LEMMA InstallKeeps == ASSUME Inv, Install PROVE Inv'
<1>1. /\ reload' \in [pc : {"idle", "install", "prune"}, sites : SUBSET Domains, n : 0 .. MaxReloads]
      /\ reload'.sites = reload.sites /\ reload.sites \subseteq Domains /\ reload.pc = "install"
  BY DEF Install, Inv, TypeOK
<1>2. Steady \subseteq reload'.sites
  BY <1>1 DEF Inv, OwnStats
<1>3. /\ UNCHANGED <<stat, seen, counted, req, accepted, clock, server>>
      /\ index' \subseteq Domains /\ routes' \subseteq Domains
      /\ stats' \in [Domains -> Ids \cup {0}] /\ stats' = stats
  BY <1>1 DEF Install, registry, Inv, TypeOK
<1>4. \A d \in Domains : stats'[d] = stats[d] \/ (d \notin Steady /\ stats'[d] = 0)
  BY <1>3
<1> QED
  BY <1>1, <1>2, <1>3, <1>4, ReloadKeeps

LEMMA PruneKeeps == ASSUME Inv, Prune PROVE Inv'
<1>1. /\ reload' \in [pc : {"idle", "install", "prune"}, sites : SUBSET Domains, n : 0 .. MaxReloads]
      /\ reload'.pc = "idle" /\ Steady \subseteq reload.sites
  BY DEF Prune, Inv, TypeOK, OwnStats
<1>2. /\ stats' \in [Domains -> Ids \cup {0}]
      /\ \A d \in Domains : stats'[d] = stats[d] \/ (d \notin Steady /\ stats'[d] = 0)
  <2>1. stats' = [d \in Domains |-> IF d \in reload.sites THEN stats[d] ELSE 0]
    BY DEF Prune, Pruned
  <2>2. stats \in [Domains -> Ids \cup {0}]
    BY DEF Inv, TypeOK
  <2>3. stats' \in [Domains -> Ids \cup {0}]
    BY <2>1, <2>2
  <2>4. ASSUME NEW d \in Domains PROVE stats'[d] = stats[d] \/ (d \notin Steady /\ stats'[d] = 0)
    BY <1>1, <2>1
  <2> QED
    BY <2>3, <2>4
<1> QED
  BY <1>1, <1>2, ReloadKeeps DEF Prune, Inv, TypeOK

LEMMA ArriveKeeps ==
  ASSUME Inv, NEW r \in Reqs, NEW l \in Listeners, NEW d \in Domains, Arrive(r, l, d)
  PROVE  Inv'
<1> USE DEF Arrive
<1>0. accepted' = accepted + 1 /\ accepted' \in 0 .. MaxReqs /\ req[r].pc = "idle"
  BY TrafficAssumption DEF Inv, TypeOK
<1>1. CASE req' = req
  <2>1. Others(r) /\ req'[r].pc = "idle"
    BY <1>0, <1>1 DEF Others, Inv, TypeOK
  <2> QED
    BY <1>0, <2>1, MoveKeeps DEF ToRecord, ToTotal
<1>2. ASSUME NEW x \in Request, x.pc \in {"admin", "lookup"}, x.lis = l, x.pc = "lookup" => x.dom = d,
             req' = [req EXCEPT ![r] = x]
      PROVE  Inv'
  <2>1. Others(r) /\ req'[r] = x
    BY <1>2, SetOthers DEF Inv, TypeOK
  <2> QED
    BY <1>0, <1>2, <2>1, MoveKeeps DEF ToRecord, ToTotal
<1>3. CASE req' = [req EXCEPT ![r] = [Idle EXCEPT !.pc = "admin", !.lis = l]]
  <2>1. [Idle EXCEPT !.pc = "admin", !.lis = l] \in Request
    BY IdleIsRequest DEF Idle, Request
  <2> QED
    BY <1>2, <1>3, <2>1 DEF Idle
<1>4. CASE req' = [req EXCEPT ![r] = [Idle EXCEPT !.pc = "lookup", !.lis = l, !.dom = d]]
  <2>1. [Idle EXCEPT !.pc = "lookup", !.lis = l, !.dom = d] \in Request
    BY IdleIsRequest DEF Idle, Request
  <2> QED
    BY <1>2, <1>4, <2>1 DEF Idle
<1> QED
  BY <1>1, <1>3, <1>4

LEMMA RequestTyped ==
  ASSUME Inv, NEW r \in Reqs
  PROVE  /\ req \in [Reqs -> Request] /\ accepted \in 0 .. MaxReqs
         /\ req[r].pc # "idle" => req[r].lis \in Listeners
         /\ req[r].pc \in ToRecord => req[r].dom \in Domains
BY DEF Inv, TypeOK, Requests

(* It has been answered, or turned away.                                   *)
LEMMA EndKeeps ==
  ASSUME Inv, NEW r \in Reqs, Answered(r), UNCHANGED <<tables, registry, accepted, clock, server>>
  PROVE  Inv'
<1>1. Others(r) /\ req'[r].pc = "idle"
  BY RequestTyped, AnsweredIdles
<1>2. "idle" \notin ToTotal /\ "idle" \notin ToRecord
  BY DEF ToTotal, ToRecord
<1> QED
  BY <1>1, <1>2, RequestTyped, MoveKeeps

LEMMA GotoKeeps ==
  ASSUME Inv, NEW r \in Reqs, NEW pc \in {"route", "answer"}, Goto(r, pc), req[r].pc \in {"lookup", "route"},
         UNCHANGED <<tables, registry, accepted, clock, server>>
  PROVE  Inv'
<1>1. /\ Others(r) /\ req'[r].pc = pc /\ req'[r].lis = req[r].lis
      /\ req'[r].dom = req[r].dom /\ req'[r].id = req[r].id
  BY RequestTyped, GotoGoes
<1>2. req[r].pc \in ToTotal /\ req[r].pc \in ToRecord /\ req'[r].pc # "record" /\ req'[r].pc # "total"
  BY <1>1 DEF ToTotal, ToRecord
<1> QED
  BY <1>1, <1>2, RequestTyped, MoveKeeps

LEMMA SiteForKeeps == ASSUME Inv, NEW r \in Reqs, SiteFor(r) PROVE Inv'
<1> USE DEF SiteFor
<1> DEFINE d == req[r].dom
           x == [req[r] EXCEPT !.id = stats[d], !.pc = IF stats[d] = 0 THEN "create" ELSE "total"]
<1>1. req[r] \in Request /\ req[r].pc = "answer" /\ d \in Domains /\ stats[d] \in Ids \cup {0}
  BY RequestTyped DEF Inv, TypeOK, ToRecord, ToTotal
<1>2. /\ x \in Request /\ x.pc \in {"create", "total"} /\ x.lis = req[r].lis /\ x.dom = req[r].dom
      /\ x.id = stats[d] /\ (x.pc = "total" => stats[d] # 0)
  BY <1>1 DEF Request
<1>3. req' = [req EXCEPT ![r] = x]
  OBVIOUS
<1> HIDE DEF x
<1>4. Others(r) /\ req'[r] = x
  BY <1>2, <1>3, SetOthers, RequestTyped
<1> QED
  BY <1>1, <1>2, <1>4, RequestTyped, MoveKeeps DEF ToRecord, ToTotal
-----------------------------------------------------------------------------
(* Requests that count.                                                    *)

LEMMA StatSet ==
  ASSUME TypeOK, NEW s \in 1 .. Len(stat), NEW x \in Site, stat' = [stat EXCEPT ![s] = x]
  PROVE  /\ stat' \in Seq(Site) /\ Len(stat') = Len(stat) /\ stat'[s] = x
         /\ \A t \in 1 .. Len(stat) : t # s => stat'[t] = stat[t]
<1>1. stat \in Seq(Site)
  BY DEF TypeOK
<1> QED
  BY <1>1

LEMMA StatGrows ==
  ASSUME TypeOK, stat' = Append(stat, NewSite)
  PROVE  /\ stat' \in Seq(Site) /\ Len(stat') = Len(stat) + 1 /\ stat'[Len(stat) + 1] = NewSite
         /\ \A t \in 1 .. Len(stat) : stat'[t] = stat[t]
<1>1. stat \in Seq(Site)
  BY DEF TypeOK
<1> QED
  BY <1>1, NewSiteTyped

(* The request is given the statistics of its domain, new or not.          *)
LEMMA GivenKeeps ==
  ASSUME Inv, NEW r \in Reqs, NEW id \in Ids, req[r].pc = "create",
         req' = [req EXCEPT ![r].id = id, ![r].pc = "total"], UNCHANGED <<tables, seen, counted, accepted, clock, server>>,
         stats' = [stats EXCEPT ![req[r].dom] = id],
         \/ stats[req[r].dom] = id /\ UNCHANGED stat
         \/ /\ stats[req[r].dom] = 0 /\ id = Len(stat) + 1
            /\ stat' = Append(stat, NewSite)
  PROVE  Inv'
<1> USE DEF tables
<1>d. PICK d \in Domains : d = req[r].dom
  BY RequestTyped DEF ToRecord, ToTotal
<1>0. PICK x \in Request : /\ req' = [req EXCEPT ![r] = x] /\ x.pc = "total" /\ x.id = id
                           /\ x.lis = req[r].lis /\ x.dom = d
  <2> DEFINE x == [req[r] EXCEPT !.id = id, !.pc = "total"]
  <2>1. x \in Request /\ x.pc = "total" /\ x.id = id /\ x.lis = req[r].lis /\ x.dom = d
    BY <1>d, RequestTyped DEF Request
  <2>2. req' = [req EXCEPT ![r] = x]
    OBVIOUS
  <2> QED
    BY <2>1, <2>2
<1>1. Others(r) /\ req'[r] = x
  BY <1>0, SetOthers, RequestTyped
<1>2. /\ stats' \in [Domains -> Ids \cup {0}] /\ stats'[d] = id /\ id # 0
      /\ \A e \in Domains : e # d => stats'[e] = stats[e]
  <2>1. stats \in [Domains -> Ids \cup {0}]
    BY Zenon DEF Inv, TypeOK
  <2>2. stats' = [stats EXCEPT ![d] = id]
    BY <1>d, Zenon
  <2>3. id # 0
    BY TrafficAssumption DEF Ids
  <2> QED
    BY <1>d, <2>1, <2>2, <2>3
<1>n. PICK n \in Nat : n = Len(stat)
  BY StatTyped DEF Inv
<1>3. /\ stat' \in Seq(Site) /\ Len(stat') \in {n, n + 1} /\ id \in 1 .. Len(stat')
      /\ \A s \in 1 .. n : stat'[s] = stat[s]
      /\ \A s \in 1 .. Len(stat') : s \in 1 .. n \/ (s = n + 1 /\ id = n + 1 /\ stat'[s] = NewSite)
      /\ Len(stat') <= MaxStats
  <2>1. CASE stats[d] = id /\ UNCHANGED stat
    <3>1. id \in 0 .. n
      BY <1>d, <1>n, <2>1 DEF Inv, IdsKnown
    <3>2. id \in 1 .. n
      BY <1>2, <3>1
    <3>3. stat' = stat /\ stat \in Seq(Site) /\ n <= MaxStats
      BY <1>n, <2>1 DEF Inv, TypeOK
    <3> QED
      BY <1>n, <3>2, <3>3
  <2>2. CASE id = n + 1 /\ stat' = Append(stat, NewSite)
    <3>1. /\ stat' \in Seq(Site) /\ Len(stat') = n + 1 /\ stat'[n + 1] = NewSite
          /\ \A t \in 1 .. n : stat'[t] = stat[t]
      BY <1>n, <2>2, StatGrows DEF Inv
    <3>2. n + 1 <= MaxStats
      BY <2>2, TrafficAssumption DEF Ids
    <3> QED
      BY <2>2, <3>1, <3>2
  <2> QED
    BY <1>d, <1>n, <2>1, <2>2
<1>4. TypeOK'
  <2>1. \A s \in 1 .. Len(stat') : \A i \in Slots :
          stat'[s].ring[i] # Empty => stat'[s].ring[i].ts % Buckets = i
    BY <1>3, <1>n, NewSiteTyped DEF Inv, TypeOK
  <2>2. req' \in [Reqs -> Request]
    BY <1>1 DEF Others
  <2> QED
    BY <1>2, <1>3, <2>1, <2>2 DEF Inv, TypeOK
<1>5. Requests'
  <2>1. \A i \in 1 .. n : i \in 1 .. Len(stat')
    BY <1>3
  <2> QED
    BY <1>0, <1>1, <1>3, <1>n, <2>1, RequestTyped DEF Inv, Requests, Others
<1>6. IdsKnown'
  <2>1. \A e \in Domains : stats'[e] \in 0 .. Len(stat')
    BY <1>2, <1>3, <1>n DEF Inv, IdsKnown
  <2>2. \A s \in Ids : s > Len(stat') => s > n
    BY <1>3, TrafficAssumption DEF Ids
  <2> QED
    BY <1>n, <2>1, <2>2 DEF Inv, IdsKnown
<1>7. Budget'
  <2>1. In(ToTotal)' = In(ToTotal) /\ In(ToRecord)' = In(ToRecord)
    BY <1>0, <1>1 DEF In, Others, ToTotal, ToRecord
  <2>2. Cardinality(In(ToTotal)) \in Nat /\ Cardinality(In(ToRecord)) \in Nat
    BY InFinite
  <2>3. Cardinality(In(ToTotal)) <= accepted /\ Cardinality(In(ToRecord)) <= accepted
    <3>1. In(ToTotal) \subseteq In(ToRecord)
      BY DEF In, ToRecord
    <3>2. Cardinality(In(ToTotal)) <= Cardinality(In(ToRecord))
      BY <3>1, InFinite, FS_Subset
    <3> QED
      BY <2>2, <3>2, StatTyped DEF Inv, Budget
  <2>4. \A s \in 1 .. Len(stat') : stat'[s].total + Cardinality(In(ToTotal)) <= accepted
    BY <1>3, <1>n, <2>2, <2>3, NewSiteTyped DEF Inv, Budget
  <2>5. \A s \in 1 .. Len(stat') : \A i \in Slots :
          stat'[s].ring[i].reqs + Cardinality(In(ToRecord)) <= accepted
    BY <1>3, <1>n, <2>2, <2>3, NewSiteTyped DEF Inv, Budget
  <2>6. /\ Cardinality(In(ToRecord)') <= accepted'
        /\ \A s \in 1 .. Len(stat') : stat'[s].total + Cardinality(In(ToTotal)') <= accepted'
        /\ \A e \in Domains : counted'[e] + Cardinality(In(ToTotal)') <= accepted'
        /\ \A s \in Ids : \A t \in Times : seen'[s][t] + Cardinality(In(ToRecord)') <= accepted'
        /\ \A s \in 1 .. Len(stat') : \A i \in Slots :
             stat'[s].ring[i].reqs + Cardinality(In(ToRecord)') <= accepted'
    BY <2>1, <2>3, <2>4, <2>5 DEF Inv, Budget
  <2> QED
    BY <2>6 DEF Budget
<1>8. OwnStats'
  <2>1. \A e \in Domains : stats[e] = id => e = d
    BY <1>d, <1>n, <1>2, StatTyped DEF Inv, OwnStats, IdsKnown
  <2>2. \A q \in Reqs : q # r /\ req[q].pc = "total" /\ req[q].id = id => req[q].dom = d
    BY <1>d, <1>n, <1>2 DEF Inv, OwnStats, Requests
  <2>3. \A q \in Reqs : q # r /\ req[q].pc = "total" /\ req[q].dom = d /\ d \in Steady => req[q].id = id
    BY <1>d, <1>n, <1>2 DEF Inv, OwnStats, Requests
  <2>4. \A q \in Reqs : q # r => req'[q] = req[q]
    BY <1>1 DEF Others
  <2>5. \A e, f \in Domains : stats'[e] = stats'[f] /\ stats'[e] # 0 => e = f
    BY <1>2, <2>1 DEF Inv, OwnStats
  <2>6. ASSUME NEW q \in Reqs, req'[q].pc = "total"
        PROVE  /\ \A e \in Domains : stats'[e] = req'[q].id => e = req'[q].dom
               /\ req'[q].dom \in Steady => stats'[req'[q].dom] = req'[q].id
    <3>1. CASE q = r
      BY <1>0, <1>1, <1>2, <2>1, <3>1
    <3>2. CASE q # r
      <4>1. /\ req'[q] = req[q] /\ req[q].pc = "total"
            /\ \A e \in Domains : stats[e] = req[q].id => e = req[q].dom
            /\ req[q].dom \in Steady => stats[req[q].dom] = req[q].id
        BY <2>4, <2>6, <3>2 DEF Inv, OwnStats
      <4>2. ASSUME NEW e \in Domains, stats'[e] = req[q].id PROVE e = req[q].dom
        <5>1. CASE e = d
          BY <1>2, <2>2, <3>2, <4>1, <4>2, <5>1
        <5>2. CASE e # d
          BY <1>2, <4>1, <4>2, <5>2
        <5> QED
          BY <5>1, <5>2
      <4>3. ASSUME req[q].dom \in Steady PROVE stats'[req[q].dom] = req[q].id
        <5>1. req[q].dom \in Domains
          BY <4>3, TrafficAssumption
        <5>2. CASE req[q].dom = d
          BY <1>2, <2>3, <3>2, <4>1, <4>3, <5>2
        <5>3. CASE req[q].dom # d
          BY <1>2, <4>1, <4>3, <5>1, <5>3
        <5> QED
          BY <5>2, <5>3
      <4> QED
        BY <4>1, <4>2, <4>3
    <3> QED
      BY <3>1, <3>2
  <2> QED
    BY <2>5, <2>6 DEF Inv, OwnStats
<1>9. Counted'
  <2> SUFFICES ASSUME NEW e \in Steady
               PROVE  counted[e] = IF stats'[e] = 0 THEN 0 ELSE stat'[stats'[e]].total
    BY DEF Counted
  <2>0. e \in Domains /\ counted[e] = IF stats[e] = 0 THEN 0 ELSE stat[stats[e]].total
    BY TrafficAssumption DEF Inv, Counted
  <2>1. CASE e # d
    <3>1. stats'[e] = stats[e] /\ stats[e] \in 0 .. n
      BY <1>2, <1>n, <2>0, <2>1 DEF Inv, IdsKnown
    <3>2. stats[e] # 0 => stat'[stats[e]] = stat[stats[e]]
      <4>1. stats[e] # 0 => stats[e] \in 1 .. n
        BY <3>1
      <4>2. \A s \in 1 .. n : stat'[s] = stat[s]
        BY <1>3
      <4> QED
        BY <4>1, <4>2
    <3> QED
      BY <2>0, <3>1, <3>2
  <2>2. CASE e = d
    <3>1. CASE stats[d] = id /\ UNCHANGED stat
      BY <1>2, <2>0, <2>2, <3>1
    <3>2. CASE stats[d] = 0 /\ id = n + 1 /\ stat' = Append(stat, NewSite)
      BY <1>2, <1>n, <2>0, <2>2, <3>2, StatGrows, NewSiteTyped DEF Inv
    <3> QED
      BY <1>d, <1>n, <3>1, <3>2
  <2> QED
    BY <2>1, <2>2
<1>10. RingPast' /\ SecondsExact'
  <2>1. ASSUME NEW s \in 1 .. Len(stat')
        PROVE  /\ \A i \in Slots : stat'[s].ring[i].ts <= clock
               /\ \A t \in Times : clock - t < Buckets =>
                    seen[s][t] = IF stat'[s].ring[Slot(t)].ts = t THEN stat'[s].ring[Slot(t)].reqs ELSE 0
    <3>1. CASE s \in 1 .. n
      BY <1>3, <1>n, <3>1 DEF Inv, RingPast, SecondsExact
    <3>2. CASE s = n + 1 /\ id = n + 1 /\ stat'[s] = NewSite
      <4>1. \A t \in Times : t \in Nat /\ seen[s][t] = 0
        BY <1>n, <3>2 DEF Inv, IdsKnown, Times
      <4>2. \A t \in Times : Slot(t) \in Slots /\ NewSite.ring[Slot(t)].ts # t
        BY <4>1, SlotInRing, NewSiteTyped, TrafficAssumption
      <4>3. \A i \in Slots : NewSite.ring[i].ts <= clock
        BY NewSiteTyped, StatTyped DEF Inv
      <4> QED
        BY <3>2, <4>1, <4>2, <4>3
    <3> QED
      BY <1>3, <3>1, <3>2
  <2> QED
    BY <2>1 DEF RingPast, SecondsExact, Slot
<1>11. ShutInTurn' /\ CutOnlyLate'
  BY <1>0, <1>1, ShutFrame
<1> QED
  BY <1>4, <1>5, <1>6, <1>7, <1>8, <1>9, <1>10, <1>11 DEF Inv

LEMMA CreateKeeps == ASSUME Inv, NEW r \in Reqs, Create(r) PROVE Inv'
<1>1. req[r].pc = "create" /\ req[r].dom \in Domains
  BY RequestTyped DEF Create, ToRecord, ToTotal
<1>n. PICK n \in Nat : n = Len(stat)
  BY StatTyped DEF Inv
<1>2. stats[req[r].dom] \in 0 .. n
  BY <1>1, <1>n DEF Inv, IdsKnown
<1>3. PICK id : id = IF stats[req[r].dom] = 0 THEN n + 1 ELSE stats[req[r].dom]
  OBVIOUS
<1>4. /\ id <= MaxStats /\ stats' = [stats EXCEPT ![req[r].dom] = id]
      /\ stat' = IF id > n THEN Append(stat, NewSite) ELSE stat
      /\ req' = [req EXCEPT ![r].id = id, ![r].pc = "total"]
      /\ UNCHANGED <<tables, seen, counted, accepted, clock, server>>
  BY <1>n, <1>3 DEF Create, Missing
<1>5. id \in Ids
  BY <1>2, <1>3, <1>4, TrafficAssumption DEF Ids
<1>6. \/ stats[req[r].dom] = id /\ UNCHANGED stat
      \/ stats[req[r].dom] = 0 /\ id = Len(stat) + 1 /\ stat' = Append(stat, NewSite)
  BY <1>2, <1>3, <1>4, <1>n
<1> QED
  BY <1>1, <1>4, <1>5, <1>6, GivenKeeps

(* One number goes up, and one request fewer is still to come.             *)
LEMMA StillPaid ==
  ASSUME NEW x \in Nat, NEW a \in Nat, NEW n \in Int, n + x <= a, x >= 1
  PROVE  n + 1 + (x - 1) <= a /\ n + (x - 1) <= a
OBVIOUS

(* The totals of its statistics and of its domain.                         *)
LEMMA TotalKeeps == ASSUME Inv, NEW r \in Reqs, Total(r) PROVE Inv'
<1>d. PICK d \in Domains : d = req[r].dom /\ req[r].pc = "total"
  BY RequestTyped DEF Total, ToRecord, ToTotal
<1>n. PICK n \in Nat : n = Len(stat)
  BY StatTyped DEF Inv
<1>s. PICK s \in 1 .. n : s = req[r].id
  BY <1>d, <1>n DEF Inv, Requests
<1>0. PICK x \in Request : /\ req' = [req EXCEPT ![r] = x] /\ x.pc = "record" /\ x.id = s
                           /\ x.lis = req[r].lis /\ x.dom = d /\ x.now = clock
  <2> DEFINE x == [req[r] EXCEPT !.now = clock, !.pc = "record"]
  <2>1. x \in Request /\ x.pc = "record" /\ x.id = s /\ x.lis = req[r].lis /\ x.dom = d /\ x.now = clock
    BY <1>d, <1>s, RequestTyped DEF Request, Inv, TypeOK
  <2>2. req' = [req EXCEPT ![r] = x]
    BY DEF Total
  <2> QED
    BY <2>1, <2>2
<1>1. Others(r) /\ req'[r] = x
  BY <1>0, SetOthers, RequestTyped
<1>a. PICK m \in Nat, c \in Nat, a \in Nat :
        /\ m = Cardinality(In(ToTotal)) /\ c = Cardinality(In(ToRecord)) /\ a = accepted /\ a <= MaxReqs
  BY InFinite, StatTyped DEF Inv, TypeOK
<1>2. m >= 1 /\ Cardinality(In(ToTotal)') = m - 1 /\ In(ToRecord)' = In(ToRecord)
  <2>1. req[r].pc \in ToTotal /\ req'[r].pc \notin ToTotal
    BY <1>d, <1>0, <1>1 DEF ToTotal
  <2>2. Cardinality(In(ToTotal)') = m - 1 /\ Cardinality(In(ToTotal)') \in Nat
    BY <1>1, <1>a, <2>1, InLoses
  <2>3. In(ToRecord)' = In(ToRecord)
    BY <1>d, <1>0, <1>1 DEF In, Others, ToTotal, ToRecord
  <2> QED
    BY <2>2, <2>3
<1>3. /\ stat[s] \in Site /\ stat[s].total + 1 <= a /\ counted[d] + 1 <= a
      /\ stat[s].total \in Nat /\ counted[d] \in Nat /\ MaxReqs \in Nat
  <2>1. stat[s] \in Site /\ stat[s].total \in Nat /\ counted[d] \in Nat /\ MaxReqs \in Nat
    BY <1>n, StatTyped, SiteFields, TrafficAssumption DEF Inv, TypeOK
  <2>2. stat[s].total + m <= a /\ counted[d] + m <= a
    BY <1>a, <1>n DEF Inv, Budget
  <2> QED
    BY <1>2, <2>1, <2>2
<1>4. PICK y \in Site : /\ stat' = [stat EXCEPT ![s] = y]
                        /\ y.total = stat[s].total + 1 /\ y.ring = stat[s].ring
  <2> DEFINE y == [stat[s] EXCEPT !.total = stat[s].total + 1]
  <2>1. y \in Site /\ y.total = stat[s].total + 1 /\ y.ring = stat[s].ring
    BY <1>3, <1>a DEF Site
  <2>2. stat' = [stat EXCEPT ![s] = y]
    BY <1>s DEF Total
  <2> QED
    BY <2>1, <2>2
<1>5. /\ stat' \in Seq(Site) /\ Len(stat') = n /\ stat'[s] = y
      /\ \A t \in 1 .. n : t # s => stat'[t] = stat[t]
  BY <1>4, <1>n, StatSet DEF Inv
<1>6. \A t \in 1 .. n : stat'[t].ring = stat[t].ring
  BY <1>4, <1>5
<1>7. /\ counted' \in [Domains -> 0 .. MaxReqs] /\ counted'[d] = counted[d] + 1
      /\ \A e \in Domains : e # d => counted'[e] = counted[e]
  <2>1. counted[d] + 1 \in 0 .. MaxReqs
    BY <1>a, <1>3
  <2>2. counted' = [counted EXCEPT ![d] = counted[d] + 1]
    BY <1>d DEF Total
  <2> QED
    BY <2>1, <2>2 DEF Inv, TypeOK
<1>8. UNCHANGED <<index, routes, reload, stats, seen, accepted, clock, server>>
  BY DEF Total, tables
<1>9. TypeOK'
  <2>1. \A t \in 1 .. Len(stat') : \A i \in Slots :
          stat'[t].ring[i] # Empty => stat'[t].ring[i].ts % Buckets = i
    BY <1>5, <1>6, <1>n DEF Inv, TypeOK
  <2>2. req' \in [Reqs -> Request] /\ Len(stat') <= MaxStats
    BY <1>1, <1>5, <1>n DEF Others, Inv, TypeOK
  <2> QED
    BY <1>5, <1>7, <1>8, <2>1, <2>2 DEF Inv, TypeOK
<1>10. Requests'
  <2>1. clock \in Nat /\ Lag \in Nat /\ clock <= clock + Lag
    BY StatTyped DEF Inv
  <2> QED
    BY <1>d, <1>n, <1>0, <1>1, <1>5, <1>8, <2>1, RequestTyped DEF Inv, Requests, Others
<1>11. IdsKnown'
  BY <1>5, <1>8, <1>n DEF Inv, IdsKnown
<1>12. Budget'
  <2>1. \A t \in 1 .. n : stat[t].total \in Int /\ stat[t].total + m <= a
    BY <1>a, <1>n, StatTyped, SiteFields DEF Inv, Budget
  <2>2. \A e \in Domains : counted[e] \in Int /\ counted[e] + m <= a
    BY <1>a DEF Inv, Budget, TypeOK
  <2>3. \A t \in 1 .. n : stat'[t].total + (m - 1) <= a
    <3> SUFFICES ASSUME NEW t \in 1 .. n PROVE stat'[t].total + (m - 1) <= a
      OBVIOUS
    <3>1. stat[t].total + 1 + (m - 1) <= a /\ stat[t].total + (m - 1) <= a
      BY <1>2, <2>1, StillPaid
    <3> QED
      BY <1>4, <1>5, <3>1
  <2>4. \A e \in Domains : counted'[e] + (m - 1) <= a
    <3> SUFFICES ASSUME NEW e \in Domains PROVE counted'[e] + (m - 1) <= a
      OBVIOUS
    <3>1. counted[e] + 1 + (m - 1) <= a /\ counted[e] + (m - 1) <= a
      BY <1>2, <2>2, StillPaid
    <3> QED
      BY <1>7, <3>1
  <2>5. /\ Cardinality(In(ToRecord)') <= accepted'
        /\ \A t \in 1 .. Len(stat') : stat'[t].total + Cardinality(In(ToTotal)') <= accepted'
        /\ \A e \in Domains : counted'[e] + Cardinality(In(ToTotal)') <= accepted'
        /\ \A t \in Ids : \A u \in Times : seen'[t][u] + Cardinality(In(ToRecord)') <= accepted'
        /\ \A t \in 1 .. Len(stat') : \A i \in Slots :
             stat'[t].ring[i].reqs + Cardinality(In(ToRecord)') <= accepted'
    BY <1>a, <1>n, <1>2, <1>5, <1>6, <1>8, <2>3, <2>4 DEF Inv, Budget
  <2> QED
    BY <2>5 DEF Budget
<1>13. OwnStats'
  BY <1>0, <1>1, <1>8 DEF Inv, OwnStats, Others
<1>14. Counted'
  <2> SUFFICES ASSUME NEW e \in Steady
               PROVE  counted'[e] = IF stats[e] = 0 THEN 0 ELSE stat'[stats[e]].total
    BY <1>8 DEF Counted
  <2>0. e \in Domains /\ counted[e] = IF stats[e] = 0 THEN 0 ELSE stat[stats[e]].total
    BY TrafficAssumption DEF Inv, Counted
  <2>1. stats[e] = s <=> e = d
    BY <1>d, <1>s, <2>0 DEF Inv, OwnStats
  <2>2. CASE e = d
    BY <1>4, <1>5, <1>7, <2>0, <2>1, <2>2
  <2>3. CASE e # d
    <3>1. stats[e] # 0 => stats[e] \in 1 .. n /\ stats[e] # s
      BY <1>n, <2>0, <2>1, <2>3 DEF Inv, IdsKnown
    <3>2. stats[e] # 0 => stat'[stats[e]] = stat[stats[e]]
      BY <1>5, <3>1
    <3> QED
      BY <1>7, <2>0, <2>3, <3>2
  <2> QED
    BY <2>2, <2>3
<1>15. RingPast' /\ SecondsExact'
  BY <1>5, <1>6, <1>8, <1>n DEF Inv, RingPast, SecondsExact, Slot
<1>16. ShutInTurn' /\ CutOnlyLate'
  BY <1>d, <1>0, <1>1, <1>8, ShutFrame
<1> QED
  BY <1>9, <1>10, <1>11, <1>12, <1>13, <1>14, <1>15, <1>16 DEF Inv

(* The bucket of the second it has read: one that is still in use for that *)
(* second, or one that has left the window.                                *)
LEMMA RecordKeeps == ASSUME Inv, NEW r \in Reqs, Record(r) PROVE Inv'
<1>n. PICK n \in Nat : n = Len(stat)
  BY StatTyped DEF Inv
<1>s. PICK s \in 1 .. n, now \in Times :
        s = req[r].id /\ now = req[r].now /\ req[r].pc = "record" /\ now <= clock /\ clock <= now + Lag
  BY <1>n, RequestTyped, RequestFields DEF Record, Inv, Requests
<1>0. Others(r) /\ req'[r].pc = "idle"
  BY AnsweredIdles, RequestTyped DEF Record
<1>a. PICK m \in Nat, c \in Nat, a \in Nat :
        /\ m = Cardinality(In(ToTotal)) /\ c = Cardinality(In(ToRecord)) /\ a = accepted /\ a <= MaxReqs
  <2>1. Cardinality(In(ToTotal)) \in Nat /\ Cardinality(In(ToRecord)) \in Nat
    BY InFinite
  <2>2. accepted \in Nat /\ accepted <= MaxReqs
    BY StatTyped DEF Inv, TypeOK
  <2> QED
    BY <2>1, <2>2
<1>1. c >= 1 /\ Cardinality(In(ToRecord)') = c - 1 /\ In(ToTotal)' = In(ToTotal)
  <2>1. req[r].pc \in ToRecord /\ req'[r].pc \notin ToRecord
    BY <1>s, <1>0 DEF ToTotal, ToRecord
  <2>2. Cardinality(In(ToRecord)') = c - 1 /\ Cardinality(In(ToRecord)') \in Nat
    BY <1>0, <1>a, <2>1, InLoses
  <2>3. In(ToTotal)' = In(ToTotal)
    BY <1>s, <1>0 DEF In, Others, ToTotal
  <2> QED
    BY <2>2, <2>3
<1>k. PICK k \in Slots : k = Slot(now)
  BY SlotInRing DEF Times
<1>b. PICK b \in Bucket : b = stat[s].ring[k]
  BY <1>n, StatTyped, SiteFields DEF Inv
<1>2. PICK h \in Bucket : /\ h = Hit(b, now) /\ h.ts = now
                          /\ h.reqs = (IF b.ts = now THEN b.reqs ELSE 0) + 1 /\ h.reqs + (c - 1) <= a
  <2>1. b.reqs \in Nat /\ b.reqs + c <= a /\ c <= a
    BY <1>a, <1>b, <1>n DEF Inv, Budget, Bucket
  <2>2. PICK q \in Nat : q = (IF b.ts = now THEN b.reqs ELSE 0) /\ q + c <= a
    BY <2>1
  <2>3. q + 1 \in 0 .. MaxReqs /\ q + 1 + (c - 1) <= a
    BY <1>1, <1>a, <2>2, TrafficAssumption
  <2>4. Hit(b, now) = [ts |-> now, reqs |-> q + 1]
    BY <2>2 DEF Hit
  <2>5. [ts |-> now, reqs |-> q + 1] \in Bucket
    BY <2>3 DEF Bucket
  <2> QED
    BY <2>2, <2>3, <2>4, <2>5
<1>3. PICK y \in Site : /\ stat' = [stat EXCEPT ![s] = y] /\ y.total = stat[s].total /\ y.ring[k] = h
                        /\ \A i \in Slots : i # k => y.ring[i] = stat[s].ring[i]
  <2> DEFINE y == [stat[s] EXCEPT !.ring = [stat[s].ring EXCEPT ![k] = h]]
  <2>0. stat[s] \in Site
    BY <1>n, StatTyped DEF Inv
  <2>1. /\ y \in Site /\ y.total = stat[s].total /\ y.ring[k] = h
        /\ \A i \in Slots : i # k => y.ring[i] = stat[s].ring[i]
    BY <2>0 DEF Site
  <2>2. stat' = [stat EXCEPT ![s].ring[k] = h]
    BY <1>s, <1>k, <1>b, <1>2 DEF Record
  <2>3. stat' = [stat EXCEPT ![s] = y]
    BY <2>2
  <2> QED
    BY <2>1, <2>3
<1>4. /\ stat' \in Seq(Site) /\ Len(stat') = n /\ stat'[s] = y
      /\ \A t \in 1 .. n : t # s => stat'[t] = stat[t]
  BY <1>3, <1>n, StatSet DEF Inv
<1>5. /\ \A t \in 1 .. n : stat'[t].total = stat[t].total
      /\ \A t \in 1 .. n : \A i \in Slots : t # s \/ i # k => stat'[t].ring[i] = stat[t].ring[i]
      /\ stat'[s].ring[k] = h
  BY <1>3, <1>4
<1>6. UNCHANGED <<index, routes, reload, stats, counted, accepted, clock, server>>
  BY DEF Record, tables
<1>7. s \in Ids /\ seen[s] \in [Times -> 0 .. MaxReqs] /\ seen[s][now] \in Nat /\ seen[s][now] + c <= a
  <2>1. s \in Ids
    BY <1>n, StatTyped DEF Inv
  <2>2. seen \in [Ids -> [Times -> 0 .. MaxReqs]] /\ MaxReqs \in Nat
    BY TrafficAssumption DEF Inv, TypeOK
  <2>3. seen[s] \in [Times -> 0 .. MaxReqs] /\ seen[s][now] \in Nat
    BY <2>1, <2>2
  <2>4. seen[s][now] + Cardinality(In(ToRecord)) <= accepted
    BY <2>1 DEF Inv, Budget
  <2> QED
    BY <1>a, <2>1, <2>3, <2>4
<1>8. /\ seen' \in [Ids -> [Times -> 0 .. MaxReqs]] /\ seen'[s][now] = seen[s][now] + 1
      /\ \A i \in Ids : \A t \in Times : i # s \/ t # now => seen'[i][t] = seen[i][t]
  <2>1. seen[s][now] + 1 \in 0 .. MaxReqs
    BY <1>1, <1>a, <1>7, TrafficAssumption
  <2> DEFINE g == [seen[s] EXCEPT ![now] = seen[s][now] + 1]
  <2>2. seen' = [seen EXCEPT ![s] = g]
    BY <1>s DEF Record
  <2>3. /\ g \in [Times -> 0 .. MaxReqs] /\ g[now] = seen[s][now] + 1
        /\ \A t \in Times : t # now => g[t] = seen[s][t]
    BY <1>7, <2>1
  <2> HIDE DEF g
  <2> QED
    BY <1>7, <2>2, <2>3 DEF Inv, TypeOK
<1>9. TypeOK'
  <2>1. \A t \in 1 .. Len(stat') : \A i \in Slots :
          stat'[t].ring[i] # Empty => stat'[t].ring[i].ts % Buckets = i
    <3> SUFFICES ASSUME NEW t \in 1 .. n, NEW i \in Slots, stat'[t].ring[i] # Empty
                 PROVE  stat'[t].ring[i].ts % Buckets = i
      BY <1>4
    <3>1. CASE t = s /\ i = k
      BY <1>2, <1>5, <1>k, <3>1 DEF Slot
    <3>2. CASE t # s \/ i # k
      <4>1. stat'[t].ring[i] = stat[t].ring[i]
        BY <1>5, <3>2
      <4>2. stat[t].ring[i] # Empty => stat[t].ring[i].ts % Buckets = i
        BY <1>n DEF Inv, TypeOK
      <4> QED
        BY <4>1, <4>2
    <3> QED
      BY <3>1, <3>2
  <2>2. req' \in [Reqs -> Request] /\ Len(stat') <= MaxStats
    BY <1>0, <1>4, <1>n DEF Others, Inv, TypeOK
  <2> QED
    BY <1>4, <1>6, <1>8, <2>1, <2>2 DEF Inv, TypeOK
<1>10. Requests'
  BY <1>0, <1>4, <1>6, <1>n DEF Inv, Requests, Others, ToRecord, ToTotal
<1>11. IdsKnown'
  <2>1. \A i \in Ids : i > n => i # s
    BY TrafficAssumption DEF Ids
  <2> QED
    BY <1>4, <1>6, <1>8, <1>n, <2>1 DEF Inv, IdsKnown
<1>12. Budget'
  <2>1. c <= a /\ c - 1 <= a
    BY <1>a DEF Inv, Budget
  <2>2. \A i \in Ids : \A t \in Times : seen'[i][t] + (c - 1) <= a
    <3> SUFFICES ASSUME NEW i \in Ids, NEW t \in Times PROVE seen'[i][t] + (c - 1) <= a
      OBVIOUS
    <3>1. seen[i][t] \in Int /\ seen[i][t] + c <= a
      BY <1>a, TrafficAssumption DEF Inv, TypeOK, Budget
    <3>2. seen[i][t] + 1 + (c - 1) <= a /\ seen[i][t] + (c - 1) <= a
      BY <1>1, <3>1, StillPaid
    <3> QED
      BY <1>8, <3>2
  <2>3. \A t \in 1 .. n : \A i \in Slots : stat'[t].ring[i].reqs + (c - 1) <= a
    <3> SUFFICES ASSUME NEW t \in 1 .. n, NEW i \in Slots PROVE stat'[t].ring[i].reqs + (c - 1) <= a
      OBVIOUS
    <3>1. stat[t].ring[i].reqs \in Int /\ stat[t].ring[i].reqs + c <= a
      BY <1>a, <1>n, StatTyped, SiteFields DEF Inv, Budget
    <3>2. stat[t].ring[i].reqs + (c - 1) <= a
      BY <1>1, <3>1, StillPaid
    <3> QED
      BY <1>2, <1>5, <3>2
  <2>4. /\ Cardinality(In(ToRecord)') <= accepted'
        /\ \A t \in 1 .. Len(stat') : stat'[t].total + Cardinality(In(ToTotal)') <= accepted'
        /\ \A e \in Domains : counted'[e] + Cardinality(In(ToTotal)') <= accepted'
        /\ \A t \in Ids : \A u \in Times : seen'[t][u] + Cardinality(In(ToRecord)') <= accepted'
        /\ \A t \in 1 .. Len(stat') : \A i \in Slots :
             stat'[t].ring[i].reqs + Cardinality(In(ToRecord)') <= accepted'
    BY <1>a, <1>n, <1>1, <1>4, <1>5, <1>6, <2>1, <2>2, <2>3 DEF Inv, Budget
  <2> QED
    BY <2>4 DEF Budget
<1>13. OwnStats'
  BY <1>0, <1>6 DEF Inv, OwnStats, Others
<1>14. Counted'
  <2>1. \A e \in Steady : e \in Domains /\ (stats[e] # 0 => stats[e] \in 1 .. n)
    BY <1>n, TrafficAssumption DEF Inv, IdsKnown
  <2> QED
    BY <1>5, <1>6, <2>1 DEF Inv, Counted
<1>15. clock \in Nat /\ now \in Nat /\ Lag < Buckets /\ Lag \in Nat /\ Buckets \in Nat \ {0}
  BY StatTyped, TrafficAssumption DEF Inv, Times
<1>16. RingPast'
  BY <1>2, <1>4, <1>5, <1>6, <1>n, <1>s DEF Inv, RingPast
<1>17. \A t \in Times : t # now /\ Slot(t) = k /\ clock - t < Buckets => seen[s][t] = 0 /\ b.ts # t
  <2> SUFFICES ASSUME NEW t \in Times, t # now, Slot(t) = k, clock - t < Buckets
               PROVE  seen[s][t] = 0 /\ b.ts # t
    OBVIOUS
  <2>1. t \in Nat /\ Slot(t) = Slot(now)
    BY <1>k DEF Times
  <2>2. t > clock
    <3>1. CASE t < now
      BY <1>15, <1>s, <2>1, <3>1, SameSlot
    <3>2. CASE t > now
      <4>1. now + Buckets <= t
        BY <1>15, <2>1, <3>2, SameSlot
      <4> QED
        BY <1>15, <1>s, <2>1, <4>1
    <3> QED
      BY <1>15, <2>1, <3>1, <3>2
  <2>3. b.ts \in Int /\ b.ts <= clock
    BY <1>b, <1>n, StatTyped, SiteFields DEF Inv, RingPast
  <2>4. seen[s][t] = IF b.ts = t THEN b.reqs ELSE 0
    BY <1>b, <1>n DEF Inv, SecondsExact
  <2> QED
    BY <1>15, <2>1, <2>2, <2>3, <2>4
<1>18. SecondsExact'
  <2> SUFFICES ASSUME NEW i \in 1 .. n, NEW t \in Times, clock - t < Buckets
               PROVE  seen'[i][t] = IF stat'[i].ring[Slot(t)].ts = t THEN stat'[i].ring[Slot(t)].reqs ELSE 0
    BY <1>4, <1>6 DEF SecondsExact, Slot
  <2>0. /\ i \in Ids /\ Slot(t) \in Slots
        /\ seen[i][t] = IF stat[i].ring[Slot(t)].ts = t THEN stat[i].ring[Slot(t)].reqs ELSE 0
    BY <1>n, StatTyped, SlotInRing DEF Inv, SecondsExact, Times
  <2>1. CASE i # s \/ Slot(t) # k
    BY <1>5, <1>8, <1>k, <2>0, <2>1
  <2>2. CASE i = s /\ Slot(t) = k /\ t = now
    <3>1. seen[s][now] = IF b.ts = now THEN b.reqs ELSE 0
      BY <1>b, <2>0, <2>2
    <3> QED
      BY <1>2, <1>5, <1>8, <2>2, <3>1
  <2>3. CASE i = s /\ Slot(t) = k /\ t # now
    BY <1>2, <1>5, <1>8, <1>17, <2>0, <2>3
  <2> QED
    BY <2>1, <2>2, <2>3
<1>19. ShutInTurn' /\ CutOnlyLate'
  BY <1>0, <1>6, ShutFrame
<1> QED
  BY <1>9, <1>10, <1>11, <1>12, <1>13, <1>14, <1>16, <1>18, <1>19 DEF Inv

LEMMA TickKeeps == ASSUME Inv, Tick PROVE Inv'
<1> USE DEF Tick, tables, registry
<1>1. clock \in Nat /\ clock' = clock + 1 /\ clock' \in Times /\ Buckets \in Nat
  BY TrafficAssumption DEF Inv, TypeOK, Times
<1>2. TypeOK' /\ IdsKnown' /\ Budget' /\ OwnStats' /\ Counted'
  BY <1>1 DEF Inv, TypeOK, IdsKnown, Budget, In, OwnStats, Counted
<1>3. Requests'
  <2>1. \A r \in Reqs : req[r].now \in Int
    BY RequestTyped, RequestFields, TrafficAssumption DEF Times
  <2> QED
    BY <1>1, <2>1 DEF Inv, Requests
<1>4. RingPast'
  <2>1. \A s \in 1 .. Len(stat) : \A i \in Slots : stat[s].ring[i].ts \in Int
    BY StatTyped, SiteFields DEF Inv
  <2> QED
    BY <1>1, <2>1 DEF Inv, RingPast
<1>5. SecondsExact'
  <2>1. \A t \in Times : clock' - t < Buckets => clock - t < Buckets
    BY <1>1 DEF Times
  <2> QED
    BY <2>1 DEF Inv, SecondsExact, Slot
<1>6. ShutInTurn' /\ CutOnlyLate'
  BY DEF Inv, ShutInTurn, CutOnlyLate, Quiet, Active
<1> QED
  BY <1>2, <1>3, <1>4, <1>5, <1>6 DEF Inv
-----------------------------------------------------------------------------
(* The shutdown.                                                           *)
ServerType == [phase : {"up", "told", "draining", "exited"}, open : SUBSET Listeners,
               turn : 1 .. Len(Order) + 1, expired : BOOLEAN, cut : SUBSET Reqs]

LEMMA ServerKeeps ==
  ASSUME Inv, Untouched, UNCHANGED req, server' \in ServerType, ShutInTurn', CutOnlyLate'
  PROVE  Inv'
<1> USE DEF Untouched, tables, registry
<1>1. TypeOK'
  BY DEF Inv, TypeOK, ServerType
<1>2. IdsKnown' /\ Budget' /\ OwnStats' /\ Counted' /\ Requests'
  BY DEF Inv, IdsKnown, Budget, In, OwnStats, Counted, Requests
<1>3. RingPast' /\ SecondsExact'
  BY RingFrame
<1> QED
  BY <1>1, <1>2, <1>3 DEF Inv

LEMMA PhaseKeeps ==
  ASSUME Inv, Signal \/ Stop \/ CloseListener \/ Expire \/ \E l \in Listeners : ListenerFails(l)
  PROVE  Inv'
<1> USE DEF Signal, Stop, CloseListener, Expire, ListenerFails
<1>1. server \in ServerType
  BY DEF Inv, TypeOK, ServerType
<1>2. /\ server' \in ServerType /\ server'.turn = server.turn /\ server'.open \subseteq server.open
      /\ server.expired => server'.expired
      /\ server'.cut = server.cut
  BY <1>1 DEF ServerType
<1>3. Untouched /\ UNCHANGED req
  OBVIOUS
<1>4. ShutInTurn' /\ CutOnlyLate'
  BY <1>2, <1>3 DEF Inv, ShutInTurn, CutOnlyLate, Quiet, Active
<1> QED
  BY <1>2, <1>3, <1>4, ServerKeeps

LEMMA ShutdownKeeps == ASSUME Inv, Shutdown PROVE Inv'
<1> USE DEF Shutdown, Closing
<1>1. server \in ServerType /\ server.turn \in Nat /\ server.turn <= Len(Order) /\ Len(Order) \in Nat
  BY ListenersOpen DEF Inv, TypeOK, ServerType
<1>2. server.turn + 1 \in 1 .. Len(Order) + 1
  BY <1>1
<1>3. /\ server' \in ServerType /\ server'.turn = server.turn + 1 /\ server'.open = server.open
      /\ server'.expired = server.expired /\ server'.cut = server.cut
  BY <1>1, <1>2 DEF ServerType
<1>4. Untouched /\ UNCHANGED req
  OBVIOUS
<1>5. ShutInTurn'
  <2> SUFFICES ASSUME NEW i \in 1 .. Len(Order), i < server.turn + 1
               PROVE  Order[i] \notin server.open /\ (server.expired \/ Quiet(Order[i]))
    BY <1>3, <1>4 DEF ShutInTurn, Quiet, Active
  <2>1. i < server.turn \/ i = server.turn
    BY <1>1
  <2> QED
    BY <2>1 DEF Inv, ShutInTurn, Drained
<1>6. CutOnlyLate'
  BY <1>3 DEF Inv, CutOnlyLate
<1> QED
  BY <1>3, <1>4, <1>5, <1>6, ServerKeeps

(* Before the deadline the process ends only when every listener is quiet. *)
LEMMA ExitKeeps == ASSUME Inv, Exit PROVE Inv'
<1> USE DEF Exit
<1>0. Untouched /\ UNCHANGED <<index, routes, reload, stats, stat, seen, counted, accepted, clock>>
  BY DEF Untouched, tables, registry
<1>1. \A r \in Reqs : req'[r] = Idle /\ req'[r].pc = "idle" /\ Idle \in Request
  BY IdleIsRequest
<1>2. server \in ServerType /\ server.turn > Len(Order) /\ server.turn \in Nat /\ Len(Order) \in Nat
  BY ListenersOpen DEF Inv, TypeOK, ServerType
<1>3. /\ server' \in ServerType /\ server'.turn = server.turn /\ server'.open = server.open
      /\ server'.expired = server.expired /\ server'.cut = Active
  BY <1>2 DEF ServerType, Active
<1>4. CutOnlyLate'
  <2> SUFFICES ASSUME NEW r \in Active, ~server.expired PROVE FALSE
    BY <1>3, <1>2 DEF CutOnlyLate, ServerType
  <2>1. req[r].lis \in Listeners
    BY RequestTyped DEF Active
  <2>i. PICK i \in DOMAIN Order : Order[i] = req[r].lis
    BY <2>1 DEF Listeners
  <2>2. i \in 1 .. Len(Order) /\ Order[i] = req[r].lis
    BY <2>i, TrafficAssumption
  <2>3. i < server.turn
    BY <1>2
  <2> QED
    BY <2>2, <2>3 DEF Inv, ShutInTurn, Quiet
<1>5. ShutInTurn'
  BY <1>1, <1>3 DEF Inv, ShutInTurn, Quiet, Active
<1>6. TypeOK'
  BY <1>0, <1>1, <1>3 DEF Inv, TypeOK, ServerType
<1>7. Requests'
  BY <1>1 DEF Requests, ToRecord, ToTotal
<1>8. IdsKnown' /\ Counted'
  BY <1>0 DEF Inv, IdsKnown, Counted
<1>9. Budget'
  <2>1. In(ToTotal)' = {} /\ In(ToRecord)' = {}
    BY <1>1 DEF In, ToTotal, ToRecord
  <2>2. /\ Cardinality(In(ToTotal)') = 0 /\ Cardinality(In(ToRecord)') = 0
        /\ Cardinality(In(ToTotal)) \in Nat /\ Cardinality(In(ToRecord)) \in Nat /\ accepted \in Nat
    BY <2>1, FS_EmptySet, InFinite, StatTyped DEF Inv
  <2> QED
    BY <1>0, <2>2, BudgetFrame
<1>10. OwnStats'
  BY <1>0, <1>1 DEF Inv, OwnStats
<1>11. RingPast' /\ SecondsExact'
  BY <1>0, RingFrame
<1> QED
  BY <1>4, <1>5, <1>6, <1>7, <1>8, <1>9, <1>10, <1>11 DEF Inv
-----------------------------------------------------------------------------
LEMMA InvNext == ASSUME Inv, Next PROVE Inv'
<1>1. CASE \E S \in SUBSET Domains : Steady \subseteq S /\ Replace(S)
  BY <1>1, ReplaceKeeps
<1>2. CASE Install \/ Prune \/ Tick
  BY <1>2, InstallKeeps, PruneKeeps, TickKeeps
<1>3. CASE \E r \in Reqs, l \in Listeners, d \in Domains : Arrive(r, l, d)
  BY <1>3, ArriveKeeps
<1>4. ASSUME NEW r \in Reqs, AnswerAdmin(r) \/ Look(r) \/ Unrouted(r) \/ Route(r)
      PROVE  Inv'
  <2>1. UNCHANGED <<tables, registry, accepted, clock, server>>
    BY <1>4 DEF AnswerAdmin, Look, Unrouted, Route
  <2>2. \/ Answered(r)
        \/ Goto(r, "route") /\ req[r].pc = "lookup"
        \/ Goto(r, "answer") /\ req[r].pc = "route"
    BY <1>4 DEF AnswerAdmin, Look, Unrouted, Route
  <2> QED
    BY <2>1, <2>2, EndKeeps, GotoKeeps
<1>5. ASSUME NEW r \in Reqs, SiteFor(r) \/ Create(r) \/ Total(r) \/ Record(r)
      PROVE  Inv'
  BY <1>5, SiteForKeeps, CreateKeeps, TotalKeeps, RecordKeeps
<1>6. CASE Signal \/ Stop \/ CloseListener \/ Expire \/ \E l \in Listeners : ListenerFails(l)
  BY <1>6, PhaseKeeps
<1>7. CASE Shutdown \/ Exit
  BY <1>7, ShutdownKeeps, ExitKeeps
<1> QED
  BY <1>1, <1>2, <1>3, <1>4, <1>5, <1>6, <1>7 DEF Next

LEMMA InvStutters == ASSUME Inv, UNCHANGED vars PROVE Inv'
<1> USE DEF vars, tables, registry
<1>1. TypeOK' /\ IdsKnown' /\ Budget' /\ OwnStats' /\ Counted' /\ Requests'
  BY DEF Inv, TypeOK, IdsKnown, Budget, In, OwnStats, Counted, Requests
<1>2. RingPast' /\ SecondsExact'
  BY RingFrame
<1>3. ShutInTurn' /\ CutOnlyLate'
  BY DEF Inv, ShutInTurn, CutOnlyLate, Quiet, Active
<1> QED
  BY <1>1, <1>2, <1>3 DEF Inv

LEMMA InvAlways == Spec => []Inv
<1>1. Inv /\ [Next]_vars => Inv'
  BY InvNext, InvStutters
<1> QED
  BY <1>1, InvInit, PTL DEF Spec

-----------------------------------------------------------------------------
(* The natural numbers are well founded, so what holds of 0 and passes from*)
(* n to n + 1 holds of all of them.                                        *)
LEMMA Least == ASSUME NEW T \in SUBSET Nat, T # {} PROVE \E x \in T : \A y \in T : x <= y
<1> DEFINE R == OpToRel(<, Nat)
<1>1. IsWellFoundedOn(R, Nat)
  BY NatLessThanWellFounded
<1>2. ASSUME NEW x \in Nat, NEW y \in Nat, x < y PROVE <<x, y>> \in R
  BY <1>2 DEF OpToRel
<1>3. \E x \in T : \A y \in T : ~(<<y, x>> \in R)
  <2> HIDE DEF R
  <2> QED BY <1>1, WFMin
<1>4. PICK x \in T : \A y \in T : ~(<<y, x>> \in R)
  BY <1>3
<1>5. ASSUME NEW y \in T PROVE x <= y
  <2>1. ~(y < x)
    BY <1>2, <1>4, Zenon
  <2> QED BY <2>1
<1> QED BY <1>5

LEMMA Induction == ASSUME NEW N \in SUBSET Nat, 0 \in N, \A n \in N : n + 1 \in N PROVE N = Nat
<1> SUFFICES ASSUME N # Nat PROVE FALSE
  OBVIOUS
<1>1. PICK x \in Nat \ N : \A y \in Nat \ N : x <= y
  <2>1. Nat \ N # {} /\ Nat \ N \in SUBSET Nat
    OBVIOUS
  <2> QED BY <2>1, Least
<1>2. x # 0 /\ x - 1 \in Nat
  BY <1>1
<1>3. x - 1 \in N
  BY <1>1, <1>2
<1> QED BY <1>1, <1>2, <1>3

(* What a sum is made from: the sums of all subsets, each of an element    *)
(* and of the rest.                                                        *)
Some(s) == CHOOSE x \in s : TRUE
IsSums(it, f, S) ==
  /\ it \in [SUBSET S -> Int]
  /\ \A s \in SUBSET S : it[s] = IF s = {} THEN 0 ELSE f[Some(s)] + it[s \ {Some(s)}]

LEMMA SomeIn == ASSUME NEW s, s # {} PROVE Some(s) \in s
BY DEF Some

LEMMA Smaller ==
  ASSUME NEW S, IsFiniteSet(S), NEW s \in SUBSET S, NEW x \in s, NEW n \in Nat, Cardinality(s) <= n + 1
  PROVE  s \ {x} \in SUBSET S /\ Cardinality(s \ {x}) <= n
<1>1. IsFiniteSet(s) /\ Cardinality(s) \in Nat
  BY FS_Subset, FS_CardinalityType
<1>2. Cardinality(s \ {x}) = Cardinality(s) - 1
  BY <1>1, FS_RemoveElement
<1> QED BY <1>1, <1>2

(* There are such sums: those of the sets of n elements, one n after       *)
(* another.                                                                *)
LEMMA SumsExist ==
  ASSUME NEW S, IsFiniteSet(S), NEW f \in [S -> Int]
  PROVE  \E it : IsSums(it, f, S)
<1> DEFINE Upto(it, n) == \A s \in SUBSET S : Cardinality(s) <= n =>
                            it[s] = IF s = {} THEN 0 ELSE f[Some(s)] + it[s \ {Some(s)}]
           N == {n \in Nat : \E it \in [SUBSET S -> Int] : Upto(it, n)}
<1>1. 0 \in N
  <2> DEFINE it == [s \in SUBSET S |-> 0]
  <2>1. it \in [SUBSET S -> Int]
    OBVIOUS
  <2>2. ASSUME NEW s \in SUBSET S, Cardinality(s) <= 0 PROVE s = {}
    <3>1. IsFiniteSet(s) /\ Cardinality(s) \in Nat
      BY FS_Subset, FS_CardinalityType
    <3> QED BY <2>2, <3>1, FS_EmptySet
  <2>3. Upto(it, 0)
    BY <2>2
  <2> QED BY <2>1, <2>3
<1>2. ASSUME NEW n \in N PROVE n + 1 \in N
  <2>1. PICK g \in [SUBSET S -> Int] : Upto(g, n)
    BY <1>2
  <2> DEFINE it == [s \in SUBSET S |-> IF s = {} THEN 0 ELSE f[Some(s)] + g[s \ {Some(s)}]]
  <2>2. ASSUME NEW s \in SUBSET S PROVE it[s] \in Int
    BY SomeIn
  <2>3. ASSUME NEW s \in SUBSET S, Cardinality(s) <= n, n \in Nat PROVE it[s] = g[s]
    BY <2>1, <2>3
  <2>4. ASSUME NEW s \in SUBSET S, Cardinality(s) <= n + 1, s # {}, n \in Nat
        PROVE  it[s] = f[Some(s)] + it[s \ {Some(s)}]
    <3>1. s \ {Some(s)} \in SUBSET S /\ Cardinality(s \ {Some(s)}) <= n
      BY <2>4, SomeIn, Smaller
    <3>2. it[s \ {Some(s)}] = g[s \ {Some(s)}]
      BY <2>3, <2>4, <3>1
    <3> QED BY <2>4, <3>2
  <2>5. it[{}] = 0 /\ n \in Nat /\ it \in [SUBSET S -> Int]
    BY <2>2
  <2> HIDE DEF it
  <2>6. Upto(it, n + 1)
    BY <2>4, <2>5
  <2>7. \E j \in [SUBSET S -> Int] : Upto(j, n + 1)
    BY <2>5, <2>6
  <2>8. n + 1 \in Nat
    BY <2>5
  <2> HIDE DEF Upto
  <2> QED BY <2>7, <2>8
<1>3. N = Nat
  <2> HIDE DEF N
  <2>1. N \in SUBSET Nat
    BY DEF N
  <2> QED BY <1>1, <1>2, <2>1, Induction
<1>4. Cardinality(S) \in N
  BY <1>3, FS_CardinalityType
<1>5. PICK it \in [SUBSET S -> Int] : Upto(it, Cardinality(S))
  BY <1>4
<1>6. \A s \in SUBSET S : Cardinality(s) <= Cardinality(S)
  BY FS_Subset
<1> QED BY <1>5, <1>6 DEF IsSums

(* Whatever satisfies the equation consists of integers.                   *)
LEMMA SumsAre ==
  ASSUME NEW S, IsFiniteSet(S), NEW f \in [S -> Int],
         NEW it, it \in [SUBSET S -> {it[s] : s \in SUBSET S}],
         \A s \in SUBSET S : it[s] = IF s = {} THEN 0 ELSE f[Some(s)] + it[s \ {Some(s)}]
  PROVE  IsSums(it, f, S)
<1> DEFINE N == {n \in Nat : \A s \in SUBSET S : Cardinality(s) <= n => it[s] \in Int}
<1>0. \A s \in SUBSET S : it[s] = IF s = {} THEN 0 ELSE f[Some(s)] + it[s \ {Some(s)}]
  OBVIOUS
<1>z. it[{}] = 0
  OBVIOUS
<1>1. 0 \in N
  <2>1. ASSUME NEW s \in SUBSET S, Cardinality(s) <= 0 PROVE s = {}
    <3>1. IsFiniteSet(s) /\ Cardinality(s) \in Nat
      BY FS_Subset, FS_CardinalityType
    <3> QED BY <2>1, <3>1, FS_EmptySet
  <2>2. \A s \in SUBSET S : Cardinality(s) <= 0 => it[s] \in Int
    BY <1>z, <2>1
  <2> QED BY <2>2
<1>2. ASSUME NEW n \in N, NEW s \in SUBSET S, Cardinality(s) <= n + 1
      PROVE  it[s] \in Int
  <2>1. CASE s = {}
    BY <1>z, <2>1
  <2>2. CASE s # {}
    <3>0. PICK c \in s : c = Some(s)
      BY <2>2, SomeIn
    <3>1. it[s] = f[c] + it[s \ {c}] /\ f[c] \in Int
      BY <1>0, <2>2, <3>0
    <3>2. s \ {c} \in SUBSET S /\ Cardinality(s \ {c}) <= n
      BY <1>2, Smaller
    <3>3. it[s \ {c}] \in Int
      BY <1>2, <3>2
    <3> QED BY <3>1, <3>3
  <2> QED BY <2>1, <2>2
<1>3. N = Nat
  <2>1. N \in SUBSET Nat
    OBVIOUS
  <2>2. ASSUME NEW n \in N PROVE n + 1 \in N
    <3>1. \A s \in SUBSET S : Cardinality(s) <= n + 1 => it[s] \in Int
      BY <1>2
    <3> QED BY <3>1
  <2> HIDE DEF N
  <2> QED BY <1>1, <2>1, <2>2, Induction
<1>4. ASSUME NEW s \in SUBSET S PROVE it[s] \in Int
  <2>1. Cardinality(s) \in Nat
    BY FS_Subset, FS_CardinalityType
  <2>2. Cardinality(s) \in N
    BY <1>3, <2>1
  <2>3. \A n \in N : \A t \in SUBSET S : Cardinality(t) <= n => it[t] \in Int
    OBVIOUS
  <2> HIDE DEF N
  <2> QED BY <2>1, <2>2, <2>3
<1>5. it \in [SUBSET S -> Int]
  BY <1>4
<1> QED BY <1>0, <1>5 DEF IsSums

(* The order does not matter.                                              *)
LEMMA AnyOrder ==
  ASSUME NEW S, IsFiniteSet(S), NEW f \in [S -> Int], NEW it, IsSums(it, f, S),
         NEW s \in SUBSET S, NEW x \in s
  PROVE  it[s] = f[x] + it[s \ {x}]
<1> DEFINE N == {n \in Nat : \A t \in SUBSET S : Cardinality(t) <= n =>
                               \A y \in t : it[t] = f[y] + it[t \ {y}]}
<1>1. 0 \in N
  <2>1. ASSUME NEW t \in SUBSET S, Cardinality(t) <= 0 PROVE t = {}
    <3>1. IsFiniteSet(t) /\ Cardinality(t) \in Nat
      BY FS_Subset, FS_CardinalityType
    <3> QED BY <2>1, <3>1, FS_EmptySet
  <2> QED BY <2>1
<1>2. ASSUME NEW n \in N, NEW t \in SUBSET S, Cardinality(t) <= n + 1, NEW y \in t
      PROVE  it[t] = f[y] + it[t \ {y}]
  <2>0. PICK c \in t : c = Some(t)
    BY SomeIn
  <2>1. it[t] = f[c] + it[t \ {c}]
    BY <2>0 DEF IsSums
  <2>2. CASE y = c
    BY <2>1, <2>2
  <2>3. CASE y # c
    <3>1. /\ t \ {c} \in SUBSET S /\ Cardinality(t \ {c}) <= n
          /\ t \ {y} \in SUBSET S /\ Cardinality(t \ {y}) <= n
      BY <1>2, Smaller
    <3>2. y \in t \ {c} /\ c \in t \ {y}
      BY <2>3
    <3>3. it[t \ {c}] = f[y] + it[(t \ {c}) \ {y}]
      BY <1>2, <3>1, <3>2
    <3>4. it[t \ {y}] = f[c] + it[(t \ {y}) \ {c}]
      BY <1>2, <3>1, <3>2
    <3>5. PICK r \in SUBSET S : r = (t \ {c}) \ {y} /\ r = (t \ {y}) \ {c}
      OBVIOUS
    <3>6. f[c] \in Int /\ f[y] \in Int /\ it[r] \in Int
      BY DEF IsSums
    <3>7. it[t \ {c}] = f[y] + it[r] /\ it[t \ {y}] = f[c] + it[r]
      BY <3>3, <3>4, <3>5
    <3> QED BY <2>1, <3>6, <3>7
  <2> QED BY <2>2, <2>3
<1>3. N = Nat
  <2>1. N \in SUBSET Nat
    OBVIOUS
  <2>2. ASSUME NEW n \in N PROVE n + 1 \in N
    <3>1. \A t \in SUBSET S : Cardinality(t) <= n + 1 => \A y \in t : it[t] = f[y] + it[t \ {y}]
      BY <1>2
    <3> QED BY <3>1
  <2> HIDE DEF N
  <2> QED BY <1>1, <2>1, <2>2, Induction
<1>4. Cardinality(s) \in N
  <2>1. IsFiniteSet(s) /\ Cardinality(s) \in Nat
    BY FS_Subset, FS_CardinalityType
  <2> QED BY <1>3, <2>1
<1> QED BY <1>4

(* A sum of nothing but zeros.                                             *)
LEMMA Zeros ==
  ASSUME NEW S, IsFiniteSet(S), NEW f \in [S -> Int], NEW it, IsSums(it, f, S),
         NEW s \in SUBSET S, \A x \in s : f[x] = 0
  PROVE  it[s] = 0
<1> DEFINE N == {n \in Nat : \A t \in SUBSET s : Cardinality(t) <= n => it[t] = 0}
<1>0. IsFiniteSet(s)
  BY FS_Subset
<1>1. 0 \in N
  <2>1. ASSUME NEW t \in SUBSET s, Cardinality(t) <= 0 PROVE t = {}
    <3>1. IsFiniteSet(t) /\ Cardinality(t) \in Nat
      BY <1>0, FS_Subset, FS_CardinalityType
    <3> QED BY <2>1, <3>1, FS_EmptySet
  <2> QED BY <2>1 DEF IsSums
<1>2. ASSUME NEW n \in N, NEW t \in SUBSET s, Cardinality(t) <= n + 1
      PROVE  it[t] = 0
  <2>1. CASE t = {}
    BY <2>1 DEF IsSums
  <2>2. CASE t # {}
    <3>0. PICK c \in t : c = Some(t)
      BY <2>2, SomeIn
    <3>1. it[t] = f[c] + it[t \ {c}]
      BY <3>0, AnyOrder
    <3>2. t \ {c} \in SUBSET s /\ Cardinality(t \ {c}) <= n
      BY <1>0, <1>2, Smaller
    <3> QED BY <1>2, <3>1, <3>2
  <2> QED BY <2>1, <2>2
<1>3. N = Nat
  <2>1. N \in SUBSET Nat
    OBVIOUS
  <2>2. ASSUME NEW n \in N PROVE n + 1 \in N
    BY <1>2
  <2> HIDE DEF N
  <2> QED BY <1>1, <2>1, <2>2, Induction
<1>4. Cardinality(s) \in N
  BY <1>0, <1>3, FS_CardinalityType
<1> QED BY <1>4

(* Two sums are equal when the summands of the first are those of the      *)
(* second, but for zeros.                                                  *)
Matched(S, f, T, g, h) ==
  /\ f \in [S -> Int] /\ g \in [T -> Int] /\ h \in [S -> T]
  /\ \A i, j \in S : h[i] = h[j] => i = j
  /\ \A i \in S : g[h[i]] = f[i]
  /\ \A t \in T : (\A i \in S : h[i] # t) => g[t] = 0

LEMMA SameSum ==
  ASSUME NEW S, IsFiniteSet(S), NEW T, IsFiniteSet(T), NEW f, NEW g, NEW h, NEW p, NEW q,
         Matched(S, f, T, g, h), IsSums(p, f, S), IsSums(q, g, T)
  PROVE  p[S] = q[T]
<1>0. /\ f \in [S -> Int] /\ g \in [T -> Int] /\ h \in [S -> T]
      /\ \A i, j \in S : h[i] = h[j] => i = j
      /\ \A i \in S : g[h[i]] = f[i]
      /\ \A t \in T : (\A i \in S : h[i] # t) => g[t] = 0
  BY DEF Matched
<1> USE <1>0
<1> DEFINE Like(s, t) == /\ \A i \in S : i \in s <=> h[i] \in t
           N == {n \in Nat : \A s \in SUBSET S, t \in SUBSET T :
                   Cardinality(s) <= n /\ Like(s, t) => p[s] = q[t]}
<1>1. ASSUME NEW t \in SUBSET T, Like({}, t) PROVE p[{}] = q[t]
  <2>1. \A x \in t : g[x] = 0
    BY <1>1
  <2>2. q[t] = 0
    BY <2>1, Zeros
  <2> QED BY <2>2 DEF IsSums
<1>2. 0 \in N
  <2>1. ASSUME NEW s \in SUBSET S, Cardinality(s) <= 0 PROVE s = {}
    <3>1. IsFiniteSet(s) /\ Cardinality(s) \in Nat
      BY FS_Subset, FS_CardinalityType
    <3> QED BY <2>1, <3>1, FS_EmptySet
  <2> QED BY <1>1, <2>1
<1>3. ASSUME NEW n \in N, NEW s \in SUBSET S, NEW t \in SUBSET T,
             Cardinality(s) <= n + 1, Like(s, t)
      PROVE  p[s] = q[t]
  <2>1. CASE s = {}
    BY <1>1, <1>3, <2>1
  <2>2. CASE s # {}
    <3>0. PICK c \in s : TRUE
      BY <2>2
    <3>1. h[c] \in t /\ g[h[c]] = f[c]
      BY <1>3
    <3>2. p[s] = f[c] + p[s \ {c}]
      BY AnyOrder
    <3>3. q[t] = g[h[c]] + q[t \ {h[c]}]
      BY <3>1, AnyOrder
    <3>4. s \ {c} \in SUBSET S /\ Cardinality(s \ {c}) <= n /\ t \ {h[c]} \in SUBSET T
      BY <1>3, Smaller
    <3>5. Like(s \ {c}, t \ {h[c]})
      BY <1>3
    <3>6. p[s \ {c}] = q[t \ {h[c]}]
      BY <1>3, <3>4, <3>5
    <3> QED BY <3>1, <3>2, <3>3, <3>6
  <2> QED BY <2>1, <2>2
<1>4. N = Nat
  <2>1. N \in SUBSET Nat
    OBVIOUS
  <2>2. ASSUME NEW n \in N PROVE n + 1 \in N
    BY <1>3
  <2> HIDE DEF N
  <2> QED BY <1>2, <2>1, <2>2, Induction
<1>5. Cardinality(S) \in N
  BY <1>4, FS_CardinalityType
<1>6. Like(S, T)
  OBVIOUS
<1> QED BY <1>5, <1>6, FS_CardinalityType

(* The two sums of WindowExact: a bucket of the window holds the second it *)
(* is dated, and seconds without a bucket saw nothing.                     *)
LEMMA WindowIsExact == Inv => WindowExact
<1> SUFFICES ASSUME Inv, NEW s \in 1 .. Len(stat)
             PROVE  ReqsLast1m(s) = MapThenSumSet(LAMBDA t : seen[s][t], {t \in Times : clock - t < Buckets})
  BY DEF WindowExact
<1> DEFINE S == {i \in Slots : clock - stat[s].ring[i].ts < Buckets}
           T == {t \in Times : clock - t < Buckets}
           f == [i \in S |-> stat[s].ring[i].reqs]
           g == [t \in T |-> seen[s][t]]
           h == [i \in S |-> stat[s].ring[i].ts]
<1>1. /\ clock \in Nat /\ Buckets \in Nat \ {0} /\ MaxTime \in Nat /\ MaxReqs \in Nat
      /\ \A i \in Slots : stat[s].ring[i] \in Bucket
  BY StatTyped, SiteFields, TrafficAssumption DEF Inv
<1>2. IsFiniteSet(S) /\ IsFiniteSet(T)
  <2>1. IsFiniteSet(Slots) /\ IsFiniteSet(Times)
    BY <1>1, FS_Interval DEF Slots, Times
  <2> QED BY <2>1, FS_Subset
<1>3. \A i \in S : /\ stat[s].ring[i].ts \in T /\ Slot(stat[s].ring[i].ts) = i
                   /\ stat[s].ring[i].reqs \in Int
  <2> SUFFICES ASSUME NEW i \in S
               PROVE  /\ stat[s].ring[i].ts \in T /\ Slot(stat[s].ring[i].ts) = i
                      /\ stat[s].ring[i].reqs \in Int
    OBVIOUS
  <2> PICK b \in Bucket : b = stat[s].ring[i]
    BY <1>1
  <2>1. clock - b.ts < Buckets /\ b.ts \in Times \cup {0 - Buckets} /\ b.reqs \in Int
    BY <1>1 DEF Bucket
  <2>2. b.ts \in T
    BY <1>1, <2>1
  <2>3. b # Empty
    BY <1>1, <2>1 DEF Empty
  <2>4. b.ts % Buckets = i
    BY <2>3 DEF Inv, TypeOK
  <2> QED BY <2>1, <2>2, <2>4 DEF Slot
<1>4. f \in [S -> Int] /\ h \in [S -> T] /\ \A i, j \in S : h[i] = h[j] => i = j
  BY <1>3
<1>5. g \in [T -> Int] /\ seen[s] \in [Times -> 0 .. MaxReqs]
  <2>1. seen[s] \in [Times -> 0 .. MaxReqs]
    BY StatTyped DEF Inv, TypeOK
  <2> QED BY <1>1, <2>1
<1>6. \A t \in T : seen[s][t] = IF stat[s].ring[Slot(t)].ts = t THEN stat[s].ring[Slot(t)].reqs ELSE 0
  BY DEF Inv, SecondsExact
<1>7. \A i \in S : g[h[i]] = f[i]
  BY <1>3, <1>6
<1>8. ASSUME NEW t \in T, \A i \in S : h[i] # t PROVE g[t] = 0
  <2>1. Slot(t) \in Slots
    BY SlotInRing DEF Times
  <2>2. stat[s].ring[Slot(t)].ts # t
    BY <1>8, <2>1
  <2> QED BY <1>6, <2>2
<1> DEFINE ItF(it) == it = [x \in SUBSET S |-> IF x = {} THEN 0
                              ELSE stat[s].ring[CHOOSE y \in x : TRUE].reqs + it[x \ {CHOOSE y \in x : TRUE}]]
           ItG(it) == it = [x \in SUBSET T |-> IF x = {} THEN 0
                              ELSE seen[s][CHOOSE y \in x : TRUE] + it[x \ {CHOOSE y \in x : TRUE}]]
           p == CHOOSE it : ItF(it)
           q == CHOOSE it : ItG(it)
<1>9. ReqsLast1m(s) = p[S]
  BY DEF ReqsLast1m, MapThenSumSet, MapThenFoldSet
<1>10. MapThenSumSet(LAMBDA t : seen[s][t], T) = q[T]
  BY DEF MapThenSumSet, MapThenFoldSet
<1>11. IsSums(p, f, S)
  <2> HIDE DEF T, g, h, q
  <2>0. \A x \in SUBSET S : x # {} =>
          Some(x) \in x /\ stat[s].ring[Some(x)].reqs = f[Some(x)] /\ f[Some(x)] \in Int
    BY <1>4, SomeIn
  <2>1. PICK it : IsSums(it, f, S)
    BY <1>2, <1>4, SumsExist
  <2> HIDE DEF f
  <2>2. ItF(it)
    BY <2>0, <2>1 DEF IsSums, Some
  <2>3. ItF(p)
    BY <2>2
  <2> HIDE DEF p
  <2>4. /\ \A x \in SUBSET S : p[x] = IF x = {} THEN 0 ELSE f[Some(x)] + p[x \ {Some(x)}]
        /\ p \in [SUBSET S -> {p[x] : x \in SUBSET S}]
    BY <2>0, <2>3 DEF Some
  <2> QED
    BY <1>2, <1>4, <2>4, SumsAre
<1>12. IsSums(q, g, T)
  <2> HIDE DEF S, f, h, p
  <2>0. \A x \in SUBSET T : x # {} =>
          Some(x) \in x /\ seen[s][Some(x)] = g[Some(x)] /\ g[Some(x)] \in Int
    BY <1>5, SomeIn
  <2>1. PICK it : IsSums(it, g, T)
    BY <1>2, <1>5, SumsExist
  <2> HIDE DEF g
  <2>2. ItG(it)
    BY <2>0, <2>1 DEF IsSums, Some
  <2>3. ItG(q)
    BY <2>2
  <2> HIDE DEF q
  <2>4. /\ \A x \in SUBSET T : q[x] = IF x = {} THEN 0 ELSE g[Some(x)] + q[x \ {Some(x)}]
        /\ q \in [SUBSET T -> {q[x] : x \in SUBSET T}]
    BY <2>0, <2>3 DEF Some
  <2> QED
    BY <1>2, <1>5, <2>4, SumsAre
<1>13. p[S] = q[T]
  <2> HIDE DEF S, T, f, g, h, p, q
  <2>1. Matched(S, f, T, g, h)
    BY <1>4, <1>5, <1>7, <1>8 DEF Matched
  <2> HIDE DEF ItF, ItG
  <2> QED
    BY <1>2, <1>11, <1>12, <2>1, SameSum
<1> QED
  BY <1>9, <1>10, <1>13

(* Tables, statistics, requests and the server keep their types; no bucket *)
(* holds a second of another, and no counter passes what was accepted.     *)
THEOREM TypeCorrect == Spec => []TypeOK
<1>1. Inv => TypeOK
  BY DEF Inv
<1> QED
  BY <1>1, InvAlways, PTL

(* For any number of overlapping first requests and of reloads, what a     *)
(* site that stays enabled was asked for is what the dashboard shows       *)
(* (SiteFor, Record, Prune).                                               *)
THEOREM NothingUncounted == Spec => []Counted
<1>1. Inv => Counted
  BY DEF Inv
<1> QED
  BY <1>1, InvAlways, PTL

(* For any window longer than the wait for the lock, the ring holds in     *)
(* every second of the window what was recorded in it, however late a      *)
(* request reaches it (Record, Snapshot).                                  *)
THEOREM RingIsExact == Spec => []SecondsExact
<1>1. Inv => SecondsExact
  BY DEF Inv
<1> QED
  BY <1>1, InvAlways, PTL

(* For any length of the window, the sum over the buckets that a snapshot  *)
(* shows is the number of requests recorded in the last Buckets seconds    *)
(* (Record, Snapshot).                                                     *)
THEOREM SnapshotsAreExact == Spec => []WindowExact
<1> QED
  BY WindowIsExact, InvAlways, PTL

(* For any order of the listeners, whoever is cut off by the end of the    *)
(* process is cut off after the deadline (Run).                            *)
THEOREM DrainsFirst == Spec => []CutOnlyLate
<1>1. Inv => CutOnlyLate
  BY DEF Inv
<1> QED
  BY <1>1, InvAlways, PTL
=============================================================================
