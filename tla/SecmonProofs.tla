--------------------------- MODULE SecmonProofs ---------------------------
(***************************************************************************)
(* What holds of the security monitor for any logs, lengths of a tail and  *)
(* of a year, thresholds and times to live: types, how long a report is    *)
(* used, the dates its lines are given, who it may call a brute-force, and *)
(* that its groups, counts, bans and hours are those of the tails it read. *)
(***************************************************************************)
EXTENDS Secmon, FiniteSetTheorems, SequenceTheorems, WellFoundedInduction, TLAPS

-----------------------------------------------------------------------------
(* The inductive invariant, in parts.                                      *)
Failing == {"failed", "invalid", "maxed"}
FailuresOf(s, a) == {i \in 1 .. Len(s) : s[i].ip = a /\ s[i].kind \in Failing}

(* The parts of TypeOK that are about one variable.                        *)
Stored ==
  /\ clock \in Year - 1 .. MaxTime /\ format \in {"iso", "syslog"}
  /\ authLog \in Seq(Event) /\ banLog \in Seq(BanEvent)
  /\ written \in 0 .. MaxLines /\ tries \in [Addrs -> 0 .. MaxLines]
  /\ reader \in Times \cup {None}
  /\ cached \in [from : Times, at : Times] \cup {None}

(* Nothing is dated after now, and nobody tried more often than is written *)
(* down.                                                                   *)
Past ==
  /\ \A i \in 1 .. Len(authLog) : authLog[i].time # None => authLog[i].time <= clock
  /\ \A a \in Addrs : tries[a] <= written

(* A try leaves two failures in the log at most.                           *)
TwoLines == \A a \in Addrs : Cardinality(FailuresOf(authLog, a)) <= 2 * tries[a]

(* A build takes BuildTime at most, and one is begun no sooner than        *)
(* CacheTTL after the last was done.                                       *)
Timely ==
  /\ reader # None => reader <= clock /\ clock <= reader + BuildTime
  /\ cached # None => /\ cached.from <= cached.at /\ cached.at <= clock
                      /\ cached.at <= cached.from + BuildTime
  /\ reader # None /\ cached # None => reader - cached.at >= CacheTTL

Inv == Stored /\ Past /\ TwoLines /\ Timely

-----------------------------------------------------------------------------
(* The constants, as the provers like them.                                *)
LEMMA Constants ==
  /\ TailLines \in Nat /\ TailLines >= 1 /\ Threshold \in Nat /\ CacheTTL \in Nat /\ BuildTime \in Nat
  /\ Day \in Nat /\ Year \in Nat /\ Day < Year /\ Year <= MaxTime
  /\ MaxTime \in Nat /\ MaxLogins \in Nat /\ MaxLines \in Nat
  /\ None \notin Int /\ None \notin Users
BY MonitorAssumption

(* Quotient and remainder.                                                 *)
LEMMA Division ==
  ASSUME NEW n \in Nat, NEW b \in Nat \ {0}
  PROVE  \E q \in Int, r \in 0 .. b - 1 : n = b * q + r /\ r = n % b /\ q = n \div b
BY SMTT(60)

LEMMA Wider == ASSUME NEW b \in Nat, NEW k \in Int, k >= 2 PROVE b * k >= 2 * b
BY SMTT(60)

LEMMA Less == ASSUME NEW b \in Nat, NEW k \in Int, k <= -1 PROVE b * k <= -b
BY SMTT(60)

LEMMA Apart == ASSUME NEW b \in Int, NEW p \in Int, NEW q \in Int PROVE b * q - b * p = b * (q - p)
BY SMTT(60)

LEMMA Same == ASSUME NEW b \in Int, NEW p \in Int PROVE p * b = b * p /\ b * p \in Int
BY SMTT(60)

(* Two numbers less than b apart, the first no later, have one quotient or *)
(* two that follow each other.                                             *)
LEMMA Neighbours ==
  ASSUME NEW b \in Nat \ {0}, NEW p \in Int, NEW q \in Int,
         NEW r \in 0 .. b - 1, NEW s \in 0 .. b - 1,
         b * p + r <= b * q + s, b * q + s - (b * p + r) < b
  PROVE  q = p \/ q = p + 1
<1>0. b * q - b * p = b * (q - p) /\ b * (q - p) \in Int /\ b * q \in Int /\ b * p \in Int
  BY Apart, Same
<1>1. ~(q - p >= 2)
  BY <1>0, Wider
<1>2. ~(q - p <= -1)
  BY <1>0, Less
<1> QED BY <1>1, <1>2

(* A line without a year is given one: the date is one of the clock's, and *)
(* that of a line of the last year but a day is the line's own.            *)
LEMMA Stamped ==
  ASSUME NEW time \in Nat, NEW now \in Year - 1 .. MaxTime
  PROVE  /\ SplitTimestamp(time, now) \in {time} \cup Times
         /\ time <= now /\ now - time < Year - Day => SplitTimestamp(time, now) = time
<1> USE Constants
<1>1. CASE format = "iso" \/ time = None
  BY <1>1 DEF SplitTimestamp
<1>2. CASE ~(format = "iso" \/ time = None)
  <2>0. now \in Nat /\ Year \in Nat \ {0}
    OBVIOUS
  <2>1. PICK q \in Int, r \in 0 .. Year - 1 : now = Year * q + r /\ r = now % Year /\ q = now \div Year
    BY <2>0, Division
  <2>2. PICK p \in Int, m \in 0 .. Year - 1 : time = Year * p + m /\ m = time % Year /\ p = time \div Year
    BY <2>0, Division
  <2> PICK t \in Int : t = Year * q + m
    BY Same
  <2>3. SplitTimestamp(time, now) = IF t > now + Day THEN t - Year ELSE t
    <3>1. (now \div Year) * Year + (time % Year) = t
      <4>1. q * Year + m = t
        BY <2>0, Same
      <4> QED BY <4>1, <2>1, <2>2, Zenon
    <3> QED BY <3>1, <1>2 DEF SplitTimestamp
  <2>int. Year * q \in Int /\ Year * p \in Int
    BY Same
  <2>4. Year * q <= now /\ now <= Year * q + Year - 1
    BY <2>1, <2>int
  <2>5. Year * q = 0 \/ Year * q >= Year
    <3>1. CASE q <= -1
      BY <3>1, Less, <2>4, <2>int
    <3>2. CASE q = 0
      BY <3>2
    <3>3. CASE q = 1
      BY <3>3
    <3>4. CASE q >= 2
      BY <3>4, Wider, <2>int
    <3> QED BY <3>1, <3>2, <3>3, <3>4
  <2>6. (IF t > now + Day THEN t - Year ELSE t) \in Times
    <3>1. CASE t > now + Day
      <4>1. t >= Year
        BY <2>5, <2>4, <2>int, <3>1
      <4> QED BY <4>1, <3>1, <2>4, <2>int DEF Times
    <3>2. CASE ~(t > now + Day)
      <4>1. t >= 0
        BY <2>5, <2>int
      <4> QED BY <4>1, <3>2 DEF Times
    <3> QED BY <3>1, <3>2
  <2>7. ASSUME time <= now, now - time < Year - Day
        PROVE  (IF t > now + Day THEN t - Year ELSE t) = time
    <3>1. q = p \/ q = p + 1
      <4>1. Year * p + m <= Year * q + r /\ Year * q + r - (Year * p + m) < Year
        BY <2>7, <2>1, <2>2, <2>int
      <4> QED BY <4>1, Neighbours
    <3>2. CASE q = p
      BY <3>2, <2>2, <2>7
    <3>3. CASE q = p + 1
      <4>1. Year * q - Year * p = Year * 1
        BY <3>3, Apart
      <4>2. t = time + Year
        BY <4>1, <2>2, <2>int
      <4> QED BY <4>2, <2>7
    <3> QED BY <3>1, <3>2, <3>3
  <2> QED BY <2>3, <2>6, <2>7
<1> QED BY <1>1, <1>2

-----------------------------------------------------------------------------
(* A tail is the end of a log.                                             *)
LEMMA TailOf ==
  ASSUME NEW S, NEW s \in Seq(S)
  PROVE  /\ ReadTail(s) \in Seq(S) /\ Len(ReadTail(s)) <= TailLines
         /\ \E n \in Nat : /\ n + Len(ReadTail(s)) = Len(s)
                           /\ \A i \in 1 .. Len(ReadTail(s)) : ReadTail(s)[i] = s[n + i]
<1> USE Constants
<1>1. Len(s) \in Nat /\ \A i \in 1 .. Len(s) : s[i] \in S
  BY ElementOfSeq, LenProperties
<1>2. PICK m \in Nat \ {0} : m = IF Len(s) > TailLines THEN Len(s) - TailLines + 1 ELSE 1
  BY <1>1
<1>3. m - 1 <= Len(s) /\ Len(s) - m + 1 <= TailLines
  BY <1>1, <1>2
<1>4. ReadTail(s) = SubSeq(s, m, Len(s))
  BY <1>2 DEF ReadTail
<1>5. \A i \in m .. Len(s) : s[i] \in S
  BY <1>1
<1>6. /\ SubSeq(s, m, Len(s)) \in Seq(S)
      /\ Len(SubSeq(s, m, Len(s))) = IF m <= Len(s) THEN Len(s) - m + 1 ELSE 0
      /\ \A i \in 1 .. Len(s) - m + 1 : SubSeq(s, m, Len(s))[i] = s[m + i - 1]
  BY <1>1, <1>5, SubSeqProperties
<1>7. Len(ReadTail(s)) = Len(s) - m + 1
  BY <1>1, <1>3, <1>4, <1>6
<1>8. m - 1 \in Nat /\ (m - 1) + Len(ReadTail(s)) = Len(s)
  BY <1>1, <1>7
<1>9. \A i \in 1 .. Len(ReadTail(s)) : ReadTail(s)[i] = s[(m - 1) + i]
  <2> TAKE i \in 1 .. Len(ReadTail(s))
  <2>1. m + i - 1 = (m - 1) + i
    BY <1>7, <1>1
  <2> QED BY <2>1, <1>4, <1>6, <1>7
<1> QED BY <1>3, <1>4, <1>6, <1>7, <1>8, <1>9

(* What a parsed tail consists of.                                         *)
LEMMA Parsed ==
  ASSUME Stored, NEW s \in Seq(Event)
  PROVE  /\ ParseAuthLog(s, clock) \in Seq(Event) /\ Len(ParseAuthLog(s, clock)) = Len(s)
         /\ \A i \in 1 .. Len(s) :
              ParseAuthLog(s, clock)[i] = [s[i] EXCEPT !.time = SplitTimestamp(s[i].time, clock)]
<1> DEFINE f(i) == [s[i] EXCEPT !.time = SplitTimestamp(s[i].time, clock)]
<1>1. Len(s) \in Nat
  BY LenProperties
<1>2. \A i \in 1 .. Len(s) : f(i) \in Event
  <2> TAKE i \in 1 .. Len(s)
  <2>1. s[i] \in Event
    BY ElementOfSeq
  <2>2. SplitTimestamp(s[i].time, clock) \in Times \cup {None}
    <3>1. CASE s[i].time = None
      BY <3>1 DEF SplitTimestamp
    <3>2. CASE s[i].time \in Times
      <4>1. s[i].time \in Nat /\ clock \in Year - 1 .. MaxTime
        BY <3>2, Constants DEF Times, Stored
      <4> QED BY <4>1, <3>2, Stamped
    <3> QED BY <3>1, <3>2, <2>1 DEF Event
  <2> QED BY <2>1, <2>2 DEF Event
<1>3. ParseAuthLog(s, clock) = [i \in 1 .. Len(s) |-> f(i)]
  BY DEF ParseAuthLog
<1> HIDE DEF f
<1>4. [i \in 1 .. Len(s) |-> f(i)] \in Seq(Event)
  BY <1>1, <1>2
<1>5. Len([i \in 1 .. Len(s) |-> f(i)]) = Len(s)
  BY <1>1, <1>4
<1>6. \A i \in 1 .. Len(s) : ParseAuthLog(s, clock)[i] = f(i)
  BY <1>3
<1> QED BY <1>3, <1>4, <1>5, <1>6 DEF f

(* The tails a build works on: parsed ends of the logs.                    *)
LEMMA TailsAre ==
  ASSUME Stored
  PROVE  /\ Tails \in Basis /\ Len(Tails.auth) <= TailLines /\ Len(Tails.ban) <= TailLines
         /\ Tails.auth = ParseAuthLog(ReadTail(authLog), clock)
<1>1. authLog \in Seq(Event) /\ banLog \in Seq(BanEvent) /\ clock \in Times
  BY Constants DEF Stored, Times
<1>2. ReadTail(authLog) \in Seq(Event) /\ Len(ReadTail(authLog)) <= TailLines
  BY <1>1, TailOf
<1>3. ReadTail(banLog) \in Seq(BanEvent) /\ Len(ReadTail(banLog)) <= TailLines
  BY <1>1, TailOf
<1>4. ParseAuthLog(ReadTail(authLog), clock) \in Seq(Event)
      /\ Len(ParseAuthLog(ReadTail(authLog), clock)) = Len(ReadTail(authLog))
  BY <1>2, Parsed
<1> QED BY <1>1, <1>2, <1>3, <1>4 DEF Tails, Basis

LEMMA StoredTypes == ASSUME Inv PROVE TypeOK
<1>1. Stored
  BY DEF Inv
<1>2. clock \in Times
  BY <1>1, Constants DEF Stored, Times
<1> QED BY <1>1, <1>2, TailsAre DEF Stored, TypeOK

(* The tail keeps the dates of its lines.                                  *)
LEMMA TailsDated == ASSUME Inv PROVE Dated(Tails)
<1> PICK s \in Seq(Event) : s = ReadTail(authLog)
  BY TailOf DEF Inv, Stored
<1> SUFFICES ASSUME NEW i \in 1 .. Len(s), s[i].time # None, clock - s[i].time < Year - Day
             PROVE  Tails.auth[i].time = s[i].time
  BY DEF Dated
<1>1. Stored /\ Past
  BY DEF Inv
<1>2. Tails.auth[i] = [s[i] EXCEPT !.time = SplitTimestamp(s[i].time, clock)]
  BY <1>1, TailsAre, Parsed
<1>3. s[i] \in Event
  BY ElementOfSeq
<1>4. s[i].time \in Nat /\ clock \in Year - 1 .. MaxTime
  BY <1>1, <1>3, Constants DEF Event, Times, Stored
<1>5. s[i].time <= clock
  <2>1. PICK n \in Nat : /\ n + Len(s) = Len(authLog)
                         /\ \A j \in 1 .. Len(s) : s[j] = authLog[n + j]
    BY <1>1, TailOf DEF Stored
  <2>2. Len(s) \in Nat /\ n + i \in 1 .. Len(authLog)
    <3>1. Len(s) \in Nat
      BY LenProperties
    <3> QED BY <3>1, <2>1
  <2> QED BY <2>1, <2>2, <1>1 DEF Past
<1>6. SplitTimestamp(s[i].time, clock) = s[i].time
  BY <1>4, <1>5, Stamped
<1> QED BY <1>2, <1>3, <1>6 DEF Event

-----------------------------------------------------------------------------
(* Failures, counted.                                                      *)
LEMMA FailuresFinite ==
  ASSUME NEW s \in Seq(Event), NEW a
  PROVE  IsFiniteSet(FailuresOf(s, a)) /\ Cardinality(FailuresOf(s, a)) \in Nat
<1>1. Len(s) \in Nat
  BY LenProperties
<1>2. IsFiniteSet(1 .. Len(s)) /\ FailuresOf(s, a) \subseteq 1 .. Len(s)
  BY <1>1, FS_Interval DEF FailuresOf
<1> QED BY <1>2, FS_Subset, FS_CardinalityType

(* Parsing leaves the failures where they are.                             *)
LEMMA PriorOf ==
  ASSUME Stored, NEW a
  PROVE  Prior(Tails, a) = Cardinality(FailuresOf(ReadTail(authLog), a))
<1> PICK s \in Seq(Event) : s = ReadTail(authLog)
  BY TailOf DEF Stored
<1>1. Tails.auth = ParseAuthLog(s, clock)
  BY TailsAre
<1>2. Len(Tails.auth) = Len(s)
  BY <1>1, Parsed
<1>3. \A i \in 1 .. Len(s) : Tails.auth[i].ip = s[i].ip /\ Tails.auth[i].kind = s[i].kind
  <2> TAKE i \in 1 .. Len(s)
  <2>1. Tails.auth[i] = [s[i] EXCEPT !.time = SplitTimestamp(s[i].time, clock)]
    BY <1>1, Parsed
  <2>2. s[i] \in Event
    BY ElementOfSeq
  <2> QED BY <2>1, <2>2 DEF Event
<1>4. {i \in 1 .. Len(Tails.auth) : Tails.auth[i].ip = a /\ Tails.auth[i].kind \in Failing}
        = FailuresOf(s, a)
  BY <1>2, <1>3 DEF FailuresOf
<1> QED BY <1>4 DEF Prior, Number, Failing

(* A tail has no more of them than its log.                                *)
LEMMA TailHasFewer ==
  ASSUME NEW s \in Seq(Event), NEW a
  PROVE  Cardinality(FailuresOf(ReadTail(s), a)) <= Cardinality(FailuresOf(s, a))
<1>1. PICK n \in Nat : /\ n + Len(ReadTail(s)) = Len(s)
                       /\ \A i \in 1 .. Len(ReadTail(s)) : ReadTail(s)[i] = s[n + i]
  BY TailOf
<1>2. Len(s) \in Nat /\ Len(ReadTail(s)) \in Nat
  BY TailOf, LenProperties
<1> DEFINE f == [i \in FailuresOf(ReadTail(s), a) |-> n + i]
<1>3. \A i \in FailuresOf(ReadTail(s), a) : n + i \in FailuresOf(s, a) /\ i \in Int
  <2> TAKE i \in FailuresOf(ReadTail(s), a)
  <2>1. i \in 1 .. Len(ReadTail(s)) /\ ReadTail(s)[i] = s[n + i]
    BY <1>1 DEF FailuresOf
  <2>2. n + i \in 1 .. Len(s)
    BY <2>1, <1>1, <1>2
  <2> QED BY <2>1, <2>2 DEF FailuresOf
<1>4. f \in Injection(FailuresOf(ReadTail(s), a), FailuresOf(s, a))
  <2>1. f \in [FailuresOf(ReadTail(s), a) -> FailuresOf(s, a)]
    BY <1>3
  <2>2. \A i, j \in FailuresOf(ReadTail(s), a) : f[i] = f[j] => i = j
    BY <1>3
  <2> QED BY <2>1, <2>2 DEF Injection, IsInjective
<1> HIDE DEF f
<1> QED BY <1>4, FailuresFinite, FS_Injection

(* What is written adds to them what it has itself.                        *)
LEMMA OneMore ==
  ASSUME NEW s \in Seq(Event), NEW e \in Event, NEW a
  PROVE  /\ Append(s, e) \in Seq(Event)
         /\ e.ip # a \/ e.kind \notin Failing
              => Cardinality(FailuresOf(Append(s, e), a)) = Cardinality(FailuresOf(s, a))
         /\ Cardinality(FailuresOf(Append(s, e), a)) <= Cardinality(FailuresOf(s, a)) + 1
<1>1. Len(s) \in Nat
  BY LenProperties
<1>2. /\ Append(s, e) \in Seq(Event) /\ Len(Append(s, e)) = Len(s) + 1
      /\ \A i \in 1 .. Len(s) : Append(s, e)[i] = s[i]
      /\ Append(s, e)[Len(s) + 1] = e
  OBVIOUS
<1>3. FailuresOf(Append(s, e), a) =
        IF e.ip = a /\ e.kind \in Failing THEN FailuresOf(s, a) \cup {Len(s) + 1} ELSE FailuresOf(s, a)
  <2>1. \A i : i \in 1 .. Len(s) + 1 <=> i \in 1 .. Len(s) \/ i = Len(s) + 1
    BY <1>1
  <2>2. Len(s) + 1 \notin 1 .. Len(s)
    BY <1>1
  <2> QED BY <2>1, <2>2, <1>2 DEF FailuresOf
<1>4. Len(s) + 1 \notin FailuresOf(s, a)
  BY <1>1 DEF FailuresOf
<1>5. Cardinality(FailuresOf(s, a) \cup {Len(s) + 1}) = Cardinality(FailuresOf(s, a)) + 1
  BY <1>4, FailuresFinite, FS_AddElement
<1>6. Cardinality(FailuresOf(s, a)) \in Nat
  BY FailuresFinite
<1> QED BY <1>2, <1>3, <1>5, <1>6

(* The lines of a try, one after the other.                                *)
LEMMA LinesOf ==
  ASSUME NEW a \in Addrs, NEW kinds \in Shapes, NEW time \in Times, NEW s \in Seq(Event)
  PROVE  /\ Len(kinds) \in 1 .. 2
         /\ \E e, f \in Event :
              /\ e.ip = a /\ f.ip = a /\ e.time = time /\ f.time = time
              /\ \/ Len(kinds) = 1 /\ s \o Tried(a, kinds, time) = Append(s, e)
                 \/ Len(kinds) = 2 /\ s \o Tried(a, kinds, time) = Append(Append(s, e), f)
<1> DEFINE ev(k) == [kind |-> k, user |-> None, ip |-> a, time |-> time]
<1>0. \A k \in Failing : ev(k) \in Event
  BY DEF Failing, Event
<1>s. Len(s) \in Nat
  BY LenProperties
<1>1. CASE kinds = <<"failed">>
  <2>1. Tried(a, kinds, time) = <<ev("failed")>>
    BY <1>1 DEF Tried
  <2>2. s \o <<ev("failed")>> = Append(s, ev("failed"))
    BY <1>0 DEF Failing
  <2>3. Len(kinds) = 1 /\ s \o Tried(a, kinds, time) = Append(s, ev("failed"))
    BY <1>1, <2>1, <2>2
  <2> QED BY <1>0, <2>3 DEF Failing
<1>2. ASSUME NEW k \in Failing, NEW l \in Failing, kinds = <<k, l>>
      PROVE  /\ Len(kinds) = 2
             /\ s \o Tried(a, kinds, time) = Append(Append(s, ev(k)), ev(l))
  <2>1. Tried(a, kinds, time) = <<ev(k), ev(l)>>
    BY <1>2 DEF Tried
  <2>2. s \o <<ev(k), ev(l)>> = Append(Append(s, ev(k)), ev(l))
    <3> HIDE DEF ev
    <3> QED BY <1>0
  <2> QED BY <1>2, <2>1, <2>2
<1>3. kinds = <<"failed">> \/ kinds = <<"invalid", "failed">> \/ kinds = <<"failed", "maxed">>
  BY DEF Shapes
<1>4. CASE kinds = <<"invalid", "failed">>
  <2>1. Len(kinds) = 2 /\ s \o Tried(a, kinds, time) = Append(Append(s, ev("invalid")), ev("failed"))
    BY <1>4, <1>2 DEF Failing
  <2> QED BY <2>1, <1>0 DEF Failing
<1>5. CASE kinds = <<"failed", "maxed">>
  <2>1. Len(kinds) = 2 /\ s \o Tried(a, kinds, time) = Append(Append(s, ev("failed")), ev("maxed"))
    BY <1>5, <1>2 DEF Failing
  <2> QED BY <2>1, <1>0 DEF Failing
<1> QED BY <1>1, <1>3, <1>4, <1>5

-----------------------------------------------------------------------------
(* One lemma for each action: it keeps the invariant.                      *)
LEMMA Initially == Init => Inv
<1> SUFFICES ASSUME Init PROVE Inv
  OBVIOUS
<1> USE Constants
<1>1. Stored
  BY DEF Init, Stored
<1>2. Past /\ Timely
  BY DEF Init, Past, Timely
<1>3. TwoLines
  <2> SUFFICES ASSUME NEW a \in Addrs PROVE Cardinality(FailuresOf(authLog, a)) <= 2 * tries[a]
    BY DEF TwoLines
  <2>1. FailuresOf(authLog, a) = {}
    BY DEF Init, FailuresOf
  <2>2. tries[a] = 0
    BY DEF Init
  <2> QED BY <2>1, <2>2, FS_EmptySet
<1> QED BY <1>1, <1>2, <1>3 DEF Inv

LEMMA TryKeeps ==
  ASSUME Inv, NEW a \in Addrs, NEW kinds \in Shapes, Try(a, kinds, clock)
  PROVE  Inv'
<1> USE Constants
<1>0. Stored /\ Past /\ TwoLines /\ Timely
  BY DEF Inv
<1>1. /\ written + Len(kinds) <= MaxLines /\ written' = written + Len(kinds)
      /\ authLog' = authLog \o Tried(a, kinds, clock)
      /\ tries' = [tries EXCEPT ![a] = @ + 1]
      /\ UNCHANGED <<clock, format, banLog, reader, cached>>
  BY DEF Try, env, cache
<1>2. authLog \in Seq(Event) /\ clock \in Times /\ written \in Nat
  BY <1>0 DEF Stored, Times
<1>3. Len(kinds) \in 1 .. 2
  BY <1>2, LinesOf
<1>4. PICK e \in Event, f \in Event :
        /\ e.ip = a /\ f.ip = a /\ e.time = clock /\ f.time = clock
        /\ \/ Len(kinds) = 1 /\ authLog' = Append(authLog, e)
           \/ Len(kinds) = 2 /\ authLog' = Append(Append(authLog, e), f)
  BY <1>1, <1>2, LinesOf
<1> PICK mid \in Seq(Event) : mid = Append(authLog, e)
  BY <1>2, OneMore
<1>5. authLog' \in Seq(Event)
  BY <1>4, OneMore
<1>6. tries[a] \in Nat /\ tries[a] <= written /\ tries \in [Addrs -> 0 .. MaxLines]
  BY <1>0 DEF Stored, Past
<1>7. Stored'
  <2>1. written' \in 0 .. MaxLines
    BY <1>1, <1>2, <1>3
  <2>2. tries' \in [Addrs -> 0 .. MaxLines]
    <3>1. tries[a] + 1 \in 0 .. MaxLines
      <4> PICK k \in 1 .. 2 : k = Len(kinds)
        BY <1>3
      <4> PICK n \in Nat : n = tries[a] /\ n <= written
        BY <1>6
      <4>1. written + k <= MaxLines
        BY <1>1
      <4> PICK w \in Nat, m \in Nat : w = written /\ m = MaxLines
        BY <1>2, Constants
      <4>2. n <= w /\ w + k <= m /\ k >= 1
        BY <4>1
      <4>3. n + 1 <= m
        BY <4>2
      <4> QED BY <4>3
    <3> QED BY <3>1, <1>1, <1>6
  <2> QED BY <2>1, <2>2, <1>0, <1>1, <1>5 DEF Stored
<1>8. Past'
  <2>1. \A x \in Addrs : tries'[x] <= written'
    <3> TAKE x \in Addrs
    <3>1. tries[x] \in Nat /\ tries[x] <= written
      BY <1>0, <1>6 DEF Past
    <3>2. tries'[x] = IF x = a THEN tries[x] + 1 ELSE tries[x]
      BY <1>1, <1>6
    <3> PICK k \in 1 .. 2 : k = Len(kinds)
      BY <1>3
    <3>3. written' = written + k
      BY <1>1
    <3> QED BY <3>1, <3>2, <3>3, <1>2
  <2>2. \A i \in 1 .. Len(mid) : mid[i].time # None => mid[i].time <= clock
    <3> TAKE i \in 1 .. Len(mid)
    <3>1. Len(authLog) \in Nat /\ Len(mid) = Len(authLog) + 1
      BY <1>2
    <3>2. CASE i \in 1 .. Len(authLog)
      BY <3>2, <1>0, <1>2 DEF Past
    <3>3. CASE i = Len(authLog) + 1
      <4>1. mid[i] = e
        BY <3>3, <1>2
      <4> QED BY <4>1, <1>4, <1>2 DEF Times
    <3> QED BY <3>1, <3>2, <3>3
  <2>3. \A i \in 1 .. Len(authLog') : authLog'[i].time # None => authLog'[i].time <= clock
    <3>1. CASE authLog' = mid
      BY <3>1, <2>2
    <3>2. CASE authLog' = Append(mid, f)
      <4> TAKE i \in 1 .. Len(authLog')
      <4>1. Len(mid) \in Nat /\ Len(authLog') = Len(mid) + 1
        BY <3>2
      <4>2. CASE i \in 1 .. Len(mid)
        <5>1. authLog'[i] = mid[i]
          BY <4>2, <3>2
        <5> QED BY <5>1, <4>2, <2>2
      <4>3. CASE i = Len(mid) + 1
        <5>1. authLog'[i] = f
          BY <4>3, <3>2
        <5> QED BY <5>1, <1>4, <1>2 DEF Times
      <4> QED BY <4>1, <4>2, <4>3
    <3> QED BY <3>1, <3>2, <1>4
  <2> QED BY <2>1, <2>3, <1>1 DEF Past
<1>9. TwoLines'
  <2> SUFFICES ASSUME NEW x \in Addrs
               PROVE  Cardinality(FailuresOf(authLog', x)) <= 2 * tries'[x]
    BY DEF TwoLines, FailuresOf
  <2> PICK c \in Nat : c = Cardinality(FailuresOf(authLog, x))
    BY <1>2, FailuresFinite
  <2> PICK d \in Nat : d = Cardinality(FailuresOf(mid, x))
    BY FailuresFinite
  <2>1. c <= 2 * tries[x] /\ tries[x] \in Nat
    BY <1>0, <1>6 DEF TwoLines
  <2>2. tries'[x] = IF x = a THEN tries[x] + 1 ELSE tries[x]
    BY <1>1, <1>6
  <2>3. /\ x # a => d = c
        /\ d <= c + 1
    BY <1>2, <1>4, OneMore
  <2>4. PICK z \in Nat : z = Cardinality(FailuresOf(authLog', x))
    BY <1>5, FailuresFinite
  <2>5. /\ x # a => z = d
        /\ z <= d + 1
    <3>1. CASE authLog' = mid
      BY <3>1, <2>4
    <3>2. CASE authLog' = Append(mid, f)
      BY <3>2, <2>4, <1>4, OneMore
    <3> QED BY <3>1, <3>2, <1>4
  <2>6. z <= 2 * tries'[x]
    BY <2>1, <2>2, <2>3, <2>5
  <2> QED BY <2>4, <2>6
<1>10. Timely'
  BY <1>0, <1>1 DEF Timely
<1> QED BY <1>7, <1>8, <1>9, <1>10 DEF Inv

LEMMA LogInKeeps ==
  ASSUME Inv, NEW a \in Addrs, NEW u \in Users, NEW kind \in {"password", "key"},
         NEW time \in {clock, None}, LogIn(a, u, kind, time)
  PROVE  Inv'
<1> USE Constants
<1>0. Stored /\ Past /\ TwoLines /\ Timely
  BY DEF Inv
<1> PICK e \in Event : e = [kind |-> kind, user |-> u, ip |-> a, time |-> time]
  <2>1. time \in Times \cup {None}
    BY <1>0 DEF Stored, Times
  <2> QED BY <2>1 DEF Event
<1>1. /\ written < MaxLines /\ written' = written + 1
      /\ authLog' = Append(authLog, e)
      /\ UNCHANGED <<clock, format, banLog, tries, reader, cached>>
  BY DEF LogIn, env, cache
<1>2. authLog \in Seq(Event) /\ clock \in Times /\ written \in Nat
  BY <1>0 DEF Stored, Times
<1>3. authLog' \in Seq(Event)
  BY <1>1, <1>2
<1>4. Stored'
  BY <1>0, <1>1, <1>2, <1>3 DEF Stored
<1>5. Past'
  <2>1. \A i \in 1 .. Len(authLog') : authLog'[i].time # None => authLog'[i].time <= clock
    <3> TAKE i \in 1 .. Len(authLog')
    <3>1. Len(authLog) \in Nat /\ Len(authLog') = Len(authLog) + 1
      BY <1>1, <1>2
    <3>2. CASE i \in 1 .. Len(authLog)
      <4>1. authLog'[i] = authLog[i]
        BY <3>2, <1>1, <1>2
      <4> QED BY <4>1, <3>2, <1>0 DEF Past
    <3>3. CASE i = Len(authLog) + 1
      <4>1. authLog'[i] = e
        BY <3>3, <1>1, <1>2
      <4> QED BY <4>1, <1>2 DEF Times
    <3> QED BY <3>1, <3>2, <3>3
  <2>2. \A x \in Addrs : tries'[x] <= written'
    <3> TAKE x \in Addrs
    <3>1. tries[x] \in Nat /\ tries[x] <= written
      BY <1>0 DEF Past, Stored
    <3> QED BY <3>1, <1>1, <1>2
  <2> QED BY <2>1, <2>2, <1>1 DEF Past
<1>6. TwoLines'
  <2> SUFFICES ASSUME NEW x \in Addrs
               PROVE  Cardinality(FailuresOf(authLog', x)) <= 2 * tries'[x]
    BY DEF TwoLines, FailuresOf
  <2>1. Cardinality(FailuresOf(authLog', x)) = Cardinality(FailuresOf(authLog, x))
    BY <1>1, <1>2, OneMore DEF Failing
  <2> QED BY <2>1, <1>0, <1>1 DEF TwoLines
<1>7. Timely'
  BY <1>0, <1>1 DEF Timely
<1> QED BY <1>4, <1>5, <1>6, <1>7 DEF Inv

LEMMA Fail2banKeeps ==
  ASSUME Inv, NEW a \in Addrs, NEW kind \in {"ban", "unban"}, Fail2ban(a, kind)
  PROVE  Inv'
<1> USE Constants
<1>0. Stored /\ Past /\ TwoLines /\ Timely
  BY DEF Inv
<1> PICK e \in BanEvent : e = [kind |-> kind, ip |-> a]
  BY DEF BanEvent
<1>1. /\ written < MaxLines /\ written' = written + 1
      /\ banLog' = Append(banLog, e)
      /\ UNCHANGED <<clock, format, authLog, tries, reader, cached>>
  BY DEF Fail2ban, env, cache
<1>2. banLog' \in Seq(BanEvent) /\ written \in Nat
  BY <1>0, <1>1 DEF Stored
<1>3. Stored'
  BY <1>0, <1>1, <1>2 DEF Stored
<1>4. Past'
  <2>1. \A x \in Addrs : tries'[x] <= written'
    <3> TAKE x \in Addrs
    <3>1. tries[x] \in Nat /\ tries[x] <= written
      BY <1>0 DEF Past, Stored
    <3> QED BY <3>1, <1>1, <1>2
  <2> QED BY <2>1, <1>0, <1>1 DEF Past
<1>5. TwoLines' /\ Timely'
  BY <1>0, <1>1 DEF TwoLines, FailuresOf, Timely
<1> QED BY <1>3, <1>4, <1>5 DEF Inv

LEMMA RotateKeeps == ASSUME Inv, Rotate PROVE Inv'
<1> USE Constants
<1>0. Stored /\ Past /\ TwoLines /\ Timely
  BY DEF Inv
<1>1. authLog' = <<>> /\ UNCHANGED <<clock, format, banLog, written, tries, reader, cached>>
  BY DEF Rotate, env, cache
<1>2. Stored' /\ Past' /\ Timely'
  BY <1>0, <1>1 DEF Stored, Past, Timely
<1>3. TwoLines'
  <2> SUFFICES ASSUME NEW x \in Addrs
               PROVE  Cardinality(FailuresOf(authLog', x)) <= 2 * tries'[x]
    BY DEF TwoLines, FailuresOf
  <2>1. FailuresOf(authLog', x) = {}
    BY <1>1 DEF FailuresOf
  <2>2. tries'[x] \in Nat
    BY <1>0, <1>1 DEF Stored
  <2> QED BY <2>1, <2>2, FS_EmptySet
<1> QED BY <1>2, <1>3 DEF Inv

LEMMA BuildKeeps == ASSUME Inv, Build PROVE Inv'
<1> USE Constants
<1>0. Stored /\ Past /\ TwoLines /\ Timely
  BY DEF Inv
<1>1. /\ ~Usable(clock) /\ reader' = clock
      /\ UNCHANGED <<clock, format, authLog, banLog, written, tries, cached>>
  BY DEF Build, env, logs
<1>2. Stored' /\ Past' /\ TwoLines'
  BY <1>0, <1>1 DEF Stored, Past, TwoLines, FailuresOf, Times
<1>3. Timely'
  <2>1. clock \in Nat
    BY <1>0 DEF Stored
  <2>2. ASSUME cached # None PROVE clock - cached.at >= CacheTTL
    <3>1. cached.at \in Nat
      BY <2>2, <1>0 DEF Stored, Times
    <3> QED BY <3>1, <2>1, <2>2, <1>1 DEF Usable
  <2> QED BY <2>1, <2>2, <1>0, <1>1 DEF Timely
<1> QED BY <1>2, <1>3 DEF Inv

LEMMA BuiltKeeps == ASSUME Inv, Built PROVE Inv'
<1> USE Constants
<1>0. Stored /\ Past /\ TwoLines /\ Timely
  BY DEF Inv
<1>1. /\ reader # None /\ cached' = [from |-> reader, at |-> clock] /\ reader' = None
      /\ UNCHANGED <<clock, format, authLog, banLog, written, tries>>
  BY DEF Built, env, logs
<1>2. reader \in Times /\ clock \in Times
  BY <1>0, <1>1 DEF Stored, Times
<1>3. Stored' /\ Past' /\ TwoLines'
  BY <1>0, <1>1, <1>2 DEF Stored, Past, TwoLines, FailuresOf
<1>4. Timely'
  BY <1>0, <1>1, <1>2 DEF Timely, Times
<1> QED BY <1>3, <1>4 DEF Inv

LEMMA TickKeeps == ASSUME Inv, Tick PROVE Inv'
<1> USE Constants
<1>0. Stored /\ Past /\ TwoLines /\ Timely
  BY DEF Inv
<1>1. /\ clock < MaxTime /\ clock' = clock + 1
      /\ reader # None => clock' <= reader + BuildTime
      /\ UNCHANGED <<format, authLog, banLog, written, tries, reader, cached>>
  BY DEF Tick, logs, cache
<1>2. clock \in Nat
  BY <1>0 DEF Stored
<1>3. Stored' /\ TwoLines'
  BY <1>0, <1>1, <1>2 DEF Stored, TwoLines, FailuresOf
<1>4. Past'
  <2>1. \A i \in 1 .. Len(authLog) : authLog[i].time # None => authLog[i].time <= clock'
    <3> TAKE i \in 1 .. Len(authLog)
    <3>1. authLog[i].time \in Nat \cup {None}
      <4>1. authLog[i] \in Event
        BY <1>0, ElementOfSeq DEF Stored
      <4> QED BY <4>1 DEF Event, Times
    <3> QED BY <3>1, <1>0, <1>1, <1>2 DEF Past
  <2> QED BY <2>1, <1>0, <1>1 DEF Past
<1>5. Timely'
  <2>1. reader # None => reader \in Nat
    BY <1>0 DEF Stored, Times
  <2>2. cached # None => cached.at \in Nat
    BY <1>0 DEF Stored, Times
  <2> QED BY <2>1, <2>2, <1>0, <1>1, <1>2 DEF Timely
<1> QED BY <1>3, <1>4, <1>5 DEF Inv

LEMMA Stays == ASSUME Inv, UNCHANGED vars PROVE Inv'
<1>1. UNCHANGED <<clock, format, authLog, banLog, written, tries, reader, cached>>
  BY DEF vars, env, logs, cache
<1> QED BY <1>1 DEF Inv, Stored, Past, TwoLines, FailuresOf, Timely

LEMMA StepKeeps == Inv /\ [Next]_vars => Inv'
<1> SUFFICES ASSUME Inv, [Next]_vars PROVE Inv'
  OBVIOUS
<1>1. ASSUME NEW a \in Addrs, NEW u \in Users, NEW kind \in Undated, LogIn(a, u, kind, None)
      PROVE  Inv'
  BY <1>1, LogInKeeps, MonitorAssumption
<1>2. CASE UNCHANGED vars
  BY <1>2, Stays
<1> QED BY <1>1, <1>2, TryKeeps, LogInKeeps, Fail2banKeeps, RotateKeeps, BuildKeeps, BuiltKeeps, TickKeeps
        DEF Next

LEMMA Always == Spec => []Inv
BY Initially, StepKeeps, PTL DEF Spec

-----------------------------------------------------------------------------
(* The natural numbers are well founded, so what holds of 0 and passes from*)
(* n to n + 1 holds of all of them.                                        *)
LEMMA Least == ASSUME NEW T \in SUBSET Nat, T # {} PROVE \E x \in T : \A y \in T : x <= y
<1> DEFINE R == OpToRel(<, Nat)
<1>1. IsWellFoundedOn(R, Nat)
  BY NatLessThanWellFounded
<1>2. ASSUME NEW x \in Nat, NEW y \in Nat, x < y PROVE <<x, y>> \in R
  BY <1>2 DEF OpToRel
<1>3. \E x \in T : \A y \in T : ~(<<y, x>> \in R)
  <2> HIDE DEF R
  <2> QED BY <1>1, WFMin
<1>4. PICK x \in T : \A y \in T : ~(<<y, x>> \in R)
  BY <1>3
<1>5. ASSUME NEW y \in T PROVE x <= y
  <2>1. ~(y < x)
    BY <1>2, <1>4, Zenon
  <2> QED BY <2>1
<1> QED BY <1>5

LEMMA Induction == ASSUME NEW N \in SUBSET Nat, 0 \in N, \A n \in N : n + 1 \in N PROVE N = Nat
<1> SUFFICES ASSUME N # Nat PROVE FALSE
  OBVIOUS
<1>1. PICK x \in Nat \ N : \A y \in Nat \ N : x <= y
  <2>1. Nat \ N # {} /\ Nat \ N \in SUBSET Nat
    OBVIOUS
  <2> QED BY <2>1, Least
<1>2. x # 0 /\ x - 1 \in Nat
  BY <1>1
<1>3. x - 1 \in N
  BY <1>1, <1>2
<1> QED BY <1>1, <1>2, <1>3

(* The fold over a sequence goes through its elements in turn: its equation*)
(* has a solution, step by step on longer prefixes.                        *)
LEMMA MaxOf ==
  ASSUME NEW k \in Nat, NEW x \in SUBSET (1 .. k + 1), k + 1 \in x
  PROVE  Max(x) = k + 1 /\ x \ {k + 1} \in SUBSET (1 .. k)
<1>1. \A y \in x : y \in Int /\ k + 1 >= y
  OBVIOUS
<1>2. Max(x) \in x /\ \A y \in x : Max(x) >= y
  BY <1>1 DEF Max
<1>3. PICK m \in x : m = Max(x) /\ m >= k + 1
  BY <1>2
<1>4. m = k + 1
  BY <1>1, <1>3
<1>5. \A y \in x \ {k + 1} : y \in 1 .. k
  OBVIOUS
<1> QED BY <1>3, <1>4, <1>5

LEMMA MaxIn ==
  ASSUME NEW k \in Nat, NEW x \in SUBSET (1 .. k), x # {}
  PROVE  Max(x) \in x
<1> DEFINE T == {m \in Nat : \E y \in x : m = k - y}
<1>1. T # {} /\ T \in SUBSET Nat
  <2>1. PICK y \in x : TRUE
    OBVIOUS
  <2>2. k - y \in T
    OBVIOUS
  <2> QED BY <2>2
<1>2. PICK m \in T : \A l \in T : m <= l
  BY <1>1, Least
<1>3. PICK y \in x : m = k - y
  BY <1>2
<1>4. ASSUME NEW z \in x PROVE y >= z
  <2>1. z \in 1 .. k /\ y \in 1 .. k /\ k - z \in T
    OBVIOUS
  <2>2. m <= k - z
    BY <1>2, <2>1
  <2> QED BY <1>3, <2>1, <2>2
<1> QED BY <1>4 DEF Max

Solves(it, F, base, s, k) == \A x \in SUBSET (1 .. k) :
  it[x] = IF x = {} THEN base ELSE F[<<it[x \ {Max(x)}], s[Max(x)]>>]
Solvable(A, F, base, s, k) == \E it \in [SUBSET (1 .. k) -> A] : Solves(it, F, base, s, k)

LEMMA FoldSolved ==
  ASSUME NEW A, NEW E, NEW F \in [A \X E -> A], NEW base \in A, NEW s \in Seq(E)
  PROVE  \E it \in [SUBSET (1 .. Len(s)) -> A] : Solves(it, F, base, s, Len(s))
<1> DEFINE N == {k \in Nat : k <= Len(s) => Solvable(A, F, base, s, k)}
<1>1. 0 \in N
  <2> DEFINE it == [x \in SUBSET (1 .. 0) |-> base]
  <2>1. it \in [SUBSET (1 .. 0) -> A] /\ \A x \in SUBSET (1 .. 0) : x = {} /\ it[x] = base
    OBVIOUS
  <2>2. Solves(it, F, base, s, 0)
    BY <2>1 DEF Solves
  <2> QED BY <2>1, <2>2 DEF Solvable
<1>2. ASSUME NEW k \in N, k + 1 <= Len(s)
      PROVE  Solvable(A, F, base, s, k + 1)
  <2>0. k \in Nat /\ Len(s) \in Nat /\ s[k + 1] \in E
    BY <1>2
  <2>a. k <= Len(s)
    BY <1>2, <2>0
  <2>1. PICK g \in [SUBSET (1 .. k) -> A] : Solves(g, F, base, s, k)
    BY <1>2, <2>0, <2>a DEF Solvable
  <2> DEFINE it == [x \in SUBSET (1 .. k + 1) |->
                      IF k + 1 \in x THEN F[<<g[x \ {k + 1}], s[k + 1]>>] ELSE g[x]]
  <2>2. ASSUME NEW x \in SUBSET (1 .. k + 1), k + 1 \notin x
        PROVE  x \in SUBSET (1 .. k) /\ it[x] = g[x] /\ it[x] \in A
    <3>1. k \in Nat /\ k + 1 \notin x
      BY <2>0, <2>2
    <3>2. \A y \in x : y \in 1 .. k
      BY <3>1
    <3>3. x \in SUBSET (1 .. k) /\ x \in SUBSET (1 .. k + 1)
      BY <3>2
    <3> QED BY <2>2, <3>3
  <2>3. ASSUME NEW x \in SUBSET (1 .. k + 1), k + 1 \in x
        PROVE  /\ x \ {k + 1} \in SUBSET (1 .. k) /\ Max(x) = k + 1
               /\ it[x] = F[<<g[x \ {k + 1}], s[k + 1]>>] /\ it[x] \in A
    <3>1. x \ {k + 1} \in SUBSET (1 .. k) /\ Max(x) = k + 1
      BY <2>0, <2>3, MaxOf
    <3>2. g[x \ {k + 1}] \in A
      BY <3>1
    <3> QED BY <2>0, <2>3, <3>1, <3>2
  <2>4. it \in [SUBSET (1 .. k + 1) -> A]
    <3>1. \A x \in SUBSET (1 .. k + 1) : it[x] \in A
      BY <2>2, <2>3
    <3> QED BY <3>1
  <2> HIDE DEF it
  <2>5. ASSUME NEW x \in SUBSET (1 .. k + 1)
        PROVE  it[x] = IF x = {} THEN base ELSE F[<<it[x \ {Max(x)}], s[Max(x)]>>]
    <3>1. CASE k + 1 \in x
      <4>1. x \ {k + 1} \in SUBSET (1 .. k + 1) /\ k + 1 \notin x \ {k + 1}
        OBVIOUS
      <4>2. it[x \ {k + 1}] = g[x \ {k + 1}]
        BY <2>2, <4>1
      <4> QED BY <2>3, <3>1, <4>2
    <3>2. CASE k + 1 \notin x
      <4>0. x \in SUBSET (1 .. k) /\ it[x] = g[x]
        BY <2>2, <3>2
      <4>1. CASE x = {}
        BY <2>1, <4>0, <4>1 DEF Solves
      <4>2. CASE x # {}
        <5>1. x \ {Max(x)} \in SUBSET (1 .. k + 1) /\ k + 1 \notin x \ {Max(x)}
          BY <3>2
        <5>2. it[x \ {Max(x)}] = g[x \ {Max(x)}]
          BY <2>2, <5>1
        <5>3. g[x] = F[<<g[x \ {Max(x)}], s[Max(x)]>>]
          BY <2>1, <4>0, <4>2 DEF Solves
        <5> QED BY <4>0, <4>2, <5>2, <5>3
      <4> QED BY <4>1, <4>2
    <3> QED BY <3>1, <3>2
  <2>6. Solves(it, F, base, s, k + 1)
    BY <2>5 DEF Solves
  <2> QED BY <2>4, <2>6 DEF Solvable
<1>3. N = Nat
  <2>1. N \in SUBSET Nat
    OBVIOUS
  <2>2. ASSUME NEW k \in N PROVE k + 1 \in N
    BY <1>2
  <2> HIDE DEF N
  <2> QED BY <1>1, <2>1, <2>2, Induction
<1>4. Len(s) \in N
  <2> HIDE DEF N
  <2> QED BY <1>3
<1>5. Len(s) \in Nat /\ Solvable(A, F, base, s, Len(s))
  BY <1>4
<1> QED BY <1>5 DEF Solvable

(* The prefixes, for what satisfies such an equation.                      *)
Prefix(i) == 1 .. i

LEMMA NoPrefix == Prefix(0) = {}
BY DEF Prefix

LEMMA PrefixOf ==
  ASSUME NEW n \in Nat, NEW i \in 1 .. n
  PROVE  /\ Prefix(i) # {} /\ Prefix(i) \in SUBSET (1 .. n)
         /\ Max(Prefix(i)) = i /\ Prefix(i) \ {i} = Prefix(i - 1)
<1>1. i \in Nat /\ i >= 1 /\ i <= n
  OBVIOUS
<1>5. i - 1 \in Nat /\ (i - 1) + 1 = i
  OBVIOUS
<1>2. 1 .. i \in SUBSET (1 .. (i - 1) + 1) /\ i \in 1 .. i /\ 1 .. i \in SUBSET (1 .. n)
  BY <1>1, <1>5
<1>3. Max(1 .. i) = i
  BY <1>5, <1>2, MaxOf
<1>4. (1 .. i) \ {i} = 1 .. i - 1
  BY <1>1
<1> QED BY <1>2, <1>3, <1>4 DEF Prefix

-----------------------------------------------------------------------------
Stat == [failures : Nat, invalid : Nat, successes : Nat, bans : Nat, last : {"ban", "unban", None}]
Line == Event \cup BanEvent
NoStats == [a \in Addrs |-> NoStat]

LEMMA NotedTyped == ASSUME NEW c \in Stat, NEW e PROVE Noted(c, e) \in Stat
<1>0. /\ c.failures + 1 \in Nat /\ c.invalid + 1 \in Nat /\ c.successes + 1 \in Nat /\ c.bans + 1 \in Nat
  BY DEF Stat
<1>1. /\ [c EXCEPT !.failures = @ + 1] \in Stat /\ [c EXCEPT !.invalid = @ + 1] \in Stat
      /\ [c EXCEPT !.successes = @ + 1] \in Stat /\ [c EXCEPT !.bans = @ + 1, !.last = "ban"] \in Stat
      /\ [c EXCEPT !.last = "unban"] \in Stat
  BY <1>0 DEF Stat
<1>2. CASE e.kind \in {"failed", "maxed", "invalid"}
  BY <1>1, <1>2 DEF Noted
<1>3. CASE e.kind \in {"password", "key", "ban"}
  BY <1>1, <1>3 DEF Noted
<1>4. CASE e.kind \notin {"failed", "maxed", "invalid", "password", "key", "ban"}
  BY <1>1, <1>4 DEF Noted
<1> QED BY <1>2, <1>3, <1>4

(* acc[i] is what the fold has come to after i lines.                      *)
LEMMA StatsRun ==
  ASSUME NEW s \in Seq(Line)
  PROVE  \E acc : /\ acc[0] = NoStats
                  /\ \A i \in 1 .. Len(s) : acc[i] = Aggregated(acc[i - 1], s[i])
                  /\ FoldLeft(Aggregated, [a \in Addrs |-> NoStat], s) = acc[Len(s)]
<1> DEFINE A == [Addrs -> Stat]
           D == 1 .. Len(s)
           F == [p \in A \X Line |-> Aggregated(p[1], p[2])]
           It(it) == it = [x \in SUBSET DOMAIN s |->
                             IF x = {} THEN [a \in Addrs |-> NoStat]
                             ELSE Aggregated(it[x \ {Max(x)}], s[Max(x)])]
           it == CHOOSE g : It(g)
<1>0. Len(s) \in Nat /\ DOMAIN s = D /\ \A i \in D : s[i] \in Line
  OBVIOUS
<1>1. FoldLeft(Aggregated, [a \in Addrs |-> NoStat], s) = it[DOMAIN s]
  BY DEF FoldLeft, MapThenFoldSet
<1>2. ASSUME NEW st \in A, NEW e \in Line PROVE Aggregated(st, e) \in A
  <2>1. e.ip \in Addrs /\ st[e.ip] \in Stat
    BY DEF Line, Event, BanEvent
  <2>2. Noted(st[e.ip], e) \in Stat
    BY <2>1, NotedTyped
  <2> QED BY <2>1, <2>2 DEF Aggregated
<1>3. F \in [A \X Line -> A] /\ NoStats \in A
  BY <1>2 DEF NoStats, NoStat, Stat
<1>4. PICK g \in [SUBSET D -> A] : Solves(g, F, NoStats, s, Len(s))
  BY <1>3, FoldSolved
<1>5. \A x \in SUBSET D : x # {} => Max(x) \in x
  BY <1>0, MaxIn
<1>6. It(g)
  <2>1. ASSUME NEW x \in SUBSET D, x # {}
        PROVE  g[x] = Aggregated(g[x \ {Max(x)}], s[Max(x)])
    <3>1. Max(x) \in D /\ x \ {Max(x)} \in SUBSET D
      BY <1>5, <2>1
    <3>2. <<g[x \ {Max(x)}], s[Max(x)]>> \in A \X Line
      BY <1>0, <3>1
    <3>3. g[x] = F[<<g[x \ {Max(x)}], s[Max(x)]>>]
      BY <1>4, <2>1 DEF Solves
    <3> QED BY <3>2, <3>3
  <2>2. g[{}] = NoStats
    BY <1>4 DEF Solves
  <2> QED BY <1>0, <2>1, <2>2 DEF NoStats
<1>7. It(it)
  BY <1>6
<1> DEFINE acc == [i \in 0 .. Len(s) |-> it[Prefix(i)]]
<1>8. /\ it[{}] = NoStats
      /\ \A x \in SUBSET D : x # {} => it[x] = Aggregated(it[x \ {Max(x)}], s[Max(x)])
  <2> HIDE DEF it
  <2> QED BY <1>0, <1>7 DEF NoStats
<1> HIDE DEF it, It
<1>9. acc[0] = NoStats
  <2>1. it[Prefix(0)] = NoStats
    BY <1>8, NoPrefix, Zenon
  <2>2. 0 \in 0 .. Len(s)
    BY <1>0
  <2> QED BY <2>1, <2>2
<1>10. \A i \in 1 .. Len(s) : acc[i] = Aggregated(acc[i - 1], s[i])
  <2> SUFFICES ASSUME NEW i \in 1 .. Len(s) PROVE acc[i] = Aggregated(acc[i - 1], s[i])
    OBVIOUS
  <2>1. /\ Prefix(i) # {} /\ Prefix(i) \in SUBSET D
        /\ Max(Prefix(i)) = i /\ Prefix(i) \ {i} = Prefix(i - 1)
    BY <1>0, PrefixOf
  <2>2. it[Prefix(i)] = Aggregated(it[Prefix(i - 1)], s[i])
    BY <1>8, <2>1
  <2>3. i \in 0 .. Len(s) /\ i - 1 \in 0 .. Len(s)
    BY <1>0
  <2> QED BY <2>2, <2>3
<1>11. acc[Len(s)] = it[DOMAIN s]
  BY <1>0 DEF Prefix
<1> QED BY <1>1, <1>9, <1>10, <1>11

(* What holds before the first element and passes from each to the next    *)
(* holds after the last.                                                   *)
LEMMA Upwards ==
  ASSUME NEW n \in Nat, NEW N, 0 \in N, \A i \in 1 .. n : i - 1 \in N => i \in N
  PROVE  n \in N
<1> DEFINE M == {i \in Nat : i <= n => i \in N}
<1>1. 0 \in M /\ M \in SUBSET Nat
  OBVIOUS
<1>2. ASSUME NEW i \in M PROVE i + 1 \in M
  <2> SUFFICES ASSUME i + 1 <= n PROVE i + 1 \in N
    OBVIOUS
  <2>1. i + 1 \in 1 .. n /\ (i + 1) - 1 = i /\ i \in N
    OBVIOUS
  <2> QED BY <2>1
<1>3. M = Nat
  <2> HIDE DEF M
  <2> QED BY <1>1, <1>2, Induction
<1>4. n \in M
  <2> HIDE DEF M
  <2> QED BY <1>3
<1> QED BY <1>4

(* How many of the first i indices are in a set.                           *)
Among(T, i) == Cardinality(T \cap Prefix(i))

LEMMA AmongNone == ASSUME NEW T PROVE Among(T, 0) = 0
BY NoPrefix, FS_EmptySet DEF Among

LEMMA AmongStep ==
  ASSUME NEW T, NEW n \in Nat, NEW i \in 1 .. n
  PROVE  /\ Among(T, i) \in Nat /\ Among(T, i - 1) \in Nat
         /\ i \in T => Among(T, i) = Among(T, i - 1) + 1
         /\ i \notin T => Among(T, i) = Among(T, i - 1)
<1>1. i \in Nat /\ i - 1 \in Nat
  OBVIOUS
<1>2. IsFiniteSet(Prefix(i)) /\ IsFiniteSet(Prefix(i - 1))
  BY <1>1, FS_Interval DEF Prefix
<1>3. T \cap Prefix(i) = IF i \in T THEN (T \cap Prefix(i - 1)) \cup {i} ELSE T \cap Prefix(i - 1)
  BY <1>1 DEF Prefix
<1>4. i \notin T \cap Prefix(i - 1)
  BY <1>1 DEF Prefix
<1>5. IsFiniteSet(T \cap Prefix(i)) /\ IsFiniteSet(T \cap Prefix(i - 1))
  BY <1>2, FS_Subset
<1>6. Cardinality((T \cap Prefix(i - 1)) \cup {i}) = Cardinality(T \cap Prefix(i - 1)) + 1
  BY <1>4, <1>5, FS_AddElement
<1> QED BY <1>3, <1>5, <1>6, FS_CardinalityType DEF Among

-----------------------------------------------------------------------------
(* What the loops of build have noted of an address after i lines: its     *)
(* failures, and whether the last that fail2ban did was to ban it.         *)
BannedAfter(s, a, i) ==
  \E j \in 1 .. i : /\ s[j].kind = "ban" /\ s[j].ip = a
                    /\ \A k \in j + 1 .. i : ~(s[k].ip = a /\ s[k].kind \in {"ban", "unban"})
NotedAfter(acc, s, i) ==
  /\ acc[i] \in [Addrs -> Stat]
  /\ \A a \in Addrs : /\ acc[i][a].failures + acc[i][a].invalid = Among(FailuresOf(s, a), i)
                      /\ acc[i][a].last = "ban" <=> BannedAfter(s, a, i)

LEMMA BannedStep ==
  ASSUME NEW s, NEW a, NEW n \in Nat, NEW i \in 1 .. n
  PROVE  /\ s[i].ip = a /\ s[i].kind = "ban" => BannedAfter(s, a, i)
         /\ s[i].ip = a /\ s[i].kind = "unban" => ~BannedAfter(s, a, i)
         /\ ~(s[i].ip = a /\ s[i].kind \in {"ban", "unban"})
              => (BannedAfter(s, a, i) <=> BannedAfter(s, a, i - 1))
<1>0. i \in Nat /\ i - 1 \in Nat /\ i \in 1 .. i /\ i + 1 .. i = {}
  OBVIOUS
<1>1. ASSUME s[i].ip = a, s[i].kind = "ban" PROVE BannedAfter(s, a, i)
  BY <1>0, <1>1 DEF BannedAfter
<1>2. ASSUME s[i].ip = a, s[i].kind = "unban", BannedAfter(s, a, i) PROVE FALSE
  <2>1. PICK j \in 1 .. i : /\ s[j].kind = "ban" /\ s[j].ip = a
                           /\ \A k \in j + 1 .. i : ~(s[k].ip = a /\ s[k].kind \in {"ban", "unban"})
    BY <1>2 DEF BannedAfter
  <2>2. j # i
    BY <1>2, <2>1
  <2>3. i \in j + 1 .. i
    BY <1>0, <2>2
  <2> QED BY <1>2, <2>1, <2>3
<1>3. ASSUME ~(s[i].ip = a /\ s[i].kind \in {"ban", "unban"}), BannedAfter(s, a, i)
      PROVE  BannedAfter(s, a, i - 1)
  <2>1. PICK j \in 1 .. i : /\ s[j].kind = "ban" /\ s[j].ip = a
                           /\ \A k \in j + 1 .. i : ~(s[k].ip = a /\ s[k].kind \in {"ban", "unban"})
    BY <1>3 DEF BannedAfter
  <2>2. j # i
    BY <1>3, <2>1
  <2>3. j \in 1 .. i - 1 /\ \A k \in j + 1 .. i - 1 : k \in j + 1 .. i
    BY <1>0, <2>2
  <2> QED BY <2>1, <2>3 DEF BannedAfter
<1>4. ASSUME ~(s[i].ip = a /\ s[i].kind \in {"ban", "unban"}), BannedAfter(s, a, i - 1)
      PROVE  BannedAfter(s, a, i)
  <2>1. PICK j \in 1 .. i - 1 : /\ s[j].kind = "ban" /\ s[j].ip = a
                           /\ \A k \in j + 1 .. i - 1 : ~(s[k].ip = a /\ s[k].kind \in {"ban", "unban"})
    BY <1>4 DEF BannedAfter
  <2>2. j \in 1 .. i /\ \A k \in j + 1 .. i : k = i \/ k \in j + 1 .. i - 1
    BY <1>0
  <2>3. \A k \in j + 1 .. i : ~(s[k].ip = a /\ s[k].kind \in {"ban", "unban"})
    BY <1>4, <2>1, <2>2
  <2> QED BY <2>1, <2>2, <2>3 DEF BannedAfter
<1> QED BY <1>1, <1>2, <1>3, <1>4

(* What a line adds to what is noted of its address.                       *)
LEMMA NotedIs ==
  ASSUME NEW c \in Stat, NEW e \in Line
  PROVE  /\ Noted(c, e) \in Stat
         /\ Noted(c, e).failures + Noted(c, e).invalid =
              IF e.kind \in Failing THEN c.failures + c.invalid + 1 ELSE c.failures + c.invalid
         /\ e.kind = "ban" => Noted(c, e).last = "ban"
         /\ e.kind = "unban" => Noted(c, e).last = "unban"
         /\ e.kind \notin {"ban", "unban"} => Noted(c, e).last = c.last
<1>0. c.failures \in Nat /\ c.invalid \in Nat
  BY DEF Stat
<1>1. CASE e.kind \in {"failed", "maxed"}
  <2>1. Noted(c, e) = [c EXCEPT !.failures = @ + 1]
    BY <1>1 DEF Noted
  <2>2. /\ Noted(c, e).failures = c.failures + 1 /\ Noted(c, e).invalid = c.invalid
        /\ Noted(c, e).last = c.last
    BY <2>1 DEF Stat
  <2> QED BY <1>0, <1>1, <2>2, NotedTyped DEF Failing
<1>2. CASE e.kind = "invalid"
  <2>1. Noted(c, e) = [c EXCEPT !.invalid = @ + 1]
    BY <1>2 DEF Noted
  <2>2. /\ Noted(c, e).failures = c.failures /\ Noted(c, e).invalid = c.invalid + 1
        /\ Noted(c, e).last = c.last
    BY <2>1 DEF Stat
  <2> QED BY <1>0, <1>2, <2>2, NotedTyped DEF Failing
<1>3. CASE e.kind \in {"password", "key"}
  <2>1. Noted(c, e) = [c EXCEPT !.successes = @ + 1]
    BY <1>3 DEF Noted
  <2>2. /\ Noted(c, e).failures = c.failures /\ Noted(c, e).invalid = c.invalid
        /\ Noted(c, e).last = c.last
    BY <2>1 DEF Stat
  <2> QED BY <1>0, <1>3, <2>2, NotedTyped DEF Failing
<1>4. CASE e.kind = "ban"
  <2>1. Noted(c, e) = [c EXCEPT !.bans = @ + 1, !.last = "ban"]
    BY <1>4 DEF Noted
  <2>2. /\ Noted(c, e).failures = c.failures /\ Noted(c, e).invalid = c.invalid
        /\ Noted(c, e).last = "ban"
    BY <2>1 DEF Stat
  <2> QED BY <1>0, <1>4, <2>2, NotedTyped DEF Failing
<1>5. CASE e.kind = "unban"
  <2>1. Noted(c, e) = [c EXCEPT !.last = "unban"]
    BY <1>5 DEF Noted
  <2>2. /\ Noted(c, e).failures = c.failures /\ Noted(c, e).invalid = c.invalid
        /\ Noted(c, e).last = "unban"
    BY <2>1 DEF Stat
  <2> QED BY <1>0, <1>5, <2>2, NotedTyped DEF Failing
<1>6. e.kind \in {"failed", "maxed", "invalid", "password", "key", "ban", "unban"}
  BY DEF Line, Event, BanEvent
<1> QED BY <1>1, <1>2, <1>3, <1>4, <1>5, <1>6

LEMMA NotedStep ==
  ASSUME NEW s \in Seq(Line), NEW acc, NEW i \in 1 .. Len(s),
         NotedAfter(acc, s, i - 1), acc[i] = Aggregated(acc[i - 1], s[i])
  PROVE  NotedAfter(acc, s, i)
<1> DEFINE st == acc[i - 1]
           e == s[i]
<1>0. e \in Line /\ e.ip \in Addrs /\ Len(s) \in Nat
  <2>1. e \in Line /\ Len(s) \in Nat
    OBVIOUS
  <2> QED BY <2>1 DEF Line, Event, BanEvent
<1>1. st \in [Addrs -> Stat]
  BY DEF NotedAfter
<1>2. acc[i] = [st EXCEPT ![e.ip] = Noted(@, e)]
  BY DEF Aggregated
<1>3. Noted(st[e.ip], e) \in Stat
  BY <1>0, <1>1, NotedIs
<1>4. acc[i] \in [Addrs -> Stat]
  BY <1>0, <1>1, <1>2, <1>3
<1>5. ASSUME NEW a \in Addrs
      PROVE  /\ acc[i][a].failures + acc[i][a].invalid = Among(FailuresOf(s, a), i)
             /\ acc[i][a].last = "ban" <=> BannedAfter(s, a, i)
  <2>1. /\ st[a].failures + st[a].invalid = Among(FailuresOf(s, a), i - 1)
        /\ st[a].last = "ban" <=> BannedAfter(s, a, i - 1)
    BY DEF NotedAfter
  <2>2. i \in FailuresOf(s, a) <=> e.ip = a /\ e.kind \in Failing
    BY DEF FailuresOf
  <2>3. /\ i \in FailuresOf(s, a) => Among(FailuresOf(s, a), i) = Among(FailuresOf(s, a), i - 1) + 1
        /\ i \notin FailuresOf(s, a) => Among(FailuresOf(s, a), i) = Among(FailuresOf(s, a), i - 1)
    <3>1. Len(s) \in Nat
      OBVIOUS
    <3> QED BY <3>1, AmongStep, Zenon
  <2>4. /\ e.ip = a /\ e.kind = "ban" => BannedAfter(s, a, i)
        /\ e.ip = a /\ e.kind = "unban" => ~BannedAfter(s, a, i)
        /\ ~(e.ip = a /\ e.kind \in {"ban", "unban"})
             => (BannedAfter(s, a, i) <=> BannedAfter(s, a, i - 1))
    BY <1>0, BannedStep
  <2>5. CASE e.ip = a
    <3>1. acc[i][a] = Noted(st[a], e) /\ st[a] \in Stat
      BY <1>0, <1>1, <1>2, <2>5
    <3>2. /\ Noted(st[a], e).failures + Noted(st[a], e).invalid =
               IF e.kind \in Failing THEN st[a].failures + st[a].invalid + 1
               ELSE st[a].failures + st[a].invalid
          /\ e.kind = "ban" => Noted(st[a], e).last = "ban"
          /\ e.kind = "unban" => Noted(st[a], e).last = "unban"
          /\ e.kind \notin {"ban", "unban"} => Noted(st[a], e).last = st[a].last
      BY <1>0, <3>1, NotedIs
    <3> HIDE DEF st, e
    <3>3. acc[i][a].failures + acc[i][a].invalid = Among(FailuresOf(s, a), i)
      BY <2>1, <2>2, <2>3, <2>5, <3>1, <3>2
    <3>4. acc[i][a].last = "ban" <=> BannedAfter(s, a, i)
      BY <2>1, <2>4, <2>5, <3>1, <3>2
    <3> QED BY <3>3, <3>4
  <2>6. CASE e.ip # a
    <3>1. acc[i][a] = st[a]
      BY <1>0, <1>1, <1>2, <2>6
    <3> HIDE DEF st, e
    <3> QED BY <2>1, <2>2, <2>3, <2>4, <2>6, <3>1
  <2> QED BY <2>5, <2>6
<1> QED BY <1>4, <1>5 DEF NotedAfter

LEMMA StatsAre ==
  ASSUME NEW s \in Seq(Line)
  PROVE  LET st == FoldLeft(Aggregated, [a \in Addrs |-> NoStat], s) IN
         /\ st \in [Addrs -> Stat]
         /\ \A a \in Addrs : /\ st[a].failures + st[a].invalid = Cardinality(FailuresOf(s, a))
                             /\ st[a].last = "ban" <=> BannedAfter(s, a, Len(s))
<1>1. PICK acc : /\ acc[0] = NoStats
                 /\ \A i \in 1 .. Len(s) : acc[i] = Aggregated(acc[i - 1], s[i])
                 /\ FoldLeft(Aggregated, [a \in Addrs |-> NoStat], s) = acc[Len(s)]
  BY StatsRun
<1>2. Len(s) \in Nat
  OBVIOUS
<1> DEFINE N == {i \in Nat : NotedAfter(acc, s, i)}
<1>3. NotedAfter(acc, s, 0)
  <2>1. NoStats \in [Addrs -> Stat]
    BY DEF NoStats, NoStat, Stat
  <2>2. ASSUME NEW a \in Addrs
        PROVE  /\ NoStats[a].failures + NoStats[a].invalid = Among(FailuresOf(s, a), 0)
               /\ ~(NoStats[a].last = "ban") /\ ~BannedAfter(s, a, 0)
    <3>1. ~(NoStats[a].last = "ban")
      BY MonitorAssumption DEF NoStats, NoStat
    <3>2. ~BannedAfter(s, a, 0)
      BY DEF BannedAfter
    <3>3. NoStats[a].failures = 0 /\ NoStats[a].invalid = 0
      BY DEF NoStats, NoStat
    <3> QED BY <3>1, <3>2, <3>3, AmongNone
  <2> QED BY <1>1, <2>1, <2>2 DEF NotedAfter
<1>4. ASSUME NEW i \in 1 .. Len(s), i - 1 \in N PROVE i \in N
  BY <1>1, <1>4, NotedStep
<1>5. 0 \in N
  BY <1>3
<1>6. Len(s) \in N
  <2> HIDE DEF N
  <2> QED BY <1>2, <1>4, <1>5, Upwards
<1>7. NotedAfter(acc, s, Len(s))
  BY <1>6
<1>8. \A a \in Addrs : Among(FailuresOf(s, a), Len(s)) = Cardinality(FailuresOf(s, a))
  <2> TAKE a \in Addrs
  <2>1. FailuresOf(s, a) \cap Prefix(Len(s)) = FailuresOf(s, a)
    BY DEF FailuresOf, Prefix
  <2> QED BY <2>1 DEF Among
<1> QED BY <1>1, <1>7, <1>8 DEF NotedAfter

(* The lines of the two tails, one after the other.                        *)
LEMMA Joined ==
  ASSUME NEW b \in Basis
  PROVE  LET s == b.auth \o b.ban
             n == Len(b.auth)
             m == Len(b.ban)
         IN
         /\ b.auth \in Seq(Event) /\ b.ban \in Seq(BanEvent) /\ s \in Seq(Line)
         /\ n \in Nat /\ m \in Nat /\ Len(s) = n + m
         /\ \A i \in 1 .. n : s[i] = b.auth[i] /\ b.auth[i] \in Event
         /\ \A i \in 1 .. m : s[n + i] = b.ban[i] /\ b.ban[i] \in BanEvent
         /\ \A i \in 1 .. Len(s) : i \in 1 .. n \/ \E j \in 1 .. m : i = n + j
<1> PICK x \in Seq(Event), y \in Seq(BanEvent) : b.auth = x /\ b.ban = y
  BY DEF Basis
<1>1. x \in Seq(Line) /\ y \in Seq(Line)
  BY DEF Line
<1>2. Len(x) \in Nat /\ Len(y) \in Nat
  OBVIOUS
<1>3. x \o y \in Seq(Line) /\ Len(x \o y) = Len(x) + Len(y)
  BY <1>1
<1>4. \A i \in 1 .. Len(x) : (x \o y)[i] = x[i] /\ x[i] \in Event
  BY <1>2
<1>5. \A i \in 1 .. Len(y) : (x \o y)[Len(x) + i] = y[i] /\ y[i] \in BanEvent
  BY <1>2
<1>6. ASSUME NEW i \in 1 .. Len(x) + Len(y)
      PROVE  i \in 1 .. Len(x) \/ \E j \in 1 .. Len(y) : i = Len(x) + j
  <2>1. CASE i > Len(x)
    <3>1. i - Len(x) \in 1 .. Len(y) /\ i = Len(x) + (i - Len(x))
      BY <1>2, <2>1
    <3> QED BY <3>1
  <2> QED BY <1>2, <2>1
<1> QED BY <1>2, <1>3, <1>4, <1>5, <1>6

LEMMA BannedIs ==
  ASSUME NEW b \in Basis, NEW a
  PROVE  BannedAfter(b.auth \o b.ban, a, Len(b.auth \o b.ban)) <=> BannedLast(b, a)
<1> DEFINE s == b.auth \o b.ban
           n == Len(b.auth)
           m == Len(b.ban)
<1>1. /\ n \in Nat /\ m \in Nat /\ Len(s) = n + m
      /\ \A i \in 1 .. n : s[i] = b.auth[i] /\ b.auth[i] \in Event
      /\ \A i \in 1 .. m : s[n + i] = b.ban[i] /\ b.ban[i] \in BanEvent
      /\ \A i \in 1 .. Len(s) : i \in 1 .. n \/ \E j \in 1 .. m : i = n + j
  BY Joined
<1>2. \A i \in 1 .. n : s[i].kind \notin {"ban", "unban"}
  BY <1>1 DEF Event
<1>3. \A i \in 1 .. m : s[n + i] = b.ban[i] /\ b.ban[i] \in BanEvent /\ b.ban[i].kind \in {"ban", "unban"}
  BY <1>1 DEF BanEvent
<1> HIDE DEF s, n, m
<1>4. ASSUME BannedAfter(s, a, n + m) PROVE BannedLast(b, a)
  <2>1. PICK j \in 1 .. n + m : /\ s[j].kind = "ban" /\ s[j].ip = a
                           /\ \A k \in j + 1 .. n + m : ~(s[k].ip = a /\ s[k].kind \in {"ban", "unban"})
    BY <1>4 DEF BannedAfter
  <2>2. PICK i \in 1 .. m : j = n + i
    BY <1>1, <1>2, <2>1
  <2>3. b.ban[i] = [kind |-> "ban", ip |-> a]
    BY <1>3, <2>1, <2>2 DEF BanEvent
  <2>4. ASSUME NEW k \in i + 1 .. m PROVE b.ban[k].ip # a
    <3>1. k \in 1 .. m /\ n + k \in j + 1 .. n + m
      BY <1>1, <2>2
    <3> QED BY <1>3, <2>1, <3>1
  <2> QED BY <2>3, <2>4 DEF BannedLast, m
<1>5. ASSUME BannedLast(b, a) PROVE BannedAfter(s, a, n + m)
  <2>1. PICK i \in 1 .. m : /\ b.ban[i] = [kind |-> "ban", ip |-> a]
                            /\ \A j \in i + 1 .. m : b.ban[j].ip # a
    BY <1>5 DEF BannedLast, m
  <2>2. n + i \in 1 .. n + m /\ s[n + i].kind = "ban" /\ s[n + i].ip = a
    BY <1>1, <1>3, <2>1
  <2>3. ASSUME NEW k \in n + i + 1 .. n + m PROVE s[k].ip # a
    <3>1. k - n \in i + 1 .. m /\ k - n \in 1 .. m /\ k = n + (k - n)
      BY <1>1
    <3>2. s[k] = b.ban[k - n]
      BY <1>3, <3>1
    <3> QED BY <2>1, <3>1, <3>2
  <2> QED BY <2>2, <2>3 DEF BannedAfter
<1> QED BY <1>1, <1>4, <1>5 DEF s

(* What a report's statistics say of an address.                           *)
LEMMA StatsOf ==
  ASSUME NEW b \in Basis
  PROVE  /\ Stats(b) \in [Addrs -> Stat]
         /\ \A a \in Addrs : /\ Stats(b)[a].failures + Stats(b)[a].invalid = Prior(b, a)
                             /\ Stats(b)[a].last = "ban" <=> BannedLast(b, a)
<1> DEFINE s == b.auth \o b.ban
<1>1. s \in Seq(Line)
  BY Joined
<1>2. /\ Stats(b) \in [Addrs -> Stat]
      /\ \A a \in Addrs : /\ Stats(b)[a].failures + Stats(b)[a].invalid = Cardinality(FailuresOf(s, a))
                          /\ Stats(b)[a].last = "ban" <=> BannedAfter(s, a, Len(s))
  BY <1>1, StatsAre DEF Stats
<1>3. ASSUME NEW a \in Addrs PROVE Cardinality(FailuresOf(s, a)) = Prior(b, a)
  <2>1. /\ Len(b.auth) \in Nat /\ Len(b.ban) \in Nat /\ Len(s) = Len(b.auth) + Len(b.ban)
        /\ \A i \in 1 .. Len(b.auth) : s[i] = b.auth[i]
        /\ \A i \in 1 .. Len(b.ban) : s[Len(b.auth) + i] = b.ban[i] /\ b.ban[i] \in BanEvent
        /\ \A i \in 1 .. Len(s) : i \in 1 .. Len(b.auth) \/ \E j \in 1 .. Len(b.ban) : i = Len(b.auth) + j
    BY Joined
  <2> HIDE DEF s
  <2>2. \A i \in 1 .. Len(b.ban) : s[Len(b.auth) + i].kind \notin Failing
    BY <2>1 DEF BanEvent, Failing
  <2>3. \A i \in 1 .. Len(b.auth) : i \in 1 .. Len(s)
    <3>1. \A n \in Nat, m \in Nat : \A i \in 1 .. n : i \in 1 .. n + m
      OBVIOUS
    <3> QED BY <2>1, <3>1
  <2>4. FailuresOf(s, a) = {i \in 1 .. Len(b.auth) : b.auth[i].ip = a /\ b.auth[i].kind \in Failing}
    <3>1. ASSUME NEW i \in FailuresOf(s, a)
          PROVE  i \in 1 .. Len(b.auth) /\ b.auth[i].ip = a /\ b.auth[i].kind \in Failing
      <4>1. i \in 1 .. Len(s) /\ s[i].ip = a /\ s[i].kind \in Failing
        BY DEF FailuresOf
      <4>2. i \in 1 .. Len(b.auth)
        BY <2>1, <2>2, <4>1
      <4> QED BY <2>1, <4>1, <4>2
    <3>2. ASSUME NEW i \in 1 .. Len(b.auth), b.auth[i].ip = a, b.auth[i].kind \in Failing
          PROVE  i \in FailuresOf(s, a)
      BY <2>1, <2>3, <3>2 DEF FailuresOf
    <3> QED BY <3>1, <3>2
  <2> QED BY <2>4 DEF Prior, Number, Failing
<1> QED BY <1>2, <1>3, BannedIs

LEMMA BansRight == ASSUME NEW b \in Basis PROVE Bans(b)
BY StatsOf DEF Bans, BansActive

-----------------------------------------------------------------------------
(* What a filter has kept of the first i events.                           *)
LEMMA KeptRun ==
  ASSUME NEW s \in Seq(Event), NEW kinds
  PROVE  \E acc : /\ acc[0] = <<>>
                  /\ \A i \in 1 .. Len(s) :
                       acc[i] = IF s[i].kind \in kinds THEN Append(acc[i - 1], s[i]) ELSE acc[i - 1]
                  /\ Kept(s, kinds) = acc[Len(s)]
<1> DEFINE A == Seq(Event)
           D == 1 .. Len(s)
           op(out, e) == IF e.kind \in kinds THEN Append(out, e) ELSE out
           F == [p \in A \X Event |-> op(p[1], p[2])]
           It(it) == it = [x \in SUBSET DOMAIN s |->
                             IF x = {} THEN <<>> ELSE op(it[x \ {Max(x)}], s[Max(x)])]
           it == CHOOSE g : It(g)
<1>0. Len(s) \in Nat /\ DOMAIN s = D /\ \A i \in D : s[i] \in Event
  OBVIOUS
<1>1. Kept(s, kinds) = it[DOMAIN s]
  BY DEF Kept, FoldLeft, MapThenFoldSet
<1>2. F \in [A \X Event -> A] /\ <<>> \in A
  <2>1. ASSUME NEW out \in A, NEW e \in Event PROVE op(out, e) \in A
    OBVIOUS
  <2> QED BY <2>1
<1>4. PICK g \in [SUBSET D -> A] : Solves(g, F, <<>>, s, Len(s))
  BY <1>2, FoldSolved
<1>5. \A x \in SUBSET D : x # {} => Max(x) \in x
  BY <1>0, MaxIn
<1>6. It(g)
  <2>1. ASSUME NEW x \in SUBSET D, x # {}
        PROVE  g[x] = op(g[x \ {Max(x)}], s[Max(x)])
    <3>1. Max(x) \in D /\ x \ {Max(x)} \in SUBSET D
      BY <1>5, <2>1
    <3>2. <<g[x \ {Max(x)}], s[Max(x)]>> \in A \X Event
      BY <1>0, <3>1
    <3>3. g[x] = F[<<g[x \ {Max(x)}], s[Max(x)]>>]
      BY <1>4, <2>1 DEF Solves
    <3> HIDE DEF op
    <3> QED BY <3>2, <3>3
  <2>2. g[{}] = <<>>
    BY <1>4 DEF Solves
  <2> QED BY <1>0, <2>1, <2>2
<1>7. It(it)
  BY <1>6
<1>8. /\ it[{}] = <<>>
      /\ \A x \in SUBSET D : x # {} => it[x] = op(it[x \ {Max(x)}], s[Max(x)])
  <2> HIDE DEF it
  <2> QED BY <1>0, <1>7
<1> DEFINE acc == [i \in 0 .. Len(s) |-> it[Prefix(i)]]
<1> HIDE DEF it, It
<1>9. acc[0] = <<>>
  <2>1. it[Prefix(0)] = <<>>
    BY <1>8, NoPrefix, Zenon
  <2>2. 0 \in 0 .. Len(s)
    BY <1>0
  <2> QED BY <2>1, <2>2
<1>10. \A i \in 1 .. Len(s) : acc[i] = op(acc[i - 1], s[i])
  <2> SUFFICES ASSUME NEW i \in 1 .. Len(s) PROVE acc[i] = op(acc[i - 1], s[i])
    OBVIOUS
  <2> HIDE DEF op
  <2>1. /\ Prefix(i) # {} /\ Prefix(i) \in SUBSET D
        /\ Max(Prefix(i)) = i /\ Prefix(i) \ {i} = Prefix(i - 1)
    BY <1>0, PrefixOf
  <2>2. it[Prefix(i)] = op(it[Prefix(i - 1)], s[i])
    BY <1>8, <2>1
  <2>3. i \in 0 .. Len(s) /\ i - 1 \in 0 .. Len(s)
    BY <1>0
  <2> QED BY <2>2, <2>3
<1>11. acc[Len(s)] = it[DOMAIN s]
  BY <1>0 DEF Prefix
<1> HIDE DEF acc
<1> QED BY <1>1, <1>9, <1>10, <1>11

(* What passes a filter: the events of these kinds, as many of each group  *)
(* as there are.                                                           *)
InGroup(s, g) == {j \in 1 .. Len(s) : GroupOf(s[j]) = g}
OfKind(s, kinds, i) == {s[j] : j \in {k \in Prefix(i) : s[k].kind \in kinds}}
KeptAfter(acc, s, kinds, i) ==
  /\ acc[i] \in Seq(Event) /\ ToSet(acc[i]) = OfKind(s, kinds, i)
  /\ \A g : g.kind \in kinds => Cardinality(InGroup(acc[i], g)) = Among(InGroup(s, g), i)

LEMMA Extended ==
  ASSUME NEW S, NEW s \in Seq(S), NEW e \in S
  PROVE  /\ Append(s, e) \in Seq(S) /\ Len(s) \in Nat /\ Len(Append(s, e)) = Len(s) + 1
         /\ \A i \in 1 .. Len(s) : Append(s, e)[i] = s[i]
         /\ Append(s, e)[Len(s) + 1] = e
         /\ \A i \in 1 .. Len(s) + 1 : i \in 1 .. Len(s) \/ i = Len(s) + 1
         /\ \A i \in 1 .. Len(s) : i \in 1 .. Len(s) + 1
         /\ Len(s) + 1 \notin 1 .. Len(s) /\ Len(s) + 1 \in 1 .. Len(s) + 1
         /\ ToSet(Append(s, e)) = ToSet(s) \cup {e}
<1>0. /\ Append(s, e) \in Seq(S) /\ Len(s) \in Nat /\ Len(Append(s, e)) = Len(s) + 1
      /\ \A i \in 1 .. Len(s) : Append(s, e)[i] = s[i]
      /\ Append(s, e)[Len(s) + 1] = e
  OBVIOUS
<1>1. /\ \A i \in 1 .. Len(s) + 1 : i \in 1 .. Len(s) \/ i = Len(s) + 1
      /\ \A i \in 1 .. Len(s) : i \in 1 .. Len(s) + 1
      /\ Len(s) + 1 \notin 1 .. Len(s) /\ Len(s) + 1 \in 1 .. Len(s) + 1
  BY <1>0
<1>2. DOMAIN s = 1 .. Len(s) /\ DOMAIN Append(s, e) = 1 .. Len(s) + 1
  BY <1>0
<1>3. ToSet(Append(s, e)) = ToSet(s) \cup {e}
  BY <1>0, <1>1, <1>2, Zenon DEF ToSet
<1> QED BY <1>0, <1>1, <1>3

LEMMA GroupGrows ==
  ASSUME NEW s \in Seq(Event), NEW e \in Event, NEW g
  PROVE  /\ Cardinality(InGroup(s, g)) \in Nat
         /\ GroupOf(e) = g => Cardinality(InGroup(Append(s, e), g)) = Cardinality(InGroup(s, g)) + 1
         /\ GroupOf(e) # g => InGroup(Append(s, e), g) = InGroup(s, g)
<1>1. /\ Append(s, e) \in Seq(Event) /\ Len(s) \in Nat /\ Len(Append(s, e)) = Len(s) + 1
      /\ \A i \in 1 .. Len(s) : Append(s, e)[i] = s[i]
      /\ Append(s, e)[Len(s) + 1] = e
      /\ \A i \in 1 .. Len(s) + 1 : i \in 1 .. Len(s) \/ i = Len(s) + 1
      /\ \A i \in 1 .. Len(s) : i \in 1 .. Len(s) + 1
      /\ Len(s) + 1 \notin 1 .. Len(s) /\ Len(s) + 1 \in 1 .. Len(s) + 1
  BY Extended
<1>2. IsFiniteSet(InGroup(s, g)) /\ Cardinality(InGroup(s, g)) \in Nat
  <2>1. IsFiniteSet(1 .. Len(s)) /\ InGroup(s, g) \subseteq 1 .. Len(s)
    BY <1>1, FS_Interval DEF InGroup
  <2> QED BY <2>1, FS_Subset, FS_CardinalityType
<1>3. ASSUME GroupOf(e) = g
      PROVE  Cardinality(InGroup(Append(s, e), g)) = Cardinality(InGroup(s, g)) + 1
  <2>1. InGroup(Append(s, e), g) = InGroup(s, g) \cup {Len(s) + 1}
    BY <1>1, <1>3, Zenon DEF InGroup
  <2>2. Len(s) + 1 \notin InGroup(s, g)
    BY <1>1, Zenon DEF InGroup
  <2> QED BY <1>2, <2>1, <2>2, FS_AddElement
<1>4. ASSUME GroupOf(e) # g PROVE InGroup(Append(s, e), g) = InGroup(s, g)
  BY <1>1, <1>4, Zenon DEF InGroup
<1> QED BY <1>2, <1>3, <1>4

LEMMA KeptStep ==
  ASSUME NEW s \in Seq(Event), NEW kinds, NEW acc, NEW i \in 1 .. Len(s),
         KeptAfter(acc, s, kinds, i - 1),
         acc[i] = IF s[i].kind \in kinds THEN Append(acc[i - 1], s[i]) ELSE acc[i - 1]
  PROVE  KeptAfter(acc, s, kinds, i)
<1> PICK e \in Event, out \in Seq(Event) : e = s[i] /\ out = acc[i - 1]
  BY DEF KeptAfter
<1>0. Len(s) \in Nat /\ i \in Nat
  OBVIOUS
<1>1. \A k : k \in Prefix(i) <=> k \in Prefix(i - 1) \/ k = i
  BY <1>0 DEF Prefix
<1>2. OfKind(s, kinds, i) = IF e.kind \in kinds THEN OfKind(s, kinds, i - 1) \cup {e}
                            ELSE OfKind(s, kinds, i - 1)
  BY <1>1, Zenon DEF OfKind
<1>3. acc[i] \in Seq(Event) /\ ToSet(acc[i]) = OfKind(s, kinds, i)
  <2>1. ToSet(out) = OfKind(s, kinds, i - 1)
    BY DEF KeptAfter
  <2>2. CASE e.kind \in kinds
    <3>1. acc[i] = Append(out, e)
      BY <2>2
    <3>2. Append(out, e) \in Seq(Event) /\ ToSet(Append(out, e)) = ToSet(out) \cup {e}
      BY Extended
    <3> QED BY <1>2, <2>1, <2>2, <3>1, <3>2
  <2>3. CASE e.kind \notin kinds
    BY <1>2, <2>1, <2>3
  <2> QED BY <2>2, <2>3
<1>4. ASSUME NEW g, g.kind \in kinds
      PROVE  Cardinality(InGroup(acc[i], g)) = Among(InGroup(s, g), i)
  <2>1. Cardinality(InGroup(out, g)) = Among(InGroup(s, g), i - 1)
    BY <1>4 DEF KeptAfter
  <2>2. i \in InGroup(s, g) <=> GroupOf(e) = g
    BY DEF InGroup
  <2>3. /\ i \in InGroup(s, g) => Among(InGroup(s, g), i) = Among(InGroup(s, g), i - 1) + 1
        /\ i \notin InGroup(s, g) => Among(InGroup(s, g), i) = Among(InGroup(s, g), i - 1)
    BY <1>0, AmongStep
  <2>4. CASE e.kind \in kinds
    <3>1. acc[i] = Append(out, e)
      BY <2>4
    <3>2. /\ GroupOf(e) = g => Cardinality(InGroup(Append(out, e), g)) = Cardinality(InGroup(out, g)) + 1
          /\ GroupOf(e) # g => InGroup(Append(out, e), g) = InGroup(out, g)
      BY GroupGrows
    <3> QED BY <2>1, <2>2, <2>3, <3>1, <3>2
  <2>5. CASE e.kind \notin kinds
    <3>1. GroupOf(e) # g
      BY <1>4, <2>5 DEF GroupOf
    <3> QED BY <2>1, <2>2, <2>3, <2>5, <3>1
  <2> QED BY <2>4, <2>5
<1> QED BY <1>3, <1>4 DEF KeptAfter

LEMMA KeptIs ==
  ASSUME NEW s \in Seq(Event), NEW kinds
  PROVE  /\ Kept(s, kinds) \in Seq(Event)
         /\ ToSet(Kept(s, kinds)) = {e \in ToSet(s) : e.kind \in kinds}
         /\ \A g : g.kind \in kinds
              => Cardinality(InGroup(Kept(s, kinds), g)) = Cardinality(InGroup(s, g))
<1>1. PICK acc : /\ acc[0] = <<>>
                 /\ \A i \in 1 .. Len(s) :
                      acc[i] = IF s[i].kind \in kinds THEN Append(acc[i - 1], s[i]) ELSE acc[i - 1]
                 /\ Kept(s, kinds) = acc[Len(s)]
  BY KeptRun
<1>2. Len(s) \in Nat /\ DOMAIN s = 1 .. Len(s)
  OBVIOUS
<1> DEFINE N == {i \in Nat : KeptAfter(acc, s, kinds, i)}
<1>3. 0 \in N
  <2>1. <<>> \in Seq(Event) /\ ToSet(<<>>) = {} /\ OfKind(s, kinds, 0) = {}
    BY NoPrefix DEF ToSet, OfKind
  <2>2. ASSUME NEW g PROVE Cardinality(InGroup(<<>>, g)) = Among(InGroup(s, g), 0)
    <3>1. InGroup(<<>>, g) = {}
      BY DEF InGroup
    <3> QED BY <3>1, AmongNone, FS_EmptySet
  <2>3. KeptAfter(acc, s, kinds, 0)
    BY <1>1, <2>1, <2>2 DEF KeptAfter
  <2> QED BY <2>3
<1>4. ASSUME NEW i \in 1 .. Len(s), i - 1 \in N PROVE i \in N
  BY <1>1, <1>4, KeptStep
<1>5. Len(s) \in N
  <2> HIDE DEF N
  <2> QED BY <1>2, <1>3, <1>4, Upwards
<1>6. OfKind(s, kinds, Len(s)) = {e \in ToSet(s) : e.kind \in kinds}
  BY <1>2 DEF OfKind, ToSet, Prefix
<1>7. ASSUME NEW g PROVE Among(InGroup(s, g), Len(s)) = Cardinality(InGroup(s, g))
  <2>1. InGroup(s, g) \cap Prefix(Len(s)) = InGroup(s, g)
    BY DEF InGroup, Prefix
  <2> QED BY <2>1 DEF Among
<1> QED BY <1>1, <1>5, <1>6, <1>7 DEF KeptAfter

(* The bucket of a date is the hour it is in.                              *)
LEMMA Divided ==
  ASSUME NEW n \in Int, NEW b \in Nat \ {0}
  PROVE  \E q \in Int, r \in 0 .. b - 1 : n = b * q + r /\ q = n \div b
BY SMTT(60)

LEMMA Quotient ==
  ASSUME NEW n \in Int, NEW b \in Nat \ {0}, NEW q \in Int, NEW r \in 0 .. b - 1, n = b * q + r
  PROVE  n \div b = q
<1>1. PICK p \in Int, m \in 0 .. b - 1 : n = b * p + m /\ p = n \div b
  BY Divided
<1>2. b * p - b * q = b * (p - q) /\ b * q - b * p = b * (q - p) /\ b * p \in Int /\ b * q \in Int
      /\ b * (p - q) \in Int
  BY Apart, Same
<1>3. ~(p - q >= 1)
  <2>1. ~(p - q >= 2)
    BY <1>1, <1>2, Wider
  <2>2. p - q # 1
    <3> SUFFICES ASSUME p - q = 1 PROVE FALSE
      OBVIOUS
    <3>1. b * (p - q) = b
      BY SMT
    <3> QED BY <1>1, <1>2, <3>1
  <2> QED BY <2>1, <2>2
<1>4. ~(p - q <= -1)
  BY <1>1, <1>2, Less
<1> QED BY <1>1, <1>3, <1>4

LEMMA InBucket ==
  ASSUME NEW time \in Nat, NEW from \in Nat
  PROVE  LET i == (time - Start(from)) \div Hour + 1 IN
         /\ Start(from) \in Int
         /\ i = time \div Hour - from \div Hour + Hours /\ i \in Int
         /\ time < Start(from) => i \notin 1 .. Hours
<1>0. Hour \in Nat \ {0} /\ Hours \in Nat \ {0}
  BY MonitorAssumption
<1>1. PICK q \in Int, r \in 0 .. Hour - 1 : from = Hour * q + r /\ q = from \div Hour
  BY <1>0, Divided
<1>2. PICK p \in Int, m \in 0 .. Hour - 1 : time = Hour * p + m /\ p = time \div Hour
  BY <1>0, Divided
<1> PICK k \in Int : k = Hours - 1
  BY <1>0
<1>3. Hour * q \in Int /\ Hour * p \in Int /\ k * Hour \in Int /\ Hour * (q - k) \in Int
      /\ Hour * (p - (q - k)) \in Int
  BY <1>0, Same
<1>4. from - k * Hour = Hour * (q - k) + r
  <2>1. Hour * q - Hour * k = Hour * (q - k) /\ k * Hour = Hour * k
    BY <1>0, Apart, Same
  <2> QED BY <1>1, <1>3, <2>1
<1>5. (from - k * Hour) \div Hour = q - k
  BY <1>0, <1>3, <1>4, Quotient
<1>6. Start(from) = Hour * (q - k)
  <2>1. Start(from) = (q - k) * Hour
    BY <1>5 DEF Start
  <2> QED BY <1>0, <2>1, Same
<1>7. time - Start(from) = Hour * (p - (q - k)) + m
  <2>1. Hour * p - Hour * (q - k) = Hour * (p - (q - k))
    BY <1>0, Apart
  <2> QED BY <1>2, <1>3, <1>6, <2>1
<1>8. (time - Start(from)) \div Hour = p - (q - k)
  <2>1. time - Start(from) \in Int /\ p - (q - k) \in Int
    BY <1>3, <1>6
  <2> QED BY <1>0, <1>7, <2>1, Quotient
<1>9. ASSUME time < Start(from) PROVE ~(p - (q - k) + 1 >= 1)
  <2> SUFFICES ASSUME p - (q - k) >= 0 PROVE FALSE
    OBVIOUS
  <2>1. CASE p - (q - k) = 0
    <3>1. Hour * (p - (q - k)) = 0
      BY <1>0, <2>1
    <3> QED BY <1>3, <1>6, <1>7, <1>9, <3>1
  <2>2. CASE p - (q - k) = 1
    <3>1. Hour * (p - (q - k)) = Hour
      BY <1>0, <2>2
    <3> QED BY <1>0, <1>3, <1>6, <1>7, <1>9, <3>1
  <2>3. CASE p - (q - k) >= 2
    <3>1. Hour * (p - (q - k)) >= 2 * Hour
      BY <1>0, <2>3, Wider
    <3> QED BY <1>0, <1>3, <1>6, <1>7, <1>9, <3>1
  <2>4. p - (q - k) = 0 \/ p - (q - k) = 1 \/ p - (q - k) >= 2
    <3> PICK d \in Int : d = p - (q - k)
      OBVIOUS
    <3>1. d >= 0 => d = 0 \/ d = 1 \/ d >= 2
      BY SMT
    <3> QED BY <3>1, Zenon
  <2> QED BY <2>1, <2>2, <2>3, <2>4, Zenon
<1> QED BY <1>0, <1>1, <1>2, <1>3, <1>6, <1>8, <1>9

(* What is counted in the buckets after i events.                          *)
Buckets == [1 .. Hours -> Nat]
Empty == [i \in 1 .. Hours |-> 0]
Slot(b, e) == (e.time - Start(b.from)) \div Hour + 1
Hits(b, out, e) ==
  IF e.kind \notin {"failed", "invalid"} \/ e.time = None THEN out
  ELSE IF e.time < Start(b.from) \/ Slot(b, e) \notin 1 .. Hours THEN out
  ELSE [out EXCEPT ![Slot(b, e)] = @ + 1]

LEMMA HourlyRun ==
  ASSUME NEW b \in Basis
  PROVE  \E acc : /\ acc[0] = Empty
                  /\ \A i \in 1 .. Len(b.auth) : acc[i] = Hits(b, acc[i - 1], b.auth[i])
                  /\ Hourly(b) = acc[Len(b.auth)]
<1> PICK s \in Seq(Event) : s = b.auth
  BY Joined
<1> DEFINE A == Buckets
           D == 1 .. Len(s)
           F == [p \in A \X Event |-> Hits(b, p[1], p[2])]
           It(it) == it = [x \in SUBSET DOMAIN s |->
                             IF x = {} THEN Empty ELSE Hits(b, it[x \ {Max(x)}], s[Max(x)])]
           it == CHOOSE g : It(g)
<1>0. Len(s) \in Nat /\ DOMAIN s = D /\ \A i \in D : s[i] \in Event
  OBVIOUS
<1>1. Hourly(b) = it[DOMAIN s]
  BY DEF Hourly, FoldLeft, MapThenFoldSet, Hits, Slot, Empty
<1>2. F \in [A \X Event -> A] /\ Empty \in A
  <2>1. ASSUME NEW out \in A, NEW e \in Event PROVE Hits(b, out, e) \in A
    <3> PICK i : i = Slot(b, e)
      OBVIOUS
    <3>1. i \in 1 .. Hours => [out EXCEPT ![i] = @ + 1] \in A
      BY DEF Buckets
    <3> QED BY <3>1 DEF Hits
  <2> QED BY <2>1 DEF Empty, Buckets
<1>4. PICK g \in [SUBSET D -> A] : Solves(g, F, Empty, s, Len(s))
  BY <1>2, FoldSolved
<1>5. \A x \in SUBSET D : x # {} => Max(x) \in x
  BY <1>0, MaxIn
<1>6. It(g)
  <2>1. ASSUME NEW x \in SUBSET D, x # {}
        PROVE  g[x] = Hits(b, g[x \ {Max(x)}], s[Max(x)])
    <3>1. Max(x) \in D /\ x \ {Max(x)} \in SUBSET D
      BY <1>5, <2>1
    <3>2. <<g[x \ {Max(x)}], s[Max(x)]>> \in A \X Event
      BY <1>0, <3>1
    <3>3. g[x] = F[<<g[x \ {Max(x)}], s[Max(x)]>>]
      BY <1>4, <2>1 DEF Solves
    <3> QED BY <3>2, <3>3
  <2>2. g[{}] = Empty
    BY <1>4 DEF Solves
  <2> QED BY <1>0, <2>1, <2>2
<1>7. It(it)
  BY <1>6
<1>8. /\ it[{}] = Empty
      /\ \A x \in SUBSET D : x # {} => it[x] = Hits(b, it[x \ {Max(x)}], s[Max(x)])
  <2> HIDE DEF it
  <2> QED BY <1>0, <1>7
<1> DEFINE acc == [i \in 0 .. Len(s) |-> it[Prefix(i)]]
<1> HIDE DEF it, It
<1>9. acc[0] = Empty
  <2>1. it[Prefix(0)] = Empty
    BY <1>8, NoPrefix, Zenon
  <2>2. 0 \in 0 .. Len(s)
    BY <1>0
  <2> QED BY <2>1, <2>2
<1>10. \A i \in 1 .. Len(s) : acc[i] = Hits(b, acc[i - 1], s[i])
  <2> SUFFICES ASSUME NEW i \in 1 .. Len(s) PROVE acc[i] = Hits(b, acc[i - 1], s[i])
    OBVIOUS
  <2>1. /\ Prefix(i) # {} /\ Prefix(i) \in SUBSET D
        /\ Max(Prefix(i)) = i /\ Prefix(i) \ {i} = Prefix(i - 1)
    BY <1>0, PrefixOf
  <2>2. it[Prefix(i)] = Hits(b, it[Prefix(i - 1)], s[i])
    BY <1>8, <2>1
  <2>3. i \in 0 .. Len(s) /\ i - 1 \in 0 .. Len(s)
    BY <1>0
  <2> QED BY <2>2, <2>3
<1>11. acc[Len(s)] = it[DOMAIN s]
  BY <1>0 DEF Prefix
<1> HIDE DEF acc
<1> QED BY <1>1, <1>9, <1>10, <1>11

Bucket(b, h) ==
  {j \in 1 .. Len(b.auth) : /\ b.auth[j].kind \in {"failed", "invalid"} /\ b.auth[j].time # None
                            /\ b.auth[j].time \div Hour = b.from \div Hour - (Hours - h)}
HitAfter(acc, b, i) ==
  acc[i] \in Buckets /\ \A h \in 1 .. Hours : acc[i][h] = Among(Bucket(b, h), i)

LEMMA HitStep ==
  ASSUME NEW b \in Basis, NEW acc, NEW i \in 1 .. Len(b.auth),
         HitAfter(acc, b, i - 1), acc[i] = Hits(b, acc[i - 1], b.auth[i])
  PROVE  HitAfter(acc, b, i)
<1> PICK e \in Event, out \in Buckets : e = b.auth[i] /\ out = acc[i - 1]
  BY Joined DEF HitAfter
<1>0. Len(b.auth) \in Nat /\ b.from \in Nat /\ Hour \in Nat \ {0} /\ Hours \in Nat \ {0}
  <2>1. Len(b.auth) \in Nat
    BY Joined
  <2> QED BY <2>1, MonitorAssumption DEF Basis, Times
<1>1. e.time # None => e.time \in Nat
  BY MonitorAssumption DEF Event, Times
<1> DEFINE k == b.auth[i].time \div Hour - b.from \div Hour + Hours
           hit == e.kind \in {"failed", "invalid"} /\ e.time # None /\ k \in 1 .. Hours
<1>2. acc[i] = IF hit THEN [out EXCEPT ![k] = @ + 1] ELSE out
  <2>1. CASE e.kind \notin {"failed", "invalid"} \/ e.time = None
    BY <2>1 DEF Hits
  <2>2. CASE e.kind \in {"failed", "invalid"} /\ e.time # None
    <3>1. /\ Slot(b, e) = k
          /\ e.time < Start(b.from) => k \notin 1 .. Hours
      BY <1>0, <1>1, <2>2, InBucket DEF Slot
    <3>2. acc[i] = IF e.time < Start(b.from) \/ k \notin 1 .. Hours THEN out
                   ELSE [out EXCEPT ![k] = @ + 1]
      BY <2>2, <3>1 DEF Hits
    <3> HIDE DEF k
    <3> QED BY <2>2, <3>1, <3>2
  <2> QED BY <2>1, <2>2
<1>3. acc[i] \in Buckets
  <2> HIDE DEF k
  <2>1. \A j \in 1 .. Hours : out[j] + 1 \in Nat
    BY <1>0 DEF Buckets
  <2> QED BY <1>2, <2>1 DEF Buckets
<1>4. ASSUME NEW h \in 1 .. Hours PROVE acc[i][h] = Among(Bucket(b, h), i)
  <2>1. out[h] = Among(Bucket(b, h), i - 1)
    BY DEF HitAfter
  <2>2. i \in Bucket(b, h) <=> hit /\ h = k
    <3>1. CASE e.time = None
      BY <3>1 DEF Bucket
    <3>2. CASE e.time # None
      <4>1. \A n \in Nat : n \div Hour \in Int
        BY <1>0, Divided
      <4>2. e.time \div Hour \in Int /\ b.from \div Hour \in Int
        BY <1>0, <1>1, <3>2, <4>1, Zenon
      <4>3. \A x, y \in Int : (x = y - (Hours - h)) <=> (h = x - y + Hours)
        BY <1>0
      <4>4. e.time \div Hour = b.from \div Hour - (Hours - h) <=> h = k
        BY <4>2, <4>3, Zenon
      <4> QED BY <3>2, <4>4 DEF Bucket
    <3> QED BY <3>1, <3>2
  <2>3. /\ i \in Bucket(b, h) => Among(Bucket(b, h), i) = Among(Bucket(b, h), i - 1) + 1
        /\ i \notin Bucket(b, h) => Among(Bucket(b, h), i) = Among(Bucket(b, h), i - 1)
    BY <1>0, AmongStep
  <2>4. acc[i][h] = IF hit /\ h = k THEN out[h] + 1 ELSE out[h]
    <3> HIDE DEF k
    <3> QED BY <1>2 DEF Buckets
  <2> HIDE DEF k, hit
  <2> QED BY <2>1, <2>2, <2>3, <2>4
<1> QED BY <1>3, <1>4 DEF HitAfter

LEMMA RecentRight == ASSUME NEW b \in Basis PROVE Recent(b)
<1>1. PICK acc : /\ acc[0] = Empty
                 /\ \A i \in 1 .. Len(b.auth) : acc[i] = Hits(b, acc[i - 1], b.auth[i])
                 /\ Hourly(b) = acc[Len(b.auth)]
  BY HourlyRun
<1>2. Len(b.auth) \in Nat
  BY Joined
<1> DEFINE N == {i \in Nat : HitAfter(acc, b, i)}
<1>3. 0 \in N
  <2>1. Empty \in Buckets /\ \A h \in 1 .. Hours : Empty[h] = 0
    BY DEF Empty, Buckets
  <2>2. HitAfter(acc, b, 0)
    BY <1>1, <2>1, AmongNone DEF HitAfter
  <2> QED BY <2>2
<1>4. ASSUME NEW i \in 1 .. Len(b.auth), i - 1 \in N PROVE i \in N
  BY <1>1, <1>4, HitStep
<1>5. Len(b.auth) \in N
  <2> HIDE DEF N
  <2> QED BY <1>2, <1>3, <1>4, Upwards
<1>6. \A h \in 1 .. Hours : Hourly(b)[h] = Cardinality(Bucket(b, h))
  <2> TAKE h \in 1 .. Hours
  <2>1. Bucket(b, h) \cap Prefix(Len(b.auth)) = Bucket(b, h)
    BY DEF Bucket, Prefix
  <2>2. Hourly(b)[h] = Among(Bucket(b, h), Len(b.auth))
    BY <1>1, <1>5 DEF HitAfter
  <2> QED BY <2>1, <2>2 DEF Among
<1> DEFINE f == Kept(b.auth, {"failed", "invalid", "maxed"})
<1>7. ASSUME NEW i \in 1 .. Len(RecentFailures(b)) PROVE RecentFailures(b)[i] = f[Len(f) + 1 - i]
  <2>1. f \in Seq(Event)
    BY KeptIs, Joined
  <2> HIDE DEF f
  <2>2. Len(f) \in Nat /\ \A j \in 1 .. Len(f) : f[j] \in Event
    BY <2>1
  <2>3. \A j \in 1 .. Len(f) : (Len(f) - j) + 1 \in 1 .. Len(f) /\ (Len(f) - j) + 1 = Len(f) + 1 - j
    BY <2>2
  <2> PICK r : r = Reverse(f)
    OBVIOUS
  <2>4. r \in Seq(Event) /\ Len(r) = Len(f) /\ \A j \in 1 .. Len(f) : r[j] = f[Len(f) + 1 - j]
    <3>1. r = [j \in 1 .. Len(f) |-> f[(Len(f) - j) + 1]]
      BY DEF Reverse
    <3>2. r \in Seq(Event)
      BY <2>2, <2>3, <3>1
    <3> QED BY <2>2, <2>3, <3>1, <3>2
  <2> PICK m \in Nat : m = (IF Len(r) < MaxEvents THEN Len(r) ELSE MaxEvents) /\ m <= Len(r)
    BY <2>2, <2>4, MonitorAssumption
  <2>5. RecentFailures(b) = SubSeq(r, 1, m)
    BY DEF RecentFailures, TailFiltered, f
  <2>6. Len(SubSeq(r, 1, m)) = m /\ \A j \in 1 .. m : SubSeq(r, 1, m)[j] = r[j]
    <3>1. 1 \in Int /\ m \in Int /\ \A j \in 1 .. m : r[j] \in Event
      BY <2>2, <2>4
    <3> PICK S : S = SubSeq(r, 1, m)
      OBVIOUS
    <3>2. /\ Len(S) = IF 1 <= m THEN m - 1 + 1 ELSE 0
          /\ \A j \in 1 .. m - 1 + 1 : S[j] = r[1 + j - 1]
      BY <2>4, <3>1, SubSeqProperties
    <3>3. \A j \in 1 .. m : j \in 1 .. m - 1 + 1 /\ 1 + j - 1 = j
      OBVIOUS
    <3>4. Len(S) = m
      BY <3>2
    <3>5. \A j \in 1 .. m : S[j] = r[j]
      BY <3>2, <3>3, Zenon
    <3> QED BY <3>4, <3>5
  <2>7. i \in 1 .. m
    BY <2>5, <2>6, Zenon
  <2>8. i \in 1 .. Len(f)
    BY <2>2, <2>4, <2>7
  <2>9. RecentFailures(b)[i] = r[i]
    BY <2>5, <2>6, <2>7, Zenon
  <2> QED BY <2>4, <2>8, <2>9, Zenon
<1>8. \A h \in 1 .. Hours : Bucket(b, h) = {j \in 1 .. Len(b.auth) :
         /\ b.auth[j].kind \in {"failed", "invalid"} /\ b.auth[j].time # None
         /\ b.auth[j].time \div Hour = b.from \div Hour - (Hours - h)}
  BY DEF Bucket
<1> HIDE DEF f
<1>9. \A h \in 1 .. Hours : Hourly(b)[h] = Cardinality({j \in 1 .. Len(b.auth) :
         /\ b.auth[j].kind \in {"failed", "invalid"} /\ b.auth[j].time # None
         /\ b.auth[j].time \div Hour = b.from \div Hour - (Hours - h)})
  BY <1>6, <1>8
<1> QED BY <1>7, <1>9 DEF Recent, f

-----------------------------------------------------------------------------
(* The rows of alarms, as classifyHijacks makes them.                      *)
Groups == [ip : Addrs, user : Users \cup {None},
           kind : {"failed", "invalid", "maxed", "password", "key"}]
Row == [of : Groups, severity : {"high", "medium", None}, count : Nat,
        first : Times \cup {None}, last : Times \cup {None}]
Failures(st, a) == st[a].failures + st[a].invalid
Rated(st, e) == Severity(e, Failures(st, e.ip))
At(rows, g) == SelectInSeq(rows, LAMBDA h : h.of = g)
NewRow(st, e) ==
  [of |-> GroupOf(e), severity |-> Rated(st, e), count |-> 0, first |-> e.time, last |-> e.time]
Grown(row, e) == [row EXCEPT !.count = @ + 1,
                             !.first = IF Earlier(@, e.time) THEN e.time ELSE @,
                             !.last  = IF Later(@, e.time) THEN e.time ELSE @]

LEMMA FewestIn == ASSUME NEW T \in SUBSET Nat, T # {} PROVE Min(T) \in T
<1>1. PICK x \in T : \A y \in T : x <= y
  BY Least
<1> QED BY <1>1 DEF Min

(* The row of a group is found if there is one.                            *)
LEMMA AtIs ==
  ASSUME NEW rows \in Seq(Row), NEW g
  PROVE  \/ At(rows, g) = 0 /\ \A p \in 1 .. Len(rows) : rows[p].of # g
         \/ At(rows, g) \in 1 .. Len(rows) /\ At(rows, g) # 0 /\ rows[At(rows, g)].of = g
<1> DEFINE I == {p \in 1 .. Len(rows) : rows[p].of = g}
<1>1. At(rows, g) = IF I # {} THEN Min(I) ELSE 0
  BY DEF At, SelectInSeq
<1>2. I \in SUBSET Nat /\ \A p \in I : p # 0
  OBVIOUS
<1>3. CASE I = {}
  BY <1>1, <1>3
<1>4. CASE I # {}
  <2>1. Min(I) \in I /\ Min(I) # 0
    <3> HIDE DEF I
    <3> QED BY <1>2, <1>4, FewestIn
  <2> QED BY <1>1, <1>4, <2>1
<1> QED BY <1>3, <1>4

LEMMA GroupedIs ==
  ASSUME NEW st, NEW rows, NEW e
  PROVE  /\ Rated(st, e) = None => Grouped(st, rows, e) = rows
         /\ Rated(st, e) # None /\ At(rows, GroupOf(e)) = 0
              => Grouped(st, rows, e) = Append(rows, Grown(NewRow(st, e), e))
         /\ Rated(st, e) # None /\ At(rows, GroupOf(e)) # 0
              => Grouped(st, rows, e)
                   = [rows EXCEPT ![At(rows, GroupOf(e))] = Grown(rows[At(rows, GroupOf(e))], e)]
<1> PICK g : g = GroupOf(e)
  OBVIOUS
<1> PICK at : at = At(rows, GroupOf(e))
  OBVIOUS
<1>1. at = SelectInSeq(rows, LAMBDA h : h.of = GroupOf(e))
  BY DEF At
<1>2. Grouped(st, rows, e) =
        IF Rated(st, e) = None THEN rows
        ELSE IF at = 0 THEN Append(rows, Grown(IF at = 0 THEN NewRow(st, e) ELSE rows[at], e))
        ELSE [rows EXCEPT ![at] = Grown(IF at = 0 THEN NewRow(st, e) ELSE rows[at], e)]
  BY DEF Grouped, At, Rated, Failures, NewRow, Grown
<1> QED BY <1>2

LEMMA GroupTyped == ASSUME NEW e \in Event PROVE GroupOf(e) \in Groups
BY DEF GroupOf, Groups, Event

LEMMA NewRowIs ==
  ASSUME NEW st, NEW e \in Event
  PROVE  /\ NewRow(st, e) \in Row /\ NewRow(st, e).of = GroupOf(e) /\ NewRow(st, e).count = 0
         /\ NewRow(st, e).severity = Rated(st, e)
         /\ NewRow(st, e).first = e.time /\ NewRow(st, e).last = e.time
<1>1. Rated(st, e) \in {"high", "medium", None}
  BY DEF Rated, Severity
<1>2. e.time \in Times \cup {None}
  BY DEF Event
<1> QED BY <1>1, <1>2, GroupTyped DEF NewRow, Row

LEMMA GrownIs ==
  ASSUME NEW row \in Row, NEW e \in Event
  PROVE  /\ Grown(row, e) \in Row /\ Grown(row, e).of = row.of
         /\ Grown(row, e).severity = row.severity /\ Grown(row, e).count = row.count + 1
         /\ Grown(row, e).first = IF Earlier(row.first, e.time) THEN e.time ELSE row.first
         /\ Grown(row, e).last = IF Later(row.last, e.time) THEN e.time ELSE row.last
<1> PICK f \in Times \cup {None}, l \in Times \cup {None} :
      /\ f = IF Earlier(row.first, e.time) THEN e.time ELSE row.first
      /\ l = IF Later(row.last, e.time) THEN e.time ELSE row.last
  BY DEF Row, Event
<1>1. Grown(row, e) = [row EXCEPT !.count = row.count + 1, !.first = f, !.last = l]
  BY DEF Grown
<1>2. row.count + 1 \in Nat
  BY DEF Row
<1> QED BY <1>1, <1>2 DEF Row

LEMMA GroupedTyped ==
  ASSUME NEW st, NEW rows \in Seq(Row), NEW e \in Event
  PROVE  Grouped(st, rows, e) \in Seq(Row)
<1> PICK at : at = At(rows, GroupOf(e))
  OBVIOUS
<1>1. Grown(NewRow(st, e), e) \in Row
  BY NewRowIs, GrownIs
<1>2. CASE Rated(st, e) = None
  BY <1>2, GroupedIs
<1>3. CASE Rated(st, e) # None /\ at = 0
  <2>0. At(rows, GroupOf(e)) = 0
    BY <1>3
  <2>1. Grouped(st, rows, e) = Append(rows, Grown(NewRow(st, e), e))
    BY <1>3, <2>0, GroupedIs, Zenon
  <2> QED BY <1>1, <2>1
<1>4. CASE Rated(st, e) # None /\ at # 0
  <2>1. Grouped(st, rows, e) = [rows EXCEPT ![at] = Grown(rows[at], e)]
    BY <1>4, GroupedIs
  <2>2. at \in 1 .. Len(rows)
    BY <1>4, AtIs
  <2>3. rows[at] \in Row
    BY <2>2
  <2>4. Grown(rows[at], e) \in Row
    BY <2>3, GrownIs
  <2> PICK r \in Row : r = Grown(rows[at], e)
    BY <2>4
  <2>5. [rows EXCEPT ![at] = r] \in Seq(Row)
    BY <2>2
  <2> QED BY <2>1, <2>5
<1> QED BY <1>2, <1>3, <1>4

LEMMA HijackRun ==
  ASSUME NEW b \in Basis, NEW s \in Seq(Event), s = Successes(b)
  PROVE  \E acc : /\ acc[0] = <<>>
                  /\ \A i \in 1 .. Len(s) : acc[i] = Grouped(Stats(b), acc[i - 1], s[i])
                  /\ Hijacks(b) = acc[Len(s)]
<1> DEFINE A == Seq(Row)
           D == 1 .. Len(s)
           op(rows, e) == Grouped(Stats(b), rows, e)
           F == [p \in A \X Event |-> op(p[1], p[2])]
           It(it) == it = [x \in SUBSET DOMAIN s |->
                             IF x = {} THEN <<>> ELSE op(it[x \ {Max(x)}], s[Max(x)])]
           it == CHOOSE g : It(g)
<1>0. Len(s) \in Nat /\ DOMAIN s = D /\ \A i \in D : s[i] \in Event
  OBVIOUS
<1>1. Hijacks(b) = it[DOMAIN s]
  BY DEF Hijacks, FoldLeft, MapThenFoldSet
<1>2. F \in [A \X Event -> A] /\ <<>> \in A
  <2>1. ASSUME NEW out \in A, NEW e \in Event PROVE op(out, e) \in A
    BY GroupedTyped
  <2> QED BY <2>1
<1>4. PICK g \in [SUBSET D -> A] : Solves(g, F, <<>>, s, Len(s))
  BY <1>2, FoldSolved
<1>5. \A x \in SUBSET D : x # {} => Max(x) \in x
  BY <1>0, MaxIn
<1>6. It(g)
  <2>1. ASSUME NEW x \in SUBSET D, x # {}
        PROVE  g[x] = op(g[x \ {Max(x)}], s[Max(x)])
    <3>1. Max(x) \in D /\ x \ {Max(x)} \in SUBSET D
      BY <1>5, <2>1
    <3>2. <<g[x \ {Max(x)}], s[Max(x)]>> \in A \X Event
      BY <1>0, <3>1
    <3>3. g[x] = F[<<g[x \ {Max(x)}], s[Max(x)]>>]
      BY <1>4, <2>1 DEF Solves
    <3> HIDE DEF op
    <3> QED BY <3>2, <3>3
  <2>2. g[{}] = <<>>
    BY <1>4 DEF Solves
  <2> QED BY <1>0, <2>1, <2>2
<1>7. It(it)
  BY <1>6
<1>8. /\ it[{}] = <<>>
      /\ \A x \in SUBSET D : x # {} => it[x] = op(it[x \ {Max(x)}], s[Max(x)])
  <2> HIDE DEF it
  <2> QED BY <1>0, <1>7
<1> DEFINE acc == [i \in 0 .. Len(s) |-> it[Prefix(i)]]
<1> HIDE DEF it, It
<1>9. acc[0] = <<>>
  <2>1. it[Prefix(0)] = <<>>
    BY <1>8, NoPrefix, Zenon
  <2>2. 0 \in 0 .. Len(s)
    BY <1>0
  <2> QED BY <2>1, <2>2
<1>10. \A i \in 1 .. Len(s) : acc[i] = op(acc[i - 1], s[i])
  <2> SUFFICES ASSUME NEW i \in 1 .. Len(s) PROVE acc[i] = op(acc[i - 1], s[i])
    OBVIOUS
  <2> HIDE DEF op
  <2>1. /\ Prefix(i) # {} /\ Prefix(i) \in SUBSET D
        /\ Max(Prefix(i)) = i /\ Prefix(i) \ {i} = Prefix(i - 1)
    BY <1>0, PrefixOf
  <2>2. it[Prefix(i)] = op(it[Prefix(i - 1)], s[i])
    BY <1>8, <2>1
  <2>3. i \in 0 .. Len(s) /\ i - 1 \in 0 .. Len(s)
    BY <1>0
  <2> QED BY <2>2, <2>3
<1>11. acc[Len(s)] = it[DOMAIN s]
  BY <1>0 DEF Prefix
<1> HIDE DEF acc
<1> QED BY <1>1, <1>9, <1>10, <1>11

(* What the rows say of the first i logins.                                *)
InRow(s, row, j) == GroupOf(s[j]) = row.of
RowAfter(row, s, st, i) ==
  /\ \E j \in 1 .. i : Rated(st, s[j]) # None /\ InRow(s, row, j)
  /\ row.count = Among(InGroup(s, row.of), i)
  /\ row.severity = "high" <=> Failures(st, row.of.ip) >= Threshold
  /\ \A j \in 1 .. i : InRow(s, row, j) /\ s[j].time # None =>
       /\ row.first # None /\ row.first <= s[j].time
       /\ row.last # None /\ s[j].time <= row.last
  /\ row.first # None => \E j \in 1 .. i : InRow(s, row, j) /\ s[j].time = row.first
  /\ row.last # None => \E j \in 1 .. i : InRow(s, row, j) /\ s[j].time = row.last
RowsAfter(rows, s, st, i) ==
  /\ rows \in Seq(Row)
  /\ \A p, q \in 1 .. Len(rows) : rows[p].of = rows[q].of => p = q
  /\ \A j \in 1 .. i : Rated(st, s[j]) # None
                         => \E p \in 1 .. Len(rows) : InRow(s, rows[p], j)
  /\ \A p \in 1 .. Len(rows) : RowAfter(rows[p], s, st, i)

(* Logins of one group are rated alike.                                    *)
LEMMA RatedAlike ==
  ASSUME NEW st, NEW e \in Event, NEW f \in Event, GroupOf(e) = GroupOf(f)
  PROVE  Rated(st, e) = Rated(st, f) /\ e.ip = f.ip
<1>1. e.ip = f.ip /\ e.kind = f.kind
  BY DEF GroupOf
<1> QED BY <1>1 DEF Rated, Severity

LEMMA Higher ==
  ASSUME NEW st, NEW e, Rated(st, e) # None
  PROVE  Rated(st, e) = "high" <=> Failures(st, e.ip) >= Threshold
BY DEF Rated, Severity

(* A login that is not of a row's group leaves what it says.               *)
LEMMA OtherRow ==
  ASSUME NEW s \in Seq(Event), NEW st, NEW i \in 1 .. Len(s), NEW row,
         RowAfter(row, s, st, i - 1), GroupOf(s[i]) # row.of
  PROVE  RowAfter(row, s, st, i)
<1>0. Len(s) \in Nat /\ i \in Nat /\ ~InRow(s, row, i)
  BY DEF InRow
<1>1. \A j \in 1 .. i - 1 : j \in 1 .. i
  BY <1>0
<1>2. \A j \in 1 .. i : j = i \/ j \in 1 .. i - 1
  BY <1>0
<1>3. \E j \in 1 .. i : Rated(st, s[j]) # None /\ InRow(s, row, j)
  BY <1>1, Zenon DEF RowAfter
<1>4. row.count = Among(InGroup(s, row.of), i)
  <2>1. i \notin InGroup(s, row.of)
    BY DEF InGroup
  <2>2. Among(InGroup(s, row.of), i) = Among(InGroup(s, row.of), i - 1)
    BY <1>0, <2>1, AmongStep
  <2> QED BY <2>2 DEF RowAfter
<1>5. \A j \in 1 .. i : InRow(s, row, j) /\ s[j].time # None =>
       /\ row.first # None /\ row.first <= s[j].time
       /\ row.last # None /\ s[j].time <= row.last
  BY <1>0, <1>2, Zenon DEF RowAfter
<1>6. /\ row.first # None => \E j \in 1 .. i : InRow(s, row, j) /\ s[j].time = row.first
      /\ row.last # None => \E j \in 1 .. i : InRow(s, row, j) /\ s[j].time = row.last
  BY <1>1, Zenon DEF RowAfter
<1>7. row.severity = "high" <=> Failures(st, row.of.ip) >= Threshold
  BY DEF RowAfter
<1> QED BY <1>3, <1>4, <1>5, <1>6, <1>7 DEF RowAfter

(* The dates of a row that grew.                                           *)
LEMMA Spans ==
  ASSUME NEW row \in Row, NEW e \in Event, NEW grown, grown = Grown(row, e)
  PROVE  /\ e.time # None => /\ grown.first # None /\ grown.first <= e.time
                             /\ grown.last # None /\ e.time <= grown.last
         /\ row.first # None => grown.first # None /\ grown.first <= row.first
         /\ row.last # None => grown.last # None /\ row.last <= grown.last
         /\ grown.first # None => grown.first = e.time \/ grown.first = row.first
         /\ grown.last # None => grown.last = e.time \/ grown.last = row.last
<1>1. /\ row.first # None => row.first \in Nat
      /\ row.last # None => row.last \in Nat
      /\ e.time # None => e.time \in Nat
  BY DEF Row, Event, Times
<1>2. /\ grown.first = IF Earlier(row.first, e.time) THEN e.time ELSE row.first
      /\ grown.last = IF Later(row.last, e.time) THEN e.time ELSE row.last
  BY GrownIs
<1>3. CASE e.time = None
  BY <1>1, <1>2, <1>3 DEF Earlier, Later
<1>4. CASE e.time # None
  <2>1. /\ grown.first # None /\ grown.first <= e.time
        /\ row.first # None => grown.first <= row.first
        /\ grown.first = e.time \/ grown.first = row.first
    <3>1. CASE row.first = None
      BY <1>1, <1>2, <1>4, <3>1 DEF Earlier
    <3>2. CASE row.first # None
      BY <1>1, <1>2, <1>4, <3>2 DEF Earlier
    <3> QED BY <3>1, <3>2
  <2>2. /\ grown.last # None /\ e.time <= grown.last
        /\ row.last # None => row.last <= grown.last
        /\ grown.last = e.time \/ grown.last = row.last
    <3>1. CASE row.last = None
      BY <1>1, <1>2, <1>4, <3>1 DEF Later
    <3>2. CASE row.last # None
      BY <1>1, <1>2, <1>4, <3>2 DEF Later
    <3> QED BY <3>1, <3>2
  <2> QED BY <2>1, <2>2
<1> QED BY <1>3, <1>4

(* The row a login falls in says of it what it should.                     *)
LEMMA RowGrows ==
  ASSUME NEW s \in Seq(Event), NEW st, NEW i \in 1 .. Len(s), NEW row \in Row,
         RowAfter(row, s, st, i - 1), GroupOf(s[i]) = row.of
  PROVE  RowAfter(Grown(row, s[i]), s, st, i)
<1> PICK e \in Event : e = s[i]
  OBVIOUS
<1> PICK grown \in Row : grown = Grown(row, e)
  BY GrownIs
<1>0. Len(s) \in Nat /\ i \in Nat /\ i \in 1 .. i
  OBVIOUS
<1>1. \A j \in 1 .. i - 1 : j \in 1 .. i /\ s[j] \in Event
  BY <1>0
<1>2. \A j \in 1 .. i : j = i \/ j \in 1 .. i - 1
  BY <1>0
<1>3. grown.of = row.of /\ grown.severity = row.severity /\ grown.count = row.count + 1
  BY GrownIs
<1>4. \A j : InRow(s, grown, j) <=> InRow(s, row, j)
  BY <1>3 DEF InRow
<1>5. InRow(s, grown, i)
  BY <1>3 DEF InRow
<1>6. \E j \in 1 .. i : Rated(st, s[j]) # None /\ InRow(s, grown, j)
  BY <1>1, <1>4, Zenon DEF RowAfter
<1>7. grown.count = Among(InGroup(s, grown.of), i)
  <2>1. i \in InGroup(s, row.of)
    BY DEF InGroup
  <2>2. Among(InGroup(s, row.of), i) = Among(InGroup(s, row.of), i - 1) + 1
    BY <1>0, <2>1, AmongStep
  <2> QED BY <1>3, <2>2 DEF RowAfter
<1>8. grown.severity = "high" <=> Failures(st, grown.of.ip) >= Threshold
  BY <1>3 DEF RowAfter
<1>9. /\ e.time # None => /\ grown.first # None /\ grown.first <= e.time
                          /\ grown.last # None /\ e.time <= grown.last
      /\ row.first # None => grown.first # None /\ grown.first <= row.first
      /\ row.last # None => grown.last # None /\ row.last <= grown.last
      /\ grown.first # None => grown.first = e.time \/ grown.first = row.first
      /\ grown.last # None => grown.last = e.time \/ grown.last = row.last
  BY Spans
<1>10. ASSUME NEW j \in 1 .. i, InRow(s, grown, j), s[j].time # None
       PROVE  /\ grown.first # None /\ grown.first <= s[j].time
              /\ grown.last # None /\ s[j].time <= grown.last
  <2>1. CASE j = i
    BY <1>9, <1>10, <2>1
  <2>2. CASE j \in 1 .. i - 1
    <3>1. /\ row.first # None /\ row.first <= s[j].time
          /\ row.last # None /\ s[j].time <= row.last
      BY <1>4, <1>10, <2>2, Zenon DEF RowAfter
    <3>2. /\ grown.first # None /\ grown.first <= row.first
          /\ grown.last # None /\ row.last <= grown.last
      BY <1>9, <3>1
    <3>3. s[j].time \in Nat /\ row.first \in Nat /\ row.last \in Nat
          /\ grown.first \in Nat /\ grown.last \in Nat
      <4>1. s[j] \in Event
        BY <1>1, <2>2
      <4> QED BY <1>10, <3>1, <3>2, <4>1 DEF Event, Row, Times
    <3> QED BY <3>1, <3>2, <3>3
  <2> QED BY <1>2, <2>1, <2>2
<1>11. ASSUME grown.first # None
       PROVE  \E j \in 1 .. i : InRow(s, grown, j) /\ s[j].time = grown.first
  <2>1. CASE grown.first = e.time
    BY <1>0, <1>5, <2>1
  <2>2. CASE grown.first = row.first
    <3>1. PICK j \in 1 .. i - 1 : InRow(s, row, j) /\ s[j].time = row.first
      BY <1>11, <2>2 DEF RowAfter
    <3> QED BY <1>1, <1>4, <2>2, <3>1
  <2> QED BY <1>9, <1>11, <2>1, <2>2
<1>12. ASSUME grown.last # None
       PROVE  \E j \in 1 .. i : InRow(s, grown, j) /\ s[j].time = grown.last
  <2>1. CASE grown.last = e.time
    BY <1>0, <1>5, <2>1
  <2>2. CASE grown.last = row.last
    <3>1. PICK j \in 1 .. i - 1 : InRow(s, row, j) /\ s[j].time = row.last
      BY <1>12, <2>2 DEF RowAfter
    <3> QED BY <1>1, <1>4, <2>2, <3>1
  <2> QED BY <1>9, <1>12, <2>1, <2>2
<1>13. RowAfter(grown, s, st, i)
  BY <1>6, <1>7, <1>8, <1>10, <1>11, <1>12 DEF RowAfter
<1> QED BY <1>13

(* So does the row that a login begins.                                    *)
LEMMA RowBegins ==
  ASSUME NEW s \in Seq(Event), NEW st, NEW i \in 1 .. Len(s), Rated(st, s[i]) # None,
         \A j \in 1 .. i - 1 : GroupOf(s[j]) # GroupOf(s[i])
  PROVE  RowAfter(Grown(NewRow(st, s[i]), s[i]), s, st, i)
<1> PICK e \in Event : e = s[i]
  OBVIOUS
<1> PICK row \in Row : row = NewRow(st, e)
  BY NewRowIs
<1> PICK grown \in Row : grown = Grown(row, e)
  BY GrownIs
<1>0. Len(s) \in Nat /\ i \in Nat /\ i \in 1 .. i
  OBVIOUS
<1>2. \A j \in 1 .. i : j = i \/ j \in 1 .. i - 1
  BY <1>0
<1>3. /\ grown.of = GroupOf(e) /\ grown.severity = Rated(st, e) /\ grown.count = row.count + 1
      /\ row.count = 0 /\ row.first = e.time /\ row.last = e.time
  <2>1. grown.of = row.of /\ grown.severity = row.severity /\ grown.count = row.count + 1
    BY GrownIs
  <2>2. /\ row.of = GroupOf(e) /\ row.severity = Rated(st, e)
        /\ row.count = 0 /\ row.first = e.time /\ row.last = e.time
    BY NewRowIs
  <2> QED BY <2>1, <2>2
<1>4. InRow(s, grown, i) /\ \A j \in 1 .. i : InRow(s, grown, j) => j = i
  BY <1>2, <1>3 DEF InRow
<1>5. \E j \in 1 .. i : Rated(st, s[j]) # None /\ InRow(s, grown, j)
  BY <1>0, <1>4
<1>6. grown.count = Among(InGroup(s, grown.of), i)
  <2>1. i \in InGroup(s, grown.of)
    BY <1>3 DEF InGroup
  <2>2. InGroup(s, grown.of) \cap Prefix(i - 1) = {}
    BY <1>3 DEF InGroup, Prefix
  <2>3. Among(InGroup(s, grown.of), i - 1) = 0
    BY <2>2, FS_EmptySet DEF Among
  <2>4. Among(InGroup(s, grown.of), i) = Among(InGroup(s, grown.of), i - 1) + 1
    BY <1>0, <2>1, AmongStep
  <2> QED BY <1>3, <2>3, <2>4
<1>7. grown.severity = "high" <=> Failures(st, grown.of.ip) >= Threshold
  <2>1. grown.of.ip = e.ip
    BY <1>3 DEF GroupOf
  <2> QED BY <1>3, <2>1, Higher
<1>8. /\ e.time # None => /\ grown.first # None /\ grown.first <= e.time
                          /\ grown.last # None /\ e.time <= grown.last
      /\ grown.first # None => grown.first = e.time
      /\ grown.last # None => grown.last = e.time
  <2>1. /\ e.time # None => /\ grown.first # None /\ grown.first <= e.time
                            /\ grown.last # None /\ e.time <= grown.last
        /\ grown.first # None => grown.first = e.time \/ grown.first = row.first
        /\ grown.last # None => grown.last = e.time \/ grown.last = row.last
    BY Spans
  <2> QED BY <1>3, <2>1
<1>9. \A j \in 1 .. i : InRow(s, grown, j) /\ s[j].time # None =>
       /\ grown.first # None /\ grown.first <= s[j].time
       /\ grown.last # None /\ s[j].time <= grown.last
  BY <1>4, <1>8
<1>10. /\ grown.first # None => \E j \in 1 .. i : InRow(s, grown, j) /\ s[j].time = grown.first
       /\ grown.last # None => \E j \in 1 .. i : InRow(s, grown, j) /\ s[j].time = grown.last
  BY <1>0, <1>4, <1>8
<1>11. RowAfter(grown, s, st, i)
  BY <1>5, <1>6, <1>7, <1>9, <1>10 DEF RowAfter
<1> QED BY <1>11

LEMMA RowsStep ==
  ASSUME NEW s \in Seq(Event), NEW st, NEW i \in 1 .. Len(s), NEW rows, RowsAfter(rows, s, st, i - 1)
  PROVE  RowsAfter(Grouped(st, rows, s[i]), s, st, i)
<1> PICK e \in Event : e = s[i]
  OBVIOUS
<1> PICK at : at = At(rows, GroupOf(e))
  OBVIOUS
<1> PICK new : new = Grouped(st, rows, e)
  OBVIOUS
<1>0. Len(s) \in Nat /\ i \in Nat /\ \A j \in 1 .. i : j = i \/ j \in 1 .. i - 1
  OBVIOUS
<1>e. \A j \in 1 .. i - 1 : s[j] \in Event
  BY <1>0
<1>1. rows \in Seq(Row) /\ Len(rows) \in Nat
  BY DEF RowsAfter
<1>t. new \in Seq(Row)
  BY <1>1, GroupedTyped
<1>2. /\ \A p, q \in 1 .. Len(rows) : rows[p].of = rows[q].of => p = q
      /\ \A j \in 1 .. i - 1 : Rated(st, s[j]) # None
                                => \E p \in 1 .. Len(rows) : InRow(s, rows[p], j)
      /\ \A p \in 1 .. Len(rows) : RowAfter(rows[p], s, st, i - 1)
  BY DEF RowsAfter
<1>3. \/ at = 0 /\ \A p \in 1 .. Len(rows) : rows[p].of # GroupOf(e)
      \/ at \in 1 .. Len(rows) /\ at # 0 /\ rows[at].of = GroupOf(e)
  BY <1>1, AtIs
<1>4. CASE Rated(st, e) = None
  <2>1. new = rows
    BY <1>4, GroupedIs
  <2>2. ASSUME NEW p \in 1 .. Len(rows) PROVE RowAfter(rows[p], s, st, i)
    <3>1. PICK j \in 1 .. i - 1 : Rated(st, s[j]) # None /\ InRow(s, rows[p], j)
      BY <1>2 DEF RowAfter
    <3>2. GroupOf(s[i]) # rows[p].of
      BY <1>4, <1>e, <3>1, RatedAlike DEF InRow
    <3> QED BY <1>2, <3>2, OtherRow
  <2>3. \A j \in 1 .. i : Rated(st, s[j]) # None => \E p \in 1 .. Len(rows) : InRow(s, rows[p], j)
    BY <1>0, <1>2, <1>4
  <2> QED BY <1>1, <1>2, <2>1, <2>2, <2>3 DEF RowsAfter
<1>5. CASE Rated(st, e) # None /\ at = 0
  <2> PICK row : row = Grown(NewRow(st, e), e)
    OBVIOUS
  <2>0. row \in Row /\ row.of = GroupOf(e)
    <3>1. NewRow(st, e) \in Row /\ NewRow(st, e).of = GroupOf(e)
      BY NewRowIs
    <3> QED BY <3>1, GrownIs
  <2>1. new = Append(rows, row)
    <3>1. At(rows, GroupOf(e)) = 0 /\ Rated(st, e) # None
      BY <1>5
    <3>2. Grouped(st, rows, e) = Append(rows, Grown(NewRow(st, e), e))
      BY <3>1, GroupedIs
    <3> QED BY <3>2
  <2>2. /\ Len(new) = Len(rows) + 1
        /\ \A p \in 1 .. Len(rows) : new[p] = rows[p]
        /\ new[Len(rows) + 1] = row
        /\ \A p \in 1 .. Len(rows) + 1 : p \in 1 .. Len(rows) \/ p = Len(rows) + 1
        /\ \A p \in 1 .. Len(rows) : p \in 1 .. Len(rows) + 1
        /\ Len(rows) + 1 \in 1 .. Len(rows) + 1
    BY <1>1, <2>0, <2>1, Extended
  <2>3. \A p \in 1 .. Len(rows) : rows[p].of # GroupOf(e)
    BY <1>3, <1>5, <1>1
  <2>4. \A j \in 1 .. i - 1 : GroupOf(s[j]) # GroupOf(s[i])
    <3> SUFFICES ASSUME NEW j \in 1 .. i - 1, GroupOf(s[j]) = GroupOf(e) PROVE FALSE
      OBVIOUS
    <3>1. Rated(st, s[j]) # None
      BY <1>5, <1>e, RatedAlike
    <3>2. PICK p \in 1 .. Len(rows) : InRow(s, rows[p], j)
      BY <1>2, <3>1
    <3> QED BY <2>3, <3>2 DEF InRow
  <2>5. RowAfter(row, s, st, i)
    BY <1>5, <2>4, RowBegins
  <2>6. ASSUME NEW p \in 1 .. Len(rows) PROVE RowAfter(rows[p], s, st, i)
    BY <1>2, <2>3, OtherRow
  <2>7. \A p \in 1 .. Len(new) : RowAfter(new[p], s, st, i)
    BY <2>2, <2>5, <2>6
  <2>8. ASSUME NEW p \in 1 .. Len(new), NEW q \in 1 .. Len(new), new[p].of = new[q].of PROVE p = q
    <3>1. p \in 1 .. Len(rows) \/ p = Len(rows) + 1
      BY <2>2
    <3>2. q \in 1 .. Len(rows) \/ q = Len(rows) + 1
      BY <2>2
    <3>3. CASE p \in 1 .. Len(rows) /\ q \in 1 .. Len(rows)
      BY <1>2, <2>2, <2>8, <3>3
    <3>4. CASE p = Len(rows) + 1 /\ q \in 1 .. Len(rows)
      BY <2>0, <2>2, <2>3, <2>8, <3>4
    <3>5. CASE p \in 1 .. Len(rows) /\ q = Len(rows) + 1
      BY <2>0, <2>2, <2>3, <2>8, <3>5
    <3> QED BY <3>1, <3>2, <3>3, <3>4, <3>5
  <2>9. ASSUME NEW j \in 1 .. i, Rated(st, s[j]) # None
        PROVE  \E p \in 1 .. Len(new) : InRow(s, new[p], j)
    <3>1. CASE j = i
      <4>1. InRow(s, new[Len(rows) + 1], i)
        BY <2>0, <2>2 DEF InRow
      <4> QED BY <2>2, <3>1, <4>1
    <3>2. CASE j \in 1 .. i - 1
      <4>1. PICK p \in 1 .. Len(rows) : InRow(s, rows[p], j)
        BY <1>2, <2>9, <3>2
      <4> QED BY <2>2, <4>1
    <3> QED BY <1>0, <3>1, <3>2
  <2> QED BY <1>t, <2>7, <2>8, <2>9 DEF RowsAfter
<1>6. CASE Rated(st, e) # None /\ at \in 1 .. Len(rows) /\ at # 0 /\ rows[at].of = GroupOf(e)
  <2> PICK old \in Row : old = rows[at]
    BY <1>1, <1>6
  <2> PICK row : row = Grown(old, e)
    OBVIOUS
  <2>0. row \in Row /\ row.of = GroupOf(e)
    BY <1>6, GrownIs
  <2>1. new = [rows EXCEPT ![at] = row]
    BY <1>6, GroupedIs
  <2>2. /\ Len(new) = Len(rows) /\ new[at] = row
        /\ \A p \in 1 .. Len(rows) : p # at => new[p] = rows[p]
    BY <1>1, <1>6, <2>0, <2>1
  <2>3. \A p \in 1 .. Len(rows) : new[p].of = rows[p].of
    BY <1>6, <2>0, <2>2
  <2>4. RowAfter(row, s, st, i)
    <3>1. RowAfter(old, s, st, i - 1) /\ GroupOf(s[i]) = old.of
      BY <1>2, <1>6
    <3> QED BY <3>1, RowGrows
  <2>5. ASSUME NEW p \in 1 .. Len(new) PROVE RowAfter(new[p], s, st, i)
    <3>1. CASE p = at
      BY <2>2, <2>4, <3>1
    <3>2. CASE p # at
      <4>1. rows[p].of # GroupOf(s[i])
        BY <1>2, <1>6, <2>2, <3>2
      <4>2. RowAfter(rows[p], s, st, i - 1) /\ new[p] = rows[p]
        BY <1>2, <2>2, <3>2
      <4> QED BY <4>1, <4>2, OtherRow
    <3> QED BY <3>1, <3>2
  <2>6. \A p, q \in 1 .. Len(new) : new[p].of = new[q].of => p = q
    BY <1>2, <2>2, <2>3
  <2>7. ASSUME NEW j \in 1 .. i, Rated(st, s[j]) # None
        PROVE  \E p \in 1 .. Len(new) : InRow(s, new[p], j)
    <3>1. CASE j = i
      <4>1. InRow(s, new[at], i)
        BY <2>0, <2>2 DEF InRow
      <4> QED BY <1>6, <2>2, <3>1, <4>1
    <3>2. CASE j \in 1 .. i - 1
      <4>1. PICK p \in 1 .. Len(rows) : InRow(s, rows[p], j)
        BY <1>2, <2>7, <3>2
      <4>2. InRow(s, new[p], j)
        BY <2>3, <4>1 DEF InRow
      <4> QED BY <2>2, <4>2
    <3> QED BY <1>0, <3>1, <3>2
  <2> QED BY <1>t, <2>5, <2>6, <2>7 DEF RowsAfter
<1> QED BY <1>3, <1>4, <1>5, <1>6

LEMMA RowsAre ==
  ASSUME NEW b \in Basis, NEW s \in Seq(Event), s = Successes(b)
  PROVE  RowsAfter(Hijacks(b), s, Stats(b), Len(s))
<1> PICK st : st = Stats(b)
  OBVIOUS
<1>1. PICK acc : /\ acc[0] = <<>>
                 /\ \A i \in 1 .. Len(s) : acc[i] = Grouped(Stats(b), acc[i - 1], s[i])
                 /\ Hijacks(b) = acc[Len(s)]
  BY HijackRun
<1>2. Len(s) \in Nat
  OBVIOUS
<1> DEFINE N == {i \in Nat : RowsAfter(acc[i], s, st, i)}
<1>3. 0 \in N
  <2>1. RowsAfter(<<>>, s, st, 0)
    BY DEF RowsAfter
  <2> QED BY <1>1, <2>1
<1>4. ASSUME NEW i \in 1 .. Len(s), i - 1 \in N PROVE i \in N
  <2>1. RowsAfter(acc[i - 1], s, st, i - 1) /\ acc[i] = Grouped(st, acc[i - 1], s[i])
    BY <1>1, <1>4
  <2>2. RowsAfter(acc[i], s, st, i)
    BY <2>1, RowsStep
  <2>3. i \in Nat
    BY <1>2
  <2> QED BY <2>2, <2>3
<1>5. Len(s) \in N
  <2> HIDE DEF N
  <2> QED BY <1>2, <1>3, <1>4, Upwards
<1> QED BY <1>1, <1>5

(* The report of a basis: what its rows, bans and lists say.               *)
LEMMA AlarmsRight == ASSUME NEW b \in Basis PROVE Alarms(b)
<1> DEFINE methods == {"password", "key"}
           rows == Hijacks(b)
           members(h) == {i \in 1 .. Len(b.auth) : GroupOf(b.auth[i]) = h.of}
           dates(h) == {b.auth[i].time : i \in members(h)} \ {None}
           suspects == {f \in ToSet(b.auth) : \/ f.kind = "password"
                                              \/ f.kind = "key" /\ Prior(b, f.ip) >= Threshold}
           ofs == {h.of : h \in ToSet(rows)}
<1>a. b.auth \in Seq(Event) /\ Len(b.auth) \in Nat
  BY Joined
<1> PICK s \in Seq(Event) : s = Kept(b.auth, methods)
  BY <1>a, KeptIs
<1>s. s = Successes(b)
  BY DEF Successes
<1>1. /\ ToSet(s) = {e \in ToSet(b.auth) : e.kind \in methods}
      /\ \A g : g.kind \in methods => Cardinality(InGroup(s, g)) = Cardinality(InGroup(b.auth, g))
  BY <1>a, KeptIs
<1>n. Len(s) \in Nat /\ DOMAIN s = 1 .. Len(s) /\ DOMAIN b.auth = 1 .. Len(b.auth)
  BY <1>a
<1>2. /\ rows \in Seq(Row)
      /\ \A p, q \in 1 .. Len(rows) : rows[p].of = rows[q].of => p = q
      /\ \A j \in 1 .. Len(s) : Rated(Stats(b), s[j]) # None
                                  => \E p \in 1 .. Len(rows) : InRow(s, rows[p], j)
      /\ \A p \in 1 .. Len(rows) : RowAfter(rows[p], s, Stats(b), Len(s))
  BY <1>s, RowsAre DEF RowsAfter
<1>d. Len(rows) \in Nat /\ DOMAIN rows = 1 .. Len(rows) /\ \A p \in 1 .. Len(rows) : rows[p] \in Row
  BY <1>2
<1>3. \A a \in Addrs : Failures(Stats(b), a) = Prior(b, a)
  BY StatsOf DEF Failures
<1>4. ASSUME NEW e \in Event, e.kind \in methods
      PROVE  Rated(Stats(b), e) # None <=> e.kind = "password" \/ Prior(b, e.ip) >= Threshold
  <2>1. e.ip \in Addrs
    BY DEF Event
  <2>2. Rated(Stats(b), e) = IF Prior(b, e.ip) >= Threshold THEN "high"
                             ELSE IF e.kind = "password" THEN "medium" ELSE None
    BY <1>3, <2>1 DEF Rated, Severity
  <2> QED BY <2>2, MonitorAssumption
<1>5. \A e \in ToSet(b.auth) : e \in Event
  BY <1>a, <1>n DEF ToSet
<1> HIDE DEF rows
<1>6. ofs = {[ip |-> e.ip, user |-> e.user, kind |-> e.kind] : e \in suspects}
  <2>1. ASSUME NEW h \in ToSet(rows) PROVE \E e \in suspects : h.of = GroupOf(e)
    <3>1. PICK p \in 1 .. Len(rows) : h = rows[p]
      BY <1>d DEF ToSet
    <3>2. PICK j \in 1 .. Len(s) : Rated(Stats(b), s[j]) # None /\ InRow(s, h, j)
      BY <1>2, <3>1 DEF RowAfter
    <3>3. s[j] \in ToSet(s)
      BY <1>n DEF ToSet
    <3>4. s[j] \in ToSet(b.auth) /\ s[j].kind \in methods
      BY <1>1, <3>3
    <3>5. s[j] \in suspects
      BY <1>4, <1>5, <3>2, <3>4
    <3> QED BY <3>2, <3>5 DEF InRow
  <2>2. ASSUME NEW e \in suspects PROVE \E h \in ToSet(rows) : h.of = GroupOf(e)
    <3>1. e \in ToSet(b.auth) /\ e \in Event /\ e.kind \in methods
      BY <1>5
    <3>2. e \in ToSet(s)
      BY <1>1, <3>1
    <3>3. PICK j \in 1 .. Len(s) : e = s[j]
      BY <1>n, <3>2 DEF ToSet
    <3>4. Rated(Stats(b), s[j]) # None
      BY <1>4, <3>1, <3>3
    <3>5. PICK p \in 1 .. Len(rows) : InRow(s, rows[p], j)
      BY <1>2, <3>4
    <3>6. rows[p] \in ToSet(rows)
      BY <1>d DEF ToSet
    <3> QED BY <3>3, <3>5, <3>6 DEF InRow
  <2> HIDE DEF suspects
  <2>3. ofs = {GroupOf(e) : e \in suspects}
    BY <2>1, <2>2
  <2> QED BY <2>3 DEF GroupOf
<1>7. ASSUME NEW h \in ToSet(rows)
      PROVE  /\ h.count = Cardinality(members(h))
             /\ (h.severity = "high") = (Prior(b, h.of.ip) >= Threshold)
             /\ dates(h) # {} => h.first = Min(dates(h)) /\ h.last = Max(dates(h))
  <2>1. PICK p \in 1 .. Len(rows) : h = rows[p]
    BY <1>d DEF ToSet
  <2>2. h \in Row /\ RowAfter(h, s, Stats(b), Len(s))
    BY <1>2, <1>d, <2>1
  <2>3. PICK j \in 1 .. Len(s) : InRow(s, h, j)
    BY <2>2 DEF RowAfter
  <2>4. s[j] \in ToSet(s)
    BY <1>n DEF ToSet
  <2>5. h.of.kind \in methods
    BY <1>1, <2>3, <2>4 DEF InRow, GroupOf
  <2>6. h.count = Cardinality(members(h))
    <3>1. InGroup(s, h.of) \cap Prefix(Len(s)) = InGroup(s, h.of)
      BY DEF InGroup, Prefix
    <3>2. h.count = Cardinality(InGroup(s, h.of))
      BY <2>2, <3>1 DEF RowAfter, Among
    <3>3. InGroup(b.auth, h.of) = members(h)
      BY DEF InGroup
    <3>4. Cardinality(InGroup(s, h.of)) = Cardinality(InGroup(b.auth, h.of))
      BY <1>1, <2>5
    <3> QED BY <3>2, <3>3, <3>4
  <2>7. (h.severity = "high") <=> (Prior(b, h.of.ip) >= Threshold)
    <3>1. h.of.ip \in Addrs
      BY <2>2 DEF Row, Groups
    <3>2. h.severity = "high" <=> Failures(Stats(b), h.of.ip) >= Threshold
      BY <2>2 DEF RowAfter
    <3> QED BY <1>3, <3>1, <3>2
  <2>8. ASSUME NEW d PROVE d \in dates(h) <=> \E k \in 1 .. Len(s) : InRow(s, h, k) /\ s[k].time = d /\ d # None
    <3>1. ASSUME NEW i \in members(h), d = b.auth[i].time, d # None
          PROVE  \E k \in 1 .. Len(s) : InRow(s, h, k) /\ s[k].time = d /\ d # None
      <4>1. b.auth[i] \in ToSet(b.auth)
        BY <1>n DEF ToSet
      <4>2. b.auth[i].kind \in methods
        BY <2>5 DEF GroupOf
      <4>3. b.auth[i] \in ToSet(s)
        BY <1>1, <4>1, <4>2
      <4>4. PICK k \in 1 .. Len(s) : b.auth[i] = s[k]
        BY <1>n, <4>3 DEF ToSet
      <4> QED BY <3>1, <4>4 DEF InRow
    <3>2. ASSUME NEW k \in 1 .. Len(s), InRow(s, h, k), s[k].time = d, d # None PROVE d \in dates(h)
      <4>1. s[k] \in ToSet(s)
        BY <1>n DEF ToSet
      <4>2. s[k] \in ToSet(b.auth)
        BY <1>1, <4>1
      <4>3. PICK i \in 1 .. Len(b.auth) : s[k] = b.auth[i]
        BY <1>n, <4>2 DEF ToSet
      <4>4. i \in members(h)
        BY <3>2, <4>3 DEF InRow
      <4> QED BY <3>2, <4>3, <4>4
    <3> QED BY <3>1, <3>2
  <2> HIDE DEF dates, members, methods
  <2>9. ASSUME dates(h) # {} PROVE h.first = Min(dates(h)) /\ h.last = Max(dates(h))
    <3>1. \A d \in dates(h) : d \in Int
      <4> SUFFICES ASSUME NEW d \in dates(h) PROVE d \in Int
        OBVIOUS
      <4>1. PICK k \in 1 .. Len(s) : s[k].time = d /\ d # None
        BY <2>8
      <4>2. s[k] \in Event
        BY <1>n
      <4> QED BY <4>1, <4>2 DEF Event, Times
    <3>2. \A d \in dates(h) : h.first # None /\ h.first <= d /\ h.last # None /\ d <= h.last
      BY <2>2, <2>8 DEF RowAfter
    <3>3. h.first # None /\ h.last # None
      BY <2>9, <3>2
    <3>4. h.first \in dates(h) /\ h.last \in dates(h)
      BY <2>2, <2>8, <3>3 DEF RowAfter
    <3>5. h.first = Min(dates(h))
      <4>1. \E x \in dates(h) : \A y \in dates(h) : x <= y
        BY <3>2, <3>4
      <4>2. Min(dates(h)) \in dates(h) /\ \A y \in dates(h) : Min(dates(h)) <= y
        BY <4>1 DEF Min
      <4> QED BY <3>1, <3>2, <3>4, <4>2
    <3>6. h.last = Max(dates(h))
      <4>1. \E x \in dates(h) : \A y \in dates(h) : x >= y
        BY <3>1, <3>2, <3>4
      <4>2. Max(dates(h)) \in dates(h) /\ \A y \in dates(h) : Max(dates(h)) >= y
        BY <4>1 DEF Max
      <4> QED BY <3>1, <3>2, <3>4, <4>2
    <3> QED BY <3>5, <3>6
  <2> QED BY <2>6, <2>7, <2>9
<1>8. Cardinality(ofs) = Len(rows)
  <2> DEFINE f == [p \in 1 .. Len(rows) |-> rows[p].of]
  <2>1. \A p \in 1 .. Len(rows) : rows[p].of \in ofs
    BY <1>d DEF ToSet
  <2>2. ASSUME NEW g \in ofs PROVE \E p \in 1 .. Len(rows) : f[p] = g
    BY <1>d DEF ToSet
  <2>3. f \in Bijection(1 .. Len(rows), ofs)
    <3>1. f \in [1 .. Len(rows) -> ofs]
      BY <2>1
    <3>2. \A p, q \in 1 .. Len(rows) : f[p] = f[q] => p = q
      BY <1>2
    <3> HIDE DEF f, ofs
    <3>3. f \in Injection(1 .. Len(rows), ofs)
      BY <3>1, <3>2 DEF Injection, IsInjective
    <3>4. f \in Surjection(1 .. Len(rows), ofs)
      BY <2>2, <3>1 DEF Surjection
    <3> QED BY <3>3, <3>4 DEF Bijection
  <2> HIDE DEF f, ofs
  <2>4. ExistsBijection(1 .. Len(rows), ofs)
    BY <2>3 DEF ExistsBijection
  <2>5. IsFiniteSet(1 .. Len(rows)) /\ Cardinality(1 .. Len(rows)) = Len(rows)
    <3> PICK n \in Nat : n = Len(rows)
      BY <1>d
    <3>1. 1 \in Int /\ n \in Int
      OBVIOUS
    <3>2. IsFiniteSet(1 .. n) /\ Cardinality(1 .. n) = IF 1 > n THEN 0 ELSE n - 1 + 1
      BY <3>1, FS_Interval, Zenon
    <3>3. (IF 1 > n THEN 0 ELSE n - 1 + 1) = n
      OBVIOUS
    <3> QED BY <3>2, <3>3
  <2> QED BY <2>4, <2>5, FS_Bijection
<1> QED BY <1>6, <1>7, <1>8 DEF Alarms, rows

(* Who is called a brute-force failed half of Threshold times: the tail    *)
(* has no more failures than the log, and the log two for a try.           *)
LEMMA AccusedFailed ==
  ASSUME Inv
  PROVE  \A a \in Addrs : Prior(Tails, a) >= Threshold => 2 * tries[a] >= Threshold
<1> SUFFICES ASSUME NEW a \in Addrs, Prior(Tails, a) >= Threshold
             PROVE  2 * tries[a] >= Threshold
  OBVIOUS
<1>1. authLog \in Seq(Event) /\ tries[a] \in Nat /\ Stored
  BY DEF Inv, Stored
<1> PICK s \in Seq(Event) : s = ReadTail(authLog)
  BY <1>1, TailOf
<1>2. Cardinality(FailuresOf(s, a)) \in Nat /\ Cardinality(FailuresOf(authLog, a)) \in Nat
  BY <1>1, FailuresFinite
<1>3. Prior(Tails, a) = Cardinality(FailuresOf(s, a))
  BY <1>1, PriorOf
<1>4. Cardinality(FailuresOf(s, a)) <= Cardinality(FailuresOf(authLog, a))
  BY <1>1, TailHasFewer
<1>5. Cardinality(FailuresOf(authLog, a)) <= 2 * tries[a]
  BY DEF Inv, TwoLines
<1> QED BY <1>1, <1>2, <1>3, <1>4, <1>5, Constants

-----------------------------------------------------------------------------
(* Types: in particular a line without a year is always given a date that  *)
(* the clock can have, and a build works on TailLines lines at most        *)
(* (readTail, splitTimestamp).                                             *)
THEOREM TypeCorrect == Spec => []TypeOK
BY Always, StoredTypes, PTL

(* Read builds once in CacheTTL, however often the page is polled, and     *)
(* never serves what is older than that and its build.                     *)
THEOREM CacheBounds == Spec => []CacheHolds
<1>1. Inv => CacheHolds
  <2> SUFFICES ASSUME Inv, Usable(clock) PROVE clock - cached.from < CacheTTL + BuildTime
    BY DEF CacheHolds, Inv, Timely
  <2>1. cached # None /\ clock - cached.at < CacheTTL
    BY DEF Usable
  <2>2. cached.at \in Nat /\ cached.from \in Nat /\ clock \in Nat
    BY <2>1, Constants DEF Inv, Stored, Times
  <2> QED BY <2>1, <2>2, Constants DEF Inv, Timely
<1> QED BY <1>1, Always, PTL

(* A build gives a line of the last year but a day the date it was written *)
(* on, whether the line bears the year or not (splitTimestamp's rollover). *)
THEOREM DatesAreKept == Spec => []Dated(Tails)
BY Always, TailsDated, PTL

(* Whoever a report calls a brute-force failed at least half of Threshold  *)
(* times, though a try on an unknown account counts twice and the tail may *)
(* begin between its two lines (build, classifyHijacks).                   *)
THEOREM NobodyAccusedInVain ==
  Spec => [](\A a \in Addrs : Prior(Tails, a) >= Threshold => 2 * tries[a] >= Threshold)
BY AccusedFailed, Always, PTL

(* A report says of the two tails what it should: one row of alarms for    *)
(* each suspect address, account and method, with all of its logins and    *)
(* the span of their dates; as banned whoever the tail of fail2ban's log   *)
(* bans last; each failure in the bucket of its hour, the newest failures  *)
(* first; the dates the lines were written on; and no one called a         *)
(* brute-force who failed less than half of Threshold times (build,        *)
(* classifyHijacks, hourlyFailures, tailFiltered).                         *)
THEOREM ReportsAreExact == Spec => []ReportExact
<1>1. Inv => ReportExact
  <2> SUFFICES ASSUME Inv PROVE ReportExact
    OBVIOUS
  <2>1. Tails \in Basis
    BY TailsAre DEF Inv
  <2> QED BY <2>1, TailsDated, AlarmsRight, BansRight, RecentRight, AccusedFailed DEF ReportExact
<1> QED BY <1>1, Always, PTL
=============================================================================
