---------------------------- MODULE LoginProofs ----------------------------
(***************************************************************************)
(* What holds of Login for any number of addresses, overlapping attempts,  *)
(* restarts and users: types, earned sessions, keys that survive, earned   *)
(* lockouts and the bound on guesses.                                      *)
(***************************************************************************)
EXTENDS Login, FiniteSetTheorems, TLAPS

-----------------------------------------------------------------------------
(* The inductive invariant, in parts.                                      *)

(* What an attempt carries was its user's when it was taken: the password  *)
(* that was right, the pending token; and it waits no longer than Lag.     *)
AttemptsHonest == \A r \in Reqs :
  /\ req[r].pc = "password" /\ req[r].right => req[r].user \in Users
  /\ req[r].pc = "code" => req[r].token \in pending /\ req[r].user = req[r].token.user
  /\ req[r].pc = "fail" => req[r].now <= clock /\ clock <= req[r].now + Lag

(* How far a start has come, it holds what is in the files.                *)
StageKeys ==
  /\ stage # "secret" => held["secret"] = keyFile["secret"] /\ keyFile["secret"] \in Whole
  /\ stage \in {"box", "up"} => held["agent"] = keyFile["agent"] /\ keyFile["agent"] # None
  /\ up => held["box"] = keyFile["box"] /\ keyFile["box"] \in Whole

(* Every cookie was signed with the key that is in the file.               *)
SignedByFile == \A s \in sessions : s.key = keyFile["secret"]

(* A whole key of the agent's or of the box is the first there was.        *)
FirstInFile == \A f \in {"agent", "box"} :
  first[f] = IF keyFile[f] \in Whole THEN keyFile[f] ELSE None

KeysInv == StageKeys /\ SignedByFile /\ FirstInFile

(* No failure is in the future, and an entry counts no more than there     *)
(* were, nor locks for longer than the last one earned.                    *)
FailuresPast == \A a \in Addrs : \A j \in 1 .. Len(failures[a]) : failures[a][j] <= clock
CountsEarned == \A a \in Addrs : entry[a] # None =>
  /\ entry[a].fails <= Len(failures[a])
  /\ entry[a].lockUntil # Never =>
       /\ Len(failures[a]) >= Max
       /\ entry[a].lockUntil <= failures[a][Len(failures[a])] + Lockout

(* The failures near the i-th of an address.                               *)
Bound(a, i) == failures[a][i] + Lockout - Lag
Near(a, i) == {j \in i .. Len(failures[a]) : failures[a][j] <= Bound(a, i)}
InFlight(a) == {r \in Reqs : req[r].pc # "idle" /\ req[r].addr = a}

(* While they can still grow, either the entry has counted them all, or it *)
(* locks until they cannot, and what can fail is already under way.        *)
Counting(a, i) ==
  /\ Len(failures[a]) - i + 1 <= entry[a].fails
  /\ entry[a].last >= failures[a][i] - Lag
Locked(a, i) ==
  /\ entry[a].lockUntil >= Bound(a, i)
  /\ Len(failures[a]) - i + 1 + Cardinality(InFlight(a)) <= Max + Cardinality(Reqs) - 1
GuessInv == \A a \in Addrs : \A i \in 1 .. Len(failures[a]) :
  /\ clock > Bound(a, i) => Cardinality(Near(a, i)) <= Max + Cardinality(Reqs) - 1
  /\ clock <= Bound(a, i) => entry[a] # None /\ (Counting(a, i) \/ Locked(a, i))

Inv == /\ TypeOK /\ AttemptsHonest /\ KeysInv /\ SessionEarned
       /\ FailuresPast /\ CountsEarned /\ GuessInv
-----------------------------------------------------------------------------
(* Values and records.                                                     *)

LEMMA NoneIsNoKey == None \notin Whole /\ Short \notin Whole /\ None # Short
BY ValuesAssumption DEF Whole

LEMMA DivBound ==
  ASSUME NEW n \in Nat, NEW p \in Nat \ {0}
  PROVE  n \div p \in 0 .. n
BY SMTT(30)

LEMMA AttemptFields ==
  ASSUME NEW x \in Attempt
  PROVE  /\ x.pc \in {"idle", "password", "code", "fail"} /\ x.addr \in Addrs \cup {None}
         /\ x.user \in Users \cup {None} /\ x.right \in BOOLEAN /\ x.token \in Pending \cup {None}
         /\ x.code \in Times \cup {None} /\ x.now \in Times
BY DEF Attempt

LEMMA EntryFields ==
  ASSUME NEW e \in Entry
  PROVE  /\ e.fails \in 0 .. Max - 1 /\ e.last \in Int /\ e.lockUntil \in Int
         /\ e.fails \in Int
BY ThrottleAssumption, BoundsAssumption DEF Entry, Times, Never

LEMMA IdleIsAttempt == Idle \in Attempt /\ Idle.pc = "idle"
BY BoundsAssumption DEF Idle, Attempt, Times

Others(r) ==
  /\ req' \in [Reqs -> Attempt]
  /\ \A q \in Reqs : q # r => req'[q] = req[q]

LEMMA SetOthers ==
  ASSUME req \in [Reqs -> Attempt], NEW r \in Reqs, NEW x \in Attempt, req' = [req EXCEPT ![r] = x]
  PROVE  Others(r) /\ req'[r] = x
BY DEF Others

LEMMA ExitIdles ==
  ASSUME req \in [Reqs -> Attempt], NEW r \in Reqs, Exit(r)
  PROVE  Others(r) /\ req'[r].pc = "idle"
BY SetOthers, IdleIsAttempt DEF Exit

LEMMA RejectedFails ==
  ASSUME req \in [Reqs -> Attempt], NEW r \in Reqs, clock \in Times, Rejected(r)
  PROVE  Others(r) /\ req'[r].pc = "fail" /\ req'[r].addr = req[r].addr /\ req'[r].now = clock
<1> DEFINE x == [Idle EXCEPT !.pc = "fail", !.addr = req[r].addr, !.now = clock]
<1>1. x \in Attempt /\ x.pc = "fail" /\ x.addr = req[r].addr /\ x.now = clock
  BY AttemptFields DEF Idle, Attempt
<1> HIDE DEF x
<1>2. req' = [req EXCEPT ![r] = x]
  BY DEF Rejected, x
<1> QED
  BY <1>1, <1>2, SetOthers

LEMMA Numbers ==
  ASSUME TypeOK
  PROVE  /\ clock \in Nat /\ \A a \in Addrs : Len(failures[a]) \in Nat
         /\ \A a \in Addrs : \A j \in 1 .. Len(failures[a]) : failures[a][j] \in Nat /\ Bound(a, j) \in Int
<1>1. \A a \in Addrs : failures[a] \in Seq(Times)
  BY DEF TypeOK
<1>2. \A a \in Addrs : \A j \in 1 .. Len(failures[a]) : failures[a][j] \in Times
  BY <1>1
<1> QED
  BY <1>1, <1>2, ThrottleAssumption, BoundsAssumption DEF TypeOK, Times, Bound

LEMMA InFlightFinite ==
  ASSUME NEW a
  PROVE  /\ IsFiniteSet(InFlight(a)) /\ Cardinality(InFlight(a)) \in Nat
         /\ Cardinality(InFlight(a)) <= Cardinality(Reqs) /\ Cardinality(Reqs) \in Nat
<1>1. InFlight(a) \subseteq Reqs
  BY DEF InFlight
<1> QED
  BY <1>1, ValuesAssumption, FS_Subset, FS_CardinalityType

-----------------------------------------------------------------------------
(* Steps that leave a part of the invariant alone.                         *)

(* Attempts come to an end, or are refused; nobody fails.                  *)
LEMMA ThrottleFrame ==
  ASSUME Inv, UNCHANGED <<clock, entry, failures>>,
         \A a \in Addrs : InFlight(a)' \subseteq InFlight(a) \/ ~Blocked(a), req' \in [Reqs -> Attempt]
  PROVE  FailuresPast' /\ CountsEarned' /\ GuessInv'
<1>1. FailuresPast' /\ CountsEarned'
  BY DEF Inv, FailuresPast, CountsEarned
<1>2. GuessInv'
  <2> SUFFICES ASSUME NEW a \in Addrs, NEW i \in 1 .. Len(failures[a]), clock <= Bound(a, i)
               PROVE  entry[a] # None /\ (Counting(a, i) \/ Locked(a, i)')
    BY DEF Inv, GuessInv, Bound, Near, Counting
  <2>1. entry[a] # None /\ (Counting(a, i) \/ Locked(a, i))
    BY DEF Inv, GuessInv
  <2>2. CASE Locked(a, i)
    <3>1. Blocked(a)
      BY <2>1, <2>2, Numbers, EntryFields DEF Blocked, Locked, Inv, TypeOK
    <3>2. Cardinality(InFlight(a)') <= Cardinality(InFlight(a)) /\ Cardinality(InFlight(a)') \in Nat
      BY <3>1, InFlightFinite, FS_Subset, FS_CardinalityType
    <3>3. Locked(a, i)'
      <4>1. Len(failures[a]) - i + 1 + Cardinality(InFlight(a)') <= Max + Cardinality(Reqs) - 1
        BY <2>2, <3>2, InFlightFinite, Numbers, ThrottleAssumption DEF Locked, Inv
      <4> QED
        BY <2>2, <4>1 DEF Locked, Bound
    <3> QED
      BY <2>1, <3>3
  <2> QED
    BY <2>1, <2>2
<1> QED
  BY <1>1, <1>2

(* The failures of an address are forgotten with its entry.                *)
LEMMA ResetFrame ==
  ASSUME Inv, NEW a \in Addrs, entry' = Cleared(a), failures' = [failures EXCEPT ![a] = <<>>],
         UNCHANGED clock, \A b \in Addrs : InFlight(b)' \subseteq InFlight(b), req' \in [Reqs -> Attempt]
  PROVE  /\ entry' \in [Addrs -> Entry \cup {None}] /\ failures' \in [Addrs -> Seq(Times)]
         /\ FailuresPast' /\ CountsEarned' /\ GuessInv'
<1>1. /\ entry' \in [Addrs -> Entry \cup {None}] /\ failures' \in [Addrs -> Seq(Times)]
      /\ entry'[a] = None /\ failures'[a] = <<>>
      /\ \A b \in Addrs : b # a => entry'[b] = entry[b] /\ failures'[b] = failures[b]
  BY DEF Cleared, Inv, TypeOK
<1>2. \A i \in 1 .. Len(failures'[a]) : FALSE
  <2>1. Len(failures'[a]) = 0
    BY <1>1
  <2> QED
    BY <2>1
<1>3. FailuresPast' /\ CountsEarned'
  BY <1>1, <1>2 DEF Inv, FailuresPast, CountsEarned
<1>4. GuessInv'
  <2> SUFFICES ASSUME NEW b \in Addrs, b # a, NEW i \in 1 .. Len(failures[b])
               PROVE  /\ clock > Bound(b, i) => Cardinality(Near(b, i)) <= Max + Cardinality(Reqs) - 1
                      /\ clock <= Bound(b, i) => entry[b] # None /\ (Counting(b, i) \/ Locked(b, i)')
    <3>1. \A c \in Addrs : c = a \/ (entry'[c] = entry[c] /\ failures'[c] = failures[c])
      BY <1>1
    <3>2. \A c \in Addrs : c # a => \A i \in 1 .. Len(failures[c]) :
            Near(c, i)' = Near(c, i) /\ Bound(c, i)' = Bound(c, i) /\ Counting(c, i)' = Counting(c, i)
      BY <3>1 DEF Bound, Near, Counting
    <3> QED
      BY <1>2, <3>1, <3>2 DEF GuessInv
  <2>1. CASE Locked(b, i)
    <3>1. Cardinality(InFlight(b)') <= Cardinality(InFlight(b)) /\ Cardinality(InFlight(b)') \in Nat
      BY InFlightFinite, FS_Subset, FS_CardinalityType
    <3>2. Locked(b, i)'
      BY <1>1, <2>1, <3>1, InFlightFinite, Numbers, ThrottleAssumption DEF Locked, Bound, Inv
    <3> QED
      BY <3>2 DEF Inv, GuessInv
  <2>2. CASE ~Locked(b, i)
    BY <2>2 DEF Inv, GuessInv
  <2> QED
    BY <2>1, <2>2
<1> QED
  BY <1>1, <1>3, <1>4
-----------------------------------------------------------------------------
(* A start, its keys, and its end.                                         *)

LEMMA InvInit == Init => Inv
<1> SUFFICES ASSUME Init PROVE Inv
  OBVIOUS
<1> USE DEF Init
<1>1. \A r \in Reqs : req[r] = Idle /\ req[r].pc = "idle" /\ Idle \in Attempt
  BY IdleIsAttempt
<1>2. \A a \in Addrs : failures[a] = <<>> /\ Len(failures[a]) = 0 /\ <<>> \in Seq(Times)
  OBVIOUS
<1>3. TypeOK
  <2>1. up = FALSE
    BY DEF up
  <2> QED
    BY <1>1, <1>2, <2>1, BoundsAssumption DEF TypeOK, Times, Files
<1>4. AttemptsHonest /\ SessionEarned /\ FailuresPast /\ CountsEarned
  BY <1>1, <1>2 DEF AttemptsHonest, SessionEarned, FailuresPast, CountsEarned
<1>5. KeysInv
  BY NoneIsNoKey DEF KeysInv, StageKeys, SignedByFile, FirstInFile, up, Files
<1>6. GuessInv
  BY <1>2 DEF GuessInv
<1> QED
  BY <1>3, <1>4, <1>5, <1>6 DEF Inv

(* Nobody signs in before the start is over.                               *)
LEMMA KeyStepKeeps ==
  ASSUME Inv, ~up, UNCHANGED <<clock, entry, req, tokens, failures>>,
         keyFile' \in [Files -> Whole \cup {None, Short}], keys' \in [Files -> 0 .. MaxKeyFiles],
         held' \in [Files -> Whole \cup {None, Short}], first' \in [Files -> Whole \cup {None}],
         stage' \in Files \cup {"up"}, crashes' \in 0 .. MaxCrashes,
         StageKeys', FirstInFile', keyFile["secret"] \in Whole => keyFile'["secret"] = keyFile["secret"]
  PROVE  Inv'
<1> USE DEF tokens
<1>1. \A r \in Reqs : req[r].pc = "idle" /\ req' = req
  BY AttemptFields DEF Inv, TypeOK
<1>2. up' => held'["secret"] \in Whole /\ held'["agent"] # None /\ held'["box"] \in Whole
  BY DEF StageKeys, up
<1>3. TypeOK'
  BY <1>1, <1>2 DEF Inv, TypeOK
<1>4. AttemptsHonest' /\ SessionEarned'
  BY <1>1 DEF Inv, AttemptsHonest, SessionEarned
<1>5. SignedByFile'
  <2>1. \A s \in sessions : s.key \in Whole
    BY DEF Inv, TypeOK, Session
  <2> QED
    BY <2>1 DEF Inv, KeysInv, SignedByFile
<1>6. FailuresPast' /\ CountsEarned' /\ GuessInv'
  <2>1. \A a \in Addrs : InFlight(a)' \subseteq InFlight(a)
    BY DEF InFlight
  <2>2. req' \in [Reqs -> Attempt]
    BY DEF Inv, TypeOK
  <2> QED
    BY <2>1, <2>2, ThrottleFrame
<1> QED
  BY <1>3, <1>4, <1>5, <1>6 DEF Inv, KeysInv

LEMMA HoldsKeeps ==
  ASSUME Inv, NEW f \in Files, NEW k \in Whole \cup {None, Short}, Holds(f, k)
  PROVE  /\ held' \in [Files -> Whole \cup {None, Short}] /\ stage' \in Files \cup {"up"}
         /\ held'[f] = k /\ \A g \in Files : g # f => held'[g] = held[g]
         /\ f = "secret" => stage' = "agent"
         /\ f = "agent" => stage' = "box"
         /\ f = "box" => stage' = "up"
BY DEF Holds, After, Inv, TypeOK, Files

LEMMA DownKeeps ==
  ASSUME Down
  PROVE  /\ held' \in [Files -> Whole \cup {None, Short}] /\ stage' = "secret"
         /\ stage' \in Files \cup {"up"} /\ StageKeys'
BY DEF Down, StageKeys, Files, up

LEMMA LoadKeeps == ASSUME Inv, NEW f \in Files, LoadKey(f) PROVE Inv'
<1> USE DEF LoadKey
<1>1. /\ held' \in [Files -> Whole \cup {None, Short}] /\ stage' \in Files \cup {"up"}
      /\ held'[f] = keyFile[f] /\ \A g \in Files : g # f => held'[g] = held[g]
      /\ f = "secret" => stage' = "agent"
      /\ f = "agent" => stage' = "box"
      /\ f = "box" => stage' = "up"
  BY HoldsKeeps
<1>2. ~up /\ f \in {"secret", "agent", "box"}
  BY DEF up, Files
<1>3. StageKeys'
  BY <1>1, <1>2, NoneIsNoKey DEF StageKeys, Inv, KeysInv, up, Files
<1>4. /\ FirstInFile' /\ keyFile' \in [Files -> Whole \cup {None, Short}]
      /\ keys' \in [Files -> 0 .. MaxKeyFiles] /\ first' \in [Files -> Whole \cup {None}]
      /\ crashes' \in 0 .. MaxCrashes
  BY DEF Inv, KeysInv, FirstInFile, TypeOK
<1> QED
  BY <1>1, <1>2, <1>3, <1>4, KeyStepKeeps

LEMMA TakeKeeps == ASSUME Inv, TakeShort PROVE Inv'
<1> USE DEF TakeShort
<1>1. /\ held' \in [Files -> Whole \cup {None, Short}] /\ stage' = "box"
      /\ held'["agent"] = Short /\ \A g \in Files : g # "agent" => held'[g] = held[g]
  BY HoldsKeeps DEF Files
<1>2. ~up /\ stage' \in Files \cup {"up"}
  BY <1>1 DEF up, Files
<1>3. StageKeys'
  BY <1>1, NoneIsNoKey DEF StageKeys, Inv, KeysInv, up, Files
<1>4. /\ FirstInFile' /\ keyFile' \in [Files -> Whole \cup {None, Short}]
      /\ keys' \in [Files -> 0 .. MaxKeyFiles] /\ first' \in [Files -> Whole \cup {None}]
      /\ crashes' \in 0 .. MaxCrashes
  BY DEF Inv, KeysInv, FirstInFile, TypeOK
<1> QED
  BY <1>1, <1>2, <1>3, <1>4, KeyStepKeeps

LEMMA MakeKeeps == ASSUME Inv, NEW f \in Files, MakeKey(f) PROVE Inv'
<1> USE DEF MakeKey
<1> DEFINE k == keys[f] + 1
<1>1. k \in Whole /\ keys' \in [Files -> 0 .. MaxKeyFiles] /\ keys'[f] = k
  BY BoundsAssumption DEF Inv, TypeOK, Whole
<1> HIDE DEF k
<1>2. /\ keyFile' \in [Files -> Whole \cup {None, Short}] /\ keyFile'[f] = k
      /\ \A g \in Files : g # f => keyFile'[g] = keyFile[g]
  BY <1>1 DEF Persisted, Inv, TypeOK
<1>3. /\ held' \in [Files -> Whole \cup {None, Short}] /\ stage' \in Files \cup {"up"}
      /\ held'[f] = k /\ \A g \in Files : g # f => held'[g] = held[g]
      /\ f = "secret" => stage' = "agent"
      /\ f = "agent" => stage' = "box"
      /\ f = "box" => stage' = "up"
  BY <1>1, HoldsKeeps
<1>4. ~up /\ f \in {"secret", "agent", "box"} /\ crashes' \in 0 .. MaxCrashes
  BY DEF up, Files, Inv, TypeOK
<1>5. StageKeys'
  BY <1>1, <1>2, <1>3, <1>4, NoneIsNoKey DEF StageKeys, Inv, KeysInv, up, Files
<1>6. first' \in [Files -> Whole \cup {None}]
      /\ \A g \in Files : first'[g] = IF g = f /\ first[f] = None THEN k ELSE first[g]
  BY <1>1, <1>2 DEF Waited, Inv, TypeOK
<1>7. FirstInFile'
  <2>1. f \in {"agent", "box"} => first[f] = None
    BY NoneIsNoKey DEF MayMake, Inv, KeysInv, FirstInFile
  <2> QED
    BY <1>1, <1>2, <1>6, <2>1 DEF FirstInFile, Inv, KeysInv, Files
<1>8. keyFile["secret"] \in Whole => keyFile'["secret"] = keyFile["secret"]
  BY <1>2 DEF MayMake, Files
<1> QED
  BY <1>1, <1>2, <1>3, <1>4, <1>5, <1>6, <1>7, <1>8, KeyStepKeeps

LEMMA CutKeeps == ASSUME Inv, NEW f \in Files, CutKey(f) PROVE Inv'
<1> USE DEF CutKey
<1>1. /\ keyFile' \in [Files -> Whole \cup {None, Short}] /\ keyFile'[f] = Short
      /\ \A g \in Files : g # f => keyFile'[g] = keyFile[g]
  BY DEF Inv, TypeOK
<1>2. ~up /\ crashes' \in 0 .. MaxCrashes /\ keys' \in [Files -> 0 .. MaxKeyFiles]
      /\ first' \in [Files -> Whole \cup {None}]
  BY BoundsAssumption DEF up, Files, Inv, TypeOK
<1>3. FirstInFile'
  <2>1. f \in {"agent", "box"} => first[f] = None
    BY NoneIsNoKey DEF MayMake, Inv, KeysInv, FirstInFile
  <2> QED
    BY <1>1, <2>1, NoneIsNoKey DEF FirstInFile, Inv, KeysInv, Files
<1>4. keyFile["secret"] \in Whole => keyFile'["secret"] = keyFile["secret"]
  BY <1>1 DEF MayMake, Files
<1> QED
  BY <1>1, <1>2, <1>3, <1>4, DownKeeps, KeyStepKeeps

LEMMA FatalKeeps == ASSUME Inv, Fatal PROVE Inv'
<1> USE DEF Fatal
<1>1. ~up /\ FirstInFile'
  BY DEF up, Inv, KeysInv, FirstInFile
<1>2. /\ keyFile' \in [Files -> Whole \cup {None, Short}] /\ keys' \in [Files -> 0 .. MaxKeyFiles]
      /\ first' \in [Files -> Whole \cup {None}] /\ crashes' \in 0 .. MaxCrashes
      /\ keyFile'["secret"] = keyFile["secret"]
  BY DEF Inv, TypeOK
<1> QED
  BY <1>1, <1>2, DownKeeps, KeyStepKeeps

LEMMA CrashKeeps == ASSUME Inv, Crash PROVE Inv'
<1> USE DEF Crash, tokens
<1>1. \A r \in Reqs : req'[r] = Idle /\ req'[r].pc = "idle"
  BY IdleIsAttempt
<1>2. req' \in [Reqs -> Attempt] /\ crashes' \in 0 .. MaxCrashes
  BY IdleIsAttempt, BoundsAssumption DEF Inv, TypeOK
<1>3. entry' \in [Addrs -> Entry \cup {None}] /\ failures' \in [Addrs -> Seq(Times)]
      /\ \A a \in Addrs : entry'[a] = None /\ Len(failures'[a]) = 0
  OBVIOUS
<1>4. ~up'
  BY DownKeeps DEF up
<1>5. TypeOK'
  BY <1>1, <1>2, <1>3, <1>4, DownKeeps DEF Inv, TypeOK
<1>6. AttemptsHonest' /\ SessionEarned' /\ FailuresPast' /\ CountsEarned' /\ GuessInv'
  BY <1>1, <1>3 DEF Inv, AttemptsHonest, SessionEarned, FailuresPast, CountsEarned, GuessInv
<1>7. KeysInv'
  BY DownKeeps DEF Inv, KeysInv, SignedByFile, FirstInFile
<1> QED
  BY <1>5, <1>6, <1>7 DEF Inv
-----------------------------------------------------------------------------
(* Attempts.                                                               *)

(* What one attempt does outside the throttle.                             *)
LEMMA AttemptKeeps ==
  ASSUME Inv, NEW r \in Reqs, Others(r), up, UNCHANGED <<clock, keyVars>>,
         req'[r].pc # "idle" => req'[r].addr # None,
         pending \subseteq pending', pending' \subseteq Pending,
         sessions' \subseteq Session, \A s \in sessions' : s \in sessions \/ s.key = secret,
         entry' \in [Addrs -> Entry \cup {None}], failures' \in [Addrs -> Seq(Times)],
         /\ req'[r].pc = "password" /\ req'[r].right => req'[r].user \in Users
         /\ req'[r].pc = "code" => req'[r].token \in pending' /\ req'[r].user = req'[r].token.user
         /\ req'[r].pc = "fail" => req'[r].now = clock,
         SessionEarned', FailuresPast', CountsEarned', GuessInv'
  PROVE  Inv'
<1> USE DEF keyVars
<1>1. TypeOK'
  BY DEF Inv, TypeOK, Others, up
<1>2. AttemptsHonest'
  <2>1. clock \in Int /\ Lag \in Nat
    BY ThrottleAssumption, BoundsAssumption DEF Inv, TypeOK, Times
  <2> QED
    BY <2>1 DEF Inv, AttemptsHonest, Others
<1>3. KeysInv'
  BY DEF Inv, KeysInv, StageKeys, SignedByFile, FirstInFile, up, secret
<1> QED
  BY <1>1, <1>2, <1>3 DEF Inv

LEMMA InFlightOf ==
  ASSUME NEW r \in Reqs, Others(r)
  PROVE  /\ \A a \in Addrs : req'[r].pc = "idle" \/ req'[r].addr # a => InFlight(a)' \subseteq InFlight(a)
         /\ \A a \in Addrs : req[r].pc # "idle" /\ req'[r].addr = req[r].addr
              => InFlight(a)' \subseteq InFlight(a)
         /\ req'[r].pc = "idle" => \A a \in Addrs : InFlight(a)' = InFlight(a) \ {r}
BY DEF Others, InFlight

LEMMA PostPasswordKeeps ==
  ASSUME Inv, NEW r \in Reqs, NEW a \in Addrs, NEW u \in Users, NEW right \in BOOLEAN,
         PostPassword(r, a, u, right)
  PROVE  Inv'
<1> USE DEF PostPassword, tokens
<1> DEFINE x == [Idle EXCEPT !.pc = "password", !.addr = a, !.right = right,
                             !.user = IF right THEN u ELSE None]
<1>1. x \in Attempt /\ x.pc = "password" /\ x.addr = a /\ (x.right => x.user \in Users)
  BY IdleIsAttempt DEF Idle, Attempt
<1> HIDE DEF x
<1>2. req' = [req EXCEPT ![r] = x]
  BY DEF x
<1>3. Others(r) /\ req'[r] = x
  BY <1>1, <1>2, SetOthers DEF Inv, TypeOK
<1>4. FailuresPast' /\ CountsEarned' /\ GuessInv'
  <2>1. \A b \in Addrs : InFlight(b)' \subseteq InFlight(b) \/ ~Blocked(b)
    BY <1>1, <1>3, InFlightOf
  <2> QED
    BY <1>3, <2>1, ThrottleFrame DEF Others
<1>5. x.addr # None
  BY <1>1, ValuesAssumption
<1>6. SessionEarned' /\ pending' \subseteq Pending /\ sessions' \subseteq Session
      /\ entry' \in [Addrs -> Entry \cup {None}] /\ failures' \in [Addrs -> Seq(Times)]
  BY DEF Inv, SessionEarned, TypeOK
<1> QED
  BY <1>1, <1>3, <1>4, <1>5, <1>6, AttemptKeeps

LEMMA PostCodeKeeps ==
  ASSUME Inv, NEW r \in Reqs, NEW a \in Addrs, NEW p \in pending, NEW c \in {None, clock \div Period},
         PostCode(r, a, p, c)
  PROVE  Inv'
<1> USE DEF PostCode, tokens
<1> DEFINE x == [Idle EXCEPT !.pc = "code", !.addr = a, !.user = p.user, !.token = p, !.code = c]
<1>1. p \in Pending /\ p.user \in Users
  BY DEF Inv, TypeOK, Pending
<1>2. c \in Times \cup {None}
  <2>1. clock \in Nat /\ clock <= MaxTime
    BY BoundsAssumption DEF Inv, TypeOK, Times
  <2>2. clock \div Period \in 0 .. clock
    BY <2>1, DivBound, AgesAssumption
  <2> DEFINE q == clock \div Period
  <2> HIDE DEF q
  <2>3. q \in Times
    BY <2>1, <2>2, BoundsAssumption DEF Times, q
  <2> QED
    BY <2>3 DEF q
<1>3. x \in Attempt /\ x.pc = "code" /\ x.addr = a /\ x.user = p.user /\ x.token = p
  BY <1>1, <1>2, IdleIsAttempt DEF Idle, Attempt
<1> HIDE DEF x
<1>4. req' = [req EXCEPT ![r] = x]
  BY DEF x
<1>5. Others(r) /\ req'[r] = x
  BY <1>3, <1>4, SetOthers DEF Inv, TypeOK
<1>6. FailuresPast' /\ CountsEarned' /\ GuessInv'
  <2>1. \A b \in Addrs : InFlight(b)' \subseteq InFlight(b) \/ ~Blocked(b)
    BY <1>3, <1>5, InFlightOf
  <2> QED
    BY <1>5, <2>1, ThrottleFrame DEF Others
<1>7. x.addr # None
  BY <1>3, ValuesAssumption
<1>8. SessionEarned' /\ pending' \subseteq Pending /\ sessions' \subseteq Session
      /\ entry' \in [Addrs -> Entry \cup {None}] /\ failures' \in [Addrs -> Seq(Times)]
  BY DEF Inv, SessionEarned, TypeOK
<1> QED
  BY <1>3, <1>5, <1>6, <1>7, <1>8, AttemptKeeps

(* An attempt that ends, or is refused, with no word to the throttle yet.  *)
LEMMA EndKeeps ==
  ASSUME Inv, NEW r \in Reqs, req[r].pc \in {"password", "code"}, Exit(r) \/ Rejected(r),
         pending \subseteq pending', pending' \subseteq Pending,
         UNCHANGED <<clock, keyVars, entry, failures, sessions>>
  PROVE  Inv'
<1>1. /\ Others(r) /\ req'[r].pc \in {"idle", "fail"}
      /\ req'[r].pc = "fail" => req'[r].addr = req[r].addr /\ req'[r].now = clock
  BY ExitIdles, RejectedFails DEF Inv, TypeOK
<1>2. up /\ req[r].addr # None
  BY DEF Inv, TypeOK
<1>3. FailuresPast' /\ CountsEarned' /\ GuessInv'
  <2>1. \A b \in Addrs : InFlight(b)' \subseteq InFlight(b)
    BY <1>1, InFlightOf
  <2> QED
    BY <1>1, <2>1, ThrottleFrame DEF Others
<1>4. SessionEarned' /\ sessions' \subseteq Session
      /\ entry' \in [Addrs -> Entry \cup {None}] /\ failures' \in [Addrs -> Seq(Times)]
  BY DEF Inv, SessionEarned, TypeOK
<1> QED
  BY <1>1, <1>2, <1>3, <1>4, AttemptKeeps

LEMMA SignInKeeps ==
  ASSUME Inv, NEW r \in Reqs, req[r].pc \in {"password", "code"}, SignIn(r), pending' = pending,
         req[r].user \in Users,
         TOTPEnabled(req[r].user) =>
           \E p \in pending : p.user = req[r].user /\ clock < p.exp /\ p.key = secret,
         UNCHANGED <<clock, keyVars>>
  PROVE  Inv'
<1> USE DEF SignIn
<1>1. Others(r) /\ req'[r].pc = "idle"
  BY ExitIdles DEF Inv, TypeOK
<1>2. up /\ req[r].addr \in Addrs
  BY AttemptFields DEF Inv, TypeOK
<1>3. /\ entry' \in [Addrs -> Entry \cup {None}] /\ failures' \in [Addrs -> Seq(Times)]
      /\ FailuresPast' /\ CountsEarned' /\ GuessInv'
  <2>1. \A b \in Addrs : InFlight(b)' \subseteq InFlight(b)
    BY <1>1, InFlightOf
  <2> QED
    BY <1>1, <1>2, <2>1, ResetFrame DEF Others
<1> DEFINE s == [user |-> req[r].user, at |-> clock, key |-> secret]
<1>4. s \in Session
  BY <1>2 DEF Session, Inv, TypeOK, secret
<1>5. sessions' = sessions \cup {s}
  OBVIOUS
<1>6. SessionEarned'
  BY <1>5 DEF Inv, SessionEarned, TOTPEnabled
<1>7. sessions' \subseteq Session /\ \A z \in sessions' : z \in sessions \/ z.key = secret
  BY <1>4, <1>5 DEF Inv, TypeOK
<1>8. pending \subseteq pending' /\ pending' \subseteq Pending
  BY DEF Inv, TypeOK
<1> HIDE DEF s, SignIn
<1> QED
  BY <1>1, <1>2, <1>3, <1>6, <1>7, <1>8, AttemptKeeps

LEMMA CheckPasswordKeeps == ASSUME Inv, NEW r \in Reqs, CheckPassword(r) PROVE Inv'
<1> DEFINE u == req[r].user
<1>0. req[r].pc = "password" /\ UNCHANGED <<clock, keyVars>> /\ pending \subseteq Pending
      /\ clock \in Times /\ held["secret"] \in Whole
  BY DEF CheckPassword, Inv, TypeOK
<1>1. CASE Rejected(r) /\ UNCHANGED <<entry, tokens, failures>>
  BY <1>0, <1>1, EndKeeps DEF tokens
<1>2. CASE /\ VerifyPassword(r)
           /\ pending' = pending \cup {[user |-> u, exp |-> clock + PendingAge, key |-> secret]}
           /\ Exit(r) /\ UNCHANGED <<entry, sessions, failures>>
  <2>1. u \in Users
    BY <1>0, <1>2 DEF Inv, AttemptsHonest, VerifyPassword
  <2>2. clock + PendingAge \in 0 .. MaxTime + PendingAge
    BY <1>0, AgesAssumption, BoundsAssumption DEF Times
  <2>3. [user |-> u, exp |-> clock + PendingAge, key |-> secret] \in Pending
    BY <1>0, <2>1, <2>2 DEF Pending, secret
  <2>4. pending \subseteq pending' /\ pending' \subseteq Pending
    BY <1>0, <1>2, <2>3
  <2> QED
    BY <1>0, <1>2, <2>4, EndKeeps
<1>3. CASE VerifyPassword(r) /\ ~TOTPEnabled(u) /\ SignIn(r) /\ UNCHANGED pending
  <2>1. u \in Users
    BY <1>0, <1>3 DEF Inv, AttemptsHonest, VerifyPassword
  <2> QED
    BY <1>0, <1>3, <2>1, SignInKeeps
<1> QED
  BY <1>1, <1>2, <1>3 DEF CheckPassword

LEMMA CheckCodeKeeps == ASSUME Inv, NEW r \in Reqs, CheckCode(r) PROVE Inv'
<1>0. req[r].pc = "code" /\ UNCHANGED <<clock, keyVars>> /\ pending \subseteq Pending
  BY DEF CheckCode, Inv, TypeOK
<1>1. CASE (Exit(r) \/ Rejected(r)) /\ UNCHANGED <<entry, tokens, failures>>
  BY <1>0, <1>1, EndKeeps DEF tokens
<1>2. CASE VerifyPending(req[r].token) /\ SignIn(r) /\ UNCHANGED pending
  <2>1. req[r].token \in pending /\ req[r].user = req[r].token.user
    BY <1>0 DEF Inv, AttemptsHonest
  <2>2. req[r].user \in Users
    BY <1>0, <2>1 DEF Pending
  <2>3. \E p \in pending : p.user = req[r].user /\ clock < p.exp /\ p.key = secret
    BY <1>2, <2>1 DEF VerifyPending
  <2> QED
    BY <1>0, <1>2, <2>2, <2>3, SignInKeeps
<1> QED
  BY <1>1, <1>2 DEF CheckCode
-----------------------------------------------------------------------------
(* A failure is counted.                                                   *)

LEMMA PrunedTyped ==
  ASSUME TypeOK, NEW now \in Times
  PROVE  /\ Pruned(now) \in [Addrs -> Entry \cup {None}]
         /\ \A b \in Addrs : \/ Pruned(now)[b] = entry[b]
                             \/ Pruned(now)[b] = None /\ entry[b] # None /\ Stale(entry[b], now)
BY DEF Pruned, TypeOK

LEMMA FailedTyped ==
  ASSUME NEW e \in Entry, NEW now \in Times
  PROVE  /\ Failed(e, now) \in Entry /\ Failed(e, now).last = now
         /\ Count(e, now) \in 1 .. Max /\ Count(e, now) <= e.fails + 1
         /\ now - e.last <= Window => Count(e, now) = e.fails + 1
         /\ Count(e, now) >= Max => Failed(e, now).fails = 0 /\ Failed(e, now).lockUntil = now + Lockout
         /\ Count(e, now) < Max => /\ Failed(e, now).fails = Count(e, now)
                                   /\ Failed(e, now).lockUntil = e.lockUntil
<1>0. e.fails \in 0 .. Max - 1 /\ e.last \in Int /\ e.lockUntil \in Int /\ now \in Int
      /\ Max \in Nat /\ Max > 0 /\ Window \in Nat
  BY EntryFields, ThrottleAssumption, BoundsAssumption DEF Times
<1>1. /\ Count(e, now) \in 1 .. Max /\ Count(e, now) <= e.fails + 1
      /\ now - e.last <= Window => Count(e, now) = e.fails + 1
  BY <1>0 DEF Count
<1>2. CASE Count(e, now) >= Max
  <2>1. Failed(e, now) = [fails |-> 0, last |-> now, lockUntil |-> now + Lockout]
    BY <1>2 DEF Failed
  <2>2. now + Lockout \in 0 .. MaxTime + Lockout /\ 0 \in 0 .. Max - 1
    BY <1>0, ThrottleAssumption, BoundsAssumption DEF Times
  <2>3. [fails |-> 0, last |-> now, lockUntil |-> now + Lockout] \in Entry
    BY <2>2 DEF Entry
  <2> QED
    BY <1>0, <1>1, <1>2, <2>1, <2>3
<1>3. CASE Count(e, now) < Max
  <2> DEFINE c == Count(e, now)
             g == [e EXCEPT !.fails = c, !.last = now]
  <2>1. Failed(e, now) = g
    BY <1>0, <1>1, <1>3 DEF Failed
  <2>2. c \in 0 .. Max - 1
    BY <1>0, <1>1, <1>3
  <2> HIDE DEF c
  <2>3. g \in Entry /\ g.last = now /\ g.fails = c /\ g.lockUntil = e.lockUntil
    BY <2>2 DEF Entry
  <2> QED
    BY <1>0, <1>1, <1>3, <2>1, <2>3 DEF c
<1> QED
  BY <1>0, <1>1, <1>2, <1>3

LEMMA FailureAppended ==
  ASSUME TypeOK, NEW a \in Addrs, failures' = [failures EXCEPT ![a] = Append(@, clock)]
  PROVE  /\ failures' \in [Addrs -> Seq(Times)] /\ Len(failures'[a]) = Len(failures[a]) + 1
         /\ failures'[a][Len(failures[a]) + 1] = clock
         /\ \A j \in 1 .. Len(failures[a]) : failures'[a][j] = failures[a][j]
         /\ \A b \in Addrs : b # a => failures'[b] = failures[b]
<1>1. failures[a] \in Seq(Times) /\ clock \in Times
  BY DEF TypeOK
<1>2. Append(failures[a], clock) \in Seq(Times)
      /\ Len(Append(failures[a], clock)) = Len(failures[a]) + 1
      /\ Append(failures[a], clock)[Len(failures[a]) + 1] = clock
      /\ \A j \in 1 .. Len(failures[a]) : Append(failures[a], clock)[j] = failures[a][j]
  BY <1>1
<1> QED
  BY <1>2 DEF TypeOK

(* A counted failure, for the one that failed and for the others.          *)
LEMMA FailKeeps == ASSUME Inv, NEW r \in Reqs, Fail(r) PROVE Inv'
<1>0. PICK a \in Addrs : a = req[r].addr
  BY AttemptFields DEF Fail, Inv, TypeOK
<1>now. PICK now \in Times : now = req[r].now
  BY AttemptFields DEF Inv, TypeOK
<1>1. /\ req[r].pc = "fail" /\ up /\ now \in Times /\ now <= clock /\ clock <= now + Lag
  BY <1>now, AttemptFields DEF Fail, Inv, TypeOK, AttemptsHonest
<1>tab. PICK table : table = Pruned(now)
  OBVIOUS
<1>pr. /\ table \in [Addrs -> Entry \cup {None}]
       /\ \A b \in Addrs : \/ table[b] = entry[b]
                           \/ table[b] = None /\ entry[b] # None /\ Stale(entry[b], now)
  BY <1>tab, PrunedTyped DEF Inv
<1>2. PICK e \in Entry : e = IF table[a] = None THEN [fails |-> 0, last |-> Never, lockUntil |-> Never]
                             ELSE table[a]
  <2>1. table[a] \in Entry \cup {None}
    BY <1>pr
  <2>2. [fails |-> 0, last |-> Never, lockUntil |-> Never] \in Entry
    <3>1. 0 \in 0 .. Max - 1
      BY ThrottleAssumption
    <3> QED
      BY <3>1 DEF Entry
  <2> QED
    BY <2>1, <2>2
<1>3. PICK g \in Entry : g = Failed(e, now)
  BY <1>1, FailedTyped
<1>4. /\ entry' = [table EXCEPT ![a] = g] /\ failures' = [failures EXCEPT ![a] = Append(@, clock)]
      /\ Exit(r) /\ UNCHANGED <<clock, tokens, keyVars>>
  BY <1>0, <1>now, <1>tab, <1>2, <1>3 DEF Fail
<1>5. /\ entry' \in [Addrs -> Entry \cup {None}] /\ entry'[a] = g
      /\ \A b \in Addrs : b # a => entry'[b] = table[b]
  BY <1>4, <1>pr
<1>n. PICK n \in Nat : n = Len(failures[a])
  BY Numbers DEF Inv
<1>6. /\ failures' \in [Addrs -> Seq(Times)] /\ Len(failures'[a]) = n + 1
      /\ failures'[a][n + 1] = clock
      /\ \A j \in 1 .. n : failures'[a][j] = failures[a][j]
      /\ \A b \in Addrs : b # a => failures'[b] = failures[b]
  BY <1>4, <1>n, FailureAppended DEF Inv
<1>7. Others(r) /\ req'[r].pc = "idle"
  BY <1>4, ExitIdles DEF Inv, TypeOK
<1>8. /\ InFlight(a)' = InFlight(a) \ {r} /\ r \in InFlight(a)
      /\ \A b \in Addrs : b # a => InFlight(b)' = InFlight(b)
  BY <1>0, <1>1, <1>7 DEF Others, InFlight
<1>9. /\ Cardinality(InFlight(a)') = Cardinality(InFlight(a)) - 1
      /\ Cardinality(InFlight(a)') \in Nat
      /\ Cardinality(InFlight(a)') + 1 <= Cardinality(Reqs) /\ Cardinality(Reqs) \in Nat
  <2>1. Cardinality(InFlight(a)') = Cardinality(InFlight(a)) - 1 /\ IsFiniteSet(InFlight(a)')
    BY <1>8, InFlightFinite, FS_RemoveElement
  <2>2. Cardinality(InFlight(a)') \in Nat
    BY <2>1, FS_CardinalityType
  <2> QED
    BY <2>1, <2>2, InFlightFinite
<1>10. /\ n \in Nat /\ clock \in Nat /\ now \in Nat
       /\ \A b \in Addrs : \A j \in 1 .. Len(failures[b]) :
            failures[b][j] \in Nat /\ failures[b][j] <= clock /\ Bound(b, j) \in Int
  BY <1>1, Numbers, BoundsAssumption DEF Inv, FailuresPast, Times
<1>11. /\ g.fails \in Int /\ g.lockUntil \in Int /\ g.last = now
       /\ e.fails \in 0 .. Max - 1 /\ e.last \in Int /\ e.lockUntil \in Int
       /\ Max \in Nat /\ Max > 0 /\ Lockout \in Nat /\ Lag \in Nat /\ Window \in Nat
       /\ Lag <= Lockout /\ Lockout <= Window
  BY <1>1, <1>3, EntryFields, FailedTyped, ThrottleAssumption
<1>int. clock \in Int /\ now \in Int /\ n \in Int /\ Max \in Int /\ Lockout \in Int
        /\ Window \in Int /\ Lag \in Int /\ Lag <= Lockout /\ Lockout <= Window
  BY <1>10, <1>11
<1>c. PICK c : c = Count(e, now)
  OBVIOUS
<1>12. /\ c \in 1 .. Max /\ c <= e.fails + 1
       /\ now - e.last <= Window => c = e.fails + 1
       /\ \/ c = Max /\ g.fails = 0 /\ g.lockUntil = now + Lockout
          \/ c < Max /\ g.fails = c /\ g.lockUntil = e.lockUntil
  BY <1>1, <1>3, <1>11, <1>c, FailedTyped
<1>13. FailuresPast'
  BY <1>4, <1>6, <1>10, <1>n DEF FailuresPast
<1>14. CountsEarned'
  <2> SUFFICES ASSUME NEW b \in Addrs, entry'[b] # None
               PROVE  /\ entry'[b].fails <= Len(failures'[b])
                      /\ entry'[b].lockUntil # Never =>
                           /\ Len(failures'[b]) >= Max
                           /\ entry'[b].lockUntil <= failures'[b][Len(failures'[b])] + Lockout
    BY DEF CountsEarned
  <2>1. CASE b # a
    <3>1. entry'[b] = entry[b] /\ failures'[b] = failures[b]
      BY <1>1, <1>5, <1>6, <2>1, <1>pr
    <3> QED
      BY <3>1 DEF Inv, CountsEarned
  <2>2. CASE b = a
    <3>1. e.fails <= n /\ (e.lockUntil # Never => n >= Max /\ e.lockUntil <= failures[a][n] + Lockout)
      <4>1. CASE table[a] = None
        BY <1>2, <1>10, <4>1
      <4>2. CASE table[a] # None
        <5>1. e = entry[a] /\ entry[a] # None
          BY <1>1, <1>2, <4>2, <1>pr
        <5> QED
          BY <1>n, <5>1 DEF Inv, CountsEarned
      <4> QED
        BY <4>1, <4>2
    <3>2. n >= Max => failures[a][n] <= clock /\ failures[a][n] \in Nat
      BY <1>10, <1>11, <1>n
    <3>3. g.fails <= n + 1
      BY <1>10, <1>11, <1>12, <3>1
    <3>4. g.lockUntil # Never => n + 1 >= Max /\ g.lockUntil <= clock + Lockout
      <4>1. CASE c = Max /\ g.lockUntil = now + Lockout
        BY <1>1, <1>10, <1>11, <1>12, <3>1, <4>1
      <4>2. CASE g.lockUntil = e.lockUntil
        <5> SUFFICES ASSUME g.lockUntil # Never PROVE n + 1 >= Max /\ g.lockUntil <= clock + Lockout
          OBVIOUS
        <5>1. n >= Max /\ g.lockUntil <= failures[a][n] + Lockout
          BY <3>1, <4>2
        <5>2. failures[a][n] <= clock /\ failures[a][n] \in Int
          BY <3>2, <5>1
        <5>3. g.lockUntil \in Int
          BY <1>11
        <5> QED
          BY <1>int, <5>1, <5>2, <5>3
      <4> QED
        BY <1>12, <4>1, <4>2
    <3> QED
      BY <1>5, <1>6, <2>2, <3>3, <3>4
  <2> QED
    BY <2>1, <2>2
<1>15. \A i \in 1 .. n : Bound(a, i)' = Bound(a, i) /\ Bound(a, i) = failures[a][i] + Lockout - Lag
  BY <1>6, <1>n, <1>10 DEF Bound
<1>16. ASSUME NEW i \in 1 .. n, clock <= Bound(a, i)
       PROVE  Counting(a, i)' \/ Locked(a, i)'
  <2>0. i \in Nat /\ i <= n /\ failures[a][i] \in Nat /\ Bound(a, i) \in Int /\ failures[a][i] <= clock
    BY <1>10, <1>n
  <2>1. entry[a] # None /\ (Counting(a, i) \/ Locked(a, i)) /\ entry[a] \in Entry
    BY <1>16, <1>n DEF Inv, GuessInv, TypeOK
  <2>2. e = entry[a] /\ (Counting(a, i) => now - e.last <= Window)
    <3>1. entry[a].last \in Int /\ entry[a].lockUntil \in Int
      BY <2>1, EntryFields
    <3>2. Counting(a, i) => now - entry[a].last <= Window
      <4>1. Bound(a, i) = failures[a][i] + Lockout - Lag
        BY DEF Bound
      <4> SUFFICES ASSUME Counting(a, i) PROVE now - entry[a].last <= Window
        OBVIOUS
      <4>2. entry[a].last >= failures[a][i] - Lag
        BY DEF Counting
      <4> QED
        BY <1>1, <1>int, <1>16, <2>0, <3>1, <4>1, <4>2
    <3>3. ~Stale(entry[a], now)
      BY <1>1, <1>int, <1>16, <2>0, <2>1, <3>1, <3>2 DEF Stale, Locked
    <3>4. table[a] = entry[a]
      BY <1>1, <3>3, <1>pr
    <3> QED
      BY <1>2, <2>1, <3>2, <3>4
  <2>3. now + Lockout >= Bound(a, i) /\ now >= failures[a][i] - Lag
    BY <1>1, <1>10, <1>11, <1>15, <2>0
  <2>4. CASE Locked(a, i)
    <3>1. e.lockUntil >= Bound(a, i)
          /\ n - i + 1 + Cardinality(InFlight(a)) <= Max + Cardinality(Reqs) - 1
      BY <1>n, <2>2, <2>4 DEF Locked
    <3>2. g.lockUntil >= Bound(a, i)
      BY <1>12, <2>3, <3>1
    <3>3. n + 1 - i + 1 + Cardinality(InFlight(a)') <= Max + Cardinality(Reqs) - 1
      BY <1>9, <1>10, <1>11, <2>0, <3>1, InFlightFinite
    <3> QED
      BY <1>5, <1>6, <1>15, <3>2, <3>3 DEF Locked
  <2>5. CASE Counting(a, i)
    <3>1. n - i + 1 <= e.fails /\ c = e.fails + 1
      BY <1>n, <1>12, <2>2, <2>5 DEF Counting
    <3>2. CASE c = Max /\ g.lockUntil = now + Lockout
      <4>1. n + 1 - i + 1 + Cardinality(InFlight(a)') <= Max + Cardinality(Reqs) - 1
        <5>1. n - i + 1 <= Max - 1
          BY <1>int, <2>0, <3>1, <3>2, <1>11
        <5>2. i \in Int
          BY <2>0
        <5> QED
          BY <1>9, <1>int, <5>1, <5>2
      <4> QED
        BY <1>5, <1>6, <1>15, <2>3, <3>2, <4>1 DEF Locked
    <3>3. CASE g.fails = c
      <4>1. n + 1 - i + 1 <= g.fails
        BY <1>10, <1>11, <2>0, <3>1, <3>3
      <4> QED
        BY <1>5, <1>6, <1>11, <2>3, <4>1 DEF Counting
    <3> QED
      BY <1>12, <3>2, <3>3
  <2> QED
    BY <2>1, <2>4, <2>5
<1>17. Counting(a, n + 1)' \/ Locked(a, n + 1)'
  <2>1. Bound(a, n + 1)' = clock + Lockout - Lag
    BY <1>6, <1>n, <1>10 DEF Bound
  <2>2. CASE c = Max /\ g.lockUntil = now + Lockout
    BY <1>1, <1>5, <1>6, <1>9, <1>10, <1>11, <2>1, <2>2 DEF Locked
  <2>3. CASE g.fails = c
    BY <1>1, <1>5, <1>6, <1>10, <1>11, <1>12, <2>3 DEF Counting
  <2> QED
    BY <1>12, <2>2, <2>3
<1>18. \A i \in 1 .. n : clock > Bound(a, i) => Near(a, i)' = Near(a, i)
  <2> SUFFICES ASSUME NEW i \in 1 .. n, clock > Bound(a, i)
               PROVE  Near(a, i)' = Near(a, i)
    OBVIOUS
  <2>1. Near(a, i)' = {j \in i .. n + 1 : failures'[a][j] <= Bound(a, i)}
    BY <1>6, <1>15 DEF Near
  <2>2. ~(failures'[a][n + 1] <= Bound(a, i))
    <3>1. Bound(a, i) \in Int
      BY <1>n, <1>10
    <3> QED
      BY <1>6, <1>int, <3>1
  <2>3. i .. n + 1 = (i .. n) \cup {n + 1}
    BY <1>10
  <2>4. \A j \in i .. n : failures'[a][j] = failures[a][j]
    <3>1. i \in Nat /\ i >= 1
      OBVIOUS
    <3>2. \A j \in i .. n : j \in 1 .. n
      BY <1>int, <3>1
    <3> QED
      BY <1>6, <3>2
  <2> QED
    BY <1>n, <2>1, <2>2, <2>3, <2>4 DEF Near
<1>19. GuessInv'
  <2> SUFFICES ASSUME NEW b \in Addrs, NEW i \in 1 .. Len(failures'[b])
               PROVE  /\ clock > Bound(b, i)' => Cardinality(Near(b, i)') <= Max + Cardinality(Reqs) - 1
                      /\ clock <= Bound(b, i)' => entry'[b] # None /\ (Counting(b, i)' \/ Locked(b, i)')
    BY <1>4 DEF GuessInv
  <2>1. CASE b = a
    <3>1. entry'[a] # None
      BY <1>5, EntriesAssumption
    <3>2. i \in 1 .. n \/ i = n + 1
      BY <1>6, <1>10, <2>1
    <3>3. CASE i \in 1 .. n
      BY <1>15, <1>16, <1>18, <2>1, <3>1, <3>3, <1>n DEF Inv, GuessInv
    <3>4. CASE i = n + 1
      <4>1. Bound(a, n + 1)' = clock + Lockout - Lag
        BY <1>6, <1>n, <1>10 DEF Bound
      <4>2. ~(clock > clock + Lockout - Lag)
        BY <1>10, <1>11
      <4>3. Bound(b, i)' = clock + Lockout - Lag
        BY <4>1, <2>1, <3>4 DEF Bound
      <4>4. Counting(b, i)' \/ Locked(b, i)'
        BY <1>17, <2>1, <3>4 DEF Counting, Locked, Bound
      <4> QED
        BY <2>1, <3>1, <4>2, <4>3, <4>4
    <3> QED
      BY <3>2, <3>3, <3>4
  <2>2. CASE b # a
    <3>1. failures'[b] = failures[b] /\ InFlight(b)' = InFlight(b)
      BY <1>6, <1>8, <2>2
    <3>2. Bound(b, i)' = Bound(b, i) /\ Near(b, i)' = Near(b, i) /\ i \in 1 .. Len(failures[b])
      BY <3>1 DEF Bound, Near
    <3>3. ASSUME clock <= Bound(b, i) PROVE entry'[b] = entry[b]
      <4>1. entry[b] # None /\ (Counting(b, i) \/ Locked(b, i)) /\ entry[b] \in Entry
        BY <3>2, <3>3 DEF Inv, GuessInv, TypeOK
      <4>2. entry[b].last \in Int /\ entry[b].lockUntil \in Int
        BY <4>1, EntryFields
      <4>3. failures[b][i] \in Nat /\ Bound(b, i) \in Int /\ Bound(b, i) = failures[b][i] + Lockout - Lag
        BY <1>10, <3>2 DEF Bound
      <4>4. ~Stale(entry[b], now)
        <5>1. CASE Counting(b, i)
          <6>1. entry[b].last >= failures[b][i] - Lag
            BY <5>1 DEF Counting
          <6>2. now - entry[b].last <= Window
            <7>1. clock <= failures[b][i] + Lockout - Lag /\ failures[b][i] \in Int
              BY <3>3, <4>3
            <7> HIDE DEF Bound
            <7>2. now <= clock
              BY <1>1
            <7>3. entry[b].last \in Int
              BY <4>2
            <7> QED
              BY <1>int, <6>1, <7>1, <7>2, <7>3
          <6> QED
            BY <1>int, <4>2, <6>2 DEF Stale
        <5>2. CASE Locked(b, i)
          <6>1. entry[b].lockUntil >= Bound(b, i)
            BY <5>2 DEF Locked
          <6> QED
            BY <1>1, <1>int, <3>3, <4>2, <4>3, <6>1 DEF Stale
        <5> QED
          BY <4>1, <5>1, <5>2
      <4>5. table[b] = entry[b]
        BY <1>1, <4>4, <1>pr
      <4> QED
        BY <1>5, <2>2, <4>5
    <3>4. clock <= Bound(b, i) => (Counting(b, i) => Counting(b, i)') /\ (Locked(b, i) => Locked(b, i)')
      BY <3>1, <3>2, <3>3 DEF Counting, Locked
    <3> QED
      BY <3>2, <3>3, <3>4 DEF Inv, GuessInv
  <2> QED
    BY <2>1, <2>2
<1>20. SessionEarned' /\ pending \subseteq pending' /\ pending' \subseteq Pending
       /\ sessions' \subseteq Session /\ \A s \in sessions' : s \in sessions
  BY <1>4 DEF tokens, Inv, SessionEarned, TypeOK
<1> QED
  BY <1>1, <1>4, <1>5, <1>6, <1>7, <1>13, <1>14, <1>19, <1>20, AttemptKeeps

-----------------------------------------------------------------------------
LEMMA NearWhole ==
  ASSUME Inv, NEW a \in Addrs, NEW i \in 1 .. Len(failures[a]), clock <= Bound(a, i)
  PROVE  Cardinality(Near(a, i)) = Len(failures[a]) - i + 1
<1>1. Len(failures[a]) \in Nat /\ \A j \in 1 .. Len(failures[a]) : failures[a][j] <= Bound(a, i)
  BY Numbers DEF Inv, FailuresPast
<1>2. Near(a, i) = i .. Len(failures[a])
  BY <1>1 DEF Near
<1>3. i \in Int /\ i <= Len(failures[a])
  BY <1>1
<1> QED
  BY <1>1, <1>2, <1>3, FS_Interval

LEMMA GuessesBounded == Inv => GuessBound
<1> SUFFICES ASSUME Inv, NEW a \in Addrs, NEW i \in 1 .. Len(failures[a])
             PROVE  Cardinality(Near(a, i)) <= Max + Cardinality(Reqs) - 1
  BY DEF GuessBound, Near, Bound
<1>0. clock \in Int /\ Bound(a, i) \in Int /\ Len(failures[a]) \in Nat /\ i \in Int
  BY Numbers DEF Inv
<1>1. CASE clock > Bound(a, i)
  BY <1>1 DEF Inv, GuessInv
<1>2. CASE clock <= Bound(a, i)
  <2>1. entry[a] \in Entry /\ (Counting(a, i) \/ Locked(a, i))
    BY <1>2 DEF Inv, GuessInv, TypeOK
  <2>2. entry[a].fails \in 0 .. Max - 1
    BY <2>1, EntryFields
  <2> QED
    <3>1. Cardinality(Near(a, i)) = Len(failures[a]) - i + 1
      BY <1>2, NearWhole
    <3>2. Cardinality(InFlight(a)) \in Nat /\ Cardinality(Reqs) \in Nat
          /\ Cardinality(InFlight(a)) <= Cardinality(Reqs)
      BY InFlightFinite
    <3>3. Max \in Int /\ Cardinality(Reqs) >= 0
      BY <3>2, ThrottleAssumption
    <3>4. CASE Counting(a, i)
      <4>1. Len(failures[a]) - i + 1 <= entry[a].fails
        BY <3>4 DEF Counting
      <4> QED
        BY <1>0, <2>2, <3>1, <3>2, <3>3, <4>1
    <3>5. CASE Locked(a, i)
      <4>1. Len(failures[a]) - i + 1 + Cardinality(InFlight(a)) <= Max + Cardinality(Reqs) - 1
        BY <3>5 DEF Locked
      <4> QED
        BY <1>0, <3>1, <3>2, <3>3, <4>1
    <3> QED
      BY <2>1, <3>4, <3>5
<1> QED
  BY <1>0, <1>1, <1>2

LEMMA TickKeeps == ASSUME Inv, Tick PROVE Inv'
<1> USE DEF Tick, tokens, keyVars
<1>0. clock \in Int /\ clock' = clock + 1 /\ clock' \in Times
  BY BoundsAssumption DEF Inv, TypeOK, Times
<1>1. TypeOK'
  BY <1>0 DEF Inv, TypeOK, up
<1>2. AttemptsHonest'
  <2>1. \A r \in Reqs : req[r].now \in Int
    BY AttemptFields, BoundsAssumption DEF Inv, TypeOK, Times
  <2> QED
    BY <1>0, <2>1, ThrottleAssumption DEF Inv, AttemptsHonest
<1>3. KeysInv' /\ SessionEarned' /\ CountsEarned'
  BY DEF Inv, KeysInv, StageKeys, SignedByFile, FirstInFile, up, SessionEarned, CountsEarned
<1>4. FailuresPast'
  BY <1>0, Numbers DEF Inv, FailuresPast
<1>5. GuessInv'
  <2> SUFFICES ASSUME NEW a \in Addrs, NEW i \in 1 .. Len(failures[a])
               PROVE  /\ Cardinality(Near(a, i)) <= Max + Cardinality(Reqs) - 1
                      /\ clock' <= Bound(a, i) => entry[a] # None /\ (Counting(a, i) \/ Locked(a, i))
    BY DEF GuessInv, Bound, Near, Counting, Locked, InFlight
  <2>1. Cardinality(Near(a, i)) <= Max + Cardinality(Reqs) - 1
    BY GuessesBounded DEF GuessBound, Near, Bound
  <2>2. clock' <= Bound(a, i) => clock <= Bound(a, i)
    BY <1>0, Numbers DEF Inv
  <2> QED
    BY <2>1, <2>2 DEF Inv, GuessInv
<1> QED
  BY <1>1, <1>2, <1>3, <1>4, <1>5 DEF Inv

LEMMA InvNext == ASSUME Inv, Next PROVE Inv'
<1>1. ASSUME NEW f \in Files, LoadKey(f) \/ MakeKey(f) \/ CutKey(f)
      PROVE  Inv'
  BY <1>1, LoadKeeps, MakeKeeps, CutKeeps
<1>2. CASE TakeShort \/ Fatal \/ Crash
  BY <1>2, TakeKeeps, FatalKeeps, CrashKeeps
<1>3. CASE \E r \in Reqs, a \in Addrs, u \in Users, right \in BOOLEAN : PostPassword(r, a, u, right)
  BY <1>3, PostPasswordKeeps
<1>4. CASE \E r \in Reqs, a \in Addrs, p \in pending, c \in {None, clock \div Period} :
             PostCode(r, a, p, c)
  BY <1>4, PostCodeKeeps
<1>5. ASSUME NEW r \in Reqs, CheckPassword(r) \/ CheckCode(r) \/ Fail(r)
      PROVE  Inv'
  BY <1>5, CheckPasswordKeeps, CheckCodeKeeps, FailKeeps
<1> QED
  BY <1>1, <1>2, <1>3, <1>4, <1>5, TickKeeps DEF Next

LEMMA InvStutters == ASSUME Inv, UNCHANGED vars PROVE Inv'
<1> USE DEF vars, tokens, keyVars
<1>1. TypeOK'
  BY DEF Inv, TypeOK, up
<1>2. AttemptsHonest' /\ KeysInv' /\ SessionEarned' /\ FailuresPast' /\ CountsEarned'
  BY DEF Inv, AttemptsHonest, KeysInv, StageKeys, SignedByFile, FirstInFile, up, SessionEarned,
         FailuresPast, CountsEarned
<1>3. GuessInv'
  BY DEF Inv, GuessInv, Bound, Near, Counting, Locked, InFlight
<1> QED
  BY <1>1, <1>2, <1>3 DEF Inv

LEMMA InvAlways == Spec => []Inv
<1>1. Inv /\ [Next]_vars => Inv'
  BY InvNext, InvStutters
<1> QED
  BY <1>1, InvInit, PTL DEF Spec

(* Entries, attempts, tokens, cookies and keys keep their types, and a     *)
(* server that serves holds keys it can use.                               *)
THEOREM TypeCorrect == Spec => []TypeOK
<1>1. Inv => TypeOK
  BY DEF Inv
<1> QED
  BY <1>1, InvAlways, PTL

(* However many attempts overlap and however the table is pruned, the      *)
(* guesses an address makes within a lockout are at most Max and those     *)
(* that were already past Blocked (Fail).                                  *)
THEOREM GuessesAreBounded == Spec => []GuessBound
BY GuessesBounded, InvAlways, PTL

(* No address is locked out for failures it did not make, nor for longer   *)
(* than Lockout after the last one (Fail, Reset).                          *)
THEOREM LockoutsAreEarned == Spec => []LockEarned
<1>1. Inv => LockEarned
  <2> SUFFICES ASSUME Inv, NEW a \in Addrs, Blocked(a)
               PROVE  /\ Len(failures[a]) >= Max
                      /\ clock <= failures[a][Len(failures[a])] + Lockout
    BY DEF LockEarned
  <2>1. entry[a] \in Entry /\ entry[a] # None /\ clock <= entry[a].lockUntil
    BY DEF Blocked, Inv, TypeOK
  <2>2. entry[a].lockUntil \in Int /\ clock \in Nat
    BY <2>1, EntryFields, Numbers DEF Inv
  <2>3. entry[a].lockUntil # Never
    BY <2>1, <2>2, ThrottleAssumption DEF Never
  <2>4. /\ Len(failures[a]) >= Max
        /\ entry[a].lockUntil <= failures[a][Len(failures[a])] + Lockout
    BY <2>1, <2>3 DEF Inv, CountsEarned
  <2>5. failures[a][Len(failures[a])] \in Nat
    <3>1. Len(failures[a]) \in 1 .. Len(failures[a])
      BY <2>4, Numbers, ThrottleAssumption DEF Inv
    <3> QED
      BY <3>1, Numbers DEF Inv
  <2> QED
    BY <2>1, <2>2, <2>4, <2>5, ThrottleAssumption
<1> QED
  BY <1>1, InvAlways, PTL

(* Nobody with a second factor is signed in without the right password of  *)
(* that very user, given less than PendingAge before to a server with the  *)
(* same key (VerifyPending).                                               *)
THEOREM SessionsAreEarned == Spec => []SessionEarned
<1>1. Inv => SessionEarned
  BY DEF Inv
<1> QED
  BY <1>1, InvAlways, PTL

(* Through any number of restarts, also ones that die while they write a   *)
(* key, cookies stay valid, sealed tokens open, and the agent is sent the  *)
(* key it knows or none it would take (resolveSecret, ensureAgentKey,      *)
(* loadOrCreateKey).                                                       *)
THEOREM KeysSurviveRestarts == Spec => []KeysSurvive
<1>1. Inv => KeysSurvive
  <2> SUFFICES ASSUME Inv, up PROVE KeysSurvive
    BY DEF KeysSurvive
  <2>1. stage = "up"
    BY DEF up
  <2>2. \A s \in sessions : s.key = secret
    BY <2>1 DEF Inv, KeysInv, StageKeys, SignedByFile, secret
  <2>3. held["box"] = first["box"]
    BY <2>1 DEF Inv, KeysInv, StageKeys, FirstInFile, up
  <2>4. held["agent"] \in {first["agent"], Short}
    BY <2>1 DEF Inv, KeysInv, StageKeys, FirstInFile, TypeOK, Files
  <2> QED
    BY <2>2, <2>3, <2>4 DEF KeysSurvive, Authenticated
<1> QED
  BY <1>1, InvAlways, PTL
=============================================================================
