------------------------------- MODULE Login -------------------------------
(***************************************************************************)
(* Signing in to the dashboard: handleLogin with the throttle of failed    *)
(* attempts, the password step, the pending second factor, the session     *)
(* cookie; and how a start comes by its keys: the one that signs cookies,  *)
(* the one the agent knows it by and the one that seals Git tokens.        *)
(* (internal/auth, handleLogin of internal/ui/ui.go, cmdServe and          *)
(* ensureAgentKey of cmd/orxies/main.go, internal/secretbox.)              *)
(*                                                                         *)
(* Attempts overlap: Blocked, the check of the password (which takes its   *)
(* time) and Fail or Reset are separate critical sections.  Time passes in *)
(* ticks; Fail reads the clock before it takes the lock.                   *)
(*                                                                         *)
(* A password is right or wrong, a code wrong or of some period; a token   *)
(* is its content and the key that signed it, as nobody can sign without   *)
(* the key.                                                                *)
(***************************************************************************)
EXTENDS Integers, FiniteSets, Sequences

CONSTANTS
  Addrs,        \* addresses that sign in (clientPeerIP)
  Reqs,         \* attempts that may be under way together
  Users,        \* admins of the configuration
  TwoFactor,    \* those with a TOTP secret
  None,         \* no entry, no file
  Short,        \* a key file that was cut off
  Max,          \* failures before a lockout
  Lockout,      \* its length
  Window,       \* quiet time after which failures are forgotten
  MaxKeys,      \* entries from which the table is pruned
  PendingAge,   \* life of a pending token
  SessionAge,   \* life of a session
  Period,       \* life of a TOTP code
  Lag,          \* longest wait for the throttle's lock
  MaxTime,      \* bound: the clock
  MaxTokens,    \* bound: right answers that lead to a token or a session
  MaxTries,     \* bound: failures in the history
  MaxKeyFiles,  \* bound: keys generated for a file
  MaxCrashes    \* bound: restarts of the process

ASSUME ThrottleAssumption ==
  /\ Max \in Nat \ {0} /\ MaxKeys \in Nat /\ Lag \in Nat
  /\ Window \in Nat /\ Lockout \in Nat /\ Lag <= Lockout /\ Lockout <= Window
ASSUME AgesAssumption == PendingAge \in Nat /\ SessionAge \in Nat /\ Period \in Nat \ {0}
ASSUME BoundsAssumption == MaxTime \in Nat /\ MaxTokens \in Nat /\ MaxTries \in Nat /\ MaxKeyFiles \in Nat /\ MaxCrashes \in Nat
ASSUME ValuesAssumption ==
  /\ IsFiniteSet(Reqs) /\ TwoFactor \subseteq Users
  /\ {None, Short} \cap Int = {} /\ None # Short /\ None \notin Addrs

VARIABLES
  clock,
  entry,      \* Throttle.m
  req,        \* the attempts under way
  pending,    \* pending tokens handed out
  sessions,   \* session cookies handed out
  keyFile,    \* secret.key, agent.key and secretbox.key
  held,       \* the keys cmdServe has in memory
  stage,      \* the file it comes to next, or "up"
  keys,       \* keys generated so far, per file
  first,      \* history: the first whole key there was in a file
  crashes,
  failures    \* history: times of the failures of an address since it was last cleared

vars == <<clock, entry, req, pending, sessions, keyFile, held, stage, keys, first, crashes,
          failures>>
tokens == <<pending, sessions>>
keyVars == <<keyFile, held, stage, keys, first, crashes>>

Times   == 0 .. MaxTime
Never   == 0 - Lockout - Window - 1      \* the zero time.Time
Whole   == 1 .. MaxKeyFiles              \* keys that are long enough
Files   == {"secret", "agent", "box"}
Entry   == [fails : 0 .. Max - 1, last : Times \cup {Never},
            lockUntil : 0 .. MaxTime + Lockout \cup {Never}]
Pending == [user : Users, exp : 0 .. MaxTime + PendingAge, key : Whole]
Session == [user : Users, at : Times, key : Whole]

ASSUME EntriesAssumption == None \notin Entry

Attempt == [pc : {"idle", "password", "code", "fail"},
            addr : Addrs \cup {None},
            user : Users \cup {None},
            right : BOOLEAN,           \* the password
            token : Pending \cup {None},
            code : Times \cup {None},   \* the step of the period it belongs to
            now : Times]               \* the time Fail has read
Idle == [pc |-> "idle", addr |-> None, user |-> None, right |-> FALSE, token |-> None,
         code |-> None, now |-> 0]

up == stage = "up"
secret == held["secret"]

TypeOK ==
  /\ clock \in Times
  /\ entry \in [Addrs -> Entry \cup {None}]
  /\ req \in [Reqs -> Attempt]
  /\ pending \subseteq Pending /\ sessions \subseteq Session
  /\ keyFile \in [Files -> Whole \cup {None, Short}] /\ keys \in [Files -> 0 .. MaxKeyFiles]
  /\ held \in [Files -> Whole \cup {None, Short}] /\ first \in [Files -> Whole \cup {None}]
  /\ stage \in Files \cup {"up"} /\ crashes \in 0 .. MaxCrashes
  /\ up => held["secret"] \in Whole /\ held["agent"] # None /\ held["box"] \in Whole
  /\ failures \in [Addrs -> Seq(Times)]
  /\ \A r \in Reqs : req[r].pc # "idle" => up /\ req[r].addr # None

Init ==
  /\ clock = 0 /\ entry = [a \in Addrs |-> None] /\ req = [r \in Reqs |-> Idle]
  /\ pending = {} /\ sessions = {}
  /\ keyFile = [f \in Files |-> None] /\ held = keyFile /\ first = keyFile
  /\ stage = "secret" /\ keys = [f \in Files |-> 0] /\ crashes = 0
  /\ failures = [a \in Addrs |-> <<>>]

----------------------------------------------------------------------------
(* A start comes by its keys one after the other, and then serves.         *)
After == [secret |-> "agent", agent |-> "box", box |-> "up"]
Holds(f, k) == held' = [held EXCEPT ![f] = k] /\ stage' = After[f]
Down == held' = [f \in Files |-> None] /\ stage' = "secret"

(* The file is used when it is long enough.                                *)
LoadKey(f) ==
  /\ stage = f /\ keyFile[f] \in Whole
  /\ Holds(f, keyFile[f])
  /\ UNCHANGED <<clock, entry, req, tokens, keyFile, keys, first, crashes, failures>>

(* Otherwise a key is made and written before the start goes on: over what *)
(* there is of the signing key, but the other two only to a new file.      *)
MayMake(f) == IF f = "secret" THEN keyFile[f] \notin Whole ELSE keyFile[f] = None

(* Changed form: the new key is kept in memory only.                       *)
PersistedNot(f, k) == keyFile

Persisted(f, k) == [keyFile EXCEPT ![f] = k]

(* waitForKey: the agent takes the first key that is long enough.          *)
Waited(f, k) == IF first[f] = None /\ k \in Whole THEN [first EXCEPT ![f] = k] ELSE first

MakeKey(f) ==
  /\ stage = f /\ MayMake(f) /\ keys[f] < MaxKeyFiles
  /\ keys' = [keys EXCEPT ![f] = @ + 1]
  /\ keyFile' = Persisted(f, keys'[f])
  /\ first' = Waited(f, keyFile'[f])
  /\ Holds(f, keys'[f])
  /\ UNCHANGED <<clock, entry, req, tokens, crashes, failures>>

(* It dies, or finds the disk full, while it writes a new key.             *)
CutKey(f) ==
  /\ stage = f /\ MayMake(f) /\ crashes < MaxCrashes
  /\ crashes' = crashes + 1 /\ keyFile' = [keyFile EXCEPT ![f] = Short]
  /\ Down
  /\ UNCHANGED <<clock, entry, req, tokens, keys, first, failures>>

(* What is there of the agent's key is taken as it is; the agent itself    *)
(* waits for one that is long enough.                                      *)
TakeShort ==
  /\ stage = "agent" /\ keyFile["agent"] = Short
  /\ Holds("agent", Short)
  /\ UNCHANGED <<clock, entry, req, tokens, keyFile, keys, first, crashes, failures>>

(* Without the secret box there is no start.                               *)
Fatal ==
  /\ stage = "box" /\ keyFile["box"] = Short
  /\ Down
  /\ UNCHANGED <<clock, entry, req, tokens, keyFile, keys, first, crashes, failures>>

(* The process dies: what it remembers of failures goes with it.           *)
Crash ==
  /\ up /\ crashes < MaxCrashes /\ crashes' = crashes + 1
  /\ Down
  /\ entry' = [a \in Addrs |-> None] /\ req' = [r \in Reqs |-> Idle]
  /\ failures' = [a \in Addrs |-> <<>>]
  /\ UNCHANGED <<clock, tokens, keyFile, keys, first>>

----------------------------------------------------------------------------
(* Blocked: nobody is before the first failure.                            *)
Blocked(a) == entry[a] # None /\ clock <= entry[a].lockUntil

MayBeRight ==
  Cardinality(pending) + Cardinality(sessions)
    + Cardinality({r \in Reqs : req[r].right \/ req[r].code # None}) < MaxTokens

(* The form is posted: blocked, or on to its check.  Whose password is     *)
(* wrong makes no difference.                                              *)
PostPassword(r, a, u, right) ==
  /\ up /\ req[r].pc = "idle" /\ ~Blocked(a)
  /\ right => MayBeRight
  /\ req' = [req EXCEPT ![r] = [Idle EXCEPT !.pc = "password", !.addr = a, !.right = right,
                                            !.user = IF right THEN u ELSE None]]
  /\ UNCHANGED <<clock, entry, tokens, keyVars, failures>>

PostCode(r, a, p, code) ==
  /\ up /\ req[r].pc = "idle" /\ ~Blocked(a)
  /\ code # None => MayBeRight
  /\ req' = [req EXCEPT ![r] = [Idle EXCEPT !.pc = "code", !.addr = a, !.user = p.user,
                                            !.token = p, !.code = code]]
  /\ UNCHANGED <<clock, entry, tokens, keyVars, failures>>

(* Changed form: the age of a pending token is not looked at.              *)
VerifyPendingAgeless(p) == p.key = secret

VerifyPending(p) == p.key = secret /\ clock < p.exp

Rejected(r) == req' = [req EXCEPT ![r] = [Idle EXCEPT !.pc = "fail", !.addr = req[r].addr, !.now = clock]]
Exit(r) == req' = [req EXCEPT ![r] = Idle]

(* Changed form: a success does not clear the failures.                    *)
ClearedNot(a) == entry

Cleared(a) == [entry EXCEPT ![a] = None]

(* Reset of the address, and the cookie.                                   *)
SignIn(r) ==
  LET a == req[r].addr IN
  /\ entry' = Cleared(a)
  /\ failures' = [failures EXCEPT ![a] = <<>>]
  /\ sessions' = sessions \cup {[user |-> req[r].user, at |-> clock, key |-> secret]}
  /\ Exit(r)

VerifyPassword(r) == req[r].right

(* A code of the user's own authenticator is right for three periods.      *)
VerifyTOTP(code) ==
  code # None /\ \E skew \in {0 - 1, 0, 1} : code = clock \div Period + skew

TOTPEnabled(u) == u \in TwoFactor

CheckPassword(r) ==
  LET u == req[r].user IN
  /\ req[r].pc = "password"
  /\ \/ ~VerifyPassword(r) /\ Rejected(r) /\ UNCHANGED <<entry, tokens, failures>>
     \/ /\ VerifyPassword(r)
        /\ IF TOTPEnabled(u)
           THEN /\ pending' = pending \cup {[user |-> u, exp |-> clock + PendingAge, key |-> secret]}
                /\ Exit(r) /\ UNCHANGED <<entry, sessions, failures>>
           ELSE SignIn(r) /\ UNCHANGED pending
  /\ UNCHANGED <<clock, keyVars>>

CheckCode(r) ==
  /\ req[r].pc = "code"
  /\ \/ ~VerifyPending(req[r].token) /\ Exit(r) /\ UNCHANGED <<entry, tokens, failures>>
     \/ /\ VerifyPending(req[r].token) /\ ~VerifyTOTP(req[r].code)
        /\ Rejected(r) /\ UNCHANGED <<entry, tokens, failures>>
     \/ /\ VerifyPending(req[r].token) /\ VerifyTOTP(req[r].code)
        /\ SignIn(r) /\ UNCHANGED pending
  /\ UNCHANGED <<clock, keyVars>>

----------------------------------------------------------------------------
(* Changed form: the sweep looks at the last failure only.                 *)
PrunedLocked(now) ==
  IF Cardinality({a \in Addrs : entry[a] # None}) < MaxKeys THEN entry
  ELSE [a \in Addrs |-> IF entry[a] # None /\ now - entry[a].last >= Window THEN None ELSE entry[a]]

(* prune: a large table loses the entries that are neither locked nor of   *)
(* use to the count.                                                       *)
Stale(e, now) == now > e.lockUntil /\ now - e.last > Window
Pruned(now) ==
  IF Cardinality({a \in Addrs : entry[a] # None}) < MaxKeys THEN entry
  ELSE [a \in Addrs |-> IF entry[a] # None /\ Stale(entry[a], now) THEN None ELSE entry[a]]

Count(e, now) == (IF now - e.last > Window THEN 0 ELSE e.fails) + 1

(* Changed form: the count is not taken back by the lockout.               *)
FailedUncleared(e, now) ==
  [fails |-> Count(e, now), last |-> now,
   lockUntil |-> IF Count(e, now) >= Max THEN now + Lockout ELSE e.lockUntil]

Failed(e, now) ==
  IF Count(e, now) >= Max
  THEN [fails |-> 0, last |-> now, lockUntil |-> now + Lockout]
  ELSE [e EXCEPT !.fails = Count(e, now), !.last = now]

Tries == Cardinality(UNION {{a} \X DOMAIN failures[a] : a \in Addrs})

Fail(r) ==
  LET a == req[r].addr
      now == req[r].now
      table == Pruned(now)
      e == IF table[a] = None THEN [fails |-> 0, last |-> Never, lockUntil |-> Never] ELSE table[a]
  IN
  /\ req[r].pc = "fail" /\ Tries < MaxTries
  /\ entry' = [table EXCEPT ![a] = Failed(e, now)]
  /\ failures' = [failures EXCEPT ![a] = Append(@, clock)]
  /\ Exit(r)
  /\ UNCHANGED <<clock, tokens, keyVars>>

(* A request waits for the lock no longer than Lag.                        *)
Tick ==
  /\ clock < MaxTime /\ clock' = clock + 1
  /\ \A r \in Reqs : req[r].pc = "fail" => clock' <= req[r].now + Lag
  /\ UNCHANGED <<entry, req, tokens, keyVars, failures>>

Next ==
  \/ \E f \in Files : LoadKey(f)
  \/ \E f \in Files : MakeKey(f)
  \/ \E f \in Files : CutKey(f)
  \/ TakeShort
  \/ Fatal
  \/ Crash
  \/ \E r \in Reqs, a \in Addrs, u \in Users, right \in BOOLEAN : PostPassword(r, a, u, right)
  \/ \E r \in Reqs, a \in Addrs, p \in pending, c \in {None, clock \div Period} : PostCode(r, a, p, c)
  \/ \E r \in Reqs : CheckPassword(r)
  \/ \E r \in Reqs : CheckCode(r)
  \/ \E r \in Reqs : Fail(r)
  \/ Tick

Spec == Init /\ [][Next]_vars

----------------------------------------------------------------------------
(* However attempts overlap, an address that does not sign in has at most  *)
(* Max failures within the length of a lockout, and those that were past   *)
(* Blocked when the lockout began (NewThrottle: 5 failures trigger a       *)
(* 15-minute lockout).                                                     *)
GuessBound ==
  \A a \in Addrs : \A i \in 1 .. Len(failures[a]) :
    Cardinality({j \in i .. Len(failures[a]) :
                   failures[a][j] <= failures[a][i] + Lockout - Lag})
      <= Max + Cardinality(Reqs) - 1

(* Nobody is locked out who has not failed Max times since the last time   *)
(* the address signed in, and no lockout outlasts the last failure by more *)
(* than Lockout (Fail, Reset).                                             *)
LockEarned ==
  \A a \in Addrs : Blocked(a) =>
    /\ Len(failures[a]) >= Max
    /\ clock <= failures[a][Len(failures[a])] + Lockout

(* A user with a second factor is signed in only less than PendingAge      *)
(* after the right password was given for that very user, by a server with *)
(* the same key (IssuePending, VerifyPending).                             *)
SessionEarned ==
  \A s \in sessions :
    TOTPEnabled(s.user) => \E p \in pending : p.user = s.user /\ s.at < p.exp /\ p.key = s.key

Authenticated(s) == s.key = secret /\ clock < s.at + SessionAge

(* Restarts keep what the keys are for, also when a start died while it    *)
(* wrote one: whoever was signed in is signed in, what was sealed opens,   *)
(* and the agent, which waits for the first whole key, is sent no other    *)
(* one, though perhaps none (New, resolveSecret, ensureAgentKey,           *)
(* waitForKey, loadOrCreateKey; Authenticated).                            *)
KeysSurvive ==
  up =>
    /\ \A s \in sessions : clock < s.at + SessionAge => Authenticated(s)
    /\ held["box"] = first["box"]
    /\ held["agent"] \in {first["agent"], Short}
=============================================================================
