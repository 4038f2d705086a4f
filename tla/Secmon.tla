------------------------------- MODULE Secmon -------------------------------
(***************************************************************************)
(* The security monitor: the report that Read builds from the tails of the *)
(* sshd log and of fail2ban's, keeps for CacheTTL and hands to every       *)
(* poller of the page.  (internal/secmon.)                                 *)
(*                                                                         *)
(* The logs grow while the report is built, one file after the other, and  *)
(* are rotated away.  A line is what its parser makes of it; a tail is     *)
(* counted in lines.  The loops of build are folds over the events, and    *)
(* the properties say in terms of the lines what they must come to.        *)
(***************************************************************************)
EXTENDS Integers, FiniteSets, Sequences, SequencesExt

CONSTANTS
  Addrs,        \* addresses that try to log in
  Users,        \* accounts of the host
  None,         \* no account, no date, no report
  TailLines,    \* lines of a log that are parsed
  MaxEvents,    \* Config.maxEvents
  Threshold,    \* BruteForceFailureThreshold
  CacheTTL,     \* Config.cacheTTL
  BuildTime,    \* longest time a build takes
  Hour,         \* length of an hour
  Hours,        \* buckets of hourlyFailures
  Day, Year,    \* length of a day, and of a year
  Undated,      \* logins whose stamp may not parse, by their method
  MaxTime,      \* bound: the clock
  MaxLogins,    \* bound: logins in the sshd log
  MaxLines      \* bound: lines written to the two logs

ASSUME MonitorAssumption ==
  /\ TailLines \in Nat \ {0} /\ MaxEvents \in Nat \ {0} /\ Threshold \in Nat \ {0}
  /\ CacheTTL \in Nat \ {0} /\ BuildTime \in Nat /\ Hour \in Nat \ {0} /\ Hours \in Nat \ {0}
  /\ Undated \subseteq {"password", "key"}
  /\ Day \in Nat /\ Year \in Nat /\ Day < Year /\ Year <= MaxTime
  /\ MaxTime \in Nat /\ MaxLogins \in Nat /\ MaxLines \in Nat
  /\ None \notin Int \cup Users \cup {"ban", "high", "medium"}

VARIABLES
  clock,
  format,     \* how rsyslog dates a line: RFC 3339, or traditional, without a year
  authLog,    \* events of the sshd log, with the time they were written
  banLog,     \* events of fail2ban's log
  written,    \* lines written so far
  tries,      \* history: failed tries of an address
  reader,     \* Reader.mu is held: when the build under way was begun
  cached      \* Reader.last and Reader.at: when it was begun, when it was done

logs  == <<authLog, banLog, written, tries>>
cache == <<reader, cached>>
env   == <<clock, format>>
vars == <<env, logs, cache>>

Times == 0 .. MaxTime + Day
Event == [kind : {"failed", "invalid", "maxed", "password", "key"},
          user : Users \cup {None}, ip : Addrs, time : Times \cup {None}]
BanEvent == [kind : {"ban", "unban"}, ip : Addrs]
Basis == [auth : Seq(Event), ban : Seq(BanEvent), from : Times]

Init ==
  /\ clock = Year - 1 /\ format \in {"iso", "syslog"} /\ authLog = <<>> /\ banLog = <<>> /\ written = 0
  /\ tries = [a \in Addrs |-> 0]
  /\ reader = None /\ cached = None

----------------------------------------------------------------------------
(* What writes the logs.  A failed try is one line or, for an account that *)
(* does not exist or the last try of a connection, two.                    *)
Tried(a, kinds, time) ==
  [i \in 1 .. Len(kinds) |-> [kind |-> kinds[i], user |-> None, ip |-> a, time |-> time]]

Try(a, kinds, time) ==
  /\ written + Len(kinds) <= MaxLines /\ written' = written + Len(kinds)
  /\ authLog' = authLog \o Tried(a, kinds, time)
  /\ tries' = [tries EXCEPT ![a] = @ + 1]
  /\ UNCHANGED <<env, banLog, cache>>

LogIn(a, u, kind, time) ==
  /\ Len(SelectSeq(authLog, LAMBDA e : e.user # None)) < MaxLogins
  /\ written < MaxLines /\ written' = written + 1
  /\ authLog' = Append(authLog, [kind |-> kind, user |-> u, ip |-> a, time |-> time])
  /\ UNCHANGED <<env, banLog, tries, cache>>

Fail2ban(a, kind) ==
  /\ written < MaxLines /\ written' = written + 1
  /\ banLog' = Append(banLog, [kind |-> kind, ip |-> a])
  /\ UNCHANGED <<env, authLog, tries, cache>>

(* logrotate takes the sshd log away.                                      *)
Rotate ==
  /\ authLog # <<>> /\ authLog' = <<>>
  /\ UNCHANGED <<env, banLog, written, tries, cache>>

----------------------------------------------------------------------------
(* Changed form: one line more than fits.                                  *)
ReadTailPartial(s) == SubSeq(s, IF Len(s) > TailLines THEN Len(s) - TailLines ELSE 1, Len(s))

ReadTail(s) == SubSeq(s, IF Len(s) > TailLines THEN Len(s) - TailLines + 1 ELSE 1, Len(s))

(* splitTimestamp: a line without a year is of the current one, or, when   *)
(* that lands in the future, of the one before.                            *)
SplitTimestamp(time, now) ==
  LET t == (now \div Year) * Year + (time % Year) IN
  IF format = "iso" \/ time = None THEN time ELSE IF t > now + Day THEN t - Year ELSE t

ParseAuthLog(s, now) == [i \in 1 .. Len(s) |-> [s[i] EXCEPT !.time = SplitTimestamp(@, now)]]

(* What a build that reads the logs now works on.                          *)
Tails ==
  [auth |-> ParseAuthLog(ReadTail(authLog), clock), ban |-> ReadTail(banLog), from |-> clock]

(* The loop over the sshd events, and the one over fail2ban's.             *)
NoStat == [failures |-> 0, invalid |-> 0, successes |-> 0, bans |-> 0, last |-> None]
Noted(stat, e) ==
  CASE e.kind \in {"failed", "maxed"} -> [stat EXCEPT !.failures = @ + 1]
    [] e.kind = "invalid"             -> [stat EXCEPT !.invalid = @ + 1]
    [] e.kind \in {"password", "key"} -> [stat EXCEPT !.successes = @ + 1]
    [] e.kind = "ban"                 -> [stat EXCEPT !.bans = @ + 1, !.last = "ban"]
    [] OTHER                          -> [stat EXCEPT !.last = "unban"]
Aggregated(st, e) == [st EXCEPT ![e.ip] = Noted(@, e)]
Stats(b) == FoldLeft(Aggregated, [a \in Addrs |-> NoStat], b.auth \o b.ban)
Kept(s, kinds) == FoldLeft(LAMBDA out, e : IF e.kind \in kinds THEN Append(out, e) ELSE out, <<>>, s)
Successes(b) == Kept(b.auth, {"password", "key"})
BansActive(b) == LET st == Stats(b) IN {a \in Addrs : st[a].last = "ban"}

(* classifyHijacks: no severity for a login with a key from an address     *)
(* with few failures, whatever their order.                                *)
Severity(e, prior) ==
  IF prior >= Threshold THEN "high" ELSE IF e.kind = "password" THEN "medium" ELSE None

(* Changed form: the account is left out of the group.                     *)
GroupOfAddr(e) == [ip |-> e.ip, user |-> None, kind |-> e.kind]

GroupOf(e) == [ip |-> e.ip, user |-> e.user, kind |-> e.kind]

Earlier(s, t) == t # None /\ (s = None \/ t < s)
Later(s, t)   == t # None /\ (s = None \/ t > s)

Grouped(st, rows, e) ==
  LET severity == Severity(e, st[e.ip].failures + st[e.ip].invalid)
      at == SelectInSeq(rows, LAMBDA h : h.of = GroupOf(e))
      row == IF at = 0 THEN [of |-> GroupOf(e), severity |-> severity, count |-> 0,
                             first |-> e.time, last |-> e.time]
                       ELSE rows[at]
      grown == [row EXCEPT !.count = @ + 1,
                           !.first = IF Earlier(@, e.time) THEN e.time ELSE @,
                           !.last  = IF Later(@, e.time) THEN e.time ELSE @]
  IN  IF severity = None THEN rows
      ELSE IF at = 0 THEN Append(rows, grown) ELSE [rows EXCEPT ![at] = grown]
Hijacks(b) ==
  LET st == Stats(b) IN FoldLeft(LAMBDA rows, e : Grouped(st, rows, e), <<>>, Successes(b))

(* tailFiltered, newest first; RecentBans is reversed and cut likewise.    *)
TailFiltered(s, n) == LET r == Reverse(s) IN SubSeq(r, 1, IF Len(r) < n THEN Len(r) ELSE n)
RecentFailures(b) == TailFiltered(Kept(b.auth, {"failed", "invalid", "maxed"}), MaxEvents)

(* hourlyFailures: the current hour is the last bucket.                    *)
Start(now) == ((now - (Hours - 1) * Hour) \div Hour) * Hour
Hourly(b) ==
  LET Hit(out, e) ==
        LET i == (e.time - Start(b.from)) \div Hour + 1 IN
        IF e.kind \notin {"failed", "invalid"} \/ e.time = None THEN out
        ELSE IF e.time < Start(b.from) \/ i \notin 1 .. Hours THEN out
        ELSE [out EXCEPT ![i] = @ + 1]
  IN  FoldLeft(Hit, [i \in 1 .. Hours |-> 0], b.auth)

----------------------------------------------------------------------------
(* Read: whoever gets the lock first builds, the others wait for it and    *)
(* then find the report still usable.                                      *)
(* Changed form: the report never grows old.                               *)
UsableForEver(t) == cached # None

Usable(t) == cached # None /\ t - cached.at < CacheTTL

Build ==
  /\ reader = None /\ ~Usable(clock)
  /\ reader' = clock
  /\ UNCHANGED <<env, logs, cached>>

Built ==
  /\ reader # None
  /\ cached' = [from |-> reader, at |-> clock] /\ reader' = None
  /\ UNCHANGED <<env, logs>>

Tick ==
  /\ clock < MaxTime /\ clock' = clock + 1
  /\ reader # None => clock' <= reader + BuildTime
  /\ UNCHANGED <<format, logs, cache>>

Shapes == {<<"failed">>, <<"invalid", "failed">>, <<"failed", "maxed">>}

Next ==
  \/ \E a \in Addrs, kinds \in Shapes : Try(a, kinds, clock)
  \/ \E a \in Addrs, u \in Users, kind \in {"password", "key"} : LogIn(a, u, kind, clock)
  \/ \E a \in Addrs, u \in Users, kind \in Undated : LogIn(a, u, kind, None)
  \/ \E a \in Addrs, kind \in {"ban", "unban"} : Fail2ban(a, kind)
  \/ Rotate
  \/ Build
  \/ Built
  \/ Tick

Spec == Init /\ [][Next]_vars

TypeOK ==
  /\ clock \in Times /\ format \in {"iso", "syslog"}
  /\ authLog \in Seq(Event) /\ banLog \in Seq(BanEvent) /\ Tails \in Basis
  /\ Len(Tails.auth) <= TailLines /\ Len(Tails.ban) <= TailLines
  /\ written \in 0 .. MaxLines /\ tries \in [Addrs -> 0 .. MaxLines]
  /\ reader \in Times \cup {None}
  /\ cached \in [from : Times, at : Times] \cup {None}

----------------------------------------------------------------------------
(* How many of a report's events from an address are of one of the kinds.  *)
Number(b, a, kinds) == Cardinality({i \in 1 .. Len(b.auth) : b.auth[i].ip = a /\ b.auth[i].kind \in kinds})
Prior(b, a) == Number(b, a, {"failed", "invalid", "maxed"})

(* One row for each address, account and method that logged in and is      *)
(* suspect, with all of its logins and the span of those that are dated;   *)
(* none for anybody else (classifyHijacks).                                *)
Alarms(b) ==
  LET rows == Hijacks(b)
      members(h) == {i \in 1 .. Len(b.auth) : GroupOf(b.auth[i]) = h.of}
      dates(h) == {b.auth[i].time : i \in members(h)} \ {None}
  IN
  /\ {h.of : h \in ToSet(rows)} =
       {[ip |-> e.ip, user |-> e.user, kind |-> e.kind] :
          e \in {f \in ToSet(b.auth) : \/ f.kind = "password"
                                       \/ f.kind = "key" /\ Prior(b, f.ip) >= Threshold}}
  /\ \A h \in ToSet(rows) :
       /\ h.count = Cardinality(members(h)) /\ (h.severity = "high") = (Prior(b, h.of.ip) >= Threshold)
       /\ dates(h) # {} => h.first = Min(dates(h)) /\ h.last = Max(dates(h))
  /\ Cardinality({h.of : h \in ToSet(rows)}) = Len(rows)

(* An address is shown as banned if and only if the last thing the tail of *)
(* fail2ban's log says of it is a ban, reinstated or new.                  *)
BannedLast(b, a) ==
  \E i \in 1 .. Len(b.ban) : /\ b.ban[i] = [kind |-> "ban", ip |-> a]
                             /\ \A j \in i + 1 .. Len(b.ban) : b.ban[j].ip # a
Bans(b) == BansActive(b) = {a \in Addrs : BannedLast(b, a)}

(* Every failure of the hours shown, dated before the report, is in one    *)
(* bucket, and the newest failures are those that are listed.              *)
Recent(b) ==
  LET failures == Kept(b.auth, {"failed", "invalid", "maxed"})
      shown == RecentFailures(b)
      hourly == Hourly(b)
  IN
  /\ \A i \in 1 .. Hours :
       hourly[i] = Cardinality({j \in 1 .. Len(b.auth) :
         /\ b.auth[j].kind \in {"failed", "invalid"} /\ b.auth[j].time # None
         /\ b.auth[j].time \div Hour = b.from \div Hour - (Hours - i)})
  /\ \A i \in 1 .. Len(shown) : shown[i] = failures[Len(failures) + 1 - i]

(* A line of the last year but a day keeps its date, whether it bears the  *)
(* year or not and however often the year has turned since.                *)
Dated(b) ==
  LET s == ReadTail(authLog) IN
  \A i \in 1 .. Len(s) :
    s[i].time # None /\ clock - s[i].time < Year - Day => b.auth[i].time = s[i].time

(* A report says of the tails a build reads exactly what it should, and    *)
(* nobody is called a brute-force who failed less than half of Threshold   *)
(* times: a try on an account that does not exist counts twice (build,     *)
(* splitTimestamp, classifyHijacks, hourlyFailures, tailFiltered).         *)
ReportExact ==
  reader # None =>
    LET b == Tails IN
    /\ Dated(b) /\ Alarms(b) /\ Bans(b) /\ Recent(b)
    /\ \A a \in Addrs : Prior(b, a) >= Threshold => 2 * tries[a] >= Threshold

(* The logs are read once in CacheTTL, however often the page is polled,   *)
(* and no report is served that is older than that and its build (Read).   *)
CacheHolds ==
  /\ reader # None /\ cached # None => reader - cached.at >= CacheTTL
  /\ Usable(clock) => clock - cached.from < CacheTTL + BuildTime
=============================================================================
