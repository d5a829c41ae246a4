----------------------------- MODULE Throttling -----------------------------
(***************************************************************************)
(* Failed authentications per IP (services/throttling.go), shared by the   *)
(* API key check and the login form.  Only requests with a wrong secret    *)
(* come here: a right one is let through before the lock is looked at.     *)
(*                                                                         *)
(* A failed request takes the mutex twice, to look at the lock and to      *)
(* record its failure, and reads the clock of the failure before it waits  *)
(* for the mutex the second time.  The sweeper uses the time its ticker    *)
(* sent, which can be old when it gets the mutex.  So times are recorded   *)
(* out of order, by at most MaxWait.                                       *)
(*                                                                         *)
(* The slice of failure times is only filtered and counted: it is a set    *)
(* whose elements are told apart by a number when their times are equal.   *)
(***************************************************************************)
EXTENDS Integers, FiniteSets

CONSTANTS
  Ip,
  Request,      \* goroutines that serve requests with a wrong secret
  Window,       \* throttlingWindowMs
  MaxFails,     \* throttlingMaxFails
  Lockout,      \* throttlingLockoutMs
  Stale,        \* throttlingStaleMs
  MaxEntries,   \* throttlingMaxEntries
  MaxWait,      \* longest wait for the mutex
  MaxClock      \* bound on the clock

ASSUME ThrottlingAssumption ==
  /\ Window \in Nat \ {0}
  /\ MaxFails \in Nat \ {0}
  /\ Lockout \in Nat \ {0}
  /\ Stale \in Nat
  /\ MaxEntries \in Nat \ {0}
  /\ MaxWait \in Nat /\ MaxWait < Window
  /\ MaxClock \in Nat
  /\ Window + 2 * MaxWait <= Stale

VARIABLES
  clock,
  entries,    \* the map
  requests,   \* where each request is, with what it holds
  sweep,      \* time the sweeper got from its ticker, or Waiting
  recent      \* history: failures since the last lockout or eviction, as far
              \* as they lie within the window of the latest of them

vars == <<clock, entries, requests, sweep, recent>>

Waiting == -1
Idle == [at |-> "idle"]

Failure == [at : Nat, nth : Nat]
Entry == [failures : SUBSET Failure, lockedUntil : Nat, lastSeen : Nat]

TypeOK ==
  /\ clock \in Nat
  /\ DOMAIN entries \subseteq Ip
  /\ \A ip \in DOMAIN entries : entries[ip] \in Entry
  /\ requests \in [Request -> {Idle} \cup [at : {"allowed"}, ip : Ip]
                                \cup [at : {"recording"}, ip : Ip, now : Nat]]
  /\ sweep \in Nat \cup {Waiting}
  /\ recent \in [Ip -> SUBSET Failure]

Init ==
  /\ clock = 0
  /\ entries = [ip \in {} |-> ip]
  /\ requests = [r \in Request |-> Idle]
  /\ sweep = Waiting
  /\ recent = [ip \in Ip |-> {}]

-----------------------------------------------------------------------------
Locked(ip) == ip \in DOMAIN entries /\ clock < entries[ip].lockedUntil

Step(r, to) == requests' = [requests EXCEPT ![r] = to]

\* The secret is wrong; a locked IP is turned away and nothing changes.
Check(r) ==
  /\ requests[r] = Idle
  /\ \E ip \in Ip : ~ Locked(ip) /\ Step(r, [at |-> "allowed", ip |-> ip])
  /\ UNCHANGED <<clock, entries, sweep, recent>>

ReadClock(r) ==
  /\ requests[r].at = "allowed"
  /\ Step(r, [at |-> "recording", ip |-> requests[r].ip, now |-> clock])
  /\ UNCHANGED <<clock, entries, sweep, recent>>

\* mutant: the oldest entry goes, locked or not
OldestEntries ==
  {ip \in DOMAIN entries :
     \A other \in DOMAIN entries : entries[ip].lastSeen <= entries[other].lastSeen}

\* The entries one of which is evicted: the oldest of the unlocked ones, or of
\* all when every entry is locked.
Evictable ==
  LET unlocked == {ip \in DOMAIN entries : ~ Locked(ip)}
      candidates == IF unlocked # {} THEN unlocked ELSE DOMAIN entries
  IN  {ip \in candidates :
         \A other \in candidates : entries[ip].lastSeen <= entries[other].lastSeen}

\* mutant: one entry too many
EvictionsLate(ip) ==
  IF ip \notin DOMAIN entries /\ Cardinality(DOMAIN entries) > MaxEntries
  THEN {{victim} : victim \in Evictable} ELSE {{}}

\* The ips evicted to make room for `ip`: none, or one.
Evictions(ip) ==
  IF ip \notin DOMAIN entries /\ Cardinality(DOMAIN entries) >= MaxEntries
  THEN {{victim} : victim \in Evictable} ELSE {{}}

Within(failures, now) == {f \in failures : f.at > now - Window}

With(failures, now) ==
  failures \cup {[at |-> now, nth |-> Cardinality({f \in failures : f.at = now})]}

Fresh == [failures |-> {}, lockedUntil |-> 0, lastSeen |-> 0]

\* mutant: the failures survive the lockout
FailedKeeping(entry, now) ==
  LET failures == With(Within(entry.failures, now), now)
  IN  IF Cardinality(failures) >= MaxFails
      THEN [failures |-> failures, lockedUntil |-> now + Lockout, lastSeen |-> now]
      ELSE [failures |-> failures, lockedUntil |-> entry.lockedUntil,
            lastSeen |-> now]

Failed(entry, now) ==
  LET failures == With(Within(entry.failures, now), now)
  IN  IF Cardinality(failures) >= MaxFails
      THEN [failures |-> {}, lockedUntil |-> now + Lockout, lastSeen |-> now]
      ELSE [failures |-> failures, lockedUntil |-> entry.lockedUntil,
            lastSeen |-> now]

Locks(entry, now) ==
  Cardinality(With(Within(entry.failures, now), now)) >= MaxFails

\* Those within the window of the latest one.
Remembered(failures) ==
  {f \in failures : \A g \in failures : f.at > g.at - Window}

RecordFailure(r) ==
  LET ip == requests[r].ip
      now == requests[r].now
      entry == IF ip \in DOMAIN entries THEN entries[ip] ELSE Fresh
  IN
  /\ requests[r].at = "recording"
  /\ \E evicted \in Evictions(ip) :
       /\ entries' = [i \in (DOMAIN entries \ evicted) \cup {ip} |->
                        IF i = ip THEN Failed(entry, now) ELSE entries[i]]
       /\ recent' = [i \in Ip |->
            IF i = ip
            THEN IF Locks(entry, now) THEN {}
                 ELSE Remembered(With(recent[i], now))
            ELSE IF i \in evicted THEN {} ELSE recent[i]]
  /\ Step(r, Idle)
  /\ UNCHANGED <<clock, sweep>>

\* mutant: the cutoff is kept in place of the time
SweeperWakesCutoff ==
  /\ sweep = Waiting
  /\ sweep' = clock - Stale
  /\ UNCHANGED <<clock, entries, requests, recent>>

SweeperWakes ==
  /\ sweep = Waiting
  /\ sweep' = clock
  /\ UNCHANGED <<clock, entries, requests, recent>>

\* mutant: the stale time and the lockout are not looked at
IdleSinceFailure(ip) == entries[ip].lastSeen < sweep

IdleLong(ip) ==
  /\ entries[ip].lastSeen < sweep - Stale
  /\ sweep >= entries[ip].lockedUntil

Sweep ==
  /\ sweep # Waiting
  /\ entries' = [ip \in {i \in DOMAIN entries : ~ IdleLong(i)} |-> entries[ip]]
  /\ sweep' = Waiting
  /\ UNCHANGED <<clock, requests, recent>>

Tick ==
  /\ clock < MaxClock
  /\ \A r \in Request :
       requests[r].at = "recording" => clock < requests[r].now + MaxWait
  /\ sweep # Waiting => clock < sweep + MaxWait
  /\ clock' = clock + 1
  /\ UNCHANGED <<entries, requests, sweep, recent>>

Next ==
  \/ \E r \in Request : Check(r) \/ ReadClock(r) \/ RecordFailure(r)
  \/ SweeperWakes \/ Sweep
  \/ Tick

Spec == Init /\ [][Next]_vars

-----------------------------------------------------------------------------
\* However many addresses fail at once, the map does not grow over its cap
\* (throttling.go:83).
CapKept == Cardinality(DOMAIN entries) <= MaxEntries

\* MaxFails failures within a window lock the address: no order in which times
\* are recorded, and no sweep, makes the service forget a failure that counts
\* (throttling.go:50, 92).
BurstsLock == \A ip \in Ip : Cardinality(recent[ip]) < MaxFails

\* A lockout is served to its end: an entry that is locked is dropped only to
\* make room when all entries are locked (throttling.go:50, 108-113).
KeepsLockouts ==
  \A ip \in DOMAIN entries \ DOMAIN entries' :
    Locked(ip) =>
      /\ \A other \in DOMAIN entries : Locked(other)
      /\ Cardinality(DOMAIN entries) >= MaxEntries
      /\ DOMAIN entries' \ DOMAIN entries # {}

LockoutsKept == [][KeepsLockouts]_vars

\* Nobody is locked out for less than MaxFails failures that were recorded
\* since the last lockout and lie, but for waits, within one window
\* (throttling.go:99-105).
DeservesLocks ==
  \A ip \in DOMAIN entries' :
    /\ entries'[ip].lockedUntil > 0
    /\ ip \in DOMAIN entries => entries'[ip].lockedUntil # entries[ip].lockedUntil
    => Cardinality(recent[ip]) + 1 >= MaxFails

LocksDeserved == [][DeservesLocks]_vars
=============================================================================
