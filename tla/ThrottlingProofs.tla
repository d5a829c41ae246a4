-------------------------- MODULE ThrottlingProofs --------------------------
(***************************************************************************)
(* Proofs about Throttling, for every value of its constants.              *)
(***************************************************************************)
EXTENDS Throttling, TLAPS, FiniteSetTheorems

-----------------------------------------------------------------------------
(***************************************************************************)
(* Sets of failures: a failure that is added is not in the set yet, because *)
(* its number is the number of failures of its time.                       *)
(***************************************************************************)
Same(F, t) == {f \in F : f.at = t}

New(F, now) == [at |-> now, nth |-> Cardinality(Same(F, now))]

Numbered(F) ==
  /\ F \subseteq Failure
  /\ IsFiniteSet(F)
  /\ \A f \in F : f.nth < Cardinality(Same(F, f.at))

LEMMA WithNew ==
  ASSUME NEW F, NEW now
  PROVE  With(F, now) = F \cup {New(F, now)}
BY DEF With, New, Same

LEMMA SameFinite ==
  ASSUME NEW F, IsFiniteSet(F), NEW t
  PROVE  /\ IsFiniteSet(Same(F, t))
         /\ Cardinality(Same(F, t)) \in Nat
<1>1. Same(F, t) \in SUBSET F
  BY DEF Same
<1>2. QED
  BY <1>1, FS_Subset, FS_CardinalityType

LEMMA EmptyNumbered ==
  /\ Numbered({})
  /\ Cardinality({}) = 0
BY FS_EmptySet DEF Numbered

\* One failure more.
LEMMA WithNumbered ==
  ASSUME NEW F, Numbered(F), NEW now \in Nat
  PROVE  /\ Numbered(With(F, now))
         /\ Cardinality(With(F, now)) = Cardinality(F) + 1
<1> DEFINE new == New(F, now)
           N == With(F, now)
<1>1. N = F \cup {new}
  BY WithNew
<1>2. /\ Cardinality(Same(F, now)) \in Nat
      /\ new \in Failure
      /\ new.at = now
      /\ new.nth = Cardinality(Same(F, now))
  BY SameFinite DEF Numbered, New, Failure
<1>3. new \notin F
  BY <1>2 DEF Numbered
<1>4. /\ IsFiniteSet(N)
      /\ Cardinality(N) = Cardinality(F) + 1
  BY <1>1, <1>3, FS_AddElement DEF Numbered
<1> HIDE DEF new, N
<1>5. /\ Same(N, now) = Same(F, now) \cup {new}
      /\ new \notin Same(F, now)
  BY <1>1, <1>2, <1>3 DEF Same
<1>6. Cardinality(Same(N, now)) = Cardinality(Same(F, now)) + 1
  BY <1>5, SameFinite, FS_AddElement DEF Numbered
<1>7. ASSUME NEW f \in N
      PROVE  f.nth < Cardinality(Same(N, f.at))
  <2>1. CASE f = new
    BY <1>2, <1>6, <2>1
  <2>2. CASE f \in F /\ f.at = now
    <3>1. f.nth \in Nat /\ f.nth < Cardinality(Same(F, now))
      BY <2>2 DEF Numbered, Failure
    <3>2. QED
      BY <1>2, <1>6, <2>2, <3>1
  <2>3. CASE f \in F /\ f.at # now
    <3>1. Same(N, f.at) = Same(F, f.at)
      BY <1>1, <1>2, <2>3 DEF Same
    <3>2. QED
      BY <2>3, <3>1 DEF Numbered
  <2>4. QED
    BY <1>1, <2>1, <2>2, <2>3
<1>8. QED
  BY <1>1, <1>2, <1>4, <1>7 DEF Numbered, N

\* Filtering by time keeps or drops all failures of a time.
LEMMA FilterNumbered ==
  ASSUME NEW F, Numbered(F), NEW T \in SUBSET F,
         \A f \in T, g \in F : g.at = f.at => g \in T
  PROVE  Numbered(T)
<1>1. ASSUME NEW f \in T
      PROVE  Same(T, f.at) = Same(F, f.at)
  BY DEF Same
<1>2. QED
  BY <1>1, FS_Subset DEF Numbered

LEMMA WithinNumbered ==
  ASSUME NEW F, Numbered(F), NEW now
  PROVE  Numbered(Within(F, now))
<1>1. Within(F, now) \in SUBSET F
  BY DEF Within
<1>2. \A f \in Within(F, now), g \in F : g.at = f.at => g \in Within(F, now)
  BY DEF Within
<1>3. QED
  BY <1>1, <1>2, FilterNumbered

-----------------------------------------------------------------------------
(***************************************************************************)
(* What the service keeps of the failures of an address, pruning by the    *)
(* time of each new one, is what lies within the window of the latest,     *)
(* although times are recorded out of order.                               *)
(***************************************************************************)
Close(F) == \A f, g \in F : f.at > g.at - Window

LEMMA RecordedSame ==
  ASSUME NEW F, F \subseteq Failure, Close(F),
         NEW now \in Nat, \A f \in F : f.at <= now + MaxWait
  PROVE  With(Within(F, now), now) = Remembered(With(F, now))
<1> DEFINE new == New(F, now)
           N == With(F, now)
<1>1. /\ N = F \cup {new}
      /\ new.at = now
      /\ \A f \in F : f.at \in Nat
  BY WithNew DEF New, Failure
<1>2. /\ Window \in Nat \ {0}
      /\ MaxWait \in Nat
      /\ MaxWait < Window
  BY ThrottlingAssumption
<1>3. Same(Within(F, now), now) = Same(F, now)
  BY <1>2 DEF Same, Within
<1>4. With(Within(F, now), now) = Within(F, now) \cup {new}
  BY <1>3, WithNew DEF New
<1> HIDE DEF new, N
<1>5. ASSUME NEW f \in Within(F, now) \cup {new}
      PROVE  f \in Remembered(N)
  <2>1. f \in N /\ f.at > now - Window /\ f.at \in Nat
    BY <1>1, <1>2, <1>5 DEF Within
  <2>2. ASSUME NEW g \in N
        PROVE  f.at > g.at - Window
    <3>1. CASE g = new
      BY <1>1, <2>1, <3>1
    <3>2. CASE g \in F /\ f \in F
      BY <3>2 DEF Close
    <3>3. CASE g \in F /\ f = new
      BY <1>1, <1>2, <3>3
    <3>4. QED
      BY <1>1, <1>5, <3>1, <3>2, <3>3 DEF Within
  <2>3. QED
    BY <2>1, <2>2 DEF Remembered
<1>6. ASSUME NEW f \in Remembered(N)
      PROVE  f \in Within(F, now) \cup {new}
  <2>1. f \in N /\ f.at > now - Window
    BY <1>1, <1>6 DEF Remembered
  <2>2. QED
    BY <1>1, <2>1 DEF Within
<1>7. QED
  BY <1>4, <1>5, <1>6 DEF N

\* An entry that was swept held nothing that could still count.
LEMMA RecordedNew ==
  ASSUME NEW F, F \subseteq Failure,
         NEW now \in Nat, \A f \in F : f.at + Window < now
  PROVE  With(Within({}, now), now) = Remembered(With(F, now))
<1> DEFINE new == New(F, now)
           N == With(F, now)
<1>1. /\ N = F \cup {new}
      /\ new.at = now
      /\ \A f \in F : f.at \in Nat
      /\ Window \in Nat \ {0}
  BY WithNew, ThrottlingAssumption DEF New, Failure
<1>2. Same(F, now) = {} /\ Within({}, now) = {} /\ Same({}, now) = {}
  BY <1>1 DEF Same, Within
<1>3. With(Within({}, now), now) = {new}
  BY <1>2, WithNew DEF New
<1> HIDE DEF new, N
<1>4. \A f \in Remembered(N) : f = new
  BY <1>1 DEF Remembered
<1>5. new \in Remembered(N)
  BY <1>1 DEF Remembered
<1>6. QED
  BY <1>3, <1>4, <1>5 DEF N

LEMMA RememberedClose ==
  ASSUME NEW F
  PROVE  Remembered(F) \subseteq F /\ Close(Remembered(F))
BY DEF Remembered, Close

-----------------------------------------------------------------------------
(***************************************************************************)
(* The inductive invariant.  No time is from the future or older than a    *)
(* wait; the map is finite and at most full; and an entry holds exactly    *)
(* the failures that count, while an address without an entry has none     *)
(* that could count with one recorded from now on.                         *)
(***************************************************************************)
Timely(t) == t <= clock /\ clock <= t + MaxWait

TimesSane ==
  /\ sweep # Waiting => Timely(sweep)
  /\ \A r \in Request : requests[r].at = "recording" => Timely(requests[r].now)

Book(ip) ==
  /\ Numbered(recent[ip])
  /\ Cardinality(recent[ip]) < MaxFails
  /\ Close(recent[ip])
  /\ \A f \in recent[ip] : f.at <= clock
  /\ ip \in DOMAIN entries =>
       /\ entries[ip].failures = recent[ip]
       /\ \A f \in recent[ip] : f.at <= entries[ip].lastSeen + MaxWait
  /\ ip \notin DOMAIN entries =>
       \A f \in recent[ip] : f.at + Window + MaxWait < clock

IInv ==
  /\ TypeOK
  /\ TimesSane
  /\ \A ip \in Ip : Book(ip)
  /\ IsFiniteSet(DOMAIN entries)
  /\ CapKept

LEMMA InitSane == Init => IInv
<1>1. SUFFICES ASSUME Init
               PROVE  IInv
  OBVIOUS
<1>2. DOMAIN entries = {}
  BY <1>1 DEF Init
<1>3. IsFiniteSet(DOMAIN entries) /\ CapKept
  BY <1>2, FS_EmptySet, ThrottlingAssumption DEF CapKept
<1>4. \A r \in Request : requests[r] = Idle /\ requests[r].at = "idle"
  BY <1>1 DEF Init, Idle
<1>5. TypeOK
  BY <1>1, <1>2, <1>4 DEF Init, TypeOK, Waiting
<1>6. \A ip \in Ip : Book(ip)
  BY <1>1, <1>2, EmptyNumbered, ThrottlingAssumption DEF Init, Book, Close
<1>7. QED
  BY <1>1, <1>3, <1>4, <1>5, <1>6 DEF Init, IInv, TimesSane

\* What is evicted is one entry, and only from a full map.
LEMMA EvictionMeans ==
  ASSUME NEW ip, NEW evicted \in Evictions(ip)
  PROVE  \/ evicted = {} /\ ~ (/\ ip \notin DOMAIN entries
                               /\ Cardinality(DOMAIN entries) >= MaxEntries)
         \/ \E victim \in Evictable :
              /\ evicted = {victim}
              /\ ip \notin DOMAIN entries
              /\ Cardinality(DOMAIN entries) >= MaxEntries
BY DEF Evictions

\* Making room first and inserting then keeps the cap.
LEMMA RecordCap ==
  ASSUME IInv, NEW r \in Request, RecordFailure(r)
  PROVE  IsFiniteSet(DOMAIN entries') /\ Cardinality(DOMAIN entries') <= MaxEntries
<1> DEFINE ip == requests[r].ip
           ips == DOMAIN entries
<1>1. PICK evicted \in Evictions(ip) : DOMAIN entries' = (ips \ evicted) \cup {ip}
  BY DEF RecordFailure
<1>2. /\ IsFiniteSet(ips)
      /\ Cardinality(ips) \in Nat
      /\ Cardinality(ips) <= MaxEntries
      /\ MaxEntries \in Nat \ {0}
  BY FS_CardinalityType, ThrottlingAssumption DEF IInv, CapKept
<1>3. CASE ip \in ips
  <2>1. evicted = {}
    BY <1>3, EvictionMeans
  <2>2. DOMAIN entries' = ips
    BY <1>1, <1>3, <2>1
  <2>3. QED
    BY <1>2, <2>2
<1>4. CASE ip \notin ips /\ evicted = {}
  <2>1. Cardinality(ips) < MaxEntries
    BY <1>2, <1>4, EvictionMeans
  <2>2. DOMAIN entries' = ips \cup {ip}
    BY <1>1, <1>4
  <2>3. /\ IsFiniteSet(ips \cup {ip})
        /\ Cardinality(ips \cup {ip}) = Cardinality(ips) + 1
    BY <1>2, <1>4, FS_AddElement
  <2>4. QED
    BY <1>2, <2>1, <2>2, <2>3
<1>5. ASSUME NEW victim \in Evictable, evicted = {victim}, ip \notin ips
      PROVE  IsFiniteSet(DOMAIN entries') /\ Cardinality(DOMAIN entries') <= MaxEntries
  <2>1. victim \in ips
    BY <1>5 DEF Evictable
  <2>2. /\ IsFiniteSet(ips \ {victim})
        /\ Cardinality(ips \ {victim}) = Cardinality(ips) - 1
    BY <1>2, <2>1, FS_RemoveElement
  <2>3. /\ IsFiniteSet((ips \ {victim}) \cup {ip})
        /\ Cardinality((ips \ {victim}) \cup {ip})
             = Cardinality(ips \ {victim}) + 1
    BY <1>5, <2>2, FS_AddElement
  <2>4. DOMAIN entries' = (ips \ {victim}) \cup {ip}
    BY <1>1, <1>5
  <2>5. QED
    BY <1>2, <2>2, <2>3, <2>4
<1>6. QED
  BY <1>3, <1>4, <1>5, EvictionMeans

-----------------------------------------------------------------------------
(***************************************************************************)
(* Recording a failure.                                                    *)
(***************************************************************************)
EntryOf(ip) == IF ip \in DOMAIN entries THEN entries[ip] ELSE Fresh

Kept(ip, now) == With(Within(EntryOf(ip).failures, now), now)

\* RecordFailure in the terms of the lemmas above.
LEMMA RecordMeans ==
  ASSUME IInv, NEW r \in Request, RecordFailure(r)
  PROVE  LET ip == requests[r].ip
             now == requests[r].now
         IN  /\ ip \in Ip /\ now \in Nat /\ Timely(now)
             /\ \E evicted \in Evictions(ip) :
                  /\ entries' = [i \in (DOMAIN entries \ evicted) \cup {ip} |->
                                   IF i = ip THEN Failed(EntryOf(ip), now)
                                             ELSE entries[i]]
                  /\ recent' = [i \in Ip |->
                       IF i = ip
                       THEN IF Locks(EntryOf(ip), now) THEN {}
                            ELSE Remembered(With(recent[i], now))
                       ELSE IF i \in evicted THEN {} ELSE recent[i]]
             /\ Step(r, Idle)
             /\ UNCHANGED <<clock, sweep>>
<1>1. requests[r].at = "recording"
  BY DEF RecordFailure
<1>2. requests[r].ip \in Ip /\ requests[r].now \in Nat
  BY <1>1 DEF IInv, TypeOK, Idle
<1>3. Timely(requests[r].now)
  BY <1>1 DEF IInv, TimesSane
<1>4. QED
  BY <1>2, <1>3 DEF RecordFailure, EntryOf

\* The failures the entry keeps are those that count.
LEMMA KeptCounts ==
  ASSUME IInv, NEW ip \in Ip, NEW now \in Nat, Timely(now)
  PROVE  /\ Kept(ip, now) = Remembered(With(recent[ip], now))
         /\ Numbered(Kept(ip, now))
         /\ Close(Kept(ip, now))
         /\ \A f \in Kept(ip, now) : f.at <= clock /\ f.at <= now + MaxWait
         /\ Cardinality(Kept(ip, now)) \in Nat
<1> DEFINE F == recent[ip]
<1>1. /\ Book(ip) /\ Numbered(F) /\ F \subseteq Failure /\ Close(F)
      /\ clock \in Nat /\ \A f \in F : f.at <= clock /\ f.at \in Nat
  BY DEF IInv, TypeOK, Book, Numbered, Failure
<1>2. now <= clock /\ clock <= now + MaxWait /\ MaxWait \in Nat /\ Window \in Nat
  BY ThrottlingAssumption DEF Timely
<1>3. Kept(ip, now) = Remembered(With(F, now))
  <2>1. CASE ip \in DOMAIN entries
    <3>1. EntryOf(ip).failures = F
      BY <1>1, <2>1 DEF EntryOf, Book
    <3>2. \A f \in F : f.at <= now + MaxWait
      BY <1>1, <1>2
    <3>3. QED
      BY <1>1, <3>1, <3>2, RecordedSame DEF Kept
  <2>2. CASE ip \notin DOMAIN entries
    <3>1. EntryOf(ip).failures = {}
      BY <2>2 DEF EntryOf, Fresh
    <3>2. \A f \in F : f.at + Window < now
      BY <1>1, <1>2, <2>2 DEF Book
    <3>3. QED
      BY <1>1, <3>1, <3>2, RecordedNew DEF Kept
  <2>3. QED
    BY <2>1, <2>2
<1>4. Numbered(EntryOf(ip).failures)
  BY <1>1, EmptyNumbered DEF EntryOf, Fresh, Book
<1>5. Numbered(Kept(ip, now))
  BY <1>4, WithinNumbered, WithNumbered DEF Kept
<1>6. /\ Close(Kept(ip, now))
      /\ Kept(ip, now) \subseteq With(F, now)
  BY <1>3, RememberedClose
<1>7. ASSUME NEW f \in Kept(ip, now)
      PROVE  f.at <= clock /\ f.at <= now + MaxWait
  <2>1. f \in F \/ f.at = now
    BY <1>6, <1>7, WithNew DEF New
  <2>2. QED
    BY <1>1, <1>2, <2>1
<1>8. QED
  BY <1>3, <1>5, <1>6, <1>7, FS_CardinalityType DEF Numbered

LEMMA FailedMeans ==
  ASSUME NEW ip, NEW now
  PROVE  /\ Locks(EntryOf(ip), now) <=> Cardinality(Kept(ip, now)) >= MaxFails
         /\ Failed(EntryOf(ip), now) =
              IF Locks(EntryOf(ip), now)
              THEN [failures |-> {}, lockedUntil |-> now + Lockout,
                    lastSeen |-> now]
              ELSE [failures |-> Kept(ip, now),
                    lockedUntil |-> EntryOf(ip).lockedUntil, lastSeen |-> now]
BY DEF Locks, Failed, Kept

LEMMA RecordBooks ==
  ASSUME IInv, NEW r \in Request, RecordFailure(r), NEW i \in Ip
  PROVE  Book(i)'
<1> DEFINE ip == requests[r].ip
           now == requests[r].now
<1>1. /\ ip \in Ip /\ now \in Nat /\ Timely(now) /\ UNCHANGED clock
      /\ clock \in Nat /\ MaxWait \in Nat
  BY RecordMeans, ThrottlingAssumption DEF IInv, TypeOK
<1>2. PICK evicted \in Evictions(ip) :
        /\ entries' = [k \in (DOMAIN entries \ evicted) \cup {ip} |->
                         IF k = ip THEN Failed(EntryOf(ip), now) ELSE entries[k]]
        /\ recent' = [k \in Ip |->
             IF k = ip
             THEN IF Locks(EntryOf(ip), now) THEN {}
                  ELSE Remembered(With(recent[k], now))
             ELSE IF k \in evicted THEN {} ELSE recent[k]]
  BY RecordMeans
<1> HIDE DEF ip, now
<1>3. CASE i = ip /\ Locks(EntryOf(ip), now)
  <2>1. /\ recent'[i] = {}
        /\ i \in DOMAIN entries'
        /\ entries'[i].failures = {}
    BY <1>1, <1>2, <1>3, FailedMeans
  <2>2. QED
    BY <2>1, EmptyNumbered, ThrottlingAssumption DEF Book, Close
<1>4. CASE i = ip /\ ~ Locks(EntryOf(ip), now)
  <2>1. recent'[i] = Kept(ip, now)
    BY <1>1, <1>2, <1>4, KeptCounts
  <2>2. i \in DOMAIN entries' /\ entries'[i] = Failed(EntryOf(ip), now)
    BY <1>2, <1>4
  <2>3. /\ entries'[i].failures = Kept(ip, now)
        /\ entries'[i].lastSeen = now
    BY <1>4, <2>2, FailedMeans
  <2>4. Cardinality(Kept(ip, now)) < MaxFails
    BY <1>1, <1>4, KeptCounts, FailedMeans, ThrottlingAssumption
  <2>5. QED
    BY <1>1, <2>1, <2>2, <2>3, <2>4, KeptCounts DEF Book
<1>5. CASE i # ip /\ i \in evicted
  <2>1. recent'[i] = {} /\ i \notin DOMAIN entries'
    BY <1>2, <1>5
  <2>2. QED
    BY <2>1, EmptyNumbered, ThrottlingAssumption DEF Book, Close
<1>6. CASE i # ip /\ i \notin evicted
  <2>1. /\ recent'[i] = recent[i]
        /\ i \in DOMAIN entries' <=> i \in DOMAIN entries
        /\ i \in DOMAIN entries => entries'[i] = entries[i]
    BY <1>2, <1>6
  <2>2. Book(i)
    BY DEF IInv
  <2>3. QED
    BY <1>1, <2>1, <2>2 DEF Book
<1>7. QED
  BY <1>3, <1>4, <1>5, <1>6

LEMMA RecordType ==
  ASSUME IInv, NEW r \in Request, RecordFailure(r), \A i \in Ip : Book(i)'
  PROVE  TypeOK'
<1> DEFINE ip == requests[r].ip
           now == requests[r].now
<1>1. /\ ip \in Ip /\ now \in Nat /\ Timely(now) /\ UNCHANGED <<clock, sweep>>
      /\ requests' = [requests EXCEPT ![r] = Idle]
  BY RecordMeans DEF Step
<1>2. PICK evicted \in Evictions(ip) :
        /\ entries' = [k \in (DOMAIN entries \ evicted) \cup {ip} |->
                         IF k = ip THEN Failed(EntryOf(ip), now) ELSE entries[k]]
        /\ DOMAIN recent' = Ip
        /\ recent' = [k \in Ip |-> recent'[k]]
  BY RecordMeans
<1> HIDE DEF ip, now
<1>3. recent' \in [Ip -> SUBSET Failure]
  BY <1>2 DEF Book, Numbered
<1>4. DOMAIN entries' \subseteq Ip
  BY <1>1, <1>2 DEF IInv, TypeOK
<1>5. Failed(EntryOf(ip), now) \in Entry
  <2>1. now + Lockout \in Nat /\ {} \subseteq Failure
    BY <1>1, ThrottlingAssumption
  <2>2. EntryOf(ip).lockedUntil \in Nat
    BY DEF EntryOf, Fresh, IInv, TypeOK, Entry
  <2>3. Kept(ip, now) \subseteq Failure
    BY <1>1, KeptCounts DEF Numbered
  <2>4. QED
    BY <1>1, <2>1, <2>2, <2>3, FailedMeans DEF Entry
<1>6. \A i \in DOMAIN entries' : entries'[i] \in Entry
  BY <1>2, <1>5 DEF IInv, TypeOK
<1>7. requests' \in [Request -> {Idle} \cup [at : {"allowed"}, ip : Ip]
                                \cup [at : {"recording"}, ip : Ip, now : Nat]]
  BY <1>1 DEF IInv, TypeOK
<1>8. QED
  BY <1>1, <1>3, <1>4, <1>6, <1>7 DEF IInv, TypeOK

-----------------------------------------------------------------------------
\* Time passes: a wait that is over would have stopped it.
LEMMA TickTimes ==
  ASSUME IInv, Tick
  PROVE  TimesSane'
BY ThrottlingAssumption DEF Tick, IInv, TypeOK, TimesSane, Timely, Waiting, Idle

\* What a sweep drops cannot count any more.
LEMMA SweepBooks ==
  ASSUME IInv, Sweep, NEW i \in Ip
  PROVE  Book(i)'
<1>1. /\ recent' = recent /\ clock' = clock
      /\ entries' = [ip \in {k \in DOMAIN entries : ~ IdleLong(k)} |-> entries[ip]]
      /\ Book(i)
  BY DEF Sweep, IInv
<1>2. CASE i \in DOMAIN entries /\ IdleLong(i)
  <2>1. i \notin DOMAIN entries'
    BY <1>1, <1>2
  <2>2. /\ sweep \in Nat /\ clock \in Nat /\ clock <= sweep + MaxWait /\ sweep <= clock
        /\ entries[i].lastSeen \in Nat
        /\ entries[i].lastSeen < sweep - Stale
    BY <1>2 DEF Sweep, IInv, TypeOK, TimesSane, Timely, IdleLong, Entry
  <2>3. ASSUME NEW f \in recent[i]
        PROVE  f.at + Window + MaxWait < clock
    <3>1. f.at \in Nat /\ f.at <= entries[i].lastSeen + MaxWait
      BY <1>1, <1>2, <2>3 DEF Book, Numbered, Failure
    <3>2. QED
      BY <2>2, <3>1, ThrottlingAssumption
  <2>4. QED
    BY <1>1, <2>1, <2>3 DEF Book
<1>3. CASE i \notin DOMAIN entries \/ ~ IdleLong(i)
  BY <1>1, <1>3 DEF Book
<1>4. QED
  BY <1>2, <1>3

LEMMA InvariantStep ==
  ASSUME IInv, [Next]_vars
  PROVE  IInv'
<1>1. CASE UNCHANGED vars
  BY <1>1 DEF vars, IInv, TypeOK, TimesSane, Timely, Book, CapKept
<1>2. ASSUME UNCHANGED <<clock, entries, recent>>
      PROVE  /\ \A ip \in Ip : Book(ip)'
             /\ IsFiniteSet(DOMAIN entries') /\ CapKept'
  BY <1>2 DEF IInv, Book, CapKept
<1>3. ASSUME NEW r \in Request, Check(r)
      PROVE  IInv'
  <2>1. PICK ip \in Ip : requests' = [requests EXCEPT ![r] =
                                        [at |-> "allowed", ip |-> ip]]
    BY <1>3 DEF Check, Step
  <2>2. TypeOK' /\ TimesSane'
    BY <1>3, <2>1 DEF Check, IInv, TypeOK, TimesSane, Timely
  <2>3. QED
    BY <1>2, <1>3, <2>2 DEF Check, IInv
<1>4. ASSUME NEW r \in Request, ReadClock(r)
      PROVE  IInv'
  <2>1. /\ requests[r].ip \in Ip
        /\ requests' = [requests EXCEPT ![r] =
             [at |-> "recording", ip |-> requests[r].ip, now |-> clock]]
    BY <1>4 DEF ReadClock, Step, IInv, TypeOK, Idle
  <2>2. clock \in Nat /\ Timely(clock) /\ UNCHANGED <<clock, sweep, entries, recent>>
    BY <1>4, ThrottlingAssumption DEF ReadClock, IInv, TypeOK, Timely
  <2>3. TypeOK'
    BY <2>1, <2>2 DEF IInv, TypeOK
  <2>4. TimesSane'
    BY <2>1, <2>2 DEF IInv, TypeOK, TimesSane, Timely
  <2>5. QED
    BY <1>2, <2>2, <2>3, <2>4 DEF IInv
<1>5. ASSUME NEW r \in Request, RecordFailure(r)
      PROVE  IInv'
  <2>1. \A ip \in Ip : Book(ip)'
    BY <1>5, RecordBooks
  <2>2. TypeOK'
    BY <1>5, <2>1, RecordType
  <2>3. IsFiniteSet(DOMAIN entries') /\ CapKept'
    BY <1>5, RecordCap DEF CapKept
  <2>4. TimesSane'
    BY <1>5, RecordMeans DEF Step, IInv, TypeOK, TimesSane, Timely, Idle
  <2>5. QED
    BY <2>1, <2>2, <2>3, <2>4 DEF IInv
<1>6. CASE SweeperWakes
  <2>1. TypeOK' /\ TimesSane'
    BY <1>6, ThrottlingAssumption
       DEF SweeperWakes, IInv, TypeOK, TimesSane, Timely
  <2>2. QED
    BY <1>2, <1>6, <2>1 DEF SweeperWakes, IInv
<1>7. CASE Sweep
  <2>1. /\ DOMAIN entries' \subseteq DOMAIN entries
        /\ \A ip \in DOMAIN entries' : entries'[ip] = entries[ip]
    BY <1>7 DEF Sweep
  <2>2. /\ IsFiniteSet(DOMAIN entries')
        /\ Cardinality(DOMAIN entries') <= Cardinality(DOMAIN entries)
    BY <2>1, FS_Subset DEF IInv
  <2>3. CapKept'
    <3>1. /\ Cardinality(DOMAIN entries') \in Nat
          /\ Cardinality(DOMAIN entries) \in Nat
      BY <2>2, FS_CardinalityType DEF IInv
    <3>2. QED
      BY <2>2, <3>1, ThrottlingAssumption DEF IInv, CapKept
  <2>4. TypeOK' /\ TimesSane'
    BY <1>7, <2>1 DEF Sweep, IInv, TypeOK, TimesSane, Timely
  <2>5. QED
    BY <1>7, <2>2, <2>3, <2>4, SweepBooks DEF IInv
<1>8. CASE Tick
  <2>1. clock \in Nat /\ clock' = clock + 1 /\ MaxWait \in Nat /\ Window \in Nat
        /\ UNCHANGED <<entries, recent, requests, sweep>>
    BY <1>8, ThrottlingAssumption DEF Tick, IInv, TypeOK
  <2>2. ASSUME NEW ip \in Ip
        PROVE  Book(ip)'
    <3>1. Book(ip) /\ \A f \in recent[ip] : f.at \in Nat
      BY DEF IInv, Book, Numbered, Failure
    <3>2. QED
      BY <2>1, <3>1 DEF Book
  <2>3. TypeOK' /\ CapKept'
    BY <2>1 DEF IInv, TypeOK, CapKept
  <2>4. QED
    BY <1>8, <2>1, <2>2, <2>3, TickTimes DEF IInv
<1>9. QED
  BY <1>1, <1>3, <1>4, <1>5, <1>6, <1>7, <1>8 DEF Next

\* The map holds exactly what counts, and no time is out of bounds.
THEOREM InvariantHolds == Spec => []IInv
BY InitSane, InvariantStep, PTL DEF Spec

\* Entries, requests and times stay well formed.
THEOREM TypeCorrect == Spec => []TypeOK
<1>1. IInv => TypeOK
  BY DEF IInv
<1>2. QED
  BY <1>1, InvariantHolds, PTL

\* The map never grows over its cap, whichever requests record together.
THEOREM CapHolds == Spec => []CapKept
<1>1. IInv => CapKept
  BY DEF IInv
<1>2. QED
  BY <1>1, InvariantHolds, PTL

\* MaxFails failures within a window lock the address, whatever the order in
\* which their times are recorded and whenever a sweep runs in between.
THEOREM BurstsDoLock == Spec => []BurstsLock
<1>1. IInv => BurstsLock
  BY DEF IInv, Book, BurstsLock
<1>2. QED
  BY <1>1, InvariantHolds, PTL

\* A lock is set by the last of MaxFails failures that count.
THEOREM LocksAreDeserved == Spec => LocksDeserved
<1>1. ASSUME IInv, [Next]_vars
      PROVE  DeservesLocks
  <2>1. SUFFICES ASSUME NEW i \in DOMAIN entries', entries'[i].lockedUntil > 0,
                        i \in DOMAIN entries =>
                          entries'[i].lockedUntil # entries[i].lockedUntil
                 PROVE  Cardinality(recent[i]) + 1 >= MaxFails
    BY DEF DeservesLocks
  <2>2. ASSUME NEW r \in Request, RecordFailure(r)
        PROVE  Cardinality(recent[i]) + 1 >= MaxFails
    <3> DEFINE ip == requests[r].ip
               now == requests[r].now
    <3>1. ip \in Ip /\ now \in Nat /\ Timely(now)
      BY <1>1, <2>2, RecordMeans
    <3>2. PICK evicted \in Evictions(ip) :
            entries' = [k \in (DOMAIN entries \ evicted) \cup {ip} |->
                          IF k = ip THEN Failed(EntryOf(ip), now) ELSE entries[k]]
      BY <1>1, <2>2, RecordMeans
    <3> HIDE DEF ip, now
    <3>3. i = ip
      BY <2>1, <3>2
    <3>4. entries'[i] = Failed(EntryOf(ip), now)
      BY <3>2, <3>3
    <3>5. Locks(EntryOf(ip), now)
      <4>1. SUFFICES ASSUME ~ Locks(EntryOf(ip), now)
                     PROVE  FALSE
        OBVIOUS
      <4>2. entries'[i].lockedUntil = EntryOf(ip).lockedUntil
        BY <3>4, <4>1, FailedMeans
      <4>3. QED
        BY <2>1, <3>3, <4>2 DEF EntryOf, Fresh
    <3>6. Cardinality(Kept(ip, now)) >= MaxFails
      BY <3>5, FailedMeans
    <3>7. /\ Numbered(With(recent[ip], now))
          /\ Cardinality(With(recent[ip], now)) = Cardinality(recent[ip]) + 1
      BY <1>1, <3>1, WithNumbered DEF IInv, Book
    <3>8. Kept(ip, now) \in SUBSET With(recent[ip], now)
      BY <1>1, <3>1, KeptCounts, RememberedClose
    <3>9. Cardinality(Kept(ip, now)) <= Cardinality(With(recent[ip], now))
      BY <3>7, <3>8, FS_Subset DEF Numbered
    <3>10. /\ Cardinality(Kept(ip, now)) \in Nat
           /\ Cardinality(With(recent[ip], now)) \in Nat
      BY <1>1, <3>1, <3>7, KeptCounts, FS_CardinalityType DEF Numbered
    <3>11. QED
      BY <3>3, <3>6, <3>7, <3>9, <3>10, ThrottlingAssumption
  <2>3. ASSUME UNCHANGED entries
        PROVE  FALSE
    BY <2>1, <2>3
  <2>4. ASSUME Sweep
        PROVE  FALSE
    BY <2>1, <2>4 DEF Sweep
  <2>5. QED
    BY <1>1, <2>2, <2>3, <2>4
       DEF Next, vars, Check, ReadClock, SweeperWakes, Tick
<1>2. QED
  BY <1>1, InvariantHolds, PTL DEF Spec, LocksDeserved

\* A lockout is ended neither by a sweep, with however old a time, nor by an
\* eviction while another entry can go.
THEOREM LockoutsHold == Spec => LockoutsKept
<1>1. ASSUME IInv, [Next]_vars
      PROVE  KeepsLockouts
  <2>1. SUFFICES ASSUME NEW ip \in DOMAIN entries \ DOMAIN entries', Locked(ip)
                 PROVE  /\ \A other \in DOMAIN entries : Locked(other)
                        /\ Cardinality(DOMAIN entries) >= MaxEntries
                        /\ DOMAIN entries' \ DOMAIN entries # {}
    BY DEF KeepsLockouts
  <2>2. ASSUME NEW r \in Request, RecordFailure(r)
        PROVE  /\ \A other \in DOMAIN entries : Locked(other)
               /\ Cardinality(DOMAIN entries) >= MaxEntries
               /\ DOMAIN entries' \ DOMAIN entries # {}
    <3> DEFINE new == requests[r].ip
    <3>1. PICK evicted \in Evictions(new) :
            DOMAIN entries' = (DOMAIN entries \ evicted) \cup {new}
      BY <2>2 DEF RecordFailure
    <3>2. ip \in evicted
      BY <2>1, <3>1
    <3>3. /\ ip \in Evictable
          /\ new \notin DOMAIN entries
          /\ Cardinality(DOMAIN entries) >= MaxEntries
      BY <3>2, EvictionMeans
    <3>4. \A other \in DOMAIN entries : Locked(other)
      BY <2>1, <3>3 DEF Evictable
    <3>5. QED
      BY <3>1, <3>3, <3>4
  <2>3. ASSUME Sweep
        PROVE  FALSE
    <3>1. IdleLong(ip)
      BY <2>1, <2>3 DEF Sweep
    <3>2. /\ sweep \in Nat
          /\ sweep <= clock
          /\ clock \in Nat
          /\ entries[ip].lockedUntil \in Nat
      BY <1>1, <2>1, <2>3 DEF IInv, TypeOK, TimesSane, Timely, Entry, Sweep
    <3>3. QED
      BY <2>1, <3>1, <3>2 DEF IdleLong, Locked
  <2>4. ASSUME UNCHANGED entries
        PROVE  FALSE
    BY <2>1, <2>4
  <2>5. QED
    BY <1>1, <2>1, <2>2, <2>3, <2>4
       DEF Next, vars, Check, ReadClock, SweeperWakes, Tick
<1>2. QED
  BY <1>1, InvariantHolds, PTL DEF Spec, LockoutsKept
=============================================================================
