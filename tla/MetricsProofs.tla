--------------------------- MODULE MetricsProofs ----------------------------
(***************************************************************************)
(* The counters are right for every number of messages, callers and jobs   *)
(* and for every batch size.  The invariant has two halves: the rows that  *)
(* calls still have to count lie apart from each other and from those that *)
(* are lost; and a consumer that can settle a delivery was counted before, *)
(* unless the delivery repeats the receipt of one that was.                *)
(***************************************************************************)
EXTENDS Metrics, QueueDepth, TLAPS, FiniteSetTheorems

Deleted == <<"cleanup", "deleted_by_user">>

CallRecord ==
  [at : {"counting", "responding", "sweeping", "deleting"}, series : Series,
   count : Nat, rows : SUBSET Nat, receipt : Receipt \cup {NoReceipt}]

Shapes ==
  /\ Table!TypeOK /\ \A i \in Id : leased[i] => place[i] \in Queue
  /\ startedAt \in [Id -> Nat] /\ served \subseteq Receipt
  /\ repeated \in [Queue -> SUBSET Nat]
  /\ calls \in [Process -> {Idle} \cup CallRecord]
  /\ counters \in [Series -> Nat] /\ events \in [Series -> Nat]
  /\ lost \in [Series -> SUBSET Nat]
  /\ carried \in [Queue -> Nat] /\ restarted \in BOOLEAN

\* A claim that is counted, or was, but is not answered.
Consuming(p) ==
  calls[p].at \in {"counting", "responding"} /\ calls[p].series[1] = "consumed"

Sweeps == {<<"expired", <<"moved_to_dlq", "expired">>>>,
           <<"expiredDlq", <<"cleanup", "expired">>>>}

Sane(p, call) ==
  /\ call.at = "responding" => call.series[1] = "consumed"
  /\ call.at = "deleting" =>
       call.series = Deleted /\ call.rows = {} /\ call.receipt \in Receipt
  /\ call.at = "sweeping" => <<p, call.series>> \in Sweeps
  /\ call.at \in {"counting", "responding"} /\ call.series[1] = "consumed" =>
       call.receipt \in Receipt /\ call.count = 1

CallsSane == \A p \in Process : Sane(p, calls[p])

\* What a call counts are rows of its own.
RowsApart ==
  \A s \in Series :
    /\ lost[s] \subseteq 1 .. events[s]
    /\ \A p \in Process : Owes(p, s) =>
         /\ calls[p].rows \subseteq 1 .. events[s]
         /\ calls[p].rows \cap lost[s] = {}
         /\ calls[p].count >= Cardinality(calls[p].rows)
         /\ s # Deleted => calls[p].count = Cardinality(calls[p].rows)
         /\ \A q \in Process :
              q # p /\ Owes(q, s) => calls[p].rows \cap calls[q].rows = {}

\* A receipt reaches a consumer after its delivery was counted.  A claim that
\* is not counted repeats a receipt only of a delivery that was.
ReceiptsSane ==
  /\ holds \subseteq served
  /\ \A q \in Queue : repeated[q] \subseteq 1 .. events[<<"consumed", q>>]
  /\ \A p \in Process : calls[p].at = "responding" => calls[p].receipt \in served
  /\ \A p \in Process, q \in Queue :
       calls[p].at = "counting" /\ calls[p].series = <<"consumed", q>> =>
         /\ calls[p].receipt.queue = q
         /\ calls[p].rows \cap repeated[q] # {} => calls[p].receipt \in served

DeliveriesCounted ==
  \A q \in Queue :
    events[<<"acked", q>>] + events[<<"nacked", q>>]
        + Cardinality(Held(q, served))
      <= counters[<<"consumed", q>>] + carried[q] + Cardinality(Repeats(q))

IInv ==
  /\ Shapes /\ CallsSane
  /\ RowsApart /\ Accounted
  /\ ReceiptsSane /\ DeliveriesCounted

-----------------------------------------------------------------------------
(***************************************************************************)
(* Sets of rows and of messages.                                           *)
(***************************************************************************)
RowsOf(p, s) == IF Owes(p, s) THEN calls[p].rows ELSE {}

LEMMA IntervalSize ==
  ASSUME NEW e \in Nat, NEW n \in Nat
  PROVE  IsFiniteSet(e + 1 .. e + n) /\ Cardinality(e + 1 .. e + n) = n
<1> DEFINE a == e + 1
           b == e + n
<1>1. a \in Int /\ b \in Int /\ (IF a > b THEN 0 ELSE b - a + 1) = n
  OBVIOUS
<1> HIDE DEF a, b
<1>2. IsFiniteSet(a .. b) /\ Cardinality(a .. b) = n
  BY <1>1, FS_Interval
<1>3. QED
  BY <1>2 DEF a, b

LEMMA FreshRows ==
  ASSUME Shapes, NEW s \in Series, NEW n \in Nat
  PROVE  /\ IsFiniteSet(Fresh(s, n)) /\ Cardinality(Fresh(s, n)) = n
         /\ Fresh(s, n) \subseteq 1 .. events[s] + n
         /\ Fresh(s, n) \cap 1 .. events[s] = {}
<1>1. events[s] \in Nat
  BY DEF Shapes
<1>2. QED
  BY <1>1, IntervalSize DEF Fresh

LEMMA RowsFinite ==
  ASSUME NEW e \in Nat, NEW R, R \subseteq 1 .. e
  PROVE  IsFiniteSet(R) /\ Cardinality(R) \in Nat
<1>1. IsFiniteSet(1 .. e)
  BY FS_Interval
<1>2. IsFiniteSet(R)
  BY <1>1, FS_Subset
<1>3. QED
  BY <1>2, FS_CardinalityType

LEMMA RowsJoined ==
  ASSUME NEW R, NEW T, IsFiniteSet(R), IsFiniteSet(T), R \cap T = {}
  PROVE  /\ IsFiniteSet(R \cup T)
         /\ Cardinality(R \cup T) = Cardinality(R) + Cardinality(T)
<1>1. IsFiniteSet(R \cup T)
  BY FS_Union
<1>2. Cardinality(R \cup T)
        = Cardinality(R) + Cardinality(T) - Cardinality(R \cap T)
  BY FS_Union
<1>3. Cardinality(R \cap T) = 0
  BY FS_EmptySet
<1>4. Cardinality(R) \in Nat /\ Cardinality(T) \in Nat
  BY FS_CardinalityType
<1>5. QED
  BY <1>1, <1>2, <1>3, <1>4

LEMMA UncountedRows ==
  ASSUME Shapes, RowsApart, NEW s \in Series
  PROVE  /\ Uncounted(s) \subseteq 1 .. events[s]
         /\ IsFiniteSet(Uncounted(s)) /\ Cardinality(Uncounted(s)) \in Nat
<1>1. Uncounted(s) \subseteq 1 .. events[s]
  BY DEF Uncounted, RowsApart
<1>2. events[s] \in Nat
  BY DEF Shapes
<1>3. QED
  BY <1>1, <1>2, RowsFinite

LEMMA HeldFinite ==
  ASSUME NEW q, NEW R
  PROVE  IsFiniteSet(Held(q, R)) /\ Cardinality(Held(q, R)) \in Nat
BY TableAssumption, FS_Subset, FS_CardinalityType DEF Held

LEMMA OneMore ==
  ASSUME NEW H, NEW K, NEW x, IsFiniteSet(H), K \subseteq H \cup {x}
  PROVE  Cardinality(K) \in Nat /\ Cardinality(K) <= Cardinality(H) + 1
<1>1. IsFiniteSet(H \cup {x}) /\ Cardinality(H) \in Nat
  BY FS_AddElement, FS_CardinalityType
<1>2. Cardinality(H \cup {x}) <= Cardinality(H) + 1
  <2>1. CASE x \in H
    BY <1>1, <2>1, FS_AddElement
  <2>2. CASE x \notin H
    BY <1>1, <2>2, FS_AddElement
  <2>3. QED
    BY <2>1, <2>2
<1>3. IsFiniteSet(K) /\ Cardinality(K) <= Cardinality(H \cup {x})
  BY <1>1, FS_Subset
<1>4. Cardinality(K) \in Nat /\ Cardinality(H \cup {x}) \in Nat
  BY <1>1, <1>3, FS_CardinalityType
<1>5. QED
  BY <1>1, <1>2, <1>3, <1>4

LEMMA RepeatsFinite ==
  ASSUME Shapes, RowsApart, NEW q \in Queue
  PROVE  IsFiniteSet(Repeats(q)) /\ Cardinality(Repeats(q)) \in Nat
<1>1. <<"consumed", q>> \in Series
  BY DEF Series
<1>2. IsFiniteSet(Repeats(q))
  BY <1>1, UncountedRows, FS_Subset DEF Repeats
<1>3. QED
  BY <1>2, FS_CardinalityType

LEMMA CallStep ==
  ASSUME Shapes, NEW p \in Process, NEW call \in {Idle} \cup CallRecord,
         To(p, call)
  PROVE  /\ calls' \in [Process -> {Idle} \cup CallRecord]
         /\ calls'[p] = call
         /\ \A r \in Process : r # p => calls'[r] = calls[r]
BY DEF Shapes, To

-----------------------------------------------------------------------------
(***************************************************************************)
(* The first half: what becomes of rows.                                   *)
(***************************************************************************)
\* A call takes rows on, those of a statement of its own.
LEMMA RowsTaken ==
  ASSUME Shapes, RowsApart, Accounted,
         NEW p \in Process, NEW s \in Series, NEW n \in Nat,
         NEW call \in CallRecord, To(p, call),
         call.at \in {"counting", "sweeping", "deleting"}, call.series = s,
         call.rows = RowsOf(p, s) \cup Fresh(s, n),
         call.count >= Cardinality(call.rows),
         s # Deleted => call.count = Cardinality(call.rows),
         \A t \in Series : t # s => ~ Owes(p, t),
         events' = [events EXCEPT ![s] = @ + n], UNCHANGED <<counters, lost>>
  PROVE  /\ RowsApart' /\ Accounted'
         /\ \A t \in Series : t # s => Uncounted(t)' = Uncounted(t)
         /\ Uncounted(s)' = Uncounted(s) \cup Fresh(s, n)
<1>1. /\ calls'[p] = call
      /\ \A r \in Process : r # p => calls'[r] = calls[r]
  BY CallStep
<1>2. /\ events[s] \in Nat /\ events'[s] = events[s] + n
      /\ \A t \in Series : t # s => events'[t] = events[t]
  BY DEF Shapes
<1>3. /\ Fresh(s, n) \subseteq 1 .. events[s] + n
      /\ Fresh(s, n) \cap 1 .. events[s] = {}
      /\ IsFiniteSet(Fresh(s, n)) /\ Cardinality(Fresh(s, n)) = n
  BY FreshRows
<1>4. \A t \in Series : \A r \in Process :
        /\ r # p => (Owes(r, t)' <=> Owes(r, t))
        /\ Owes(p, t)' <=> t = s
  BY <1>1 DEF Owes
<1>5. /\ RowsOf(p, s) \subseteq 1 .. events[s]
      /\ RowsOf(p, s) \cap lost[s] = {}
      /\ \A q \in Process : q # p /\ Owes(q, s) => RowsOf(p, s) \cap calls[q].rows = {}
  BY DEF RowsOf, RowsApart
<1>6. RowsApart'
  <2>1. ASSUME NEW t \in Series, t # s
        PROVE  /\ lost'[t] \subseteq 1 .. events'[t]
               /\ \A r \in Process : Owes(r, t)' => calls'[r] = calls[r] /\ r # p
    BY <1>1, <1>2, <1>4, <2>1 DEF RowsApart
  <2>2. lost'[s] \subseteq 1 .. events'[s]
    BY <1>2 DEF RowsApart
  <2>3. /\ calls'[p].rows \subseteq 1 .. events'[s]
        /\ calls'[p].rows \cap lost'[s] = {}
        /\ calls'[p].count >= Cardinality(calls'[p].rows)
        /\ s # Deleted => calls'[p].count = Cardinality(calls'[p].rows)
    <3>1. lost[s] \subseteq 1 .. events[s]
      BY DEF RowsApart
    <3>2. calls'[p].rows = RowsOf(p, s) \cup Fresh(s, n)
      BY <1>1
    <3>3. /\ calls'[p].count >= Cardinality(calls'[p].rows)
          /\ s # Deleted => calls'[p].count = Cardinality(calls'[p].rows)
      BY <1>1
    <3>4. calls'[p].rows \subseteq 1 .. events'[s]
      BY <1>2, <1>3, <1>5, <3>2
    <3>5. calls'[p].rows \cap lost'[s] = {}
      BY <1>3, <1>5, <3>1, <3>2
    <3>6. QED
      BY <3>3, <3>4, <3>5
  <2>4. ASSUME NEW r \in Process, r # p, Owes(r, s)'
        PROVE  /\ calls'[r] = calls[r] /\ Owes(r, s)
               /\ calls[r].rows \subseteq 1 .. events[s]
               /\ calls'[r].rows \subseteq 1 .. events'[s]
               /\ calls'[r].rows \cap calls'[p].rows = {}
    <3>1. calls'[r] = calls[r] /\ Owes(r, s)
      BY <1>1, <1>4, <2>4
    <3>2. calls[r].rows \subseteq 1 .. events[s]
      BY <3>1 DEF RowsApart
    <3>3. QED
      BY <1>1, <1>2, <1>3, <1>5, <2>4, <3>1, <3>2
  <2>5. \A r \in Process : Owes(r, s)' =>
          /\ calls'[r].rows \subseteq 1 .. events'[s]
          /\ calls'[r].rows \cap lost'[s] = {}
          /\ calls'[r].count >= Cardinality(calls'[r].rows)
          /\ s # Deleted => calls'[r].count = Cardinality(calls'[r].rows)
    BY <2>3, <2>4 DEF RowsApart
  <2>6. \A r, q \in Process : r # q /\ Owes(r, s)' /\ Owes(q, s)' =>
          calls'[r].rows \cap calls'[q].rows = {}
    BY <2>4 DEF RowsApart
  <2>7. \A t \in Series : t # s => \A r \in Process : Owes(r, t)' =>
          /\ Owes(r, t) /\ calls'[r] = calls[r]
          /\ lost'[t] = lost[t] /\ events'[t] = events[t]
    BY <1>2, <1>4, <2>1
  <2>8. \A t \in Series : t # s => \A r \in Process : Owes(r, t)' =>
          /\ calls'[r].rows \subseteq 1 .. events'[t]
          /\ calls'[r].rows \cap lost'[t] = {}
          /\ calls'[r].count >= Cardinality(calls'[r].rows)
          /\ t # Deleted => calls'[r].count = Cardinality(calls'[r].rows)
          /\ \A q \in Process :
               q # r /\ Owes(q, t)' => calls'[r].rows \cap calls'[q].rows = {}
    BY <2>7 DEF RowsApart
  <2>9. QED
    BY <2>1, <2>2, <2>5, <2>6, <2>8 DEF RowsApart
<1>7. \A t \in Series : t # s => Uncounted(t)' = Uncounted(t)
  BY <1>1, <1>4 DEF Uncounted
<1>8. Uncounted(s)' = Uncounted(s) \cup Fresh(s, n)
  <2>1. \A x : x \in Uncounted(s)' <=>
          x \in lost[s] \/ \E r \in Process : Owes(r, s)' /\ x \in calls'[r].rows
    BY DEF Uncounted
  <2>2. \A x : x \in Uncounted(s) <=>
          x \in lost[s] \/ \E r \in Process : Owes(r, s) /\ x \in calls[r].rows
    BY DEF Uncounted
  <2>3. \A x : x \in calls'[p].rows <=>
          (Owes(p, s) /\ x \in calls[p].rows) \/ x \in Fresh(s, n)
    BY <1>1 DEF RowsOf
  <2>4. QED
    BY <1>1, <1>4, <2>1, <2>2, <2>3
<1>9. Cardinality(Uncounted(s)') = Cardinality(Uncounted(s)) + n
  <2>1. Uncounted(s) \cap Fresh(s, n) = {}
    BY <1>3, UncountedRows
  <2>2. Cardinality(Uncounted(s) \cup Fresh(s, n)) = Cardinality(Uncounted(s)) + n
    <3>1. IsFiniteSet(Uncounted(s))
      BY UncountedRows
    <3>2. IsFiniteSet(Fresh(s, n)) /\ Cardinality(Fresh(s, n)) = n
      BY <1>3
    <3>3. Cardinality(Uncounted(s) \cup Fresh(s, n))
            = Cardinality(Uncounted(s)) + Cardinality(Fresh(s, n))
      BY ONLY <2>1, <3>1, <3>2, RowsJoined
    <3>4. QED
      BY <3>2, <3>3
  <2>3. QED
    BY <1>8, <2>2
<1>10. Accounted'
  <2>1. \A t \in Series : counters[t] \in Nat /\ Cardinality(Uncounted(t)) \in Nat
    BY UncountedRows DEF Shapes
  <2>2. ASSUME NEW t \in Series
        PROVE  LET accounted == counters'[t] + Cardinality(Uncounted(t)') IN
               IF t = Deleted THEN accounted >= events'[t]
                              ELSE accounted = events'[t]
    <3>1. CASE t = s
      BY <1>2, <1>9, <2>1, <3>1 DEF Accounted, Deleted
    <3>2. CASE t # s
      BY <1>2, <1>7, <2>1, <3>2 DEF Accounted, Deleted
    <3>3. QED
      BY <3>1, <3>2
  <2>3. QED
    BY <2>2 DEF Accounted, Deleted
<1>11. QED
  BY <1>6, <1>7, <1>8, <1>10

\* A call is over: its rows are counted, or they are lost.
LEMMA RowsApartWithout ==
  ASSUME Shapes, RowsApart, NEW p \in Process, NEW s \in Series, Owes(p, s),
         \A r \in Process : r # p => calls'[r] = calls[r],
         \A t \in Series : ~ Owes(p, t)',
         lost' \in {lost, [lost EXCEPT ![s] = @ \cup calls[p].rows]},
         UNCHANGED events
  PROVE  RowsApart'
<1>1. /\ lost'[s] \subseteq lost[s] \cup calls[p].rows
      /\ \A t \in Series : t # s => lost'[t] = lost[t]
  BY DEF Shapes
<1>2. calls[p].rows \subseteq 1 .. events[s]
  BY DEF RowsApart
<1>3. \A t \in Series : \A r \in Process :
        Owes(r, t)' => r # p /\ Owes(r, t) /\ calls'[r] = calls[r]
  BY DEF Owes
<1>4. \A t \in Series : lost'[t] \subseteq 1 .. events'[t]
  BY <1>1, <1>2 DEF RowsApart
<1>5. \A r \in Process : Owes(r, s)' => calls'[r].rows \cap lost'[s] = {}
  BY <1>1, <1>3 DEF RowsApart
<1>6. QED
  BY <1>1, <1>3, <1>4, <1>5 DEF RowsApart

LEMMA RowsCounted ==
  ASSUME Shapes, RowsApart, Accounted, NEW p \in Process,
         NEW s \in Series, s = calls[p].series, Count(p)
  PROVE  /\ RowsApart' /\ Accounted'
         /\ \A t \in Series : t # s => Uncounted(t)' = Uncounted(t)
         /\ Uncounted(s) = Uncounted(s)' \cup calls[p].rows
<1> DEFINE U == Uncounted(s)'
           R == calls[p].rows
<1>1. calls[p] \in CallRecord /\ Owes(p, s)
  BY DEF Count, Shapes, Idle, CallRecord, Owes
<1>2. /\ \A r \in Process : r # p => calls'[r] = calls[r]
      /\ calls'[p].at \in {"responding", "idle"}
  BY DEF Count, To, Shapes, Idle, CallRecord
<1>3. \A t \in Series : ~ Owes(p, t)'
  BY <1>2 DEF Owes
<1>4. RowsApart'
  BY <1>1, <1>2, <1>3, RowsApartWithout DEF Count
<1>5. \A t \in Series : \A r \in Process :
        /\ r # p => (Owes(r, t)' <=> Owes(r, t))
        /\ Owes(p, t) => t = s
  BY <1>2 DEF Owes
<1>6. \A t \in Series : t # s => Uncounted(t)' = Uncounted(t)
  BY <1>2, <1>3, <1>5 DEF Count, Uncounted
<1>7. Uncounted(s) = U \cup R /\ U \cap R = {}
  <2>1. \A x : x \in U <=>
          x \in lost[s] \/ \E r \in Process : Owes(r, s)' /\ x \in calls'[r].rows
    BY DEF Count, Uncounted
  <2>2. \A x : x \in Uncounted(s) <=>
          x \in lost[s] \/ \E r \in Process : Owes(r, s) /\ x \in calls[r].rows
    BY DEF Uncounted
  <2>3. \A x : x \in U <=>
          \/ x \in lost[s]
          \/ \E r \in Process : r # p /\ Owes(r, s) /\ x \in calls[r].rows
    BY <1>1, <1>2, <1>3, <1>5, <2>1
  <2>4. Uncounted(s) = U \cup R
    BY <1>1, <2>2, <2>3
  <2>5. U \cap R = {}
    BY <1>1, <2>3 DEF RowsApart
  <2>6. QED
    BY <2>4, <2>5
<1>8. Cardinality(Uncounted(s)) = Cardinality(U) + Cardinality(R)
  <2>1. IsFiniteSet(Uncounted(s))
    BY <1>1, UncountedRows
  <2>2. IsFiniteSet(U) /\ IsFiniteSet(R)
    BY <1>7, <2>1, FS_Subset
  <2> HIDE DEF U, R
  <2>3. QED
    BY <1>7, <2>2, RowsJoined
<1>9. /\ counters' = [counters EXCEPT ![s] = @ + calls[p].count]
      /\ UNCHANGED events
  BY DEF Count
<1>10. /\ calls[p].count >= Cardinality(R)
       /\ s # Deleted => calls[p].count = Cardinality(R)
  BY <1>1 DEF RowsApart
<1>11. /\ Cardinality(U) \in Nat /\ Cardinality(R) \in Nat /\ calls[p].count \in Nat
       /\ counters[s] \in Nat /\ events[s] \in Nat
       /\ counters'[s] = counters[s] + calls[p].count
  <2>1. IsFiniteSet(Uncounted(s))
    BY <1>1, UncountedRows
  <2>2. IsFiniteSet(U) /\ IsFiniteSet(R)
    BY <1>7, <2>1, FS_Subset
  <2>3. Cardinality(U) \in Nat /\ Cardinality(R) \in Nat
    BY <2>2, FS_CardinalityType
  <2>4. QED
    BY <1>1, <1>9, <2>3 DEF Shapes, CallRecord
<1>12. Accounted'
  <2>1. ASSUME NEW t \in Series, t # s
        PROVE  counters'[t] = counters[t] /\ Uncounted(t)' = Uncounted(t)
    BY <1>1, <1>6, <1>9, <2>1 DEF Shapes
  <2>2. IF s = Deleted THEN counters'[s] + Cardinality(U) >= events'[s]
                       ELSE counters'[s] + Cardinality(U) = events'[s]
    <3>1. IF s = Deleted THEN counters[s] + Cardinality(Uncounted(s)) >= events[s]
                         ELSE counters[s] + Cardinality(Uncounted(s)) = events[s]
      BY <1>1 DEF Accounted, Deleted
    <3> HIDE DEF U, R
    <3>2. QED
      BY <3>1, <1>8, <1>9, <1>10, <1>11
  <2>3. QED
    BY <1>9, <2>1, <2>2 DEF Accounted, Deleted
<1>13. QED
  BY <1>4, <1>6, <1>7, <1>12

LEMMA RowsLost ==
  ASSUME Shapes, RowsApart, Accounted, NEW p \in Process, NEW s \in Series,
         Owes(p, s), To(p, Idle),
         lost' = [lost EXCEPT ![s] = @ \cup calls[p].rows],
         UNCHANGED <<counters, events>>
  PROVE  /\ RowsApart' /\ Accounted'
         /\ \A t \in Series : Uncounted(t)' = Uncounted(t)
<1>1. /\ \A r \in Process : r # p => calls'[r] = calls[r]
      /\ calls'[p] = Idle
  BY CallStep
<1>2. \A t \in Series : ~ Owes(p, t)'
  BY <1>1 DEF Owes, Idle
<1>3. RowsApart'
  BY <1>1, <1>2, RowsApartWithout
<1>4. \A t \in Series : \A r \in Process :
        /\ r # p => (Owes(r, t)' <=> Owes(r, t))
        /\ Owes(p, t) => t = s
  BY <1>1 DEF Owes
<1>5. \A t \in Series : Uncounted(t)' = Uncounted(t)
  <2> SUFFICES ASSUME NEW t \in Series, NEW x
               PROVE  x \in Uncounted(t)' <=> x \in Uncounted(t)
    OBVIOUS
  <2>1. x \in Uncounted(t)' <=>
          x \in lost'[t] \/ \E r \in Process : Owes(r, t)' /\ x \in calls'[r].rows
    BY DEF Uncounted
  <2>2. x \in Uncounted(t) <=>
          x \in lost[t] \/ \E r \in Process : Owes(r, t) /\ x \in calls[r].rows
    BY DEF Uncounted
  <2>3. lost'[t] = IF t = s THEN lost[t] \cup calls[p].rows ELSE lost[t]
    BY DEF Shapes
  <2>4. QED
    BY <1>1, <1>2, <1>4, <2>1, <2>2, <2>3
<1>6. Accounted'
  BY <1>5 DEF Accounted
<1>7. QED
  BY <1>3, <1>5, <1>6

LEMMA RowsSame ==
  ASSUME RowsApart, Accounted, UNCHANGED <<counters, events, lost>>,
         \A r \in Process : \A t \in Series :
           /\ Owes(r, t)' <=> Owes(r, t)
           /\ Owes(r, t) => /\ calls'[r].rows = calls[r].rows
                            /\ calls'[r].count = calls[r].count
  PROVE  /\ RowsApart' /\ Accounted'
         /\ \A t \in Series : Uncounted(t)' = Uncounted(t)
<1>1. \A t \in Series : Uncounted(t)' = Uncounted(t)
  BY DEF Uncounted
<1>2. Accounted'
  BY <1>1 DEF Accounted
<1>3. RowsApart'
  BY DEF RowsApart
<1>4. QED
  BY <1>1, <1>2, <1>3

-----------------------------------------------------------------------------
(***************************************************************************)
(* The second half: what becomes of deliveries.                            *)
(***************************************************************************)
\* No lease begins, and no leased message moves.
NoLease == \A i \in Id : leased'[i] => leased[i] /\ place'[i] = place[i]

LEMMA GoEndsLeases ==
  ASSUME Table!TypeOK, NEW S \in SUBSET Id, NEW there \in Table!Place,
         Table!Go(S, there), MaxDeliveryAttempts \in Nat
  PROVE  Table!TypeOK' /\ NoLease /\ \A i \in S : ~ leased'[i]
<1>1. place' \in [Id -> Table!Place]
  BY DEF Table!Go, Table!TypeOK
<1>2. leased' \in [Id -> BOOLEAN]
  BY DEF Table!Go, Table!TypeOK
<1>3. tries' \in [Id -> 0 .. MaxDeliveryAttempts]
  BY DEF Table!Go, Table!TypeOK
<1>4. NoLease /\ \A i \in S : ~ leased'[i]
  BY DEF Table!Go, Table!TypeOK, NoLease
<1>5. QED
  BY <1>1, <1>2, <1>3, <1>4 DEF Table!TypeOK

LEMMA ReleaseEndsLeases ==
  ASSUME Table!TypeOK, NEW S \in SUBSET Id, Table!Release(S)
  PROVE  Table!TypeOK' /\ NoLease /\ \A i \in S : ~ leased'[i]
BY DEF Table!Release, Table!TypeOK, NoLease

\* No call becomes a claim, or the answer of one.
NoClaim == \A r \in Process : Consuming(r)' => calls'[r] = calls[r]

\* The claims and the rows they owe are those before.
SameClaims ==
  /\ NoClaim /\ holds' \subseteq served
  /\ UNCHANGED <<startedAt, served, repeated>>
  /\ \A q \in Queue :
       /\ events'[<<"consumed", q>>] = events[<<"consumed", q>>]
       /\ counters'[<<"consumed", q>>] = counters[<<"consumed", q>>]
       /\ Uncounted(<<"consumed", q>>)' = Uncounted(<<"consumed", q>>)

LEMMA ReceiptsKept ==
  ASSUME CallsSane', ReceiptsSane, SameClaims
  PROVE  ReceiptsSane'
<1>1. holds' \subseteq served'
  BY DEF SameClaims
<1>2. \A q \in Queue : repeated'[q] \subseteq 1 .. events'[<<"consumed", q>>]
  BY DEF SameClaims, ReceiptsSane
<1>3. \A p \in Process : calls'[p].at = "responding" => calls'[p].receipt \in served'
  BY DEF SameClaims, ReceiptsSane, CallsSane, Sane, NoClaim, Consuming
<1>4. ASSUME NEW p \in Process, NEW q \in Queue,
             calls'[p].at = "counting", calls'[p].series = <<"consumed", q>>
      PROVE  /\ calls'[p].receipt.queue = q
             /\ calls'[p].rows \cap repeated'[q] # {} => calls'[p].receipt \in served'
  <2>1. calls'[p] = calls[p]
    BY <1>4 DEF SameClaims, NoClaim, Consuming
  <2>2. QED
    BY <1>4, <2>1 DEF SameClaims, ReceiptsSane
<1>5. QED
  BY <1>1, <1>2, <1>3, <1>4 DEF ReceiptsSane

LEMMA HeldShrinks ==
  ASSUME NoLease, UNCHANGED <<startedAt, served>>, NEW q \in Queue
  PROVE  Held(q, served)' \subseteq Held(q, served)
BY DEF NoLease, Held, Current

LEMMA DeliveriesKept ==
  ASSUME Shapes, RowsApart, DeliveriesCounted, NoLease, SameClaims,
         \A q \in Queue :
           /\ events'[<<"acked", q>>] = events[<<"acked", q>>]
           /\ events'[<<"nacked", q>>] = events[<<"nacked", q>>],
         carried' = carried
  PROVE  DeliveriesCounted'
<1>1. ASSUME NEW q \in Queue
      PROVE  events'[<<"acked", q>>] + events'[<<"nacked", q>>]
                 + Cardinality(Held(q, served)')
               <= counters'[<<"consumed", q>>] + carried'[q]
                    + Cardinality(Repeats(q)')
  <2>1. Held(q, served)' \subseteq Held(q, served)
    BY HeldShrinks DEF SameClaims
  <2>2. /\ IsFiniteSet(Held(q, served)) /\ Cardinality(Held(q, served)) \in Nat
    BY HeldFinite
  <2>3. /\ Cardinality(Held(q, served)') <= Cardinality(Held(q, served))
        /\ IsFiniteSet(Held(q, served)')
    BY <2>1, <2>2, FS_Subset
  <2>4. Cardinality(Held(q, served)') \in Nat
    BY <2>3, FS_CardinalityType
  <2>5. /\ <<"acked", q>> \in Series /\ <<"nacked", q>> \in Series
        /\ <<"consumed", q>> \in Series
    BY DEF Series
  <2>6. /\ events[<<"acked", q>>] \in Nat /\ events[<<"nacked", q>>] \in Nat
        /\ counters[<<"consumed", q>>] \in Nat /\ carried[q] \in Nat
    BY <2>5 DEF Shapes
  <2>7. events[<<"acked", q>>] + events[<<"nacked", q>>]
          + Cardinality(Held(q, served))
        <= counters[<<"consumed", q>>] + carried[q] + Cardinality(Repeats(q))
    BY DEF DeliveriesCounted
  <2>8. Repeats(q)' = Repeats(q) /\ Cardinality(Repeats(q)) \in Nat
    BY RepeatsFinite DEF Repeats, SameClaims
  <2>9. counters'[<<"consumed", q>>] = counters[<<"consumed", q>>]
    BY DEF SameClaims
  <2>10. QED
    BY <2>2, <2>3, <2>4, <2>6, <2>7, <2>8, <2>9
<1>2. QED
  BY <1>1 DEF DeliveriesCounted

-----------------------------------------------------------------------------
(***************************************************************************)
(* The steps of requests and jobs.                                         *)
(***************************************************************************)
\* A call that was idle has changed rows, and owes its count.
LEMMA OneStatement ==
  ASSUME Shapes, CallsSane, RowsApart, Accounted,
         NEW p \in Process, NEW s \in Series, NEW n \in Nat,
         NEW receipt \in Receipt \cup {NoReceipt},
         calls[p] = Idle, Happens(s, n),
         Owe(p, "counting", s, n, Fresh(s, n), receipt),
         s[1] = "consumed" => receipt \in Receipt /\ n = 1
  PROVE  /\ calls' \in [Process -> {Idle} \cup CallRecord] /\ CallsSane'
         /\ calls'[p].at = "counting" /\ calls'[p].series = s
         /\ calls'[p].receipt = receipt
         /\ \A r \in Process : r # p => calls'[r] = calls[r]
         /\ events' \in [Series -> Nat] /\ events'[s] = events[s] + n
         /\ \A t \in Series : t # s => events'[t] = events[t]
         /\ UNCHANGED countVars
         /\ RowsApart' /\ Accounted'
         /\ \A t \in Series : t # s => Uncounted(t)' = Uncounted(t)
         /\ Uncounted(s)' = Uncounted(s) \cup Fresh(s, n)
         /\ calls'[p].rows = Fresh(s, n)
<1> DEFINE call == [at |-> "counting", series |-> s, count |-> n,
                    rows |-> Fresh(s, n), receipt |-> receipt]
<1>1. /\ IsFiniteSet(Fresh(s, n)) /\ Cardinality(Fresh(s, n)) = n
  BY FreshRows
<1>2. events[s] \in Nat
  BY DEF Shapes
<1>3. Fresh(s, n) \in SUBSET Nat
  BY <1>2 DEF Fresh
<1>4. call \in CallRecord /\ To(p, call)
  BY <1>3 DEF CallRecord, Owe
<1>5. /\ calls' \in [Process -> {Idle} \cup CallRecord] /\ calls'[p] = call
      /\ \A r \in Process : r # p => calls'[r] = calls[r]
  BY <1>4, CallStep
<1>6. CallsSane'
  BY <1>5 DEF CallsSane, Sane
<1>7. events' = [events EXCEPT ![s] = @ + n] /\ UNCHANGED countVars
  BY DEF Happens
<1>8. /\ events' \in [Series -> Nat] /\ events'[s] = events[s] + n
      /\ \A t \in Series : t # s => events'[t] = events[t]
  BY <1>2, <1>7 DEF Shapes
<1>9. \A t \in Series : ~ Owes(p, t)
  BY DEF Owes, Idle
<1>10. call.rows = RowsOf(p, s) \cup Fresh(s, n)
  BY <1>9 DEF RowsOf
<1>11. /\ call.count >= Cardinality(call.rows)
       /\ call.count = Cardinality(call.rows)
       /\ call.at = "counting" /\ call.series = s
  BY <1>1
<1>12. UNCHANGED <<counters, lost>>
  BY <1>7 DEF countVars
<1> HIDE DEF call
<1>13. /\ RowsApart' /\ Accounted'
       /\ \A t \in Series : t # s => Uncounted(t)' = Uncounted(t)
       /\ Uncounted(s)' = Uncounted(s) \cup Fresh(s, n)
  BY <1>4, <1>7, <1>9, <1>10, <1>11, <1>12, RowsTaken
<1>14. QED
  BY <1>5, <1>6, <1>7, <1>8, <1>13 DEF call

\* The deliveries and the type follow, for a statement that begins no lease.
LEMMA Quietly ==
  ASSUME IInv, CallsSane', RowsApart', Accounted', Table!TypeOK', NoLease, NoClaim,
         calls' \in [Process -> {Idle} \cup CallRecord],
         events' \in [Series -> Nat], counters' \in [Series -> Nat],
         lost' \in [Series -> SUBSET Nat],
         SameClaims, UNCHANGED <<carried, restarted>>,
         \A q \in Queue :
           /\ events'[<<"acked", q>>] = events[<<"acked", q>>]
           /\ events'[<<"nacked", q>>] = events[<<"nacked", q>>]
  PROVE  IInv'
<1>1. Shapes'
  BY DEF SameClaims, IInv, Shapes, NoLease
<1>2. ReceiptsSane'
  BY ReceiptsKept DEF IInv
<1>3. DeliveriesCounted'
  BY DeliveriesKept DEF IInv
<1>4. QED
  BY <1>1, <1>2, <1>3 DEF IInv

\* Series that are told apart by their first component.
LEMMA OtherSeries ==
  ASSUME NEW s, NEW what \in {"consumed", "acked", "nacked"}, s[1] # what,
         NEW q \in Queue
  PROVE  <<what, q>> \in Series \ {s}
<1>1. <<what, q>>[1] = what
  OBVIOUS
<1>2. <<what, q>> # s
  BY <1>1
<1>3. QED
  BY <1>2 DEF Series

LEMMA StatementHolds ==
  ASSUME IInv, NEW p \in Process, NEW s \in Series, NEW n \in Nat,
         s[1] \notin {"consumed", "acked", "nacked"},
         Statement(p, s, n), Table!TypeOK', NoLease
  PROVE  IInv'
<1>1. /\ calls[p] = Idle /\ Happens(s, n) /\ UNCHANGED clientVars
      /\ Owe(p, "counting", s, n, Fresh(s, n), NoReceipt)
  BY DEF Statement
<1>2. /\ calls' \in [Process -> {Idle} \cup CallRecord] /\ CallsSane'
      /\ calls'[p].at = "counting" /\ calls'[p].series = s
      /\ \A r \in Process : r # p => calls'[r] = calls[r]
      /\ events' \in [Series -> Nat]
      /\ \A t \in Series : t # s => events'[t] = events[t]
      /\ UNCHANGED countVars
      /\ RowsApart' /\ Accounted'
      /\ \A t \in Series : t # s => Uncounted(t)' = Uncounted(t)
  BY <1>1, OneStatement DEF IInv
<1>3. NoClaim
  BY <1>2 DEF NoClaim, Consuming
<1>4. \A q \in Queue : {<<"consumed", q>>, <<"acked", q>>, <<"nacked", q>>}
                        \subseteq Series \ {s}
  BY OtherSeries
<1>5. SameClaims
  BY <1>1, <1>2, <1>3, <1>4 DEF clientVars, countVars, SameClaims, IInv, ReceiptsSane
<1>6. QED
  BY <1>2, <1>3, <1>4, <1>5, Quietly DEF countVars, IInv, Shapes

\* A lease ends by an ack or a nack of the consumer that was answered with it.
LEMMA SettleHolds ==
  ASSUME IInv, NEW p \in Process, NEW q \in Queue, NEW what \in {"acked", "nacked"},
         NEW i \in Held(q, served), ~ leased'[i],
         Statement(p, <<what, q>>, 1), Table!TypeOK', NoLease
  PROVE  IInv'
<1> DEFINE s == <<what, q>>
<1>1. /\ calls[p] = Idle /\ Happens(s, 1) /\ UNCHANGED clientVars
      /\ Owe(p, "counting", s, 1, Fresh(s, 1), NoReceipt)
  BY DEF Statement
<1>2. s \in Series /\ s[1] # "consumed"
  BY DEF Series
<1>3. /\ calls' \in [Process -> {Idle} \cup CallRecord] /\ CallsSane'
      /\ calls'[p].at = "counting" /\ calls'[p].series = s
      /\ \A r \in Process : r # p => calls'[r] = calls[r]
      /\ events' \in [Series -> Nat] /\ events'[s] = events[s] + 1
      /\ \A t \in Series : t # s => events'[t] = events[t]
      /\ UNCHANGED countVars
      /\ RowsApart' /\ Accounted'
      /\ \A u \in Series : u # s => Uncounted(u)' = Uncounted(u)
  BY <1>1, <1>2, OneStatement DEF IInv
<1>4. NoClaim
  BY <1>2, <1>3 DEF NoClaim, Consuming
<1>5. SameClaims
  <2>1. \A k \in Queue : <<"consumed", k>> \in Series \ {s}
    BY <1>2, OtherSeries
  <2>2. QED
    BY <1>1, <1>3, <1>4, <2>1 DEF clientVars, countVars, SameClaims, IInv, ReceiptsSane
<1>6. Shapes'
  BY <1>3, <1>5 DEF SameClaims, countVars, IInv, Shapes, NoLease
<1>7. ReceiptsSane'
  BY <1>3, <1>5, ReceiptsKept DEF IInv
<1>8. \A k \in Queue : Held(k, served)' \subseteq Held(k, served)
  BY <1>5, HeldShrinks DEF SameClaims
<1>9. ASSUME NEW k \in Queue
      PROVE  events'[<<"acked", k>>] + events'[<<"nacked", k>>]
                 + Cardinality(Held(k, served)')
               <= counters'[<<"consumed", k>>] + carried'[k]
                    + Cardinality(Repeats(k)')
  <2>1. /\ <<"acked", k>> \in Series /\ <<"nacked", k>> \in Series
        /\ <<"consumed", k>> \in Series
    BY DEF Series
  <2>2. /\ events[<<"acked", k>>] \in Nat /\ events[<<"nacked", k>>] \in Nat
        /\ counters[<<"consumed", k>>] \in Nat /\ carried[k] \in Nat
    BY <2>1 DEF IInv, Shapes
  <2>3. IsFiniteSet(Held(k, served)) /\ Cardinality(Held(k, served)) \in Nat
    BY HeldFinite
  <2>4. events[<<"acked", k>>] + events[<<"nacked", k>>]
          + Cardinality(Held(k, served))
        <= counters[<<"consumed", k>>] + carried[k] + Cardinality(Repeats(k))
    BY DEF IInv, DeliveriesCounted
  <2>5. /\ UNCHANGED <<counters, carried>>
        /\ Repeats(k)' = Repeats(k) /\ Cardinality(Repeats(k)) \in Nat
    BY <1>3, <1>5, RepeatsFinite DEF countVars, SameClaims, Repeats, IInv
  <2>6. CASE k = q
    <3>1. i \notin Held(k, served)'
      BY DEF Held, Current
    <3>2. Held(k, served)' \subseteq Held(k, served) \ {i}
      BY <1>8, <3>1
    <3>3. /\ IsFiniteSet(Held(k, served) \ {i})
          /\ Cardinality(Held(k, served) \ {i}) = Cardinality(Held(k, served)) - 1
      BY <2>3, <2>6, FS_RemoveElement
    <3>4. /\ Cardinality(Held(k, served)') <= Cardinality(Held(k, served)) - 1
          /\ Cardinality(Held(k, served)') \in Nat
      BY <3>2, <3>3, FS_Subset, FS_CardinalityType
    <3>5. events'[<<"acked", k>>] + events'[<<"nacked", k>>]
            = events[<<"acked", k>>] + events[<<"nacked", k>>] + 1
      BY <1>3, <2>1, <2>2, <2>6
    <3>6. QED
      BY <2>2, <2>3, <2>4, <2>5, <3>4, <3>5
  <2>7. CASE k # q
    <3>1. /\ Cardinality(Held(k, served)') <= Cardinality(Held(k, served))
          /\ IsFiniteSet(Held(k, served)')
      BY <1>8, <2>3, FS_Subset
    <3>2. Cardinality(Held(k, served)') \in Nat
      BY <3>1, FS_CardinalityType
    <3>3. /\ events'[<<"acked", k>>] = events[<<"acked", k>>]
          /\ events'[<<"nacked", k>>] = events[<<"nacked", k>>]
      BY <1>3, <2>1, <2>7
    <3>4. QED
      BY <2>2, <2>3, <2>4, <2>5, <3>1, <3>2, <3>3
  <2>8. QED
    BY <2>6, <2>7
<1>10. QED
  BY <1>3, <1>6, <1>7, <1>9 DEF IInv, DeliveriesCounted

LEMMA SameTable ==
  ASSUME Shapes, UNCHANGED tableVars
  PROVE  Table!TypeOK' /\ NoLease
BY DEF Shapes, tableVars, Table!TypeOK, NoLease

\* A delivery begins.  A receipt that was answered before fits only a claim that
\* repeats it.
LEMMA ConsumeHolds ==
  ASSUME IInv, NEW c \in Caller, Consume(c)
  PROVE  IInv'
<1> PICK i \in Id, t \in Time : Claim(c, i, t) /\ holds' = holds
  BY DEF Consume
<1> DEFINE h == Claimed(i, t)
<1>1. PICK q \in Queue : place[i] = q
  BY DEF Claim, Table!Deliver, Table!Unleased, Queue
<1> DEFINE s == <<"consumed", q>>
           F == Fresh(s, 1)
<1>2. /\ calls[c] = Idle /\ Table!Deliver(i)
      /\ startedAt' = [startedAt EXCEPT ![i] = t]
      /\ Happens(s, 1) /\ Owe(c, "counting", s, 1, F, h)
      /\ repeated' = IF h \in served THEN [repeated EXCEPT ![q] = @ \cup F] ELSE repeated
      /\ served' = served
  BY <1>1 DEF Claim
<1>3. c \in Process /\ s \in Series /\ t \in Nat
  BY MetricsAssumption DEF Process, Series
<1>4. h \in Receipt /\ h.id = i /\ h.queue = q /\ h.startedAt = t
  BY <1>1, <1>3 DEF Claimed, Receipt
<1> HIDE DEF h
<1>5. /\ calls' \in [Process -> {Idle} \cup CallRecord] /\ CallsSane'
      /\ calls'[c].at = "counting" /\ calls'[c].series = s
      /\ calls'[c].receipt = h /\ calls'[c].rows = F
      /\ \A r \in Process : r # c => calls'[r] = calls[r]
      /\ events' \in [Series -> Nat] /\ events'[s] = events[s] + 1
      /\ \A u \in Series : u # s => events'[u] = events[u]
      /\ UNCHANGED countVars
      /\ RowsApart' /\ Accounted'
      /\ \A u \in Series : u # s => Uncounted(u)' = Uncounted(u)
      /\ Uncounted(s)' = Uncounted(s) \cup F
  BY <1>2, <1>3, <1>4, OneStatement DEF IInv
<1>6. /\ ~ leased[i] /\ leased' = [leased EXCEPT ![i] = TRUE]
      /\ place' = place /\ tries[i] < MaxDeliveryAttempts
      /\ tries' = [tries EXCEPT ![i] = @ + 1]
  BY <1>2 DEF Table!Deliver, Table!Unleased
<1>7. Table!TypeOK'
  BY <1>6, TableAssumption DEF IInv, Shapes, Table!TypeOK
<1>8. /\ IsFiniteSet(F) /\ Cardinality(F) = 1 /\ events[s] \in Nat
      /\ F \subseteq 1 .. events[s] + 1 /\ F \cap 1 .. events[s] = {}
  BY <1>3, FreshRows DEF IInv, Shapes
<1> HIDE DEF F
<1>9. Shapes'
  <2>1. startedAt' \in [Id -> Nat]
    BY <1>2, <1>3 DEF IInv, Shapes
  <2>2. F \in SUBSET Nat
    BY <1>8
  <2>3. repeated' \in [Queue -> SUBSET Nat]
    BY <1>2, <2>2 DEF IInv, Shapes
  <2>4. QED
    BY <1>1, <1>2, <1>5, <1>6, <1>7, <2>1, <2>3 DEF countVars, IInv, Shapes, Table!TypeOK
<1>10. /\ startedAt'[i] = t /\ leased'[i]
       /\ \A k \in Id : k # i => startedAt'[k] = startedAt[k] /\ leased'[k] = leased[k]
  BY <1>2, <1>6 DEF IInv, Shapes, Table!TypeOK
<1>11. /\ \A k \in Queue : k # q => repeated'[k] = repeated[k]
       /\ repeated'[q] = IF h \in served THEN repeated[q] \cup F ELSE repeated[q]
  BY <1>2 DEF IInv, Shapes
<1>12. \A k \in Queue : k # q => <<"consumed", k>> \in Series \ {s}
  BY DEF Series
<1>13. ReceiptsSane'
  <2>1. holds' \subseteq served'
    BY <1>2 DEF IInv, ReceiptsSane
  <2>2. ASSUME NEW k \in Queue
        PROVE  repeated'[k] \subseteq 1 .. events'[<<"consumed", k>>]
    <3>1. repeated[k] \subseteq 1 .. events[<<"consumed", k>>]
      BY DEF IInv, ReceiptsSane
    <3>2. CASE k = q
      <4>1. repeated'[q] \subseteq repeated[q] \cup F
        BY <1>11
      <4>2. repeated[q] \subseteq 1 .. events[s] + 1
        BY <1>8, <3>1, <3>2
      <4>3. QED
        BY <1>5, <1>8, <3>2, <4>1, <4>2
    <3>3. CASE k # q
      BY <1>5, <1>11, <1>12, <3>1, <3>3
    <3>4. QED
      BY <3>2, <3>3
  <2>3. \A r \in Process : calls'[r].at = "responding" => calls'[r].receipt \in served'
    BY <1>2, <1>5 DEF IInv, ReceiptsSane
  <2>4. ASSUME NEW r \in Process, NEW k \in Queue,
               calls'[r].at = "counting", calls'[r].series = <<"consumed", k>>
        PROVE  /\ calls'[r].receipt.queue = k
               /\ calls'[r].rows \cap repeated'[k] # {} => calls'[r].receipt \in served'
    <3>1. repeated[k] \subseteq 1 .. events[<<"consumed", k>>]
      BY DEF IInv, ReceiptsSane
    <3>2. CASE r = c
      <4>1. k = q
        BY <1>5, <2>4, <3>2
      <4>2. h \notin served => F \cap repeated'[k] = {}
        BY <1>8, <1>11, <3>1, <4>1
      <4>3. QED
        BY <1>2, <1>4, <1>5, <3>2, <4>1, <4>2
    <3>3. CASE r # c
      <4>1. calls'[r] = calls[r] /\ Owes(r, <<"consumed", k>>)
        BY <1>5, <2>4, <3>3 DEF Owes
      <4>2. calls[r].rows \subseteq 1 .. events[<<"consumed", k>>]
        BY <4>1 DEF IInv, RowsApart, Series
      <4>3. calls[r].rows \cap repeated'[k] \subseteq calls[r].rows \cap repeated[k]
        BY <1>8, <1>11, <4>2
      <4>4. /\ calls[r].receipt.queue = k
            /\ calls[r].rows \cap repeated[k] # {} => calls[r].receipt \in served
        BY <2>4, <4>1 DEF IInv, ReceiptsSane
      <4>5. QED
        BY <1>2, <4>1, <4>3, <4>4
    <3>4. QED
      BY <3>2, <3>3
  <2>5. QED
    BY <2>1, <2>2, <2>3, <2>4 DEF ReceiptsSane
<1>14. ASSUME NEW k \in Queue, NEW j \in Held(k, served)'
       PROVE  j \in Held(k, served) \/ (j = i /\ k = q /\ h \in served)
  <2>1. PICK g \in served : g.id = j /\ Current(g)'
    BY <1>2 DEF Held, Current
  <2>2. g \in Receipt /\ j \in Id /\ place[j] = k
    BY <1>6 DEF Held, IInv, Shapes
  <2>3. g.queue = k /\ startedAt'[j] = g.startedAt /\ leased'[j]
    BY <1>6, <2>1, <2>2 DEF Current
  <2>4. CASE j = i
    <3>1. k = q /\ g.id = i /\ g.queue = q /\ g.startedAt = t
      BY <1>1, <1>10, <2>1, <2>2, <2>3, <2>4
    <3>2. g = h
      BY <1>4, <2>2, <3>1 DEF Receipt
    <3>3. QED
      BY <2>4, <3>1, <3>2
  <2>5. CASE j # i
    BY <1>10, <2>1, <2>2, <2>3, <2>5 DEF Held, Current
  <2>6. QED
    BY <2>4, <2>5
<1>15. ASSUME NEW k \in Queue
       PROVE  /\ Cardinality(Repeats(k)) \in Nat /\ Cardinality(Repeats(k)') \in Nat
              /\ Cardinality(Repeats(k)') >= Cardinality(Repeats(k))
              /\ k = q /\ h \in served =>
                   Cardinality(Repeats(k)') = Cardinality(Repeats(k)) + 1
  <2>1. IsFiniteSet(Repeats(k)) /\ Cardinality(Repeats(k)) \in Nat
    BY RepeatsFinite DEF IInv
  <2>2. CASE k = q /\ h \in served
    <3>1. Repeats(k)' = Repeats(k) \cup F
      BY <1>5, <1>11, <2>2 DEF Repeats
    <3>2. Repeats(k) \cap F = {}
      BY <1>3, <1>8, <2>2, UncountedRows DEF Repeats, IInv
    <3>3. Cardinality(Repeats(k) \cup F) = Cardinality(Repeats(k)) + Cardinality(F)
      BY ONLY <1>8, <2>1, <3>2, RowsJoined
    <3>4. QED
      BY <1>8, <2>1, <3>1, <3>3
  <2>3. CASE k = q /\ h \notin served
    <3>1. Repeats(k)' = Repeats(k)
      <4>1. Repeats(k)' = (Uncounted(s) \cup F) \cap repeated[q]
        BY <1>5, <1>11, <2>3 DEF Repeats
      <4>2. F \cap repeated[q] = {}
        BY <1>8 DEF IInv, ReceiptsSane
      <4>3. QED
        BY <2>3, <4>1, <4>2 DEF Repeats
    <3>2. QED
      BY <2>1, <2>3, <3>1
  <2>4. CASE k # q
    <3>1. Repeats(k)' = Repeats(k)
      BY <1>5, <1>11, <1>12, <2>4 DEF Repeats
    <3>2. QED
      BY <2>1, <2>4, <3>1
  <2>5. QED
    BY <2>2, <2>3, <2>4
<1>16. DeliveriesCounted'
  <2> SUFFICES ASSUME NEW k \in Queue
               PROVE  events'[<<"acked", k>>] + events'[<<"nacked", k>>]
                        + Cardinality(Held(k, served)')
                      <= counters'[<<"consumed", k>>] + carried'[k]
                           + Cardinality(Repeats(k)')
    BY DEF DeliveriesCounted
  <2>1. /\ <<"acked", k>> \in Series \ {s} /\ <<"nacked", k>> \in Series \ {s}
        /\ <<"consumed", k>> \in Series
    BY DEF Series
  <2>2. /\ events[<<"acked", k>>] \in Nat /\ events[<<"nacked", k>>] \in Nat
        /\ counters[<<"consumed", k>>] \in Nat /\ carried[k] \in Nat
    BY <2>1 DEF IInv, Shapes
  <2>3. /\ events'[<<"acked", k>>] = events[<<"acked", k>>]
        /\ events'[<<"nacked", k>>] = events[<<"nacked", k>>]
        /\ UNCHANGED <<counters, carried>>
    BY <1>5, <2>1 DEF countVars
  <2>4. IsFiniteSet(Held(k, served)) /\ Cardinality(Held(k, served)) \in Nat
    BY HeldFinite
  <2>5. events[<<"acked", k>>] + events[<<"nacked", k>>]
          + Cardinality(Held(k, served))
        <= counters[<<"consumed", k>>] + carried[k] + Cardinality(Repeats(k))
    BY DEF IInv, DeliveriesCounted
  <2>6. CASE k = q /\ h \in served
    <3>1. Held(k, served)' \subseteq Held(k, served) \cup {i}
      BY <1>14
    <3>2. /\ Cardinality(Held(k, served)') \in Nat
          /\ Cardinality(Held(k, served)') <= Cardinality(Held(k, served)) + 1
      BY <2>4, <3>1, OneMore
    <3>3. QED
      BY <1>15, <2>2, <2>3, <2>4, <2>5, <2>6, <3>2
  <2>7. CASE ~ (k = q /\ h \in served)
    <3>1. Held(k, served)' \subseteq Held(k, served)
      BY <1>14, <2>7
    <3>2. /\ Cardinality(Held(k, served)') \in Nat
          /\ Cardinality(Held(k, served)') <= Cardinality(Held(k, served))
      BY <2>4, <3>1, FS_Subset, FS_CardinalityType
    <3>3. QED
      BY <1>15, <2>2, <2>3, <2>4, <2>5, <3>2
  <2>8. QED
    BY <2>6, <2>7
<1>17. QED
  BY <1>5, <1>9, <1>13, <1>16 DEF IInv

\* The claim is counted: from now on its receipt may be answered.
LEMMA CountHolds ==
  ASSUME IInv, NEW p \in Process, Count(p)
  PROVE  IInv'
<1> PICK s \in Series : s = calls[p].series
  BY DEF IInv, Shapes, Count, Idle, CallRecord
<1> DEFINE call == IF s[1] = "consumed" THEN [calls[p] EXCEPT !.at = "responding"]
                                        ELSE Idle
<1>1. /\ calls[p].at = "counting" /\ calls[p] \in CallRecord
      /\ To(p, call)
      /\ counters' = [counters EXCEPT ![s] = @ + calls[p].count]
      /\ served' = IF s[1] = "consumed" THEN served \cup {calls[p].receipt} ELSE served
      /\ UNCHANGED <<tableVars, startedAt, holds, repeated, events, lost, carried,
                     restarted>>
  BY DEF Count, IInv, Shapes, Idle
<1>2. call \in {Idle} \cup CallRecord
  BY <1>1 DEF CallRecord
<1>3. /\ calls' \in [Process -> {Idle} \cup CallRecord] /\ calls'[p] = call
      /\ \A r \in Process : r # p => calls'[r] = calls[r]
  BY <1>1, <1>2, CallStep DEF IInv
<1>4. s[1] = "consumed" => /\ call.at = "responding" /\ call.series = s
                          /\ call.receipt = calls[p].receipt
                          /\ call.receipt \in Receipt /\ call.count = 1
  BY <1>1 DEF CallRecord, IInv, CallsSane, Sane
<1>5. CallsSane'
  <2>1. Sane(p, call)
    BY <1>4 DEF Sane, Idle
  <2> HIDE DEF call
  <2>2. QED
    BY <1>3, <2>1 DEF IInv, CallsSane
<1>6. /\ RowsApart' /\ Accounted'
      /\ \A t \in Series : t # s => Uncounted(t)' = Uncounted(t)
      /\ Uncounted(s) = Uncounted(s)' \cup calls[p].rows
  BY RowsCounted DEF IInv
<1>7. calls[p].count \in Nat
  BY <1>1 DEF CallRecord
<1>8. /\ counters' \in [Series -> Nat]
      /\ counters'[s] = counters[s] + calls[p].count
      /\ \A t \in Series : t # s => counters'[t] = counters[t]
  BY <1>1, <1>7 DEF IInv, Shapes
<1>9. Table!TypeOK' /\ NoLease
  BY <1>1, SameTable DEF IInv
<1>10. Shapes'
  BY <1>1, <1>3, <1>4, <1>8, <1>9 DEF IInv, Shapes, NoLease
<1>11. CASE s[1] # "consumed"
  <2>1. NoClaim
    BY <1>3, <1>11 DEF NoClaim, Consuming, Idle
  <2>2. \A q \in Queue : <<"consumed", q>> \in Series \ {s}
    BY <1>11, OtherSeries
  <2>3. SameClaims
    BY <1>1, <1>6, <1>8, <1>11, <2>1, <2>2 DEF SameClaims, IInv, ReceiptsSane
  <2>4. ReceiptsSane' /\ DeliveriesCounted'
    BY <1>1, <1>5, <1>9, <2>3, ReceiptsKept, DeliveriesKept DEF IInv
  <2>5. QED
    BY <1>5, <1>6, <1>10, <2>4 DEF IInv
<1>12. CASE s[1] = "consumed"
  <2>1. PICK q \in Queue : s = <<"consumed", q>>
    <3>1. s \in {"produced", "consumed", "acked", "nacked", "requeued"} \X Queue
      <4>1. s \in {"moved_to_dlq"} \X {"failed", "expired"} => s[1] = "moved_to_dlq"
        OBVIOUS
      <4>2. s \in {"cleanup"} \X {"failed", "expired", "deleted_by_user"}
              => s[1] = "cleanup"
        OBVIOUS
      <4>3. <<"stale_recovered", "">>[1] = "stale_recovered"
        OBVIOUS
      <4>4. QED
        BY <1>12, <4>1, <4>2, <4>3 DEF Series
    <3>2. s = <<s[1], s[2]>> /\ s[2] \in Queue
      BY <3>1
    <3>3. QED
      BY <1>12, <3>2
  <2>2. PICK h \in Receipt : h = calls[p].receipt
    BY <1>1, <1>12 DEF IInv, CallsSane, Sane
  <2>3. /\ calls[p].count = 1 /\ h.queue = q
        /\ calls[p].rows \cap repeated[q] # {} => h \in served
        /\ served' = served \cup {h}
    BY <1>1, <1>12, <2>1, <2>2 DEF IInv, CallsSane, Sane, ReceiptsSane
  <2>4. ReceiptsSane'
    <3>1. \A r \in Process : calls'[r].at = "responding" => calls'[r].receipt \in served'
      BY <1>3, <1>4, <1>12, <2>2, <2>3 DEF IInv, ReceiptsSane
    <3>2. \A r \in Process : calls'[r].at = "counting" => r # p
      BY <1>3, <1>4, <1>12
    <3>3. ASSUME NEW r \in Process, NEW k \in Queue,
                 calls'[r].at = "counting", calls'[r].series = <<"consumed", k>>
          PROVE  /\ calls'[r].receipt.queue = k
                 /\ calls'[r].rows \cap repeated'[k] # {} => calls'[r].receipt \in served'
      <4>1. calls'[r] = calls[r] /\ repeated' = repeated
        BY <1>1, <1>3, <3>2, <3>3
      <4>2. /\ calls[r].receipt.queue = k
            /\ calls[r].rows \cap repeated[k] # {} => calls[r].receipt \in served
        BY <3>3, <4>1 DEF IInv, ReceiptsSane
      <4>3. QED
        BY <2>3, <4>1, <4>2
    <3>4. \A k \in Queue : repeated'[k] \subseteq 1 .. events'[<<"consumed", k>>]
      BY <1>1 DEF IInv, ReceiptsSane
    <3>5. holds' \subseteq served'
      BY <1>1, <2>3 DEF IInv, ReceiptsSane
    <3>6. QED
      BY <3>1, <3>3, <3>4, <3>5 DEF ReceiptsSane
  <2>5. ASSUME NEW k \in Queue
        PROVE  /\ k # q \/ h \in served => Held(k, served)' = Held(k, served)
               /\ Held(k, served)' \subseteq Held(k, served) \cup {h.id}
    <3>1. Held(k, served)' = {i \in Id : place[i] = k /\
                                 \E g \in served \cup {h} : g.id = i /\ Current(g)}
      BY <1>1, <2>3 DEF tableVars, Held, Current
    <3>2. Current(h) => place[h.id] = q
      BY <2>3 DEF Current
    <3>3. QED
      BY <3>1, <3>2 DEF Held
  <2>6. ASSUME NEW k \in Queue
        PROVE  /\ Cardinality(Repeats(k)) \in Nat /\ Cardinality(Repeats(k)') \in Nat
               /\ k # q \/ h \notin served =>
                    Cardinality(Repeats(k)') = Cardinality(Repeats(k))
               /\ Cardinality(Repeats(k)) <= Cardinality(Repeats(k)') + 1
    <3>1. IsFiniteSet(Repeats(k)) /\ Cardinality(Repeats(k)) \in Nat
      BY RepeatsFinite DEF IInv
    <3>2. repeated' = repeated
      BY <1>1
    <3>3. CASE k # q
      <4>1. <<"consumed", k>> \in Series \ {s}
        BY <2>1, <3>3 DEF Series
      <4>2. Repeats(k)' = Repeats(k)
        BY <1>6, <3>2, <4>1 DEF Repeats
      <4>3. QED
        BY <3>1, <4>2
    <3>4. CASE k = q
      <4>1. Owes(p, s)
        BY <1>1 DEF Owes
      <4>2. calls[p].count = Cardinality(calls[p].rows) /\ IsFiniteSet(calls[p].rows)
        <5>1. s # Deleted
          BY <1>12 DEF Deleted
        <5>2. calls[p].rows \subseteq 1 .. events[s] /\ events[s] \in Nat
          BY <4>1 DEF IInv, RowsApart, Shapes
        <5>3. IsFiniteSet(calls[p].rows)
          BY <5>2, RowsFinite
        <5>4. QED
          BY <4>1, <5>1, <5>3 DEF IInv, RowsApart
      <4>3. PICK x : calls[p].rows = {x}
        BY <2>3, <4>2, FS_Singleton
      <4>4. Repeats(k) = Repeats(k)' \cup (calls[p].rows \cap repeated[q])
        BY <1>6, <2>1, <3>2, <3>4 DEF Repeats
      <4>5. IsFiniteSet(Repeats(k)') /\ Cardinality(Repeats(k)') \in Nat
        BY <3>1, <4>4, FS_Subset, FS_CardinalityType
      <4>6. h \notin served => Repeats(k)' = Repeats(k)
        BY <2>3, <4>4
      <4>7. Repeats(k) \subseteq Repeats(k)' \cup {x}
        BY <4>3, <4>4
      <4>8. Cardinality(Repeats(k)) <= Cardinality(Repeats(k)') + 1
        BY <4>5, <4>7, OneMore
      <4>9. QED
        BY <3>1, <3>4, <4>5, <4>6, <4>8
    <3>5. QED
      BY <3>3, <3>4
  <2>7. DeliveriesCounted'
    <3> SUFFICES ASSUME NEW k \in Queue
                 PROVE  events'[<<"acked", k>>] + events'[<<"nacked", k>>]
                          + Cardinality(Held(k, served)')
                        <= counters'[<<"consumed", k>>] + carried'[k]
                             + Cardinality(Repeats(k)')
      BY DEF DeliveriesCounted
    <3>1. /\ <<"acked", k>> \in Series /\ <<"nacked", k>> \in Series
          /\ <<"consumed", k>> \in Series
      BY DEF Series
    <3>2. /\ events[<<"acked", k>>] \in Nat /\ events[<<"nacked", k>>] \in Nat
          /\ counters[<<"consumed", k>>] \in Nat /\ carried[k] \in Nat
      BY <3>1 DEF IInv, Shapes
    <3>3. UNCHANGED <<events, carried>>
      BY <1>1
    <3>4. IsFiniteSet(Held(k, served)) /\ Cardinality(Held(k, served)) \in Nat
      BY HeldFinite
    <3>5. events[<<"acked", k>>] + events[<<"nacked", k>>]
            + Cardinality(Held(k, served))
          <= counters[<<"consumed", k>>] + carried[k] + Cardinality(Repeats(k))
      BY DEF IInv, DeliveriesCounted
    <3>6. CASE k = q
      <4>1. counters'[<<"consumed", k>>] = counters[<<"consumed", k>>] + 1
        BY <1>8, <2>1, <2>3, <3>6
      <4>2. CASE h \in served
        <5>1. Held(k, served)' = Held(k, served)
          BY <2>5, <4>2
        <5>2. QED
          BY <2>6, <3>2, <3>3, <3>4, <3>5, <4>1, <5>1
      <4>3. CASE h \notin served
        <5>1. /\ Cardinality(Held(k, served)') \in Nat
              /\ Cardinality(Held(k, served)') <= Cardinality(Held(k, served)) + 1
          BY <2>5, <3>4, OneMore
        <5>2. Cardinality(Repeats(k)') = Cardinality(Repeats(k))
          BY <2>6, <4>3
        <5>3. QED
          BY <2>6, <3>2, <3>3, <3>4, <3>5, <4>1, <5>1, <5>2
      <4>4. QED
        BY <4>2, <4>3
    <3>7. CASE k # q
      <4>1. counters'[<<"consumed", k>>] = counters[<<"consumed", k>>]
        BY <1>8, <2>1, <3>1, <3>7
      <4>2. /\ Held(k, served)' = Held(k, served)
            /\ Cardinality(Repeats(k)') = Cardinality(Repeats(k))
        BY <2>5, <2>6, <3>7
      <4>3. QED
        BY <3>3, <3>5, <4>1, <4>2
    <3>8. QED
      BY <3>6, <3>7
  <2>8. QED
    BY <1>5, <1>6, <1>10, <2>4, <2>7 DEF IInv
<1>13. QED
  BY <1>11, <1>12

\* A claim or a sweep ends in an error: its rows are lost.
LEMMA LoseHolds ==
  ASSUME IInv, NEW p \in Process, calls[p].at \in {"counting", "sweeping"},
         lost' = [lost EXCEPT ![calls[p].series] = @ \cup calls[p].rows],
         To(p, Idle), UNCHANGED <<tableVars, clientVars, counters, events, carried, restarted>>
  PROVE  IInv'
<1> PICK s \in Series : s = calls[p].series
  BY DEF IInv, Shapes, Idle, CallRecord
<1>1. Owes(p, s) /\ calls[p].rows \in SUBSET Nat
  BY DEF Owes, IInv, Shapes, Idle, CallRecord
<1>2. /\ calls' \in [Process -> {Idle} \cup CallRecord] /\ calls'[p] = Idle
      /\ \A r \in Process : r # p => calls'[r] = calls[r]
  BY CallStep DEF IInv
<1>3. CallsSane'
  BY <1>2 DEF IInv, CallsSane, Sane, Idle
<1>4. RowsApart' /\ Accounted' /\ \A t \in Series : Uncounted(t)' = Uncounted(t)
  BY <1>1, RowsLost DEF IInv
<1>5. lost' \in [Series -> SUBSET Nat]
  BY <1>1 DEF IInv, Shapes
<1>6. NoClaim
  BY <1>2 DEF NoClaim, Consuming, Idle
<1>7. Table!TypeOK' /\ NoLease
  BY SameTable DEF IInv
<1>8. SameClaims
  BY <1>4, <1>6 DEF clientVars, SameClaims, Series, IInv, ReceiptsSane
<1>9. QED
  BY <1>2, <1>3, <1>4, <1>5, <1>6, <1>7, <1>8, Quietly DEF IInv, Shapes

\* The response is written, or the consumer is gone.
LEMMA RespondHolds ==
  ASSUME IInv, NEW c \in Caller, Respond(c)
  PROVE  IInv'
<1>1. c \in Process /\ To(c, Idle) /\ calls[c].at = "responding"
  BY DEF Respond, Process
<1>2. /\ calls' \in [Process -> {Idle} \cup CallRecord] /\ calls'[c] = Idle
      /\ \A r \in Process : r # c => calls'[r] = calls[r]
  BY <1>1, CallStep DEF IInv
<1>3. CallsSane'
  BY <1>2 DEF IInv, CallsSane, Sane, Idle
<1>4. RowsApart' /\ Accounted' /\ \A t \in Series : Uncounted(t)' = Uncounted(t)
  <2>1. \A r \in Process : \A t \in Series :
          /\ Owes(r, t)' <=> Owes(r, t)
          /\ Owes(r, t) => calls'[r] = calls[r]
    BY <1>1, <1>2 DEF Owes, Idle
  <2>2. QED
    BY <2>1, RowsSame DEF Respond, IInv
<1>5. NoClaim
  BY <1>2 DEF NoClaim, Consuming, Idle
<1>6. Table!TypeOK' /\ NoLease
  BY SameTable DEF Respond, IInv
<1>7. SameClaims
  BY <1>1, <1>4, <1>5 DEF Respond, SameClaims, Series, IInv, ReceiptsSane
<1>8. QED
  BY <1>2, <1>3, <1>4, <1>5, <1>6, <1>7, Quietly DEF Respond, IInv, Shapes

\* A call that goes on, with the rows of another statement or none.
LEMMA GoOnHolds ==
  ASSUME IInv, NEW p \in Process, NEW s \in Series, NEW n \in Nat,
         s[1] \notin {"consumed", "acked", "nacked"},
         NEW call \in CallRecord, To(p, call),
         call.at \in {"counting", "sweeping", "deleting"}, call.series = s,
         Sane(p, call),
         call.rows = RowsOf(p, s) \cup Fresh(s, n),
         call.count >= Cardinality(call.rows),
         s # Deleted => call.count = Cardinality(call.rows),
         \A t \in Series : t # s => ~ Owes(p, t),
         events' = [events EXCEPT ![s] = @ + n],
         UNCHANGED <<clientVars, countVars>>, Table!TypeOK', NoLease
  PROVE  IInv'
<1>1. /\ calls' \in [Process -> {Idle} \cup CallRecord] /\ calls'[p] = call
      /\ \A r \in Process : r # p => calls'[r] = calls[r]
  BY CallStep DEF IInv
<1>2. CallsSane'
  BY <1>1 DEF IInv, CallsSane
<1>3. UNCHANGED <<counters, lost, startedAt, holds, served, repeated, carried, restarted>>
  BY DEF clientVars, countVars
<1>4. /\ RowsApart' /\ Accounted'
      /\ \A t \in Series : t # s => Uncounted(t)' = Uncounted(t)
  BY <1>3, RowsTaken DEF IInv
<1>5. /\ events' \in [Series -> Nat]
      /\ \A t \in Series : t # s => events'[t] = events[t]
  BY DEF IInv, Shapes
<1>6. NoClaim
  BY <1>1 DEF NoClaim, Consuming
<1>7. \A q \in Queue : {<<"consumed", q>>, <<"acked", q>>, <<"nacked", q>>}
                        \subseteq Series \ {s}
  BY OtherSeries
<1>8. SameClaims
  BY <1>3, <1>4, <1>5, <1>6, <1>7 DEF SameClaims, IInv, ReceiptsSane
<1>9. QED
  BY <1>1, <1>2, <1>3, <1>4, <1>5, <1>6, <1>7, <1>8, Quietly DEF IInv, Shapes

LEMMA BatchHolds ==
  ASSUME IInv, NEW j, NEW s, <<j, s>> \in Sweeps, NEW S \in SUBSET Id,
         Batch(j, s, S), Table!TypeOK', NoLease
  PROVE  IInv'
<1> DEFINE n == Cardinality(S)
           call == [at |-> IF n < BatchSize THEN "counting" ELSE "sweeping",
                    series |-> s, count |-> SoFar(j) + n,
                    rows |-> RowsSoFar(j) \cup Fresh(s, n), receipt |-> NoReceipt]
<1>1. /\ j \in Process /\ s \in Series /\ s # Deleted
      /\ s[1] \notin {"consumed", "acked", "nacked"}
      /\ \A t : <<j, t>> \in Sweeps => t = s
  <2>1. \/ j = "expired" /\ s = <<"moved_to_dlq", "expired">>
        \/ j = "expiredDlq" /\ s = <<"cleanup", "expired">>
    BY DEF Sweeps
  <2>2. s \in Series
    <3>1. /\ <<"moved_to_dlq", "expired">> \in {"moved_to_dlq"} \X {"failed", "expired"}
          /\ <<"cleanup", "expired">>
               \in {"cleanup"} \X {"failed", "expired", "deleted_by_user"}
      OBVIOUS
    <3>2. QED
      BY <2>1, <3>1 DEF Series
  <2>3. s # Deleted /\ s[1] \notin {"consumed", "acked", "nacked"}
    BY <2>1 DEF Deleted
  <2>4. \A t : <<j, t>> \in Sweeps => t = s
    BY <2>1 DEF Sweeps
  <2>5. j \in Process
    BY <2>1 DEF Process, Job
  <2>6. QED
    BY <2>2, <2>3, <2>4, <2>5
<1>2. n \in Nat
  BY TableAssumption, FS_Subset, FS_CardinalityType
<1>3. \/ calls[j] = Idle
      \/ calls[j].at = "sweeping" /\ calls[j] \in CallRecord /\ calls[j].series = s
  BY <1>1 DEF Batch, IInv, Shapes, Idle, CallsSane, Sane
<1>4. \A t \in Series : t # s => ~ Owes(j, t)
  BY <1>3 DEF Owes, Idle
<1>5. /\ RowsSoFar(j) = RowsOf(j, s)
      /\ SoFar(j) \in Nat /\ RowsSoFar(j) \in SUBSET Nat
  BY <1>3 DEF RowsSoFar, RowsOf, SoFar, Owes, Idle, CallRecord
<1>6. /\ IsFiniteSet(RowsSoFar(j)) /\ RowsSoFar(j) \subseteq 1 .. events[s]
      /\ SoFar(j) = Cardinality(RowsSoFar(j))
  <2>1. CASE calls[j] = Idle
    BY <2>1, FS_EmptySet DEF RowsSoFar, SoFar, Idle
  <2>2. CASE calls[j].at = "sweeping" /\ calls[j].series = s
    <3>1. /\ Owes(j, s) /\ events[s] \in Nat
          /\ RowsSoFar(j) = calls[j].rows /\ SoFar(j) = calls[j].count
      BY <1>1, <2>2 DEF Owes, RowsSoFar, SoFar, IInv, Shapes
    <3>2. /\ calls[j].rows \subseteq 1 .. events[s]
          /\ calls[j].count = Cardinality(calls[j].rows)
      BY <1>1, <3>1 DEF IInv, RowsApart
    <3>3. QED
      BY <3>1, <3>2, RowsFinite
  <2>3. QED
    BY <1>3, <2>1, <2>2
<1>7. /\ IsFiniteSet(Fresh(s, n)) /\ Cardinality(Fresh(s, n)) = n
      /\ Fresh(s, n) \cap 1 .. events[s] = {} /\ Fresh(s, n) \in SUBSET Nat
  <2>1. events[s] \in Nat
    BY <1>1 DEF IInv, Shapes
  <2>2. Fresh(s, n) \in SUBSET Nat
    BY <1>2, <2>1 DEF Fresh
  <2>3. QED
    BY <1>1, <1>2, <2>2, FreshRows DEF IInv
<1>8. Cardinality(RowsSoFar(j) \cup Fresh(s, n)) = SoFar(j) + n
  <2>1. RowsSoFar(j) \cap Fresh(s, n) = {}
    BY <1>6, <1>7
  <2>2. IsFiniteSet(RowsSoFar(j)) /\ IsFiniteSet(Fresh(s, n))
    BY <1>6, <1>7
  <2>3. Cardinality(RowsSoFar(j) \cup Fresh(s, n))
          = Cardinality(RowsSoFar(j)) + Cardinality(Fresh(s, n))
    BY ONLY <2>1, <2>2, RowsJoined
  <2>4. QED
    BY <1>6, <1>7, <2>3
<1>9. call \in CallRecord
  <2>1. SoFar(j) + n \in Nat /\ RowsSoFar(j) \cup Fresh(s, n) \in SUBSET Nat
    BY <1>2, <1>5, <1>7
  <2> HIDE DEF n
  <2>2. QED
    BY <1>1, <2>1 DEF CallRecord
<1>10. Sane(j, call)
  BY <1>1 DEF Sane
<1>11. To(j, call)
  BY DEF Batch, Owe
<1>12. /\ call.at \in {"counting", "sweeping", "deleting"} /\ call.series = s
       /\ call.rows = RowsOf(j, s) \cup Fresh(s, n)
       /\ call.count >= Cardinality(call.rows)
       /\ call.count = Cardinality(call.rows)
  <2>1. SoFar(j) + n \in Nat
    BY <1>2, <1>5
  <2>2. QED
    BY <1>5, <1>8, <2>1
<1>13. /\ events' = [events EXCEPT ![s] = @ + n]
       /\ UNCHANGED <<clientVars, countVars>>
  BY DEF Batch, Happens
<1> HIDE DEF call, n
<1>14. QED
  BY <1>1, <1>2, <1>4, <1>9, <1>10, <1>11, <1>12, <1>13, GoOnHolds

LEMMA DeletedSeries ==
  Deleted \in Series /\ Deleted[1] \notin {"consumed", "acked", "nacked"}
<1>1. Deleted \in {"cleanup"} \X {"failed", "expired", "deleted_by_user"}
  BY DEF Deleted
<1>2. QED
  BY <1>1 DEF Series, Deleted

LEMMA BeginDeleteHolds ==
  ASSUME IInv, NEW c \in Caller, BeginDelete(c)
  PROVE  IInv'
<1> PICK i \in InDlq :
      /\ calls[c] = Idle
      /\ Owe(c, "deleting", Deleted, 0, {}, [id |-> i, queue |-> "dlq", startedAt |-> 0])
      /\ UNCHANGED <<tableVars, clientVars, countVars, events>>
  BY DEF BeginDelete, Deleted
<1> DEFINE call == [at |-> "deleting", series |-> Deleted, count |-> 0,
                    rows |-> {}, receipt |-> [id |-> i, queue |-> "dlq", startedAt |-> 0]]
<1>1. c \in Process /\ call.receipt \in Receipt
  BY DEF Process, InDlq, Receipt, Queue
<1>2. call \in CallRecord /\ To(c, call) /\ Sane(c, call)
  BY <1>1, DeletedSeries DEF CallRecord, Owe, Sane
<1>3. events[Deleted] \in Nat /\ Fresh(Deleted, 0) = {}
  BY DeletedSeries DEF IInv, Shapes, Fresh
<1>4. \A t \in Series : ~ Owes(c, t)
  BY DEF Owes, Idle
<1>5. events' = [events EXCEPT ![Deleted] = @ + 0]
  BY <1>3 DEF IInv, Shapes
<1>6. /\ call.at = "deleting" /\ call.series = Deleted
      /\ call.rows = RowsOf(c, Deleted) \cup Fresh(Deleted, 0)
      /\ call.count >= Cardinality(call.rows)
  BY <1>3, <1>4, DeletedSeries, FS_EmptySet DEF RowsOf
<1>7. Table!TypeOK' /\ NoLease
  BY SameTable DEF IInv
<1>8. UNCHANGED <<clientVars, countVars>>
  OBVIOUS
<1> HIDE DEF call
<1>9. QED
  BY <1>1, <1>2, <1>4, <1>5, <1>6, <1>7, <1>8, DeletedSeries, GoOnHolds

\* The message may have left the DLQ: then the count is one, for no row.
LEMMA DeleteOneHolds ==
  ASSUME IInv, NEW c \in Caller, DeleteOne(c)
  PROVE  IInv'
<1> DEFINE S == {calls[c].receipt.id} \cap InDlq
           n == Cardinality(S)
           call == [at |-> "counting", series |-> Deleted, count |-> 1,
                    rows |-> Fresh(Deleted, n), receipt |-> NoReceipt]
<1>1. c \in Process /\ calls[c].at = "deleting"
  BY DEF DeleteOne, Process
<1>2. calls[c].series = Deleted /\ calls[c].rows = {}
  BY <1>1 DEF IInv, CallsSane, Sane
<1>3. S \in SUBSET Id /\ n \in Nat /\ n <= 1
  <2> DEFINE x == calls[c].receipt.id
  <2>1. IsFiniteSet({x}) /\ Cardinality({x}) = 1
    <3> HIDE DEF x
    <3>1. QED
      BY FS_Singleton
  <2>2. S \subseteq {x} /\ S \in SUBSET Id
    BY DEF InDlq
  <2>3. IsFiniteSet(S) /\ Cardinality(S) <= Cardinality({x})
    <3> HIDE DEF S, x
    <3>1. QED
      BY <2>1, <2>2, FS_Subset
  <2>4. n \in Nat
    BY <2>3, FS_CardinalityType
  <2>5. QED
    BY <2>1, <2>2, <2>3, <2>4
<1>4. /\ Happens(Deleted, n) /\ Table!Drop(S) /\ UNCHANGED clientVars
      /\ To(c, call)
  BY <1>2 DEF DeleteOne, Owe
<1>5. Table!TypeOK' /\ NoLease
  <2>1. Table!Go(S, "gone") /\ "gone" \in Table!Place
    BY <1>4 DEF Table!Drop, Table!Place
  <2>2. QED
    BY <1>3, <2>1, GoEndsLeases, TableAssumption DEF IInv, Shapes
<1> HIDE DEF n, S
<1>6. /\ Fresh(Deleted, n) \in SUBSET Nat /\ Cardinality(Fresh(Deleted, n)) = n
  <2>1. events[Deleted] \in Nat
    BY DeletedSeries DEF IInv, Shapes
  <2>2. Fresh(Deleted, n) \in SUBSET Nat
    BY <1>3, <2>1 DEF Fresh
  <2>3. QED
    BY <1>3, <2>2, DeletedSeries, FreshRows DEF IInv
<1>7. call \in CallRecord /\ Sane(c, call)
  BY <1>6, DeletedSeries DEF CallRecord, Sane
<1>8. \A t \in Series : t # Deleted => ~ Owes(c, t)
  BY <1>2 DEF Owes
<1>9. /\ call.at = "counting" /\ call.series = Deleted
      /\ call.rows = RowsOf(c, Deleted) \cup Fresh(Deleted, n)
      /\ call.count >= Cardinality(call.rows)
  BY <1>2, <1>3, <1>6 DEF RowsOf
<1>10. /\ events' = [events EXCEPT ![Deleted] = @ + n]
       /\ UNCHANGED <<clientVars, countVars>>
  BY <1>4 DEF Happens
<1> HIDE DEF call
<1>11. QED
  BY <1>1, <1>3, <1>4, <1>5, <1>7, <1>8, <1>9, <1>10, DeletedSeries, GoOnHolds

LEMMA CutSweepHolds ==
  ASSUME IInv, NEW j \in Job, CutSweep(j)
  PROVE  IInv'
<1> DEFINE call == [calls[j] EXCEPT !.at = "counting"]
<1>1. /\ j \in Process /\ calls[j].at = "sweeping" /\ calls[j] \in CallRecord
      /\ To(j, call)
      /\ UNCHANGED <<tableVars, clientVars, countVars, events>>
  BY DEF CutSweep, Process, IInv, Shapes, Idle
<1> PICK s \in Series : s = calls[j].series
  BY <1>1 DEF CallRecord
<1>2. /\ s # Deleted /\ s[1] \notin {"consumed", "acked", "nacked"}
  BY <1>1 DEF IInv, CallsSane, Sane, Sweeps, Deleted
<1>3. /\ call \in CallRecord /\ call.at = "counting" /\ call.series = s
      /\ call.rows = calls[j].rows /\ call.count = calls[j].count
  BY <1>1 DEF CallRecord
<1>4. Sane(j, call)
  BY <1>2, <1>3 DEF Sane
<1>5. Owes(j, s) /\ \A t \in Series : t # s => ~ Owes(j, t)
  BY <1>1 DEF Owes
<1>6. events[s] \in Nat /\ Fresh(s, 0) = {}
  BY DEF IInv, Shapes, Fresh
<1>7. call.rows = RowsOf(j, s) \cup Fresh(s, 0)
  BY <1>3, <1>5, <1>6 DEF RowsOf
<1>8. call.count = Cardinality(call.rows) /\ call.count >= Cardinality(call.rows)
  <2>1. /\ calls[j].count = Cardinality(calls[j].rows)
        /\ calls[j].count >= Cardinality(calls[j].rows)
    BY <1>1, <1>2, <1>5 DEF IInv, RowsApart
  <2>2. QED
    BY <1>3, <2>1
<1>9. events' = [events EXCEPT ![s] = @ + 0]
  BY <1>1, <1>6 DEF IInv, Shapes
<1>10. Table!TypeOK' /\ NoLease
  BY <1>1, SameTable DEF IInv
<1> HIDE DEF call
<1>11. QED
  BY <1>1, <1>2, <1>3, <1>4, <1>5, <1>7, <1>8, <1>9, <1>10, GoOnHolds

-----------------------------------------------------------------------------
LEMMA ProduceHolds == ASSUME IInv, NEW c \in Caller, Produce(c) PROVE IInv'
<1> PICK i \in Id : Table!Enter(i) /\ Statement(c, <<"produced", "queue">>, 1)
  BY DEF Produce
<1>1. /\ <<"produced", "queue">> \in Series /\ c \in Process
      /\ <<"produced", "queue">>[1] \notin {"consumed", "acked", "nacked"}
  BY DEF Series, Queue, Process
<1>2. Table!Go({i}, "queue") /\ "queue" \in Table!Place
  BY DEF Table!Enter, Table!Place
<1>3. Table!TypeOK' /\ NoLease
  BY <1>2, GoEndsLeases, TableAssumption DEF IInv, Shapes
<1>4. QED
  BY <1>1, <1>3, StatementHolds

\* What a good receipt ends is a delivery that was answered.
LEMMA AckHolds == ASSUME IInv, NEW c \in Caller, Ack(c) PROVE IInv'
<1> PICK h \in holds : /\ Current(h) /\ Table!Complete(h.id)
                       /\ Statement(c, <<"acked", place[h.id]>>, 1)
  BY DEF Ack
<1>1. PICK i \in Id : i = h.id
  BY DEF IInv, Shapes, ReceiptsSane, Receipt
<1>2. PICK q \in Queue : q = place[i]
  BY <1>1 DEF Current, IInv, Shapes
<1>3. i \in Held(q, served)
  BY <1>1, <1>2 DEF Held, IInv, ReceiptsSane
<1>4. Table!Go({i}, "gone") /\ "gone" \in Table!Place
  BY <1>1 DEF Table!Complete, Table!Place
<1>5. Table!TypeOK' /\ NoLease /\ ~ leased'[i]
  BY <1>4, GoEndsLeases, TableAssumption DEF IInv, Shapes
<1>6. Statement(c, <<"acked", q>>, 1) /\ c \in Process
  BY <1>1, <1>2 DEF Process
<1>7. QED
  BY <1>3, <1>5, <1>6, SettleHolds

LEMMA NackHolds == ASSUME IInv, NEW c \in Caller, Nack(c) PROVE IInv'
<1> PICK h \in holds : /\ Current(h) /\ Table!Release({h.id})
                       /\ Statement(c, <<"nacked", place[h.id]>>, 1)
  BY DEF Nack
<1>1. PICK i \in Id : i = h.id
  BY DEF IInv, Shapes, ReceiptsSane, Receipt
<1>2. PICK q \in Queue : q = place[i]
  BY <1>1 DEF Current, IInv, Shapes
<1>3. i \in Held(q, served)
  BY <1>1, <1>2 DEF Held, IInv, ReceiptsSane
<1>4. Table!TypeOK' /\ NoLease /\ ~ leased'[i]
  BY <1>1, ReleaseEndsLeases DEF IInv, Shapes
<1>5. Statement(c, <<"nacked", q>>, 1) /\ c \in Process
  BY <1>1, <1>2 DEF Process
<1>6. QED
  BY <1>3, <1>4, <1>5, SettleHolds

\* The other statements act on sets of messages.
LEMMA SetStatementHolds ==
  ASSUME IInv, NEW p \in Process, NEW s, NEW S \in SUBSET Id,
         s \in {<<"requeued", "dlq">>, Deleted, <<"stale_recovered", "">>,
               <<"moved_to_dlq", "failed">>, <<"cleanup", "failed">>},
         \/ Table!Release(S)
         \/ \E there \in Table!Place : Table!Go(S, there),
         Statement(p, s, Cardinality(S))
  PROVE  IInv'
<1>1. Table!TypeOK' /\ NoLease
  BY GoEndsLeases, ReleaseEndsLeases, TableAssumption DEF IInv, Shapes
<1>2. Cardinality(S) \in Nat
  BY TableAssumption, FS_Subset, FS_CardinalityType
<1>3. s \in Series
  <2>1. <<"requeued", "dlq">> \in Series
    BY DEF Series, Queue
  <2>2. /\ <<"moved_to_dlq", "failed">> \in {"moved_to_dlq"} \X {"failed", "expired"}
        /\ <<"cleanup", "failed">>
             \in {"cleanup"} \X {"failed", "expired", "deleted_by_user"}
    OBVIOUS
  <2>3. <<"stale_recovered", "">> \in Series
    BY DEF Series
  <2>4. QED
    BY <2>1, <2>2, <2>3, DeletedSeries DEF Series
<1>4. s[1] \notin {"consumed", "acked", "nacked"}
  <2>1. /\ <<"requeued", "dlq">>[1] = "requeued"
        /\ <<"stale_recovered", "">>[1] = "stale_recovered"
        /\ <<"moved_to_dlq", "failed">>[1] = "moved_to_dlq"
        /\ <<"cleanup", "failed">>[1] = "cleanup"
    OBVIOUS
  <2>2. QED
    BY <2>1, DeletedSeries
<1>5. QED
  BY <1>1, <1>2, <1>3, <1>4, StatementHolds

LEMMA AdminHolds ==
  ASSUME IInv, NEW c \in Caller, RequeueAll(c) \/ RequeueOne(c) \/ DeleteAll(c)
  PROVE  IInv'
<1>1. c \in Process /\ {"queue", "gone"} \subseteq Table!Place
  BY DEF Process, Table!Place
<1>2. CASE RequeueAll(c)
  <2> DEFINE S == Table!Unleased("dlq")
  <2>1. /\ Table!Go(S, "queue") /\ Statement(c, <<"requeued", "dlq">>, Cardinality(S))
        /\ S \in SUBSET Id
    BY <1>2 DEF RequeueAll, Table!Revive, Table!Unleased
  <2> HIDE DEF S
  <2>2. QED
    BY <1>1, <2>1, SetStatementHolds
<1>3. CASE RequeueOne(c)
  <2> PICK i \in Id : Table!Revive({i}) /\ Statement(c, <<"requeued", "dlq">>, 1)
    BY <1>3 DEF RequeueOne
  <2>1. Table!Go({i}, "queue") /\ {i} \in SUBSET Id
    BY DEF Table!Revive
  <2>2. Cardinality({i}) = 1
    BY FS_Singleton
  <2>3. Statement(c, <<"requeued", "dlq">>, Cardinality({i}))
    BY <2>2
  <2>4. QED
    BY <1>1, <2>1, <2>3, SetStatementHolds
<1>4. CASE DeleteAll(c)
  <2>1. /\ Table!Go(InDlq, "gone") /\ Statement(c, Deleted, Cardinality(InDlq))
        /\ InDlq \in SUBSET Id
    BY <1>4 DEF DeleteAll, Table!Drop, InDlq, Deleted
  <2>2. QED
    BY <1>1, <2>1, SetStatementHolds
<1>5. QED
  BY <1>2, <1>3, <1>4

LEMMA JobsHold ==
  ASSUME IInv, RecoverStale \/ MoveFailed \/ DeleteFailed \/ MoveExpired \/ DeleteExpired
  PROVE  IInv'
<1>1. {"dlq", "gone"} \subseteq Table!Place /\ Job \subseteq Process
  BY DEF Process, Table!Place
<1>2. CASE RecoverStale
  <2> PICK S \in SUBSET Id :
        Table!Release(S) /\ Statement("stale", <<"stale_recovered", "">>, Cardinality(S))
    BY <1>2 DEF RecoverStale
  <2>1. "stale" \in Process
    BY <1>1 DEF Job
  <2>2. QED
    BY <2>1, SetStatementHolds
<1>3. CASE MoveFailed
  <2> DEFINE S == Failed("queue")
  <2>1. /\ Table!Go(S, "dlq") /\ S \in SUBSET Id /\ "failed" \in Process
        /\ Statement("failed", <<"moved_to_dlq", "failed">>, Cardinality(S))
    BY <1>1, <1>3 DEF MoveFailed, Table!Bury, Failed, Table!Unleased, Job
  <2> HIDE DEF S
  <2>2. QED
    BY <1>1, <2>1, SetStatementHolds
<1>4. CASE DeleteFailed
  <2> DEFINE S == Failed("dlq")
  <2>1. /\ Table!Go(S, "gone") /\ S \in SUBSET Id /\ "failedDlq" \in Process
        /\ Statement("failedDlq", <<"cleanup", "failed">>, Cardinality(S))
    BY <1>1, <1>4 DEF DeleteFailed, Table!Drop, Failed, Table!Unleased, Job
  <2> HIDE DEF S
  <2>2. QED
    BY <1>1, <2>1, SetStatementHolds
<1>5. CASE MoveExpired
  <2> PICK S \in SUBSET Table!Unleased("queue") :
        Table!Bury(S) /\ Batch("expired", <<"moved_to_dlq", "expired">>, S)
    BY <1>5 DEF MoveExpired
  <2>1. S \in SUBSET Id /\ Table!Go(S, "dlq")
    BY DEF Table!Bury, Table!Unleased
  <2>2. Table!TypeOK' /\ NoLease
    BY <1>1, <2>1, GoEndsLeases, TableAssumption DEF IInv, Shapes
  <2>3. <<"expired", <<"moved_to_dlq", "expired">>>> \in Sweeps
    BY DEF Sweeps
  <2>4. QED
    BY <2>1, <2>2, <2>3, BatchHolds
<1>6. CASE DeleteExpired
  <2> PICK S \in SUBSET Table!Unleased("dlq") :
        Table!Drop(S) /\ Batch("expiredDlq", <<"cleanup", "expired">>, S)
    BY <1>6 DEF DeleteExpired
  <2>1. S \in SUBSET Id /\ Table!Go(S, "gone")
    BY DEF Table!Drop, Table!Unleased
  <2>2. Table!TypeOK' /\ NoLease
    BY <1>1, <2>1, GoEndsLeases, TableAssumption DEF IInv, Shapes
  <2>3. <<"expiredDlq", <<"cleanup", "expired">>>> \in Sweeps
    BY DEF Sweeps
  <2>4. QED
    BY <2>1, <2>2, <2>3, BatchHolds
<1>7. QED
  BY <1>2, <1>3, <1>4, <1>5, <1>6

LEMMA InitHolds == Init => IInv
<1> SUFFICES ASSUME Init PROVE IInv
  OBVIOUS
<1>1. Table!TypeOK /\ \A i \in Id : leased[i] => place[i] \in Queue
  BY TableAssumption DEF Init, Table!Init, Table!TypeOK, Table!Place
<1>2. Shapes
  BY <1>1 DEF Init, Shapes, Zero
<1>3. CallsSane /\ ReceiptsSane
  BY DEF Init, CallsSane, Sane, ReceiptsSane, Idle
<1>4. /\ \A p \in Process, s \in Series : ~ Owes(p, s)
      /\ \A s \in Series : Uncounted(s) = {}
  BY DEF Init, Owes, Idle, Uncounted
<1>5. RowsApart
  BY <1>4 DEF Init, RowsApart
<1>6. Accounted
  <2>1. \A s \in Series : /\ counters[s] = 0 /\ events[s] = 0
                           /\ Cardinality(Uncounted(s)) = 0
    BY <1>4, FS_EmptySet DEF Init, Zero
  <2>2. QED
    BY <2>1 DEF Accounted
<1>7. DeliveriesCounted
  <2> SUFFICES ASSUME NEW q \in Queue
               PROVE  events[<<"acked", q>>] + events[<<"nacked", q>>]
                        + Cardinality(Held(q, served))
                      <= counters[<<"consumed", q>>] + carried[q]
                           + Cardinality(Repeats(q))
    BY DEF DeliveriesCounted
  <2>1. Held(q, served) = {}
    BY DEF Init, Held
  <2>2. /\ <<"acked", q>> \in Series /\ <<"nacked", q>> \in Series
        /\ <<"consumed", q>> \in Series
    BY DEF Series
  <2>3. Repeats(q) = {}
    BY DEF Init, Repeats
  <2>4. QED
    BY <2>1, <2>2, <2>3, FS_EmptySet DEF Init, Zero
<1>8. QED
  BY <1>2, <1>3, <1>5, <1>6, <1>7 DEF IInv

\* What is carried over is what the receipts that are left can still settle.
LEMMA RestartHolds == IInv /\ Restart => IInv'
<1> SUFFICES ASSUME IInv, Restart PROVE IInv'
  OBVIOUS
<1>1. Table!TypeOK' /\ NoLease
  BY SameTable DEF Restart, IInv
<1>2. \A q \in Queue : carried'[q] = Cardinality(Held(q, holds)) /\ carried'[q] \in Nat
  BY HeldFinite DEF Restart
<1>3. Shapes'
  <2>1. carried' \in [Queue -> Nat]
    BY <1>2 DEF Restart
  <2>2. QED
    BY <1>1, <2>1 DEF Restart, Zero, IInv, Shapes, ReceiptsSane, NoLease
<1>4. CallsSane'
  BY DEF Restart, CallsSane, Sane, Idle
<1>5. ReceiptsSane'
  BY DEF Restart, IInv, ReceiptsSane, Idle
<1>6. /\ \A p \in Process, s \in Series : ~ Owes(p, s)'
      /\ \A s \in Series : Uncounted(s)' = {}
  BY DEF Restart, Owes, Idle, Uncounted
<1>7. RowsApart'
  BY <1>6 DEF Restart, RowsApart
<1>8. Accounted'
  <2>1. \A s \in Series : /\ counters'[s] = 0 /\ events'[s] = 0
                           /\ Cardinality(Uncounted(s)') = 0
    BY <1>6, FS_EmptySet DEF Restart, Zero
  <2>2. QED
    BY <2>1 DEF Accounted
<1>9. served' = holds /\ \A q \in Queue : Repeats(q)' = {}
  BY DEF Restart, Repeats
<1>10. DeliveriesCounted'
  <2> SUFFICES ASSUME NEW q \in Queue
               PROVE  events'[<<"acked", q>>] + events'[<<"nacked", q>>]
                        + Cardinality(Held(q, served)')
                      <= counters'[<<"consumed", q>>] + carried'[q]
                           + Cardinality(Repeats(q)')
    BY DEF DeliveriesCounted
  <2>1. Held(q, served)' = Held(q, holds)
    BY <1>9 DEF Restart, tableVars, Held, Current
  <2>2. /\ <<"acked", q>> \in Series /\ <<"nacked", q>> \in Series
        /\ <<"consumed", q>> \in Series
    BY DEF Series
  <2>3. /\ events'[<<"acked", q>>] = 0 /\ events'[<<"nacked", q>>] = 0
        /\ counters'[<<"consumed", q>>] = 0
    BY <2>2 DEF Restart, Zero
  <2>4. Cardinality(Repeats(q)') = 0
    BY <1>9, FS_EmptySet
  <2>5. Cardinality(Held(q, served)') = carried'[q] /\ carried'[q] \in Nat
    BY <1>2, <2>1
  <2>6. QED
    BY <2>3, <2>4, <2>5
<1>11. QED
  BY <1>3, <1>4, <1>5, <1>7, <1>8, <1>10 DEF IInv

LEMMA StutterHolds == IInv /\ UNCHANGED vars => IInv'
<1> SUFFICES ASSUME IInv, UNCHANGED vars PROVE IInv'
  OBVIOUS
<1>1. Shapes' /\ CallsSane'
  BY DEF vars, tableVars, clientVars, IInv, Shapes, Table!TypeOK, CallsSane
<1>2. RowsApart' /\ Accounted' /\ \A t \in Series : Uncounted(t)' = Uncounted(t)
  BY RowsSame DEF vars, IInv, Owes
<1>3. Table!TypeOK' /\ NoLease
  BY SameTable DEF vars, IInv
<1>4. SameClaims
  BY <1>2 DEF vars, clientVars, SameClaims, NoClaim, Series, IInv, ReceiptsSane
<1>5. NoClaim
  BY <1>4 DEF SameClaims
<1>6. /\ calls' = calls /\ events' = events /\ counters' = counters
      /\ lost' = lost /\ UNCHANGED <<carried, restarted>>
  BY DEF vars
<1>7. QED
  BY <1>1, <1>2, <1>3, <1>4, <1>5, <1>6, Quietly DEF Shapes

LEMMA StepHolds == IInv /\ [Next]_vars => IInv'
<1> SUFFICES ASSUME IInv, [Next]_vars PROVE IInv'
  OBVIOUS
<1>1. ASSUME NEW c \in Caller, Produce(c) \/ Consume(c) \/ Ack(c) \/ Nack(c)
      PROVE  IInv'
  BY <1>1, ProduceHolds, ConsumeHolds, AckHolds, NackHolds
<1>2. ASSUME NEW c \in Caller, RequeueAll(c) \/ RequeueOne(c) \/ DeleteAll(c)
      PROVE  IInv'
  BY <1>2, AdminHolds
<1>3. ASSUME NEW c \in Caller, BeginDelete(c) \/ DeleteOne(c) \/ Respond(c)
      PROVE  IInv'
  BY <1>3, BeginDeleteHolds, DeleteOneHolds, RespondHolds
<1>4. ASSUME NEW c \in Caller, CutClaim(c) PROVE IInv'
  <2>1. /\ c \in Process /\ calls[c].at = "counting" /\ To(c, Idle)
        /\ UNCHANGED <<tableVars, clientVars, counters, events, carried, restarted>>
    BY <1>4 DEF CutClaim, Process
  <2>2. lost' = [lost EXCEPT ![calls[c].series] = @ \cup calls[c].rows]
    BY <1>4 DEF CutClaim
  <2>3. QED
    BY <2>1, <2>2, LoseHolds
<1>5. ASSUME NEW j \in Job, FailSweep(j) PROVE IInv'
  <2>1. /\ j \in Process /\ calls[j].at = "sweeping" /\ To(j, Idle)
        /\ lost' = [lost EXCEPT ![calls[j].series] = @ \cup calls[j].rows]
        /\ UNCHANGED <<tableVars, clientVars, counters, events, carried, restarted>>
    BY <1>5 DEF FailSweep, Process
  <2>2. QED
    BY <2>1, LoseHolds
<1>6. ASSUME NEW j \in Job, CutSweep(j) PROVE IInv'
  BY <1>6, CutSweepHolds
<1>7. ASSUME NEW p \in Process, Count(p) PROVE IInv'
  BY <1>7, CountHolds
<1>8. CASE RecoverStale \/ MoveFailed \/ DeleteFailed \/ MoveExpired \/ DeleteExpired
  BY <1>8, JobsHold
<1>9. CASE Restart
  BY <1>9, RestartHolds
<1>10. CASE UNCHANGED vars
  BY <1>10, StutterHolds
<1>11. QED
  BY <1>1, <1>2, <1>3, <1>4, <1>5, <1>6, <1>7, <1>8, <1>9, <1>10 DEF Next

-----------------------------------------------------------------------------
\* Rows, calls, receipts and counters agree in every reachable state.
THEOREM InvariantHolds == Spec => []IInv
BY InitHolds, StepHolds, PTL DEF Spec

\* Messages, receipts, calls and counters stay well formed.
THEOREM TypeCorrect == Spec => []TypeOK
<1>1. IInv => TypeOK
  <2> SUFFICES ASSUME IInv PROVE TypeOK
    OBVIOUS
  <2>1. \A p \in Process : calls[p] # Idle =>
          /\ calls[p].at \in {"counting", "responding", "sweeping", "deleting"}
          /\ calls[p].series \in Series
          /\ calls[p].count \in Nat /\ calls[p].rows \subseteq Nat
          /\ calls[p].at = "responding" => calls[p].series[1] = "consumed"
    BY DEF IInv, Shapes, CallsSane, Sane, CallRecord
  <2>2. QED
    BY <2>1 DEF IInv, Shapes, ReceiptsSane, TypeOK
<1>2. QED
  BY <1>1, InvariantHolds, PTL

\* Every row that a statement changed is counted once or lost with an error
\* that was reported (services/messages.go:89-207, jobs/cleanup).
THEOREM RowsAreAccounted == Spec => []Accounted
<1>1. IInv => Accounted
  BY DEF IInv
<1>2. QED
  BY <1>1, InvariantHolds, PTL

\* The counters never show more settled than consumed deliveries of a queue
\* (services/messages.go:104, 137, 151), but for claims that repeat a receipt and
\* are not counted yet.
THEOREM SettledAreConsumed == Spec => []SettledWereConsumed
<1>1. IInv => SettledWereConsumed
  <2> SUFFICES ASSUME IInv, NEW q \in Queue
               PROVE  counters[<<"acked", q>>] + counters[<<"nacked", q>>]
                        <= counters[<<"consumed", q>>] + carried[q]
                             + Cardinality(Repeats(q))
    BY DEF SettledWereConsumed
  <2> DEFINE a == <<"acked", q>>
             b == <<"nacked", q>>
             c == <<"consumed", q>>
  <2>1. a \in Series /\ b \in Series /\ c \in Series /\ a # Deleted /\ b # Deleted
    BY DEF Series, Deleted
  <2>2. ASSUME NEW s \in Series, s # Deleted PROVE counters[s] <= events[s]
    <3>1. counters[s] + Cardinality(Uncounted(s)) = events[s]
      BY <2>2 DEF IInv, Accounted, Deleted
    <3>2. Cardinality(Uncounted(s)) \in Nat /\ counters[s] \in Nat
      BY UncountedRows DEF IInv, Shapes
    <3>3. QED
      BY <3>1, <3>2
  <2>3. counters[a] <= events[a] /\ counters[b] <= events[b]
    BY <2>1, <2>2
  <2>4. /\ counters[a] \in Nat /\ counters[b] \in Nat /\ counters[c] \in Nat
        /\ events[a] \in Nat /\ events[b] \in Nat /\ carried[q] \in Nat
    BY <2>1 DEF IInv, Shapes
  <2>5. events[a] + events[b] + Cardinality(Held(q, served))
          <= counters[c] + carried[q] + Cardinality(Repeats(q))
    BY DEF IInv, DeliveriesCounted
  <2>6. /\ Cardinality(Held(q, served)) \in Nat
        /\ Cardinality(Repeats(q)) \in Nat
    BY HeldFinite, RepeatsFinite DEF IInv
  <2> HIDE DEF a, b, c
  <2>7. counters[a] + counters[b] <= counters[c] + carried[q] + Cardinality(Repeats(q))
    BY <2>3, <2>4, <2>5, <2>6
  <2>8. QED
    BY <2>7 DEF a, b, c
<1>2. QED
  BY <1>1, InvariantHolds, PTL

-----------------------------------------------------------------------------
(***************************************************************************)
(* The gauge of QueueDepth, beside the same messages.  However they move   *)
(* during a tick, the gauge never shows more of them than were ever        *)
(* produced.  The invariant adds what the gauge shows to what the tick has *)
(* yet to set.                                                             *)
(***************************************************************************)
Entered == {i \in Id : place[i] # "new"}

DepthOf(f, q) == IF q \in DOMAIN f THEN f[q] ELSE 0

Total(f) == DepthOf(f, "queue") + DepthOf(f, "dlq")

DepthMap(f) ==
  DOMAIN f \subseteq Queue /\ \A q \in DOMAIN f : f[q] \in Nat

GaugeShapes ==
  /\ DepthMap(gauge)
  /\ job = Waiting \/ (job.at \in {"read", "setting"} /\ DepthMap(job.stats))

GaugeBudgeted ==
  /\ Total(gauge) <= Cardinality(Entered)
  /\ job.at = "read" => Total(job.stats) <= Cardinality(Entered)
  /\ job.at = "setting" =>
       Total(gauge) + Total(job.stats) <= Cardinality(Entered)

GaugeIInv == GaugeShapes /\ GaugeBudgeted

-----------------------------------------------------------------------------
LEMMA EnteredFinite ==
  /\ IsFiniteSet(Entered)
  /\ Cardinality(Entered) \in Nat
<1>1. Entered \in SUBSET Id
  BY DEF Entered
<1>2. IsFiniteSet(Entered)
  BY <1>1, TableAssumption, FS_Subset
<1>3. QED
  BY <1>2, FS_CardinalityType

\* One read counts a message in one queue.
LEMMA StatsFit == DepthMap(Stats) /\ Total(Stats) <= Cardinality(Entered)
<1> DEFINE Q == Here("queue")
           D == Here("dlq")
<1>1. Q \in SUBSET Entered /\ D \in SUBSET Entered /\ Q \cap D = {}
      /\ Q \cup D \in SUBSET Entered
  BY DEF Here, Entered
<1>2. IsFiniteSet(Q) /\ IsFiniteSet(D) /\ IsFiniteSet(Q \cup D)
  BY <1>1, EnteredFinite, FS_Subset
<1>3. Cardinality(Q) \in Nat /\ Cardinality(D) \in Nat
  BY <1>2, FS_CardinalityType
<1>4. Cardinality(Q \cup D) <= Cardinality(Entered)
  BY <1>1, EnteredFinite, FS_Subset
<1>5. Cardinality(Q \cup D) = Cardinality(Q) + Cardinality(D) - Cardinality(Q \cap D)
  BY <1>2, FS_Union
<1>6. Cardinality(Q \cap D) = 0
  BY <1>1, FS_EmptySet
<1>7. Cardinality(Q) + Cardinality(D) <= Cardinality(Entered)
  BY <1>3, <1>4, <1>5, <1>6, EnteredFinite
<1>8. /\ DepthOf(Stats, "queue") \in {0, Cardinality(Q)}
      /\ DepthOf(Stats, "dlq") \in {0, Cardinality(D)}
  BY DEF DepthOf, Stats
<1>9. DepthMap(Stats)
  BY <1>3 DEF DepthMap, Stats, Queue
<1>10. QED
  BY <1>3, <1>7, <1>8, <1>9, EnteredFinite DEF Total

\* No message becomes new again.
LEMMA EnteredGrows ==
  ASSUME Table!Next
  PROVE  /\ Entered \subseteq Entered'
         /\ Cardinality(Entered) <= Cardinality(Entered')
         /\ Cardinality(Entered') \in Nat
<1>1. Entered' \in SUBSET Id
  BY DEF Entered
<1>2. IsFiniteSet(Entered')
  BY <1>1, TableAssumption, FS_Subset
<1>3. SUFFICES Entered \subseteq Entered'
  BY <1>2, FS_Subset, FS_CardinalityType
<1>4. ASSUME NEW S, NEW there, there # "new", Table!Go(S, there)
      PROVE  Entered \subseteq Entered'
  BY <1>4 DEF Table!Go, Entered
<1>5. CASE \E i \in Id : Table!Deliver(i)
  BY <1>5 DEF Table!Deliver, Entered
<1>6. CASE \E S \in SUBSET Id : Table!Release(S)
  BY <1>6 DEF Table!Release, Entered
<1>7. CASE \E i \in Id : Table!Enter(i) \/ Table!Complete(i)
  BY <1>4, <1>7 DEF Table!Enter, Table!Complete
<1>8. CASE \E S \in SUBSET Id :
             Table!Reject(S) \/ Table!Bury(S) \/ Table!Revive(S) \/ Table!Drop(S)
  BY <1>4, <1>8 DEF Table!Reject, Table!Bury, Table!Revive, Table!Drop
<1>9. QED
  BY <1>5, <1>6, <1>7, <1>8 DEF Table!Next

LEMMA GaugeInitHolds == GaugeInit => GaugeIInv
<1> SUFFICES ASSUME GaugeInit PROVE GaugeIInv
  OBVIOUS
<1>1. job = Waiting /\ gauge = None
  BY DEF GaugeInit
<1>2. Total(gauge) = 0
  BY <1>1 DEF None, Total, DepthOf
<1>3. QED
  BY <1>1, <1>2, EnteredFinite DEF GaugeIInv, GaugeShapes, GaugeBudgeted, DepthMap, None, Waiting

LEMMA TotalType ==
  ASSUME NEW f, DepthMap(f)
  PROVE  /\ DepthOf(f, "queue") \in Nat
         /\ DepthOf(f, "dlq") \in Nat
         /\ Total(f) \in Nat
  BY DEF DepthMap, DepthOf, Total, Queue

\* Setting one series moves its depth from the tick to the gauge.
LEMMA SetMoves ==
  ASSUME GaugeShapes, SetQueueDepth
  PROVE  /\ GaugeShapes'
         /\ job'.at = "setting"
         /\ Total(gauge') + Total(job'.stats) <= Total(gauge) + Total(job.stats)
<1> DEFINE q == First(job.stats)
<1>1. /\ job.at = "setting" /\ DOMAIN job.stats # {}
      /\ gauge' = [p \in DOMAIN gauge \cup {q} |->
                     IF p = q THEN job.stats[q] ELSE gauge[p]]
      /\ job' = [job EXCEPT !.stats = Rest(job.stats)]
  BY DEF SetQueueDepth
<1>2. DepthMap(gauge) /\ DepthMap(job.stats)
  BY <1>1 DEF GaugeShapes, Waiting
<1>3. q \in DOMAIN job.stats /\ q \in Queue
  BY <1>1, <1>2 DEF First, DepthMap, Queue
<1>4. job'.at = "setting" /\ job'.stats = Rest(job.stats)
  BY <1>1 DEF GaugeShapes, Waiting
<1>5. DepthMap(gauge')
  BY <1>1, <1>2, <1>3 DEF DepthMap
<1>6. DepthMap(job'.stats)
  BY <1>2, <1>4 DEF DepthMap, Rest
<1>7. \A p \in Queue :
        /\ DepthOf(gauge', p) = IF p = q THEN DepthOf(job.stats, p) ELSE DepthOf(gauge, p)
        /\ DepthOf(job'.stats, p) = IF p = q THEN 0 ELSE DepthOf(job.stats, p)
  BY <1>1, <1>3, <1>4 DEF DepthOf, Rest
<1>8. GaugeShapes'
  BY <1>4, <1>5, <1>6 DEF GaugeShapes
<1>9. Total(gauge') + Total(job'.stats) <= Total(gauge) + Total(job.stats)
  BY <1>2, <1>3, <1>7, TotalType DEF Total, Queue
<1>10. QED
  BY <1>4, <1>8, <1>9

LEMMA GaugeStepHolds == GaugeIInv /\ [GaugeNext]_gaugeVars => GaugeIInv'
<1> SUFFICES ASSUME GaugeIInv, [GaugeNext]_gaugeVars PROVE GaugeIInv'
  OBVIOUS
<1>1. Cardinality(Entered) \in Nat
  BY EnteredFinite
<1>2. DepthMap(gauge) /\ Total(gauge) \in Nat
  BY TotalType DEF GaugeIInv, GaugeShapes
<1>3. CASE Messages
  <2>1. UNCHANGED <<job, gauge>> /\ Table!Next
    BY <1>3 DEF Messages
  <2>2. Cardinality(Entered) <= Cardinality(Entered') /\ Cardinality(Entered') \in Nat
    BY <2>1, EnteredGrows
  <2>3. job # Waiting => Total(job.stats) \in Nat
    BY TotalType DEF GaugeIInv, GaugeShapes
  <2>4. GaugeShapes'
    BY <2>1 DEF GaugeIInv, GaugeShapes
  <2>5. GaugeBudgeted'
    BY <1>1, <1>2, <2>1, <2>2, <2>3 DEF GaugeIInv, GaugeBudgeted, GaugeShapes, Waiting
  <2>6. QED
    BY <2>4, <2>5 DEF GaugeIInv
<1>4. CASE Tick \/ UNCHANGED gaugeVars
  <2>1. Entered' = Entered
    BY <1>4 DEF Tick, ReadStats, ResetQueueDepths, SetQueueDepth, EndTick,
                tableVars, gaugeVars, Entered
  <2>2. CASE ReadStats
    BY <1>2, <2>1, <2>2, StatsFit DEF ReadStats, GaugeIInv, GaugeShapes, GaugeBudgeted
  <2>3. CASE ResetQueueDepths
    <3>1. /\ job.at = "read" /\ gauge' = None
          /\ job' = [job EXCEPT !.at = "setting"]
      BY <2>3 DEF ResetQueueDepths
    <3>2. DepthMap(job.stats) /\ job'.at = "setting" /\ job'.stats = job.stats
      BY <3>1 DEF GaugeIInv, GaugeShapes, Waiting
    <3>3. DepthMap(gauge') /\ Total(gauge') = 0
      BY <3>1 DEF None, DepthMap, Total, DepthOf
    <3>4. Total(job.stats) \in Nat /\ Total(job.stats) <= Cardinality(Entered)
      BY <3>1, <3>2, TotalType DEF GaugeIInv, GaugeBudgeted
    <3>5. QED
      BY <1>1, <2>1, <3>2, <3>3, <3>4 DEF GaugeIInv, GaugeShapes, GaugeBudgeted
  <2>4. CASE SetQueueDepth
    <3>1. /\ GaugeShapes' /\ job'.at = "setting"
          /\ Total(gauge') + Total(job'.stats) <= Total(gauge) + Total(job.stats)
      BY <2>4, SetMoves DEF GaugeIInv
    <3>2. Total(gauge) + Total(job.stats) <= Cardinality(Entered)
      BY <2>4 DEF SetQueueDepth, GaugeIInv, GaugeBudgeted
    <3>3. DepthMap(gauge') /\ DepthMap(job'.stats) /\ DepthMap(job.stats)
      BY <2>4, <3>1 DEF GaugeShapes, Waiting, GaugeIInv, SetQueueDepth
    <3>4. /\ Total(gauge') \in Nat /\ Total(job'.stats) \in Nat
          /\ Total(job.stats) \in Nat
      BY <3>3, TotalType
    <3>5. QED
      BY <1>1, <1>2, <2>1, <3>1, <3>2, <3>4 DEF GaugeIInv, GaugeBudgeted
  <2>5. CASE EndTick
    BY <2>1, <2>5 DEF EndTick, GaugeIInv, GaugeShapes, GaugeBudgeted, Waiting
  <2>6. CASE UNCHANGED gaugeVars
    BY <2>1, <2>6 DEF gaugeVars, GaugeIInv, GaugeShapes, GaugeBudgeted
  <2>7. QED
    BY <1>4, <2>2, <2>3, <2>4, <2>5, <2>6 DEF Tick
<1>5. QED
  BY <1>3, <1>4 DEF GaugeNext

-----------------------------------------------------------------------------
\* No message is shown in two series at once, whatever moves while a tick fills
\* the gauge (queuesdepth.go:15-26).
THEOREM ShownHolds == GaugeSpec => []ShownOnce
<1>1. GaugeIInv => ShownOnce
  BY DEF GaugeIInv, GaugeBudgeted, ShownOnce, Shown, Total, DepthOf, Entered
<1>2. QED
  BY <1>1, GaugeInitHolds, GaugeStepHolds, PTL DEF GaugeSpec

-----------------------------------------------------------------------------
LEMMA DepthsAre ==
  ASSUME NEW f
  PROVE  f \in Depths <=> \E S \in SUBSET Queue : f \in [S -> 1 .. Cardinality(Id)]
  BY DEF Depths

\* A queue that is in the statistics has a message, and none has more than all.
LEMMA StatsAreDepths == Stats \in Depths
<1>1. SUFFICES ASSUME NEW q \in Queue, Here(q) # {}
               PROVE  Cardinality(Here(q)) \in 1 .. Cardinality(Id)
  BY DepthsAre DEF Stats
<1>2. IsFiniteSet(Id) /\ Here(q) \subseteq Id
  BY TableAssumption DEF Here
<1>3. /\ IsFiniteSet(Here(q)) /\ Cardinality(Here(q)) <= Cardinality(Id)
  BY <1>2, FS_Subset
<1>4. Cardinality(Here(q)) \in Nat /\ Cardinality(Id) \in Nat
  BY <1>2, <1>3, FS_CardinalityType
<1>5. Cardinality(Here(q)) # 0
  BY <1>1, <1>3, FS_EmptySet
<1>6. QED
  BY <1>3, <1>4, <1>5

LEMMA MessagesTyped == Table!TypeOK /\ Table!Next => Table!TypeOK'
<1> SUFFICES ASSUME Table!TypeOK, Table!Next PROVE Table!TypeOK'
  OBVIOUS
<1>1. MaxDeliveryAttempts \in Nat
  BY TableAssumption
<1>2. ASSUME NEW S, NEW there \in Table!Place, Table!Go(S, there)
      PROVE  Table!TypeOK'
  <2>1. place' \in [Id -> Table!Place]
    BY <1>2 DEF Table!Go, Table!TypeOK
  <2>2. leased' \in [Id -> BOOLEAN]
    BY <1>2 DEF Table!Go, Table!TypeOK
  <2>3. tries' \in [Id -> 0 .. MaxDeliveryAttempts]
    BY <1>1, <1>2 DEF Table!Go, Table!TypeOK
  <2>4. QED
    BY <2>1, <2>2, <2>3 DEF Table!TypeOK
<1>3. CASE \E i \in Id : Table!Deliver(i)
  BY <1>1, <1>3 DEF Table!Deliver, Table!TypeOK
<1>4. CASE \E S \in SUBSET Id : Table!Release(S)
  BY <1>4 DEF Table!Release, Table!TypeOK
<1>5. CASE \E i \in Id : Table!Enter(i) \/ Table!Complete(i)
  BY <1>2, <1>5 DEF Table!Enter, Table!Complete, Table!Place
<1>6. CASE \E S \in SUBSET Id :
             Table!Reject(S) \/ Table!Bury(S) \/ Table!Revive(S) \/ Table!Drop(S)
  BY <1>2, <1>6 DEF Table!Reject, Table!Bury, Table!Revive, Table!Drop, Table!Place
<1>7. QED
  BY <1>3, <1>4, <1>5, <1>6 DEF Table!Next

\* Setting one series keeps both the gauge and what is left to set depths.
LEMMA SetKeepsDepths ==
  ASSUME GaugeTypeOK, SetQueueDepth
  PROVE  gauge' \in Depths /\ job'.at = "setting" /\ job'.stats \in Depths
<1> DEFINE q == First(job.stats)
<1>1. /\ job.at = "setting" /\ DOMAIN job.stats # {}
      /\ gauge' = [p \in DOMAIN gauge \cup {q} |->
                     IF p = q THEN job.stats[q] ELSE gauge[p]]
      /\ job' = [job EXCEPT !.stats = Rest(job.stats)]
  BY DEF SetQueueDepth
<1>2. job # Waiting
  BY <1>1 DEF Waiting
<1>3. gauge \in Depths /\ job.stats \in Depths
  BY <1>2 DEF GaugeTypeOK
<1>4. PICK S \in SUBSET Queue : gauge \in [S -> 1 .. Cardinality(Id)]
  BY <1>3, DepthsAre
<1>5. PICK R \in SUBSET Queue : job.stats \in [R -> 1 .. Cardinality(Id)]
  BY <1>3, DepthsAre
<1>6. q \in R
  BY <1>1, <1>5 DEF First, Queue
<1> HIDE DEF q
<1>7. gauge' \in [S \cup {q} -> 1 .. Cardinality(Id)]
  BY <1>1, <1>4, <1>5, <1>6
<1>8. Rest(job.stats) \in [R \ {q} -> 1 .. Cardinality(Id)]
  BY <1>5 DEF Rest, q
<1>9. job'.at = "setting" /\ job'.stats = Rest(job.stats)
  BY <1>1, <1>2 DEF GaugeTypeOK
<1>10. QED
  BY <1>6, <1>7, <1>8, <1>9, DepthsAre

\* The gauge has at most a series per queue, and each shows a depth a queue can
\* have: never zero, never more than all messages (prometheus.go:67-73, 140-150).
THEOREM GaugeTyped == GaugeSpec => []GaugeTypeOK
<1>1. None \in Depths
  BY DepthsAre DEF None
<1>2. GaugeInit => GaugeTypeOK
  BY <1>1, TableAssumption DEF GaugeInit, GaugeTypeOK, Table!Init, Table!TypeOK, Table!Place
<1>3. GaugeTypeOK /\ [GaugeNext]_gaugeVars => GaugeTypeOK'
  <2> SUFFICES ASSUME GaugeTypeOK, [GaugeNext]_gaugeVars PROVE GaugeTypeOK'
    OBVIOUS
  <2>1. CASE Messages
    BY <2>1, MessagesTyped DEF Messages, GaugeTypeOK
  <2>2. ASSUME UNCHANGED tableVars PROVE Table!TypeOK'
    BY <2>2 DEF tableVars, GaugeTypeOK, Table!TypeOK
  <2>3. CASE ReadStats
    BY <2>2, <2>3, StatsAreDepths DEF ReadStats, GaugeTypeOK
  <2>4. CASE ResetQueueDepths
    BY <1>1, <2>2, <2>4 DEF ResetQueueDepths, GaugeTypeOK, Waiting
  <2>5. CASE SetQueueDepth
    BY <2>2, <2>5, SetKeepsDepths DEF SetQueueDepth, GaugeTypeOK
  <2>6. CASE EndTick
    BY <2>2, <2>6 DEF EndTick, GaugeTypeOK
  <2>7. CASE UNCHANGED gaugeVars
    BY <2>2, <2>7 DEF gaugeVars, GaugeTypeOK
  <2>8. QED
    BY <2>1, <2>3, <2>4, <2>5, <2>6, <2>7 DEF GaugeNext, Tick
<1>4. QED
  BY <1>2, <1>3, PTL DEF GaugeSpec
=============================================================================
