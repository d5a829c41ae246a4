------------------------------ MODULE Metrics -------------------------------
(***************************************************************************)
(* The counters of metrics/prometheus.go beside the messages they count.   *)
(* The services and the jobs raise a counter in a step of its own, after   *)
(* the statement was committed and before the response is written.         *)
(*                                                                         *)
(* The counters live in memory: a restart begins them anew, while the      *)
(* messages and the receipts the consumers hold stay.                      *)
(*                                                                         *)
(* A receipt is the time a claim captured.  It is new in a stay of the     *)
(* message in a queue, but once the message went to the DLQ and came back, *)
(* a claim may repeat it: then it fits an earlier consumer's receipt too.  *)
(*                                                                         *)
(* For the history, the rows that statements change are numbered in each   *)
(* series: a call knows which of them its count stands for.                *)
(***************************************************************************)
EXTENDS MessageTable, Functions

CONSTANTS
  Caller,
  Time,         \* the times that claims capture
  BatchSize,    \* sweepBatchSize
  MaxEvents     \* bound on the events of one process

Job == {"stale", "failed", "failedDlq", "expired", "expiredDlq"}
Process == Caller \cup Job

\* A counter with the value of its label, the queue or the reason.
Series ==
  ({"produced", "consumed", "acked", "nacked", "requeued"} \X Queue)
  \cup ({"moved_to_dlq"} \X {"failed", "expired"})
  \cup ({"cleanup"} \X {"failed", "expired", "deleted_by_user"})
  \cup {<<"stale_recovered", "">>}

ASSUME MetricsAssumption ==
  Time \subseteq Nat /\ BatchSize \in Nat \ {0} /\ MaxEvents \in Nat

VARIABLES
  startedAt,  \* processing_started_at of each message, or its last value
  holds,      \* receipts that reached a consumer
  calls,      \* where each request and each job is
  counters,
  events,     \* history: how many rows statements of this process changed
  lost,       \* history: those whose statement, or a later one of the sweep,
              \* was reported as failed
  served,     \* history: receipts of the deliveries that were counted
  repeated,   \* history: claims that repeated one of them
  carried,    \* history: leases of an earlier process that may still end
  restarted   \* bounds the restarts

clientVars == <<startedAt, holds, served, repeated>>
countVars == <<counters, lost, carried, restarted>>
vars == <<tableVars, clientVars, calls, counters, events, lost, carried, restarted>>

Idle == [at |-> "idle"]
Receipt == [id : Id, queue : Queue, startedAt : Nat]
NoReceipt == [id |-> "none"]

TypeOK ==
  /\ Table!TypeOK
  /\ startedAt \in [Id -> Nat]
  /\ holds \subseteq Receipt /\ served \subseteq Receipt
  /\ repeated \in [Queue -> SUBSET Nat]
  /\ \A p \in Process : calls[p] # Idle =>
       /\ calls[p].at \in {"counting", "responding", "sweeping", "deleting"}
       /\ calls[p].series \in Series
       /\ calls[p].count \in Nat /\ calls[p].rows \subseteq Nat
       /\ calls[p].at = "responding" => calls[p].series[1] = "consumed"
  /\ {counters, events} \subseteq [Series -> Nat]
  /\ lost \in [Series -> SUBSET Nat]
  /\ carried \in [Queue -> Nat]
  /\ restarted \in BOOLEAN

Zero == [s \in Series |-> 0]

Init ==
  /\ Table!Init
  /\ startedAt = [i \in Id |-> 0]
  /\ holds = {} /\ served = {} /\ repeated = [q \in Queue |-> {}]
  /\ calls = [p \in Process |-> Idle]
  /\ counters = Zero /\ events = Zero /\ lost = [s \in Series |-> {}]
  /\ carried = [q \in Queue |-> 0]
  /\ restarted = FALSE

-----------------------------------------------------------------------------
To(p, call) == calls' = [calls EXCEPT ![p] = call]

\* `p` will raise `series` by `count`, for `rows`.
Owe(p, at, series, count, rows, receipt) ==
  To(p, [at |-> at, series |-> series, count |-> count, rows |-> rows,
         receipt |-> receipt])

\* The numbers of the next `n` rows.
Fresh(series, n) == events[series] + 1 .. events[series] + n

\* A statement has changed `n` rows.
Happens(series, n) ==
  /\ SumFunction(events) < MaxEvents /\ SumFunction(counters) < MaxEvents
  /\ events' = [events EXCEPT ![series] = @ + n]
  /\ UNCHANGED countVars

\* One statement that changes rows, then its counter.  A statement that finds
\* no row adds nothing.
Statement(p, series, n) ==
  /\ calls[p] = Idle
  /\ n > 0
  /\ Happens(series, n)
  /\ Owe(p, "counting", series, n, Fresh(series, n), NoReceipt)
  /\ UNCHANGED clientVars

\* The row is being processed in the queue of the receipt, since its time: the
\* statement finds the row.
Current(h) ==
  leased[h.id] /\ place[h.id] = h.queue /\ startedAt[h.id] = h.startedAt

\* The messages whose lease can be ended with one of the receipts.
Held(q, receipts) ==
  {i \in Id : place[i] = q /\ \E h \in receipts : h.id = i /\ Current(h)}

-----------------------------------------------------------------------------
(***************************************************************************)
(* The API.  A request that is refused, or that finds no row, changes      *)
(* nothing and is not counted.                                             *)
(***************************************************************************)
Produce(c) ==
  \E i \in Id :
    /\ Table!Enter(i)
    /\ Statement(c, <<"produced", "queue">>, 1)

Claimed(i, t) == [id |-> i, queue |-> place[i], startedAt |-> t]

\* A message that was claimed in this stay is claimed again only later than
\* that, as process_after says.
Claim(c, i, t) ==
  LET series == <<"consumed", place[i]>> IN
  /\ calls[c] = Idle
  /\ tries[i] > 0 => startedAt[i] < t
  /\ Table!Deliver(i)
  /\ startedAt' = [startedAt EXCEPT ![i] = t]
  /\ Happens(series, 1)
  /\ Owe(c, "counting", series, 1, Fresh(series, 1), Claimed(i, t))
  /\ repeated' = IF Claimed(i, t) \in served
                   THEN [repeated EXCEPT ![place[i]] = @ \cup Fresh(series, 1)]
                   ELSE repeated
  /\ UNCHANGED served

\* mutant: the response is written before the counter is raised
ConsumeRespondingEarly(c) ==
  \E i \in Id, t \in Time :
    Claim(c, i, t) /\ holds' = holds \cup {Claimed(i, t)}

Consume(c) == \E i \in Id, t \in Time : Claim(c, i, t) /\ UNCHANGED holds

\* The claim was committed, but the context ended before the row was read.
CutClaim(c) ==
  /\ calls[c].at = "counting" /\ calls[c].series[1] = "consumed"
  /\ lost' = [lost EXCEPT ![calls[c].series] = @ \cup calls[c].rows]
  /\ To(c, Idle)
  /\ UNCHANGED <<tableVars, clientVars, counters, events, carried, restarted>>

\* The response reaches the consumer, or the consumer is gone.
Respond(c) ==
  /\ calls[c].at = "responding"
  /\ holds' \in {holds, holds \cup {calls[c].receipt}}
  /\ To(c, Idle)
  /\ UNCHANGED <<tableVars, startedAt, served, repeated, counters, events, lost,
                 carried, restarted>>

Ack(c) ==
  \E h \in holds :
    /\ Current(h)
    /\ Table!Complete(h.id)
    /\ Statement(c, <<"acked", place[h.id]>>, 1)

Nack(c) ==
  \E h \in holds :
    /\ Current(h)
    /\ Table!Release({h.id})
    /\ Statement(c, <<"nacked", place[h.id]>>, 1)

-----------------------------------------------------------------------------
(***************************************************************************)
(* The admin pages.  The queue in the request is the DLQ.                  *)
(***************************************************************************)
RequeueAll(c) ==
  LET S == Table!Unleased("dlq") IN
  /\ Table!Revive(S)
  /\ Statement(c, <<"requeued", "dlq">>, Cardinality(S))

RequeueOne(c) ==
  \E i \in Id :
    /\ Table!Revive({i})
    /\ Statement(c, <<"requeued", "dlq">>, 1)

InDlq == {i \in Id : place[i] = "dlq"}

DeleteAll(c) ==
  /\ Table!Drop(InDlq)
  /\ Statement(c, <<"cleanup", "deleted_by_user">>, Cardinality(InDlq))

\* The admin picks a message from the page of a DLQ.
BeginDelete(c) ==
  \E i \in InDlq :
    /\ calls[c] = Idle
    /\ Owe(c, "deleting", <<"cleanup", "deleted_by_user">>, 0, {},
           [id |-> i, queue |-> "dlq", startedAt |-> 0])
    /\ UNCHANGED <<tableVars, clientVars, countVars, events>>

\* If it has left the DLQ meanwhile, that is no error, and is counted.
DeleteOne(c) ==
  LET S == {calls[c].receipt.id} \cap InDlq IN
  /\ calls[c].at = "deleting"
  /\ Table!Drop(S)
  /\ Happens(calls[c].series, Cardinality(S))
  /\ Owe(c, "counting", calls[c].series, 1,
         Fresh(calls[c].series, Cardinality(S)), NoReceipt)
  /\ UNCHANGED clientVars

-----------------------------------------------------------------------------
(***************************************************************************)
(* The jobs.  Which leases are stale and which messages have expired is a  *)
(* matter of time; a failed message is one without an attempt left.        *)
(***************************************************************************)
RecoverStale ==
  \E S \in SUBSET {i \in Id : leased[i]} :
    /\ Table!Release(S)
    /\ Statement("stale", <<"stale_recovered", "">>, Cardinality(S))

Failed(here) ==
  {i \in Table!Unleased(here) : tries[i] = MaxDeliveryAttempts}

MoveFailed ==
  /\ Table!Bury(Failed("queue"))
  /\ Statement("failed", <<"moved_to_dlq", "failed">>, Cardinality(Failed("queue")))

DeleteFailed ==
  /\ Table!Drop(Failed("dlq"))
  /\ Statement("failedDlq", <<"cleanup", "failed">>, Cardinality(Failed("dlq")))

\* mutant: only the last batch is reported
SoFarForgotten(j) == 0

SoFar(j) == IF calls[j].at = "sweeping" THEN calls[j].count ELSE 0

RowsSoFar(j) == IF calls[j].at = "sweeping" THEN calls[j].rows ELSE {}

\* One batch of a sweep; a full one is followed by another.
Batch(j, series, S) ==
  /\ calls[j].at = "sweeping" \/ (calls[j] = Idle /\ S # {})
  /\ Cardinality(S) <= BatchSize
  /\ Happens(series, Cardinality(S))
  /\ Owe(j, IF Cardinality(S) < BatchSize THEN "counting" ELSE "sweeping",
         series, SoFar(j) + Cardinality(S),
         RowsSoFar(j) \cup Fresh(series, Cardinality(S)), NoReceipt)
  /\ UNCHANGED clientVars

MoveExpired ==
  \E S \in SUBSET Table!Unleased("queue") :
    Table!Bury(S) /\ Batch("expired", <<"moved_to_dlq", "expired">>, S)

DeleteExpired ==
  \E S \in SUBSET Table!Unleased("dlq") :
    Table!Drop(S) /\ Batch("expiredDlq", <<"cleanup", "expired">>, S)

\* The tick's time is over between two batches: the sweep reports what it did.
CutSweep(j) ==
  /\ calls[j].at = "sweeping"
  /\ To(j, [calls[j] EXCEPT !.at = "counting"])
  /\ UNCHANGED <<tableVars, clientVars, countVars, events>>

\* The next batch fails: the job drops the count along with the error.
FailSweep(j) ==
  /\ calls[j].at = "sweeping"
  /\ lost' = [lost EXCEPT ![calls[j].series] = @ \cup calls[j].rows]
  /\ To(j, Idle)
  /\ UNCHANGED <<tableVars, clientVars, counters, events, carried, restarted>>

-----------------------------------------------------------------------------
Count(p) ==
  /\ calls[p].at = "counting"
  /\ counters' = [counters EXCEPT ![calls[p].series] = @ + calls[p].count]
  /\ To(p, IF calls[p].series[1] = "consumed"
           THEN [calls[p] EXCEPT !.at = "responding"] ELSE Idle)
  /\ served' = IF calls[p].series[1] = "consumed"
                 THEN served \cup {calls[p].receipt} ELSE served
  /\ UNCHANGED <<tableVars, startedAt, holds, repeated, events, lost, carried,
                 restarted>>

Restart ==
  /\ ~ restarted /\ restarted' = TRUE
  /\ calls' = [p \in Process |-> Idle]
  /\ counters' = Zero /\ events' = Zero /\ lost' = [s \in Series |-> {}]
  /\ carried' = [q \in Queue |-> Cardinality(Held(q, holds))]
  /\ served' = holds /\ repeated' = [q \in Queue |-> {}]
  /\ UNCHANGED <<tableVars, startedAt, holds>>

Next ==
  \/ \E c \in Caller :
       \/ Produce(c) \/ Consume(c) \/ CutClaim(c) \/ Respond(c) \/ Ack(c) \/ Nack(c)
       \/ RequeueAll(c) \/ RequeueOne(c) \/ DeleteAll(c)
       \/ BeginDelete(c) \/ DeleteOne(c)
  \/ RecoverStale \/ MoveFailed \/ DeleteFailed \/ MoveExpired \/ DeleteExpired
  \/ \E j \in Job : CutSweep(j) \/ FailSweep(j)
  \/ \E p \in Process : Count(p)
  \/ Restart

Spec == Init /\ [][Next]_vars

-----------------------------------------------------------------------------
Owes(p, series) ==
  calls[p].at \in {"counting", "sweeping", "deleting"} /\ calls[p].series = series

\* The rows that are not counted yet, or never will be.
Uncounted(series) ==
  lost[series] \cup UNION {calls[p].rows : p \in {r \in Process : Owes(r, series)}}

\* Every row that a statement changed is counted once, by the time its request
\* or its tick is over, unless that ended in an error; how requests, batches and
\* restarts interleave makes no difference (services/messages.go:89-207,
\* jobs/cleanup).  An admin who deletes a message that has left its DLQ counts a
\* deletion too: of those, none is missed.
Accounted ==
  \A series \in Series :
    LET accounted == counters[series] + Cardinality(Uncounted(series)) IN
    IF series = <<"cleanup", "deleted_by_user">>
      THEN accounted >= events[series]
      ELSE accounted = events[series]

\* The claims of a queue that are not counted, and repeat a receipt that an
\* earlier delivery was answered with.
Repeats(q) == Uncounted(<<"consumed", q>>) \cap repeated[q]

\* A consumer that acks or nacks was counted as a consumer before: the counters
\* never show more settled than consumed deliveries of a queue
\* (services/messages.go:104, 137, 151; metrics.md asks for "consumers that are
\* not ack-ing or nack-ing").  Only a claim that repeats a receipt can be settled
\* ahead of its count, by the consumer of the earlier delivery.
SettledWereConsumed ==
  \A q \in Queue :
    counters[<<"acked", q>>] + counters[<<"nacked", q>>]
      <= counters[<<"consumed", q>>] + carried[q] + Cardinality(Repeats(q))
=============================================================================
