----------------------------- MODULE ForqBroker -----------------------------
(***************************************************************************)
(* The broker: producers, consumers, the admin UI and the five cleanup     *)
(* jobs over one table of messages.                                        *)
(*                                                                         *)
(* An operation whose code reads the wall clock takes two steps.  Begin    *)
(* captures the clock and waits for the single write connection; the       *)
(* statement runs later, in any order with the other waiters (database/sql *)
(* hands a freed connection to a random one), with the captured time.      *)
(* Between the two the wait can be cut: a request by its client, by the    *)
(* server's timeout or by shutdown, a tick of a job by its timeout.        *)
(* Operations that read no clock (ack, the deletes) are one step.          *)
(*                                                                         *)
(* `deliveries` and `residence` are history: what the broker handed out,   *)
(* and how many times a message moved between its queue and its DLQ.       *)
(***************************************************************************)
EXTENDS ForqRepo

CONSTANTS
  Caller,             \* goroutines that serve API and UI requests
  NameLength,         \* length of every base name
  DlqSuffixLength,    \* Len("-dlq")
  MaxNameLength,      \* common/validation.go
  RequestedDelays,    \* processAfter - now, as producers ask for it
  PastBuffer,         \* processAfterBufferMs
  MaxDelay,           \* MaxProcessAfterDelayMs
  RequestTimeout,     \* ServerTimeouts.Handle
  JobTimeout,         \* the timeout of one tick of each job
  MaxClock,           \* bound on the clock
  MaxInFlight,        \* bound on the operations waiting to be executed
  Offered             \* bound on the operations that are begun

Job == {"stale", "failed", "expired", "expiredDlq"}
Request == {"produce", "claim", "nack", "requeue", "requeueAll"}
Process == Caller \cup Job

ASSUME BrokerAssumption ==
  /\ Caller \cap Job = {}
  /\ NameLength \in [Base -> Nat]
  /\ DlqSuffixLength \in Nat
  /\ MaxNameLength \in Nat
  /\ RequestedDelays \subseteq Int
  /\ PastBuffer \in Nat
  /\ MaxDelay \in Nat
  /\ RequestTimeout \in Nat /\ RequestTimeout + PastBuffer < QueueTtl
  /\ JobTimeout \in [Job -> Nat]
  /\ \A j \in {"failed", "expired"} : JobTimeout[j] < DlqTtl
  /\ MaxClock \in Nat
  /\ MaxInFlight \in Nat
  /\ Offered \subseteq Job \cup Request

VARIABLES
  clock,       \* wall clock, assumed not to go back
  messages,    \* the table
  produced,    \* ids handed out by the id generator
  pending,     \* what each process waits to execute
  residence,   \* history: moves of each message between its two queues
  deliveries   \* history: every claim, and whether its response arrived

vars == <<clock, messages, produced, pending, residence, deliveries>>

Idle == [op |-> "idle"]

Call ==
       {Idle}
  \cup [op : {"produce"}, id : Id, queue : Queue, processAfter : Int, now : Int]
  \cup [op : {"claim", "requeueAll"}, queue : Queue, now : Int]
  \cup [op : {"nack"}, id : Id, queue : Queue, receipt : Int, now : Int]
  \cup [op : {"requeue"}, id : Id, queue : Queue, now : Int]
  \cup [op : Job, now : Int]

Delivery == [id : Id, residence : Nat, attempt : Nat, queue : Queue,
             receipt : Int, received : BOOLEAN]

TypeOK ==
  /\ clock \in Nat
  /\ DOMAIN messages \subseteq Id
  /\ \A i \in DOMAIN messages : messages[i] \in Row
  /\ produced \subseteq Id
  /\ pending \in [Process -> Call]
  /\ residence \in [Id -> Nat]
  /\ deliveries \subseteq Delivery

Init ==
  /\ clock = 0
  /\ messages = [i \in {} |-> i]
  /\ produced = {}
  /\ pending = [p \in Process |-> Idle]
  /\ residence = [i \in Id |-> 0]
  /\ deliveries = {}

-----------------------------------------------------------------------------
(***************************************************************************)
(* Waiting for the write connection.                                       *)
(***************************************************************************)
InFlight == {p \in Process : pending[p] # Idle}

Begin(p, call) ==
  /\ pending[p] = Idle
  /\ call.op \in Offered
  /\ Cardinality(InFlight) < MaxInFlight
  /\ pending' = [pending EXCEPT ![p] = call]

Finish(p) == pending' = [pending EXCEPT ![p] = Idle]

Timeout(p) == IF p \in Job THEN JobTimeout[p] ELSE RequestTimeout

\* The statement of p's operation runs.
Executing(p, op) == pending[p].op = op

\* A cancelled context or a failing statement: nothing is written.  A sweep
\* that is cut after some batches keeps them.
Abandon(p) ==
  /\ pending[p] # Idle
  /\ Finish(p)
  /\ UNCHANGED <<clock, messages, produced, residence, deliveries>>

\* The process dies and starts again: the table survives, the waiters do not.
Restart ==
  /\ InFlight # {}
  /\ pending' = [p \in Process |-> Idle]
  /\ UNCHANGED <<clock, messages, produced, residence, deliveries>>

\* A context is cancelled at its deadline: no operation waits longer.
Tick ==
  /\ clock < MaxClock
  /\ \A p \in InFlight : clock < pending[p].now + Timeout(p)
  /\ clock' = clock + 1
  /\ UNCHANGED <<messages, produced, pending, residence, deliveries>>

\* A statement moved these messages between a queue and its DLQ.
Moved(ids) == residence' = [i \in Id |-> IF i \in ids THEN residence[i] + 1
                                                      ELSE residence[i]]

-----------------------------------------------------------------------------
(***************************************************************************)
(* API requests.                                                           *)
(***************************************************************************)
ValidName(queue) ==
  NameLength[queue.base] + queue.suffixes * DlqSuffixLength <= MaxNameLength

QueueName == [base : Base, suffixes : 0 .. 1]

BeginProduce(c) ==
  \E id \in Id \ produced, queue \in QueueName, delay \in RequestedDelays :
    /\ ValidName(queue)
    /\ ~ HasDlqSuffix(queue)
    /\ delay >= -PastBuffer
    /\ delay <= MaxDelay
    /\ Begin(c, [op |-> "produce", id |-> id, queue |-> queue,
                 processAfter |-> clock + delay, now |-> clock])
    /\ produced' = produced \cup {id}
    /\ UNCHANGED <<clock, messages, residence, deliveries>>

Produce(c) ==
  LET call == pending[c] IN
  /\ Executing(c, "produce")
  /\ messages' = InsertMessage(messages, call.id, call.queue,
                               call.processAfter, call.now)
  /\ Finish(c)
  /\ UNCHANGED <<clock, produced, residence, deliveries>>

\* One attempt of the long poll; the next attempt begins anew.
BeginConsume(c) ==
  \E queue \in QueueName :
    /\ ValidName(queue)
    /\ Begin(c, [op |-> "claim", queue |-> queue, now |-> clock])
    /\ UNCHANGED <<clock, messages, produced, residence, deliveries>>

\* The claim commits before the response is written: the consumer may be gone.
Consume(c) ==
  LET call == pending[c]
      ids == Consumable(messages, call.queue, call.now)
  IN
  /\ Executing(c, "claim")
  /\ \E id \in Oldest(messages, ids), received \in BOOLEAN :
       /\ messages' = ClaimMessage(messages, id, call.now)
       /\ deliveries' = deliveries \cup
            {[id |-> id, residence |-> residence[id],
              attempt |-> messages[id].attempts + 1, queue |-> call.queue,
              receipt |-> call.now, received |-> received]}
  /\ Finish(c)
  /\ UNCHANGED <<clock, produced, residence>>

ConsumeNothing(c) ==
  /\ Executing(c, "claim")
  /\ Consumable(messages, pending[c].queue, pending[c].now) = {}
  /\ Finish(c)
  /\ UNCHANGED <<clock, messages, produced, residence, deliveries>>

\* Consumers echo id, queue and receipt of a response they received, any
\* number of times and arbitrarily late.
Received == {d \in deliveries : d.received}

Ack(c) ==
  \E d \in Received :
    /\ pending[c] = Idle
    /\ ValidName(d.queue)
    /\ messages' = DeleteMessageOnAck(messages, d.id, d.queue, d.receipt)
    /\ UNCHANGED <<clock, produced, pending, residence, deliveries>>

BeginNack(c) ==
  \E d \in Received :
    /\ ValidName(d.queue)
    /\ Begin(c, [op |-> "nack", id |-> d.id, queue |-> d.queue,
                 receipt |-> d.receipt, now |-> clock])
    /\ UNCHANGED <<clock, messages, produced, residence, deliveries>>

Nack(c) ==
  LET call == pending[c] IN
  /\ Executing(c, "nack")
  /\ messages' = UpdateMessageOnConsumingFailure(messages, call.id, call.queue,
                                                 call.receipt, call.now)
  /\ Finish(c)
  /\ UNCHANGED <<clock, produced, residence, deliveries>>

-----------------------------------------------------------------------------
(***************************************************************************)
(* Admin UI requests.  The page they come from may be stale: the id need   *)
(* not be in the queue any more.                                           *)
(***************************************************************************)
DlqName == {q \in QueueName : ValidName(q) /\ HasDlqSuffix(q)}

BeginRequeueAll(c) ==
  \E queue \in DlqName :
    /\ Begin(c, [op |-> "requeueAll", queue |-> queue, now |-> clock])
    /\ UNCHANGED <<clock, messages, produced, residence, deliveries>>

RequeueAll(c) ==
  LET call == pending[c] IN
  /\ Executing(c, "requeueAll")
  /\ messages' = RequeueDlqMessages(messages, call.queue, call.now)
  /\ Moved(Requeueable(messages, call.queue))
  /\ Finish(c)
  /\ UNCHANGED <<clock, produced, deliveries>>

BeginRequeue(c) ==
  \E id \in produced, queue \in DlqName :
    /\ Begin(c, [op |-> "requeue", id |-> id, queue |-> queue, now |-> clock])
    /\ UNCHANGED <<clock, messages, produced, residence, deliveries>>

Requeue(c) ==
  LET call == pending[c] IN
  /\ Executing(c, "requeue")
  /\ messages' = RequeueDlqMessage(messages, call.id, call.queue, call.now)
  /\ Moved(Requeueable(messages, call.queue) \cap {call.id})
  /\ Finish(c)
  /\ UNCHANGED <<clock, produced, deliveries>>

DeleteOne(c) ==
  \E id \in produced, queue \in DlqName :
    /\ pending[c] = Idle
    /\ messages' = DeleteMessageFromDlq(messages, id, queue)
    /\ UNCHANGED <<clock, produced, pending, residence, deliveries>>

DeleteAll(c) ==
  \E queue \in DlqName :
    /\ pending[c] = Idle
    /\ messages' = DeleteAllMessagesFromQueue(messages, queue)
    /\ UNCHANGED <<clock, produced, pending, residence, deliveries>>

-----------------------------------------------------------------------------
(***************************************************************************)
(* The cleanup jobs: one goroutine each, so ticks of a job do not overlap. *)
(***************************************************************************)
BeginTick(j) ==
  /\ Begin(j, [op |-> j, now |-> clock])
  /\ UNCHANGED <<clock, messages, produced, residence, deliveries>>

RecoverStale ==
  /\ Executing("stale", "stale")
  /\ messages' = UpdateStaleMessages(messages, pending["stale"].now)
  /\ Finish("stale")
  /\ UNCHANGED <<clock, produced, residence, deliveries>>

MoveFailed ==
  /\ Executing("failed", "failed")
  /\ messages' = UpdateFailedMessagesForRegularQueues(messages,
                                                      pending["failed"].now)
  /\ Moved(FailedRows(messages, FALSE))
  /\ Finish("failed")
  /\ UNCHANGED <<clock, produced, deliveries>>

DeleteFailed ==
  /\ messages' = DeleteFailedMessagesFromDlq(messages)
  /\ UNCHANGED <<clock, produced, pending, residence, deliveries>>

\* One batch; the sweep keeps its captured time for all of them.
MoveExpired ==
  /\ Executing("expired", "expired")
  /\ \E batch \in Batches(Expired(messages, FALSE, pending["expired"].now)) :
       /\ messages' = MoveExpiredBatch(messages, batch, pending["expired"].now)
       /\ Moved(batch)
       /\ IF LastBatch(batch) THEN Finish("expired") ELSE UNCHANGED pending
  /\ UNCHANGED <<clock, produced, deliveries>>

DeleteExpired ==
  /\ Executing("expiredDlq", "expiredDlq")
  /\ \E batch \in Batches(Expired(messages, TRUE, pending["expiredDlq"].now)) :
       /\ messages' = DeleteExpiredBatch(messages, batch)
       /\ IF LastBatch(batch) THEN Finish("expiredDlq") ELSE UNCHANGED pending
  /\ UNCHANGED <<clock, produced, residence, deliveries>>

-----------------------------------------------------------------------------
ApiRequest(c) ==
  \/ BeginProduce(c) \/ Produce(c)
  \/ BeginConsume(c) \/ Consume(c) \/ ConsumeNothing(c)
  \/ Ack(c)
  \/ BeginNack(c) \/ Nack(c)

AdminRequest(c) ==
  \/ BeginRequeueAll(c) \/ RequeueAll(c)
  \/ BeginRequeue(c) \/ Requeue(c)
  \/ DeleteOne(c) \/ DeleteAll(c)

Jobs ==
  \/ \E j \in Job : BeginTick(j)
  \/ RecoverStale \/ MoveFailed \/ DeleteFailed \/ MoveExpired \/ DeleteExpired

Environment ==
  \/ Tick
  \/ Restart
  \/ \E p \in Process : Abandon(p)

Next ==
  \/ \E c \in Caller : ApiRequest(c) \/ AdminRequest(c)
  \/ Jobs
  \/ Environment

Spec == Init /\ [][Next]_vars

-----------------------------------------------------------------------------
(***************************************************************************)
(* Safety.                                                                 *)
(***************************************************************************)
Residing(d) == d.residence = residence[d.id]

\* Deliveries of message i since it last moved between queue and DLQ.
CurrentDeliveries(i) == {d \in deliveries : d.id = i /\ Residing(d)}

\* The retry budget is neither exceeded nor stuck: a claimable message has an
\* attempt left, a message being processed has used at least one, and a failed
\* one has used them all (repo.go:352, 396, and the resets of every move).
AttemptsWithinBudget ==
  \A i \in DOMAIN messages :
    LET row == messages[i] IN
    /\ row.status = Ready => row.attempts < MaxDeliveryAttempts
    /\ row.status = Processing => row.attempts \in 1 .. MaxDeliveryAttempts
    /\ row.status = Failed => row.attempts = MaxDeliveryAttempts

\* `attempts` counts exactly the claims since the last move, so a message is
\* given up only after MaxDeliveryAttempts claims in that queue (repo.go:157,
\* and the resets of repo.go:435, 481, 543, 583).
AttemptsCountClaims ==
  \A i \in DOMAIN messages :
    {d.attempt : d \in CurrentDeliveries(i)} = 1 .. messages[i].attempts

\* is_dlq, the name's suffix and failure_reason always agree, although three
\* moves and the producer write them separately (repo.go:437, 540; a
\* disagreement makes "foo-dlq-dlq" or strands the row, messages.go:38).
DlqConsistent ==
  \A i \in DOMAIN messages :
    LET row == messages[i] IN
    /\ row.queue.suffixes = (IF row.isDlq THEN 1 ELSE 0)
    /\ row.isDlq <=> row.reason # NULL

\* A message carries a receipt exactly while it is being processed, and then
\* it is the receipt of its latest delivery: an ack or nack that passes the
\* fence settles that delivery (repo.go:360, 648).
FenceIsLatestDelivery ==
  \A i \in DOMAIN messages :
    LET row == messages[i] IN
    /\ row.status = Processing <=> row.startedAt # NULL
    /\ row.status = Processing =>
         \A d \in CurrentDeliveries(i) :
           d.receipt = row.startedAt <=> d.attempt = row.attempts

\* Two receipts are a backoff delay or a stale window apart.
Apart(earlier, later) ==
  \/ \E k \in DOMAIN BackoffDelays : earlier + BackoffDelays[k] <= later
  \/ earlier + MaxProcessingTime < later

\* While a message stays in one queue its receipts are distinct and at least a
\* backoff or a stale window apart, however late the captured times are used
\* (db/repo_test.go:236: "redelivery happens >= 1s backoff or >= 5min stale
\* window after the original claim").
RedeliveryGap ==
  \A d, e \in deliveries :
    /\ d.id = e.id
    /\ d.residence = e.residence
    /\ d.attempt < e.attempt
    => Apart(d.receipt, e.receipt)

\* The same comment, for all deliveries of a message in a queue: it has no
\* exception for a message that left the queue for its DLQ and was requeued.
RedeliveryGapAcrossMoves ==
  \A d, e \in deliveries :
    /\ d.id = e.id
    /\ d.queue = e.queue
    /\ d # e
    => d.receipt # e.receipt

\* Every stored message can be reached by the API and the admin UI, which
\* refuse names over 64 characters (validation.go:11).
QueuesReachable == \A i \in DOMAIN messages : ValidName(messages[i].queue)

-----------------------------------------------------------------------------
(***************************************************************************)
(* The inductive invariant behind the properties above.                    *)
(***************************************************************************)
\* Captured times and receipts are not from the future; a waiting produce owns
\* a fresh id, a waiting requeue names a DLQ, a waiting nack is younger than
\* the delivery it refuses.
CallsSane ==
  \A p \in Process :
    LET call == pending[p] IN
    /\ call # Idle => call.now <= clock
    /\ call.op = "produce" =>
         /\ call.queue.suffixes = 0
         /\ call.id \in produced \ DOMAIN messages
         /\ \A d \in deliveries : d.id # call.id
         /\ \A other \in Process \ {p} :
              pending[other].op = "produce" => pending[other].id # call.id
    /\ call.op \in {"requeue", "requeueAll"} => call.queue.suffixes = 1
    /\ call.op = "nack" => call.receipt <= call.now

\* No operation runs later than its deadline.
WaitsBounded == \A p \in InFlight : clock <= pending[p].now + Timeout(p)

HistorySane ==
  /\ DOMAIN messages \subseteq produced
  /\ \A d \in deliveries : /\ d.id \in produced
                           /\ d.receipt <= clock
                           /\ d.residence <= residence[d.id]

\* How the deliveries of a message since its last move relate to its row: what
\* makes the next receipt larger than every earlier one, and the next attempt
\* a new one.
ReceiptsOrdered ==
  \A d \in deliveries :
    Residing(d) /\ d.id \in DOMAIN messages =>
      LET row == messages[d.id] IN
      /\ d.attempt <= row.attempts
      /\ row.status = Ready => Apart(d.receipt, row.processAfter)
      /\ row.status = Processing =>
           IF d.attempt = row.attempts
           THEN d.receipt = row.startedAt
           ELSE Apart(d.receipt, row.startedAt)

\* One delivery for each attempt.
AttemptsDistinct ==
  \A d, e \in deliveries :
    /\ d.id = e.id
    /\ d.residence = e.residence
    /\ d.attempt = e.attempt
    => d = e

IInv ==
  /\ TypeOK
  /\ CallsSane
  /\ WaitsBounded
  /\ HistorySane
  /\ AttemptsWithinBudget
  /\ AttemptsCountClaims
  /\ DlqConsistent
  /\ FenceIsLatestDelivery
  /\ ReceiptsOrdered
  /\ AttemptsDistinct
  /\ RedeliveryGap

-----------------------------------------------------------------------------
(***************************************************************************)
(* The life of a message as MessageLife promises it.  An id whose produce  *)
(* waits is not in a queue yet; one whose produce was cut is gone.         *)
(***************************************************************************)
Entering(i) == \E p \in Process : pending[p].op = "produce" /\ pending[p].id = i

PlaceOf(i) ==
  IF i \notin produced \/ Entering(i) THEN "new"
  ELSE IF i \notin DOMAIN messages THEN "gone"
  ELSE IF messages[i].isDlq THEN "dlq" ELSE "queue"

LeasedTo(i) == i \in DOMAIN messages /\ messages[i].status = Processing

TriesOf(i) == IF i \in DOMAIN messages THEN messages[i].attempts ELSE 0

Life == INSTANCE MessageLife WITH
  place <- [i \in Id |-> PlaceOf(i)],
  leased <- [i \in Id |-> LeasedTo(i)],
  tries <- [i \in Id |-> TriesOf(i)]

\* Whatever waits, is cut, repeated or late, and in whatever order the waiters
\* are served, each step of the broker is one of a message's life or none of
\* it: one lease at a time, a bounded number of leases, no way out of a queue
\* but completion or the DLQ (services/messages.go:37-223).
ImplementsLife == Life!Spec

-----------------------------------------------------------------------------
(***************************************************************************)
(* What a step may never do.                                               *)
(***************************************************************************)
\* The statement that p waited for ran in this step, or its wait was cut.
Finished(p) == pending[p] # Idle /\ pending'[p] = Idle

\* A message of a regular queue is never dropped: it leaves the table only by
\* the ack of a consumer that was handed its current receipt.  Everything else
\* that deletes is confined to DLQs (repo.go:620, 677, 706, messages.go:198).
RemovesAcked ==
  \A i \in DOMAIN messages \ DOMAIN messages' :
    ~ messages[i].isDlq =>
      \E d \in Received : /\ d.id = i
                          /\ d.queue = messages[i].queue
                          /\ d.receipt = messages[i].startedAt

RegularLeavesByAck == [][RemovesAcked]_vars

\* A message being processed belongs to its consumer: until the stale window
\* is over, only a nack with its receipt changes the row, whatever sweeps,
\* requeues and late nacks run meanwhile (repo.go:360, 402, 492, 549).
KeepsLeases ==
  \A i \in DOMAIN messages \cap DOMAIN messages' :
    /\ messages[i].status = Processing
    /\ messages'[i] # messages[i]
    /\ clock <= messages[i].startedAt + MaxProcessingTime
    => \E c \in Caller : /\ pending[c].op = "nack"
                         /\ pending[c].id = i
                         /\ pending[c].receipt = messages[i].startedAt
                         /\ Finished(c)

LeaseRespected == [][KeepsLeases]_vars

\* A message enters a DLQ only when it used up its attempts or its time, and
\* leaves one only for the queue it came from (repo.go:429, 471, 533, 573).
JustifiesMoves ==
  \A i \in DOMAIN messages \cap DOMAIN messages' :
    messages'[i].queue # messages[i].queue =>
      IF messages'[i].isDlq
      THEN /\ ~ messages[i].isDlq
           /\ \/ /\ messages'[i].reason = MaxAttemptsReached
                 /\ Cardinality(CurrentDeliveries(i)) = MaxDeliveryAttempts
              \/ /\ messages'[i].reason = MessageExpired
                 /\ messages[i].expiresAfter < clock
      ELSE messages'[i].queue.base = messages[i].queue.base

MovesJustified == [][JustifiesMoves]_vars

\* A move gives a whole new life: although the statement runs with a captured
\* time, the row it writes is claimable now and not yet expired (the context
\* timeouts are shorter than the TTLs: configs/app.go:50, 56, 67).
GrantsLife ==
  \A i \in DOMAIN messages \cap DOMAIN messages' :
    messages'[i].queue # messages[i].queue =>
      /\ messages'[i].status = Ready
      /\ messages'[i].processAfter <= clock
      /\ clock <= messages'[i].expiresAfter

MoveGrantsLife == [][GrantsLife]_vars

\* While a sweep runs, the rows it has to process only become fewer, but for
\* messages whose delivery ends meanwhile: nobody can feed it for ever
\* (repo.go:527, 735: the loop ends with a batch that is not full).
Sweep(j) == Expired(messages, j = "expiredDlq", pending[j].now)

ShrinksSweeps ==
  \A j \in {"expired", "expiredDlq"} :
    pending[j] # Idle /\ pending'[j] = pending[j] =>
      \A i \in Sweep(j)' \ Sweep(j) :
        i \in DOMAIN messages /\ messages[i].status = Processing

SweepsShrink == [][ShrinksSweeps]_vars
=============================================================================
