-------------------------- MODULE ForqBrokerProofs --------------------------
(***************************************************************************)
(* Proofs about ForqBroker, for every value of its constants.              *)
(***************************************************************************)
EXTENDS ForqBroker, TLAPS, FiniteSetTheorems

(***************************************************************************)
(* What the statements write is a row again.                               *)
(***************************************************************************)
LEMMA BackoffPositive ==
  ASSUME NEW attempts \in Nat
  PROVE  BackoffDelay(attempts) \in Nat \ {0}
BY RepoAssumption DEF BackoffDelay

LEMMA RowType ==
  ASSUME NEW row \in Row, NEW now \in Int
  PROVE  /\ Claimed(row, now) \in Row
         /\ Nacked(row, now) \in Row
         /\ Recovered(row, now) \in Row
         /\ \A reason \in Reason : MovedToDlq(row, reason, now) \in Row
         /\ \A queue \in Queue : Requeued(row, queue, now) \in Row
<1>1. /\ row.attempts \in Nat
      /\ row.attempts + 1 \in Nat
  BY DEF Row
<1>2. StatusAfterFailure(row) \in Status
  BY DEF StatusAfterFailure, Status, Ready, Failed
<1>3. now + BackoffDelay(row.attempts) \in Int
  BY <1>1, BackoffPositive
<1>4. /\ now + DlqTtl \in Int
      /\ now + QueueTtl \in Int
  BY RepoAssumption
<1>5. AppendDlqSuffix(row.queue) \in Queue
  <2>1. /\ row.queue \in Queue
        /\ row.queue.suffixes + 1 \in Nat
    BY DEF Row, Queue
  <2>2. QED
    BY <2>1 DEF AppendDlqSuffix, Queue
<1>6. ASSUME NEW queue \in Queue
      PROVE  TrimDlqSuffix(queue) \in Queue
  <2>1. queue.suffixes > 0 => queue.suffixes - 1 \in Nat
    BY DEF Queue
  <2>2. QED
    BY <2>1 DEF TrimDlqSuffix, HasDlqSuffix, Queue
<1>7. Claimed(row, now) \in Row
  BY <1>1 DEF Claimed, Row, Status, Processing
<1>8. Nacked(row, now) \in Row
  BY <1>2, <1>3 DEF Nacked, Row
<1>9. Recovered(row, now) \in Row
  BY <1>2 DEF Recovered, Row
<1>10. \A reason \in Reason : MovedToDlq(row, reason, now) \in Row
  BY <1>4, <1>5 DEF MovedToDlq, Row, Status, Ready
<1>11. \A queue \in Queue : Requeued(row, queue, now) \in Row
  BY <1>4, <1>6 DEF Requeued, Row, Status, Ready
<1>12. QED
  BY <1>7, <1>8, <1>9, <1>10, <1>11

-----------------------------------------------------------------------------
(***************************************************************************)
(* Type correctness.                                                       *)
(***************************************************************************)
TableType(table) ==
  DOMAIN table \subseteq Id /\ \A i \in DOMAIN table : table[i] \in Row

LEMMA WaitType ==
  ASSUME pending \in [Process -> Call], NEW p \in Process
  PROVE  /\ \A call \in Call : Begin(p, call) => pending' \in [Process -> Call]
         /\ Finish(p) => pending' \in [Process -> Call]
BY DEF Begin, Finish, Call

LEMMA WithoutType ==
  ASSUME NEW table, TableType(table), NEW ids
  PROVE  TableType(Without(table, ids))
BY DEF TableType, Without

LEMMA QueueNameType == QueueName \subseteq Queue
BY DEF QueueName, Queue

LEMMA CallerIsProcess ==
  /\ Caller \subseteq Process
  /\ Job \subseteq Process
BY DEF Process

\* What the operations waiting in `pending` carry.
LEMMA PendingType ==
  ASSUME pending \in [Process -> Call], NEW p \in Process
  PROVE  /\ Executing(p, "produce") =>
              /\ pending[p].id \in Id
              /\ pending[p].queue \in Queue
              /\ pending[p].processAfter \in Int
              /\ pending[p].now \in Int
         /\ Executing(p, "claim") \/ Executing(p, "requeueAll") =>
              /\ pending[p].queue \in Queue
              /\ pending[p].now \in Int
         /\ Executing(p, "nack") =>
              /\ pending[p].id \in Id
              /\ pending[p].queue \in Queue
              /\ pending[p].receipt \in Int
              /\ pending[p].now \in Int
         /\ Executing(p, "requeue") =>
              /\ pending[p].id \in Id
              /\ pending[p].queue \in Queue
              /\ pending[p].now \in Int
         /\ \A j \in Job : Executing(p, j) => pending[p].now \in Int
<1>1. pending[p] \in Call
  OBVIOUS
<1>2. QED
  BY <1>1 DEF Executing, Call, Job, Idle

\* Every statement takes a table to a table.
LEMMA StatementType ==
  ASSUME NEW table, TableType(table), NEW now \in Int
  PROVE  /\ \A id \in Id, queue \in Queue, after \in Int :
              TableType(InsertMessage(table, id, queue, after, now))
         /\ \A id : TableType(ClaimMessage(table, id, now))
         /\ \A id, queue, receipt : TableType(
              UpdateMessageOnConsumingFailure(table, id, queue, receipt, now))
         /\ TableType(UpdateStaleMessages(table, now))
         /\ TableType(UpdateFailedMessagesForRegularQueues(table, now))
         /\ \A batch : TableType(MoveExpiredBatch(table, batch, now))
         /\ \A queue \in Queue : TableType(RequeueDlqMessages(table, queue, now))
         /\ \A queue \in Queue : \A id :
              TableType(RequeueDlqMessage(table, id, queue, now))
<1>1. ASSUME NEW i \in DOMAIN table
      PROVE  /\ i \in Id
             /\ table[i] \in Row
             /\ Claimed(table[i], now) \in Row
             /\ Nacked(table[i], now) \in Row
             /\ Recovered(table[i], now) \in Row
             /\ MovedToDlq(table[i], MaxAttemptsReached, now) \in Row
             /\ MovedToDlq(table[i], MessageExpired, now) \in Row
             /\ \A queue \in Queue : Requeued(table[i], queue, now) \in Row
  BY RowType DEF TableType, Reason
<1>2. ASSUME NEW id \in Id, NEW queue \in Queue, NEW after \in Int
      PROVE  TableType(InsertMessage(table, id, queue, after, now))
  <2>1. after + QueueTtl \in Int
    BY RepoAssumption
  <2>2. NewRow(queue, after, now) \in Row
    BY <2>1 DEF NewRow, Row, Status, Ready
  <2>3. QED
    BY <1>1, <2>2 DEF InsertMessage, TableType
<1>3. ASSUME NEW id
      PROVE  TableType(ClaimMessage(table, id, now))
  BY <1>1 DEF ClaimMessage, TableType
<1>4. ASSUME NEW id, NEW queue, NEW receipt
      PROVE  TableType(
        UpdateMessageOnConsumingFailure(table, id, queue, receipt, now))
  BY <1>1 DEF UpdateMessageOnConsumingFailure, TableType
<1>5. TableType(UpdateStaleMessages(table, now))
  BY <1>1 DEF UpdateStaleMessages, TableType
<1>6. TableType(UpdateFailedMessagesForRegularQueues(table, now))
  BY <1>1 DEF UpdateFailedMessagesForRegularQueues, TableType
<1>7. ASSUME NEW batch
      PROVE  TableType(MoveExpiredBatch(table, batch, now))
  BY <1>1 DEF MoveExpiredBatch, TableType
<1>8. ASSUME NEW queue \in Queue
      PROVE  /\ TableType(RequeueDlqMessages(table, queue, now))
             /\ \A id : TableType(RequeueDlqMessage(table, id, queue, now))
  BY <1>1 DEF RequeueDlqMessages, RequeueDlqMessage, TableType
<1>9. QED
  BY <1>2, <1>3, <1>4, <1>5, <1>6, <1>7, <1>8

LEMMA MovedType ==
  ASSUME residence \in [Id -> Nat], NEW ids, Moved(ids)
  PROVE  residence' \in [Id -> Nat]
BY DEF Moved

\* TypeOK is inductive: every stored row, waiting operation and delivery stays
\* well formed under every request, job, cancellation and restart.
THEOREM TypeCorrect == Spec => []TypeOK
<1>1. Init => TypeOK
  BY DEF Init, TypeOK, Call
<1>2. TypeOK /\ [Next]_vars => TypeOK'
  <2> SUFFICES ASSUME TypeOK, [Next]_vars
               PROVE  TypeOK'
    OBVIOUS
  <2>1. /\ clock \in Nat
        /\ TableType(messages)
        /\ produced \subseteq Id
        /\ pending \in [Process -> Call]
        /\ residence \in [Id -> Nat]
        /\ deliveries \subseteq Delivery
    BY DEF TypeOK, TableType
  <2>2. CASE UNCHANGED vars
    BY <2>1, <2>2 DEF vars, TypeOK, TableType
  <2>3. ASSUME NEW c \in Caller, ApiRequest(c)
        PROVE  TypeOK'
    <3>1. CASE BeginProduce(c)
      <4>1. PICK id \in Id \ produced, queue \in QueueName, delay \in RequestedDelays :
              /\ Begin(c, [op |-> "produce", id |-> id, queue |-> queue,
                           processAfter |-> clock + delay, now |-> clock])
              /\ produced' = produced \cup {id}
              /\ UNCHANGED <<clock, messages, residence, deliveries>>
        BY <3>1 DEF BeginProduce
      <4>2. clock + delay \in Int
        BY <2>1, BrokerAssumption
      <4>3. [op |-> "produce", id |-> id, queue |-> queue,
             processAfter |-> clock + delay, now |-> clock] \in Call
        BY <2>1, <4>2, QueueNameType DEF Call
      <4>4. QED
        BY <2>1, <4>1, <4>3, WaitType, CallerIsProcess DEF TypeOK, TableType
    <3>2. CASE Produce(c)
      <4>1. TableType(messages')
        BY <2>1, <3>2, PendingType, StatementType, CallerIsProcess DEF Produce
      <4>2. QED
        BY <2>1, <3>2, <4>1, WaitType, CallerIsProcess
           DEF Produce, TypeOK, TableType
    <3>3. CASE BeginConsume(c)
      <4>1. PICK queue \in QueueName :
              Begin(c, [op |-> "claim", queue |-> queue, now |-> clock])
        BY <3>3 DEF BeginConsume
      <4>2. [op |-> "claim", queue |-> queue, now |-> clock] \in Call
        BY <2>1, QueueNameType DEF Call
      <4>3. QED
        BY <2>1, <3>3, <4>1, <4>2, WaitType, CallerIsProcess
           DEF BeginConsume, TypeOK, TableType
    <3>4. CASE Consume(c)
      <4>1. PICK id \in Oldest(messages, Consumable(messages, pending[c].queue,
                                                    pending[c].now)),
                 received \in BOOLEAN :
              /\ messages' = ClaimMessage(messages, id, pending[c].now)
              /\ deliveries' = deliveries \cup
                   {[id |-> id, residence |-> residence[id],
                     attempt |-> messages[id].attempts + 1,
                     queue |-> pending[c].queue,
                     receipt |-> pending[c].now, received |-> received]}
        BY <3>4 DEF Consume
      <4>2. /\ pending[c].queue \in Queue
            /\ pending[c].now \in Int
        BY <2>1, <3>4, PendingType, CallerIsProcess DEF Consume
      <4>3. /\ id \in DOMAIN messages
            /\ id \in Id
            /\ messages[id].attempts + 1 \in Nat
        BY <2>1 DEF Oldest, Consumable, TableType, Row
      <4>4. TableType(messages')
        BY <2>1, <4>1, <4>2, <4>3, StatementType
      <4>5. deliveries' \subseteq Delivery
        BY <2>1, <4>1, <4>2, <4>3 DEF Delivery
      <4>6. QED
        BY <2>1, <3>4, <4>4, <4>5, WaitType, CallerIsProcess
           DEF Consume, TypeOK, TableType
    <3>5. CASE ConsumeNothing(c)
      BY <2>1, <3>5, WaitType, CallerIsProcess
         DEF ConsumeNothing, TypeOK, TableType
    <3>6. CASE Ack(c)
      BY <2>1, <3>6, WithoutType DEF Ack, DeleteMessageOnAck, TypeOK, TableType
    <3>7. CASE BeginNack(c)
      <4>1. PICK d \in Received :
              Begin(c, [op |-> "nack", id |-> d.id, queue |-> d.queue,
                        receipt |-> d.receipt, now |-> clock])
        BY <3>7 DEF BeginNack
      <4>2. [op |-> "nack", id |-> d.id, queue |-> d.queue,
             receipt |-> d.receipt, now |-> clock] \in Call
        BY <2>1 DEF Call, Received, Delivery
      <4>3. QED
        BY <2>1, <3>7, <4>1, <4>2, WaitType, CallerIsProcess
           DEF BeginNack, TypeOK, TableType
    <3>8. CASE Nack(c)
      <4>1. TableType(messages')
        BY <2>1, <3>8, PendingType, StatementType, CallerIsProcess DEF Nack
      <4>2. QED
        BY <2>1, <3>8, <4>1, WaitType, CallerIsProcess
           DEF Nack, TypeOK, TableType
    <3>9. QED
      BY <2>3, <3>1, <3>2, <3>3, <3>4, <3>5, <3>6, <3>7, <3>8 DEF ApiRequest
  <2>4. ASSUME NEW c \in Caller, AdminRequest(c)
        PROVE  TypeOK'
    <3>1. CASE BeginRequeueAll(c)
      <4>1. PICK queue \in DlqName :
              Begin(c, [op |-> "requeueAll", queue |-> queue, now |-> clock])
        BY <3>1 DEF BeginRequeueAll
      <4>2. [op |-> "requeueAll", queue |-> queue, now |-> clock] \in Call
        BY <2>1, QueueNameType DEF Call, DlqName
      <4>3. QED
        BY <2>1, <3>1, <4>1, <4>2, WaitType, CallerIsProcess
           DEF BeginRequeueAll, TypeOK, TableType
    <3>2. CASE RequeueAll(c)
      <4>1. TableType(messages')
        BY <2>1, <3>2, PendingType, StatementType, CallerIsProcess DEF RequeueAll
      <4>2. QED
        BY <2>1, <3>2, <4>1, WaitType, MovedType, CallerIsProcess
           DEF RequeueAll, TypeOK, TableType
    <3>3. CASE BeginRequeue(c)
      <4>1. PICK id \in produced, queue \in DlqName :
              Begin(c, [op |-> "requeue", id |-> id, queue |-> queue,
                        now |-> clock])
        BY <3>3 DEF BeginRequeue
      <4>2. [op |-> "requeue", id |-> id, queue |-> queue, now |-> clock] \in Call
        BY <2>1, QueueNameType DEF Call, DlqName
      <4>3. QED
        BY <2>1, <3>3, <4>1, <4>2, WaitType, CallerIsProcess
           DEF BeginRequeue, TypeOK, TableType
    <3>4. CASE Requeue(c)
      <4>1. TableType(messages')
        BY <2>1, <3>4, PendingType, StatementType, CallerIsProcess DEF Requeue
      <4>2. QED
        BY <2>1, <3>4, <4>1, WaitType, MovedType, CallerIsProcess
           DEF Requeue, TypeOK, TableType
    <3>5. CASE DeleteOne(c)
      BY <2>1, <3>5, WithoutType
         DEF DeleteOne, DeleteMessageFromDlq, TypeOK, TableType
    <3>6. CASE DeleteAll(c)
      BY <2>1, <3>6, WithoutType
         DEF DeleteAll, DeleteAllMessagesFromQueue, TypeOK, TableType
    <3>7. QED
      BY <2>4, <3>1, <3>2, <3>3, <3>4, <3>5, <3>6 DEF AdminRequest
  <2>5. CASE Jobs
    <3>1. ASSUME NEW j \in Job, BeginTick(j)
          PROVE  TypeOK'
      <4>1. [op |-> j, now |-> clock] \in Call
        BY <2>1 DEF Call
      <4>2. QED
        BY <2>1, <3>1, <4>1, WaitType, CallerIsProcess
           DEF BeginTick, TypeOK, TableType
    <3>2. CASE RecoverStale
      <4>1. TableType(messages')
        BY <2>1, <3>2, PendingType, StatementType, CallerIsProcess
           DEF RecoverStale, Job
      <4>2. QED
        BY <2>1, <3>2, <4>1, WaitType, CallerIsProcess
           DEF RecoverStale, Job, TypeOK, TableType
    <3>3. CASE MoveFailed
      <4>1. TableType(messages')
        BY <2>1, <3>3, PendingType, StatementType, CallerIsProcess
           DEF MoveFailed, Job
      <4>2. QED
        BY <2>1, <3>3, <4>1, WaitType, MovedType, CallerIsProcess
           DEF MoveFailed, Job, TypeOK, TableType
    <3>4. CASE DeleteFailed
      BY <2>1, <3>4, WithoutType
         DEF DeleteFailed, DeleteFailedMessagesFromDlq, TypeOK, TableType
    <3>5. CASE MoveExpired
      <4>1. PICK batch :
              /\ messages' = MoveExpiredBatch(messages, batch,
                                              pending["expired"].now)
              /\ Moved(batch)
              /\ Finish("expired") \/ UNCHANGED pending
        BY <3>5 DEF MoveExpired
      <4>2. TableType(messages')
        BY <2>1, <3>5, <4>1, PendingType, StatementType, CallerIsProcess
           DEF MoveExpired, Job
      <4>3. QED
        BY <2>1, <3>5, <4>1, <4>2, WaitType, MovedType, CallerIsProcess
           DEF MoveExpired, Job, TypeOK, TableType
    <3>6. CASE DeleteExpired
      <4>1. PICK batch :
              /\ messages' = DeleteExpiredBatch(messages, batch)
              /\ Finish("expiredDlq") \/ UNCHANGED pending
        BY <3>6 DEF DeleteExpired
      <4>2. TableType(messages')
        BY <2>1, <4>1, WithoutType DEF DeleteExpiredBatch
      <4>3. QED
        BY <2>1, <3>6, <4>1, <4>2, WaitType, CallerIsProcess
           DEF DeleteExpired, Job, TypeOK, TableType
    <3>7. QED
      BY <2>5, <3>1, <3>2, <3>3, <3>4, <3>5, <3>6 DEF Jobs
  <2>6. CASE Environment
    <3>1. CASE Tick
      BY <2>1, <3>1 DEF Tick, TypeOK, TableType
    <3>2. CASE Restart
      BY <2>1, <3>2 DEF Restart, TypeOK, TableType, Call
    <3>3. ASSUME NEW p \in Process, Abandon(p)
          PROVE  TypeOK'
      BY <2>1, <3>3, WaitType DEF Abandon, TypeOK, TableType
    <3>4. QED
      BY <2>6, <3>1, <3>2, <3>3 DEF Environment
  <2>7. QED
    BY <2>2, <2>3, <2>4, <2>5, <2>6 DEF Next
<1>3. QED
  BY <1>1, <1>2, PTL DEF Spec

-----------------------------------------------------------------------------
(***************************************************************************)
(* Rows one by one: the parts of the invariant that speak of a single row  *)
(* are kept by everything a statement writes.                              *)
(***************************************************************************)
RowSane(row) ==
  /\ row.status = Ready => row.attempts < MaxDeliveryAttempts
  /\ row.status = Processing => row.attempts \in 1 .. MaxDeliveryAttempts
  /\ row.status = Failed => row.attempts = MaxDeliveryAttempts
  /\ row.queue.suffixes = (IF row.isDlq THEN 1 ELSE 0)
  /\ row.isDlq <=> row.reason # NULL
  /\ row.status = Processing <=> row.startedAt # NULL

TableSane(table) == \A i \in DOMAIN table : RowSane(table[i])

LEMMA NewRowSane ==
  ASSUME NEW queue \in Queue, queue.suffixes = 0,
         NEW after \in Int, NEW now \in Int
  PROVE  RowSane(NewRow(queue, after, now))
BY RepoAssumption DEF RowSane, NewRow, Ready, Processing, Failed

LEMMA ClaimedSane ==
  ASSUME NEW row \in Row, RowSane(row), row.status = Ready, NEW now \in Int
  PROVE  RowSane(Claimed(row, now))
<1> DEFINE new == Claimed(row, now)
<1>1. /\ new.status = Processing
      /\ new.attempts = row.attempts + 1
      /\ new.startedAt = now
      /\ new.queue = row.queue
      /\ new.isDlq = row.isDlq
      /\ new.reason = row.reason
  BY DEF Claimed, Row
<1>2. row.attempts \in Nat /\ row.attempts < MaxDeliveryAttempts
  BY DEF Row, RowSane
<1>3. new.attempts \in 1 .. MaxDeliveryAttempts
  BY <1>1, <1>2, RepoAssumption
<1>4. now # NULL
  BY RepoAssumption
<1>5. QED
  BY <1>1, <1>3, <1>4 DEF RowSane, Ready, Processing, Failed

\* A delivery that ends, by a nack or by stale recovery.
LEMMA ReleasedSane ==
  ASSUME NEW row \in Row, RowSane(row), row.status = Processing, NEW now \in Int
  PROVE  /\ RowSane(Nacked(row, now))
         /\ RowSane(Recovered(row, now))
<1>1. ASSUME NEW new,
             new.status = StatusAfterFailure(row),
             new.startedAt = NULL,
             new.attempts = row.attempts,
             new.queue = row.queue,
             new.isDlq = row.isDlq,
             new.reason = row.reason
      PROVE  RowSane(new)
  <2>1. row.attempts \in 1 .. MaxDeliveryAttempts
    BY DEF RowSane
  <2>2. CASE row.attempts >= MaxDeliveryAttempts
    <3>1. row.attempts = MaxDeliveryAttempts
      BY <2>1, <2>2, RepoAssumption
    <3>2. new.status = Failed
      BY <1>1, <2>2 DEF StatusAfterFailure
    <3>3. QED
      BY <1>1, <3>1, <3>2 DEF RowSane, Ready, Processing, Failed
  <2>3. CASE ~ (row.attempts >= MaxDeliveryAttempts)
    <3>1. row.attempts < MaxDeliveryAttempts
      BY <2>1, <2>3, RepoAssumption
    <3>2. new.status = Ready
      BY <1>1, <2>3 DEF StatusAfterFailure
    <3>3. QED
      BY <1>1, <3>1, <3>2 DEF RowSane, Ready, Processing, Failed
  <2>4. QED
    BY <2>2, <2>3
<1>2. RowSane(Nacked(row, now))
  BY <1>1 DEF Nacked, Row
<1>3. RowSane(Recovered(row, now))
  BY <1>1 DEF Recovered, Row
<1>4. QED
  BY <1>2, <1>3

LEMMA MovedToDlqSane ==
  ASSUME NEW row \in Row, RowSane(row), ~ row.isDlq,
         NEW reason \in Reason, NEW now \in Int
  PROVE  RowSane(MovedToDlq(row, reason, now))
<1> DEFINE new == MovedToDlq(row, reason, now)
<1>1. /\ new.status = Ready
      /\ new.attempts = 0
      /\ new.startedAt = NULL
      /\ new.queue = AppendDlqSuffix(row.queue)
      /\ new.isDlq = TRUE
      /\ new.reason = reason
  BY DEF MovedToDlq, Row
<1>2. new.queue.suffixes = 1
  BY <1>1 DEF AppendDlqSuffix, RowSane, Row, Queue
<1>3. reason # NULL
  BY RepoAssumption DEF Reason, MaxAttemptsReached, MessageExpired
<1>4. QED
  BY <1>1, <1>2, <1>3, RepoAssumption DEF RowSane, Ready, Processing, Failed

LEMMA RequeuedSane ==
  ASSUME NEW row \in Row, NEW queue \in Queue, queue.suffixes = 1,
         NEW now \in Int
  PROVE  RowSane(Requeued(row, queue, now))
<1> DEFINE new == Requeued(row, queue, now)
<1>1. /\ new.status = Ready
      /\ new.attempts = 0
      /\ new.startedAt = NULL
      /\ new.queue = TrimDlqSuffix(queue)
      /\ new.isDlq = FALSE
      /\ new.reason = NULL
  BY DEF Requeued, Row
<1>2. new.queue.suffixes = 0
  BY <1>1 DEF TrimDlqSuffix, HasDlqSuffix, Queue
<1>3. QED
  BY <1>1, <1>2, RepoAssumption DEF RowSane, Ready, Processing, Failed

-----------------------------------------------------------------------------
(***************************************************************************)
(* The kinds of steps, as far as the table and the history are concerned.  *)
(***************************************************************************)
Quiet == UNCHANGED <<messages, residence, deliveries>>

Removes(ids) ==
  /\ messages' = Without(messages, ids)
  /\ UNCHANGED <<residence, deliveries>>

DeadLetters(ids, reason, now) ==
  /\ \A i \in ids : /\ i \in DOMAIN messages
                    /\ messages[i].status # Processing
                    /\ ~ messages[i].isDlq
  /\ messages' = [i \in DOMAIN messages |->
       IF i \in ids THEN MovedToDlq(messages[i], reason, now) ELSE messages[i]]
  /\ Moved(ids)
  /\ UNCHANGED deliveries

Requeues(ids, queue, now) ==
  /\ \A i \in ids : /\ i \in DOMAIN messages
                    /\ messages[i].status # Processing
                    /\ messages[i].queue = queue
  /\ queue.suffixes = 1
  /\ messages' = [i \in DOMAIN messages |->
       IF i \in ids THEN Requeued(messages[i], queue, now) ELSE messages[i]]
  /\ Moved(ids)
  /\ UNCHANGED deliveries

StepKind ==
  \/ Quiet
  \/ \E ids : Removes(ids)
  \/ \E c \in Caller : Produce(c) \/ Consume(c) \/ Nack(c)
  \/ RecoverStale
  \/ \E ids : \E reason \in Reason, now \in Int : DeadLetters(ids, reason, now)
  \/ \E ids : \E queue \in Queue, now \in Int : Requeues(ids, queue, now)

LEMMA StepKinds ==
  ASSUME TypeOK, CallsSane, [Next]_vars
  PROVE  StepKind
<1>1. pending \in [Process -> Call]
  BY DEF TypeOK
<1>2. CASE UNCHANGED vars
  BY <1>2 DEF vars, StepKind, Quiet
<1>3. ASSUME NEW c \in Caller, ApiRequest(c)
      PROVE  StepKind
  <2>1. CASE BeginProduce(c) \/ BeginConsume(c) \/ ConsumeNothing(c) \/ BeginNack(c)
    BY <2>1 DEF BeginProduce, BeginConsume, ConsumeNothing, BeginNack,
                StepKind, Quiet
  <2>2. CASE Produce(c) \/ Consume(c) \/ Nack(c)
    BY <2>2 DEF StepKind
  <2>3. CASE Ack(c)
    <3>1. PICK ids : Removes(ids)
      BY <2>3 DEF Ack, DeleteMessageOnAck, Removes
    <3>2. QED
      BY <3>1 DEF StepKind
  <2>4. QED
    BY <1>3, <2>1, <2>2, <2>3 DEF ApiRequest
<1>4. ASSUME NEW c \in Caller, AdminRequest(c)
      PROVE  StepKind
  <2>1. CASE BeginRequeueAll(c) \/ BeginRequeue(c)
    BY <2>1 DEF BeginRequeueAll, BeginRequeue, StepKind, Quiet
  <2>2. CASE RequeueAll(c)
    <3>1. /\ pending[c].queue \in Queue
          /\ pending[c].queue.suffixes = 1
          /\ pending[c].now \in Int
      BY <1>1, <2>2, PendingType, CallerIsProcess
         DEF RequeueAll, CallsSane, Executing
    <3>2. Requeues(Requeueable(messages, pending[c].queue), pending[c].queue,
                   pending[c].now)
      BY <2>2, <3>1 DEF RequeueAll, Requeues, Requeueable, RequeueDlqMessages
    <3>3. QED
      BY <3>1, <3>2 DEF StepKind
  <2>3. CASE Requeue(c)
    <3>1. /\ pending[c].queue \in Queue
          /\ pending[c].queue.suffixes = 1
          /\ pending[c].now \in Int
      BY <1>1, <2>3, PendingType, CallerIsProcess
         DEF Requeue, CallsSane, Executing
    <3> DEFINE ids == Requeueable(messages, pending[c].queue) \cap {pending[c].id}
    <3>2. Requeues(ids, pending[c].queue, pending[c].now)
      BY <2>3, <3>1 DEF Requeue, Requeues, Requeueable, RequeueDlqMessage
    <3>3. QED
      BY <3>1, <3>2 DEF StepKind
  <2>4. CASE DeleteOne(c) \/ DeleteAll(c)
    <3>1. PICK ids : Removes(ids)
      BY <2>4 DEF DeleteOne, DeleteAll, DeleteMessageFromDlq,
                  DeleteAllMessagesFromQueue, Removes
    <3>2. QED
      BY <3>1 DEF StepKind
  <2>5. QED
    BY <1>4, <2>1, <2>2, <2>3, <2>4 DEF AdminRequest
<1>5. CASE Jobs
  <2>1. CASE \E j \in Job : BeginTick(j)
    BY <2>1 DEF BeginTick, StepKind, Quiet
  <2>2. CASE RecoverStale
    BY <2>2 DEF StepKind
  <2>3. CASE MoveFailed
    <3>1. pending["failed"].now \in Int
      BY <1>1, <2>3, PendingType, CallerIsProcess DEF MoveFailed, Job
    <3>2. DeadLetters(FailedRows(messages, FALSE), MaxAttemptsReached,
                      pending["failed"].now)
      BY <2>3 DEF MoveFailed, DeadLetters, FailedRows, Failed, Processing,
                  UpdateFailedMessagesForRegularQueues
    <3>3. QED
      BY <3>1, <3>2 DEF StepKind, Reason
  <2>4. CASE DeleteFailed
    <3>1. PICK ids : Removes(ids)
      BY <2>4 DEF DeleteFailed, DeleteFailedMessagesFromDlq, Removes
    <3>2. QED
      BY <3>1 DEF StepKind
  <2>5. CASE MoveExpired
    <3> DEFINE now == pending["expired"].now
    <3>1. now \in Int
      BY <1>1, <2>5, PendingType, CallerIsProcess DEF MoveExpired, Job
    <3>2. PICK batch \in Batches(Expired(messages, FALSE, now)) :
            /\ messages' = MoveExpiredBatch(messages, batch, now)
            /\ Moved(batch)
      BY <2>5 DEF MoveExpired
    <3>3. DeadLetters(batch, MessageExpired, now)
      BY <2>5, <3>2 DEF MoveExpired, DeadLetters, Batches, Expired,
                        MoveExpiredBatch, Ready, Failed, Processing
    <3>4. QED
      BY <3>1, <3>3 DEF StepKind, Reason
  <2>6. CASE DeleteExpired
    <3>1. PICK ids : Removes(ids)
      BY <2>6 DEF DeleteExpired, DeleteExpiredBatch, Removes
    <3>2. QED
      BY <3>1 DEF StepKind
  <2>7. QED
    BY <1>5, <2>1, <2>2, <2>3, <2>4, <2>5, <2>6 DEF Jobs
<1>6. CASE Environment
  BY <1>6 DEF Environment, Tick, Restart, Abandon, StepKind, Quiet
<1>7. QED
  BY <1>2, <1>3, <1>4, <1>5, <1>6 DEF Next

-----------------------------------------------------------------------------
(***************************************************************************)
(* The rows stay sane.                                                     *)
(***************************************************************************)
LEMMA TableSaneMeans ==
  IInv => /\ TypeOK /\ CallsSane /\ HistorySane
          /\ AttemptsCountClaims /\ ReceiptsOrdered /\ RedeliveryGap
          /\ TableSane(messages)
BY DEF IInv, TableSane, RowSane, AttemptsWithinBudget, DlqConsistent,
       FenceIsLatestDelivery

LEMMA RowsStep ==
  ASSUME TypeOK, CallsSane, TableSane(messages), [Next]_vars
  PROVE  TableSane(messages')
<1>1. /\ pending \in [Process -> Call]
      /\ \A i \in DOMAIN messages : messages[i] \in Row /\ RowSane(messages[i])
  BY DEF TypeOK, TableSane
<1>2. CASE Quiet
  BY <1>1, <1>2 DEF Quiet, TableSane
<1>3. ASSUME NEW ids, Removes(ids)
      PROVE  TableSane(messages')
  BY <1>1, <1>3 DEF Removes, Without, TableSane
<1>4. ASSUME NEW c \in Caller, Produce(c)
      PROVE  TableSane(messages')
  <2>1. RowSane(NewRow(pending[c].queue, pending[c].processAfter, pending[c].now))
    <3>1. /\ pending[c].queue \in Queue
          /\ pending[c].queue.suffixes = 0
          /\ pending[c].processAfter \in Int
          /\ pending[c].now \in Int
      BY <1>1, <1>4, PendingType, CallerIsProcess
         DEF Produce, CallsSane, Executing
    <3>2. QED
      BY <3>1, NewRowSane
  <2>2. QED
    BY <1>1, <1>4, <2>1 DEF Produce, InsertMessage, TableSane
<1>5. ASSUME NEW c \in Caller, Consume(c)
      PROVE  TableSane(messages')
  <2>1. pending[c].now \in Int
    BY <1>1, <1>5, PendingType, CallerIsProcess DEF Consume
  <2>2. PICK id \in Consumable(messages, pending[c].queue, pending[c].now) :
          messages' = ClaimMessage(messages, id, pending[c].now)
    BY <1>5 DEF Consume, Oldest
  <2>3. RowSane(Claimed(messages[id], pending[c].now))
    BY <1>1, <2>1, <2>2, ClaimedSane DEF Consumable
  <2>4. QED
    BY <1>1, <2>2, <2>3 DEF ClaimMessage, TableSane
<1>6. ASSUME NEW c \in Caller, Nack(c)
      PROVE  TableSane(messages')
  <2>1. pending[c].now \in Int
    BY <1>1, <1>6, PendingType, CallerIsProcess DEF Nack
  <2>2. \A i \in Fenced(messages, pending[c].id, pending[c].queue,
                        pending[c].receipt) :
          RowSane(Nacked(messages[i], pending[c].now))
    BY <1>1, <2>1, ReleasedSane DEF Fenced
  <2>3. QED
    BY <1>1, <1>6, <2>2 DEF Nack, UpdateMessageOnConsumingFailure, TableSane
<1>7. CASE RecoverStale
  <2>1. pending["stale"].now \in Int
    BY <1>1, <1>7, PendingType, CallerIsProcess DEF RecoverStale, Job
  <2>2. \A i \in Stale(messages, pending["stale"].now) :
          RowSane(Recovered(messages[i], pending["stale"].now))
    BY <1>1, <2>1, ReleasedSane DEF Stale
  <2>3. QED
    BY <1>1, <1>7, <2>2 DEF RecoverStale, UpdateStaleMessages, TableSane
<1>8. ASSUME NEW ids, NEW reason \in Reason, NEW now \in Int,
             DeadLetters(ids, reason, now)
      PROVE  TableSane(messages')
  <2>1. \A i \in ids : RowSane(MovedToDlq(messages[i], reason, now))
    BY <1>1, <1>8, MovedToDlqSane DEF DeadLetters
  <2>2. QED
    BY <1>1, <1>8, <2>1 DEF DeadLetters, TableSane
<1>9. ASSUME NEW ids, NEW queue \in Queue, NEW now \in Int,
             Requeues(ids, queue, now)
      PROVE  TableSane(messages')
  <2>1. \A i \in ids : RowSane(Requeued(messages[i], queue, now))
    BY <1>1, <1>9, RequeuedSane DEF Requeues
  <2>2. QED
    BY <1>1, <1>9, <2>1 DEF Requeues, TableSane
<1>10. QED
  BY StepKinds, <1>2, <1>3, <1>4, <1>5, <1>6, <1>7, <1>8, <1>9 DEF StepKind

-----------------------------------------------------------------------------
(***************************************************************************)
(* Time and ids only grow.                                                 *)
(***************************************************************************)
LEMMA Growth ==
  ASSUME TypeOK, [Next]_vars
  PROVE  /\ clock' \in Nat
         /\ clock <= clock'
         /\ produced \subseteq produced'
<1> USE DEF TypeOK
<1>1. CASE UNCHANGED vars
  BY <1>1 DEF vars
<1>2. ASSUME NEW c \in Caller, ApiRequest(c)
      PROVE  clock' = clock /\ produced \subseteq produced'
  BY <1>2 DEF ApiRequest, BeginProduce, Produce, BeginConsume, Consume,
              ConsumeNothing, Ack, BeginNack, Nack
<1>3. ASSUME NEW c \in Caller, AdminRequest(c)
      PROVE  clock' = clock /\ produced' = produced
  BY <1>3 DEF AdminRequest, BeginRequeueAll, RequeueAll, BeginRequeue, Requeue,
              DeleteOne, DeleteAll
<1>4. ASSUME Jobs
      PROVE  clock' = clock /\ produced' = produced
  BY <1>4 DEF Jobs, BeginTick, RecoverStale, MoveFailed, DeleteFailed,
              MoveExpired, DeleteExpired
<1>5. ASSUME Environment
      PROVE  clock' \in {clock, clock + 1} /\ produced' = produced
  BY <1>5 DEF Environment, Tick, Restart, Abandon
<1>6. QED
  BY <1>1, <1>2, <1>3, <1>4, <1>5 DEF Next

-----------------------------------------------------------------------------
(***************************************************************************)
(* The history of deliveries.                                              *)
(***************************************************************************)
\* A claim, spelled out: which message, and the delivery it adds.
LEMMA ClaimStep ==
  ASSUME TypeOK, CallsSane, NEW c \in Caller, Consume(c)
  PROVE  \E id \in DOMAIN messages, new \in Delivery :
           /\ messages[id].status = Ready
           /\ messages[id].processAfter <= new.receipt
           /\ new.receipt <= clock
           /\ new.id = id
           /\ new.residence = residence[id]
           /\ new.attempt = messages[id].attempts + 1
           /\ new.queue = messages[id].queue
           /\ messages' = ClaimMessage(messages, id, new.receipt)
           /\ deliveries' = deliveries \cup {new}
           /\ residence' = residence
<1>1. /\ pending \in [Process -> Call]
      /\ pending[c].queue \in Queue
      /\ pending[c].now \in Int
      /\ pending[c].now <= clock
  BY PendingType, CallerIsProcess
     DEF TypeOK, Consume, CallsSane, Executing, Idle
<1>2. PICK id \in Oldest(messages, Consumable(messages, pending[c].queue,
                                              pending[c].now)),
           received \in BOOLEAN :
        /\ messages' = ClaimMessage(messages, id, pending[c].now)
        /\ deliveries' = deliveries \cup
             {[id |-> id, residence |-> residence[id],
               attempt |-> messages[id].attempts + 1,
               queue |-> pending[c].queue,
               receipt |-> pending[c].now, received |-> received]}
        /\ residence' = residence
  BY DEF Consume
<1> DEFINE new == [id |-> id, residence |-> residence[id],
                   attempt |-> messages[id].attempts + 1,
                   queue |-> pending[c].queue,
                   receipt |-> pending[c].now, received |-> received]
<1>3. /\ id \in DOMAIN messages
      /\ messages[id].queue = pending[c].queue
      /\ messages[id].status = Ready
      /\ messages[id].processAfter <= pending[c].now
  BY DEF Oldest, Consumable
<1>4. new \in Delivery
  <2>1. id \in Id /\ messages[id].attempts + 1 \in Nat
    BY <1>3 DEF TypeOK, Row
  <2>2. QED
    BY <1>1, <2>1 DEF TypeOK, Delivery
<1>5. QED
  BY <1>1, <1>2, <1>3, <1>4

LEMMA HistoryStep ==
  ASSUME TypeOK, CallsSane, HistorySane, [Next]_vars
  PROVE  HistorySane'
<1>1. /\ clock \in Nat /\ clock' \in Nat /\ clock <= clock'
      /\ produced \subseteq produced'
  BY Growth DEF TypeOK
<1>2. /\ residence \in [Id -> Nat]
      /\ \A d \in deliveries : /\ d \in Delivery
                               /\ d.id \in Id
                               /\ d.residence \in Nat
                               /\ d.receipt \in Int
  BY DEF TypeOK, Delivery
<1>3. ASSUME DOMAIN messages' \subseteq DOMAIN messages,
             deliveries' = deliveries,
             residence' = residence \/ \E ids : Moved(ids)
      PROVE  HistorySane'
  <2>1. \A d \in deliveries : residence[d.id] <= residence'[d.id]
    BY <1>2, <1>3 DEF Moved
  <2>2. \A d \in deliveries : residence'[d.id] \in Nat
    BY <1>2, <1>3 DEF Moved
  <2>3. QED
    BY <1>1, <1>2, <1>3, <2>1, <2>2 DEF HistorySane
<1>4. CASE Quiet
  BY <1>3, <1>4 DEF Quiet
<1>5. ASSUME NEW ids, Removes(ids)
      PROVE  HistorySane'
  BY <1>3, <1>5 DEF Removes, Without
<1>6. ASSUME NEW c \in Caller, Produce(c)
      PROVE  HistorySane'
  <2>1. pending[c].id \in produced
    BY <1>6, CallerIsProcess DEF Produce, CallsSane, Executing
  <2>2. QED
    BY <1>1, <1>2, <1>6, <2>1 DEF Produce, InsertMessage, HistorySane
<1>7. ASSUME NEW c \in Caller, Consume(c)
      PROVE  HistorySane'
  <2>1. PICK id \in DOMAIN messages, new \in Delivery :
          /\ new.receipt <= clock
          /\ new.id = id
          /\ new.residence = residence[id]
          /\ messages' = ClaimMessage(messages, id, new.receipt)
          /\ deliveries' = deliveries \cup {new}
          /\ residence' = residence
    BY <1>7, ClaimStep
  <2>2. /\ new.receipt \in Int
        /\ new.residence \in Nat
        /\ DOMAIN messages' = DOMAIN messages
    BY <2>1 DEF Delivery, ClaimMessage
  <2>3. QED
    BY <1>1, <1>2, <2>1, <2>2 DEF HistorySane
<1>8. ASSUME NEW c \in Caller, Nack(c)
      PROVE  HistorySane'
  BY <1>3, <1>8 DEF Nack, UpdateMessageOnConsumingFailure
<1>9. CASE RecoverStale
  BY <1>3, <1>9 DEF RecoverStale, UpdateStaleMessages
<1>10. ASSUME NEW ids, NEW reason, NEW now, DeadLetters(ids, reason, now)
       PROVE  HistorySane'
  BY <1>3, <1>10 DEF DeadLetters
<1>11. ASSUME NEW ids, NEW queue, NEW now, Requeues(ids, queue, now)
       PROVE  HistorySane'
  BY <1>3, <1>11 DEF Requeues
<1>12. QED
  BY StepKinds, <1>4, <1>5, <1>6, <1>7, <1>8, <1>9, <1>10, <1>11 DEF StepKind

-----------------------------------------------------------------------------
(***************************************************************************)
(* Receipts grow.                                                          *)
(***************************************************************************)
LEMMA ApartFacts ==
  ASSUME NEW earlier \in Int, NEW later \in Int
  PROVE  /\ Apart(earlier, later) => earlier < later
         /\ \A later2 \in Int :
              Apart(earlier, later) /\ later <= later2 => Apart(earlier, later2)
         /\ \A attempts \in Nat : Apart(earlier, earlier + BackoffDelay(attempts))
<1>1. \A k \in DOMAIN BackoffDelays : BackoffDelays[k] \in Nat \ {0}
  BY RepoAssumption
<1>2. \A attempts \in Nat :
        \E k \in DOMAIN BackoffDelays : BackoffDelay(attempts) = BackoffDelays[k]
  BY RepoAssumption DEF BackoffDelay
<1>3. Apart(earlier, later) => earlier < later
  BY <1>1, RepoAssumption DEF Apart
<1>4. \A later2 \in Int :
        Apart(earlier, later) /\ later <= later2 => Apart(earlier, later2)
  BY <1>1, RepoAssumption DEF Apart
<1>5. ASSUME NEW attempts \in Nat
      PROVE  Apart(earlier, earlier + BackoffDelay(attempts))
  <2>1. PICK k \in DOMAIN BackoffDelays : BackoffDelay(attempts) = BackoffDelays[k]
    BY <1>2
  <2>2. earlier + BackoffDelays[k] <= earlier + BackoffDelay(attempts)
    BY <1>1, <2>1
  <2>3. QED
    BY <2>2 DEF Apart
<1>6. QED
  BY <1>3, <1>4, <1>5

\* ReceiptsOrdered for one delivery d and the row of its message.
Ordered(d, row) ==
  /\ d.attempt <= row.attempts
  /\ row.status = Ready => Apart(d.receipt, row.processAfter)
  /\ row.status = Processing =>
       IF d.attempt = row.attempts
       THEN d.receipt = row.startedAt
       ELSE Apart(d.receipt, row.startedAt)

\* The end of a delivery at time `end`: the next claim is apart from it.
LEMMA ReleasedOrdered ==
  ASSUME NEW row \in Row, NEW d \in Delivery, Ordered(d, row),
         row.status = Processing, row.startedAt \in Int,
         NEW new, new.attempts = row.attempts, new.status # Processing,
         new.processAfter \in Int, Apart(row.startedAt, new.processAfter)
  PROVE  Ordered(d, new)
<1>1. d.receipt \in Int
  BY DEF Delivery
<1>2. row.startedAt < new.processAfter
  BY ApartFacts
<1>3. Apart(d.receipt, new.processAfter)
  BY <1>1, <1>2, ApartFacts DEF Ordered
<1>4. QED
  BY <1>3 DEF Ordered

LEMMA ReceiptsStep ==
  ASSUME TypeOK, CallsSane, HistorySane, TableSane(messages), ReceiptsOrdered,
         [Next]_vars
  PROVE  ReceiptsOrdered'
<1>1. /\ residence \in [Id -> Nat]
      /\ pending \in [Process -> Call]
      /\ \A i \in DOMAIN messages : /\ i \in Id
                                    /\ messages[i] \in Row
                                    /\ RowSane(messages[i])
  BY DEF TypeOK, TableSane
<1>2. \A d \in deliveries : /\ d \in Delivery
                            /\ d.id \in Id
                            /\ d.residence \in Nat
                            /\ d.residence <= residence[d.id]
  BY DEF TypeOK, Delivery, HistorySane
<1>3. \A d \in deliveries :
        Residing(d) /\ d.id \in DOMAIN messages => Ordered(d, messages[d.id])
  BY DEF ReceiptsOrdered, Ordered
<1>4. SUFFICES ASSUME NEW d \in deliveries', Residing(d)',
                      d.id \in DOMAIN messages'
               PROVE  Ordered(d, messages'[d.id])
  BY DEF ReceiptsOrdered, Ordered
<1>5. CASE Quiet
  BY <1>3, <1>4, <1>5 DEF Quiet, Residing
<1>6. ASSUME NEW ids, Removes(ids)
      PROVE  Ordered(d, messages'[d.id])
  BY <1>3, <1>4, <1>6 DEF Removes, Without, Residing
<1>7. ASSUME NEW c \in Caller, Produce(c)
      PROVE  Ordered(d, messages'[d.id])
  <2>1. d.id # pending[c].id
    BY <1>4, <1>7, CallerIsProcess DEF Produce, CallsSane, Executing
  <2>2. QED
    BY <1>3, <1>4, <1>7, <2>1 DEF Produce, InsertMessage, Residing
<1>8. ASSUME NEW c \in Caller, Consume(c)
      PROVE  Ordered(d, messages'[d.id])
  <2>1. PICK id \in DOMAIN messages, new \in Delivery :
          /\ messages[id].status = Ready
          /\ messages[id].processAfter <= new.receipt
          /\ new.id = id
          /\ new.attempt = messages[id].attempts + 1
          /\ messages' = ClaimMessage(messages, id, new.receipt)
          /\ deliveries' = deliveries \cup {new}
          /\ residence' = residence
    BY <1>8, ClaimStep
  <2>2. /\ messages[id].attempts \in Nat
        /\ messages[id].processAfter \in Int
        /\ new.receipt \in Int
    BY <1>1, <2>1 DEF Row, Delivery
  <2>3. /\ messages'[id].status = Processing
        /\ messages'[id].attempts = messages[id].attempts + 1
        /\ messages'[id].startedAt = new.receipt
    BY <1>1, <2>1 DEF ClaimMessage, Claimed, Row
  <2>4. CASE d.id # id
    BY <1>3, <1>4, <2>1, <2>4 DEF ClaimMessage, Residing
  <2>5. CASE d = new
    BY <2>1, <2>2, <2>3, <2>5 DEF Ordered, Ready, Processing
  <2>6. CASE d.id = id /\ d # new
    <3>1. d \in deliveries /\ Residing(d)
      BY <1>4, <2>1, <2>6 DEF Residing
    <3>2. /\ d.attempt <= messages[id].attempts
          /\ Apart(d.receipt, messages[id].processAfter)
      BY <1>3, <2>1, <2>6, <3>1 DEF Ordered
    <3>3. d.attempt \in Nat /\ d.receipt \in Int
      BY <1>2, <3>1 DEF Delivery
    <3>4. Apart(d.receipt, new.receipt)
      BY <2>1, <2>2, <3>2, <3>3, ApartFacts
    <3>5. QED
      BY <2>2, <2>3, <2>6, <3>2, <3>3, <3>4 DEF Ordered, Ready, Processing
  <2>7. QED
    BY <2>4, <2>5, <2>6
<1>9. ASSUME NEW c \in Caller, Nack(c)
      PROVE  Ordered(d, messages'[d.id])
  <2> DEFINE call == pending[c]
             row == messages[d.id]
  <2>1. /\ call.now \in Int
        /\ call.receipt \in Int
        /\ call.receipt <= call.now
    BY <1>1, <1>9, PendingType, CallerIsProcess DEF Nack, CallsSane, Executing
  <2>2. /\ d \in deliveries /\ Residing(d)
        /\ d.id \in DOMAIN messages
    BY <1>4, <1>9 DEF Nack, UpdateMessageOnConsumingFailure, Residing
  <2>3. CASE d.id \notin Fenced(messages, call.id, call.queue, call.receipt)
    BY <1>3, <1>9, <2>2, <2>3 DEF Nack, UpdateMessageOnConsumingFailure
  <2>4. CASE d.id \in Fenced(messages, call.id, call.queue, call.receipt)
    <3>1. row.status = Processing /\ row.startedAt = call.receipt
      BY <2>4 DEF Fenced
    <3>2. messages'[d.id] = Nacked(row, call.now)
      BY <1>9, <2>2, <2>4 DEF Nack, UpdateMessageOnConsumingFailure
    <3>3. /\ messages'[d.id].attempts = row.attempts
          /\ messages'[d.id].status # Processing
          /\ messages'[d.id].processAfter = call.now + BackoffDelay(row.attempts)
      BY <1>1, <2>2, <3>2 DEF Nacked, Row, StatusAfterFailure,
                              Ready, Failed, Processing
    <3>4. row.attempts \in Nat /\ BackoffDelay(row.attempts) \in Nat
      BY <1>1, <2>2, BackoffPositive DEF Row
    <3>5. Apart(row.startedAt, messages'[d.id].processAfter)
      <4>1. Apart(call.receipt, call.receipt + BackoffDelay(row.attempts))
        BY <2>1, <3>4, ApartFacts
      <4>2. /\ call.receipt + BackoffDelay(row.attempts)
                 <= call.now + BackoffDelay(row.attempts)
            /\ call.receipt + BackoffDelay(row.attempts) \in Int
            /\ call.now + BackoffDelay(row.attempts) \in Int
        BY <2>1, <3>4
      <4>3. QED
        BY <2>1, <3>1, <3>3, <4>1, <4>2, ApartFacts
    <3>6. QED
      BY <1>1, <1>2, <1>3, <2>1, <2>2, <3>1, <3>3, <3>4, <3>5, ReleasedOrdered
  <2>5. QED
    BY <2>3, <2>4
<1>10. CASE RecoverStale
  <2> DEFINE now == pending["stale"].now
             row == messages[d.id]
  <2>1. now \in Int
    BY <1>1, <1>10, PendingType, CallerIsProcess DEF RecoverStale, Job
  <2>2. /\ d \in deliveries /\ Residing(d)
        /\ d.id \in DOMAIN messages
    BY <1>4, <1>10 DEF RecoverStale, UpdateStaleMessages, Residing
  <2>3. CASE d.id \notin Stale(messages, now)
    BY <1>3, <1>10, <2>2, <2>3 DEF RecoverStale, UpdateStaleMessages
  <2>4. CASE d.id \in Stale(messages, now)
    <3>1. row.status = Processing /\ row.startedAt < now - MaxProcessingTime
      BY <2>4 DEF Stale
    <3>2. row.startedAt \in Int
      BY <1>1, <2>2, <3>1 DEF RowSane, Row
    <3>3. messages'[d.id] = Recovered(row, now)
      BY <1>10, <2>2, <2>4 DEF RecoverStale, UpdateStaleMessages
    <3>4. /\ messages'[d.id].attempts = row.attempts
          /\ messages'[d.id].status # Processing
          /\ messages'[d.id].processAfter = now
      BY <1>1, <2>2, <3>3 DEF Recovered, Row, StatusAfterFailure,
                              Ready, Failed, Processing
    <3>5. Apart(row.startedAt, now)
      BY <2>1, <3>1, <3>2, RepoAssumption DEF Apart
    <3>6. QED
      BY <1>1, <1>2, <1>3, <2>1, <2>2, <3>1, <3>2, <3>4, <3>5, ReleasedOrdered
  <2>5. QED
    BY <2>3, <2>4
<1>11. ASSUME NEW ids, Moved(ids), deliveries' = deliveries,
              DOMAIN messages' = DOMAIN messages,
              \A i \in DOMAIN messages \ ids : messages'[i] = messages[i]
       PROVE  Ordered(d, messages'[d.id])
  <2>1. d.id \notin ids
    BY <1>1, <1>2, <1>4, <1>11 DEF Moved, Residing
  <2>2. QED
    BY <1>1, <1>3, <1>4, <1>11, <2>1 DEF Moved, Residing
<1>12. ASSUME NEW ids, NEW reason, NEW now, DeadLetters(ids, reason, now)
       PROVE  Ordered(d, messages'[d.id])
  BY <1>11, <1>12 DEF DeadLetters
<1>13. ASSUME NEW ids, NEW queue, NEW now, Requeues(ids, queue, now)
       PROVE  Ordered(d, messages'[d.id])
  BY <1>11, <1>13 DEF Requeues
<1>14. QED
  BY StepKinds, <1>5, <1>6, <1>7, <1>8, <1>9, <1>10, <1>12, <1>13 DEF StepKind

LEMMA GapStep ==
  ASSUME TypeOK, CallsSane, HistorySane, ReceiptsOrdered, RedeliveryGap,
         [Next]_vars
  PROVE  RedeliveryGap'
<1>1. CASE deliveries' = deliveries
  BY <1>1 DEF RedeliveryGap
<1>2. ASSUME NEW c \in Caller, Consume(c)
      PROVE  RedeliveryGap'
  <2>1. PICK id \in DOMAIN messages, new \in Delivery :
          /\ messages[id].status = Ready
          /\ messages[id].processAfter <= new.receipt
          /\ new.id = id
          /\ new.residence = residence[id]
          /\ new.attempt = messages[id].attempts + 1
          /\ deliveries' = deliveries \cup {new}
    BY <1>2, ClaimStep
  <2>2. /\ messages[id].attempts \in Nat
        /\ messages[id].processAfter \in Int
        /\ new.receipt \in Int
    BY <2>1 DEF TypeOK, Row, Delivery
  <2>3. ASSUME NEW d \in deliveries, d.id = id, d.residence = new.residence
        PROVE  d.attempt < new.attempt /\ Apart(d.receipt, new.receipt)
    <3>1. /\ d.attempt <= messages[id].attempts
          /\ Apart(d.receipt, messages[id].processAfter)
      BY <2>1, <2>3 DEF ReceiptsOrdered, Residing
    <3>2. d.attempt \in Nat /\ d.receipt \in Int
      BY DEF TypeOK, Delivery
    <3>3. QED
      BY <2>1, <2>2, <3>1, <3>2, ApartFacts
  <2>4. \A d \in deliveries \cup {new} : d.attempt \in Nat
    BY DEF TypeOK, Delivery
  <2>5. ASSUME NEW d \in deliveries \cup {new}, NEW e \in deliveries \cup {new},
               d.id = e.id, d.residence = e.residence, d.attempt < e.attempt
        PROVE  Apart(d.receipt, e.receipt)
    <3>1. CASE d \in deliveries /\ e \in deliveries
      BY <2>5, <3>1 DEF RedeliveryGap
    <3>2. CASE d \in deliveries /\ e = new
      BY <2>1, <2>3, <2>5, <3>2
    <3>3. CASE d = new
      <4>1. e \in deliveries
        BY <2>4, <2>5, <3>3
      <4>2. e.attempt < d.attempt
        BY <2>1, <2>3, <2>5, <3>3, <4>1
      <4>3. QED
        BY <2>4, <2>5, <4>2
    <3>4. QED
      BY <3>1, <3>2, <3>3
  <2>6. QED
    BY <2>1, <2>5 DEF RedeliveryGap
<1>3. QED
  BY StepKinds, <1>1, <1>2
     DEF StepKind, Quiet, Removes, Produce, Nack, RecoverStale, DeadLetters,
         Requeues

LEMMA DistinctStep ==
  ASSUME TypeOK, CallsSane, ReceiptsOrdered, AttemptsDistinct, [Next]_vars
  PROVE  AttemptsDistinct'
<1>1. CASE deliveries' = deliveries
  BY <1>1 DEF AttemptsDistinct
<1>2. ASSUME NEW c \in Caller, Consume(c)
      PROVE  AttemptsDistinct'
  <2>1. PICK id \in DOMAIN messages, new \in Delivery :
          /\ new.id = id
          /\ new.residence = residence[id]
          /\ new.attempt = messages[id].attempts + 1
          /\ deliveries' = deliveries \cup {new}
    BY <1>2, ClaimStep
  <2>2. messages[id].attempts \in Nat
    BY <2>1 DEF TypeOK, Row
  <2>3. ASSUME NEW d \in deliveries, d.id = id, d.residence = new.residence
        PROVE  d.attempt # new.attempt
    <3>1. d.attempt <= messages[id].attempts
      BY <2>1, <2>3 DEF ReceiptsOrdered, Residing
    <3>2. d.attempt \in Nat
      BY DEF TypeOK, Delivery
    <3>3. QED
      BY <2>1, <2>2, <3>1, <3>2
  <2>4. QED
    BY <2>1, <2>3 DEF AttemptsDistinct
<1>3. QED
  BY StepKinds, <1>1, <1>2
     DEF StepKind, Quiet, Removes, Produce, Nack, RecoverStale, DeadLetters,
         Requeues

\* Every attempt of the current stay, and no other, has its delivery.
LEMMA CountStep ==
  ASSUME TypeOK, CallsSane, HistorySane, AttemptsCountClaims, [Next]_vars
  PROVE  AttemptsCountClaims'
<1> DEFINE Attempts(i) == {d.attempt : d \in CurrentDeliveries(i)}
<1>1. /\ residence \in [Id -> Nat]
      /\ \A i \in DOMAIN messages : i \in Id /\ messages[i] \in Row
      /\ \A d \in deliveries : /\ d.id \in Id
                               /\ d.residence \in Nat
                               /\ d.residence <= residence[d.id]
      /\ \A i \in DOMAIN messages : Attempts(i) = 1 .. messages[i].attempts
  BY DEF TypeOK, Delivery, HistorySane, AttemptsCountClaims
<1>2. SUFFICES ASSUME NEW i \in DOMAIN messages'
               PROVE  Attempts(i)' = 1 .. messages'[i].attempts
  BY DEF AttemptsCountClaims
<1>3. ASSUME i \in DOMAIN messages, deliveries' = deliveries,
             residence'[i] = residence[i],
             messages'[i].attempts = messages[i].attempts
      PROVE  Attempts(i)' = 1 .. messages'[i].attempts
  <2>1. CurrentDeliveries(i)' = CurrentDeliveries(i)
    BY <1>3 DEF CurrentDeliveries, Residing
  <2>2. QED
    BY <1>1, <1>3, <2>1
<1>4. ASSUME CurrentDeliveries(i)' = {}, messages'[i].attempts = 0
      PROVE  Attempts(i)' = 1 .. messages'[i].attempts
  BY <1>4
<1>5. CASE Quiet
  BY <1>2, <1>3, <1>5 DEF Quiet
<1>6. ASSUME NEW ids, Removes(ids)
      PROVE  Attempts(i)' = 1 .. messages'[i].attempts
  BY <1>2, <1>3, <1>6 DEF Removes, Without
<1>7. ASSUME NEW c \in Caller, Produce(c)
      PROVE  Attempts(i)' = 1 .. messages'[i].attempts
  <2>1. CASE i = pending[c].id
    <3>1. \A d \in deliveries : d.id # i
      BY <1>7, <2>1, CallerIsProcess DEF Produce, CallsSane, Executing
    <3>2. CurrentDeliveries(i)' = {}
      BY <1>7, <3>1 DEF Produce, CurrentDeliveries
    <3>3. messages'[i].attempts = 0
      BY <1>2, <1>7, <2>1 DEF Produce, InsertMessage, NewRow
    <3>4. QED
      BY <1>4, <3>2, <3>3
  <2>2. CASE i # pending[c].id
    BY <1>2, <1>3, <1>7, <2>2 DEF Produce, InsertMessage
  <2>3. QED
    BY <2>1, <2>2
<1>8. ASSUME NEW c \in Caller, Consume(c)
      PROVE  Attempts(i)' = 1 .. messages'[i].attempts
  <2>1. PICK id \in DOMAIN messages, new \in Delivery :
          /\ new.id = id
          /\ new.residence = residence[id]
          /\ new.attempt = messages[id].attempts + 1
          /\ messages' = ClaimMessage(messages, id, new.receipt)
          /\ deliveries' = deliveries \cup {new}
          /\ residence' = residence
    BY <1>8, ClaimStep
  <2>2. i \in DOMAIN messages /\ messages[i].attempts \in Nat
    BY <1>1, <1>2, <2>1 DEF ClaimMessage, Row
  <2>3. CASE i # id
    <3>1. CurrentDeliveries(i)' = CurrentDeliveries(i)
      BY <2>1, <2>3 DEF CurrentDeliveries, Residing
    <3>2. messages'[i] = messages[i]
      BY <2>1, <2>2, <2>3 DEF ClaimMessage
    <3>3. QED
      BY <1>1, <2>2, <3>1, <3>2
  <2>4. CASE i = id
    <3>1. CurrentDeliveries(i)' = CurrentDeliveries(i) \cup {new}
      BY <2>1, <2>4 DEF CurrentDeliveries, Residing
    <3>2. Attempts(i)' = Attempts(i) \cup {messages[i].attempts + 1}
      BY <2>1, <2>4, <3>1
    <3>3. messages'[i].attempts = messages[i].attempts + 1
      BY <1>1, <2>1, <2>2, <2>4 DEF ClaimMessage, Claimed, Row
    <3>4. Attempts(i) = 1 .. messages[i].attempts
      BY <1>1, <2>2
    <3>5. ASSUME NEW n \in Nat
          PROVE  1 .. (n + 1) = (1 .. n) \cup {n + 1}
      OBVIOUS
    <3> HIDE DEF Attempts
    <3>6. Attempts(i)' = 1 .. (messages[i].attempts + 1)
      BY <2>2, <3>2, <3>4, <3>5
    <3>7. QED
      BY <3>3, <3>6
  <2>5. QED
    BY <2>3, <2>4
<1>9. ASSUME NEW c \in Caller, Nack(c)
      PROVE  Attempts(i)' = 1 .. messages'[i].attempts
  <2>1. i \in DOMAIN messages
    BY <1>2, <1>9 DEF Nack, UpdateMessageOnConsumingFailure
  <2>2. messages'[i].attempts = messages[i].attempts
    BY <1>1, <1>9, <2>1
       DEF Nack, UpdateMessageOnConsumingFailure, Nacked, Row
  <2>3. QED
    BY <1>3, <1>9, <2>1, <2>2 DEF Nack
<1>10. CASE RecoverStale
  <2>1. i \in DOMAIN messages
    BY <1>2, <1>10 DEF RecoverStale, UpdateStaleMessages
  <2>2. messages'[i].attempts = messages[i].attempts
    BY <1>1, <1>10, <2>1 DEF RecoverStale, UpdateStaleMessages, Recovered, Row
  <2>3. QED
    BY <1>3, <1>10, <2>1, <2>2 DEF RecoverStale
<1>11. ASSUME NEW ids, Moved(ids), deliveries' = deliveries,
              DOMAIN messages' = DOMAIN messages,
              \A j \in DOMAIN messages \ ids : messages'[j] = messages[j],
              \A j \in DOMAIN messages \cap ids : messages'[j].attempts = 0
       PROVE  Attempts(i)' = 1 .. messages'[i].attempts
  <2>1. CASE i \in ids
    <3>1. residence'[i] = residence[i] + 1
      BY <1>1, <1>2, <1>11, <2>1 DEF Moved
    <3>2. CurrentDeliveries(i)' = {}
      BY <1>1, <1>2, <1>11, <3>1 DEF CurrentDeliveries, Residing
    <3>3. QED
      BY <1>2, <1>4, <1>11, <2>1, <3>2
  <2>2. CASE i \notin ids
    BY <1>1, <1>2, <1>3, <1>11, <2>2 DEF Moved
  <2>3. QED
    BY <2>1, <2>2
<1>12. ASSUME NEW ids, NEW reason, NEW now, DeadLetters(ids, reason, now)
       PROVE  Attempts(i)' = 1 .. messages'[i].attempts
  BY <1>1, <1>11, <1>12 DEF DeadLetters, MovedToDlq, Row
<1>13. ASSUME NEW ids, NEW queue, NEW now, Requeues(ids, queue, now)
       PROVE  Attempts(i)' = 1 .. messages'[i].attempts
  BY <1>1, <1>11, <1>13 DEF Requeues, Requeued, Row
<1>14. QED
  BY StepKinds, <1>5, <1>6, <1>7, <1>8, <1>9, <1>10, <1>12, <1>13 DEF StepKind

-----------------------------------------------------------------------------
(***************************************************************************)
(* The waiting operations stay sane.                                       *)
(***************************************************************************)
\* Operations leave the queue of waiters.
Drains ==
  /\ \A p \in Process : pending'[p] \in {pending[p], Idle}
  /\ DOMAIN messages' \subseteq DOMAIN messages
  /\ \A d \in deliveries' : d \in deliveries \/ d.id \in DOMAIN messages

\* What CallsSane asks of a call that p is about to wait with.
Fresh(p, call) ==
  /\ call.now = clock
  /\ call.op = "produce" =>
       /\ call.queue.suffixes = 0
       /\ call.id \in produced' \ DOMAIN messages
       /\ \A d \in deliveries : d.id # call.id
       /\ \A other \in Process \ {p} :
            pending[other].op = "produce" => pending[other].id # call.id
  /\ call.op \in {"requeue", "requeueAll"} => call.queue.suffixes = 1
  /\ call.op = "nack" => call.receipt <= call.now

LEMMA DrainStep ==
  ASSUME TypeOK, CallsSane, [Next]_vars, Drains
  PROVE  CallsSane'
<1>1. /\ clock \in Nat /\ clock' \in Nat /\ clock <= clock'
      /\ produced \subseteq produced'
  BY Growth DEF TypeOK
<1>2. \A p \in Process : pending[p] # Idle => pending[p].now \in Int
  BY DEF TypeOK, Call
<1>3. SUFFICES ASSUME NEW p \in Process
               PROVE  LET call == pending'[p] IN
                      /\ call # Idle => call.now <= clock'
                      /\ call.op = "produce" =>
                           /\ call.queue.suffixes = 0
                           /\ call.id \in produced' \ DOMAIN messages'
                           /\ \A d \in deliveries' : d.id # call.id
                           /\ \A other \in Process \ {p} :
                                pending'[other].op = "produce" =>
                                  pending'[other].id # call.id
                      /\ call.op \in {"requeue", "requeueAll"} =>
                           call.queue.suffixes = 1
                      /\ call.op = "nack" => call.receipt <= call.now
  BY DEF CallsSane
<1>4. CASE pending'[p] = Idle
  BY <1>4 DEF Idle
<1>5. CASE pending'[p] = pending[p] /\ pending[p] # Idle
  <2>1. pending[p].now <= clock'
    BY <1>1, <1>2, <1>5 DEF CallsSane
  <2>2. ASSUME pending[p].op = "produce", NEW other \in Process \ {p},
               pending'[other].op = "produce"
        PROVE  pending'[other].id # pending[p].id
    BY <2>2 DEF Drains, CallsSane, Idle
  <2>3. ASSUME pending[p].op = "produce"
        PROVE  /\ pending[p].id \in produced' \ DOMAIN messages'
               /\ \A d \in deliveries' : d.id # pending[p].id
    BY <1>1, <2>3 DEF Drains, CallsSane
  <2>4. QED
    BY <1>5, <2>1, <2>2, <2>3 DEF CallsSane
<1>6. QED
  BY <1>4, <1>5 DEF Drains

LEMMA BeginStep ==
  ASSUME TypeOK, CallsSane, [Next]_vars,
         NEW p \in Process, NEW call, Begin(p, call), Fresh(p, call),
         UNCHANGED <<clock, messages, deliveries>>
  PROVE  CallsSane'
<1>1. clock \in Nat /\ produced \subseteq produced'
  BY Growth DEF TypeOK
<1>2. /\ pending'[p] = call
      /\ \A q \in Process \ {p} : pending'[q] = pending[q]
  BY DEF Begin, TypeOK
<1>3. SUFFICES ASSUME NEW q \in Process
               PROVE  LET new == pending'[q] IN
                      /\ new # Idle => new.now <= clock
                      /\ new.op = "produce" =>
                           /\ new.queue.suffixes = 0
                           /\ new.id \in produced' \ DOMAIN messages
                           /\ \A d \in deliveries : d.id # new.id
                           /\ \A other \in Process \ {q} :
                                pending'[other].op = "produce" =>
                                  pending'[other].id # new.id
                      /\ new.op \in {"requeue", "requeueAll"} =>
                           new.queue.suffixes = 1
                      /\ new.op = "nack" => new.receipt <= new.now
  BY DEF CallsSane
<1>4. CASE q = p
  BY <1>1, <1>2, <1>4 DEF Fresh
<1>5. CASE q # p
  <2>1. pending'[q] = pending[q]
    BY <1>2, <1>5
  <2>2. ASSUME pending[q].op = "produce", NEW other \in Process \ {q},
               pending'[other].op = "produce"
        PROVE  pending'[other].id # pending[q].id
    <3>1. CASE other = p
      BY <1>2, <1>5, <2>2, <3>1 DEF Fresh
    <3>2. CASE other # p
      BY <1>2, <2>2, <3>2 DEF CallsSane
    <3>3. QED
      BY <3>1, <3>2
  <2>3. QED
    BY <1>1, <2>1, <2>2 DEF CallsSane
<1>6. QED
  BY <1>4, <1>5

LEMMA CallsStep ==
  ASSUME TypeOK, CallsSane, HistorySane, [Next]_vars
  PROVE  CallsSane'
<1>1. pending \in [Process -> Call]
  BY DEF TypeOK
<1>2. ASSUME NEW p \in Process, Finish(p)
      PROVE  \A q \in Process : pending'[q] \in {pending[q], Idle}
  BY <1>1, <1>2 DEF Finish
<1>3. DlqName \subseteq {queue \in Queue : queue.suffixes = 1}
  BY DEF DlqName, QueueName, HasDlqSuffix, Queue
<1>4. CASE UNCHANGED vars
  BY <1>4, DrainStep DEF vars, Drains
<1>5. ASSUME NEW c \in Caller, ApiRequest(c)
      PROVE  CallsSane'
  <2>1. c \in Process
    BY CallerIsProcess
  <2>2. CASE BeginProduce(c)
    <3>1. PICK id \in Id \ produced, queue \in QueueName, delay \in RequestedDelays :
            /\ ~ HasDlqSuffix(queue)
            /\ Begin(c, [op |-> "produce", id |-> id, queue |-> queue,
                         processAfter |-> clock + delay, now |-> clock])
            /\ produced' = produced \cup {id}
            /\ UNCHANGED <<clock, messages, deliveries>>
      BY <2>2 DEF BeginProduce
    <3> DEFINE call == [op |-> "produce", id |-> id, queue |-> queue,
                        processAfter |-> clock + delay, now |-> clock]
    <3>2. queue.suffixes = 0
      BY <3>1 DEF HasDlqSuffix, QueueName
    <3>3. /\ \A d \in deliveries : d.id # id
          /\ id \notin DOMAIN messages
      BY DEF HistorySane
    <3>4. \A other \in Process \ {c} :
            pending[other].op = "produce" => pending[other].id # id
      BY DEF CallsSane
    <3>5. Fresh(c, call)
      BY <3>1, <3>2, <3>3, <3>4 DEF Fresh
    <3>6. QED
      BY <2>1, <3>1, <3>5, BeginStep
  <2>3. CASE BeginConsume(c)
    <3>1. PICK queue \in QueueName :
            Begin(c, [op |-> "claim", queue |-> queue, now |-> clock])
      BY <2>3 DEF BeginConsume
    <3>2. Fresh(c, [op |-> "claim", queue |-> queue, now |-> clock])
      BY DEF Fresh
    <3>3. QED
      BY <2>1, <2>3, <3>1, <3>2, BeginStep DEF BeginConsume
  <2>4. CASE BeginNack(c)
    <3>1. PICK d \in Received :
            Begin(c, [op |-> "nack", id |-> d.id, queue |-> d.queue,
                      receipt |-> d.receipt, now |-> clock])
      BY <2>4 DEF BeginNack
    <3>2. Fresh(c, [op |-> "nack", id |-> d.id, queue |-> d.queue,
                    receipt |-> d.receipt, now |-> clock])
      BY DEF Fresh, Received, HistorySane
    <3>3. QED
      BY <2>1, <2>4, <3>1, <3>2, BeginStep DEF BeginNack
  <2>5. CASE Produce(c)
    <3>1. /\ pending[c].op = "produce"
          /\ pending'[c] = Idle
          /\ \A q \in Process \ {c} : pending'[q] = pending[q]
          /\ DOMAIN messages' = DOMAIN messages \cup {pending[c].id}
          /\ UNCHANGED <<clock, produced, deliveries>>
      BY <1>1, <2>1, <2>5
         DEF Produce, Finish, InsertMessage, Executing
    <3>2. \A q \in Process \ {c} :
            pending[q].op = "produce" => pending[q].id # pending[c].id
      BY <2>1, <3>1 DEF CallsSane
    <3>3. QED
      BY <2>1, <3>1, <3>2 DEF CallsSane, Idle
  <2>6. CASE Consume(c)
    <3>1. PICK id \in DOMAIN messages, new \in Delivery :
            /\ new.id = id
            /\ messages' = ClaimMessage(messages, id, new.receipt)
            /\ deliveries' = deliveries \cup {new}
      BY <2>6, ClaimStep
    <3>2. DOMAIN messages' = DOMAIN messages
      BY <3>1 DEF ClaimMessage
    <3>3. QED
      BY <1>2, <2>1, <2>6, <3>1, <3>2, DrainStep DEF Consume, Drains
  <2>7. CASE ConsumeNothing(c)
    BY <1>2, <2>1, <2>7, DrainStep DEF ConsumeNothing, Drains
  <2>8. CASE Ack(c)
    BY <2>8, DrainStep DEF Ack, DeleteMessageOnAck, Without, Drains
  <2>9. CASE Nack(c)
    BY <1>2, <2>1, <2>9, DrainStep
       DEF Nack, UpdateMessageOnConsumingFailure, Drains
  <2>10. QED
    BY <1>5, <2>2, <2>3, <2>4, <2>5, <2>6, <2>7, <2>8, <2>9 DEF ApiRequest
<1>6. ASSUME NEW c \in Caller, AdminRequest(c)
      PROVE  CallsSane'
  <2>1. c \in Process
    BY CallerIsProcess
  <2>2. CASE BeginRequeueAll(c)
    <3>1. PICK queue \in DlqName :
            Begin(c, [op |-> "requeueAll", queue |-> queue, now |-> clock])
      BY <2>2 DEF BeginRequeueAll
    <3>2. Fresh(c, [op |-> "requeueAll", queue |-> queue, now |-> clock])
      BY <1>3 DEF Fresh
    <3>3. QED
      BY <2>1, <2>2, <3>1, <3>2, BeginStep DEF BeginRequeueAll
  <2>3. CASE BeginRequeue(c)
    <3>1. PICK id \in produced, queue \in DlqName :
            Begin(c, [op |-> "requeue", id |-> id, queue |-> queue,
                      now |-> clock])
      BY <2>3 DEF BeginRequeue
    <3>2. Fresh(c, [op |-> "requeue", id |-> id, queue |-> queue,
                    now |-> clock])
      BY <1>3 DEF Fresh
    <3>3. QED
      BY <2>1, <2>3, <3>1, <3>2, BeginStep DEF BeginRequeue
  <2>4. CASE RequeueAll(c)
    BY <1>2, <2>1, <2>4, DrainStep DEF RequeueAll, RequeueDlqMessages, Drains
  <2>5. CASE Requeue(c)
    BY <1>2, <2>1, <2>5, DrainStep DEF Requeue, RequeueDlqMessage, Drains
  <2>6. CASE DeleteOne(c) \/ DeleteAll(c)
    BY <2>6, DrainStep DEF DeleteOne, DeleteMessageFromDlq, DeleteAll,
       DeleteAllMessagesFromQueue, Without, Drains
  <2>7. QED
    BY <1>6, <2>2, <2>3, <2>4, <2>5, <2>6 DEF AdminRequest
<1>7. CASE Jobs
  <2>1. ASSUME NEW j \in Job, BeginTick(j)
        PROVE  CallsSane'
    <3>1. Fresh(j, [op |-> j, now |-> clock])
      BY DEF Fresh, Job
    <3>2. QED
      BY <2>1, <3>1, BeginStep, CallerIsProcess DEF BeginTick
  <2>2. CASE RecoverStale
    BY <1>2, <2>2, DrainStep, CallerIsProcess
       DEF RecoverStale, UpdateStaleMessages, Drains, Job
  <2>3. CASE MoveFailed
    BY <1>2, <2>3, DrainStep, CallerIsProcess
       DEF MoveFailed, UpdateFailedMessagesForRegularQueues, Drains, Job
  <2>4. CASE DeleteFailed
    BY <2>4, DrainStep DEF DeleteFailed, DeleteFailedMessagesFromDlq, Without,
       Drains
  <2>5. CASE MoveExpired
    <3>1. Finish("expired") \/ UNCHANGED pending
      BY <2>5 DEF MoveExpired
    <3>2. QED
      BY <1>2, <2>5, <3>1, DrainStep, CallerIsProcess
         DEF MoveExpired, MoveExpiredBatch, Drains, Job
  <2>6. CASE DeleteExpired
    <3>1. Finish("expiredDlq") \/ UNCHANGED pending
      BY <2>6 DEF DeleteExpired
    <3>2. QED
      BY <1>2, <2>6, <3>1, DrainStep, CallerIsProcess
         DEF DeleteExpired, DeleteExpiredBatch, Without, Drains, Job
  <2>7. QED
    BY <1>7, <2>1, <2>2, <2>3, <2>4, <2>5, <2>6 DEF Jobs
<1>8. CASE Environment
  <2>1. CASE Tick
    BY <2>1, DrainStep DEF Tick, Drains
  <2>2. CASE Restart
    BY <2>2, DrainStep DEF Restart, Drains
  <2>3. ASSUME NEW p \in Process, Abandon(p)
        PROVE  CallsSane'
    BY <1>2, <2>3, DrainStep DEF Abandon, Drains
  <2>4. QED
    BY <1>8, <2>1, <2>2, <2>3 DEF Environment
<1>9. QED
  BY <1>4, <1>5, <1>6, <1>7, <1>8 DEF Next

-----------------------------------------------------------------------------
(***************************************************************************)
(* Deadlines.                                                              *)
(***************************************************************************)
\* Time passes only in Tick; any other step lets operations go, or lets one
\* begin to wait with the current time.
StartsNow(call) ==
  /\ call.now = clock
  /\ call.op = "produce" => clock - PastBuffer <= call.processAfter

LEMMA WaitingSteps ==
  ASSUME TypeOK, [Next]_vars
  PROVE  \/ Tick
         \/ /\ clock' = clock
            /\ \A p \in Process : \/ pending'[p] \in {pending[p], Idle}
                                  \/ StartsNow(pending'[p])
<1> DEFINE Goal == /\ clock' = clock
                   /\ \A p \in Process : \/ pending'[p] \in {pending[p], Idle}
                                         \/ StartsNow(pending'[p])
<1>1. pending \in [Process -> Call]
  BY DEF TypeOK
<1>2. ASSUME NEW p \in Process, clock' = clock,
             Finish(p) \/ UNCHANGED pending
      PROVE  Goal
  BY <1>1, <1>2 DEF Finish
<1>3. ASSUME NEW p \in Process, NEW call, StartsNow(call), clock' = clock,
             Begin(p, call)
      PROVE  Goal
  BY <1>1, <1>3 DEF Begin
<1> HIDE DEF Goal
<1>4. CASE UNCHANGED vars
  BY <1>4 DEF vars, Goal
<1>5. ASSUME NEW c \in Caller, ApiRequest(c)
      PROVE  Goal
  <2>1. c \in Process
    BY CallerIsProcess
  <2>2. CASE BeginProduce(c)
    <3>1. PICK id \in Id \ produced, queue \in QueueName,
              delay \in RequestedDelays :
            /\ delay >= -PastBuffer
            /\ Begin(c, [op |-> "produce", id |-> id, queue |-> queue,
                      processAfter |-> clock + delay, now |-> clock])
      BY <2>2 DEF BeginProduce
    <3>2. clock - PastBuffer <= clock + delay
      BY <3>1, BrokerAssumption DEF TypeOK
    <3>3. QED
      BY <1>3, <2>1, <2>2, <3>1, <3>2 DEF BeginProduce, StartsNow
  <2>3. CASE BeginConsume(c)
    <3>1. PICK queue : Begin(c, [op |-> "claim", queue |-> queue, now |-> clock])
      BY <2>3 DEF BeginConsume
    <3>2. QED
      BY <1>3, <2>1, <2>3, <3>1 DEF BeginConsume, StartsNow
  <2>4. CASE BeginNack(c)
    <3>1. PICK d : Begin(c, [op |-> "nack", id |-> d.id, queue |-> d.queue,
                             receipt |-> d.receipt, now |-> clock])
      BY <2>4 DEF BeginNack
    <3>2. QED
      BY <1>3, <2>1, <2>4, <3>1 DEF BeginNack, StartsNow
  <2>5. CASE Produce(c) \/ Consume(c) \/ ConsumeNothing(c) \/ Ack(c) \/ Nack(c)
    BY <1>2, <2>1, <2>5 DEF Produce, Consume, ConsumeNothing, Ack, Nack
  <2>6. QED
    BY <1>5, <2>2, <2>3, <2>4, <2>5 DEF ApiRequest
<1>6. ASSUME NEW c \in Caller, AdminRequest(c)
      PROVE  Goal
  <2>1. c \in Process
    BY CallerIsProcess
  <2>2. CASE BeginRequeueAll(c)
    <3>1. PICK queue :
            Begin(c, [op |-> "requeueAll", queue |-> queue, now |-> clock])
      BY <2>2 DEF BeginRequeueAll
    <3>2. QED
      BY <1>3, <2>1, <2>2, <3>1 DEF BeginRequeueAll, StartsNow
  <2>3. CASE BeginRequeue(c)
    <3>1. PICK id, queue :
            Begin(c, [op |-> "requeue", id |-> id, queue |-> queue,
                      now |-> clock])
      BY <2>3 DEF BeginRequeue
    <3>2. QED
      BY <1>3, <2>1, <2>3, <3>1 DEF BeginRequeue, StartsNow
  <2>4. CASE RequeueAll(c) \/ Requeue(c) \/ DeleteOne(c) \/ DeleteAll(c)
    BY <1>2, <2>1, <2>4 DEF RequeueAll, Requeue, DeleteOne, DeleteAll
  <2>5. QED
    BY <1>6, <2>2, <2>3, <2>4 DEF AdminRequest
<1>7. ASSUME Jobs
      PROVE  Goal
  <2>1. ASSUME NEW j \in Job, BeginTick(j)
        PROVE  Goal
    BY <1>3, <2>1, CallerIsProcess DEF BeginTick, StartsNow, Job
  <2>2. CASE RecoverStale \/ MoveFailed \/ DeleteFailed \/ MoveExpired
             \/ DeleteExpired
    <3>1. {"stale", "failed", "expired", "expiredDlq"} \subseteq Process
      BY CallerIsProcess DEF Job
    <3>2. CASE RecoverStale
      BY <1>2, <3>1, <3>2 DEF RecoverStale
    <3>3. CASE MoveFailed
      BY <1>2, <3>1, <3>3 DEF MoveFailed
    <3>4. CASE DeleteFailed
      BY <1>2, <3>1, <3>4 DEF DeleteFailed
    <3>5. CASE MoveExpired
      BY <1>2, <3>1, <3>5 DEF MoveExpired
    <3>6. CASE DeleteExpired
      BY <1>2, <3>1, <3>6 DEF DeleteExpired
    <3>7. QED
      BY <2>2, <3>2, <3>3, <3>4, <3>5, <3>6
  <2>3. QED
    BY <1>7, <2>1, <2>2 DEF Jobs
<1>8. ASSUME Environment
      PROVE  Tick \/ Goal
  <2>1. CASE Restart
    BY <2>1 DEF Restart, Goal
  <2>2. ASSUME NEW p \in Process, Abandon(p)
        PROVE  Goal
    BY <1>2, <2>2 DEF Abandon
  <2>3. QED
    BY <1>8, <2>1, <2>2 DEF Environment
<1>9. QED
  BY <1>4, <1>5, <1>6, <1>7, <1>8 DEF Next, Goal

LEMMA DeadlinesHold == Spec => []WaitsBounded
<1>1. Init => WaitsBounded
  BY DEF Init, WaitsBounded, InFlight
<1>2. ASSUME TypeOK, WaitsBounded, [Next]_vars
      PROVE  WaitsBounded'
  <2>1. /\ clock \in Nat
        /\ \A p \in Process : /\ Timeout(p) \in Nat
                              /\ pending[p] # Idle => pending[p].now \in Int
    BY <1>2, BrokerAssumption DEF TypeOK, Call, Timeout
  <2>2. SUFFICES ASSUME NEW p \in Process, pending'[p] # Idle
                 PROVE  clock' <= pending'[p].now + Timeout(p)
    BY DEF WaitsBounded, InFlight, Timeout
  <2>3. CASE Tick
    BY <2>1, <2>2, <2>3 DEF Tick, InFlight
  <2>4. CASE clock' = clock /\ pending'[p] = pending[p]
    BY <1>2, <2>2, <2>4 DEF WaitsBounded, InFlight
  <2>5. CASE clock' = clock /\ StartsNow(pending'[p])
    BY <2>1, <2>5 DEF StartsNow
  <2>6. QED
    BY <1>2, <2>2, <2>3, <2>4, <2>5, WaitingSteps
<1>3. QED
  BY <1>1, <1>2, TypeCorrect, PTL DEF Spec

\* A message that waits to be inserted has a time that was not long past when it
\* was checked.
DelaysAccepted ==
  \A p \in Process :
    pending[p].op = "produce" =>
      pending[p].now - PastBuffer <= pending[p].processAfter

LEMMA DelaysHold == Spec => []DelaysAccepted
<1>1. Init => DelaysAccepted
  BY DEF Init, DelaysAccepted, Idle
<1>2. ASSUME TypeOK, DelaysAccepted, [Next]_vars
      PROVE  DelaysAccepted'
  BY <1>2, WaitingSteps DEF Tick, DelaysAccepted, StartsNow, Idle
<1>3. QED
  BY <1>1, <1>2, TypeCorrect, PTL DEF Spec

-----------------------------------------------------------------------------
(***************************************************************************)
(* The inductive invariant.  The fence follows from the rest: a delivery   *)
(* that is not the latest is apart from the receipt in the row.            *)
(***************************************************************************)
Core ==
  /\ CallsSane
  /\ HistorySane
  /\ TableSane(messages)
  /\ AttemptsCountClaims
  /\ ReceiptsOrdered
  /\ AttemptsDistinct
  /\ RedeliveryGap

LEMMA CoreIsIInv == TypeOK /\ WaitsBounded /\ Core => IInv
<1> SUFFICES ASSUME TypeOK, WaitsBounded, Core
             PROVE  IInv
  OBVIOUS
<1>1. AttemptsWithinBudget /\ DlqConsistent
  BY DEF Core, TableSane, RowSane, AttemptsWithinBudget, DlqConsistent
<1>2. ASSUME NEW i \in DOMAIN messages, messages[i].status = Processing,
             NEW d \in CurrentDeliveries(i)
      PROVE  d.receipt = messages[i].startedAt <=>
               d.attempt = messages[i].attempts
  <2>1. /\ d \in deliveries /\ d.id = i /\ Residing(d)
        /\ d.receipt \in Int
    BY <1>2 DEF CurrentDeliveries, TypeOK, Delivery
  <2>2. messages[i].startedAt \in Int
    BY <1>2 DEF Core, TableSane, RowSane, TypeOK, Row
  <2>3. IF d.attempt = messages[i].attempts
        THEN d.receipt = messages[i].startedAt
        ELSE Apart(d.receipt, messages[i].startedAt)
    BY <1>2, <2>1 DEF Core, ReceiptsOrdered
  <2>4. Apart(d.receipt, messages[i].startedAt) =>
          d.receipt < messages[i].startedAt
    BY <2>1, <2>2, ApartFacts
  <2>5. QED
    BY <2>1, <2>2, <2>3, <2>4
<1>3. FenceIsLatestDelivery
  BY <1>2 DEF Core, TableSane, RowSane, FenceIsLatestDelivery
<1>4. QED
  BY <1>1, <1>3 DEF Core, IInv

LEMMA CoreHolds == Spec => []Core
<1>1. Init => Core
  BY DEF Init, Core, CallsSane, HistorySane, TableSane, AttemptsCountClaims,
         ReceiptsOrdered, AttemptsDistinct, RedeliveryGap, Idle
<1>2. ASSUME TypeOK, Core, [Next]_vars
      PROVE  Core'
  BY <1>2, CallsStep, HistoryStep, RowsStep, CountStep, ReceiptsStep,
      DistinctStep, GapStep
     DEF Core
<1>3. QED
  BY <1>1, <1>2, TypeCorrect, PTL DEF Spec

\* The inductive invariant of the broker holds in every reachable state, for
\* any number of messages, callers, attempts, delays, TTLs and batch sizes.
THEOREM InvariantHolds == Spec => []IInv
BY TypeCorrect, DeadlinesHold, CoreHolds, CoreIsIInv, PTL

\* A claimable message always has an attempt left and a failed one has none:
\* the retry budget is neither exceeded nor stuck, whatever the interleaving.
THEOREM BudgetHolds == Spec => []AttemptsWithinBudget
<1>1. IInv => AttemptsWithinBudget
  BY DEF IInv
<1>2. QED
  BY <1>1, InvariantHolds, PTL

\* The column `attempts` is the number of claims since the last move between
\* queue and DLQ, one delivery for each.
THEOREM AttemptsHold == Spec => []AttemptsCountClaims
<1>1. IInv => AttemptsCountClaims
  BY DEF IInv
<1>2. QED
  BY <1>1, InvariantHolds, PTL

\* is_dlq, the suffix of the queue name and failure_reason agree in every row.
THEOREM DlqHolds == Spec => []DlqConsistent
<1>1. IInv => DlqConsistent
  BY DEF IInv
<1>2. QED
  BY <1>1, InvariantHolds, PTL

\* The receipt in a row is the receipt of the latest delivery and of no earlier
\* one of the same stay: the fence of ack and nack lets no late answer through.
THEOREM FenceHolds == Spec => []FenceIsLatestDelivery
<1>1. IInv => FenceIsLatestDelivery
  BY DEF IInv
<1>2. QED
  BY <1>1, InvariantHolds, PTL

\* Two deliveries of a message in one stay in a queue are at least a backoff
\* delay or a stale window apart, although claims, nacks and stale recovery
\* all use times captured before they waited for the connection.
THEOREM GapHolds == Spec => []RedeliveryGap
<1>1. IInv => RedeliveryGap
  BY DEF IInv
<1>2. QED
  BY <1>1, InvariantHolds, PTL

-----------------------------------------------------------------------------
(***************************************************************************)
(* What a step may never do.                                               *)
(***************************************************************************)
\* Rows leave the table only in the five kinds of step named here.
LEMMA OnlyDeletesRemove ==
  ASSUME [Next]_vars
  PROVE  \/ DOMAIN messages \subseteq DOMAIN messages'
         \/ \E c \in Caller : Ack(c) \/ DeleteOne(c) \/ DeleteAll(c)
         \/ DeleteFailed
         \/ DeleteExpired
<1> DEFINE Keeps == DOMAIN messages \subseteq DOMAIN messages'
<1>1. CASE UNCHANGED vars
  BY <1>1 DEF vars
<1>2. ASSUME NEW c \in Caller, ApiRequest(c)
      PROVE  Keeps \/ Ack(c)
  <2>1. CASE BeginProduce(c) \/ BeginConsume(c) \/ ConsumeNothing(c) \/ BeginNack(c)
    BY <2>1 DEF BeginProduce, BeginConsume, ConsumeNothing, BeginNack
  <2>2. CASE Produce(c)
    BY <2>2 DEF Produce, InsertMessage
  <2>3. CASE Consume(c)
    BY <2>3 DEF Consume, ClaimMessage
  <2>4. CASE Nack(c)
    BY <2>4 DEF Nack, UpdateMessageOnConsumingFailure
  <2>5. QED
    BY <1>2, <2>1, <2>2, <2>3, <2>4 DEF ApiRequest
<1>3. ASSUME NEW c \in Caller, AdminRequest(c)
      PROVE  Keeps \/ DeleteOne(c) \/ DeleteAll(c)
  BY <1>3 DEF AdminRequest, BeginRequeueAll, BeginRequeue, RequeueAll, Requeue,
              RequeueDlqMessages, RequeueDlqMessage
<1>4. ASSUME Jobs
      PROVE  Keeps \/ DeleteFailed \/ DeleteExpired
  BY <1>4 DEF Jobs, BeginTick, RecoverStale, UpdateStaleMessages, MoveFailed,
              UpdateFailedMessagesForRegularQueues, MoveExpired, MoveExpiredBatch
<1>5. ASSUME Environment
      PROVE  Keeps
  BY <1>5 DEF Environment, Tick, Restart, Abandon
<1>6. QED
  BY <1>1, <1>2, <1>3, <1>4, <1>5 DEF Next

\* No message of a regular queue is ever lost: only the ack of a consumer that
\* holds the current receipt removes it, although admins and jobs delete rows
\* in DLQs with statements that partly look at the name and partly at is_dlq.
THEOREM RegularMessagesKept == Spec => RegularLeavesByAck
<1>1. ASSUME IInv, [Next]_vars
      PROVE  RemovesAcked
  <2>1. SUFFICES ASSUME NEW i \in DOMAIN messages \ DOMAIN messages',
                        ~ messages[i].isDlq
                 PROVE  \E d \in Received : /\ d.id = i
                                            /\ d.queue = messages[i].queue
                                            /\ d.receipt = messages[i].startedAt
    BY DEF RemovesAcked
  <2>2. messages[i].queue.suffixes = 0
    BY <1>1, <2>1 DEF IInv, DlqConsistent
  <2>3. ASSUME NEW c \in Caller, Ack(c)
        PROVE  \E d \in Received : /\ d.id = i
                                   /\ d.queue = messages[i].queue
                                   /\ d.receipt = messages[i].startedAt
    <3>1. PICK d \in Received :
            messages' = DeleteMessageOnAck(messages, d.id, d.queue, d.receipt)
      BY <2>3 DEF Ack
    <3>2. i \in Fenced(messages, d.id, d.queue, d.receipt)
      BY <2>1, <3>1 DEF DeleteMessageOnAck, Without
    <3>3. QED
      BY <3>2 DEF Fenced
  <2>4. ASSUME NEW c \in Caller, DeleteOne(c)
        PROVE  FALSE
    BY <2>1, <2>4 DEF DeleteOne, DeleteMessageFromDlq, Without
  <2>5. ASSUME NEW c \in Caller, DeleteAll(c)
        PROVE  FALSE
    <3>1. PICK queue \in DlqName :
            messages' = DeleteAllMessagesFromQueue(messages, queue)
      BY <2>5 DEF DeleteAll
    <3>2. messages[i].queue = queue
      BY <2>1, <3>1 DEF DeleteAllMessagesFromQueue, Without
    <3>3. QED
      BY <2>2, <3>1, <3>2 DEF DlqName, HasDlqSuffix
  <2>6. CASE DeleteFailed
    BY <2>1, <2>6 DEF DeleteFailed, DeleteFailedMessagesFromDlq, FailedRows,
                      Without
  <2>7. CASE DeleteExpired
    <3>1. PICK batch \in Batches(Expired(messages, TRUE,
                                         pending["expiredDlq"].now)) :
            messages' = DeleteExpiredBatch(messages, batch)
      BY <2>7 DEF DeleteExpired
    <3>2. i \in Expired(messages, TRUE, pending["expiredDlq"].now)
      BY <2>1, <3>1 DEF DeleteExpiredBatch, Without, Batches
    <3>3. QED
      BY <2>1, <3>2 DEF Expired
  <2>8. QED
    BY <1>1, <2>1, <2>3, <2>4, <2>5, <2>6, <2>7, OnlyDeletesRemove
<1>2. QED
  BY <1>1, InvariantHolds, PTL DEF Spec, RegularLeavesByAck

\* Until its stale window is over, a message that is being processed is out of
\* reach of everything but a nack with its receipt.
THEOREM LeasesKept == Spec => LeaseRespected
<1>1. ASSUME IInv, [Next]_vars
      PROVE  KeepsLeases
  <2>1. SUFFICES ASSUME NEW i \in DOMAIN messages \cap DOMAIN messages',
                        messages[i].status = Processing,
                        messages'[i] # messages[i],
                        clock <= messages[i].startedAt + MaxProcessingTime
                 PROVE  \E c \in Caller :
                          /\ pending[c].op = "nack"
                          /\ pending[c].id = i
                          /\ pending[c].receipt = messages[i].startedAt
                          /\ Finished(c)
    BY DEF KeepsLeases
  <2>2. /\ TypeOK /\ CallsSane
        /\ messages[i].startedAt \in Int
    BY <1>1, <2>1 DEF IInv, FenceIsLatestDelivery, TypeOK, Row
  <2>3. ASSUME NEW ids, Removes(ids)
        PROVE  FALSE
    BY <2>1, <2>3 DEF Removes, Without
  <2>4. ASSUME NEW c \in Caller, Produce(c)
        PROVE  FALSE
    <3>1. pending[c].id \notin DOMAIN messages
      BY <2>2, <2>4, CallerIsProcess DEF Produce, CallsSane, Executing
    <3>2. QED
      BY <2>1, <2>4, <3>1 DEF Produce, InsertMessage
  <2>5. ASSUME NEW c \in Caller, Consume(c)
        PROVE  FALSE
    <3>1. PICK id \in DOMAIN messages :
            /\ messages[id].status = Ready
            /\ \E now : messages' = ClaimMessage(messages, id, now)
      BY <2>2, <2>5, ClaimStep
    <3>2. i # id
      BY <2>1, <3>1 DEF Ready, Processing
    <3>3. QED
      BY <2>1, <3>1, <3>2 DEF ClaimMessage
  <2>6. ASSUME NEW c \in Caller, Nack(c)
        PROVE  /\ pending[c].op = "nack"
               /\ pending[c].id = i
               /\ pending[c].receipt = messages[i].startedAt
               /\ Finished(c)
    <3>1. i \in Fenced(messages, pending[c].id, pending[c].queue,
                       pending[c].receipt)
      BY <2>1, <2>6 DEF Nack, UpdateMessageOnConsumingFailure
    <3>2. Finished(c)
      BY <2>2, <2>6, CallerIsProcess
         DEF Nack, Finish, Finished, Executing, Idle, TypeOK
    <3>3. QED
      BY <2>6, <3>1, <3>2 DEF Nack, Executing, Fenced
  <2>7. CASE RecoverStale
    <3>1. i \in Stale(messages, pending["stale"].now)
      BY <2>1, <2>7 DEF RecoverStale, UpdateStaleMessages
    <3>2. pending["stale"].now \in Int /\ pending["stale"].now <= clock
      BY <2>2, <2>7, CallerIsProcess, PendingType
         DEF RecoverStale, CallsSane, Executing, Idle, TypeOK, Job
    <3>3. messages[i].startedAt < pending["stale"].now - MaxProcessingTime
      BY <3>1 DEF Stale
    <3>4. clock \in Nat /\ MaxProcessingTime \in Nat
      BY <2>2, RepoAssumption DEF TypeOK
    <3>5. QED
      BY <2>1, <2>2, <3>2, <3>3, <3>4
  <2>8. ASSUME NEW ids, NEW reason, NEW now, DeadLetters(ids, reason, now)
        PROVE  FALSE
    BY <2>1, <2>8 DEF DeadLetters
  <2>9. ASSUME NEW ids, NEW queue, NEW now, Requeues(ids, queue, now)
        PROVE  FALSE
    BY <2>1, <2>9 DEF Requeues
  <2>10. QED
    BY <1>1, <2>1, <2>2, <2>3, <2>4, <2>5, <2>6, <2>7, <2>8, <2>9, StepKinds
       DEF StepKind, Quiet
<1>2. QED
  BY <1>1, InvariantHolds, PTL DEF Spec, LeaseRespected

\* The three ways in which a message changes its queue.
LEMMA MoveSteps ==
  ASSUME TypeOK, CallsSane, [Next]_vars,
         NEW i \in DOMAIN messages \cap DOMAIN messages',
         messages'[i].queue # messages[i].queue
  PROVE  \/ /\ Executing("failed", "failed")
            /\ i \in FailedRows(messages, FALSE)
            /\ messages'[i] = MovedToDlq(messages[i], MaxAttemptsReached,
                                         pending["failed"].now)
         \/ /\ Executing("expired", "expired")
            /\ i \in Expired(messages, FALSE, pending["expired"].now)
            /\ messages'[i] = MovedToDlq(messages[i], MessageExpired,
                                         pending["expired"].now)
         \/ \E c \in Caller :
              /\ Executing(c, "requeue") \/ Executing(c, "requeueAll")
              /\ i \in Requeueable(messages, pending[c].queue)
              /\ messages'[i] = Requeued(messages[i], pending[c].queue,
                                         pending[c].now)
<1> DEFINE Unmoved == messages'[i].queue = messages[i].queue
<1>1. \A j \in DOMAIN messages : messages[j] \in Row
  BY DEF TypeOK
<1>2. CASE UNCHANGED vars
  BY <1>2 DEF vars
<1>3. ASSUME NEW c \in Caller, ApiRequest(c)
      PROVE  Unmoved
  <2>1. CASE BeginProduce(c) \/ BeginConsume(c) \/ ConsumeNothing(c) \/ BeginNack(c)
    BY <2>1 DEF BeginProduce, BeginConsume, ConsumeNothing, BeginNack
  <2>2. CASE Produce(c)
    <3>1. pending[c].id \notin DOMAIN messages
      BY <2>2, CallerIsProcess DEF Produce, CallsSane, Executing
    <3>2. QED
      BY <2>2, <3>1 DEF Produce, InsertMessage
  <2>3. CASE Consume(c)
    <3>1. PICK id : messages' = ClaimMessage(messages, id, pending[c].now)
      BY <2>3 DEF Consume
    <3>2. Claimed(messages[i], pending[c].now).queue = messages[i].queue
      BY <1>1 DEF Claimed, Row
    <3>3. QED
      BY <3>1, <3>2 DEF ClaimMessage
  <2>4. CASE Ack(c)
    BY <2>4 DEF Ack, DeleteMessageOnAck, Without
  <2>5. CASE Nack(c)
    BY <1>1, <2>5 DEF Nack, UpdateMessageOnConsumingFailure, Nacked, Row
  <2>6. QED
    BY <1>3, <2>1, <2>2, <2>3, <2>4, <2>5 DEF ApiRequest
<1>4. ASSUME NEW c \in Caller, AdminRequest(c)
      PROVE  \/ Unmoved
             \/ /\ Executing(c, "requeue") \/ Executing(c, "requeueAll")
                /\ i \in Requeueable(messages, pending[c].queue)
                /\ messages'[i] = Requeued(messages[i], pending[c].queue,
                                           pending[c].now)
  <2>1. CASE BeginRequeueAll(c) \/ BeginRequeue(c)
    BY <2>1 DEF BeginRequeueAll, BeginRequeue
  <2>2. CASE RequeueAll(c)
    BY <2>2 DEF RequeueAll, RequeueDlqMessages
  <2>3. CASE Requeue(c)
    BY <2>3 DEF Requeue, RequeueDlqMessage
  <2>4. CASE DeleteOne(c) \/ DeleteAll(c)
    BY <2>4 DEF DeleteOne, DeleteMessageFromDlq, DeleteAll,
       DeleteAllMessagesFromQueue, Without
  <2>5. QED
    BY <1>4, <2>1, <2>2, <2>3, <2>4 DEF AdminRequest
<1>5. ASSUME Jobs
      PROVE  \/ Unmoved
             \/ /\ Executing("failed", "failed")
                /\ i \in FailedRows(messages, FALSE)
                /\ messages'[i] = MovedToDlq(messages[i], MaxAttemptsReached,
                                             pending["failed"].now)
             \/ /\ Executing("expired", "expired")
                /\ i \in Expired(messages, FALSE, pending["expired"].now)
                /\ messages'[i] = MovedToDlq(messages[i], MessageExpired,
                                             pending["expired"].now)
  <2>1. ASSUME NEW j \in Job, BeginTick(j)
        PROVE  Unmoved
    BY <2>1 DEF BeginTick
  <2>2. CASE RecoverStale
    BY <1>1, <2>2 DEF RecoverStale, UpdateStaleMessages, Recovered, Row
  <2>3. CASE MoveFailed
    BY <2>3 DEF MoveFailed, UpdateFailedMessagesForRegularQueues
  <2>4. CASE DeleteFailed
    BY <2>4 DEF DeleteFailed, DeleteFailedMessagesFromDlq, Without
  <2>5. CASE MoveExpired
    BY <2>5 DEF MoveExpired, MoveExpiredBatch, Batches
  <2>6. CASE DeleteExpired
    BY <2>6 DEF DeleteExpired, DeleteExpiredBatch, Without
  <2>7. QED
    BY <1>5, <2>1, <2>2, <2>3, <2>4, <2>5, <2>6 DEF Jobs
<1>6. ASSUME Environment
      PROVE  Unmoved
  BY <1>6 DEF Environment, Tick, Restart, Abandon
<1>7. QED
  BY <1>2, <1>3, <1>4, <1>5, <1>6 DEF Next

\* However long a move waited for the connection, the row it writes is claimable
\* and lives at least until now.
THEOREM MovesGrantLife == Spec => MoveGrantsLife
<1>1. ASSUME IInv, [Next]_vars
      PROVE  GrantsLife
  <2>1. SUFFICES ASSUME NEW i \in DOMAIN messages \cap DOMAIN messages',
                        messages'[i].queue # messages[i].queue
                 PROVE  /\ messages'[i].status = Ready
                        /\ messages'[i].processAfter <= clock
                        /\ clock <= messages'[i].expiresAfter
    BY DEF GrantsLife
  <2>2. /\ TypeOK /\ CallsSane /\ WaitsBounded
        /\ messages[i] \in Row
        /\ clock \in Nat
    BY <1>1 DEF IInv, TypeOK
  <2>3. ASSUME NEW p \in Process, pending[p] # Idle
        PROVE  /\ pending[p].now \in Int
               /\ pending[p].now <= clock
               /\ clock <= pending[p].now + Timeout(p)
    BY <2>2, <2>3 DEF TypeOK, Call, CallsSane, WaitsBounded, InFlight
  <2>4. ASSUME NEW j \in {"failed", "expired"}, NEW reason,
               Executing(j, j),
               messages'[i] = MovedToDlq(messages[i], reason, pending[j].now)
        PROVE  /\ messages'[i].status = Ready
               /\ messages'[i].processAfter <= clock
               /\ clock <= messages'[i].expiresAfter
    <3>1. j \in Process /\ j \in Job /\ pending[j] # Idle
      BY <2>4, CallerIsProcess DEF Job, Executing, Idle
    <3>2. /\ messages'[i].status = Ready
          /\ messages'[i].processAfter = pending[j].now
          /\ messages'[i].expiresAfter = pending[j].now + DlqTtl
      BY <2>2, <2>4 DEF MovedToDlq, Row
    <3>3. /\ Timeout(j) = JobTimeout[j]
          /\ JobTimeout[j] \in Nat
          /\ JobTimeout[j] < DlqTtl
      BY <3>1, BrokerAssumption DEF Timeout
    <3>4. DlqTtl \in Nat
      BY RepoAssumption
    <3>5. QED
      BY <2>2, <2>3, <3>1, <3>2, <3>3, <3>4
  <2>5. ASSUME NEW c \in Caller,
               Executing(c, "requeue") \/ Executing(c, "requeueAll"),
               messages'[i] = Requeued(messages[i], pending[c].queue,
                                       pending[c].now)
        PROVE  /\ messages'[i].status = Ready
               /\ messages'[i].processAfter <= clock
               /\ clock <= messages'[i].expiresAfter
    <3>1. c \in Process /\ c \notin Job /\ pending[c] # Idle
      BY <2>5, CallerIsProcess, BrokerAssumption DEF Executing, Idle
    <3>2. /\ messages'[i].status = Ready
          /\ messages'[i].processAfter = pending[c].now
          /\ messages'[i].expiresAfter = pending[c].now + QueueTtl
      BY <2>2, <2>5 DEF Requeued, Row
    <3>3. /\ Timeout(c) = RequestTimeout
          /\ RequestTimeout \in Nat
          /\ RequestTimeout < QueueTtl
          /\ QueueTtl \in Nat
      BY <3>1, BrokerAssumption, RepoAssumption DEF Timeout
    <3>4. QED
      BY <2>2, <2>3, <3>1, <3>2, <3>3
  <2>6. QED
    BY <1>1, <2>1, <2>2, <2>4, <2>5, MoveSteps
<1>2. QED
  BY <1>1, InvariantHolds, PTL DEF Spec, MoveGrantsLife

\* The number of current deliveries of a message is its number of attempts.
LEMMA CountedDeliveries ==
  ASSUME TypeOK, AttemptsCountClaims, AttemptsDistinct,
         NEW i \in DOMAIN messages
  PROVE  Cardinality(CurrentDeliveries(i)) = messages[i].attempts
<1> DEFINE n == messages[i].attempts
           S == CurrentDeliveries(i)
           f == [k \in 1 .. n |-> CHOOSE d \in S : d.attempt = k]
<1>1. n \in Nat
  BY DEF TypeOK, Row
<1>2. {d.attempt : d \in S} = 1 .. n
  BY DEF AttemptsCountClaims
<1>3. \A d, e \in S : d.attempt = e.attempt => d = e
  BY DEF CurrentDeliveries, Residing, AttemptsDistinct
<1>4. \A k \in 1 .. n : f[k] \in S /\ f[k].attempt = k
  <2>1. SUFFICES ASSUME NEW k \in 1 .. n
                 PROVE  f[k] \in S /\ f[k].attempt = k
    OBVIOUS
  <2>2. \E d \in S : d.attempt = k
    BY <1>2
  <2>3. QED
    BY <2>2
<1>5. \A d \in S : d.attempt \in 1 .. n /\ f[d.attempt] = d
  BY <1>2, <1>3, <1>4
<1> HIDE DEF S
<1>6. f \in Bijection(1 .. n, S)
  <2>1. f \in [1 .. n -> S]
    BY <1>4
  <2>2. IsInjective(f)
    BY <1>4 DEF IsInjective
  <2>3. \A d \in S : \E k \in 1 .. n : f[k] = d
    BY <1>5
  <2>4. QED
    BY <2>1, <2>2, <2>3 DEF Bijection, Injection, Surjection
<1>7. ExistsBijection(1 .. n, S)
  BY <1>6 DEF ExistsBijection
<1>8. Cardinality(S) = n
  BY <1>1, <1>7, FS_CountingElements
<1>9. QED
  BY <1>8 DEF S

\* A message is dead-lettered as given up only after MaxDeliveryAttempts claims
\* in its queue, as expired only after its time, and comes back only to the
\* queue it left.
THEOREM MovesAreJustified == Spec => MovesJustified
<1>1. ASSUME IInv, [Next]_vars
      PROVE  JustifiesMoves
  <2>1. SUFFICES ASSUME NEW i \in DOMAIN messages \cap DOMAIN messages',
                        messages'[i].queue # messages[i].queue
                 PROVE  IF messages'[i].isDlq
                        THEN /\ ~ messages[i].isDlq
                             /\ \/ /\ messages'[i].reason = MaxAttemptsReached
                                   /\ Cardinality(CurrentDeliveries(i))
                                        = MaxDeliveryAttempts
                                \/ /\ messages'[i].reason = MessageExpired
                                   /\ messages[i].expiresAfter < clock
                        ELSE messages'[i].queue.base = messages[i].queue.base
    BY DEF JustifiesMoves
  <2>2. /\ TypeOK /\ CallsSane
        /\ messages[i] \in Row
        /\ clock \in Nat
    BY <1>1 DEF IInv, TypeOK
  <2>3. CASE /\ i \in FailedRows(messages, FALSE)
             /\ messages'[i] = MovedToDlq(messages[i], MaxAttemptsReached,
                                          pending["failed"].now)
    <3>1. /\ messages[i].status = Failed
          /\ ~ messages[i].isDlq
      BY <2>3 DEF FailedRows
    <3>2. /\ messages'[i].isDlq
          /\ messages'[i].reason = MaxAttemptsReached
      BY <2>2, <2>3 DEF MovedToDlq, Row
    <3>3. Cardinality(CurrentDeliveries(i)) = MaxDeliveryAttempts
      BY <1>1, <3>1, CountedDeliveries DEF IInv, AttemptsWithinBudget
    <3>4. QED
      BY <3>1, <3>2, <3>3
  <2>4. CASE /\ Executing("expired", "expired")
             /\ i \in Expired(messages, FALSE, pending["expired"].now)
             /\ messages'[i] = MovedToDlq(messages[i], MessageExpired,
                                          pending["expired"].now)
    <3>1. /\ pending["expired"].now \in Int
          /\ pending["expired"].now <= clock
      BY <2>2, <2>4, CallerIsProcess, PendingType
         DEF CallsSane, Executing, Idle, TypeOK, Job
    <3>2. /\ messages[i].expiresAfter < pending["expired"].now
          /\ ~ messages[i].isDlq
      BY <2>4 DEF Expired
    <3>3. messages[i].expiresAfter \in Int
      BY <2>2 DEF Row
    <3>4. /\ messages'[i].isDlq
          /\ messages'[i].reason = MessageExpired
      BY <2>2, <2>4 DEF MovedToDlq, Row
    <3>5. QED
      BY <2>2, <3>1, <3>2, <3>3, <3>4
  <2>5. ASSUME NEW c \in Caller,
               i \in Requeueable(messages, pending[c].queue),
               messages'[i] = Requeued(messages[i], pending[c].queue,
                                       pending[c].now)
        PROVE  /\ ~ messages'[i].isDlq
               /\ messages'[i].queue.base = messages[i].queue.base
    <3>1. messages[i].queue = pending[c].queue
      BY <2>5 DEF Requeueable
    <3>2. /\ messages'[i].queue = TrimDlqSuffix(messages[i].queue)
          /\ ~ messages'[i].isDlq
      BY <2>2, <2>5, <3>1 DEF Requeued, Row
    <3>3. messages[i].queue \in Queue
      BY <2>2 DEF Row
    <3>4. QED
      BY <3>2, <3>3 DEF TrimDlqSuffix, Queue
  <2>6. QED
    BY <1>1, <2>1, <2>2, <2>3, <2>4, <2>5, MoveSteps
<1>2. QED
  BY <1>1, InvariantHolds, PTL DEF Spec, MovesJustified

-----------------------------------------------------------------------------
(***************************************************************************)
(* Sweeps end.                                                             *)
(***************************************************************************)
\* A row that a step writes is not yet expired now, is being processed, or was.
LEMMA WrittenRows ==
  ASSUME IInv, DelaysAccepted, GrantsLife, [Next]_vars,
         NEW i \in DOMAIN messages'
  PROVE  \/ i \in DOMAIN messages /\ messages[i].status = Processing
         \/ messages'[i].status = Processing
         \/ clock <= messages'[i].expiresAfter
         \/ i \in DOMAIN messages /\ messages'[i] = messages[i]
<1> DEFINE Goal == \/ i \in DOMAIN messages /\ messages[i].status = Processing
                   \/ messages'[i].status = Processing
                   \/ clock <= messages'[i].expiresAfter
                   \/ i \in DOMAIN messages /\ messages'[i] = messages[i]
<1>1. /\ TypeOK /\ CallsSane /\ WaitsBounded
      /\ pending \in [Process -> Call] /\ clock \in Nat
      /\ \A k \in DOMAIN messages : messages[k] \in Row
  BY DEF IInv, TypeOK
<1>2. CASE Quiet
  BY <1>2 DEF Quiet
<1>3. ASSUME NEW ids, Removes(ids)
      PROVE  Goal
  BY <1>3 DEF Removes, Without
<1>4. ASSUME NEW c \in Caller, Produce(c)
      PROVE  Goal
  <2>1. /\ c \in Process /\ c \notin Job
        /\ pending[c].op = "produce" /\ pending[c] # Idle
    BY <1>4, CallerIsProcess, BrokerAssumption DEF Produce, Executing, Idle
  <2>2. pending[c].now \in Int /\ pending[c].processAfter \in Int
    BY <1>1, <2>1, PendingType DEF Executing
  <2>3. /\ clock <= pending[c].now + RequestTimeout
        /\ pending[c].now - PastBuffer <= pending[c].processAfter
    BY <1>1, <2>1 DEF WaitsBounded, InFlight, Timeout, DelaysAccepted
  <2>4. clock <= pending[c].processAfter + QueueTtl
    <3>1. /\ clock \in Int /\ RequestTimeout \in Int /\ PastBuffer \in Int
          /\ QueueTtl \in Int /\ RequestTimeout + PastBuffer < QueueTtl
      BY <1>1, BrokerAssumption, RepoAssumption
    <3>2. QED
      BY <2>2, <2>3, <3>1
  <2>5. CASE i = pending[c].id
    BY <1>4, <2>4, <2>5 DEF Produce, InsertMessage, NewRow
  <2>6. CASE i # pending[c].id
    BY <1>4, <2>6 DEF Produce, InsertMessage
  <2>7. QED
    BY <2>5, <2>6
<1>5. ASSUME NEW c \in Caller, Consume(c)
      PROVE  Goal
  <2>1. PICK id, now : messages' = ClaimMessage(messages, id, now)
    BY <1>5 DEF Consume
  <2>2. i \in DOMAIN messages => Claimed(messages[i], now).status = Processing
    BY <1>1 DEF Claimed, Row
  <2>3. QED
    BY <2>1, <2>2 DEF ClaimMessage
<1>6. ASSUME NEW c \in Caller, Nack(c)
      PROVE  Goal
  BY <1>6 DEF Nack, UpdateMessageOnConsumingFailure, Fenced
<1>7. CASE RecoverStale
  BY <1>7 DEF RecoverStale, UpdateStaleMessages, Stale
<1>8. ASSUME NEW ids, NEW reason \in Reason, NEW now \in Int,
             DeadLetters(ids, reason, now)
      PROVE  Goal
  <2>1. i \in DOMAIN messages
    BY <1>8 DEF DeadLetters
  <2>2. MovedToDlq(messages[i], reason, now).queue # messages[i].queue
    <3>1. /\ messages[i].queue \in Queue
          /\ MovedToDlq(messages[i], reason, now).queue
               = AppendDlqSuffix(messages[i].queue)
      BY <1>1, <2>1 DEF MovedToDlq, Row, Queue
    <3>2. QED
      BY <3>1 DEF AppendDlqSuffix, Queue
  <2>3. QED
    BY <1>8, <2>1, <2>2 DEF DeadLetters, GrantsLife
<1>9. ASSUME NEW ids, NEW queue \in Queue, NEW now \in Int,
             Requeues(ids, queue, now)
      PROVE  Goal
  <2>1. i \in DOMAIN messages
    BY <1>9 DEF Requeues
  <2>2. ASSUME i \in ids
        PROVE  Requeued(messages[i], queue, now).queue # messages[i].queue
    <3>1. /\ messages[i].queue = queue /\ queue.suffixes = 1
          /\ Requeued(messages[i], queue, now).queue = TrimDlqSuffix(queue)
      BY <1>1, <1>9, <2>1, <2>2 DEF Requeues, Requeued, Row
    <3>2. QED
      BY <3>1 DEF TrimDlqSuffix, HasDlqSuffix, Queue
  <2>3. QED
    BY <1>9, <2>1, <2>2 DEF Requeues, GrantsLife
<1>10. QED
  BY <1>1, <1>2, <1>3, <1>4, <1>5, <1>6, <1>7, <1>8, <1>9, StepKinds DEF StepKind

\* Nobody feeds a running sweep but with messages whose delivery ends: its
\* captured time is not after the expiry of any row written since
\* (repo.go:527, 735).
THEOREM SweepsDoShrink == Spec => SweepsShrink
<1>1. ASSUME IInv, IInv', DelaysAccepted, GrantsLife, [Next]_vars
      PROVE  ShrinksSweeps
  <2>1. SUFFICES ASSUME NEW j \in {"expired", "expiredDlq"}, pending[j] # Idle,
                        pending'[j] = pending[j],
                        NEW i \in Sweep(j)' \ Sweep(j)
                 PROVE  i \in DOMAIN messages /\ messages[i].status = Processing
    BY DEF ShrinksSweeps
  <2>2. /\ j \in Process /\ pending[j].now \in Int
        /\ pending[j].now <= clock /\ clock \in Nat
    BY <1>1, <2>1, CallerIsProcess DEF IInv, TypeOK, CallsSane, Call, Job
  <2>3. /\ i \in DOMAIN messages' /\ messages'[i].status # Processing
        /\ messages'[i].expiresAfter < pending[j].now
    BY <2>1 DEF Sweep, Expired, Ready, Failed, Processing
  <2>4. TypeOK'
    BY <1>1 DEF IInv
  <2>5. messages'[i].expiresAfter \in Int
    BY <2>3, <2>4 DEF TypeOK, Row
  <2>6. ~ (i \in DOMAIN messages /\ messages'[i] = messages[i])
    BY <2>1 DEF Sweep, Expired
  <2>7. QED
    BY <1>1, <2>2, <2>3, <2>5, <2>6, WrittenRows
<1>2. QED
  BY <1>1, InvariantHolds, DelaysHold, MovesGrantLife, PTL
     DEF Spec, MoveGrantsLife, SweepsShrink

-----------------------------------------------------------------------------
(***************************************************************************)
(* ForqBroker implements MessageLife: the initial states map to the        *)
(* initial state, and under the inductive invariant every step maps to a   *)
(* step of a life or to none.                                              *)
(***************************************************************************)
(***************************************************************************)
(* The three parts of the mapping, message by message.                     *)
(***************************************************************************)
Stays(i) ==
  /\ PlaceOf(i)' = PlaceOf(i)
  /\ (LeasedTo(i)' <=> LeasedTo(i))
  /\ TriesOf(i)' = TriesOf(i)

Goes(i, there) ==
  /\ PlaceOf(i)' = there
  /\ ~ LeasedTo(i)'
  /\ TriesOf(i)' = 0

LEMMA LeasedBoolean ==
  ASSUME NEW i \in Id
  PROVE  LeasedTo(i) \in BOOLEAN /\ LeasedTo(i)' \in BOOLEAN
BY DEF LeasedTo

LEMMA GoSteps ==
  ASSUME NEW S \in SUBSET Id, NEW there,
         \A i \in S : Goes(i, there),
         \A i \in Id \ S : Stays(i)
  PROVE  Life!Go(S, there)
<1>1. \A i \in Id : LeasedTo(i)' = IF i \in S THEN FALSE ELSE LeasedTo(i)
  BY LeasedBoolean DEF Goes, Stays
<1>2. \A i \in Id : /\ PlaceOf(i)' = IF i \in S THEN there ELSE PlaceOf(i)
                    /\ TriesOf(i)' = IF i \in S THEN 0 ELSE TriesOf(i)
  BY DEF Goes, Stays
<1>3. QED
  BY <1>1, <1>2 DEF Life!Go

LEMMA StutterSteps ==
  ASSUME \A i \in Id : Stays(i)
  PROVE  UNCHANGED Life!lifeVars
<1>1. \A i \in Id : LeasedTo(i)' = LeasedTo(i)
  BY LeasedBoolean DEF Stays
<1>2. QED
  BY <1>1 DEF Life!lifeVars, Stays

(***************************************************************************)
(* A step that lets no id enter maps rows to lives.                        *)
(***************************************************************************)
SameEntering == \A i \in Id : Entering(i)' = Entering(i)

LEMMA RowMeans ==
  ASSUME CallsSane, HistorySane, NEW i \in DOMAIN messages
  PROVE  /\ PlaceOf(i) = IF messages[i].isDlq THEN "dlq" ELSE "queue"
         /\ (LeasedTo(i) <=> messages[i].status = Processing)
         /\ TriesOf(i) = messages[i].attempts
BY DEF CallsSane, HistorySane, PlaceOf, Entering, LeasedTo, TriesOf

LEMMA TableSteps ==
  ASSUME CallsSane, HistorySane, SameEntering, produced' = produced,
         DOMAIN messages' \subseteq DOMAIN messages,
         NEW i \in Id
  PROVE  /\ i \notin DOMAIN messages => Stays(i)
         /\ i \in DOMAIN messages' /\ messages'[i] = messages[i] => Stays(i)
         /\ i \in DOMAIN messages \ DOMAIN messages' => Goes(i, "gone")
         /\ i \in DOMAIN messages' =>
              /\ PlaceOf(i)' = IF messages'[i].isDlq THEN "dlq" ELSE "queue"
              /\ (LeasedTo(i)' <=> messages'[i].status = Processing)
              /\ TriesOf(i)' = messages'[i].attempts
<1>1. Entering(i)' = Entering(i)
  BY DEF SameEntering
<1>2. i \in DOMAIN messages => i \in produced /\ ~ Entering(i)
  BY DEF CallsSane, HistorySane, Entering
<1>3. PlaceOf(i)' = IF i \notin produced \/ Entering(i) THEN "new"
                    ELSE IF i \notin DOMAIN messages' THEN "gone"
                    ELSE IF messages'[i].isDlq THEN "dlq" ELSE "queue"
  BY <1>1 DEF PlaceOf
<1>4. PlaceOf(i) = IF i \notin produced \/ Entering(i) THEN "new"
                   ELSE IF i \notin DOMAIN messages THEN "gone"
                   ELSE IF messages[i].isDlq THEN "dlq" ELSE "queue"
  BY DEF PlaceOf
<1>5. (LeasedTo(i)' <=> i \in DOMAIN messages' /\ messages'[i].status = Processing)
  BY DEF LeasedTo
<1>6. TriesOf(i)' = IF i \in DOMAIN messages' THEN messages'[i].attempts ELSE 0
  BY DEF TriesOf
<1>7. QED
  BY <1>2, <1>3, <1>4, <1>5, <1>6 DEF Stays, Goes, LeasedTo, TriesOf

\* Statements that rewrite the rows `ids` and leave the others alone.
LEMMA Rewrites ==
  ASSUME CallsSane, HistorySane, SameEntering, produced' = produced,
         NEW ids, NEW new,
         \A i \in ids : i \in DOMAIN messages,
         messages' = [i \in DOMAIN messages |->
                        IF i \in ids THEN new[i] ELSE messages[i]],
         DOMAIN messages \subseteq Id
  PROVE  /\ ids \in SUBSET Id
         /\ \A i \in Id \ ids : Stays(i)
         /\ \A i \in ids :
              /\ PlaceOf(i)' = IF new[i].isDlq THEN "dlq" ELSE "queue"
              /\ (LeasedTo(i)' <=> new[i].status = Processing)
              /\ TriesOf(i)' = new[i].attempts
<1>1. ids \in SUBSET Id
  OBVIOUS
<1>2. DOMAIN messages' = DOMAIN messages
  OBVIOUS
<1>3. \A i \in Id \ ids : Stays(i)
  BY <1>2, TableSteps
<1>4. \A i \in ids : messages'[i] = new[i]
  OBVIOUS
<1>5. QED
  BY <1>1, <1>2, <1>3, <1>4, TableSteps

-----------------------------------------------------------------------------
(***************************************************************************)
(* Each kind of step.                                                      *)
(***************************************************************************)
Sane == TypeOK /\ CallsSane /\ HistorySane /\ TableSane(messages)

LEMMA QuietStep ==
  ASSUME Sane, SameEntering, UNCHANGED <<messages, produced>>
  PROVE  UNCHANGED Life!lifeVars
BY TableSteps, StutterSteps DEF Sane

\* A lease that ends by a nack or by stale recovery.
LEMMA ReleaseStep ==
  ASSUME Sane, SameEntering, produced' = produced, NEW ids, NEW new,
         \A i \in ids : /\ i \in DOMAIN messages
                        /\ messages[i].status = Processing,
         \A i \in ids : /\ new[i].isDlq = messages[i].isDlq
                        /\ new[i].status # Processing
                        /\ new[i].attempts = messages[i].attempts,
         messages' = [i \in DOMAIN messages |->
                        IF i \in ids THEN new[i] ELSE messages[i]]
  PROVE  Life!Release(ids)
<1>1. /\ ids \in SUBSET Id
      /\ \A i \in Id \ ids : Stays(i)
      /\ \A i \in ids :
              /\ PlaceOf(i)' = IF new[i].isDlq THEN "dlq" ELSE "queue"
              /\ (LeasedTo(i)' <=> new[i].status = Processing)
              /\ TriesOf(i)' = new[i].attempts
  BY Rewrites DEF Sane, TypeOK
<1>2. \A i \in ids : /\ PlaceOf(i)' = PlaceOf(i)
                     /\ LeasedTo(i)
                     /\ ~ LeasedTo(i)'
                     /\ TriesOf(i)' = TriesOf(i)
  BY <1>1, RowMeans DEF Sane
<1>3. \A i \in Id \ ids : (LeasedTo(i)' <=> LeasedTo(i))
  BY <1>1 DEF Stays
<1>4. \A i \in Id : LeasedTo(i)' = (LeasedTo(i) /\ i \notin ids)
  BY <1>2, <1>3, LeasedBoolean
<1>5. [i \in Id |-> LeasedTo(i)]' = [i \in Id |-> LeasedTo(i) /\ i \notin ids]
  BY <1>4
<1>6. /\ [i \in Id |-> PlaceOf(i)]' = [i \in Id |-> PlaceOf(i)]
      /\ [i \in Id |-> TriesOf(i)]' = [i \in Id |-> TriesOf(i)]
  BY <1>1, <1>2 DEF Stays
<1>7. QED
  BY <1>1, <1>2, <1>5, <1>6 DEF Life!Release

LEMMA BuryStep ==
  ASSUME Sane, SameEntering, produced' = produced, NEW ids,
         NEW reason \in Reason, NEW now \in Int, DeadLetters(ids, reason, now)
  PROVE  Life!Bury(ids)
<1>1. \A i \in ids : /\ i \in DOMAIN messages
                     /\ messages[i] \in Row
                     /\ messages[i].status # Processing
                     /\ ~ messages[i].isDlq
  BY DEF DeadLetters, Sane, TypeOK
<1>2. \A i \in ids : LET new == MovedToDlq(messages[i], reason, now) IN
                     /\ new.isDlq = TRUE
                     /\ new.status # Processing
                     /\ new.attempts = 0
  BY <1>1 DEF MovedToDlq, Row, Ready, Processing
<1>3. /\ ids \in SUBSET Id
      /\ \A i \in Id \ ids : Stays(i)
      /\ \A i \in ids : Goes(i, "dlq")
  <2> DEFINE new == [i \in ids |-> MovedToDlq(messages[i], reason, now)]
  <2>1. /\ DOMAIN messages \subseteq Id
        /\ messages' = [i \in DOMAIN messages |->
                          IF i \in ids THEN new[i] ELSE messages[i]]
    BY DEF Sane, TypeOK, DeadLetters
  <2>2. \A i \in ids : /\ new[i].isDlq = TRUE
                       /\ new[i].status # Processing
                       /\ new[i].attempts = 0
    BY <1>2
  <2> HIDE DEF new
  <2>3. QED
    BY <1>1, <2>1, <2>2, Rewrites DEF Sane, Goes
<1>4. \A i \in ids : PlaceOf(i) = "queue" /\ ~ LeasedTo(i)
  BY <1>1, RowMeans DEF Sane
<1>5. Life!Go(ids, "dlq")
  BY <1>3, GoSteps
<1>6. QED
  BY <1>3, <1>4, <1>5 DEF Life!Bury, Life!Unleased

LEMMA ReviveStep ==
  ASSUME Sane, SameEntering, produced' = produced, NEW ids,
         NEW queue \in Queue, NEW now \in Int, Requeues(ids, queue, now)
  PROVE  Life!Revive(ids)
<1>1. \A i \in ids : /\ i \in DOMAIN messages
                     /\ messages[i] \in Row
                     /\ messages[i].status # Processing
                     /\ messages[i].isDlq = TRUE
  BY DEF Requeues, Sane, TypeOK, TableSane, RowSane, Row
<1>2. \A i \in ids : LET new == Requeued(messages[i], queue, now) IN
                     /\ new.isDlq = FALSE
                     /\ new.status # Processing
                     /\ new.attempts = 0
  BY <1>1 DEF Requeued, Row, Ready, Processing
<1>3. /\ ids \in SUBSET Id
      /\ \A i \in Id \ ids : Stays(i)
      /\ \A i \in ids : Goes(i, "queue")
  <2> DEFINE new == [i \in ids |-> Requeued(messages[i], queue, now)]
  <2>1. /\ DOMAIN messages \subseteq Id
        /\ messages' = [i \in DOMAIN messages |->
                          IF i \in ids THEN new[i] ELSE messages[i]]
    BY DEF Sane, TypeOK, Requeues
  <2>2. \A i \in ids : /\ new[i].isDlq = FALSE
                       /\ new[i].status # Processing
                       /\ new[i].attempts = 0
    BY <1>2
  <2> HIDE DEF new
  <2>3. QED
    BY <1>1, <2>1, <2>2, Rewrites DEF Sane, Goes
<1>4. \A i \in ids : PlaceOf(i) = "dlq" /\ ~ LeasedTo(i)
  BY <1>1, RowMeans DEF Sane
<1>5. Life!Go(ids, "queue")
  BY <1>3, GoSteps
<1>6. QED
  BY <1>3, <1>4, <1>5 DEF Life!Revive, Life!Unleased

\* Deletes in a DLQ, of the rows `ids`.
LEMMA DropStep ==
  ASSUME Sane, SameEntering, produced' = produced, NEW ids,
         messages' = Without(messages, ids),
         \A i \in ids : i \in DOMAIN messages /\ messages[i].isDlq
  PROVE  Life!Drop(ids)
<1>1. /\ ids \in SUBSET Id
      /\ DOMAIN messages' = DOMAIN messages \ ids
      /\ \A i \in DOMAIN messages' : messages'[i] = messages[i]
  BY DEF Sane, TypeOK, Without
<1>2. /\ \A i \in Id \ ids : Stays(i)
      /\ \A i \in ids : Goes(i, "gone")
  BY <1>1, TableSteps DEF Sane
<1>3. \A i \in ids : PlaceOf(i) = "dlq"
  BY RowMeans DEF Sane
<1>4. Life!Go(ids, "gone")
  BY <1>1, <1>2, GoSteps
<1>5. QED
  BY <1>1, <1>3, <1>4 DEF Life!Drop

\* A claim is one lease: the row was ready, so it had a try left.
LEMMA DeliverStep ==
  ASSUME Sane, NEW c \in Caller, Consume(c), SameEntering
  PROVE  \E i \in Id : Life!Deliver(i)
<1> DEFINE now == pending[c].now
<1>1. PICK id \in Consumable(messages, pending[c].queue, now) :
        messages' = ClaimMessage(messages, id, now)
  BY DEF Consume, Oldest
<1>2. /\ id \in DOMAIN messages
      /\ id \in Id
      /\ messages[id] \in Row
      /\ messages[id].status = Ready
      /\ RowSane(messages[id])
  BY <1>1 DEF Consumable, Sane, TypeOK, TableSane
<1>3. /\ LeasedTo(id) = FALSE
      /\ PlaceOf(id) \in {"queue", "dlq"}
      /\ TriesOf(id) = messages[id].attempts
      /\ messages[id].attempts < MaxDeliveryAttempts
      /\ PlaceOf(id) = IF messages[id].isDlq THEN "dlq" ELSE "queue"
  BY <1>2, RowMeans, LeasedBoolean DEF Sane, RowSane, Ready, Processing
<1>4. /\ produced' = produced
      /\ DOMAIN messages' = DOMAIN messages
      /\ messages'[id] = Claimed(messages[id], now)
      /\ \A i \in DOMAIN messages \ {id} : messages'[i] = messages[i]
  BY <1>1, <1>2 DEF Consume, ClaimMessage
<1>5. /\ messages'[id].isDlq = messages[id].isDlq
      /\ messages'[id].status = Processing
      /\ messages'[id].attempts = messages[id].attempts + 1
  BY <1>2, <1>4 DEF Claimed, Row
<1>6. \A i \in Id \ {id} : Stays(i)
  BY <1>4, TableSteps DEF Sane
<1>7. /\ PlaceOf(id)' = PlaceOf(id)
      /\ LeasedTo(id)' = TRUE
      /\ TriesOf(id)' = TriesOf(id) + 1
  BY <1>2, <1>3, <1>4, <1>5, TableSteps, LeasedBoolean DEF Sane
<1>8. \A i \in Id \ {id} : LeasedTo(i)' = LeasedTo(i)
  BY <1>6, LeasedBoolean DEF Stays
<1>9. /\ [i \in Id |-> LeasedTo(i)]'
           = [[i \in Id |-> LeasedTo(i)] EXCEPT ![id] = TRUE]
      /\ [i \in Id |-> TriesOf(i)]'
           = [[i \in Id |-> TriesOf(i)] EXCEPT ![id] = @ + 1]
      /\ [i \in Id |-> PlaceOf(i)]' = [i \in Id |-> PlaceOf(i)]
  BY <1>2, <1>6, <1>7, <1>8 DEF Stays
<1>10. Life!Deliver(id)
  BY <1>2, <1>3, <1>9 DEF Life!Deliver, Life!Unleased
<1>11. QED
  BY <1>2, <1>10

\* An ack that passes the fence completes the lease; any other does nothing.
LEMMA CompleteStep ==
  ASSUME Sane, NEW c \in Caller, Ack(c), SameEntering
  PROVE  (\E i \in Id : Life!Complete(i)) \/ UNCHANGED Life!lifeVars
<1>1. PICK d \in Received :
        messages' = DeleteMessageOnAck(messages, d.id, d.queue, d.receipt)
  BY DEF Ack
<1> DEFINE ids == Fenced(messages, d.id, d.queue, d.receipt)
<1>2. /\ \A i \in ids : /\ i = d.id
                        /\ i \in DOMAIN messages
                        /\ messages[i].status = Processing
      /\ ids \subseteq Id
  BY DEF Fenced, Sane, TypeOK
<1>3. /\ produced' = produced
      /\ DOMAIN messages' = DOMAIN messages \ ids
      /\ \A i \in DOMAIN messages' : messages'[i] = messages[i]
  BY <1>1 DEF Ack, DeleteMessageOnAck, Without
<1>4. /\ \A i \in Id \ ids : Stays(i)
      /\ \A i \in ids : Goes(i, "gone")
  BY <1>2, <1>3, TableSteps DEF Sane
<1>5. CASE ids = {}
  BY <1>4, <1>5, StutterSteps
<1>6. CASE ids # {}
  <2>1. ids = {d.id} /\ d.id \in Id
    BY <1>2, <1>6
  <2>2. LeasedTo(d.id)
    BY <1>2, <2>1, RowMeans DEF Sane
  <2>3. Life!Go({d.id}, "gone")
    BY <1>4, <2>1, GoSteps
  <2>4. QED
    BY <2>1, <2>2, <2>3 DEF Life!Complete
<1>7. QED
  BY <1>5, <1>6

\* The INSERT lets the id of the waiting produce enter its queue.
LEMMA EnterStep ==
  ASSUME Sane, NEW c \in Caller, Produce(c)
  PROVE  \E i \in Id : Life!Enter(i)
<1>1. PICK id \in Id : /\ id = pending[c].id
                       /\ c \in Process
                       /\ pending \in [Process -> Call]
                       /\ pending[c].op = "produce"
  BY CallerIsProcess, PendingType DEF Sane, TypeOK, Produce, Executing
<1>2. /\ id \in produced
      /\ id \notin DOMAIN messages
      /\ \A p \in Process \ {c} : pending[p].op = "produce" => pending[p].id # id
  <2>1. pending[c] # Idle
    BY <1>1 DEF Idle
  <2>2. QED
    BY <1>1, <2>1 DEF Sane, CallsSane
<1>3. /\ produced' = produced
      /\ pending'[c].op # "produce"
      /\ \A p \in Process \ {c} : pending'[p] = pending[p]
      /\ DOMAIN messages' = DOMAIN messages \cup {id}
      /\ messages'[id] = NewRow(pending[c].queue, pending[c].processAfter,
                                pending[c].now)
      /\ \A i \in DOMAIN messages : messages'[i] = messages[i]
  BY <1>1, <1>2 DEF Produce, Finish, InsertMessage, Idle
<1>4. /\ Entering(id)
      /\ ~ Entering(id)'
      /\ \A i \in Id \ {id} : Entering(i)' <=> Entering(i)
  <2>1. Entering(id)
    BY <1>1 DEF Entering
  <2>2. ~ Entering(id)'
    BY <1>2, <1>3 DEF Entering
  <2>3. \A i \in Id \ {id} : Entering(i)' <=> Entering(i)
    BY <1>1, <1>3 DEF Entering
  <2>4. QED
    BY <2>1, <2>2, <2>3
<1>5. PlaceOf(id) = "new"
  BY <1>4 DEF PlaceOf
<1>6. Goes(id, "queue")
  BY <1>2, <1>3, <1>4 DEF Goes, PlaceOf, LeasedTo, TriesOf, NewRow, Ready,
                          Processing
<1>7. \A i \in Id \ {id} : Stays(i)
  BY <1>2, <1>3, <1>4 DEF Stays, PlaceOf, LeasedTo, TriesOf
<1>8. Life!Go({id}, "queue")
  BY <1>1, <1>6, <1>7, GoSteps
<1>9. QED
  BY <1>1, <1>5, <1>8 DEF Life!Enter

\* Waiters that are cut: the ids of the produces among them never enter.
LEMMA RejectStep ==
  ASSUME Sane, NEW S \in SUBSET Process,
         \A p \in Process : pending'[p] = IF p \in S THEN Idle ELSE pending[p],
         UNCHANGED <<messages, produced>>
  PROVE  \E ids \in SUBSET Id : Life!Reject(ids)
<1> DEFINE ids == {i \in Id : \E p \in S : /\ pending[p].op = "produce"
                                           /\ pending[p].id = i}
<1>1. \A i \in ids : /\ Entering(i)
                     /\ i \in produced \ DOMAIN messages
                     /\ ~ Entering(i)'
  BY DEF Sane, CallsSane, Entering, Idle
<1>2. \A i \in Id \ ids : Entering(i)' <=> Entering(i)
  BY DEF Entering, Idle
<1>3. /\ \A i \in ids : PlaceOf(i) = "new" /\ Goes(i, "gone")
      /\ \A i \in Id \ ids : Stays(i)
  BY <1>1, <1>2 DEF Goes, Stays, PlaceOf, LeasedTo, TriesOf
<1>4. Life!Go(ids, "gone")
  BY <1>3, GoSteps
<1>5. Life!Reject(ids)
  BY <1>3, <1>4 DEF Life!Reject
<1>6. QED
  BY <1>5

-----------------------------------------------------------------------------
(***************************************************************************)
(* Every step.                                                             *)
(***************************************************************************)
\* What begins or ends without being a produce lets no id enter.
LEMMA EnteringKept ==
  ASSUME TypeOK, NEW p \in Process,
         \/ UNCHANGED pending
         \/ Finish(p) /\ pending[p].op # "produce"
         \/ \E call : Begin(p, call) /\ call.op # "produce"
  PROVE  SameEntering
<1>1. pending \in [Process -> Call]
  BY DEF TypeOK
<1>2. CASE UNCHANGED pending
  BY <1>2 DEF SameEntering, Entering
<1>3. ASSUME pending[p].op # "produce", pending'[p].op # "produce",
             \A q \in Process \ {p} : pending'[q] = pending[q]
      PROVE  SameEntering
  BY <1>3 DEF SameEntering, Entering
<1>4. CASE Finish(p) /\ pending[p].op # "produce"
  BY <1>1, <1>3, <1>4 DEF Finish, Idle
<1>5. ASSUME NEW call, Begin(p, call), call.op # "produce"
      PROVE  SameEntering
  BY <1>1, <1>3, <1>5 DEF Begin, Idle
<1>6. QED
  BY <1>2, <1>4, <1>5

LifeStep == Life!Next \/ UNCHANGED Life!lifeVars

LEMMA ApiSteps ==
  ASSUME Sane, NEW c \in Caller, ApiRequest(c)
  PROVE  LifeStep
<1>1. /\ c \in Process
      /\ TypeOK
      /\ pending \in [Process -> Call]
  BY CallerIsProcess DEF Sane, TypeOK
<1>2. CASE BeginProduce(c)
  <2>1. PICK id \in Id \ produced :
          /\ pending[c] = Idle
          /\ pending'[c].op = "produce"
          /\ pending'[c].id = id
          /\ \A p \in Process \ {c} : pending'[p] = pending[p]
          /\ produced' = produced \cup {id}
          /\ messages' = messages
    BY <1>1, <1>2 DEF BeginProduce, Begin
  <2>2. /\ Entering(id)'
        /\ \A i \in Id \ {id} : Entering(i)' <=> Entering(i)
    BY <1>1, <2>1 DEF Entering, Idle
  <2>3. \A i \in Id : Stays(i)
    BY <2>1, <2>2 DEF Stays, PlaceOf, LeasedTo, TriesOf
  <2>4. QED
    BY <2>3, StutterSteps DEF LifeStep
<1>3. CASE BeginConsume(c) \/ ConsumeNothing(c) \/ BeginNack(c)
  <2>1. SameEntering
    <3>1. CASE BeginConsume(c)
      <4>1. PICK queue : Begin(c, [op |-> "claim", queue |-> queue, now |-> clock])
        BY <3>1 DEF BeginConsume
      <4>2. QED
        BY <1>1, <4>1, EnteringKept
    <3>2. CASE ConsumeNothing(c)
      BY <1>1, <3>2, EnteringKept DEF ConsumeNothing, Executing
    <3>3. CASE BeginNack(c)
      <4>1. PICK d : Begin(c, [op |-> "nack", id |-> d.id, queue |-> d.queue,
                               receipt |-> d.receipt, now |-> clock])
        BY <3>3 DEF BeginNack
      <4>2. QED
        BY <1>1, <4>1, EnteringKept
    <3>4. QED
      BY <1>3, <3>1, <3>2, <3>3
  <2>2. QED
    BY <1>3, <2>1, QuietStep DEF BeginConsume, ConsumeNothing, BeginNack, LifeStep
<1>4. CASE Produce(c)
  BY <1>4, EnterStep DEF LifeStep, Life!Next
<1>5. CASE Consume(c)
  <2>1. SameEntering
    BY <1>1, <1>5, EnteringKept DEF Consume, Executing
  <2>2. QED
    BY <1>5, <2>1, DeliverStep DEF LifeStep, Life!Next
<1>6. CASE Ack(c)
  <2>1. SameEntering
    BY <1>1, <1>6, EnteringKept DEF Ack
  <2>2. QED
    BY <1>6, <2>1, CompleteStep DEF LifeStep, Life!Next
<1>7. CASE Nack(c)
  <2> DEFINE call == pending[c]
             ids == Fenced(messages, call.id, call.queue, call.receipt)
             new == [i \in ids |-> Nacked(messages[i], call.now)]
  <2>1. SameEntering /\ produced' = produced
    BY <1>1, <1>7, EnteringKept DEF Nack, Executing
  <2>2. \A i \in ids : /\ i \in DOMAIN messages
                       /\ messages[i] \in Row
                       /\ messages[i].status = Processing
    BY <1>1 DEF Fenced, TypeOK
  <2>3. \A i \in ids : /\ new[i].isDlq = messages[i].isDlq
                       /\ new[i].status # Processing
                       /\ new[i].attempts = messages[i].attempts
    BY <2>2 DEF Nacked, StatusAfterFailure, Row, Ready, Failed, Processing
  <2>4. messages' = [i \in DOMAIN messages |->
                       IF i \in ids THEN new[i] ELSE messages[i]]
    BY <1>7 DEF Nack, UpdateMessageOnConsumingFailure
  <2> HIDE DEF new
  <2>5. Life!Release(ids) /\ ids \in SUBSET Id
    BY <1>1, <2>1, <2>2, <2>3, <2>4, ReleaseStep DEF TypeOK
  <2>6. QED
    BY <2>5 DEF LifeStep, Life!Next
<1>8. QED
  BY <1>2, <1>3, <1>4, <1>5, <1>6, <1>7 DEF ApiRequest

LEMMA AdminSteps ==
  ASSUME Sane, NEW c \in Caller, AdminRequest(c)
  PROVE  LifeStep
<1>1. /\ c \in Process
      /\ TypeOK
      /\ pending \in [Process -> Call]
  BY CallerIsProcess DEF Sane, TypeOK
<1>2. CASE BeginRequeueAll(c) \/ BeginRequeue(c)
  <2>1. SameEntering
    <3>1. CASE BeginRequeueAll(c)
      <4>1. PICK queue :
              Begin(c, [op |-> "requeueAll", queue |-> queue, now |-> clock])
        BY <3>1 DEF BeginRequeueAll
      <4>2. QED
        BY <1>1, <4>1, EnteringKept
    <3>2. CASE BeginRequeue(c)
      <4>1. PICK id, queue :
              Begin(c, [op |-> "requeue", id |-> id, queue |-> queue,
                        now |-> clock])
        BY <3>2 DEF BeginRequeue
      <4>2. QED
        BY <1>1, <4>1, EnteringKept
    <3>3. QED
      BY <1>2, <3>1, <3>2
  <2>2. QED
    BY <1>2, <2>1, QuietStep DEF BeginRequeueAll, BeginRequeue, LifeStep
<1>3. ASSUME RequeueAll(c) \/ Requeue(c)
      PROVE  LifeStep
  <2>1. SameEntering /\ produced' = produced
    BY <1>1, <1>3, EnteringKept DEF RequeueAll, Requeue, Executing
  <2>2. /\ pending[c].queue \in Queue
        /\ pending[c].queue.suffixes = 1
        /\ pending[c].now \in Int
    BY <1>1, <1>3, PendingType DEF Sane, CallsSane, RequeueAll, Requeue, Executing
  <2>3. PICK ids : Requeues(ids, pending[c].queue, pending[c].now)
    <3>1. CASE RequeueAll(c)
      BY <2>2, <3>1 DEF RequeueAll, Requeues, Requeueable, RequeueDlqMessages
    <3>2. CASE Requeue(c)
      <4>1. Requeues(Requeueable(messages, pending[c].queue) \cap {pending[c].id},
                     pending[c].queue, pending[c].now)
        BY <2>2, <3>2 DEF Requeue, Requeues, Requeueable, RequeueDlqMessage
      <4>2. QED
        BY <4>1
    <3>3. QED
      BY <1>3, <3>1, <3>2
  <2>4. Life!Revive(ids)
    BY <2>1, <2>2, <2>3, ReviveStep
  <2>5. ids \in SUBSET Id
    BY <1>1, <2>3 DEF Requeues, TypeOK
  <2>6. QED
    BY <2>4, <2>5 DEF LifeStep, Life!Next
<1>4. ASSUME DeleteOne(c) \/ DeleteAll(c)
      PROVE  LifeStep
  <2>1. SameEntering /\ produced' = produced
    BY <1>1, <1>4, EnteringKept DEF DeleteOne, DeleteAll
  <2>2. PICK ids : /\ messages' = Without(messages, ids)
                   /\ \A i \in ids : i \in DOMAIN messages /\ messages[i].isDlq
    <3>1. CASE DeleteOne(c)
      BY <3>1 DEF DeleteOne, DeleteMessageFromDlq
    <3>2. CASE DeleteAll(c)
      <4>1. PICK queue \in DlqName :
              messages' = DeleteAllMessagesFromQueue(messages, queue)
        BY <3>2 DEF DeleteAll
      <4>2. queue.suffixes > 0
        BY <4>1 DEF DlqName, HasDlqSuffix
      <4>3. \A i \in DOMAIN messages : messages[i].queue = queue => messages[i].isDlq
        BY <4>2 DEF Sane, TableSane, RowSane
      <4>4. QED
        BY <4>1, <4>3 DEF DeleteAllMessagesFromQueue
    <3>3. QED
      BY <1>4, <3>1, <3>2
  <2>3. Life!Drop(ids) /\ ids \in SUBSET Id
    BY <1>1, <2>1, <2>2, DropStep DEF TypeOK
  <2>4. QED
    BY <2>3 DEF LifeStep, Life!Next
<1>5. QED
  BY <1>2, <1>3, <1>4 DEF AdminRequest

LEMMA JobSteps ==
  ASSUME Sane, Jobs
  PROVE  LifeStep
<1>1. /\ Job \subseteq Process
      /\ TypeOK
      /\ pending \in [Process -> Call]
  BY CallerIsProcess DEF Sane, TypeOK
<1>2. {"stale", "failed", "expired", "expiredDlq"} \subseteq Process
  BY <1>1 DEF Job
<1>3. ASSUME NEW j \in Job, BeginTick(j)
      PROVE  LifeStep
  <2>1. SameEntering
    <3>1. Begin(j, [op |-> j, now |-> clock])
      BY <1>3 DEF BeginTick
    <3>2. j # "produce"
      BY DEF Job
    <3>3. QED
      BY <1>1, <3>1, <3>2, EnteringKept
  <2>2. QED
    BY <1>3, <2>1, QuietStep DEF BeginTick, LifeStep
<1>4. CASE RecoverStale
  <2> DEFINE now == pending["stale"].now
             ids == Stale(messages, now)
             new == [i \in ids |-> Recovered(messages[i], now)]
  <2>1. SameEntering /\ produced' = produced
    BY <1>1, <1>2, <1>4, EnteringKept DEF RecoverStale, Executing
  <2>2. \A i \in ids : /\ i \in DOMAIN messages
                       /\ messages[i] \in Row
                       /\ messages[i].status = Processing
    BY <1>1 DEF Stale, TypeOK
  <2>3. \A i \in ids : /\ new[i].isDlq = messages[i].isDlq
                       /\ new[i].status # Processing
                       /\ new[i].attempts = messages[i].attempts
    BY <2>2 DEF Recovered, StatusAfterFailure, Row, Ready, Failed, Processing
  <2>4. messages' = [i \in DOMAIN messages |->
                       IF i \in ids THEN new[i] ELSE messages[i]]
    BY <1>4 DEF RecoverStale, UpdateStaleMessages
  <2> HIDE DEF new
  <2>5. Life!Release(ids) /\ ids \in SUBSET Id
    BY <1>1, <2>1, <2>2, <2>3, <2>4, ReleaseStep DEF TypeOK
  <2>6. QED
    BY <2>5 DEF LifeStep, Life!Next
<1>5. ASSUME MoveFailed \/ MoveExpired
      PROVE  LifeStep
  <2>1. SameEntering /\ produced' = produced
    BY <1>1, <1>2, <1>5, EnteringKept DEF MoveFailed, MoveExpired, Executing
  <2>2. PICK ids : \E reason \in Reason, now \in Int :
                     DeadLetters(ids, reason, now)
    <3>1. CASE MoveFailed
      <4>1. pending["failed"].now \in Int
        BY <1>1, <1>2, <3>1, PendingType DEF MoveFailed, Job
      <4>2. DeadLetters(FailedRows(messages, FALSE), MaxAttemptsReached,
                        pending["failed"].now)
        BY <3>1 DEF MoveFailed, DeadLetters, FailedRows, Failed, Processing,
                    UpdateFailedMessagesForRegularQueues
      <4>3. QED
        BY <4>1, <4>2 DEF Reason
    <3>2. CASE MoveExpired
      <4> DEFINE now == pending["expired"].now
      <4>1. now \in Int
        BY <1>1, <1>2, <3>2, PendingType DEF MoveExpired, Job
      <4>2. PICK batch \in Batches(Expired(messages, FALSE, now)) :
              /\ messages' = MoveExpiredBatch(messages, batch, now)
              /\ Moved(batch)
        BY <3>2 DEF MoveExpired
      <4>3. DeadLetters(batch, MessageExpired, now)
        BY <3>2, <4>2 DEF MoveExpired, DeadLetters, Batches, Expired,
                          MoveExpiredBatch, Ready, Failed, Processing
      <4>4. QED
        BY <4>1, <4>3 DEF Reason
    <3>3. QED
      BY <1>5, <3>1, <3>2
  <2>3. Life!Bury(ids)
    BY <2>1, <2>2, BuryStep
  <2>4. ids \in SUBSET Id
    BY <1>1, <2>2 DEF DeadLetters, TypeOK
  <2>5. QED
    BY <2>3, <2>4 DEF LifeStep, Life!Next
<1>6. ASSUME DeleteFailed \/ DeleteExpired
      PROVE  LifeStep
  <2>1. SameEntering /\ produced' = produced
    BY <1>1, <1>2, <1>6, EnteringKept DEF DeleteFailed, DeleteExpired, Executing
  <2>2. PICK ids : /\ messages' = Without(messages, ids)
                   /\ \A i \in ids : i \in DOMAIN messages /\ messages[i].isDlq
    <3>1. CASE DeleteFailed
      BY <1>1, <3>1 DEF DeleteFailed, DeleteFailedMessagesFromDlq, FailedRows,
                        TypeOK, Row
    <3>2. CASE DeleteExpired
      BY <1>1, <3>2 DEF DeleteExpired, DeleteExpiredBatch, Batches, Expired,
                        TypeOK, Row
    <3>3. QED
      BY <1>6, <3>1, <3>2
  <2>3. Life!Drop(ids) /\ ids \in SUBSET Id
    BY <1>1, <2>1, <2>2, DropStep DEF TypeOK
  <2>4. QED
    BY <2>3 DEF LifeStep, Life!Next
<1>7. QED
  BY <1>3, <1>4, <1>5, <1>6 DEF Jobs

LEMMA EnvironmentSteps ==
  ASSUME Sane, Environment
  PROVE  LifeStep
<1>1. pending \in [Process -> Call]
  BY DEF Sane, TypeOK
<1>2. CASE Tick
  <2>1. SameEntering
    BY <1>2 DEF Tick, SameEntering, Entering
  <2>2. QED
    BY <1>2, <2>1, QuietStep DEF Tick, LifeStep
<1>3. CASE Restart
  <2>1. \E ids \in SUBSET Id : Life!Reject(ids)
    BY <1>3, RejectStep DEF Restart
  <2>2. QED
    BY <2>1 DEF LifeStep, Life!Next
<1>4. ASSUME NEW p \in Process, Abandon(p)
      PROVE  LifeStep
  <2>1. \A q \in Process : pending'[q] = IF q \in {p} THEN Idle ELSE pending[q]
    BY <1>1, <1>4 DEF Abandon, Finish
  <2>2. \E ids \in SUBSET Id : Life!Reject(ids)
    BY <1>4, <2>1, RejectStep DEF Abandon
  <2>3. QED
    BY <2>2 DEF LifeStep, Life!Next
<1>5. QED
  BY <1>2, <1>3, <1>4 DEF Environment

\* The broker implements the life of a message: whatever waits, is cut, is
\* repeated or comes late, its steps are those of MessageLife or stutter.
THEOREM LifeImplemented == Spec => ImplementsLife
<1>1. Init => Life!Init
  <2>1. SUFFICES ASSUME Init
                 PROVE  Life!Init
    OBVIOUS
  <2>2. \A i \in Id : /\ PlaceOf(i) = "new"
                      /\ LeasedTo(i) = FALSE
                      /\ TriesOf(i) = 0
    <3>1. produced = {}
      BY <2>1 DEF Init
    <3>2. DOMAIN messages = {}
      BY <2>1 DEF Init
    <3>3. QED
      BY <3>1, <3>2, LeasedBoolean DEF PlaceOf, LeasedTo, TriesOf
  <2>3. QED
    BY <2>2 DEF Life!Init
<1>2. ASSUME IInv, [Next]_vars
      PROVE  [Life!Next]_(Life!lifeVars)
  <2>1. Sane
    BY <1>2, TableSaneMeans DEF Sane
  <2>2. CASE UNCHANGED vars
    <3>1. SameEntering
      BY <2>2 DEF vars, SameEntering, Entering
    <3>2. QED
      BY <2>1, <2>2, <3>1, QuietStep DEF vars
  <2>3. CASE Next
    BY <2>1, <2>3, ApiSteps, AdminSteps, JobSteps, EnvironmentSteps
       DEF Next, LifeStep
  <2>4. QED
    BY <1>2, <2>2, <2>3
<1>3. QED
  BY <1>1, <1>2, InvariantHolds, PTL DEF Spec, ImplementsLife, Life!Spec
=============================================================================
