------------------------------ MODULE ForqRepo ------------------------------
(***************************************************************************)
(* The `messages` table of forq and the SQL statements of db/repo.go.      *)
(*                                                                         *)
(* The table is a function from the ids of the stored messages to rows.    *)
(* Each statement is an operator that returns the table after it: the      *)
(* write pool holds one connection (repo.go:109), so a statement is atomic.*)
(* Every Go method reads the wall clock BEFORE it waits for that           *)
(* connection; the value is the parameter `now`, which can be older than   *)
(* the state the statement runs on.                                        *)
(*                                                                         *)
(* Left out of the rows: the content, and updated_at, which no statement   *)
(* reads.  A queue name is a base name and the number of "-dlq" suffixes.  *)
(***************************************************************************)
EXTENDS Integers, Sequences, FiniteSets

CONSTANTS
  Id,                   \* message ids (UUID v7)
  Base,                 \* queue names without the "-dlq" suffix
  NULL,                 \* SQL NULL
  MaxDeliveryAttempts,  \* AppConfigs, configs/app.go
  BackoffDelays,
  QueueTtl,
  DlqTtl,
  MaxProcessingTime,
  SweepBatchSize        \* rows per batch of an expired sweep

MaxAttemptsReached == "max_attempts_reached"
MessageExpired == "message_expired"
Reason == {MaxAttemptsReached, MessageExpired}

ASSUME RepoAssumption ==
  /\ NULL \notin Int
  /\ NULL \notin Reason
  /\ MaxDeliveryAttempts \in Nat \ {0}
  /\ BackoffDelays \in Seq(Nat \ {0})
  /\ Len(BackoffDelays) > 0
  /\ QueueTtl \in Nat \ {0}
  /\ DlqTtl \in Nat \ {0}
  /\ MaxProcessingTime \in Nat
  /\ SweepBatchSize \in Nat \ {0}

Ready == "ready"
Processing == "processing"
Failed == "failed"
Status == {Ready, Processing, Failed}

Queue == [base : Base, suffixes : Nat]
HasDlqSuffix(queue) == queue.suffixes > 0
AppendDlqSuffix(queue) == [queue EXCEPT !.suffixes = @ + 1]
TrimDlqSuffix(queue) ==
  IF HasDlqSuffix(queue) THEN [queue EXCEPT !.suffixes = @ - 1] ELSE queue

Row == [queue : Queue,
        isDlq : BOOLEAN,
        status : Status,
        attempts : Nat,
        processAfter : Int,
        startedAt : Int \cup {NULL},
        reason : Reason \cup {NULL},
        receivedAt : Int,
        expiresAfter : Int]

\* DELETE of a set of ids
Without(table, ids) == [i \in DOMAIN table \ ids |-> table[i]]

-----------------------------------------------------------------------------
(***************************************************************************)
(* Producing and consuming.                                                *)
(***************************************************************************)
\* mutant: the INSERT leaves attempts out
NewRowNoAttempts(queue, processAfter, now) ==
  [queue |-> queue, isDlq |-> FALSE, status |-> Ready, attempts |-> NULL,
   processAfter |-> processAfter, startedAt |-> NULL, reason |-> NULL,
   receivedAt |-> now, expiresAfter |-> processAfter + QueueTtl]

NewRow(queue, processAfter, now) ==
  [queue |-> queue, isDlq |-> FALSE, status |-> Ready, attempts |-> 0,
   processAfter |-> processAfter, startedAt |-> NULL, reason |-> NULL,
   receivedAt |-> now, expiresAfter |-> processAfter + QueueTtl]

InsertMessage(table, id, queue, processAfter, now) ==
  [i \in DOMAIN table \cup {id} |->
     IF i = id THEN NewRow(queue, processAfter, now) ELSE table[i]]

Consumable(table, queue, now) ==
  {i \in DOMAIN table : /\ table[i].queue = queue
                        /\ table[i].status = Ready
                        /\ table[i].processAfter <= now}

\* ORDER BY received_at ASC LIMIT 1: any of the oldest when several tie.
Oldest(table, ids) ==
  {i \in ids : \A j \in ids : table[i].receivedAt <= table[j].receivedAt}

\* mutant: a claim does not count
ClaimedUncounted(row, now) ==
  [row EXCEPT !.status = Processing, !.startedAt = now]

Claimed(row, now) ==
  [row EXCEPT !.status = Processing, !.attempts = @ + 1, !.startedAt = now]

ClaimMessage(table, id, now) ==
  [i \in DOMAIN table |-> IF i = id THEN Claimed(table[i], now) ELSE table[i]]

\* `WHERE id = ? AND queue = ? AND status = processing
\*   AND processing_started_at = ?`: the fence of ack and nack.
Fenced(table, id, queue, receipt) ==
  {i \in DOMAIN table : /\ i = id
                        /\ table[i].queue = queue
                        /\ table[i].status = Processing
                        /\ table[i].startedAt = receipt}

DeleteMessageOnAck(table, id, queue, receipt) ==
  Without(table, Fenced(table, id, queue, receipt))

\* mutant: one attempt too many
StatusAfterFailureLate(row) ==
  IF row.attempts > MaxDeliveryAttempts THEN Failed ELSE Ready

\* failed when no attempts are left
StatusAfterFailure(row) ==
  IF row.attempts >= MaxDeliveryAttempts THEN Failed ELSE Ready

\* mutant: the ELSE branch has no delay
BackoffDelayNoElse(attempts) ==
  IF attempts \in 1 .. Len(BackoffDelays) - 1 THEN BackoffDelays[attempts] ELSE 0

\* processAfterCases: the last delay is the ELSE branch.
BackoffDelay(attempts) ==
  IF attempts \in 1 .. Len(BackoffDelays) - 1
  THEN BackoffDelays[attempts] ELSE BackoffDelays[Len(BackoffDelays)]

Nacked(row, now) ==
  [row EXCEPT !.status = StatusAfterFailure(row),
              !.processAfter = now + BackoffDelay(row.attempts),
              !.startedAt = NULL]

UpdateMessageOnConsumingFailure(table, id, queue, receipt, now) ==
  [i \in DOMAIN table |-> IF i \in Fenced(table, id, queue, receipt)
                          THEN Nacked(table[i], now) ELSE table[i]]

-----------------------------------------------------------------------------
(***************************************************************************)
(* The cleanup jobs.  Stale recovery covers regular queues and DLQs; a     *)
(* message enters a DLQ only through MovedToDlq.                           *)
(***************************************************************************)
\* mutant: messages of DLQs are left out
StaleInQueues(table, now) ==
  {i \in DOMAIN table : /\ table[i].status = Processing
                        /\ ~ table[i].isDlq
                        /\ table[i].startedAt < now - MaxProcessingTime}

Stale(table, now) ==
  {i \in DOMAIN table : /\ table[i].status = Processing
                        /\ table[i].startedAt < now - MaxProcessingTime}

\* mutants: the attempts are not looked at, or the receipt survives
RecoveredReady(row, now) ==
  [row EXCEPT !.status = Ready, !.processAfter = now, !.startedAt = NULL]

RecoveredKeepsReceipt(row, now) ==
  [row EXCEPT !.status = StatusAfterFailure(row), !.processAfter = now]

Recovered(row, now) ==
  [row EXCEPT !.status = StatusAfterFailure(row),
              !.processAfter = now,
              !.startedAt = NULL]

UpdateStaleMessages(table, now) ==
  [i \in DOMAIN table |-> IF i \in Stale(table, now)
                          THEN Recovered(table[i], now) ELSE table[i]]

\* mutants: the attempts, or the expiry, of the queue are kept
MovedToDlqKeepsAttempts(row, reason, now) ==
  [row EXCEPT !.status = Ready, !.queue = AppendDlqSuffix(@), !.isDlq = TRUE,
              !.processAfter = now, !.startedAt = NULL, !.reason = reason,
              !.expiresAfter = now + DlqTtl]

MovedToDlqKeepsExpiry(row, reason, now) ==
  [row EXCEPT !.attempts = 0, !.status = Ready, !.queue = AppendDlqSuffix(@),
              !.isDlq = TRUE, !.processAfter = now, !.startedAt = NULL,
              !.reason = reason]

MovedToDlq(row, reason, now) ==
  [row EXCEPT !.attempts = 0,
              !.status = Ready,
              !.queue = AppendDlqSuffix(@),
              !.isDlq = TRUE,
              !.processAfter = now,
              !.startedAt = NULL,
              !.reason = reason,
              !.expiresAfter = now + DlqTtl]

\* mutant: is_dlq is not compared
FailedRowsAnywhere(table, isDlq) == {i \in DOMAIN table : table[i].status = Failed}

FailedRows(table, isDlq) ==
  {i \in DOMAIN table : table[i].status = Failed /\ table[i].isDlq = isDlq}

UpdateFailedMessagesForRegularQueues(table, now) ==
  [i \in DOMAIN table |->
     IF i \in FailedRows(table, FALSE)
     THEN MovedToDlq(table[i], MaxAttemptsReached, now) ELSE table[i]]

DeleteFailedMessagesFromDlq(table) == Without(table, FailedRows(table, TRUE))

\* mutant: a millisecond too early
ExpiredEarly(table, isDlq, now) ==
  {i \in DOMAIN table : /\ table[i].status \in {Ready, Failed}
                        /\ table[i].isDlq = isDlq
                        /\ table[i].expiresAfter <= now}

Expired(table, isDlq, now) ==
  {i \in DOMAIN table : /\ table[i].status \in {Ready, Failed}
                        /\ table[i].isDlq = isDlq
                        /\ table[i].expiresAfter < now}

\* `LIMIT sweepBatchSize` without an ORDER BY: any rows, as many as fit.
Batches(ids) ==
  {batch \in SUBSET ids :
     \/ batch = ids /\ Cardinality(ids) <= SweepBatchSize
     \/ Cardinality(batch) = SweepBatchSize}

\* The sweep ends with the first batch that is not full.
LastBatch(batch) == Cardinality(batch) < SweepBatchSize

MoveExpiredBatch(table, batch, now) ==
  [i \in DOMAIN table |->
     IF i \in batch THEN MovedToDlq(table[i], MessageExpired, now) ELSE table[i]]

DeleteExpiredBatch(table, batch) == Without(table, batch)

-----------------------------------------------------------------------------
(***************************************************************************)
(* The admin operations on a DLQ.                                          *)
(***************************************************************************)
\* mutants: the mark, or the expiry, of the DLQ is kept
RequeuedKeepsMark(row, queue, now) ==
  [row EXCEPT !.queue = TrimDlqSuffix(queue), !.status = Ready, !.attempts = 0,
              !.processAfter = now, !.startedAt = NULL, !.reason = NULL,
              !.expiresAfter = now + QueueTtl]

RequeuedKeepsExpiry(row, queue, now) ==
  [row EXCEPT !.queue = TrimDlqSuffix(queue), !.isDlq = FALSE, !.status = Ready,
              !.attempts = 0, !.processAfter = now, !.startedAt = NULL,
              !.reason = NULL]

Requeued(row, queue, now) ==
  [row EXCEPT !.queue = TrimDlqSuffix(queue),
              !.isDlq = FALSE,
              !.status = Ready,
              !.attempts = 0,
              !.processAfter = now,
              !.startedAt = NULL,
              !.reason = NULL,
              !.expiresAfter = now + QueueTtl]

\* mutant: messages being processed are taken along
RequeueableAny(table, queue) == {i \in DOMAIN table : table[i].queue = queue}

Requeueable(table, queue) ==
  {i \in DOMAIN table : table[i].queue = queue /\ table[i].status # Processing}

RequeueDlqMessages(table, queue, now) ==
  [i \in DOMAIN table |-> IF i \in Requeueable(table, queue)
                          THEN Requeued(table[i], queue, now) ELSE table[i]]

RequeueDlqMessage(table, id, queue, now) ==
  [i \in DOMAIN table |-> IF i \in Requeueable(table, queue) /\ i = id
                          THEN Requeued(table[i], queue, now) ELSE table[i]]

DeleteMessageFromDlq(table, id, queue) ==
  Without(table, {i \in DOMAIN table : /\ i = id
                                       /\ table[i].queue = queue
                                       /\ table[i].isDlq})

DeleteAllMessagesFromQueue(table, queue) ==
  Without(table, {i \in DOMAIN table : table[i].queue = queue})
=============================================================================
