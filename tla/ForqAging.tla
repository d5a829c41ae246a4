----------------------------- MODULE ForqAging -----------------------------
(***************************************************************************)
(* Liveness of the broker.  ForqBroker's clock grows, so its behaviours    *)
(* are cut by a bound, and a bounded clock fulfils no promise.  Here it is *)
(* always 0 o'clock: instead of the clock growing, every stored and every  *)
(* captured time gets one older, down to -Horizon.  Beyond it a statement  *)
(* compares a time with none that is as old, but for the order of old rows *)
(* and for two receipts that are both that old: there, more steps are      *)
(* possible here than in the code.  There are no histories and no bound    *)
(* but that on the ids.                                                    *)
(*                                                                         *)
(* A consumer refuses or completes the lease it has: late and repeated     *)
(* acks and nacks, which change nothing, are left to ForqBroker.           *)
(***************************************************************************)
EXTENDS ForqRepo

CONSTANTS
  Caller,            \* goroutines that serve requests
  RequestedDelays,   \* processAfter - now of the producers
  RequestTimeout,    \* ServerTimeouts.Handle
  JobTimeout,        \* the timeout of one tick of each job
  Horizon

Job == {"stale", "failed", "expired", "expiredDlq"}
Process == Caller \cup Job

ASSUME AgingAssumption ==
  /\ Caller \cap Job = {}
  /\ RequestedDelays \subseteq Int
  /\ \A delay \in RequestedDelays : -Horizon <= delay
  /\ RequestTimeout \in Nat \ {0} /\ RequestTimeout < Horizon
  /\ JobTimeout \in [Job -> Nat \ {0}]
  /\ Horizon \in Nat
  /\ \A j \in Job : MaxProcessingTime + JobTimeout[j] < Horizon

VARIABLES messages, produced, pending

vars == <<messages, produced, pending>>

Idle == [op |-> "idle"]
Now == 0
QueueName == [base : Base, suffixes : 0 .. 1]

TypeOK ==
  /\ DOMAIN messages \subseteq produced /\ produced \subseteq Id
  /\ \A i \in DOMAIN messages :
       LET row == messages[i] IN
       /\ row \in Row
       /\ row.queue \in QueueName
       /\ \A t \in {row.processAfter, row.receivedAt, row.expiresAfter} :
            t >= -Horizon
       /\ row.startedAt \in -Horizon .. Now \cup {NULL}
  /\ \A p \in Process : pending[p] # Idle => pending[p].now \in -Horizon .. Now

Init ==
  /\ messages = [i \in {} |-> i]
  /\ produced = {}
  /\ pending = [p \in Process |-> Idle]

-----------------------------------------------------------------------------
(***************************************************************************)
(* Time.                                                                   *)
(***************************************************************************)
Older(t) == IF t \in {NULL, -Horizon} THEN t ELSE t - 1

AgedRow(row) ==
  [row EXCEPT !.processAfter = Older(@), !.startedAt = Older(@),
              !.receivedAt = Older(@), !.expiresAfter = Older(@)]

AgedCall(call) ==
  CASE call = Idle -> call
    [] call.op = "produce" -> [call EXCEPT !.now = Older(@), !.processAfter = Older(@)]
    [] call.op = "nack" -> [call EXCEPT !.now = Older(@), !.receipt = Older(@)]
    [] OTHER -> [call EXCEPT !.now = Older(@)]

Timeout(p) == IF p \in Job THEN JobTimeout[p] ELSE RequestTimeout

Tick ==
  /\ \A p \in Process : pending[p] # Idle => Now < pending[p].now + Timeout(p)
  /\ messages' = [i \in DOMAIN messages |-> AgedRow(messages[i])]
  /\ pending' = [p \in Process |-> AgedCall(pending[p])]
  /\ UNCHANGED produced

-----------------------------------------------------------------------------
(***************************************************************************)
(* Requests.                                                               *)
(***************************************************************************)
Begin(p, call) ==
  /\ pending[p] = Idle
  /\ pending' = [pending EXCEPT ![p] = call]
  /\ UNCHANGED messages

Finish(p) == pending' = [pending EXCEPT ![p] = Idle]

BeginProduce(c) ==
  \E id \in Id \ produced, base \in Base, delay \in RequestedDelays :
    /\ Begin(c, [op |-> "produce", id |-> id,
                 queue |-> [base |-> base, suffixes |-> 0],
                 processAfter |-> Now + delay, now |-> Now])
    /\ produced' = produced \cup {id}

Leases == {i \in DOMAIN messages : messages[i].status = Processing}
Dlq == {q \in QueueName : HasDlqSuffix(q)}

BeginRequest(c) ==
  /\ \/ \E queue \in QueueName :
          Begin(c, [op |-> "claim", queue |-> queue, now |-> Now])
     \/ \E i \in Leases :
          Begin(c, [op |-> "nack", id |-> i, queue |-> messages[i].queue,
                    receipt |-> messages[i].startedAt, now |-> Now])
     \/ \E queue \in Dlq :
          Begin(c, [op |-> "requeueAll", queue |-> queue, now |-> Now])
     \/ \E i \in DOMAIN messages, queue \in Dlq :
          Begin(c, [op |-> "requeue", id |-> i, queue |-> queue, now |-> Now])
  /\ UNCHANGED produced

\* The statement of a waiting request, and the table after it.
Produced(call) ==
  /\ call.op = "produce"
  /\ messages' = InsertMessage(messages, call.id, call.queue, call.processAfter,
                               call.now)

Consumed(call) ==
  /\ call.op = "claim"
  /\ LET ids == Consumable(messages, call.queue, call.now) IN
     IF ids = {} THEN UNCHANGED messages
     ELSE \E id \in Oldest(messages, ids) :
            messages' = ClaimMessage(messages, id, call.now)

Refused(call) ==
  /\ call.op = "nack"
  /\ messages' = UpdateMessageOnConsumingFailure(messages, call.id, call.queue,
                                                 call.receipt, call.now)

RequeuedAll(call) ==
  /\ call.op = "requeueAll"
  /\ messages' = RequeueDlqMessages(messages, call.queue, call.now)

RequeuedOne(call) ==
  /\ call.op = "requeue"
  /\ messages' = RequeueDlqMessage(messages, call.id, call.queue, call.now)

Requeue(c) ==
  /\ RequeuedAll(pending[c]) \/ RequeuedOne(pending[c])
  /\ Finish(c)
  /\ UNCHANGED produced

Execute(c) ==
  \/ /\ Produced(pending[c]) \/ Consumed(pending[c]) \/ Refused(pending[c])
     /\ Finish(c)
     /\ UNCHANGED produced
  \/ Requeue(c)

Ack ==
  /\ \E i \in Leases :
       messages' = DeleteMessageOnAck(messages, i, messages[i].queue,
                                      messages[i].startedAt)
  /\ UNCHANGED <<produced, pending>>

Delete ==
  /\ \E queue \in Dlq :
       \/ messages' = DeleteAllMessagesFromQueue(messages, queue)
       \/ \E i \in DOMAIN messages :
            messages' = DeleteMessageFromDlq(messages, i, queue)
  /\ UNCHANGED <<produced, pending>>

Abandon(p) ==
  /\ pending[p] # Idle
  /\ Finish(p)
  /\ UNCHANGED <<messages, produced>>

Restart ==
  /\ pending' = [p \in Process |-> Idle]
  /\ UNCHANGED <<messages, produced>>

-----------------------------------------------------------------------------
(***************************************************************************)
(* The jobs.                                                               *)
(***************************************************************************)
BeginTick(j) ==
  /\ Begin(j, [op |-> j, now |-> Now])
  /\ UNCHANGED produced

RecoverStale ==
  /\ pending["stale"] # Idle
  /\ messages' = UpdateStaleMessages(messages, pending["stale"].now)
  /\ Finish("stale")
  /\ UNCHANGED produced

MoveFailed ==
  /\ pending["failed"] # Idle
  /\ messages' = UpdateFailedMessagesForRegularQueues(messages,
                                                      pending["failed"].now)
  /\ Finish("failed")
  /\ UNCHANGED produced

DeleteFailed ==
  /\ messages' = DeleteFailedMessagesFromDlq(messages)
  /\ UNCHANGED <<produced, pending>>

Sweep(j, batch) == IF LastBatch(batch) THEN Finish(j) ELSE UNCHANGED pending

MoveExpired ==
  /\ pending["expired"] # Idle
  /\ \E batch \in Batches(Expired(messages, FALSE, pending["expired"].now)) :
       /\ messages' = MoveExpiredBatch(messages, batch, pending["expired"].now)
       /\ Sweep("expired", batch)
  /\ UNCHANGED produced

DeleteExpired ==
  /\ pending["expiredDlq"] # Idle
  /\ \E batch \in Batches(Expired(messages, TRUE, pending["expiredDlq"].now)) :
       /\ messages' = DeleteExpiredBatch(messages, batch)
       /\ Sweep("expiredDlq", batch)
  /\ UNCHANGED produced

-----------------------------------------------------------------------------
Next ==
  \/ \E c \in Caller : BeginProduce(c) \/ BeginRequest(c) \/ Execute(c)
  \/ Ack \/ Delete
  \/ \E j \in Job : BeginTick(j)
  \/ RecoverStale \/ MoveFailed \/ DeleteFailed \/ MoveExpired \/ DeleteExpired
  \/ Tick \/ Restart
  \/ \E p \in Process : Abandon(p)

(***************************************************************************)
(* Time passes, a request ends, one way or the other, and each job keeps   *)
(* ticking.  A tick can lose the race for the connection and be cut, but   *)
(* not always: a freed connection goes to a random waiter (strong          *)
(* fairness).  Nobody has to produce, consume, ack, requeue or delete.     *)
(***************************************************************************)
Fairness ==
  /\ WF_vars(Tick)
  /\ \A c \in Caller : WF_vars(Execute(c) \/ Abandon(c))
  /\ \A j \in Job : WF_vars(BeginTick(j))
  /\ SF_vars(RecoverStale)
  /\ SF_vars(MoveFailed)
  /\ SF_vars(MoveExpired)
  /\ SF_vars(DeleteExpired)
  /\ WF_vars(DeleteFailed)

Spec == Init /\ [][Next]_vars /\ Fairness

-----------------------------------------------------------------------------
(***************************************************************************)
(* The life of a message, with its fairness.                               *)
(***************************************************************************)
Entering(i) == \E c \in Caller : pending[c].op = "produce" /\ pending[c].id = i

PlaceOf(i) ==
  IF i \notin produced \/ Entering(i) THEN "new"
  ELSE IF i \notin DOMAIN messages THEN "gone"
  ELSE IF messages[i].isDlq THEN "dlq" ELSE "queue"

TriesOf(i) == IF i \in DOMAIN messages THEN messages[i].attempts ELSE 0

Life == INSTANCE MessageLife WITH
  place <- [i \in Id |-> PlaceOf(i)],
  leased <- [i \in Id |-> i \in Leases],
  tries <- [i \in Id |-> TriesOf(i)]

\* The broker keeps the whole promise of a message's life, its progress too: a
\* lease ends and an unleased message does not stay where it is, although
\* consumers die, ticks are cut and the process restarts (repo.go:389).
ImplementsFairLife == Life!FairSpec

\* Whatever consumers do, a stored message leaves the table, unless admins
\* requeue for ever: nobody's death, and no order in which the jobs meet the
\* message, strands it in a status no statement looks at (repo.go:389-531,
\* 674-739).
MessagesLeave ==
  \/ []<><<\E c \in Caller : Requeue(c)>>_messages
  \/ \A i \in Id : i \in DOMAIN messages ~> i \notin DOMAIN messages
=============================================================================
