--------------------------- MODULE ForqAgingProofs --------------------------
(***************************************************************************)
(* Proofs about ForqAging, for every value of its constants: relative      *)
(* times stay within the horizon, and each step is one of a message's life *)
(* or none of it.  Progress is left to TLC.                                *)
(***************************************************************************)
EXTENDS ForqAging, TLAPS

Past == -Horizon .. Now

\* A time that is aged, and may lie ahead.
Time == {t \in Int : t >= -Horizon}

(***************************************************************************)
(* The inductive invariant.  Each row and each waiting call has aged times *)
(* only; status, receipt, attempts and queue of a row agree; and the ids   *)
(* of waiting produces are not stored and differ.                          *)
(***************************************************************************)
RowFits(row) ==
  /\ row \in Row
  /\ row.queue \in QueueName /\ (row.isDlq <=> HasDlqSuffix(row.queue))
  /\ row.processAfter \in Time /\ row.receivedAt \in Time
  /\ row.expiresAfter \in Time
  /\ IF row.status = Processing
     THEN row.startedAt \in Past ELSE row.startedAt = NULL
  /\ row.attempts <= MaxDeliveryAttempts
  /\ row.status = Ready => row.attempts < MaxDeliveryAttempts

RegularQueue == {queue \in QueueName : ~ HasDlqSuffix(queue)}

Request ==
  [op : {"produce"}, id : Id, queue : RegularQueue, processAfter : Time, now : Past]
  \cup [op : {"claim"}, queue : QueueName, now : Past]
  \cup [op : {"nack"}, id : Id, queue : QueueName, receipt : Past, now : Past]
  \cup [op : {"requeueAll"}, queue : Dlq, now : Past]
  \cup [op : {"requeue"}, id : Id, queue : Dlq, now : Past]

TableFits ==
  /\ DOMAIN messages \subseteq produced /\ produced \subseteq Id
  /\ \A i \in DOMAIN messages : RowFits(messages[i])

CallsFit ==
  /\ DOMAIN pending = Process
  /\ pending = [p \in Process |-> pending[p]]
  /\ \A c \in Caller : pending[c] \in Request \cup {Idle}
  /\ \A j \in Job : pending[j] \in [op : {j}, now : Past] \cup {Idle}

EnteringApart ==
  \A c \in Caller : pending[c].op = "produce" =>
    /\ pending[c].id \in produced \ DOMAIN messages
    /\ \A d \in Caller \ {c} :
         pending[d].op = "produce" => pending[d].id # pending[c].id

IInv == TableFits /\ CallsFit /\ EnteringApart

-----------------------------------------------------------------------------
(***************************************************************************)
(* What the statements write fits.                                         *)
(***************************************************************************)
LEMMA Times ==
  /\ Horizon \in Nat /\ Now \in Past /\ Past \subseteq Time
  /\ Past \subseteq Int /\ NULL \notin Past
  /\ \A now \in Past : now + QueueTtl \in Time /\ now + DlqTtl \in Time
  /\ \A after \in Time : after + QueueTtl \in Time
<1>1. Horizon \in Nat /\ QueueTtl \in Nat /\ DlqTtl \in Nat
  BY AgingAssumption, RepoAssumption
<1>2. QED
  BY <1>1, RepoAssumption DEF Past, Time, Now

LEMMA BackoffInTime ==
  ASSUME NEW attempts \in Nat, NEW now \in Past
  PROVE  now + BackoffDelay(attempts) \in Time
<1>1. BackoffDelay(attempts) \in Nat
  BY RepoAssumption DEF BackoffDelay
<1>2. QED
  BY <1>1, Times DEF Past, Time

LEMMA Names ==
  /\ QueueName \subseteq Queue /\ RegularQueue \subseteq QueueName
  /\ Dlq \subseteq QueueName
  /\ \A queue \in RegularQueue :
       /\ ~ HasDlqSuffix(queue)
       /\ AppendDlqSuffix(queue) \in Dlq
  /\ \A queue \in Dlq : HasDlqSuffix(queue) /\ TrimDlqSuffix(queue) \in RegularQueue
BY DEF QueueName, Queue, RegularQueue, Dlq, HasDlqSuffix, AppendDlqSuffix,
       TrimDlqSuffix

LEMMA NewFits ==
  ASSUME NEW queue \in RegularQueue, NEW after \in Time, NEW now \in Past
  PROVE  RowFits(NewRow(queue, after, now))
<1>1. queue \in QueueName /\ queue \in Queue /\ ~ HasDlqSuffix(queue)
  BY Names
<1>2. after + QueueTtl \in Time /\ now \in Time /\ Time \subseteq Int
  BY Times DEF Time
<1>3. 0 < MaxDeliveryAttempts /\ 0 <= MaxDeliveryAttempts
  BY RepoAssumption
<1>4. NewRow(queue, after, now) \in Row
  BY <1>1, <1>2 DEF NewRow, Row, Status, Ready
<1>5. QED
  BY <1>1, <1>2, <1>3, <1>4 DEF NewRow, RowFits, Ready, Processing

LEMMA ClaimedFits ==
  ASSUME NEW row, RowFits(row), row.status = Ready, NEW now \in Past
  PROVE  LET new == Claimed(row, now) IN
         /\ RowFits(new) /\ new.status = Processing
         /\ new.isDlq = row.isDlq /\ new.attempts = row.attempts + 1
<1>1. row \in Row /\ row.attempts \in Nat /\ row.attempts < MaxDeliveryAttempts
  BY DEF RowFits, Row
<1>2. now \in Int
  BY Times
<1>3. row.attempts + 1 \in Nat /\ row.attempts + 1 <= MaxDeliveryAttempts
  BY <1>1, RepoAssumption
<1>4. Claimed(row, now) \in Row
  BY <1>1, <1>2, <1>3 DEF Claimed, Row, Status, Processing
<1>5. QED
  BY <1>1, <1>3, <1>4 DEF Claimed, RowFits, Row, Ready, Processing

\* A delivery that ends, by a nack or by stale recovery.
LEMMA ReleasedFits ==
  ASSUME NEW row, RowFits(row), row.status = Processing, NEW now \in Past,
         NEW new \in {Nacked(row, now), Recovered(row, now)}
  PROVE  /\ RowFits(new) /\ new.status # Processing
         /\ new.isDlq = row.isDlq /\ new.attempts = row.attempts
<1>1. row \in Row /\ row.attempts \in Nat /\ row.attempts <= MaxDeliveryAttempts
  BY DEF RowFits, Row
<1>2. /\ now \in Int /\ now \in Time
      /\ now + BackoffDelay(row.attempts) \in Time
      /\ now + BackoffDelay(row.attempts) \in Int
  BY <1>1, Times, BackoffInTime DEF Time
<1>3. /\ StatusAfterFailure(row) \in Status
      /\ StatusAfterFailure(row) # Processing
      /\ StatusAfterFailure(row) = Ready => row.attempts < MaxDeliveryAttempts
  BY <1>1, RepoAssumption
     DEF StatusAfterFailure, Status, Ready, Failed, Processing
<1>4. \E after \in Time :
        /\ after \in Int
        /\ new = [row EXCEPT !.status = StatusAfterFailure(row),
                             !.processAfter = after, !.startedAt = NULL]
  BY <1>2 DEF Nacked, Recovered
<1>5. new \in Row
  BY <1>1, <1>3, <1>4 DEF Row
<1>6. QED
  BY <1>1, <1>3, <1>4, <1>5 DEF RowFits, Row

LEMMA MovedFits ==
  ASSUME NEW row, RowFits(row), ~ row.isDlq, NEW reason \in Reason,
         NEW now \in Past
  PROVE  LET new == MovedToDlq(row, reason, now) IN
         /\ RowFits(new) /\ new.status # Processing
         /\ new.isDlq /\ new.attempts = 0
<1>1. row \in Row /\ row.queue \in RegularQueue
  BY DEF RowFits, RegularQueue
<1>2. /\ AppendDlqSuffix(row.queue) \in Dlq
      /\ AppendDlqSuffix(row.queue) \in QueueName
      /\ AppendDlqSuffix(row.queue) \in Queue
      /\ HasDlqSuffix(AppendDlqSuffix(row.queue))
  BY <1>1, Names
<1>3. now \in Int /\ now \in Time /\ now + DlqTtl \in Time /\ now + DlqTtl \in Int
  BY Times DEF Time
<1>4. 0 < MaxDeliveryAttempts /\ 0 <= MaxDeliveryAttempts
  BY RepoAssumption
<1>5. MovedToDlq(row, reason, now) \in Row
  BY <1>1, <1>2, <1>3 DEF MovedToDlq, Row, Status, Ready
<1>6. QED
  BY <1>1, <1>2, <1>3, <1>4, <1>5 DEF MovedToDlq, RowFits, Row, Ready, Processing

LEMMA RequeuedFits ==
  ASSUME NEW row, RowFits(row), NEW queue \in Dlq, NEW now \in Past
  PROVE  LET new == Requeued(row, queue, now) IN
         /\ RowFits(new) /\ new.status # Processing
         /\ ~ new.isDlq /\ new.attempts = 0
<1>1. row \in Row
  BY DEF RowFits
<1>2. /\ TrimDlqSuffix(queue) \in QueueName
      /\ TrimDlqSuffix(queue) \in Queue
      /\ ~ HasDlqSuffix(TrimDlqSuffix(queue))
  BY Names
<1>3. /\ now \in Int /\ now \in Time
      /\ now + QueueTtl \in Time /\ now + QueueTtl \in Int
  BY Times DEF Time
<1>4. 0 < MaxDeliveryAttempts /\ 0 <= MaxDeliveryAttempts
  BY RepoAssumption
<1>5. Requeued(row, queue, now) \in Row
  BY <1>1, <1>2, <1>3 DEF Requeued, Row, Status, Ready
<1>6. QED
  BY <1>1, <1>2, <1>3, <1>4, <1>5 DEF Requeued, RowFits, Row, Ready, Processing

LEMMA OlderFits ==
  /\ Older(NULL) = NULL
  /\ \A t \in Time : Older(t) \in Time
  /\ \A t \in Past : Older(t) \in Past
<1>1. Older(NULL) = NULL
  BY DEF Older
<1>2. ASSUME NEW t \in Time PROVE Older(t) \in Time
  BY Times DEF Older, Time
<1>3. ASSUME NEW t \in Past PROVE Older(t) \in Past
  BY Times DEF Older, Past, Now
<1>4. QED
  BY <1>1, <1>2, <1>3

LEMMA AgedFits ==
  ASSUME NEW row, RowFits(row)
  PROVE  LET new == AgedRow(row) IN
         /\ RowFits(new) /\ new.status = row.status
         /\ new.isDlq = row.isDlq /\ new.attempts = row.attempts
<1>1. row \in Row
  BY DEF RowFits
<1>2. /\ Older(row.processAfter) \in Time /\ Older(row.receivedAt) \in Time
      /\ Older(row.expiresAfter) \in Time
      /\ IF row.status = Processing
         THEN Older(row.startedAt) \in Past ELSE Older(row.startedAt) = NULL
  BY OlderFits DEF RowFits
<1>3. Older(row.startedAt) \in Int \cup {NULL}
  BY <1>2, Times
<1>4. AgedRow(row) \in Row
  BY <1>1, <1>2, <1>3 DEF AgedRow, Row, Time
<1>5. QED
  BY <1>1, <1>2, <1>4 DEF AgedRow, RowFits, Row

-----------------------------------------------------------------------------
(***************************************************************************)
(* The waiting calls.                                                      *)
(***************************************************************************)
\* A step that leaves each waiting produce where it is, and adds none.
CallsKept ==
  /\ CallsFit'
  /\ \A c \in Caller :
       /\ pending'[c].op = "produce" <=> pending[c].op = "produce"
       /\ pending[c].op = "produce" => pending'[c].id = pending[c].id

LEMMA Processes ==
  /\ Caller \subseteq Process /\ Job \subseteq Process
  /\ \A p \in Process : p \in Caller \/ p \in Job
  /\ \A j \in Job : j \notin Caller
  /\ \A j \in Job : j # "produce" /\ j # "idle"
BY AgingAssumption DEF Process, Job

LEMMA CallTypes ==
  ASSUME CallsFit
  PROVE  /\ \A c \in Caller : pending[c].op = "produce" =>
              /\ pending[c].id \in Id /\ pending[c].queue \in RegularQueue
              /\ pending[c].processAfter \in Time /\ pending[c].now \in Past
         /\ \A c \in Caller : pending[c].op = "claim" => pending[c].now \in Past
         /\ \A c \in Caller : pending[c].op = "nack" => pending[c].now \in Past
         /\ \A c \in Caller : pending[c].op \in {"requeueAll", "requeue"} =>
              pending[c].queue \in Dlq /\ pending[c].now \in Past
         /\ \A j \in Job : pending[j] # Idle => pending[j].now \in Past
         /\ \A j \in Job : pending[j].op # "produce"
<1>1. \A c \in Caller : pending[c] \in Request \cup {Idle}
  BY DEF CallsFit
<1>2. \A j \in Job : pending[j] \in [op : {j}, now : Past] \cup {Idle}
  BY DEF CallsFit
<1>3. QED
  BY <1>1, <1>2, Processes DEF Request, Idle

\* One process is given a call, or its wait is over.
LEMMA OneCall ==
  ASSUME CallsFit, NEW p \in Process, NEW call,
         pending' = [pending EXCEPT ![p] = call],
         call = Idle \/ (p \in Caller /\ call \in Request)
                     \/ (p \in Job /\ call \in [op : {p}, now : Past])
  PROVE  /\ CallsFit'
         /\ pending'[p] = call
         /\ \A other \in Process \ {p} : pending'[other] = pending[other]
<1>1. /\ DOMAIN pending = Process
      /\ pending'[p] = call
      /\ \A other \in Process \ {p} : pending'[other] = pending[other]
      /\ DOMAIN pending' = Process
      /\ pending' = [q \in Process |-> pending'[q]]
  BY DEF CallsFit
<1>2. \A c \in Caller : pending'[c] \in Request \cup {Idle}
  BY <1>1, Processes DEF CallsFit
<1>3. \A j \in Job : pending'[j] \in [op : {j}, now : Past] \cup {Idle}
  BY <1>1, Processes DEF CallsFit
<1>4. QED
  BY <1>1, <1>2, <1>3 DEF CallsFit

LEMMA FinishKeeps ==
  ASSUME CallsFit, NEW p \in Process, pending[p].op # "produce", Finish(p)
  PROVE  CallsKept
<1>1. /\ CallsFit' /\ pending'[p] = Idle
      /\ \A other \in Process \ {p} : pending'[other] = pending[other]
  BY OneCall DEF Finish
<1>2. QED
  BY <1>1, Processes DEF CallsKept, Idle

LEMMA BeginKeeps ==
  ASSUME CallsFit, NEW p \in Process, NEW call, Begin(p, call),
         call.op # "produce",
         (p \in Caller /\ call \in Request) \/ (p \in Job /\ call \in [op : {p}, now : Past])
  PROVE  CallsKept
<1>1. /\ CallsFit' /\ pending'[p] = call
      /\ \A other \in Process \ {p} : pending'[other] = pending[other]
  BY OneCall DEF Begin
<1>2. pending[p].op # "produce"
  BY DEF Begin, Idle
<1>3. QED
  BY <1>1, <1>2, Processes DEF CallsKept

LEMMA SameKeeps ==
  ASSUME CallsFit, UNCHANGED pending
  PROVE  CallsKept
BY DEF CallsFit, CallsKept

\* Every waiting call gets older.
LEMMA AgedCallFits ==
  ASSUME NEW call, call \in Request \cup {Idle}
  PROVE  /\ AgedCall(call) \in Request \cup {Idle}
         /\ AgedCall(call).op = call.op
         /\ call.op = "produce" => AgedCall(call).id = call.id
<1>1. CASE call = Idle
  BY <1>1 DEF AgedCall, Idle
<1>2. CASE call \in [op : {"produce"}, id : Id, queue : RegularQueue,
                     processAfter : Time, now : Past]
  <2>1. AgedCall(call) = [call EXCEPT !.now = Older(@), !.processAfter = Older(@)]
    BY <1>2 DEF AgedCall, Idle
  <2>2. Older(call.now) \in Past /\ Older(call.processAfter) \in Time
    BY <1>2, OlderFits
  <2>3. QED
    BY <1>2, <2>1, <2>2 DEF Request
<1>3. CASE call \in [op : {"nack"}, id : Id, queue : QueueName, receipt : Past,
                     now : Past]
  <2>1. AgedCall(call) = [call EXCEPT !.now = Older(@), !.receipt = Older(@)]
    BY <1>3 DEF AgedCall, Idle
  <2>2. Older(call.now) \in Past /\ Older(call.receipt) \in Past
    BY <1>3, OlderFits
  <2>3. QED
    BY <1>3, <2>1, <2>2 DEF Request
<1>4. CASE call \in [op : {"claim"}, queue : QueueName, now : Past]
                 \cup [op : {"requeueAll"}, queue : Dlq, now : Past]
                 \cup [op : {"requeue"}, id : Id, queue : Dlq, now : Past]
  <2>1. AgedCall(call) = [call EXCEPT !.now = Older(@)]
    BY <1>4 DEF AgedCall, Idle
  <2>2. Older(call.now) \in Past
    BY <1>4, OlderFits
  <2>3. QED
    BY <1>4, <2>1, <2>2 DEF Request
<1>5. QED
  BY <1>1, <1>2, <1>3, <1>4 DEF Request

LEMMA AgingKeeps ==
  ASSUME CallsFit, pending' = [p \in Process |-> AgedCall(pending[p])]
  PROVE  CallsKept
<1>1. /\ DOMAIN pending' = Process
      /\ pending' = [p \in Process |-> pending'[p]]
      /\ \A p \in Process : pending'[p] = AgedCall(pending[p])
  OBVIOUS
<1>2. \A c \in Caller : /\ pending'[c] \in Request \cup {Idle}
                        /\ pending'[c].op = pending[c].op
                        /\ pending[c].op = "produce" => pending'[c].id = pending[c].id
  BY <1>1, AgedCallFits, Processes DEF CallsFit
<1>3. ASSUME NEW j \in Job
      PROVE  pending'[j] \in [op : {j}, now : Past] \cup {Idle}
  <2>1. pending'[j] = AgedCall(pending[j])
    BY <1>1, Processes
  <2>2. CASE pending[j] = Idle
    BY <2>1, <2>2 DEF AgedCall, Idle
  <2>3. CASE pending[j] \in [op : {j}, now : Past]
    <3>1. pending[j].op \notin {"produce", "nack", "idle"}
      BY <2>3 DEF Job
    <3>2. AgedCall(pending[j]) = [pending[j] EXCEPT !.now = Older(@)]
      BY <3>1 DEF AgedCall, Idle
    <3>3. Older(pending[j].now) \in Past
      BY <2>3, OlderFits
    <3>4. QED
      BY <2>1, <2>3, <3>2, <3>3
  <2>4. QED
    BY <2>2, <2>3 DEF CallsFit
<1>4. QED
  BY <1>1, <1>2, <1>3 DEF CallsKept, CallsFit

-----------------------------------------------------------------------------
(***************************************************************************)
(* A message before and after a step.                                      *)
(***************************************************************************)
Stays(i) ==
  /\ PlaceOf(i)' = PlaceOf(i)
  /\ (i \in Leases)' <=> i \in Leases
  /\ TriesOf(i)' = TriesOf(i)

Goes(i, there) ==
  /\ PlaceOf(i)' = there
  /\ ~ (i \in Leases)'
  /\ TriesOf(i)' = 0

LEMMA LeasedBoolean ==
  ASSUME NEW i
  PROVE  (i \in Leases) \in BOOLEAN /\ (i \in Leases)' \in BOOLEAN
OBVIOUS

LEMMA GoSteps ==
  ASSUME NEW S \in SUBSET Id, NEW there,
         \A i \in S : Goes(i, there), \A i \in Id \ S : Stays(i)
  PROVE  Life!Go(S, there)
<1>1. \A i \in Id : (i \in Leases)' = IF i \in S THEN FALSE ELSE i \in Leases
  BY LeasedBoolean DEF Goes, Stays
<1>2. \A i \in Id : /\ PlaceOf(i)' = IF i \in S THEN there ELSE PlaceOf(i)
                    /\ TriesOf(i)' = IF i \in S THEN 0 ELSE TriesOf(i)
  BY DEF Goes, Stays
<1>3. QED
  BY <1>1, <1>2 DEF Life!Go

LEMMA StutterSteps ==
  ASSUME \A i \in Id : Stays(i)
  PROVE  UNCHANGED Life!lifeVars
BY DEF Life!lifeVars, Stays

LEMMA RowMeans ==
  ASSUME TableFits, EnteringApart, NEW i \in DOMAIN messages
  PROVE  /\ i \in Id /\ ~ Entering(i) /\ i \in produced
         /\ PlaceOf(i) = IF messages[i].isDlq THEN "dlq" ELSE "queue"
         /\ i \in Leases <=> messages[i].status = Processing
         /\ TriesOf(i) = messages[i].attempts
<1>1. i \in Id /\ i \in produced
  BY DEF TableFits
<1>2. ~ Entering(i)
  BY DEF EnteringApart, Entering
<1>3. QED
  BY <1>1, <1>2 DEF PlaceOf, Leases, TriesOf

\* No id enters, and no message is stored.
Shrinks ==
  /\ CallsKept /\ UNCHANGED produced
  /\ DOMAIN messages' \subseteq DOMAIN messages

LEMMA ShrinkSteps ==
  ASSUME IInv, Shrinks, NEW i \in Id
  PROVE  /\ EnteringApart'
         /\ i \notin DOMAIN messages => Stays(i)
         /\ i \in DOMAIN messages \ DOMAIN messages' => Goes(i, "gone")
         /\ i \in DOMAIN messages' =>
              /\ PlaceOf(i)' = IF messages'[i].isDlq THEN "dlq" ELSE "queue"
              /\ (i \in Leases)' <=> messages'[i].status = Processing
              /\ TriesOf(i)' = messages'[i].attempts
<1>1. EnteringApart'
  BY DEF IInv, EnteringApart, Shrinks, CallsKept
<1>2. Entering(i)' <=> Entering(i)
  BY DEF Shrinks, CallsKept, Entering
<1>3. i \in DOMAIN messages => i \in produced /\ ~ Entering(i)
  BY RowMeans DEF IInv
<1>4. produced' = produced /\ DOMAIN messages' \subseteq DOMAIN messages
  BY DEF Shrinks
<1>5. /\ PlaceOf(i)' = IF i \notin produced' \/ Entering(i)' THEN "new"
                       ELSE IF i \notin DOMAIN messages' THEN "gone"
                       ELSE IF messages'[i].isDlq THEN "dlq" ELSE "queue"
      /\ (i \in Leases)' <=> (i \in DOMAIN messages' /\ messages'[i].status = Processing)
      /\ TriesOf(i)' = IF i \in DOMAIN messages' THEN messages'[i].attempts ELSE 0
  BY DEF PlaceOf, Leases, TriesOf
<1>6. i \notin DOMAIN messages => Stays(i)
  BY <1>2, <1>4, <1>5 DEF Stays, PlaceOf, Leases, TriesOf
<1>7. i \in DOMAIN messages \ DOMAIN messages' => Goes(i, "gone")
  BY <1>2, <1>3, <1>4, <1>5 DEF Goes
<1>8. QED
  BY <1>1, <1>2, <1>3, <1>4, <1>5, <1>6, <1>7

\* Statements that rewrite the rows `ids`, and leave the others alone.
Rewrites(ids, new) ==
  /\ ids \subseteq DOMAIN messages
  /\ \A i \in ids : RowFits(new[i])
  /\ messages' = [i \in DOMAIN messages |-> IF i \in ids THEN new[i] ELSE messages[i]]

LEMMA RewriteSteps ==
  ASSUME IInv, CallsKept, UNCHANGED produced, NEW ids, NEW new, Rewrites(ids, new)
  PROVE  /\ IInv' /\ ids \in SUBSET Id
         /\ \A i \in Id \ ids : Stays(i)
         /\ \A i \in ids :
              /\ PlaceOf(i)' = IF new[i].isDlq THEN "dlq" ELSE "queue"
              /\ (i \in Leases)' <=> new[i].status = Processing
              /\ TriesOf(i)' = new[i].attempts
<1>1. /\ DOMAIN messages' = DOMAIN messages
      /\ \A i \in ids : messages'[i] = new[i]
      /\ \A i \in DOMAIN messages \ ids : messages'[i] = messages[i]
  BY DEF Rewrites
<1>2. Shrinks
  BY <1>1 DEF Shrinks
<1>3. TableFits'
  BY <1>1 DEF IInv, TableFits, Rewrites
<1>4. IInv'
  <2>1. EnteringApart'
    BY DEF IInv, EnteringApart, CallsKept, Rewrites
  <2>2. QED
    BY <1>3, <2>1 DEF IInv, CallsKept
<1>5. ids \in SUBSET Id
  BY DEF IInv, TableFits, Rewrites
<1>6. ASSUME NEW i \in Id \ ids PROVE Stays(i)
  <2>1. CASE i \notin DOMAIN messages
    BY <1>2, <2>1, ShrinkSteps
  <2>2. CASE i \in DOMAIN messages
    BY <1>1, <1>2, <2>2, ShrinkSteps, RowMeans DEF Stays, IInv
  <2>3. QED
    BY <2>1, <2>2
<1>7. ASSUME NEW i \in ids
      PROVE  /\ PlaceOf(i)' = IF new[i].isDlq THEN "dlq" ELSE "queue"
             /\ (i \in Leases)' <=> new[i].status = Processing
             /\ TriesOf(i)' = new[i].attempts
  <2>1. i \in Id /\ i \in DOMAIN messages' /\ messages'[i] = new[i]
    BY <1>1, <1>5 DEF Rewrites
  <2>2. QED
    BY <1>2, <2>1, ShrinkSteps
<1>8. QED
  BY <1>4, <1>5, <1>6, <1>7

-----------------------------------------------------------------------------
(***************************************************************************)
(* Each kind of step keeps the invariant, and is a step of a life.         *)
(***************************************************************************)
LifeStep == Life!Next \/ UNCHANGED Life!lifeVars

LEMMA QuietHolds ==
  ASSUME IInv, CallsKept, UNCHANGED <<messages, produced>>
  PROVE  IInv' /\ LifeStep
<1>1. Shrinks
  BY DEF Shrinks
<1>2. TableFits' /\ CallsFit' /\ EnteringApart'
  BY DEF IInv, TableFits, EnteringApart, CallsKept
<1>3. ASSUME NEW i \in Id PROVE Stays(i)
  BY <1>1, ShrinkSteps, RowMeans DEF IInv, Stays
<1>4. QED
  BY <1>2, <1>3, StutterSteps DEF IInv, LifeStep

\* Time rewrites every row and moves none.
LEMMA AgedHolds ==
  ASSUME IInv, CallsKept, UNCHANGED produced,
         messages' = [i \in DOMAIN messages |-> AgedRow(messages[i])]
  PROVE  IInv' /\ LifeStep
<1> DEFINE new == [i \in DOMAIN messages |-> AgedRow(messages[i])]
<1>1. \A i \in DOMAIN messages :
        /\ RowFits(new[i]) /\ new[i].status = messages[i].status
        /\ new[i].isDlq = messages[i].isDlq
        /\ new[i].attempts = messages[i].attempts
  BY AgedFits DEF IInv, TableFits
<1>2. Rewrites(DOMAIN messages, new)
  BY <1>1 DEF Rewrites
<1> HIDE DEF new
<1>3. /\ IInv'
      /\ \A i \in Id \ DOMAIN messages : Stays(i)
      /\ \A i \in DOMAIN messages :
           /\ PlaceOf(i)' = IF new[i].isDlq THEN "dlq" ELSE "queue"
           /\ (i \in Leases)' <=> new[i].status = Processing
           /\ TriesOf(i)' = new[i].attempts
  BY <1>2, RewriteSteps
<1>4. \A i \in DOMAIN messages : Stays(i)
  BY <1>1, <1>3, RowMeans DEF IInv, Stays
<1>5. QED
  BY <1>3, <1>4, StutterSteps DEF LifeStep

LEMMA ReleaseHolds ==
  ASSUME IInv, CallsKept, UNCHANGED produced, NEW ids, NEW new,
         Rewrites(ids, new),
         \A i \in ids : /\ messages[i].status = Processing
                        /\ new[i].status # Processing
                        /\ new[i].isDlq = messages[i].isDlq
                        /\ new[i].attempts = messages[i].attempts
  PROVE  IInv' /\ LifeStep
<1>1. /\ IInv' /\ ids \in SUBSET Id
      /\ \A i \in Id \ ids : Stays(i)
      /\ \A i \in ids :
           /\ PlaceOf(i)' = IF new[i].isDlq THEN "dlq" ELSE "queue"
           /\ (i \in Leases)' <=> new[i].status = Processing
           /\ TriesOf(i)' = new[i].attempts
  BY RewriteSteps
<1>2. \A i \in ids : i \in DOMAIN messages
  BY DEF Rewrites
<1>3. \A i \in ids : /\ PlaceOf(i)' = PlaceOf(i) /\ TriesOf(i)' = TriesOf(i)
                     /\ i \in Leases /\ ~ (i \in Leases)'
  BY <1>1, <1>2, RowMeans DEF IInv
<1>4. \A i \in Id : (i \in Leases)' = (i \in Leases /\ i \notin ids)
  BY <1>1, <1>3, LeasedBoolean DEF Stays
<1>5. \A i \in Id : PlaceOf(i)' = PlaceOf(i) /\ TriesOf(i)' = TriesOf(i)
  BY <1>1, <1>3 DEF Stays
<1>6. Life!Release(ids)
  <2>1. \A i \in ids : [j \in Id |-> j \in Leases][i]
    BY <1>1, <1>3
  <2>2. \A i \in Id : [j \in Id |-> j \in Leases][i] = (i \in Leases)
    OBVIOUS
  <2>3. [i \in Id |-> i \in Leases]'
          = [i \in Id |-> [j \in Id |-> j \in Leases][i] /\ i \notin ids]
    BY <1>4, <2>2
  <2>4. QED
    BY <1>5, <2>1, <2>3 DEF Life!Release
<1>7. QED
  BY <1>1, <1>6 DEF LifeStep, Life!Next

\* Moves between a queue and its DLQ.
LEMMA MoveHolds ==
  ASSUME IInv, CallsKept, UNCHANGED produced, NEW ids, NEW new,
         Rewrites(ids, new),
         \A i \in ids : /\ messages[i].status # Processing
                        /\ new[i].status # Processing /\ new[i].attempts = 0,
         \/ \A i \in ids : messages[i].isDlq = FALSE /\ new[i].isDlq = TRUE
         \/ \A i \in ids : messages[i].isDlq = TRUE /\ new[i].isDlq = FALSE
  PROVE  IInv' /\ LifeStep
<1>1. /\ IInv' /\ ids \in SUBSET Id
      /\ \A i \in Id \ ids : Stays(i)
      /\ \A i \in ids :
           /\ PlaceOf(i)' = IF new[i].isDlq THEN "dlq" ELSE "queue"
           /\ (i \in Leases)' <=> new[i].status = Processing
           /\ TriesOf(i)' = new[i].attempts
  BY RewriteSteps
<1>2. \A i \in ids : /\ PlaceOf(i) = IF messages[i].isDlq THEN "dlq" ELSE "queue"
                     /\ ~ (i \in Leases)
  BY RowMeans DEF IInv, Rewrites
<1>3. CASE \A i \in ids : messages[i].isDlq = FALSE /\ new[i].isDlq = TRUE
  <2>1. Life!Go(ids, "dlq")
    BY <1>1, <1>3, GoSteps DEF Goes
  <2>2. Life!Bury(ids)
    BY <1>1, <1>2, <1>3, <2>1 DEF Life!Bury, Life!Unleased
  <2>3. QED
    BY <1>1, <2>2 DEF LifeStep, Life!Next
<1>4. CASE \A i \in ids : messages[i].isDlq = TRUE /\ new[i].isDlq = FALSE
  <2>1. Life!Go(ids, "queue")
    BY <1>1, <1>4, GoSteps DEF Goes
  <2>2. Life!Revive(ids)
    BY <1>1, <1>2, <1>4, <2>1 DEF Life!Revive, Life!Unleased
  <2>3. QED
    BY <1>1, <2>2 DEF LifeStep, Life!Next
<1>5. QED
  BY <1>3, <1>4

\* A claim leases a message that was ready, so it had a try left.
LEMMA DeliverHolds ==
  ASSUME IInv, CallsKept, UNCHANGED produced, NEW id \in DOMAIN messages,
         NEW now \in Past, messages[id].status = Ready,
         messages' = ClaimMessage(messages, id, now)
  PROVE  IInv' /\ LifeStep
<1> DEFINE new == [i \in {id} |-> Claimed(messages[i], now)]
<1>1. /\ RowFits(messages[id]) /\ id \in Id
      /\ messages[id].status # Processing
      /\ messages[id].attempts \in Nat
      /\ messages[id].attempts < MaxDeliveryAttempts
  BY DEF IInv, TableFits, RowFits, Row, Ready, Processing
<1>2. /\ RowFits(new[id]) /\ new[id].status = Processing
      /\ new[id].isDlq = messages[id].isDlq
      /\ new[id].attempts = messages[id].attempts + 1
  BY <1>1, ClaimedFits
<1>3. Rewrites({id}, new)
  BY <1>2 DEF Rewrites, ClaimMessage
<1> HIDE DEF new
<1>4. /\ IInv'
      /\ \A i \in Id \ {id} : Stays(i)
      /\ PlaceOf(id)' = IF new[id].isDlq THEN "dlq" ELSE "queue"
      /\ (id \in Leases)' <=> new[id].status = Processing
      /\ TriesOf(id)' = new[id].attempts
  BY <1>3, RewriteSteps
<1>5. /\ PlaceOf(id) \in {"queue", "dlq"} /\ PlaceOf(id)' = PlaceOf(id)
      /\ ~ (id \in Leases) /\ (id \in Leases)' = TRUE
      /\ TriesOf(id) < MaxDeliveryAttempts /\ TriesOf(id)' = TriesOf(id) + 1
  BY <1>1, <1>2, <1>4, RowMeans, LeasedBoolean DEF IInv
<1>6. \A i \in Id \ {id} : (i \in Leases)' = (i \in Leases)
  BY <1>4, LeasedBoolean DEF Stays
<1>7. /\ [i \in Id |-> i \in Leases]'
           = [[i \in Id |-> i \in Leases] EXCEPT ![id] = TRUE]
      /\ [i \in Id |-> TriesOf(i)]'
           = [[i \in Id |-> TriesOf(i)] EXCEPT ![id] = @ + 1]
      /\ [i \in Id |-> PlaceOf(i)]' = [i \in Id |-> PlaceOf(i)]
  BY <1>1, <1>4, <1>5, <1>6 DEF Stays
<1>8. Life!Deliver(id)
  BY <1>1, <1>5, <1>7 DEF Life!Deliver, Life!Unleased
<1>9. QED
  BY <1>1, <1>4, <1>8 DEF LifeStep, Life!Next

\* Rows that are deleted.
LEMMA RemoveHolds ==
  ASSUME IInv, CallsKept, UNCHANGED produced, NEW ids,
         ids \subseteq DOMAIN messages, messages' = Without(messages, ids)
  PROVE  /\ IInv' /\ ids \in SUBSET Id
         /\ Life!Go(ids, "gone")
<1>1. /\ DOMAIN messages' = DOMAIN messages \ ids
      /\ \A i \in DOMAIN messages' : messages'[i] = messages[i]
  BY DEF Without
<1>2. Shrinks /\ ids \in SUBSET Id
  BY <1>1 DEF Shrinks, IInv, TableFits
<1>3. TableFits'
  BY <1>1 DEF IInv, TableFits
<1>4. EnteringApart'
  BY <1>1 DEF IInv, EnteringApart, CallsKept
<1>5. \A i \in ids : Goes(i, "gone")
  BY <1>1, <1>2, ShrinkSteps
<1>6. ASSUME NEW i \in Id \ ids PROVE Stays(i)
  BY <1>1, <1>2, ShrinkSteps, RowMeans DEF Stays, IInv
<1>7. QED
  BY <1>2, <1>3, <1>4, <1>5, <1>6, GoSteps DEF IInv, CallsKept

LEMMA DropHolds ==
  ASSUME IInv, CallsKept, UNCHANGED produced, NEW ids,
         \A i \in ids : i \in DOMAIN messages /\ messages[i].isDlq,
         messages' = Without(messages, ids)
  PROVE  IInv' /\ LifeStep
<1>1. IInv' /\ ids \in SUBSET Id /\ Life!Go(ids, "gone")
  BY RemoveHolds
<1>2. \A i \in ids : PlaceOf(i) = "dlq"
  BY RowMeans DEF IInv
<1>3. Life!Drop(ids)
  BY <1>1, <1>2 DEF Life!Drop
<1>4. QED
  BY <1>1, <1>3 DEF LifeStep, Life!Next

LEMMA CompleteHolds ==
  ASSUME IInv, CallsKept, UNCHANGED produced, NEW id \in DOMAIN messages,
         messages[id].status = Processing, messages' = Without(messages, {id})
  PROVE  IInv' /\ LifeStep
<1>1. IInv' /\ id \in Id /\ Life!Go({id}, "gone")
  BY RemoveHolds
<1>2. id \in Leases
  BY DEF Leases
<1>3. Life!Complete(id)
  BY <1>1, <1>2 DEF Life!Complete
<1>4. QED
  BY <1>1, <1>3 DEF LifeStep, Life!Next

-----------------------------------------------------------------------------
(***************************************************************************)
(* Every action.                                                           *)
(***************************************************************************)
Holds == IInv' /\ LifeStep

\* The id is new to the table and to the other produces.
LEMMA BeginProduceHolds ==
  ASSUME IInv, NEW c \in Caller, BeginProduce(c)
  PROVE  Holds
<1>1. PICK id \in Id \ produced, base \in Base, delay \in RequestedDelays :
        /\ Begin(c, [op |-> "produce", id |-> id,
                     queue |-> [base |-> base, suffixes |-> 0],
                     processAfter |-> Now + delay, now |-> Now])
        /\ produced' = produced \cup {id}
  BY DEF BeginProduce
<1> DEFINE call == [op |-> "produce", id |-> id,
                    queue |-> [base |-> base, suffixes |-> 0],
                    processAfter |-> Now + delay, now |-> Now]
<1>2. call \in Request
  <2>1. [base |-> base, suffixes |-> 0] \in RegularQueue
    BY DEF RegularQueue, QueueName, HasDlqSuffix
  <2>2. Now + delay \in Time /\ Now \in Past
    BY AgingAssumption, Times DEF Now, Time
  <2>3. QED
    BY <2>1, <2>2 DEF Request
<1>3. /\ pending[c] = Idle /\ pending' = [pending EXCEPT ![c] = call]
      /\ messages' = messages
  BY <1>1 DEF Begin
<1> HIDE DEF call
<1>4. /\ CallsFit' /\ pending'[c] = call
      /\ \A p \in Process \ {c} : pending'[p] = pending[p]
  BY <1>2, <1>3, Processes, OneCall DEF IInv
<1>5. call.op = "produce" /\ call.id = id
  BY DEF call
<1>6. TableFits'
  BY <1>1, <1>3 DEF IInv, TableFits
<1>7. EnteringApart'
  BY <1>1, <1>3, <1>4, <1>5, Processes DEF IInv, EnteringApart, TableFits
<1>8. ASSUME NEW i \in Id PROVE Stays(i)
  <2>1. Entering(i)' <=> (Entering(i) \/ i = id)
    BY <1>3, <1>4, <1>5, Processes DEF Entering, Idle
  <2>2. i = id => i \notin DOMAIN messages
    BY <1>1 DEF IInv, TableFits
  <2>3. QED
    BY <1>1, <1>3, <2>1, <2>2 DEF Stays, PlaceOf, Leases, TriesOf
<1>9. QED
  BY <1>4, <1>6, <1>7, <1>8, StutterSteps DEF Holds, IInv, LifeStep

LEMMA BeginRequestHolds ==
  ASSUME IInv, NEW c \in Caller, BeginRequest(c)
  PROVE  Holds
<1>1. Now \in Past
  BY Times
<1>2. PICK call \in Request : call.op # "produce" /\ Begin(c, call)
  <2>1. ASSUME NEW queue \in QueueName
        PROVE  [op |-> "claim", queue |-> queue, now |-> Now] \in Request
    BY <1>1 DEF Request
  <2>2. ASSUME NEW i \in Leases
        PROVE  [op |-> "nack", id |-> i, queue |-> messages[i].queue,
                receipt |-> messages[i].startedAt, now |-> Now] \in Request
    <3>1. i \in Id /\ messages[i].queue \in QueueName /\ messages[i].startedAt \in Past
      BY DEF Leases, IInv, TableFits, RowFits
    <3>2. QED
      BY <1>1, <3>1 DEF Request
  <2>3. ASSUME NEW queue \in Dlq
        PROVE  [op |-> "requeueAll", queue |-> queue, now |-> Now] \in Request
    BY <1>1 DEF Request
  <2>4. ASSUME NEW i \in DOMAIN messages, NEW queue \in Dlq
        PROVE  [op |-> "requeue", id |-> i, queue |-> queue, now |-> Now] \in Request
    <3>1. i \in Id
      BY DEF IInv, TableFits
    <3>2. QED
      BY <1>1, <3>1 DEF Request
  <2>5. QED
    BY <2>1, <2>2, <2>3, <2>4 DEF BeginRequest
<1>3. CallsKept
  BY <1>2, Processes, BeginKeeps DEF IInv
<1>4. UNCHANGED <<messages, produced>>
  BY <1>2 DEF BeginRequest, Begin
<1>5. QED
  BY <1>3, <1>4, QuietHolds DEF Holds

\* The INSERT: the id of the waiting produce enters its queue.
LEMMA EnterHolds ==
  ASSUME IInv, NEW c \in Caller, Produced(pending[c]), Finish(c), UNCHANGED produced
  PROVE  Holds
<1> DEFINE call == pending[c]
           new == NewRow(call.queue, call.processAfter, call.now)
<1>1. /\ call.op = "produce" /\ call.id \in Id /\ call.queue \in RegularQueue
      /\ call.processAfter \in Time /\ call.now \in Past
  BY CallTypes DEF Produced, IInv
<1>2. RowFits(new)
  BY <1>1, NewFits
<1>3. new.isDlq = FALSE /\ new.status # Processing /\ new.attempts = 0
  BY DEF NewRow, Ready, Processing
<1>4. PICK id \in Id : id = call.id
  BY <1>1
<1>5. /\ DOMAIN messages' = DOMAIN messages \cup {id}
      /\ messages'[id] = new
      /\ \A i \in DOMAIN messages \ {id} : messages'[i] = messages[i]
  BY <1>4 DEF Produced, InsertMessage
<1>6. /\ id \in produced \ DOMAIN messages
      /\ \A d \in Caller \ {c} : pending[d].op = "produce" => pending[d].id # id
  BY <1>1, <1>4 DEF IInv, EnteringApart
<1> HIDE DEF new
<1>7. /\ CallsFit' /\ pending'[c] = Idle
      /\ \A p \in Process \ {c} : pending'[p] = pending[p]
  BY Processes, OneCall DEF IInv, Finish
<1>8. TableFits'
  BY <1>2, <1>5, <1>6 DEF IInv, TableFits
<1>9. EnteringApart'
  BY <1>5, <1>6, <1>7, Processes DEF IInv, EnteringApart, Idle
<1>10. /\ Entering(id) /\ ~ Entering(id)'
       /\ \A i \in Id \ {id} : Entering(i)' <=> Entering(i)
  <2>1. Entering(id)
    BY <1>1, <1>4 DEF Entering
  <2>2. ~ Entering(id)'
    BY <1>6, <1>7, Processes DEF Entering, Idle
  <2>3. ASSUME NEW i \in Id \ {id} PROVE Entering(i)' <=> Entering(i)
    BY <1>1, <1>4, <1>7, Processes DEF Entering, Idle
  <2>4. QED
    BY <2>1, <2>2, <2>3
<1>11. Goes(id, "queue")
  BY <1>3, <1>5, <1>6, <1>10 DEF Goes, PlaceOf, Leases, TriesOf
<1>12. ASSUME NEW i \in Id \ {id} PROVE Stays(i)
  BY <1>5, <1>10 DEF Stays, PlaceOf, Leases, TriesOf
<1>13. Life!Enter(id)
  <2>1. PlaceOf(id) = "new"
    BY <1>10 DEF PlaceOf
  <2>2. Life!Go({id}, "queue")
    BY <1>11, <1>12, GoSteps
  <2>3. QED
    BY <2>1, <2>2 DEF Life!Enter
<1>14. QED
  BY <1>7, <1>8, <1>9, <1>13 DEF Holds, IInv, LifeStep, Life!Next

\* Waiters that are cut: the ids of the produces among them never enter.
LEMMA RejectHolds ==
  ASSUME IInv, NEW S \in SUBSET Process, CallsFit',
         \A p \in Process : pending'[p] = IF p \in S THEN Idle ELSE pending[p],
         UNCHANGED <<messages, produced>>
  PROVE  Holds
<1> DEFINE ids == {i \in Id : \E c \in S \cap Caller :
                     pending[c].op = "produce" /\ pending[c].id = i}
<1>1. \A c \in Caller : pending'[c] = IF c \in S THEN Idle ELSE pending[c]
  BY Processes
<1>2. TableFits' /\ EnteringApart'
  BY <1>1 DEF IInv, TableFits, EnteringApart, Idle
<1>3. ASSUME NEW i \in ids
      PROVE  Entering(i) /\ ~ Entering(i)' /\ i \in produced \ DOMAIN messages
  <2>1. PICK c \in S \cap Caller : pending[c].op = "produce" /\ pending[c].id = i
    OBVIOUS
  <2>2. Entering(i) /\ i \in produced \ DOMAIN messages
    BY <2>1 DEF Entering, IInv, EnteringApart
  <2>3. ~ Entering(i)'
    BY <1>1, <2>1 DEF Entering, Idle, IInv, EnteringApart
  <2>4. QED
    BY <2>2, <2>3
<1>4. \A i \in Id \ ids : Entering(i)' <=> Entering(i)
  BY <1>1 DEF Entering, Idle
<1>5. \A i \in ids : PlaceOf(i) = "new" /\ Goes(i, "gone")
  BY <1>3 DEF Goes, PlaceOf, Leases, TriesOf
<1>6. \A i \in Id \ ids : Stays(i)
  BY <1>4 DEF Stays, PlaceOf, Leases, TriesOf
<1>7. ids \in SUBSET Id
  OBVIOUS
<1> HIDE DEF ids
<1>8. PICK T \in SUBSET Id : T = ids
  BY <1>7
<1>9. Life!Reject(T)
  BY <1>5, <1>6, <1>8, GoSteps DEF Life!Reject
<1>10. QED
  BY <1>2, <1>9 DEF Holds, IInv, LifeStep, Life!Next

LEMMA ConsumedHolds ==
  ASSUME IInv, NEW c \in Caller, Consumed(pending[c]), Finish(c), UNCHANGED produced
  PROVE  Holds
<1> DEFINE call == pending[c]
           ids == Consumable(messages, call.queue, call.now)
<1>1. call.op = "claim" /\ call.now \in Past /\ CallsKept
  BY CallTypes, FinishKeeps, Processes DEF Consumed, IInv
<1>2. CASE ids = {}
  BY <1>1, <1>2, QuietHolds DEF Consumed, Holds
<1>3. CASE ids # {}
  <2>1. PICK id \in ids : messages' = ClaimMessage(messages, id, call.now)
    BY <1>3 DEF Consumed, Oldest
  <2>2. id \in DOMAIN messages /\ messages[id].status = Ready
    BY <2>1 DEF Consumable
  <2>3. QED
    BY <1>1, <2>1, <2>2, DeliverHolds DEF Holds
<1>4. QED
  BY <1>2, <1>3

LEMMA RefusedHolds ==
  ASSUME IInv, NEW c \in Caller, Refused(pending[c]), Finish(c), UNCHANGED produced
  PROVE  Holds
<1> DEFINE call == pending[c]
           ids == Fenced(messages, call.id, call.queue, call.receipt)
           new == [i \in ids |-> Nacked(messages[i], call.now)]
<1>1. call.op = "nack" /\ call.now \in Past /\ CallsKept
  BY CallTypes, FinishKeeps, Processes DEF Refused, IInv
<1>2. \A i \in ids : i \in DOMAIN messages /\ messages[i].status = Processing
  BY DEF Fenced
<1>3. \A i \in ids : /\ RowFits(new[i]) /\ new[i].status # Processing
                     /\ new[i].isDlq = messages[i].isDlq
                     /\ new[i].attempts = messages[i].attempts
  BY <1>1, <1>2, ReleasedFits DEF IInv, TableFits
<1>4. Rewrites(ids, new)
  BY <1>2, <1>3 DEF Rewrites, Refused, UpdateMessageOnConsumingFailure
<1> HIDE DEF new, ids
<1>5. QED
  BY <1>1, <1>2, <1>3, <1>4, ReleaseHolds DEF Holds

LEMMA RequeueHolds ==
  ASSUME IInv, NEW c \in Caller, Requeue(c)
  PROVE  Holds
<1> DEFINE call == pending[c]
<1>1. /\ call.op \in {"requeueAll", "requeue"} /\ UNCHANGED produced
      /\ call.queue \in Dlq /\ call.now \in Past /\ CallsKept
  BY CallTypes, FinishKeeps, Processes
     DEF Requeue, RequeuedAll, RequeuedOne, IInv
<1>2. PICK ids \in SUBSET Requeueable(messages, call.queue) :
        messages' = [i \in DOMAIN messages |->
                       IF i \in ids THEN Requeued(messages[i], call.queue, call.now)
                       ELSE messages[i]]
  <2>1. CASE RequeuedAll(call)
    BY <2>1 DEF RequeuedAll, RequeueDlqMessages
  <2>2. CASE RequeuedOne(call)
    <3> DEFINE one == Requeueable(messages, call.queue) \cap {call.id}
    <3>1. messages' = [i \in DOMAIN messages |->
                         IF i \in one THEN Requeued(messages[i], call.queue, call.now)
                         ELSE messages[i]]
      BY <2>2 DEF RequeuedOne, RequeueDlqMessage
    <3>2. QED
      BY <3>1
  <2>3. QED
    BY <2>1, <2>2 DEF Requeue
<1> DEFINE new == [i \in ids |-> Requeued(messages[i], call.queue, call.now)]
<1>3. \A i \in ids : /\ i \in DOMAIN messages /\ messages[i].status # Processing
                     /\ messages[i].queue = call.queue
  BY <1>2 DEF Requeueable
<1>4. \A i \in ids : messages[i].isDlq = TRUE
  BY <1>1, <1>3, Names DEF IInv, TableFits, RowFits, Row
<1>5. \A i \in ids : /\ RowFits(new[i]) /\ new[i].status # Processing
                     /\ new[i].isDlq = FALSE /\ new[i].attempts = 0
  BY <1>1, <1>3, RequeuedFits DEF IInv, TableFits, RowFits, Row
<1>6. Rewrites(ids, new)
  BY <1>2, <1>3, <1>5 DEF Rewrites
<1> HIDE DEF new
<1>7. QED
  BY <1>1, <1>3, <1>4, <1>5, <1>6, MoveHolds DEF Holds

LEMMA AckHolds == ASSUME IInv, Ack PROVE Holds
<1>1. PICK i \in Leases :
        messages' = DeleteMessageOnAck(messages, i, messages[i].queue,
                                       messages[i].startedAt)
  BY DEF Ack
<1>2. i \in DOMAIN messages /\ messages[i].status = Processing
  BY DEF Leases
<1>3. Fenced(messages, i, messages[i].queue, messages[i].startedAt) = {i}
  BY <1>2 DEF Fenced
<1>4. messages' = Without(messages, {i}) /\ UNCHANGED produced /\ CallsKept
  BY <1>1, <1>3, SameKeeps DEF Ack, DeleteMessageOnAck, IInv
<1>5. QED
  BY <1>2, <1>4, CompleteHolds DEF Holds

\* A queue named by its suffix holds messages of a DLQ only.
LEMMA DeleteHolds == ASSUME IInv, Delete PROVE Holds
<1>1. UNCHANGED produced /\ CallsKept
  BY SameKeeps DEF Delete, IInv
<1>2. PICK ids : /\ messages' = Without(messages, ids)
                 /\ \A i \in ids : i \in DOMAIN messages /\ messages[i].isDlq
  <2>1. PICK queue \in Dlq :
          \/ messages' = DeleteAllMessagesFromQueue(messages, queue)
          \/ \E i \in DOMAIN messages :
               messages' = DeleteMessageFromDlq(messages, i, queue)
    BY DEF Delete
  <2>2. CASE messages' = DeleteAllMessagesFromQueue(messages, queue)
    <3>1. \A i \in DOMAIN messages : messages[i].queue = queue => messages[i].isDlq
      BY Names DEF IInv, TableFits, RowFits
    <3>2. QED
      BY <2>2, <3>1 DEF DeleteAllMessagesFromQueue
  <2>3. ASSUME NEW i \in DOMAIN messages,
               messages' = DeleteMessageFromDlq(messages, i, queue)
        PROVE  \E ids : /\ messages' = Without(messages, ids)
                        /\ \A j \in ids : j \in DOMAIN messages /\ messages[j].isDlq
    BY <2>3 DEF DeleteMessageFromDlq
  <2>4. QED
    BY <2>1, <2>2, <2>3
<1>3. QED
  BY <1>1, <1>2, DropHolds DEF Holds

LEMMA BeginTickHolds ==
  ASSUME IInv, NEW j \in Job, BeginTick(j)
  PROVE  Holds
<1>1. [op |-> j, now |-> Now] \in [op : {j}, now : Past]
  BY Times
<1>2. CallsKept
  BY <1>1, Processes, BeginKeeps DEF BeginTick, IInv
<1>3. QED
  BY <1>2, QuietHolds DEF BeginTick, Begin, Holds

LEMMA RecoverStaleHolds == ASSUME IInv, RecoverStale PROVE Holds
<1> DEFINE now == pending["stale"].now
           ids == Stale(messages, now)
           new == [i \in ids |-> Recovered(messages[i], now)]
<1>1. "stale" \in Job
  BY DEF Job
<1>2. now \in Past /\ CallsKept /\ UNCHANGED produced
  BY <1>1, CallTypes, FinishKeeps, Processes DEF RecoverStale, IInv
<1>3. \A i \in ids : i \in DOMAIN messages /\ messages[i].status = Processing
  BY DEF Stale
<1>4. \A i \in ids : /\ RowFits(new[i]) /\ new[i].status # Processing
                     /\ new[i].isDlq = messages[i].isDlq
                     /\ new[i].attempts = messages[i].attempts
  BY <1>2, <1>3, ReleasedFits DEF IInv, TableFits
<1>5. Rewrites(ids, new)
  BY <1>3, <1>4 DEF Rewrites, RecoverStale, UpdateStaleMessages
<1> HIDE DEF new, ids
<1>6. QED
  BY <1>2, <1>3, <1>4, <1>5, ReleaseHolds DEF Holds

LEMMA BuryHolds ==
  ASSUME IInv, CallsKept, UNCHANGED produced, NEW ids,
         NEW reason \in Reason, NEW now \in Past,
         \A i \in ids : /\ i \in DOMAIN messages /\ messages[i].isDlq = FALSE
                        /\ messages[i].status # Processing,
         messages' = [i \in DOMAIN messages |->
                        IF i \in ids THEN MovedToDlq(messages[i], reason, now)
                        ELSE messages[i]]
  PROVE  Holds
<1> DEFINE new == [i \in ids |-> MovedToDlq(messages[i], reason, now)]
<1>1. \A i \in ids : /\ RowFits(new[i]) /\ new[i].status # Processing
                     /\ new[i].isDlq = TRUE /\ new[i].attempts = 0
  BY MovedFits DEF IInv, TableFits, RowFits, Row
<1>2. Rewrites(ids, new)
  BY <1>1 DEF Rewrites
<1> HIDE DEF new
<1>3. QED
  BY <1>1, <1>2, MoveHolds DEF Holds

LEMMA MoveFailedHolds == ASSUME IInv, MoveFailed PROVE Holds
<1> DEFINE now == pending["failed"].now
<1>1. "failed" \in Job
  BY DEF Job
<1>2. now \in Past /\ CallsKept /\ UNCHANGED produced
  BY <1>1, CallTypes, FinishKeeps, Processes DEF MoveFailed, IInv
<1>3. \A i \in FailedRows(messages, FALSE) :
        /\ i \in DOMAIN messages /\ messages[i].isDlq = FALSE
        /\ messages[i].status # Processing
  BY DEF FailedRows, Failed, Processing
<1>4. messages' = [i \in DOMAIN messages |->
                     IF i \in FailedRows(messages, FALSE)
                     THEN MovedToDlq(messages[i], MaxAttemptsReached, now)
                     ELSE messages[i]]
  BY DEF MoveFailed, UpdateFailedMessagesForRegularQueues
<1>5. MaxAttemptsReached \in Reason
  BY DEF Reason
<1>6. QED
  BY <1>2, <1>3, <1>4, <1>5, BuryHolds

LEMMA DeleteFailedHolds == ASSUME IInv, DeleteFailed PROVE Holds
<1>1. CallsKept /\ UNCHANGED produced
  BY SameKeeps DEF DeleteFailed, IInv
<1>2. \A i \in FailedRows(messages, TRUE) : i \in DOMAIN messages /\ messages[i].isDlq
  BY DEF FailedRows
<1>3. messages' = Without(messages, FailedRows(messages, TRUE))
  BY DEF DeleteFailed, DeleteFailedMessagesFromDlq
<1>4. QED
  BY <1>1, <1>2, <1>3, DropHolds DEF Holds

\* A batch of a sweep, the last one or not.
LEMMA SweepKeeps ==
  ASSUME IInv, NEW j \in Job, NEW batch, Sweep(j, batch)
  PROVE  CallsKept
BY CallTypes, FinishKeeps, SameKeeps, Processes DEF Sweep, IInv

LEMMA BatchRows ==
  ASSUME NEW isDlq \in BOOLEAN, NEW now,
         NEW batch \in Batches(Expired(messages, isDlq, now))
  PROVE  \A i \in batch : /\ i \in DOMAIN messages /\ messages[i].isDlq = isDlq
                          /\ messages[i].status # Processing
BY DEF Batches, Expired, Ready, Failed, Processing

LEMMA MoveExpiredHolds == ASSUME IInv, MoveExpired PROVE Holds
<1> DEFINE now == pending["expired"].now
<1>1. "expired" \in Job
  BY DEF Job
<1>2. now \in Past
  BY <1>1, CallTypes DEF MoveExpired, IInv
<1>3. PICK batch \in Batches(Expired(messages, FALSE, now)) :
        /\ messages' = MoveExpiredBatch(messages, batch, now)
        /\ Sweep("expired", batch)
  BY DEF MoveExpired
<1>4. CallsKept /\ UNCHANGED produced
  BY <1>1, <1>3, SweepKeeps DEF MoveExpired
<1>5. \A i \in batch : /\ i \in DOMAIN messages /\ messages[i].isDlq = FALSE
                       /\ messages[i].status # Processing
  BY <1>3, BatchRows
<1>6. messages' = [i \in DOMAIN messages |->
                     IF i \in batch THEN MovedToDlq(messages[i], MessageExpired, now)
                     ELSE messages[i]]
  BY <1>3 DEF MoveExpiredBatch
<1>7. MessageExpired \in Reason
  BY DEF Reason
<1>8. QED
  BY <1>2, <1>4, <1>5, <1>6, <1>7, BuryHolds

LEMMA DeleteExpiredHolds == ASSUME IInv, DeleteExpired PROVE Holds
<1>1. "expiredDlq" \in Job
  BY DEF Job
<1>2. PICK batch \in Batches(Expired(messages, TRUE, pending["expiredDlq"].now)) :
        /\ messages' = DeleteExpiredBatch(messages, batch)
        /\ Sweep("expiredDlq", batch)
  BY DEF DeleteExpired
<1>3. CallsKept /\ UNCHANGED produced
  BY <1>1, <1>2, SweepKeeps DEF DeleteExpired
<1>4. \A i \in batch : i \in DOMAIN messages /\ messages[i].isDlq
  BY <1>2, BatchRows
<1>5. QED
  BY <1>2, <1>3, <1>4, DropHolds DEF Holds, DeleteExpiredBatch

LEMMA TickHolds == ASSUME IInv, Tick PROVE Holds
<1>1. CallsKept
  BY AgingKeeps DEF Tick, IInv
<1>2. QED
  BY <1>1, AgedHolds DEF Tick, Holds

LEMMA CutHolds ==
  ASSUME IInv, Restart \/ \E p \in Process : Abandon(p)
  PROVE  Holds
<1>1. CASE Restart
  <2>1. CallsFit'
    BY <1>1, Processes DEF Restart, CallsFit
  <2>2. \A p \in Process : pending'[p] = IF p \in Process THEN Idle ELSE pending[p]
    BY <1>1 DEF Restart
  <2>3. QED
    BY <1>1, <2>1, <2>2, RejectHolds DEF Restart
<1>2. ASSUME NEW p \in Process, Abandon(p) PROVE Holds
  <2>1. /\ CallsFit' /\ pending'[p] = Idle
        /\ \A other \in Process \ {p} : pending'[other] = pending[other]
    BY <1>2, OneCall DEF Abandon, Finish, IInv
  <2>2. \A q \in Process : pending'[q] = IF q \in {p} THEN Idle ELSE pending[q]
    BY <2>1
  <2>3. QED
    BY <1>2, <2>1, <2>2, RejectHolds DEF Abandon
<1>3. QED
  BY <1>1, <1>2

-----------------------------------------------------------------------------
LEMMA InitHolds == Init => IInv /\ Life!Init
<1> SUFFICES ASSUME Init PROVE IInv /\ Life!Init
  OBVIOUS
<1>1. /\ messages = [i \in {} |-> i] /\ produced = {}
      /\ pending = [p \in Process |-> Idle]
  BY DEF Init
<1>2. TableFits
  BY <1>1 DEF TableFits
<1>3. CallsFit
  BY <1>1, Processes DEF CallsFit
<1>4. EnteringApart
  BY <1>1, Processes DEF EnteringApart, Idle
<1>5. \A i \in Id : /\ PlaceOf(i) = "new" /\ (i \in Leases) = FALSE /\ TriesOf(i) = 0
  <2>1. DOMAIN messages = {}
    BY <1>1
  <2>2. \A i \in Id : ~ (i \in Leases)
    BY <2>1 DEF Leases
  <2>3. QED
    BY <1>1, <2>1, <2>2, LeasedBoolean DEF PlaceOf, TriesOf
<1>6. Life!Init
  BY <1>5 DEF Life!Init
<1>7. QED
  BY <1>2, <1>3, <1>4, <1>6 DEF IInv

LEMMA StepHolds == IInv /\ [Next]_vars => IInv' /\ [Life!Next]_(Life!lifeVars)
<1> SUFFICES ASSUME IInv, [Next]_vars PROVE Holds
  BY DEF Holds, LifeStep
<1>1. CASE UNCHANGED vars
  <2>1. CallsKept
    BY <1>1, SameKeeps DEF IInv, vars
  <2>2. QED
    BY <1>1, <2>1, QuietHolds DEF vars, Holds
<1>2. ASSUME NEW c \in Caller, BeginProduce(c) \/ BeginRequest(c) \/ Execute(c)
      PROVE  Holds
  BY <1>2, BeginProduceHolds, BeginRequestHolds, EnterHolds, ConsumedHolds,
     RefusedHolds, RequeueHolds DEF Execute
<1>3. CASE Ack \/ Delete
  BY <1>3, AckHolds, DeleteHolds
<1>4. CASE \E j \in Job : BeginTick(j)
  BY <1>4, BeginTickHolds
<1>5. CASE RecoverStale \/ MoveFailed \/ DeleteFailed \/ MoveExpired \/ DeleteExpired
  BY <1>5, RecoverStaleHolds, MoveFailedHolds, DeleteFailedHolds,
     MoveExpiredHolds, DeleteExpiredHolds
<1>6. CASE Tick \/ Restart \/ \E p \in Process : Abandon(p)
  BY <1>6, TickHolds, CutHolds
<1>7. QED
  BY <1>1, <1>2, <1>3, <1>4, <1>5, <1>6 DEF Next

\* Whatever the jobs, the producers and time do, the table and the waiting
\* calls keep their invariant (repo.go:134-760).
THEOREM InvariantHolds == Spec => []IInv
BY InitHolds, StepHolds, PTL DEF Spec

\* Relative times stay within the horizon and rows stay rows: nothing is lost
\* by the bound on the age of a time (repo.go:389-531).
THEOREM TypeCorrect == Spec => []TypeOK
<1>1. IInv => TypeOK
  <2> SUFFICES ASSUME IInv PROVE TypeOK
    OBVIOUS
  <2>1. DOMAIN messages \subseteq produced /\ produced \subseteq Id
    BY DEF IInv, TableFits
  <2>2. ASSUME NEW i \in DOMAIN messages
        PROVE  LET row == messages[i] IN
               /\ row \in Row /\ row.queue \in QueueName
               /\ \A t \in {row.processAfter, row.receivedAt, row.expiresAfter} :
                    t >= -Horizon
               /\ row.startedAt \in -Horizon .. Now \cup {NULL}
    BY DEF IInv, TableFits, RowFits, Time, Past
  <2>3. ASSUME NEW p \in Process, pending[p] # Idle
        PROVE  pending[p].now \in -Horizon .. Now
    <3>1. CASE p \in Caller
      BY <2>3, <3>1 DEF IInv, CallsFit, Request, Past
    <3>2. CASE p \in Job
      BY <2>3, <3>2 DEF IInv, CallsFit, Past
    <3>3. QED
      BY <3>1, <3>2, Processes
  <2>4. QED
    BY <2>1, <2>2, <2>3 DEF TypeOK
<1>2. QED
  BY <1>1, InvariantHolds, PTL

\* With relative times, too, each step of the broker is one of a message's life
\* or none of it: what TLC adds to it on a small instance is its progress
\* (services/messages.go:37-223).
THEOREM LifeImplemented == Spec => Life!Spec
BY InitHolds, StepHolds, InvariantHolds, PTL DEF Spec, Life!Spec
=============================================================================
