# Verification of Forq

Forq is a message queue in one Go process over one SQLite file. This directory
holds TLA+ models of it, TLC configurations that check them on small instances,
and TLAPS proofs for every value of the constants. Paths are relative to the
repository's root.

## Inventory

### Components

| component | code | state | operations |
|---|---|---|---|
| message store | `db/repo.go`, `db/migrations` | the table `messages` | one SQL statement per method; single write connection, several read connections |
| message service, API | `services/messages.go`, `api/router.go` | none (a long poll has its start time) | produce, long poll, ack, nack |
| admin operations | `ui/router.go`, `services/messages.go` | none | requeue one / all, delete one / all of a DLQ |
| cleanup jobs | `jobs/cleanup/*.go` | none | stale recovery, failed -> DLQ, expired -> DLQ, delete failed and expired from DLQs |
| job runner, shutdown | `jobs/runner.go`, `main.go` | ticker, `done`, `stopped`; order of the deferred `Close`s | tick with timeout and recovery from panics, `Close` |
| throttling | `services/throttling.go`, `api/middleware.go`, `ui/router.go` | per address: failures, lockout, last seen | `IsLocked`, `RecordFailure`, sweep, eviction |
| sessions | `services/sessions.go`, `ui/middleware.go` | session -> expiry | create, check, invalidate, sweep |
| metrics | `metrics/*.go`, `jobs/metrics/queuesdepth.go` | counters, depth gauge | increments of services and jobs; reset and set of the gauge |
| admin pages | `ui/*.go`, `services/queues.go` | none | statistics, cursor pagination |
| configuration, migrations, health check, DB optimization | `configs/app.go`, `main.go`, ... | none | run once, or change no row |

### How they interact

Requests (API and UI) and jobs are goroutines of one process. They share the
table, behind a `database/sql` pool with one write connection, and the counters.
There are no other messages between them. Every goroutine that counts raises
the counter after its statement, in memory; the gauge's job copies a read of the
table into the gauge, which a scrape can see at any point. A request is cut by
its client, by
the 40 s timeout of the server or by shutdown; a tick of a job is cut by its
own timeout. A consumer gets the *receipt* of its delivery, which is the value
of `processing_started_at` that its claim wrote, and echoes it in ack and nack.

### What is hard

* Every method reads the clock, *then* waits for the write connection: the
  captured time may be older than the rows the statement meets, and
  `database/sql` serves waiters in any order.
* Acks and nacks come late, twice, or never; responses are lost after the
  commit.
* Five jobs, admins and consumers change the same rows; three statements move
  rows between a queue and its DLQ and each resets its own list of columns.
* Expired sweeps run in batches, with other statements between the batches.
* The process can stop at any point; the table stays, everything else is lost:
  waiting operations, sessions, lockouts, counters.
* Throttling looks at the lock and records the failure in two steps, with a
  clock read in between; both sweepers compare with the time of a tick that may
  have waited for the mutex.
* A long poll is a loop with a ticker of its own inside a timeout that answers
  in its place, and its claims compete with those of other polls.
* On shutdown, two servers, six or seven jobs and the requests let go of the repo in a
  certain order, whatever starts it; a handler can outlive its answer.
* A reader scrolls through rows that come and go.

`PROJECT.json` lists these as hazards, each with its line and its properties.

### What makes each component correct

* Message store and services: the retry budget is kept exactly; a receipt
  identifies one delivery; the lease of a consumer is respected; no message of
  a regular queue is lost; messages move between queue and DLQ only for a
  reason, with a complete reset; the encodings of "is in a DLQ" agree; sweeps end.
* Jobs and runner: every message is eventually recovered, moved or deleted;
  no tick runs on a closed database.
* Shutdown: it completes, and the repo is closed after all who use it.
* Long poll: it answers before it is timed out; ready messages are found soon;
  "no messages" is true.
* Throttling: bursts lock, a lockout lasts its time, evictions spare locked
  addresses, nobody is locked without cause, the map is bounded.
* Sessions: no invalidated session is accepted, no valid one is dropped, none
  is kept for ever.
* Metrics: the counters agree with what happened to the rows; the gauge shows
  no message twice and follows the table.
* Admin pages: nothing that stays is skipped, nothing is shown twice.

## Modules

| module | role | theorems in |
|---|---|---|
| `ForqRepo` | the table and the SQL statements, as operators on tables | |
| `ForqBroker` | callers, jobs, clock, waiting, cancellation, restart around `ForqRepo` | `ForqBrokerProofs` |
| `MessageLife` | what forq promises for a message; implemented by `ForqBroker` and `ForqAging` | |
| `ForqAging` | liveness of the broker, with relative times | `ForqAgingProofs` |
| `LongPoll` | the loop of the long poll inside the timeout of the server | `LongPollProofs` |
| `Throttling` | failed authentications per address | `ThrottlingProofs` |
| `Sessions` | sessions, browsers, requests | `SessionsProofs` |
| `Shutdown` | main, the servers, the handlers, the jobs, the connection | `ShutdownProofs` |
| `MessageTable` | the messages of `MessageLife` and the queue types, for the metrics | |
| `Metrics` | counters beside the messages of `MessageTable` | `MetricsProofs` |
| `QueueDepth` | the gauge beside the messages of `MessageTable` | `MetricsProofs` |
| `Browsing` | a page of the admin UI over the messages of `MessageLife` | `BrowsingProofs` |
| `MC...` | values for TLC | |

`ForqBroker` extends `ForqRepo` and implements `MessageLife` (checked and
proved). `Metrics`, `QueueDepth` and `Browsing` are composed with `MessageLife`
and not with the broker: how a row got where it is does not matter to them, and
as the broker implements `MessageLife`, they meet every change of rows the
broker can make, and more.

Definitions marked as mutants are plausible mistakes in the definition that
follows them; `PROJECT.json` says which property notices each.

### `ForqRepo`

A table is a function from ids to rows; a row has the columns of the migration
but for `content` and `updated_at` (no statement reads the latter). A queue
name is a base name and a number of `-dlq` suffixes, so that `queue || '-dlq'`
on a DLQ's name, or a trimmed name without suffix, would be visible. Each SQL
statement is an operator from a table and the captured `now` to a table; the
`WHERE` clauses are operators of their own (`Fenced`, `Stale`, `Expired`,
`FailedRows`, `Requeueable`). A statement is atomic because the write pool has
one connection. `LIMIT` without `ORDER BY` is any choice of rows, and ties of
`ORDER BY received_at` are any choice among the oldest.

### `ForqBroker`

| variable | meaning |
|---|---|
| `clock` | the wall clock |
| `messages` | the table |
| `produced` | ids given out by the UUID generator |
| `pending` | per process, the operation that waits for the connection, with its captured time |
| `residence`, `deliveries` | history: moves of each message, and every claim made |

An operation that reads the clock is two actions: `BeginX` checks what the
handler checks and captures the time, `X` runs the statement. Ack and the
deletes read no clock and hold no value across a wait, so they are one action.
`Consume` commits whether or not the response arrives (`received`).
`Abandon` is a cancelled wait or a failing statement, and for a sweep a stop
between two batches; `Restart` is a stop of the process. `Tick` cannot pass the
deadline of an operation: its context would be cancelled, so it must run or be
abandoned first.

Consumers send ack and nack for deliveries they received, any number of times
and arbitrarily late. Receipts that were never handed out are not sent.
Admins act on any id that ever existed, as a stale page allows.

Modelling assumptions: the wall clock does not go back; ids are unique (UUID
v7); no process but Forq writes the file; a statement that was cancelled has
no effect (SQLite rolls it back).

### `MessageLife`

| variable | meaning | in `ForqBroker` |
|---|---|---|
| `place` | new, in its queue, in the DLQ, gone | whether its produce has run, whether it has a row, `is_dlq` |
| `leased` | one consumer is processing it | `status = processing` |
| `tries` | leases of this stay | `attempts` |

Actions stand for effects: `Enter` (the insert), `Reject` (a produce that was
cut), `Deliver` (the claim), `Complete` (ack), `Release` (nack, stale recovery),
`Bury` (failed and expired moves), `Revive` (requeues), `Drop` (whatever deletes
from a DLQ). `FairSpec` adds that a lease ends and that a message nobody
processes does not stay where it is.

### `ForqAging`

The broker for liveness. A clock that stops at a bound would let no promise
about the future be checked, and one that does not stop gives TLC no finite
graph. So all times are relative to now: `Tick` makes each stored and each
captured time one older, down to `-Horizon`. That is older than every time a
statement subtracts or holds (`AgingAssumption`), so a comparison with a captured
time comes out as with the real times. Two times that are both at the horizon
look equal: the claim may take either of two rows so old, and a waiting nack may
meet a lease as old as its receipt. Both only add behaviours, so what holds here
holds for the code. The statements are those of `ForqRepo`. Consumers ack and nack the lease they have: late and repeated ones
change no row, which is what `ForqBroker` shows (`FenceIsLatestDelivery`).

### `LongPoll`

| variable | meaning |
|---|---|
| `clock` | time |
| `ready` | since when the queue has had a ready message |
| `polls` | per poll: where `GetMessageForConsuming` is, when it and its last claim began, the ticker's next tick and the tick in its channel |

`Find`, `FindNothing`, `Fail` are the outcomes of the claim; `CheckTime` is the
look at the polling time after it; `Wake` receives the tick; `Cancel` is a
client that hangs up; `TimeOut` is `http.TimeoutHandler`. `Tick` waits for what
runs at once (a waiting poll with a tick). A claim takes any time; one that
takes more than `MaxStatement` makes its poll `slow`, and nothing but an answer
is promised to slow polls. A claim that finds nothing may come back late, too.

### `Throttling`

`entries` is the map; `requests` holds each failing request between `IsLocked`
(`Check`), the clock read (`ReadClock`) and the mutex of `RecordFailure`;
`sweep` is the time the sweeper got from its ticker before it got the mutex.
`recent` is history: the failures that should still count. The slice of failure
times is only filtered and counted, never read in order, so it is a set; a number
tells failures of the same millisecond apart. A right secret never
comes here (`api/middleware.go` and the login look at it first), so only failing
requests are modelled. Entries of equal age: any one is evicted, as the order in
which Go walks a map is random.

### `Sessions`

`sessions` is `activeSessions` with the time each session has left; `cookie` is
what each browser presents; `calls` are requests between sending, the check of
`sessionAuth`, the handler and the answer, which can get lost; `sweeper` is the
ticker's time until the lock is taken, with its age. `created` and `loggedOut`
are history. `Restart` loses the sessions and keeps the cookies.

### `Shutdown`

| variable | meaning |
|---|---|
| `main` | where `main` is: serving, in `Shutdown` of the API or UI server, in the deferred `Close`s, returning, exited; `killed` by a second signal |
| `cancelled`, `late` | the contexts: of all requests, of the graceful shutdown |
| `failed` | servers whose `ListenAndServe` returned an error |
| `handlers` | per connection: the goroutine of the handler, and whether it was already answered |
| `runners`, `asked`, `open` | the jobs, those whose `done` is closed, and how many `Close`s are left |
| `conn`, `repoOpen` | who holds the write connection, whether the repo is open |

A panic of a tick is an `EndTick` or `TickReleases` like any other end: `Runner`
recovers and `database/sql` gives the connection back.

### `Metrics`

`counters` beside the rows. A statement and its counter are two steps of one
goroutine (`calls`); a batch of a sweep only adds to what the job will report.
`events`, `lost` and `carried` are history: how many rows were changed, those
whose statement or sweep was reported as failed, leases that outlive a restart.
Rows are numbered in each series, and a call knows which rows its count stands
for, so that no row can be counted for another. `startedAt` is
`processing_started_at`; `holds` are the receipts that reached a consumer: an ack
or a nack needs one that fits the row (`Current`), and it reaches a consumer only
with the response, which is after the counter of the claim. A scrape is any state.

A receipt is a time, and nothing keeps it apart from those of other stays in the
queue: within a stay a claim is later than the one before (`RedeliveryGap` of the
broker), after a round trip through the DLQ it may capture any time again
(`receipts_across_moves`). The consumer of the earlier delivery can then ack a
delivery that is not counted yet, or never will be because its request was cut.
`served` is history, the receipts of counted deliveries and of those that outlive
a restart, and `repeated` the claims that repeated one of them.
`SettledWereConsumed` allows for exactly those claims that are not counted
(`Repeats`): the documented reading, that settled deliveries were consumed,
holds but for them.

### `QueueDepth`

`job` is where a tick is, with the statistics it read; `gauge` the series. A
tick reads once (`ReadStats`), resets, and sets the queues one by one, while
messages move; a scrape is any state.

### `Browsing`

`shown`, `after` are the page and the cursor of its load-more trigger; `load`,
`found`, `next` a request for rows: sent, read, failed, then appended
(`ShowPage`). `Open` is a load of the page or its refresh. `PressRequeue` and
`PressDelete` are the buttons of rows in a DLQ; `done` are the rows whose
answer was 200 and has not reached the page. Ids are numbers in the order in
which UUIDs of version 7 are minted.

## Runs

| run | configuration | checks |
|---|---|---|
| `lifecycle` | `MCForqBroker.cfg` | the row invariants, `IInv` and the action properties, on one message and two callers |
| `sweeps` | `MCForqBrokerSweeps.cfg` | `DlqConsistent`, `SweepsShrink`, `ImplementsLife`, on two messages and batches of one |
| `aging` | `MCForqAging.cfg` | `MessagesLeave`, `ImplementsFairLife`: liveness |
| `long_poll` | `MCLongPoll.cfg` | `PollsEndInTime`, `ReadyIsClaimed`, `EmptyWasEmpty` |
| `throttling` | `MCThrottling.cfg` | `CapKept`, `BurstsLock`, `LockoutsKept`, `LocksDeserved` |
| `sessions` | `MCSessions.cfg` | `SessionsLast`, `LogoutEnds`, `SessionsForgotten` (liveness) |
| `shutdown` | `MCShutdown.cfg` | `NoTickOnClosedRepo`, `NoRequestOnClosedRepo`, `ShutdownCompletes` and `JobsKeepTicking` (liveness) |
| `metrics` | `MCMetrics.cfg` | `Accounted`, `SettledWereConsumed` |
| `queue_depth` | `MCQueueDepth.cfg` | `ShownOnce`, `GaugeFollows` (liveness) |
| `browsing` | `MCBrowsing.cfg` | `NothingSkipped`, `RowsInOrder` |
| `long_names` | `MCForqBrokerNames.cfg` | `QueuesReachable` is violated |
| `receipts_across_moves` | `MCForqBrokerReceipts.cfg` | `RedeliveryGapAcrossMoves` is violated |

### Bounds

* `lifecycle`: one message, because no statement but the claim and the batches
  relates two rows; two callers, so that a late ack or nack, a claim and an
  admin operation overlap; two attempts, so that a message is both retried and
  given up; `MaxInFlight = 2` operations wait at once; `MaxClock = 3` reaches
  expiry (TTL 2), a stale delivery (window 1) and a redelivery after a backoff
  (1); waits of up to one unit, so that captured times are stale; requested
  delays below, within and above the accepted range.
* `sweeps`: two messages and batches of one row, so that a sweep has several
  batches and other statements run between them; one attempt; the DLQ sweep may
  wait two units, as long as the DLQ's TTL (in the code its tick may take 61
  minutes and the TTL may be one hour); `MaxClock = 5` reaches the expiry in the
  DLQ of a message that expired in its queue. Nack, stale recovery and the
  failed move are not offered here: with them the instance is too large, and
  they are in `lifecycle` and, as far as the refinement goes, in `aging`.
* `aging`: one message and one caller, two attempts, all TTLs of one unit, a
  `Horizon` one beyond the oldest time that is compared. No bound on time or on
  steps.
* `long_poll`: two polls, a polling time of two intervals, statements of up to
  three units, so that two ticks ring during one claim and one is dropped;
  `Handle` is larger than their sum: `configs/app.go` sets it to the polling
  time and 10 s. `MaxClock = 12` is two units longer than the timeout.
* `throttling`: three addresses and a map of two entries, so that there is
  eviction with and without an unlocked candidate; two requests that wait for
  the mutex with times up to one unit old; three failures lock.
* `sessions`: one browser with two requests at once and two sessions; the
  sweeper may be one unit late. No bound on time.
* `shutdown`: two jobs and two connections, each to either server. No bound.
* `metrics`: one message, two attempts, two callers and two times, batches of one
  row; `MaxEvents = 5` rows changed per process is a message that is produced,
  claimed, given back, claimed again and settled; one restart. A message that was
  claimed before the restart is moved, requeued and claimed with its old receipt
  after it; the same without a restart takes more events than the bound, and is
  left to the proof. Without `Repeats` the run finds `SettledWereConsumed`
  violated.
* `queue_depth`: three messages over a queue and its DLQ. No bound.
* `browsing`: three messages and pages of one row: a first page, a row below
  it, and one that comes or goes; the messages move without bound.
* `long_names`: base names of 61 characters; all others use 60.

`Offered` names the operations that may begin, `MaxInFlight` how many may wait,
`MaxClock` and `MaxEvents` end a run. None of them appears in an assumption of
the proofs other than its type.

Deadlock is checked except where the system or the instance really stops: in
`shutdown` the process ends; in `metrics` no event is left after `MaxEvents`; in
`long_poll` and `throttling` the clock ends.

### Fairness

* `ForqAging`: time passes (`Tick`); a request ends, done or cut, because its
  context has a timeout; each job ticks again and again (`jobs/runner.go`
  recovers from panics and never leaves its loop but for `Close`). The
  statements of the ticks have *strong* fairness: a tick can lose the connection
  to others until its timeout, but `database/sql` gives a freed connection to a
  random waiter, so that not every tick loses. `DeleteFailed` captures nothing and
  is always enabled: weak fairness. Nobody has to produce, consume, ack, nack,
  requeue or delete, and the process may restart for ever. `MessagesLeave`
  excepts admins who requeue for ever.
* `Shutdown`: goroutines run when they can; a request is promised nothing
  before its context is cancelled, and then its handler returns and its answer
  is written; `EndTick` is strong because a tick is cut at its timeout and so
  cannot take the connection again and again. Neither a signal, nor the
  deadline of the graceful shutdown, nor a kill is relied on.
* `QueueDepth`: the job ticks and its reads succeed.
* `Sessions`: time passes, the ticker ticks, the sweeper gets the lock.

### What the violated properties show

* `long_names`: the 64-character limit is applied to DLQ names as well, so the
  DLQ of a queue with a name of 61 to 64 characters cannot be consumed,
  requeued or purged through either router.
* `receipts_across_moves`: a comment in `db/repo_test.go` says that two claims
  of a message are guaranteed to be a backoff or a stale window apart. Within
  one stay in a queue this holds (`RedeliveryGap`, proved). A message that was
  moved to its DLQ and requeued can get the same receipt again in the same
  queue, because the requeue makes it claimable at its captured time.

### Where documentation and code differ otherwise

Seen while translating; the code is what is modelled. No run is needed to see
them. `docs` is `docs/content/docs/guides`.

* Stale messages are retried at once (`db/repo.go:399`), not after a backoff
  (`docs/internals.md:244`).
* After a lockout an address may have fewer than five attempts: requests that
  passed the check before it was locked record their failures during the
  lockout (`services/throttling.go:74`; `docs/internals.md:1096`).
* The map of throttled addresses evicts the oldest *unlocked* entry
  (`services/throttling.go:114`), not simply the oldest (`docs/internals.md:1133`).
* The counter of deleted messages also counts a deletion by an admin that found
  no row (`services/messages.go:221`; `docs/metrics.md:183`): this is why
  `Accounted` has `>=` for that series.
* A sweep that fails after some batches loses their count
  (`jobs/cleanup/expired.go:16`; `docs/metrics.md:157`): `lost` in `Metrics`.
* Producing to a DLQ is refused (`services/messages.go:42`); `docs/metrics.md:97`
  says that nothing stops you.
* `forq_messages_requeued_total` is labelled with the DLQ
  (`services/messages.go:179`, `193`), not the queue requeued to
  (`metrics/prometheus.go:58`).
* `forq_queue_depth` counts all rows of a queue (`db/repo.go:241`), not the
  ready ones (`docs/internals.md:1052`).
* Scrolling can show rows that came (back) to the queue after the page was
  opened (`db/repo.go:311`; `docs/admin-ui.md:83`).
* The session cookie has no `Max-Age` (`ui/router.go:126`): it ends with the
  browser, not after 7 days (`docs/internals.md:1303`).

## Proofs

`ForqBrokerProofs` proves for `Spec`, for any sets of ids, names and callers,
any attempts, delays, TTLs, timeouts and batch size that satisfy
`RepoAssumption` and `BrokerAssumption`:

| theorem | property |
|---|---|
| `TypeCorrect` | `TypeOK` |
| `InvariantHolds` | `IInv`, the inductive invariant |
| `BudgetHolds`, `AttemptsHold`, `DlqHolds`, `FenceHolds`, `GapHolds` | the safety invariants |
| `RegularMessagesKept` | `RegularLeavesByAck` |
| `LeasesKept` | `LeaseRespected` |
| `MovesGrantLife` | `MoveGrantsLife` |
| `MovesAreJustified` | `MovesJustified` |
| `SweepsDoShrink` | `SweepsShrink` |

The assumptions are what `NewAppConfig` gives: at least one attempt and one
delay, positive delays and TTLs, request and sweep timeouts shorter than the
TTLs, and `NULL` different from every value it stands beside.

The argument. The properties about rows alone (`AttemptsWithinBudget`,
`DlqConsistent`, the first half of the fence) are a predicate `RowSane`; each
way a statement writes a row keeps it (`ClaimedSane`, `ReleasedSane`,
`MovedToDlqSane`, `RequeuedSane`). `StepKinds` reduces `Next` to eight kinds of
steps on the table and the history, so that the later lemmas have eight cases
and not twenty-five. The requeue needs that a waiting requeue names a DLQ, and
an insert that its id is fresh: that is `CallsSane`.

`RedeliveryGap` is not inductive: it says nothing of the *next* receipt.
`ReceiptsOrdered` links every delivery of the current stay to the row: while
the row is ready, `process_after` is already apart from all its receipts; while
it is processed, all but the latest are apart from `processing_started_at`. A
nack or a recovery establishes the former for the latest receipt too, with a
captured time that is not older than the receipt: for nack because the consumer
holds it (`CallsSane`), for recovery because of the stale window itself. The
fence then follows, as receipts that are apart are different.

`MoveGrantsLife` needs `WaitsBounded`: a move writes an expiry computed from
its captured time, which is still ahead only because no operation outlives its
deadline and every timeout is shorter than the TTLs. `MovesJustified` counts
deliveries: `AttemptsDistinct` says that the deliveries of a stay have distinct
attempts, so that a message whose `attempts` reached `MaxAttempts` was really
handed to consumers that often (`CountedDeliveries`).

`SweepsShrink` needs `StartsNow`: a waiting produce has a `processAfter` at most
`PastBuffer` before its captured time, and request timeout and buffer together
are shorter than the TTL. So every row that a statement writes while a sweep
runs expires after the sweep's captured time (`WrittenRows`); only a row that was
being processed can turn out to be expired when its delivery ends.

`LifeImplemented`: each kind of step of the broker is a step of `MessageLife` or
a stutter under the refinement mapping, and `Init` maps to `Init`. It uses `IInv`:
a delivery has an attempt left because of `AttemptsWithinBudget`, a move leaves a
leased row alone because of its status, and an insert enters a message that
nobody knows (`CallsSane`).

The other modules:

| module | theorem | property |
|---|---|---|
| `ForqAgingProofs` | `TypeCorrect`, `LifeImplemented` | `TypeOK`; `Life!Spec`, the safety half of `ImplementsFairLife` |
| `LongPollProofs` | `TypeCorrect`, `PollsDoEnd`, `ReadyMessagesClaimed`, `EmptyAnswersTrue` | `TypeOK`, `PollsEndInTime`, `ReadyIsClaimed`, `EmptyWasEmpty` |
| `ThrottlingProofs` | `TypeCorrect`, `CapHolds`, `BurstsDoLock`, `LockoutsHold`, `LocksAreDeserved` | `TypeOK`, `CapKept`, `BurstsLock`, `LockoutsKept`, `LocksDeserved` |
| `SessionsProofs` | `TypeCorrect`, `SessionsDoLast`, `LogoutsEnd` | `TypeOK`, `SessionsLast`, `LogoutEnds` |
| `ShutdownProofs` | `TypeCorrect`, `TicksEndFirst`, `RequestsEndFirst` | `TypeOK`, `NoTickOnClosedRepo`, `NoRequestOnClosedRepo` |
| `MetricsProofs` | `TypeCorrect`, `RowsAreAccounted`, `SettledAreConsumed` | `TypeOK`, `Accounted`, `SettledWereConsumed` |
| `MetricsProofs` | `ShownHolds` | `ShownOnce` of `QueueDepth` |
| `MetricsProofs` | `GaugeTyped` | `GaugeTypeOK` of `QueueDepth` (no run checks it) |
| `BrowsingProofs` | `NothingIsSkipped`, `OrderPreserved` | `NothingSkipped`, `RowsInOrder` |

Each rests on an inductive invariant (`IInv`; for the gauge `GaugeIInv`, and `GaugeTypeOK` itself), which
TLC was given before it was proved. The arguments:

* `ForqAgingProofs`: a row fits (`RowFits`) when its times are within the horizon
  and its status, receipt, attempts and queue agree; each way a statement or the
  passing of time writes a row keeps that. Each action is then one of a few kinds
  (`QuietHolds`, `ReleaseHolds`, `MoveHolds`, `DeliverHolds`, ...) that keep the
  invariant and are a step of `MessageLife`, as in the broker. A producer may not
  ask for a delay beyond the horizon: without that assumption `TypeOK` is false.
* `LongPollProofs`: the promises follow from how far apart the beginning of a
  poll's last claim, the ticker's next tick and the time since which a message
  is ready can be: `ReadyIsClaimed` is not inductive, as it says nothing of a
  claim that began before the message came.
* `ThrottlingProofs`: an entry holds exactly the failures that still count
  (`recent`), although they are recorded out of order. A failure that is recorded
  late filters with its own, older time: that drops none that counts, and it
  counts itself, as `MaxWait < Window` (nobody waits for the mutex as long as the
  window, one minute). A sweep removes an entry only when its last failure is so
  long ago that no failure still waiting can lie in one window with it: this is
  where `Window + 2 * MaxWait <= Stale` is used. It spares locked entries because
  its time is not after the clock. `CapKept` needs that the set of
  addresses in the map is finite, which holds as it grows by one at a time.
* `SessionsProofs`: the store is the sessions created, less those logged out and
  those that a sweep found expired; a session whose creation waits is not yet in
  it, so that a logout is not undone by an older login.
* `ShutdownProofs`: `main` passes a server only when nobody holds it, or after
  a forced close that answers all who do, and a job only when it is stopped;
  a stopped job does not start again, and nobody connects to a server that has
  been left.
* `MetricsProofs`, counters: the rows that calls owe lie apart from each other and
  from those that are lost (`RowsApart`), so when one call is over, exactly its
  rows leave `Uncounted`. Cardinalities of disjoint sets take the place of a sum
  over all calls, which would need induction. `Accounted` alone is not inductive:
  a count could stand for the rows of another call.
* `MetricsProofs`, deliveries: `SettledWereConsumed` compares counters that are
  raised at different times. What is inductive (`DeliveriesCounted`) is stronger:
  the deliveries that were settled, and those that still can be because their
  delivery was counted (`Held` of `served`), are at most those counted, those
  carried over a restart, and the uncounted claims that repeat a receipt
  (`Repeats`). Nothing is assumed about the times of claims. A claim that repeats a
  served receipt makes one more delivery that can be settled, and adds itself to
  `Repeats`; one that does not repeat any is settled by nobody before it is counted.
  `ReceiptsSane` says why: every receipt a consumer holds was served, and an
  uncounted claim is among the `repeated` only if its own receipt was. When a claim
  is counted, its row leaves `Repeats` and the counter takes its place; when it is
  cut, its row stays among the lost.
* `MetricsProofs`, gauge: the shown and the read depths together never exceed the
  messages that ever entered. `MetricsProofs` extends both modules: they share
  the messages of `MessageTable`.
* `BrowsingProofs`: what was read continues the rows shown; a row that was
  taken from the page is one that left the queue.

Only model-checked: all liveness, that is `MessagesLeave`, the fairness of
`ImplementsFairLife`, `ShutdownCompletes`, `JobsKeepTicking`, `GaugeFollows` and
`SessionsForgotten`. Liveness under fairness and `ENABLED` are out of the prover's
reach. Every invariant and every action property that a passing run checks is
proved, and so is the safety half of `ImplementsFairLife`.

## Not modelled

* Power loss: with `synchronous = NORMAL` the last commits may be undone. Which
  ones SQLite and the disk decide; nothing in this code reacts to it.
* A wall clock that goes back: every method trusts it.
* Reads that render one answer and keep no state: the dashboard, a message's
  details, a queue's count.
* The read pool, and `busy_timeout`: no other process writes the file.
* Message content, its size limit, the comparison of secrets, CSRF, addresses
  behind proxies, templates, error texts, logging, parsing of the environment,
  migrations, `PRAGMA optimize` (it changes no row, and holds the connection like
  any waiting operation), the health check, the benchmarks and the web sites.

## Plan

Done: the broker and its proofs, the abstract life and the refinement, liveness
with fair jobs, throttling, sessions, the shutdown, counters and gauge, the long
poll and the pagination, each with its proofs as far as they go.

Left, in order of importance:

1. That `ForqAging` simulates `ForqBroker`: a step of the broker, with the times
   taken relative to its clock and cut at the horizon, is a step of `ForqAging`.
2. Enabledness by hand: which statement is enabled in which state of a message,
   as lemmas that the liveness argument of `MessagesLeave` would rest on.
3. Larger instances: two bases in `sweeps`, two browsers in `sessions`.
