------------------------------ MODULE LongPoll ------------------------------
(***************************************************************************)
(* The long poll of a consumer (services/messages.go:93-125) inside the    *)
(* http.TimeoutHandler of the API server: a claim is tried at once and at  *)
(* each tick of the poll's own ticker, until it finds a message or the     *)
(* polling time is over.  Several polls compete for the messages of one    *)
(* queue.  A statement that lasts longer than MaxStatement makes its poll  *)
(* slow, and only the promises to slow polls are weaker.                   *)
(***************************************************************************)
EXTENDS Integers

CONSTANTS
  Poll,           \* consumers' requests, one poll each
  Interval,       \* of the ticker, 500 ms
  Polling,        \* PollingDurationMs
  Handle,         \* ServerConfig.Timeouts.Handle
  MaxStatement,   \* until the answer of a statement that is not slow
  MaxClock        \* bound on the clock

\* The timeout leaves a buffer for the last claim (configs/app.go:70).
ASSUME LongPollAssumption ==
  /\ Interval \in Nat \ {0} /\ Polling \in Nat /\ MaxClock \in Nat
  /\ MaxStatement \in Nat
  /\ Handle \in Nat
  /\ Polling + Interval + MaxStatement < Handle

VARIABLES
  clock,
  ready,    \* time since which the queue has had a ready message, or NoMessage
  polls

vars == <<clock, ready, polls>>

NoMessage == -1
Idle == [at |-> "idle"]
Open == {"claiming", "nothing", "waiting"}
Ended == {"found", "empty", "failed", "timedOut", "gone"}

TypeOK ==
  /\ clock \in 0 .. MaxClock
  /\ ready \in {NoMessage} \cup 0 .. MaxClock
  /\ \A p \in Poll : polls[p].at \in {"idle"} \cup Open \cup Ended
  /\ \A p \in Poll : polls[p].at \in Ended => polls[p].slow \in BOOLEAN
  /\ \A p \in Poll : polls[p].at \in Open =>
       /\ polls[p].start \in 0 .. clock     \* of the request
       /\ polls[p].since \in 0 .. clock     \* of the last claim
       /\ polls[p].slow \in BOOLEAN         \* history: a claim lasted too long
       /\ polls[p].due \in BOOLEAN          \* the ticker's channel has a tick
       /\ polls[p].next \in clock .. clock + Interval

Init ==
  /\ clock = 0
  /\ ready = NoMessage
  /\ polls = [p \in Poll |-> Idle]

-----------------------------------------------------------------------------
\* A message is produced, released or comes due.
Appear ==
  /\ ready = NoMessage
  /\ ready' = clock
  /\ UNCHANGED <<clock, polls>>

Begin(p) ==
  /\ polls[p] = Idle
  /\ polls' = [polls EXCEPT ![p] =
       [at |-> "claiming", start |-> clock, since |-> clock,
        next |-> clock + Interval, due |-> FALSE, slow |-> FALSE]]
  /\ UNCHANGED <<clock, ready>>

Goes(p, to) ==
  polls' = [polls EXCEPT ![p] =
    IF to \in Ended THEN [at |-> to, slow |-> @.slow] ELSE [@ EXCEPT !.at = to]]

Find(p) ==
  /\ polls[p].at = "claiming" /\ ready # NoMessage
  /\ Goes(p, "found")
  /\ ready' = NoMessage
  /\ UNCHANGED clock

FindNothing(p) ==
  /\ polls[p].at = "claiming" /\ ready = NoMessage
  /\ Goes(p, "nothing")
  /\ UNCHANGED <<clock, ready>>

Fail(p) ==
  /\ polls[p].at = "claiming"
  /\ Goes(p, "failed")
  /\ UNCHANGED <<clock, ready>>

\* mutants: the time of the claim is looked at, or the next tick is spared
OverAtClaim(p) == polls[p].since - polls[p].start > Polling

OverEarly(p) == clock - polls[p].start >= Polling - Interval

\* The polling time is looked at when a claim has come back with nothing.
Over(p) == clock - polls[p].start > Polling

CheckTime(p) ==
  /\ polls[p].at = "nothing"
  /\ Goes(p, IF Over(p) THEN "empty" ELSE "waiting")
  /\ UNCHANGED <<clock, ready>>

Wake(p) ==
  /\ polls[p].at = "waiting"
  /\ polls[p].due
  /\ polls' = [polls EXCEPT ![p].at = "claiming", ![p].since = clock,
                            ![p].due = FALSE]
  /\ UNCHANGED <<clock, ready>>

\* The client hangs up, or the server is shut down: the context is cancelled.
Cancel(p) ==
  /\ polls[p].at \in {"waiting", "claiming"}
  /\ Goes(p, "gone")
  /\ UNCHANGED <<clock, ready>>

\* TimeoutHandler answers in place of the handler.  A claim that is under way
\* is interrupted, or was made and is lost on the consumer.
TimeOut(p) ==
  /\ polls[p].at \in Open
  /\ clock >= polls[p].start + Handle
  /\ Goes(p, "timedOut")
  /\ ready' \in IF polls[p].at = "claiming" THEN {ready, NoMessage} ELSE {ready}
  /\ UNCHANGED clock

\* mutants: a tick meets a claim and is lost; the ticker ticks once
TickedIfWaiting(poll) ==
  IF poll.at \notin Open THEN poll
  ELSE LET rings == clock + 1 = poll.next IN
       [poll EXCEPT !.due = @ \/ (rings /\ poll.at = "waiting"),
                    !.next = IF rings THEN @ + Interval ELSE @]

TickedOnce(poll) ==
  IF poll.at \notin Open THEN poll
  ELSE [poll EXCEPT !.due = @ \/ clock + 1 = poll.next]

\* The ticker rings into its channel, and drops a tick that meets another there.
Ticked(poll) ==
  IF poll.at \notin Open THEN poll
  ELSE LET rings == clock + 1 = poll.next IN
       [poll EXCEPT !.due = @ \/ rings,
                    !.next = IF rings THEN @ + Interval ELSE @]

Answering(poll) == poll.at \in {"claiming", "nothing"}

Slowed(poll) ==
  IF Answering(poll) /\ clock + 1 > poll.since + MaxStatement
  THEN [poll EXCEPT !.slow = TRUE] ELSE poll

\* A goroutine that can run does so at once; a statement takes its time, after
\* the look at the table too.
Tick ==
  /\ clock < MaxClock
  /\ \A p \in Poll :
       /\ polls[p].at = "waiting" => ~ polls[p].due
       /\ polls[p].at \in Open => clock < polls[p].start + Handle
  /\ clock' = clock + 1
  /\ polls' = [p \in Poll |-> Slowed(Ticked(polls[p]))]
  /\ UNCHANGED ready

Next ==
  \/ Appear \/ Tick
  \/ \E p \in Poll :
       \/ Begin(p) \/ Find(p) \/ FindNothing(p) \/ Fail(p) \/ CheckTime(p)
       \/ Wake(p) \/ Cancel(p) \/ TimeOut(p)

Spec == Init /\ [][Next]_vars

-----------------------------------------------------------------------------
\* A poll answers for itself: unless a claim is slow, it is over before the
\* timeout of the handler, which would make an error of an empty queue and could
\* meet a claim (configs/app.go:70, services/messages.go:113).
PollsEndInTime ==
  \A p \in Poll : polls[p].at = "timedOut" => polls[p].slow

\* While a consumer polls, a ready message is claimed within the interval, or
\* the claim that just missed it, and the next claim: no tick that rang during
\* a claim is lost (services/messages.go:95-119).
Longer(a, b) == IF a > b THEN a ELSE b

ReadyIsClaimed ==
  ready # NoMessage /\ clock > ready + Longer(Interval, MaxStatement) + MaxStatement =>
    \A p \in Poll :
      polls[p].at \in Open /\ ~ polls[p].slow =>
        polls[p].start > ready

\* "No messages" is said of a queue that was still empty near the end of the
\* polling time: the last claim came back after it (services/messages.go:112).
EmptyWasEmpty ==
  [][\A p \in Poll :
       polls[p].at = "nothing" /\ ~ polls[p].slow /\ polls'[p].at = "empty" =>
         /\ polls[p].since + MaxStatement > polls[p].start + Polling
         /\ ready # NoMessage => ready >= polls[p].since]_vars
=============================================================================
