--------------------------- MODULE LongPollProofs ---------------------------
(***************************************************************************)
(* Polls end in time and ready messages are claimed in time, for any       *)
(* number of polls and any interval, polling time, statement time and      *)
(* timeout that satisfy LongPollAssumption.  The invariant follows the     *)
(* next wake-up of each poll: it is never later than the promises allow.   *)
(***************************************************************************)
EXTENDS LongPoll, TLAPS

OpenPoll ==
  [at : Open, start : Nat, since : Nat, next : Nat, due : BOOLEAN, slow : BOOLEAN]

EndedPoll == [at : Ended, slow : BOOLEAN]

Shapes ==
  /\ clock \in 0 .. MaxClock
  /\ ready \in {NoMessage} \cup 0 .. clock
  /\ polls \in [Poll -> {Idle} \cup OpenPoll \cup EndedPoll]

\* When a waiting poll wakes, seen at t.
WakesAt(poll, t) == IF poll.due THEN t ELSE poll.next

OnTime(poll, t) ==
  /\ poll.start <= poll.since /\ poll.since <= t
  /\ t < poll.next /\ poll.next <= t + Interval
  /\ poll.since <= poll.start + Polling + Interval
  /\ Answering(poll) /\ ~ poll.slow => t <= poll.since + MaxStatement
  /\ Answering(poll) /\ ~ poll.due => poll.next <= poll.since + Interval
  /\ poll.at = "waiting" => WakesAt(poll, t) <= poll.start + Polling + Interval

Reaction == Longer(Interval, MaxStatement)

\* The poll's last claim sees a message that is ready since r, or its next one
\* comes in time.
Notices(poll, t, r) ==
  /\ poll.at = "nothing" => poll.since <= r
  /\ poll.start <= r /\ ~ poll.slow =>
       /\ poll.at = "claiming" => poll.since <= r + Reaction
       /\ poll.at = "waiting" => WakesAt(poll, t) <= r + Reaction

Punctual(poll, t, r) ==
  /\ poll.at \in Open => OnTime(poll, t)
  /\ poll.at \in Open /\ r # NoMessage => Notices(poll, t, r)
  /\ poll.at = "timedOut" => poll.slow

IInv == Shapes /\ \A p \in Poll : Punctual(polls[p], clock, ready)

-----------------------------------------------------------------------------
LEMMA ReactionType ==
  Reaction \in Nat /\ Interval <= Reaction /\ MaxStatement <= Reaction
BY LongPollAssumption DEF Reaction, Longer

LEMMA PollShapes ==
  ASSUME Shapes, NEW p \in Poll
  PROVE  /\ polls[p].at \in Open => polls[p] \in OpenPoll
         /\ polls[p].at \in Ended => polls[p] \in EndedPoll
         /\ polls[p].at = "idle" => polls[p] = Idle
BY DEF Shapes, OpenPoll, EndedPoll, Idle, Open, Ended

\* A step of one poll that takes no time: the others are as they were, even if
\* the message is taken.
LEMMA PollSteps ==
  ASSUME IInv, NEW p \in Poll, NEW poll \in OpenPoll \cup EndedPoll,
         polls' = [polls EXCEPT ![p] = poll],
         clock' = clock, ready' \in {ready, NoMessage},
         Punctual(poll, clock, ready')
  PROVE  IInv'
<1>1. Shapes'
  BY DEF IInv, Shapes
<1>2. ASSUME NEW q \in Poll
      PROVE  Punctual(polls'[q], clock', ready')
  <2>1. Punctual(polls[q], clock, ready')
    BY DEF IInv, Punctual
  <2>2. polls'[q] = IF q = p THEN poll ELSE polls[q]
    BY DEF IInv, Shapes
  <2>3. QED
    BY <2>1, <2>2
<1>3. QED
  BY <1>1, <1>2 DEF IInv

\* A poll that ends keeps its history of slow statements.
LEMMA EndSteps ==
  ASSUME IInv, NEW p \in Poll, NEW to \in Ended, polls[p].at \in Open, Goes(p, to),
         to = "timedOut" => polls[p].slow,
         clock' = clock, ready' \in {ready, NoMessage}
  PROVE  IInv'
<1> DEFINE poll == [at |-> to, slow |-> polls[p].slow]
<1>1. polls[p] \in OpenPoll
  BY PollShapes DEF IInv
<1>2. polls' = [polls EXCEPT ![p] = poll]
  BY DEF Goes
<1>3. poll \in EndedPoll /\ poll.at \notin Open
  BY <1>1 DEF OpenPoll, EndedPoll, Open, Ended
<1>4. Punctual(poll, clock, ready')
  BY <1>3 DEF Punctual
<1>5. QED
  BY <1>2, <1>3, <1>4, PollSteps

LEMMA InitHolds == Init => IInv
BY LongPollAssumption
   DEF Init, IInv, Shapes, Punctual, Idle, Open, NoMessage

-----------------------------------------------------------------------------
\* A message that becomes ready now is noticed in time by each poll.
LEMMA AppearHolds == IInv /\ Appear => IInv'
<1> SUFFICES ASSUME IInv, Appear PROVE IInv'
  OBVIOUS
<1>1. Shapes'
  BY DEF IInv, Shapes, Appear
<1>2. ASSUME NEW q \in Poll
      PROVE  Punctual(polls[q], clock, clock)
  <2>1. Punctual(polls[q], clock, ready) /\ clock \in Nat
    BY DEF IInv, Shapes
  <2>2. ASSUME polls[q].at \in Open
        PROVE  Notices(polls[q], clock, clock)
    <3>1. polls[q] \in OpenPoll
      BY <2>2, PollShapes DEF IInv
    <3>2. OnTime(polls[q], clock)
      BY <2>1, <2>2 DEF Punctual
    <3>3. QED
      BY <2>1, <3>1, <3>2, ReactionType, LongPollAssumption
         DEF OnTime, Notices, WakesAt, OpenPoll
  <2>3. QED
    BY <2>1, <2>2 DEF Punctual
<1>3. QED
  BY <1>1, <1>2 DEF IInv, Appear

LEMMA BeginHolds == ASSUME IInv, NEW p \in Poll, Begin(p) PROVE IInv'
<1> DEFINE poll == [at |-> "claiming", start |-> clock, since |-> clock,
                    next |-> clock + Interval, due |-> FALSE, slow |-> FALSE]
<1>1. clock \in Nat /\ ready \in {NoMessage} \cup 0 .. clock
  BY DEF IInv, Shapes
<1>2. poll \in OpenPoll
  BY <1>1, LongPollAssumption DEF OpenPoll, Open
<1>3. OnTime(poll, clock)
  BY <1>1, LongPollAssumption DEF OnTime, Answering, WakesAt
<1>4. ready # NoMessage => Notices(poll, clock, ready)
  BY <1>1, ReactionType DEF Notices
<1>5. Punctual(poll, clock, ready)
  BY <1>3, <1>4 DEF Punctual
<1>6. QED
  BY <1>2, <1>5, PollSteps DEF Begin

\* A claim that finds nothing.
LEMMA FindNothingHolds == ASSUME IInv, NEW p \in Poll, FindNothing(p) PROVE IInv'
<1> DEFINE poll == [polls[p] EXCEPT !.at = "nothing"]
<1>1. /\ polls[p].at = "claiming" /\ ready = NoMessage
      /\ polls' = [polls EXCEPT ![p] = poll]
  BY DEF FindNothing, Goes, Ended
<1>2. polls[p] \in OpenPoll /\ OnTime(polls[p], clock)
  BY <1>1, PollShapes DEF IInv, Punctual, Open
<1>3. poll \in OpenPoll /\ poll = [polls[p] EXCEPT !.at = "nothing"]
  BY <1>2 DEF OpenPoll, Open
<1>4. OnTime(poll, clock)
  BY <1>1, <1>2 DEF OpenPoll, OnTime, Answering, WakesAt
<1>5. Punctual(poll, clock, ready)
  BY <1>1, <1>2, <1>4 DEF Punctual, OpenPoll
<1>6. QED
  BY <1>1, <1>3, <1>5, PollSteps DEF FindNothing

\* The poll goes on to wait for its ticker.
LEMMA WaitHolds ==
  ASSUME IInv, NEW p \in Poll, CheckTime(p), ~ Over(p)
  PROVE  IInv'
<1> DEFINE poll == [polls[p] EXCEPT !.at = "waiting"]
<1>1. /\ polls[p].at = "nothing"
      /\ polls' = [polls EXCEPT ![p] = poll]
  BY DEF CheckTime, Goes, Ended
<1>2. /\ polls[p] \in OpenPoll /\ OnTime(polls[p], clock)
      /\ ready # NoMessage => Notices(polls[p], clock, ready)
  BY <1>1, PollShapes DEF IInv, Punctual, Open
<1>3. poll \in OpenPoll /\ poll.at = "waiting"
  BY <1>2 DEF OpenPoll, Open
<1>4. clock \in Nat /\ ready \in {NoMessage} \cup 0 .. clock
  BY DEF IInv, Shapes
<1>5. clock <= polls[p].start + Polling
  BY <1>2, <1>4, LongPollAssumption DEF Over, OpenPoll
<1>6. OnTime(poll, clock)
  BY <1>1, <1>2, <1>4, <1>5, LongPollAssumption
     DEF OpenPoll, OnTime, Answering, WakesAt
<1>7. ASSUME ready # NoMessage PROVE Notices(poll, clock, ready)
  BY <1>1, <1>2, <1>4, <1>7, ReactionType, LongPollAssumption
     DEF OpenPoll, OnTime, Answering, WakesAt, Notices
<1>8. Punctual(poll, clock, ready)
  BY <1>3, <1>6, <1>7 DEF Punctual
<1>9. QED
  BY <1>1, <1>3, <1>8, PollSteps DEF CheckTime

LEMMA WakeHolds == ASSUME IInv, NEW p \in Poll, Wake(p) PROVE IInv'
<1> DEFINE poll == [polls[p] EXCEPT !.at = "claiming", !.since = clock, !.due = FALSE]
<1>1. /\ polls[p].at = "waiting" /\ polls[p].due
  BY DEF Wake
<1>2. /\ polls[p] \in OpenPoll /\ OnTime(polls[p], clock)
      /\ ready # NoMessage => Notices(polls[p], clock, ready)
  BY <1>1, PollShapes DEF IInv, Punctual, Open
<1>3. clock \in Nat /\ ready \in {NoMessage} \cup 0 .. clock
  BY DEF IInv, Shapes
<1>4. poll \in OpenPoll /\ poll.at = "claiming"
  BY <1>2, <1>3 DEF OpenPoll, Open
<1>5. polls' = [polls EXCEPT ![p] = poll]
  BY <1>2 DEF Wake, IInv, Shapes, OpenPoll
<1>6. OnTime(poll, clock)
  BY <1>1, <1>2, <1>3, LongPollAssumption
     DEF OpenPoll, OnTime, Answering, WakesAt
<1>7. ASSUME ready # NoMessage PROVE Notices(poll, clock, ready)
  BY <1>1, <1>2, <1>3, <1>7, ReactionType DEF OpenPoll, WakesAt, Notices
<1>8. Punctual(poll, clock, ready)
  BY <1>4, <1>6, <1>7 DEF Punctual
<1>9. QED
  BY <1>4, <1>5, <1>8, PollSteps DEF Wake

\* A poll whose handler times out was slow: a waiting one would have woken, and
\* a claim that is not slow would have come back.
LEMMA TimedOutSlow ==
  ASSUME IInv, NEW p \in Poll, TimeOut(p)
  PROVE  polls[p].slow
<1>1. polls[p] \in OpenPoll /\ OnTime(polls[p], clock) /\ clock \in Nat
  BY PollShapes DEF TimeOut, IInv, Shapes, Punctual
<1>2. clock >= polls[p].start + Handle
  BY DEF TimeOut
<1>3. polls[p].at # "waiting"
  BY <1>1, <1>2, LongPollAssumption DEF OpenPoll, OnTime, WakesAt
<1>4. Answering(polls[p])
  BY <1>1, <1>3 DEF OpenPoll, Open, Answering
<1>5. QED
  BY <1>1, <1>2, <1>4, LongPollAssumption DEF OpenPoll, OnTime

\* The polls while the clock goes on.
LEMMA TickedOpen ==
  ASSUME IInv, NEW p \in Poll, polls[p].at \in Open,
         polls[p].at = "waiting" => ~ polls[p].due
  PROVE  LET poll == Slowed(Ticked(polls[p])) IN
         /\ poll \in OpenPoll /\ poll.at = polls[p].at
         /\ Punctual(poll, clock + 1, ready)
<1> DEFINE old == polls[p]
           rings == clock + 1 = old.next
           ticked == Ticked(old)
           poll == Slowed(ticked)
<1>1. /\ old \in OpenPoll /\ OnTime(old, clock)
      /\ ready # NoMessage => Notices(old, clock, ready)
  BY PollShapes DEF IInv, Punctual
<1>2. clock \in Nat /\ ready \in {NoMessage} \cup 0 .. clock
  BY DEF IInv, Shapes
<1>3. /\ ticked \in OpenPoll
      /\ ticked.at = old.at /\ ticked.start = old.start /\ ticked.since = old.since
      /\ ticked.slow = old.slow
      /\ ticked.due <=> (old.due \/ rings)
      /\ ticked.next = IF rings THEN old.next + Interval ELSE old.next
  <2>1. ticked = IF rings THEN [old EXCEPT !.due = TRUE, !.next = old.next + Interval]
                          ELSE old
    <3>1. old = [old EXCEPT !.due = old.due, !.next = old.next]
      BY <1>1 DEF OpenPoll
    <3>2. (old.due \/ TRUE) = TRUE /\ (old.due \/ FALSE) = old.due
      BY <1>1 DEF OpenPoll
    <3>3. QED
      BY <3>1, <3>2 DEF Ticked
  <2>2. CASE rings
    <3>1. old.next + Interval \in Nat
      BY <1>1, LongPollAssumption DEF OpenPoll
    <3>2. ticked = [old EXCEPT !.due = TRUE, !.next = old.next + Interval]
      BY <2>1, <2>2
    <3> HIDE DEF ticked
    <3>3. QED
      BY <1>1, <2>2, <3>1, <3>2 DEF OpenPoll
  <2>3. CASE ~ rings
    BY <1>1, <2>1, <2>3 DEF OpenPoll
  <2>4. QED
    BY <2>2, <2>3
<1>4. /\ poll \in OpenPoll
      /\ poll.at = old.at /\ poll.start = old.start /\ poll.since = old.since
      /\ poll.due <=> (old.due \/ rings)
      /\ poll.next = IF rings THEN old.next + Interval ELSE old.next
      /\ ~ poll.slow => ~ old.slow
      /\ ~ poll.slow /\ Answering(old) => clock + 1 <= old.since + MaxStatement
  <2> HIDE DEF ticked
  <2>1. Answering(ticked) = Answering(old)
    BY <1>3 DEF Answering
  <2>2. CASE Answering(ticked) /\ clock + 1 > ticked.since + MaxStatement
    <3>1. poll = [ticked EXCEPT !.slow = TRUE]
      BY <2>2 DEF Slowed
    <3>2. poll \in OpenPoll /\ poll.slow
      BY <1>3, <3>1 DEF OpenPoll
    <3>3. QED
      BY <1>3, <3>1, <3>2 DEF OpenPoll
  <2>3. CASE ~ (Answering(ticked) /\ clock + 1 > ticked.since + MaxStatement)
    <3>1. poll = ticked
      BY <2>3 DEF Slowed
    <3>2. Answering(old) => clock + 1 <= old.since + MaxStatement
      BY <1>1, <1>2, <1>3, <2>1, <2>3, LongPollAssumption DEF OpenPoll
    <3>3. QED
      BY <1>1, <1>3, <3>1, <3>2 DEF OpenPoll
  <2>4. QED
    BY <2>2, <2>3
<1> HIDE DEF poll
<1>5. Answering(poll) <=> Answering(old)
  BY <1>4 DEF Answering
<1>6. OnTime(poll, clock + 1)
  <2>1. poll.start <= poll.since /\ poll.since <= clock + 1
    BY <1>1, <1>2, <1>4 DEF OnTime, OpenPoll
  <2>2. clock + 1 < poll.next /\ poll.next <= clock + 1 + Interval
    BY <1>1, <1>2, <1>4, LongPollAssumption DEF OnTime, OpenPoll
  <2>3. poll.since <= poll.start + Polling + Interval
    BY <1>1, <1>4 DEF OnTime
  <2>4. Answering(poll) /\ ~ poll.slow => clock + 1 <= poll.since + MaxStatement
    BY <1>4, <1>5
  <2>5. Answering(poll) /\ ~ poll.due => poll.next <= poll.since + Interval
    BY <1>1, <1>4, <1>5 DEF OnTime
  <2>6. poll.at = "waiting" =>
          WakesAt(poll, clock + 1) <= poll.start + Polling + Interval
    BY <1>1, <1>4 DEF OnTime, WakesAt
  <2>7. QED
    BY <2>1, <2>2, <2>3, <2>4, <2>5, <2>6 DEF OnTime
<1>7. ASSUME ready # NoMessage PROVE Notices(poll, clock + 1, ready)
  BY <1>1, <1>4, <1>7 DEF Notices, WakesAt
<1>8. QED
  BY <1>4, <1>6, <1>7 DEF Punctual, OpenPoll, Open, poll

LEMMA TickHolds == IInv /\ Tick => IInv'
<1> SUFFICES ASSUME IInv, Tick PROVE IInv'
  OBVIOUS
<1>1. /\ clock' = clock + 1 /\ clock' \in 0 .. MaxClock /\ clock \in Nat
      /\ ready' = ready
  BY LongPollAssumption DEF Tick, IInv, Shapes
<1>2. \A p \in Poll : polls'[p] = Slowed(Ticked(polls[p]))
  BY DEF Tick
<1>3. ASSUME NEW p \in Poll
      PROVE  /\ polls'[p] \in {Idle} \cup OpenPoll \cup EndedPoll
             /\ Punctual(polls'[p], clock', ready')
  <2>1. CASE polls[p].at \in Open
    BY <1>1, <1>2, <2>1, TickedOpen DEF Tick
  <2>2. CASE polls[p].at \notin Open
    <3>1. polls[p] \in {Idle} \cup OpenPoll \cup EndedPoll
          /\ Punctual(polls[p], clock, ready)
      BY DEF IInv, Shapes
    <3>2. polls'[p] = polls[p]
      <4>1. Ticked(polls[p]) = polls[p] /\ ~ Answering(polls[p])
        BY <2>2 DEF Ticked, Answering, Open
      <4>2. QED
        BY <1>2, <4>1 DEF Slowed
    <3>3. QED
      BY <2>2, <3>1, <3>2 DEF Punctual
  <2>3. QED
    BY <2>1, <2>2
<1>4. polls' \in [Poll -> {Idle} \cup OpenPoll \cup EndedPoll]
  BY <1>3 DEF Tick
<1>5. QED
  BY <1>1, <1>3, <1>4 DEF IInv, Shapes

-----------------------------------------------------------------------------
LEMMA EndHolds ==
  ASSUME IInv, NEW p \in Poll,
         Find(p) \/ Fail(p) \/ Cancel(p) \/ TimeOut(p) \/ (CheckTime(p) /\ Over(p))
  PROVE  IInv'
<1>1. CASE Find(p)
  BY <1>1, EndSteps DEF Find, Open, Ended
<1>2. CASE Fail(p)
  BY <1>2, EndSteps DEF Fail, Open, Ended
<1>3. CASE Cancel(p)
  BY <1>3, EndSteps DEF Cancel, Open, Ended
<1>4. CASE TimeOut(p)
  BY <1>4, EndSteps, TimedOutSlow DEF TimeOut, Ended
<1>5. CASE CheckTime(p) /\ Over(p)
  BY <1>5, EndSteps DEF CheckTime, Open, Ended
<1>6. QED
  BY <1>1, <1>2, <1>3, <1>4, <1>5

LEMMA StepHolds == IInv /\ [Next]_vars => IInv'
<1> SUFFICES ASSUME IInv, [Next]_vars PROVE IInv'
  OBVIOUS
<1>1. CASE Appear \/ Tick
  BY <1>1, AppearHolds, TickHolds
<1>2. ASSUME NEW p \in Poll, Begin(p) \/ FindNothing(p) \/ Wake(p)
      PROVE  IInv'
  BY <1>2, BeginHolds, FindNothingHolds, WakeHolds
<1>3. ASSUME NEW p \in Poll, Find(p) \/ Fail(p) \/ CheckTime(p) \/ Cancel(p) \/ TimeOut(p)
      PROVE  IInv'
  BY <1>3, EndHolds, WaitHolds
<1>4. CASE UNCHANGED vars
  BY <1>4 DEF vars, IInv, Shapes
<1>5. QED
  BY <1>1, <1>2, <1>3, <1>4 DEF Next

\* The invariant above holds of every behaviour.
THEOREM InvariantHolds == Spec => []IInv
BY InitHolds, StepHolds, PTL DEF Spec

\* The clock, the message and the polls have their types (services/messages.go:93).
THEOREM TypeCorrect == Spec => []TypeOK
<1>1. IInv => TypeOK
  <2> SUFFICES ASSUME IInv PROVE TypeOK
    OBVIOUS
  <2>1. clock \in 0 .. MaxClock /\ ready \in {NoMessage} \cup 0 .. MaxClock
    BY LongPollAssumption DEF IInv, Shapes
  <2>2. ASSUME NEW p \in Poll
        PROVE  /\ polls[p].at \in {"idle"} \cup Open \cup Ended
               /\ polls[p].at \in Ended => polls[p].slow \in BOOLEAN
    BY DEF IInv, Shapes, Idle, OpenPoll, EndedPoll, Open, Ended
  <2>3. ASSUME NEW p \in Poll, polls[p].at \in Open
        PROVE  /\ polls[p].start \in 0 .. clock /\ polls[p].since \in 0 .. clock
               /\ polls[p].slow \in BOOLEAN /\ polls[p].due \in BOOLEAN
               /\ polls[p].next \in clock .. clock + Interval
    <3>1. polls[p] \in OpenPoll /\ OnTime(polls[p], clock) /\ clock \in Nat
      BY <2>3, PollShapes DEF IInv, Shapes, Punctual
    <3>2. QED
      BY <3>1, LongPollAssumption DEF OpenPoll, OnTime
  <2>4. QED
    BY <2>1, <2>2, <2>3 DEF TypeOK
<1>2. QED
  BY <1>1, InvariantHolds, PTL

\* Unless a statement is slow, a poll is over before the timeout of its handler
\* (configs/app.go:70, services/messages.go:113).
THEOREM PollsDoEnd == Spec => []PollsEndInTime
<1>1. IInv => PollsEndInTime
  BY DEF IInv, Punctual, PollsEndInTime
<1>2. QED
  BY <1>1, InvariantHolds, PTL

\* No tick that rings during a claim is lost on a message that is ready
\* (services/messages.go:95-119).
THEOREM ReadyMessagesClaimed == Spec => []ReadyIsClaimed
<1>1. IInv => ReadyIsClaimed
  <2> SUFFICES ASSUME IInv, ready # NoMessage,
                      clock > ready + Reaction + MaxStatement,
                      NEW p \in Poll, polls[p].at \in Open, ~ polls[p].slow,
                      ~ polls[p].start > ready
               PROVE  FALSE
    BY DEF ReadyIsClaimed, Reaction
  <2>1. /\ polls[p] \in OpenPoll /\ OnTime(polls[p], clock)
        /\ Notices(polls[p], clock, ready)
    BY PollShapes DEF IInv, Punctual
  <2>2. clock \in Nat /\ ready \in 0 .. clock
    BY DEF IInv, Shapes
  <2>3. polls[p].start <= ready
    BY <2>1, <2>2 DEF OpenPoll
  <2>4. CASE polls[p].at = "waiting"
    BY <2>1, <2>2, <2>3, <2>4, ReactionType, LongPollAssumption
       DEF OpenPoll, OnTime, Notices, WakesAt
  <2>5. CASE Answering(polls[p])
    BY <2>1, <2>2, <2>3, <2>5, ReactionType, LongPollAssumption
       DEF OpenPoll, OnTime, Notices, Answering
  <2>6. QED
    BY <2>4, <2>5 DEF Answering, Open
<1>2. QED
  BY <1>1, InvariantHolds, PTL

\* "No messages" is the answer of a claim that came back after the polling time
\* and found none (services/messages.go:112).
THEOREM EmptyAnswersTrue == Spec => EmptyWasEmpty
<1> DEFINE Answered(p) ==
      polls[p].at = "nothing" /\ ~ polls[p].slow /\ polls'[p].at = "empty" =>
        /\ polls[p].since + MaxStatement > polls[p].start + Polling
        /\ ready # NoMessage => ready >= polls[p].since
<1>1. IInv /\ [Next]_vars => \A p \in Poll : Answered(p)
  <2> SUFFICES ASSUME IInv, [Next]_vars, NEW p \in Poll,
                      polls[p].at = "nothing", ~ polls[p].slow,
                      polls'[p].at = "empty"
               PROVE  /\ polls[p].since + MaxStatement > polls[p].start + Polling
                      /\ ready # NoMessage => ready >= polls[p].since
    OBVIOUS
  <2>1. /\ polls[p] \in OpenPoll /\ OnTime(polls[p], clock)
        /\ ready # NoMessage => Notices(polls[p], clock, ready)
    BY PollShapes DEF IInv, Punctual, Open
  <2>2. clock \in Nat /\ ready \in {NoMessage} \cup 0 .. clock
    BY DEF IInv, Shapes
  <2>3. Over(p)
    <3>1. ASSUME NEW q \in Poll, NEW to, Goes(q, to), q = p => to # "empty"
          PROVE  FALSE
      BY <3>1, <2>1 DEF Goes, IInv, Shapes, OpenPoll
    <3>2. PICK q \in Poll : \/ Begin(q) \/ Find(q) \/ FindNothing(q) \/ Fail(q)
                            \/ CheckTime(q) \/ Wake(q) \/ Cancel(q) \/ TimeOut(q)
      <4>1. ~ Appear /\ ~ UNCHANGED vars
        BY DEF Appear, vars
      <4>2. ~ Tick
        BY TickedOpen DEF Tick, Open
      <4>3. QED
        BY <4>1, <4>2 DEF Next
    <3>3. ~ Begin(q) /\ ~ Wake(q)
      BY <2>1 DEF Begin, Wake, IInv, Shapes, Idle
    <3>4. CheckTime(q) /\ q = p
      BY <3>1, <3>2, <3>3 DEF Find, FindNothing, Fail, CheckTime, Cancel, TimeOut
    <3>5. QED
      BY <3>1, <3>4 DEF CheckTime
  <2>4. QED
    BY <2>1, <2>2, <2>3, LongPollAssumption
       DEF Over, OpenPoll, OnTime, Notices, Answering
<1>2. QED
  BY <1>1, InvariantHolds, PTL DEF Spec, EmptyWasEmpty
=============================================================================
