---------------------------- MODULE MessageLife ----------------------------
(***************************************************************************)
(* What forq promises for a message, without clocks, receipts, statements  *)
(* or jobs: it enters a queue, is leased to one consumer at a time and at  *)
(* most MaxDeliveryAttempts times, and it leaves the queue because its     *)
(* lease was completed or because it was buried in the DLQ.  Only a DLQ    *)
(* drops messages.  ForqBroker implements Spec, ForqAging FairSpec.        *)
(*                                                                         *)
(* The statements of the jobs and of the admin pages act on sets of        *)
(* messages at once.                                                       *)
(***************************************************************************)
EXTENDS Integers

CONSTANTS
  Id,
  MaxDeliveryAttempts   \* leases per stay in a queue or a DLQ

VARIABLES
  place,    \* where each message is
  leased,   \* a consumer is processing it
  tries     \* leases in this stay

lifeVars == <<place, leased, tries>>

Place == {"new", "queue", "dlq", "gone"}

TypeOK ==
  /\ place \in [Id -> Place]
  /\ leased \in [Id -> BOOLEAN]
  /\ tries \in [Id -> 0 .. MaxDeliveryAttempts]

Init ==
  /\ place = [i \in Id |-> "new"]
  /\ leased = [i \in Id |-> FALSE]
  /\ tries = [i \in Id |-> 0]

-----------------------------------------------------------------------------
Unleased(here) == {i \in Id : place[i] = here /\ ~ leased[i]}

\* The messages in S go to `there`; what they were is forgotten.
Go(S, there) ==
  /\ place' = [i \in Id |-> IF i \in S THEN there ELSE place[i]]
  /\ leased' = [i \in Id |-> IF i \in S THEN FALSE ELSE leased[i]]
  /\ tries' = [i \in Id |-> IF i \in S THEN 0 ELSE tries[i]]

Enter(i) ==
  /\ place[i] = "new"
  /\ Go({i}, "queue")

\* A produce that was cut: the producer is told of an error.
Reject(S) ==
  /\ \A i \in S : place[i] = "new"
  /\ Go(S, "gone")

Deliver(i) ==
  /\ i \in Unleased("queue") \cup Unleased("dlq")
  /\ tries[i] < MaxDeliveryAttempts
  /\ leased' = [leased EXCEPT ![i] = TRUE]
  /\ tries' = [tries EXCEPT ![i] = @ + 1]
  /\ UNCHANGED place

\* The consumer is done with the message.
Complete(i) ==
  /\ leased[i]
  /\ Go({i}, "gone")

\* The consumers gave up, or took too long.
Release(S) ==
  /\ \A i \in S : leased[i]
  /\ leased' = [i \in Id |-> leased[i] /\ i \notin S]
  /\ UNCHANGED <<place, tries>>

Bury(S) ==
  /\ S \subseteq Unleased("queue")
  /\ Go(S, "dlq")

Revive(S) ==
  /\ S \subseteq Unleased("dlq")
  /\ Go(S, "queue")

\* An admin deletes from a DLQ what a consumer is processing, too.
Drop(S) ==
  /\ \A i \in S : place[i] = "dlq"
  /\ Go(S, "gone")

Next ==
  \/ \E i \in Id : Enter(i) \/ Deliver(i) \/ Complete(i)
  \/ \E S \in SUBSET Id : Reject(S) \/ Release(S) \/ Bury(S) \/ Revive(S) \/ Drop(S)

Spec == Init /\ [][Next]_lifeVars

-----------------------------------------------------------------------------
(***************************************************************************)
(* Progress.  A lease ends, and a message that nobody processes does not   *)
(* stay where it is; nobody has to consume, to requeue or to produce.      *)
(***************************************************************************)
EndLease(i) ==
  \/ Complete(i)
  \/ \E S \in SUBSET Id : i \in S /\ leased[i] /\ (Release(S) \/ Drop(S))

Leave(i) ==
  \/ Deliver(i)
  \/ \E S \in SUBSET Id : i \in S /\ (Bury(S) \/ Drop(S) \/ Revive(S))

Fairness == \A i \in Id : WF_lifeVars(EndLease(i)) /\ WF_lifeVars(Leave(i))

FairSpec == Spec /\ Fairness
=============================================================================
