---------------------------- MODULE MCForqBroker ----------------------------
(***************************************************************************)
(* Small instances of ForqBroker.                                          *)
(***************************************************************************)
EXTENDS ForqBroker, TLC

MCNameLength == [b \in Base |-> 60]
MCLongNameLength == [b \in Base |-> 61]
MCBackoffDelays == <<1>>
\* One that is refused on either side of the two that are taken.
MCRequestedDelays == {-1, 0, 1, 2}
MCSweepDelays == {0}
MCJobTimeout == [j \in Job |-> 1]
MCSweepTimeout == [j \in Job |-> IF j = "expiredDlq" THEN 2 ELSE 1]

MCOffered == Job \cup Request
MCSweepOffered == {"produce", "claim", "requeueAll", "expired", "expiredDlq"}

Symmetry == Permutations(Caller) \cup Permutations(Id)
=============================================================================
