----------------------------- MODULE MCMetrics -----------------------------
(***************************************************************************)
(* One caller more than the jobs need: an ack meets a sweep.  A message is *)
(* claimed twice in a stay, and again with either time after it was moved  *)
(* and requeued; batches are full with one row.                            *)
(***************************************************************************)
EXTENDS Metrics, TLC

Symmetry == Permutations(Id) \cup Permutations(Caller)
=============================================================================
