----------------------------- MODULE MCLongPoll -----------------------------
(***************************************************************************)
(* Two polls that begin at any time.  A statement can last longer than the *)
(* interval, so that ticks pile up behind it.                              *)
(***************************************************************************)
EXTENDS LongPoll, TLC

Symmetry == Permutations(Poll)
=============================================================================
