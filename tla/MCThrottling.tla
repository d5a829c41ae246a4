---------------------------- MODULE MCThrottling ----------------------------
(***************************************************************************)
(* Small instances of Throttling.                                          *)
(***************************************************************************)
EXTENDS Throttling, TLC

Symmetry == Permutations(Ip) \cup Permutations(Request)
=============================================================================
