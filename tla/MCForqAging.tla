---------------------------- MODULE MCForqAging ----------------------------
(***************************************************************************)
(* Small instances of ForqAging.                                           *)
(***************************************************************************)
EXTENDS ForqAging

MCBackoffDelays == <<1>>
MCJobTimeout == [j \in Job |-> 1]
=============================================================================
