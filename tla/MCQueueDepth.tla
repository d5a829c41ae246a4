--------------------------- MODULE MCQueueDepth ----------------------------
(***************************************************************************)
(* A queue with its DLQ and three messages: each can be in either, drained   *)
(* or moved in the middle of a tick.                                       *)
(***************************************************************************)
EXTENDS QueueDepth
=============================================================================
