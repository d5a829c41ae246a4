----------------------------- MODULE MCShutdown -----------------------------
(***************************************************************************)
(* Two jobs and two connections.                                           *)
(***************************************************************************)
EXTENDS Shutdown
=============================================================================
