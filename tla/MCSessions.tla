----------------------------- MODULE MCSessions -----------------------------
(***************************************************************************)
(* A browser with two requests at once, of two tabs or clicks, that can    *)
(* log in twice, and a sweeper that can wait while a session expires.      *)
(***************************************************************************)
EXTENDS Sessions
=============================================================================
