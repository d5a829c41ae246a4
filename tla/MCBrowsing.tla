----------------------------- MODULE MCBrowsing -----------------------------
(***************************************************************************)
(* Three messages, the newest with the greatest id, on pages of one row:   *)
(* a page has a row below it that can leave, come back or arrive between   *)
(* two loads.                                                              *)
(***************************************************************************)
EXTENDS Browsing
=============================================================================
