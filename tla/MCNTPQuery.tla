----------------------------- MODULE MCNTPQuery -----------------------------
(***************************************************************************)
(* NTPQuery for TLC.                                                       *)
(***************************************************************************)
EXTENDS NTPQuery
=============================================================================
