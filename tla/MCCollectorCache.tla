-------------------------- MODULE MCCollectorCache --------------------------
(***************************************************************************)
(* CollectorCache for TLC.                                                 *)
(***************************************************************************)
EXTENDS CollectorCache, TLC

Symmetry == Permutations(Request) \cup Permutations(Sig)
=============================================================================
