----------------------------- MODULE MCDeduper -----------------------------
(***************************************************************************)
(* DeduperMachine for TLC: two keys, a window of two seconds and a clock   *)
(* that reaches past the third window, so that entries are sent, repeated, *)
(* expired, pruned and sent again.                                         *)
(***************************************************************************)
EXTENDS DeduperMachine, TLC

Symmetry == Permutations(Key)
=============================================================================
