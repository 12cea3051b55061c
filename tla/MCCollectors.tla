---------------------------- MODULE MCCollectors ----------------------------
(***************************************************************************)
(* Collectors for TLC.                                                     *)
(***************************************************************************)
EXTENDS Collectors

CONSTANTS DiskSource, AppSource

\* Time is in days: three months of 14, 16 and 14 days, the first of which is past.
MCMonthStart == [m \in 0 .. 3 |-> CASE m = 0 -> -14 [] m = 1 -> 0 [] m = 2 -> 16 [] m = 3 -> 30]

MCSignatures == {[source |-> s, id |-> 1] : s \in {DiskSource, AppSource}}
=============================================================================
