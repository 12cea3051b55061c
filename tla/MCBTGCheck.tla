----------------------------- MODULE MCBTGCheck -----------------------------
(***************************************************************************)
(* BTGCheck for TLC.  One monitored account; the daemon writes its login   *)
(* as one line or in two halves, and an oversized line.                    *)
(***************************************************************************)
EXTENDS BTGCheck, TLC

CONSTANT Bob

Line(k) == [key |-> k, part |-> "line"]
FirstHalf == [key |-> NoKey, part |-> "head"]
LastHalf == [key |-> NoKey, part |-> "tail"]

\* For the checkpoint: whose lines they are does not matter, how they are written does.
PlainLines == {Line(NoKey), FirstHalf, LastHalf}

\* For the alerts: lines of a monitored account, whole or in two halves of which the
\* first matches nothing yet, and an oversized line.
LastHalfOf(k) == [key |-> k, part |-> "tail"]
AlertLines == {Line(Bob), Line(LongLine), FirstHalf, LastHalfOf(Bob)}

Symmetry == Permutations(Thread)
=============================================================================
