--------------------------- MODULE KernelVersions ---------------------------
(***************************************************************************)
(* The order of kernel versions of linux_needs_reboot_check/main.go.  A    *)
(* version is the sequence of its tokens, as tokenizeVersion cuts it:      *)
(* numbers and words, the separators dropped.  A number has its value, a   *)
(* word its rank in the lexical order.                                     *)
(***************************************************************************)
EXTENDS Integers, Sequences

CONSTANT Width   \* of an unsigned integer: 2^64 in the code

ASSUME WidthAssumption == Width \in Nat \ {0}

Token == [number : BOOLEAN, val : Nat]
Version == Seq(Token)

\* What a version that has ended is compared as.
Zero == [number |-> TRUE, val |-> 0]

At(v, i) == IF i \in DOMAIN v THEN v[i] ELSE Zero

\* parseUintToken: 64 bits, and what is above them lost.
Value(token) == IF token.number THEN token.val % Width ELSE token.val

\* Any number is above any word.
Below(s, t) ==
  \/ t.number /\ ~s.number
  \/ s.number = t.number /\ Value(s) < Value(t)

Differs(s, t) == Below(s, t) \/ Below(t, s)

Longer(a, b) == IF Len(a) < Len(b) THEN Len(b) ELSE Len(a)

\* compareVersions(a, b) > 0: the first tokens that differ decide.
Newer(a, b) ==
  \E i \in 1 .. Longer(a, b) :
    /\ Below(At(b, i), At(a, i))
    /\ \A j \in 1 .. i - 1 : ~Differs(At(a, j), At(b, j))

\* What the loop over the installed kernels ends with: one that no other is newer than.
IsHighest(v, versions) == v \in versions /\ \A w \in versions : ~Newer(w, v)

\* GNU sort -V, for versions whose separators agree as far as their tokens do: a word is
\* above a number, and what is longer above its own beginning.
SortsAfter(a, b) ==
  \E i \in DOMAIN a :
    /\ \A j \in 1 .. i - 1 : j \in DOMAIN b /\ a[j] = b[j]
    /\ i \in DOMAIN b =>
         \/ b[i].number /\ ~a[i].number
         \/ a[i].number = b[i].number /\ a[i].val > b[i].val

IsSortedLast(v, versions) == v \in versions /\ \A w \in versions : ~SortsAfter(w, v)
=============================================================================
