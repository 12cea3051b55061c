----------------------------- MODULE RateLimit -----------------------------
(***************************************************************************)
(* What the deduper promises: an alert key is sent again only when more    *)
(* than TTL seconds have passed since it was last sent, and is then sent   *)
(* whatever happened in between.  Nothing is ever forgotten here; that the *)
(* deduper may prune its map is an implementation's freedom, and showing   *)
(* that it never changes an answer is what DeduperMachine is for.          *)
(***************************************************************************)
EXTENDS Integers

CONSTANTS Key, TTL

VARIABLES
  clock,     \* the second the next call reads
  sentAt,    \* sentAt[k]: the second k was last sent, 0 for never
  answer     \* the last call's key, second and answer

vars == <<clock, sentAt, answer>>

NoCall == [key |-> {}, at |-> 0, sent |-> FALSE]

Init ==
  /\ clock \in Nat \ {0}
  /\ sentAt = [k \in Key |-> 0]
  /\ answer = NoCall

Advance ==
  /\ clock' > clock
  /\ UNCHANGED <<sentAt, answer>>

Quiet(k) == sentAt[k] = 0 \/ clock - sentAt[k] > TTL

Call(k) ==
  /\ answer' = [key |-> k, at |-> clock, sent |-> Quiet(k)]
  /\ sentAt' = IF Quiet(k) THEN [sentAt EXCEPT ![k] = clock] ELSE sentAt
  /\ UNCHANGED clock

Next == Advance \/ \E k \in Key : Call(k)

Spec == Init /\ [][Next]_vars
=============================================================================
