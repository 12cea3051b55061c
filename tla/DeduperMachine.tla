-------------------------- MODULE DeduperMachine ---------------------------
(***************************************************************************)
(* The deduper in use.  Every call of shouldSend is made by processOnce    *)
(* with processMu held (main.go:258), so reading the clock (78) and the    *)
(* work under d.mu (79-99) are one step here: no other call can come       *)
(* between them.  The clock moves by any number of seconds between calls,  *)
(* which is what lets a prune fall due at every distance from an entry.    *)
(***************************************************************************)
EXTENDS Deduper

CONSTANT MaxClock   \* bound on the clock, for TLC

ASSUME ClockAssumption == MaxClock \in Nat

VARIABLES
  clock,    \* Unix time, in seconds
  ded,      \* the plugin's deduper
  sentAt,   \* history: the second each key was last sent
  answer    \* history: the last call and its answer

vars == <<clock, ded, sentAt, answer>>

NoCall == [key |-> {}, at |-> 0, sent |-> FALSE]

Init ==
  /\ clock = 1
  /\ ded = NewDeduper
  /\ sentAt = [k \in Key |-> 0]
  /\ answer = NoCall

Advance ==
  /\ \E t \in clock + 1 .. MaxClock : clock' = t
  /\ UNCHANGED <<ded, sentAt, answer>>

Call(k) ==
  LET sent == ShouldSend(ded, k, clock) IN
  /\ ded' = AfterShouldSend(ded, k, clock)
  /\ answer' = [key |-> k, at |-> clock, sent |-> sent]
  /\ sentAt' = IF sent THEN [sentAt EXCEPT ![k] = clock] ELSE sentAt
  /\ UNCHANGED clock

Next == Advance \/ \E k \in Key : Call(k)

Spec == Init /\ [][Next]_vars

-----------------------------------------------------------------------------

\* The shapes of the clock, the deduper's map and the histories.
TypeOK ==
  /\ clock \in Nat \ {0}
  /\ ded \in DeduperState
  /\ sentAt \in [Key -> Nat]
  /\ answer \in {NoCall} \cup [key : Key, at : Nat, sent : BOOLEAN]

\* What makes pruning invisible: an entry either still holds the last second its
\* key was sent, or was dropped when that second was out of every window.
PrunedOnlyStale ==
  \A k \in Key : \/ ded.last[k] = sentAt[k]
                 \/ ded.last[k] = Absent /\ ded.lastPrune - sentAt[k] > TTL

\* No stamp comes from the future.
StampsArePast ==
  /\ answer.at <= clock
  /\ ded.lastPrune <= clock
  /\ \A k \in Key : sentAt[k] <= clock

\* Whatever is in the map was at most two windows old at the last prune, and a call
\* that has returned left the last prune less than one window behind.
PruneIsRecent ==
  /\ \A k \in Key : ded.last[k] # Absent => ded.lastPrune - ded.last[k] <= PruneAfter
  /\ answer.at = clock => ded.lastPrune # 0 /\ clock - ded.lastPrune < TTL

\* The inductive invariant: the deduper's bookkeeping agrees with what was really sent
\* (shouldSend, main.go:77-100).
Bookkeeping == TypeOK /\ PrunedOnlyStale /\ StampsArePast /\ PruneIsRecent

\* The map stays small (main.go:82-92): whatever is still in it when a call
\* returns was sent less than three windows before.  Without it the map of a
\* plugin that runs for months would hold every key it ever saw.
MapHoldsOnlyRecent ==
  answer.at = clock => \A k \in Key : ded.last[k] # Absent => clock - ded.last[k] < 3 * TTL

\* The deduper with its pruned map gives exactly the answers of the rate limiter
\* that forgets nothing (shouldSend, main.go:77-100).
Limiter == INSTANCE RateLimit

ImplementsRateLimit == Limiter!Spec
=============================================================================
