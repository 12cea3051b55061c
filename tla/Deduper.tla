------------------------------ MODULE Deduper ------------------------------
(***************************************************************************)
(* The in-memory duplicate suppressor of the break-glass account check     *)
(* (linux_btg_account_check/main.go, type deduper): a map from an alert    *)
(* key to the second it was last sent, pruned opportunistically by the     *)
(* calls themselves.  The operators are pure, so that BTGCheck can embed   *)
(* the same deduper; DeduperMachine drives them with a clock.              *)
(***************************************************************************)
EXTENDS Integers

CONSTANTS
  Key,   \* alert keys: "<account>|<path>" and "LONG_LINE|<path>"
  TTL    \* ALERT_DEDUP_SECONDS, always positive: Export ignores other values

ASSUME TTLAssumption == TTL \in Nat \ {0}

(***************************************************************************)
(* A key that is not in the Go map reads as Absent, Go's zero value.  The  *)
(* clock is Unix time and never 0, so no stamp is confused with it, and    *)
(* neither is the lastPrune = 0 that means "never pruned".                 *)
(***************************************************************************)
Absent == 0

DeduperState == [last : [Key -> Nat], lastPrune : Nat]

NewDeduper == [last |-> [k \in Key |-> Absent], lastPrune |-> 0]

PruneDue(d, now) == d.lastPrune = 0 \/ now - d.lastPrune >= TTL

\* Mutated form of PruneAfter: entries are dropped while they still suppress.
PruneAfterOneLess == TTL - 1

PruneAfter == 2 * TTL

Kept(d, k, now) == now - d.last[k] <= PruneAfter

\* Mutated form of Pruned: the stale entries are found and never deleted.
PrunedKeepsAll(d, now) ==
  IF PruneDue(d, now) THEN [d EXCEPT !.lastPrune = now] ELSE d

Pruned(d, now) ==
  IF PruneDue(d, now)
  THEN [last |-> [k \in Key |-> IF Kept(d, k, now) THEN d.last[k] ELSE Absent],
        lastPrune |-> now]
  ELSE d

\* Mutated form of Suppresses: the window's last second is let through.
SuppressesStrictly(d, k, now) == d.last[k] # Absent /\ now - d.last[k] < TTL

\* The window includes its last second: a repeat exactly TTL later is held back.
Suppresses(d, k, now) == d.last[k] # Absent /\ now - d.last[k] <= TTL

ShouldSend(d, k, now) == ~Suppresses(Pruned(d, now), k, now)

\* The deduper after shouldSend(k) at second now, whatever it answered.
AfterShouldSend(d, k, now) ==
  IF ShouldSend(d, k, now)
  THEN [Pruned(d, now) EXCEPT !.last[k] = now]
  ELSE Pruned(d, now)
=============================================================================
