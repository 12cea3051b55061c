--------------------------- MODULE DeduperProofs ---------------------------
(***************************************************************************)
(* Proofs about the duplicate suppressor: its bookkeeping is inductive,    *)
(* its map holds only recent entries, and it answers exactly as the rate   *)
(* limiter that never forgets.                                             *)
(***************************************************************************)
EXTENDS DeduperMachine, TLAPS

USE TTLAssumption, ClockAssumption DEF Absent

\* A prune drops only entries more than two windows old, and leaves the rest alone.
LEMMA PrunedType ==
  ASSUME NEW d \in DeduperState, NEW now \in Nat \ {0}
  PROVE  /\ Pruned(d, now) \in DeduperState
         /\ \A k \in Key : \/ Pruned(d, now).last[k] = d.last[k]
                           \/ Pruned(d, now).last[k] = Absent /\ now - d.last[k] > PruneAfter
  BY DEF Pruned, DeduperState, Kept, PruneAfter

\* After a prune was considered at second now, every entry is at most two windows old
\* at the last prune, which is less than a window ago.
LEMMA PrunedRecent ==
  ASSUME NEW d \in DeduperState, NEW now \in Nat \ {0}, d.lastPrune <= now,
         \A k \in Key : d.last[k] # Absent => d.lastPrune - d.last[k] <= PruneAfter
  PROVE  /\ Pruned(d, now).lastPrune \in 1 .. now
         /\ now - Pruned(d, now).lastPrune < TTL
         /\ \A k \in Key : Pruned(d, now).last[k] # Absent =>
              Pruned(d, now).lastPrune - Pruned(d, now).last[k] <= PruneAfter
  BY DEF Pruned, PruneDue, DeduperState, Kept, PruneAfter

\* A call changes its own key's stamp only, and only when it sends.
LEMMA AfterShouldSendType ==
  ASSUME NEW d \in DeduperState, NEW now \in Nat \ {0}, NEW k \in Key
  PROVE  /\ AfterShouldSend(d, k, now) \in DeduperState
         /\ AfterShouldSend(d, k, now).lastPrune = Pruned(d, now).lastPrune
         /\ \A j \in Key : AfterShouldSend(d, k, now).last[j] =
              IF j = k /\ ShouldSend(d, k, now) THEN now ELSE Pruned(d, now).last[j]
  <1>1. Pruned(d, now) \in DeduperState
    BY PrunedType
  <1>2. QED
    BY <1>1 DEF AfterShouldSend, DeduperState

\* The deduper's answer is the rate limiter's: pruning never changes it.
LEMMA SameAnswer ==
  ASSUME Bookkeeping, NEW k \in Key
  PROVE  ShouldSend(ded, k, clock) <=> Limiter!Quiet(k)
  <1> USE DEF Bookkeeping, TypeOK
  <1>1. /\ Pruned(ded, clock) \in DeduperState
        /\ \/ Pruned(ded, clock).last[k] = ded.last[k]
           \/ Pruned(ded, clock).last[k] = Absent /\ clock - ded.last[k] > PruneAfter
    BY PrunedType
  <1>2. ded.last[k] \in Nat /\ sentAt[k] \in Nat /\ ded.lastPrune \in Nat
    BY DEF DeduperState
  <1>3. CASE ded.last[k] = sentAt[k]
    BY <1>1, <1>2, <1>3 DEF ShouldSend, Suppresses, Limiter!Quiet, PruneAfter
  <1>4. CASE ded.last[k] = Absent /\ ded.lastPrune - sentAt[k] > TTL
    BY <1>1, <1>2, <1>4 DEF ShouldSend, Suppresses, Limiter!Quiet, StampsArePast
  <1>5. QED
    BY <1>3, <1>4 DEF PrunedOnlyStale

LEMMA BookkeepingStep == Bookkeeping /\ [Next]_vars => Bookkeeping'
  <1> SUFFICES ASSUME Bookkeeping, [Next]_vars
               PROVE  Bookkeeping'
    OBVIOUS
  <1> USE DEF Bookkeeping, TypeOK
  <1>1. CASE Advance
    BY <1>1 DEF Advance, PrunedOnlyStale, StampsArePast, PruneIsRecent, NoCall, DeduperState
  <1>2. ASSUME NEW k \in Key, Call(k)
        PROVE  Bookkeeping'
    <2>1. /\ ded' \in DeduperState
          /\ ded'.lastPrune = Pruned(ded, clock).lastPrune
          /\ \A j \in Key : ded'.last[j] =
               IF j = k /\ ShouldSend(ded, k, clock) THEN clock ELSE Pruned(ded, clock).last[j]
      BY <1>2, AfterShouldSendType DEF Call
    <2>2. /\ Pruned(ded, clock).lastPrune \in 1 .. clock
          /\ clock - Pruned(ded, clock).lastPrune < TTL
          /\ \A j \in Key : Pruned(ded, clock).last[j] # Absent =>
               Pruned(ded, clock).lastPrune - Pruned(ded, clock).last[j] <= PruneAfter
      BY PrunedRecent DEF StampsArePast, PruneIsRecent
    <2>3. /\ Pruned(ded, clock) \in DeduperState
          /\ \A j \in Key :
               \/ Pruned(ded, clock).last[j] = ded.last[j]
               \/ Pruned(ded, clock).last[j] = Absent /\ clock - ded.last[j] > PruneAfter
      BY PrunedType
    <2>4. ShouldSend(ded, k, clock) \in BOOLEAN
      BY DEF ShouldSend, Suppresses
    <2>5. /\ clock' = clock
          /\ answer' = [key |-> k, at |-> clock, sent |-> ShouldSend(ded, k, clock)]
          /\ sentAt' = IF ShouldSend(ded, k, clock) THEN [sentAt EXCEPT ![k] = clock] ELSE sentAt
      BY <1>2 DEF Call
    <2>6. TypeOK'
      BY <2>1, <2>4, <2>5
    <2>7. PrunedOnlyStale'
      <3> SUFFICES ASSUME NEW j \in Key
                   PROVE  \/ ded'.last[j] = sentAt'[j]
                          \/ ded'.last[j] = Absent /\ ded'.lastPrune - sentAt'[j] > TTL
        BY DEF PrunedOnlyStale
      <3>1. CASE j = k /\ ShouldSend(ded, k, clock)
        BY <2>1, <2>5, <3>1
      <3>2. CASE ~(j = k /\ ShouldSend(ded, k, clock))
        <4>1. ded'.last[j] = Pruned(ded, clock).last[j] /\ sentAt'[j] = sentAt[j]
          BY <2>1, <2>5, <3>2
        <4>2. /\ ded.last[j] \in Nat /\ sentAt[j] \in Nat /\ ded.lastPrune \in Nat
              /\ sentAt[j] <= clock
          BY DEF DeduperState, StampsArePast
        <4>3. CASE ded.last[j] = Absent /\ ded.lastPrune - sentAt[j] > TTL
          <5>1. Pruned(ded, clock).lastPrune >= ded.lastPrune
            BY <4>2 DEF Pruned, StampsArePast
          <5>2. Pruned(ded, clock).last[j] = Absent
            BY <2>3, <4>3
          <5>3. QED
            BY <2>1, <2>2, <4>1, <4>2, <4>3, <5>1, <5>2
        <4>4. CASE ded.last[j] = sentAt[j] /\ Pruned(ded, clock).last[j] # ded.last[j]
          <5>1. Pruned(ded, clock).lastPrune = clock
            BY <4>4 DEF Pruned
          <5>2. Pruned(ded, clock).last[j] = Absent /\ clock - ded.last[j] > PruneAfter
            BY <2>3, <4>4
          <5>3. QED
            BY <2>1, <4>1, <4>2, <4>4, <5>1, <5>2 DEF PruneAfter
        <4>5. CASE ded.last[j] = sentAt[j] /\ Pruned(ded, clock).last[j] = ded.last[j]
          BY <4>1, <4>5
        <4>6. QED
          BY <4>3, <4>4, <4>5 DEF PrunedOnlyStale
      <3>3. QED
        BY <3>1, <3>2
    <2>8. StampsArePast'
      BY <2>1, <2>2, <2>5 DEF StampsArePast
    <2>9. PruneIsRecent'
      <3>1. \A j \in Key : Pruned(ded, clock).last[j] \in Nat
        BY <2>3 DEF DeduperState
      <3>2. QED
        BY <2>1, <2>2, <2>5, <3>1 DEF PruneIsRecent, PruneAfter
    <2>10. QED
      BY <2>6, <2>7, <2>8, <2>9
  <1>3. CASE UNCHANGED vars
    BY <1>3 DEF vars, PrunedOnlyStale, StampsArePast, PruneIsRecent
  <1>4. QED
    BY <1>1, <1>2, <1>3 DEF Next

\* The deduper's map and its prune stamp agree with what was really sent, in every
\* reachable state (shouldSend, main.go:77-100).
THEOREM BookkeepingInvariant == Spec => []Bookkeeping
  <1>1. Init => Bookkeeping
    BY DEF Init, Bookkeeping, TypeOK, PrunedOnlyStale, StampsArePast, PruneIsRecent,
           NewDeduper, DeduperState, NoCall
  <1>2. QED
    BY <1>1, BookkeepingStep, PTL DEF Spec

\* The map never holds an entry of three windows or more when a call returns
\* (the opportunistic prune of main.go:82-92).
THEOREM MapStaysSmall == Spec => []MapHoldsOnlyRecent
  <1>1. Bookkeeping => MapHoldsOnlyRecent
    BY DEF Bookkeeping, TypeOK, DeduperState, PruneIsRecent, PruneAfter, MapHoldsOnlyRecent
  <1>2. QED
    BY <1>1, BookkeepingInvariant, PTL

\* The deduper implements the rate limiter that forgets nothing: whatever was pruned,
\* each call answers as if the whole history were at hand (shouldSend, main.go:77-100).
THEOREM DeduperImplementsRateLimit == Spec => ImplementsRateLimit
  <1>1. Init => Limiter!Init
    BY DEF Init, Limiter!Init, NoCall, Limiter!NoCall
  <1>2. Bookkeeping /\ [Next]_vars => [Limiter!Next]_(Limiter!vars)
    <2> SUFFICES ASSUME Bookkeeping, [Next]_vars
                 PROVE  [Limiter!Next]_(Limiter!vars)
      OBVIOUS
    <2>1. CASE Advance
      BY <2>1 DEF Advance, Limiter!Advance, Limiter!Next, Bookkeeping, TypeOK
    <2>2. ASSUME NEW k \in Key, Call(k)
          PROVE  Limiter!Call(k)
      <3>1. ShouldSend(ded, k, clock) <=> Limiter!Quiet(k)
        BY SameAnswer
      <3>2. ShouldSend(ded, k, clock) \in BOOLEAN /\ Limiter!Quiet(k) \in BOOLEAN
        BY DEF ShouldSend, Suppresses, Limiter!Quiet
      <3>3. ShouldSend(ded, k, clock) = Limiter!Quiet(k)
        BY <3>1, <3>2
      <3>4. QED
        BY <2>2, <3>3 DEF Call, Limiter!Call
    <2>3. CASE UNCHANGED vars
      BY <2>3 DEF vars, Limiter!vars
    <2>4. QED
      BY <2>1, <2>2, <2>3 DEF Next, Limiter!Next
  <1>3. QED
    BY <1>1, <1>2, BookkeepingInvariant, PTL DEF Spec, ImplementsRateLimit, Limiter!Spec
=============================================================================
