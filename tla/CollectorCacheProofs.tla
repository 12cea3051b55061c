------------------------ MODULE CollectorCacheProofs ------------------------
(***************************************************************************)
(* Proofs about live collection with a fallback cache, for any number of   *)
(* requests, any deadlines and any TTL.                                    *)
(***************************************************************************)
EXTENDS CollectorCache, TLAPS

\* A collection is never given more than the hard cap (effectiveTimeout, main.go:784-802).
LEMMA TimeoutBelowCap ==
  ASSUME NEW timeout \in Nat
  PROVE  EffectiveTimeout(timeout) \in Nat /\ EffectiveTimeout(timeout) <= HardCap
  BY CacheAssumption DEF EffectiveTimeout, Smaller

\* Replying ends the request and touches no other.
LEMMA ReplyEnds ==
  ASSUME TypeOK, RequestsInTime, NEW r \in Request, NEW kind, NEW entry, Reply(r, kind, entry)
  PROVE  /\ pc' \in [Request -> RequestState] /\ req' \in [Request -> Requests]
         /\ \A u \in Request : pc'[u] # "idle" => u # r /\ pc'[u] = pc[u] /\ req'[u] = req[u]
  <1>1. NoReq \in Requests
    BY DEF NoReq, Req, Requests
  <1>2. QED
    BY <1>1 DEF Reply, Goto, TypeOK, RequestState

LEMMA CacheInit == Init => CacheInvariant
  <1> SUFFICES ASSUME Init PROVE CacheInvariant
    OBVIOUS
  <1>1. Empty \in Entries /\ NoReq \in Requests
    BY DEF Empty, Entries, NoReq, Req, Requests
  <1>2. TypeOK
    BY <1>1 DEF Init, TypeOK, RequestState
  <1>3. RequestsInTime
    BY DEF Init, RequestsInTime, UnderWay
  <1>4. EntryInTime
    BY CacheAssumption DEF Init, EntryInTime, Empty
  <1>5. QED
    BY <1>2, <1>3, <1>4 DEF CacheInvariant

\* The collector's steps: the cache is not touched.
LEMMA BeginStep ==
  ASSUME CacheInvariant, NEW r \in Request, NEW sig \in Sig, NEW timeout \in AgentTimeouts,
         Begin(r, sig, timeout)
  PROVE  CacheInvariant'
  <1> DEFINE new == Req(sig, timeout, clock, clock + EffectiveTimeout(timeout))
  <1>1. timeout \in Nat /\ clock \in Nat
    BY CacheAssumption DEF CacheInvariant, TypeOK
  <1>2. EffectiveTimeout(timeout) \in Nat /\ EffectiveTimeout(timeout) <= HardCap
    BY <1>1, TimeoutBelowCap
  <1>3. new \in Requests /\ new.sig = sig /\ new.start = clock
        /\ new.deadline = clock + EffectiveTimeout(timeout)
    BY <1>1, <1>2 DEF Req, Requests
  <1>4. /\ req' = [req EXCEPT ![r] = new]
        /\ pc' = [pc EXCEPT ![r] = "run"]
        /\ UNCHANGED <<clock, cache, newest, storedAt>>
    BY DEF Begin, Goto
  <1> HIDE DEF new
  <1>5. TypeOK'
    BY <1>3, <1>4 DEF CacheInvariant, TypeOK, RequestState
  <1>6. RequestsInTime'
    <2> SUFFICES ASSUME NEW u \in Request, UnderWay(u)'
                 PROVE  /\ req'[u].sig \in Sig
                        /\ req'[u].start <= clock'
                        /\ req'[u].deadline <= req'[u].start + HardCap
                        /\ pc'[u] = "store" => clock' < req'[u].deadline
      BY DEF RequestsInTime
    <2>1. CASE u = r
      BY <1>1, <1>2, <1>3, <1>4, <2>1, CacheAssumption DEF CacheInvariant, TypeOK
    <2>2. CASE u # r
      BY <1>4, <2>2 DEF CacheInvariant, TypeOK, RequestsInTime, UnderWay
    <2>3. QED
      BY <2>1, <2>2
  <1>7. EntryInTime'
    BY <1>4 DEF CacheInvariant, EntryInTime
  <1>8. QED
    BY <1>5, <1>6, <1>7 DEF CacheInvariant

LEMMA CollectStep ==
  ASSUME CacheInvariant, NEW r \in Request, Exits(r) \/ Collected(r) \/ Failed(r)
  PROVE  CacheInvariant'
  <1>1. /\ UNCHANGED <<clock, cache, newest, storedAt>>
        /\ pc[r] \in {"run", "wait"} /\ pc'[r] \in {"wait", "store", "load"}
        /\ pc'[r] = "store" => clock < req[r].deadline
        /\ pc' \in [Request -> RequestState]
        /\ \A u \in Request : u # r => pc'[u] = pc[u]
    BY DEF Exits, Collected, Failed, InTime, Goto, CacheInvariant, TypeOK, RequestState
  <1>2. /\ req' \in [Request -> Requests]
        /\ \A u \in Request : /\ req'[u].sig = req[u].sig /\ req'[u].start = req[u].start
                              /\ req'[u].deadline = req[u].deadline
    <2>1. CASE Exits(r)
      <3>1. PICK good \in BOOLEAN, held \in {FALSE, PipeHeld} :
              req' = [req EXCEPT ![r].good = good /\ clock < req[r].deadline,
                                 ![r].held = held, ![r].until = clock + WaitDelay]
        BY <2>1 DEF Exits
      <3> DEFINE g == good /\ clock < req[r].deadline
                 w == clock + WaitDelay
      <3>2. g \in BOOLEAN /\ held \in BOOLEAN /\ w \in Nat
        <4>1. g \in BOOLEAN
          BY Zenon
        <4>2. held \in BOOLEAN
          BY CacheAssumption
        <4>3. w \in Nat
          BY CacheAssumption DEF CacheInvariant, TypeOK
        <4>4. QED
          BY <4>1, <4>2, <4>3
      <3>3. req' = [req EXCEPT ![r].good = g, ![r].held = held, ![r].until = w]
        BY <3>1
      <3> HIDE DEF g, w
      <3> DEFINE new == [req[r] EXCEPT !.good = g, !.held = held, !.until = w]
      <3>4. req[r] \in Requests
        BY DEF CacheInvariant, TypeOK
      <3>5. /\ new \in Requests /\ new.sig = req[r].sig /\ new.start = req[r].start
            /\ new.deadline = req[r].deadline
        BY <3>2, <3>4 DEF Requests
      <3>6. req' = [req EXCEPT ![r] = new]
        BY <3>3, <3>4 DEF Requests
      <3> HIDE DEF new
      <3>7. QED
        BY <3>5, <3>6 DEF CacheInvariant, TypeOK
    <2>2. CASE Collected(r) \/ Failed(r)
      BY <2>2 DEF Collected, Failed, CacheInvariant, TypeOK
    <2>3. QED
      BY <2>1, <2>2
  <1>3. TypeOK'
    BY <1>1, <1>2 DEF CacheInvariant, TypeOK
  <1>4. RequestsInTime'
    BY <1>1, <1>2 DEF CacheInvariant, TypeOK, RequestsInTime, UnderWay
  <1>5. EntryInTime'
    BY <1>1 DEF CacheInvariant, EntryInTime
  <1>6. QED
    BY <1>3, <1>4, <1>5 DEF CacheInvariant

\* Storing: the entry's data is less than a collection old, and so is any newer data.
LEMMA StoreStep ==
  ASSUME CacheInvariant, NEW r \in Request, Store(r)
  PROVE  CacheInvariant'
  <1>1. /\ req[r] \in Requests /\ req[r].sig \in Sig /\ req[r].start \in Nat
        /\ req[r].start <= clock /\ req[r].deadline \in Nat
        /\ clock < req[r].deadline /\ req[r].deadline <= req[r].start + HardCap
        /\ clock \in Nat /\ HardCap \in Nat
    BY CacheAssumption DEF CacheInvariant, TypeOK, RequestsInTime, UnderWay, Store, Requests
  <1>2. /\ clock' = clock /\ Reply(r, "live", Entry(r))
        /\ cache' = [sig |-> req[r].sig, at |-> clock, taken |-> req[r].start]
        /\ newest' = IF req[r].start > newest THEN req[r].start ELSE newest
        /\ storedAt' = [storedAt EXCEPT ![req[r].sig] = clock]
    BY DEF Store, Entry
  <1>3. /\ pc' \in [Request -> RequestState] /\ req' \in [Request -> Requests]
        /\ \A u \in Request : pc'[u] # "idle" => u # r /\ pc'[u] = pc[u] /\ req'[u] = req[u]
    BY <1>2, ReplyEnds DEF CacheInvariant
  <1>4. cache' \in Entries /\ newest' \in Nat /\ storedAt' \in [Sig -> Nat]
    BY <1>1, <1>2 DEF CacheInvariant, TypeOK, Entries
  <1>5. TypeOK'
    BY <1>2, <1>3, <1>4 DEF CacheInvariant, TypeOK
  <1>6. RequestsInTime'
    BY <1>2, <1>3 DEF CacheInvariant, RequestsInTime, UnderWay
  <1>7. newest' <= clock /\ newest' < req[r].start + HardCap
    BY <1>1, <1>2 DEF CacheInvariant, TypeOK, EntryInTime
  <1>8. \A s \in Sig : storedAt'[s] <= clock /\ storedAt'[req[r].sig] = clock
    BY <1>1, <1>2 DEF CacheInvariant, TypeOK, EntryInTime
  <1>9. EntryInTime'
    BY <1>1, <1>2, <1>7, <1>8, CacheAssumption DEF EntryInTime
  <1>10. QED
    BY <1>5, <1>6, <1>9 DEF CacheInvariant

LEMMA CacheStep == CacheInvariant /\ [Next]_vars => CacheInvariant'
  <1> SUFFICES ASSUME CacheInvariant, [Next]_vars PROVE CacheInvariant'
    OBVIOUS
  <1>1. ASSUME NEW r \in Request, LoadCached(r) \/ Error(r) PROVE CacheInvariant'
    <2>1. /\ \E kind, entry : Reply(r, kind, entry)
          /\ UNCHANGED <<clock, cache, newest, storedAt>>
      BY <1>1 DEF LoadCached, Error
    <2>2. /\ pc' \in [Request -> RequestState] /\ req' \in [Request -> Requests]
          /\ \A u \in Request : pc'[u] # "idle" => u # r /\ pc'[u] = pc[u] /\ req'[u] = req[u]
      BY <2>1, ReplyEnds DEF CacheInvariant
    <2>3. QED
      BY <2>1, <2>2 DEF CacheInvariant, TypeOK, RequestsInTime, UnderWay, EntryInTime
  <1>2. ASSUME Restart PROVE CacheInvariant'
    <2>1. Empty \in Entries /\ NoReq \in Requests
      BY DEF Empty, Entries, NoReq, Req, Requests
    <2>2. TypeOK'
      BY <1>2, <2>1 DEF Restart, CacheInvariant, TypeOK, RequestState
    <2>3. RequestsInTime' /\ EntryInTime'
      BY <1>2, CacheAssumption DEF Restart, CacheInvariant, TypeOK, RequestsInTime, UnderWay, EntryInTime, Empty
    <2>4. QED
      BY <2>2, <2>3 DEF CacheInvariant
  <1>3. ASSUME Tick PROVE CacheInvariant'
    <2>1. \A r \in Request : pc[r] # "store"
      BY <1>3 DEF Tick, MayTake
    <2>2. clock' = clock + 1 /\ UNCHANGED <<cache, pc, req, newest, storedAt>>
      BY <1>3 DEF Tick
    <2>3. clock \in Nat /\ newest \in Nat /\ storedAt \in [Sig -> Nat] /\ cache \in Entries
          /\ \A r \in Request : req[r].start \in Nat
      BY DEF CacheInvariant, TypeOK, Requests
    <2>4. TypeOK'
      BY <2>2 DEF CacheInvariant, TypeOK
    <2>5. RequestsInTime'
      BY <2>1, <2>2, <2>3 DEF CacheInvariant, RequestsInTime, UnderWay
    <2>6. EntryInTime'
      BY <2>2, <2>3 DEF CacheInvariant, EntryInTime, Entries
    <2>7. QED
      BY <2>4, <2>5, <2>6 DEF CacheInvariant
  <1>4. ASSUME UNCHANGED vars PROVE CacheInvariant'
    BY <1>4 DEF vars, CacheInvariant, TypeOK, RequestsInTime, UnderWay, EntryInTime
  <1>5. QED
    BY <1>1, <1>2, <1>3, <1>4, BeginStep, CollectStep, StoreStep DEF Next, Serve

\* The requests' clocks and the cache's agree (Export, main.go:705-725).
THEOREM CacheInvariantHolds == Spec => []CacheInvariant
  BY CacheInit, CacheStep, PTL DEF Spec

\* An older collection that ends later costs less than one collection of freshness
\* (storeCache, main.go:813-819).
THEOREM RegressIsBounded == Spec => []BoundedRegress
  <1>1. CacheInvariant => BoundedRegress
    BY CacheAssumption DEF CacheInvariant, TypeOK, EntryInTime, Entries, BoundedRegress
  <1>2. QED
    BY <1>1, CacheInvariantHolds, PTL

\* Only Store, LoadCached and Error answer; a stored entry and a usable one fit the request.
LEMMA AnswerStep ==
  ASSUME CacheInvariant, AnswersWhatWasAsked, [Next]_vars
  PROVE  AnswersWhatWasAsked'
  <1>1. ASSUME NEW r \in Request, Store(r) PROVE AnswersWhatWasAsked'
    <2>1. /\ req[r].start \in Nat /\ req[r].deadline \in Nat /\ clock \in Nat
          /\ clock < req[r].deadline /\ req[r].deadline <= req[r].start + HardCap
      BY <1>1 DEF CacheInvariant, TypeOK, RequestsInTime, UnderWay, Store, Requests
    <2>2. answer' = [kind |-> "live", req |-> req[r], entry |-> Entry(r), at |-> clock]
      BY <1>1 DEF Store, Reply
    <2>3. QED
      BY <2>1, <2>2, CacheAssumption DEF AnswersWhatWasAsked, Entry
  <1>2. ASSUME NEW r \in Request, LoadCached(r) PROVE AnswersWhatWasAsked'
    <2>1. /\ cache.sig # NoSig /\ cache.sig = req[r].sig /\ clock - cache.at <= TTL
          /\ answer' = [kind |-> "cached", req |-> req[r], entry |-> cache, at |-> clock]
      BY <1>2 DEF LoadCached, Usable, Reply
    <2>2. /\ clock \in Nat /\ cache.at \in Nat /\ cache.taken \in Nat
          /\ cache.at < cache.taken + HardCap
      BY <2>1 DEF CacheInvariant, TypeOK, Entries, EntryInTime
    <2>3. QED
      BY <2>1, <2>2, CacheAssumption DEF AnswersWhatWasAsked
  <1>3. ASSUME NEW r \in Request, Error(r) PROVE AnswersWhatWasAsked'
    BY <1>3 DEF Error, Reply, AnswersWhatWasAsked
  <1>4. ASSUME answer' = NoAnswer \/ UNCHANGED vars PROVE AnswersWhatWasAsked'
    BY <1>4 DEF vars, NoAnswer, AnswersWhatWasAsked
  <1>5. QED
    BY <1>1, <1>2, <1>3, <1>4
    DEF Next, Serve, Begin, Exits, Collected, Failed, Restart, Tick

\* No answer is another request's, and none is older than the TTL and one collection
\* (loadCached, main.go:821-840; WindowsLatestUpdate/main.go:569).
THEOREM AnswersAreForTheRequest == Spec => []AnswersWhatWasAsked
  <1>1. Init => AnswersWhatWasAsked
    BY DEF Init, NoAnswer, AnswersWhatWasAsked
  <1>2. QED
    BY <1>1, AnswerStep, CacheInvariantHolds, PTL DEF Spec

\* An error is answered only where the fallback has nothing to offer
\* (windows_recurring_event_Error/main.go:114-121).
THEOREM LastGoodServed == Spec => LastGoodIsServed
  <1> DEFINE Excused == answer'.kind = "error" =>
               LET s == answer'.req.sig IN
               \/ storedAt[s] = 0
               \/ clock - storedAt[s] > TTL
               \/ \E other \in Sig \ {s} : storedAt[other] >= storedAt[s]
  <1>1. ASSUME CacheInvariant, NEW r \in Request, Error(r) PROVE Excused
    <2>1. /\ ~Usable(req[r].sig) /\ answer'.req = req[r] /\ UnderWay(r)
      BY <1>1 DEF Error, Reply, UnderWay
    <2>2. req[r].sig \in Sig
      BY <1>1, <2>1 DEF CacheInvariant, RequestsInTime
    <2>3. CASE cache.sig = NoSig
      BY <1>1, <2>1, <2>2, <2>3 DEF CacheInvariant, EntryInTime
    <2>4. CASE cache.sig # NoSig /\ cache.sig = req[r].sig
      <3>1. cache.at = storedAt[req[r].sig] /\ ~(clock - cache.at <= TTL)
        BY <1>1, <2>1, <2>4 DEF CacheInvariant, EntryInTime, Usable
      <3>2. clock \in Nat /\ cache.at \in Nat /\ TTL \in Nat
        BY <1>1, CacheAssumption DEF CacheInvariant, TypeOK, Entries
      <3>3. QED
        BY <2>1, <3>1, <3>2
    <2>5. CASE cache.sig # NoSig /\ cache.sig # req[r].sig
      <3>1. cache.sig \in Sig \ {req[r].sig} /\ storedAt \in [Sig -> Nat]
        BY <1>1, <2>5 DEF CacheInvariant, TypeOK, Entries
      <3>2. storedAt[req[r].sig] <= storedAt[cache.sig]
        BY <1>1, <2>2, <2>5 DEF CacheInvariant, EntryInTime
      <3>3. QED
        BY <2>1, <2>2, <3>1, <3>2
    <2>6. QED
      BY <2>3, <2>4, <2>5
  <1>2. ASSUME Next, \A r \in Request : ~Error(r) PROVE answer'.kind # "error"
    <2>1. \/ answer' = NoAnswer
          \/ \E r \in Request : Store(r) \/ LoadCached(r)
      BY <1>2 DEF Next, Serve, Begin, Exits, Collected, Failed, Restart, Tick
    <2>2. ASSUME NEW r \in Request, Store(r) \/ LoadCached(r) PROVE answer'.kind # "error"
      BY <2>2 DEF Store, LoadCached, Reply
    <2>3. NoAnswer.kind # "error"
      BY DEF NoAnswer
    <2>4. QED
      BY <2>1, <2>2, <2>3
  <1>3. CacheInvariant /\ [Next]_vars => [Excused]_vars
    BY <1>1, <1>2
  <1>4. QED
    BY <1>3, CacheInvariantHolds, PTL DEF Spec, LastGoodIsServed
=============================================================================
