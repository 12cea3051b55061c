--------------------------- MODULE NTPQueryProofs ---------------------------
(***************************************************************************)
(* Proofs about the NTP request, for any number of retries, any timeouts,  *)
(* pause and margin.                                                       *)
(***************************************************************************)
EXTENDS NTPQuery, TLAPS

\* A request has time, and an operation never more than what is left of it.
LEMMA BudgetType ==
  ASSUME NEW timeout \in AgentTimeouts \cup {0}
  PROVE  RequestTimeout(timeout) \in Nat \ {0}
  BY NTPAssumption DEF RequestTimeout

LEMMA OperationFits ==
  ASSUME NEW now \in Nat, NEW deadline \in Nat, now <= deadline
  PROVE  /\ OperationEnd(now, deadline) \in Nat
         /\ now <= OperationEnd(now, deadline) /\ OperationEnd(now, deadline) <= deadline
  BY NTPAssumption DEF OperationEnd, Smaller

LEMMA NTPInit == Init => NTPInvariant
  <1> SUFFICES ASSUME Init PROVE NTPInvariant
    OBVIOUS
  <1>1. TypeOK
    BY NTPAssumption DEF Init, TypeOK, RequestTimeout, Try, Unsent
  <1>2. InBudget /\ Counted /\ OnlyRetriable /\ Spaced
    BY NTPAssumption DEF Init, InBudget, Counted, OnlyRetriable, Spaced, Try, Unsent
  <1>3. QED
    BY <1>1, <1>2 DEF NTPInvariant

LEMMA BeginStep ==
  ASSUME NTPInvariant, NEW timeout \in AgentTimeouts, Begin(timeout)
  PROVE  NTPInvariant'
  <1>1. /\ RequestTimeout(timeout) \in Nat /\ 0 <= RequestTimeout(timeout)
        /\ until' \in Nat /\ until' <= RequestTimeout(timeout)
    BY BudgetType, OperationFits DEF Begin
  <1>2. TypeOK'
    BY <1>1, NTPAssumption DEF Begin, Fresh, TypeOK, Try, Unsent
  <1>3. (InBudget /\ Counted /\ OnlyRetriable /\ Spaced)'
    BY <1>1, NTPAssumption DEF Begin, Fresh, InBudget, Counted, OnlyRetriable, Spaced, Try, Unsent
  <1>4. QED
    BY <1>2, <1>3 DEF NTPInvariant

\* Steps that end the request, or leave the loop and its history alone.
LEMMA QuietStep ==
  ASSUME NTPInvariant, Resolved \/ LookupFails \/ NoTimeLeft \/ Wake \/ PauseCancelled
  PROVE  NTPInvariant'
  <1> USE NTPAssumption DEF NTPInvariant
  <1>1. UNCHANGED <<agent, budget, elapsed, until, attempts, sent, got>>
    BY DEF Resolved, LookupFails, NoTimeLeft, Wake, PauseCancelled, request, Finish
  <1>2. TypeOK'
    BY <1>1 DEF Resolved, LookupFails, NoTimeLeft, Wake, PauseCancelled, Finish, TypeOK
  <1>3. InBudget'
    BY <1>1 DEF Resolved, LookupFails, NoTimeLeft, Wake, PauseCancelled, Finish, InBudget
  <1>4. Counted'
    BY <1>1 DEF Resolved, LookupFails, NoTimeLeft, Wake, PauseCancelled, Finish, Counted, TypeOK, Try
  <1>5. OnlyRetriable'
    BY <1>1 DEF Resolved, LookupFails, NoTimeLeft, Wake, PauseCancelled, Finish, OnlyRetriable, Counted,
                TypeOK, Try
  <1>6. Spaced'
    BY <1>1 DEF Resolved, LookupFails, NoTimeLeft, Wake, PauseCancelled, Finish, Spaced, Counted, TypeOK, Try
  <1>7. QED
    BY <1>2, <1>3, <1>4, <1>5, <1>6

LEMMA SendStep == NTPInvariant /\ Send => NTPInvariant'
  <1> SUFFICES ASSUME NTPInvariant, Send PROVE NTPInvariant'
    OBVIOUS
  <1> USE NTPAssumption DEF NTPInvariant
  <1>1. elapsed \in Nat /\ budget \in Nat /\ elapsed <= budget
    BY BudgetType DEF TypeOK, Send
  <1>2. until' \in Nat /\ elapsed <= until' /\ until' <= budget
    BY <1>1, OperationFits DEF Send
  <1>3. try \in Try /\ attempts = try - 1 /\ sent[try] = Unsent
    BY DEF Send, Counted, TypeOK, Try
  <1>4. /\ UNCHANGED <<agent, budget, elapsed, try, answer, got>>
        /\ attempts' = try /\ pc' = "query" /\ pc = "attempt"
        /\ sent' = [sent EXCEPT ![try] = elapsed]
    BY DEF Send, request
  <1>5. TypeOK'
    BY <1>1, <1>2, <1>3, <1>4 DEF TypeOK, Try
  <1>6. InBudget'
    BY <1>2, <1>4 DEF InBudget
  <1>7. Counted'
    BY <1>1, <1>3, <1>4 DEF Counted, TypeOK, Try, Unsent
  <1>8. OnlyRetriable'
    BY <1>3, <1>4 DEF OnlyRetriable, TypeOK, Try
  <1>9. Spaced'
    <2>1. \A i \in Try : sent'[i] <= elapsed'
      BY <1>1, <1>3, <1>4 DEF Spaced, TypeOK, Try
    <2>2. ASSUME NEW i \in Try, i > 1, sent'[i] # Unsent PROVE sent'[i] - sent'[i - 1] >= Backoff
      <3>1. i <= try /\ i - 1 \in Try /\ i - 1 # try
        BY <1>3, <1>4, <2>2 DEF TypeOK, Counted, Try
      <3>2. CASE i = try
        BY <1>1, <1>3, <1>4, <3>1, <3>2 DEF TypeOK, Spaced
      <3>3. CASE i # try
        BY <1>3, <1>4, <2>2, <3>1, <3>3 DEF TypeOK, Spaced
      <3>4. QED
        BY <3>2, <3>3
    <2>3. QED
      BY <1>4, <2>1, <2>2 DEF Spaced
  <1>10. QED
    BY <1>5, <1>6, <1>7, <1>8, <1>9

\* What a query brings: a reply or nothing, and the end of the request or a pause.
LEMMA QueryStep ==
  ASSUME NTPInvariant, QueryFails \/ KissOfDeath \/ Invalid \/ Valid
  PROVE  NTPInvariant'
  <1> USE NTPAssumption DEF NTPInvariant
  <1>1. /\ pc = "query" /\ try \in Try /\ attempts = try /\ got[try] = "nothing"
        /\ UNCHANGED <<agent, budget, elapsed, attempts, sent>>
    BY DEF QueryFails, KissOfDeath, Invalid, Valid, Counted, TypeOK, request, Try
  <1>2. /\ got' = got \/ (\E reply \in Reply : got' = [got EXCEPT ![try] = reply])
        /\ pc' = "pause" => got' = got \/ got' = [got EXCEPT ![try] = "invalid"]
    BY DEF QueryFails, KissOfDeath, Invalid, Valid, Received, Reply, Finish
  <1>3. \/ pc' = "idle" /\ answer' \in {"ok", "failed"} /\ try' = try /\ until' = until
        \/ /\ pc' = "pause" /\ try' = try + 1 /\ try < MaxRetries
           /\ until' = elapsed + Backoff /\ answer' = answer
    BY DEF QueryFails, KissOfDeath, Invalid, Valid, NextTry, Finish
  <1>4. TypeOK'
    BY <1>1, <1>2, <1>3 DEF TypeOK, Try
  <1>5. InBudget'
    BY <1>1, <1>3 DEF InBudget
  <1>6. Counted'
    BY <1>1, <1>2, <1>3 DEF Counted, TypeOK, Try
  <1>7. OnlyRetriable'
    BY <1>1, <1>2, <1>3 DEF OnlyRetriable, TypeOK, Try
  <1>8. Spaced'
    <2>1. elapsed \in Nat /\ sent[try] \in Int /\ sent[try] <= elapsed
      BY <1>1 DEF Spaced, TypeOK, Unsent
    <2>2. pc' = "pause" => until' - sent'[attempts'] >= Backoff
      BY <1>1, <1>3, <2>1
    <2>3. QED
      BY <1>1, <1>3, <2>2 DEF Spaced
  <1>9. QED
    BY <1>4, <1>5, <1>6, <1>7, <1>8

LEMMA TickStep == NTPInvariant /\ Tick => NTPInvariant'
  <1> SUFFICES ASSUME NTPInvariant, Tick PROVE NTPInvariant'
    OBVIOUS
  <1>1. elapsed < budget
    BY BudgetType DEF NTPInvariant, Tick, MayTake, InBudget, TypeOK
  <1>2. QED
    BY <1>1, BudgetType, NTPAssumption
    DEF NTPInvariant, Tick, MayTake, request, TypeOK, InBudget, Counted, OnlyRetriable, Spaced, Unsent

\* The deadlines, the counting and the spacing of the queries agree (queryNTP, 114-171).
THEOREM NTPInvariantHolds == Spec => []NTPInvariant
  <1>1. NTPInvariant /\ UNCHANGED vars => NTPInvariant'
    BY DEF vars, NTPInvariant, TypeOK, InBudget, Counted, OnlyRetriable, Spaced
  <1>2. NTPInvariant /\ [Next]_vars => NTPInvariant'
    BY <1>1, BeginStep, QuietStep, SendStep, QueryStep, TickStep DEF Next, Serve
  <1>3. QED
    BY NTPInit, <1>2, PTL DEF Spec

\* The answer comes before the agent gives up (requestTimeout, 204-219).
THEOREM AnswersBeforeAgentGivesUp == Spec => []AnsweredInTime
  <1>1. NTPInvariant => AnsweredInTime
    BY NTPAssumption DEF NTPInvariant, TypeOK, InBudget, RequestTimeout, AnsweredInTime
  <1>2. QED
    BY <1>1, NTPInvariantHolds, PTL

\* A Kiss-of-Death is never retried, and a retry waits (158-163, 138-142).
THEOREM ServerIsNotHammered == Spec => []PoliteToServer
  <1>1. NTPInvariant => PoliteToServer
    <2> SUFFICES ASSUME NTPInvariant, NEW i \in Try, NEW j \in Try, got[i] = "kiss", j > i
                 PROVE  sent[j] = Unsent
      BY DEF NTPInvariant, Spaced, PoliteToServer
    <2>1. i <= attempts /\ i \in Nat /\ j \in Nat /\ attempts \in Nat
      BY NTPAssumption DEF NTPInvariant, Counted, TypeOK, Try
    <2>2. ~(i < attempts)
      BY DEF NTPInvariant, OnlyRetriable
    <2>3. QED
      BY <2>1, <2>2 DEF NTPInvariant, Counted
  <1>2. QED
    BY <1>1, NTPInvariantHolds, PTL

\* HonestAnswer, and that no valid reply lies unused.
Reported ==
  /\ HonestAnswer
  /\ answer = "none" => \A i \in Try : got[i] # "valid"

LEMMA ReportedStep == NTPInvariant /\ NTPInvariant' /\ Reported /\ [Next]_vars => Reported'
  <1> SUFFICES ASSUME NTPInvariant, NTPInvariant', Reported, [Next]_vars PROVE Reported'
    OBVIOUS
  <1> USE NTPAssumption
  <1>1. CASE \E timeout \in AgentTimeouts : Begin(timeout)
    BY <1>1 DEF Begin, Fresh, Reported, HonestAnswer, Try
  <1>2. CASE Resolved \/ Wake \/ Tick
    BY <1>2 DEF Resolved, Wake, Tick, MayTake, NTPInvariant, InBudget, Reported, HonestAnswer
  <1>3. CASE Send
    BY <1>3 DEF Send, NTPInvariant, InBudget, Reported, HonestAnswer
  <1>4. CASE LookupFails \/ NoTimeLeft \/ PauseCancelled
    <2>1. /\ answer = "none" /\ answer' = "failed"
          /\ UNCHANGED <<attempts, sent, got, elapsed, budget>>
          /\ pc = "lookup" \/ elapsed >= budget
      BY <1>4 DEF LookupFails, NoTimeLeft, PauseCancelled, Finish, request, NTPInvariant, InBudget, TypeOK
    <2>2. elapsed < budget => attempts = 0
      BY <2>1, BudgetType DEF NTPInvariant, TypeOK, Counted
    <2>3. \A i \in Try : i < attempts => got[i] \notin {"valid", "kiss"}
      BY DEF NTPInvariant, OnlyRetriable
    <2>4. QED
      BY <2>1, <2>2, <2>3 DEF NTPInvariant, Counted, Reported, HonestAnswer
  <1>5. CASE QueryFails \/ KissOfDeath \/ Invalid \/ Valid
    <2>1. /\ pc = "query" /\ answer = "none" /\ try \in Try /\ attempts = try
          /\ UNCHANGED <<attempts, sent, elapsed, budget>>
      BY <1>5 DEF QueryFails, KissOfDeath, Invalid, Valid, request, NTPInvariant, InBudget, Counted, TypeOK
    <2>2. \A i \in Try : (sent'[i] # Unsent) <=> i <= attempts'
      BY DEF NTPInvariant, Counted
    <2>3. \A i \in Try : i < attempts' => got'[i] \notin {"valid", "kiss"}
      BY DEF NTPInvariant, OnlyRetriable
    <2>4. answer' # "none" => (answer' = "ok" <=> \E i \in Try : got'[i] = "valid")
      BY <1>5, <2>1 DEF QueryFails, KissOfDeath, Invalid, Valid, Received, NextTry, Finish,
                        NTPInvariant, TypeOK, Reported
    <2>5. answer' = "none" => \A i \in Try : got'[i] # "valid"
      BY <1>5, <2>1 DEF QueryFails, KissOfDeath, Invalid, Valid, Received, NextTry, Finish,
                        NTPInvariant, TypeOK, Reported
    <2>6. answer' = "failed" /\ elapsed' < budget' => attempts' = MaxRetries \/ got'[attempts'] = "kiss"
      <3> SUFFICES ASSUME answer' = "failed", elapsed < budget
                   PROVE  attempts' = MaxRetries \/ got'[attempts'] = "kiss"
        BY <2>1
      <3>1. CASE KissOfDeath
        BY <2>1, <3>1 DEF KissOfDeath, Received, NTPInvariant, TypeOK
      <3>2. CASE QueryFails \/ Invalid
        BY <2>1, <3>2, BudgetType DEF QueryFails, Invalid, NextTry, NTPInvariant, TypeOK, Try
      <3>3. CASE Valid
        BY <3>3 DEF Valid, Finish
      <3>4. QED
        BY <1>5, <3>1, <3>2, <3>3
    <2>7. QED
      BY <2>2, <2>3, <2>4, <2>5, <2>6 DEF Reported, HonestAnswer
  <1>6. CASE UNCHANGED vars
    BY <1>6 DEF vars, Reported, HonestAnswer
  <1>7. QED
    BY <1>1, <1>2, <1>3, <1>4, <1>5, <1>6 DEF Next, Serve

\* The answer reports what happened: its attempts, its success, its failure (84-107).
THEOREM AnswerIsHonest == Spec => []HonestAnswer
  <1>1. Init => Reported
    BY DEF Init, Reported, HonestAnswer
  <1>2. Reported => HonestAnswer
    BY DEF Reported
  <1>3. QED
    BY <1>1, <1>2, NTPInvariantHolds, ReportedStep, PTL DEF Spec
=============================================================================
