------------------------------ MODULE NTPQuery ------------------------------
(***************************************************************************)
(* One request of the NTP checks (linux_ntp_sync and windows_ntp_sync,     *)
(* which share this code): a name lookup and up to maxRetries queries with *)
(* a pause before each retry, all within one deadline that leaves the      *)
(* agent a margin.  Requests share nothing, so one is modelled at a time;  *)
(* time is counted in ticks from its beginning.  Lines are those of        *)
(* linux_ntp_sync/main.go.                                                 *)
(***************************************************************************)
EXTENDS Integers

CONSTANTS
  MaxRetries,         \* maxRetries: how many queries in all
  QueryTimeout,       \* queryTimeout: of the lookup and of each query
  Backoff,            \* retryBackoff
  Margin,             \* agentTimeoutMargin
  StandaloneTimeout,  \* standaloneRequestTimeout
  AgentTimeouts       \* item timeouts the agent may announce; 0 is none

ASSUME NTPAssumption ==
  /\ MaxRetries \in Nat \ {0} /\ QueryTimeout \in Nat \ {0}
  /\ Backoff \in Nat /\ Margin \in Nat /\ StandaloneTimeout \in Nat \ {0}
  /\ AgentTimeouts \subseteq Nat

Try == 1 .. MaxRetries
Unsent == -1

VARIABLES
  agent,     \* the item timeout of this request
  budget,    \* when its context expires
  elapsed,   \* now
  pc,        \* where the request is in queryNTP
  until,     \* when the lookup, the query or the pause under way must be over
  try,       \* the loop counter
  attempts,  \* what will be reported as attempts
  answer,    \* "none" while the request is served, else "ok" or "failed"
  sent,      \* history: sent[i] is when the i-th query left
  got        \* history: got[i] is what came back within its time

vars == <<agent, budget, elapsed, pc, until, try, attempts, answer, sent, got>>
request == <<agent, budget>>

Reply == {"valid", "invalid", "kiss"}

Smaller(a, b) == IF a < b THEN a ELSE b

RequestTimeout(timeout) ==
  IF timeout = 0 THEN StandaloneTimeout
  ELSE IF timeout > Margin THEN timeout - Margin ELSE timeout

\* Mutated form of OperationEnd: an operation always gets its full time.
OperationEndUncapped(now, deadline) == now + QueryTimeout

\* operationTimeout: an operation gets its own limit, or what is left of the request.
OperationEnd(now, deadline) == now + Smaller(QueryTimeout, deadline - now)

Fresh(timeout) ==
  /\ agent' = timeout
  /\ budget' = RequestTimeout(timeout)
  /\ elapsed' = 0
  /\ try' = 0 /\ attempts' = 0 /\ answer' = "none"
  /\ sent' = [i \in Try |-> Unsent]
  /\ got' = [i \in Try |-> "nothing"]

Init ==
  /\ agent = 0 /\ budget = StandaloneTimeout
  /\ elapsed = 0 /\ pc = "idle" /\ until = 0
  /\ try = 0 /\ attempts = 0 /\ answer = "none"
  /\ sent = [i \in Try |-> Unsent]
  /\ got = [i \in Try |-> "nothing"]

\* Export, past the refusals of its parameters (62-82); the lookup begins (115-128).
Begin(timeout) ==
  /\ pc = "idle"
  /\ Fresh(timeout)
  /\ until' = OperationEnd(0, RequestTimeout(timeout))
  /\ pc' = "lookup"

Finish(kind) ==
  /\ answer' = kind
  /\ pc' = "idle"

\* resolveNTPServer has an address, at once for a literal one.
Resolved ==
  /\ pc = "lookup"
  /\ try' = 1
  /\ pc' = "attempt"
  /\ UNCHANGED <<request, elapsed, until, attempts, answer, sent, got>>

\* No address, or the lookup's time is up.
LookupFails ==
  /\ pc = "lookup"
  /\ Finish("failed")
  /\ UNCHANGED <<request, elapsed, until, try, attempts, sent, got>>

\* A query leaves, if there is time left (144-150).
Send ==
  /\ pc = "attempt" /\ elapsed < budget
  /\ until' = OperationEnd(elapsed, budget)
  /\ attempts' = try
  /\ sent' = [sent EXCEPT ![try] = elapsed]
  /\ pc' = "query"
  /\ UNCHANGED <<request, elapsed, try, answer, got>>

\* There is none (144-147).
NoTimeLeft ==
  /\ pc = "attempt" /\ elapsed >= budget
  /\ Finish("failed")
  /\ UNCHANGED <<request, elapsed, until, try, attempts, sent, got>>

\* The loop goes on: to the next attempt after a pause, or out of it with lastErr.
NextTry ==
  IF try < MaxRetries
  THEN /\ try' = try + 1
       /\ until' = elapsed + Backoff
       /\ pc' = "pause"
       /\ UNCHANGED answer
  ELSE /\ Finish("failed")
       /\ UNCHANGED <<try, until>>

\* The query fails: refused, unreachable, or out of time.  At the deadline itself the
\* context may be found expired or not (150-157).
QueryFails ==
  /\ pc = "query"
  /\ \/ NextTry
     \/ elapsed >= budget /\ Finish("failed") /\ UNCHANGED <<try, until>>
  /\ UNCHANGED <<request, elapsed, attempts, sent, got>>

Received(reply) == got' = [got EXCEPT ![try] = reply]

\* Mutated form of KissOfDeath: it is retried like any unusable reply.
KissOfDeathRetried ==
  /\ pc = "query"
  /\ Received("kiss")
  /\ NextTry
  /\ UNCHANGED <<request, elapsed, attempts, sent>>

\* A Kiss-of-Death ends the request (158-163).
KissOfDeath ==
  /\ pc = "query"
  /\ Received("kiss")
  /\ Finish("failed")
  /\ UNCHANGED <<request, elapsed, until, try, attempts, sent>>

\* Mutated form of Invalid: the last invalid reply is taken for want of a better one.
InvalidTakenLast ==
  /\ pc = "query"
  /\ Received("invalid")
  /\ IF try < MaxRetries THEN NextTry ELSE Finish("ok") /\ UNCHANGED <<try, until>>
  /\ UNCHANGED <<request, elapsed, attempts, sent>>

\* A reply that Validate rejects counts as a failed attempt (164-167).
Invalid ==
  /\ pc = "query"
  /\ Received("invalid")
  /\ NextTry
  /\ UNCHANGED <<request, elapsed, attempts, sent>>

Valid ==
  /\ pc = "query"
  /\ Received("valid")
  /\ Finish("ok")
  /\ UNCHANGED <<request, elapsed, until, try, attempts, sent>>

\* waitForRetry: the pause is over (249-250).
Wake ==
  /\ pc = "pause" /\ elapsed >= until
  /\ pc' = "attempt"
  /\ UNCHANGED <<request, elapsed, until, try, attempts, answer, sent, got>>

\* waitForRetry: the request's time is up first (247-248).
PauseCancelled ==
  /\ pc = "pause" /\ elapsed >= budget
  /\ Finish("failed")
  /\ UNCHANGED <<request, elapsed, until, try, attempts, sent, got>>

\* Mutated form of MayTake: the pause is slept through, whatever the deadline.
MayTakeSleep ==
  \/ pc \in {"lookup", "query"} /\ elapsed < until
  \/ pc = "pause" /\ elapsed < until

\* The lookup, the query and the pause take time; the rest of queryNTP does not.
MayTake ==
  \/ pc \in {"lookup", "query"} /\ elapsed < until
  \/ pc = "pause" /\ elapsed < until /\ elapsed < budget

Tick ==
  /\ MayTake
  /\ elapsed' = elapsed + 1
  /\ UNCHANGED <<request, pc, until, try, attempts, answer, sent, got>>

Serve ==
  \/ Resolved \/ LookupFails
  \/ Send \/ NoTimeLeft
  \/ QueryFails \/ KissOfDeath \/ Invalid \/ Valid
  \/ Wake \/ PauseCancelled
  \/ Tick

Next == (\E timeout \in AgentTimeouts : Begin(timeout)) \/ Serve

Spec == Init /\ [][Next]_vars

-----------------------------------------------------------------------------
\* The shapes of the state.
TypeOK ==
  /\ agent \in AgentTimeouts \cup {0}
  /\ budget = RequestTimeout(agent)
  /\ elapsed \in Nat /\ until \in Nat
  /\ pc \in {"idle", "lookup", "attempt", "query", "pause"}
  /\ try \in 0 .. MaxRetries /\ attempts \in 0 .. MaxRetries
  /\ answer \in {"none", "ok", "failed"}
  /\ sent \in [Try -> Nat \cup {Unsent}]
  /\ got \in [Try -> Reply \cup {"nothing"}]

\* An operation never has more time than the request.
InBudget ==
  /\ elapsed <= budget
  /\ pc \in {"lookup", "query"} => elapsed <= until /\ until <= budget
  /\ answer # "none" => pc = "idle"

\* Where the loop is: the queries before this one have been sent and counted.
Counted ==
  /\ \A i \in Try : (sent[i] # Unsent) <=> i <= attempts
  /\ \A i \in Try : got[i] # "nothing" => i <= attempts
  /\ pc = "lookup" => attempts = 0
  /\ pc \in {"attempt", "query", "pause"} => try \in Try
  /\ pc \in {"attempt", "pause"} => attempts = try - 1
  /\ pc = "query" => attempts = try /\ got[try] = "nothing"

\* What came back for the queries that were followed by another one.
OnlyRetriable ==
  \A i \in Try :
    (i < attempts \/ (i = attempts /\ pc \in {"attempt", "pause"})) => got[i] \in {"nothing", "invalid"}

Spaced ==
  /\ \A i \in Try : i > 1 /\ sent[i] # Unsent => sent[i] - sent[i - 1] >= Backoff
  /\ \A i \in Try : sent[i] <= elapsed
  /\ pc = "pause" /\ attempts \in Try => until - sent[attempts] >= Backoff
  /\ pc = "attempt" /\ attempts \in Try => elapsed - sent[attempts] >= Backoff

\* The inductive invariant of queryNTP (114-171).
NTPInvariant == TypeOK /\ InBudget /\ Counted /\ OnlyRetriable /\ Spaced

\* Whatever the lookup and the server do, the answer comes before the agent's timeout, by
\* the whole margin if the timeout is longer than it (requestTimeout's promise, 204-207).
AnsweredInTime ==
  agent # 0 => elapsed <= agent /\ (agent > Margin => elapsed <= agent - Margin)

\* The server is not hammered: after a Kiss-of-Death nothing more is sent to it (158-163),
\* and a pause lies between two queries (retryBackoff).
PoliteToServer ==
  /\ \A i, j \in Try : got[i] = "kiss" /\ j > i => sent[j] = Unsent
  /\ \A i \in Try : i > 1 /\ sent[i] # Unsent => sent[i] - sent[i - 1] >= Backoff

\* What is answered is what happened: "attempts" is how many queries were sent, success
\* is a validated reply to the last of them, and a failure with time left has a reason: no
\* address, a Kiss-of-Death, or the last attempt used up (84-107, 137-170).
HonestAnswer ==
  answer # "none" =>
    /\ \A i \in Try : (sent[i] # Unsent) <=> i <= attempts
    /\ answer = "ok" <=> \E i \in Try : got[i] = "valid"
    /\ \A i \in Try : i < attempts => got[i] \notin {"valid", "kiss"}
    /\ answer = "failed" /\ elapsed < budget =>
         attempts = 0 \/ attempts = MaxRetries \/ got[attempts] = "kiss"
=============================================================================
