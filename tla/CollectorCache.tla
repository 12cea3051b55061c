--------------------------- MODULE CollectorCache ---------------------------
(***************************************************************************)
(* Live collection with a fallback: the shape four Windows plugins share   *)
(* (exchange_se, windows_failover_cluster, WindowsLatestUpdate,            *)
(* windows_recurring_event_Error).  A request runs a PowerShell collector  *)
(* under a deadline; success is stored in a one-entry cache and returned;  *)
(* failure is answered from the cache when its entry is for the same       *)
(* request signature and young enough, and is an error otherwise.          *)
(* Requests run concurrently; only the cache is behind a mutex.  Lines     *)
(* below are those of exchange_se/main.go unless a plugin is named.        *)
(***************************************************************************)
EXTENDS Integers

CONSTANTS
  Request,       \* goroutines that run Export
  Sig,           \* cache signatures: one (exchange, cluster), the month, or the parameters
  NoSig,         \* the cache entry of a plugin that has none yet
  TTL,           \* cacheTTL
  HardCap,       \* powerShellTimeout, or ZBX_WINEVENT_TIMEOUT
  Margin,        \* timeoutMargin
  MinTimeout,    \* minimumTimeout
  WaitDelay,     \* cmd.WaitDelay; 0 is no limit, as in the plugins that do not set it
  AgentTimeouts, \* item timeouts the agent may announce; 0 is none
  PipeHeld,      \* whether a child may outlive powershell and keep the output pipe open
  MaxClock       \* bound, for TLC

ASSUME CacheAssumption ==
  /\ NoSig \notin Sig
  /\ TTL \in Nat /\ WaitDelay \in Nat /\ Margin \in Nat /\ MaxClock \in Nat
  /\ HardCap \in Nat \ {0} /\ MinTimeout \in Nat \ {0}
  /\ AgentTimeouts \subseteq Nat
  /\ PipeHeld \in BOOLEAN

VARIABLES
  clock,     \* time, in ticks
  cache,     \* the one entry: [sig, at (generatedAt), taken (history: when its data was)]
  pc,        \* where each request is in Export
  req,       \* each request's locals
  answer,    \* what this step answered, NoAnswer for a step that answers nothing
  newest,    \* history: when the latest data ever stored was collected
  storedAt   \* history: when each signature was last stored, 0 for never

vars == <<clock, cache, pc, req, answer, newest, storedAt>>

Empty == [sig |-> NoSig, at |-> 0, taken |-> 0]

Req(sig, timeout, start, deadline) ==
  [sig |-> sig, timeout |-> timeout, start |-> start, deadline |-> deadline,
   good |-> FALSE, held |-> FALSE, until |-> 0]

NoReq == Req(NoSig, 0, 0, 0)

NoAnswer == [kind |-> "none", req |-> NoReq, entry |-> Empty, at |-> 0]

Init ==
  /\ clock = 1
  /\ cache = Empty
  /\ pc = [r \in Request |-> "idle"]
  /\ req = [r \in Request |-> NoReq]
  /\ answer = NoAnswer
  /\ newest = 0
  /\ storedAt = [s \in Sig |-> 0]

Goto(r, label) == pc' = [pc EXCEPT ![r] = label]

Smaller(a, b) == IF a < b THEN a ELSE b

\* effectiveTimeout: the agent's timeout less the margin, below the hard cap.
EffectiveTimeout(agentTimeout) ==
  IF agentTimeout = 0 THEN HardCap
  ELSE Smaller(HardCap, IF agentTimeout > Margin THEN agentTimeout - Margin ELSE MinTimeout)

\* Export starts the collector; a bad key or parameter is refused before that (705-714).
Begin(r, sig, timeout) ==
  /\ pc[r] = "idle"
  /\ req' = [req EXCEPT ![r] = Req(sig, timeout, clock, clock + EffectiveTimeout(timeout))]
  /\ Goto(r, "run")
  /\ answer' = NoAnswer
  /\ UNCHANGED <<clock, cache, newest, storedAt>>

\* powershell exits, or is killed at the deadline; with a child still holding its pipe,
\* cmd.Run waits on for at most WaitDelay (751-755).
Exits(r) ==
  /\ pc[r] = "run"
  /\ \E good \in BOOLEAN, held \in {FALSE, PipeHeld} :
       req' = [req EXCEPT ![r].good = good /\ clock < req[r].deadline,
                          ![r].held = held, ![r].until = clock + WaitDelay]
  /\ Goto(r, "wait")
  /\ answer' = NoAnswer
  /\ UNCHANGED <<clock, cache, newest, storedAt>>

\* Mutated form of InTime: a collection that ends at its deadline still counts.
InTimeAtDeadline(r) == clock <= req[r].deadline

InTime(r) == clock < req[r].deadline

\* cmd.Run returns with a payload that parses, and the deadline has not passed (755-771).
Collected(r) ==
  /\ pc[r] = "wait" /\ req[r].good /\ InTime(r)
  /\ Goto(r, "store")
  /\ answer' = NoAnswer
  /\ UNCHANGED <<clock, cache, req, newest, storedAt>>

GaveUpOnPipe(r) == req[r].held /\ WaitDelay > 0 /\ clock = req[r].until

\* cmd.Run returns too late, or with an exit status, an unusable payload, or the pipe
\* still open after WaitDelay (755-771).
Failed(r) ==
  /\ pc[r] = "wait" /\ (~req[r].good \/ ~InTime(r) \/ GaveUpOnPipe(r))
  /\ Goto(r, "load")
  /\ answer' = NoAnswer
  /\ UNCHANGED <<clock, cache, req, newest, storedAt>>

Entry(r) == [sig |-> req[r].sig, at |-> clock, taken |-> req[r].start]

\* The request is over.
Reply(r, kind, entry) ==
  /\ answer' = [kind |-> kind, req |-> req[r], entry |-> entry, at |-> clock]
  /\ req' = [req EXCEPT ![r] = NoReq]
  /\ Goto(r, "idle")

\* storeCache, whatever other requests stored since this one began, and the live answer.
Store(r) ==
  /\ pc[r] = "store"
  /\ cache' = Entry(r)
  /\ newest' = IF req[r].start > newest THEN req[r].start ELSE newest
  /\ storedAt' = [storedAt EXCEPT ![req[r].sig] = clock]
  /\ Reply(r, "live", Entry(r))
  /\ UNCHANGED clock

\* Mutated form of Usable: the signature is not looked at.
UsableForAnyRequest(sig) == cache.sig # NoSig /\ clock - cache.at <= TTL

\* Mutated form of Usable: an entry is only good while it is younger than half the TTL.
UsableHalfAsLong(sig) == cache.sig # NoSig /\ cache.sig = sig /\ 2 * (clock - cache.at) <= TTL

Usable(sig) == cache.sig # NoSig /\ cache.sig = sig /\ clock - cache.at <= TTL

\* loadCached has an answer.
LoadCached(r) ==
  /\ pc[r] = "load" /\ Usable(req[r].sig)
  /\ Reply(r, "cached", cache)
  /\ UNCHANGED <<clock, cache, newest, storedAt>>

\* loadCached has none: the collector's error goes to the agent.
Error(r) ==
  /\ pc[r] = "load" /\ ~Usable(req[r].sig)
  /\ Reply(r, "error", Empty)
  /\ UNCHANGED <<clock, cache, newest, storedAt>>

\* The agent restarts the plugin: its cache and its requests are gone.
Restart ==
  /\ clock < MaxClock
  /\ cache' = Empty /\ newest' = 0 /\ storedAt' = [s \in Sig |-> 0]
  /\ pc' = [r \in Request |-> "idle"]
  /\ req' = [r \in Request |-> NoReq]
  /\ answer' = NoAnswer
  /\ UNCHANGED clock

\* What happens next to r can take time: powershell runs, up to the deadline, and its pipe
\* stays open, up to WaitDelay.  Everything else in Export is prompt.
MayTake(r) ==
  \/ pc[r] = "idle"
  \/ pc[r] = "run" /\ clock < req[r].deadline
  \/ pc[r] = "wait" /\ req[r].held /\ (WaitDelay = 0 \/ clock < req[r].until)

Tick ==
  /\ clock < MaxClock
  /\ \A r \in Request : MayTake(r)
  /\ clock' = clock + 1
  /\ answer' = NoAnswer
  /\ UNCHANGED <<cache, pc, req, newest, storedAt>>

Serve(r) == Exits(r) \/ Collected(r) \/ Failed(r) \/ Store(r) \/ LoadCached(r) \/ Error(r)

Next ==
  \/ \E r \in Request : \/ \E sig \in Sig, timeout \in AgentTimeouts : Begin(r, sig, timeout)
                        \/ Serve(r)
  \/ Restart
  \/ Tick

Spec == Init /\ [][Next]_vars

-----------------------------------------------------------------------------
RequestState == {"idle", "run", "wait", "store", "load"}

Entries == [sig : Sig \cup {NoSig}, at : Nat, taken : Nat]

Requests == [sig : Sig \cup {NoSig}, timeout : Nat, start : Nat, deadline : Nat,
             good : BOOLEAN, held : BOOLEAN, until : Nat]

\* The shapes of the state.
TypeOK ==
  /\ clock \in Nat \ {0}
  /\ cache \in Entries
  /\ pc \in [Request -> RequestState]
  /\ req \in [Request -> Requests]
  /\ newest \in Nat
  /\ storedAt \in [Sig -> Nat]

\* A request that is under way began in the past and ends its collection in time.
UnderWay(r) == pc[r] # "idle"

RequestsInTime ==
  \A r \in Request : UnderWay(r) =>
    /\ req[r].sig \in Sig
    /\ req[r].start <= clock
    /\ req[r].deadline <= req[r].start + HardCap
    /\ pc[r] = "store" => clock < req[r].deadline

\* The entry was stored in the past, less than a collection after its data was taken, and it
\* is the last that was stored.
EntryInTime ==
  /\ newest <= clock
  /\ \A s \in Sig : storedAt[s] <= clock
  /\ cache.sig = NoSig => \A s \in Sig : storedAt[s] = 0
  /\ cache.sig # NoSig =>
       /\ cache.at <= clock
       /\ cache.taken <= cache.at /\ cache.at < cache.taken + HardCap
       /\ cache.at = storedAt[cache.sig]
       /\ \A s \in Sig : storedAt[s] <= storedAt[cache.sig]
       /\ newest < cache.taken + HardCap

CacheInvariant == TypeOK /\ RequestsInTime /\ EntryInTime

\* Whatever order the collections end in, and though an older one may overwrite a newer
\* one, the cache falls back by less than the longest collection (Export, 714-724;
\* storeCache, 813-819).
BoundedRegress == cache.sig # NoSig => newest - cache.taken < HardCap

\* An answer is about what was asked (WindowsLatestUpdate/main.go:569, a month;
\* windows_recurring_event_Error/main.go:255, the parameters), and its data is less
\* than the TTL and one collection old (829-832).
AnswersWhatWasAsked ==
  answer.kind \in {"live", "cached"} =>
    /\ answer.entry.sig = answer.req.sig
    /\ answer.at - answer.entry.taken < TTL + HardCap

\* On a transient failure the last good payload is served for the whole TTL (conf:22-24,
\* windows_recurring_event_Error/main.go:114-117): an error reaches the agent only when
\* the last success for this signature is older, or another signature's displaced it.
LastGoodIsServed ==
  [][answer'.kind = "error" =>
       LET s == answer'.req.sig IN
       \/ storedAt[s] = 0
       \/ clock - storedAt[s] > TTL
       \/ \E other \in Sig \ {s} : storedAt[other] >= storedAt[s]]_vars

\* What the comments promise (751-752, 782-783): a collection leaves the agent its margin,
\* so the answer comes before the agent has given up.
AnswersInTime ==
  answer.kind # "none" /\ answer.req.timeout > Margin =>
    answer.at - answer.req.start <= answer.req.timeout
=============================================================================
