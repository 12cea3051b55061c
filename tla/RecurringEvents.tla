-------------------------- MODULE RecurringEvents ---------------------------
(***************************************************************************)
(* The recurring-events collection (windows_recurring_event_Error): errors *)
(* of the event logs are grouped by signature and counted, those that      *)
(* recur are answered, most frequent first, up to a limit.  Each log is    *)
(* read for its newest events only, while events are still written and the *)
(* oldest overwritten; a log that cannot be read is skipped.  The cache    *)
(* and the deadline are CollectorCache's.  Lines are those of events.go    *)
(* unless main.go is named.                                                *)
(***************************************************************************)
EXTENDS Integers, Sequences, FiniteSets

CONSTANTS
  Logs,
  Signatures,  \* records [source, id]: provider and event id; a source up to letter case
  Wildcard,         \* the wildcard of an ignore rule
  Periods,     \* the period parameter, in seconds
  OldAge,      \* the age of an event that is not recent, in minutes
  DefaultLookback, \* 1440 minutes
  MaxGroups,   \* maxGroups, 250 in the code
  MaxLen,      \* bound, for TLC: events a log has room for
  MaxChanges   \* bound, for TLC: events written during a request

AgesAndLimits ==
  OldAge \in Nat /\ DefaultLookback \in Nat /\ Periods \subseteq Nat /\ MaxGroups \in Nat

VARIABLES
  host,   \* [logs, changes]; a log's events, oldest first
  query,  \* the request and its locals
  answer  \* what the last step answered

vars == <<host, query, answer>>

Dated == [sig : Signatures, age : {0, OldAge}]

LogContents ==
  {events \in UNION {[1 .. n -> Dated] : n \in 0 .. MaxLen} :
     \A i, j \in DOMAIN events : i < j => events[i].age >= events[j].age}

NoHost == [logs |-> [l \in Logs |-> <<>>], changes |-> 0]

Rules == [source : {s.source : s \in Signatures} \cup {Wildcard},
          id : {s.id : s \in Signatures} \cup {Wildcard}]

\* found: the groups of the logs read so far.  History: read, what each log that was read
\* then held.
Idle == [pc |-> "idle", period |-> 0, maxEvents |-> 0, minCount |-> 0, rules |-> {},
         todo |-> {}, found |-> {}, out |-> {}, read |-> <<>>]

NoAnswer == [kind |-> "none", query |-> Idle]

Init ==
  /\ host = NoHost
  /\ query = Idle
  /\ answer = NoAnswer

\* parseIgnoreRules: a rule that would match everything is dropped.
ParseIgnoreRules(rules) == {r \in rules : r.source # Wildcard \/ r.id # Wildcard}

\* parseParams and the start of FindRecurringEvents; minCount and maxEvents are positive.
Begin(period, maxEvents, minCount, rules) ==
  /\ query.pc = "idle" /\ answer = NoAnswer
  /\ \E logs \in [Logs -> LogContents] : host' = [logs |-> logs, changes |-> 0]
  /\ query' = [Idle EXCEPT !.pc = "read", !.period = period, !.maxEvents = maxEvents,
                           !.minCount = minCount, !.rules = ParseIgnoreRules(rules),
                           !.todo = Logs]
  /\ UNCHANGED answer

\* Mutated form of Lookback: the seconds are taken for minutes.
LookbackOfSeconds(period) == period

\* The window, in minutes, rounded down; the script has no window of none (73-76).
Lookback(period) == IF period \div 60 <= 0 THEN DefaultLookback ELSE period \div 60

InWindow(events, period) == {i \in DOMAIN events : events[i].age <= Lookback(period)}

\* Get-WinEvent -MaxEvents starts from the newest, which are the last.
Newest(places, n) == {i \in places : Cardinality({j \in places : j > i}) < n}

LookedAt(q, events) == Newest(InWindow(events, q.period), q.maxEvents)

Count(events, places, s) == Cardinality({i \in places : events[i].sig = s})

Groups(log, events, places) ==
  {[log |-> log, sig |-> s, count |-> Count(events, places, s)] :
     s \in {events[i].sig : i \in places}}

\* The body of the script's loop.
ReadLog(log) ==
  /\ query.pc = "read" /\ log \in query.todo
  /\ LET events == host.logs[log]
     IN query' = [query EXCEPT !.todo = @ \ {log},
          !.found = @ \cup Groups(log, events, LookedAt(query, events)),
          !.read = [l \in DOMAIN @ \cup {log} |-> IF l = log THEN events ELSE @[l]]]
  /\ UNCHANGED <<host, answer>>

\* The log cannot be read, which the script does not tell from a quiet one.
SkipLog(log) ==
  /\ query.pc = "read" /\ log \in query.todo
  /\ query' = [query EXCEPT !.todo = @ \ {log}]
  /\ UNCHANGED <<host, answer>>

\* ignoreRule.matches
RuleMatches(r, s) == r.source \in {Wildcard, s.source} /\ r.id \in {Wildcard, s.id}

IsIgnored(s, rules) == \E r \in rules : RuleMatches(r, s)

\* The most frequent groups, up to the limit; which of equals are cut is left open.
MostFrequent(groups) ==
  {kept \in SUBSET groups :
     /\ Cardinality(kept) =
          IF Cardinality(groups) > MaxGroups THEN MaxGroups ELSE Cardinality(groups)
     /\ \A k \in kept, g \in groups \ kept : k.count >= g.count}

\* Mutated form of Selections: the limit comes before the filters.
SelectionsCutFirst(q) ==
  {{g \in kept : g.count >= q.minCount /\ ~IsIgnored(g.sig, q.rules)} :
     kept \in MostFrequent(q.found)}

\* What FindRecurringEvents may return for the groups of the collector.
Selections(q) ==
  MostFrequent({g \in q.found : g.count >= q.minCount /\ ~IsIgnored(g.sig, q.rules)})

\* The script ends, and with it the request.
Finish ==
  /\ query.pc = "read" /\ query.todo = {}
  /\ \E out \in Selections(query) :
       answer' = [kind |-> "list", query |-> [query EXCEPT !.out = out, !.found = {}]]
  /\ query' = Idle
  /\ UNCHANGED host

\* The collector runs out of time, fails, or prints what is no JSON.
CollectorFails ==
  /\ query.pc = "read"
  /\ answer' = [kind |-> "error", query |-> Idle]
  /\ query' = Idle
  /\ UNCHANGED host

Return ==
  /\ answer # NoAnswer
  /\ answer' = NoAnswer /\ host' = NoHost
  /\ UNCHANGED query

\* An event is written; a full log overwrites its oldest.
Write(log, s) ==
  /\ query.pc = "read" /\ log \in query.todo /\ host.changes < MaxChanges
  /\ LET events == Append(host.logs[log], [sig |-> s, age |-> 0])
     IN host' = [logs |-> [host.logs EXCEPT ![log] = IF Len(events) > MaxLen THEN Tail(events)
                                                     ELSE events],
                 changes |-> host.changes + 1]
  /\ UNCHANGED <<query, answer>>

Next ==
  \/ \E period \in Periods, n \in 1 .. MaxLen, minCount \in 1 .. MaxLen,
        rules \in {{}} \cup {{r} : r \in Rules} : Begin(period, n, minCount, rules)
  \/ \E log \in Logs : ReadLog(log) \/ SkipLog(log)
  \/ \E log \in Logs, s \in Signatures : Write(log, s)
  \/ Finish \/ CollectorFails \/ Return

Spec == Init /\ [][Next]_vars

-----------------------------------------------------------------------------
IsLog(events) == events \in Seq(Dated)

\* What has been read: the groups are those of the events that were looked at, of each log
\* that was read.
ReadSoFar(q) ==
  /\ DOMAIN q = DOMAIN Idle
  /\ q.period \in Nat /\ q.maxEvents \in Nat \ {0} /\ q.minCount \in Nat \ {0}
  /\ q.todo \cap DOMAIN q.read = {}
  /\ \A l \in DOMAIN q.read : IsLog(q.read[l])
  /\ q.found = UNION {Groups(l, q.read[l], LookedAt(q, q.read[l])) : l \in DOMAIN q.read}
  /\ IsFiniteSet(q.found)

\* The inductive invariant.
EventsInvariant ==
  query.pc # "idle" =>
    /\ answer = NoAnswer
    /\ query.todo \subseteq Logs /\ ReadSoFar(query)
    /\ DOMAIN host.logs = Logs /\ \A l \in Logs : IsLog(host.logs[l])

-----------------------------------------------------------------------------
\* The events of a log, when it was read, that are no older than the period.
Recent(q, log) == {i \in DOMAIN q.read[log] : q.read[log][i].age * 60 <= q.period}

Occurrences(q, log, s) == Count(q.read[log], Recent(q, log), s)

\* A signature that recurs is listed, unless the administrator ignores it or others at
\* least as frequent take all the room; of a log that was read and has no more recent
\* events than are looked at.
RecurringIsListed ==
  answer.kind = "list" =>
    LET q == answer.query IN
    \A log \in DOMAIN q.read, s \in Signatures :
      /\ Occurrences(q, log, s) >= q.minCount /\ ~IsIgnored(s, q.rules)
      /\ Cardinality(InWindow(q.read[log], q.period)) <= q.maxEvents
      => \/ \E g \in q.out : g.log = log /\ g.sig = s /\ g.count >= Occurrences(q, log, s)
         \/ /\ Cardinality(q.out) = MaxGroups
            /\ \A g \in q.out : g.count >= Occurrences(q, log, s)

\* What is listed did recur in the period that was asked for, if that is a minute or more
\* (a shorter one is rounded to nothing and looks back a day); each signature of a log is
\* listed once, with no more events than were there.
ListedRecurs ==
  answer.kind = "list" =>
    LET q == answer.query IN
    /\ Cardinality(q.out) <= MaxGroups
    /\ \A g, h \in q.out : g.log = h.log /\ g.sig = h.sig => g = h
    /\ \A g \in q.out :
         /\ g.count >= q.minCount /\ ~IsIgnored(g.sig, q.rules)
         /\ g.log \in DOMAIN q.read
         /\ q.period >= 60 => g.count <= Occurrences(q, g.log, g.sig)
=============================================================================
