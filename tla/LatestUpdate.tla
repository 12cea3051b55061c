---------------------------- MODULE LatestUpdate ----------------------------
(***************************************************************************)
(* The Windows latest-update check (WindowsLatestUpdate/main.go): is the   *)
(* cumulative update of a month installed?  A missing update is reported   *)
(* as installed as long as its month's Patch Tuesday is ahead, so a month  *)
(* boundary has four clocks to agree on: the one Export reads, the one     *)
(* PowerShell reads, the month of the cache's key, and the month a cached  *)
(* payload was collected for.  One request runs at a time (the agent's     *)
(* configuration sets Capacity=1); the deadline and the cache under        *)
(* concurrent requests are CollectorCache's.  Time is in days.             *)
(***************************************************************************)
EXTENDS Integers

CONSTANTS
  LastMonth,     \* months are numbered 0, 1, ... LastMonth
  MonthStart,    \* the first day of each month, and of the one after the last
  FirstDay,      \* the day the plugin is first asked
  FirstWeekday,  \* the weekday of day 0; 0 is Sunday
  TTL,           \* cacheTTL
  HardCap,       \* powerShellTimeout
  LastDay        \* bound, for TLC

Months == 0 .. LastMonth

CONSTANT NoMonth \* the current month, as the key without a parameter asks for it

ASSUME MonthAssumption ==
  /\ LastMonth \in Nat \ {0}
  /\ MonthStart \in [0 .. LastMonth + 1 -> Int]
  /\ \A m \in Months : MonthStart[m + 1] >= MonthStart[m] + 14
  /\ \A day \in MonthStart[0] .. MonthStart[LastMonth + 1] - 1 :
       \E m \in Months : MonthStart[m] <= day /\ day < MonthStart[m + 1]
  /\ FirstDay \in MonthStart[1] .. MonthStart[LastMonth + 1] - 1
  /\ LastDay \in Int /\ LastDay < MonthStart[LastMonth + 1]
  /\ FirstWeekday \in Nat /\ TTL \in Nat /\ HardCap \in Nat
  /\ NoMonth \notin Int

VARIABLES
  host,    \* [clock, installed]: the day, and the months whose update is in the history
  query,   \* the request: [pc, previous, asked, now, payload]
  cache,   \* the one entry: [asked (its key), at (generatedAt), payload]
  answer   \* what the last step answered

vars == <<host, query, cache, answer>>

\* What PowerShell found: for which month, on which day, whether installed, or an error.
NoPayload == [month |-> NoMonth, at |-> 0, installed |-> FALSE, error |-> FALSE]

Idle == [pc |-> "idle", previous |-> FALSE, asked |-> NoMonth, now |-> 0,
         payload |-> NoPayload]

NoCache == [asked |-> NoMonth, at |-> 0, payload |-> NoPayload]

NoAnswer == [kind |-> "none", previous |-> FALSE, asked |-> NoMonth, now |-> 0,
             payload |-> NoPayload, installed |-> FALSE]

ErrorAnswer == [kind |-> "error", previous |-> FALSE, asked |-> NoMonth, now |-> 0,
                payload |-> NoPayload, installed |-> FALSE]

MonthOf(day) == CHOOSE m \in Months : MonthStart[m] <= day /\ day < MonthStart[m + 1]

Weekday(day) == (day + FirstWeekday) % 7

\* secondTuesday: the first Tuesday of the month, and a week.
SecondTuesday(m) == MonthStart[m] + ((2 - Weekday(MonthStart[m]) + 7) % 7) + 7

\* Mutated form of PreviousMonth: the same day number a month ago, which overflows back
\* into this month when last month is shorter.
SameDayLastMonth(day) ==
  LET m == MonthOf(day) IN MonthOf(MonthStart[m - 1] + (day - MonthStart[m]))

PreviousMonth(day) == MonthOf(day) - 1

Init ==
  /\ host = [clock |-> FirstDay, installed |-> {}]
  /\ query = Idle
  /\ cache = NoCache
  /\ answer = NoAnswer

\* Export: the clock is read before anything else, and the previous month is worked out
\* from it; a malformed month is refused here (parseMonthParam).
Ask(previous, month) ==
  /\ query.pc = "idle"
  /\ query' = [Idle EXCEPT !.pc = "collect", !.previous = previous, !.now = host.clock,
                           !.asked = IF previous THEN PreviousMonth(host.clock) ELSE month]
  /\ answer' = NoAnswer
  /\ UNCHANGED <<host, cache>>

\* The script: the month it was given, or that of its own clock; an exception inside it is
\* a payload too, with Installed = 1 and Source = "Error".
Payload(error) ==
  LET month == IF query.asked = NoMonth THEN MonthOf(host.clock) ELSE query.asked
  IN [month |-> month, at |-> host.clock, error |-> error,
      installed |-> ~error /\ month \in host.installed]

\* collectLive succeeds (collect).
Collect(error) ==
  /\ query.pc = "collect"
  /\ query' = [query EXCEPT !.pc = "store", !.payload = Payload(error)]
  /\ answer' = NoAnswer
  /\ UNCHANGED <<host, cache>>

\* Mutated form of Suppressed: an error is taken for a missing update.
SuppressedOnError(payload, now) == now < SecondTuesday(payload.month) /\ ~payload.installed

\* Mutated form of Suppressed: it is judged by the month Export's clock is in.
SuppressedByNow(payload, now) ==
  now < SecondTuesday(MonthOf(now)) /\ ~payload.installed /\ ~payload.error

\* applyReleaseSuppression: of the payload's month, by Export's clock.
Suppressed(payload, now) ==
  now < SecondTuesday(payload.month) /\ ~payload.installed /\ ~payload.error

Value(payload) ==
  [kind |-> "value", previous |-> query.previous, asked |-> query.asked, now |-> query.now,
   payload |-> payload, installed |-> payload.installed \/ Suppressed(payload, query.now)]

\* storeCache, then the live answer; the cache keeps the payload as collected.
Store ==
  /\ query.pc = "store"
  /\ cache' = [asked |-> query.asked, at |-> host.clock, payload |-> query.payload]
  /\ answer' = Value(query.payload)
  /\ query' = Idle
  /\ UNCHANGED host

\* Mutated form of Cached: whichever month the entry is for.
CachedForAnyMonth == cache # NoCache /\ host.clock - cache.at <= TTL

Cached == cache # NoCache /\ cache.asked = query.asked /\ host.clock - cache.at <= TTL

\* collectLive fails (a deadline, an exit status, output that is no JSON), and loadCached
\* has an entry, which is judged like a live one.
ServeCached ==
  /\ query.pc = "collect" /\ Cached
  /\ answer' = Value(cache.payload)
  /\ query' = Idle
  /\ UNCHANGED <<host, cache>>

\* It has none.
Fail ==
  /\ query.pc = "collect" /\ ~Cached
  /\ answer' = ErrorAnswer
  /\ query' = Idle
  /\ UNCHANGED <<host, cache>>

\* A day passes; a collection is over before its deadline.
Tick ==
  /\ host.clock < LastDay
  /\ query.pc # "idle" => host.clock < query.now + HardCap
  /\ host' = [host EXCEPT !.clock = @ + 1]
  /\ answer' = NoAnswer
  /\ UNCHANGED <<query, cache>>

\* The update of a month enters the history; one released out of band may be early.
Install(m) ==
  /\ host.clock >= MonthStart[m] /\ m \notin host.installed
  /\ host' = [host EXCEPT !.installed = @ \cup {m}]
  /\ answer' = NoAnswer
  /\ UNCHANGED <<query, cache>>

\* The agent restarts the plugin.
Restart ==
  /\ query' = Idle /\ cache' = NoCache /\ answer' = NoAnswer
  /\ UNCHANGED host

Next ==
  \/ \E month \in Months \cup {NoMonth} : Ask(FALSE, month)
  \/ Ask(TRUE, NoMonth)
  \/ \E error \in BOOLEAN : Collect(error)
  \/ Store \/ ServeCached \/ Fail
  \/ Tick \/ Restart
  \/ \E m \in Months : Install(m)

Spec == Init /\ [][Next]_vars

-----------------------------------------------------------------------------
Payloads == [month : Months \cup {NoMonth}, at : Int, installed : BOOLEAN, error : BOOLEAN]

Queries == [pc : {"idle", "collect", "store"}, previous : BOOLEAN, now : Int,
            asked : Months \cup {NoMonth}, payload : Payloads]

Caches == [asked : Months \cup {NoMonth}, at : Int, payload : Payloads]

Answers == [kind : {"none", "value", "error"}, previous : BOOLEAN, now : Int,
            asked : Months \cup {NoMonth}, payload : Payloads, installed : BOOLEAN]

\* The shapes of the state.
TypeOK ==
  /\ host \in [clock : Int, installed : SUBSET Months]
  /\ query \in Queries /\ cache \in Caches /\ answer \in Answers

\* "Installed" is answered only for an update that is installed, or that is not out yet by
\* Export's clock, and never instead of the error of a broken check (README.md:57-62).
InstalledIsJustified ==
  answer.kind = "value" /\ answer.installed =>
    /\ ~answer.payload.error
    /\ \/ answer.payload.month \in host.installed
       \/ answer.now < SecondTuesday(answer.payload.month)

\* Of the current or the previous month, "missing" is never answered before the Patch
\* Tuesday of the month that was checked, on whichever side of midnight the four clocks are,
\* unless the check itself failed (main.go:333-352).  Of a month that was asked for by name
\* nothing is said: the code suppresses it like any other, while the plugin's configuration
\* (zabbix-agent2-WindowsLatestUpdate.conf:32-33) says that it never does.
MissingIsDue ==
  /\ answer.kind = "value" /\ ~answer.installed /\ ~answer.payload.error
  /\ answer.asked = NoMonth \/ answer.previous
  => answer.now >= SecondTuesday(answer.payload.month)

\* Asked for the previous month, the answer is for the one before the month Export's clock
\* was in, and what was detected is what is reported: it is never suppressed, whatever the
\* clocks of the collector and of the cache say (main.go:306-310, 329-331).
PreviousIsReportedAsIs ==
  answer.kind = "value" /\ answer.previous =>
    /\ answer.payload.month = MonthOf(answer.now) - 1
    /\ answer.installed = answer.payload.installed

\* An answer is for the month that was asked for; for the current month, it is the one the
\* collector's clock was in, at most a TTL and a collection away from the answer.
AnswersForItsMonth ==
  answer.kind = "value" =>
    /\ answer.payload.month =
         IF answer.asked = NoMonth THEN MonthOf(answer.payload.at) ELSE answer.asked
    /\ host.clock - answer.payload.at <= TTL + HardCap
=============================================================================
