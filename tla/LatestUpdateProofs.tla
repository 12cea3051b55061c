------------------------- MODULE LatestUpdateProofs -------------------------
(***************************************************************************)
(* Theorems about the latest-update check, for every calendar whose months *)
(* have at least two weeks and every deadline and lifetime of the cache.   *)
(* The invariant carries two facts from the collector to the answer: which *)
(* month and day a payload is of, in the request and in the cache, and     *)
(* that a request is over within its deadline, so that the day of Export's *)
(* clock bounds that of the collector's.                                   *)
(***************************************************************************)
EXTENDS LatestUpdate, TLAPS

\* The days the clock shows.
DaysSeen == FirstDay .. MonthStart[LastMonth + 1] - 1

\* What holds of a payload collected for a request.
PayloadFor(payload, asked) ==
  /\ payload \in Payloads /\ payload.month \in Months
  /\ payload.month = IF asked = NoMonth THEN MonthOf(payload.at) ELSE asked
  /\ payload.at <= host.clock
  /\ payload.installed => payload.month \in host.installed /\ ~payload.error

HostInv == host \in [clock : DaysSeen, installed : SUBSET Months]

QueryInv ==
  /\ query \in Queries
  /\ query.pc # "idle" =>
       /\ query.now \in FirstDay .. host.clock /\ host.clock <= query.now + HardCap
       /\ query.previous => query.asked = PreviousMonth(query.now)
  /\ query.pc = "store" =>
       PayloadFor(query.payload, query.asked) /\ query.now <= query.payload.at

CacheInv ==
  /\ cache \in Caches
  /\ cache # NoCache =>
       /\ PayloadFor(cache.payload, cache.asked)
       /\ cache.at <= host.clock /\ cache.at - cache.payload.at <= HardCap

AnswerInv ==
  /\ answer \in Answers
  /\ answer.kind = "value" =>
       /\ PayloadFor(answer.payload, answer.asked)
       /\ answer.now \in FirstDay .. host.clock
       /\ answer.previous => answer.asked = PreviousMonth(answer.now)
       /\ answer.installed = (answer.payload.installed \/ Suppressed(answer.payload, answer.now))
       /\ host.clock - answer.payload.at <= TTL + HardCap

IInv == HostInv /\ QueryInv /\ CacheInv /\ AnswerInv

-----------------------------------------------------------------------------
\* What the constants are.
LEMMA Numbers ==
  /\ FirstDay \in Int /\ TTL \in Nat /\ HardCap \in Nat /\ LastDay \in Int
  /\ MonthStart[LastMonth + 1] \in Int /\ LastDay < MonthStart[LastMonth + 1]
  /\ DaysSeen \subseteq Int /\ Months \subseteq Int /\ NoMonth \notin Months
  /\ FirstDay \in DaysSeen
BY MonthAssumption DEF DaysSeen, Months

LEMMA MonthsStart == \A m \in Months : MonthStart[m] \in Int
BY MonthAssumption DEF Months

\* A day the clock shows is in a month, and that is not the first (MonthOf).
LEMMA MonthOfIsAMonth ==
  ASSUME NEW day \in DaysSeen
  PROVE  /\ MonthOf(day) \in Months
         /\ MonthStart[MonthOf(day)] <= day /\ day < MonthStart[MonthOf(day) + 1]
         /\ MonthOf(day) - 1 \in Months
         /\ day >= MonthStart[MonthOf(day)]
<1>1. 0 \in Months /\ 1 \in Months /\ LastMonth \in Nat
  BY MonthAssumption DEF Months
<1>2. /\ \A m \in 0 .. LastMonth + 1 : MonthStart[m] \in Int
      /\ MonthStart[0] + 14 <= MonthStart[1]
  BY <1>1, MonthAssumption DEF Months
<1>3. day \in MonthStart[0] .. MonthStart[LastMonth + 1] - 1 /\ day >= MonthStart[1]
  BY <1>1, <1>2, MonthAssumption DEF DaysSeen, Months
<1>4. \E m \in Months : MonthStart[m] <= day /\ day < MonthStart[m + 1]
  BY <1>3, MonthAssumption
<1>5. /\ MonthOf(day) \in Months
      /\ MonthStart[MonthOf(day)] <= day /\ day < MonthStart[MonthOf(day) + 1]
  BY <1>4 DEF MonthOf
<1>6. MonthOf(day) # 0
  BY <1>1, <1>2, <1>3, <1>5
<1> QED BY <1>1, <1>2, <1>3, <1>5, <1>6 DEF Months

\* The second Tuesday is in the second week of its month, whatever weekday that begins on
\* (secondTuesday, main.go:316-321).
THEOREM SecondTuesdayIsInTheSecondWeek ==
  ASSUME NEW m \in Months
  PROVE  SecondTuesday(m) \in MonthStart[m] + 7 .. MonthStart[m] + 13
<1>1. MonthStart[m] \in Int /\ FirstWeekday \in Int
  BY MonthAssumption DEF Months
<1>2. Weekday(MonthStart[m]) \in 0 .. 6
  BY <1>1 DEF Weekday
<1>3. ((2 - Weekday(MonthStart[m]) + 7) % 7) \in 0 .. 6
  BY <1>2
<1> QED BY <1>1, <1>3 DEF SecondTuesday

\* And it is a Tuesday.
THEOREM SecondTuesdayIsATuesday ==
  ASSUME NEW m \in Months
  PROVE  Weekday(SecondTuesday(m)) = 2
<1> DEFINE s == MonthStart[m]
           w == Weekday(s)
<1>1. s \in Int /\ FirstWeekday \in Int
  BY MonthAssumption DEF Months
<1>2. w \in 0 .. 6 /\ w = (s + FirstWeekday) % 7
  BY <1>1 DEF Weekday
<1>3. SecondTuesday(m) = s + ((2 - w + 7) % 7) + 7
  BY DEF SecondTuesday
<1>4. (s + ((2 - w + 7) % 7) + 7 + FirstWeekday) % 7 = 2
  BY <1>1, <1>2
<1> QED BY <1>3, <1>4 DEF Weekday

-----------------------------------------------------------------------------
\* The previous month of a day is over, and its second Tuesday past (previousMonth).
LEMMA PreviousMonthIsOver ==
  ASSUME NEW day \in DaysSeen
  PROVE  PreviousMonth(day) \in Months /\ SecondTuesday(PreviousMonth(day)) < day
<1> DEFINE m == MonthOf(day)
<1>1. m \in Months /\ m - 1 \in Months /\ MonthStart[m] <= day
  BY MonthOfIsAMonth
<1>2. MonthStart[m] >= MonthStart[m - 1] + 14
  <2>1. (m - 1) + 1 = m
    BY <1>1 DEF Months
  <2> QED BY <1>1, <2>1, MonthAssumption
<1>3. SecondTuesday(m - 1) <= MonthStart[m - 1] + 13 /\ SecondTuesday(m - 1) \in Int
  <2>1. MonthStart[m - 1] \in Int
    BY <1>1, MonthAssumption DEF Months
  <2>2. SecondTuesday(m - 1) \in MonthStart[m - 1] + 7 .. MonthStart[m - 1] + 13
    BY <1>1, SecondTuesdayIsInTheSecondWeek
  <2> QED BY <2>1, <2>2
<1>4. MonthStart[m] \in Int /\ MonthStart[m - 1] \in Int /\ day \in Int
  BY <1>1, MonthsStart, Numbers
<1>5. PreviousMonth(day) = m - 1
  BY DEF PreviousMonth
<1>6. SecondTuesday(m - 1) < day
  <2> HIDE DEF m
  <2> QED BY <1>1, <1>2, <1>3, <1>4
<1> QED BY <1>1, <1>5, <1>6

\* The shapes of what is not there.
LEMMA Nothing ==
  /\ NoPayload \in Payloads
  /\ NoAnswer \in Answers /\ NoAnswer.kind = "none"
  /\ ErrorAnswer \in Answers /\ ErrorAnswer.kind = "error"
  /\ Idle \in Queries /\ Idle.pc = "idle"
  /\ NoCache \in Caches
<1>1. NoPayload \in Payloads
  BY DEF NoPayload, Payloads
<1>2. NoAnswer \in Answers /\ NoAnswer.kind = "none"
  BY <1>1 DEF NoAnswer, Answers
<1>3. ErrorAnswer \in Answers /\ ErrorAnswer.kind = "error"
  BY <1>1 DEF ErrorAnswer, Answers
<1>4. Idle \in Queries /\ Idle.pc = "idle"
  BY <1>1 DEF Idle, Queries
<1>5. NoCache \in Caches
  BY <1>1 DEF NoCache, Caches
<1> QED BY <1>1, <1>2, <1>3, <1>4, <1>5

LEMMA InvInit == Init => IInv
<1> SUFFICES ASSUME Init PROVE IInv
  OBVIOUS
<1>1. HostInv
  BY Numbers DEF Init, HostInv
<1>2. QueryInv
  BY Nothing DEF Init, QueryInv
<1>3. CacheInv
  BY Nothing DEF Init, CacheInv
<1>4. AnswerInv
  BY Nothing DEF Init, AnswerInv
<1> QED BY <1>1, <1>2, <1>3, <1>4 DEF IInv

\* A payload stays what it was as the clock and the history go on.
LEMMA PayloadLasts ==
  ASSUME NEW CONSTANT payload, NEW CONSTANT asked, HostInv, HostInv', PayloadFor(payload, asked),
         host.clock <= host'.clock, host.installed \subseteq host'.installed
  PROVE  PayloadFor(payload, asked)'
<1>1. payload.at \in Int /\ host.clock \in Int /\ host'.clock \in Int
  BY Numbers DEF PayloadFor, HostInv, Payloads
<1>2. payload.at <= host'.clock
  BY <1>1 DEF PayloadFor
<1>3. payload.installed => payload.month \in host'.installed /\ ~payload.error
  BY DEF PayloadFor
<1> QED BY <1>2, <1>3 DEF PayloadFor

\* The cache's payload lasts, and a request's.
LEMMA CacheLasts ==
  ASSUME CacheInv, HostInv, HostInv', UNCHANGED cache,
         host.clock <= host'.clock, host.installed \subseteq host'.installed
  PROVE  CacheInv'
<1> SUFFICES ASSUME cache # NoCache PROVE CacheInv'
  BY DEF CacheInv
<1>1. PayloadFor(cache.payload, cache.asked)
  BY DEF CacheInv
<1>2. \A payload, asked : PayloadFor(payload, asked) => PayloadFor(payload, asked)'
  BY PayloadLasts
<1>3. PayloadFor(cache.payload, cache.asked)'
  BY <1>1, <1>2
<1>4. cache.at <= host'.clock
  <2>1. cache.at \in Int /\ host.clock \in Int /\ host'.clock \in Int
    BY Numbers DEF CacheInv, HostInv, Caches
  <2>2. cache.at <= host.clock
    BY DEF CacheInv
  <2> QED BY <2>1, <2>2
<1> QED BY <1>3, <1>4 DEF CacheInv

\* No answer, or an error, says nothing.
LEMMA NoValueIsRight ==
  ASSUME answer' \in {NoAnswer, ErrorAnswer}
  PROVE  AnswerInv'
BY Nothing DEF AnswerInv

\* A request that is over, too.
LEMMA IdleIsRight ==
  ASSUME query' = Idle
  PROVE  QueryInv'
BY Nothing DEF QueryInv

\* The answer to a request is judged by its own day, and the payload is of its month.
LEMMA ValueIsRight ==
  ASSUME NEW payload, IInv, query.pc # "idle", PayloadFor(payload, query.asked),
         host.clock - payload.at <= TTL + HardCap,
         answer' = Value(payload), UNCHANGED host
  PROVE  AnswerInv'
<1>1. /\ answer'.kind = "value" /\ answer'.previous = query.previous
      /\ answer'.asked = query.asked /\ answer'.now = query.now /\ answer'.payload = payload
      /\ answer'.installed = (payload.installed \/ Suppressed(payload, query.now))
  BY DEF Value
<1>2. payload \in Payloads
  BY DEF PayloadFor
<1>3. payload.installed \in BOOLEAN /\ Suppressed(payload, query.now) \in BOOLEAN
  BY <1>2 DEF Payloads, Suppressed
<1>4. /\ query.previous \in BOOLEAN /\ query.asked \in Months \cup {NoMonth}
      /\ query.now \in Int /\ query.now \in FirstDay .. host.clock
      /\ query.previous => query.asked = PreviousMonth(query.now)
  BY DEF IInv, QueryInv, Queries
<1>5. answer' \in Answers
  BY <1>2, <1>3, <1>4 DEF Value, Answers
<1>6. PayloadFor(answer.payload, answer.asked)'
  BY <1>1 DEF PayloadFor
<1>7. /\ answer'.now \in FirstDay .. host'.clock
      /\ answer'.previous => answer'.asked = PreviousMonth(answer'.now)
      /\ host'.clock - answer'.payload.at <= TTL + HardCap
  BY <1>1, <1>4
<1>8. answer'.installed = (answer'.payload.installed \/ Suppressed(answer'.payload, answer'.now))
  BY <1>1
<1> QED BY <1>5, <1>6, <1>7, <1>8 DEF AnswerInv, PreviousMonth, Suppressed

-----------------------------------------------------------------------------
\* Export reads the clock: the request's day is today (Export).
LEMMA AskStep ==
  ASSUME IInv, NEW previous \in BOOLEAN, NEW month \in Months \cup {NoMonth},
         Ask(previous, month)
  PROVE  IInv'
<1> DEFINE asked == IF previous THEN PreviousMonth(host.clock) ELSE month
<1>1. host.clock \in DaysSeen /\ host.clock \in Int
  BY Numbers DEF IInv, HostInv
<1>2. asked \in Months \cup {NoMonth}
  BY <1>1, PreviousMonthIsOver
<1>3. query' = [pc |-> "collect", previous |-> previous, asked |-> asked,
                now |-> host.clock, payload |-> NoPayload]
  BY DEF Ask, Idle
<1>4. host.clock \in FirstDay .. host.clock /\ host.clock <= host.clock + HardCap
  BY <1>1, Numbers DEF DaysSeen
<1>5. QueryInv'
  <2>1. query' \in Queries
    BY <1>1, <1>2, <1>3, Nothing DEF Queries
  <2>2. query'.pc = "collect" /\ query'.now = host.clock /\ host'.clock = host.clock
        /\ (query'.previous => query'.asked = PreviousMonth(query'.now))
    BY <1>3 DEF Ask
  <2> QED BY <1>4, <2>1, <2>2 DEF QueryInv, PreviousMonth
<1>6. HostInv' /\ CacheInv'
  BY DEF Ask, IInv, HostInv, CacheInv, PayloadFor
<1>7. AnswerInv'
  BY NoValueIsRight DEF Ask
<1> QED BY <1>5, <1>6, <1>7 DEF IInv

\* The collector's clock is no earlier than Export's (collectLive and the script).
LEMMA CollectStep ==
  ASSUME IInv, NEW error \in BOOLEAN, Collect(error)
  PROVE  IInv'
<1> DEFINE month == IF query.asked = NoMonth THEN MonthOf(host.clock) ELSE query.asked
           installed == ~error /\ month \in host.installed
<1>1. host.clock \in DaysSeen /\ host.clock \in Int /\ query.now \in Int /\ query.now <= host.clock
  BY Numbers DEF IInv, HostInv, QueryInv, Collect, Queries
<1>2. month \in Months
  BY <1>1, MonthOfIsAMonth DEF IInv, QueryInv, Queries, Collect
<1>3. Payload(error) = [month |-> month, at |-> host.clock, error |-> error,
                        installed |-> installed]
  BY DEF Payload
<1>4. installed \in BOOLEAN
  OBVIOUS
<1> HIDE DEF month, installed
<1>5. Payload(error) \in Payloads
  BY <1>1, <1>2, <1>3, <1>4 DEF Payloads
<1>6. /\ Payload(error).month = month /\ Payload(error).at = host.clock
      /\ Payload(error).installed => month \in host.installed /\ ~Payload(error).error
  <2>1. /\ Payload(error).month = month /\ Payload(error).at = host.clock
        /\ Payload(error).error = error /\ Payload(error).installed = installed
    BY <1>3
  <2>2. installed => month \in host.installed /\ ~error
    BY DEF installed
  <2> QED BY <1>4, <2>1, <2>2
<1>7. PayloadFor(Payload(error), query.asked)
  BY <1>1, <1>2, <1>5, <1>6 DEF PayloadFor, month
<1>8. /\ query' \in Queries /\ query'.pc = "store" /\ query'.payload = Payload(error)
      /\ query'.asked = query.asked /\ query'.now = query.now
      /\ query'.previous = query.previous
  BY <1>5 DEF Collect, IInv, QueryInv, Queries
<1>9. QueryInv'
  <2>1. PayloadFor(query.payload, query.asked)'
    BY <1>7, <1>8 DEF PayloadFor, Collect
  <2>2. query'.now <= query'.payload.at
    BY <1>1, <1>6, <1>8
  <2>3. /\ query'.now \in FirstDay .. host'.clock /\ host'.clock <= query'.now + HardCap
        /\ query'.previous => query'.asked = PreviousMonth(query'.now)
    BY <1>8 DEF Collect, IInv, QueryInv
  <2> QED BY <1>8, <2>1, <2>2, <2>3 DEF QueryInv, PreviousMonth
<1>10. HostInv' /\ CacheInv'
  BY DEF Collect, IInv, HostInv, CacheInv, PayloadFor
<1>11. AnswerInv'
  BY NoValueIsRight DEF Collect
<1> QED BY <1>9, <1>10, <1>11 DEF IInv

\* The payload of the request becomes the cache's and the answer's (storeCache).
LEMMA StoreStep ==
  ASSUME IInv, Store
  PROVE  IInv'
<1>1. /\ PayloadFor(query.payload, query.asked) /\ query.now <= query.payload.at
      /\ host.clock <= query.now + HardCap /\ query.now \in Int /\ host.clock \in Int
      /\ query.payload \in Payloads /\ query.asked \in Months \cup {NoMonth}
  BY Numbers DEF IInv, QueryInv, HostInv, Store, Queries
<1>2. query.payload.at \in Int
  BY <1>1 DEF Payloads
<1>3. host.clock - query.payload.at <= HardCap
  BY <1>1, <1>2, Numbers
<1>4. host.clock - query.payload.at <= TTL + HardCap
  BY <1>1, <1>2, <1>3, Numbers
<1>5. CacheInv'
  <2>1. /\ cache' \in Caches /\ cache'.payload = query.payload /\ cache'.asked = query.asked
        /\ cache'.at = host.clock /\ host'.clock = host.clock
    BY <1>1 DEF Store, Caches
  <2>2. PayloadFor(cache.payload, cache.asked)'
    BY <1>1, <2>1 DEF PayloadFor, Store
  <2> QED BY <1>1, <1>3, <2>1, <2>2 DEF CacheInv
<1>6. AnswerInv'
  BY <1>1, <1>4, ValueIsRight DEF Store
<1>7. QueryInv'
  BY IdleIsRight DEF Store
<1>8. HostInv'
  BY DEF Store, IInv, HostInv
<1> QED BY <1>5, <1>6, <1>7, <1>8 DEF IInv

\* A cached payload is of the request's month, and a TTL and a collection old at most.
LEMMA ServeCachedStep ==
  ASSUME IInv, ServeCached
  PROVE  IInv'
<1>1. PayloadFor(cache.payload, query.asked)
  BY DEF IInv, CacheInv, ServeCached, Cached
<1>2. cache.payload.at \in Int /\ cache.at \in Int /\ host.clock \in Int
  BY Numbers DEF IInv, HostInv, CacheInv, Caches, Payloads
<1>3. host.clock - cache.at <= TTL /\ cache.at - cache.payload.at <= HardCap
  BY DEF IInv, CacheInv, ServeCached, Cached
<1>4. host.clock - cache.payload.at <= TTL + HardCap
  BY <1>2, <1>3, Numbers
<1>5. AnswerInv'
  BY <1>1, <1>4, ValueIsRight DEF ServeCached
<1>6. HostInv' /\ CacheInv'
  BY DEF ServeCached, IInv, HostInv, CacheInv, PayloadFor
<1> QED BY <1>5, <1>6, IdleIsRight DEF IInv, ServeCached

\* The clock and the history only go forward.
LEMMA HostStep ==
  ASSUME IInv, HostInv', host.clock <= host'.clock, host.installed \subseteq host'.installed,
         query.pc # "idle" => host'.clock <= query.now + HardCap,
         UNCHANGED <<query, cache>>, answer' = NoAnswer
  PROVE  IInv'
<1>1. CacheInv'
  BY CacheLasts DEF IInv
<1>2. AnswerInv'
  BY NoValueIsRight
<1>3. QueryInv'
  <2>1. host.clock \in Int /\ host'.clock \in Int /\ query.now \in Int /\ FirstDay \in Int
    BY Numbers DEF IInv, HostInv, QueryInv, Queries
  <2>2. query.pc # "idle" => query.now \in FirstDay .. host'.clock
    BY <2>1 DEF IInv, QueryInv
  <2>3. \A payload, asked : PayloadFor(payload, asked) => PayloadFor(payload, asked)'
    BY PayloadLasts DEF IInv
  <2>4. query.pc = "store" => PayloadFor(query.payload, query.asked)'
    BY <2>3 DEF IInv, QueryInv
  <2> QED BY <2>2, <2>4 DEF IInv, QueryInv, PreviousMonth
<1> QED BY <1>1, <1>2, <1>3 DEF IInv

LEMMA TickStep ==
  ASSUME IInv, Tick
  PROVE  IInv'
<1>1. host.clock \in DaysSeen /\ host.clock \in Int /\ host.installed \in SUBSET Months
  BY Numbers DEF IInv, HostInv
<1>2. host' = [clock |-> host.clock + 1, installed |-> host.installed]
  BY DEF Tick, IInv, HostInv
<1>3. host.clock + 1 \in DaysSeen
  BY <1>1, Numbers DEF Tick, DaysSeen
<1>4. HostInv'
  BY <1>1, <1>2, <1>3 DEF HostInv
<1>5. host.clock <= host'.clock /\ host.installed \subseteq host'.installed
  BY <1>1, <1>2
<1>6. query.pc # "idle" => host'.clock <= query.now + HardCap
  BY <1>1, <1>2, Numbers DEF Tick, IInv, QueryInv, Queries
<1> QED BY <1>4, <1>5, <1>6, HostStep DEF Tick

LEMMA InstallStep ==
  ASSUME IInv, NEW m \in Months, Install(m)
  PROVE  IInv'
<1>1. host.clock \in DaysSeen /\ host.clock \in Int /\ host.installed \in SUBSET Months
  BY Numbers DEF IInv, HostInv
<1>2. host' = [clock |-> host.clock, installed |-> host.installed \cup {m}]
  BY DEF Install, IInv, HostInv
<1>3. HostInv'
  BY <1>1, <1>2 DEF HostInv
<1>4. host.clock <= host'.clock /\ host.installed \subseteq host'.installed
  BY <1>1, <1>2
<1>5. query.pc # "idle" => host'.clock <= query.now + HardCap
  BY <1>2 DEF IInv, QueryInv
<1> QED BY <1>3, <1>4, <1>5, HostStep DEF Install

\* Every step keeps the invariant.
LEMMA InvNext == IInv /\ [Next]_vars => IInv'
<1> SUFFICES ASSUME IInv, [Next]_vars PROVE IInv'
  OBVIOUS
<1>1. ASSUME NEW month \in Months \cup {NoMonth}, Ask(FALSE, month) PROVE IInv'
  BY <1>1, AskStep
<1>2. CASE Ask(TRUE, NoMonth)
  BY <1>2, AskStep
<1>3. ASSUME NEW error \in BOOLEAN, Collect(error) PROVE IInv'
  BY <1>3, CollectStep
<1>4. CASE Store
  BY <1>4, StoreStep
<1>5. CASE ServeCached
  BY <1>5, ServeCachedStep
<1>6. CASE Fail
  <2>1. HostInv' /\ CacheInv'
    BY <1>6 DEF Fail, IInv, HostInv, CacheInv, PayloadFor
  <2> QED BY <1>6, <2>1, IdleIsRight, NoValueIsRight DEF Fail, IInv
<1>7. CASE Tick
  BY <1>7, TickStep
<1>8. CASE Restart
  <2>1. HostInv' /\ CacheInv'
    BY <1>8, Nothing DEF Restart, IInv, HostInv, CacheInv
  <2> QED BY <1>8, <2>1, IdleIsRight, NoValueIsRight DEF Restart, IInv
<1>9. ASSUME NEW m \in Months, Install(m) PROVE IInv'
  BY <1>9, InstallStep
<1>10. CASE UNCHANGED vars
  BY <1>10 DEF vars, IInv, HostInv, QueryInv, CacheInv, AnswerInv, PayloadFor, PreviousMonth,
     Suppressed
<1> QED BY <1>1, <1>2, <1>3, <1>4, <1>5, <1>6, <1>7, <1>8, <1>9, <1>10 DEF Next

LEMMA Invariant == Spec => []IInv
<1> QED BY InvInit, InvNext, PTL DEF Spec

-----------------------------------------------------------------------------
\* The state keeps its shapes.
THEOREM TypeCorrect == Spec => []TypeOK
<1>1. IInv => TypeOK
  BY Numbers DEF IInv, HostInv, QueryInv, CacheInv, AnswerInv, TypeOK
<1> QED BY <1>1, Invariant, PTL

\* What the invariant says of an answer.
LEMMA InvAnswers ==
  IInv => /\ InstalledIsJustified /\ MissingIsDue
          /\ PreviousIsReportedAsIs /\ AnswersForItsMonth
<1>1. IInv => InstalledIsJustified
  BY DEF IInv, AnswerInv, PayloadFor, Suppressed, InstalledIsJustified
<1>2. ASSUME IInv, answer.kind = "value", ~answer.installed, ~answer.payload.error
      PROVE  answer.now >= SecondTuesday(answer.payload.month)
  <2>1. ~(answer.now < SecondTuesday(answer.payload.month)) /\ answer.payload.month \in Months
    BY <1>2 DEF IInv, AnswerInv, PayloadFor, Suppressed
  <2>2. SecondTuesday(answer.payload.month) \in Int
    <3>1. MonthStart[answer.payload.month] \in Int
      BY <2>1, MonthsStart
    <3>2. SecondTuesday(answer.payload.month) \in
            MonthStart[answer.payload.month] + 7 .. MonthStart[answer.payload.month] + 13
      BY <2>1, SecondTuesdayIsInTheSecondWeek
    <3> QED BY <3>1, <3>2
  <2>3. answer.now \in Int
    BY <1>2 DEF IInv, AnswerInv, Answers
  <2> QED BY <2>1, <2>2, <2>3
<1>3. IInv => MissingIsDue
  BY <1>2 DEF MissingIsDue
<1>4. ASSUME IInv, answer.kind = "value", answer.previous
      PROVE  /\ answer.payload.month = MonthOf(answer.now) - 1
             /\ answer.installed = answer.payload.installed
  <2>1. /\ answer.asked = PreviousMonth(answer.now) /\ answer.now \in FirstDay .. host.clock
        /\ PayloadFor(answer.payload, answer.asked)
        /\ answer.installed =
             (answer.payload.installed \/ Suppressed(answer.payload, answer.now))
    BY <1>4 DEF IInv, AnswerInv
  <2>2. answer.now \in DaysSeen /\ answer.now \in Int
    <3>1. host.clock \in Int /\ host.clock <= MonthStart[LastMonth + 1] - 1
      BY <1>4, Numbers DEF IInv, HostInv, DaysSeen
    <3> QED BY <2>1, <3>1, Numbers DEF DaysSeen
  <2>3. /\ PreviousMonth(answer.now) \in Months
        /\ SecondTuesday(PreviousMonth(answer.now)) < answer.now
    BY <2>2, PreviousMonthIsOver
  <2>4. answer.payload.month = PreviousMonth(answer.now)
    BY <2>1, <2>3, Numbers DEF PayloadFor
  <2>5. ~(answer.now < SecondTuesday(answer.payload.month))
    <3>1. MonthStart[PreviousMonth(answer.now)] \in Int
      BY <2>3, MonthsStart
    <3>2. SecondTuesday(PreviousMonth(answer.now)) \in Int
      BY <2>3, <3>1, SecondTuesdayIsInTheSecondWeek
    <3> QED BY <2>2, <2>3, <2>4, <3>2
  <2>6. ~Suppressed(answer.payload, answer.now)
    BY <2>5 DEF Suppressed
  <2>7. answer.installed = answer.payload.installed
    <3>1. answer.payload.installed \in BOOLEAN
      BY <2>1 DEF PayloadFor, Payloads
    <3> QED BY <2>1, <2>6, <3>1
  <2> QED BY <2>4, <2>7 DEF PreviousMonth
<1>5. IInv => PreviousIsReportedAsIs
  BY <1>4 DEF PreviousIsReportedAsIs
<1>6. IInv => AnswersForItsMonth
  BY DEF IInv, AnswerInv, PayloadFor, AnswersForItsMonth
<1> QED BY <1>1, <1>3, <1>5, <1>6

\* "Installed" is said only of an update that is installed or not out yet, and never of a
\* broken check (applyReleaseSuppression).
THEOREM InstalledJustified == Spec => []InstalledIsJustified
<1> QED BY InvAnswers, Invariant, PTL

\* Of the current or the previous month, "missing" is said only from the Patch Tuesday of the
\* month that was checked on (applyReleaseSuppression).
THEOREM MissingDue == Spec => []MissingIsDue
<1> QED BY InvAnswers, Invariant, PTL

\* Asked for the previous month, what was detected is what is reported: that month's Patch
\* Tuesday is past, in a month of any length that begins on any weekday (PreviousMonthIsOver).
THEOREM PreviousAsIs == Spec => []PreviousIsReportedAsIs
<1> QED BY InvAnswers, Invariant, PTL

\* An answer is for the month that was asked for, at most a TTL and a collection old
\* (cacheGet keyed by month, loadCached).
THEOREM RightMonth == Spec => []AnswersForItsMonth
<1> QED BY InvAnswers, Invariant, PTL
=============================================================================
