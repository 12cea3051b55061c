---------------------------- MODULE RebootProofs ----------------------------
(***************************************************************************)
(* The needs-reboot checks, for any kernels, any updates and any failures  *)
(* of their sources.  First the comparison of kernels: Newer is the strict *)
(* part of a total preorder of versions, so that what the loop over the    *)
(* installed kernels picks with it is newest, and a kernel newer than the  *)
(* running one is never hidden by the one picked.                          *)
(***************************************************************************)
EXTENDS Reboot, FiniteSetTheorems, TLAPS

\* The least-number principle, from the well-foundedness of strict inclusion: a number
\* stands for the interval up to it.
LEMMA LeastNumber ==
  ASSUME NEW T \in SUBSET Nat, T # {}
  PROVE  \E x \in T : \A y \in T : x <= y
  <1> DEFINE U == {0 .. n : n \in T}
             R == StrictSubsetOrdering(Nat)
             F == FiniteSubsetsOf(Nat)
  <1>1. U \subseteq F
    <2>1. \A n \in Nat : IsFiniteSet(0 .. n) /\ 0 .. n \in SUBSET Nat
      BY FS_Interval
    <2>2. \A n \in Nat : 0 .. n \in F
      BY <2>1 DEF FiniteSubsetsOf
    <2>3. QED
      BY <2>2
  <1>2. U # {}
    OBVIOUS
  <1>3. IsWellFoundedOn(R, F)
    BY FS_StrictSubsetOrderingWellFounded
  <1>4. PICK u \in U : \A v \in U : <<v, u>> \notin R
    <2> HIDE DEF U, R, F
    <2> QED
      BY <1>1, <1>2, <1>3, WFMin
  <1>5. PICK x \in T : u = 0 .. x
    OBVIOUS
  <1>6. ASSUME NEW y \in T, y < x PROVE FALSE
    <2>1. 0 .. y \subseteq 0 .. x /\ 0 .. y \in SUBSET Nat /\ 0 .. x \in SUBSET Nat
      BY <1>6
    <2>2. x \in 0 .. x /\ x \notin 0 .. y
      BY <1>6
    <2>3. <<0 .. y, u>> \in R
      BY <1>5, <2>1, <2>2 DEF StrictSubsetOrdering
    <2>4. QED
      BY <1>4, <2>3
  <1>7. QED
    BY <1>6

LEMMA AtType == \A v \in Version, i \in Nat : At(v, i) \in Token
  <1>1. Zero \in Token
    BY DEF Zero, Token
  <1>2. \A v \in Version : \A i \in DOMAIN v : v[i] \in Token
    <2> HIDE DEF Token
    <2> QED
      BY DEF Version
  <1>3. QED
    BY <1>1, <1>2 DEF At

LEMMA ValueType == \A t \in Token : Value(t) \in Nat
  BY WidthAssumption DEF Token, Value

\* What has not ended differs from zero at most up to the longer of two versions.
LEMMA AtEnd == \A a, b \in Version : \A i \in Nat \ {0} :
                 i > Longer(a, b) => At(a, i) = Zero /\ At(b, i) = Zero
  <1> SUFFICES ASSUME NEW a \in Version, NEW b \in Version, NEW i \in Nat \ {0}, i > Longer(a, b)
               PROVE  At(a, i) = Zero /\ At(b, i) = Zero
    OBVIOUS
  <1>1. Len(a) \in Nat /\ Len(b) \in Nat /\ DOMAIN a = 1 .. Len(a) /\ DOMAIN b = 1 .. Len(b)
    BY DEF Version
  <1>2. i > Len(a) /\ i > Len(b)
    BY <1>1 DEF Longer
  <1>3. QED
    BY <1>1, <1>2 DEF At

LEMMA BelowIsOrder ==
  /\ \A s, t \in Token : ~(Below(s, t) /\ Below(t, s))
  /\ \A s, t, u \in Token : Below(s, t) /\ Below(t, u) => Below(s, u)
  /\ \A s, t, u \in Token : ~Differs(s, t) => (Below(s, u) <=> Below(t, u)) /\ (Below(u, s) <=> Below(u, t))
  /\ \A s, t, u \in Token : ~Differs(s, t) /\ ~Differs(t, u) => ~Differs(s, u)
  /\ \A s, t \in Token : Differs(s, t) <=> Differs(t, s)
  <1>1. \A t \in Token : t.number \in BOOLEAN
    BY DEF Token
  <1>2. QED
    BY <1>1, ValueType DEF Below, Differs

\* Newer, with the bound on the place left out.
NewerAt(a, b, i) ==
  /\ Below(At(b, i), At(a, i))
  /\ \A j \in 1 .. i - 1 : ~Differs(At(a, j), At(b, j))

LEMMA NewerSomewhere ==
  \A a, b \in Version : Newer(a, b) <=> \E i \in Nat \ {0} : NewerAt(a, b, i)
  <1> SUFFICES ASSUME NEW a \in Version, NEW b \in Version
               PROVE  Newer(a, b) <=> \E i \in Nat \ {0} : NewerAt(a, b, i)
    OBVIOUS
  <1>1. Longer(a, b) \in Nat
    BY DEF Longer, Version
  <1>2. ASSUME NEW i \in Nat \ {0}, NewerAt(a, b, i) PROVE i <= Longer(a, b)
    <2>1. CASE i > Longer(a, b)
      <3>1. At(a, i) = Zero /\ At(b, i) = Zero
        BY <2>1, AtEnd
      <3>2. ~Below(Zero, Zero)
        <4>1. Zero \in Token
          BY DEF Zero, Token
        <4>2. QED
          BY <4>1, BelowIsOrder
      <3>3. QED
        BY <1>2, <3>1, <3>2 DEF NewerAt
    <2>2. QED
      BY <1>1, <2>1
  <1>3. QED
    BY <1>1, <1>2 DEF Newer, NewerAt

\* No version is newer than one that is newer than it.
THEOREM NewerIsAsymmetric == \A a, b \in Version : Newer(a, b) => ~Newer(b, a)
  <1> SUFFICES ASSUME NEW a \in Version, NEW b \in Version,
                      NEW i \in Nat \ {0}, NewerAt(a, b, i),
                      NEW k \in Nat \ {0}, NewerAt(b, a, k)
               PROVE  FALSE
    BY NewerSomewhere
  <1>1. \A n \in Nat : At(a, n) \in Token /\ At(b, n) \in Token
    BY AtType
  <1>2. CASE i = k
    BY <1>1, <1>2, BelowIsOrder DEF NewerAt
  <1>3. CASE i < k
    BY <1>1, <1>3 DEF NewerAt, Differs
  <1>4. CASE k < i
    BY <1>1, <1>4 DEF NewerAt, Differs
  <1>5. QED
    BY <1>2, <1>3, <1>4

\* The comparison of kernels is a weak order: with a newer than c, any b is older than a
\* or newer than c (compareVersions, 283-338).
THEOREM NewerIsWeakOrder ==
  \A a, b, c \in Version : Newer(a, c) => Newer(a, b) \/ Newer(b, c)
  <1> SUFFICES ASSUME NEW a \in Version, NEW b \in Version, NEW c \in Version,
                      NEW i \in Nat \ {0}, NewerAt(a, c, i)
               PROVE  Newer(a, b) \/ Newer(b, c)
    BY NewerSomewhere
  <1>1. \A n \in Nat : At(a, n) \in Token /\ At(b, n) \in Token /\ At(c, n) \in Token
    BY AtType
  <1> DEFINE T == {n \in 1 .. i : Differs(At(a, n), At(b, n)) \/ Differs(At(b, n), At(c, n))}
  <1>2. i \in T
    <2>1. Below(At(c, i), At(a, i))
      BY DEF NewerAt
    <2>2. Differs(At(a, i), At(c, i))
      BY <2>1 DEF Differs
    <2>3. QED
      BY <1>1, <2>2, BelowIsOrder
  <1>3. PICK m \in T : \A n \in T : m <= n
    <2>1. T \in SUBSET Nat /\ T # {}
      BY <1>2
    <2> HIDE DEF T
    <2> QED
      BY <2>1, LeastNumber
  <1>4. m \in Nat \ {0} /\ m <= i
    BY <1>3
  <1>5. \A n \in 1 .. m - 1 : ~Differs(At(a, n), At(b, n)) /\ ~Differs(At(b, n), At(c, n))
    BY <1>3, <1>4
  <1>6. Below(At(b, m), At(a, m)) => NewerAt(a, b, m)
    BY <1>5 DEF NewerAt
  <1>7. Below(At(c, m), At(b, m)) => NewerAt(b, c, m)
    BY <1>5 DEF NewerAt
  <1>8. Below(At(b, m), At(a, m)) \/ Below(At(c, m), At(b, m))
    <2>1. CASE m = i
      <3>1. Below(At(c, m), At(a, m))
        BY <2>1 DEF NewerAt
      <3>2. QED
        BY <1>1, <1>3, <1>4, <3>1, BelowIsOrder DEF Differs
    <2>2. CASE m < i
      <3>1. ~Differs(At(a, m), At(c, m))
        BY <1>4, <2>2 DEF NewerAt
      <3>2. Differs(At(a, m), At(b, m)) \/ Differs(At(b, m), At(c, m))
        BY <1>3
      <3>3. QED
        BY <1>1, <1>4, <3>1, <3>2, BelowIsOrder DEF Differs
    <2>3. QED
      BY <1>4, <2>1, <2>2
  <1>9. QED
    BY <1>4, <1>6, <1>7, <1>8, NewerSomewhere

\* What the loop picks hides no kernel that is newer than another one.
THEOREM HighestHidesNothing ==
  ASSUME NEW versions \in SUBSET Version, NEW v \in versions, IsHighest(v, versions),
         NEW c \in Version, NEW w \in versions, Newer(w, c)
  PROVE  Newer(v, c)
  BY NewerIsWeakOrder DEF IsHighest

-----------------------------------------------------------------------------
\* The Linux check.

LEMMA StandingType == TypeOK => Standing \subseteq Signals
  BY DEF TypeOK, Standing, Signals, Tools

LEMMA RebootInit == Init => RebootInvariant
  BY DEF Init, RebootInvariant, TypeOK, Signals, Tools, Trusted

\* What happens to the host leaves the check alone, and the histories enclose it.
LEMMA HostStep == RebootInvariant /\ (Update \/ KernelPackages) => RebootInvariant'
  <1> SUFFICES ASSUME RebootInvariant, Update \/ KernelPackages PROVE RebootInvariant'
    OBVIOUS
  <1>1. /\ UNCHANGED <<running, pc, pending, failed, heard, answer, chosenBy>> /\ Watch
        /\ flagged' \in BOOLEAN /\ advised' \subseteq Tools /\ installed' \subseteq Kernels
    BY DEF Update, KernelPackages, check, host, RebootInvariant, TypeOK
  <1>2. Standing' \subseteq Signals
    BY <1>1 DEF Standing, Signals, Tools
  <1>3. TypeOK'
    BY <1>1, <1>2 DEF Watch, past, RebootInvariant, TypeOK
  <1>4. pc = "idle" => UNCHANGED past
    BY <1>1 DEF Watch
  <1>5. pc # "idle" => seen' = seen \cup Standing' /\ steady' = steady \cap Standing'
    BY <1>1 DEF Watch
  <1>6. QED
    BY <1>1, <1>3, <1>4, <1>5 DEF past, RebootInvariant, Trusted

LEMMA RebootStep == RebootInvariant /\ Reboot => RebootInvariant'
  BY DEF Reboot, check, past, RebootInvariant, TypeOK

LEMMA BeginStep == RebootInvariant /\ Begin => RebootInvariant'
  BY StandingType DEF Begin, host, RebootInvariant, TypeOK, Trusted, Standing

\* A step of the check to its next source leaves the host and the histories of it alone.
LEMMA SameStanding == UNCHANGED host => Standing' = Standing
  BY DEF host, Standing

\* A source that is heard, or is not.
LEMMA SourceStep ==
  ASSUME RebootInvariant, File \/ NeedsRestarting \/ Zypper \/ Fallback \/ NoKernelCheck
  PROVE  RebootInvariant'
  <1>1. /\ pc # "idle" /\ pc' \in {"restarting", "zypper", "fallback", "kernel", "result"}
        /\ UNCHANGED <<host, answer, past, chosenBy>>
        /\ pc \notin {"idle", "result"}
    BY DEF File, NeedsRestarting, Zypper, Fallback, NoKernelCheck, GoTo
  <1>2. \/ \E source \in Tools \cup {"file"} : Verdict(source)
        \/ NoVerdict
        \/ \E source \in Tools : Fails(source)
    BY DEF File, NeedsRestarting, Zypper, Fallback, NoKernelCheck, Tools
  <1>3. Standing' = Standing
    BY <1>1, SameStanding
  <1>4. CASE NoVerdict
    BY <1>1, <1>3, <1>4 DEF NoVerdict, check, host, past, RebootInvariant, TypeOK, Trusted
  <1>5. CASE \E source \in Tools : Fails(source)
    BY <1>1, <1>3, <1>5 DEF Fails, host, past, RebootInvariant, TypeOK, Trusted
  <1>6. CASE \E source \in Tools \cup {"file"} : Verdict(source)
    <2>1. PICK source \in Tools \cup {"file"} : Verdict(source)
      BY <1>6
    <2>2. source \in Signals /\ source # "kernel"
      BY DEF Signals, Tools
    <2>3. pending \in BOOLEAN /\ pending' \in BOOLEAN
      BY <2>1 DEF Verdict, RebootInvariant, TypeOK
    <2>4. TypeOK'
      BY <1>1, <2>1, <2>2, <2>3 DEF Verdict, host, past, RebootInvariant, TypeOK
    <2>5. pending' => seen # {}
      BY <1>1, <2>1 DEF Verdict, RebootInvariant
    <2>6. ~pending' => steady \cap Trusted = {} /\ source \notin steady
      BY <1>1, <2>1 DEF Verdict, RebootInvariant
    <2>7. Trusted' \subseteq Trusted \cup {source}
      BY <1>1, <2>1 DEF Verdict, Trusted
    <2>8. ~pending' => steady' \cap Trusted' = {}
      BY <1>1, <2>6, <2>7 DEF past
    <2>9. "kernel" \notin heard'
      BY <1>1, <2>1, <2>2 DEF Verdict, RebootInvariant
    <2>10. QED
      BY <1>1, <1>3, <2>4, <2>5, <2>8, <2>9 DEF past, RebootInvariant
  <1>7. QED
    BY <1>2, <1>4, <1>5, <1>6

\* The kernels: what sort(1) picked is not trusted, and what the loop picked hides none.
LEMMA KernelStep == RebootInvariant /\ KernelCheck => RebootInvariant'
  <1> SUFFICES ASSUME RebootInvariant, KernelCheck PROVE RebootInvariant'
    OBVIOUS
  <1>1. /\ pc = "kernel" /\ ~pending /\ pc' = "result" /\ heard' = heard \cup {"kernel"}
        /\ UNCHANGED <<host, answer, past, failed>>
    BY DEF KernelCheck, GoTo
  <1>2. PICK latest \in installed :
          /\ \/ chosenBy' = "sort" /\ IsSortedLast(latest, installed)
             \/ chosenBy' = "loop" /\ IsHighest(latest, installed)
          /\ pending' = Newer(latest, running)
    BY DEF KernelCheck, KernelNewer
  <1>3. pending' \in BOOLEAN
    BY <1>2 DEF Newer
  <1>4. TypeOK'
    BY <1>1, <1>2, <1>3 DEF host, past, RebootInvariant, TypeOK, Signals
  <1>5. pending' => seen # {}
    BY <1>1, <1>2 DEF RebootInvariant, Standing
  <1>6. steady \cap (heard \ {"kernel"}) = {}
    BY <1>1 DEF RebootInvariant, Trusted
  <1>7. ASSUME ~pending', chosenBy' = "loop" PROVE "kernel" \notin steady
    <2>1. installed \in SUBSET Version /\ running \in Version
      BY KernelsAssumption DEF RebootInvariant, TypeOK
    <2>2. \A kernel \in installed : ~Newer(kernel, running)
      BY <1>2, <1>7, <2>1, HighestHidesNothing
    <2>3. "kernel" \notin Standing
      BY <2>2 DEF Standing, RebootInvariant, TypeOK, Tools
    <2>4. QED
      BY <1>1, <2>3 DEF RebootInvariant
  <1>8. ~pending' => steady' \cap Trusted' = {}
    BY <1>1, <1>2, <1>6, <1>7 DEF past, Trusted
  <1>9. QED
    BY <1>1, <1>4, <1>5, <1>8, SameStanding DEF past, RebootInvariant

LEMMA ResultStep == RebootInvariant /\ Result => RebootInvariant'
  BY DEF Result, host, check, past, RebootInvariant, TypeOK

LEMMA RebootNext == RebootInvariant /\ [Next]_vars => RebootInvariant'
  <1>1. RebootInvariant /\ UNCHANGED vars => RebootInvariant'
    BY SameStanding DEF vars, host, check, past, RebootInvariant, TypeOK, Trusted
  <1>2. QED
    BY <1>1, HostStep, RebootStep, BeginStep, SourceStep, KernelStep, ResultStep DEF Next

\* What the sources that were heard said, and what stood, agree (183-264).
THEOREM RebootInvariantHolds == Spec => []RebootInvariant
  BY RebootInit, RebootNext, PTL DEF Spec

\* What an answer promises, while it stands.
Answered == AlarmHasCause /\ NoSignalMissed

LEMMA AnsweredStep == RebootInvariant /\ Answered /\ [Next]_vars => Answered'
  <1> SUFFICES ASSUME RebootInvariant, Answered, [Next]_vars PROVE Answered'
    OBVIOUS
  <1>1. CASE Result
    BY <1>1 DEF Result, check, past, RebootInvariant, TypeOK, Answered, AlarmHasCause, NoSignalMissed, Trusted
  <1>2. CASE Update \/ KernelPackages
    <2>1. UNCHANGED <<pc, failed, heard, answer, chosenBy>> /\ Watch
      BY <1>2 DEF Update, KernelPackages, check
    <2>2. CASE pc = "idle"
      BY <2>1, <2>2 DEF Watch, past, Answered, AlarmHasCause, NoSignalMissed, Trusted
    <2>3. CASE pc # "idle"
      BY <2>1, <2>3 DEF RebootInvariant, Answered, AlarmHasCause, NoSignalMissed
    <2>4. QED
      BY <2>2, <2>3
  <1>3. CASE Reboot \/ Begin
    BY <1>3 DEF Reboot, Begin, Answered, AlarmHasCause, NoSignalMissed
  <1>4. CASE File \/ NeedsRestarting \/ Zypper \/ Fallback \/ NoKernelCheck \/ KernelCheck
    <2>1. pc # "idle" /\ answer' = answer
      BY <1>4 DEF File, NeedsRestarting, Zypper, Fallback, NoKernelCheck, KernelCheck, GoTo
    <2>2. QED
      BY <2>1 DEF RebootInvariant, Answered, AlarmHasCause, NoSignalMissed
  <1>5. CASE UNCHANGED vars
    BY <1>5 DEF vars, check, past, Answered, AlarmHasCause, NoSignalMissed, Trusted
  <1>6. QED
    BY <1>1, <1>2, <1>3, <1>4, <1>5 DEF Next

LEMMA AlwaysAnswered == Spec => []Answered
  <1>1. Init => Answered
    BY DEF Init, Answered, AlarmHasCause, NoSignalMissed
  <1>2. QED
    BY <1>1, AnsweredStep, RebootInvariantHolds, PTL DEF Spec

\* "1" is answered only if a signal stood while the check went on (183-264).
THEOREM AlarmsHaveCauses == Spec => []AlarmHasCause
  <1>1. Answered => AlarmHasCause
    BY DEF Answered
  <1>2. QED
    BY <1>1, AlwaysAnswered, PTL

\* No failure hides a signal that another source reported (178-182, 161-172).
THEOREM SignalsAreNotMissed == Spec => []NoSignalMissed
  <1>1. Answered => NoSignalMissed
    BY DEF Answered
  <1>2. QED
    BY <1>1, AlwaysAnswered, PTL

-----------------------------------------------------------------------------
\* The Windows check.

LEMMA WindowsInit == Windows!Init => Windows!WindowsInvariant
  BY DEF Windows!Init, Windows!WindowsInvariant, Windows!TypeOK, Windows!Signals

\* The host, and the start of a check.
LEMMA WindowsHostStep ==
  ASSUME Windows!WindowsInvariant, Windows!Update \/ Windows!Reboot \/ Windows!Begin
  PROVE  Windows!WindowsInvariant'
  <1>1. CASE Windows!Update
    <2>1. /\ UNCHANGED <<winPc, winReasons, winAnswer, winHeard, winGuessed>>
          /\ winStanding' \subseteq Windows!Signals
      BY <1>1 DEF Windows!Update, Windows!WindowsInvariant, Windows!TypeOK
    <2>2. CASE winPc = "idle"
      BY <1>1, <2>1, <2>2 DEF Windows!Update, Windows!WindowsInvariant, Windows!TypeOK
    <2>3. CASE winPc # "idle"
      <3>1. winSeen' = winSeen \cup winStanding' /\ winSteady' = winSteady \cap winStanding'
        BY <1>1, <2>3 DEF Windows!Update
      <3>2. Windows!TypeOK'
        BY <2>1, <3>1 DEF Windows!WindowsInvariant, Windows!TypeOK
      <3>3. QED
        BY <2>1, <2>3, <3>1, <3>2 DEF Windows!WindowsInvariant
    <2>4. QED
      BY <2>2, <2>3
  <1>2. CASE Windows!Reboot
    BY <1>2 DEF Windows!Reboot, Windows!past, Windows!WindowsInvariant, Windows!TypeOK
  <1>3. CASE Windows!Begin
    BY <1>3 DEF Windows!Begin, Windows!Before, Windows!WindowsInvariant, Windows!TypeOK,
                Windows!Signals, Windows!Registry, Windows!Keys
  <1>4. QED
    BY <1>1, <1>2, <1>3

\* The order in which the sources are asked: each is asked after those before it.
LEMMA WindowsOrder ==
  /\ \A source \in Windows!Registry :
       Windows!Before[Windows!Following[source]] = Windows!Before[source] \cup {source}
  /\ \A source \in Windows!Registry : Windows!Following[source] \in Windows!Signals
  /\ Windows!Before["result"] = Windows!Before["sccm"]
  BY DEF Windows!Before, Windows!Following, Windows!Registry, Windows!Keys, Windows!Values, Windows!Signals

\* A source of the registry that can be read.
LEMMA WindowsReadStep ==
  ASSUME Windows!WindowsInvariant, Windows!ReadKey \/ Windows!ReadValue
  PROVE  Windows!WindowsInvariant'
  <1>1. /\ winPc \in Windows!Registry /\ winPc \in Windows!Signals /\ winPc # "idle"
        /\ winReasons' = winReasons \cup ({winPc} \cap winStanding)
        /\ winHeard' = winHeard \cup {winPc}
        /\ UNCHANGED <<winStanding, winAnswer, winGuessed, winSeen, winSteady>>
    BY DEF Windows!ReadKey, Windows!ReadValue, Windows!Says,
           Windows!Signals, Windows!Registry, Windows!Keys, Windows!Values
  <1>2. winPc' = Windows!Following[winPc] \/ (winReasons' # {} /\ winPc' = "sccm")
    BY DEF Windows!ReadKey, Windows!ReadValue, Windows!AfterValue
  <1>3. winPc' \in Windows!Signals
    <2>1. "sccm" \in Windows!Signals
      BY DEF Windows!Signals
    <2>2. QED
      BY <1>1, <1>2, <2>1, WindowsOrder
  <1>4. Windows!TypeOK'
    BY <1>1, <1>3 DEF Windows!WindowsInvariant, Windows!TypeOK
  <1>5. winReasons' = {} => Windows!Before[winPc'] \subseteq winHeard'
    BY <1>1, <1>2, WindowsOrder DEF Windows!WindowsInvariant
  <1>6. QED
    BY <1>1, <1>4, <1>5 DEF Windows!WindowsInvariant

\* A source that cannot be read, or is not asked.
LEMMA WindowsOtherStep ==
  ASSUME Windows!WindowsInvariant,
         Windows!Undecoded \/ Windows!CannotRead \/ Windows!NoSCCM \/ Windows!AskSCCM \/ Windows!Result
  PROVE  Windows!WindowsInvariant'
  <1>1. CASE Windows!Undecoded
    <2>1. /\ winPc \in Windows!Registry /\ winPc # "idle" /\ winPc \in Windows!Signals
          /\ winReasons' = winReasons \cup {winPc} /\ winGuessed'
          /\ winGuessed' \in BOOLEAN
          /\ UNCHANGED <<winStanding, winAnswer, winHeard, winSeen, winSteady>>
      BY <1>1 DEF Windows!Undecoded, Windows!Signals, Windows!Registry, Windows!Values
    <2>2. winPc' \in Windows!Signals
      BY <1>1, <2>1, WindowsOrder DEF Windows!Undecoded, Windows!AfterValue, Windows!Signals
    <2>3. Windows!TypeOK'
      BY <2>1, <2>2 DEF Windows!WindowsInvariant, Windows!TypeOK
    <2>4. QED
      BY <2>1, <2>3 DEF Windows!WindowsInvariant
  <1>2. CASE Windows!CannotRead
    BY <1>2 DEF Windows!CannotRead, Windows!past, Windows!WindowsInvariant, Windows!TypeOK
  <1>3. CASE Windows!NoSCCM
    BY <1>3, WindowsOrder DEF Windows!NoSCCM, Windows!past, Windows!WindowsInvariant, Windows!TypeOK
  <1>4. CASE Windows!AskSCCM
    <2>1. /\ winPc = "sccm" /\ winPc' = "result"
          /\ winReasons' = winReasons \cup ({"sccm"} \cap winStanding)
          /\ winHeard' = winHeard \cup {"sccm"}
          /\ UNCHANGED <<winStanding, winAnswer, winGuessed, winSeen, winSteady>>
      BY <1>4 DEF Windows!AskSCCM, Windows!Says
    <2>2. Windows!TypeOK'
      BY <2>1 DEF Windows!WindowsInvariant, Windows!TypeOK, Windows!Signals
    <2>3. QED
      BY <2>1, <2>2, WindowsOrder DEF Windows!WindowsInvariant
  <1>5. CASE Windows!Result
    BY <1>5 DEF Windows!Result, Windows!past, Windows!WindowsInvariant, Windows!TypeOK
  <1>6. QED
    BY <1>1, <1>2, <1>3, <1>4, <1>5

LEMMA WindowsNext ==
  Windows!WindowsInvariant /\ [Windows!Next]_(Windows!vars) => Windows!WindowsInvariant'
  <1>1. Windows!WindowsInvariant /\ UNCHANGED Windows!vars => Windows!WindowsInvariant'
    BY DEF Windows!vars, Windows!past, Windows!WindowsInvariant, Windows!TypeOK
  <1>2. QED
    BY <1>1, WindowsHostStep, WindowsReadStep, WindowsOtherStep DEF Windows!Next

\* What an answer of the Windows check promises, while it stands.
WindowsAnswered == Windows!AlarmHasCause /\ Windows!ZeroIsInformed

LEMMA WindowsAnsweredStep ==
  Windows!WindowsInvariant /\ WindowsAnswered /\ [Windows!Next]_(Windows!vars) => WindowsAnswered'
  <1> SUFFICES ASSUME Windows!WindowsInvariant, WindowsAnswered, [Windows!Next]_(Windows!vars)
               PROVE  WindowsAnswered'
    OBVIOUS
  <1>1. CASE Windows!Result
    <2>1. winPc = "result" /\ winPc # "idle"
          /\ winAnswer' = (IF winReasons # {} THEN "1" ELSE "0")
          /\ UNCHANGED <<winReasons, winHeard, winGuessed, winSeen, winSteady>>
      BY <1>1 DEF Windows!Result, Windows!past
    <2>2. Windows!AlarmHasCause'
      BY <2>1 DEF Windows!WindowsInvariant, Windows!AlarmHasCause
    <2>3. Windows!Before["result"] = Windows!Registry
      BY DEF Windows!Before
    <2>4. Windows!ZeroIsInformed'
      BY <2>1, <2>3 DEF Windows!WindowsInvariant, Windows!ZeroIsInformed, Windows!Registry
    <2>5. QED
      BY <2>2, <2>4 DEF WindowsAnswered
  <1>2. CASE (Windows!Update /\ winPc = "idle") \/ UNCHANGED Windows!vars
    BY <1>2 DEF Windows!Update, Windows!vars, Windows!past, WindowsAnswered,
                Windows!AlarmHasCause, Windows!ZeroIsInformed, Windows!Registry
  <1>3. CASE Windows!Update /\ winPc # "idle"
    BY <1>3 DEF Windows!Update, Windows!WindowsInvariant, WindowsAnswered,
                Windows!AlarmHasCause, Windows!ZeroIsInformed
  <1>4. CASE Windows!Reboot \/ Windows!Begin \/ Windows!CannotRead
    BY <1>4 DEF Windows!Reboot, Windows!Begin, Windows!CannotRead, WindowsAnswered,
                Windows!AlarmHasCause, Windows!ZeroIsInformed
  <1>5. CASE Windows!ReadKey \/ Windows!ReadValue \/ Windows!Undecoded \/ Windows!NoSCCM \/ Windows!AskSCCM
    <2>1. winPc # "idle" /\ winAnswer' = winAnswer
      BY <1>5 DEF Windows!ReadKey, Windows!ReadValue, Windows!Undecoded, Windows!NoSCCM,
                  Windows!AskSCCM, Windows!Keys, Windows!Values
    <2>2. QED
      BY <2>1 DEF Windows!WindowsInvariant, WindowsAnswered, Windows!AlarmHasCause, Windows!ZeroIsInformed
  <1>6. QED
    BY <1>1, <1>2, <1>3, <1>4, <1>5 DEF Windows!Next

\* Each check goes on as if the other were not there.
LEMMA ChecksAreApart == HostSpec => Spec /\ Windows!Spec
  <1>1. HostInit => Init /\ Windows!Init
    BY DEF HostInit
  <1>2. [HostNext]_<<os, vars, winVars>> => [Next]_vars /\ [Windows!Next]_(Windows!vars)
    BY DEF HostNext, winVars, Windows!vars, Windows!past
  <1>3. QED
    BY <1>1, <1>2, PTL DEF HostSpec, Spec, Windows!Spec

LEMMA AlwaysWindowsAnswered == HostSpec => [](Windows!WindowsInvariant /\ WindowsAnswered)
  <1>1. Windows!Init => WindowsAnswered
    BY DEF Windows!Init, WindowsAnswered, Windows!AlarmHasCause, Windows!ZeroIsInformed
  <1>2. QED
    BY <1>1, WindowsInit, WindowsNext, WindowsAnsweredStep, ChecksAreApart, PTL DEF Windows!Spec

\* The Windows check answers "1" only if a signal stood while it went on, or a value could
\* not be decoded (162-213, 272-327).
THEOREM WindowsAlarmsHaveCauses == HostSpec => []WindowsAlarmHasCause
  <1>1. Windows!WindowsInvariant /\ WindowsAnswered => WindowsAlarmHasCause
    BY DEF WindowsAnswered, WindowsAlarmHasCause
  <1>2. QED
    BY <1>1, AlwaysWindowsAnswered, PTL

\* The Windows check answers "0" only after the whole registry was read, and if nothing that
\* was heard stood all the time (139-145, 162-213).
THEOREM WindowsZerosAreInformed == HostSpec => []WindowsZeroIsInformed
  <1>1. WindowsAnswered => WindowsZeroIsInformed
    BY DEF WindowsAnswered, WindowsZeroIsInformed
  <1>2. QED
    BY <1>1, AlwaysWindowsAnswered, PTL
=============================================================================
