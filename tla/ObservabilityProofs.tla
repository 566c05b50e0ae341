------------------------ MODULE ObservabilityProofs ------------------------
(***************************************************************************)
(* Proofs about the observability layer: a run's teardown, interrupts and  *)
(* crash report (RunLifecycle), the dispatch of log records (LogDispatch), *)
(* the levels of log categories (LogLevels), and the spans, their sinks    *)
(* and the watchdog (SpanMonitor).                                         *)
(***************************************************************************)
EXTENDS LogLevels, LogDispatch, RunLifecycle, SpanMonitor, FiniteSetTheorems, FunctionTheorems,
        SequenceTheorems, NaturalsInduction, TLAPS

-----------------------------------------------------------------------------
(* A run. *)

\* crashPc values of a thread that is past test_and_set and owns the report.
Reporting == {"open", "threads", "ring", "counters", "write"}

RunShape ==
  /\ phase \in {"start", "signal", "monitor", "command", "join", "restore", "forget", "report", "over"}
  /\ onSignal \in [RunThreads -> {"none", "load", "use", "test"}]
  /\ interrupts \in Nat
  /\ crashed \subseteq RunThreads
  /\ crashPc \in [RunThreads -> Reporting \cup {"none", "enter", "raise", "dead"}]

\* finish() tears down in the order that keeps the handlers safe: the monitor
\* is gone before the signal is restored, and while a handler runs anywhere the
\* handler is installed, its pointer set and its thread running.
TearDown ==
  /\ phase \in {"start", "signal", "monitor"} => watcher = "none"
  /\ phase \in {"restore", "forget", "report", "over"} => watcher # "running"
  /\ phase \in {"start", "signal", "forget", "report", "over"} =>
       /\ disposition = "default"
       /\ \A t \in RunThreads : onSignal[t] = "none"
  /\ phase \in {"monitor", "command", "join", "restore"} => disposition = "onInterrupt"
  /\ phase \notin {"start", "report", "over"} => pointer
  /\ phase # "over" => jobAlive
  /\ onSignal[Watcher] # "none" => watcher = "running"

InterruptsCounted ==
  /\ process # "exit without job"
  /\ interrupts >= 3 /\ process = "alive" => \E t \in RunThreads : onSignal[t] = "test"
  /\ process = "exit" => interrupts >= 3
  /\ process = "killed" => phase \in {"start", "signal", "forget", "report"}

\* One thread owns the report, and an unfinished one is still being written.
OneReporter ==
  /\ \A t \in RunThreads : crashPc[t] # "none" => t \in crashed
  /\ \A t \in RunThreads : crashPc[t] \in Reporting => writing
  /\ \A t, u \in RunThreads : crashPc[t] \in Reporting /\ crashPc[u] \in Reporting => t = u
  /\ report = "open" => \E t \in RunThreads : crashPc[t] \in Reporting \ {"open"}
  /\ process = "crashed" => \E t \in RunThreads : crashPc[t] = "dead"

RunInv == RunShape /\ TearDown /\ InterruptsCounted /\ OneReporter

LEMMA RunInitInv == RunInit => RunInv
BY DEF RunInit, RunInv, RunShape, TearDown, InterruptsCounted, OneReporter, RunThreads, Main,
       Watcher, Reporting

LEMMA MainStepInv ==
  ASSUME RunInv, MainNext
  PROVE  RunInv'
<1> USE DEF RunInv, RunShape, TearDown, InterruptsCounted, OneReporter, MainStep, Running,
            RunThreads, Main, Watcher, interruptVars, crashVars, lockVars
<1>1. CASE InstallPointer BY <1>1 DEF InstallPointer
<1>2. CASE InstallSignal BY <1>2 DEF InstallSignal
<1>3. CASE StartMonitor BY <1>3 DEF StartMonitor
<1>4. CASE FinishCommand BY <1>4 DEF FinishCommand
<1>5. CASE JoinMonitor BY <1>5 DEF JoinMonitor
<1>6. CASE RestoreSignal BY <1>6 DEF RestoreSignal
<1>7. CASE ForgetPointer BY <1>7 DEF ForgetPointer
<1>8. CASE DestroyContext BY <1>8 DEF DestroyContext
<1> QED BY <1>1, <1>2, <1>3, <1>4, <1>5, <1>6, <1>7, <1>8 DEF MainNext

LEMMA ReportStepInv ==
  ASSUME RunInv, NEW t \in RunThreads,
         \/ Crash(t) \/ ReportEnter(t) \/ ReportOpen(t) \/ ReportThreads(t) \/ ReportLog(t)
         \/ ReportCounters(t) \/ ReportWrite(t) \/ Reraise(t)
  PROVE  RunInv'
<1> USE DEF RunInv, RunShape, TearDown, InterruptsCounted, OneReporter, CrashStep, Running,
            interruptVars, crashVars, lockVars, Reporting
<1>1. CASE Crash(t) BY <1>1 DEF Crash
<1>2. CASE ReportEnter(t) BY <1>2 DEF ReportEnter
<1>3. CASE ReportOpen(t) BY <1>3, ZenonT(60) DEF ReportOpen
<1>4. CASE ReportThreads(t) BY <1>4 DEF ReportThreads
<1>5. CASE ReportLog(t) BY <1>5 DEF ReportLog
<1>6. CASE ReportCounters(t) BY <1>6 DEF ReportCounters
<1>7. CASE ReportWrite(t) BY <1>7 DEF ReportWrite
<1>8. CASE Reraise(t) BY <1>8 DEF Reraise
<1> QED BY <1>1, <1>2, <1>3, <1>4, <1>5, <1>6, <1>7, <1>8

LEMMA RunNextInv == RunInv /\ [RunNext]_runVars => RunInv'
<1> SUFFICES ASSUME RunInv, [RunNext]_runVars PROVE RunInv'
  OBVIOUS
<1> USE DEF RunInv, RunShape, TearDown, InterruptsCounted, OneReporter, Running,
            interruptVars, crashVars, lockVars
<1>1. CASE UNCHANGED runVars BY <1>1 DEF runVars
<1>2. ASSUME NEW t \in RunThreads, DeliverInterrupt(t) PROVE RunInv'
  BY <1>2, ZenonT(60) DEF DeliverInterrupt, RunThreads, Main, Watcher
<1>3. ASSUME NEW t \in RunThreads, OnInterruptLoad(t) PROVE RunInv'
  BY <1>3, ZenonT(60) DEF OnInterruptLoad, RunThreads, Main, Watcher
<1>4. ASSUME NEW t \in RunThreads, OnInterruptCount(t) PROVE RunInv'
  <2>1. interrupts' \in Nat /\ onSignal'[t] = "test" BY <1>4 DEF OnInterruptCount
  <2>2. /\ onSignal' \in [RunThreads -> {"none", "load", "use", "test"}]
        /\ \A u \in RunThreads : onSignal'[u] # "none" => onSignal[u] # "none"
    BY <1>4, ZenonT(60) DEF OnInterruptCount
  <2> QED BY <1>4, <2>1, <2>2 DEF OnInterruptCount, RunThreads, Main, Watcher
<1>8. ASSUME NEW t \in RunThreads, OnInterruptTest(t) PROVE RunInv'
  <2>1. onSignal[t] = "test" BY <1>8 DEF OnInterruptTest
  <2>2. CASE interrupts >= 3
    BY <1>8, <2>2 DEF OnInterruptTest
  <2>3. CASE ~(interrupts >= 3)
    BY <1>8, <2>1, <2>3 DEF OnInterruptTest, RunThreads, Main, Watcher
  <2> QED BY <2>2, <2>3
<1>5. ASSUME NEW t \in RunThreads, NEW l \in Locks, Lock(t, l) \/ Unlock(t, l) PROVE RunInv'
  <2>1. UNCHANGED <<phase, watcher, stopFlag, jobAlive, interruptVars, crashVars, process>>
    BY <1>5 DEF Lock, Unlock
  <2> QED BY <2>1
<1>6. CASE MonitorExits BY <1>6 DEF MonitorExits, RunThreads, Main, Watcher
<1> HIDE DEF RunInv
<1>7. ASSUME NEW t \in RunThreads, ThreadStep(t) PROVE RunInv'
  BY <1>3, <1>4, <1>5, <1>6, <1>7, <1>8, ReportStepInv DEF ThreadStep
<1> QED
  BY <1>1, <1>2, <1>5, <1>7, MainStepInv, ReportStepInv DEF RunNext

LEMMA AtMostOne == \A n \in Nat : n = 0 \/ n = 1 => n <= 1
OBVIOUS

LEMMA TwoThreads ==
  /\ Cardinality({}) = 0 /\ Cardinality({Main}) = 1 /\ Cardinality({Watcher}) = 1
  /\ Cardinality(RunThreads) = 2
<1>1. Cardinality({}) = 0 BY FS_EmptySet
<1>2. IsFiniteSet({Main}) /\ Cardinality({Main}) = 1 BY FS_Singleton
<1>3. Cardinality({Watcher}) = 1 BY FS_Singleton
<1>4. RunThreads = {Main} \cup {Watcher} /\ Watcher \notin {Main} BY DEF RunThreads, Main, Watcher
<1>5. Cardinality({Main} \cup {Watcher}) = Cardinality({Main}) + 1
  BY <1>2, <1>4, FS_AddElement
<1> QED BY <1>1, <1>2, <1>3, <1>4, <1>5

\* A run is torn down, interrupted and crashing without ever using a destroyed
\* job, losing its partial result to Ctrl+C before the third, or leaving an
\* unfinished report that one crashing thread alone is to blame for
\* (run_context.cpp finish, process.cpp onInterrupt and writeCrashReport),
\* however many interrupts and lock acquisitions there are.
THEOREM RunsSound == RunSpec => []RunSound
<1>1. RunInv => RunSound
  <2> SUFFICES ASSUME RunInv PROVE RunSound
    OBVIOUS
  <2> USE DEF RunInv, RunShape, TearDown, InterruptsCounted, OneReporter
  <2>1. JobOutlivesUsers /\ InterruptFindsJob /\ ThirdInterruptExits
    BY DEF JobOutlivesUsers, InterruptFindsJob, ThirdInterruptExits
  <2>2. Cardinality({t \in RunThreads : crashPc[t] \in Reporting}) <= 1
    <3> DEFINE W == {t \in RunThreads : crashPc[t] \in Reporting}
    <3>1. W = {} \/ W = {Main} \/ W = {Watcher}
      BY DEF RunThreads
    <3>2. Cardinality(W) = 0 \/ Cardinality(W) = 1 BY <3>1, TwoThreads
    <3> HIDE DEF W
    <3>3. Cardinality(W) <= 1 BY <3>2, AtMostOne
    <3> QED BY <3>3 DEF W
  <2>3. ASSUME process = "crashed", report = "open" PROVE Cardinality(crashed) = 2
    <3>1. PICK t \in RunThreads : crashPc[t] = "dead" BY <2>3
    <3>2. PICK u \in RunThreads : crashPc[u] \in Reporting \ {"open"} BY <2>3
    <3>3. t # u /\ t \in crashed /\ u \in crashed
      BY <3>1, <3>2 DEF Reporting
    <3>4. Main \in crashed /\ Watcher \in crashed
      BY <3>1, <3>2, <3>3 DEF RunThreads
    <3>5. crashed = RunThreads
      BY <3>4 DEF RunThreads
    <3> QED BY <3>5, TwoThreads
  <2> QED BY <2>1, <2>2, <2>3 DEF RunSound, CrashLeavesReport, Reporting
<1> QED BY <1>1, RunInitInv, RunNextInv, PTL DEF RunSpec

-----------------------------------------------------------------------------
(* Sets of positions. *)

LEMMA NatMin ==
  ASSUME NEW T \in SUBSET Nat, T # {}
  PROVE  \E x \in T : \A y \in T : x <= y
<1> DEFINE R == {ss \in Nat \X Nat : ss[1] < ss[2]}
<1>1. IsWellFoundedOn(R, Nat)
  BY NatLessThanWellFounded DEF OpToRel
<1>2. \A x, y \in Nat : x < y => <<x, y>> \in R
  OBVIOUS
<1> HIDE DEF R
<1>3. \E x \in T : \A y \in T : ~ (<<y, x>> \in R)
  BY <1>1, WFMin
<1>4. \A x, y \in Nat : ~(y < x) => x <= y
  OBVIOUS
<1> QED
  BY <1>2, <1>3, <1>4

LEMMA MinPosition ==
  ASSUME NEW n \in Nat, NEW S \in SUBSET (1..n), S # {}
  PROVE  Min(S) \in S /\ \A y \in S : Min(S) <= y
<1>1. S \in SUBSET Nat OBVIOUS
<1>2. \E x \in S : \A y \in S : x <= y BY <1>1, NatMin
<1> QED BY <1>2 DEF Min

LEMMA MaxPosition ==
  ASSUME NEW n \in Nat, NEW S \in SUBSET (1..n), S # {}
  PROVE  Max(S) \in S /\ \A y \in S : Max(S) >= y
<1> DEFINE T == {k \in Nat : n - k \in S}
<1>1. T \in SUBSET Nat OBVIOUS
<1>2. T # {}
  <2>1. PICK i \in S : TRUE OBVIOUS
  <2>2. i \in 1..n /\ n - i \in Nat /\ n - (n - i) = i OBVIOUS
  <2> QED BY <2>2
<1>3. PICK k \in T : \A y \in T : k <= y BY <1>1, <1>2, NatMin
<1>4. n - k \in S OBVIOUS
<1>5. \A y \in S : n - k >= y
  <2> TAKE y \in S
  <2>1. y \in 1..n /\ n - y \in Nat /\ n - (n - y) = y OBVIOUS
  <2>2. k <= n - y BY <1>3, <2>1
  <2> QED BY <2>1, <2>2
<1>6. \E x \in S : \A y \in S : x >= y BY <1>4, <1>5
<1> QED BY <1>6 DEF Max

-----------------------------------------------------------------------------
(* Log levels. *)

Hits(c, some) == {i \in DOMAIN some : Matches(c, some[i])}

LEMMA HitsFacts ==
  ASSUME NEW c, NEW some \in Seq(Clause), Hits(c, some) # {}
  PROVE  /\ Max(Hits(c, some)) \in 1..Len(some)
         /\ Max(Hits(c, some)) \in Hits(c, some)
         /\ \A i \in Hits(c, some) : Max(Hits(c, some)) >= i
<1>1. Len(some) \in Nat /\ Hits(c, some) \in SUBSET (1..Len(some))
  BY LenProperties DEF Hits
<1> QED BY <1>1, MaxPosition

LEMMA ApplyRulesIs ==
  ASSUME NEW c, NEW l, NEW some
  PROVE  ApplyRules(c, l, some) =
           IF Hits(c, some) = {} THEN l ELSE some[Max(Hits(c, some))].level
BY DEF ApplyRules, Hits

\* Applying two lists in turn is applying their concatenation.
LEMMA RulesConcat ==
  ASSUME NEW c, NEW l, NEW a \in Seq(Clause), NEW b \in Seq(Clause)
  PROVE  ApplyRules(c, l, a \o b) = ApplyRules(c, ApplyRules(c, l, a), b)
<1> DEFINE ab == a \o b
<1>1. /\ ab \in Seq(Clause) /\ Len(a) \in Nat /\ Len(b) \in Nat
      /\ Len(ab) = Len(a) + Len(b)
      /\ DOMAIN a = 1..Len(a) /\ DOMAIN b = 1..Len(b) /\ DOMAIN ab = 1..(Len(a) + Len(b))
      /\ \A i \in 1..Len(a) : ab[i] = a[i]
      /\ \A i \in 1..Len(b) : ab[Len(a) + i] = b[i]
  OBVIOUS
<1> HIDE DEF ab
<1>2. \A i \in 1..Len(a) : i \in Hits(c, a) <=> i \in Hits(c, ab)
  BY <1>1 DEF Hits
<1>3. \A i \in 1..Len(b) : i \in Hits(c, b) <=> Len(a) + i \in Hits(c, ab)
  BY <1>1 DEF Hits
<1>4. \A i \in Hits(c, ab) : i \in 1..Len(a) \/ (i - Len(a) \in 1..Len(b) /\ i = Len(a) + (i - Len(a)))
  BY <1>1 DEF Hits
<1>5. Hits(c, a) \subseteq 1..Len(a) /\ Hits(c, b) \subseteq 1..Len(b)
  BY <1>1 DEF Hits
<1>6. CASE Hits(c, b) # {}
  <2> DEFINE m == Max(Hits(c, b))
             n == Max(Hits(c, ab))
  <2>1. m \in 1..Len(b) /\ m \in Hits(c, b) /\ \A i \in Hits(c, b) : m >= i
    BY <1>6, HitsFacts
  <2>2. Len(a) + m \in Hits(c, ab) BY <1>3, <2>1
  <2>3. n \in Hits(c, ab) /\ n \in 1..Len(ab) /\ \A i \in Hits(c, ab) : n >= i
    BY <1>1, <2>2, HitsFacts
  <2> HIDE DEF m, n
  <2>4. n >= Len(a) + m BY <2>2, <2>3
  <2>5. n \notin 1..Len(a) BY <1>1, <2>1, <2>4
  <2>6. n - Len(a) \in 1..Len(b) /\ n = Len(a) + (n - Len(a))
    BY <1>4, <2>3, <2>5
  <2>7. n - Len(a) \in Hits(c, b) BY <1>3, <2>3, <2>6
  <2>8. n = Len(a) + m
    <3>1. m >= n - Len(a) BY <2>1, <2>7
    <3>2. m \in Int /\ n \in Int /\ Len(a) \in Int BY <1>1, <2>1, <2>3
    <3> QED BY <2>4, <3>1, <3>2
  <2>9. ab[n] = b[m] BY <1>1, <2>1, <2>8
  <2> QED BY <1>6, <2>2, <2>9, ApplyRulesIs DEF m, n, ab
<1>7. CASE Hits(c, b) = {} /\ Hits(c, a) # {}
  <2> DEFINE m == Max(Hits(c, a))
             n == Max(Hits(c, ab))
  <2>1. m \in 1..Len(a) /\ m \in Hits(c, a) /\ \A i \in Hits(c, a) : m >= i
    BY <1>7, HitsFacts
  <2>2. m \in Hits(c, ab) BY <1>2, <2>1
  <2>3. n \in Hits(c, ab) /\ n \in 1..Len(ab) /\ \A i \in Hits(c, ab) : n >= i
    BY <1>1, <2>2, HitsFacts
  <2> HIDE DEF m, n
  <2>4. n \in 1..Len(a) BY <1>3, <1>4, <1>7, <2>3
  <2>5. n \in Hits(c, a) BY <1>2, <2>3, <2>4
  <2>6. n = m BY <2>1, <2>2, <2>3, <2>4, <2>5
  <2>7. ab[n] = a[m] BY <1>1, <2>1, <2>6
  <2> QED BY <1>7, <2>2, <2>7, ApplyRulesIs DEF m, n, ab
<1>8. CASE Hits(c, b) = {} /\ Hits(c, a) = {}
  <2>1. Hits(c, ab) = {} BY <1>2, <1>3, <1>4, <1>8
  <2> QED BY <1>8, <2>1, ApplyRulesIs DEF ab
<1> QED BY <1>6, <1>7, <1>8

LEMMA ParseRulesType ==
  ASSUME NEW spec \in Seq(Clause)
  PROVE  ParseRules(spec) \in Seq(Clause)
<1> DEFINE bad == {i \in DOMAIN spec : ~IsRule(spec[i])}
           k == IF bad = {} THEN Len(spec) ELSE Min(bad) - 1
<1>1. Len(spec) \in Nat /\ DOMAIN spec = 1..Len(spec) BY LenProperties
<1>2. k \in 0..Len(spec)
  <2>1. CASE bad = {} BY <1>1, <2>1
  <2>2. CASE bad # {}
    <3>1. bad \in SUBSET (1..Len(spec)) BY <1>1
    <3>2. Min(bad) \in 1..Len(spec) BY <1>1, <2>2, <3>1, MinPosition
    <3> QED BY <1>1, <2>2, <3>2
  <2> QED BY <2>1, <2>2
<1>3. ParseRules(spec) = SubSeq(spec, 1, k) BY DEF ParseRules
<1> HIDE DEF k
<1>4. \A i \in 1..k : spec[i] \in Clause BY <1>1, <1>2, ElementOfSeq
<1> QED BY <1>1, <1>2, <1>3, <1>4, SubSeqProperties

\* The environment is read before anything registers, so no rule it brings can
\* be missing from a category that exists.
LevelsInv ==
  /\ rules \in Seq(Clause)
  /\ registered \in Seq(Categories)
  /\ level = [c \in Categories |-> level[c]]
  /\ registered # <<>> => environmentRead
  /\ \A c \in Categories :
       Exists(c) /\ c \notin pinned => level[c] = ApplyRules(c, DefaultOf[c], rules)

LEMMA NoRules == ASSUME NEW c, NEW l PROVE ApplyRules(c, l, <<>>) = l
<1>1. Hits(c, <<>>) = {} BY DEF Hits
<1> QED BY <1>1, ApplyRulesIs

\* A list with a rule that matches forgets the level it started from.
LEMMA RulesForget ==
  ASSUME NEW c, NEW l, NEW k, NEW some, NEW i \in DOMAIN some, Matches(c, some[i])
  PROVE  ApplyRules(c, l, some) = ApplyRules(c, k, some)
<1>1. Hits(c, some) # {} BY DEF Hits
<1> QED BY <1>1, ApplyRulesIs

LEMMA ReadEnvironmentType == LevelsInv => ReadEnvironment \in Seq(Clause)
BY ParseRulesType, LevelAssumption, ConcatProperties DEF LevelsInv, ReadEnvironment

\* Rules that reach the registered categories and join the list keep the two in
\* agreement.
LEMMA ReachInv ==
  ASSUME LevelsInv, NEW some \in Seq(Clause), Reach(some), UNCHANGED registered,
         environmentRead', NEW before \in Seq(Clause), registered # <<>> => before = rules,
         rules' = before \o some
  PROVE  LevelsInv'
<1>1. rules' \in Seq(Clause) BY ConcatProperties
<1>2. level' = [c \in Categories |-> level'[c]]
  BY DEF Reach
<1>3. ASSUME NEW c \in Categories, Exists(c)', c \notin pinned'
      PROVE  level'[c] = ApplyRules(c, DefaultOf[c], rules')
  <2>1. Exists(c) /\ registered # <<>> BY <1>3 DEF Exists, LevelsInv
  <2>2. level'[c] = ApplyRules(c, level[c], some) BY <2>1 DEF Reach
  <2>3. ApplyRules(c, DefaultOf[c], rules') = ApplyRules(c, ApplyRules(c, DefaultOf[c], rules), some)
    BY <2>1, RulesConcat DEF LevelsInv
  <2>4. CASE c \notin pinned BY <2>1, <2>2, <2>3, <2>4 DEF LevelsInv
  <2>5. CASE c \in pinned
    <3>1. PICK i \in DOMAIN some : Matches(c, some[i]) BY <1>3, <2>5 DEF Reach
    <3> QED BY <2>2, <2>3, <3>1, RulesForget
  <2> QED BY <2>4, <2>5
<1> QED BY <1>1, <1>2, <1>3 DEF LevelsInv

LEMMA LevelsNextInv == LevelsInv /\ [LevelsNext]_levelVars => LevelsInv'
<1> SUFFICES ASSUME LevelsInv, [LevelsNext]_levelVars PROVE LevelsInv'
  OBVIOUS
<1>1. CASE UNCHANGED levelVars BY <1>1 DEF levelVars, LevelsInv, Exists
<1>2. ASSUME NEW c \in Categories, Register(c) PROVE LevelsInv'
  <2>1. rules' \in Seq(Clause) BY <1>2, ReadEnvironmentType DEF Register
  <2>2. registered' \in Seq(Categories) BY <1>2 DEF Register, LevelsInv
  <2>3. environmentRead' BY <1>2 DEF Register
  <2>4. level' = [d \in Categories |-> level'[d]] BY <1>2 DEF Register, LevelsInv
  <2>5. level'[c] = ApplyRules(c, DefaultOf[c], rules') BY <1>2 DEF Register, LevelsInv
  <2>6. ASSUME NEW d \in Categories, Exists(d)', d \notin pinned', d # c
        PROVE  level'[d] = ApplyRules(d, DefaultOf[d], rules')
    <3>1. Exists(d)
      BY <1>2, <2>6 DEF Exists, Register, LevelsInv
    <3>2. environmentRead BY <3>1 DEF Exists, LevelsInv
    <3>3. rules' = rules BY <1>2, <3>2 DEF Register, ReadEnvironment
    <3>4. level'[d] = level[d] /\ pinned' = pinned BY <1>2, <2>6 DEF Register, LevelsInv
    <3> QED BY <2>6, <3>1, <3>3, <3>4 DEF LevelsInv
  <2> QED BY <2>1, <2>2, <2>3, <2>4, <2>5, <2>6 DEF LevelsInv
<1>3. ASSUME NEW spec \in Specs, ApplyLogSpec(spec) PROVE LevelsInv'
  <2>1. ParseRules(spec) \in Seq(Clause) BY ParseRulesType, LevelAssumption
  <2>2. registered # <<>> => ReadEnvironment = rules BY DEF LevelsInv, ReadEnvironment
  <2>3. environmentRead' BY <1>3 DEF ApplyLogSpec
  <2> QED BY <1>3, <2>1, <2>2, <2>3, ReadEnvironmentType, ReachInv DEF ApplyLogSpec
<1>4. ASSUME InitLoggingFromEnvironment PROVE LevelsInv'
  <2>1. ParseRules(Environment) \in Seq(Clause) BY ParseRulesType, LevelAssumption
  <2>2. environmentRead' BY <1>4 DEF InitLoggingFromEnvironment
  <2>3. rules \in Seq(Clause) BY DEF LevelsInv
  <2> QED BY <1>4, <2>1, <2>2, <2>3, ReachInv DEF InitLoggingFromEnvironment
<1>5. ASSUME ResetLogLevels PROVE LevelsInv'
  BY <1>5, NoRules DEF ResetLogLevels, LevelsInv, Exists
<1>6. ASSUME NEW d \in Categories, NEW l \in Levels, SetLogLevel(NameOf[d], l) PROVE LevelsInv'
  BY <1>6 DEF SetLogLevel, LevelsInv, Exists
<1>7. ASSUME NEW l \in Levels, SetAllLogLevels(l) PROVE LevelsInv'
  <2>1. <<Rule(All, l)>> \in Seq(Clause) /\ rules' = rules \o <<Rule(All, l)>>
    <3>1. Rule(All, l) \in Clause BY LevelAssumption DEF Rule, Clause
    <3>2. rules \in Seq(Clause) /\ rules' = Append(rules, Rule(All, l))
      BY <1>7 DEF SetAllLogLevels, LevelsInv
    <3> QED BY <3>1, <3>2, AppendIsConcat
  <2>2. rules' \in Seq(Clause) BY <2>1, ConcatProperties DEF LevelsInv
  <2>3. \A c : ApplyRules(c, DefaultOf[c], rules') = l
    <3> TAKE c
    <3>1. ApplyRules(c, DefaultOf[c], rules') =
            ApplyRules(c, ApplyRules(c, DefaultOf[c], rules), <<Rule(All, l)>>)
      BY <2>1, RulesConcat DEF LevelsInv
    <3>2. Hits(c, <<Rule(All, l)>>) = {1}
      BY DEF Hits, Matches, Rule
    <3>3. Max({1}) = 1 BY DEF Max
    <3> QED BY <3>1, <3>2, <3>3, ApplyRulesIs DEF Rule
  <2>4. registered' = registered /\ environmentRead' = environmentRead BY <1>7 DEF SetAllLogLevels
  <2>5. level' = [c \in Categories |-> IF Exists(c) THEN l ELSE level[c]]
    BY <1>7 DEF SetAllLogLevels
  <2> QED BY <2>2, <2>3, <2>4, <2>5 DEF LevelsInv, Exists
<1> QED BY <1>1, <1>2, <1>3, <1>4, <1>5, <1>6, <1>7 DEF LevelsNext

\* Whatever the order of registrations, specs, environment reads and resets, a
\* category setLogLevel did not single out runs at the level the whole list of
\* rules gives its default (log.cpp:17, 89-100, 140-213).
THEOREM RulesDecideLevels == LevelsSpec => []LevelsFollowRules
<1>1. LevelsInit => LevelsInv
  BY LevelAssumption DEF LevelsInit, LevelsInv, Exists
<1>2. LevelsInv => LevelsFollowRules
  BY ElementOfSeq DEF LevelsInv, LevelsFollowRules, Exists
<1> QED BY <1>1, <1>2, LevelsNextInv, PTL DEF LevelsSpec

-----------------------------------------------------------------------------
(* Dispatch. *)

Entry == [id : Nat, sink : Sinks]
Record == [thread : Threads, seq : Nat, level : EmitLevels]
BusyFields == {"pc", "record", "queue", "steady", "wrote"}
BusyOK(d) ==
  /\ d = [f \in BusyFields |-> d[f]]
  /\ d.pc \in {"emit", "sinks", "job"}
  /\ d.record \in Record
  /\ d.queue \in Seq(Entry)
  /\ d.wrote \in Seq(Nat)

RecorderFields == {"records", "dropped", "counts"}
RecorderOK(rec) ==
  /\ rec = [f \in RecorderFields |-> rec[f]]
  /\ rec.records \in Seq(Record)
  /\ rec.dropped \in Nat
  /\ rec.counts \in [EmitLevels -> Nat]

BudgetFields == {"emit", "sink", "throw", "status"}
DispatchShape ==
  /\ sinks \in Seq(Entry)
  /\ nextId \in Nat \ {0}
  /\ jobSinks = <<"recorder">>
  /\ thread = [t \in Threads |-> thread[t]]
  /\ \A t \in Threads : thread[t] = NotEmitting \/ BusyOK(thread[t])
  /\ dispatching \in [Threads -> BOOLEAN]
  /\ emits \in [Threads -> Nat]
  /\ ring \in Seq(Record)
  /\ offered \in Seq(Record)
  /\ RecorderOK(recorder)
  /\ budget = [f \in BudgetFields |-> budget[f]]
  /\ budget.throw \in Nat /\ budget.throw <= MaxThrows

\* SinkList gives every entry an id of its own, below the next one.
IdsUnique(q) ==
  /\ \A i \in DOMAIN q : q[i].id > 0
  /\ \A i, j \in DOMAIN q : q[i].id = q[j].id => i = j
SinksOK ==
  /\ IdsUnique(sinks)
  /\ \A i \in DOMAIN sinks : sinks[i].id < nextId

\* Where a thread is in the walk over its snapshot: what it has written and
\* what it still holds are disjoint and together cover the steady sinks.
Walk(pc, queue, wrote, steady, list) ==
  /\ pc = "emit" => wrote = <<>> /\ \A id \in steady : \E i \in DOMAIN list : list[i].id = id
  /\ pc = "sinks" =>
       /\ IdsUnique(queue)
       /\ \A i, j \in DOMAIN wrote : wrote[i] = wrote[j] => i = j
       /\ \A i \in DOMAIN wrote, j \in DOMAIN queue : wrote[i] # queue[j].id
       /\ \A id \in steady :
            (\E i \in DOMAIN wrote : wrote[i] = id) \/ (\E j \in DOMAIN queue : queue[j].id = id)
  /\ pc = "job" =>
       /\ \A j \in DOMAIN queue : queue[j].id = 0
       /\ \A i, j \in DOMAIN wrote : wrote[i] = wrote[j] => i = j \/ wrote[i] = 0
       /\ \A id \in steady : \E i \in DOMAIN wrote : wrote[i] = id
  /\ 0 \notin steady
WalkOK(d, list) == Walk(d.pc, d.queue, d.wrote, d.steady, list)
WalksOK == \A t \in Threads : thread[t] # NotEmitting => WalkOK(thread[t], sinks)

FlagsOK ==
  budget.throw = MaxThrows =>
    \A t \in Threads : dispatching[t] => thread[t].pc \in {"sinks", "job"}

\* One thread's records are offered in the order of its sequence numbers.
OrderOK ==
  /\ \A t \in Threads : thread[t] # NotEmitting =>
       thread[t].record.thread = t /\ thread[t].record.seq = emits[t]
  /\ \A i \in DOMAIN offered : offered[i].seq <= emits[offered[i].thread]
  /\ \A i, j \in DOMAIN offered :
       i < j /\ offered[i].thread = offered[j].thread => offered[i].seq <= offered[j].seq

\* The ring is a suffix of what it was offered.
SuffixOK ==
  /\ Len(ring) = IF Len(offered) > RingCapacity THEN RingCapacity ELSE Len(offered)
  /\ \A i \in 1..Len(ring) : ring[i] = offered[Len(offered) - Len(ring) + i]

AccountsOK == IsFiniteSet(Counted) /\ RecorderAccounts

\* A terminal that is not torn and shows its status line exactly while drawn.
TerminalFields == {"status", "enabled", "drawn", "columns", "torn"}
TerminalOK(tm) ==
  /\ tm = [f \in TerminalFields |-> tm[f]]
  /\ tm.status \in Nat
  /\ tm.torn = FALSE
  /\ \/ tm.drawn = TRUE /\ tm.columns = Smaller(tm.status, Width - 1)
     \/ tm.drawn = FALSE /\ tm.columns = 0

DispatchInv ==
  /\ DispatchShape /\ SinksOK /\ WalksOK /\ FlagsOK /\ OrderOK /\ SuffixOK
  /\ AccountsOK /\ TerminalOK(terminal)

LEMMA TerminalErase ==
  ASSUME NEW tm, TerminalOK(tm)
  PROVE  TerminalOK(EraseLocked(tm)) /\ EraseLocked(tm).drawn = FALSE
<1>1. CASE tm.drawn = FALSE BY <1>1 DEF EraseLocked
<1>2. CASE tm.drawn = TRUE
  <2> DEFINE x == [tm EXCEPT !.columns = IF @ > Smaller(tm.status, Width - 1) THEN @ ELSE 0,
                             !.drawn = FALSE]
  <2>1. EraseLocked(tm) = x BY <1>2 DEF EraseLocked
  <2>2. ~(tm.columns > Smaller(tm.status, Width - 1))
    BY <1>2, DispatchAssumption DEF TerminalOK, Smaller
  <2>3. x = [f \in TerminalFields |-> x[f]] /\ x.status = tm.status /\ x.torn = tm.torn
    BY DEF TerminalOK, TerminalFields
  <2>4. x.columns = 0 /\ x.drawn = FALSE
    BY <2>2 DEF TerminalOK, TerminalFields
  <2> HIDE DEF x
  <2> QED BY <2>1, <2>3, <2>4 DEF TerminalOK
<1> QED BY <1>1, <1>2 DEF TerminalOK

LEMMA TerminalDraw ==
  ASSUME NEW tm, TerminalOK(tm)
  PROVE  TerminalOK(DrawLocked(tm))
<1> DEFINE size == Smaller(tm.status, Width - 1)
           x == [tm EXCEPT !.columns = IF @ > size THEN @ ELSE size, !.drawn = TRUE]
<1>1. size \in Nat /\ ~(tm.columns > size)
  BY DispatchAssumption DEF TerminalOK, Smaller
<1>2. x = [f \in TerminalFields |-> x[f]] /\ x.status = tm.status /\ x.torn = tm.torn
  BY DEF TerminalOK, TerminalFields
<1>3. x.columns = size /\ x.drawn = TRUE
  BY <1>1 DEF TerminalOK, TerminalFields
<1>4. DrawLocked(tm) = x \/ DrawLocked(tm) = tm BY DEF DrawLocked
<1> HIDE DEF x
<1> QED BY <1>2, <1>3, <1>4 DEF TerminalOK

LEMMA TerminalOps ==
  ASSUME NEW tm, TerminalOK(tm)
  PROVE  /\ TerminalOK(TerminalWrite(tm))
         /\ \A size \in StatusSizes : TerminalOK(SetStatusOn(tm, size))
         /\ \A on \in BOOLEAN : TerminalOK(EnableStatusOn(tm, on))
<1> DEFINE c == EraseLocked(tm)
<1>1. TerminalOK(c) /\ c.drawn = FALSE /\ c.columns = 0
  BY TerminalErase DEF TerminalOK
<1> HIDE DEF c
<1>2. TerminalOK(TerminalWrite(tm))
  <2> DEFINE x == [c EXCEPT !.torn = @ \/ c.columns > 0, !.columns = 0]
  <2>1. (c.torn \/ c.columns > 0) = FALSE BY <1>1 DEF TerminalOK
  <2>2. x = [f \in TerminalFields |-> x[f]] /\ x.status = c.status /\ x.drawn = c.drawn
    BY <1>1 DEF TerminalOK, TerminalFields
  <2>3. x.torn = FALSE /\ x.columns = 0
    BY <1>1, <2>1 DEF TerminalOK, TerminalFields
  <2>4. TerminalWrite(tm) = DrawLocked(x) BY DEF TerminalWrite, c
  <2> HIDE DEF x
  <2> QED BY <1>1, <2>2, <2>3, <2>4, TerminalDraw DEF TerminalOK
<1>3. ASSUME NEW size \in StatusSizes PROVE TerminalOK(SetStatusOn(tm, size))
  <2> DEFINE x == [c EXCEPT !.status = size]
  <2>1. TerminalOK(x)
    BY <1>1, DispatchAssumption DEF TerminalOK, TerminalFields
  <2> QED BY <2>1, TerminalDraw DEF SetStatusOn, c
<1>4. ASSUME NEW on \in BOOLEAN PROVE TerminalOK(EnableStatusOn(tm, on))
  <2> DEFINE y == IF on THEN tm ELSE EraseLocked(tm)
             x == [y EXCEPT !.enabled = on]
  <2>1. TerminalOK(y) BY <1>1 DEF c
  <2>2. EnableStatusOn(tm, on) = DrawLocked(x) BY DEF EnableStatusOn
  <2> HIDE DEF y
  <2>3. TerminalOK(x) BY <2>1 DEF TerminalOK, TerminalFields
  <2> QED BY <2>2, <2>3, TerminalDraw
<1> QED BY <1>2, <1>3, <1>4

LEMMA RemoveAtFacts ==
  ASSUME NEW S, NEW s \in Seq(S), NEW i \in 1..Len(s)
  PROVE  /\ RemoveAt(s, i) \in Seq(S)
         /\ DOMAIN RemoveAt(s, i) = 1..(Len(s) - 1)
         /\ \A k \in 1..(Len(s) - 1) : RemoveAt(s, i)[k] = IF k < i THEN s[k] ELSE s[k + 1]
<1> DEFINE a == SubSeq(s, 1, i - 1)
           b == SubSeq(s, i + 1, Len(s))
<1>0. Len(s) \in Nat /\ i \in Nat OBVIOUS
<1>1. a \in Seq(S) /\ Len(a) = i - 1 /\ \A k \in 1..(i - 1) : a[k] = s[k]
  <2>1. \A k \in 1..(i - 1) : s[k] \in S BY <1>0, ElementOfSeq
  <2> QED BY <1>0, <2>1, SubSeqProperties
<1>2. b \in Seq(S) /\ Len(b) = Len(s) - i /\ \A k \in 1..(Len(s) - i) : b[k] = s[i + k]
  <2>1. \A k \in (i + 1)..Len(s) : s[k] \in S BY <1>0, ElementOfSeq
  <2> QED BY <1>0, <2>1, SubSeqProperties
<1> HIDE DEF a, b
<1>3. RemoveAt(s, i) = a \o b BY DEF RemoveAt, a, b
<1>4. Len(a \o b) = Len(s) - 1 /\ a \o b \in Seq(S)
  <2>1. Len(a \o b) = Len(a) + Len(b) /\ a \o b \in Seq(S) BY <1>1, <1>2, ConcatProperties
  <2>2. (i - 1) + (Len(s) - i) = Len(s) - 1 BY <1>0
  <2> QED BY <1>1, <1>2, <2>1, <2>2
<1>5. ASSUME NEW k \in 1..(Len(s) - 1) PROVE (a \o b)[k] = IF k < i THEN s[k] ELSE s[k + 1]
  <2>1. CASE k < i BY <1>0, <1>1, <1>2, <2>1, ConcatProperties
  <2>2. CASE ~(k < i)
    <3>1. (a \o b)[k] = b[k - (i - 1)] BY <1>0, <1>1, <1>2, <1>4, <2>2, ConcatProperties
    <3>2. k - (i - 1) \in 1..(Len(s) - i) /\ i + (k - (i - 1)) = k + 1 BY <1>0, <2>2
    <3> QED BY <1>2, <2>2, <3>1, <3>2
  <2> QED BY <2>1, <2>2
<1> QED BY <1>3, <1>4, <1>5, LenProperties

LEMMA RingWriteOK ==
  ASSUME NEW r \in Record, ring \in Seq(Record), offered \in Seq(Record), SuffixOK,
         ring' = RingWrite(ring, r),
         offered' = IF r.level > RingMinimum THEN offered ELSE Append(offered, r)
  PROVE  ring' \in Seq(Record) /\ offered' \in Seq(Record) /\ SuffixOK'
<1>1. CASE r.level > RingMinimum BY <1>1 DEF RingWrite, SuffixOK
<1>2. CASE ~(r.level > RingMinimum)
  <2> DEFINE n == Len(offered)
             m == Len(ring)
  <2>0. n \in Nat /\ m \in Nat /\ RingCapacity \in Nat \ {0} BY DispatchAssumption
  <2>1. /\ offered' \in Seq(Record) /\ Len(offered') = n + 1
        /\ offered'[n + 1] = r /\ \A i \in 1..n : offered'[i] = offered[i]
    BY <1>2
  <2>2. CASE m = RingCapacity
    <3>1. ring # <<>> /\ ring' = Append(Tail(ring), r) BY <1>2, <2>0, <2>2 DEF RingWrite
    <3>2. Tail(ring) \in Seq(Record) /\ Len(Tail(ring)) = m - 1
          /\ \A i \in 1..(m - 1) : Tail(ring)[i] = ring[i + 1]
      BY <3>1, HeadTailProperties
    <3>3. /\ ring' \in Seq(Record) /\ Len(ring') = m
          /\ ring'[m] = r /\ \A i \in 1..(m - 1) : ring'[i] = ring[i + 1]
      BY <2>0, <3>1, <3>2, AppendProperties
    <3>4. n >= m BY <2>0, <2>2 DEF SuffixOK
    <3>5. ASSUME NEW i \in 1..m PROVE ring'[i] = offered'[(n + 1) - m + i]
      <4>1. CASE i = m BY <2>0, <2>1, <3>3, <4>1
      <4>2. CASE i # m
        <5>1. i + 1 \in 1..m /\ n - m + (i + 1) \in 1..n /\ (n + 1) - m + i = n - m + (i + 1)
          BY <2>0, <3>4, <4>2
        <5>2. ring'[i] = ring[i + 1] BY <2>0, <3>3, <4>2
        <5>3. ring[i + 1] = offered[n - m + (i + 1)] BY <5>1 DEF SuffixOK
        <5> QED BY <2>1, <5>1, <5>2, <5>3
      <4> QED BY <4>1, <4>2
    <3>6. Len(ring') = IF Len(offered') > RingCapacity THEN RingCapacity ELSE Len(offered')
      BY <2>0, <2>1, <2>2, <3>3, <3>4
    <3>7. \A i \in 1..Len(ring') : ring'[i] = offered'[Len(offered') - Len(ring') + i]
      BY <2>1, <3>3, <3>5
    <3> QED BY <2>1, <3>3, <3>6, <3>7 DEF SuffixOK
  <2>3. CASE m # RingCapacity
    <3>1. ring' = Append(ring, r) BY <1>2, <2>3 DEF RingWrite
    <3>2. m = n /\ n < RingCapacity BY <2>0, <2>3 DEF SuffixOK
    <3>3. /\ ring' \in Seq(Record) /\ Len(ring') = m + 1
          /\ ring'[m + 1] = r /\ \A i \in 1..m : ring'[i] = ring[i]
      BY <3>1
    <3>4. \A i \in 1..m : ring[i] = offered[i]
      <4> TAKE i \in 1..m
      <4>1. n - m + i = i BY <2>0, <3>2
      <4> QED BY <4>1 DEF SuffixOK
    <3> QED BY <2>0, <2>1, <3>2, <3>3, <3>4, SMTT(60) DEF SuffixOK
  <2> QED BY <2>2, <2>3
<1> QED BY <1>1, <1>2

LEMMA RecorderWriteOK ==
  ASSUME NEW r \in Record, RecorderOK(recorder), AccountsOK, recorder' = RecorderWrite(recorder, r)
  PROVE  RecorderOK(recorder') /\ AccountsOK'
<1> DEFINE l == r.level
           c == [recorder EXCEPT !.counts[l] = @ + 1]
<1>0. l \in EmitLevels /\ l \in Nat BY DispatchAssumption DEF Record
<1>1. /\ RecorderOK(c) /\ c.records = recorder.records /\ c.dropped = recorder.dropped
      /\ c.counts = [recorder.counts EXCEPT ![l] = @ + 1]
  <2>1. /\ c = [f \in RecorderFields |-> c[f]]
        /\ c.records = recorder.records /\ c.dropped = recorder.dropped
        /\ c.counts = [recorder.counts EXCEPT ![l] = @ + 1]
    BY DEF RecorderOK, RecorderFields
  <2>2. [recorder.counts EXCEPT ![l] = @ + 1] \in [EmitLevels -> Nat]
    BY <1>0 DEF RecorderOK
  <2> HIDE DEF c
  <2> QED BY <2>1, <2>2 DEF RecorderOK
<1>2. /\ Len(recorder.records) \in Nat /\ recorder.dropped \in Nat /\ recorder.counts[l] \in Nat
      /\ Cardinality(Counted) \in Nat
  BY <1>0, FS_CardinalityType DEF RecorderOK, AccountsOK
<1> HIDE DEF c
<1>3. CASE l = 0 \/ l > RecorderKeep
  <2>1. recorder' = c BY <1>3 DEF RecorderWrite, c
  <2>2. l \notin KeptLevels BY <1>0, <1>3, DispatchAssumption DEF KeptLevels
  <2>3. \A k \in KeptLevels : recorder'.counts[k] = recorder.counts[k]
    BY <1>1, <2>1, <2>2 DEF RecorderOK, KeptLevels
  <2>4. Counted' = Counted BY <2>3 DEF Counted, KeptLevels
  <2> QED BY <1>1, <2>1, <2>4 DEF AccountsOK, RecorderAccounts
<1>4. CASE ~(l = 0 \/ l > RecorderKeep)
  <2> DEFINE n == recorder.counts[l]
  <2>1. l \in KeptLevels BY <1>0, <1>4, DispatchAssumption DEF KeptLevels
  <2>2. recorder'.counts = c.counts /\ RecorderOK(recorder')
        /\ Len(recorder'.records) + recorder'.dropped = Len(recorder.records) + recorder.dropped + 1
    <3>1. CASE Len(recorder.records) >= MaxRecords
      <4> DEFINE x == [c EXCEPT !.dropped = @ + 1]
      <4>1. recorder' = x BY <1>4, <3>1 DEF RecorderWrite, c
      <4>2. RecorderOK(x) /\ x.counts = c.counts /\ x.records = c.records /\ x.dropped = c.dropped + 1
        BY <1>1 DEF RecorderOK, RecorderFields
      <4> HIDE DEF x
      <4> QED BY <1>1, <1>2, <4>1, <4>2
    <3>2. CASE ~(Len(recorder.records) >= MaxRecords)
      <4> DEFINE x == [c EXCEPT !.records = Append(@, r)]
      <4>1. recorder' = x BY <1>4, <3>2 DEF RecorderWrite, c
      <4>2. /\ x = [f \in RecorderFields |-> x[f]] /\ x.counts = c.counts
            /\ x.records = Append(c.records, r) /\ x.dropped = c.dropped
        BY <1>1 DEF RecorderOK, RecorderFields
      <4>3. Len(x.records) = Len(c.records) + 1 /\ x.records \in Seq(Record)
        BY <1>1, <4>2, AppendProperties DEF RecorderOK
      <4> HIDE DEF x
      <4>4. RecorderOK(x) BY <1>1, <4>2, <4>3 DEF RecorderOK
      <4> QED BY <1>1, <1>2, <4>1, <4>2, <4>3, <4>4
    <3> QED BY <3>1, <3>2
  <2>3. /\ recorder'.counts[l] = n + 1
        /\ \A k \in KeptLevels : k # l => recorder'.counts[k] = recorder.counts[k]
    BY <1>0, <1>1, <2>2 DEF RecorderOK, KeptLevels
  <2>4. 1..(n + 1) = (1..n) \cup {n + 1} BY <1>2
  <2>5. {l} \X (1..(n + 1)) = ({l} \X (1..n)) \cup {<<l, n + 1>>} BY <2>4
  <2>6. Counted' = Counted \cup {<<l, n + 1>>}
    <3>1. KeptLevels' = KeptLevels BY DEF KeptLevels
    <3>2. ASSUME NEW x PROVE x \in Counted' <=> x \in Counted \cup {<<l, n + 1>>}
      <4>1. x \in Counted' <=> \E k \in KeptLevels : x \in {k} \X (1..recorder'.counts[k])
        BY <3>1 DEF Counted
      <4>2. x \in Counted <=> \E k \in KeptLevels : x \in {k} \X (1..recorder.counts[k])
        BY DEF Counted
      <4> HIDE DEF n
      <4> QED BY <2>1, <2>3, <2>5, <4>1, <4>2 DEF n
    <3> QED BY <3>2
  <2>7. <<l, n + 1>> \notin Counted
    <3> SUFFICES ASSUME NEW k \in KeptLevels, <<l, n + 1>> \in {k} \X (1..recorder.counts[k]) PROVE FALSE
      BY DEF Counted
    <3>1. k = l /\ n + 1 \in 1..n OBVIOUS
    <3> QED BY <1>2, <3>1
  <2>8. IsFiniteSet(Counted') /\ Cardinality(Counted') = Cardinality(Counted) + 1
    BY <2>6, <2>7, FS_AddElement DEF AccountsOK
  <2> QED BY <1>2, <2>2, <2>8 DEF AccountsOK, RecorderAccounts
<1> QED BY <1>3, <1>4

LEMMA DispatchInitInv == DispatchInit => DispatchInv
<1> SUFFICES ASSUME DispatchInit PROVE DispatchInv
  OBVIOUS
<1> USE DEF DispatchInit
<1>1. DispatchShape
  <2>1. sinks \in Seq(Entry) BY DEF Entry, Sinks
  <2>2. RecorderOK(recorder) BY DEF RecorderOK, RecorderFields
  <2>3. dispatching \in [Threads -> BOOLEAN] /\ emits \in [Threads -> Nat] OBVIOUS
  <2>4. budget = [f \in BudgetFields |-> budget[f]] /\ budget.throw = MaxThrows BY DEF BudgetFields
  <2> QED BY <2>1, <2>2, <2>3, <2>4, DispatchAssumption DEF DispatchShape
<1>2. SinksOK
  <2>1. DOMAIN sinks = {1, 2} /\ sinks[1].id = 1 /\ sinks[2].id = 2 /\ nextId = 3 OBVIOUS
  <2> QED BY <2>1 DEF SinksOK, IdsUnique
<1>3. WalksOK /\ FlagsOK /\ OrderOK BY DEF WalksOK, FlagsOK, OrderOK
<1>4. SuffixOK BY DispatchAssumption DEF SuffixOK
<1>5. AccountsOK
  <2>1. Counted = {} BY DEF Counted, KeptLevels
  <2> QED BY <2>1, FS_EmptySet DEF AccountsOK, RecorderAccounts
<1>6. TerminalOK(terminal)
  <2>1. PICK on \in BOOLEAN : terminal = [status |-> 0, enabled |-> on, drawn |-> FALSE, columns |-> 0,
                                          torn |-> FALSE]
    OBVIOUS
  <2> QED BY <2>1 DEF TerminalOK, TerminalFields
<1> QED BY <1>1, <1>2, <1>3, <1>4, <1>5, <1>6 DEF DispatchInv

\* Bounded calls spend their own budget.
LEMMA SpendFacts ==
  ASSUME DispatchShape, NEW kind \in {"emit", "sink", "status"}, Spend(kind)
  PROVE  /\ budget' = [f \in BudgetFields |-> budget'[f]]
         /\ budget'.throw = budget.throw
BY DEF DispatchShape, Spend, BudgetFields

\* The sink lists and the terminal are configured.
LEMMA ConfigureInv ==
  ASSUME DispatchInv,
         (\E size \in StatusSizes : SetStatus(size)) \/ (\E on \in BOOLEAN : EnableStatus(on))
  PROVE  DispatchInv'
<1>1. /\ UNCHANGED <<sinks, nextId, jobSinks, thread, dispatching, emits, ring, offered, recorder>>
      /\ Spend("status")
  BY DEF SetStatus, EnableStatus
<1>2. TerminalOK(terminal') BY TerminalOps DEF SetStatus, EnableStatus, DispatchInv
<1>3. budget' = [f \in BudgetFields |-> budget'[f]] /\ budget'.throw = budget.throw
  BY <1>1, SpendFacts DEF DispatchInv
<1>4. DispatchShape' BY <1>1, <1>3 DEF DispatchInv, DispatchShape
<1>5. SinksOK' /\ WalksOK' BY <1>1 DEF DispatchInv, SinksOK, WalksOK, WalkOK, Walk
<1>6. FlagsOK' /\ OrderOK' BY <1>1, <1>3 DEF DispatchInv, FlagsOK, OrderOK
<1>7. SuffixOK' BY <1>1 DEF DispatchInv, SuffixOK
<1>8. AccountsOK' BY <1>1 DEF DispatchInv, AccountsOK, RecorderAccounts, Counted, KeptLevels
<1> QED BY <1>2, <1>4, <1>5, <1>6, <1>7, <1>8 DEF DispatchInv

LEMMA BusyNotIdle == \A d : BusyOK(d) => d # NotEmitting /\ d.pc # "idle"
BY DEF BusyOK, NotEmitting

LEMMA UnsteadyFacts ==
  ASSUME DispatchShape, NEW ids, Unsteady(ids)
  PROVE  /\ thread' = [t \in Threads |-> thread'[t]]
         /\ \A t \in Threads :
              \/ thread[t] = NotEmitting /\ thread'[t] = NotEmitting
              \/ /\ BusyOK(thread[t]) /\ BusyOK(thread'[t])
                 /\ thread'[t].pc = thread[t].pc /\ thread'[t].record = thread[t].record
                 /\ thread'[t].queue = thread[t].queue /\ thread'[t].wrote = thread[t].wrote
                 /\ thread'[t].steady = thread[t].steady \ ids
<1>1. thread' = [t \in Threads |-> thread'[t]] BY DEF Unsteady
<1>2. ASSUME NEW t \in Threads, thread[t] = NotEmitting PROVE thread'[t] = NotEmitting
  BY <1>2 DEF Unsteady, NotEmitting
<1>3. ASSUME NEW t \in Threads, BusyOK(thread[t])
      PROVE  /\ BusyOK(thread'[t])
             /\ thread'[t].pc = thread[t].pc /\ thread'[t].record = thread[t].record
             /\ thread'[t].queue = thread[t].queue /\ thread'[t].wrote = thread[t].wrote
             /\ thread'[t].steady = thread[t].steady \ ids
  <2> DEFINE d == thread[t]
             x == [d EXCEPT !.steady = @ \ ids]
  <2>1. thread'[t] = x BY <1>3 DEF Unsteady, BusyOK
  <2>2. /\ x = [f \in BusyFields |-> x[f]] /\ x.pc = d.pc /\ x.record = d.record
        /\ x.queue = d.queue /\ x.wrote = d.wrote /\ x.steady = d.steady \ ids
    BY <1>3 DEF BusyOK, BusyFields
  <2> HIDE DEF x
  <2> QED BY <1>3, <2>1, <2>2 DEF BusyOK
<1> QED BY <1>1, <1>2, <1>3 DEF DispatchShape

\* The list loses entries but keeps the rest, and the walks that were counting
\* on a lost one no longer do.
LEMMA LoseSinksInv ==
  ASSUME DispatchInv, NEW ids, Unsteady(ids), Spend("sink"), sinks' \in Seq(Entry), SinksOK',
         \A i \in DOMAIN sinks : sinks[i].id \notin ids =>
           \E j \in DOMAIN sinks' : sinks'[j].id = sinks[i].id,
         UNCHANGED <<nextId, jobSinks, dispatching, emits, sinkState>>
  PROVE  DispatchInv'
<1>0. DispatchShape /\ WalksOK /\ OrderOK /\ FlagsOK BY DEF DispatchInv
<1>1. UNCHANGED <<ring, offered, recorder, terminal>> BY DEF sinkState
<1>2. budget' = [f \in BudgetFields |-> budget'[f]] /\ budget'.throw = budget.throw
  BY <1>0, SpendFacts
<1>3. DispatchShape' BY <1>0, <1>1, <1>2, UnsteadyFacts DEF DispatchShape
<1>4. WalksOK'
  <2> SUFFICES ASSUME NEW t \in Threads, thread'[t] # NotEmitting PROVE WalkOK(thread'[t], sinks')
    BY DEF WalksOK
  <2> DEFINE d == thread[t]
             e == thread'[t]
  <2>1. /\ d # NotEmitting /\ e.pc = d.pc /\ e.queue = d.queue /\ e.wrote = d.wrote /\ e.steady = d.steady \ ids
    BY <1>0, UnsteadyFacts, BusyNotIdle
  <2>2. WalkOK(d, sinks) BY <1>0, <2>1 DEF WalksOK
  <2> HIDE DEF d
  <2>3. ASSUME e.pc = "emit" PROVE \A id \in e.steady : \E i \in DOMAIN sinks' : sinks'[i].id = id
    BY <2>1, <2>2, <2>3 DEF WalkOK, Walk
  <2> HIDE DEF e
  <2>4. WalkOK(e, sinks') BY <2>1, <2>2, <2>3 DEF WalkOK, Walk
  <2> QED BY <2>4 DEF e
<1>5. FlagsOK' BY <1>0, <1>2, UnsteadyFacts DEF FlagsOK, NotEmitting
<1>6. OrderOK' BY <1>0, <1>1, UnsteadyFacts, BusyNotIdle DEF OrderOK
<1>7. SuffixOK' BY <1>1 DEF DispatchInv, SuffixOK
<1>8. AccountsOK' BY <1>1 DEF DispatchInv, AccountsOK, RecorderAccounts, Counted, KeptLevels
<1> QED BY <1>1, <1>3, <1>4, <1>5, <1>6, <1>7, <1>8 DEF DispatchInv

LEMMA AddSinkInv ==
  ASSUME DispatchInv, NEW sink \in {"ring", "recorder"}, AddLogSink(sink)
  PROVE  DispatchInv'
<1> USE DEF AddLogSink
<1>0. DispatchShape /\ SinksOK /\ WalksOK /\ OrderOK /\ FlagsOK BY DEF DispatchInv
<1>1. UNCHANGED <<ring, offered, recorder, terminal>> BY DEF sinkState
<1>2. budget' = [f \in BudgetFields |-> budget'[f]] /\ budget'.throw = budget.throw
  BY <1>0, SpendFacts
<1> DEFINE e == [id |-> nextId, sink |-> sink]
<1>3. e \in Entry /\ e.id = nextId /\ nextId \in Nat \ {0} BY <1>0 DEF DispatchShape, Entry, Sinks
<1>4. /\ sinks' \in Seq(Entry) /\ DOMAIN sinks' = 1..(Len(sinks) + 1) /\ DOMAIN sinks = 1..Len(sinks)
      /\ Len(sinks) \in Nat
      /\ \A i \in 1..Len(sinks) : sinks'[i] = sinks[i]
      /\ sinks'[Len(sinks) + 1] = e
  BY <1>0, <1>3, AppendProperties, LenProperties DEF DispatchShape
<1> HIDE DEF e
<1>5. \A i \in 1..Len(sinks) : sinks[i].id \in Nat
  <2>1. \A i \in 1..Len(sinks) : sinks[i] \in Entry
    BY <1>0, ElementOfSeq DEF DispatchShape
  <2> QED BY <2>1 DEF Entry
<1>6. SinksOK' BY <1>0, <1>3, <1>4, <1>5 DEF SinksOK, IdsUnique
<1>7. DispatchShape' BY <1>0, <1>1, <1>2, <1>3, <1>4 DEF DispatchShape
<1>8. \A id : (\E i \in DOMAIN sinks : sinks[i].id = id) => \E i \in DOMAIN sinks' : sinks'[i].id = id
  BY <1>4
<1>9. WalksOK' BY <1>0, <1>8 DEF WalksOK, WalkOK, Walk
<1>10. FlagsOK' /\ OrderOK' BY <1>0, <1>1, <1>2 DEF FlagsOK, OrderOK
<1>11. SuffixOK' BY <1>1 DEF DispatchInv, SuffixOK
<1>12. AccountsOK' BY <1>1 DEF DispatchInv, AccountsOK, RecorderAccounts, Counted, KeptLevels
<1> QED BY <1>1, <1>6, <1>7, <1>9, <1>10, <1>11, <1>12 DEF DispatchInv

LEMMA RemoveSinkInv ==
  ASSUME DispatchInv, NEW id, RemoveLogSink(id)
  PROVE  DispatchInv'
<1> DEFINE at == {i \in DOMAIN sinks : sinks[i].id = id}
           n == Len(sinks)
<1>0. sinks \in Seq(Entry) /\ SinksOK BY DEF DispatchInv, DispatchShape
<1>1. n \in Nat /\ DOMAIN sinks = 1..n BY <1>0, LenProperties
<1>2. /\ sinks' \in Seq(Entry) /\ SinksOK'
      /\ \A i \in DOMAIN sinks : sinks[i].id \notin {id} =>
           \E j \in DOMAIN sinks' : sinks'[j].id = sinks[i].id
  <2>1. CASE at = {} BY <1>0, <2>1 DEF RemoveLogSink, SinksOK
  <2>2. CASE at # {}
    <3> DEFINE m == Max(at)
    <3>1. sinks' = RemoveAt(sinks, m) BY <2>2 DEF RemoveLogSink
    <3>2. at \in SUBSET (1..n) BY <1>1
    <3>3. m \in at BY <1>1, <2>2, <3>2, MaxPosition
    <3>4. m \in 1..n /\ sinks[m].id = id BY <1>1, <3>3
    <3> HIDE DEF m, at
    <3>5. /\ sinks' \in Seq(Entry) /\ DOMAIN sinks' = 1..(n - 1)
          /\ \A k \in 1..(n - 1) : sinks'[k] = IF k < m THEN sinks[k] ELSE sinks[k + 1]
      BY <1>0, <3>1, <3>4, RemoveAtFacts
    <3> DEFINE from(k) == IF k < m THEN k ELSE k + 1
    <3>6. /\ \A k \in 1..(n - 1) : from(k) \in 1..n /\ sinks'[k] = sinks[from(k)]
          /\ \A j, k \in 1..(n - 1) : from(j) = from(k) => j = k
          /\ \A i \in 1..n : i # m => \E k \in 1..(n - 1) : from(k) = i
      <4>1. \A k \in 1..(n - 1) : from(k) \in 1..n /\ sinks'[k] = sinks[from(k)]
        BY <1>1, <3>4, <3>5
      <4>2. \A j, k \in 1..(n - 1) : from(j) = from(k) => j = k
        BY <1>1, <3>4
      <4>3. ASSUME NEW i \in 1..n, i # m PROVE \E k \in 1..(n - 1) : from(k) = i
        <5>1. CASE i < m
          <6>1. i \in 1..(n - 1) /\ from(i) = i BY <1>1, <3>4, <5>1
          <6> QED BY <6>1
        <5>2. CASE ~(i < m)
          <6>1. i - 1 \in 1..(n - 1) /\ from(i - 1) = i BY <1>1, <3>4, <4>3, <5>2
          <6> QED BY <6>1
        <5> QED BY <5>1, <5>2
      <4> QED BY <4>1, <4>2, <4>3
    <3> HIDE DEF from
    <3>7. nextId' = nextId BY DEF RemoveLogSink
    <3>8. SinksOK'
      <4>1. ASSUME NEW k \in 1..(n - 1) PROVE sinks'[k].id > 0 /\ sinks'[k].id < nextId'
        <5>1. from(k) \in DOMAIN sinks /\ sinks'[k] = sinks[from(k)] BY <1>1, <3>6
        <5> QED BY <1>0, <3>7, <5>1 DEF SinksOK, IdsUnique
      <4>2. ASSUME NEW j \in 1..(n - 1), NEW k \in 1..(n - 1), sinks'[j].id = sinks'[k].id
            PROVE  j = k
        <5>1. /\ from(j) \in DOMAIN sinks /\ sinks'[j] = sinks[from(j)]
              /\ from(k) \in DOMAIN sinks /\ sinks'[k] = sinks[from(k)]
          BY <1>1, <3>6
        <5>2. from(j) = from(k) BY <1>0, <4>2, <5>1 DEF SinksOK, IdsUnique
        <5> QED BY <3>6, <5>2
      <4> QED BY <3>5, <4>1, <4>2 DEF SinksOK, IdsUnique
    <3>9. ASSUME NEW i \in DOMAIN sinks, sinks[i].id \notin {id}
          PROVE  \E j \in DOMAIN sinks' : sinks'[j].id = sinks[i].id
      <4>1. i \in 1..n /\ i # m BY <1>1, <3>4, <3>9
      <4>2. PICK k \in 1..(n - 1) : from(k) = i BY <3>6, <4>1
      <4>3. sinks'[k] = sinks[i] BY <3>6, <4>2
      <4> QED BY <3>5, <4>3
    <3> QED BY <3>5, <3>8, <3>9
  <2> QED BY <2>1, <2>2
<1>3. Unsteady({id}) /\ Spend("sink") BY DEF RemoveLogSink
<1>4. UNCHANGED <<nextId, jobSinks, dispatching, emits, sinkState>> BY DEF RemoveLogSink
<1> QED BY <1>2, <1>3, <1>4, LoseSinksInv

LEMMA ClearSinksInv ==
  ASSUME DispatchInv, ClearLogSinks
  PROVE  DispatchInv'
<1>1. sinks' \in Seq(Entry) /\ DOMAIN sinks' = {} BY DEF ClearLogSinks
<1>2. SinksOK' BY <1>1 DEF SinksOK, IdsUnique
<1>3. \A i \in DOMAIN sinks : sinks[i].id \in SinkIds BY DEF SinkIds
<1>4. Unsteady(SinkIds) /\ Spend("sink") BY DEF ClearLogSinks
<1>5. UNCHANGED <<nextId, jobSinks, dispatching, emits, sinkState>> BY DEF ClearLogSinks
<1> QED BY <1>1, <1>2, <1>3, <1>4, <1>5, LoseSinksInv

\* One thread's step of the walk: its new state d, everything the sinks keep
\* treated separately.
LEMMA ThreadInv ==
  ASSUME DispatchInv, NEW t \in Threads, NEW d,
         thread' = [thread EXCEPT ![t] = d], d = NotEmitting \/ BusyOK(d),
         d # NotEmitting => WalkOK(d, sinks) /\ d.record.thread = t /\ d.record.seq = emits'[t],
         dispatching' \in [Threads -> BOOLEAN],
         \A u \in Threads : u # t => dispatching'[u] = dispatching[u],
         budget' = [f \in BudgetFields |-> budget'[f]],
         budget'.throw \in Nat, budget'.throw <= budget.throw,
         budget'.throw = MaxThrows => (dispatching'[t] => d.pc \in {"sinks", "job"}),
         emits' \in [Threads -> Nat],
         \A u \in Threads : u # t => emits'[u] = emits[u],
         emits[t] <= emits'[t],
         UNCHANGED <<sinks, nextId, jobSinks, ring, offered, recorder, terminal>>
  PROVE  DispatchInv'
<1>0. DispatchShape /\ WalksOK /\ OrderOK /\ FlagsOK BY DEF DispatchInv
<1>1. thread' = [u \in Threads |-> thread'[u]] /\ thread'[t] = d
      /\ \A u \in Threads : u # t => thread'[u] = thread[u]
  BY <1>0 DEF DispatchShape
<1>2. DispatchShape'
  BY <1>0, <1>1, DispatchAssumption, SMTT(60) DEF DispatchShape
<1>3. SinksOK' BY DEF DispatchInv, SinksOK
<1>4. WalksOK' BY <1>0, <1>1 DEF WalksOK
<1>5. FlagsOK'
  <2>1. budget'.throw = MaxThrows => budget.throw = MaxThrows
    BY <1>0, DispatchAssumption DEF DispatchShape
  <2> QED BY <1>0, <1>1, <2>1 DEF FlagsOK
<1>6. OrderOK'
  <2>1. ASSUME NEW u \in Threads
        PROVE  emits[u] \in Nat /\ emits'[u] \in Nat /\ emits[u] <= emits'[u]
    <3>1. emits[u] \in Nat /\ emits'[u] \in Nat BY <1>0 DEF DispatchShape
    <3>2. CASE u = t BY <3>1, <3>2
    <3>3. CASE u # t BY <3>1, <3>3
    <3> QED BY <3>1, <3>2, <3>3
  <2>2. \A i \in DOMAIN offered : offered[i].thread \in Threads /\ offered[i].seq \in Nat
    <3>1. offered \in Seq(Record) BY <1>0 DEF DispatchShape
    <3>2. \A i \in DOMAIN offered : offered[i] \in Record BY <3>1
    <3> QED BY <3>2 DEF Record
  <2>3. \A i \in DOMAIN offered : offered[i].seq <= emits'[offered[i].thread]
    BY <1>0, <2>1, <2>2 DEF OrderOK
  <2>4. ASSUME NEW u \in Threads, thread'[u] # NotEmitting
        PROVE  thread'[u].record.thread = u /\ thread'[u].record.seq = emits'[u]
    BY <1>0, <1>1, <2>4 DEF OrderOK
  <2> QED BY <1>0, <2>3, <2>4 DEF OrderOK
<1>7. SuffixOK' BY DEF DispatchInv, SuffixOK
<1>8. AccountsOK' BY DEF DispatchInv, AccountsOK, RecorderAccounts, Counted, KeptLevels
<1>9. TerminalOK(terminal') BY DEF DispatchInv
<1> QED BY <1>2, <1>3, <1>4, <1>5, <1>6, <1>7, <1>8, <1>9 DEF DispatchInv

LEMMA EmitInv ==
  ASSUME DispatchInv, NEW t \in Threads, NEW l \in EmitLevels, Emit(t, l)
  PROVE  DispatchInv'
<1> DEFINE r == [thread |-> t, seq |-> emits[t] + 1, level |-> l]
           d == [pc |-> "emit", record |-> r, queue |-> <<>>, steady |-> SinkIds, wrote |-> <<>>]
<1>0. DispatchShape /\ SinksOK /\ FlagsOK BY DEF DispatchInv
<1>1. thread' = [thread EXCEPT ![t] = d] BY DEF Emit
<1>2. r \in Record /\ r.thread = t /\ r.seq = emits[t] + 1 BY <1>0 DEF DispatchShape, Record
<1>3. emits' \in [Threads -> Nat] /\ emits'[t] = emits[t] + 1 /\ emits[t] <= emits'[t]
      /\ \A u \in Threads : u # t => emits'[u] = emits[u]
  BY <1>0 DEF Emit, DispatchShape
<1> HIDE DEF r
<1>4. /\ d = [f \in BusyFields |-> d[f]] /\ d.pc = "emit" /\ d.record = r /\ d.queue = <<>>
      /\ d.steady = SinkIds /\ d.wrote = <<>>
  BY DEF BusyFields
<1> HIDE DEF d
<1>5. BusyOK(d)
  <2>1. <<>> \in Seq(Entry) /\ <<>> \in Seq(Nat) OBVIOUS
  <2> QED BY <1>2, <1>4, <2>1 DEF BusyOK
<1>6. 0 \notin SinkIds BY <1>0 DEF SinkIds, SinksOK, IdsUnique
<1>7. WalkOK(d, sinks) BY <1>4, <1>6 DEF WalkOK, Walk, SinkIds
<1>8. budget' = [f \in BudgetFields |-> budget'[f]] /\ budget'.throw = budget.throw
  BY <1>0, SpendFacts DEF Emit
<1>9. budget'.throw = MaxThrows => ~dispatching[t]
  BY <1>0, <1>8 DEF FlagsOK, Emit
<1>10. /\ UNCHANGED <<sinks, nextId, jobSinks, ring, offered, recorder, terminal>>
       /\ dispatching' = dispatching
  BY DEF Emit, sinkState
<1>11. budget'.throw \in Nat /\ budget'.throw <= budget.throw /\ dispatching \in [Threads -> BOOLEAN]
  BY <1>0, <1>8 DEF DispatchShape
<1> QED BY <1>1, <1>2, <1>3, <1>4, <1>5, <1>7, <1>8, <1>9, <1>10, <1>11, ThreadInv

\* What a thread inside emit() or dispatch() knows.
LEMMA BusyFacts ==
  ASSUME DispatchInv, NEW t \in Threads, thread[t].pc \in {"emit", "sinks", "job"}
  PROVE  /\ BusyOK(thread[t]) /\ WalkOK(thread[t], sinks)
         /\ thread[t].record.thread = t /\ thread[t].record.seq = emits[t]
         /\ emits \in [Threads -> Nat] /\ emits[t] <= emits[t]
         /\ dispatching \in [Threads -> BOOLEAN]
         /\ budget = [f \in BudgetFields |-> budget[f]]
         /\ budget.throw \in Nat /\ budget.throw <= budget.throw
<1>1. DispatchShape /\ WalksOK /\ OrderOK BY DEF DispatchInv
<1>2. thread[t] # NotEmitting BY DEF NotEmitting
<1>3. emits[t] \in Nat BY <1>1 DEF DispatchShape
<1> QED BY <1>1, <1>2, <1>3 DEF DispatchShape, WalksOK, OrderOK

LEMMA DispatchStepInv ==
  ASSUME DispatchInv, NEW t \in Threads, Dispatch(t)
  PROVE  DispatchInv'
<1> DEFINE o == thread[t]
<1>0. DispatchShape /\ SinksOK /\ FlagsOK BY DEF DispatchInv
<1>1. /\ UNCHANGED <<sinks, nextId, jobSinks, ring, offered, recorder, terminal>>
      /\ emits' = emits /\ budget' = budget /\ o.pc = "emit"
  BY DEF Dispatch, sinkState
<1>2. BusyOK(o) /\ WalkOK(o, sinks) BY <1>1, BusyFacts
<1>3. CASE dispatching[t]
  <2>1. thread' = [thread EXCEPT ![t] = NotEmitting] /\ dispatching' = dispatching
    BY <1>3 DEF Dispatch
  <2>2. budget.throw # MaxThrows BY <1>0, <1>1, <1>3 DEF FlagsOK
  <2> QED BY <1>1, <2>1, <2>2, BusyFacts, ThreadInv
<1>4. CASE ~dispatching[t]
  <2> DEFINE d == [o EXCEPT !.pc = "sinks", !.queue = sinks]
  <2>1. thread' = [thread EXCEPT ![t] = d]
    BY <1>0, <1>2, <1>4 DEF Dispatch, DispatchShape, BusyOK
  <2>2. /\ d = [f \in BusyFields |-> d[f]] /\ d.pc = "sinks" /\ d.queue = sinks
        /\ d.record = o.record /\ d.steady = o.steady /\ d.wrote = o.wrote
    BY <1>2 DEF BusyOK, BusyFields
  <2> HIDE DEF d
  <2>3. BusyOK(d) BY <1>0, <1>2, <2>2 DEF BusyOK, DispatchShape
  <2>4. WalkOK(d, sinks)
    BY <1>0, <1>1, <1>2, <2>2 DEF WalkOK, Walk, SinksOK
  <2>5. dispatching' \in [Threads -> BOOLEAN] /\ \A u \in Threads : u # t => dispatching'[u] = dispatching[u]
    BY <1>0, <1>4 DEF Dispatch, DispatchShape
  <2>6. d.record.thread = t /\ d.record.seq = emits[t] BY <1>1, <2>2, BusyFacts
  <2>7. /\ emits \in [Threads -> Nat] /\ emits[t] <= emits[t]
        /\ budget = [f \in BudgetFields |-> budget[f]]
        /\ budget.throw \in Nat /\ budget.throw <= budget.throw
    BY <1>1, BusyFacts
  <2> HIDE DEF o
  <2> QED BY <1>1, <2>1, <2>2, <2>3, <2>4, <2>5, <2>6, <2>7, ThreadInv
<1> QED BY <1>3, <1>4

LEMMA ThrowInv ==
  ASSUME DispatchInv, NEW t \in Threads, SinkThrows(t)
  PROVE  DispatchInv'
<1>0. DispatchShape BY DEF DispatchInv
<1>1. /\ UNCHANGED <<sinks, nextId, jobSinks, ring, offered, recorder, terminal>>
      /\ emits' = emits /\ dispatching' = dispatching /\ thread' = [thread EXCEPT ![t] = NotEmitting]
      /\ thread[t].pc \in {"emit", "sinks", "job"}
  BY DEF SinkThrows, sinkState
<1>2. /\ budget' = [f \in BudgetFields |-> budget'[f]] /\ budget'.throw = budget.throw - 1
      /\ budget.throw > 0
  BY <1>0 DEF SinkThrows, Spend, DispatchShape, BudgetFields
<1>3. budget'.throw \in Nat /\ budget'.throw <= budget.throw /\ budget'.throw # MaxThrows
  BY <1>0, <1>2, DispatchAssumption DEF DispatchShape
<1> QED BY <1>1, <1>2, <1>3, BusyFacts, ThreadInv

LEMMA DeliverInv ==
  ASSUME DispatchInv, NEW t \in Threads, DeliverToJob(t)
  PROVE  DispatchInv'
<1> DEFINE o == thread[t]
           q == [i \in DOMAIN jobSinks |-> [id |-> 0, sink |-> jobSinks[i]]]
           d == [o EXCEPT !.pc = "job", !.queue = q]
<1>0. DispatchShape /\ FlagsOK BY DEF DispatchInv
<1>1. /\ UNCHANGED <<sinks, nextId, jobSinks, ring, offered, recorder, terminal>>
      /\ emits' = emits /\ budget' = budget /\ dispatching' = dispatching
      /\ o.pc = "sinks" /\ o.queue = <<>>
  BY DEF DeliverToJob, sinkState
<1>2. BusyOK(o) /\ WalkOK(o, sinks) BY <1>1, BusyFacts
<1>3. q \in Seq(Entry) /\ \A i \in DOMAIN q : q[i].id = 0
  <2>1. jobSinks = <<"recorder">> /\ DOMAIN jobSinks = 1..1 /\ jobSinks[1] = "recorder"
    BY <1>0 DEF DispatchShape
  <2>2. \A i \in 1..1 : [id |-> 0, sink |-> jobSinks[i]] \in Entry BY <2>1 DEF Entry, Sinks
  <2>3. q = [i \in 1..1 |-> [id |-> 0, sink |-> jobSinks[i]]] BY <2>1
  <2> HIDE DEF q
  <2> QED BY <2>2, <2>3, IsASeq
<1>4. thread' = [thread EXCEPT ![t] = d]
  BY <1>0, <1>2 DEF DeliverToJob, DispatchShape, BusyOK
<1> HIDE DEF q
<1>5. /\ d = [f \in BusyFields |-> d[f]] /\ d.pc = "job" /\ d.queue = q
      /\ d.record = o.record /\ d.steady = o.steady /\ d.wrote = o.wrote
  BY <1>2 DEF BusyOK, BusyFields
<1> HIDE DEF d
<1>6. BusyOK(d) BY <1>2, <1>3, <1>5 DEF BusyOK
<1>7. WalkOK(d, sinks)
  <2>1. DOMAIN o.queue = {} BY <1>1
  <2>2. /\ \A i, j \in DOMAIN o.wrote : o.wrote[i] = o.wrote[j] => i = j
        /\ \A id \in o.steady : \E i \in DOMAIN o.wrote : o.wrote[i] = id
        /\ 0 \notin o.steady
    BY <1>1, <1>2, <2>1 DEF WalkOK, Walk
  <2> QED BY <1>3, <1>5, <2>2 DEF WalkOK, Walk
<1> QED BY <1>1, <1>4, <1>5, <1>6, <1>7, BusyFacts, ThreadInv

LEMMA FinishInv ==
  ASSUME DispatchInv, NEW t \in Threads, Finish(t)
  PROVE  DispatchInv'
<1>0. DispatchShape BY DEF DispatchInv
<1>1. /\ UNCHANGED <<sinks, nextId, jobSinks, ring, offered, recorder, terminal>>
      /\ emits' = emits /\ budget' = budget /\ thread' = [thread EXCEPT ![t] = NotEmitting]
      /\ thread[t].pc \in {"emit", "sinks", "job"}
  BY DEF Finish, sinkState
<1>2. dispatching' \in [Threads -> BOOLEAN] /\ \A u \in Threads : u # t => dispatching'[u] = dispatching[u]
  BY <1>0 DEF Finish, DispatchShape
<1>3. ~dispatching'[t] BY <1>0 DEF Finish, DispatchShape
<1> QED BY <1>1, <1>2, <1>3, BusyFacts, ThreadInv

\* One write of the walk: the entry moves from the queue to the written ones.
LEMMA WalkStep ==
  ASSUME NEW pc \in {"sinks", "job"}, NEW q \in Seq(Entry), NEW w \in Seq(Nat), NEW steady, NEW list,
         Walk(pc, q, w, steady, list), q # <<>>
  PROVE  /\ Tail(q) \in Seq(Entry) /\ Append(w, Head(q).id) \in Seq(Nat)
         /\ Walk(pc, Tail(q), Append(w, Head(q).id), steady, list)
         /\ Head(q) \in Entry
<1> DEFINE qq == Tail(q)
           ww == Append(w, Head(q).id)
           m == Len(q)
           n == Len(w)
<1>1. /\ m \in Nat /\ n \in Nat /\ m > 0 /\ DOMAIN q = 1..m /\ DOMAIN w = 1..n
      /\ Head(q) = q[1] /\ q[1] \in Entry
  OBVIOUS
<1>2. /\ qq \in Seq(Entry) /\ DOMAIN qq = 1..(m - 1)
      /\ \A i \in 1..(m - 1) : qq[i] = q[i + 1]
  BY <1>1, HeadTailProperties, LenProperties
<1>3. q[1].id \in Nat BY <1>1 DEF Entry
<1>4. /\ ww \in Seq(Nat) /\ DOMAIN ww = 1..(n + 1)
      /\ ww[n + 1] = q[1].id /\ \A i \in 1..n : ww[i] = w[i]
  BY <1>1, <1>3, AppendProperties, LenProperties
<1> HIDE DEF m, n, qq, ww
<1>6. ASSUME pc = "sinks" PROVE Walk(pc, qq, ww, steady, list)
  <2>1. /\ IdsUnique(q)
        /\ \A i, j \in DOMAIN w : w[i] = w[j] => i = j
        /\ \A i \in DOMAIN w, j \in DOMAIN q : w[i] # q[j].id
        /\ \A id \in steady :
            (\E i \in DOMAIN w : w[i] = id) \/ (\E j \in DOMAIN q : q[j].id = id)
        /\ 0 \notin steady
    BY <1>6 DEF Walk
  <2>2. \A i \in 1..(m - 1) : i + 1 \in DOMAIN q /\ i + 1 # 1 BY <1>1
  <2>3. 1 \in DOMAIN q BY <1>1
  <2>4. IdsUnique(qq)
    <3>1. \A i \in DOMAIN qq : qq[i].id > 0 BY <1>2, <2>1, <2>2 DEF IdsUnique
    <3>2. ASSUME NEW i \in DOMAIN qq, NEW j \in DOMAIN qq, qq[i].id = qq[j].id
          PROVE  i = j
      <4>1. i \in 1..(m - 1) /\ j \in 1..(m - 1) /\ q[i + 1].id = q[j + 1].id BY <1>2, <3>2
      <4>2. i + 1 = j + 1 BY <2>1, <2>2, <4>1 DEF IdsUnique
      <4> QED BY <1>1, <4>1, <4>2
    <3> QED BY <3>1, <3>2 DEF IdsUnique
  <2>5. ASSUME NEW i \in DOMAIN ww, NEW j \in DOMAIN ww, ww[i] = ww[j]
        PROVE  i = j
    <3>1. (i \in 1..n \/ i = n + 1) /\ (j \in 1..n \/ j = n + 1) BY <1>1, <1>4
    <3>2. CASE i \in 1..n /\ j \in 1..n
      <4>1. w[i] = w[j] BY <1>4, <2>5, <3>2
      <4> QED BY <1>1, <2>1, <3>2, <4>1
    <3>3. CASE i \in 1..n /\ j = n + 1
      <4>1. w[i] = q[1].id BY <1>4, <2>5, <3>3
      <4> QED BY <1>1, <2>1, <2>3, <3>3, <4>1
    <3>4. CASE i = n + 1 /\ j \in 1..n
      <4>1. w[j] = q[1].id BY <1>4, <2>5, <3>4
      <4> QED BY <1>1, <2>1, <2>3, <3>4, <4>1
    <3> QED BY <3>1, <3>2, <3>3, <3>4
  <2>6. ASSUME NEW i \in DOMAIN ww, NEW j \in DOMAIN qq PROVE ww[i] # qq[j].id
    <3>1. j + 1 \in DOMAIN q /\ j + 1 # 1 /\ qq[j] = q[j + 1] BY <1>2, <2>2
    <3>2. i \in 1..n \/ i = n + 1 BY <1>1, <1>4
    <3>3. CASE i \in 1..n
      <4>1. i \in DOMAIN w /\ ww[i] = w[i] BY <1>1, <1>4, <3>3
      <4> QED BY <2>1, <3>1, <4>1
    <3>4. CASE i = n + 1
      <4>1. ww[i] = q[1].id BY <1>4, <3>4
      <4> QED BY <2>1, <2>3, <3>1, <4>1 DEF IdsUnique
    <3> QED BY <3>2, <3>3, <3>4
  <2>7. ASSUME NEW id \in steady
        PROVE  \/ \E i \in DOMAIN ww : ww[i] = id
               \/ \E j \in DOMAIN qq : qq[j].id = id
    <3>1. CASE \E i \in DOMAIN w : w[i] = id
      <4>1. PICK i \in DOMAIN w : w[i] = id BY <3>1
      <4>2. i \in DOMAIN ww /\ ww[i] = id BY <1>1, <1>4, <4>1
      <4> QED BY <4>2
    <3>2. CASE \E j \in DOMAIN q : q[j].id = id
      <4>1. PICK j \in DOMAIN q : q[j].id = id BY <3>2
      <4>2. CASE j = 1
        <5>1. n + 1 \in DOMAIN ww /\ ww[n + 1] = id BY <1>1, <1>4, <4>1, <4>2
        <5> QED BY <5>1
      <4>3. CASE j # 1
        <5>1. j - 1 \in 1..(m - 1) /\ (j - 1) + 1 = j BY <1>1, <4>1, <4>3
        <5>2. qq[j - 1].id = id BY <1>2, <4>1, <5>1
        <5> QED BY <1>2, <5>1, <5>2
      <4> QED BY <4>2, <4>3
    <3> QED BY <2>1, <2>7, <3>1, <3>2
  <2> QED BY <1>1, <1>2, <1>4, <1>6, <2>1, <2>4, <2>5, <2>6, <2>7 DEF Walk
<1>7. ASSUME pc = "job" PROVE Walk(pc, qq, ww, steady, list)
  <2>1. /\ \A j \in DOMAIN q : q[j].id = 0
        /\ \A i, j \in DOMAIN w : w[i] = w[j] => i = j \/ w[i] = 0
        /\ \A id \in steady : \E i \in DOMAIN w : w[i] = id
        /\ 0 \notin steady
    BY <1>7 DEF Walk
  <2>2. ASSUME NEW j \in DOMAIN qq PROVE qq[j].id = 0
    <3>1. j + 1 \in DOMAIN q /\ qq[j] = q[j + 1] BY <1>1, <1>2
    <3> QED BY <2>1, <3>1
  <2>3. ASSUME NEW i \in DOMAIN ww, NEW j \in DOMAIN ww, ww[i] = ww[j]
        PROVE  i = j \/ ww[i] = 0
    <3>1. (i \in 1..n \/ i = n + 1) /\ (j \in 1..n \/ j = n + 1) /\ q[1].id = 0 BY <1>1, <1>4, <2>1
    <3> QED BY <1>1, <1>4, <2>1, <2>3, <3>1
  <2>4. \A id \in steady : \E i \in DOMAIN ww : ww[i] = id
    <3> TAKE id \in steady
    <3>1. PICK i \in DOMAIN w : w[i] = id BY <2>1
    <3>2. i \in DOMAIN ww /\ ww[i] = id BY <1>1, <1>4, <3>1
    <3> QED BY <3>2
  <2> QED BY <1>1, <1>2, <1>4, <1>7, <2>1, <2>2, <2>3, <2>4 DEF Walk
<1>8. Walk(pc, qq, ww, steady, list) BY <1>6, <1>7
<1> QED BY <1>1, <1>2, <1>4, <1>8 DEF qq, ww

LEMMA WriteSinkInv ==
  ASSUME DispatchInv, NEW t \in Threads, WriteSink(t)
  PROVE  DispatchInv'
<1> DEFINE o == thread[t]
           d == [o EXCEPT !.queue = Tail(@), !.wrote = Append(@, Head(o.queue).id)]
<1>0. /\ DispatchShape /\ SinksOK /\ WalksOK /\ FlagsOK /\ OrderOK /\ SuffixOK /\ AccountsOK
      /\ TerminalOK(terminal)
  BY DEF DispatchInv
<1>1. /\ UNCHANGED <<sinks, nextId, jobSinks, dispatching, emits, budget>>
      /\ o.pc \in {"sinks", "job"} /\ o.queue # <<>>
      /\ SinkWrite(Head(o.queue).sink, o.record)
  BY DEF WriteSink
<1>2. BusyOK(o) /\ WalkOK(o, sinks) /\ o.record.thread = t /\ o.record.seq = emits[t]
  BY <1>1, BusyFacts
<1>3. thread' = [thread EXCEPT ![t] = d]
  BY <1>0, <1>2 DEF WriteSink, DispatchShape, BusyOK
<1>4. /\ d = [f \in BusyFields |-> d[f]] /\ d.pc = o.pc /\ d.record = o.record /\ d.steady = o.steady
      /\ d.queue = Tail(o.queue) /\ d.wrote = Append(o.wrote, Head(o.queue).id)
  BY <1>2 DEF BusyOK, BusyFields
<1> HIDE DEF d
<1>5. BusyOK(d) /\ WalkOK(d, sinks) /\ Head(o.queue) \in Entry
  <2>1. /\ o.queue \in Seq(Entry) /\ o.wrote \in Seq(Nat) /\ o.record \in Record
        /\ Walk(o.pc, o.queue, o.wrote, o.steady, sinks)
    BY <1>2 DEF BusyOK, WalkOK
  <2>2. /\ d.queue \in Seq(Entry) /\ d.wrote \in Seq(Nat)
        /\ Walk(o.pc, d.queue, d.wrote, o.steady, sinks) /\ Head(o.queue) \in Entry
    <3> DEFINE oq == o.queue
               ow == o.wrote
               os == o.steady
               oc == o.pc
               dq == d.queue
               dw == d.wrote
    <3>1. /\ oq \in Seq(Entry) /\ ow \in Seq(Nat) /\ Walk(oc, oq, ow, os, sinks) /\ oq # <<>>
          /\ oc \in {"sinks", "job"} /\ dq = Tail(oq) /\ dw = Append(ow, Head(oq).id)
      BY <1>1, <1>4, <2>1
    <3> HIDE DEF oq, ow, os, oc, dq, dw
    <3>2. /\ Tail(oq) \in Seq(Entry) /\ Append(ow, Head(oq).id) \in Seq(Nat)
          /\ Walk(oc, Tail(oq), Append(ow, Head(oq).id), os, sinks) /\ Head(oq) \in Entry
      BY <3>1, WalkStep
    <3>3. /\ dq \in Seq(Entry) /\ dw \in Seq(Nat) /\ Walk(oc, dq, dw, os, sinks)
      BY <3>1, <3>2
    <3> QED BY <3>2, <3>3 DEF oq, ow, os, oc, dq, dw
  <2> QED BY <1>1, <1>4, <2>1, <2>2 DEF BusyOK, WalkOK
<1>6. /\ thread' = [u \in Threads |-> thread'[u]] /\ thread'[t] = d
      /\ \A u \in Threads : u # t => thread'[u] = thread[u]
  BY <1>0, <1>3 DEF DispatchShape
<1>7. o.record \in Record /\ Head(o.queue).sink \in Sinks BY <1>2, <1>5 DEF BusyOK, Entry
<1>8. /\ ring' \in Seq(Record) /\ offered' \in Seq(Record) /\ SuffixOK'
      /\ RecorderOK(recorder') /\ AccountsOK'
      /\ TerminalOK(terminal')
      /\ offered' = offered \/ offered' = Append(offered, o.record)
  <2>0. ring \in Seq(Record) /\ offered \in Seq(Record) /\ RecorderOK(recorder) BY <1>0 DEF DispatchShape
  <2>1. CASE Head(o.queue).sink = "terminal"
    <3>1. terminal' = TerminalWrite(terminal) /\ UNCHANGED <<ring, offered, recorder>>
      BY <1>1, <2>1 DEF SinkWrite
    <3>2. SuffixOK' /\ AccountsOK' BY <1>0, <3>1 DEF SuffixOK, AccountsOK, RecorderAccounts, Counted, KeptLevels
    <3> QED BY <1>0, <2>0, <3>1, <3>2, TerminalOps
  <2>2. CASE Head(o.queue).sink = "ring"
    <3>1. /\ ring' = RingWrite(ring, o.record)
          /\ offered' = IF o.record.level > RingMinimum THEN offered ELSE Append(offered, o.record)
          /\ UNCHANGED <<recorder, terminal>>
      BY <1>1, <2>2 DEF SinkWrite
    <3>2. AccountsOK' BY <1>0, <3>1 DEF AccountsOK, RecorderAccounts, Counted, KeptLevels
    <3>3. ring' \in Seq(Record) /\ offered' \in Seq(Record) /\ SuffixOK'
      BY <1>0, <1>7, <2>0, <3>1, RingWriteOK
    <3> QED BY <1>0, <2>0, <3>1, <3>2, <3>3
  <2>3. CASE Head(o.queue).sink = "recorder"
    <3>1. recorder' = RecorderWrite(recorder, o.record) /\ UNCHANGED <<ring, offered, terminal>>
      BY <1>1, <2>3 DEF SinkWrite
    <3>2. SuffixOK' BY <1>0, <3>1 DEF SuffixOK
    <3> QED BY <1>0, <1>7, <2>0, <3>1, <3>2, RecorderWriteOK
  <2> QED BY <1>7, <2>1, <2>2, <2>3 DEF Sinks
<1>9. DispatchShape' BY <1>0, <1>1, <1>5, <1>6, <1>8 DEF DispatchShape
<1>10. SinksOK' BY <1>0, <1>1 DEF SinksOK
<1>11. WalksOK' BY <1>0, <1>1, <1>5, <1>6 DEF WalksOK
<1>12. FlagsOK' BY <1>0, <1>1, <1>4, <1>6 DEF FlagsOK
<1>13. OrderOK'
  <2>1. ASSUME NEW u \in Threads, thread'[u] # NotEmitting
        PROVE  thread'[u].record.thread = u /\ thread'[u].record.seq = emits'[u]
    BY <1>0, <1>1, <1>2, <1>4, <1>6, <2>1 DEF OrderOK
  <2>2. CASE offered' = offered BY <1>0, <1>1, <2>1, <2>2 DEF OrderOK
  <2>3. CASE offered' = Append(offered, o.record)
    <3> DEFINE n == Len(offered)
    <3>1. /\ n \in Nat /\ DOMAIN offered = 1..n /\ DOMAIN offered' = 1..(n + 1)
          /\ offered'[n + 1] = o.record /\ \A i \in 1..n : offered'[i] = offered[i]
      BY <1>0, <1>7, <2>3 DEF DispatchShape
    <3>2. emits[t] \in Nat BY <1>0 DEF DispatchShape
    <3> HIDE DEF n
    <3>3. \A i \in DOMAIN offered' : offered'[i].seq <= emits'[offered'[i].thread]
      BY <1>0, <1>1, <1>2, <3>1, <3>2 DEF OrderOK
    <3>4. ASSUME NEW i \in DOMAIN offered', NEW j \in DOMAIN offered', i < j,
                 offered'[i].thread = offered'[j].thread
          PROVE  offered'[i].seq <= offered'[j].seq
      <4>1. i \in 1..n BY <3>1, <3>4
      <4>2. CASE j \in 1..n BY <1>0, <3>1, <3>4, <4>1, <4>2 DEF OrderOK
      <4>3. CASE j = n + 1
        <5>1. offered[i].seq <= emits[t] BY <1>0, <1>2, <3>1, <3>4, <4>1, <4>3 DEF OrderOK
        <5> QED BY <1>2, <3>1, <4>1, <4>3, <5>1
      <4> QED BY <3>1, <4>2, <4>3
    <3> QED BY <2>1, <3>3, <3>4 DEF OrderOK
  <2> QED BY <1>8, <2>2, <2>3
<1> QED BY <1>8, <1>9, <1>10, <1>11, <1>12, <1>13 DEF DispatchInv

LEMMA DispatchNextInv == DispatchInv /\ [DispatchNext]_dispatchVars => DispatchInv'
<1> SUFFICES ASSUME DispatchInv, [DispatchNext]_dispatchVars PROVE DispatchInv'
  OBVIOUS
<1>1. CASE UNCHANGED dispatchVars
  BY <1>1 DEF dispatchVars, DispatchInv, DispatchShape, SinksOK, WalksOK, FlagsOK, OrderOK, SuffixOK,
              AccountsOK, RecorderAccounts, Counted, KeptLevels
<1>2. ASSUME NEW size \in StatusSizes, SetStatus(size) PROVE DispatchInv'
  BY <1>2, ConfigureInv
<1>3. ASSUME NEW on \in BOOLEAN, EnableStatus(on) PROVE DispatchInv'
  BY <1>3, ConfigureInv
<1>4. ASSUME NEW t \in Threads,
             \/ \E l \in EmitLevels : Emit(t, l)
             \/ Dispatch(t) \/ WriteSink(t) \/ SinkThrows(t) \/ DeliverToJob(t) \/ Finish(t)
      PROVE  DispatchInv'
  BY <1>4, EmitInv, DispatchStepInv, WriteSinkInv, ThrowInv, DeliverInv, FinishInv
<1> QED
  BY <1>1, <1>2, <1>3, <1>4, AddSinkInv, RemoveSinkInv, ClearSinksInv DEF DispatchNext

\* However many threads emit while sinks come and go, throw and redraw: an
\* attached sink sees each record once, only an exception mutes a thread, the
\* ring holds the newest records in order, the recorder's counts add up and the
\* terminal is never torn (log.cpp dispatch, sink_list.h, sinks.cpp).
THEOREM DispatchesSound == DispatchSpec => []DispatchSound
<1>1. DispatchInv => DispatchSound
  <2> SUFFICES ASSUME DispatchInv PROVE DispatchSound
    OBVIOUS
  <2>0. /\ DispatchShape /\ WalksOK /\ FlagsOK /\ OrderOK /\ SuffixOK /\ AccountsOK
        /\ TerminalOK(terminal)
    BY DEF DispatchInv
  <2>1. SteadySinksWritten
    <3> SUFFICES ASSUME NEW t \in Threads, thread[t].pc = "job"
                 PROVE  /\ \A id \in thread[t].steady :
                             Cardinality({i \in DOMAIN thread[t].wrote : thread[t].wrote[i] = id}) = 1
                        /\ \A i, j \in DOMAIN thread[t].wrote :
                             i # j => thread[t].wrote[i] # thread[t].wrote[j] \/ thread[t].wrote[i] = 0
      BY DEF SteadySinksWritten
    <3> DEFINE w == thread[t].wrote
    <3>1. WalkOK(thread[t], sinks) BY BusyFacts
    <3>2. /\ \A i, j \in DOMAIN w : w[i] = w[j] => i = j \/ w[i] = 0
          /\ \A id \in thread[t].steady : id # 0 /\ \E i \in DOMAIN w : w[i] = id
      BY <3>1 DEF WalkOK, Walk
    <3>3. ASSUME NEW id \in thread[t].steady PROVE Cardinality({i \in DOMAIN w : w[i] = id}) = 1
      <4>1. PICK i \in DOMAIN w : w[i] = id BY <3>2
      <4>2. {j \in DOMAIN w : w[j] = id} = {i} BY <3>2, <4>1
      <4> QED BY <4>2, FS_Singleton
    <3> QED BY <3>2, <3>3
  <2>2. MutedOnlyByThrow BY <2>0 DEF FlagsOK, MutedOnlyByThrow
  <2>3. RingHoldsNewest
    <3> DEFINE n == Len(offered)
               from == IF n > RingCapacity THEN n - RingCapacity + 1 ELSE 1
               s == SubSeq(offered, from, n)
    <3>1. n \in Nat /\ Len(ring) \in Nat /\ RingCapacity \in Nat \ {0} /\ ring \in Seq(Record)
          /\ offered \in Seq(Record)
      BY <2>0, DispatchAssumption DEF DispatchShape
    <3>2. from \in 1..(n + 1) /\ from \in Nat /\ n - from + 1 = Len(ring) /\ n - Len(ring) = from - 1
      BY <2>0, <3>1 DEF SuffixOK
    <3> HIDE DEF from
    <3>3. \A i \in from..n : offered[i] \in Record BY <3>1, <3>2, ElementOfSeq
    <3>4. /\ s \in Seq(Record) /\ Len(s) = Len(ring)
          /\ \A i \in 1..Len(ring) : s[i] = offered[from + i - 1]
      BY <3>1, <3>2, <3>3, SubSeqProperties
    <3>5. ASSUME NEW i \in 1..Len(ring) PROVE ring[i] = s[i]
      <4>1. n - Len(ring) + i = from + i - 1 BY <3>1, <3>2
      <4>2. ring[i] = offered[n - Len(ring) + i] BY <2>0 DEF SuffixOK
      <4> QED BY <3>4, <4>1, <4>2
    <3>6. ring = s BY <3>1, <3>4, <3>5, SeqEqual
    <3> QED BY <2>0, <3>6 DEF OrderOK, RingHoldsNewest, from
  <2>4. RecorderAccounts BY <2>0 DEF AccountsOK
  <2>5. StatusNeverTorn BY <2>0 DEF TerminalOK, StatusNeverTorn
  <2> QED BY <2>1, <2>2, <2>3, <2>4, <2>5 DEF DispatchSound
<1> QED BY <1>1, DispatchInitInv, DispatchNextInv, PTL DEF DispatchSpec

-----------------------------------------------------------------------------
(* Spans and the watchdog. *)

FrameSet == [id : Nat \ {0}, start : Nat, child : Nat]
SpanSet == [id : Nat \ {0}, parent : Nat, start : Nat, worker : Workers, depth : Nat]
WatchSet == [pc : {"wait", "tick", "decide", "exited"}, threshold : Nat, reported : Nat, now : Nat]

\* Open spans lie in the order they began, and what is charged to one fits
\* before the next.
FramesOK(fr, n, t) ==
  /\ fr \in Seq(FrameSet)
  /\ \A i \in 1..Len(fr) : fr[i].id <= n /\ fr[i].start <= t
  /\ \A i, j \in 1..Len(fr) : i < j => fr[i].id < fr[j].id /\ fr[i].start <= fr[j].start
  /\ \A i \in 1..Len(fr) :
       fr[i].child <= (IF i = Len(fr) THEN t ELSE fr[i + 1].start) - fr[i].start

\* Each Span object not ended has its frame, and each frame its object.
LiveOK(lv, stk) ==
  /\ lv \subseteq SpanSet
  /\ \A s \in lv : s.parent < s.id
  /\ \A s \in lv : \E i \in 1..Len(stk[s.worker]) :
       stk[s.worker][i].id = s.id /\ stk[s.worker][i].start = s.start
  /\ \A w \in Workers : \A i \in 1..Len(stk[w]) :
       \E s \in lv : s.worker = w /\ s.id = stk[w][i].id
  /\ \A s, u \in lv : s.id = u.id => s = u

\* Ended innermost first, spans have the parents and depths of their frames.
NestOK(lv, stk) ==
  \A s \in lv : \A i \in 1..Len(stk[s.worker]) :
    stk[s.worker][i].id = s.id =>
      /\ s.depth = i - 1
      /\ s.parent = IF i = 1 THEN 0 ELSE stk[s.worker][i - 1].id

\* C is what is charged to each open span, by its id, and P its partial sums.
Sums(C, P) == P[0] = 0 /\ \A k \in Nat : P[k + 1] = P[k] + C[k + 1]
ChargedBy(C, stk) ==
  /\ \A w \in Workers : \A i \in 1..Len(stk[w]) : C[stk[w][i].id] = stk[w][i].child
  /\ \A k \in Nat : C[k] = 0 \/ \E w \in Workers : \E i \in 1..Len(stk[w]) : stk[w][i].id = k

\* Self times are ahead of the outermost durations by what open spans still have
\* to subtract.
SumOK(stk, n, self, top) ==
  \E C \in [Nat -> Int], P \in [Nat -> Int] :
    Sums(C, P) /\ ChargedBy(C, stk) /\ self = top + P[n]

\* An open file ends in its bracket or in an event, a closed one in a bracket.
TraceSet == [last : {"[", ",", "event", "]"}, array : BOOLEAN, named : SUBSET Workers,
             first : BOOLEAN, open : BOOLEAN]
TraceOK(tr) ==
  /\ tr \in TraceSet /\ tr.array
  /\ tr.open => tr.last \in {"[", "event"} /\ (tr.first <=> tr.last = "[")
  /\ ~tr.open => tr.last = "]"

\* After n reports of one silence the threshold is StallAfter doubled n times.
Doubled(n) == StallAfter * 2^n

WatchOK ==
  /\ watch \in WatchSet /\ watch.now <= now
  /\ activity \in Nat /\ activity <= now /\ silenceReports \in Nat
  /\ silenceReports = 0 => watch.reported < activity
  /\ silenceReports > 0 => /\ watch.reported = activity
                           /\ watch.threshold = Doubled(silenceReports)
                           /\ now - activity >= Doubled(silenceReports - 1)

SpanTypeOK ==
  /\ now \in Nat /\ spanCount \in Nat /\ selfTotal \in Int /\ topTotal \in Int /\ lifo \in BOOLEAN
  /\ DOMAIN stack = Workers

StacksOK(stk, n, t) == \A w \in Workers : FramesOK(stk[w], n, t)

SpansOK ==
  /\ SpanTypeOK /\ StacksOK(stack, spanCount, now) /\ LiveOK(live, stack)
  /\ lifo => NestOK(live, stack) /\ SumOK(stack, spanCount, selfTotal, topTotal)

SpanInv == SpansOK /\ TraceOK(trace) /\ WatchOK

SpanSpec == MonitorInit /\ [][MonitorNext]_monitorVars

\* Twice a power of two is the next: a set with one more element has twice the
\* subsets.
LEMMA PowerDoubles == \A n \in Nat : 2^n \in Nat /\ 2^(n + 1) = 2 * 2^n
<1> SUFFICES ASSUME NEW n \in Nat PROVE 2^n \in Nat /\ 2^(n + 1) = 2 * 2^n OBVIOUS
<1> DEFINE A == 1..n
           x == n + 1
           S == SUBSET A
           T == {B \in SUBSET (1..(n + 1)) : x \in B}
           f == [B \in S |-> B \cup {x}]
<1>1. IsFiniteSet(A) /\ Cardinality(A) = n /\ IsFiniteSet(1..(n + 1)) /\ Cardinality(1..(n + 1)) = n + 1
  <2>1. IsFiniteSet(A) /\ Cardinality(A) = (IF 1 > n THEN 0 ELSE n - 1 + 1) BY FS_Interval
  <2>2. IsFiniteSet(1..(n + 1)) /\ Cardinality(1..(n + 1)) = (IF 1 > n + 1 THEN 0 ELSE n + 1 - 1 + 1)
    BY FS_Interval
  <2> QED BY <2>1, <2>2
<1>2. IsFiniteSet(S) /\ Cardinality(S) = 2^n BY <1>1, FS_SUBSET
<1>3. IsFiniteSet(SUBSET (1..(n + 1))) /\ Cardinality(SUBSET (1..(n + 1))) = 2^(n + 1)
  BY <1>1, FS_SUBSET
<1>4. 1..(n + 1) = A \cup {x} /\ x \notin A OBVIOUS
<1> HIDE DEF A, x
<1>5. f \in [S -> T]
  <2> SUFFICES ASSUME NEW B \in S PROVE B \cup {x} \in T OBVIOUS
  <2> QED BY <1>4
<1>6. \A C \in T : \E B \in S : f[B] = C
  <2> TAKE C \in T
  <2>1. C \ {x} \in S BY <1>4
  <2>2. (C \ {x}) \cup {x} = C OBVIOUS
  <2> QED BY <2>1, <2>2
<1>7. \A B, C \in S : f[B] = f[C] => B = C
  <2> SUFFICES ASSUME NEW B \in S, NEW C \in S, B \cup {x} = C \cup {x} PROVE B = C OBVIOUS
  <2>1. x \notin B /\ x \notin C BY <1>4
  <2> QED BY <2>1
<1>8. IsFiniteSet(T) /\ Cardinality(T) = Cardinality(S)
  <2> HIDE DEF f, S, T
  <2>1. f \in Bijection(S, T) BY <1>5, <1>6, <1>7, Fun_IsBij
  <2>2. ExistsBijection(S, T) BY <2>1, Fun_ExistsBij
  <2> QED BY <1>2, <2>2, FS_Bijection
<1>9. S \cup T = SUBSET (1..(n + 1)) /\ S \cap T = {}
  <2>1. \A B : B \in SUBSET (1..(n + 1)) <=> B \in S \/ B \in T BY <1>4
  <2>2. \A B : ~(B \in S /\ B \in T) BY <1>4
  <2> HIDE DEF S, T
  <2> QED BY <2>1, <2>2
<1> HIDE DEF S, T
<1>10. Cardinality(S \cup T) = Cardinality(S) + Cardinality(T) - Cardinality(S \cap T)
  BY <1>2, <1>8, FS_Union
<1>11. Cardinality(S \cap T) = 0 BY <1>9, FS_EmptySet
<1>12. Cardinality(S) \in Nat BY <1>2, FS_CardinalityType
<1>13. Cardinality(SUBSET (1..(n + 1))) = 2 * Cardinality(S)
  <2>1. Cardinality(S \cup T) = 2 * Cardinality(S)
    <3>1. \A a, b, c \in Int : b = a /\ c = 0 => a + b - c = 2 * a OBVIOUS
    <3>2. Cardinality(T) \in Int /\ Cardinality(S \cap T) \in Int BY <1>8, <1>11, <1>12
    <3> QED BY <1>8, <1>10, <1>11, <1>12, <3>1, <3>2
  <2> QED BY <2>1, <1>9, Zenon
<1> QED BY <1>2, <1>3, <1>12, <1>13, Zenon

\* The thresholds of one silence.
LEMMA DoubledSteps ==
  /\ Doubled(0) = StallAfter
  /\ \A n \in Nat : Doubled(n) \in Nat /\ Doubled(n + 1) = 2 * Doubled(n)
<1>1. 2^0 = 1
  <2>1. IsFiniteSet({}) /\ Cardinality({}) = 0 BY FS_EmptySet
  <2>2. Cardinality(SUBSET {}) = 2^0 BY <2>1, FS_SUBSET
  <2>3. SUBSET {} = {{}} OBVIOUS
  <2>4. Cardinality({{}}) = 1 BY FS_Singleton
  <2> QED BY <2>2, <2>3, <2>4
<1>2. StallAfter \in Nat BY SpanAssumption
<1>3. Doubled(0) = StallAfter BY <1>1, <1>2 DEF Doubled
<1>4. ASSUME NEW n \in Nat PROVE Doubled(n) \in Nat /\ Doubled(n + 1) = 2 * Doubled(n)
  <2>1. 2^n \in Nat /\ 2^(n + 1) = 2 * 2^n BY PowerDoubles
  <2>2. \A a, b \in Nat : a * b \in Nat /\ a * (2 * b) = 2 * (a * b) OBVIOUS
  <2>3. StallAfter * 2^n \in Nat /\ StallAfter * (2 * 2^n) = 2 * (StallAfter * 2^n) BY <1>2, <2>1, <2>2
  <2> QED BY <2>1, <2>3 DEF Doubled
<1> QED BY <1>3, <1>4

\* A frame taken out of the stack.
LEMMA WithoutIs ==
  ASSUME NEW fr \in Seq(FrameSet), NEW k \in 1..Len(fr)
  PROVE  /\ Without(fr, k) \in Seq(FrameSet) /\ Len(Without(fr, k)) = Len(fr) - 1
         /\ \A i \in 1..(Len(fr) - 1) : Without(fr, k)[i] = IF i < k THEN fr[i] ELSE fr[i + 1]
<1> DEFINE a == SubSeq(fr, 1, k - 1)
           b == SubSeq(fr, k + 1, Len(fr))
<1>1. Len(fr) \in Nat OBVIOUS
<1>2. a \in Seq(FrameSet) /\ Len(a) = k - 1 /\ \A i \in 1..(k - 1) : a[i] = fr[i] OBVIOUS
<1>3. b \in Seq(FrameSet) /\ Len(b) = Len(fr) - k /\ \A i \in 1..(Len(fr) - k) : b[i] = fr[k + i]
  OBVIOUS
<1>4. Without(fr, k) = a \o b BY DEF Without
<1> HIDE DEF a, b
<1>5. Len(a \o b) = Len(fr) - 1 /\ a \o b \in Seq(FrameSet)
  <2>1. Len(a \o b) = Len(a) + Len(b) /\ a \o b \in Seq(FrameSet) BY <1>2, <1>3, ConcatProperties
  <2> QED BY <1>1, <1>2, <1>3, <2>1
<1>6. ASSUME NEW i \in 1..(Len(fr) - 1) PROVE (a \o b)[i] = IF i < k THEN fr[i] ELSE fr[i + 1]
  <2>1. CASE i < k
    <3>1. i \in 1..(k - 1) BY <2>1
    <3>2. (a \o b)[i] = a[i] BY <1>2, <1>3, <3>1
    <3> QED BY <1>2, <3>1, <3>2, <2>1
  <2>2. CASE ~(i < k)
    <3>1. i - (k - 1) \in 1..(Len(fr) - k) BY <1>1, <2>2
    <3>2. (a \o b)[i] = b[i - (k - 1)] BY <1>1, <1>2, <1>3, <2>2
    <3>3. k + (i - (k - 1)) = i + 1 BY <1>1
    <3> QED BY <1>3, <3>1, <3>2, <3>3, <2>2
  <2> QED BY <2>1, <2>2
<1> QED BY <1>4, <1>5, <1>6

\* Whether ending the k-th span charges the one below it.
Charges(fr, k, s) == k = Len(fr) /\ k > 1 /\ fr[k - 1].id = s.parent

\* The stack once the k-th span is ended.
Popped(g, fr, k, s, d) ==
  /\ g \in Seq(FrameSet) /\ Len(g) = Len(fr) - 1
  /\ \A i \in 1..(Len(fr) - 1) :
       LET old == IF i < k THEN fr[i] ELSE fr[i + 1]
       IN  /\ g[i].id = old.id /\ g[i].start = old.start
           /\ g[i].child = IF Charges(fr, k, s) /\ i = k - 1 THEN old.child + d ELSE old.child

LEMMA PopIs ==
  ASSUME NEW fr, NEW n \in Nat, NEW t \in Nat, FramesOK(fr, n, t), NEW k \in 1..Len(fr),
         NEW s, s.id = fr[k].id, s.parent \in Nat, s.parent < s.id, NEW d \in Nat
  PROVE  Popped(Pop(fr, k, s, d), fr, k, s, d)
<1> DEFINE h == Without(fr, k)
           m == Len(fr) - 1
           g == Pop(fr, k, s, d)
<1>1. fr \in Seq(FrameSet) /\ Len(fr) \in Nat /\ \A i \in 1..Len(fr) : fr[i] \in FrameSet
  BY DEF FramesOK
<1>2. h \in Seq(FrameSet) /\ Len(h) = m /\ \A i \in 1..m : h[i] = IF i < k THEN fr[i] ELSE fr[i + 1]
  BY <1>1, WithoutIs
<1>3. g = IF h # <<>> /\ h[Len(h)].id = s.parent THEN [h EXCEPT ![Len(h)].child = @ + d] ELSE h
  BY DEF Pop, Charge, back
<1> HIDE DEF h, g
<1>4. (h # <<>> /\ h[Len(h)].id = s.parent) <=> Charges(fr, k, s)
  <2>1. CASE k = Len(fr) /\ k > 1
    <3>1. m \in 1..m /\ m < k /\ m = k - 1 BY <2>1, <1>1
    <3>2. h[m] = fr[k - 1] BY <1>2, <3>1
    <3>3. h # <<>> BY <1>2, <3>1
    <3> QED BY <1>2, <2>1, <3>2, <3>3 DEF Charges
  <2>2. CASE k = Len(fr) /\ ~(k > 1)
    <3>1. m = 0 BY <1>1, <2>2
    <3>2. h = <<>> BY <1>2, <3>1, EmptySeq
    <3> QED BY <3>2, <2>2 DEF Charges
  <2>3. CASE k # Len(fr)
    <3>1. m \in 1..m /\ ~(m < k) /\ m + 1 = Len(fr) /\ k < Len(fr) /\ Len(fr) \in 1..Len(fr) BY <2>3, <1>1
    <3>2. h[m] = fr[Len(fr)] BY <1>2, <3>1
    <3>3. fr[k].id < fr[Len(fr)].id BY <3>1 DEF FramesOK
    <3>4. fr[Len(fr)].id \in Nat /\ fr[k].id \in Nat BY <1>1, <3>1 DEF FrameSet
    <3>5. h[m].id # s.parent BY <3>2, <3>3, <3>4
    <3> QED BY <1>2, <3>5, <2>3 DEF Charges
  <2> QED BY <2>1, <2>2, <2>3
<1>5. CASE ~Charges(fr, k, s)
  <2>1. g = h BY <1>3, <1>4, <1>5
  <2> QED BY <1>2, <1>5, <2>1 DEF g, Popped
<1>6. CASE Charges(fr, k, s)
  <2>1. k = Len(fr) /\ k > 1 BY <1>6 DEF Charges
  <2>2. m \in 1..m /\ m = k - 1 /\ m \in Nat BY <2>1, <1>1
  <2>3. g = [h EXCEPT ![m].child = @ + d] BY <1>2, <1>3, <1>4, <1>6
  <2>4. h[m] \in FrameSet BY <1>2, <2>2
  <2>5. [h[m] EXCEPT !.child = @ + d] \in FrameSet /\ [h[m] EXCEPT !.child = @ + d].id = h[m].id
        /\ [h[m] EXCEPT !.child = @ + d].start = h[m].start
        /\ [h[m] EXCEPT !.child = @ + d].child = h[m].child + d
    <3>1. \A o \in FrameSet, x \in Nat : [o EXCEPT !.child = x] = [id |-> o.id, start |-> o.start, child |-> x]
      BY DEF FrameSet
    <3>2. h[m].id \in Nat \ {0} /\ h[m].start \in Nat /\ h[m].child \in Nat BY <2>4 DEF FrameSet
    <3>3. h[m].child + d \in Nat BY <3>2
    <3>4. [h[m] EXCEPT !.child = @ + d] = [id |-> h[m].id, start |-> h[m].start, child |-> h[m].child + d]
      BY <2>4, <3>1, <3>3
    <3> QED BY <3>2, <3>3, <3>4 DEF FrameSet
  <2>6. DOMAIN h = 1..m BY <1>2
  <2>7. /\ g[m] = [h[m] EXCEPT !.child = @ + d]
        /\ \A i \in 1..m : i # m => g[i] = h[i]
    BY <2>2, <2>3, <2>6
  <2>8. g \in Seq(FrameSet) /\ Len(g) = m
    <3>1. g = [h EXCEPT ![m] = [h[m] EXCEPT !.child = @ + d]] BY <2>3
    <3> DEFINE y == [h[m] EXCEPT !.child = @ + d]
    <3>2. y \in FrameSet /\ g = [h EXCEPT ![m] = y] BY <3>1, <2>5
    <3> HIDE DEF y
    <3> QED BY <1>2, <2>2, <3>2
  <2>9. ASSUME NEW i \in 1..m
        PROVE  LET old == IF i < k THEN fr[i] ELSE fr[i + 1]
               IN  /\ g[i].id = old.id /\ g[i].start = old.start
                   /\ g[i].child = IF Charges(fr, k, s) /\ i = k - 1 THEN old.child + d ELSE old.child
    <3>1. h[i] = IF i < k THEN fr[i] ELSE fr[i + 1] BY <1>2
    <3>2. CASE i = m BY <3>1, <3>2, <2>2, <2>5, <2>7, <1>6
    <3>3. CASE i # m BY <3>1, <3>3, <2>2, <2>7
    <3> QED BY <3>2, <3>3
  <2> QED BY <2>8, <2>9 DEF g, Popped
<1> QED BY <1>5, <1>6

\* A stack stays in order as ids are given out and time passes.
LEMMA FramesLater ==
  ASSUME NEW fr, NEW n \in Nat, NEW t \in Nat, FramesOK(fr, n, t),
         NEW n2 \in Nat, NEW t2 \in Nat, n <= n2, t <= t2
  PROVE  FramesOK(fr, n2, t2)
<1>1. fr \in Seq(FrameSet) /\ Len(fr) \in Nat
      /\ \A i \in 1..Len(fr) : fr[i].id \in Nat /\ fr[i].start \in Nat /\ fr[i].child \in Nat
  <2>1. fr \in Seq(FrameSet) /\ Len(fr) \in Nat /\ \A i \in 1..Len(fr) : fr[i] \in FrameSet
    BY DEF FramesOK
  <2> QED BY <2>1 DEF FrameSet
<1>2. \A i \in 1..Len(fr) : fr[i].id <= n2 /\ fr[i].start <= t2 BY <1>1 DEF FramesOK
<1>3. ASSUME NEW i \in 1..Len(fr)
      PROVE  fr[i].child <= (IF i = Len(fr) THEN t2 ELSE fr[i + 1].start) - fr[i].start
  <2>1. fr[i].child <= (IF i = Len(fr) THEN t ELSE fr[i + 1].start) - fr[i].start BY DEF FramesOK
  <2>2. i # Len(fr) => i + 1 \in 1..Len(fr) BY <1>1
  <2> QED BY <1>1, <2>1, <2>2
<1> QED BY <1>1, <1>2, <1>3 DEF FramesOK

\* Span::Span puts its frame on top.
LEMMA FramesPush ==
  ASSUME NEW fr, NEW n \in Nat, NEW t \in Nat, FramesOK(fr, n, t)
  PROVE  FramesOK(Append(fr, [id |-> n + 1, start |-> t, child |-> 0]), n + 1, t)
<1> DEFINE x == [id |-> n + 1, start |-> t, child |-> 0]
           g == Append(fr, x)
           m == Len(fr)
<1>1. fr \in Seq(FrameSet) /\ m \in Nat
      /\ \A i \in 1..m : fr[i].id \in Nat /\ fr[i].start \in Nat /\ fr[i].child \in Nat
  <2>1. fr \in Seq(FrameSet) /\ Len(fr) \in Nat /\ \A i \in 1..Len(fr) : fr[i] \in FrameSet
    BY DEF FramesOK
  <2> QED BY <2>1 DEF FrameSet
<1>2. x \in FrameSet /\ x.id = n + 1 /\ x.start = t /\ x.child = 0 BY DEF FrameSet
<1> HIDE DEF x
<1>3. g \in Seq(FrameSet) /\ Len(g) = m + 1 /\ (\A i \in 1..m : g[i] = fr[i]) /\ g[m + 1] = x
  BY <1>1, <1>2
<1>4. 1..(m + 1) = 1..m \cup {m + 1} /\ m + 1 \notin 1..m BY <1>1
<1> HIDE DEF g, m
<1>5. (\A i \in 1..m : fr[i].id <= n /\ fr[i].start <= t)
      /\ (\A i, j \in 1..m : i < j => fr[i].id < fr[j].id /\ fr[i].start <= fr[j].start)
      /\ (\A i \in 1..m : fr[i].child <= (IF i = m THEN t ELSE fr[i + 1].start) - fr[i].start)
  BY DEF FramesOK, m
<1>6. ASSUME NEW i \in 1..(m + 1) PROVE g[i].id <= n + 1 /\ g[i].start <= t
  <2>1. CASE i = m + 1 BY <1>2, <1>3, <2>1
  <2>2. CASE i \in 1..m
    <3>1. fr[i].id <= n /\ fr[i].start <= t /\ fr[i].id \in Nat BY <1>1, <1>5, <2>2
    <3>2. g[i] = fr[i] BY <1>3, <2>2
    <3> QED BY <3>1, <3>2
  <2> QED BY <1>4, <2>1, <2>2
<1>7. ASSUME NEW i \in 1..(m + 1), NEW j \in 1..(m + 1), i < j
      PROVE  g[i].id < g[j].id /\ g[i].start <= g[j].start
  <2>1. i \in 1..m BY <1>1, <1>7
  <2>2. CASE j = m + 1
    <3>1. g[i] = fr[i] /\ g[j] = x BY <1>3, <2>1, <2>2
    <3>2. fr[i].id <= n /\ fr[i].id \in Nat /\ fr[i].start <= t BY <1>1, <1>5, <2>1
    <3>3. fr[i].id < n + 1 BY <3>2
    <3> QED BY <1>2, <3>1, <3>2, <3>3
  <2>3. CASE j \in 1..m
    <3>1. g[i] = fr[i] /\ g[j] = fr[j] BY <1>3, <2>1, <2>3
    <3>2. fr[i].id < fr[j].id /\ fr[i].start <= fr[j].start BY <1>5, <1>7, <2>1, <2>3
    <3> QED BY <3>1, <3>2
  <2> QED BY <1>4, <2>2, <2>3
<1>8. ASSUME NEW i \in 1..(m + 1)
      PROVE  g[i].child <= (IF i = m + 1 THEN t ELSE g[i + 1].start) - g[i].start
  <2>1. CASE i = m + 1 BY <1>2, <1>3, <2>1
  <2>2. CASE i = m
    <3>1. i \in 1..m /\ i + 1 = m + 1 /\ i # m + 1 BY <1>1, <2>2
    <3>2. g[i + 1].start = t BY <3>1, <1>2, <1>3
    <3>3. fr[i].child <= t - fr[i].start BY <3>1, <2>2, <1>5
    <3> QED BY <3>1, <3>2, <3>3, <1>3
  <2>3. CASE i # m /\ i # m + 1
    <3>1. i \in 1..m /\ i + 1 \in 1..m /\ i # m + 1 BY <1>1, <2>3
    <3>2. fr[i].child <= fr[i + 1].start - fr[i].start BY <3>1, <2>3, <1>5
    <3> QED BY <3>1, <3>2, <1>3
  <2> QED BY <2>1, <2>2, <2>3
<1> QED BY <1>3, <1>6, <1>7, <1>8 DEF FramesOK, g, x

\* Span::end keeps the order and the fit, whichever span it takes out.
LEMMA FramesPop ==
  ASSUME NEW fr, NEW n \in Nat, NEW t \in Nat, FramesOK(fr, n, t), NEW k \in 1..Len(fr),
         NEW s, s.id = fr[k].id, s.start = fr[k].start, s.parent \in Nat, s.parent < s.id
  PROVE  t - s.start \in Nat /\ FramesOK(Pop(fr, k, s, t - s.start), n, t)
<1> DEFINE d == t - s.start
           g == Pop(fr, k, s, d)
           L == Len(fr)
           Old(i) == IF i < k THEN i ELSE i + 1
<1>1. fr \in Seq(FrameSet) /\ L \in Nat
      /\ \A i \in 1..L : fr[i].id \in Nat /\ fr[i].start \in Nat /\ fr[i].child \in Nat
  <2>1. fr \in Seq(FrameSet) /\ Len(fr) \in Nat /\ \A i \in 1..Len(fr) : fr[i] \in FrameSet
    BY DEF FramesOK
  <2> QED BY <2>1 DEF FrameSet
<1>2. (\A i \in 1..L : fr[i].id <= n /\ fr[i].start <= t)
      /\ (\A i, j \in 1..L : i < j => fr[i].id < fr[j].id /\ fr[i].start <= fr[j].start)
      /\ (\A i \in 1..L : fr[i].child <= (IF i = L THEN t ELSE fr[i + 1].start) - fr[i].start)
  BY DEF FramesOK
<1>3. d \in Nat /\ d = t - fr[k].start BY <1>1, <1>2
<1> HIDE DEF d
<1>4. /\ g \in Seq(FrameSet) /\ Len(g) = L - 1
      /\ \A i \in 1..(L - 1) :
           LET old == IF i < k THEN fr[i] ELSE fr[i + 1]
           IN  /\ g[i].id = old.id /\ g[i].start = old.start
               /\ g[i].child = IF Charges(fr, k, s) /\ i = k - 1 THEN old.child + d ELSE old.child
  <2>1. d \in Nat BY <1>3
  <2> HIDE DEF g
  <2>2. Popped(Pop(fr, k, s, d), fr, k, s, d) BY <2>1, PopIs
  <2>3. Popped(g, fr, k, s, d) BY <2>2 DEF g
  <2> QED BY <2>3 DEF Popped
<1> HIDE DEF g, L
<1>a. L \in Nat BY <1>1
<1>5. \A i \in 1..(L - 1) :
        /\ Old(i) \in 1..L /\ g[i].id = fr[Old(i)].id /\ g[i].start = fr[Old(i)].start
        /\ g[i].child = IF Charges(fr, k, s) /\ i = k - 1 THEN fr[Old(i)].child + d ELSE fr[Old(i)].child
  <2> TAKE i \in 1..(L - 1)
  <2>1. CASE i < k
    <3>1. Old(i) = i /\ i \in 1..L BY <1>a, <2>1
    <3> QED BY <1>4, <2>1, <3>1
  <2>2. CASE ~(i < k)
    <3>1. Old(i) = i + 1 /\ i + 1 \in 1..L BY <1>a, <2>2
    <3> QED BY <1>4, <2>2, <3>1
  <2> QED BY <2>1, <2>2
<1>6. \A i, j \in 1..(L - 1) : i < j => Old(i) < Old(j) BY <1>a
<1>7. Charges(fr, k, s) => k = L /\ k > 1 BY DEF Charges, L
<1>8. \A i \in 1..(L - 1) : g[i].id <= n /\ g[i].start <= t BY <1>2, <1>5
<1>9. \A i, j \in 1..(L - 1) : i < j => g[i].id < g[j].id /\ g[i].start <= g[j].start
  <2> HIDE DEF Old
  <2> QED BY <1>2, <1>5, <1>6
<1>10. ASSUME NEW i \in 1..(L - 1)
       PROVE  g[i].child <= (IF i = L - 1 THEN t ELSE g[i + 1].start) - g[i].start
  <2>0. k \in 1..L BY DEF L
  <2>a. L \in Nat BY <1>a
  <2>b. i \in Nat /\ 1 <= i /\ i <= L - 1 /\ k \in Nat /\ 1 <= k /\ k <= L BY <2>a, <2>0
  <2>1. CASE i = k - 1 /\ k = L
    <3>1. Old(i) = i /\ i = L - 1 /\ i \in 1..L /\ i # L /\ i + 1 = k BY <2>a, <2>b, <2>1
    <3>2. fr[i].child <= fr[k].start - fr[i].start BY <1>2, <3>1
    <3>3. g[i].start = fr[i].start /\ (g[i].child = fr[i].child + d \/ g[i].child = fr[i].child)
      BY <1>5, <3>1
    <3>4. fr[i].child \in Nat /\ fr[k].start \in Nat /\ fr[i].start \in Nat BY <1>1, <2>0, <3>1
    <3>5. \A c, f, e \in Nat : c <= e - f /\ t - e \in Nat => c <= t - f /\ c + (t - e) <= t - f
      OBVIOUS
    <3>6. t - fr[k].start \in Nat BY <1>3
    <3>7. fr[i].child <= t - fr[i].start /\ fr[i].child + (t - fr[k].start) <= t - fr[i].start
      BY <3>2, <3>4, <3>5, <3>6
    <3>8. g[i].child <= t - g[i].start BY <1>3, <3>3, <3>7
    <3> QED BY <3>1, <3>8
  <2>2. CASE i = k - 1 /\ k # L
    <3>1. Old(i) = i /\ i # L - 1 /\ i \in 1..L /\ i # L /\ i + 1 = k /\ i + 1 \in 1..(L - 1)
          /\ Old(i + 1) = k + 1 /\ k + 1 \in 1..L /\ k < k + 1
      <4>1. i + 1 = k /\ i < k /\ ~(i + 1 < k) /\ k <= L - 1 BY <2>a, <2>b, <2>2
      <4>2. Old(i) = i /\ Old(i + 1) = k + 1 BY <4>1
      <4>3. i # L - 1 /\ i \in 1..L /\ i # L /\ i + 1 \in 1..(L - 1) /\ k + 1 \in 1..L /\ k < k + 1
        BY <2>a, <2>b, <4>1
      <4> QED BY <4>1, <4>2, <4>3
    <3>2. fr[i].child <= fr[k].start - fr[i].start /\ fr[k].start <= fr[k + 1].start
      BY <1>2, <3>1, <2>0
    <3>3. g[i].start = fr[i].start /\ g[i].child = fr[i].child BY <1>5, <1>7, <2>2, <3>1
    <3>4. g[i + 1].start = fr[k + 1].start BY <1>5, <3>1
    <3>5. fr[i].child \in Nat /\ fr[k].start \in Nat /\ fr[i].start \in Nat /\ fr[k + 1].start \in Nat
      BY <1>1, <2>0, <3>1
    <3>6. \A c, f, e, z \in Nat : c <= e - f /\ e <= z => c <= z - f OBVIOUS
    <3>7. fr[i].child <= fr[k + 1].start - fr[i].start BY <3>2, <3>5, <3>6
    <3> QED BY <3>1, <3>3, <3>4, <3>7
  <2>3. CASE i # k - 1 /\ i = L - 1
    <3>1. Old(i) = L /\ L \in 1..L BY <2>a, <2>b, <2>3
    <3>2. fr[L].child <= t - fr[L].start BY <1>2, <3>1
    <3> QED BY <1>5, <2>3, <3>1, <3>2
  <2>4. CASE i # k - 1 /\ i # L - 1
    <3>1. i + 1 \in 1..(L - 1) /\ Old(i + 1) = Old(i) + 1 /\ Old(i) # L /\ Old(i) \in 1..L
      <4>1. L \in Nat /\ i \in Nat /\ k \in Nat /\ 1 <= i /\ i < L - 1 /\ 1 <= k /\ k <= L
        BY <2>a, <2>b, <2>4
      <4>2. i + 1 \in 1..(L - 1) /\ i \in 1..L /\ i + 1 \in 1..L /\ i # L /\ i + 1 # L BY <4>1
      <4>3. CASE i < k
        <5>1. i + 1 < k BY <2>4, <4>1, <4>3
        <5>2. Old(i) = i /\ Old(i + 1) = i + 1 BY <4>3, <5>1
        <5> QED BY <4>2, <5>2
      <4>4. CASE ~(i < k)
        <5>1. ~(i + 1 < k) BY <4>1, <4>4
        <5>2. Old(i) = i + 1 /\ Old(i + 1) = (i + 1) + 1 BY <4>4, <5>1
        <5> QED BY <4>2, <5>2
      <4> QED BY <4>3, <4>4
    <3> HIDE DEF Old
    <3>2. fr[Old(i)].child <= fr[Old(i) + 1].start - fr[Old(i)].start BY <1>2, <3>1
    <3>3. g[i].start = fr[Old(i)].start /\ g[i].child = fr[Old(i)].child
          /\ g[i + 1].start = fr[Old(i) + 1].start
      BY <1>5, <2>4, <3>1
    <3> QED BY <2>4, <3>2, <3>3
  <2> QED BY <2>1, <2>2, <2>3, <2>4
<1> QED BY <1>3, <1>4, <1>8, <1>9, <1>10 DEF FramesOK, g, d

\* One more frame x on top of worker w's stack.
Pushed(stk2, stk, w, x) ==
  /\ \A u \in Workers : /\ \A i \in 1..Len(stk[u]) : i \in 1..Len(stk2[u]) /\ stk2[u][i] = stk[u][i]
                        /\ \A i \in 1..Len(stk2[u]) :
                             i \in 1..Len(stk[u]) \/ (u = w /\ i = Len(stk[w]) + 1)
  /\ Len(stk[w]) + 1 \in 1..Len(stk2[w]) /\ stk2[w][Len(stk[w]) + 1] = x

LEMMA PushIs ==
  ASSUME NEW stk, DOMAIN stk = Workers, NEW w \in Workers, NEW n \in Nat, NEW t \in Nat,
         StacksOK(stk, n, t), NEW x \in FrameSet
  PROVE  Pushed([stk EXCEPT ![w] = Append(@, x)], stk, w, x)
<1> DEFINE stk2 == [stk EXCEPT ![w] = Append(@, x)]
<1>1. \A u \in Workers : stk[u] \in Seq(FrameSet) /\ Len(stk[u]) \in Nat BY DEF StacksOK, FramesOK
<1>2. stk2[w] = Append(stk[w], x) /\ \A u \in Workers : u # w => stk2[u] = stk[u] OBVIOUS
<1> HIDE DEF stk2
<1>3. Len(stk2[w]) = Len(stk[w]) + 1 /\ stk2[w][Len(stk[w]) + 1] = x
      /\ \A i \in 1..Len(stk[w]) : stk2[w][i] = stk[w][i]
  BY <1>1, <1>2
<1>4. Pushed(stk2, stk, w, x)
  <2>1. ASSUME NEW u \in Workers
        PROVE  /\ \A i \in 1..Len(stk[u]) : i \in 1..Len(stk2[u]) /\ stk2[u][i] = stk[u][i]
               /\ \A i \in 1..Len(stk2[u]) : i \in 1..Len(stk[u]) \/ (u = w /\ i = Len(stk[w]) + 1)
    <3>1. CASE u # w BY <1>2, <3>1
    <3>2. CASE u = w
      <4>1. Len(stk[w]) \in Nat BY <1>1
      <4> QED BY <1>3, <3>2, <4>1
    <3> QED BY <3>1, <3>2
  <2>2. Len(stk[w]) + 1 \in 1..Len(stk2[w]) BY <1>1, <1>3
  <2> QED BY <2>1, <2>2, <1>3 DEF Pushed
<1> QED BY <1>4 DEF stk2

\* Numbers of the frames and spans.
LEMMA FrameNumbers ==
  ASSUME NEW stk, NEW n \in Nat, NEW t \in Nat, StacksOK(stk, n, t)
  PROVE  \A u \in Workers :
           /\ Len(stk[u]) \in Nat
           /\ \A i \in 1..Len(stk[u]) :
                /\ stk[u][i] \in FrameSet /\ stk[u][i].id \in Nat \ {0} /\ stk[u][i].id <= n
                /\ stk[u][i].start \in Nat /\ stk[u][i].start <= t /\ stk[u][i].child \in Nat
           /\ \A i, j \in 1..Len(stk[u]) : stk[u][i].id = stk[u][j].id => i = j
<1> TAKE u \in Workers
<1>1. FramesOK(stk[u], n, t) BY DEF StacksOK
<1>2. Len(stk[u]) \in Nat /\ \A i \in 1..Len(stk[u]) : stk[u][i] \in FrameSet BY <1>1 DEF FramesOK
<1>3. \A i \in 1..Len(stk[u]) :
        /\ stk[u][i].id \in Nat \ {0} /\ stk[u][i].start \in Nat /\ stk[u][i].child \in Nat
        /\ stk[u][i].id <= n /\ stk[u][i].start <= t
  BY <1>1, <1>2 DEF FramesOK, FrameSet
<1>4. ASSUME NEW i \in 1..Len(stk[u]), NEW j \in 1..Len(stk[u]), stk[u][i].id = stk[u][j].id
      PROVE  i = j
  <2>1. i < j => stk[u][i].id < stk[u][j].id BY <1>1 DEF FramesOK
  <2>2. j < i => stk[u][j].id < stk[u][i].id BY <1>1 DEF FramesOK
  <2>3. stk[u][i].id \in Nat /\ stk[u][j].id \in Nat BY <1>3
  <2> QED BY <1>2, <1>4, <2>1, <2>2, <2>3
<1> QED BY <1>2, <1>3, <1>4

\* The span begun by Span::Span.
Begun(stk, w, n, t) ==
  [id |-> n + 1, parent |-> IF stk[w] = <<>> THEN 0 ELSE back(stk[w]).id, start |-> t, worker |-> w,
   depth |-> Len(stk[w])]

LEMMA BegunIs ==
  ASSUME NEW stk, NEW n \in Nat, NEW t \in Nat, StacksOK(stk, n, t), NEW w \in Workers
  PROVE  LET s == Begun(stk, w, n, t)
         IN  /\ s \in SpanSet /\ s.id = n + 1 /\ s.start = t /\ s.worker = w /\ s.depth = Len(stk[w])
             /\ s.parent = (IF Len(stk[w]) = 0 THEN 0 ELSE stk[w][Len(stk[w])].id) /\ s.parent < s.id
<1> DEFINE p == IF stk[w] = <<>> THEN 0 ELSE back(stk[w]).id
           q == IF Len(stk[w]) = 0 THEN 0 ELSE stk[w][Len(stk[w])].id
<1>1. Len(stk[w]) \in Nat /\ stk[w] \in Seq(FrameSet) BY DEF StacksOK, FramesOK
<1>2. stk[w] = <<>> <=> Len(stk[w]) = 0 BY <1>1, EmptySeq
<1>3. p = q BY <1>2 DEF back
<1>4. q \in Nat /\ q <= n
  <2>1. Len(stk[w]) # 0 => Len(stk[w]) \in 1..Len(stk[w]) BY <1>1
  <2>2. Len(stk[w]) # 0 => stk[w][Len(stk[w])].id \in Nat /\ stk[w][Len(stk[w])].id <= n
    BY <2>1, FrameNumbers
  <2> QED BY <2>2
<1>5. Begun(stk, w, n, t) = [id |-> n + 1, parent |-> p, start |-> t, worker |-> w, depth |-> Len(stk[w])]
  BY DEF Begun
<1> HIDE DEF p, q
<1>6. Begun(stk, w, n, t) \in SpanSet /\ p < n + 1 BY <1>1, <1>3, <1>4, <1>5 DEF SpanSet
<1> QED BY <1>3, <1>5, <1>6 DEF q

LEMMA LivePush ==
  ASSUME NEW stk, NEW n \in Nat, NEW t \in Nat, StacksOK(stk, n, t), NEW w \in Workers,
         NEW lv, LiveOK(lv, stk), NEW s, s \in SpanSet, s.id = n + 1, s.start = t, s.worker = w,
         s.parent < s.id, NEW x, x.id = n + 1, x.start = t, NEW stk2, Pushed(stk2, stk, w, x)
  PROVE  LiveOK(lv \cup {s}, stk2)
<1>1. \A v \in lv : v \in SpanSet /\ v.worker \in Workers BY DEF LiveOK, SpanSet
<1>2. \A v \in lv : v.id \in Nat /\ v.id <= n
  <2> TAKE v \in lv
  <2>1. PICK i \in 1..Len(stk[v.worker]) : stk[v.worker][i].id = v.id BY DEF LiveOK
  <2> QED BY <1>1, <2>1, FrameNumbers
<1>3. lv \cup {s} \subseteq SpanSet /\ \A v \in lv \cup {s} : v.parent < v.id BY DEF LiveOK
<1>4. ASSUME NEW v \in lv \cup {s}
      PROVE  \E i \in 1..Len(stk2[v.worker]) :
               stk2[v.worker][i].id = v.id /\ stk2[v.worker][i].start = v.start
  <2>1. CASE v \in lv
    <3>1. PICK i \in 1..Len(stk[v.worker]) :
                 stk[v.worker][i].id = v.id /\ stk[v.worker][i].start = v.start
      BY <2>1 DEF LiveOK
    <3>2. i \in 1..Len(stk2[v.worker]) /\ stk2[v.worker][i] = stk[v.worker][i]
      BY <1>1, <2>1 DEF Pushed
    <3> QED BY <3>1, <3>2
  <2>2. CASE v = s BY <2>2 DEF Pushed
  <2> QED BY <2>1, <2>2
<1>5. ASSUME NEW u \in Workers, NEW i \in 1..Len(stk2[u])
      PROVE  \E v \in lv \cup {s} : v.worker = u /\ v.id = stk2[u][i].id
  <2>1. CASE i \in 1..Len(stk[u])
    <3>1. PICK v \in lv : v.worker = u /\ v.id = stk[u][i].id BY <2>1 DEF LiveOK
    <3>2. stk2[u][i] = stk[u][i] BY <2>1 DEF Pushed
    <3> QED BY <3>1, <3>2
  <2>2. CASE u = w /\ i = Len(stk[w]) + 1 BY <2>2 DEF Pushed
  <2> QED BY <2>1, <2>2 DEF Pushed
<1>6. ASSUME NEW v \in lv \cup {s}, NEW u \in lv \cup {s}, v.id = u.id PROVE v = u
  <2>1. CASE v \in lv /\ u \in lv BY <2>1, <1>6 DEF LiveOK
  <2>2. \A z \in lv : z.id # s.id BY <1>2
  <2> QED BY <2>1, <2>2, <1>6
<1> QED BY <1>3, <1>4, <1>5, <1>6 DEF LiveOK

LEMMA NestPush ==
  ASSUME NEW stk, NEW n \in Nat, NEW t \in Nat, StacksOK(stk, n, t), NEW w \in Workers,
         NEW lv, LiveOK(lv, stk), NestOK(lv, stk), NEW s, s.id = n + 1, s.worker = w,
         s.depth = Len(stk[w]),
         s.parent = (IF Len(stk[w]) = 0 THEN 0 ELSE stk[w][Len(stk[w])].id),
         NEW x, x.id = n + 1, NEW stk2, Pushed(stk2, stk, w, x)
  PROVE  NestOK(lv \cup {s}, stk2)
<1>1. \A v \in lv : v.worker \in Workers BY DEF LiveOK, SpanSet
<1>2. \A v \in lv : v.id \in Nat /\ v.id <= n
  <2> TAKE v \in lv
  <2>1. PICK i \in 1..Len(stk[v.worker]) : stk[v.worker][i].id = v.id BY DEF LiveOK
  <2> QED BY <1>1, <2>1, FrameNumbers
<1>3. ASSUME NEW v \in lv \cup {s}, NEW i \in 1..Len(stk2[v.worker]), stk2[v.worker][i].id = v.id
      PROVE  v.depth = i - 1 /\ v.parent = IF i = 1 THEN 0 ELSE stk2[v.worker][i - 1].id
  <2>1. CASE v \in lv
    <3>1. i \in 1..Len(stk[v.worker])
      <4>1. v.worker = w /\ i = Len(stk[w]) + 1 => stk2[v.worker][i].id = n + 1 BY DEF Pushed
      <4>2. v.id # n + 1 BY <1>2, <2>1
      <4> QED BY <1>1, <1>3, <2>1, <4>1, <4>2 DEF Pushed
    <3>2. stk2[v.worker][i] = stk[v.worker][i] BY <3>1, <1>1, <2>1 DEF Pushed
    <3>3. v.depth = i - 1 /\ v.parent = IF i = 1 THEN 0 ELSE stk[v.worker][i - 1].id
      BY <1>3, <2>1, <3>1, <3>2 DEF NestOK
    <3>4. i # 1 => i - 1 \in 1..Len(stk[v.worker]) BY <3>1, <1>1, <2>1, FrameNumbers
    <3>5. i # 1 => stk2[v.worker][i - 1] = stk[v.worker][i - 1] BY <3>4, <1>1, <2>1 DEF Pushed
    <3> QED BY <3>3, <3>5
  <2>2. CASE v = s
    <3>1. i = Len(stk[w]) + 1
      <4>1. ASSUME i \in 1..Len(stk[w]) PROVE FALSE
        <5>1. stk2[w][i] = stk[w][i] BY <4>1 DEF Pushed
        <5>2. stk[w][i].id <= n /\ stk[w][i].id \in Nat BY <4>1, FrameNumbers
        <5> QED BY <5>1, <5>2, <1>3, <2>2
      <4> QED BY <4>1, <2>2 DEF Pushed
    <3>2. Len(stk[w]) \in Nat BY FrameNumbers
    <3>3. i - 1 = Len(stk[w]) /\ (i = 1 <=> Len(stk[w]) = 0) BY <3>1, <3>2
    <3>4. Len(stk[w]) # 0 => stk2[w][Len(stk[w])] = stk[w][Len(stk[w])]
      <4>1. Len(stk[w]) # 0 => Len(stk[w]) \in 1..Len(stk[w]) BY <3>2
      <4> QED BY <4>1 DEF Pushed
    <3> QED BY <2>2, <3>3, <3>4
  <2> QED BY <2>1, <2>2
<1> QED BY <1>3 DEF NestOK

\* Worker w's stack without its k-th frame, ids and begin times.
Removed(stk2, stk, w, k) ==
  /\ \A u \in Workers : u # w => stk2[u] = stk[u]
  /\ Len(stk2[w]) = Len(stk[w]) - 1
  /\ \A i \in 1..(Len(stk[w]) - 1) :
       LET j == IF i < k THEN i ELSE i + 1
       IN  j \in 1..Len(stk[w]) /\ stk2[w][i].id = stk[w][j].id /\ stk2[w][i].start = stk[w][j].start

LEMMA RemoveIs ==
  ASSUME NEW stk, DOMAIN stk = Workers, NEW w \in Workers, NEW n \in Nat, NEW t \in Nat,
         StacksOK(stk, n, t), NEW k \in 1..Len(stk[w]), NEW g, NEW s, NEW d, Popped(g, stk[w], k, s, d)
  PROVE  Removed([stk EXCEPT ![w] = g], stk, w, k)
<1> DEFINE stk2 == [stk EXCEPT ![w] = g]
<1>1. stk2[w] = g /\ \A u \in Workers : u # w => stk2[u] = stk[u] OBVIOUS
<1>2. Len(stk[w]) \in Nat BY FrameNumbers
<1> HIDE DEF stk2
<1>3. Len(g) = Len(stk[w]) - 1 BY DEF Popped
<1>4. ASSUME NEW i \in 1..(Len(stk[w]) - 1)
      PROVE  LET j == IF i < k THEN i ELSE i + 1
             IN  j \in 1..Len(stk[w]) /\ g[i].id = stk[w][j].id /\ g[i].start = stk[w][j].start
  <2>1. LET old == IF i < k THEN stk[w][i] ELSE stk[w][i + 1] IN g[i].id = old.id /\ g[i].start = old.start
    BY DEF Popped
  <2>2. i \in 1..Len(stk[w]) /\ i + 1 \in 1..Len(stk[w]) BY <1>2
  <2> QED BY <2>1, <2>2
<1>5. Removed(stk2, stk, w, k) BY <1>1, <1>3, <1>4 DEF Removed
<1> QED BY <1>5 DEF stk2

LEMMA LivePop ==
  ASSUME NEW stk, NEW n \in Nat, NEW t \in Nat, StacksOK(stk, n, t),
         NEW lv, LiveOK(lv, stk), NEW s \in lv, NEW k \in 1..Len(stk[s.worker]),
         stk[s.worker][k].id = s.id, NEW stk2, Removed(stk2, stk, s.worker, k)
  PROVE  LiveOK(lv \ {s}, stk2)
<1> DEFINE w == s.worker
<1>1. w \in Workers /\ \A v \in lv : v.worker \in Workers BY DEF LiveOK, SpanSet
<1>2. Len(stk[w]) \in Nat /\ \A i, j \in 1..Len(stk[w]) : stk[w][i].id = stk[w][j].id => i = j
  BY <1>1, FrameNumbers
<1>3. lv \ {s} \subseteq SpanSet /\ \A v \in lv \ {s} : v.parent < v.id BY DEF LiveOK
<1>4. ASSUME NEW v \in lv \ {s}
      PROVE  \E i \in 1..Len(stk2[v.worker]) :
               stk2[v.worker][i].id = v.id /\ stk2[v.worker][i].start = v.start
  <2>1. PICK j \in 1..Len(stk[v.worker]) :
               stk[v.worker][j].id = v.id /\ stk[v.worker][j].start = v.start
    BY DEF LiveOK
  <2>2. CASE v.worker # w BY <1>1, <2>1, <2>2 DEF Removed
  <2>3. CASE v.worker = w
    <3>1. v.id # s.id BY DEF LiveOK
    <3>2. j # k BY <2>1, <2>3, <3>1
    <3> DEFINE i == IF j < k THEN j ELSE j - 1
    <3>3. i \in 1..(Len(stk[w]) - 1) /\ j = IF i < k THEN i ELSE i + 1 BY <1>2, <2>1, <2>3, <3>2
    <3> HIDE DEF i
    <3>4. stk2[w][i].id = stk[w][j].id /\ stk2[w][i].start = stk[w][j].start /\ i \in 1..Len(stk2[w])
      BY <3>3 DEF Removed
    <3> QED BY <2>1, <2>3, <3>4
  <2> QED BY <2>2, <2>3
<1>5. ASSUME NEW u \in Workers, NEW i \in 1..Len(stk2[u])
      PROVE  \E v \in lv \ {s} : v.worker = u /\ v.id = stk2[u][i].id
  <2>1. CASE u # w
    <3>1. stk2[u] = stk[u] BY <2>1 DEF Removed
    <3>2. i \in 1..Len(stk[u]) BY <3>1
    <3>3. \A j \in 1..Len(stk[u]) : \E v \in lv : v.worker = u /\ v.id = stk[u][j].id BY DEF LiveOK
    <3>4. PICK v \in lv : v.worker = u /\ v.id = stk[u][i].id BY <3>2, <3>3, Zenon
    <3> QED BY <2>1, <3>1, <3>4
  <2>2. CASE u = w
    <3> DEFINE j == IF i < k THEN i ELSE i + 1
    <3>1. i \in 1..(Len(stk[w]) - 1) BY <2>2 DEF Removed
    <3>2. j \in 1..Len(stk[w]) /\ stk2[w][i].id = stk[w][j].id BY <3>1 DEF Removed
    <3>3. j # k BY <1>2, <3>1
    <3> HIDE DEF j
    <3>4. PICK v \in lv : v.worker = w /\ v.id = stk[w][j].id BY <1>1, <3>2 DEF LiveOK
    <3>5. v # s BY <1>2, <3>2, <3>3, <3>4
    <3> QED BY <2>2, <3>2, <3>4, <3>5
  <2> QED BY <2>1, <2>2
<1>6. \A v, u \in lv \ {s} : v.id = u.id => v = u BY DEF LiveOK
<1> QED BY <1>3, <1>4, <1>5, <1>6 DEF LiveOK

LEMMA NestPop ==
  ASSUME NEW stk, NEW n \in Nat, NEW t \in Nat, StacksOK(stk, n, t),
         NEW lv, LiveOK(lv, stk), NestOK(lv, stk), NEW s \in lv, NEW stk2,
         Removed(stk2, stk, s.worker, Len(stk[s.worker]))
  PROVE  NestOK(lv \ {s}, stk2)
<1> DEFINE w == s.worker
<1>1. w \in Workers /\ \A v \in lv : v.worker \in Workers BY DEF LiveOK, SpanSet
<1>2. \A u \in Workers : Len(stk[u]) \in Nat BY FrameNumbers
<1>3. \A u \in Workers : \A i \in 1..Len(stk2[u]) : i \in 1..Len(stk[u]) /\ stk2[u][i].id = stk[u][i].id
  <2> TAKE u \in Workers
  <2>1. CASE u # w BY <2>1 DEF Removed
  <2>2. CASE u = w
    <3>1. Len(stk[w]) \in Nat /\ Len(stk2[w]) = Len(stk[w]) - 1 BY <1>1, <1>2 DEF Removed
    <3>2. ASSUME NEW i \in 1..Len(stk2[w]) PROVE i \in 1..Len(stk[w]) /\ stk2[w][i].id = stk[w][i].id
      <4>1. i < Len(stk[w]) /\ i \in 1..(Len(stk[w]) - 1) BY <3>1
      <4> QED BY <4>1 DEF Removed
    <3> QED BY <2>2, <3>2
  <2> QED BY <2>1, <2>2
<1>4. ASSUME NEW v \in lv \ {s}, NEW i \in 1..Len(stk2[v.worker]), stk2[v.worker][i].id = v.id
      PROVE  v.depth = i - 1 /\ v.parent = IF i = 1 THEN 0 ELSE stk2[v.worker][i - 1].id
  <2>1. i \in 1..Len(stk[v.worker]) /\ stk[v.worker][i].id = v.id BY <1>1, <1>3, <1>4
  <2>2. v.depth = i - 1 /\ v.parent = IF i = 1 THEN 0 ELSE stk[v.worker][i - 1].id BY <2>1 DEF NestOK
  <2>3. Len(stk2[v.worker]) \in Int
    <3>1. CASE v.worker = w BY <3>1, <1>1, <1>2 DEF Removed
    <3>2. CASE v.worker # w BY <3>2, <1>1, <1>2 DEF Removed
    <3> QED BY <3>1, <3>2
  <2>4. i # 1 => i - 1 \in 1..Len(stk2[v.worker]) BY <2>3
  <2>5. i # 1 => stk2[v.worker][i - 1].id = stk[v.worker][i - 1].id BY <1>1, <1>3, <2>4
  <2> QED BY <2>2, <2>5
<1> QED BY <1>4 DEF NestOK

\* Changing what is charged to one id shifts the partial sums from there on.
Shifted(C2, P2, C, P, a, e) ==
  /\ Sums(C2, P2) /\ C2[a] = C[a] + e /\ \A i \in Nat : i # a => C2[i] = C[i]
  /\ \A i \in Nat : i >= a => P2[i] = P[i] + e

LEMMA SumsShift ==
  ASSUME NEW C \in [Nat -> Int], NEW P \in [Nat -> Int], Sums(C, P), NEW a \in Nat, a # 0,
         NEW e \in Int
  PROVE  \E C2 \in [Nat -> Int], P2 \in [Nat -> Int] : Shifted(C2, P2, C, P, a, e)
<1> DEFINE C2 == [i \in Nat |-> IF i = a THEN C[i] + e ELSE C[i]]
           P2 == [i \in Nat |-> IF i >= a THEN P[i] + e ELSE P[i]]
<1>1. C2 \in [Nat -> Int] /\ P2 \in [Nat -> Int] OBVIOUS
<1>2. C2[a] = C[a] + e /\ (\A i \in Nat : i # a => C2[i] = C[i])
      /\ (\A i \in Nat : i >= a => P2[i] = P[i] + e) /\ \A i \in Nat : i < a => P2[i] = P[i]
  OBVIOUS
<1> HIDE DEF C2, P2
<1>3. Sums(C2, P2)
  <2>1. P2[0] = 0 BY <1>2 DEF Sums
  <2>2. ASSUME NEW k \in Nat PROVE P2[k + 1] = P2[k] + C2[k + 1]
    <3>1. P[k + 1] = P[k] + C[k + 1] /\ k + 1 \in Nat /\ P[k] \in Int /\ C[k + 1] \in Int BY DEF Sums
    <3>2. CASE k + 1 < a
      <4>1. k < a /\ k + 1 # a BY <3>2
      <4> QED BY <1>2, <3>1, <3>2, <4>1
    <3>3. CASE k + 1 = a
      <4>1. k < a /\ k + 1 >= a BY <3>3
      <4>2. P2[k + 1] = P[k + 1] + e /\ P2[k] = P[k] /\ C2[k + 1] = C[k + 1] + e BY <1>2, <3>1, <3>3, <4>1
      <4> QED BY <3>1, <4>2
    <3>4. CASE k + 1 > a
      <4>1. k >= a /\ k + 1 >= a /\ k + 1 # a BY <3>4
      <4>2. P2[k + 1] = P[k + 1] + e /\ P2[k] = P[k] + e /\ C2[k + 1] = C[k + 1] BY <1>2, <3>1, <4>1
      <4> QED BY <3>1, <4>2
    <3> QED BY <3>2, <3>3, <3>4
  <2> QED BY <2>1, <2>2 DEF Sums
<1> QED BY <1>1, <1>2, <1>3 DEF Shifted

\* No two frames of any threads have the same id.
OnlyFrame(stk, w, j) ==
  \A u \in Workers : \A i \in 1..Len(stk[u]) : stk[u][i].id = stk[w][j].id => u = w /\ i = j

LEMMA FrameUnique ==
  ASSUME NEW stk, NEW n \in Nat, NEW t \in Nat, StacksOK(stk, n, t), NEW lv, LiveOK(lv, stk)
  PROVE  \A w \in Workers : \A j \in 1..Len(stk[w]) : OnlyFrame(stk, w, j)
<1> SUFFICES ASSUME NEW u \in Workers, NEW w \in Workers, NEW i \in 1..Len(stk[u]),
                    NEW j \in 1..Len(stk[w]), stk[u][i].id = stk[w][j].id
             PROVE  u = w /\ i = j
  BY DEF OnlyFrame
<1>1. PICK s \in lv : s.worker = u /\ s.id = stk[u][i].id BY DEF LiveOK
<1>2. PICK v \in lv : v.worker = w /\ v.id = stk[w][j].id BY DEF LiveOK
<1>3. s = v BY <1>1, <1>2 DEF LiveOK
<1>4. u = w BY <1>1, <1>2, <1>3
<1> QED BY <1>4, FrameNumbers

\* Beginning a span leaves the balance alone.
LEMMA SumPush ==
  ASSUME NEW stk, NEW n \in Nat, NEW t \in Nat, StacksOK(stk, n, t), NEW w \in Workers,
         NEW x, x.id = n + 1, x.child = 0, NEW stk2, Pushed(stk2, stk, w, x),
         NEW self, NEW top, SumOK(stk, n, self, top)
  PROVE  SumOK(stk2, n + 1, self, top)
<1>1. PICK C \in [Nat -> Int], P \in [Nat -> Int] : Sums(C, P) /\ ChargedBy(C, stk) /\ self = top + P[n]
  BY DEF SumOK
<1>2. C[n + 1] = 0
  <2>1. ASSUME NEW u \in Workers, NEW i \in 1..Len(stk[u]), stk[u][i].id = n + 1 PROVE FALSE
    <3>1. stk[u][i].id \in Nat /\ stk[u][i].id <= n BY FrameNumbers
    <3> QED BY <3>1, <2>1
  <2>2. n + 1 \in Nat OBVIOUS
  <2> QED BY <1>1, <2>1, <2>2 DEF ChargedBy
<1>3. P[n + 1] = P[n]
  <2>1. P[n + 1] = P[n] + C[n + 1] /\ P[n] \in Int BY <1>1 DEF Sums
  <2> QED BY <1>2, <2>1
<1>4. ASSUME NEW u \in Workers, NEW i \in 1..Len(stk2[u]) PROVE C[stk2[u][i].id] = stk2[u][i].child
  <2>1. CASE i \in 1..Len(stk[u])
    <3>1. stk2[u][i] = stk[u][i] BY <2>1 DEF Pushed
    <3>2. C[stk[u][i].id] = stk[u][i].child BY <1>1, <2>1 DEF ChargedBy
    <3> QED BY <3>1, <3>2, Zenon
  <2>2. CASE u = w /\ i = Len(stk[w]) + 1
    <3>1. stk2[u][i] = x BY <2>2 DEF Pushed
    <3>2. stk2[u][i].id = n + 1 /\ stk2[u][i].child = 0 BY <3>1, Zenon
    <3> QED BY <1>2, <3>2, Zenon
  <2> QED BY <2>1, <2>2 DEF Pushed
<1>5. ASSUME NEW k \in Nat
      PROVE  C[k] = 0 \/ \E u \in Workers : \E i \in 1..Len(stk2[u]) : stk2[u][i].id = k
  <2> SUFFICES ASSUME C[k] # 0 PROVE \E u \in Workers : \E i \in 1..Len(stk2[u]) : stk2[u][i].id = k
    OBVIOUS
  <2>1. PICK u \in Workers : \E i \in 1..Len(stk[u]) : stk[u][i].id = k BY <1>1 DEF ChargedBy
  <2>1a. PICK i \in 1..Len(stk[u]) : stk[u][i].id = k BY <2>1
  <2>2. i \in 1..Len(stk2[u]) /\ stk2[u][i] = stk[u][i] BY DEF Pushed
  <2> QED BY <2>1a, <2>2
<1>6. ChargedBy(C, stk2) BY <1>4, <1>5 DEF ChargedBy
<1> QED BY <1>1, <1>3, <1>6 DEF SumOK

\* Ending the innermost span: its charges leave the balance, its duration joins
\* its parent's or the outermost durations.
LEMMA SumPop ==
  ASSUME NEW stk, DOMAIN stk = Workers, NEW n \in Nat, NEW t \in Nat, StacksOK(stk, n, t),
         NEW lv, LiveOK(lv, stk), NestOK(lv, stk), NEW s \in lv, NEW w \in Workers, s.worker = w,
         NEW k \in 1..Len(stk[w]), k = Len(stk[w]), stk[w][k].id = s.id, NEW d \in Nat,
         NEW g, Popped(g, stk[w], k, s, d),
         NEW self \in Int, NEW top \in Int, SumOK(stk, n, self, top)
  PROVE  SumOK([stk EXCEPT ![w] = g], n, self + (d - stk[w][k].child),
               IF s.depth = 0 THEN top + d ELSE top)
<1> DEFINE stk2 == [stk EXCEPT ![w] = g]
           c == stk[w][k].child
           a == stk[w][k].id
           p == stk[w][k - 1].id
<1>1. stk2[w] = g /\ \A u \in Workers : u # w => stk2[u] = stk[u] OBVIOUS
<1> HIDE DEF stk2
<1>2. Len(stk[w]) \in Nat /\ k \in Nat /\ k >= 1 /\ (k # 1 => k - 1 \in 1..Len(stk[w])) BY FrameNumbers
<1>3. a \in Nat /\ a # 0 /\ a <= n /\ c \in Nat
      /\ (k # 1 => p \in Nat /\ p # 0 /\ p <= n)
  <2>1. \A i \in 1..Len(stk[w]) : /\ stk[w][i].id \in Nat \ {0} /\ stk[w][i].id <= n
                                  /\ stk[w][i].child \in Nat
    BY FrameNumbers
  <2>2. stk[w][k].id \in Nat \ {0} /\ stk[w][k].id <= n /\ stk[w][k].child \in Nat BY <2>1
  <2>3. k # 1 => stk[w][k - 1].id \in Nat \ {0} /\ stk[w][k - 1].id <= n BY <1>2, <2>1
  <2>4. \A z \in Nat \ {0} : z \in Nat /\ z # 0 OBVIOUS
  <2> QED BY <2>2, <2>3, <2>4, Zenon
<1>4. k # 1 => p # a
  <2>1. k # 1 => k - 1 # k BY <1>2
  <2>2. \A i, j \in 1..Len(stk[w]) : stk[w][i].id = stk[w][j].id => i = j BY FrameNumbers
  <2> QED BY <1>2, <2>1, <2>2, Zenon
<1>5. s.depth = k - 1 /\ s.parent = IF k = 1 THEN 0 ELSE p BY DEF NestOK
<1>6. Charges(stk[w], k, s) <=> k # 1
  <2>1. k > 1 <=> k # 1 BY <1>2
  <2>2. k # 1 => s.parent = p BY <1>5
  <2> QED BY <2>1, <2>2, Zenon DEF Charges
<1>7. Len(g) = k - 1 /\ \A i \in 1..(k - 1) :
        /\ i \in 1..Len(stk[w]) /\ i # k /\ g[i].id = stk[w][i].id
        /\ g[i].child = IF i = k - 1 THEN stk[w][i].child + d ELSE stk[w][i].child
  <2>1. Len(g) = k - 1 BY DEF Popped
  <2>2. ASSUME NEW i \in 1..(k - 1)
        PROVE  /\ i \in 1..Len(stk[w]) /\ i # k /\ g[i].id = stk[w][i].id
               /\ g[i].child = IF i = k - 1 THEN stk[w][i].child + d ELSE stk[w][i].child
    <3>1. i < k /\ k # 1 /\ i \in 1..(Len(stk[w]) - 1) BY <1>2
    <3> QED BY <1>2, <1>6, <3>1 DEF Popped
  <2> QED BY <2>1, <2>2
<1>8. PICK C \in [Nat -> Int], P \in [Nat -> Int] :
             Sums(C, P) /\ ChargedBy(C, stk) /\ self = top + P[n]
  BY DEF SumOK
<1>9. C[a] = c BY <1>8 DEF ChargedBy
<1>10. PICK C1 \in [Nat -> Int], P1 \in [Nat -> Int] : Shifted(C1, P1, C, P, a, 0 - c)
  <2> HIDE DEF a, c
  <2>1. 0 - c \in Int BY <1>3
  <2> QED BY <1>3, <1>8, <2>1, SumsShift
<1>10a. Sums(C1, P1) /\ \A i \in Nat : i # a => C1[i] = C[i] BY <1>10 DEF Shifted
<1>11. C1[a] = 0 /\ P1[n] = P[n] - c
  <2> HIDE DEF a, c
  <2>1. P[n] \in Int /\ n >= a BY <1>3
  <2>2. P1[n] = P[n] + (0 - c) /\ C1[a] = C[a] + (0 - c) BY <1>10, <2>1 DEF Shifted
  <2> QED BY <1>3, <1>9, <2>1, <2>2
<1>11a. OnlyFrame(stk, w, k) /\ (k # 1 => OnlyFrame(stk, w, k - 1)) BY <1>2, FrameUnique
<1>12. \A u \in Workers : \A i \in 1..Len(stk[u]) :
         stk[u][i].id \in Nat /\ C[stk[u][i].id] = stk[u][i].child
         /\ (stk[u][i].id = a => u = w /\ i = k)
         /\ (k # 1 /\ stk[u][i].id = p => u = w /\ i = k - 1)
  <2> TAKE u \in Workers
  <2> TAKE i \in 1..Len(stk[u])
  <2>1. stk[u][i].id \in Nat BY FrameNumbers
  <2>2. C[stk[u][i].id] = stk[u][i].child BY <1>8 DEF ChargedBy
  <2>4. stk[u][i].id = a => u = w /\ i = k BY <1>11a DEF OnlyFrame
  <2>5. k # 1 /\ stk[u][i].id = p => u = w /\ i = k - 1 BY <1>11a DEF OnlyFrame
  <2> QED BY <2>1, <2>2, <2>4, <2>5
<1> HIDE DEF a, c, p
<1>13. CASE k = 1
  <2>1. \A i \in 1..Len(g) : FALSE BY <1>7, <1>13
  <2>2. ASSUME NEW u \in Workers, NEW i \in 1..Len(stk2[u]) PROVE C1[stk2[u][i].id] = stk2[u][i].child
    <3>1. u # w BY <1>1, <2>1
    <3>2. stk2[u] = stk[u] BY <1>1, <3>1
    <3>3. i \in 1..Len(stk[u]) BY <3>2
    <3>4. stk[u][i].id \in Nat /\ stk[u][i].id # a /\ C[stk[u][i].id] = stk[u][i].child
      BY <1>12, <3>1, <3>3
    <3> QED BY <1>10a, <3>2, <3>4
  <2>3. ASSUME NEW j \in Nat, C1[j] # 0
        PROVE  \E u \in Workers : \E i \in 1..Len(stk2[u]) : stk2[u][i].id = j
    <3>1. j # a /\ C[j] # 0 BY <1>10a, <1>11, <2>3
    <3>2. PICK u \in Workers : \E i \in 1..Len(stk[u]) : stk[u][i].id = j BY <1>8, <3>1 DEF ChargedBy
    <3>2a. PICK i \in 1..Len(stk[u]) : stk[u][i].id = j BY <3>2
    <3>3. u # w
      <4>1. u = w => i = k
        <5>1. 1..Len(stk[w]) = {1} BY <1>13
        <5> QED BY <1>13, <5>1
      <4> QED BY <3>1, <3>2a, <4>1 DEF a
    <3> QED BY <1>1, <3>2a, <3>3
  <2>4. ChargedBy(C1, stk2) BY <2>2, <2>3 DEF ChargedBy
  <2>5. s.depth = 0 BY <1>5, <1>13
  <2>6. self + (d - c) = (top + d) + P1[n]
    <3>1. P[n] \in Int OBVIOUS
    <3> QED BY <1>3, <1>8, <1>11, <3>1
  <2>7. SumOK(stk2, n, self + (d - c), top + d) BY <1>10a, <2>4, <2>6 DEF SumOK
  <2> QED BY <2>5, <2>7 DEF stk2, c
<1>14. CASE k # 1
  <2>0. PICK C2 \in [Nat -> Int], P2 \in [Nat -> Int] : Shifted(C2, P2, C1, P1, p, d)
    <3>1. p \in Nat /\ p # 0 /\ d \in Int BY <1>3, <1>14
    <3>2. Sums(C1, P1) BY <1>10 DEF Shifted
    <3> QED BY <3>1, <3>2, SumsShift
  <2>1. /\ Sums(C2, P2) /\ C2[p] = C1[p] + d /\ \A i \in Nat : i # p => C2[i] = C1[i]
        /\ \A i \in Nat : i >= p => P2[i] = P1[i] + d
    BY <2>0 DEF Shifted
  <2>2. ASSUME NEW u \in Workers, NEW i \in 1..Len(stk2[u]) PROVE C2[stk2[u][i].id] = stk2[u][i].child
    <3>1. CASE u # w
      <4>1. stk2[u] = stk[u] BY <1>1, <3>1
      <4>2. stk[u][i].id \in Nat /\ stk[u][i].id # a /\ stk[u][i].id # p
            /\ C[stk[u][i].id] = stk[u][i].child
        BY <1>12, <1>14, <3>1, <4>1
      <4> QED BY <1>10a, <2>1, <4>1, <4>2
    <3>2. CASE u = w
      <4>1. i \in 1..(k - 1) /\ i \in 1..Len(stk[w]) /\ i # k /\ g[i].id = stk[w][i].id
            /\ g[i].child = IF i = k - 1 THEN stk[w][i].child + d ELSE stk[w][i].child
        BY <1>1, <1>7, <3>2
      <4>2. stk[w][i].id \in Nat /\ stk[w][i].id # a /\ C1[stk[w][i].id] = stk[w][i].child
        BY <1>10a, <1>12, <4>1
      <4>3. CASE i = k - 1
        <5>1. stk[w][i].id = p BY <4>3 DEF p
        <5> QED BY <1>1, <2>1, <3>2, <4>1, <4>2, <4>3, <5>1
      <4>4. CASE i # k - 1
        <5>1. stk[w][i].id # p BY <1>12, <1>14, <4>1, <4>4
        <5> QED BY <1>1, <2>1, <3>2, <4>1, <4>2, <4>4, <5>1
      <4> QED BY <4>3, <4>4
    <3> QED BY <3>1, <3>2
  <2>3. ASSUME NEW j \in Nat, C2[j] # 0
        PROVE  \E u \in Workers : \E i \in 1..Len(stk2[u]) : stk2[u][i].id = j
    <3>0. k - 1 \in 1..(k - 1) BY <1>2, <1>14
    <3>1. CASE j = p
      <4>1. g[k - 1].id = p /\ k - 1 \in 1..Len(g) BY <1>7, <3>0 DEF p
      <4> QED BY <1>1, <3>1, <4>1
    <3>2. CASE j # p
      <4>1. C1[j] # 0 BY <2>1, <2>3, <3>2
      <4>2. j # a /\ C[j] # 0 BY <1>10a, <1>11, <4>1
      <4>3. PICK u \in Workers : \E i \in 1..Len(stk[u]) : stk[u][i].id = j BY <1>8, <4>2 DEF ChargedBy
      <4>3a. PICK i \in 1..Len(stk[u]) : stk[u][i].id = j BY <4>3
      <4>4. CASE u # w BY <1>1, <4>3a, <4>4
      <4>5. CASE u = w
        <5>1. i # k BY <4>2, <4>3a, <4>5 DEF a
        <5>2. i \in 1..(k - 1) BY <1>2, <4>5, <5>1
        <5>3. g[i].id = j /\ i \in 1..Len(g) BY <1>7, <4>3a, <4>5, <5>2
        <5> QED BY <1>1, <5>3
      <4> QED BY <4>4, <4>5
    <3> QED BY <3>1, <3>2
  <2>4. ChargedBy(C2, stk2) BY <2>2, <2>3 DEF ChargedBy
  <2>5. s.depth # 0
    <3>1. \A z \in Nat : z # 1 => z - 1 # 0 OBVIOUS
    <3>2. k - 1 # 0 BY <1>2, <1>14, <3>1
    <3> QED BY <1>5, <3>2, Zenon
  <2>6. self + (d - c) = top + P2[n]
    <3>0. p \in Nat /\ n >= p BY <1>3, <1>14
    <3>1. P[n] \in Int /\ P2[n] = P1[n] + d BY <3>0, <2>1
    <3>2. P2[n] = P[n] - c + d /\ self = top + P[n] /\ c \in Int BY <1>3, <1>8, <1>11, <3>1
    <3>3. \A y \in Int, z \in Int : (top + y) + (d - z) = top + (y - z + d) OBVIOUS
    <3> QED BY <3>1, <3>2, <3>3
  <2>7. SumOK(stk2, n, self + (d - c), top) BY <2>1, <2>4, <2>6 DEF SumOK
  <2> QED BY <2>5, <2>7 DEF stk2, c
<1> QED BY <1>13, <1>14

\* Nothing charged, nothing to subtract.
LEMMA SumsZero ==
  ASSUME NEW C \in [Nat -> Int], NEW P \in [Nat -> Int], Sums(C, P), \A k \in Nat : C[k] = 0,
         NEW n \in Nat
  PROVE  P[n] = 0
<1> SUFFICES ASSUME P[n] # 0 PROVE FALSE OBVIOUS
<1> DEFINE T == {k \in Nat : P[k] # 0}
<1>1. T \in SUBSET Nat /\ T # {} OBVIOUS
<1>2. PICK x \in T : \A y \in T : x <= y
  <2> HIDE DEF T
  <2> QED BY <1>1, NatMin
<1>3. x \in Nat /\ P[x] # 0 OBVIOUS
<1>4. x # 0 BY <1>3 DEF Sums
<1>5. x - 1 \in Nat /\ (x - 1) + 1 = x BY <1>3, <1>4
<1>6. P[x - 1] = 0
  <2>1. ~(x <= x - 1) BY <1>3
  <2>2. x - 1 \notin T BY <1>2, <2>1
  <2> QED BY <1>5, <2>2
<1>7. P[(x - 1) + 1] = P[x - 1] + C[(x - 1) + 1] BY <1>5 DEF Sums
<1>8. P[x] = P[x - 1] + C[x] BY <1>5, <1>7
<1> QED BY <1>3, <1>6, <1>8

\* The sinks keep the file an array.
LEMMA PutIs ==
  ASSUME NEW tr \in TraceSet, NEW token \in {"[", ",", "event", "]"}, tr.array, MayFollow(tr.last, token)
  PROVE  /\ Put(tr, token) \in TraceSet /\ Put(tr, token).array /\ Put(tr, token).last = token
         /\ Put(tr, token).named = tr.named /\ Put(tr, token).first = tr.first
         /\ Put(tr, token).open = tr.open
<1> DEFINE x == tr.array /\ MayFollow(tr.last, token)
<1>1. \A y \in BOOLEAN : [tr EXCEPT !.array = y, !.last = token] \in TraceSet BY DEF TraceSet
<1>2. \A y \in BOOLEAN : LET q == [tr EXCEPT !.array = y, !.last = token]
                         IN  /\ q.array = y /\ q.last = token /\ q.named = tr.named
                             /\ q.first = tr.first /\ q.open = tr.open
  BY DEF TraceSet
<1>3. x \in BOOLEAN /\ x OBVIOUS
<1>4. Put(tr, token) = [tr EXCEPT !.array = x, !.last = token] BY DEF Put
<1> HIDE DEF x
<1> QED BY <1>1, <1>2, <1>3, <1>4

LEMMA WriteEventKeeps ==
  ASSUME NEW tr, TraceOK(tr)
  PROVE  TraceOK(WriteEvent(tr)) /\ WriteEvent(tr).named = tr.named /\ WriteEvent(tr).open = tr.open
<1>0. tr \in TraceSet /\ tr.array /\ tr.named \in SUBSET Workers /\ tr.first \in BOOLEAN /\ tr.open \in BOOLEAN
  BY DEF TraceOK, TraceSet
<1>1. CASE ~tr.open BY <1>1 DEF WriteEvent
<1>2. CASE tr.open
  <2> DEFINE a == IF tr.first THEN tr ELSE Put(tr, ",")
             b == [a EXCEPT !.first = FALSE]
             e == Put(b, "event")
  <2>1. a \in TraceSet /\ a.array /\ a.last \in {"[", ","} /\ a.named = tr.named /\ a.open = tr.open
    <3>1. CASE tr.first BY <3>1, <1>0, <1>2 DEF TraceOK
    <3>2. CASE ~tr.first
      <4>1. tr.last = "event" BY <3>2, <1>2 DEF TraceOK
      <4>2. MayFollow(tr.last, ",") BY <4>1 DEF MayFollow
      <4>3. a = Put(tr, ",") BY <3>2
      <4> HIDE DEF a
      <4> QED BY <1>0, <4>2, <4>3, PutIs
    <3> QED BY <3>1, <3>2
  <2> HIDE DEF a
  <2>3. b \in TraceSet /\ b.array /\ b.last \in {"[", ","} /\ b.named = tr.named /\ b.open = tr.open
        /\ b.first = FALSE
    <3>1. b \in TraceSet BY <2>1 DEF TraceSet
    <3>2. b.array = a.array /\ b.last = a.last /\ b.named = a.named /\ b.open = a.open /\ b.first = FALSE
      BY <2>1 DEF TraceSet
    <3> HIDE DEF b
    <3> QED BY <2>1, <3>1, <3>2
  <2> HIDE DEF b
  <2>4. MayFollow(b.last, "event") BY <2>3 DEF MayFollow
  <2>5. e \in TraceSet /\ e.array /\ e.last = "event" /\ e.named = b.named /\ e.first = b.first
        /\ e.open = b.open
    BY <2>3, <2>4, PutIs
  <2>6. WriteEvent(tr) = e BY <1>2 DEF WriteEvent, a, b
  <2> HIDE DEF e
  <2>7. TraceOK(e) /\ e.named = tr.named /\ e.open = tr.open
    BY <1>2, <2>3, <2>5 DEF TraceOK
  <2> QED BY <2>6, <2>7
<1> QED BY <1>0, <1>1, <1>2

LEMMA TraceWriteKeeps ==
  ASSUME NEW tr, TraceOK(tr), NEW w \in Workers
  PROVE  TraceOK(TraceWrite(tr, w))
<1>0. tr \in TraceSet BY DEF TraceOK
<1>1. CASE ~tr.open BY <1>1 DEF TraceWrite
<1>2. CASE tr.open
  <2> DEFINE a == [tr EXCEPT !.named = @ \cup {w}]
             b == IF w \in tr.named THEN tr ELSE WriteEvent(a)
  <2>2. TraceOK(a)
    <3>1. a \in TraceSet BY <1>0 DEF TraceSet
    <3>2. a.last = tr.last /\ a.array = tr.array /\ a.first = tr.first /\ a.open = tr.open
      BY <1>0 DEF TraceSet
    <3> HIDE DEF a
    <3> QED BY <3>1, <3>2 DEF TraceOK
  <2> HIDE DEF a
  <2>3. TraceOK(b) BY <2>2, WriteEventKeeps
  <2>4. TraceWrite(tr, w) = WriteEvent(b) BY <1>2 DEF TraceWrite, a
  <2> HIDE DEF b
  <2> QED BY <2>3, <2>4, WriteEventKeeps
<1> QED BY <1>0, <1>1, <1>2 DEF TraceSet

LEMMA TraceCloseKeeps ==
  ASSUME NEW tr, TraceOK(tr)
  PROVE  TraceOK(TraceClose(tr))
<1>0. tr \in TraceSet /\ tr.array /\ tr.named \in SUBSET Workers /\ tr.first \in BOOLEAN /\ tr.open \in BOOLEAN
  BY DEF TraceOK, TraceSet
<1>1. CASE ~tr.open BY <1>1 DEF TraceClose
<1>2. CASE tr.open
  <2> DEFINE a == Put(tr, "]")
             b == [a EXCEPT !.open = FALSE]
  <2>1. MayFollow(tr.last, "]") BY <1>2 DEF TraceOK, MayFollow
  <2>2. a \in TraceSet /\ a.array /\ a.last = "]" BY <1>0, <2>1, PutIs
  <2>3. TraceClose(tr) = b BY <1>2 DEF TraceClose
  <2> HIDE DEF a
  <2>4. b \in TraceSet BY <2>2 DEF TraceSet
  <2>4a. b.array = a.array /\ b.last = a.last /\ b.open = FALSE BY <2>2 DEF TraceSet
  <2> HIDE DEF b
  <2>5. TraceOK(b) BY <2>2, <2>4, <2>4a DEF TraceOK
  <2> QED BY <2>3, <2>5
<1> QED BY <1>0, <1>1, <1>2

LEMMA SpanInitInv == MonitorInit => SpanInv
<1> SUFFICES ASSUME MonitorInit PROVE SpanInv OBVIOUS
<1>1. SpanTypeOK BY DEF MonitorInit, SpanTypeOK
<1>2. \A w \in Workers : stack[w] = <<>> /\ Len(stack[w]) = 0 BY DEF MonitorInit
<1>3. StacksOK(stack, spanCount, now)
  <2> SUFFICES ASSUME NEW w \in Workers PROVE FramesOK(stack[w], spanCount, now) BY DEF StacksOK
  <2>1. <<>> \in Seq(FrameSet) OBVIOUS
  <2>2. \A i \in 1..Len(stack[w]) : FALSE BY <1>2
  <2> QED BY <1>2, <2>1, <2>2 DEF FramesOK
<1>4. \A w \in Workers : \A i \in 1..Len(stack[w]) : FALSE BY <1>2
<1>5. live = {} BY DEF MonitorInit
<1>6. LiveOK(live, stack) /\ NestOK(live, stack) BY <1>4, <1>5 DEF LiveOK, NestOK
<1>7. SumOK(stack, spanCount, selfTotal, topTotal)
  <2> DEFINE C == [i \in Nat |-> 0]
  <2>1. C \in [Nat -> Int] /\ \A i \in Nat : C[i] = 0 OBVIOUS
  <2> HIDE DEF C
  <2>2. Sums(C, C) BY <2>1 DEF Sums
  <2>3. ChargedBy(C, stack) BY <1>4, <2>1 DEF ChargedBy
  <2>4. selfTotal = topTotal + C[spanCount] BY <2>1 DEF MonitorInit
  <2> QED BY <2>1, <2>2, <2>3, <2>4 DEF SumOK
<1>8. TraceOK(trace) BY DEF MonitorInit, TraceOK, TraceSet
<1>9. WatchOK BY SpanAssumption DEF MonitorInit, WatchOK, WatchSet
<1> QED BY <1>1, <1>3, <1>6, <1>7, <1>8, <1>9 DEF SpanInv, SpansOK

\* The spans do not change while the clock goes on.
LEMMA SpansKept ==
  ASSUME SpansOK, now' \in Nat, now <= now',
         UNCHANGED <<stack, live, spanCount, selfTotal, topTotal, lifo>>
  PROVE  SpansOK'
<1>1. now \in Nat /\ spanCount \in Nat /\ spanCount <= spanCount BY DEF SpansOK, SpanTypeOK
<1>2. StacksOK(stack, spanCount, now')
  <2> SUFFICES ASSUME NEW w \in Workers PROVE FramesOK(stack[w], spanCount, now') BY DEF StacksOK
  <2>1. FramesOK(stack[w], spanCount, now) BY DEF SpansOK, StacksOK
  <2> QED BY <1>1, <2>1, FramesLater
<1> QED BY <1>2 DEF SpansOK, SpanTypeOK

\* Activity ends a silence or leaves it as it is.
LEMMA TouchKeeps ==
  ASSUME WatchOK, now \in Nat, Touch, watch' = watch, now' = now
  PROVE  WatchOK'
<1>1. watch \in WatchSet /\ watch.now <= now /\ watch.reported \in Nat BY DEF WatchOK, WatchSet
<1>2. CASE now = activity
  <2>1. activity' = activity /\ silenceReports' = silenceReports BY <1>2 DEF Touch
  <2> QED BY <2>1 DEF WatchOK
<1>3. CASE now # activity
  <2>1. activity' = now /\ silenceReports' = 0 BY <1>3 DEF Touch
  <2>2. watch.reported < now
    <3>1. activity \in Nat /\ activity < now BY <1>3 DEF WatchOK
    <3>2. watch.reported <= activity BY <1>1 DEF WatchOK
    <3> QED BY <1>1, <3>1, <3>2
  <2> QED BY <1>1, <2>1, <2>2 DEF WatchOK
<1> QED BY <1>2, <1>3

LEMMA ClockTickInv == ASSUME SpanInv, ClockTick PROVE SpanInv'
<1>1. now \in Nat /\ now' = now + 1 /\ now' \in Nat /\ now <= now'
  BY DEF SpanInv, SpansOK, SpanTypeOK, ClockTick
<1>2. SpansOK' BY <1>1, SpansKept DEF SpanInv, ClockTick, spanVars
<1>3. TraceOK(trace)' BY DEF SpanInv, ClockTick, spanVars
<1>4. WatchOK'
  <2>1. WatchOK /\ watch' = watch /\ activity' = activity /\ silenceReports' = silenceReports
    BY DEF SpanInv, ClockTick, watchVars
  <2>2. watch \in WatchSet /\ watch.now \in Nat /\ watch.now <= now BY <2>1 DEF WatchOK, WatchSet
  <2>3. silenceReports > 0 => now + 1 - activity >= Doubled(silenceReports - 1)
    <3> SUFFICES ASSUME silenceReports > 0 PROVE now + 1 - activity >= Doubled(silenceReports - 1) OBVIOUS
    <3>1. silenceReports - 1 \in Nat /\ activity \in Nat BY <2>1 DEF WatchOK
    <3>2. Doubled(silenceReports - 1) \in Nat BY <3>1, DoubledSteps
    <3>3. now - activity >= Doubled(silenceReports - 1) BY <2>1 DEF WatchOK
    <3> QED BY <1>1, <3>1, <3>2, <3>3
  <2> QED BY <1>1, <2>1, <2>2, <2>3 DEF WatchOK
<1> QED BY <1>2, <1>3, <1>4 DEF SpanInv

LEMMA BeginInv == ASSUME SpanInv, NEW w \in Workers, Begin(w) PROVE SpanInv'
<1> DEFINE x == [id |-> spanCount + 1, start |-> now, child |-> 0]
           s == Begun(stack, w, spanCount, now)
           stk2 == [stack EXCEPT ![w] = Append(@, x)]
<1>1. SpansOK /\ now \in Nat /\ spanCount \in Nat /\ DOMAIN stack = Workers
      /\ StacksOK(stack, spanCount, now) /\ LiveOK(live, stack)
  BY DEF SpanInv, SpansOK, SpanTypeOK
<1>2. /\ stack' = stk2 /\ live' = live \cup {s} /\ spanCount' = spanCount + 1 /\ now' = now
      /\ UNCHANGED <<selfTotal, topTotal, lifo, trace, watch>> /\ Touch
  BY DEF Begin, watchVars, Begun
<1>3. x \in FrameSet /\ x.id = spanCount + 1 /\ x.start = now /\ x.child = 0 BY <1>1 DEF FrameSet
<1>4. stk2[w] = Append(stack[w], x) /\ \A u \in Workers : u # w => stk2[u] = stack[u] BY <1>1
<1>4a. DOMAIN stk2 = Workers BY <1>1
<1>5. StacksOK(stk2, spanCount + 1, now)
  <2> SUFFICES ASSUME NEW u \in Workers PROVE FramesOK(stk2[u], spanCount + 1, now) BY DEF StacksOK
  <2>1. FramesOK(stack[u], spanCount, now) BY <1>1 DEF StacksOK
  <2>2. CASE u = w
    <3> HIDE DEF stk2
    <3>1. FramesOK(Append(stack[u], x), spanCount + 1, now) BY <1>1, <2>1, FramesPush
    <3> QED BY <1>4, <2>2, <3>1
  <2>3. CASE u # w
    <3> HIDE DEF stk2, x
    <3>1. spanCount + 1 \in Nat /\ spanCount <= spanCount + 1 /\ now <= now BY <1>1
    <3>2. FramesOK(stack[u], spanCount + 1, now) BY <1>1, <2>1, <3>1, FramesLater
    <3> QED BY <1>4, <2>3, <3>2
  <2> QED BY <2>2, <2>3
<1> HIDE DEF x
<1>6. Pushed(stk2, stack, w, x) BY <1>1, <1>3, PushIs
<1>7. /\ s \in SpanSet /\ s.id = spanCount + 1 /\ s.start = now /\ s.worker = w
      /\ s.depth = Len(stack[w]) /\ s.parent < s.id
      /\ s.parent = (IF Len(stack[w]) = 0 THEN 0 ELSE stack[w][Len(stack[w])].id)
  BY <1>1, BegunIs
<1> HIDE DEF s, stk2
<1>8. LiveOK(live \cup {s}, stk2) BY <1>1, <1>3, <1>6, <1>7, LivePush
<1>9. lifo => NestOK(live \cup {s}, stk2) /\ SumOK(stk2, spanCount + 1, selfTotal, topTotal)
  <2> SUFFICES ASSUME lifo
               PROVE  NestOK(live \cup {s}, stk2) /\ SumOK(stk2, spanCount + 1, selfTotal, topTotal)
    OBVIOUS
  <2>1. NestOK(live, stack) /\ SumOK(stack, spanCount, selfTotal, topTotal) BY <1>1 DEF SpansOK
  <2>2. NestOK(live \cup {s}, stk2) BY <1>1, <1>3, <1>6, <1>7, <2>1, NestPush
  <2>3. SumOK(stk2, spanCount + 1, selfTotal, topTotal) BY <1>1, <1>3, <1>6, <2>1, SumPush
  <2> QED BY <2>2, <2>3
<1>10. SpanTypeOK'
  <2>1. spanCount + 1 \in Nat BY <1>1
  <2> QED BY <1>1, <1>2, <1>4a, <2>1 DEF SpanTypeOK, SpansOK
<1>11. SpansOK' BY <1>2, <1>5, <1>8, <1>9, <1>10 DEF SpansOK
<1>12. WatchOK' BY <1>1, <1>2, TouchKeeps DEF SpanInv
<1>13. TraceOK(trace)' BY <1>2 DEF SpanInv
<1> QED BY <1>11, <1>12, <1>13 DEF SpanInv

LEMMA EndInv == ASSUME SpanInv, NEW s \in live, End(s) PROVE SpanInv'
<1> DEFINE w == s.worker
           k == CHOOSE i \in DOMAIN stack[w] : stack[w][i].id = s.id
           d == now - s.start
           c == stack[w][k].child
           g == Pop(stack[w], k, s, d)
           stk2 == [stack EXCEPT ![w] = g]
           self == IF d > c THEN d - c ELSE 0
<1>1. SpansOK /\ now \in Nat /\ spanCount \in Nat /\ DOMAIN stack = Workers
      /\ StacksOK(stack, spanCount, now) /\ LiveOK(live, stack)
      /\ selfTotal \in Int /\ topTotal \in Int /\ lifo \in BOOLEAN
  BY DEF SpanInv, SpansOK, SpanTypeOK
<1>2. s \in SpanSet /\ w \in Workers /\ s.parent \in Nat /\ s.parent < s.id /\ s.start \in Nat
  BY <1>1 DEF LiveOK, SpanSet
<1>3. FramesOK(stack[w], spanCount, now) /\ stack[w] \in Seq(FrameSet) /\ DOMAIN stack[w] = 1..Len(stack[w])
  BY <1>1, <1>2 DEF StacksOK, FramesOK
<1>4. \E i \in DOMAIN stack[w] : stack[w][i].id = s.id /\ stack[w][i].start = s.start
  BY <1>1, <1>3 DEF LiveOK
<1>5. k \in 1..Len(stack[w]) /\ stack[w][k].id = s.id
  <2>1. k \in DOMAIN stack[w] /\ stack[w][k].id = s.id BY <1>4, Zenon
  <2> QED BY <1>3, <2>1
<1>6. /\ live' = live \ {s} /\ stack' = stk2 /\ lifo' = (lifo /\ k = Len(stack[w]))
      /\ selfTotal' = selfTotal + self /\ topTotal' = (IF s.depth = 0 THEN topTotal + d ELSE topTotal)
      /\ trace' = TraceWrite(trace, w) /\ Touch /\ UNCHANGED <<now, spanCount, watch>>
  BY DEF End, watchVars
<1> HIDE DEF k, self
<1>7. stack[w][k].start = s.start
  <2>1. PICK i \in 1..Len(stack[w]) : stack[w][i].id = s.id /\ stack[w][i].start = s.start
    BY <1>3, <1>4
  <2>2. i = k BY <1>1, <1>2, <1>5, <2>1, FrameNumbers
  <2> QED BY <2>1, <2>2
<1>8. d \in Nat /\ FramesOK(g, spanCount, now) BY <1>1, <1>2, <1>3, <1>5, <1>7, FramesPop
<1> HIDE DEF d
<1>9. Popped(g, stack[w], k, s, d) BY <1>1, <1>2, <1>3, <1>5, <1>8, PopIs
<1> HIDE DEF g
<1>10. DOMAIN stk2 = Workers /\ stk2[w] = g /\ \A u \in Workers : u # w => stk2[u] = stack[u] BY <1>1, <1>2
<1>11. StacksOK(stk2, spanCount, now) BY <1>1, <1>8, <1>10 DEF StacksOK
<1>12. Removed(stk2, stack, w, k) BY <1>1, <1>2, <1>5, <1>9, RemoveIs
<1>13. LiveOK(live \ {s}, stk2)
  <2> HIDE DEF stk2
  <2> QED BY <1>1, <1>5, <1>12, LivePop
<1>14. c \in Nat /\ (k = Len(stack[w]) => self = d - c)
  <2>1. c \in Nat BY <1>1, <1>2, <1>5, FrameNumbers
  <2>2. k = Len(stack[w]) => c <= now - stack[w][k].start BY <1>3, <1>5 DEF FramesOK
  <2>3. k = Len(stack[w]) => c <= d BY <1>7, <2>2 DEF d
  <2> HIDE DEF c
  <2> QED BY <1>8, <2>1, <2>3 DEF self
<1>15. ASSUME lifo'
       PROVE  NestOK(live \ {s}, stk2) /\ SumOK(stk2, spanCount, selfTotal', topTotal')
  <2>1. lifo /\ k = Len(stack[w]) BY <1>6, <1>15
  <2>2. NestOK(live, stack) /\ SumOK(stack, spanCount, selfTotal, topTotal) BY <1>1, <2>1 DEF SpansOK
  <2>3. NestOK(live \ {s}, stk2)
    <3> HIDE DEF stk2
    <3> QED BY <1>1, <1>12, <2>1, <2>2, NestPop
  <2>4. SumOK(stk2, spanCount, selfTotal + (d - c), IF s.depth = 0 THEN topTotal + d ELSE topTotal)
    BY <1>1, <1>2, <1>5, <1>8, <1>9, <2>1, <2>2, SumPop
  <2> QED BY <1>6, <1>14, <2>1, <2>3, <2>4
<1>16. SpanTypeOK'
  <2>1. self \in Int BY <1>8, <1>14 DEF self
  <2>2. selfTotal' \in Int /\ topTotal' \in Int BY <1>1, <1>6, <1>8, <2>1
  <2>3. lifo' \in BOOLEAN BY <1>6
  <2> QED BY <1>1, <1>6, <1>10, <2>2, <2>3 DEF SpanTypeOK
<1>17. SpansOK' BY <1>6, <1>11, <1>13, <1>15, <1>16 DEF SpansOK
<1>18. WatchOK' BY <1>1, <1>6, TouchKeeps DEF SpanInv
<1>19. TraceOK(trace)' BY <1>2, <1>6, TraceWriteKeeps DEF SpanInv
<1> QED BY <1>17, <1>18, <1>19 DEF SpanInv

LEMMA WatchTickInv == ASSUME SpanInv, WatchTick PROVE SpanInv'
<1>1. now \in Nat /\ now' = now /\ now <= now' /\ SpansOK /\ TraceOK(trace) /\ WatchOK
  BY DEF SpanInv, SpansOK, SpanTypeOK, WatchTick
<1>2. SpansOK' BY <1>1, SpansKept DEF WatchTick
<1>3. TraceOK(trace)' BY <1>1, WriteEventKeeps DEF WatchTick, TraceCounter
<1>4. WatchOK'
  <2>1. watch \in WatchSet BY <1>1 DEF WatchOK
  <2>2. watch' \in WatchSet /\ watch'.now = now /\ watch'.reported = watch.reported
        /\ watch'.threshold = watch.threshold
    BY <1>1, <2>1 DEF WatchTick, WatchSet
  <2> QED BY <1>1, <2>2 DEF WatchOK, WatchTick
<1> QED BY <1>2, <1>3, <1>4 DEF SpanInv

LEMMA WatchWakeInv == ASSUME SpanInv, WatchWake PROVE SpanInv'
<1>1. now \in Nat /\ now' = now /\ now <= now' /\ SpansOK /\ TraceOK(trace) /\ WatchOK
  BY DEF SpanInv, SpansOK, SpanTypeOK, WatchWake
<1>2. SpansOK' BY <1>1, SpansKept DEF WatchWake, spanVars
<1>3. TraceOK(trace)' BY <1>1 DEF WatchWake, spanVars
<1>4. WatchOK'
  <2>1. watch \in WatchSet BY <1>1 DEF WatchOK
  <2>2. watch' \in WatchSet /\ watch'.now = watch.now /\ watch'.reported = watch.reported
        /\ watch'.threshold = watch.threshold
    BY <2>1 DEF WatchWake, WatchSet
  <2> QED BY <1>1, <2>2 DEF WatchOK, WatchWake
<1> QED BY <1>2, <1>3, <1>4 DEF SpanInv

\* Each report doubles the threshold of the silence it is about.
LEMMA WatchDecideInv == ASSUME SpanInv, WatchDecide PROVE SpanInv'
<1>1. now \in Nat /\ now' = now /\ now <= now' /\ SpansOK /\ TraceOK(trace) /\ WatchOK
  BY DEF SpanInv, SpansOK, SpanTypeOK, WatchDecide
<1>2. SpansOK' BY <1>1, SpansKept DEF WatchDecide, spanVars
<1>3. TraceOK(trace)' BY <1>1 DEF WatchDecide, spanVars
<1>4. WatchOK'
  <2>1. watch \in WatchSet /\ watch.now \in Nat /\ watch.now <= now /\ watch.threshold \in Nat
        /\ watch.reported \in Nat /\ activity \in Nat /\ silenceReports \in Nat /\ StallAfter \in Nat
        /\ activity <= now
    BY <1>1, SpanAssumption DEF WatchOK, WatchSet
  <2>3. Threshold \in Nat /\ Threshold = Doubled(silenceReports)
    <3>1. CASE silenceReports = 0
      <4>1. activity # watch.reported BY <1>1, <2>1, <3>1 DEF WatchOK
      <4> QED BY <2>1, <3>1, <4>1, DoubledSteps DEF Threshold
    <3>2. CASE silenceReports > 0
      <4>1. activity = watch.reported /\ watch.threshold = Doubled(silenceReports) BY <1>1, <3>2 DEF WatchOK
      <4> QED BY <2>1, <4>1 DEF Threshold
    <3> QED BY <2>1, <3>1, <3>2
  <2>4. activity' = activity /\ watch.pc = "decide" BY DEF WatchDecide
  <2> HIDE DEF Threshold
  <2>5. CASE StallAfter = 0
    <3>1. watch' = [watch EXCEPT !.pc = "wait"] /\ silenceReports' = silenceReports
      BY <2>5 DEF WatchDecide
    <3>2. watch' \in WatchSet /\ watch'.now = watch.now /\ watch'.reported = watch.reported
          /\ watch'.threshold = watch.threshold
      BY <2>1, <3>1 DEF WatchSet
    <3> QED BY <1>1, <2>4, <3>1, <3>2 DEF WatchOK
  <2>6. CASE StallAfter # 0 /\ ~Silent
    <3>1. watch' = [watch EXCEPT !.pc = "wait", !.threshold = Threshold]
          /\ silenceReports' = silenceReports
      BY <2>6 DEF WatchDecide
    <3>2. watch' \in WatchSet /\ watch'.now = watch.now /\ watch'.reported = watch.reported
          /\ watch'.threshold = Threshold
      BY <2>1, <2>3, <3>1 DEF WatchSet
    <3> QED BY <1>1, <2>3, <2>4, <3>1, <3>2 DEF WatchOK
  <2>7. CASE StallAfter # 0 /\ Silent
    <3>1. watch' = [watch EXCEPT !.pc = "wait", !.threshold = 2 * Threshold, !.reported = activity]
          /\ silenceReports' = silenceReports + 1
      BY <2>7 DEF WatchDecide
    <3>2. 2 * Threshold \in Nat BY <2>3
    <3>3. watch' \in WatchSet /\ watch'.now = watch.now /\ watch'.reported = activity
          /\ watch'.threshold = 2 * Threshold
      BY <2>1, <3>1, <3>2 DEF WatchSet
    <3>4. Doubled(silenceReports + 1) = 2 * Threshold BY <2>1, <2>3, DoubledSteps
    <3>5. now - activity >= Threshold BY <1>1, <2>1, <2>3, <2>7 DEF Silent
    <3>6. (silenceReports + 1) - 1 = silenceReports /\ silenceReports + 1 \in Nat
          /\ silenceReports + 1 # 0
      BY <2>1
    <3>7. now - activity >= Doubled((silenceReports + 1) - 1) BY <2>3, <3>5, <3>6
    <3> QED BY <1>1, <2>1, <2>4, <3>1, <3>3, <3>4, <3>6, <3>7 DEF WatchOK
  <2> QED BY <2>5, <2>6, <2>7
<1> QED BY <1>2, <1>3, <1>4 DEF SpanInv

LEMMA SpanStepInv == ASSUME SpanInv, [MonitorNext]_monitorVars PROVE SpanInv'
<1>0. now \in Nat /\ now <= now /\ SpansOK /\ TraceOK(trace) /\ WatchOK BY DEF SpanInv, SpansOK, SpanTypeOK
<1>1. CASE ClockTick BY <1>1, ClockTickInv
<1>2. CASE \E w \in Workers : Begin(w) BY <1>2, BeginInv
<1>3. CASE \E s \in live : End(s) BY <1>3, EndInv
<1>4. CASE Progress
  <2>1. WatchOK' BY <1>0, <1>4, TouchKeeps DEF Progress, watchVars
  <2>2. SpansOK' BY <1>0, <1>4, SpansKept DEF Progress, spanVars
  <2>3. TraceOK(trace)' BY <1>0, <1>4 DEF Progress, spanVars
  <2> QED BY <2>1, <2>2, <2>3 DEF SpanInv
<1>5. CASE CloseTrace
  <2>1. WatchOK' BY <1>0, <1>5 DEF CloseTrace, WatchOK, watchVars
  <2>2. SpansOK' BY <1>0, <1>5, SpansKept DEF CloseTrace
  <2>3. TraceOK(trace)' BY <1>0, <1>5, TraceCloseKeeps DEF CloseTrace
  <2> QED BY <2>1, <2>2, <2>3 DEF SpanInv
<1>6. CASE WatchStep BY <1>6, WatchWakeInv, WatchTickInv, WatchDecideInv DEF WatchStep
<1>7. CASE Stop
  <2>1. WatchOK' BY <1>0, <1>7 DEF Stop, WatchOK
  <2>2. SpansOK' BY <1>0, <1>7, SpansKept DEF Stop, spanVars
  <2>3. TraceOK(trace)' BY <1>0, <1>7 DEF Stop, spanVars
  <2> QED BY <2>1, <2>2, <2>3 DEF SpanInv
<1>8. CASE UNCHANGED monitorVars
  <2>1. WatchOK' BY <1>0, <1>8 DEF monitorVars, WatchOK
  <2>2. SpansOK' BY <1>0, <1>8, SpansKept DEF monitorVars
  <2>3. TraceOK(trace)' BY <1>0, <1>8 DEF monitorVars
  <2> QED BY <2>1, <2>2, <2>3 DEF SpanInv
<1> QED BY <1>1, <1>2, <1>3, <1>4, <1>5, <1>6, <1>7, <1>8 DEF MonitorNext

\* The invariant gives the truthful profile, trace and reports.
LEMMA SpanInvSound == SpanInv => SpansSound
<1> SUFFICES ASSUME SpanInv PROVE SpansSound OBVIOUS
<1>1. SpansOK /\ TraceOK(trace) /\ WatchOK /\ SpanTypeOK BY DEF SpanInv, SpansOK
<1>2. ChildTimeFits
  <2> SUFFICES ASSUME NEW w \in Workers, NEW i \in DOMAIN stack[w]
               PROVE  stack[w][i].child <=
                        (IF i = Len(stack[w]) THEN now ELSE stack[w][i + 1].start) - stack[w][i].start
    BY DEF ChildTimeFits
  <2>1. FramesOK(stack[w], spanCount, now) BY <1>1 DEF SpansOK, StacksOK
  <2>2. DOMAIN stack[w] = 1..Len(stack[w]) BY <2>1 DEF FramesOK
  <2> QED BY <2>1, <2>2 DEF FramesOK
<1>3. SelfTimeAddsUp
  <2> SUFFICES ASSUME live = {}, lifo PROVE selfTotal = topTotal BY DEF SelfTimeAddsUp
  <2>1. PICK C \in [Nat -> Int], P \in [Nat -> Int] :
               Sums(C, P) /\ ChargedBy(C, stack) /\ selfTotal = topTotal + P[spanCount]
    BY <1>1 DEF SpansOK, SumOK
  <2>2. \A w \in Workers : \A i \in 1..Len(stack[w]) : FALSE BY <1>1 DEF SpansOK, LiveOK
  <2>3. \A k \in Nat : C[k] = 0 BY <2>1, <2>2 DEF ChargedBy
  <2>4. P[spanCount] = 0 BY <1>1, <2>1, <2>3, SumsZero DEF SpanTypeOK
  <2> QED BY <1>1, <2>1, <2>4 DEF SpanTypeOK
<1>4. TraceWellFormed BY <1>1 DEF TraceOK, TraceWellFormed
<1>5. ReportsDouble
  <2> SUFFICES ASSUME silenceReports > 0
               PROVE  now - activity >= StallAfter * 2^(silenceReports - 1)
    BY DEF ReportsDouble
  <2>1. now - activity >= Doubled(silenceReports - 1) BY <1>1 DEF WatchOK
  <2> QED BY <2>1, Zenon DEF Doubled
<1> QED BY <1>2, <1>3, <1>4, <1>5 DEF SpansSound

\* SpansSound for any threads, clock and number of spans: charged child time
\* always fits, so selfNs never needs its clamp; once everything opened has been
\* closed innermost first the self times add up to the outermost durations; the
\* trace is a JSON array at every moment; and the reports of one silence come at
\* doubling intervals (Span::end, SpanSummarySink, ChromeTraceSink, Monitor::run).
THEOREM SpansAreSound == SpanSpec => []SpansSound
<1>1. MonitorInit => SpanInv BY SpanInitInv
<1>2. SpanInv /\ [MonitorNext]_monitorVars => SpanInv' BY SpanStepInv
<1>3. SpanInv => SpansSound BY SpanInvSound
<1> QED BY <1>1, <1>2, <1>3, PTL DEF SpanSpec
=============================================================================
