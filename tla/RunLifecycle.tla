---------------------------- MODULE RunLifecycle ----------------------------
(***************************************************************************)
(* One command-line run: RunContext::start and finish                      *)
(* (src/src/tools/cli/run_context.cpp) around the command, the monitor     *)
(* thread, Ctrl+C and crashes (src/src/obs/process.cpp).                   *)
(*                                                                         *)
(* The main thread and the monitor share the process.  POSIX semantics: a  *)
(* signal handler runs on top of one of the two threads, which does not    *)
(* proceed until the handler returns; the disposition stays installed.     *)
(***************************************************************************)
EXTENDS Naturals, FiniteSets

CONSTANTS
  MaxInterrupts,   \* bound on SIGINTs
  MaxLockings      \* bound on lock acquisitions while the command runs

Main == "main"
Watcher == "monitor"
RunThreads == {Main, Watcher}

\* The locks the crash report looks at, and who takes them: counters register
\* and are read on the main thread, the monitor snapshots thread states and
\* both log into the ring.
Locks == {"counters", "ring", "threads", "state"}
MayLock(t) == IF t = Main THEN Locks ELSE Locks \ {"counters"}

VARIABLES
  phase,        \* where the main thread is between start() and ~RunContext
  watcher,      \* "none", "running", "exited"
  stopFlag,     \* Monitor::stopping_
  jobAlive,     \* the RunContext's Job exists
  pointer,      \* gInterruptJob is not null
  disposition,  \* of SIGINT: "default" or "onInterrupt"
  onSignal,     \* [RunThreads -> where a handler on that thread is]
  interrupts,   \* Job::interrupts_
  sent,         \* SIGINTs raised so far
  holder,       \* [Locks -> RunThreads \cup {"nobody"}]
  lockings,
  crashed,      \* threads inside onFatalSignal or onTerminate
  crashPc,      \* [RunThreads -> where its crash handler is]
  writing,      \* CrashState::writing
  report,       \* "none", "failed", "open", "complete"
  listed,       \* what the report shows of threads and of the log
  process       \* "alive" or how it ended

interruptVars == <<pointer, disposition, onSignal, interrupts, sent>>
crashVars == <<crashed, crashPc, writing, report, listed>>
lockVars == <<holder, lockings>>
runVars == <<phase, watcher, stopFlag, jobAlive, interruptVars, lockVars, crashVars, process>>

Nobody == "nobody"

RunInit ==
  /\ phase = "start"
  /\ watcher = "none"
  /\ stopFlag = FALSE
  /\ jobAlive = TRUE
  /\ pointer = FALSE
  /\ disposition = "default"
  /\ onSignal = [t \in RunThreads |-> "none"]
  /\ interrupts = 0
  /\ sent = 0
  /\ holder = [l \in Locks |-> Nobody]
  /\ lockings = 0
  /\ crashed = {}
  /\ crashPc = [t \in RunThreads |-> "none"]
  /\ writing = FALSE
  /\ report = "none"
  /\ listed = [threads |-> FALSE, log |-> FALSE]
  /\ process = "alive"

\* A thread takes a step of its own: it exists and no handler runs on it.
Running(t) ==
  /\ process = "alive"
  /\ t \notin crashed
  /\ onSignal[t] = "none"
  /\ t = Main \/ watcher = "running"
HoldsNothing(t) == \A l \in Locks : holder[l] # t

(***************************************************************************)
(* start() and finish() on the main thread.                                *)
(***************************************************************************)
MainStep(from, to) ==
  /\ Running(Main) /\ HoldsNothing(Main)
  /\ phase = from
  /\ phase' = to
  /\ UNCHANGED <<lockVars, crashVars, process>>

\* installInterruptHandler: gInterruptJob.store
InstallPointer ==
  /\ MainStep("start", "signal")
  /\ pointer' = TRUE
  /\ UNCHANGED <<watcher, stopFlag, jobAlive, disposition, onSignal, interrupts, sent>>

\* installInterruptHandler: std::signal
InstallSignal ==
  /\ MainStep("signal", "monitor")
  /\ disposition' = "onInterrupt"
  /\ UNCHANGED <<watcher, stopFlag, jobAlive, pointer, onSignal, interrupts, sent>>

\* Monitor::Monitor, when a status line, a watchdog or a trace wants one.
StartMonitor ==
  /\ MainStep("monitor", "command")
  /\ watcher' \in {"none", "running"}
  /\ UNCHANGED <<stopFlag, jobAlive, interruptVars>>

\* The command returns and finish() is called: monitor_->stop() first.
FinishCommand ==
  /\ MainStep("command", "join")
  /\ stopFlag' = (watcher = "running")
  /\ UNCHANGED <<watcher, jobAlive, interruptVars>>

\* Mutant: stop() does not wait for the thread.
NoJoin ==
  /\ MainStep("join", "restore")
  /\ UNCHANGED <<watcher, stopFlag, jobAlive, interruptVars>>

JoinMonitor ==
  /\ watcher # "running"
  /\ MainStep("join", "restore")
  /\ UNCHANGED <<watcher, stopFlag, jobAlive, interruptVars>>

\* uninstallInterruptHandler: std::signal(SIGINT, SIG_DFL), then the store.
RestoreSignal ==
  /\ MainStep("restore", "forget")
  /\ disposition' = "default"
  /\ UNCHANGED <<watcher, stopFlag, jobAlive, pointer, onSignal, interrupts, sent>>

ForgetPointer ==
  /\ MainStep("forget", "report")
  /\ pointer' = FALSE
  /\ UNCHANGED <<watcher, stopFlag, jobAlive, disposition, onSignal, interrupts, sent>>

\* The rest of finish(), main's return and ~RunContext.
DestroyContext ==
  /\ MainStep("report", "over")
  /\ jobAlive' = FALSE
  /\ UNCHANGED <<watcher, stopFlag, interruptVars>>

\* Monitor::run observes stopping_ and returns.
MonitorExits ==
  /\ Running(Watcher) /\ HoldsNothing(Watcher)
  /\ stopFlag
  /\ watcher' = "exited"
  /\ UNCHANGED <<phase, stopFlag, jobAlive, interruptVars, lockVars, crashVars, process>>

(***************************************************************************)
(* Locks taken while the command and the monitor work.                     *)
(***************************************************************************)
Lock(t, l) ==
  /\ Running(t) /\ HoldsNothing(t)
  /\ phase = "command" /\ lockings < MaxLockings
  /\ l \in MayLock(t) /\ holder[l] = Nobody
  /\ holder' = [holder EXCEPT ![l] = t]
  /\ lockings' = lockings + 1
  /\ UNCHANGED <<phase, watcher, stopFlag, jobAlive, interruptVars, crashVars, process>>

Unlock(t, l) ==
  /\ Running(t)
  /\ holder[l] = t
  /\ holder' = [holder EXCEPT ![l] = Nobody]
  /\ UNCHANGED <<phase, watcher, stopFlag, jobAlive, interruptVars, lockings, crashVars, process>>

(***************************************************************************)
(* Ctrl+C.                                                                 *)
(***************************************************************************)
\* The kernel delivers SIGINT to a thread that is not handling one already.
DeliverInterrupt(t) ==
  /\ Running(t)
  /\ phase # "over" /\ sent < MaxInterrupts
  /\ sent' = sent + 1
  /\ IF disposition = "default"
     THEN process' = "killed" /\ UNCHANGED onSignal
     ELSE onSignal' = [onSignal EXCEPT ![t] = "load"] /\ UNCHANGED process
  /\ UNCHANGED <<phase, watcher, stopFlag, jobAlive, pointer, disposition, interrupts,
                 lockVars, crashVars>>

\* onInterrupt: the load of gInterruptJob.
OnInterruptLoad(t) ==
  /\ process = "alive" /\ onSignal[t] = "load"
  /\ IF pointer THEN onSignal' = [onSignal EXCEPT ![t] = "use"] /\ UNCHANGED process
     ELSE process' = "exit without job" /\ UNCHANGED onSignal
  /\ UNCHANGED <<phase, watcher, stopFlag, jobAlive, pointer, disposition, interrupts, sent,
                 lockVars, crashVars>>

\* onInterrupt: Job::interrupt, the increment.
OnInterruptCount(t) ==
  /\ process = "alive" /\ onSignal[t] = "use"
  /\ interrupts' = interrupts + 1
  /\ onSignal' = [onSignal EXCEPT ![t] = "test"]
  /\ UNCHANGED <<phase, watcher, stopFlag, jobAlive, pointer, disposition, sent, process,
                 lockVars, crashVars>>

\* onInterrupt: the count read back, which another handler may have raised
\* meanwhile, and the re-installation.
OnInterruptTest(t) ==
  /\ process = "alive" /\ onSignal[t] = "test"
  /\ IF interrupts >= 3
     THEN process' = "exit" /\ UNCHANGED <<onSignal, disposition>>
     ELSE /\ onSignal' = [onSignal EXCEPT ![t] = "none"]
          /\ disposition' = "onInterrupt"
          /\ UNCHANGED process
  /\ UNCHANGED <<phase, watcher, stopFlag, jobAlive, pointer, interrupts, sent, lockVars, crashVars>>

(***************************************************************************)
(* Crashes: writeCrashReport, step by step, on the thread that crashed.    *)
(***************************************************************************)
Crash(t) ==
  /\ Running(t)
  /\ phase = "command"
  /\ crashed' = crashed \cup {t}
  /\ crashPc' = [crashPc EXCEPT ![t] = "enter"]
  /\ UNCHANGED <<phase, watcher, stopFlag, jobAlive, interruptVars, lockVars, writing, report,
                 listed, process>>

CrashStep(t, from, to) ==
  /\ process = "alive"
  /\ crashPc[t] = from
  /\ crashPc' = [crashPc EXCEPT ![t] = to]
  /\ UNCHANGED <<phase, watcher, stopFlag, jobAlive, interruptVars, lockVars, crashed>>

\* state.writing.test_and_set()
ReportEnter(t) ==
  /\ CrashStep(t, "enter", IF writing THEN "raise" ELSE "open")
  /\ writing' = TRUE
  /\ UNCHANGED <<report, listed, process>>

\* fopen truncates the file of this process id.
ReportOpen(t) ==
  /\ \/ CrashStep(t, "open", "threads") /\ report' = "open"
     \/ CrashStep(t, "open", "raise") /\ report' = "failed"
  /\ UNCHANGED <<writing, listed, process>>

\* threadSnapshots(tryOnly): nothing when the registry is locked, and a
\* thread whose state is locked is skipped.
ReportThreads(t) ==
  /\ CrashStep(t, "threads", "ring")
  /\ listed' = [listed EXCEPT !.threads = holder["threads"] = Nobody /\ holder["state"] = Nobody]
  /\ UNCHANGED <<writing, report, process>>

\* RingBufferSink::trySnapshot
ReportLog(t) ==
  /\ CrashStep(t, "ring", "counters")
  /\ listed' = [listed EXCEPT !.log = holder["ring"] = Nobody]
  /\ UNCHANGED <<writing, report, process>>

\* counterSnapshot(): waits for the registry's lock.
ReportCounters(t) ==
  /\ holder["counters"] = Nobody
  /\ CrashStep(t, "counters", "write")
  /\ UNCHANGED <<writing, report, listed, process>>

ReportWrite(t) ==
  /\ CrashStep(t, "write", "raise")
  /\ report' = "complete"
  /\ UNCHANGED <<writing, listed, process>>

\* The default action of the re-raised signal ends the process.
Reraise(t) ==
  /\ CrashStep(t, "raise", "dead")
  /\ process' = "crashed"
  /\ UNCHANGED <<writing, report, listed>>

MainNext ==
  \/ InstallPointer \/ InstallSignal \/ StartMonitor \/ FinishCommand \/ JoinMonitor
  \/ RestoreSignal \/ ForgetPointer \/ DestroyContext

\* What thread t does by itself once begun: leave a critical section, run a
\* signal handler or the crash report to its end, stop when told to.
ThreadStep(t) ==
  \/ \E l \in Locks : Unlock(t, l)
  \/ OnInterruptLoad(t)
  \/ OnInterruptCount(t)
  \/ OnInterruptTest(t)
  \/ ReportEnter(t) \/ ReportOpen(t) \/ ReportThreads(t) \/ ReportLog(t)
  \/ ReportCounters(t) \/ ReportWrite(t) \/ Reraise(t)
  \/ t = Watcher /\ MonitorExits

\* The scheduler is fair to ThreadStep; nothing says that the command ends, an
\* interrupt arrives or a thread crashes.
RunNext ==
  \/ MainNext
  \/ \E t \in RunThreads :
       \/ ThreadStep(t)
       \/ \E l \in Locks : Lock(t, l)
       \/ DeliverInterrupt(t)
       \/ Crash(t)

RunSpec == RunInit /\ [][RunNext]_runVars

FairRunSpec == RunSpec /\ \A t \in RunThreads : WF_runVars(ThreadStep(t))

(***************************************************************************)
(* Properties.                                                             *)
(***************************************************************************)

\* No thread can reach the Job once the RunContext is gone: no handler holds
\* the pointer it loaded and the monitor is not running (finish() joins the
\* monitor, then restores the signal, then clears the pointer).
JobOutlivesUsers ==
  ~jobAlive /\ process = "alive" =>
    watcher # "running" /\ \A t \in RunThreads : onSignal[t] = "none"

\* Ctrl+C during a run always finds its job: a handler never loads a null
\* pointer, whose exit would lose the partial result.
InterruptFindsJob == process # "exit without job"

\* "the first winds the run down to a partial result, the second cancels it,
\* the third exits immediately" (process.h): with the handler installed the
\* process is ended by no fewer than three interrupts, and once three are
\* counted a handler that will see them is still running, however the
\* handlers of the two threads interleave.
ThirdInterruptExits ==
  /\ process = "exit" => interrupts >= 3
  /\ interrupts >= 3 /\ process = "alive" => \E t \in RunThreads : onSignal[t] = "test"
  /\ phase \in {"monitor", "command", "join"} => process # "killed"

\* The report is written by one thread, and the process only dies of a crash
\* with the report finished or not openable, unless a second thread crashed
\* while the first was still writing (writeCrashReport).
CrashLeavesReport ==
  /\ Cardinality({t \in RunThreads : crashPc[t] \in {"open", "threads", "ring", "counters", "write"}}) <= 1
  /\ process = "crashed" /\ report = "open" => Cardinality(crashed) = 2

\* "the crash handler must not deadlock" (threads.h): every crash ends the
\* process, whatever locks the crashed threads held.
CrashTerminates == crashed # {} ~> process # "alive"

\* What a run promises while it is torn down, interrupted or crashing.
RunSound ==
  /\ JobOutlivesUsers
  /\ InterruptFindsJob
  /\ ThirdInterruptExits
  /\ CrashLeavesReport

=============================================================================
