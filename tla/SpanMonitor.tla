---------------------------- MODULE SpanMonitor ----------------------------
(***************************************************************************)
(* Timing spans (src/src/obs/span.cpp), the sinks that aggregate them      *)
(* (SpanSummarySink, ChromeTraceSink) and the watchdog that reports a job  *)
(* without progress (monitor.cpp).                                         *)
(*                                                                         *)
(* Time is a bounded counter.  A span is ended by its owner at any moment, *)
(* not necessarily innermost first (Span::end), and only on its thread.    *)
(***************************************************************************)
EXTENDS Integers, Sequences, FiniteSets

CONSTANTS
  Workers,      \* threads running under the job
  MaxTime,      \* bound on the clock
  MaxSpans,     \* bound on the number of spans begun
  StallAfter    \* Monitor::Options::stallAfter, 0 disables

ASSUME SpanAssumption == StallAfter \in Nat /\ MaxTime \in Nat /\ MaxSpans \in Nat

VARIABLES
  now,           \* monotonicNs()
  stack,         \* [Workers -> ThreadState::spans]
  live,          \* Span objects not ended yet
  spanCount,     \* gNextSpanId
  selfTotal,     \* SpanSummarySink: selfNs summed over all names
  topTotal,      \* RunRecorder::topLevel_: durations of the depth 0 spans
  lifo,          \* every span so far was ended innermost first
  trace,         \* ChromeTraceSink: named threads, first_, open, and the file
  activity,      \* Job::lastActivityNs_
  watch,         \* Monitor::run's locals and where it is
  stopping,      \* Monitor::stopping_
  silenceReports \* reports made of the present silence

monitorVars == <<now, stack, live, spanCount, selfTotal, topTotal, lifo, trace, activity,
                 watch, stopping, silenceReports>>
spanVars == <<stack, live, spanCount, selfTotal, topTotal, lifo, trace>>
watchVars == <<watch, stopping>>

MonitorInit ==
  /\ now = 1
  /\ stack = [w \in Workers |-> <<>>]
  /\ live = {}
  /\ spanCount = 0
  /\ selfTotal = 0
  /\ topTotal = 0
  /\ lifo = TRUE
  /\ trace = [last |-> "[", array |-> TRUE, named |-> {}, first |-> TRUE, open |-> TRUE]
  /\ activity = 1
  /\ watch = [pc |-> "wait", threshold |-> StallAfter, reported |-> 0, now |-> 0]
  /\ stopping = FALSE
  /\ silenceReports = 0

ClockTick ==
  /\ now < MaxTime
  /\ now' = now + 1
  /\ UNCHANGED <<spanVars, activity, watchVars, silenceReports>>

\* Job::touch; the present silence ends.
Touch ==
  /\ activity' = now
  /\ silenceReports' = IF now = activity THEN silenceReports ELSE 0

(***************************************************************************)
(* The sinks of a finished span.                                           *)
(***************************************************************************)
\* What may follow the last token of a file that is a JSON array so far.
MayFollow(last, token) ==
  CASE token = "," -> last = "event"
    [] token = "]" -> last \in {"[", "event"}
    [] token = "event" -> last \in {"[", ","}

\* The file is its last token and whether it reads as an array up to there.
Put(tr, token) == [tr EXCEPT !.array = @ /\ MayFollow(tr.last, token), !.last = token]

\* ChromeTraceSink::writeEvent
WriteEvent(tr) ==
  IF ~tr.open THEN tr
  ELSE Put([(IF tr.first THEN tr ELSE Put(tr, ",")) EXCEPT !.first = FALSE], "event")

\* ChromeTraceSink::write(SpanRecord): names the thread the first time.
TraceWrite(tr, w) ==
  IF ~tr.open THEN tr
  ELSE LET named == IF w \in tr.named THEN tr
                    ELSE WriteEvent([tr EXCEPT !.named = @ \cup {w}])
       IN  WriteEvent(named)

\* ChromeTraceSink::counter, which relies on writeEvent for a closed file.
TraceCounter(tr) == WriteEvent(tr)

TraceClose(tr) == IF tr.open THEN [Put(tr, "]") EXCEPT !.open = FALSE] ELSE tr

(***************************************************************************)
(* Span::Span and Span::end.                                               *)
(***************************************************************************)
back(frames) == frames[Len(frames)]

Begin(w) ==
  /\ spanCount < MaxSpans
  /\ spanCount' = spanCount + 1
  /\ LET id == spanCount + 1
         parent == IF stack[w] = <<>> THEN 0 ELSE back(stack[w]).id
     IN  /\ live' = live \cup {[id |-> id, parent |-> parent, start |-> now, worker |-> w,
                                depth |-> Len(stack[w])]}
         /\ stack' = [stack EXCEPT ![w] = Append(@, [id |-> id, start |-> now, child |-> 0])]
  /\ Touch
  /\ UNCHANGED <<now, selfTotal, topTotal, lifo, trace, watchVars>>

\* Mutant: the duration is charged to whatever span is on top.
ChargeTop(frames, parent, duration) ==
  IF frames # <<>> THEN [frames EXCEPT ![Len(frames)].child = @ + duration] ELSE frames

\* The stack of the span's thread once the span is gone and its duration is
\* charged to the enclosing span, if that is the one on top now.
Charge(frames, parent, duration) ==
  IF frames # <<>> /\ back(frames).id = parent
  THEN [frames EXCEPT ![Len(frames)].child = @ + duration] ELSE frames

Without(frames, i) == SubSeq(frames, 1, i - 1) \o SubSeq(frames, i + 1, Len(frames))

Pop(frames, i, span, duration) == Charge(Without(frames, i), span.parent, duration)

End(span) ==
  LET w == span.worker
      frame == CHOOSE i \in DOMAIN stack[w] : stack[w][i].id = span.id
      duration == now - span.start
      child == stack[w][frame].child
      self == IF duration > child THEN duration - child ELSE 0
  IN  /\ live' = live \ {span}
      /\ stack' = [stack EXCEPT ![w] = Pop(@, frame, span, duration)]
      /\ lifo' = (lifo /\ frame = Len(stack[w]))
      /\ selfTotal' = selfTotal + self   \* SpanSummarySink::write, over all names
      /\ topTotal' = IF span.depth = 0 THEN topTotal + duration ELSE topTotal
      /\ trace' = TraceWrite(trace, w)
      /\ Touch
      /\ UNCHANGED <<now, spanCount, watchVars>>

\* Job::progress, as far as the watchdog sees it.
Progress ==
  /\ activity # now
  /\ Touch
  /\ UNCHANGED <<now, spanVars, watchVars>>

CloseTrace ==
  /\ trace.open
  /\ trace' = TraceClose(trace)
  /\ UNCHANGED <<now, stack, live, spanCount, selfTotal, topTotal, lifo, activity, watchVars,
                 silenceReports>>

(***************************************************************************)
(* Monitor::run: wake, sample the clock, read the activity and decide; the *)
(* job runs on between the last two.                                       *)
(***************************************************************************)

WatchWake ==
  /\ watch.pc = "wait"
  /\ watch' = [watch EXCEPT !.pc = IF stopping THEN "exited" ELSE "tick"]
  /\ UNCHANGED <<now, spanVars, activity, stopping, silenceReports>>

\* options_.onTick and the clock read.
WatchTick ==
  /\ watch.pc = "tick"
  /\ watch' = [watch EXCEPT !.pc = "decide", !.now = now]
  /\ trace' = TraceCounter(trace)
  /\ UNCHANGED <<now, stack, live, spanCount, selfTotal, topTotal, lifo, activity, stopping,
                 silenceReports>>

\* Mutant: a new silence inherits the doubled threshold of the last one.
ThresholdKept == watch.threshold

\* The threshold that applies to the activity read.
Threshold == IF activity # watch.reported THEN StallAfter ELSE watch.threshold

Silent == watch.now > activity /\ watch.now - activity >= Threshold

WatchDecide ==
  /\ watch.pc = "decide"
  /\ IF StallAfter = 0
     THEN watch' = [watch EXCEPT !.pc = "wait"] /\ UNCHANGED silenceReports
     ELSE IF Silent
     THEN /\ watch' = [watch EXCEPT !.pc = "wait", !.threshold = 2 * Threshold,
                                    !.reported = activity]
          /\ silenceReports' = silenceReports + 1
     ELSE /\ watch' = [watch EXCEPT !.pc = "wait", !.threshold = Threshold]
          /\ UNCHANGED silenceReports
  /\ UNCHANGED <<now, spanVars, activity, stopping>>

Stop ==
  /\ ~stopping
  /\ stopping' = TRUE
  /\ UNCHANGED <<now, spanVars, activity, watch, silenceReports>>

\* The monitor thread; the scheduler is fair to it and its waits time out.
WatchStep == WatchWake \/ WatchTick \/ WatchDecide

MonitorNext ==
  \/ ClockTick
  \/ \E w \in Workers : Begin(w)
  \/ \E span \in live : End(span)
  \/ Progress
  \/ CloseTrace
  \/ WatchStep
  \/ Stop

(***************************************************************************)
(* Properties.                                                             *)
(***************************************************************************)

\* The time charged to an open span's children fits before whatever is still
\* open inside it, even when spans were ended out of order, so selfNs never
\* needs its clamp and no interval is charged twice (Span::end).
ChildTimeFits ==
  \A w \in Workers : \A i \in DOMAIN stack[w] :
    LET until == IF i = Len(stack[w]) THEN now ELSE stack[w][i + 1].start
    IN  stack[w][i].child <= until - stack[w][i].start

\* Once every span is closed, and each was closed innermost first, the self
\* times of the profile add up to the durations of the outermost spans: the
\* summary table neither loses nor invents time.
SelfTimeAddsUp == live = {} /\ lifo => selfTotal = topTotal

\* The streamed trace is a JSON array whatever the threads and the monitor's
\* counters interleave: events separated by single commas, nothing after the
\* closing bracket.
TraceWellFormed == trace.array /\ (~trace.open => trace.last = "]")

\* "again at doubling intervals while the silence lasts" (monitor.h): the n-th
\* report of one silence comes no earlier than StallAfter * 2^(n-1) into it.
ReportsDouble ==
  silenceReports > 0 => now - activity >= StallAfter * 2^(silenceReports - 1)

\* A silence as long as StallAfter is reported, however long the threshold of
\* an earlier silence had grown, unless the job moves on or the monitor stops.
StallReported ==
  (now - activity >= StallAfter /\ ~stopping)
    ~> (silenceReports > 0 \/ now - activity < StallAfter \/ stopping)

\* The profile, the trace file and the stall reports stay truthful however
\* spans of several threads nest, overlap and end out of order.
SpansSound ==
  /\ ChildTimeFits
  /\ SelfTimeAddsUp
  /\ TraceWellFormed
  /\ ReportsDouble

=============================================================================
