---------------------------- MODULE LogDispatch ----------------------------
(***************************************************************************)
(* How a log record reaches the sinks (log.cpp, sink_list.h, job.cpp) and  *)
(* what the sinks that keep state do with it: the terminal with its status *)
(* line, the ring buffer of the crash report and the run recorder.         *)
(*                                                                         *)
(* Threads emit concurrently while others add and remove sinks.  The sink  *)
(* list is copy-on-write: a dispatch walks the snapshot it took, one sink  *)
(* per step.  A sink may throw (it formats and allocates); the exception   *)
(* leaves dispatch() with the thread's tDispatching still set.             *)
(***************************************************************************)
EXTENDS Naturals, Sequences, FiniteSets, FiniteSetsExt, SequencesExt

CONSTANTS
  Threads,
  EmitLevels,      \* the levels records are emitted at
  MaxEmits,        \* bound on the records emitted
  MaxSinkOps,      \* bound on addLogSink/removeLogSink/clearLogSinks calls
  MaxThrows,       \* bound on exceptions thrown by sinks
  MaxStatusOps,    \* bound on status line updates
  RingCapacity,    \* RingBufferSink::capacity_
  RingMinimum,     \* RingBufferSink::minimum_
  RecorderKeep,    \* RunRecorder::keep_
  MaxRecords,      \* RunRecorder::maxRecords_
  StatusSizes,     \* sizes of a status line, 0 hides it
  Width            \* terminalWidth()

ASSUME DispatchAssumption ==
  /\ EmitLevels \subseteq Nat /\ MaxThrows \in Nat
  /\ RingCapacity \in Nat \ {0} /\ RingMinimum \in Nat
  /\ RecorderKeep \in Nat /\ MaxRecords \in Nat
  /\ StatusSizes \subseteq Nat /\ Width \in Nat \ {0}

Sinks == {"terminal", "ring", "recorder"}

VARIABLES
  sinks,       \* SinkList::current_, a sequence of [id, sink]
  nextId,      \* SinkList::nextId_
  jobSinks,    \* Job::logSinks_ of the job every thread runs under
  thread,      \* [Threads -> what the thread is doing in emit/dispatch]
  dispatching, \* [Threads -> tDispatching]
  emits,       \* [Threads -> number of records emitted]
  ring,        \* RingBufferSink::records_
  offered,     \* every record the ring was given and accepted
  recorder,    \* RunRecorder
  terminal,    \* Terminal, and the columns its status text occupies
  budget       \* calls left of each bounded kind

dispatchVars == <<sinks, nextId, jobSinks, thread, dispatching, emits, ring,
                  offered, recorder, terminal, budget>>
sinkState == <<ring, offered, recorder, terminal>>

NotEmitting == [pc |-> "idle"]
SinkIds == {sinks[i].id : i \in DOMAIN sinks}
Spend(kind) == budget[kind] > 0 /\ budget' = [budget EXCEPT ![kind] = @ - 1]

DispatchInit ==
  /\ sinks = <<[id |-> 1, sink |-> "terminal"], [id |-> 2, sink |-> "ring"]>>
  /\ nextId = 3   \* RunContext::start has put the console and the ring there
  /\ jobSinks = <<"recorder">>
  /\ thread = [t \in Threads |-> NotEmitting]
  /\ dispatching = [t \in Threads |-> FALSE]
  /\ emits = [t \in Threads |-> 0]
  /\ ring = <<>>
  /\ offered = <<>>
  /\ recorder = [records |-> <<>>, dropped |-> 0, counts |-> [l \in EmitLevels |-> 0]]
  /\ terminal \in {[status |-> 0, enabled |-> on, drawn |-> FALSE, columns |-> 0,
                     torn |-> FALSE] : on \in BOOLEAN}   \* a Monitor may have enabled it
  /\ budget = [emit |-> MaxEmits, sink |-> MaxSinkOps, throw |-> MaxThrows, status |-> MaxStatusOps]

(***************************************************************************)
(* Terminal.  columns is the last column of the row still showing status   *)
(* text; a log line written while some is left is torn.                    *)
(***************************************************************************)
Smaller(a, b) == IF a < b THEN a ELSE b

EraseLocked(tm) ==
  IF ~tm.drawn THEN tm
  ELSE LET blank == Smaller(tm.status, Width - 1)
       IN  [tm EXCEPT !.columns = IF @ > blank THEN @ ELSE 0, !.drawn = FALSE]

DrawLocked(tm) ==
  IF ~tm.enabled \/ tm.status = 0 THEN tm
  ELSE LET size == Smaller(tm.status, Width - 1)
       IN  [tm EXCEPT !.columns = IF @ > size THEN @ ELSE size, !.drawn = TRUE]

TerminalWrite(tm) ==
  LET clean == EraseLocked(tm)
  IN  DrawLocked([clean EXCEPT !.torn = @ \/ clean.columns > 0, !.columns = 0])

SetStatusOn(tm, size) == DrawLocked([EraseLocked(tm) EXCEPT !.status = size])

EnableStatusOn(tm, on) ==
  DrawLocked([(IF on THEN tm ELSE EraseLocked(tm)) EXCEPT !.enabled = on])

(***************************************************************************)
(* The other sinks.                                                        *)
(***************************************************************************)

RingWrite(records, r) ==
  IF r.level > RingMinimum THEN records
  ELSE IF Len(records) = RingCapacity THEN Append(Tail(records), r) ELSE Append(records, r)

RecorderWrite(rec, r) ==
  LET counted == [rec EXCEPT !.counts[r.level] = @ + 1]
  IN  IF r.level = 0 \/ r.level > RecorderKeep THEN counted
      ELSE IF Len(rec.records) >= MaxRecords THEN [counted EXCEPT !.dropped = @ + 1]
      ELSE [counted EXCEPT !.records = Append(@, r)]

SinkWrite(sink, r) ==
  CASE sink = "terminal" -> terminal' = TerminalWrite(terminal)
                            /\ UNCHANGED <<ring, offered, recorder>>
    [] sink = "ring" -> /\ ring' = RingWrite(ring, r)
                        /\ offered' = IF r.level > RingMinimum THEN offered
                                      ELSE Append(offered, r)
                        /\ UNCHANGED <<recorder, terminal>>
    [] sink = "recorder" -> recorder' = RecorderWrite(recorder, r)
                            /\ UNCHANGED <<ring, offered, terminal>>

(***************************************************************************)
(* Configuration of the sink list, by any thread.  A thread remembers the  *)
(* sinks that were attached ever since its emission began (steady).        *)
(***************************************************************************)
Unsteady(ids) ==
  thread' = [t \in Threads |-> IF thread[t].pc = "idle" THEN thread[t]
                               ELSE [thread[t] EXCEPT !.steady = @ \ ids]]

AddLogSink(sink) ==
  /\ Spend("sink")
  /\ sinks' = Append(sinks, [id |-> nextId, sink |-> sink])
  /\ nextId' = nextId + 1
  /\ UNCHANGED <<jobSinks, thread, dispatching, emits, sinkState>>

\* An id is given out once, so erase_if finds one entry at most.
RemoveLogSink(id) ==
  /\ Spend("sink")
  /\ LET at == {i \in DOMAIN sinks : sinks[i].id = id}
     IN  sinks' = IF at = {} THEN sinks ELSE RemoveAt(sinks, Max(at))
  /\ Unsteady({id})
  /\ UNCHANGED <<nextId, jobSinks, dispatching, emits, sinkState>>

ClearLogSinks ==
  /\ Spend("sink")
  /\ sinks' = <<>>
  /\ Unsteady(SinkIds)
  /\ UNCHANGED <<nextId, jobSinks, dispatching, emits, sinkState>>

SetStatus(size) ==
  /\ Spend("status")
  /\ terminal' = SetStatusOn(terminal, size)
  /\ UNCHANGED <<sinks, nextId, jobSinks, thread, dispatching, emits, ring, offered, recorder>>

EnableStatus(on) ==
  /\ Spend("status")
  /\ terminal' = EnableStatusOn(terminal, on)
  /\ UNCHANGED <<sinks, nextId, jobSinks, thread, dispatching, emits, ring, offered, recorder>>

(***************************************************************************)
(* Emission and dispatch on one thread.                                    *)
(***************************************************************************)
\* XDEC_LOG on an enabled level, detail::emit up to the call of dispatch().
Emit(t, l) ==
  /\ thread[t].pc = "idle"
  /\ Spend("emit")
  /\ emits' = [emits EXCEPT ![t] = @ + 1]
  /\ thread' = [thread EXCEPT ![t] =
       [pc |-> "emit", record |-> [thread |-> t, seq |-> emits[t] + 1, level |-> l],
        queue |-> <<>>, steady |-> SinkIds, wrote |-> <<>>]]
  /\ UNCHANGED <<sinks, nextId, jobSinks, dispatching, sinkState>>

\* dispatch(): nothing when this thread is dispatching already, else the
\* snapshot of the process-wide sinks.
Dispatch(t) ==
  /\ thread[t].pc = "emit"
  /\ IF dispatching[t]
     THEN thread' = [thread EXCEPT ![t] = NotEmitting] /\ UNCHANGED dispatching
     ELSE /\ dispatching' = [dispatching EXCEPT ![t] = TRUE]
          /\ thread' = [thread EXCEPT ![t].pc = "sinks", ![t].queue = sinks]
  /\ UNCHANGED <<sinks, nextId, jobSinks, emits, sinkState, budget>>

\* Mutant: the walk indexes the live list, not the snapshot it took.
WalkLive(t) ==
  /\ thread[t].pc \in {"sinks", "job"}
  /\ thread[t].queue # <<>>
  /\ LET k == Len(thread[t].wrote) + 1
         live == IF thread[t].pc = "sinks" THEN sinks ELSE thread[t].queue
         e == IF k \in DOMAIN live THEN live[k] ELSE Head(thread[t].queue)
     IN  /\ thread' = [thread EXCEPT ![t].queue = Tail(@), ![t].wrote = Append(@, e.id)]
         /\ SinkWrite(e.sink, thread[t].record)
  /\ UNCHANGED <<sinks, nextId, jobSinks, dispatching, emits, budget>>

\* One sink->write(record) of the walk.
WriteSink(t) ==
  /\ thread[t].pc \in {"sinks", "job"}
  /\ thread[t].queue # <<>>
  /\ LET e == Head(thread[t].queue)
     IN  /\ thread' = [thread EXCEPT ![t].queue = Tail(@), ![t].wrote = Append(@, e.id)]
         /\ SinkWrite(e.sink, thread[t].record)
  /\ UNCHANGED <<sinks, nextId, jobSinks, dispatching, emits, budget>>

SinkThrows(t) ==
  /\ thread[t].pc \in {"sinks", "job"}
  /\ thread[t].queue # <<>>
  /\ Spend("throw")
  /\ thread' = [thread EXCEPT ![t] = NotEmitting]
  /\ UNCHANGED <<sinks, nextId, jobSinks, dispatching, emits, sinkState>>

\* Job::deliver copies the job's own sinks; they have no id in the list.
DeliverToJob(t) ==
  /\ thread[t].pc = "sinks"
  /\ thread[t].queue = <<>>
  /\ thread' = [thread EXCEPT ![t].pc = "job",
                  ![t].queue = [i \in DOMAIN jobSinks |-> [id |-> 0, sink |-> jobSinks[i]]]]
  /\ UNCHANGED <<sinks, nextId, jobSinks, dispatching, emits, sinkState, budget>>

Finish(t) ==
  /\ thread[t].pc = "job"
  /\ thread[t].queue = <<>>
  /\ thread' = [thread EXCEPT ![t] = NotEmitting]
  /\ dispatching' = [dispatching EXCEPT ![t] = FALSE]
  /\ UNCHANGED <<sinks, nextId, jobSinks, emits, sinkState, budget>>

DispatchNext ==
  \/ \E sink \in {"ring", "recorder"} : AddLogSink(sink)
  \/ \E id \in 1..(nextId - 1) : RemoveLogSink(id)
  \/ ClearLogSinks
  \/ \E size \in StatusSizes : SetStatus(size)
  \/ \E on \in BOOLEAN : EnableStatus(on)
  \/ \E t \in Threads :
       \/ \E l \in EmitLevels : Emit(t, l)
       \/ Dispatch(t)
       \/ WriteSink(t)
       \/ SinkThrows(t)
       \/ DeliverToJob(t)
       \/ Finish(t)

DispatchSpec == DispatchInit /\ [][DispatchNext]_dispatchVars

(***************************************************************************)
(* Properties.                                                             *)
(***************************************************************************)

\* A sink that stayed attached while a record was emitted and dispatched is
\* written exactly once with it, whatever is added or removed meanwhile (the
\* copy-on-write SinkList under dispatch()).
SteadySinksWritten ==
  \A t \in Threads :
    thread[t].pc = "job" =>
      /\ \A id \in thread[t].steady :
           Cardinality({i \in DOMAIN thread[t].wrote : thread[t].wrote[i] = id}) = 1
      /\ \A i, j \in DOMAIN thread[t].wrote :
           i # j => thread[t].wrote[i] # thread[t].wrote[j] \/ thread[t].wrote[i] = 0

\* A thread that is not inside dispatch() can log again, unless a sink threw
\* in it: with no exception the re-entrancy flag never outlives its dispatch.
MutedOnlyByThrow ==
  budget.throw = MaxThrows => \A t \in Threads : thread[t].pc = "idle" => ~dispatching[t]

\* The crash report's ring holds the newest accepted records, in the order the
\* sink saw them, and one thread's records appear in the order it emitted them.
RingHoldsNewest ==
  /\ ring = SubSeq(offered, IF Len(offered) > RingCapacity
                            THEN Len(offered) - RingCapacity + 1 ELSE 1, Len(offered))
  /\ \A i, j \in DOMAIN offered :
       i < j /\ offered[i].thread = offered[j].thread => offered[i].seq <= offered[j].seq

\* One pair for every record counted at a level the recorder keeps.
KeptLevels == {l \in EmitLevels : l > 0 /\ l <= RecorderKeep}
Counted == UNION {{l} \X (1..recorder.counts[l]) : l \in KeptLevels}

\* RunRecorder accounts for every record it saw: kept and dropped records add
\* up to the counts of the levels it keeps, so "N dropped" can be trusted.
RecorderAccounts == Len(recorder.records) + recorder.dropped = Cardinality(Counted)

\* Log text and the status line never share a row: whenever the terminal is
\* written the row was blank, and the row holds exactly the status while drawn
\* ("so the two never interleave", sinks.h).
StatusNeverTorn ==
  /\ ~terminal.torn
  /\ terminal.columns = IF terminal.drawn THEN Smaller(terminal.status, Width - 1) ELSE 0

\* What dispatch() owes its callers, whatever the threads interleave: no
\* attached sink misses a record or sees it twice, no thread is left mute, the
\* ring and the recorder account for what they saw, the terminal is never torn.
DispatchSound ==
  /\ SteadySinksWritten
  /\ MutedOnlyByThrow
  /\ RingHoldsNewest
  /\ RecorderAccounts
  /\ StatusNeverTorn

=============================================================================
