---------------------------- MODULE TraceCoverage ----------------------------
(***************************************************************************)
(* From a recorded execution to the coverage a lift is restricted to: the  *)
(* guest's threads run and are recorded (trace, callgraph and flow rows in *)
(* segments, storage/tracedb.h), then the reader puts the rows together    *)
(* again and finds out which of them an invocation executed itself         *)
(* (analysis/execution_coverage.cpp).                                      *)
(*                                                                         *)
(* The recorder is not part of the repository; it is modelled from what    *)
(* the reader and its tests take for granted.  Trace pcs are offsets in    *)
(* the module, callgraph addresses are runtime addresses (docs/26).  Rows  *)
(* are well-formed; the decoding of bytes and of the manifest is left out. *)
(***************************************************************************)
EXTENDS Integers, Sequences, FiniteSets

CONSTANTS
  Code,          \* the module: offset -> [k, to], to the set of targets
  Threads,       \* the guest's threads
  Versions,      \* formats of the database, 5 and 6
  Selections,    \* what the caller asks for (CoverageSelection)
  RuntimeBase,   \* where the traced process had the module
  External,      \* an address outside the module
  MaxRows,       \* bound on the instructions recorded
  MaxSegments    \* bound on the segments of a thread

(***************************************************************************)
(* A module that execution does not run off, and requests for a function   *)
(* of an image that is not at address 0: at 0 the reader compares runtime  *)
(* addresses instead of offsets (execution_coverage.h:15).                 *)
(***************************************************************************)
ASSUME TraceAssumption ==
  /\ Threads \subseteq Nat /\ IsFiniteSet(Threads) /\ Versions \subseteq {5, 6}
  /\ RuntimeBase \in Nat /\ External \in Nat /\ DOMAIN Code \subseteq Nat \ {0}
  /\ \A p \in DOMAIN Code :
       /\ p < RuntimeBase /\ Code[p].to \subseteq DOMAIN Code
       /\ Code[p].k \in {"plain", "branch", "call", "import", "ret"}
       /\ Code[p].k \in {"plain", "call", "import"} => p + 1 \in DOMAIN Code
  /\ \A sel \in Selections :
       /\ sel.imageBase \in Nat \ {0} /\ sel.functionTarget \in Nat
       /\ sel.functionTarget = 0 \/ sel.functionTarget >= sel.imageBase

VARIABLES
  version,   \* of the database
  at,        \* per thread: the offset about to execute, 0 outside the module
  stack,     \* per thread: the ids of the calls in progress, the innermost last
  made,      \* per thread: the calls made, numbered in the order they began
  resume,    \* per thread and call: the offset it goes on at
  ran,       \* history, per thread: call and offset of each instruction executed
  db,        \* per thread: the segments written
  ended,     \* "no", "ended" (open calls marked noReturn) or "cut" (left open)
  cover      \* what load returned: [state, selection, invocations]

guestVars == <<at, stack, made, resume, ran>>
traceVars == <<version, at, stack, made, resume, ran, db, ended, cover>>

Segment == [trace |-> <<>>, calls |-> <<>>, flow |-> <<>>]
NoCover == [state |-> "none", selection |-> {}, invocations |-> {}]

TraceInit ==
  /\ version \in Versions
  /\ at = [t \in Threads |-> 0]
  /\ stack = [t \in Threads |-> <<>>] /\ made = [t \in Threads |-> <<>>]
  /\ resume = [t \in Threads |-> <<>>] /\ ran = [t \in Threads |-> <<>>]
  /\ db = [t \in Threads |-> <<Segment>>]
  /\ ended = "no"
  /\ cover = NoCover

RowCount(t) == Len(ran[t])
TotalRows == LET sum[S \in SUBSET Threads] ==
                   IF S = {} THEN 0 ELSE LET t == CHOOSE x \in S : TRUE
                                         IN  RowCount(t) + sum[S \ {t}]
             IN  sum[Threads]

(***************************************************************************)
(* The recorded process, one instruction at a time.  A call begins: a call *)
(* instruction's frame is anchored at its own row, a call from outside at  *)
(* the callee's first one (CallGraphRow::indirect).                        *)
(***************************************************************************)
top(t) == stack[t][Len(stack[t])]

Enter(t, f, site, indirect, row) ==
  /\ at' = [at EXCEPT ![t] = f]
  /\ made' = [made EXCEPT ![t] =
       Append(@, [entry |-> f, parent |-> IF stack[t] = <<>> THEN 0 ELSE top(t),
                  site |-> site, enter |-> row, indirect |-> indirect])]
  /\ stack' = [stack EXCEPT ![t] = Append(@, Len(made[t]) + 1)]

\* The callgraph row of a call that is over.
FrameRow(t, id, exit, noReturn) ==
  [callId |-> id, parentCallId |-> made[t][id].parent,
   calleeTarget |-> RuntimeBase + made[t][id].entry, callsitePc |-> made[t][id].site,
   enterTraceId |-> made[t][id].enter, exitTraceId |-> exit,
   indirect |-> made[t][id].indirect, noReturn |-> noReturn]

\* The rows of one instruction, at the end of the newest segment.
written(segs, row, calls, flow) ==
  [segs EXCEPT ![Len(segs)] = [trace |-> Append(@.trace, row), calls |-> @.calls \o calls,
                               flow |-> @.flow \o flow]]

\* The thread executes its next instruction, which belongs to the innermost call
\* and goes on at `to', and is recorded.
Record(t, to, calls) ==
  /\ ran' = [ran EXCEPT ![t] = Append(@, [call |-> top(t), pc |-> at[t]])]
  /\ db' = [db EXCEPT ![t] =
       written(@, [traceId |-> RowCount(t) + 1, pc |-> at[t]], calls,
               IF version < 6 \/ Code[at[t]].k = "plain" THEN <<>>
               ELSE <<[traceId |-> RowCount(t) + 1, sourcePc |-> at[t],
                       targetPc |-> IF to = 0 THEN External ELSE to]>>)]
  /\ UNCHANGED <<version, ended, cover>>

GoOn(t) ==
  /\ Code[at[t]].k \in {"plain", "branch"}
  /\ \E q \in (IF Code[at[t]].k = "plain" THEN {at[t] + 1} ELSE Code[at[t]].to) :
       at' = [at EXCEPT ![t] = q] /\ Record(t, q, <<>>)
  /\ UNCHANGED <<stack, made, resume>>

CallOn(t) ==
  /\ Code[at[t]].k = "call"
  /\ \E f \in Code[at[t]].to :
       Enter(t, f, RuntimeBase + at[t], FALSE, RowCount(t) + 1) /\ Record(t, f, <<>>)
  /\ resume' = [resume EXCEPT ![t] = Append([@ EXCEPT ![top(t)] = at[t] + 1], 0)]

CallOut(t) ==
  /\ Code[at[t]].k = "import"
  /\ at' = [at EXCEPT ![t] = 0] /\ Record(t, 0, <<>>)
  /\ resume' = [resume EXCEPT ![t] = [@ EXCEPT ![top(t)] = at[t] + 1]]
  /\ UNCHANGED <<stack, made>>

\* A call's exit is the row that follows its return.
Return(t) ==
  LET call == made[t][top(t)]
      to == IF call.indirect THEN 0 ELSE resume[t][call.parent]
  IN  /\ Code[at[t]].k = "ret"
      /\ stack' = [stack EXCEPT ![t] = SubSeq(@, 1, Len(@) - 1)]
      /\ at' = [at EXCEPT ![t] = to]
      /\ Record(t, to, <<FrameRow(t, top(t), RowCount(t) + 2, FALSE)>>)
      /\ UNCHANGED <<made, resume>>

Execute(t) ==
  /\ ended = "no" /\ at[t] # 0 /\ TotalRows < MaxRows
  /\ GoOn(t) \/ CallOn(t) \/ CallOut(t) \/ Return(t)

\* Code outside the module calls into it: a thread's start or a callback.
CallIn(t, f) ==
  /\ ended = "no" /\ at[t] = 0 /\ TotalRows < MaxRows
  /\ Enter(t, f, External, TRUE, RowCount(t) + 1)
  /\ resume' = [resume EXCEPT ![t] = Append(@, 0)]
  /\ UNCHANGED <<version, ran, db, ended, cover>>

\* The function outside that the module called returns.
ReturnIn(t) ==
  /\ ended = "no" /\ at[t] = 0 /\ stack[t] # <<>>
  /\ at' = [at EXCEPT ![t] = resume[t][top(t)]]
  /\ UNCHANGED <<version, stack, made, resume, ran, db, ended, cover>>

RollSegment(t) ==
  /\ ended = "no" /\ Len(db[t]) < MaxSegments /\ db[t][Len(db[t])].trace # <<>>
  /\ db' = [db EXCEPT ![t] = Append(@, Segment)]
  /\ UNCHANGED <<version, guestVars, ended, cover>>

\* The process ends, at any instruction of any thread: the open calls never
\* return, or the recorder did not live to say so and their exit stays 0.  A
\* call from outside is first noticed at its first instruction.
OpenRow(t, id, how) == IF how = "cut" THEN FrameRow(t, id, 0, FALSE)
                       ELSE FrameRow(t, id, RowCount(t), TRUE)

EndTrace(how) ==
  /\ ended = "no"
  /\ \A t \in Threads : stack[t] # <<>> /\ made[t][top(t)].indirect =>
       made[t][top(t)].enter <= RowCount(t)
  /\ ended' = how
  /\ db' = [t \in Threads |->
      [db[t] EXCEPT ![Len(db[t])].calls = @ \o
        [i \in 1..Len(stack[t]) |-> OpenRow(t, stack[t][Len(stack[t]) + 1 - i], how)]]]
  /\ UNCHANGED <<version, guestVars, cover>>

-----------------------------------------------------------------------------
(***************************************************************************)
(* The reader (storage/tracedb.cpp) puts the segments in the order of the  *)
(* first trace id each declares, 0 for one without trace rows, and accepts *)
(* rows only in increasing order of their ids.  What it then uses of them  *)
(* is their set.                                                           *)
(***************************************************************************)
rowsOf(s) == {s[i] : i \in 1..Len(s)}
minTraceId(s) == IF s.trace = <<>> THEN 0 ELSE s.trace[1].traceId
ascending(rows) == \A i \in 2..Len(rows) : rows[i - 1].traceId < rows[i].traceId

\* appendOrdered over the segments of one stream, "trace" or "flow"
ordered(t, stream) ==
  /\ \A s \in DOMAIN db[t] : ascending(db[t][s][stream])
  /\ \A s, u \in DOMAIN db[t] :
       s # u /\ minTraceId(db[t][s]) <= minTraceId(db[t][u]) =>
         \A a \in rowsOf(db[t][s][stream]), b \in rowsOf(db[t][u][stream]) : a.traceId < b.traceId

readTrace(t) == UNION {rowsOf(db[t][s].trace) : s \in DOMAIN db[t]}
readCallGraph(t) == UNION {rowsOf(db[t][s].calls) : s \in DOMAIN db[t]}
readFlow(t) == IF version < 6 THEN {} ELSE UNION {rowsOf(db[t][s].flow) : s \in DOMAIN db[t]}

(***************************************************************************)
(* ExecutionCoverage::load.                                                *)
(***************************************************************************)

\* Mutant: the row before the exit is the last one of every call.
bodyInterval_AllReturn(frame) ==
  frame.enterTraceId + (IF frame.indirect THEN 0 ELSE 1) .. frame.exitTraceId - 1

bodyInterval(frame) ==
  LET first == frame.enterTraceId + (IF frame.indirect THEN 0 ELSE 1)
      last == IF frame.noReturn \/ frame.exitTraceId = 0 THEN frame.exitTraceId
              ELSE frame.exitTraceId - 1
  IN  first..last

\* The parents of child, from its own upwards, reach parent: it is in every set
\* of ids that has the first of them and, with a call, the call's parent.
childOf(child, parent, frames) ==
  LET ids == {f.callId : f \in frames} \cup {f.parentCallId : f \in frames}
  IN  \A A \in SUBSET ids :
        /\ child.parentCallId \in A
        /\ \A f \in frames : f.callId \in A => f.parentCallId \in A
        => parent.callId \in A

\* Where the traced process had the module, from the row a frame is anchored at.
traceRuntimeBase(t, frame) ==
  LET anchors == {r \in readTrace(t) : r.traceId = frame.enterTraceId}
      address == IF frame.indirect THEN frame.calleeTarget ELSE frame.callsitePc
  IN  IF anchors = {} THEN 0
      ELSE LET pc == (CHOOSE r \in anchors : TRUE).pc IN IF address >= pc THEN address - pc ELSE 0

targetMatches(sel, frame, base) ==
  /\ sel.functionTarget # 0
  /\ IF sel.imageBase # 0 /\ base # 0 /\ sel.functionTarget >= sel.imageBase
          /\ frame.calleeTarget >= base
     THEN sel.functionTarget - sel.imageBase = frame.calleeTarget - base
     ELSE frame.calleeTarget = sel.functionTarget

selectedThreads(sel) == {t \in Threads : sel.threads = {} \/ t \in sel.threads}

candidates(sel) ==
  {c \in UNION {{[thread |-> t, frame |-> f, base |-> traceRuntimeBase(t, f)] : f \in readCallGraph(t)}
                 : t \in selectedThreads(sel)} :
     targetMatches(sel, c.frame, c.base) \/ c.frame.callId \in sel.callIds}

precedes(c, d) ==
  \/ c.thread < d.thread
  \/ c.thread = d.thread /\ c.frame.enterTraceId < d.frame.enterTraceId
  \/ c.thread = d.thread /\ c.frame.enterTraceId = d.frame.enterTraceId
                         /\ c.frame.callId < d.frame.callId

\* Call ids and ordinals are a union; with neither, every candidate.
chosen(sel) ==
  LET all == candidates(sel)
      ordinal(c) == Cardinality({d \in all : precedes(d, c)})
  IN  IF sel.ordinals = {} /\ sel.callIds = {} THEN all
      ELSE {c \in all : ordinal(c) \in sel.ordinals \/ c.frame.callId \in sel.callIds}

\* The instructions an invocation executed itself, by their ids.
owned(c) ==
  LET frames == readCallGraph(c.thread)
      nested == {f \in frames : f.callId # c.frame.callId /\ childOf(f, c.frame, frames)}
  IN  bodyInterval(c.frame) \ UNION {bodyInterval(f) : f \in nested}

rebase(sel, c, pc) ==
  IF sel.imageBase = 0 \/ c.base = 0 \/ pc >= c.base THEN pc ELSE sel.imageBase + pc

\* The rows an invocation owns.  A v5 database has only their order; a v6 one
\* names the outcome of every transfer, of which the ones that stay among the
\* owned rows count.
ownRows(c) == {r \in readTrace(c.thread) : r.traceId \in owned(c)}

follow(rows, r, q) == /\ r.traceId < q.traceId
                      /\ \A x \in rows : ~(r.traceId < x.traceId /\ x.traceId < q.traceId)

edges(c) ==
  LET rows == ownRows(c)
      ids == {r.traceId : r \in rows}
  IN  IF version = 5
        THEN {<<e[1].pc, e[2].pc>> : e \in {e \in rows \X rows : follow(rows, e[1], e[2])}}
        ELSE {<<r.sourcePc, r.targetPc>> :
                r \in {x \in readFlow(c.thread) : {x.traceId, x.traceId + 1} \subseteq ids}}

invocation(sel, c) ==
  [threadId |-> c.thread, callId |-> c.frame.callId,
   functionTarget |->
     IF sel.imageBase # 0 /\ c.base # 0 /\ c.frame.calleeTarget >= c.base
       THEN sel.imageBase + (c.frame.calleeTarget - c.base) ELSE c.frame.calleeTarget,
   executedPcs |-> {rebase(sel, c, r.pc) : r \in ownRows(c)},
   successors |-> {<<rebase(sel, c, e[1]), rebase(sel, c, e[2])>> : e \in edges(c)}]

\* Every invocation chosen, or an error: rows out of order, a call whose body is
\* empty or open, a call id used twice.
unloadable(sel) ==
  \/ \E t \in selectedThreads(sel) : ~ordered(t, "trace")
  \/ \E c \in chosen(sel) :
       \/ version >= 6 /\ ~ordered(c.thread, "flow")
       \/ bodyInterval(c.frame) = {}
       \/ \E f, g \in readCallGraph(c.thread) : f # g /\ f.callId = g.callId

load(sel) ==
  IF unloadable(sel)
    THEN [state |-> "error", selection |-> sel, invocations |-> {}]
    ELSE [state |-> "loaded", selection |-> sel,
          invocations |-> {invocation(sel, c) : c \in chosen(sel)}]

contains(pc) == \E i \in cover.invocations : pc \in i.executedPcs

\* The command loads the coverage and hands it to the driver, which lifts the
\* recorded function at once: no round of discovery, but the entry must have run.
Decompile(sel) ==
  /\ ended # "no" /\ cover.state = "none"
  /\ cover' = load(sel)
  /\ UNCHANGED <<version, guestVars, db, ended>>

HandOver ==
  /\ cover.state = "loaded"
  /\ cover' = [cover EXCEPT !.state =
       IF cover.invocations = {} THEN "no invocation"
       ELSE IF ~contains(cover.selection.functionTarget) THEN "not covered" ELSE "lifting"]
  /\ UNCHANGED <<version, guestVars, db, ended>>

TraceNext ==
  \/ \E t \in Threads : Execute(t) \/ ReturnIn(t) \/ RollSegment(t)
  \/ \E t \in Threads, p \in DOMAIN Code : \E f \in Code[p].to : Code[p].k = "call" /\ CallIn(t, f)
  \/ \E how \in {"ended", "cut"} : EndTrace(how)
  \/ \E sel \in Selections : Decompile(sel)
  \/ HandOver

-----------------------------------------------------------------------------
(***************************************************************************)
(* What really happened, from the history the guest kept.                  *)
(***************************************************************************)
Calls(sel) ==
  UNION {{<<t, id>> : id \in DOMAIN made[t]} : t \in selectedThreads(sel)}

Matching(sel) ==
  {c \in Calls(sel) : \/ sel.functionTarget = sel.imageBase + made[c[1]][c[2]].entry
                      \/ c[2] \in sel.callIds}

\* Calls of a thread are numbered in the order they begin.
Rank(sel, c) ==
  Cardinality({d \in Matching(sel) : d[1] < c[1] \/ (d[1] = c[1] /\ d[2] < c[2])})

Wanted(sel) ==
  IF sel.ordinals = {} /\ sel.callIds = {} THEN Matching(sel)
  ELSE {c \in Matching(sel) : Rank(sel, c) \in sel.ordinals \/ c[2] \in sel.callIds}

Ran(c) == {i \in 1..RowCount(c[1]) : ran[c[1]][i].call = c[2]}
PcOf(t, i) == ran[t][i].pc
Branched(c) == {i \in Ran(c) : i + 1 \in Ran(c) /\ Code[PcOf(c[1], i)].k = "branch"}
Unfinished(c) == ended = "cut" /\ \E i \in DOMAIN stack[c[1]] : stack[c[1]][i] = c[2]

\* "xdec can decompile exactly the control flow covered by one tracedb engine"
\* (docs/26): whatever the threads did, however calls nested, recursed, called
\* back, ended early and were split over segments, and wherever the module was
\* loaded, an invocation is given exactly the instructions it executed itself
\* and exactly the branches it took, the invocations are the ones asked for, a
\* function that ran is accepted by the driver, and loading fails only over an
\* asked-for call that was still open or had executed nothing.
CoverageExact ==
  cover.state # "none" =>
    LET sel == cover.selection
        wanted == Wanted(sel)
        here(pc) == sel.imageBase + pc
        found(c) == {i \in cover.invocations : i.threadId = c[1] /\ i.callId = c[2]}
    IN  /\ cover.state = "error" <=> \E c \in wanted : Unfinished(c) \/ Ran(c) = {}
        /\ cover.state # "error" =>
             /\ {<<i.threadId, i.callId>> : i \in cover.invocations} = wanted
             /\ \A c \in wanted : \E i \in found(c) :
                  /\ i.functionTarget = here(made[c[1]][c[2]].entry)
                  /\ i.executedPcs = {here(PcOf(c[1], n)) : n \in Ran(c)}
                  /\ {e \in i.successors : \E p \in DOMAIN Code : Code[p].k = "branch" /\ e[1] = here(p)}
                       = {<<here(PcOf(c[1], n)), here(PcOf(c[1], n + 1))>> : n \in Branched(c)}
        /\ cover.state = "not covered" => sel.callIds # {}
=============================================================================
