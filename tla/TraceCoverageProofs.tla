------------------------- MODULE TraceCoverageProofs -------------------------
(***************************************************************************)
(* What the reader makes of a recorded execution is exact, for every       *)
(* module, every number of threads and every length of the trace.          *)
(*                                                                         *)
(* A thread is described by five values: a, the offset about to execute;   *)
(* st, the calls in progress; md, the calls made; rn, the instructions     *)
(* executed; K, the callgraph rows written.  An instruction is a row added *)
(* to rn and, for a call or a return, a call pushed on or popped off st:   *)
(* three lemmas about values (CoreRow, CorePush, CorePop) carry the        *)
(* invariant over every step of the recorded process.                      *)
(***************************************************************************)
EXTENDS TraceCoverage, FiniteSetTheorems, FunctionTheorems, SequenceTheorems, TLAPS

CallSet == [entry : DOMAIN Code, parent : Nat, site : Nat, enter : Nat \ {0},
            indirect : BOOLEAN]
RanSet == [call : Nat, pc : DOMAIN Code]

\* The first row of a call's body.
Begin(c) == c.enter + (IF c.indirect THEN 0 ELSE 1)

On(st, id) == \E j \in 1..Len(st) : st[j] = id

\* Going from call to parent, x reaches c.
UpClosed(md, A) == \A id \in 1..Len(md) : id \in A => md[id].parent \in A
Under(md, x, c) == \A A \in SUBSET (0..Len(md)) : x \in A /\ UpClosed(md, A) => c \in A

\* Calls are numbered in the order they begin.
TreeOK(md) ==
  /\ md \in Seq(CallSet)
  /\ \A id \in 1..Len(md) : md[id].parent < id
  /\ \A i, j \in 1..Len(md) : i < j => md[i].enter <= md[j].enter

\* The calls in progress are a chain of parents.
StackOK(st, md) ==
  /\ st \in Seq(Nat)
  /\ \A j \in 1..Len(st) : st[j] \in 1..Len(md)
  /\ \A j \in 1..Len(st) : md[st[j]].parent = IF j = 1 THEN 0 ELSE st[j - 1]
  /\ \A i, j \in 1..Len(st) : i < j => st[i] < st[j]
  /\ \A i, j \in 1..Len(st) : i <= j => Under(md, st[j], st[i])

\* The rows a call's frame is anchored at and begins with.
Begun(md, rn) ==
  \A id \in 1..Len(md) :
    /\ Begin(md[id]) <= Len(rn) + 1
    /\ md[id].enter <= Len(rn) =>
         IF md[id].indirect THEN rn[md[id].enter].pc = md[id].entry
         ELSE md[id].site = RuntimeBase + rn[md[id].enter].pc
    /\ Begin(md[id]) <= Len(rn) =>
         rn[Begin(md[id])].call = id /\ rn[Begin(md[id])].pc = md[id].entry

FrameOf(md, r) ==
  /\ r.callId \in 1..Len(md)
  /\ r.parentCallId = md[r.callId].parent
  /\ r.calleeTarget = RuntimeBase + md[r.callId].entry
  /\ r.callsitePc = md[r.callId].site
  /\ r.enterTraceId = md[r.callId].enter
  /\ r.indirect = md[r.callId].indirect
  /\ r.exitTraceId \in Nat

\* One row per call that is over, with its exit.
RowsOK(K, st, md, n, e) ==
  /\ \A r \in K : FrameOf(md, r)
  /\ \A r \in K : ~On(st, r.callId) =>
       ~r.noReturn /\ Begin(md[r.callId]) < r.exitTraceId /\ r.exitTraceId <= n + 1
  /\ \A r \in K : On(st, r.callId) =>
       \/ e = "cut" /\ r.exitTraceId = 0
       \/ e = "ended" /\ r.noReturn /\ r.exitTraceId = n
  /\ \A r, q \in K : r.callId = q.callId => r = q
  /\ \A id \in 1..Len(md) : (e = "no" /\ On(st, id)) \/ \E r \in K : r.callId = id

\* Row i was executed while call id was in progress.
Span(K, st, md, n, id, i) ==
  /\ Begin(md[id]) <= i /\ i <= n
  /\ On(st, id) \/ \A r \in K : r.callId = id => i < r.exitTraceId

\* A row belongs to the innermost of the calls that were in progress.
OwnOK(K, st, md, rn) ==
  /\ \A i \in 1..Len(rn) : rn[i].call \in 1..Len(md)
  /\ \A i \in 1..Len(rn) : Span(K, st, md, Len(rn), rn[i].call, i)
  /\ \A i \in 1..Len(rn), id \in 1..Len(md) :
       Span(K, st, md, Len(rn), id, i) => Under(md, rn[i].call, id)

Core(K, st, md, rn, e) ==
  /\ TreeOK(md) /\ StackOK(st, md) /\ rn \in Seq(RanSet)
  /\ Begun(md, rn) /\ RowsOK(K, st, md, Len(rn), e) /\ OwnOK(K, st, md, rn)

-----------------------------------------------------------------------------
(***************************************************************************)
(* The invariant: the calls of each thread, where it is and where its      *)
(* calls go on, and what the rows written say of what it executed.         *)
(***************************************************************************)
AtOK(a, st, md, rs, rn) ==
  /\ a = 0 \/ (a \in DOMAIN Code /\ st # <<>>)
  /\ rs \in Seq(Nat) /\ Len(rs) = Len(md)
  /\ \A id \in 1..Len(md) : md[id].indirect \/ md[id].parent # 0
  /\ \A j \in 1..Len(st) : j < Len(st) \/ a = 0 => rs[st[j]] \in DOMAIN Code
  /\ \A id \in 1..Len(md) : Begin(md[id]) = Len(rn) + 1 =>
       st # <<>> /\ id = st[Len(st)] /\ a = md[id].entry

\* The instruction that follows a row: the next row, or the one about to execute.
After(a, rn, i) == IF i < Len(rn) THEN rn[i + 1].pc ELSE a

GoesOn(a, st, rn) ==
  \A i \in 1..Len(rn) : Code[rn[i].pc].k \in {"plain", "branch"} =>
    IF i < Len(rn) THEN rn[i + 1].call = rn[i].call
    ELSE a # 0 /\ rn[i].call = st[Len(st)]

TraceRow == [traceId : Nat, pc : Nat]
CallRow == [callId : Nat, parentCallId : Nat, calleeTarget : Nat, callsitePc : Nat,
            enterTraceId : Nat, exitTraceId : Nat, indirect : BOOLEAN, noReturn : BOOLEAN]
FlowRow == [traceId : Nat, sourcePc : Nat, targetPc : Nat]
SegmentSet == [trace : Seq(TraceRow), calls : Seq(CallRow), flow : Seq(FlowRow)]

traceIn(segs) == UNION {rowsOf(segs[s].trace) : s \in DOMAIN segs}
callsIn(segs) == UNION {rowsOf(segs[s].calls) : s \in DOMAIN segs}
flowIn(segs) == UNION {rowsOf(segs[s].flow) : s \in DOMAIN segs}

\* Rows in the order they were executed; only the newest segment may be empty.
SegsOK(segs) ==
  /\ segs \in Seq(SegmentSet) /\ Len(segs) > 0
  /\ \A s \in 1..Len(segs) : ascending(segs[s].trace) /\ ascending(segs[s].flow)
  /\ \A s \in 1..Len(segs) : s < Len(segs) => segs[s].trace # <<>>
  /\ \A s, u \in 1..Len(segs) : s < u =>
       \A a \in rowsOf(segs[s].trace), b \in rowsOf(segs[u].trace) : a.traceId < b.traceId
  /\ \A s \in 1..Len(segs) : \A f \in rowsOf(segs[s].flow) :
       \E r \in rowsOf(segs[s].trace) : r.traceId = f.traceId

TraceIs(T, rn) == T = {[traceId |-> i, pc |-> rn[i].pc] : i \in 1..Len(rn)}

FlowIs(F, a, rn) ==
  /\ \A f \in F : /\ f.traceId \in 1..Len(rn) /\ f.sourcePc = rn[f.traceId].pc
                  /\ Code[f.sourcePc].k = "branch" => f.targetPc = After(a, rn, f.traceId)
  /\ \A i \in 1..Len(rn) : Code[rn[i].pc].k = "branch" => \E f \in F : f.traceId = i

ThreadOK(t) ==
  /\ Core(callsIn(db[t]), stack[t], made[t], ran[t], ended)
  /\ AtOK(at[t], stack[t], made[t], resume[t], ran[t])
  /\ GoesOn(at[t], stack[t], ran[t])
  /\ SegsOK(db[t])
  /\ TraceIs(traceIn(db[t]), ran[t])
  /\ version = 6 => FlowIs(flowIn(db[t]), at[t], ran[t])
  /\ ended # "no" => \A id \in 1..Len(made[t]) : made[t][id].enter <= Len(ran[t])

TraceTypeOK ==
  /\ version \in {5, 6} /\ ended \in {"no", "ended", "cut"}
  /\ at \in [Threads -> Nat] /\ DOMAIN stack = Threads /\ DOMAIN made = Threads
  /\ DOMAIN resume = Threads /\ DOMAIN ran = Threads /\ DOMAIN db = Threads
  /\ stack = [t \in Threads |-> stack[t]] /\ made = [t \in Threads |-> made[t]]
  /\ resume = [t \in Threads |-> resume[t]] /\ ran = [t \in Threads |-> ran[t]]
  /\ db = [t \in Threads |-> db[t]]

CoverOK ==
  /\ cover.state \in {"none", "error", "loaded", "no invocation", "not covered", "lifting"}
  /\ cover.state # "none" => ended # "no" /\ cover.selection \in Selections

TraceInv == TraceTypeOK /\ (\A t \in Threads : ThreadOK(t)) /\ CoverOK

TraceSpec == TraceInit /\ [][TraceNext]_traceVars

-----------------------------------------------------------------------------
(***************************************************************************)
(* Under is the reflexive closure of parent, and goes down in number.      *)
(***************************************************************************)

\* The type of a call's begin.
LEMMA BeginNat == ASSUME NEW c \in CallSet
                  PROVE  Begin(c) \in Nat \ {0} /\ Begin(c) \in {c.enter, c.enter + 1}
  BY DEF Begin, CallSet

\* The calls made are of their type.
LEMMA MadeTyped ==
  ASSUME NEW md, TreeOK(md)
  PROVE  /\ Len(md) \in Nat
         /\ \A id \in 1..Len(md) : md[id] \in CallSet
         /\ \A id \in 1..Len(md) : md[id].parent \in Nat /\ md[id].parent < id
<1>1. Len(md) \in Nat /\ \A id \in 1..Len(md) : md[id] \in CallSet BY DEF TreeOK
<1>2. \A id \in 1..Len(md) : md[id].parent \in Nat BY <1>1 DEF CallSet
<1> QED BY <1>1, <1>2 DEF TreeOK

\* Whatever reaches c from a call's parent reaches it from the call.
LEMMA UnderStep == ASSUME NEW md, NEW x \in 1..Len(md), NEW c, Under(md, md[x].parent, c)
                   PROVE  Under(md, x, c)
  BY DEF Under, UpClosed

\* A call reaches only calls that began before it.
LEMMA UnderLe == ASSUME NEW md, TreeOK(md), NEW x \in 0..Len(md), NEW c, Under(md, x, c)
                 PROVE  c \in 0..x
<1>1. Len(md) \in Nat BY DEF TreeOK
<1>2. \A id \in 1..Len(md) : md[id].parent \in Nat /\ md[id].parent < id
  BY MadeTyped
<1>3. 0..x \in SUBSET (0..Len(md)) /\ x \in 0..x BY <1>1
<1>4. UpClosed(md, 0..x) BY <1>1, <1>2 DEF UpClosed
<1> QED BY <1>3, <1>4 DEF Under

\* A call that reaches another one does so through its parent.
LEMMA UnderParent ==
  ASSUME NEW md, TreeOK(md), NEW x \in 1..Len(md), NEW c, Under(md, x, c), x # c
  PROVE  Under(md, md[x].parent, c)
<1> SUFFICES ASSUME NEW A \in SUBSET (0..Len(md)), md[x].parent \in A, UpClosed(md, A)
             PROVE  c \in A
  BY DEF Under
<1>1. Len(md) \in Nat BY DEF TreeOK
<1>2. A \cup {x} \in SUBSET (0..Len(md))
  <2>1. x \in 0..Len(md) BY <1>1
  <2> QED BY <2>1
<1>3. UpClosed(md, A \cup {x}) BY DEF UpClosed
<1>4. c \in A \cup {x} BY <1>2, <1>3 DEF Under
<1> QED BY <1>4

\* A call added later changes nothing between the calls there are.
LEMMA UnderLift ==
  ASSUME NEW md, TreeOK(md), NEW c \in CallSet, NEW x \in 0..Len(md), NEW y,
         Under(md, x, y)
  PROVE  Under(Append(md, c), x, y)
<1> SUFFICES ASSUME NEW A \in SUBSET (0..Len(Append(md, c))), x \in A, UpClosed(Append(md, c), A)
             PROVE  y \in A
  BY DEF Under
<1>1. /\ Len(md) \in Nat /\ Len(Append(md, c)) = Len(md) + 1
      /\ \A id \in 1..Len(md) : Append(md, c)[id] = md[id]
  BY DEF TreeOK
<1>2. \A id \in 1..Len(md) : md[id].parent \in Nat /\ md[id].parent < id
  BY MadeTyped
<1> DEFINE B == A \cap 0..Len(md)
<1>3. x \in B /\ B \in SUBSET (0..Len(md)) OBVIOUS
<1>4. UpClosed(md, B) BY <1>1, <1>2 DEF UpClosed
<1> QED BY <1>3, <1>4 DEF Under

\* What a call in progress reaches is in progress.
LEMMA UnderStack ==
  ASSUME NEW md, TreeOK(md), NEW st, StackOK(st, md), NEW x, On(st, x), NEW c \in 1..Len(md),
         Under(md, x, c)
  PROVE  On(st, c)
<1> DEFINE A == {0} \cup {st[j] : j \in 1..Len(st)}
<1>1. Len(md) \in Nat /\ Len(st) \in Nat BY DEF TreeOK, StackOK
<1>2. A \in SUBSET (0..Len(md)) /\ x \in A BY <1>1 DEF StackOK, On
<1>3. UpClosed(md, A)
  <2> SUFFICES ASSUME NEW id \in 1..Len(md), id \in A PROVE md[id].parent \in A
    BY DEF UpClosed
  <2>1. PICK j \in 1..Len(st) : id = st[j] BY <1>1
  <2>2. CASE j = 1 BY <2>1, <2>2 DEF StackOK
  <2>3. CASE j # 1
    <3>1. j - 1 \in 1..Len(st) /\ md[id].parent = st[j - 1] BY <1>1, <2>1, <2>3 DEF StackOK
    <3> QED BY <3>1
  <2> QED BY <2>2, <2>3
<1>4. c \in A BY <1>2, <1>3 DEF Under
<1> QED BY <1>1, <1>4 DEF On

-----------------------------------------------------------------------------
(***************************************************************************)
(* The three things a step does to a thread's calls and rows.              *)
(***************************************************************************)

\* Appending to a sequence.
LEMMA AppendFacts ==
  ASSUME NEW S, NEW s \in Seq(S), NEW x \in S
  PROVE  /\ Append(s, x) \in Seq(S) /\ Len(s) \in Nat /\ Len(Append(s, x)) = Len(s) + 1
         /\ \A i \in 1..Len(s) : Append(s, x)[i] = s[i]
         /\ Append(s, x)[Len(s) + 1] = x
  OBVIOUS

\* An instruction is executed: it belongs to the innermost call, and to all the
\* calls in progress.
LEMMA CoreRow ==
  ASSUME NEW K, NEW st, NEW md, NEW rn, Core(K, st, md, rn, "no"),
         NEW a \in DOMAIN Code, Len(st) > 0,
         \A id \in 1..Len(md) : Begin(md[id]) = Len(rn) + 1 =>
           id = st[Len(st)] /\ a = md[id].entry
  PROVE  Core(K, st, md, Append(rn, [call |-> st[Len(st)], pc |-> a]), "no")
<1> DEFINE top0 == st[Len(st)]
           row == [call |-> top0, pc |-> a]
           rn2 == Append(rn, row)
           n == Len(rn)
<1>0. TreeOK(md) /\ StackOK(st, md) /\ rn \in Seq(RanSet) /\ Begun(md, rn)
      /\ RowsOK(K, st, md, n, "no") /\ OwnOK(K, st, md, rn)
  BY DEF Core
<1>1. /\ Len(md) \in Nat /\ Len(st) \in Nat /\ n \in Nat
      /\ \A id \in 1..Len(md) : md[id] \in CallSet
  BY <1>0, MadeTyped DEF StackOK
<1>2. top0 \in 1..Len(md) /\ top0 \in Nat /\ On(st, top0) BY <1>0, <1>1 DEF StackOK, On
<1>3. row \in RanSet BY <1>2 DEF RanSet
<1>4. /\ rn2 \in Seq(RanSet) /\ Len(rn2) = n + 1
      /\ \A i \in 1..n : rn2[i] = rn[i]
      /\ rn2[n + 1] = row
  <2> HIDE DEF row
  <2> QED BY <1>0, <1>3, AppendFacts
<1>5. \A id \in 1..Len(md) : /\ Begin(md[id]) \in Nat \ {0} /\ md[id].enter \in Nat \ {0}
                             /\ Begin(md[id]) \in {md[id].enter, md[id].enter + 1}
                             /\ Begin(md[id]) <= n + 1
                             /\ md[id].indirect => Begin(md[id]) = md[id].enter
  BY <1>0, <1>1, BeginNat DEF Begun, CallSet, Begin
<1> HIDE DEF rn2
<1>6. Begun(md, rn2)
  <2> SUFFICES ASSUME NEW id \in 1..Len(md)
               PROVE  /\ Begin(md[id]) <= Len(rn2) + 1
                      /\ md[id].enter <= Len(rn2) =>
                           IF md[id].indirect THEN rn2[md[id].enter].pc = md[id].entry
                           ELSE md[id].site = RuntimeBase + rn2[md[id].enter].pc
                      /\ Begin(md[id]) <= Len(rn2) =>
                           rn2[Begin(md[id])].call = id /\ rn2[Begin(md[id])].pc = md[id].entry
    BY DEF Begun
  <2>1. Begin(md[id]) <= Len(rn2) + 1 BY <1>1, <1>4, <1>5
  <2>2. CASE Begin(md[id]) <= n
    <3>1. Begin(md[id]) \in 1..n /\ md[id].enter \in 1..n BY <1>1, <1>5, <2>2
    <3>2. rn2[Begin(md[id])] = rn[Begin(md[id])] /\ rn2[md[id].enter] = rn[md[id].enter]
      BY <1>4, <3>1
    <3>3. /\ IF md[id].indirect THEN rn[md[id].enter].pc = md[id].entry
             ELSE md[id].site = RuntimeBase + rn[md[id].enter].pc
          /\ rn[Begin(md[id])].call = id /\ rn[Begin(md[id])].pc = md[id].entry
      BY <1>0, <3>1, <2>2, <1>1 DEF Begun
    <3> QED BY <2>1, <3>2, <3>3
  <2>3. CASE Begin(md[id]) = n + 1
    <3>1. rn2[Begin(md[id])].call = id /\ rn2[Begin(md[id])].pc = md[id].entry
      BY <1>4, <2>3
    <3>2. CASE md[id].indirect BY <3>1, <3>2, <2>1, <1>5
    <3>3. CASE ~md[id].indirect
      <4>1. md[id].enter = n BY <1>1, <1>5, <2>3, <3>3 DEF Begin
      <4>2. n \in 1..n BY <1>1, <1>5, <4>1
      <4>3. md[id].site = RuntimeBase + rn[md[id].enter].pc
        BY <1>0, <4>1, <4>2, <3>3, <1>1 DEF Begun
      <4>4. rn2[md[id].enter] = rn[md[id].enter] BY <4>1, <4>2, <1>4
      <4> QED BY <2>1, <3>1, <3>3, <4>3, <4>4
    <3> QED BY <3>2, <3>3
  <2> QED BY <2>2, <2>3, <1>5, <1>1
<1>7. RowsOK(K, st, md, Len(rn2), "no")
  <2>1. \A r \in K : FrameOf(md, r) BY <1>0 DEF RowsOK
  <2>2. \A r \in K : r.exitTraceId \in Nat BY <2>1 DEF FrameOf
  <2>3. \A r \in K : r.exitTraceId <= n + 1 => r.exitTraceId <= Len(rn2) + 1
    BY <2>2, <1>4, <1>1
  <2> QED BY <1>0, <2>3 DEF RowsOK
<1>8. \A i \in 1..n, id \in 1..Len(md) :
         Span(K, st, md, Len(rn2), id, i) <=> Span(K, st, md, n, id, i)
  BY <1>1, <1>4 DEF Span
<1>9. \A id \in 1..Len(md) : Span(K, st, md, Len(rn2), id, n + 1) => On(st, id)
  <2> SUFFICES ASSUME NEW id \in 1..Len(md), Span(K, st, md, Len(rn2), id, n + 1), ~On(st, id)
               PROVE  FALSE
    OBVIOUS
  <2>1. PICK r \in K : r.callId = id BY <1>0 DEF RowsOK
  <2>2. r.exitTraceId <= n + 1 /\ r.exitTraceId \in Nat BY <1>0, <2>1 DEF RowsOK, FrameOf
  <2>3. n + 1 < r.exitTraceId BY <2>1 DEF Span
  <2> QED BY <2>2, <2>3, <1>1
<1>10. OwnOK(K, st, md, rn2)
  <2>1. ASSUME NEW i \in 1..Len(rn2)
        PROVE  /\ rn2[i].call \in 1..Len(md)
               /\ Span(K, st, md, Len(rn2), rn2[i].call, i)
               /\ \A id \in 1..Len(md) :
                    Span(K, st, md, Len(rn2), id, i) => Under(md, rn2[i].call, id)
    <3>1. CASE i \in 1..n
      <4>1. rn2[i] = rn[i] BY <3>1, <1>4
      <4> QED BY <1>0, <4>1, <3>1, <1>8 DEF OwnOK
    <3>2. CASE i = n + 1
      <4>1. rn2[i].call = top0 BY <3>2, <1>4
      <4>2. Span(K, st, md, Len(rn2), top0, n + 1) BY <1>2, <1>4, <1>5, <1>1 DEF Span
      <4>3. ASSUME NEW id \in 1..Len(md), On(st, id) PROVE Under(md, top0, id)
        <5>1. PICK j \in 1..Len(st) : st[j] = id BY <4>3 DEF On
        <5>2. Len(st) \in 1..Len(st) /\ j <= Len(st) BY <1>1
        <5> QED BY <1>0, <5>1, <5>2 DEF StackOK
      <4> QED BY <4>1, <4>2, <4>3, <3>2, <1>2, <1>9
    <3> QED BY <3>1, <3>2, <1>4, <1>1
  <2> QED BY <2>1 DEF OwnOK
<1> QED BY <1>0, <1>4, <1>6, <1>7, <1>10 DEF Core, rn2

\* A call begins with the row that comes next.
LEMMA CorePush ==
  ASSUME NEW K, NEW st, NEW md, NEW rn, Core(K, st, md, rn, "no"),
         NEW c \in CallSet, Begin(c) = Len(rn) + 1,
         c.parent = IF st = <<>> THEN 0 ELSE st[Len(st)],
         ~c.indirect => Len(rn) > 0 /\ c.site = RuntimeBase + rn[Len(rn)].pc,
         \A id \in 1..Len(md) : Begin(md[id]) <= Len(rn)
  PROVE  Core(K, Append(st, Len(md) + 1), Append(md, c), rn, "no")
<1> DEFINE m == Len(md)
           n == Len(rn)
           md2 == Append(md, c)
           st2 == Append(st, m + 1)
<1>0. TreeOK(md) /\ StackOK(st, md) /\ rn \in Seq(RanSet) /\ Begun(md, rn)
      /\ RowsOK(K, st, md, n, "no") /\ OwnOK(K, st, md, rn)
  BY DEF Core
<1>1. /\ m \in Nat /\ Len(st) \in Nat /\ n \in Nat /\ st \in Seq(Nat)
      /\ \A id \in 1..m : md[id] \in CallSet
      /\ \A id \in 1..m : md[id].parent \in Nat /\ md[id].parent < id
  BY <1>0, MadeTyped DEF StackOK
<1>2. /\ md2 \in Seq(CallSet) /\ Len(md2) = m + 1
      /\ \A id \in 1..m : md2[id] = md[id]
      /\ md2[m + 1] = c
  BY <1>0, AppendFacts DEF TreeOK
<1>3. /\ st2 \in Seq(Nat) /\ Len(st2) = Len(st) + 1
      /\ \A j \in 1..Len(st) : st2[j] = st[j]
      /\ st2[Len(st) + 1] = m + 1
  BY <1>1, AppendFacts
<1>4. /\ \A id \in 1..m : /\ Begin(md[id]) \in Nat \ {0} /\ md[id].enter \in Nat \ {0}
                          /\ md[id].enter <= n
      /\ c.enter \in {n, n + 1} /\ c.enter \in Nat /\ (c.indirect => c.enter = n + 1)
      /\ (~c.indirect => c.enter = n)
  <2>1. \A id \in 1..m : /\ Begin(md[id]) \in Nat \ {0} /\ md[id].enter \in Nat \ {0}
                         /\ Begin(md[id]) \in {md[id].enter, md[id].enter + 1}
    BY <1>1, BeginNat DEF CallSet
  <2>2. c.enter \in Nat BY DEF CallSet
  <2>3. c.enter \in {n, n + 1} BY <2>2, <1>1 DEF Begin
  <2>4. (c.indirect => c.enter = n + 1) /\ (~c.indirect => c.enter = n) BY <2>2, <1>1 DEF Begin
  <2> QED BY <2>1, <2>2, <2>3, <2>4, <1>1
<1>5. \A j \in 1..Len(st) : st[j] \in 1..m BY <1>0 DEF StackOK
<1>6. c.parent \in 0..m BY <1>1, <1>5
<1> HIDE DEF m, n, md2, st2
<1>7. TreeOK(md2)
  <2>1. \A id \in 1..Len(md2) : md2[id].parent < id BY <1>1, <1>2, <1>6
  <2>2. ASSUME NEW i \in 1..Len(md2), NEW j \in 1..Len(md2), i < j
        PROVE  md2[i].enter <= md2[j].enter
    <3>1. CASE j \in 1..m
      <4>1. i \in 1..m BY <2>2, <3>1, <1>1
      <4>2. md2[i] = md[i] /\ md2[j] = md[j] BY <4>1, <3>1, <1>2
      <4> QED BY <1>0, <4>1, <4>2, <3>1, <2>2 DEF TreeOK, m
    <3>2. CASE j = m + 1
      <4>1. i \in 1..m BY <2>2, <3>2, <1>1, <1>2
      <4>2. md2[i] = md[i] /\ md2[j] = c BY <4>1, <3>2, <1>2
      <4>3. md[i].enter \in Nat /\ md[i].enter <= n BY <4>1, <1>4
      <4> QED BY <4>2, <4>3, <1>4, <1>1
    <3> QED BY <3>1, <3>2, <1>1, <1>2
  <2> QED BY <1>2, <2>1, <2>2 DEF TreeOK
<1>8. \A x \in 0..m : \A y : Under(md, x, y) => Under(md2, x, y)
  BY <1>0, UnderLift DEF md2, m
<1>9. StackOK(st2, md2)
  <2>1. ASSUME NEW j \in 1..Len(st2) PROVE st2[j] \in 1..Len(md2)
    <3>1. CASE j \in 1..Len(st)
      <4>1. st2[j] \in 1..m BY <3>1, <1>3, <1>5
      <4> QED BY <4>1, <1>1, <1>2
    <3>2. CASE j = Len(st) + 1 BY <3>2, <1>1, <1>2, <1>3
    <3> QED BY <3>1, <3>2, <1>1, <1>3
  <2>2. ASSUME NEW j \in 1..Len(st2)
        PROVE  md2[st2[j]].parent = IF j = 1 THEN 0 ELSE st2[j - 1]
    <3>1. CASE j \in 1..Len(st)
      <4>1. md2[st2[j]] = md[st[j]] BY <3>1, <1>2, <1>3, <1>5
      <4>2. ASSUME j # 1 PROVE st2[j - 1] = st[j - 1]
        <5>1. j - 1 \in 1..Len(st) BY <4>2, <3>1, <1>1
        <5> QED BY <5>1, <1>3
      <4> QED BY <1>0, <4>1, <4>2, <3>1 DEF StackOK
    <3>2. CASE j = Len(st) + 1
      <4>1. md2[st2[j]] = c BY <3>2, <1>2, <1>3
      <4>2. CASE st = <<>> BY <4>1, <4>2, <3>2
      <4>3. CASE st # <<>>
        <5>1. Len(st) > 0 BY <4>3, <1>1
        <5>2. j # 1 /\ st2[j - 1] = st[Len(st)] BY <5>1, <3>2, <1>3, <1>1
        <5> QED BY <4>1, <4>3, <5>2
      <4> QED BY <4>2, <4>3
    <3> QED BY <3>1, <3>2, <1>1, <1>3
  <2>3. ASSUME NEW i \in 1..Len(st2), NEW j \in 1..Len(st2), i < j PROVE st2[i] < st2[j]
    <3>1. CASE j \in 1..Len(st)
      <4>1. i \in 1..Len(st) BY <2>3, <3>1, <1>1
      <4>2. st2[i] = st[i] /\ st2[j] = st[j] BY <4>1, <3>1, <1>3
      <4> QED BY <1>0, <4>1, <4>2, <3>1, <2>3 DEF StackOK
    <3>2. CASE j = Len(st) + 1
      <4>1. i \in 1..Len(st) BY <2>3, <3>2, <1>1
      <4> QED BY <4>1, <3>2, <1>3, <1>5, <1>1
    <3> QED BY <3>1, <3>2, <1>1, <1>3
  <2>4. ASSUME NEW i \in 1..Len(st2), NEW j \in 1..Len(st2), i <= j
        PROVE  Under(md2, st2[j], st2[i])
    <3>1. CASE j \in 1..Len(st)
      <4>1. i \in 1..Len(st) BY <2>4, <3>1, <1>1
      <4>2. Under(md, st[j], st[i]) BY <1>0, <4>1, <3>1, <2>4 DEF StackOK
      <4>3. st[j] \in 0..m BY <1>5, <3>1
      <4>4. st2[j] = st[j] /\ st2[i] = st[i] BY <1>3, <3>1, <4>1
      <4> QED BY <1>8, <4>2, <4>3, <4>4
    <3>2. CASE j = Len(st) + 1 /\ i = j BY <3>2 DEF Under
    <3>3. CASE j = Len(st) + 1 /\ i \in 1..Len(st)
      <4>1. st # <<>> /\ Len(st) \in 1..Len(st) /\ i <= Len(st) BY <3>3, <1>1
      <4>2. Under(md, st[Len(st)], st[i]) BY <1>0, <4>1, <3>3 DEF StackOK
      <4>3. Under(md2, c.parent, st[i])
        <5>1. st[Len(st)] \in 0..m BY <1>5, <4>1
        <5> QED BY <1>8, <4>1, <4>2, <5>1
      <4>4. m + 1 \in 1..Len(md2) /\ md2[m + 1].parent = c.parent BY <1>1, <1>2
      <4>5. Under(md2, m + 1, st[i]) BY <4>3, <4>4, UnderStep
      <4> QED BY <4>5, <3>3, <1>3
    <3> QED BY <3>1, <3>2, <3>3, <1>1, <1>3, <2>4
  <2> QED BY <1>3, <2>1, <2>2, <2>3, <2>4 DEF StackOK
<1>10. \A id \in 1..m : On(st2, id) <=> On(st, id)
  <2> TAKE id \in 1..m
  <2>1. ASSUME On(st2, id) PROVE On(st, id)
    <3>1. PICK j \in 1..Len(st2) : st2[j] = id BY <2>1 DEF On
    <3>2. j # Len(st) + 1 BY <3>1, <1>3, <1>1
    <3>3. j \in 1..Len(st) BY <3>2, <1>3, <1>1
    <3> QED BY <3>1, <3>3, <1>3 DEF On
  <2>2. ASSUME On(st, id) PROVE On(st2, id)
    <3>1. PICK j \in 1..Len(st) : st[j] = id BY <2>2 DEF On
    <3>2. j \in 1..Len(st2) /\ st2[j] = id BY <3>1, <1>1, <1>3
    <3> QED BY <3>2 DEF On
  <2> QED BY <2>1, <2>2
<1>11. On(st2, m + 1)
  <2>1. Len(st) + 1 \in 1..Len(st2) BY <1>1, <1>3
  <2> QED BY <2>1, <1>3 DEF On
<1>12. Begun(md2, rn)
  <2> SUFFICES ASSUME NEW id \in 1..Len(md2)
               PROVE  /\ Begin(md2[id]) <= Len(rn) + 1
                      /\ md2[id].enter <= Len(rn) =>
                           IF md2[id].indirect THEN rn[md2[id].enter].pc = md2[id].entry
                           ELSE md2[id].site = RuntimeBase + rn[md2[id].enter].pc
                      /\ Begin(md2[id]) <= Len(rn) =>
                           rn[Begin(md2[id])].call = id /\ rn[Begin(md2[id])].pc = md2[id].entry
    BY DEF Begun
  <2>1. CASE id \in 1..m
    <3>1. md2[id] = md[id] BY <2>1, <1>2
    <3> QED BY <1>0, <3>1, <2>1 DEF Begun, m
  <2>2. CASE id = m + 1
    <3>1. md2[id] = c BY <2>2, <1>2
    <3>2. Begin(c) = n + 1 /\ ~(n + 1 <= n) BY <1>1 DEF n
    <3>3. CASE c.indirect
      <4>1. ~(c.enter <= n) BY <1>4, <3>3, <1>1
      <4> QED BY <3>1, <3>2, <4>1 DEF n
    <3>4. CASE ~c.indirect
      <4>1. c.enter = n /\ c.site = RuntimeBase + rn[n].pc BY <1>4, <3>4 DEF n
      <4> QED BY <3>1, <3>2, <3>4, <4>1 DEF n
    <3> QED BY <3>3, <3>4
  <2> QED BY <2>1, <2>2, <1>1, <1>2
<1>13. RowsOK(K, st2, md2, n, "no")
  <2>1. \A r \in K : FrameOf(md, r) /\ r.callId \in 1..m /\ md2[r.callId] = md[r.callId]
    BY <1>0, <1>2 DEF RowsOK, FrameOf, m
  <2>2. \A r \in K : FrameOf(md2, r) BY <2>1, <1>1, <1>2 DEF FrameOf
  <2>3. \A r \in K : On(st2, r.callId) <=> On(st, r.callId) BY <2>1, <1>10
  <2>4. \A r \in K : ~On(st2, r.callId) =>
          ~r.noReturn /\ Begin(md2[r.callId]) < r.exitTraceId /\ r.exitTraceId <= n + 1
    BY <1>0, <2>1, <2>3 DEF RowsOK
  <2>5. \A r \in K : ~On(st2, r.callId) BY <1>0, <2>3 DEF RowsOK
  <2>6. \A r, q \in K : r.callId = q.callId => r = q BY <1>0 DEF RowsOK
  <2>7. \A id \in 1..Len(md2) : On(st2, id) \/ \E r \in K : r.callId = id
    <3> TAKE id \in 1..Len(md2)
    <3>1. CASE id \in 1..m BY <3>1, <1>0, <1>10 DEF RowsOK, m
    <3>2. CASE id = m + 1 BY <3>2, <1>11
    <3> QED BY <3>1, <3>2, <1>1, <1>2
  <2> QED BY <2>2, <2>4, <2>5, <2>6, <2>7 DEF RowsOK
<1>14. \A i \in 1..n, id \in 1..m : Span(K, st2, md2, n, id, i) <=> Span(K, st, md, n, id, i)
  BY <1>2, <1>10 DEF Span
<1>15. OwnOK(K, st2, md2, rn)
  <2>1. ASSUME NEW i \in 1..Len(rn)
        PROVE  /\ rn[i].call \in 1..Len(md2)
               /\ Span(K, st2, md2, Len(rn), rn[i].call, i)
               /\ \A id \in 1..Len(md2) :
                    Span(K, st2, md2, Len(rn), id, i) => Under(md2, rn[i].call, id)
    <3>1. /\ rn[i].call \in 1..m /\ Span(K, st, md, n, rn[i].call, i)
          /\ \A id \in 1..m : Span(K, st, md, n, id, i) => Under(md, rn[i].call, id)
      BY <1>0 DEF OwnOK, m, n
    <3>2. rn[i].call \in 1..Len(md2) /\ rn[i].call \in 0..m BY <3>1, <1>1, <1>2
    <3>3. Span(K, st2, md2, n, rn[i].call, i) BY <3>1, <1>14 DEF n
    <3>4. \A id \in 1..m : Span(K, st2, md2, n, id, i) => Under(md2, rn[i].call, id)
      BY <3>1, <3>2, <1>8, <1>14 DEF n
    <3>5. ~Span(K, st2, md2, n, m + 1, i)
      <4>1. Begin(md2[m + 1]) = n + 1 BY <1>2 DEF n
      <4>2. ~(n + 1 <= i) BY <1>1 DEF n
      <4> QED BY <4>1, <4>2 DEF Span
    <3> QED BY <3>2, <3>3, <3>4, <3>5, <1>1, <1>2 DEF n
  <2> QED BY <2>1 DEF OwnOK
<1> QED BY <1>0, <1>7, <1>9, <1>12, <1>13, <1>15 DEF Core, md2, st2, m, n

\* The innermost call returned with the last row: its exit is the row after.
LEMMA CorePop ==
  ASSUME NEW K, NEW st, NEW md, NEW rn, Core(K, st, md, rn, "no"), Len(st) > 0,
         \A id \in 1..Len(md) : Begin(md[id]) <= Len(rn),
         NEW r, FrameOf(md, r), r.callId = st[Len(st)], r.exitTraceId = Len(rn) + 1,
         ~r.noReturn
  PROVE  Core(K \cup {r}, SubSeq(st, 1, Len(st) - 1), md, rn, "no")
<1> DEFINE n == Len(rn)
           top0 == st[Len(st)]
           st2 == SubSeq(st, 1, Len(st) - 1)
           L == K \cup {r}
<1>0. TreeOK(md) /\ StackOK(st, md) /\ rn \in Seq(RanSet) /\ Begun(md, rn)
      /\ RowsOK(K, st, md, n, "no") /\ OwnOK(K, st, md, rn)
  BY DEF Core
<1>1. /\ Len(md) \in Nat /\ Len(st) \in Nat /\ n \in Nat /\ st \in Seq(Nat)
      /\ \A id \in 1..Len(md) : Begin(md[id]) \in Nat
  <2>1. \A id \in 1..Len(md) : md[id] \in CallSet BY <1>0, MadeTyped
  <2> QED BY <1>0, <2>1, MadeTyped, BeginNat DEF StackOK
<1>2. /\ st2 \in Seq(Nat) /\ Len(st2) = Len(st) - 1
      /\ \A j \in 1..Len(st) - 1 : st2[j] = st[j]
  <2>1. 1 \in Int /\ Len(st) - 1 \in Int /\ \A i \in 1..Len(st) - 1 : st[i] \in Nat BY <1>1
  <2>2. /\ st2 \in Seq(Nat)
        /\ Len(st2) = IF 1 <= Len(st) - 1 THEN Len(st) - 1 - 1 + 1 ELSE 0
        /\ \A i \in 1..Len(st) - 1 - 1 + 1 : st2[i] = st[1 + i - 1]
    BY <2>1, SubSeqProperties
  <2> HIDE DEF st2
  <2>3. Len(st2) = Len(st) - 1
    <3>1. Len(st) \in Nat /\ Len(st) > 0 BY <1>1
    <3>2. CASE 1 <= Len(st) - 1
      <4>1. Len(st2) = Len(st) - 1 - 1 + 1 BY <2>2, <3>2
      <4> QED BY ONLY <3>1, <4>1
    <3>3. CASE ~(1 <= Len(st) - 1)
      <4>1. Len(st2) = 0 BY <2>2, <3>3
      <4>2. \A k \in Nat : k > 0 /\ ~(1 <= k - 1) => k - 1 = 0 OBVIOUS
      <4>3. Len(st) - 1 = 0 BY <4>2, <3>1, <3>3
      <4> QED BY ONLY <4>1, <4>3
    <3> QED BY <3>2, <3>3
  <2>4. ASSUME NEW i \in 1..Len(st) - 1 PROVE st2[i] = st[i]
    <3>1. i \in 1..Len(st) - 1 - 1 + 1 /\ 1 + i - 1 = i BY <1>1
    <3> QED BY <3>1, <2>2
  <2> QED BY <2>2, <2>3, <2>4
<1>3. \A j \in 1..Len(st2) : j \in 1..Len(st) /\ st2[j] = st[j] BY <1>1, <1>2
<1>4. top0 \in 1..Len(md) /\ On(st, top0) BY <1>0, <1>1 DEF StackOK, On
<1>5. ~On(st2, top0)
  <2> SUFFICES ASSUME NEW j \in 1..Len(st2), st2[j] = top0 PROVE FALSE BY DEF On
  <2>1. j \in 1..Len(st) /\ Len(st) \in 1..Len(st) /\ j < Len(st) /\ st[j] = top0
    BY <1>1, <1>2, <1>3
  <2>2. st[j] < top0 BY <1>0, <2>1 DEF StackOK
  <2> QED BY <2>1, <2>2, <1>4
<1> HIDE DEF st2, n, L
<1>6. \A id : id # top0 => (On(st2, id) <=> On(st, id))
  <2> SUFFICES ASSUME NEW id, id # top0 PROVE On(st2, id) <=> On(st, id) OBVIOUS
  <2>1. ASSUME On(st, id) PROVE On(st2, id)
    <3>1. PICK j \in 1..Len(st) : st[j] = id BY <2>1 DEF On
    <3>2. j \in 1..Len(st2) BY <3>1, <1>1, <1>2
    <3> QED BY <3>1, <3>2, <1>3 DEF On
  <2>2. ASSUME On(st2, id) PROVE On(st, id) BY <2>2, <1>3 DEF On
  <2> QED BY <2>1, <2>2
<1>7. StackOK(st2, md)
  <2>1. \A j \in 1..Len(st2) : st2[j] \in 1..Len(md) BY <1>0, <1>3 DEF StackOK
  <2>2. \A j \in 1..Len(st2) : md[st2[j]].parent = IF j = 1 THEN 0 ELSE st2[j - 1]
    <3> TAKE j \in 1..Len(st2)
    <3>1. md[st2[j]].parent = IF j = 1 THEN 0 ELSE st[j - 1] BY <1>0, <1>3 DEF StackOK
    <3>2. ASSUME j # 1 PROVE st2[j - 1] = st[j - 1]
      <4>1. j - 1 \in 1..Len(st2) BY <3>2, <1>1, <1>2
      <4> QED BY <4>1, <1>3
    <3> QED BY <3>1, <3>2
  <2>3. \A i, j \in 1..Len(st2) : i < j => st2[i] < st2[j] BY <1>0, <1>3 DEF StackOK
  <2>4. \A i, j \in 1..Len(st2) : i <= j => Under(md, st2[j], st2[i]) BY <1>0, <1>3 DEF StackOK
  <2> QED BY <1>2, <2>1, <2>2, <2>3, <2>4 DEF StackOK
<1>8. \A q \in K : q.callId # top0 BY <1>0, <1>4 DEF RowsOK
<1>9. RowsOK(L, st2, md, n, "no")
  <2>1. \A q \in L : FrameOf(md, q) BY <1>0 DEF RowsOK, L
  <2>2. ASSUME NEW q \in L
        PROVE  /\ ~On(st2, q.callId)
               /\ ~q.noReturn /\ Begin(md[q.callId]) < q.exitTraceId /\ q.exitTraceId <= n + 1
    <3>1. CASE q = r
      <4>1. Begin(md[top0]) <= n /\ Begin(md[top0]) \in Nat BY <1>1, <1>4 DEF n
      <4>2. Begin(md[top0]) < n + 1 /\ n + 1 <= n + 1 BY <4>1, <1>1
      <4> QED BY <3>1, <4>2, <1>5 DEF n
    <3>2. CASE q \in K
      <4>1. ~On(st, q.callId) BY <1>0, <3>2 DEF RowsOK
      <4>2. ~On(st2, q.callId) BY <4>1, <1>6, <1>8, <3>2
      <4> QED BY <1>0, <3>2, <4>1, <4>2 DEF RowsOK
    <3> QED BY <3>1, <3>2 DEF L
  <2>3. \A q, p \in L : q.callId = p.callId => q = p BY <1>0, <1>8 DEF RowsOK, L
  <2>4. ASSUME NEW id \in 1..Len(md) PROVE On(st2, id) \/ \E q \in L : q.callId = id
    <3>1. CASE id = top0 BY <3>1 DEF L
    <3>2. CASE id # top0 BY <3>2, <1>0, <1>6 DEF RowsOK, L
    <3> QED BY <3>1, <3>2
  <2> QED BY <2>1, <2>2, <2>3, <2>4 DEF RowsOK
<1>10. ASSUME NEW i \in 1..n, NEW id \in 1..Len(md)
       PROVE  Span(L, st2, md, n, id, i) <=> Span(K, st, md, n, id, i)
  <2>1. CASE id = top0
    <3>1. i < n + 1 BY <1>1
    <3>2. \A q \in L : q.callId = id => i < q.exitTraceId BY <3>1, <2>1, <1>8 DEF L, n
    <3> QED BY <3>2, <2>1, <1>4 DEF Span
  <2>2. CASE id # top0
    <3>1. \A q \in L : q.callId = id => q \in K BY <2>2 DEF L
    <3>2. K \subseteq L BY DEF L
    <3> QED BY <3>1, <3>2, <2>2, <1>6 DEF Span
  <2> QED BY <2>1, <2>2
<1>11. OwnOK(L, st2, md, rn)
  <2>1. ASSUME NEW i \in 1..Len(rn)
        PROVE  /\ rn[i].call \in 1..Len(md)
               /\ Span(L, st2, md, Len(rn), rn[i].call, i)
               /\ \A id \in 1..Len(md) :
                    Span(L, st2, md, Len(rn), id, i) => Under(md, rn[i].call, id)
    <3>1. /\ rn[i].call \in 1..Len(md) /\ Span(K, st, md, n, rn[i].call, i)
          /\ \A id \in 1..Len(md) : Span(K, st, md, n, id, i) => Under(md, rn[i].call, id)
      BY <1>0 DEF OwnOK, n
    <3> QED BY <3>1, <1>10 DEF n
  <2> QED BY <2>1 DEF OwnOK
<1> QED BY <1>0, <1>7, <1>9, <1>11 DEF Core, st2, L, n

-----------------------------------------------------------------------------
(***************************************************************************)
(* The rows in the segments, as sets and in their order.                   *)
(***************************************************************************)

\* A row at the end adds one to the rows.
LEMMA RowsAppend == ASSUME NEW S, NEW s \in Seq(S), NEW x \in S
                    PROVE  rowsOf(Append(s, x)) = rowsOf(s) \cup {x}
<1>1. /\ Append(s, x) \in Seq(S) /\ Len(s) \in Nat /\ Len(Append(s, x)) = Len(s) + 1
      /\ \A i \in 1..Len(s) : Append(s, x)[i] = s[i]
      /\ Append(s, x)[Len(s) + 1] = x
  BY AppendFacts
<1>2. \A y : y \in rowsOf(Append(s, x)) => y \in rowsOf(s) \cup {x}
  <2> SUFFICES ASSUME NEW i \in 1..Len(s) + 1 PROVE Append(s, x)[i] \in rowsOf(s) \cup {x}
    BY <1>1 DEF rowsOf
  <2>1. CASE i \in 1..Len(s) BY <1>1, <2>1 DEF rowsOf
  <2>2. CASE i = Len(s) + 1 BY <1>1, <2>2
  <2> QED BY <1>1, <2>1, <2>2
<1>3. \A y : y \in rowsOf(s) => y \in rowsOf(Append(s, x))
  <2> SUFFICES ASSUME NEW i \in 1..Len(s) PROVE s[i] \in rowsOf(Append(s, x))
    BY <1>1 DEF rowsOf
  <2>1. i \in 1..Len(s) + 1 BY <1>1
  <2> QED BY <1>1, <2>1 DEF rowsOf
<1>4. x \in rowsOf(Append(s, x))
  <2>1. Len(s) + 1 \in 1..Len(s) + 1 BY <1>1
  <2> QED BY <1>1, <2>1 DEF rowsOf
<1> QED BY <1>2, <1>3, <1>4

\* Rows put after others add theirs.
LEMMA RowsConcat == ASSUME NEW S, NEW s \in Seq(S), NEW u \in Seq(S)
                    PROVE  rowsOf(s \o u) = rowsOf(s) \cup rowsOf(u)
<1>1. /\ Len(s) \in Nat /\ Len(u) \in Nat /\ Len(s \o u) = Len(s) + Len(u)
      /\ \A i \in 1..Len(s) + Len(u) : (s \o u)[i] = IF i <= Len(s) THEN s[i] ELSE u[i - Len(s)]
  BY ConcatProperties
<1>2. \A y : y \in rowsOf(s \o u) => y \in rowsOf(s) \cup rowsOf(u)
  <2> SUFFICES ASSUME NEW i \in 1..Len(s) + Len(u) PROVE (s \o u)[i] \in rowsOf(s) \cup rowsOf(u)
    BY <1>1 DEF rowsOf
  <2>1. CASE i <= Len(s)
    <3>1. i \in 1..Len(s) BY <1>1, <2>1
    <3> QED BY <1>1, <2>1, <3>1 DEF rowsOf
  <2>2. CASE ~(i <= Len(s))
    <3>1. i - Len(s) \in 1..Len(u) BY <1>1, <2>2
    <3> QED BY <1>1, <2>2, <3>1 DEF rowsOf
  <2> QED BY <2>1, <2>2
<1>3. \A y : y \in rowsOf(s) => y \in rowsOf(s \o u)
  <2> SUFFICES ASSUME NEW i \in 1..Len(s) PROVE s[i] \in rowsOf(s \o u)
    BY <1>1 DEF rowsOf
  <2>1. i \in 1..Len(s) + Len(u) /\ i <= Len(s) BY <1>1
  <2> QED BY <1>1, <2>1 DEF rowsOf
<1>4. \A y : y \in rowsOf(u) => y \in rowsOf(s \o u)
  <2> SUFFICES ASSUME NEW i \in 1..Len(u) PROVE u[i] \in rowsOf(s \o u)
    BY <1>1 DEF rowsOf
  <2>1. i + Len(s) \in 1..Len(s) + Len(u) /\ ~(i + Len(s) <= Len(s)) /\ i + Len(s) - Len(s) = i
    BY <1>1
  <2>2. (s \o u)[i + Len(s)] = u[i + Len(s) - Len(s)] BY <1>1, <2>1
  <2>3. (s \o u)[i + Len(s)] = u[i] BY <2>1, <2>2
  <2> QED BY <1>1, <2>1, <2>3 DEF rowsOf
<1> QED BY <1>2, <1>3, <1>4

\* A row with a greater id keeps the order.
LEMMA AscendingAppend ==
  ASSUME NEW S, NEW s \in Seq(S), NEW x \in S, ascending(s),
         \A r \in rowsOf(s) : r.traceId < x.traceId
  PROVE  ascending(Append(s, x))
<1>1. /\ Len(s) \in Nat /\ Len(Append(s, x)) = Len(s) + 1
      /\ \A i \in 1..Len(s) : Append(s, x)[i] = s[i]
      /\ Append(s, x)[Len(s) + 1] = x
  BY AppendFacts
<1> SUFFICES ASSUME NEW i \in 2..Len(s) + 1
             PROVE  Append(s, x)[i - 1].traceId < Append(s, x)[i].traceId
  BY <1>1 DEF ascending
<1>2. i - 1 \in 1..Len(s) BY <1>1
<1>3. Append(s, x)[i - 1] = s[i - 1] BY <1>1, <1>2
<1>4. CASE i = Len(s) + 1
  <2>1. s[i - 1] \in rowsOf(s) BY <1>2 DEF rowsOf
  <2> QED BY <1>1, <1>3, <1>4, <2>1
<1>5. CASE i # Len(s) + 1
  <2>1. i \in 2..Len(s) /\ i \in 1..Len(s) BY <1>1, <1>5
  <2>2. Append(s, x)[i] = s[i] BY <1>1, <2>1
  <2> QED BY <1>3, <2>1, <2>2 DEF ascending
<1> QED BY <1>4, <1>5

\* Only the newest segment changes.
LEMMA LastReplaced ==
  ASSUME NEW segs, segs \in Seq(SegmentSet), Len(segs) > 0, NEW g \in SegmentSet,
         NEW q, q = [segs EXCEPT ![Len(segs)] = g]
  PROVE  /\ q \in Seq(SegmentSet) /\ Len(q) = Len(segs) /\ DOMAIN q = 1..Len(segs)
         /\ q[Len(segs)] = g /\ Len(segs) \in 1..Len(segs) /\ Len(segs) \in Nat
         /\ segs[Len(segs)] \in SegmentSet /\ DOMAIN segs = 1..Len(segs)
         /\ \A s \in 1..Len(segs) : s # Len(segs) => q[s] = segs[s]
<1>1. Len(segs) \in Nat /\ DOMAIN segs = 1..Len(segs) /\ Len(segs) \in 1..Len(segs)
  OBVIOUS
<1>2. /\ q \in Seq(SegmentSet) /\ Len(q) = Len(segs)
      /\ \A j \in 1..Len(segs) : q[j] = IF j = Len(segs) THEN g ELSE segs[j]
  BY <1>1, ExceptSeq
<1>3. DOMAIN q = 1..Len(segs) BY <1>1
<1>4. segs[Len(segs)] \in SegmentSet BY <1>1
<1> QED BY <1>1, <1>2, <1>3, <1>4

\* The fields of a segment are sequences of rows.
LEMMA SegmentFields ==
  ASSUME NEW g \in SegmentSet
  PROVE  g.trace \in Seq(TraceRow) /\ g.calls \in Seq(CallRow) /\ g.flow \in Seq(FlowRow)
  BY DEF SegmentSet

\* What the newest segment gains, the rows of the thread gain.
LEMMA LastGrows ==
  ASSUME NEW segs, segs \in Seq(SegmentSet), Len(segs) > 0, NEW g \in SegmentSet,
         NEW q, q = [segs EXCEPT ![Len(segs)] = g],
         rowsOf(segs[Len(segs)].trace) \subseteq rowsOf(g.trace),
         rowsOf(segs[Len(segs)].calls) \subseteq rowsOf(g.calls),
         rowsOf(segs[Len(segs)].flow) \subseteq rowsOf(g.flow)
  PROVE  /\ traceIn(q) = traceIn(segs) \cup rowsOf(g.trace)
         /\ callsIn(q) = callsIn(segs) \cup rowsOf(g.calls)
         /\ flowIn(q) = flowIn(segs) \cup rowsOf(g.flow)
<1>1. /\ q \in Seq(SegmentSet) /\ Len(q) = Len(segs) /\ DOMAIN q = 1..Len(segs)
      /\ q[Len(segs)] = g /\ Len(segs) \in 1..Len(segs) /\ Len(segs) \in Nat
      /\ segs[Len(segs)] \in SegmentSet /\ DOMAIN segs = 1..Len(segs)
      /\ \A s \in 1..Len(segs) : s # Len(segs) => q[s] = segs[s]
  BY LastReplaced
<1> DEFINE last == Len(segs)
<1> HIDE DEF last
<1>2. /\ DOMAIN q = 1..last /\ q[last] = g /\ last \in 1..last /\ DOMAIN segs = 1..last
      /\ \A s \in 1..last : s # last => q[s] = segs[s]
      /\ rowsOf(segs[last].trace) \subseteq rowsOf(g.trace)
      /\ rowsOf(segs[last].calls) \subseteq rowsOf(g.calls)
      /\ rowsOf(segs[last].flow) \subseteq rowsOf(g.flow)
  BY <1>1 DEF last
<1>3. traceIn(q) = traceIn(segs) \cup rowsOf(g.trace)
  <2>1. \A x : x \in traceIn(q) <=> \E s \in 1..last : x \in rowsOf(q[s].trace)
    BY <1>2 DEF traceIn
  <2>2. \A x : x \in traceIn(segs) <=> \E s \in 1..last : x \in rowsOf(segs[s].trace)
    BY <1>2 DEF traceIn
  <2>3. \A s \in 1..last : \A x : x \in rowsOf(q[s].trace) <=>
          x \in rowsOf(segs[s].trace) \/ (s = last /\ x \in rowsOf(g.trace))
    BY <1>2
  <2> QED BY <2>1, <2>2, <2>3, <1>2
<1>4. callsIn(q) = callsIn(segs) \cup rowsOf(g.calls)
  <2>1. \A x : x \in callsIn(q) <=> \E s \in 1..last : x \in rowsOf(q[s].calls)
    BY <1>2 DEF callsIn
  <2>2. \A x : x \in callsIn(segs) <=> \E s \in 1..last : x \in rowsOf(segs[s].calls)
    BY <1>2 DEF callsIn
  <2>3. \A s \in 1..last : \A x : x \in rowsOf(q[s].calls) <=>
          x \in rowsOf(segs[s].calls) \/ (s = last /\ x \in rowsOf(g.calls))
    BY <1>2
  <2> QED BY <2>1, <2>2, <2>3, <1>2
<1>5. flowIn(q) = flowIn(segs) \cup rowsOf(g.flow)
  <2>1. \A x : x \in flowIn(q) <=> \E s \in 1..last : x \in rowsOf(q[s].flow)
    BY <1>2 DEF flowIn
  <2>2. \A x : x \in flowIn(segs) <=> \E s \in 1..last : x \in rowsOf(segs[s].flow)
    BY <1>2 DEF flowIn
  <2>3. \A s \in 1..last : \A x : x \in rowsOf(q[s].flow) <=>
          x \in rowsOf(segs[s].flow) \/ (s = last /\ x \in rowsOf(g.flow))
    BY <1>2
  <2> QED BY <2>1, <2>2, <2>3, <1>2
<1> QED BY <1>3, <1>4, <1>5

\* The order of the segments survives a newest segment whose rows are the old
\* ones and later ones.
LEMMA LastOrdered ==
  ASSUME NEW segs, SegsOK(segs), NEW g \in SegmentSet,
         NEW q, q = [segs EXCEPT ![Len(segs)] = g], NEW T,
         rowsOf(g.trace) = rowsOf(segs[Len(segs)].trace) \cup T,
         \A a \in traceIn(segs), b \in T : a.traceId < b.traceId,
         ascending(g.trace), ascending(g.flow),
         \A f \in rowsOf(g.flow) : \E r \in rowsOf(g.trace) : r.traceId = f.traceId
  PROVE  SegsOK(q)
<1>0. segs \in Seq(SegmentSet) /\ Len(segs) > 0 BY DEF SegsOK
<1>1. /\ q \in Seq(SegmentSet) /\ Len(q) = Len(segs) /\ DOMAIN q = 1..Len(segs)
      /\ q[Len(segs)] = g /\ Len(segs) \in 1..Len(segs) /\ Len(segs) \in Nat
      /\ segs[Len(segs)] \in SegmentSet /\ DOMAIN segs = 1..Len(segs)
      /\ \A s \in 1..Len(segs) : s # Len(segs) => q[s] = segs[s]
  BY <1>0, LastReplaced
<1>2. \A s \in 1..Len(q) : ascending(q[s].trace) /\ ascending(q[s].flow) BY <1>1 DEF SegsOK
<1>3. ASSUME NEW s \in 1..Len(q), s < Len(q) PROVE q[s].trace # <<>>
  <2>1. s # Len(segs) /\ q[s] = segs[s] BY <1>1, <1>3
  <2> QED BY <2>1, <1>1, <1>3 DEF SegsOK
<1>4. ASSUME NEW s \in 1..Len(q), NEW u \in 1..Len(q), s < u,
             NEW a \in rowsOf(q[s].trace), NEW b \in rowsOf(q[u].trace)
      PROVE  a.traceId < b.traceId
  <2>1. s # Len(segs) /\ q[s] = segs[s] BY <1>1, <1>4
  <2>2. a \in rowsOf(segs[s].trace) BY <2>1
  <2>3. CASE b \in rowsOf(segs[u].trace) BY <2>2, <2>3, <1>1, <1>4 DEF SegsOK
  <2>4. CASE b \notin rowsOf(segs[u].trace)
    <3>1. b \in T
      <4>1. CASE u # Len(segs) BY <4>1, <2>4, <1>1
      <4>2. CASE u = Len(segs) BY <4>2, <2>4, <1>1
      <4> QED BY <4>1, <4>2
    <3>2. a \in traceIn(segs) BY <2>2, <1>1 DEF traceIn
    <3> QED BY <3>1, <3>2
  <2> QED BY <2>3, <2>4
<1>5. ASSUME NEW s \in 1..Len(q), NEW f \in rowsOf(q[s].flow)
      PROVE  \E r \in rowsOf(q[s].trace) : r.traceId = f.traceId
  <2>1. CASE s = Len(segs) BY <2>1, <1>1
  <2>2. CASE s # Len(segs)
    <3>1. q[s] = segs[s] BY <2>2, <1>1
    <3> QED BY <3>1, <1>1 DEF SegsOK
  <2> QED BY <2>1, <2>2
<1> QED BY <1>0, <1>1, <1>2, <1>3, <1>4, <1>5 DEF SegsOK

\* The rows of one instruction.
LEMMA WrittenOK ==
  ASSUME NEW segs, SegsOK(segs), NEW row \in TraceRow, NEW calls \in Seq(CallRow),
         NEW flow \in Seq(FlowRow),
         \/ flow = <<>>
         \/ \E f \in FlowRow : flow = <<f>> /\ f.traceId = row.traceId,
         \A a \in traceIn(segs) : a.traceId < row.traceId
  PROVE  /\ SegsOK(written(segs, row, calls, flow))
         /\ traceIn(written(segs, row, calls, flow)) = traceIn(segs) \cup {row}
         /\ callsIn(written(segs, row, calls, flow)) = callsIn(segs) \cup rowsOf(calls)
         /\ flowIn(written(segs, row, calls, flow)) = flowIn(segs) \cup rowsOf(flow)
<1> DEFINE old == segs[Len(segs)]
           g == [trace |-> Append(old.trace, row), calls |-> old.calls \o calls,
                 flow |-> old.flow \o flow]
           q == [segs EXCEPT ![Len(segs)] = g]
<1>0. segs \in Seq(SegmentSet) /\ Len(segs) > 0 BY DEF SegsOK
<1>1. Len(segs) \in Nat /\ Len(segs) \in 1..Len(segs) /\ old \in SegmentSet /\ DOMAIN segs = 1..Len(segs)
  BY <1>0
<1>2. old.trace \in Seq(TraceRow) /\ old.calls \in Seq(CallRow) /\ old.flow \in Seq(FlowRow)
  BY <1>1, SegmentFields
<1>3. written(segs, row, calls, flow) = q BY <1>1 DEF written
<1> HIDE DEF old
<1>4. g \in SegmentSet
  <2>1. Append(old.trace, row) \in Seq(TraceRow) BY <1>2
  <2>2. old.calls \o calls \in Seq(CallRow) BY <1>2
  <2>3. old.flow \o flow \in Seq(FlowRow) BY <1>2
  <2> QED BY <2>1, <2>2, <2>3 DEF SegmentSet
<1>5. rowsOf(g.trace) = rowsOf(old.trace) \cup {row} BY <1>2, RowsAppend
<1>6. rowsOf(g.calls) = rowsOf(old.calls) \cup rowsOf(calls) BY <1>2, RowsConcat
<1>7. rowsOf(g.flow) = rowsOf(old.flow) \cup rowsOf(flow) BY <1>2, RowsConcat
<1>8. \A r \in rowsOf(old.trace) : r \in traceIn(segs)
  BY <1>1 DEF traceIn, old
<1>9. \A f \in rowsOf(old.flow) : \E r \in rowsOf(old.trace) : r.traceId = f.traceId
  BY <1>1 DEF SegsOK, old
<1>10. ascending(g.trace)
  <2>1. ascending(old.trace) BY <1>1 DEF SegsOK, old
  <2>2. \A r \in rowsOf(old.trace) : r.traceId < row.traceId BY <1>8
  <2> QED BY <2>1, <2>2, <1>2, AscendingAppend
<1>11. ascending(g.flow) /\ \A f \in rowsOf(g.flow) : \E r \in rowsOf(g.trace) : r.traceId = f.traceId
  <2>1. ascending(old.flow) BY <1>1 DEF SegsOK, old
  <2>2. CASE flow = <<>>
    <3>1. g.flow = old.flow BY <2>2, <1>2, ConcatEmptySeq
    <3> QED BY <3>1, <2>1, <1>5, <1>9
  <2>3. CASE \E f \in FlowRow : flow = <<f>> /\ f.traceId = row.traceId
    <3>1. PICK f \in FlowRow : flow = <<f>> /\ f.traceId = row.traceId BY <2>3
    <3>2. g.flow = Append(old.flow, f) BY <3>1, <1>2, AppendIsConcat
    <3>3. \A r \in rowsOf(old.flow) : r.traceId < f.traceId BY <1>8, <1>9, <3>1
    <3>4. ascending(Append(old.flow, f)) BY <3>3, <2>1, <1>2, AscendingAppend
    <3>5. rowsOf(g.flow) = rowsOf(old.flow) \cup {f}
      <4>1. rowsOf(Append(old.flow, f)) = rowsOf(old.flow) \cup {f} BY <1>2, RowsAppend
      <4> HIDE DEF g
      <4> QED BY <3>2, <4>1
    <3>6. row \in rowsOf(g.trace) /\ \A r \in rowsOf(old.trace) : r \in rowsOf(g.trace) BY <1>5
    <3>7. \A x \in rowsOf(g.flow) : \E r \in rowsOf(g.trace) : r.traceId = x.traceId
      <4> HIDE DEF g
      <4> QED BY <3>1, <3>5, <3>6, <1>9
    <3> QED BY <3>2, <3>4, <3>7
  <2> QED BY <2>2, <2>3
<1> HIDE DEF g
<1> DEFINE T == {row}
           C == rowsOf(calls)
           F == rowsOf(flow)
<1>12. \A a \in traceIn(segs), b \in T : a.traceId < b.traceId OBVIOUS
<1>a. q = [segs EXCEPT ![Len(segs)] = g] OBVIOUS
<1>b. /\ rowsOf(g.trace) = rowsOf(segs[Len(segs)].trace) \cup T
      /\ rowsOf(g.calls) = rowsOf(segs[Len(segs)].calls) \cup C
      /\ rowsOf(g.flow) = rowsOf(segs[Len(segs)].flow) \cup F
  BY <1>5, <1>6, <1>7 DEF old
<1> HIDE DEF q, T, C, F
<1>13. SegsOK(q) BY <1>a, <1>b, <1>4, <1>10, <1>11, <1>12, LastOrdered
<1>14. /\ traceIn(q) = traceIn(segs) \cup T
       /\ callsIn(q) = callsIn(segs) \cup C
       /\ flowIn(q) = flowIn(segs) \cup F
  <2>1. /\ rowsOf(segs[Len(segs)].trace) \subseteq rowsOf(g.trace)
        /\ rowsOf(segs[Len(segs)].calls) \subseteq rowsOf(g.calls)
        /\ rowsOf(segs[Len(segs)].flow) \subseteq rowsOf(g.flow)
    BY <1>b
  <2>2. /\ traceIn(q) = traceIn(segs) \cup rowsOf(g.trace)
        /\ callsIn(q) = callsIn(segs) \cup rowsOf(g.calls)
        /\ flowIn(q) = flowIn(segs) \cup rowsOf(g.flow)
    BY <1>a, <1>4, <1>0, <2>1, LastGrows
  <2>3. /\ rowsOf(segs[Len(segs)].trace) \subseteq traceIn(segs)
        /\ rowsOf(segs[Len(segs)].calls) \subseteq callsIn(segs)
        /\ rowsOf(segs[Len(segs)].flow) \subseteq flowIn(segs)
    BY <1>1 DEF traceIn, callsIn, flowIn
  <2> QED BY <1>b, <2>2, <2>3
<1> QED BY <1>3, <1>a, <1>13, <1>14 DEF T, C, F

\* The rows of the calls that never return.
LEMMA ClosedOK ==
  ASSUME NEW segs, SegsOK(segs), NEW calls \in Seq(CallRow), NEW q,
         q = [segs EXCEPT ![Len(segs)].calls = @ \o calls]
  PROVE  /\ SegsOK(q) /\ traceIn(q) = traceIn(segs) /\ flowIn(q) = flowIn(segs)
         /\ callsIn(q) = callsIn(segs) \cup rowsOf(calls)
<1> DEFINE old == segs[Len(segs)]
           g == [trace |-> old.trace, calls |-> old.calls \o calls, flow |-> old.flow]
<1>0. segs \in Seq(SegmentSet) /\ Len(segs) > 0 BY DEF SegsOK
<1>1. Len(segs) \in Nat /\ Len(segs) \in 1..Len(segs) /\ old \in SegmentSet /\ DOMAIN segs = 1..Len(segs)
  BY <1>0
<1>2. old.trace \in Seq(TraceRow) /\ old.calls \in Seq(CallRow) /\ old.flow \in Seq(FlowRow)
  BY <1>1, SegmentFields
<1>3. [old EXCEPT !.calls = @ \o calls] = g
  <2>1. \A o \in SegmentSet : \A x :
          [o EXCEPT !.calls = x] = [trace |-> o.trace, calls |-> x, flow |-> o.flow]
    BY DEF SegmentSet
  <2> HIDE DEF old
  <2> QED BY <1>1, <2>1
<1>4. q = [segs EXCEPT ![Len(segs)] = g] BY <1>3
<1> HIDE DEF old
<1>5. g \in SegmentSet
  <2>1. old.calls \o calls \in Seq(CallRow) BY <1>2
  <2> QED BY <2>1, <1>2 DEF SegmentSet
<1>6. rowsOf(g.trace) = rowsOf(old.trace) \cup {} OBVIOUS
<1>7. rowsOf(g.calls) = rowsOf(old.calls) \cup rowsOf(calls) BY <1>2, RowsConcat
<1>8. rowsOf(g.flow) = rowsOf(old.flow) \cup {} OBVIOUS
<1>9. ascending(g.trace) /\ ascending(g.flow) BY <1>1 DEF SegsOK, old
<1>10. \A f \in rowsOf(g.flow) : \E r \in rowsOf(g.trace) : r.traceId = f.traceId
  BY <1>1 DEF SegsOK, old
<1> HIDE DEF g
<1> DEFINE T == {}
           C == rowsOf(calls)
<1>11. \A a \in traceIn(segs), b \in T : a.traceId < b.traceId OBVIOUS
<1>b. /\ rowsOf(g.trace) = rowsOf(segs[Len(segs)].trace) \cup T
      /\ rowsOf(g.calls) = rowsOf(segs[Len(segs)].calls) \cup C
      /\ rowsOf(g.flow) = rowsOf(segs[Len(segs)].flow) \cup T
  BY <1>6, <1>7, <1>8 DEF old
<1> HIDE DEF T, C
<1>12. SegsOK(q) BY <1>4, <1>5, <1>b, <1>9, <1>10, <1>11, LastOrdered
<1>13. /\ traceIn(q) = traceIn(segs) \cup T
       /\ callsIn(q) = callsIn(segs) \cup C
       /\ flowIn(q) = flowIn(segs) \cup T
  <2>1. /\ rowsOf(segs[Len(segs)].trace) \subseteq rowsOf(g.trace)
        /\ rowsOf(segs[Len(segs)].calls) \subseteq rowsOf(g.calls)
        /\ rowsOf(segs[Len(segs)].flow) \subseteq rowsOf(g.flow)
    BY <1>b
  <2>2. /\ traceIn(q) = traceIn(segs) \cup rowsOf(g.trace)
        /\ callsIn(q) = callsIn(segs) \cup rowsOf(g.calls)
        /\ flowIn(q) = flowIn(segs) \cup rowsOf(g.flow)
    BY <1>4, <1>5, <1>0, <2>1, LastGrows
  <2>3. /\ rowsOf(segs[Len(segs)].trace) \subseteq traceIn(segs)
        /\ rowsOf(segs[Len(segs)].calls) \subseteq callsIn(segs)
        /\ rowsOf(segs[Len(segs)].flow) \subseteq flowIn(segs)
    BY <1>1 DEF traceIn, callsIn, flowIn
  <2> QED BY <1>b, <2>2, <2>3
<1> QED BY <1>12, <1>13 DEF T, C

\* A new segment has no rows.
LEMMA RolledOK ==
  ASSUME NEW segs, SegsOK(segs), segs[Len(segs)].trace # <<>>
  PROVE  /\ SegsOK(Append(segs, Segment))
         /\ traceIn(Append(segs, Segment)) = traceIn(segs)
         /\ callsIn(Append(segs, Segment)) = callsIn(segs)
         /\ flowIn(Append(segs, Segment)) = flowIn(segs)
<1> DEFINE q == Append(segs, Segment)
           n == Len(segs)
<1>0. segs \in Seq(SegmentSet) /\ Len(segs) > 0 BY DEF SegsOK
<1>1. <<>> \in Seq(TraceRow) /\ <<>> \in Seq(CallRow) /\ <<>> \in Seq(FlowRow) OBVIOUS
<1>2. Segment \in SegmentSet BY <1>1 DEF Segment, SegmentSet
<1>3. Segment.trace = <<>> /\ Segment.calls = <<>> /\ Segment.flow = <<>> BY DEF Segment
<1>4. /\ q \in Seq(SegmentSet) /\ n \in Nat /\ Len(q) = n + 1 /\ q[n + 1] = Segment
      /\ \A s \in 1..n : q[s] = segs[s]
  BY <1>0, <1>2, AppendFacts
<1>5. DOMAIN q = 1..n + 1 /\ DOMAIN segs = 1..n BY <1>0, <1>2, <1>4
<1>6. rowsOf(<<>>) = {} /\ ascending(<<>>) BY DEF rowsOf, ascending
<1>7. \A s \in 1..n + 1 : s \in 1..n \/ s = n + 1 BY <1>4
<1> HIDE DEF q
<1>8. SegsOK(q)
  <2>1. \A s \in 1..Len(q) : ascending(q[s].trace) /\ ascending(q[s].flow)
    BY <1>3, <1>4, <1>6, <1>7 DEF SegsOK
  <2>2. ASSUME NEW s \in 1..Len(q), s < Len(q) PROVE q[s].trace # <<>>
    <3>1. s \in 1..n /\ q[s] = segs[s] BY <2>2, <1>4
    <3>2. CASE s = n BY <3>1, <3>2
    <3>3. CASE s # n
      <4>1. s < n BY <3>1, <3>3, <1>4
      <4> QED BY <3>1, <4>1 DEF SegsOK
    <3> QED BY <3>2, <3>3
  <2>3. ASSUME NEW s \in 1..Len(q), NEW u \in 1..Len(q), s < u,
               NEW a \in rowsOf(q[s].trace), NEW b \in rowsOf(q[u].trace)
        PROVE  a.traceId < b.traceId
    <3>1. u # n + 1 BY <1>3, <1>4, <1>6
    <3>2. u \in 1..n /\ s \in 1..n BY <3>1, <2>3, <1>4
    <3>3. q[s] = segs[s] /\ q[u] = segs[u] BY <3>2, <1>4
    <3> QED BY <3>2, <3>3, <2>3 DEF SegsOK
  <2>4. ASSUME NEW s \in 1..Len(q), NEW f \in rowsOf(q[s].flow)
        PROVE  \E r \in rowsOf(q[s].trace) : r.traceId = f.traceId
    <3>1. s # n + 1 BY <1>3, <1>4, <1>6
    <3>2. s \in 1..n /\ q[s] = segs[s] BY <3>1, <1>4
    <3> QED BY <3>2 DEF SegsOK
  <2>5. Len(q) > 0 BY <1>4
  <2> QED BY <1>4, <2>1, <2>2, <2>3, <2>4, <2>5 DEF SegsOK
<1>9. \A s \in 1..n : s \in 1..n + 1 BY <1>4
<1>10. traceIn(q) = traceIn(segs)
  <2>1. \A x : x \in traceIn(q) <=> \E s \in 1..n + 1 : x \in rowsOf(q[s].trace)
    BY <1>5 DEF traceIn
  <2>2. \A x : x \in traceIn(segs) <=> \E s \in 1..n : x \in rowsOf(segs[s].trace)
    BY <1>5 DEF traceIn
  <2> QED BY <2>1, <2>2, <1>3, <1>4, <1>6, <1>7, <1>9
<1>11. callsIn(q) = callsIn(segs)
  <2>1. \A x : x \in callsIn(q) <=> \E s \in 1..n + 1 : x \in rowsOf(q[s].calls)
    BY <1>5 DEF callsIn
  <2>2. \A x : x \in callsIn(segs) <=> \E s \in 1..n : x \in rowsOf(segs[s].calls)
    BY <1>5 DEF callsIn
  <2> QED BY <2>1, <2>2, <1>3, <1>4, <1>6, <1>7, <1>9
<1>12. flowIn(q) = flowIn(segs)
  <2>1. \A x : x \in flowIn(q) <=> \E s \in 1..n + 1 : x \in rowsOf(q[s].flow)
    BY <1>5 DEF flowIn
  <2>2. \A x : x \in flowIn(segs) <=> \E s \in 1..n : x \in rowsOf(segs[s].flow)
    BY <1>5 DEF flowIn
  <2> QED BY <2>1, <2>2, <1>3, <1>4, <1>6, <1>7, <1>9
<1> QED BY <1>8, <1>10, <1>11, <1>12 DEF q

-----------------------------------------------------------------------------
(***************************************************************************)
(* Steps of the recorded process.                                          *)
(***************************************************************************)

\* A thread that does not move keeps its invariant.
LEMMA ThreadStays ==
  ASSUME NEW u \in Threads, ThreadOK(u), at'[u] = at[u], stack'[u] = stack[u],
         made'[u] = made[u], resume'[u] = resume[u], ran'[u] = ran[u], db'[u] = db[u],
         ended' = ended, version' = version
  PROVE  ThreadOK(u)'
  BY DEF ThreadOK

\* What is known of a thread about to execute.
LEMMA ThreadFacts ==
  ASSUME NEW t \in Threads, ThreadOK(t)
  PROVE  /\ TreeOK(made[t]) /\ StackOK(stack[t], made[t]) /\ ran[t] \in Seq(RanSet)
         /\ Len(made[t]) \in Nat /\ Len(stack[t]) \in Nat /\ Len(ran[t]) \in Nat
         /\ stack[t] \in Seq(Nat)
         /\ stack[t] # <<>> => /\ Len(stack[t]) > 0 /\ top(t) = stack[t][Len(stack[t])]
                               /\ top(t) \in 1..Len(made[t])
         /\ \A id \in 1..Len(made[t]) : /\ made[t][id] \in CallSet
                                        /\ Begin(made[t][id]) \in Nat
                                        /\ Begin(made[t][id]) <= Len(ran[t]) + 1
<1>1. /\ TreeOK(made[t]) /\ StackOK(stack[t], made[t]) /\ ran[t] \in Seq(RanSet)
      /\ Begun(made[t], ran[t])
  BY DEF ThreadOK, Core
<1>2. Len(made[t]) \in Nat /\ \A id \in 1..Len(made[t]) : made[t][id] \in CallSet
  BY <1>1, MadeTyped
<1>3. Len(stack[t]) \in Nat /\ Len(ran[t]) \in Nat /\ stack[t] \in Seq(Nat) BY <1>1 DEF StackOK
<1>4. \A id \in 1..Len(made[t]) : Begin(made[t][id]) \in Nat BY <1>2, BeginNat
<1>5. ASSUME stack[t] # <<>>
      PROVE  Len(stack[t]) > 0 /\ top(t) = stack[t][Len(stack[t])] /\ top(t) \in 1..Len(made[t])
  <2>1. Len(stack[t]) > 0 BY <1>3, <1>5
  <2>2. Len(stack[t]) \in 1..Len(stack[t]) BY <1>3, <2>1
  <2> QED BY <1>1, <2>1, <2>2 DEF StackOK, top
<1> QED BY <1>1, <1>2, <1>3, <1>4, <1>5 DEF Begun

\* The rows a step writes say what it executed.
LEMMA RecordOK ==
  ASSUME TraceTypeOK, NEW t \in Threads, ThreadOK(t), at[t] # 0, NEW to \in {0} \cup DOMAIN Code,
         Code[at[t]].k = "branch" => to # 0, NEW calls \in Seq(CallRow), Record(t, to, calls)
  PROVE  /\ at[t] \in DOMAIN Code /\ stack[t] # <<>>
         /\ ran'[t] = Append(ran[t], [call |-> top(t), pc |-> at[t]])
         /\ SegsOK(db'[t]) /\ TraceIs(traceIn(db'[t]), ran'[t])
         /\ callsIn(db'[t]) = callsIn(db[t]) \cup rowsOf(calls)
         /\ version = 6 => FlowIs(flowIn(db'[t]), to, ran'[t])
<1> DEFINE a == at[t]
           rn == ran[t]
           n == Len(rn)
           new == [call |-> top(t), pc |-> a]
           rn2 == Append(rn, new)
           row == [traceId |-> n + 1, pc |-> a]
           f == [traceId |-> n + 1, sourcePc |-> a, targetPc |-> IF to = 0 THEN External ELSE to]
           flow == IF version < 6 \/ Code[a].k = "plain" THEN <<>> ELSE <<f>>
           q == written(db[t], row, calls, flow)
<1>0. /\ Core(callsIn(db[t]), stack[t], made[t], rn, ended)
      /\ AtOK(a, stack[t], made[t], resume[t], rn)
      /\ SegsOK(db[t]) /\ TraceIs(traceIn(db[t]), rn)
      /\ version = 6 => FlowIs(flowIn(db[t]), a, rn)
  BY DEF ThreadOK
<1>1. a \in DOMAIN Code /\ stack[t] # <<>> BY <1>0 DEF AtOK
<1>2. a \in Nat /\ to \in Nat /\ External \in Nat BY <1>1, TraceAssumption
<1>3. n \in Nat /\ rn \in Seq(RanSet) /\ top(t) \in Nat BY <1>1, ThreadFacts
<1>4. ran'[t] = rn2 /\ db'[t] = q BY DEF Record, TraceTypeOK, RowCount
<1>5. row \in TraceRow /\ f \in FlowRow BY <1>2, <1>3 DEF TraceRow, FlowRow
<1>6. row.traceId = n + 1 /\ row.pc = a /\ f.traceId = n + 1 /\ f.sourcePc = a
      /\ f.targetPc = IF to = 0 THEN External ELSE to
  OBVIOUS
<1>7. new \in RanSet BY <1>1, <1>3 DEF RanSet
<1>8. new.pc = a OBVIOUS
<1> HIDE DEF row, f, new, a, rn
<1>9. /\ rn2 \in Seq(RanSet) /\ Len(rn2) = n + 1 /\ rn2[n + 1] = new
      /\ \A i \in 1..n : rn2[i] = rn[i]
  BY <1>3, <1>7, AppendFacts
<1>10. flow \in Seq(FlowRow) /\ (flow = <<>> \/ \E x \in FlowRow : flow = <<x>> /\ x.traceId = row.traceId)
  BY <1>5, <1>6
<1>11. \A x \in traceIn(db[t]) : x.traceId < row.traceId
  <2> SUFFICES ASSUME NEW i \in 1..n PROVE [traceId |-> i, pc |-> rn[i].pc].traceId < n + 1
    BY <1>0, <1>6 DEF TraceIs
  <2> QED BY <1>3
<1> HIDE DEF flow
<1>12. /\ SegsOK(q) /\ traceIn(q) = traceIn(db[t]) \cup {row}
       /\ callsIn(q) = callsIn(db[t]) \cup rowsOf(calls)
       /\ flowIn(q) = flowIn(db[t]) \cup rowsOf(flow)
  BY <1>0, <1>5, <1>10, <1>11, WrittenOK
<1> HIDE DEF q, rn2, n
<1>13. TraceIs(traceIn(q), rn2)
  <2>1. traceIn(db[t]) = {[traceId |-> i, pc |-> rn[i].pc] : i \in 1..n} BY <1>0 DEF TraceIs, n
  <2>2. row = [traceId |-> n + 1, pc |-> rn2[n + 1].pc] BY <1>8, <1>9 DEF row
  <2>3. \A i \in 1..n : rn2[i] = rn[i] BY <1>9
  <2>4. \A i \in 1..n + 1 : i \in 1..n \/ i = n + 1 BY <1>3
  <2>5. \A i \in 1..n : i \in 1..n + 1 BY <1>3
  <2>6. n + 1 \in 1..n + 1 BY <1>3
  <2> DEFINE N == {[traceId |-> i, pc |-> rn2[i].pc] : i \in 1..n + 1}
  <2>7. ASSUME NEW x \in N PROVE x \in traceIn(q)
    <3>1. PICK i \in 1..n + 1 : x = [traceId |-> i, pc |-> rn2[i].pc] OBVIOUS
    <3>2. CASE i \in 1..n
      <4>1. x = [traceId |-> i, pc |-> rn[i].pc] BY <3>1, <3>2, <2>3
      <4> QED BY <4>1, <3>2, <2>1, <1>12
    <3>3. CASE i = n + 1 BY <3>1, <3>3, <2>2, <1>12
    <3> QED BY <3>2, <3>3, <2>4
  <2>8. ASSUME NEW x \in traceIn(q) PROVE x \in N
    <3>1. CASE x = row BY <3>1, <2>2, <2>6
    <3>2. CASE x \in traceIn(db[t])
      <4>1. PICK i \in 1..n : x = [traceId |-> i, pc |-> rn[i].pc] BY <3>2, <2>1
      <4>2. x = [traceId |-> i, pc |-> rn2[i].pc] BY <4>1, <2>3
      <4> QED BY <4>2, <2>5
    <3> QED BY <3>1, <3>2, <1>12
  <2> QED BY <2>7, <2>8, <1>9 DEF TraceIs
<1>14. ASSUME version = 6 PROVE FlowIs(flowIn(q), to, rn2)
  <2>1. FlowIs(flowIn(db[t]), a, rn) BY <1>0, <1>14
  <2>2. \A i \in 1..n : i \in 1..n + 1 /\ After(to, rn2, i) = After(a, rn, i)
    <3> TAKE i \in 1..n
    <3>1. CASE i < n
      <4>1. i + 1 \in 1..n /\ i < n + 1 BY <3>1, <1>3
      <4> QED BY <4>1, <3>1, <1>3, <1>9 DEF After, n
    <3>2. CASE i = n
      <4>1. After(a, rn, i) = a BY <3>2, <1>3 DEF After, n
      <4>2. After(to, rn2, i) = rn2[n + 1].pc BY <3>2, <1>3, <1>9 DEF After
      <4> QED BY <4>1, <4>2, <3>2, <1>3, <1>8, <1>9
    <3> QED BY <3>1, <3>2, <1>3
  <2>3. \A x \in rowsOf(flow) : x = f /\ Code[a].k # "plain"
    BY DEF flow, rowsOf
  <2>4. Code[a].k # "plain" => f \in rowsOf(flow)
    <3> SUFFICES ASSUME Code[a].k # "plain" PROVE f \in rowsOf(flow) OBVIOUS
    <3>1. flow = <<f>> BY <1>14 DEF flow
    <3>2. f = <<f>>[1] /\ 1 \in 1..Len(<<f>>) OBVIOUS
    <3> QED BY <3>1, <3>2 DEF rowsOf
  <2>5. ASSUME NEW x \in flowIn(q)
        PROVE  /\ x.traceId \in 1..Len(rn2) /\ x.sourcePc = rn2[x.traceId].pc
               /\ Code[x.sourcePc].k = "branch" => x.targetPc = After(to, rn2, x.traceId)
    <3>1. CASE x \in flowIn(db[t])
      <4>1. /\ x.traceId \in 1..n /\ x.sourcePc = rn[x.traceId].pc
            /\ Code[x.sourcePc].k = "branch" => x.targetPc = After(a, rn, x.traceId)
        BY <2>1, <3>1 DEF FlowIs, n
      <4>2. x.traceId \in 1..n + 1 /\ rn2[x.traceId] = rn[x.traceId] BY <4>1, <1>9, <2>2
      <4> QED BY <4>1, <4>2, <2>2, <1>9
    <3>2. CASE x \in rowsOf(flow)
      <4>1. x = f BY <3>2, <2>3
      <4>2. x.traceId = n + 1 /\ x.sourcePc = a BY <4>1, <1>6
      <4>3. x.traceId \in 1..Len(rn2) /\ x.sourcePc = rn2[x.traceId].pc
        BY <4>2, <1>3, <1>8, <1>9
      <4>4. After(to, rn2, x.traceId) = to BY <4>2, <1>3, <1>9 DEF After
      <4>5. Code[a].k = "branch" => to # 0 BY DEF a
      <4> QED BY <4>1, <4>2, <4>3, <4>4, <4>5, <1>6
    <3> QED BY <3>1, <3>2, <1>12
  <2>6. ASSUME NEW i \in 1..Len(rn2), Code[rn2[i].pc].k = "branch"
        PROVE  \E x \in flowIn(q) : x.traceId = i
    <3>1. CASE i \in 1..n
      <4>1. Code[rn[i].pc].k = "branch" BY <3>1, <2>6, <1>9
      <4>2. PICK x \in flowIn(db[t]) : x.traceId = i BY <2>1, <3>1, <4>1 DEF FlowIs, n
      <4> QED BY <4>2, <1>12
    <3>2. CASE i = n + 1
      <4>1. Code[a].k = "branch" BY <3>2, <2>6, <1>8, <1>9
      <4>2. f \in rowsOf(flow) BY <4>1, <2>4
      <4> QED BY <4>2, <3>2, <1>6, <1>12
    <3> QED BY <3>1, <3>2, <1>3, <1>9
  <2> QED BY <2>5, <2>6 DEF FlowIs
<1> QED BY <1>1, <1>4, <1>12, <1>13, <1>14 DEF a, rn, new, rn2

\* The instructions executed when the next one of the thread is.
Grown(t) == Append(ran[t], [call |-> top(t), pc |-> at[t]])

\* Once its next instruction is executed, every call of the thread has begun.
LEMMA RowAdded ==
  ASSUME NEW t \in Threads, ThreadOK(t), ended = "no", at[t] # 0
  PROVE  /\ Core(callsIn(db[t]), stack[t], made[t], Grown(t), "no")
         /\ at[t] \in DOMAIN Code /\ at[t] \in Nat \ {0} /\ stack[t] # <<>>
         /\ Len(Grown(t)) = Len(ran[t]) + 1 /\ Len(Grown(t)) \in Nat /\ Len(Grown(t)) > 0
         /\ Grown(t)[Len(Grown(t))].call = stack[t][Len(stack[t])] /\ Grown(t)[Len(Grown(t))].pc = at[t]
         /\ \A id \in 1..Len(made[t]) : Begin(made[t][id]) <= Len(Grown(t))
         /\ \A i \in 1..Len(Grown(t)) : i < Len(Grown(t)) /\ Code[Grown(t)[i].pc].k \in {"plain", "branch"} =>
              Grown(t)[i + 1].call = Grown(t)[i].call
<1> DEFINE st == stack[t]
           md == made[t]
           rn == ran[t]
           n == Len(rn)
           new == [call |-> top(t), pc |-> at[t]]
           rn2 == Grown(t)
<1>0. /\ Core(callsIn(db[t]), st, md, rn, "no")
      /\ AtOK(at[t], st, md, resume[t], rn) /\ GoesOn(at[t], st, rn)
  BY DEF ThreadOK
<1>1. at[t] \in DOMAIN Code /\ st # <<>> BY <1>0 DEF AtOK
<1>2. /\ TreeOK(md) /\ StackOK(st, md) /\ rn \in Seq(RanSet) /\ n \in Nat
      /\ Len(st) > 0 /\ top(t) = st[Len(st)] /\ top(t) \in 1..Len(md)
      /\ \A id \in 1..Len(md) : Begin(md[id]) \in Nat /\ Begin(md[id]) <= n + 1
  BY <1>1, ThreadFacts
<1>3. new \in RanSet BY <1>1, <1>2 DEF RanSet
<1>4. new.call = st[Len(st)] /\ new.pc = at[t] BY <1>2
<1>5. /\ Len(rn2) = n + 1 /\ rn2[n + 1] = new /\ \A i \in 1..n : rn2[i] = rn[i]
  <2>1. rn2 = Append(rn, new) BY DEF Grown
  <2> HIDE DEF new, rn, rn2
  <2> QED BY <1>2, <1>3, <2>1, AppendFacts
<1>6. \A id \in 1..Len(md) : Begin(md[id]) = Len(rn) + 1 => id = st[Len(st)] /\ at[t] = md[id].entry
  BY <1>0 DEF AtOK
<1>7. Core(callsIn(db[t]), st, md, rn2, "no")
  <2>1. rn2 = Append(rn, [call |-> st[Len(st)], pc |-> at[t]]) BY <1>2 DEF Grown
  <2> HIDE DEF st, md, rn, rn2
  <2> QED BY <1>0, <1>1, <1>2, <1>6, <2>1, CoreRow
<1>8. ASSUME NEW i \in 1..Len(rn2), i < Len(rn2), Code[rn2[i].pc].k \in {"plain", "branch"}
      PROVE  rn2[i + 1].call = rn2[i].call
  <2>1. i \in 1..n /\ rn2[i] = rn[i] BY <1>5, <1>8, <1>2
  <2>2. CASE i < n
    <3>1. i + 1 \in 1..n BY <2>1, <2>2, <1>2
    <3>2. rn[i + 1].call = rn[i].call BY <1>0, <1>8, <2>1, <2>2 DEF GoesOn
    <3> QED BY <2>1, <3>1, <3>2, <1>5
  <2>3. CASE i = n
    <3>1. rn[i].call = st[Len(st)]
      <4>1. ~(i < n) BY <2>3, <1>2
      <4>2. i \in 1..Len(rn) /\ Code[rn[i].pc].k \in {"plain", "branch"} BY <1>8, <2>1
      <4> QED BY <1>0, <4>1, <4>2 DEF GoesOn
    <3> QED BY <3>1, <2>1, <2>3, <1>4, <1>5
  <2> QED BY <2>1, <2>2, <2>3, <1>2
<1>9. at[t] \in Nat \ {0} BY <1>1, TraceAssumption
<1>10. Len(rn2) = Len(ran[t]) + 1 /\ Len(rn2) \in Nat /\ Len(rn2) > 0 BY <1>2, <1>5
<1>11. rn2[Len(rn2)].call = stack[t][Len(stack[t])] /\ rn2[Len(rn2)].pc = at[t] BY <1>4, <1>5
<1>12. \A id \in 1..Len(made[t]) : Begin(made[t][id]) <= Len(rn2) BY <1>2, <1>5
<1> QED BY <1>1, <1>7, <1>8, <1>9, <1>10, <1>11, <1>12

\* Outside the module every call has begun and the last row was a transfer out.
LEMMA Outside ==
  ASSUME NEW t \in Threads, ThreadOK(t), at[t] = 0
  PROVE  /\ \A id \in 1..Len(made[t]) : Begin(made[t][id]) <= Len(ran[t])
         /\ \A i \in 1..Len(ran[t]) : Code[ran[t][i].pc].k \in {"plain", "branch"} =>
              i < Len(ran[t]) /\ ran[t][i + 1].call = ran[t][i].call
         /\ version = 6 => \A a : FlowIs(flowIn(db[t]), a, ran[t])
<1>0. /\ AtOK(at[t], stack[t], made[t], resume[t], ran[t]) /\ GoesOn(at[t], stack[t], ran[t])
      /\ version = 6 => FlowIs(flowIn(db[t]), at[t], ran[t])
  BY DEF ThreadOK
<1>1. /\ Len(ran[t]) \in Nat /\ ran[t] \in Seq(RanSet)
      /\ \A id \in 1..Len(made[t]) : /\ made[t][id] \in CallSet /\ Begin(made[t][id]) \in Nat
                                     /\ Begin(made[t][id]) <= Len(ran[t]) + 1
  BY ThreadFacts
<1>2. \A id \in 1..Len(made[t]) : made[t][id].entry # 0
  <2>1. \A id \in 1..Len(made[t]) : made[t][id].entry \in DOMAIN Code BY <1>1 DEF CallSet
  <2> QED BY <2>1, TraceAssumption
<1>3. \A id \in 1..Len(made[t]) : Begin(made[t][id]) # Len(ran[t]) + 1 BY <1>0, <1>2 DEF AtOK
<1>4. \A id \in 1..Len(made[t]) : Begin(made[t][id]) <= Len(ran[t]) BY <1>1, <1>3
<1>5. \A i \in 1..Len(ran[t]) : Code[ran[t][i].pc].k \in {"plain", "branch"} =>
        i < Len(ran[t]) /\ ran[t][i + 1].call = ran[t][i].call
  BY <1>0 DEF GoesOn
<1>6. ASSUME version = 6, NEW a PROVE FlowIs(flowIn(db[t]), a, ran[t])
  <2>1. FlowIs(flowIn(db[t]), at[t], ran[t]) BY <1>0, <1>6
  <2>2. \A i \in 1..Len(ran[t]) : Code[ran[t][i].pc].k = "branch" =>
          After(a, ran[t], i) = After(at[t], ran[t], i)
    BY <1>5 DEF After
  <2> QED BY <2>1, <2>2 DEF FlowIs
<1> QED BY <1>4, <1>5, <1>6

\* A plain instruction or a branch.
LEMMA GoOnThread ==
  ASSUME TraceTypeOK, NEW t \in Threads, ThreadOK(t), ended = "no", at[t] # 0, GoOn(t)
  PROVE  ThreadOK(t)'
<1>1. at[t] \in DOMAIN Code BY DEF ThreadOK, AtOK
<1>2. PICK q \in (IF Code[at[t]].k = "plain" THEN {at[t] + 1} ELSE Code[at[t]].to) :
        at' = [at EXCEPT ![t] = q] /\ Record(t, q, <<>>)
  BY DEF GoOn
<1>3. q \in DOMAIN Code /\ q # 0
  <2>1. Code[at[t]].k = "plain" => at[t] + 1 \in DOMAIN Code BY <1>1, TraceAssumption
  <2>2. Code[at[t]].to \subseteq DOMAIN Code BY <1>1, TraceAssumption
  <2>3. q \in DOMAIN Code BY <1>2, <2>1, <2>2
  <2> QED BY <2>3, TraceAssumption
<1>4. <<>> \in Seq(CallRow) /\ rowsOf(<<>>) = {} BY DEF rowsOf
<1>5. /\ stack[t] # <<>> /\ ran'[t] = Append(ran[t], [call |-> top(t), pc |-> at[t]])
      /\ SegsOK(db'[t]) /\ TraceIs(traceIn(db'[t]), ran'[t])
      /\ callsIn(db'[t]) = callsIn(db[t]) \cup rowsOf(<<>>)
      /\ version = 6 => FlowIs(flowIn(db'[t]), q, ran'[t])
  <2>1. q \in {0} \cup DOMAIN Code BY <1>3
  <2> QED BY <1>2, <1>3, <1>4, <2>1, RecordOK
<1>6. /\ at'[t] = q /\ stack'[t] = stack[t] /\ made'[t] = made[t] /\ resume'[t] = resume[t]
      /\ ended' = "no" /\ version' = version
  BY <1>2 DEF GoOn, Record, TraceTypeOK
<1> DEFINE rn2 == ran'[t]
<1>7. rn2 = Grown(t) BY <1>5 DEF Grown
<1> HIDE DEF rn2
<1>8. /\ Core(callsIn(db[t]), stack[t], made[t], rn2, "no")
      /\ at[t] \in DOMAIN Code /\ at[t] \in Nat \ {0} /\ stack[t] # <<>>
      /\ Len(rn2) = Len(ran[t]) + 1 /\ Len(rn2) \in Nat /\ Len(rn2) > 0
      /\ rn2[Len(rn2)].call = stack[t][Len(stack[t])] /\ rn2[Len(rn2)].pc = at[t]
      /\ \A id \in 1..Len(made[t]) : Begin(made[t][id]) <= Len(rn2)
      /\ \A i \in 1..Len(rn2) : i < Len(rn2) /\ Code[rn2[i].pc].k \in {"plain", "branch"} =>
           rn2[i + 1].call = rn2[i].call
  BY <1>7, RowAdded
<1>9. AtOK(q, stack[t], made[t], resume[t], rn2)
  <2>1. AtOK(at[t], stack[t], made[t], resume[t], ran[t]) BY DEF ThreadOK
  <2>2. \A id \in 1..Len(made[t]) : Begin(made[t][id]) # Len(rn2) + 1
    <3>1. \A id \in 1..Len(made[t]) : Begin(made[t][id]) \in Nat BY ThreadFacts
    <3> QED BY <3>1, <1>8
  <2> QED BY <2>1, <2>2, <1>3, <1>5 DEF AtOK
<1>10. GoesOn(q, stack[t], rn2)
  <2> SUFFICES ASSUME NEW i \in 1..Len(rn2), Code[rn2[i].pc].k \in {"plain", "branch"}
               PROVE  IF i < Len(rn2) THEN rn2[i + 1].call = rn2[i].call
                      ELSE q # 0 /\ rn2[i].call = stack[t][Len(stack[t])]
    BY DEF GoesOn
  <2>1. CASE i < Len(rn2) BY <2>1, <1>8
  <2>2. CASE ~(i < Len(rn2))
    <3>1. i = Len(rn2) BY <2>2, <1>8
    <3> QED BY <3>1, <2>2, <1>3, <1>8
  <2> QED BY <2>1, <2>2
<1>11. callsIn(db'[t]) = callsIn(db[t]) BY <1>4, <1>5
<1> QED BY <1>5, <1>6, <1>8, <1>9, <1>10, <1>11 DEF ThreadOK, rn2

\* A call that leaves its function goes on at the next instruction.
LEMMA ResumeSet ==
  ASSUME NEW st, NEW md, NEW a, NEW rs, NEW rn, TreeOK(md), StackOK(st, md), AtOK(a, st, md, rs, rn),
         Len(st) > 0, NEW p \in DOMAIN Code, NEW rs2, rs2 = [rs EXCEPT ![st[Len(st)]] = p]
  PROVE  /\ rs2 \in Seq(Nat) /\ Len(rs2) = Len(md)
         /\ \A j \in 1..Len(st) : rs2[st[j]] \in DOMAIN Code
<1>1. /\ rs \in Seq(Nat) /\ Len(rs) = Len(md) /\ Len(st) \in Nat /\ p \in Nat
      /\ \A j \in 1..Len(st) : st[j] \in 1..Len(md)
      /\ \A i, j \in 1..Len(st) : i < j => st[i] < st[j]
      /\ \A j \in 1..Len(st) : j < Len(st) => rs[st[j]] \in DOMAIN Code
  BY TraceAssumption DEF AtOK, StackOK
<1>2. Len(st) \in 1..Len(st) /\ st[Len(st)] \in 1..Len(rs) BY <1>1
<1>3. /\ rs2 \in Seq(Nat) /\ Len(rs2) = Len(rs)
      /\ \A j \in 1..Len(rs) : rs2[j] = IF j = st[Len(st)] THEN p ELSE rs[j]
  BY <1>1, <1>2, ExceptSeq
<1>4. ASSUME NEW j \in 1..Len(st) PROVE rs2[st[j]] \in DOMAIN Code
  <2>1. CASE j = Len(st) BY <2>1, <1>1, <1>2, <1>3
  <2>2. CASE j # Len(st)
    <3>1. j < Len(st) BY <2>2, <1>1
    <3>2. st[j] \in 1..Len(rs) /\ st[j] \in Nat /\ st[Len(st)] \in Nat BY <1>1, <1>2
    <3>3. st[j] # st[Len(st)]
      <4>1. st[j] < st[Len(st)] BY <3>1, <1>1, <1>2
      <4> QED BY <4>1, <3>2
    <3> QED BY <3>1, <3>2, <3>3, <1>1, <1>3
  <2> QED BY <2>1, <2>2
<1> QED BY <1>1, <1>3, <1>4

\* A call begins: it is where the thread is, and its caller knows where to go on.
LEMMA AtPush ==
  ASSUME NEW st, NEW md, NEW rs, NEW rn, TreeOK(md), StackOK(st, md), rn \in Seq(RanSet),
         rs \in Seq(Nat), Len(rs) = Len(md),
         \A j \in 1..Len(st) : rs[st[j]] \in DOMAIN Code,
         \A id \in 1..Len(md) : md[id].indirect \/ md[id].parent # 0,
         \A id \in 1..Len(md) : Begin(md[id]) <= Len(rn),
         NEW c \in CallSet, c.indirect \/ c.parent # 0
  PROVE  AtOK(c.entry, Append(st, Len(md) + 1), Append(md, c), Append(rs, 0), rn)
<1> DEFINE m == Len(md)
           md2 == Append(md, c)
           st2 == Append(st, m + 1)
           rs2 == Append(rs, 0)
<1>1. /\ m \in Nat /\ st \in Seq(Nat) /\ md \in Seq(CallSet) /\ Len(st) \in Nat /\ Len(rn) \in Nat
      /\ \A j \in 1..Len(st) : st[j] \in 1..m
      /\ \A id \in 1..m : md[id] \in CallSet
  BY MadeTyped DEF StackOK, TreeOK
<1>2. Len(md2) = m + 1 /\ md2[m + 1] = c /\ \A id \in 1..m : md2[id] = md[id]
  BY <1>1, AppendFacts
<1>3. st2 \in Seq(Nat) /\ Len(st2) = Len(st) + 1 /\ st2[Len(st) + 1] = m + 1
      /\ \A j \in 1..Len(st) : st2[j] = st[j]
  BY <1>1, AppendFacts
<1>4. rs2 \in Seq(Nat) /\ Len(rs2) = m + 1 /\ \A j \in 1..m : rs2[j] = rs[j]
  BY <1>1, AppendFacts
<1> HIDE DEF m, md2, st2, rs2
<1>5. c.entry \in DOMAIN Code /\ st2 # <<>>
  <2>1. Len(<<>>) = 0 OBVIOUS
  <2> QED BY <2>1, <1>1, <1>3 DEF CallSet
<1>6. \A id \in 1..Len(md2) : md2[id].indirect \/ md2[id].parent # 0
  <2> TAKE id \in 1..Len(md2)
  <2>1. CASE id \in 1..m BY <2>1, <1>2 DEF m
  <2>2. CASE id = m + 1 BY <2>2, <1>2
  <2> QED BY <2>1, <2>2, <1>1, <1>2
<1>7. c.entry # 0 BY <1>5, TraceAssumption
<1>8. ASSUME NEW j \in 1..Len(st2), j < Len(st2) PROVE rs2[st2[j]] \in DOMAIN Code
  <2>1. j \in 1..Len(st) BY <1>8, <1>1, <1>3
  <2>2. st2[j] = st[j] /\ st[j] \in 1..m BY <2>1, <1>1, <1>3
  <2>3. rs2[st2[j]] = rs[st[j]] BY <2>2, <1>4
  <2> QED BY <2>1, <2>3
<1>9. ASSUME NEW id \in 1..Len(md2), Begin(md2[id]) = Len(rn) + 1
      PROVE  id = st2[Len(st2)] /\ c.entry = md2[id].entry
  <2>1. id \notin 1..m
    <3> SUFFICES ASSUME id \in 1..m PROVE FALSE OBVIOUS
    <3>1. Begin(md[id]) <= Len(rn) /\ Begin(md[id]) = Len(rn) + 1 BY <1>9, <1>2 DEF m
    <3>2. Begin(md[id]) \in Nat BY <1>1, BeginNat
    <3> QED BY <3>1, <3>2, <1>1
  <2>2. id = m + 1 BY <2>1, <1>1, <1>2
  <2> QED BY <2>2, <1>2, <1>3
<1>10. Len(rs2) = Len(md2) BY <1>2, <1>4
<1> QED BY <1>4, <1>5, <1>6, <1>7, <1>8, <1>9, <1>10 DEF AtOK, m, md2, st2, rs2

\* A call instruction.
LEMMA CallOnThread ==
  ASSUME TraceTypeOK, NEW t \in Threads, ThreadOK(t), ended = "no", at[t] # 0, CallOn(t)
  PROVE  ThreadOK(t)'
<1>0. /\ AtOK(at[t], stack[t], made[t], resume[t], ran[t])
      /\ TreeOK(made[t]) /\ StackOK(stack[t], made[t])
  BY DEF ThreadOK, Core
<1>1. at[t] \in DOMAIN Code /\ Code[at[t]].k = "call" BY <1>0 DEF AtOK, CallOn
<1>2. PICK f \in Code[at[t]].to :
        Enter(t, f, RuntimeBase + at[t], FALSE, RowCount(t) + 1) /\ Record(t, f, <<>>)
  BY DEF CallOn
<1>3. f \in DOMAIN Code /\ at[t] + 1 \in DOMAIN Code BY <1>1, <1>2, TraceAssumption
<1>4. <<>> \in Seq(CallRow) /\ rowsOf(<<>>) = {} BY DEF rowsOf
<1>5. /\ stack[t] # <<>> /\ ran'[t] = Append(ran[t], [call |-> top(t), pc |-> at[t]])
      /\ SegsOK(db'[t]) /\ TraceIs(traceIn(db'[t]), ran'[t])
      /\ callsIn(db'[t]) = callsIn(db[t]) \cup rowsOf(<<>>)
      /\ version = 6 => FlowIs(flowIn(db'[t]), f, ran'[t])
  <2>1. f \in {0} \cup DOMAIN Code BY <1>3
  <2>2. Code[at[t]].k = "branch" => f # 0 BY <1>1
  <2> QED BY <1>2, <1>4, <2>1, <2>2, RecordOK
<1> DEFINE st == stack[t]
           md == made[t]
           c == [entry |-> f, parent |-> top(t), site |-> RuntimeBase + at[t],
                 enter |-> Len(ran[t]) + 1, indirect |-> FALSE]
           rs1 == [resume[t] EXCEPT ![st[Len(st)]] = at[t] + 1]
           rn2 == ran'[t]
<1>6. /\ at'[t] = f /\ stack'[t] = Append(st, Len(md) + 1) /\ made'[t] = Append(md, c)
      /\ resume'[t] = Append(rs1, 0)
      /\ ended' = "no" /\ version' = version
  BY <1>2, <1>5 DEF CallOn, Enter, Record, TraceTypeOK, RowCount, top
<1>7. rn2 = Grown(t) BY <1>5 DEF Grown
<1>a. /\ Len(st) > 0 /\ top(t) = st[Len(st)] /\ top(t) \in 1..Len(md) /\ Len(ran[t]) \in Nat
      /\ at[t] \in Nat /\ RuntimeBase \in Nat /\ Len(md) \in Nat
  BY <1>1, <1>5, ThreadFacts, TraceAssumption
<1>b. c \in CallSet BY <1>3, <1>a DEF CallSet
<1>c. /\ c.entry = f /\ c.parent = top(t) /\ c.site = RuntimeBase + at[t] /\ c.indirect = FALSE
      /\ c.enter = Len(ran[t]) + 1
  OBVIOUS
<1> HIDE DEF rn2, c
<1>8. /\ Core(callsIn(db[t]), stack[t], made[t], rn2, "no")
      /\ at[t] \in DOMAIN Code /\ at[t] \in Nat \ {0} /\ stack[t] # <<>>
      /\ Len(rn2) = Len(ran[t]) + 1 /\ Len(rn2) \in Nat /\ Len(rn2) > 0
      /\ rn2[Len(rn2)].call = stack[t][Len(stack[t])] /\ rn2[Len(rn2)].pc = at[t]
      /\ \A id \in 1..Len(made[t]) : Begin(made[t][id]) <= Len(rn2)
      /\ \A i \in 1..Len(rn2) : i < Len(rn2) /\ Code[rn2[i].pc].k \in {"plain", "branch"} =>
           rn2[i + 1].call = rn2[i].call
  BY <1>7, RowAdded
<1>9. Core(callsIn(db[t]), Append(st, Len(md) + 1), Append(md, c), rn2, "no")
  <2>1. Begin(c) = Len(rn2) + 1 BY <1>8, <1>c, <1>a DEF Begin
  <2>2. c.parent = IF st = <<>> THEN 0 ELSE st[Len(st)] BY <1>a, <1>c, <1>5
  <2>3. c.site = RuntimeBase + rn2[Len(rn2)].pc BY <1>8, <1>c
  <2> HIDE DEF st, md
  <2> QED BY <1>8, <1>b, <2>1, <2>2, <2>3, CorePush DEF st, md
<1>10. AtOK(f, Append(st, Len(md) + 1), Append(md, c), Append(rs1, 0), rn2)
  <2>1. /\ rs1 \in Seq(Nat) /\ Len(rs1) = Len(md)
        /\ \A j \in 1..Len(st) : rs1[st[j]] \in DOMAIN Code
    BY <1>0, <1>3, <1>a, ResumeSet
  <2>2. \A id \in 1..Len(md) : md[id].indirect \/ md[id].parent # 0 BY <1>0 DEF AtOK
  <2>3. c.indirect \/ c.parent # 0 BY <1>a, <1>c
  <2>4. rn2 \in Seq(RanSet) BY <1>8 DEF Core
  <2> HIDE DEF rs1
  <2>5. AtOK(c.entry, Append(st, Len(md) + 1), Append(md, c), Append(rs1, 0), rn2)
    BY <1>0, <1>8, <1>b, <2>1, <2>2, <2>3, <2>4, AtPush
  <2> QED BY <2>5, <1>c
<1>11. GoesOn(f, Append(st, Len(md) + 1), rn2)
  <2> SUFFICES ASSUME NEW i \in 1..Len(rn2), Code[rn2[i].pc].k \in {"plain", "branch"}
               PROVE  i < Len(rn2) /\ rn2[i + 1].call = rn2[i].call
    BY DEF GoesOn
  <2>1. i # Len(rn2) BY <1>1, <1>8
  <2>2. i < Len(rn2) BY <2>1, <1>8
  <2> QED BY <2>2, <1>8
<1>12. callsIn(db'[t]) = callsIn(db[t]) BY <1>4, <1>5
<1> QED BY <1>5, <1>6, <1>9, <1>10, <1>11, <1>12 DEF ThreadOK, rn2

\* A call out of the module.
LEMMA CallOutThread ==
  ASSUME TraceTypeOK, NEW t \in Threads, ThreadOK(t), ended = "no", at[t] # 0, CallOut(t)
  PROVE  ThreadOK(t)'
<1>0. /\ AtOK(at[t], stack[t], made[t], resume[t], ran[t])
      /\ TreeOK(made[t]) /\ StackOK(stack[t], made[t])
  BY DEF ThreadOK, Core
<1>1. at[t] \in DOMAIN Code /\ Code[at[t]].k = "import" BY <1>0 DEF AtOK, CallOut
<1>2. at[t] + 1 \in DOMAIN Code BY <1>1, TraceAssumption
<1>3. <<>> \in Seq(CallRow) /\ rowsOf(<<>>) = {} BY DEF rowsOf
<1>4. Record(t, 0, <<>>) BY DEF CallOut
<1>5. /\ stack[t] # <<>> /\ ran'[t] = Append(ran[t], [call |-> top(t), pc |-> at[t]])
      /\ SegsOK(db'[t]) /\ TraceIs(traceIn(db'[t]), ran'[t])
      /\ callsIn(db'[t]) = callsIn(db[t]) \cup rowsOf(<<>>)
      /\ version = 6 => FlowIs(flowIn(db'[t]), 0, ran'[t])
  <2>1. 0 \in {0} \cup DOMAIN Code OBVIOUS
  <2>2. Code[at[t]].k = "branch" => 0 # 0 BY <1>1
  <2> QED BY <1>3, <1>4, <2>1, <2>2, RecordOK
<1> DEFINE st == stack[t]
           md == made[t]
           rs1 == [resume[t] EXCEPT ![st[Len(st)]] = at[t] + 1]
           rn2 == ran'[t]
<1>6. /\ at'[t] = 0 /\ stack'[t] = st /\ made'[t] = md /\ resume'[t] = rs1
      /\ ended' = "no" /\ version' = version
  BY <1>4 DEF CallOut, Record, TraceTypeOK, top
<1>7. rn2 = Grown(t) BY <1>5 DEF Grown
<1>a. Len(st) > 0 BY <1>5, ThreadFacts
<1> HIDE DEF rn2
<1>8. /\ Core(callsIn(db[t]), stack[t], made[t], rn2, "no")
      /\ at[t] \in DOMAIN Code /\ at[t] \in Nat \ {0} /\ stack[t] # <<>>
      /\ Len(rn2) = Len(ran[t]) + 1 /\ Len(rn2) \in Nat /\ Len(rn2) > 0
      /\ rn2[Len(rn2)].call = stack[t][Len(stack[t])] /\ rn2[Len(rn2)].pc = at[t]
      /\ \A id \in 1..Len(made[t]) : Begin(made[t][id]) <= Len(rn2)
      /\ \A i \in 1..Len(rn2) : i < Len(rn2) /\ Code[rn2[i].pc].k \in {"plain", "branch"} =>
           rn2[i + 1].call = rn2[i].call
  BY <1>7, RowAdded
<1>9. AtOK(0, st, md, rs1, rn2)
  <2>1. /\ rs1 \in Seq(Nat) /\ Len(rs1) = Len(md)
        /\ \A j \in 1..Len(st) : rs1[st[j]] \in DOMAIN Code
    BY <1>0, <1>2, <1>a, ResumeSet
  <2>2. \A id \in 1..Len(md) : md[id].indirect \/ md[id].parent # 0 BY <1>0 DEF AtOK
  <2>3. \A id \in 1..Len(md) : Begin(md[id]) # Len(rn2) + 1
    <3>1. \A id \in 1..Len(md) : Begin(md[id]) \in Nat BY ThreadFacts
    <3> QED BY <3>1, <1>8
  <2> HIDE DEF rs1
  <2> QED BY <2>1, <2>2, <2>3 DEF AtOK
<1>10. GoesOn(0, st, rn2)
  <2> SUFFICES ASSUME NEW i \in 1..Len(rn2), Code[rn2[i].pc].k \in {"plain", "branch"}
               PROVE  i < Len(rn2) /\ rn2[i + 1].call = rn2[i].call
    BY DEF GoesOn
  <2>1. i # Len(rn2) BY <1>1, <1>8
  <2>2. i < Len(rn2) BY <2>1, <1>8
  <2> QED BY <2>2, <1>8
<1>11. callsIn(db'[t]) = callsIn(db[t]) BY <1>3, <1>5
<1> QED BY <1>5, <1>6, <1>8, <1>9, <1>10, <1>11 DEF ThreadOK, rn2

\* A frame's row is one of the callgraph, and says what the call was.
LEMMA FrameRowIs ==
  ASSUME NEW t \in Threads, ThreadOK(t), NEW id \in 1..Len(made[t]), NEW exit \in Nat,
         NEW noReturn \in BOOLEAN
  PROVE  /\ FrameRow(t, id, exit, noReturn) \in CallRow
         /\ FrameOf(made[t], FrameRow(t, id, exit, noReturn))
         /\ FrameRow(t, id, exit, noReturn).callId = id
         /\ FrameRow(t, id, exit, noReturn).exitTraceId = exit
         /\ FrameRow(t, id, exit, noReturn).noReturn = noReturn
<1>1. made[t][id] \in CallSet /\ Len(made[t]) \in Nat BY ThreadFacts
<1>2. made[t][id].entry \in DOMAIN Code BY <1>1 DEF CallSet
<1>3. /\ made[t][id].parent \in Nat /\ made[t][id].site \in Nat /\ made[t][id].enter \in Nat
      /\ made[t][id].entry \in Nat /\ RuntimeBase \in Nat
  BY <1>1, <1>2, TraceAssumption DEF CallSet
<1>4. made[t][id].indirect \in BOOLEAN BY <1>1 DEF CallSet
<1>5. FrameOf(made[t], FrameRow(t, id, exit, noReturn)) BY DEF FrameOf, FrameRow
<1>6. RuntimeBase + made[t][id].entry \in Nat /\ id \in Nat BY <1>1, <1>3
<1>7. FrameRow(t, id, exit, noReturn) \in CallRow
  BY <1>3, <1>4, <1>6 DEF FrameRow, CallRow
<1> QED BY <1>5, <1>7 DEF FrameRow

\* A return: the frame ends with the row after it.
LEMMA ReturnThread ==
  ASSUME TraceTypeOK, NEW t \in Threads, ThreadOK(t), ended = "no", at[t] # 0, Return(t)
  PROVE  ThreadOK(t)'
<1> DEFINE st == stack[t]
           md == made[t]
           rs == resume[t]
           call == md[top(t)]
           to == IF call.indirect THEN 0 ELSE rs[call.parent]
           row == FrameRow(t, top(t), Len(ran[t]) + 2, FALSE)
           st2 == SubSeq(st, 1, Len(st) - 1)
           rn2 == ran'[t]
<1>0. /\ AtOK(at[t], st, md, rs, ran[t])
      /\ TreeOK(md) /\ StackOK(st, md)
  BY DEF ThreadOK, Core
<1>1. at[t] \in DOMAIN Code /\ st # <<>> /\ Code[at[t]].k = "ret" BY <1>0 DEF AtOK, Return
<1>2. Record(t, to, <<row>>) BY DEF Return, RowCount
<1>a. /\ Len(st) > 0 /\ top(t) = st[Len(st)] /\ top(t) \in 1..Len(md) /\ Len(ran[t]) \in Nat
      /\ Len(md) \in Nat /\ Len(st) \in Nat /\ st \in Seq(Nat)
  BY <1>1, ThreadFacts
<1>b. Len(st) \in 1..Len(st) BY <1>a
<1>3. /\ row \in CallRow /\ FrameOf(md, row) /\ row.callId = top(t)
      /\ row.exitTraceId = Len(ran[t]) + 2 /\ row.noReturn = FALSE
  <2>1. Len(ran[t]) + 2 \in Nat /\ FALSE \in BOOLEAN BY <1>a
  <2>2. PICK no \in BOOLEAN : no = FALSE OBVIOUS
  <2>3. PICK exit \in Nat : exit = Len(ran[t]) + 2 BY <2>1
  <2>4. /\ FrameRow(t, top(t), exit, no) \in CallRow
        /\ FrameOf(made[t], FrameRow(t, top(t), exit, no))
        /\ FrameRow(t, top(t), exit, no).callId = top(t)
        /\ FrameRow(t, top(t), exit, no).exitTraceId = exit
        /\ FrameRow(t, top(t), exit, no).noReturn = no
    BY <1>a, FrameRowIs
  <2>5. row = FrameRow(t, top(t), exit, no) BY <2>2, <2>3, Zenon
  <2> HIDE DEF row, md
  <2> QED BY <2>2, <2>3, <2>4, <2>5 DEF md
<1>4. to \in {0} \cup DOMAIN Code /\ (to # 0 => Len(st) > 1)
  <2>1. CASE call.indirect BY <2>1
  <2>2. CASE ~call.indirect
    <3>1. call.parent # 0 BY <2>2, <1>0, <1>a DEF AtOK
    <3>2. call.parent = IF Len(st) = 1 THEN 0 ELSE st[Len(st) - 1] BY <1>0, <1>a, <1>b DEF StackOK
    <3>3. Len(st) > 1 /\ call.parent = st[Len(st) - 1]
      <4>1. Len(st) # 1 BY <3>1, <3>2
      <4>2. call.parent = st[Len(st) - 1] BY <4>1, <3>2
      <4>3. \A k \in Nat : k > 0 /\ k # 1 => k > 1 OBVIOUS
      <4>4. Len(st) > 1 BY <4>1, <4>3, <1>a
      <4> QED BY <4>2, <4>4
    <3>4. Len(st) - 1 \in 1..Len(st) /\ Len(st) - 1 < Len(st) BY <3>3, <1>a
    <3>5. rs[st[Len(st) - 1]] \in DOMAIN Code BY <1>0, <3>4 DEF AtOK
    <3> QED BY <3>3, <3>5, <2>2
  <2> QED BY <2>1, <2>2
<1>5. /\ at'[t] = to /\ stack'[t] = st2 /\ made'[t] = md /\ resume'[t] = rs
      /\ ended' = "no" /\ version' = version
  BY <1>2 DEF Return, Record, TraceTypeOK, RowCount
<1> HIDE DEF to, row
<1>6. <<row>> \in Seq(CallRow) /\ rowsOf(<<row>>) = {row}
  <2>1. <<row>> \in Seq(CallRow) BY <1>3
  <2>2. Len(<<row>>) = 1 /\ <<row>>[1] = row OBVIOUS
  <2>3. \A x : x \in rowsOf(<<row>>) <=> x = row BY <2>2 DEF rowsOf
  <2> QED BY <2>1, <2>3
<1>7. /\ ran'[t] = Append(ran[t], [call |-> top(t), pc |-> at[t]])
      /\ SegsOK(db'[t]) /\ TraceIs(traceIn(db'[t]), ran'[t])
      /\ callsIn(db'[t]) = callsIn(db[t]) \cup rowsOf(<<row>>)
      /\ version = 6 => FlowIs(flowIn(db'[t]), to, ran'[t])
  <2>1. Code[at[t]].k = "branch" => to # 0 BY <1>1
  <2> QED BY <1>2, <1>4, <1>6, <2>1, RecordOK
<1>8. rn2 = Grown(t) BY <1>7 DEF Grown
<1> HIDE DEF rn2
<1>9. /\ Core(callsIn(db[t]), stack[t], made[t], rn2, "no")
      /\ at[t] \in DOMAIN Code /\ at[t] \in Nat \ {0} /\ stack[t] # <<>>
      /\ Len(rn2) = Len(ran[t]) + 1 /\ Len(rn2) \in Nat /\ Len(rn2) > 0
      /\ rn2[Len(rn2)].call = stack[t][Len(stack[t])] /\ rn2[Len(rn2)].pc = at[t]
      /\ \A id \in 1..Len(made[t]) : Begin(made[t][id]) <= Len(rn2)
      /\ \A i \in 1..Len(rn2) : i < Len(rn2) /\ Code[rn2[i].pc].k \in {"plain", "branch"} =>
           rn2[i + 1].call = rn2[i].call
  BY <1>8, RowAdded
<1>10. Core(callsIn(db[t]) \cup {row}, st2, md, rn2, "no")
  <2>1. row.exitTraceId = Len(rn2) + 1 /\ row.callId = st[Len(st)] /\ ~row.noReturn
    BY <1>3, <1>9, <1>a
  <2> HIDE DEF st, md
  <2> QED BY <1>3, <1>9, <1>a, <2>1, CorePop DEF st, md
<1>11. Len(st2) = Len(st) - 1 /\ \A j \in 1..Len(st2) : j \in 1..Len(st) /\ j < Len(st) /\ st2[j] = st[j]
  <2>1. StackOK(st2, md) BY <1>10 DEF Core
  <2>2. /\ Len(st2) = IF 1 <= Len(st) - 1 THEN Len(st) - 1 - 1 + 1 ELSE 0
        /\ \A i \in 1..Len(st) - 1 - 1 + 1 : st2[i] = st[1 + i - 1]
    <3>1. 1 \in Int /\ Len(st) - 1 \in Int /\ \A i \in 1..Len(st) - 1 : st[i] \in Nat BY <1>a
    <3> QED BY <3>1, SubSeqProperties
  <2> HIDE DEF st2
  <2>3. \A k \in Nat : k > 0 => (IF 1 <= k - 1 THEN k - 1 - 1 + 1 ELSE 0) = k - 1 OBVIOUS
  <2>4. Len(st2) = Len(st) - 1 BY <2>2, <2>3, <1>a
  <2>5. ASSUME NEW j \in 1..Len(st2) PROVE j \in 1..Len(st) /\ j < Len(st) /\ st2[j] = st[j]
    <3>1. j \in 1..Len(st) - 1 - 1 + 1 /\ 1 + j - 1 = j /\ j \in 1..Len(st) /\ j < Len(st)
      BY <2>4, <1>a
    <3> QED BY <3>1, <2>2
  <2> QED BY <2>4, <2>5
<1> HIDE DEF st2
<1>12. AtOK(to, st2, md, rs, rn2)
  <2>1. to # 0 => st2 # <<>>
    <3>1. Len(<<>>) = 0 OBVIOUS
    <3> QED BY <3>1, <1>4, <1>11, <1>a
  <2>2. \A j \in 1..Len(st2) : rs[st2[j]] \in DOMAIN Code BY <1>0, <1>11 DEF AtOK
  <2>3. \A id \in 1..Len(md) : Begin(md[id]) # Len(rn2) + 1
    <3>1. \A id \in 1..Len(md) : Begin(md[id]) \in Nat BY ThreadFacts
    <3> QED BY <3>1, <1>9
  <2> QED BY <1>0, <1>4, <2>1, <2>2, <2>3 DEF AtOK
<1>13. GoesOn(to, st2, rn2)
  <2> SUFFICES ASSUME NEW i \in 1..Len(rn2), Code[rn2[i].pc].k \in {"plain", "branch"}
               PROVE  i < Len(rn2) /\ rn2[i + 1].call = rn2[i].call
    BY DEF GoesOn
  <2>1. i # Len(rn2) BY <1>1, <1>9
  <2>2. i < Len(rn2) BY <2>1, <1>9
  <2> QED BY <2>2, <1>9
<1>14. callsIn(db'[t]) = callsIn(db[t]) \cup {row} BY <1>6, <1>7
<1> QED BY <1>5, <1>7, <1>10, <1>12, <1>13, <1>14 DEF ThreadOK, rn2

\* A call from outside the module.
LEMMA CallInThread ==
  ASSUME TraceTypeOK, NEW t \in Threads, ThreadOK(t), NEW f \in DOMAIN Code, CallIn(t, f)
  PROVE  ThreadOK(t)'
<1> DEFINE st == stack[t]
           md == made[t]
           rn == ran[t]
           c == [entry |-> f, parent |-> IF st = <<>> THEN 0 ELSE top(t), site |-> External,
                 enter |-> Len(rn) + 1, indirect |-> TRUE]
<1>0. /\ Core(callsIn(db[t]), st, md, rn, "no") /\ AtOK(0, st, md, resume[t], rn)
      /\ SegsOK(db[t]) /\ TraceIs(traceIn(db[t]), rn)
      /\ at[t] = 0 /\ ended = "no"
  BY DEF ThreadOK, CallIn
<1>1. /\ TreeOK(md) /\ StackOK(st, md) /\ rn \in Seq(RanSet) /\ Len(rn) \in Nat
      /\ st # <<>> => top(t) = st[Len(st)] /\ top(t) \in 1..Len(md)
  BY ThreadFacts
<1>2. /\ \A id \in 1..Len(md) : Begin(md[id]) <= Len(rn)
      /\ \A i \in 1..Len(rn) : Code[rn[i].pc].k \in {"plain", "branch"} =>
           i < Len(rn) /\ rn[i + 1].call = rn[i].call
      /\ version = 6 => \A a : FlowIs(flowIn(db[t]), a, rn)
  BY <1>0, Outside
<1>3. /\ at'[t] = f /\ stack'[t] = Append(st, Len(md) + 1) /\ made'[t] = Append(md, c)
      /\ resume'[t] = Append(resume[t], 0) /\ ran'[t] = rn /\ db'[t] = db[t]
      /\ ended' = "no" /\ version' = version
  BY <1>0 DEF CallIn, Enter, TraceTypeOK, RowCount
<1>4. c \in CallSet
  <2>1. (IF st = <<>> THEN 0 ELSE top(t)) \in Nat BY <1>1
  <2>2. External \in Nat /\ Len(rn) + 1 \in Nat \ {0} BY <1>1, TraceAssumption
  <2> QED BY <2>1, <2>2 DEF CallSet
<1>5. /\ c.entry = f /\ c.parent = (IF st = <<>> THEN 0 ELSE st[Len(st)]) /\ c.indirect
      /\ c.enter = Len(rn) + 1
  BY <1>1
<1> HIDE DEF c
<1>6. Core(callsIn(db[t]), Append(st, Len(md) + 1), Append(md, c), rn, "no")
  <2>1. Begin(c) = Len(rn) + 1 BY <1>5, <1>1 DEF Begin
  <2> HIDE DEF st, md, rn
  <2> QED BY <1>0, <1>2, <1>4, <1>5, <2>1, CorePush
<1>7. AtOK(c.entry, Append(st, Len(md) + 1), Append(md, c), Append(resume[t], 0), rn)
  <2>1. /\ resume[t] \in Seq(Nat) /\ Len(resume[t]) = Len(md)
        /\ \A j \in 1..Len(st) : resume[t][st[j]] \in DOMAIN Code
        /\ \A id \in 1..Len(md) : md[id].indirect \/ md[id].parent # 0
    BY <1>0 DEF AtOK
  <2> HIDE DEF st, md, rn
  <2> QED BY <1>1, <1>2, <1>4, <1>5, <2>1, AtPush
<1>8. GoesOn(f, Append(st, Len(md) + 1), rn) BY <1>2 DEF GoesOn
<1> QED BY <1>0, <1>2, <1>3, <1>5, <1>6, <1>7, <1>8 DEF ThreadOK

\* A return from outside the module.
LEMMA ReturnInThread ==
  ASSUME TraceTypeOK, NEW t \in Threads, ThreadOK(t), ReturnIn(t)
  PROVE  ThreadOK(t)'
<1> DEFINE st == stack[t]
           md == made[t]
           rn == ran[t]
           a2 == resume[t][top(t)]
<1>0. /\ Core(callsIn(db[t]), st, md, rn, "no") /\ AtOK(0, st, md, resume[t], rn)
      /\ SegsOK(db[t]) /\ TraceIs(traceIn(db[t]), rn)
      /\ at[t] = 0 /\ ended = "no" /\ st # <<>>
  BY DEF ThreadOK, ReturnIn
<1>1. /\ Len(rn) \in Nat /\ Len(st) \in Nat /\ Len(st) > 0 /\ top(t) = st[Len(st)]
      /\ \A id \in 1..Len(md) : Begin(md[id]) \in Nat
  BY <1>0, ThreadFacts
<1>2. /\ \A id \in 1..Len(md) : Begin(md[id]) <= Len(rn)
      /\ \A i \in 1..Len(rn) : Code[rn[i].pc].k \in {"plain", "branch"} =>
           i < Len(rn) /\ rn[i + 1].call = rn[i].call
      /\ version = 6 => \A a : FlowIs(flowIn(db[t]), a, rn)
  BY <1>0, Outside
<1>3. /\ at'[t] = a2 /\ stack'[t] = st /\ made'[t] = md
      /\ resume'[t] = resume[t] /\ ran'[t] = rn /\ db'[t] = db[t]
      /\ ended' = "no" /\ version' = version
  BY <1>0 DEF ReturnIn, TraceTypeOK
<1>4. a2 \in DOMAIN Code /\ a2 # 0
  <2>1. Len(st) \in 1..Len(st) BY <1>1
  <2>2. a2 \in DOMAIN Code BY <1>0, <1>1, <2>1 DEF AtOK
  <2> QED BY <2>2, TraceAssumption
<1> HIDE DEF a2
<1>5. AtOK(a2, st, md, resume[t], rn)
  <2>1. \A id \in 1..Len(md) : Begin(md[id]) # Len(rn) + 1 BY <1>1, <1>2
  <2> QED BY <1>0, <1>4, <2>1 DEF AtOK
<1>6. GoesOn(a2, st, rn) BY <1>2 DEF GoesOn
<1> QED BY <1>0, <1>2, <1>3, <1>5, <1>6 DEF ThreadOK

\* A new segment.
LEMMA RollThread ==
  ASSUME TraceTypeOK, NEW t \in Threads, ThreadOK(t), RollSegment(t)
  PROVE  ThreadOK(t)'
<1>1. /\ at'[t] = at[t] /\ stack'[t] = stack[t] /\ made'[t] = made[t] /\ resume'[t] = resume[t]
      /\ ran'[t] = ran[t] /\ ended' = ended /\ version' = version
      /\ db'[t] = Append(db[t], Segment) /\ db[t][Len(db[t])].trace # <<>>
  BY DEF RollSegment, guestVars, TraceTypeOK
<1>2. SegsOK(db[t]) BY DEF ThreadOK
<1>3. /\ SegsOK(db'[t]) /\ traceIn(db'[t]) = traceIn(db[t]) /\ callsIn(db'[t]) = callsIn(db[t])
      /\ flowIn(db'[t]) = flowIn(db[t])
  BY <1>1, <1>2, RolledOK
<1> QED BY <1>1, <1>3 DEF ThreadOK

\* The row of a call that never returned.
LEMMA OpenRowIs ==
  ASSUME NEW t \in Threads, ThreadOK(t), NEW id \in 1..Len(made[t]), NEW how \in {"ended", "cut"}
  PROVE  /\ OpenRow(t, id, how) \in CallRow
         /\ FrameOf(made[t], OpenRow(t, id, how))
         /\ OpenRow(t, id, how).callId = id
         /\ \/ how = "cut" /\ OpenRow(t, id, how).exitTraceId = 0
            \/ /\ how = "ended" /\ OpenRow(t, id, how).noReturn
               /\ OpenRow(t, id, how).exitTraceId = Len(ran[t])
<1>1. CASE how = "cut"
  <2>1. PICK no \in BOOLEAN : no = FALSE OBVIOUS
  <2>2. PICK exit \in Nat : exit = 0 OBVIOUS
  <2>3. /\ FrameRow(t, id, exit, no) \in CallRow
        /\ FrameOf(made[t], FrameRow(t, id, exit, no))
        /\ FrameRow(t, id, exit, no).callId = id
        /\ FrameRow(t, id, exit, no).exitTraceId = exit
        /\ FrameRow(t, id, exit, no).noReturn = no
    BY FrameRowIs
  <2>4. OpenRow(t, id, how) = FrameRow(t, id, exit, no) BY <1>1, <2>1, <2>2, Zenon DEF OpenRow
  <2> QED BY <1>1, <2>2, <2>3, <2>4
<1>2. CASE how = "ended"
  <2>1. PICK no \in BOOLEAN : no = TRUE OBVIOUS
  <2>2. PICK exit \in Nat : exit = Len(ran[t])
    <3>1. Len(ran[t]) \in Nat BY ThreadFacts
    <3> QED BY <3>1
  <2>3. /\ FrameRow(t, id, exit, no) \in CallRow
        /\ FrameOf(made[t], FrameRow(t, id, exit, no))
        /\ FrameRow(t, id, exit, no).callId = id
        /\ FrameRow(t, id, exit, no).exitTraceId = exit
        /\ FrameRow(t, id, exit, no).noReturn = no
    BY FrameRowIs
  <2>4. OpenRow(t, id, how) = FrameRow(t, id, exit, no)
    <3>1. how # "cut" BY <1>2
    <3> QED BY <3>1, <2>1, <2>2, Zenon DEF OpenRow, RowCount
  <2>5. OpenRow(t, id, how).noReturn BY <2>1, <2>3, <2>4, Zenon
  <2> QED BY <1>2, <2>2, <2>3, <2>4, <2>5
<1> QED BY <1>1, <1>2

\* The process ends: the rows of the calls in progress are written.
LEMMA EndThread ==
  ASSUME TraceTypeOK, NEW t \in Threads, ThreadOK(t), NEW how \in {"ended", "cut"}, EndTrace(how)
  PROVE  ThreadOK(t)'
<1> DEFINE st == stack[t]
           md == made[t]
           rn == ran[t]
           n == Len(rn)
           K == callsIn(db[t])
           open(j) == OpenRow(t, st[j], how)
           calls == [i \in 1..Len(st) |-> OpenRow(t, st[Len(st) + 1 - i], how)]
           K2 == K \cup rowsOf(calls)
<1>0. /\ Core(K, st, md, rn, "no") /\ AtOK(at[t], st, md, resume[t], rn)
      /\ GoesOn(at[t], st, rn)
      /\ SegsOK(db[t]) /\ TraceIs(traceIn(db[t]), rn) /\ ended = "no"
      /\ version = 6 => FlowIs(flowIn(db[t]), at[t], rn)
  BY DEF ThreadOK, EndTrace
<1>1. /\ TreeOK(md) /\ StackOK(st, md) /\ rn \in Seq(RanSet) /\ Begun(md, rn)
      /\ RowsOK(K, st, md, n, "no") /\ OwnOK(K, st, md, rn)
  BY <1>0 DEF Core
<1>2. /\ Len(st) \in Nat /\ n \in Nat /\ Len(md) \in Nat
      /\ \A id \in 1..Len(md) : md[id] \in CallSet /\ Begin(md[id]) <= n + 1
      /\ \A j \in 1..Len(st) : st[j] \in 1..Len(md)
  BY <1>1, ThreadFacts DEF StackOK
<1>3. \A j \in 1..Len(st) :
        /\ open(j) \in CallRow /\ FrameOf(md, open(j)) /\ open(j).callId = st[j]
        /\ \/ how = "cut" /\ open(j).exitTraceId = 0
           \/ how = "ended" /\ open(j).noReturn /\ open(j).exitTraceId = n
  BY <1>2, OpenRowIs
<1>4. \A i \in 1..Len(st) : Len(st) + 1 - i \in 1..Len(st) /\ calls[i] = open(Len(st) + 1 - i)
  BY <1>2
<1>5. calls \in Seq(CallRow)
  <2>1. \A i \in 1..Len(st) : calls[i] \in CallRow BY <1>3, <1>4
  <2>2. calls \in [1..Len(st) -> CallRow] BY <2>1
  <2>3. \A k \in Nat : \A s \in [1..k -> CallRow] : s \in Seq(CallRow) BY SeqDef
  <2> HIDE DEF calls
  <2> QED BY <1>2, <2>2, <2>3
<1>6. Len(calls) = Len(st) BY <1>2
<1> HIDE DEF calls, open
<1>7. /\ \A x \in rowsOf(calls) : \E j \in 1..Len(st) : x = open(j)
      /\ \A j \in 1..Len(st) : open(j) \in rowsOf(calls)
  <2>1. ASSUME NEW x \in rowsOf(calls) PROVE \E j \in 1..Len(st) : x = open(j)
    <3>1. PICK i \in 1..Len(st) : x = calls[i] BY <2>1, <1>6 DEF rowsOf
    <3> QED BY <3>1, <1>4
  <2>2. ASSUME NEW j \in 1..Len(st) PROVE open(j) \in rowsOf(calls)
    <3>1. /\ Len(st) + 1 - j \in 1..Len(st) /\ Len(st) + 1 - (Len(st) + 1 - j) = j BY <1>2
    <3>2. calls[Len(st) + 1 - j] = open(j) BY <3>1, <1>4
    <3> QED BY <3>1, <3>2, <1>6 DEF rowsOf
  <2> QED BY <2>1, <2>2
<1>8. /\ at'[t] = at[t] /\ stack'[t] = st /\ made'[t] = md /\ resume'[t] = resume[t]
      /\ ran'[t] = rn /\ ended' = how /\ version' = version
      /\ db'[t] = [db[t] EXCEPT ![Len(db[t])].calls = @ \o calls]
  BY DEF EndTrace, guestVars, TraceTypeOK, calls
<1>9. /\ SegsOK(db'[t]) /\ traceIn(db'[t]) = traceIn(db[t]) /\ flowIn(db'[t]) = flowIn(db[t])
      /\ callsIn(db'[t]) = K2
  BY <1>0, <1>5, <1>8, ClosedOK
<1> HIDE DEF K2
<1>10. \A r \in K : ~On(st, r.callId) BY <1>1 DEF RowsOK
<1>11. \A x \in rowsOf(calls) : On(st, x.callId) BY <1>3, <1>7 DEF On
<1>12. RowsOK(K2, st, md, n, how)
  <2>1. \A r \in K2 : FrameOf(md, r) BY <1>1, <1>3, <1>7 DEF RowsOK, K2
  <2>2. \A r \in K2 : ~On(st, r.callId) => r \in K BY <1>11 DEF K2
  <2>3. \A r \in K2 : ~On(st, r.callId) =>
          ~r.noReturn /\ Begin(md[r.callId]) < r.exitTraceId /\ r.exitTraceId <= n + 1
    BY <1>1, <2>2 DEF RowsOK
  <2>4. \A r \in K2 : On(st, r.callId) => \/ how = "cut" /\ r.exitTraceId = 0
                                          \/ how = "ended" /\ r.noReturn /\ r.exitTraceId = n
    BY <1>3, <1>7, <1>10 DEF K2
  <2>5. ASSUME NEW r \in K2, NEW q \in K2, r.callId = q.callId PROVE r = q
    <3>1. CASE ~On(st, r.callId) BY <3>1, <2>2, <2>5, <1>1 DEF RowsOK
    <3>2. CASE On(st, r.callId)
      <4>1. r \in rowsOf(calls) /\ q \in rowsOf(calls) BY <3>2, <2>5, <1>10 DEF K2
      <4>2. PICK i \in 1..Len(st), j \in 1..Len(st) : r = open(i) /\ q = open(j) BY <4>1, <1>7
      <4>3. st[i] = st[j] BY <4>2, <2>5, <1>3
      <4> QED BY <4>2, <4>3 DEF open
    <3> QED BY <3>1, <3>2
  <2>6. ASSUME NEW id \in 1..Len(md) PROVE \E r \in K2 : r.callId = id
    <3>1. CASE On(st, id)
      <4>1. PICK j \in 1..Len(st) : st[j] = id BY <3>1 DEF On
      <4>2. open(j) \in K2 /\ open(j).callId = id BY <4>1, <1>3, <1>7 DEF K2
      <4> QED BY <4>2
    <3>2. CASE ~On(st, id) BY <3>2, <1>1 DEF RowsOK, K2
    <3> QED BY <3>1, <3>2
  <2> QED BY <2>1, <2>3, <2>4, <2>5, <2>6 DEF RowsOK
<1>13. \A i, id : Span(K2, st, md, n, id, i) <=> Span(K, st, md, n, id, i)
  <2>1. \A r \in K2 : ~On(st, r.callId) => r \in K BY <1>11 DEF K2
  <2>2. K \subseteq K2 BY DEF K2
  <2> QED BY <2>1, <2>2 DEF Span
<1>14. OwnOK(K2, st, md, rn) BY <1>1, <1>13 DEF OwnOK
<1>15. Core(K2, st, md, rn, how) BY <1>1, <1>12, <1>14 DEF Core
<1>16. ASSUME NEW id \in 1..Len(md) PROVE md[id].enter <= n
  <2>1. md[id].enter \in Nat /\ Begin(md[id]) \in Nat
    BY <1>2, BeginNat DEF CallSet
  <2>2. md[id].enter <= Begin(md[id]) BY <2>1 DEF Begin
  <2>3. SUFFICES ASSUME md[id].enter = n + 1 PROVE FALSE BY <2>1, <2>2, <1>2
  <2>4. Begin(md[id]) = n + 1 BY <2>1, <2>2, <2>3, <1>2
  <2>5. md[id].indirect BY <2>1, <2>3, <2>4, <1>2 DEF Begin
  <2>6. st # <<>> /\ id = st[Len(st)] BY <1>0, <2>4 DEF AtOK
  <2>7. md[id].enter <= n BY <2>5, <2>6 DEF EndTrace, top, RowCount
  <2> QED BY <2>3, <2>7, <1>2
<1> QED BY <1>0, <1>8, <1>9, <1>15, <1>16 DEF ThreadOK

-----------------------------------------------------------------------------
(***************************************************************************)
(* The invariant is inductive.                                             *)
(***************************************************************************)

\* A step of a thread changes that thread only.
Alone(t) ==
  /\ \A u \in Threads \ {t} :
       /\ at'[u] = at[u] /\ stack'[u] = stack[u] /\ made'[u] = made[u]
       /\ resume'[u] = resume[u] /\ ran'[u] = ran[u] /\ db'[u] = db[u]
  /\ ended' = ended /\ version' = version /\ cover' = cover

\* Everything else of the invariant after a step of one thread.
LEMMA AloneOK ==
  ASSUME TraceInv, NEW t \in Threads, Alone(t), TraceTypeOK', ThreadOK(t)'
  PROVE  TraceInv'
<1>1. \A u \in Threads : ThreadOK(u)'
  <2> TAKE u \in Threads
  <2>1. CASE u = t BY <2>1
  <2>2. CASE u # t
    <3>1. /\ at'[u] = at[u] /\ stack'[u] = stack[u] /\ made'[u] = made[u]
          /\ resume'[u] = resume[u] /\ ran'[u] = ran[u] /\ db'[u] = db[u]
          /\ ended' = ended /\ version' = version
      BY <2>2 DEF Alone
    <3>2. ThreadOK(u) BY DEF TraceInv
    <3> QED BY <3>1, <3>2, ThreadStays
  <2> QED BY <2>1, <2>2
<1>2. CoverOK' BY DEF Alone, TraceInv, CoverOK
<1> QED BY <1>1, <1>2 DEF TraceInv

\* The components of a thread stay functions over the threads.
LEMMA RecordType ==
  ASSUME TraceTypeOK, NEW t \in Threads, NEW to, NEW calls, Record(t, to, calls)
  PROVE  /\ DOMAIN ran' = Threads /\ ran' = [u \in Threads |-> ran'[u]]
         /\ DOMAIN db' = Threads /\ db' = [u \in Threads |-> db'[u]]
         /\ \A u \in Threads \ {t} : ran'[u] = ran[u] /\ db'[u] = db[u]
         /\ ended' = ended /\ version' = version /\ cover' = cover
<1> DEFINE r == Append(ran[t], [call |-> top(t), pc |-> at[t]])
           d == written(db[t], [traceId |-> RowCount(t) + 1, pc |-> at[t]], calls,
                  IF version < 6 \/ Code[at[t]].k = "plain" THEN <<>>
                  ELSE <<[traceId |-> RowCount(t) + 1, sourcePc |-> at[t],
                          targetPc |-> IF to = 0 THEN External ELSE to]>>)
<1>1. ran' = [ran EXCEPT ![t] = r] /\ db' = [db EXCEPT ![t] = d]
  BY DEF Record
<1>2. ended' = ended /\ version' = version /\ cover' = cover BY DEF Record
<1> HIDE DEF r, d
<1> QED BY <1>1, <1>2 DEF TraceTypeOK

\* Every instruction keeps the invariant.
LEMMA ExecuteInv ==
  ASSUME TraceInv, NEW t \in Threads, Execute(t)
  PROVE  TraceInv'
<1>1. TraceTypeOK /\ ThreadOK(t) /\ ended = "no" /\ at[t] # 0 BY DEF TraceInv, Execute
<1>a. at \in [Threads -> Nat] /\ AtOK(at[t], stack[t], made[t], resume[t], ran[t])
      /\ StackOK(stack[t], made[t]) /\ TreeOK(made[t])
  BY <1>1 DEF TraceTypeOK, ThreadOK, Core
<1>b. at[t] \in DOMAIN Code BY <1>1, <1>a DEF AtOK
<1>2. CASE GoOn(t)
  <2>1. PICK q \in (IF Code[at[t]].k = "plain" THEN {at[t] + 1} ELSE Code[at[t]].to) :
          at' = [at EXCEPT ![t] = q] /\ Record(t, q, <<>>)
    BY <1>2 DEF GoOn
  <2>2. q \in Nat BY <1>a, <1>b, <2>1, TraceAssumption
  <2>3. UNCHANGED <<stack, made, resume>> BY <1>2 DEF GoOn
  <2>4. at' \in [Threads -> Nat] /\ \A u \in Threads \ {t} : at'[u] = at[u]
    BY <1>a, <2>1, <2>2
  <2>5. TraceTypeOK' BY <1>1, <2>1, <2>3, <2>4, RecordType DEF TraceTypeOK
  <2>6. Alone(t) BY <1>1, <2>1, <2>3, <2>4, RecordType DEF Alone
  <2> QED BY <1>1, <1>2, <2>5, <2>6, GoOnThread, AloneOK
<1>3. CASE CallOn(t)
  <2>1. PICK f \in Code[at[t]].to :
          Enter(t, f, RuntimeBase + at[t], FALSE, RowCount(t) + 1) /\ Record(t, f, <<>>)
    BY <1>3 DEF CallOn
  <2>2. f \in Nat BY <1>b, <2>1, TraceAssumption
  <2>3. at' \in [Threads -> Nat] /\ \A u \in Threads \ {t} : at'[u] = at[u]
    BY <1>a, <2>1, <2>2 DEF Enter
  <2>4. /\ DOMAIN stack' = Threads /\ stack' = [u \in Threads |-> stack'[u]]
        /\ \A u \in Threads \ {t} : stack'[u] = stack[u]
    BY <1>1, <2>1 DEF Enter, TraceTypeOK
  <2>5. /\ DOMAIN made' = Threads /\ made' = [u \in Threads |-> made'[u]]
        /\ \A u \in Threads \ {t} : made'[u] = made[u]
    BY <1>1, <2>1 DEF Enter, TraceTypeOK
  <2>6. /\ DOMAIN resume' = Threads /\ resume' = [u \in Threads |-> resume'[u]]
        /\ \A u \in Threads \ {t} : resume'[u] = resume[u]
    BY <1>1, <1>3 DEF CallOn, TraceTypeOK
  <2>7. TraceTypeOK' BY <1>1, <2>1, <2>3, <2>4, <2>5, <2>6, RecordType DEF TraceTypeOK
  <2>8. Alone(t) BY <1>1, <2>1, <2>3, <2>4, <2>5, <2>6, RecordType DEF Alone
  <2> QED BY <1>1, <1>3, <2>7, <2>8, CallOnThread, AloneOK
<1>4. CASE CallOut(t)
  <2>1. at' = [at EXCEPT ![t] = 0] /\ Record(t, 0, <<>>) BY <1>4 DEF CallOut
  <2>2. UNCHANGED <<stack, made>> BY <1>4 DEF CallOut
  <2>3. at' \in [Threads -> Nat] /\ \A u \in Threads \ {t} : at'[u] = at[u] BY <1>a, <2>1
  <2>4. /\ DOMAIN resume' = Threads /\ resume' = [u \in Threads |-> resume'[u]]
        /\ \A u \in Threads \ {t} : resume'[u] = resume[u]
    BY <1>1, <1>4 DEF CallOut, TraceTypeOK
  <2>5. TraceTypeOK' BY <1>1, <2>1, <2>2, <2>3, <2>4, RecordType DEF TraceTypeOK
  <2>6. Alone(t) BY <1>1, <2>1, <2>2, <2>3, <2>4, RecordType DEF Alone
  <2> QED BY <1>1, <1>4, <2>5, <2>6, CallOutThread, AloneOK
<1>5. CASE Return(t)
  <2> DEFINE to == IF made[t][top(t)].indirect THEN 0 ELSE resume[t][made[t][top(t)].parent]
             row == FrameRow(t, top(t), RowCount(t) + 2, FALSE)
  <2>1. at' = [at EXCEPT ![t] = to] /\ Record(t, to, <<row>>)
        /\ stack' = [stack EXCEPT ![t] = SubSeq(@, 1, Len(@) - 1)] /\ UNCHANGED <<made, resume>>
    BY <1>5 DEF Return
  <2>2. ThreadOK(t)' BY <1>1, <1>5, ReturnThread
  <2>3. /\ DOMAIN at' = Threads /\ at' = [u \in Threads |-> at'[u]]
        /\ \A u \in Threads \ {t} : at'[u] = at[u]
    <3> HIDE DEF to
    <3> QED BY <1>a, <2>1
  <2>4. at'[t] \in Nat
    <3>1. AtOK(at'[t], stack'[t], made'[t], resume'[t], ran'[t]) BY <2>2 DEF ThreadOK
    <3>2. at'[t] = 0 \/ at'[t] \in DOMAIN Code BY <3>1 DEF AtOK
    <3> QED BY <3>2, TraceAssumption
  <2> HIDE DEF to, row
  <2>5. at' \in [Threads -> Nat]
    <3>1. \A u \in Threads : at'[u] \in Nat BY <1>a, <2>3, <2>4
    <3> QED BY <2>3, <3>1
  <2>6. /\ DOMAIN stack' = Threads /\ stack' = [u \in Threads |-> stack'[u]]
        /\ \A u \in Threads \ {t} : stack'[u] = stack[u]
    BY <1>1, <2>1 DEF TraceTypeOK
  <2>7. TraceTypeOK' BY <1>1, <2>1, <2>5, <2>6, RecordType DEF TraceTypeOK
  <2>8. Alone(t) BY <1>1, <2>1, <2>3, <2>6, RecordType DEF Alone
  <2> QED BY <2>2, <2>7, <2>8, AloneOK
<1> QED BY <1>2, <1>3, <1>4, <1>5 DEF Execute

\* The empty database satisfies the invariant.
LEMMA TraceInvInit == TraceInit => TraceInv
<1> SUFFICES ASSUME TraceInit PROVE TraceInv OBVIOUS
<1>1. TraceTypeOK BY TraceAssumption DEF TraceInit, TraceTypeOK
<1>2. ASSUME NEW t \in Threads PROVE ThreadOK(t)
  <2>1. /\ at[t] = 0 /\ stack[t] = <<>> /\ made[t] = <<>> /\ resume[t] = <<>> /\ ran[t] = <<>>
        /\ db[t] = <<Segment>> /\ ended = "no"
    BY DEF TraceInit
  <2>2. Len(<<>>) = 0 /\ \A S : <<>> \in Seq(S) OBVIOUS
  <2>3. 1..0 = {} OBVIOUS
  <2>4. Segment \in SegmentSet BY <2>2 DEF Segment, SegmentSet
  <2>5. /\ <<Segment>> \in Seq(SegmentSet) /\ Len(<<Segment>>) = 1 /\ <<Segment>>[1] = Segment
        /\ DOMAIN <<Segment>> = 1..1
    BY <2>4
  <2>6. Segment.trace = <<>> /\ Segment.calls = <<>> /\ Segment.flow = <<>> BY DEF Segment
  <2>7. rowsOf(<<>>) = {} /\ ascending(<<>>) BY <2>2, <2>3 DEF rowsOf, ascending
  <2>8. traceIn(<<Segment>>) = {} /\ callsIn(<<Segment>>) = {} /\ flowIn(<<Segment>>) = {}
    BY <2>5, <2>6, <2>7 DEF traceIn, callsIn, flowIn
  <2>9. SegsOK(<<Segment>>)
    <3>1. \A s \in 1..1 : s = 1 OBVIOUS
    <3> QED BY <2>5, <2>6, <2>7, <3>1 DEF SegsOK
  <2>10. Core({}, <<>>, <<>>, <<>>, "no")
    BY <2>2, <2>3 DEF Core, TreeOK, StackOK, Begun, RowsOK, OwnOK
  <2>11. AtOK(0, <<>>, <<>>, <<>>, <<>>) BY <2>2, <2>3 DEF AtOK
  <2>12. GoesOn(0, <<>>, <<>>) BY <2>2, <2>3 DEF GoesOn
  <2>13. TraceIs({}, <<>>) BY <2>2, <2>3 DEF TraceIs
  <2>14. FlowIs({}, 0, <<>>) BY <2>2, <2>3 DEF FlowIs
  <2> QED BY <2>1, <2>8, <2>9, <2>10, <2>11, <2>12, <2>13, <2>14 DEF ThreadOK
<1>3. CoverOK BY DEF TraceInit, CoverOK, NoCover
<1> QED BY <1>1, <1>2, <1>3 DEF TraceInv

\* Every other step of the recorded process keeps the invariant.
LEMMA CallInInv == ASSUME TraceInv, NEW t \in Threads, NEW f \in DOMAIN Code, CallIn(t, f)
                   PROVE  TraceInv'
<1>1. TraceTypeOK /\ ThreadOK(t) /\ f \in Nat BY TraceAssumption DEF TraceInv
<1>2. /\ Enter(t, f, External, TRUE, RowCount(t) + 1)
      /\ resume' = [resume EXCEPT ![t] = Append(@, 0)]
      /\ UNCHANGED <<version, ran, db, ended, cover>>
  BY DEF CallIn
<1>3. at' \in [Threads -> Nat] /\ \A u \in Threads \ {t} : at'[u] = at[u]
  BY <1>1, <1>2 DEF Enter, TraceTypeOK
<1>4. /\ DOMAIN stack' = Threads /\ stack' = [u \in Threads |-> stack'[u]]
      /\ \A u \in Threads \ {t} : stack'[u] = stack[u]
  BY <1>1, <1>2 DEF Enter, TraceTypeOK
<1>5. /\ DOMAIN made' = Threads /\ made' = [u \in Threads |-> made'[u]]
      /\ \A u \in Threads \ {t} : made'[u] = made[u]
  BY <1>1, <1>2 DEF Enter, TraceTypeOK
<1>6. /\ DOMAIN resume' = Threads /\ resume' = [u \in Threads |-> resume'[u]]
      /\ \A u \in Threads \ {t} : resume'[u] = resume[u]
  BY <1>1, <1>2 DEF TraceTypeOK
<1>7. TraceTypeOK' BY <1>1, <1>2, <1>3, <1>4, <1>5, <1>6 DEF TraceTypeOK
<1>8. Alone(t) BY <1>2, <1>3, <1>4, <1>5, <1>6 DEF Alone
<1> QED BY <1>1, <1>7, <1>8, CallInThread, AloneOK

\* A return from outside.
LEMMA ReturnInInv == ASSUME TraceInv, NEW t \in Threads, ReturnIn(t) PROVE TraceInv'
<1>1. TraceTypeOK /\ ThreadOK(t) BY DEF TraceInv
<1>2. ThreadOK(t)' BY <1>1, ReturnInThread
<1>3. /\ at' = [at EXCEPT ![t] = resume[t][top(t)]]
      /\ UNCHANGED <<version, stack, made, resume, ran, db, ended, cover>>
  BY DEF ReturnIn
<1>4. at'[t] \in Nat
  <2>1. AtOK(at'[t], stack'[t], made'[t], resume'[t], ran'[t]) BY <1>2 DEF ThreadOK
  <2>2. at'[t] = 0 \/ at'[t] \in DOMAIN Code BY <2>1 DEF AtOK
  <2> QED BY <2>2, TraceAssumption
<1>5. at' \in [Threads -> Nat] /\ \A u \in Threads \ {t} : at'[u] = at[u]
  BY <1>1, <1>3, <1>4 DEF TraceTypeOK
<1>6. TraceTypeOK' BY <1>1, <1>3, <1>5 DEF TraceTypeOK
<1>7. Alone(t) BY <1>3, <1>5 DEF Alone
<1> QED BY <1>2, <1>6, <1>7, AloneOK

\* A new segment.
LEMMA RollInv == ASSUME TraceInv, NEW t \in Threads, RollSegment(t) PROVE TraceInv'
<1>1. TraceTypeOK /\ ThreadOK(t) BY DEF TraceInv
<1>2. db' = [db EXCEPT ![t] = Append(@, Segment)] /\ UNCHANGED <<version, guestVars, ended, cover>>
  BY DEF RollSegment
<1>3. /\ DOMAIN db' = Threads /\ db' = [u \in Threads |-> db'[u]]
      /\ \A u \in Threads \ {t} : db'[u] = db[u]
  BY <1>1, <1>2 DEF TraceTypeOK
<1>4. TraceTypeOK' BY <1>1, <1>2, <1>3 DEF TraceTypeOK, guestVars
<1>5. Alone(t) BY <1>2, <1>3 DEF Alone, guestVars
<1> QED BY <1>1, <1>4, <1>5, RollThread, AloneOK

\* The end of the process.
LEMMA EndInv == ASSUME TraceInv, NEW how \in {"ended", "cut"}, EndTrace(how) PROVE TraceInv'
<1>1. TraceTypeOK /\ \A t \in Threads : ThreadOK(t) BY DEF TraceInv
<1>2. \A t \in Threads : ThreadOK(t)' BY <1>1, EndThread
<1>3. /\ ended' = how /\ UNCHANGED <<version, guestVars, cover>>
      /\ DOMAIN db' = Threads /\ db' = [u \in Threads |-> db'[u]]
  BY DEF EndTrace
<1>4. TraceTypeOK' BY <1>1, <1>3 DEF TraceTypeOK, guestVars
<1>5. CoverOK' BY <1>3 DEF TraceInv, CoverOK
<1> QED BY <1>2, <1>4, <1>5 DEF TraceInv

\* Reading changes nothing that was recorded.
LEMMA ReadInv ==
  ASSUME TraceInv, UNCHANGED <<version, guestVars, db, ended>>, CoverOK'
  PROVE  TraceInv'
<1>1. TraceTypeOK' BY DEF TraceInv, TraceTypeOK, guestVars
<1>2. \A t \in Threads : ThreadOK(t)'
  <2> TAKE t \in Threads
  <2>1. ThreadOK(t) BY DEF TraceInv
  <2> QED BY <2>1, ThreadStays DEF guestVars
<1> QED BY <1>1, <1>2 DEF TraceInv

\* The invariant is inductive.
LEMMA TraceInvNext == TraceInv /\ [TraceNext]_traceVars => TraceInv'
<1> SUFFICES ASSUME TraceInv, [TraceNext]_traceVars PROVE TraceInv' OBVIOUS
<1>1. ASSUME NEW t \in Threads, Execute(t) PROVE TraceInv' BY <1>1, ExecuteInv
<1>2. ASSUME NEW t \in Threads, ReturnIn(t) PROVE TraceInv' BY <1>2, ReturnInInv
<1>3. ASSUME NEW t \in Threads, RollSegment(t) PROVE TraceInv' BY <1>3, RollInv
<1>4. ASSUME NEW t \in Threads, NEW p \in DOMAIN Code, NEW f \in Code[p].to, CallIn(t, f)
      PROVE  TraceInv'
  <2>1. f \in DOMAIN Code BY <1>4, TraceAssumption
  <2> QED BY <1>4, <2>1, CallInInv
<1>5. ASSUME NEW how \in {"ended", "cut"}, EndTrace(how) PROVE TraceInv' BY <1>5, EndInv
<1>6. ASSUME NEW sel \in Selections, Decompile(sel) PROVE TraceInv'
  <2>1. UNCHANGED <<version, guestVars, db, ended>> /\ ended # "no" /\ cover' = load(sel)
    BY <1>6 DEF Decompile
  <2>2. load(sel).state \in {"error", "loaded"} /\ load(sel).selection = sel BY DEF load
  <2>3. CoverOK' BY <2>1, <2>2 DEF CoverOK
  <2> QED BY <2>1, <2>3, ReadInv
<1>7. ASSUME HandOver PROVE TraceInv'
  <2> DEFINE s == IF cover.invocations = {} THEN "no invocation"
                  ELSE IF ~contains(cover.selection.functionTarget) THEN "not covered" ELSE "lifting"
  <2>1. UNCHANGED <<version, guestVars, db, ended>> /\ cover.state = "loaded"
        /\ cover' = [cover EXCEPT !.state = s]
    BY <1>7 DEF HandOver
  <2>2. cover'.state \in {cover.state, s} /\ cover'.selection = cover.selection
    <3> HIDE DEF s
    <3> QED BY <2>1
  <2>3. s \in {"no invocation", "not covered", "lifting"} OBVIOUS
  <2> HIDE DEF s
  <2>4. CoverOK' BY <2>1, <2>2, <2>3 DEF TraceInv, CoverOK
  <2> QED BY <2>1, <2>4, ReadInv
<1>8. ASSUME UNCHANGED traceVars PROVE TraceInv'
  <2>1. UNCHANGED <<version, guestVars, db, ended>> /\ cover' = cover
    BY <1>8 DEF traceVars, guestVars
  <2>2. CoverOK' BY <2>1 DEF TraceInv, CoverOK
  <2> QED BY <2>1, <2>2, ReadInv
<1> QED BY <1>1, <1>2, <1>3, <1>4, <1>5, <1>6, <1>7, <1>8 DEF TraceNext

\* What was recorded is what was executed: the rows of every thread, its calls
\* and where each goes on.
THEOREM RecordedExactly == TraceSpec => []TraceInv
<1> QED BY TraceInvInit, TraceInvNext, PTL DEF TraceSpec

-----------------------------------------------------------------------------
(***************************************************************************)
(* What the reader computes from the rows.                                 *)
(***************************************************************************)

\* The rows of a thread's calls once the process has ended.
LEMMA Frames ==
  ASSUME TraceInv, ended # "no", NEW t \in Threads
  PROVE  /\ readCallGraph(t) = callsIn(db[t])
         /\ ended \in {"ended", "cut"}
         /\ Core(callsIn(db[t]), stack[t], made[t], ran[t], ended)
         /\ RowsOK(callsIn(db[t]), stack[t], made[t], Len(ran[t]), ended)
         /\ Len(made[t]) \in Nat /\ Len(ran[t]) \in Nat
         /\ \A id \in 1..Len(made[t]) : \E r \in readCallGraph(t) : r.callId = id
         /\ \A r \in readCallGraph(t) : FrameOf(made[t], r)
         /\ \A r, q \in readCallGraph(t) : r.callId = q.callId => r = q
<1>1. ThreadOK(t) /\ ended \in {"ended", "cut"} BY DEF TraceInv, TraceTypeOK
<1>2. readCallGraph(t) = callsIn(db[t]) BY DEF readCallGraph, callsIn
<1>3. Core(callsIn(db[t]), stack[t], made[t], ran[t], ended) BY <1>1 DEF ThreadOK
<1>4. RowsOK(callsIn(db[t]), stack[t], made[t], Len(ran[t]), ended) BY <1>3 DEF Core
<1>5. Len(made[t]) \in Nat /\ Len(ran[t]) \in Nat BY <1>1, ThreadFacts
<1> QED BY <1>1, <1>2, <1>3, <1>4, <1>5 DEF RowsOK

\* The parents of a row are those of its call.
LEMMA ChildIsUnder ==
  ASSUME TraceInv, ended # "no", NEW t \in Threads,
         NEW child \in readCallGraph(t), NEW parent \in readCallGraph(t)
  PROVE  childOf(child, parent, readCallGraph(t)) <=>
           Under(made[t], child.parentCallId, parent.callId)
<1> DEFINE frames == readCallGraph(t)
           md == made[t]
           ids == {f.callId : f \in frames} \cup {f.parentCallId : f \in frames}
<1>1. /\ Len(md) \in Nat
      /\ \A id \in 1..Len(md) : \E r \in frames : r.callId = id
      /\ \A r \in frames : FrameOf(md, r)
      /\ TreeOK(md)
  BY Frames DEF Core
<1>2. \A r \in frames : r.callId \in 1..Len(md) /\ r.parentCallId = md[r.callId].parent
  BY <1>1 DEF FrameOf
<1>3. \A id \in 1..Len(md) : md[id].parent \in Nat /\ md[id].parent < id BY <1>1, MadeTyped
<1> HIDE DEF frames, md
<1>4. ids = 0..Len(md)
  <2>1. \A x \in ids : x \in 0..Len(md) BY <1>1, <1>2, <1>3
  <2>2. \A x \in 1..Len(md) : x \in ids BY <1>1
  <2>3. 0 \in ids
    <3>1. child \in frames BY DEF frames
    <3>2. 1 \in 1..Len(md) BY <1>1, <1>2, <3>1
    <3>3. PICK r \in frames : r.callId = 1 BY <1>1, <3>2
    <3>4. md[1].parent = 0 BY <1>3, <3>2
    <3>5. r.parentCallId = 0 BY <1>2, <3>3, <3>4
    <3> QED BY <3>3, <3>5
  <2>4. \A x \in 0..Len(md) : x = 0 \/ x \in 1..Len(md) BY <1>1
  <2> QED BY <2>1, <2>2, <2>3, <2>4
<1>5. \A A : UpClosed(md, A) <=> \A f \in frames : f.callId \in A => f.parentCallId \in A
  <2> SUFFICES ASSUME NEW A
               PROVE  UpClosed(md, A) <=> \A f \in frames : f.callId \in A => f.parentCallId \in A
    OBVIOUS
  <2>1. UpClosed(md, A) => \A f \in frames : f.callId \in A => f.parentCallId \in A
    BY <1>2 DEF UpClosed
  <2>2. ASSUME \A f \in frames : f.callId \in A => f.parentCallId \in A,
               NEW id \in 1..Len(md), id \in A
        PROVE  md[id].parent \in A
    <3>1. PICK r \in frames : r.callId = id BY <1>1
    <3> QED BY <3>1, <2>2, <1>2
  <2> QED BY <2>1, <2>2 DEF UpClosed
<1>6. childOf(child, parent, frames) <=>
        \A A \in SUBSET ids :
          (child.parentCallId \in A /\ \A f \in frames : f.callId \in A => f.parentCallId \in A)
          => parent.callId \in A
  BY DEF childOf
<1> HIDE DEF ids
<1>7. childOf(child, parent, frames) <=> Under(md, child.parentCallId, parent.callId)
  BY <1>4, <1>5, <1>6 DEF Under
<1> QED BY <1>7 DEF frames, md

\* A body interval is the rows executed while the call was in progress; a call
\* cut off has none.
LEMMA BodyIsSpan ==
  ASSUME TraceInv, ended # "no", NEW t \in Threads, NEW r \in readCallGraph(t)
  PROVE  /\ bodyInterval(r) \subseteq Int
         /\ ended = "cut" /\ On(stack[t], r.callId) => bodyInterval(r) = {}
         /\ ~(ended = "cut" /\ On(stack[t], r.callId)) =>
              \A i \in Int : i \in bodyInterval(r) <=>
                Span(callsIn(db[t]), stack[t], made[t], Len(ran[t]), r.callId, i)
<1> DEFINE K == callsIn(db[t])
           st == stack[t]
           md == made[t]
           n == Len(ran[t])
           b == Begin(md[r.callId])
           last == IF r.noReturn \/ r.exitTraceId = 0 THEN r.exitTraceId ELSE r.exitTraceId - 1
<1>1. /\ K = readCallGraph(t) /\ n \in Nat /\ FrameOf(md, r) /\ RowsOK(K, st, md, n, ended)
      /\ TreeOK(md) /\ ended \in {"ended", "cut"}
  BY Frames DEF Core
<1>2. b \in Nat \ {0} /\ r.exitTraceId \in Nat
  <2>1. r.callId \in 1..Len(md) /\ r.exitTraceId \in Nat BY <1>1 DEF FrameOf
  <2>2. md[r.callId] \in CallSet BY <1>1, <2>1, MadeTyped
  <2> QED BY <2>1, <2>2, BeginNat
<1>3. bodyInterval(r) = b..last
  <2>1. r.enterTraceId + (IF r.indirect THEN 0 ELSE 1) = b BY <1>1 DEF FrameOf, Begin
  <2> QED BY <2>1 DEF bodyInterval
<1> HIDE DEF b, K, st, md, n
<1>4. last \in Int BY <1>2
<1>5. bodyInterval(r) \subseteq Int BY <1>2, <1>3, <1>4
<1>6. ASSUME ended = "cut", On(st, r.callId) PROVE bodyInterval(r) = {}
  <2>1. r.exitTraceId = 0 BY <1>1, <1>6 DEF RowsOK
  <2>2. last = 0 BY <2>1
  <2> QED BY <2>2, <1>2, <1>3
<1>7. ASSUME ~(ended = "cut" /\ On(st, r.callId)), NEW i \in Int
      PROVE  i \in bodyInterval(r) <=> Span(K, st, md, n, r.callId, i)
  <2>1. CASE On(st, r.callId)
    <3>1. r.noReturn /\ r.exitTraceId = n BY <1>1, <1>7, <2>1 DEF RowsOK
    <3>2. last = n BY <3>1
    <3>3. Span(K, st, md, n, r.callId, i) <=> b <= i /\ i <= n BY <2>1 DEF Span, b
    <3> QED BY <1>2, <1>1, <1>3, <3>2, <3>3
  <2>2. CASE ~On(st, r.callId)
    <3>1. ~r.noReturn /\ b < r.exitTraceId /\ r.exitTraceId <= n + 1 BY <1>1, <2>2 DEF RowsOK, b
    <3>2. last = r.exitTraceId - 1 BY <3>1, <1>2
    <3>3. \A q \in K : q.callId = r.callId => q = r BY <1>1 DEF RowsOK
    <3>4. r \in K BY <1>1
    <3>5. Span(K, st, md, n, r.callId, i) <=> b <= i /\ i <= n /\ i < r.exitTraceId
      BY <2>2, <3>3, <3>4 DEF Span, b
    <3> QED BY <1>1, <1>2, <1>3, <3>1, <3>2, <3>5
  <2> QED BY <2>1, <2>2
<1> QED BY <1>5, <1>6, <1>7 DEF K, st, md, n

\* The instructions an invocation owns are those it executed itself.
LEMMA OwnedIsRan ==
  ASSUME TraceInv, ended # "no", NEW t \in Threads, NEW r \in readCallGraph(t),
         ~(ended = "cut" /\ On(stack[t], r.callId)), NEW c, c.thread = t, c.frame = r
  PROVE  owned(c) = Ran(<<t, r.callId>>)
<1> DEFINE frames == readCallGraph(t)
           K == callsIn(db[t])
           st == stack[t]
           md == made[t]
           rn == ran[t]
           n == Len(rn)
           id == r.callId
           nested == {f \in frames : f.callId # id /\ childOf(f, r, frames)}
<1>1. /\ K = frames /\ n \in Nat /\ Len(md) \in Nat /\ Core(K, st, md, rn, ended)
      /\ \A x \in 1..Len(md) : \E q \in frames : q.callId = x
      /\ \A q \in frames : FrameOf(md, q)
      /\ ended \in {"ended", "cut"}
  BY Frames
<1>2. TreeOK(md) /\ StackOK(st, md) /\ OwnOK(K, st, md, rn) BY <1>1 DEF Core
<1>3. id \in 1..Len(md) /\ \A q \in frames : q.callId \in 1..Len(md) BY <1>1 DEF FrameOf
<1>4. owned(c) = bodyInterval(r) \ UNION {bodyInterval(f) : f \in nested} BY DEF owned
<1>5. Ran(<<t, id>>) = {i \in 1..n : rn[i].call = id} BY DEF Ran, RowCount
<1>6. \A f \in frames : childOf(f, r, frames) <=> Under(md, f.parentCallId, id)
  BY ChildIsUnder
<1>7. /\ \A f \in frames : bodyInterval(f) \subseteq Int
      /\ \A f \in frames : ended = "cut" /\ On(st, f.callId) => bodyInterval(f) = {}
      /\ \A f \in frames : ~(ended = "cut" /\ On(st, f.callId)) =>
           \A i \in Int : i \in bodyInterval(f) <=> Span(K, st, md, n, f.callId, i)
  BY BodyIsSpan
<1>8. \A f \in frames : f.parentCallId = md[f.callId].parent BY <1>1 DEF FrameOf
<1>9. /\ \A i \in 1..n : rn[i].call \in 1..Len(md) /\ Span(K, st, md, n, rn[i].call, i)
      /\ \A i \in 1..n : \A x \in 1..Len(md) : Span(K, st, md, n, x, i) => Under(md, rn[i].call, x)
  BY <1>2 DEF OwnOK
<1>10. \A x \in 1..Len(md) : md[x].parent \in Nat /\ md[x].parent < x BY <1>2, MadeTyped
<1> HIDE DEF frames, K, st, md, rn, n, nested
<1>11. ASSUME NEW i \in 1..n, rn[i].call = id PROVE i \in owned(c)
  <2>1. i \in Int BY <1>1
  <2>2. i \in bodyInterval(r) BY <1>7, <1>9, <1>11, <2>1 DEF frames, st
  <2>3. ASSUME NEW f \in nested, i \in bodyInterval(f) PROVE FALSE
    <3>1. f \in frames /\ f.callId # id /\ Under(md, f.parentCallId, id)
      BY <1>6 DEF nested
    <3>2. Span(K, st, md, n, f.callId, i) BY <1>7, <2>1, <2>3, <3>1
    <3>3. f.callId \in 1..Len(md) BY <1>3, <3>1 DEF frames
    <3>4. Under(md, id, f.callId) BY <1>9, <1>11, <3>2, <3>3
    <3>5. id \in 0..Len(md) BY <1>1, <1>3
    <3>6. f.callId \in 0..id BY <1>2, <3>4, <3>5, UnderLe
    <3>7. f.parentCallId \in Nat /\ f.parentCallId < f.callId BY <1>8, <1>10, <3>1, <3>3
    <3>8. f.parentCallId \in 0..Len(md) BY <3>7, <3>3, <1>1
    <3>9. id \in 0..f.parentCallId BY <1>2, <3>1, <3>8, UnderLe
    <3> QED BY <3>3, <3>6, <3>7, <3>9, <1>3
  <2> QED BY <1>4, <2>2, <2>3
<1>12. ASSUME NEW i \in owned(c) PROVE i \in 1..n /\ rn[i].call = id
  <2>1. i \in bodyInterval(r) /\ \A f \in nested : i \notin bodyInterval(f) BY <1>4
  <2>2. r \in frames BY DEF frames
  <2>3. i \in Int BY <1>7, <2>1, <2>2
  <2>4. Span(K, st, md, n, id, i) BY <1>7, <2>1, <2>2, <2>3 DEF st
  <2>5. i \in 1..n
    <3>1. md[id] \in CallSet BY <1>2, <1>3, MadeTyped
    <3>2. Begin(md[id]) \in Nat \ {0} BY <3>1, BeginNat
    <3>3. Begin(md[id]) <= i /\ i <= n BY <2>4 DEF Span
    <3> QED BY <3>2, <3>3, <2>3, <1>1
  <2>6. SUFFICES ASSUME rn[i].call # id PROVE FALSE BY <2>5
  <2> DEFINE o == rn[i].call
  <2>7. o \in 1..Len(md) /\ Under(md, o, id) /\ Span(K, st, md, n, o, i)
    BY <1>3, <1>9, <2>4, <2>5
  <2>8. PICK f \in frames : f.callId = o BY <1>1, <2>7
  <2> HIDE DEF o
  <2>9. Under(md, f.parentCallId, id)
    <3>1. o # id BY <2>6 DEF o
    <3>2. Under(md, md[o].parent, id) BY <1>2, <2>7, <3>1, UnderParent
    <3> QED BY <3>2, <2>8, <1>8
  <2>10. f \in nested
    <3>1. childOf(f, r, frames) BY <1>6, <2>8, <2>9
    <3>2. f.callId # id BY <2>6, <2>8 DEF o
    <3> QED BY <3>1, <3>2, <2>8 DEF nested
  <2>11. ~(ended = "cut" /\ On(st, f.callId))
    <3> SUFFICES ASSUME ended = "cut", On(st, o) PROVE FALSE BY <2>8
    <3>1. On(st, id) BY <1>2, <1>3, <2>7, UnderStack
    <3> QED BY <3>1 DEF st
  <2>12. i \in bodyInterval(f) BY <1>7, <2>3, <2>7, <2>8, <2>11
  <2> QED BY <2>1, <2>10, <2>12
<1> QED BY <1>5, <1>11, <1>12

\* A body is empty when the call was cut off or executed nothing.
LEMMA BodyEmpty ==
  ASSUME TraceInv, ended # "no", NEW t \in Threads, NEW r \in readCallGraph(t)
  PROVE  bodyInterval(r) = {} <=> Unfinished(<<t, r.callId>>) \/ Ran(<<t, r.callId>>) = {}
<1> DEFINE K == callsIn(db[t])
           st == stack[t]
           md == made[t]
           rn == ran[t]
           n == Len(rn)
           id == r.callId
           b == Begin(md[id])
<1>1. /\ n \in Nat /\ FrameOf(md, r) /\ Core(K, st, md, rn, ended)
  BY Frames
<1>2. TreeOK(md) /\ StackOK(st, md) /\ OwnOK(K, st, md, rn) /\ Begun(md, rn) BY <1>1 DEF Core
<1>3. id \in 1..Len(md) BY <1>1 DEF FrameOf
<1>4. Ran(<<t, id>>) = {i \in 1..n : rn[i].call = id} BY DEF Ran, RowCount
<1>5. Unfinished(<<t, id>>) <=> ended = "cut" /\ On(st, id)
  <2>1. DOMAIN st = 1..Len(st) BY <1>2 DEF StackOK
  <2> QED BY <2>1 DEF Unfinished, On
<1>6. /\ bodyInterval(r) \subseteq Int
      /\ ended = "cut" /\ On(st, id) => bodyInterval(r) = {}
      /\ ~(ended = "cut" /\ On(st, id)) =>
              \A i \in Int : i \in bodyInterval(r) <=> Span(K, st, md, n, id, i)
  BY BodyIsSpan
<1>7. b \in Nat \ {0}
  <2>1. md[id] \in CallSet BY <1>2, <1>3, MadeTyped
  <2> QED BY <2>1, BeginNat
<1>8. b <= n => rn[b].call = id BY <1>2, <1>3 DEF Begun
<1>9. \A i \in 1..n : Span(K, st, md, n, rn[i].call, i) BY <1>2 DEF OwnOK
<1>10. \A i : Span(K, st, md, n, id, i) => b <= i /\ i <= n BY DEF Span
<1> HIDE DEF K, st, md, rn, n, b
<1>11. CASE ended = "cut" /\ On(st, id) BY <1>5, <1>6, <1>11
<1>12. CASE ~(ended = "cut" /\ On(st, id))
  <2>1. ASSUME NEW i \in bodyInterval(r) PROVE b \in Ran(<<t, id>>)
    <3>1. i \in Int /\ b <= i /\ i <= n BY <1>6, <1>10, <1>12
    <3>2. b \in 1..n BY <3>1, <1>1, <1>7
    <3> QED BY <3>2, <1>4, <1>8
  <2>2. ASSUME NEW i \in Ran(<<t, id>>) PROVE i \in bodyInterval(r)
    <3>1. i \in 1..n /\ rn[i].call = id BY <1>4
    <3>2. i \in Int BY <3>1, <1>1
    <3> QED BY <3>1, <3>2, <1>6, <1>9, <1>12
  <2> QED BY <1>5, <1>12, <2>1, <2>2
<1> QED BY <1>11, <1>12

\* The trace rows are the instructions executed.
LEMMA TraceRows ==
  ASSUME TraceInv, NEW t \in Threads
  PROVE  /\ readTrace(t) = {[traceId |-> i, pc |-> ran[t][i].pc] : i \in 1..Len(ran[t])}
         /\ Len(ran[t]) \in Nat
         /\ \A i \in 1..Len(ran[t]) : ran[t][i].pc \in DOMAIN Code /\ ran[t][i].pc \in Nat
                                      /\ ran[t][i].pc < RuntimeBase
<1>1. ThreadOK(t) BY DEF TraceInv
<1>2. readTrace(t) = traceIn(db[t]) BY DEF readTrace, traceIn
<1>3. TraceIs(traceIn(db[t]), ran[t]) /\ ran[t] \in Seq(RanSet) BY <1>1 DEF ThreadOK, Core
<1>4. readTrace(t) = {[traceId |-> i, pc |-> ran[t][i].pc] : i \in 1..Len(ran[t])}
  BY <1>2, <1>3 DEF TraceIs
<1>5. \A i \in 1..Len(ran[t]) : ran[t][i] \in RanSet BY <1>3
<1>6. \A i \in 1..Len(ran[t]) : ran[t][i].pc \in DOMAIN Code BY <1>5 DEF RanSet
<1> QED BY <1>3, <1>4, <1>6, TraceAssumption

\* The base found from the row a frame is anchored at is the module's.
LEMMA BaseIs ==
  ASSUME TraceInv, ended # "no", NEW t \in Threads, NEW r \in readCallGraph(t)
  PROVE  traceRuntimeBase(t, r) = RuntimeBase /\ RuntimeBase \in Nat \ {0}
<1> DEFINE md == made[t]
           rn == ran[t]
           n == Len(rn)
           id == r.callId
           anchors == {x \in readTrace(t) : x.traceId = r.enterTraceId}
           e == md[id].enter
           address == IF r.indirect THEN r.calleeTarget ELSE r.callsitePc
<1>1. /\ n \in Nat /\ FrameOf(md, r) /\ Core(callsIn(db[t]), stack[t], md, rn, ended)
  BY Frames
<1>2. TreeOK(md) /\ Begun(md, rn) BY <1>1 DEF Core
<1>3. id \in 1..Len(md) BY <1>1 DEF FrameOf
<1>4. ThreadOK(t) BY DEF TraceInv
<1>5. e <= n BY <1>4, <1>3 DEF ThreadOK
<1>6. md[id] \in CallSet BY <1>2, <1>3, MadeTyped
<1>7. e \in 1..n BY <1>5, <1>6, <1>1 DEF CallSet
<1>8. /\ readTrace(t) = {[traceId |-> i, pc |-> rn[i].pc] : i \in 1..n}
      /\ rn[e].pc \in Nat /\ rn[e].pc < RuntimeBase
  BY <1>7, TraceRows
<1>9. IF md[id].indirect THEN rn[e].pc = md[id].entry ELSE md[id].site = RuntimeBase + rn[e].pc
  BY <1>2, <1>3, <1>5 DEF Begun
<1>10. /\ r.enterTraceId = e /\ r.indirect = md[id].indirect
       /\ r.calleeTarget = RuntimeBase + md[id].entry /\ r.callsitePc = md[id].site
  BY <1>1 DEF FrameOf
<1>11. traceRuntimeBase(t, r) =
         IF anchors = {} THEN 0
         ELSE LET pc == (CHOOSE x \in anchors : TRUE).pc
              IN  IF address >= pc THEN address - pc ELSE 0
  BY DEF traceRuntimeBase
<1> HIDE DEF md, rn, n, id, e
<1>12. anchors = {[traceId |-> e, pc |-> rn[e].pc]} BY <1>7, <1>8, <1>10
<1>13. (CHOOSE x \in anchors : TRUE).pc = rn[e].pc
  <2>1. (CHOOSE x \in anchors : TRUE) \in anchors BY <1>12, Zenon
  <2> HIDE DEF anchors
  <2> QED BY <2>1, <1>12
<1>14. address = RuntimeBase + rn[e].pc BY <1>9, <1>10
<1> HIDE DEF address, anchors
<1>15. RuntimeBase \in Nat BY TraceAssumption
<1>16. address >= rn[e].pc /\ address - rn[e].pc = RuntimeBase BY <1>8, <1>14, <1>15
<1>17. anchors # {} BY <1>12
<1> QED BY <1>8, <1>11, <1>13, <1>15, <1>16, <1>17

\* The reader puts the segments back in the order they were written: a segment
\* that has rows declares their first id.
LEMMA SegmentOrder ==
  ASSUME NEW segs, SegsOK(segs), NEW s \in 1..Len(segs), NEW u \in 1..Len(segs), s # u,
         minTraceId(segs[s]) <= minTraceId(segs[u])
  PROVE  \A a \in rowsOf(segs[s].trace), b \in rowsOf(segs[u].trace) : a.traceId < b.traceId
<1>1. /\ segs \in Seq(SegmentSet) /\ Len(segs) \in Nat BY DEF SegsOK
<1>2. segs[s] \in SegmentSet /\ segs[u] \in SegmentSet BY <1>1
<1>3. segs[s].trace \in Seq(TraceRow) /\ segs[u].trace \in Seq(TraceRow) BY <1>2 DEF SegmentSet
<1>4. CASE s < u BY <1>4 DEF SegsOK
<1>5. CASE u < s
  <2>1. CASE segs[s].trace = <<>> BY <2>1 DEF rowsOf
  <2>2. CASE segs[s].trace # <<>>
    <3>1. segs[u].trace # <<>> BY <1>1, <1>5 DEF SegsOK
    <3>2. /\ minTraceId(segs[s]) = segs[s].trace[1].traceId
          /\ minTraceId(segs[u]) = segs[u].trace[1].traceId
      BY <2>2, <3>1 DEF minTraceId
    <3>3. 1 \in 1..Len(segs[s].trace) /\ 1 \in 1..Len(segs[u].trace) BY <1>3, <2>2, <3>1
    <3>4. segs[s].trace[1] \in rowsOf(segs[s].trace) /\ segs[u].trace[1] \in rowsOf(segs[u].trace)
      BY <3>3 DEF rowsOf
    <3>5. segs[s].trace[1].traceId \in Nat /\ segs[u].trace[1].traceId \in Nat
      <4>1. segs[s].trace[1] \in TraceRow /\ segs[u].trace[1] \in TraceRow BY <1>3, <3>3
      <4> QED BY <4>1 DEF TraceRow
    <3>6. segs[u].trace[1].traceId < segs[s].trace[1].traceId BY <1>5, <3>4 DEF SegsOK
    <3> QED BY <3>2, <3>5, <3>6
  <2> QED BY <2>1, <2>2
<1> QED BY <1>1, <1>4, <1>5

\* Rows are never refused for their order.
LEMMA InOrder ==
  ASSUME TraceInv, NEW t \in Threads
  PROVE  ordered(t, "trace") /\ ordered(t, "flow")
<1> DEFINE segs == db[t]
<1>1. SegsOK(segs) BY DEF TraceInv, ThreadOK
<1>2. DOMAIN segs = 1..Len(segs) BY <1>1 DEF SegsOK
<1>3. \A s \in DOMAIN segs : ascending(segs[s].trace) /\ ascending(segs[s].flow)
  BY <1>1, <1>2 DEF SegsOK
<1>4. ASSUME NEW s \in DOMAIN segs, NEW u \in DOMAIN segs, s # u,
             minTraceId(segs[s]) <= minTraceId(segs[u])
      PROVE  /\ \A a \in rowsOf(segs[s].trace), b \in rowsOf(segs[u].trace) : a.traceId < b.traceId
             /\ \A a \in rowsOf(segs[s].flow), b \in rowsOf(segs[u].flow) : a.traceId < b.traceId
  <2>1. \A a \in rowsOf(segs[s].trace), b \in rowsOf(segs[u].trace) : a.traceId < b.traceId
    BY <1>1, <1>2, <1>4, SegmentOrder
  <2>2. ASSUME NEW a \in rowsOf(segs[s].flow), NEW b \in rowsOf(segs[u].flow)
        PROVE  a.traceId < b.traceId
    <3>1. PICK x \in rowsOf(segs[s].trace) : x.traceId = a.traceId BY <1>1, <1>2 DEF SegsOK
    <3>2. PICK y \in rowsOf(segs[u].trace) : y.traceId = b.traceId BY <1>1, <1>2 DEF SegsOK
    <3> QED BY <2>1, <3>1, <3>2
  <2> QED BY <2>1, <2>2
<1>5. /\ \A s \in DOMAIN segs : segs[s].trace = segs[s]["trace"]
      /\ \A s \in DOMAIN segs : segs[s].flow = segs[s]["flow"]
  OBVIOUS
<1>6. ordered(t, "trace") BY <1>3, <1>4, <1>5 DEF ordered
<1>7. ordered(t, "flow") BY <1>3, <1>4, <1>5 DEF ordered
<1> QED BY <1>6, <1>7

-----------------------------------------------------------------------------
(***************************************************************************)
(* The candidates, their order and the selection among them.               *)
(***************************************************************************)
RowOf(t, id) == CHOOSE r \in readCallGraph(t) : r.callId = id
Cand(c) == [thread |-> c[1], frame |-> RowOf(c[1], c[2]), base |-> RuntimeBase]
Before(c, d) == c[1] < d[1] \/ (c[1] = d[1] /\ c[2] < d[2])

\* A set that a function maps a finite set onto is finite.
LEMMA OntoFinite ==
  ASSUME NEW S, NEW T, IsFiniteSet(S), NEW f \in [S -> T], \A y \in T : \E x \in S : f[x] = y
  PROVE  IsFiniteSet(T)
<1>1. f \in Surjection(S, T) BY DEF Surjection
<1> QED BY <1>1, FS_Surjection

\* If it is one to one, they have as many elements.
LEMMA OneToOneCount ==
  ASSUME NEW S, NEW T, IsFiniteSet(S), NEW f \in [S -> T], \A y \in T : \E x \in S : f[x] = y,
         \A x, y \in S : f[x] = f[y] => x = y
  PROVE  Cardinality(T) = Cardinality(S)
<1>1. f \in Bijection(S, T) BY Fun_IsBij
<1>2. ExistsBijection(S, T) BY <1>1, Fun_ExistsBij
<1> QED BY <1>2, FS_Bijection

\* Each call has one row.
LEMMA RowOfIs ==
  ASSUME TraceInv, ended # "no", NEW t \in Threads
  PROVE  /\ DOMAIN made[t] = 1..Len(made[t]) /\ Len(made[t]) \in Nat
         /\ \A id \in DOMAIN made[t] : RowOf(t, id) \in readCallGraph(t) /\ RowOf(t, id).callId = id
         /\ \A r \in readCallGraph(t) : r.callId \in DOMAIN made[t] /\ r = RowOf(t, r.callId)
         /\ \A id \in DOMAIN made[t] : made[t][id] \in CallSet
         /\ \A r \in readCallGraph(t) : FrameOf(made[t], r)
<1>1. /\ Len(made[t]) \in Nat
      /\ \A id \in 1..Len(made[t]) : \E r \in readCallGraph(t) : r.callId = id
      /\ \A r \in readCallGraph(t) : FrameOf(made[t], r)
      /\ \A r, q \in readCallGraph(t) : r.callId = q.callId => r = q
      /\ TreeOK(made[t])
  BY Frames DEF Core
<1>2. DOMAIN made[t] = 1..Len(made[t]) /\ \A id \in 1..Len(made[t]) : made[t][id] \in CallSet
  BY <1>1 DEF TreeOK
<1>3. ASSUME NEW id \in DOMAIN made[t]
      PROVE  RowOf(t, id) \in readCallGraph(t) /\ RowOf(t, id).callId = id
  <2>1. \E r \in readCallGraph(t) : r.callId = id BY <1>1, <1>2
  <2> QED BY <2>1 DEF RowOf
<1>4. \A r \in readCallGraph(t) : r.callId \in 1..Len(made[t]) BY <1>1 DEF FrameOf
<1>5. \A r \in readCallGraph(t) : r = RowOf(t, r.callId) BY <1>1, <1>2, <1>3, <1>4
<1> QED BY <1>1, <1>2, <1>3, <1>4, <1>5

\* The calls of the selected threads.
LEMMA CallsAre ==
  ASSUME TraceInv, NEW sel, NEW c \in Calls(sel)
  PROVE  /\ c[1] \in selectedThreads(sel) /\ c[1] \in Threads /\ c[2] \in DOMAIN made[c[1]]
         /\ c = <<c[1], c[2]>>
  BY DEF Calls, selectedThreads

\* A row matches the request when its call's entry does.
LEMMA MatchesIs ==
  ASSUME TraceInv, ended # "no", NEW t \in Threads, NEW r \in readCallGraph(t), NEW sel \in Selections
  PROVE  /\ targetMatches(sel, r, RuntimeBase) <=>
              sel.functionTarget = sel.imageBase + made[t][r.callId].entry
         /\ r.calleeTarget = RuntimeBase + made[t][r.callId].entry
         /\ made[t][r.callId].entry \in Nat \ {0}
<1> DEFINE e == made[t][r.callId].entry
<1>1. r.calleeTarget = RuntimeBase + e /\ e \in Nat \ {0}
  <2>1. FrameOf(made[t], r) /\ r.callId \in DOMAIN made[t] /\ made[t][r.callId] \in CallSet
    BY RowOfIs
  <2>2. e \in DOMAIN Code BY <2>1 DEF CallSet
  <2> QED BY <2>1, <2>2, TraceAssumption DEF FrameOf
<1>2. RuntimeBase \in Nat \ {0} BY BaseIs
<1>3. /\ sel.imageBase \in Nat \ {0} /\ sel.functionTarget \in Nat
      /\ sel.functionTarget = 0 \/ sel.functionTarget >= sel.imageBase
  BY TraceAssumption
<1> HIDE DEF e
<1>4. targetMatches(sel, r, RuntimeBase) <=> sel.functionTarget = sel.imageBase + e
  BY <1>1, <1>2, <1>3 DEF targetMatches
<1> QED BY <1>1, <1>4 DEF e

\* The candidates are the calls that match.
LEMMA CandidatesAre ==
  ASSUME TraceInv, ended # "no", NEW sel \in Selections
  PROVE  candidates(sel) = {Cand(c) : c \in Matching(sel)}
<1>1. ASSUME NEW x \in candidates(sel) PROVE x \in {Cand(c) : c \in Matching(sel)}
  <2>1. PICK t \in selectedThreads(sel) : \E f \in readCallGraph(t) :
          x = [thread |-> t, frame |-> f, base |-> traceRuntimeBase(t, f)]
    BY DEF candidates
  <2>2. PICK f \in readCallGraph(t) :
          x = [thread |-> t, frame |-> f, base |-> traceRuntimeBase(t, f)]
    BY <2>1
  <2>3. t \in Threads BY DEF selectedThreads
  <2>4. traceRuntimeBase(t, f) = RuntimeBase BY <2>3, BaseIs
  <2>5. f.callId \in DOMAIN made[t] /\ f = RowOf(t, f.callId) BY <2>3, RowOfIs
  <2>6. targetMatches(sel, x.frame, x.base) \/ x.frame.callId \in sel.callIds BY DEF candidates
  <2>7. targetMatches(sel, f, RuntimeBase) \/ f.callId \in sel.callIds BY <2>2, <2>4, <2>6
  <2>8. <<t, f.callId>> \in Calls(sel) BY <2>5 DEF Calls
  <2>9. \/ sel.functionTarget = sel.imageBase + made[t][f.callId].entry
        \/ f.callId \in sel.callIds
    BY <2>3, <2>7, MatchesIs
  <2>10. <<t, f.callId>> \in Matching(sel) BY <2>8, <2>9 DEF Matching
  <2>11. x = Cand(<<t, f.callId>>) BY <2>2, <2>4, <2>5 DEF Cand
  <2> QED BY <2>10, <2>11
<1>2. ASSUME NEW c \in Matching(sel) PROVE Cand(c) \in candidates(sel)
  <2>1. /\ c \in Calls(sel)
        /\ \/ sel.functionTarget = sel.imageBase + made[c[1]][c[2]].entry
           \/ c[2] \in sel.callIds
    BY DEF Matching
  <2>2. c[1] \in selectedThreads(sel) /\ c[1] \in Threads /\ c[2] \in DOMAIN made[c[1]]
    BY <2>1, CallsAre
  <2> DEFINE t == c[1]
             f == RowOf(c[1], c[2])
  <2>3. f \in readCallGraph(t) /\ f.callId = c[2] BY <2>2, RowOfIs
  <2> HIDE DEF f
  <2>4. traceRuntimeBase(t, f) = RuntimeBase BY <2>2, <2>3, BaseIs
  <2>5. targetMatches(sel, f, RuntimeBase) \/ f.callId \in sel.callIds
    BY <2>1, <2>2, <2>3, MatchesIs
  <2>6. Cand(c) = [thread |-> t, frame |-> f, base |-> traceRuntimeBase(t, f)]
    BY <2>4 DEF Cand, f
  <2>7. Cand(c).frame = f /\ Cand(c).base = RuntimeBase BY <2>4, <2>6
  <2>8. Cand(c) \in {[thread |-> t, frame |-> g, base |-> traceRuntimeBase(t, g)] : g \in readCallGraph(t)}
    BY <2>3, <2>6
  <2>9. Cand(c) \in UNION {{[thread |-> u, frame |-> g, base |-> traceRuntimeBase(u, g)] :
                             g \in readCallGraph(u)} : u \in selectedThreads(sel)}
    BY <2>2, <2>8
  <2> QED BY <2>5, <2>7, <2>9 DEF candidates
<1> QED BY <1>1, <1>2

\* The candidates are sorted in the order the calls began.
LEMMA PrecedesIs ==
  ASSUME TraceInv, ended # "no", NEW sel \in Selections, NEW c \in Calls(sel), NEW d \in Calls(sel)
  PROVE  precedes(Cand(c), Cand(d)) <=> Before(c, d)
<1>1. /\ c[1] \in Threads /\ c[2] \in DOMAIN made[c[1]] /\ d[1] \in Threads /\ d[2] \in DOMAIN made[d[1]]
  BY CallsAre
<1> DEFINE f == RowOf(c[1], c[2])
           g == RowOf(d[1], d[2])
<1>2. /\ f \in readCallGraph(c[1]) /\ f.callId = c[2] /\ FrameOf(made[c[1]], f)
      /\ g \in readCallGraph(d[1]) /\ g.callId = d[2] /\ FrameOf(made[d[1]], g)
  BY <1>1, RowOfIs
<1>3. f.enterTraceId = made[c[1]][c[2]].enter /\ g.enterTraceId = made[d[1]][d[2]].enter
  BY <1>2 DEF FrameOf
<1> HIDE DEF f, g
<1>4. /\ Cand(c).thread = c[1] /\ Cand(c).frame = f /\ Cand(d).thread = d[1] /\ Cand(d).frame = g
  BY DEF Cand, f, g
<1>5. c[1] \in Nat /\ d[1] \in Nat BY <1>1, TraceAssumption
<1>6. CASE c[1] # d[1] BY <1>4, <1>5, <1>6 DEF precedes, Before
<1>7. CASE c[1] = d[1]
  <2> DEFINE md == made[c[1]]
  <2>1. DOMAIN md = 1..Len(md) /\ Len(md) \in Nat /\ \A i \in DOMAIN md : md[i] \in CallSet
    BY <1>1, RowOfIs
  <2>2. TreeOK(md) BY <1>1, Frames DEF Core
  <2>3. \A i, j \in DOMAIN md : i < j => md[i].enter <= md[j].enter BY <2>1, <2>2 DEF TreeOK
  <2>4. c[2] \in DOMAIN md /\ d[2] \in DOMAIN md BY <1>1, <1>7
  <2>5. c[2] \in Nat /\ d[2] \in Nat /\ md[c[2]].enter \in Nat /\ md[d[2]].enter \in Nat
    BY <2>1, <2>4 DEF CallSet
  <2>6. f.enterTraceId = md[c[2]].enter /\ g.enterTraceId = md[d[2]].enter BY <1>3, <1>7
  <2>7. precedes(Cand(c), Cand(d)) <=>
          \/ md[c[2]].enter < md[d[2]].enter
          \/ md[c[2]].enter = md[d[2]].enter /\ c[2] < d[2]
    BY <1>2, <1>4, <1>5, <1>7, <2>6 DEF precedes
  <2>8. Before(c, d) <=> c[2] < d[2] BY <1>5, <1>7 DEF Before
  <2>9. c[2] < d[2] => md[c[2]].enter <= md[d[2]].enter BY <2>3, <2>4
  <2>10. d[2] < c[2] => md[d[2]].enter <= md[c[2]].enter BY <2>3, <2>4
  <2> HIDE DEF md
  <2> QED BY <2>5, <2>7, <2>8, <2>9, <2>10
<1> QED BY <1>6, <1>7

\* A trace has finitely many calls.
LEMMA CallsFinite ==
  ASSUME TraceInv, ended # "no", NEW sel
  PROVE  IsFiniteSet(Calls(sel))
<1> DEFINE of(t) == {<<t, id>> : id \in DOMAIN made[t]}
           S == selectedThreads(sel)
           T == {of(t) : t \in S}
<1>1. IsFiniteSet(S)
  <2>1. S \in SUBSET Threads BY DEF selectedThreads
  <2> QED BY <2>1, TraceAssumption, FS_Subset
<1>2. ASSUME NEW t \in S PROVE IsFiniteSet(of(t))
  <2> DEFINE f == [id \in DOMAIN made[t] |-> <<t, id>>]
  <2>1. t \in Threads BY DEF selectedThreads
  <2>2. DOMAIN made[t] = 1..Len(made[t]) /\ Len(made[t]) \in Nat BY <2>1, RowOfIs
  <2>3. IsFiniteSet(DOMAIN made[t]) BY <2>2, FS_Interval
  <2>4. f \in [DOMAIN made[t] -> of(t)] OBVIOUS
  <2>5. \A y \in of(t) : \E x \in DOMAIN made[t] : f[x] = y OBVIOUS
  <2> HIDE DEF f, of
  <2> QED BY <2>3, <2>4, <2>5, OntoFinite
<1>3. IsFiniteSet(T)
  <2> DEFINE f == [t \in S |-> of(t)]
  <2> HIDE DEF S, of
  <2>1. f \in [S -> T] OBVIOUS
  <2>2. \A y \in T : \E x \in S : f[x] = y OBVIOUS
  <2> HIDE DEF f, T
  <2> QED BY <1>1, <2>1, <2>2, OntoFinite
<1>4. \A x \in T : IsFiniteSet(x)
  <2> HIDE DEF of, S
  <2> QED BY <1>2
<1>5. Calls(sel) = UNION T BY DEF Calls
<1> HIDE DEF T
<1> QED BY <1>3, <1>4, <1>5, FS_UNION

\* The ordinal of a candidate is the number of matching calls before it.
LEMMA OrdinalIsRank ==
  ASSUME TraceInv, ended # "no", NEW sel \in Selections, NEW c \in Matching(sel)
  PROVE  Cardinality({x \in candidates(sel) : precedes(x, Cand(c))}) = Rank(sel, c)
<1> DEFINE M == Matching(sel)
           T == {d \in M : Before(d, c)}
           S == {x \in candidates(sel) : precedes(x, Cand(c))}
           f == [d \in T |-> Cand(d)]
<1>1. M \subseteq Calls(sel) BY DEF Matching
<1>2. IsFiniteSet(T)
  <2>1. T \in SUBSET Calls(sel) BY <1>1
  <2>2. IsFiniteSet(Calls(sel)) BY CallsFinite
  <2> QED BY <2>1, <2>2, FS_Subset
<1>3. candidates(sel) = {Cand(d) : d \in M} BY CandidatesAre
<1>4. \A d \in M : precedes(Cand(d), Cand(c)) <=> Before(d, c) BY <1>1, PrecedesIs
<1>5. f \in [T -> S] BY <1>3, <1>4
<1>6. \A y \in S : \E x \in T : f[x] = y BY <1>3, <1>4
<1>7. \A x, y \in T : f[x] = f[y] => x = y
  <2> SUFFICES ASSUME NEW x \in T, NEW y \in T, Cand(x) = Cand(y) PROVE x = y
    OBVIOUS
  <2>1. x \in Calls(sel) /\ y \in Calls(sel) BY <1>1
  <2>2. /\ x[1] \in Threads /\ x[2] \in DOMAIN made[x[1]] /\ x = <<x[1], x[2]>>
        /\ y[1] \in Threads /\ y[2] \in DOMAIN made[y[1]] /\ y = <<y[1], y[2]>>
    BY <2>1, CallsAre
  <2>3. RowOf(x[1], x[2]).callId = x[2] /\ RowOf(y[1], y[2]).callId = y[2] BY <2>2, RowOfIs
  <2>4. x[1] = y[1] /\ RowOf(x[1], x[2]) = RowOf(y[1], y[2]) BY DEF Cand
  <2>5. x[2] = y[2] BY <2>3, <2>4
  <2> QED BY <2>2, <2>4, <2>5
<1>8. Rank(sel, c) = Cardinality(T) BY DEF Rank, Before
<1> HIDE DEF f, S, T
<1>9. Cardinality(S) = Cardinality(T) BY <1>2, <1>5, <1>6, <1>7, OneToOneCount
<1> QED BY <1>8, <1>9 DEF S

\* The invocations chosen are the ones asked for.
LEMMA ChosenAre ==
  ASSUME TraceInv, ended # "no", NEW sel \in Selections
  PROVE  chosen(sel) = {Cand(c) : c \in Wanted(sel)} /\ Wanted(sel) \subseteq Matching(sel)
<1> DEFINE all == candidates(sel)
           ordinal(x) == Cardinality({d \in all : precedes(d, x)})
<1>1. all = {Cand(c) : c \in Matching(sel)} BY CandidatesAre
<1>2. \A c \in Matching(sel) : ordinal(Cand(c)) = Rank(sel, c) BY OrdinalIsRank
<1>3. ASSUME NEW c \in Matching(sel) PROVE Cand(c).frame.callId = c[2]
  <2>1. c \in Calls(sel) BY DEF Matching
  <2>2. c[1] \in Threads /\ c[2] \in DOMAIN made[c[1]] BY <2>1, CallsAre
  <2> QED BY <2>2, RowOfIs DEF Cand
<1>4. chosen(sel) = IF sel.ordinals = {} /\ sel.callIds = {} THEN all
                    ELSE {c \in all : ordinal(c) \in sel.ordinals \/ c.frame.callId \in sel.callIds}
  BY DEF chosen
<1> HIDE DEF all, ordinal
<1>5. CASE sel.ordinals = {} /\ sel.callIds = {} BY <1>1, <1>4, <1>5 DEF Wanted
<1>6. CASE ~(sel.ordinals = {} /\ sel.callIds = {})
  <2>1. Wanted(sel) = {c \in Matching(sel) : Rank(sel, c) \in sel.ordinals \/ c[2] \in sel.callIds}
    BY <1>6 DEF Wanted
  <2>2. chosen(sel) = {c \in all : ordinal(c) \in sel.ordinals \/ c.frame.callId \in sel.callIds}
    BY <1>4, <1>6
  <2> QED BY <1>1, <1>2, <1>3, <2>1, <2>2
<1> QED BY <1>5, <1>6

-----------------------------------------------------------------------------
(***************************************************************************)
(* What is made of one invocation.                                         *)
(***************************************************************************)

\* The rows an invocation owns.
LEMMA OwnRowsAre ==
  ASSUME TraceInv, ended # "no", NEW sel, NEW c \in Calls(sel), ~Unfinished(c)
  PROVE  /\ ownRows(Cand(c)) = {[traceId |-> i, pc |-> PcOf(c[1], i)] : i \in Ran(c)}
         /\ Ran(c) \subseteq 1..Len(ran[c[1]]) /\ Len(ran[c[1]]) \in Nat
         /\ \A i \in Ran(c) : /\ PcOf(c[1], i) \in DOMAIN Code /\ PcOf(c[1], i) \in Nat
                              /\ PcOf(c[1], i) < RuntimeBase
<1> DEFINE t == c[1]
           id == c[2]
           r == RowOf(t, id)
<1>1. t \in Threads /\ id \in DOMAIN made[t] /\ c = <<t, id>> BY CallsAre
<1>2. r \in readCallGraph(t) /\ r.callId = id BY <1>1, RowOfIs
<1>3. ~(ended = "cut" /\ On(stack[t], id))
  <2>1. Core(callsIn(db[t]), stack[t], made[t], ran[t], ended) BY <1>1, Frames
  <2>2. DOMAIN stack[t] = 1..Len(stack[t]) BY <2>1 DEF Core, StackOK
  <2> QED BY <2>2 DEF Unfinished, On
<1>4. Cand(c).thread = t /\ Cand(c).frame = r BY DEF Cand
<1> HIDE DEF r
<1>5. owned(Cand(c)) = Ran(<<t, r.callId>>) BY <1>1, <1>2, <1>3, <1>4, OwnedIsRan
<1>6. owned(Cand(c)) = Ran(c) BY <1>1, <1>2, <1>5
<1>7. /\ readTrace(t) = {[traceId |-> i, pc |-> ran[t][i].pc] : i \in 1..Len(ran[t])}
      /\ Len(ran[t]) \in Nat
      /\ \A i \in 1..Len(ran[t]) : ran[t][i].pc \in DOMAIN Code /\ ran[t][i].pc \in Nat
                                   /\ ran[t][i].pc < RuntimeBase
  BY <1>1, TraceRows
<1>8. Ran(c) \subseteq 1..Len(ran[t]) BY DEF Ran, RowCount
<1>9. ownRows(Cand(c)) = {x \in readTrace(t) : x.traceId \in Ran(c)} BY <1>4, <1>6 DEF ownRows
<1>10. ownRows(Cand(c)) = {[traceId |-> i, pc |-> PcOf(t, i)] : i \in Ran(c)}
  BY <1>7, <1>8, <1>9 DEF PcOf
<1> QED BY <1>7, <1>8, <1>10 DEF PcOf

\* The edges of an invocation: those from a branch are the branches it took.
LEMMA EdgesAre ==
  ASSUME TraceInv, ended # "no", NEW sel, NEW c \in Calls(sel), ~Unfinished(c)
  PROVE  /\ \A e \in edges(Cand(c)) : e = <<e[1], e[2]>> /\ e[1] \in DOMAIN Code
         /\ \A e \in edges(Cand(c)) : Code[e[1]].k = "branch" =>
              \E i \in Branched(c) : e = <<PcOf(c[1], i), PcOf(c[1], i + 1)>>
         /\ \A i \in Branched(c) : <<PcOf(c[1], i), PcOf(c[1], i + 1)>> \in edges(Cand(c))
<1> DEFINE t == c[1]
           rn == ran[t]
           n == Len(rn)
           row(i) == [traceId |-> i, pc |-> PcOf(t, i)]
           rows == ownRows(Cand(c))
           ids == {x.traceId : x \in rows}
<1>1. /\ rows = {row(i) : i \in Ran(c)} /\ Ran(c) \subseteq 1..n /\ n \in Nat
      /\ \A i \in Ran(c) : PcOf(t, i) \in DOMAIN Code
  BY OwnRowsAre
<1>2. t \in Threads BY CallsAre
<1>3. ThreadOK(t) /\ version \in {5, 6} BY <1>2 DEF TraceInv, TraceTypeOK
<1>4. \A i : i \in Ran(c) <=> i \in 1..n /\ rn[i].call = c[2] BY DEF Ran, RowCount
<1>5. \A i \in 1..n : i < n /\ Code[rn[i].pc].k = "branch" => rn[i + 1].call = rn[i].call
  BY <1>3 DEF ThreadOK, GoesOn
<1>6. \A i : i \in Branched(c) <=> i \in Ran(c) /\ i + 1 \in Ran(c) /\ Code[PcOf(t, i)].k = "branch"
  BY DEF Branched
<1>7. \A i \in Ran(c) : row(i).traceId = i /\ row(i).pc = PcOf(t, i) OBVIOUS
<1>8. CASE version = 5
  <2>1. edges(Cand(c)) = {<<e[1].pc, e[2].pc>> : e \in {e \in rows \X rows : follow(rows, e[1], e[2])}}
    BY <1>8 DEF edges
  <2>2. ASSUME NEW e \in edges(Cand(c))
        PROVE  /\ e = <<e[1], e[2]>> /\ e[1] \in DOMAIN Code
               /\ Code[e[1]].k = "branch" =>
                    \E i \in Branched(c) : e = <<PcOf(t, i), PcOf(t, i + 1)>>
    <3>1. PICK x \in rows, y \in rows : e = <<x.pc, y.pc>> /\ follow(rows, x, y) BY <2>1
    <3>2. PICK i \in Ran(c) : x = row(i) BY <1>1
    <3>3. PICK j \in Ran(c) : y = row(j) BY <1>1
    <3>4. /\ i < j /\ \A k \in Ran(c) : ~(i < k /\ k < j)
      <4>1. \A k \in Ran(c) : row(k) \in rows BY <1>1
      <4> HIDE DEF rows
      <4>2. /\ x.traceId < y.traceId
            /\ \A z \in rows : ~(x.traceId < z.traceId /\ z.traceId < y.traceId)
        BY <3>1 DEF follow
      <4> HIDE DEF row
      <4> QED BY <4>1, <4>2, <1>7, <3>2, <3>3
    <3>5. e = <<PcOf(t, i), PcOf(t, j)>> BY <3>1, <3>2, <3>3, <1>7
    <3>6. ASSUME Code[PcOf(t, i)].k = "branch" PROVE i \in Branched(c) /\ j = i + 1
      <4>1. i \in 1..n /\ j \in 1..n /\ i < n BY <1>1, <3>4
      <4>2. rn[i + 1].call = c[2] BY <1>4, <1>5, <3>6, <4>1 DEF PcOf
      <4>3. i + 1 \in Ran(c)
        <5>1. i + 1 \in 1..n BY <4>1, <1>1
        <5> QED BY <5>1, <4>2, <1>4
      <4>4. j = i + 1 BY <3>4, <4>1, <4>3, <1>1
      <4> QED BY <1>6, <3>6, <4>3, <4>4
    <3>7. PcOf(t, i) \in DOMAIN Code BY <1>1
    <3> HIDE DEF t, rn, n, row, rows, ids
    <3> QED BY <3>5, <3>6, <3>7
  <2>3. ASSUME NEW i \in Branched(c) PROVE <<PcOf(t, i), PcOf(t, i + 1)>> \in edges(Cand(c))
    <3>1. i \in Ran(c) /\ i + 1 \in Ran(c) /\ i \in Nat BY <1>1, <1>6
    <3>2. row(i) \in rows /\ row(i + 1) \in rows BY <1>1, <3>1
    <3>3. \A z \in rows : \E k \in Nat : z.traceId = k BY <1>1
    <3>4. follow(rows, row(i), row(i + 1))
      <4> HIDE DEF rows
      <4> QED BY <3>1, <3>3 DEF follow
    <3>5. <<row(i), row(i + 1)>> \in {e \in rows \X rows : follow(rows, e[1], e[2])}
      <4> HIDE DEF rows, row
      <4> QED BY <3>2, <3>4
    <3>6. <<row(i).pc, row(i + 1).pc>> \in edges(Cand(c))
      <4> HIDE DEF rows, row
      <4> QED BY <2>1, <3>5
    <3> QED BY <3>6
  <2> QED BY <2>2, <2>3
<1>9. CASE version = 6
  <2> DEFINE F == flowIn(db[t])
  <2>1. F = readFlow(Cand(c).thread) /\ Cand(c).thread = t BY <1>9 DEF readFlow, flowIn, Cand
  <2>2. FlowIs(F, at[t], rn) BY <1>3, <1>9 DEF ThreadOK
  <2>3. ids = Ran(c)
    <3>1. /\ \A i \in Ran(c) : row(i) \in rows
          /\ \A x \in rows : \E i \in Ran(c) : x = row(i)
      BY <1>1
    <3> HIDE DEF rows, row
    <3>2. \A x \in rows : x.traceId \in Ran(c) BY <1>7, <3>1
    <3>3. \A i \in Ran(c) : \E x \in rows : i = x.traceId BY <1>7, <3>1
    <3> QED BY <3>2, <3>3
  <2>4. edges(Cand(c)) = {<<x.sourcePc, x.targetPc>> :
                            x \in {x \in F : {x.traceId, x.traceId + 1} \subseteq Ran(c)}}
    BY <1>9, <2>1, <2>3 DEF edges
  <2>5. /\ \A f \in F : f.traceId \in 1..n /\ f.sourcePc = rn[f.traceId].pc
        /\ \A f \in F : Code[f.sourcePc].k = "branch" => f.targetPc = After(at[t], rn, f.traceId)
        /\ \A i \in 1..n : Code[rn[i].pc].k = "branch" => \E f \in F : f.traceId = i
    BY <2>2 DEF FlowIs
  <2>6. \A i \in Nat : i + 1 \in Ran(c) => After(at[t], rn, i) = PcOf(t, i + 1)
    BY <1>1 DEF After, PcOf
  <2>7. \A i : rn[i].pc = PcOf(t, i) BY DEF PcOf
  <2> HIDE DEF F, rows, ids, row
  <2>8. ASSUME NEW e \in edges(Cand(c))
        PROVE  /\ e = <<e[1], e[2]>> /\ e[1] \in DOMAIN Code
               /\ Code[e[1]].k = "branch" =>
                    \E i \in Branched(c) : e = <<PcOf(t, i), PcOf(t, i + 1)>>
    <3>1. PICK f \in F : /\ e = <<f.sourcePc, f.targetPc>>
                         /\ f.traceId \in Ran(c) /\ f.traceId + 1 \in Ran(c)
      BY <2>4
    <3>2. f.sourcePc = PcOf(t, f.traceId) /\ f.traceId \in Nat BY <1>1, <2>5, <2>7, <3>1
    <3>3. f.sourcePc \in DOMAIN Code BY <1>1, <3>1, <3>2
    <3>4. ASSUME Code[f.sourcePc].k = "branch"
          PROVE  f.traceId \in Branched(c) /\ f.targetPc = PcOf(t, f.traceId + 1)
      BY <1>6, <2>5, <2>6, <3>1, <3>2, <3>4
    <3> HIDE DEF t, rn, n
    <3> QED BY <3>1, <3>2, <3>3, <3>4
  <2>9. ASSUME NEW i \in Branched(c) PROVE <<PcOf(t, i), PcOf(t, i + 1)>> \in edges(Cand(c))
    <3>1. i \in Ran(c) /\ i + 1 \in Ran(c) /\ i \in 1..n /\ i \in Nat /\ Code[PcOf(t, i)].k = "branch"
      BY <1>1, <1>6
    <3>2. PICK f \in F : f.traceId = i BY <2>5, <2>7, <3>1
    <3>3. f.sourcePc = PcOf(t, i) /\ f.targetPc = PcOf(t, i + 1) BY <2>5, <2>6, <2>7, <3>1, <3>2
    <3>4. f \in {x \in F : {x.traceId, x.traceId + 1} \subseteq Ran(c)} BY <3>1, <3>2
    <3> QED BY <2>4, <3>3, <3>4
  <2> QED BY <2>8, <2>9
<1> QED BY <1>3, <1>8, <1>9

\* What an invocation must be.
Right(sel, c, i) ==
  LET here(pc) == sel.imageBase + pc
  IN  /\ i.functionTarget = here(made[c[1]][c[2]].entry)
      /\ i.executedPcs = {here(PcOf(c[1], n)) : n \in Ran(c)}
      /\ {e \in i.successors : \E p \in DOMAIN Code : Code[p].k = "branch" /\ e[1] = here(p)}
           = {<<here(PcOf(c[1], n)), here(PcOf(c[1], n + 1))>> : n \in Branched(c)}

\* What is made of it is right.
LEMMA InvocationIs ==
  ASSUME TraceInv, ended # "no", NEW sel \in Selections, NEW c \in Calls(sel), ~Unfinished(c)
  PROVE  /\ invocation(sel, Cand(c)).threadId = c[1]
         /\ invocation(sel, Cand(c)).callId = c[2]
         /\ Right(sel, c, invocation(sel, Cand(c)))
<1> DEFINE t == c[1]
           id == c[2]
           k == Cand(c)
           r == RowOf(t, id)
           v == invocation(sel, k)
           here(pc) == sel.imageBase + pc
<1>1. t \in Threads /\ id \in DOMAIN made[t] /\ c = <<t, id>> BY CallsAre
<1>2. r \in readCallGraph(t) /\ r.callId = id BY <1>1, RowOfIs
<1>3. k.thread = t /\ k.frame = r /\ k.base = RuntimeBase BY DEF Cand
<1>4. v.threadId = k.thread /\ v.callId = k.frame.callId BY DEF invocation
<1>5. v.functionTarget = (IF sel.imageBase # 0 /\ k.base # 0 /\ k.frame.calleeTarget >= k.base
                          THEN sel.imageBase + (k.frame.calleeTarget - k.base)
                          ELSE k.frame.calleeTarget)
  BY DEF invocation
<1>6. v.executedPcs = {rebase(sel, k, x.pc) : x \in ownRows(k)} BY DEF invocation
<1>7. v.successors = {<<rebase(sel, k, e[1]), rebase(sel, k, e[2])>> : e \in edges(k)}
  BY DEF invocation
<1> HIDE DEF r, v
<1>8. RuntimeBase \in Nat \ {0} BY <1>1, <1>2, BaseIs
<1>9. sel.imageBase \in Nat \ {0} BY TraceAssumption
<1>10. r.calleeTarget = RuntimeBase + made[t][id].entry /\ made[t][id].entry \in Nat \ {0}
  BY <1>1, <1>2, MatchesIs
<1>11. v.functionTarget = here(made[t][id].entry)
  BY <1>3, <1>5, <1>8, <1>9, <1>10
<1>12. \A p \in Nat : p < RuntimeBase => rebase(sel, k, p) = here(p)
  BY <1>3, <1>8, <1>9 DEF rebase
<1>13. /\ ownRows(k) = {[traceId |-> i, pc |-> PcOf(t, i)] : i \in Ran(c)}
       /\ \A i \in Ran(c) : /\ PcOf(t, i) \in DOMAIN Code /\ PcOf(t, i) \in Nat
                            /\ PcOf(t, i) < RuntimeBase
  BY OwnRowsAre
<1>14. /\ \A e \in edges(k) : e = <<e[1], e[2]>> /\ e[1] \in DOMAIN Code
       /\ \A e \in edges(k) : Code[e[1]].k = "branch" =>
              \E i \in Branched(c) : e = <<PcOf(t, i), PcOf(t, i + 1)>>
       /\ \A i \in Branched(c) : <<PcOf(t, i), PcOf(t, i + 1)>> \in edges(k)
  BY EdgesAre
<1>15. \A p \in DOMAIN Code : p \in Nat /\ p < RuntimeBase BY TraceAssumption
<1>16. \A i \in Branched(c) : i \in Ran(c) /\ i + 1 \in Ran(c) /\ Code[PcOf(t, i)].k = "branch"
  BY DEF Branched
<1> HIDE DEF t, k
<1>17. v.executedPcs = {here(PcOf(t, i)) : i \in Ran(c)}
  <2>1. \A i \in Ran(c) : rebase(sel, k, PcOf(t, i)) = here(PcOf(t, i)) BY <1>12, <1>13
  <2>2. {rebase(sel, k, x.pc) : x \in ownRows(k)} = {rebase(sel, k, PcOf(t, i)) : i \in Ran(c)}
    <3> DEFINE row(i) == [traceId |-> i, pc |-> PcOf(t, i)]
    <3>1. \A i \in Ran(c) : row(i) \in ownRows(k) /\ row(i).pc = PcOf(t, i) BY <1>13
    <3>2. \A x \in ownRows(k) : \E i \in Ran(c) : x = row(i) BY <1>13
    <3> HIDE DEF row
    <3>3. \A x \in ownRows(k) : \E i \in Ran(c) : x.pc = PcOf(t, i) BY <3>1, <3>2
    <3>4. \A i \in Ran(c) : \E x \in ownRows(k) : x.pc = PcOf(t, i) BY <3>1
    <3> QED BY <3>3, <3>4
  <2> QED BY <1>6, <2>1, <2>2
<1> DEFINE L == {e \in v.successors : \E p \in DOMAIN Code : Code[p].k = "branch" /\ e[1] = here(p)}
           R == {<<here(PcOf(t, i)), here(PcOf(t, i + 1))>> : i \in Branched(c)}
<1>18. ASSUME NEW x \in L PROVE x \in R
  <2>1. PICK e \in edges(k) : x = <<rebase(sel, k, e[1]), rebase(sel, k, e[2])>> BY <1>7
  <2>2. PICK p \in DOMAIN Code : Code[p].k = "branch" /\ x[1] = here(p) OBVIOUS
  <2>3. x[1] = here(e[1]) /\ e[1] \in Nat /\ p \in Nat
    <3>1. e[1] \in DOMAIN Code BY <1>14
    <3>2. x[1] = rebase(sel, k, e[1]) BY <2>1
    <3> QED BY <3>1, <3>2, <1>12, <1>15
  <2>4. e[1] = p BY <2>2, <2>3, <1>9
  <2>5. PICK i \in Branched(c) : e = <<PcOf(t, i), PcOf(t, i + 1)>> BY <1>14, <2>2, <2>4
  <2>6. i \in Ran(c) /\ i + 1 \in Ran(c) BY <1>16
  <2>7. rebase(sel, k, e[1]) = here(PcOf(t, i)) /\ rebase(sel, k, e[2]) = here(PcOf(t, i + 1))
    BY <1>12, <1>13, <2>5, <2>6
  <2> QED BY <2>1, <2>7
<1>19. ASSUME NEW i \in Branched(c) PROVE <<here(PcOf(t, i)), here(PcOf(t, i + 1))>> \in L
  <2>1. i \in Ran(c) /\ i + 1 \in Ran(c) /\ Code[PcOf(t, i)].k = "branch" BY <1>16
  <2> DEFINE e == <<PcOf(t, i), PcOf(t, i + 1)>>
  <2>2. e \in edges(k) BY <1>14
  <2>3. rebase(sel, k, e[1]) = here(PcOf(t, i)) /\ rebase(sel, k, e[2]) = here(PcOf(t, i + 1))
    BY <1>12, <1>13, <2>1
  <2>4. <<rebase(sel, k, e[1]), rebase(sel, k, e[2])>> \in v.successors
    <3> HIDE DEF e
    <3> QED BY <1>7, <2>2
  <2>5. <<here(PcOf(t, i)), here(PcOf(t, i + 1))>> \in v.successors BY <2>3, <2>4
  <2>6. PcOf(t, i) \in DOMAIN Code BY <1>13, <2>1
  <2> QED BY <2>1, <2>5, <2>6
<1>20. L = R
  <2>1. L \subseteq R BY <1>18
  <2>2. R \subseteq L
    <3> HIDE DEF L
    <3> QED BY <1>19
  <2> HIDE DEF L, R
  <2> QED BY <2>1, <2>2
<1>21. Right(sel, c, v) BY <1>11, <1>17, <1>20 DEF Right, t
<1>22. v.threadId = t /\ v.callId = id BY <1>2, <1>3, <1>4
<1> QED BY <1>21, <1>22 DEF v, t, k

-----------------------------------------------------------------------------
(***************************************************************************)
(* Loading, and what the driver is told.                                   *)
(***************************************************************************)
Complete(sel, invs) ==
  /\ {<<i.threadId, i.callId>> : i \in invs} = Wanted(sel)
  /\ \A c \in Wanted(sel) : \E i \in {j \in invs : j.threadId = c[1] /\ j.callId = c[2]} :
       Right(sel, c, i)

Lost(sel) == \E c \in Wanted(sel) : Unfinished(c) \/ Ran(c) = {}

\* Loading fails only over a call asked for that is open or executed nothing.
LEMMA UnloadableIs ==
  ASSUME TraceInv, ended # "no", NEW sel \in Selections
  PROVE  unloadable(sel) <=> Lost(sel)
<1>1. chosen(sel) = {Cand(c) : c \in Wanted(sel)} /\ Wanted(sel) \subseteq Matching(sel) BY ChosenAre
<1>2. \A c \in Wanted(sel) : c \in Calls(sel) BY <1>1 DEF Matching
<1>3. \A t \in selectedThreads(sel) : ordered(t, "trace") BY InOrder DEF selectedThreads
<1>4. ASSUME NEW c \in Wanted(sel)
      PROVE  /\ ordered(Cand(c).thread, "flow")
             /\ \A f, g \in readCallGraph(Cand(c).thread) : f.callId = g.callId => f = g
             /\ bodyInterval(Cand(c).frame) = {} <=> Unfinished(c) \/ Ran(c) = {}
  <2>1. c[1] \in Threads /\ c[2] \in DOMAIN made[c[1]] /\ c = <<c[1], c[2]>> BY <1>2, CallsAre
  <2> DEFINE t == c[1]
             r == RowOf(t, c[2])
  <2>2. r \in readCallGraph(t) /\ r.callId = c[2] BY <2>1, RowOfIs
  <2>3. Cand(c).thread = t /\ Cand(c).frame = r BY DEF Cand
  <2>4. \A f, g \in readCallGraph(t) : f.callId = g.callId => f = g BY <2>1, Frames
  <2>5. ordered(t, "flow") BY <2>1, InOrder
  <2> HIDE DEF r
  <2>6. bodyInterval(r) = {} <=> Unfinished(<<t, r.callId>>) \/ Ran(<<t, r.callId>>) = {}
    BY <2>1, <2>2, BodyEmpty
  <2>7. bodyInterval(r) = {} <=> Unfinished(c) \/ Ran(c) = {} BY <2>1, <2>2, <2>6
  <2> HIDE DEF t
  <2> QED BY <2>3, <2>4, <2>5, <2>7
<1>5. unloadable(sel) <=>
        \/ \E t \in selectedThreads(sel) : ~ordered(t, "trace")
        \/ \E c \in chosen(sel) :
             \/ version >= 6 /\ ~ordered(c.thread, "flow")
             \/ bodyInterval(c.frame) = {}
             \/ \E f, g \in readCallGraph(c.thread) : f # g /\ f.callId = g.callId
  BY DEF unloadable
<1>6. ASSUME unloadable(sel) PROVE Lost(sel)
  <2>1. PICK x \in chosen(sel) :
             \/ ~ordered(x.thread, "flow")
             \/ bodyInterval(x.frame) = {}
             \/ \E f, g \in readCallGraph(x.thread) : f # g /\ f.callId = g.callId
    BY <1>3, <1>5, <1>6
  <2>2. PICK c \in Wanted(sel) : x = Cand(c) BY <1>1
  <2>3. Unfinished(c) \/ Ran(c) = {} BY <1>4, <2>1, <2>2
  <2> QED BY <2>3 DEF Lost
<1>7. ASSUME Lost(sel) PROVE unloadable(sel)
  <2>1. PICK c \in Wanted(sel) : Unfinished(c) \/ Ran(c) = {} BY <1>7 DEF Lost
  <2>2. bodyInterval(Cand(c).frame) = {} BY <1>4, <2>1
  <2>3. Cand(c) \in chosen(sel) BY <1>1
  <2> QED BY <1>5, <2>2, <2>3
<1> QED BY <1>6, <1>7

\* What is loaded is complete and right.
LEMMA LoadExact ==
  ASSUME TraceInv, ended # "no", NEW sel \in Selections
  PROVE  /\ load(sel).selection = sel
         /\ load(sel).state = (IF Lost(sel) THEN "error" ELSE "loaded")
         /\ ~Lost(sel) => Complete(sel, load(sel).invocations)
<1>1. unloadable(sel) <=> Lost(sel) BY UnloadableIs
<1>2. load(sel).selection = sel /\ load(sel).state = (IF Lost(sel) THEN "error" ELSE "loaded")
  BY <1>1 DEF load
<1>3. ASSUME ~Lost(sel) PROVE Complete(sel, load(sel).invocations)
  <2> DEFINE invs == load(sel).invocations
             inv(c) == invocation(sel, Cand(c))
  <2>1. invs = {invocation(sel, x) : x \in chosen(sel)} BY <1>1, <1>3 DEF load
  <2>2. chosen(sel) = {Cand(c) : c \in Wanted(sel)} /\ Wanted(sel) \subseteq Matching(sel)
    BY ChosenAre
  <2>3. invs = {inv(c) : c \in Wanted(sel)} BY <2>1, <2>2
  <2>4. \A c \in Wanted(sel) : c \in Calls(sel) /\ ~Unfinished(c)
    BY <1>3, <2>2 DEF Matching, Lost
  <2>5. \A c \in Wanted(sel) :
          inv(c).threadId = c[1] /\ inv(c).callId = c[2] /\ Right(sel, c, inv(c))
    BY <2>4, InvocationIs
  <2>6. \A c \in Wanted(sel) : c = <<c[1], c[2]>> BY <2>4, CallsAre
  <2> HIDE DEF inv, invs
  <2>7. {<<i.threadId, i.callId>> : i \in invs} = Wanted(sel)
    <3>1. \A i \in invs : \E c \in Wanted(sel) : <<i.threadId, i.callId>> = c
      BY <2>3, <2>5, <2>6
    <3>2. \A c \in Wanted(sel) : \E i \in invs : c = <<i.threadId, i.callId>>
      BY <2>3, <2>5, <2>6
    <3> QED BY <3>1, <3>2
  <2>8. \A c \in Wanted(sel) : \E i \in {j \in invs : j.threadId = c[1] /\ j.callId = c[2]} :
          Right(sel, c, i)
    BY <2>3, <2>5
  <2>9. Complete(sel, invs) BY <2>7, <2>8 DEF Complete
  <2> QED BY <2>9 DEF invs
<1> QED BY <1>2, <1>3

\* A call that executed anything executed its function's entry.
LEMMA EntryRan ==
  ASSUME TraceInv, ended # "no", NEW sel, NEW c \in Calls(sel), Ran(c) # {}
  PROVE  \E i \in Ran(c) : PcOf(c[1], i) = made[c[1]][c[2]].entry
<1> DEFINE t == c[1]
           id == c[2]
           K == callsIn(db[t])
           st == stack[t]
           md == made[t]
           rn == ran[t]
           n == Len(rn)
           b == Begin(md[id])
<1>1. t \in Threads /\ id \in DOMAIN made[t] BY CallsAre
<1>2. n \in Nat /\ Core(K, st, md, rn, ended) BY <1>1, Frames
<1>3. TreeOK(md) /\ Begun(md, rn) /\ OwnOK(K, st, md, rn) BY <1>2 DEF Core
<1>4. id \in 1..Len(md) /\ md[id] \in CallSet BY <1>1, RowOfIs
<1>5. b \in Nat \ {0} BY <1>4, BeginNat
<1>6. PICK i \in 1..n : rn[i].call = id BY DEF Ran, RowCount
<1>7. b <= i /\ i <= n BY <1>3, <1>6 DEF OwnOK, Span
<1>8. b \in 1..n BY <1>2, <1>5, <1>7
<1>9. rn[b].call = id /\ rn[b].pc = md[id].entry
  <2>1. b <= n BY <1>2, <1>8
  <2> QED BY <1>3, <1>4, <2>1 DEF Begun
<1>10. b \in Ran(c) BY <1>8, <1>9 DEF Ran, RowCount
<1> QED BY <1>9, <1>10 DEF PcOf

\* The entry of a function asked for is covered, unless calls were asked for by
\* their ids.
LEMMA EntryCovered ==
  ASSUME TraceInv, ended # "no", NEW sel \in Selections, NEW invs, Complete(sel, invs),
         ~Lost(sel), invs # {}, sel.callIds = {}
  PROVE  \E i \in invs : sel.functionTarget \in i.executedPcs
<1>1. PICK j \in invs : TRUE OBVIOUS
<1>2. <<j.threadId, j.callId>> \in Wanted(sel) BY <1>1 DEF Complete
<1>3. PICK c \in Wanted(sel) : TRUE BY <1>2
<1>4. c \in Matching(sel) BY ChosenAre
<1>5. c \in Calls(sel) /\ sel.functionTarget = sel.imageBase + made[c[1]][c[2]].entry
  BY <1>4 DEF Matching
<1>6. Ran(c) # {} BY DEF Lost
<1>7. PICK n \in Ran(c) : PcOf(c[1], n) = made[c[1]][c[2]].entry BY <1>5, <1>6, EntryRan
<1>8. PICK i \in invs : Right(sel, c, i) BY DEF Complete
<1>9. i.executedPcs = {sel.imageBase + PcOf(c[1], m) : m \in Ran(c)} BY <1>8 DEF Right
<1>10. sel.functionTarget \in i.executedPcs BY <1>5, <1>7, <1>9
<1> QED BY <1>10

-----------------------------------------------------------------------------
(***************************************************************************)
(* The coverage is exact.                                                  *)
(***************************************************************************)
Exact ==
  cover.state # "none" =>
    /\ cover.state = "error" <=> Lost(cover.selection)
    /\ cover.state # "error" => Complete(cover.selection, cover.invocations)
    /\ cover.state = "not covered" => cover.selection.callIds # {}

\* What happened is not changed by reading it.
LEMMA SameHistory ==
  ASSUME UNCHANGED <<guestVars, ended>>
  PROVE  /\ \A sel : Lost(sel)' <=> Lost(sel)
         /\ \A sel, invs : Complete(sel, invs)' <=> Complete(sel, invs)
<1>1. \A sel : Matching(sel)' = Matching(sel)
  BY DEF Matching, Calls, selectedThreads, guestVars
<1>2. \A sel, c : Rank(sel, c)' = Rank(sel, c) BY <1>1 DEF Rank
<1>3. \A sel : Wanted(sel)' = Wanted(sel) BY <1>1, <1>2 DEF Wanted
<1>4. \A c : Ran(c)' = Ran(c) /\ (Unfinished(c)' <=> Unfinished(c))
  BY DEF Ran, RowCount, Unfinished, guestVars
<1>5. \A t, i : PcOf(t, i)' = PcOf(t, i) BY DEF PcOf, guestVars
<1>6. \A c : Branched(c)' = Branched(c) BY <1>4, <1>5 DEF Branched
<1>7. \A sel, c, i : Right(sel, c, i)' <=> Right(sel, c, i)
  BY <1>4, <1>5, <1>6 DEF Right, guestVars
<1>8. \A sel : Lost(sel)' <=> Lost(sel) BY <1>3, <1>4 DEF Lost
<1>9. \A sel, invs : Complete(sel, invs)' <=> Complete(sel, invs) BY <1>3, <1>7 DEF Complete
<1> QED BY <1>8, <1>9

\* Reading a trace is exact, and so is what becomes of it.
LEMMA ExactNext == TraceInv /\ Exact /\ [TraceNext]_traceVars => Exact'
<1> SUFFICES ASSUME TraceInv, Exact, [TraceNext]_traceVars PROVE Exact' OBVIOUS
<1>0. CoverOK BY DEF TraceInv
<1>1. ASSUME cover' = cover, ended = "no" PROVE Exact'
  <2>1. cover.state = "none" BY <1>0, <1>1 DEF CoverOK
  <2> QED BY <1>1, <2>1 DEF Exact
<1>2. ASSUME NEW t \in Threads, Execute(t) \/ RollSegment(t) \/ ReturnIn(t) PROVE Exact'
  <2>1. cover' = cover /\ ended = "no"
    BY <1>2 DEF Execute, RollSegment, ReturnIn, GoOn, CallOn, CallOut, Return, Record
  <2> QED BY <2>1, <1>1
<1>3. ASSUME NEW t \in Threads, NEW f, CallIn(t, f) PROVE Exact' BY <1>3, <1>1 DEF CallIn
<1>4. ASSUME NEW how, EndTrace(how) PROVE Exact' BY <1>4, <1>1 DEF EndTrace
<1>5. ASSUME UNCHANGED <<guestVars, ended>>, NEW cv, cover' = cv, cv.state # "none" =>
               /\ cv.state = "error" <=> Lost(cv.selection)
               /\ cv.state # "error" => Complete(cv.selection, cv.invocations)
               /\ cv.state = "not covered" => cv.selection.callIds # {}
      PROVE  Exact'
  <2>1. /\ \A sel : Lost(sel)' <=> Lost(sel)
        /\ \A sel, invs : Complete(sel, invs)' <=> Complete(sel, invs)
    BY <1>5, SameHistory
  <2>2. Lost(cv.selection)' <=> Lost(cv.selection) BY <2>1
  <2>3. Complete(cv.selection, cv.invocations)' <=> Complete(cv.selection, cv.invocations) BY <2>1
  <2> QED BY <1>5, <2>2, <2>3 DEF Exact
<1>6. ASSUME NEW sel \in Selections, Decompile(sel) PROVE Exact'
  <2>1. cover' = load(sel) /\ ended # "no" /\ UNCHANGED <<guestVars, ended>> BY <1>6 DEF Decompile
  <2>2. PICK cv : cv = load(sel) OBVIOUS
  <2>3. /\ cv.selection = sel /\ cv.state = (IF Lost(sel) THEN "error" ELSE "loaded")
        /\ ~Lost(sel) => Complete(sel, cv.invocations)
    BY <2>1, <2>2, LoadExact
  <2>4. /\ cv.state = "error" <=> Lost(cv.selection)
        /\ cv.state # "error" => Complete(cv.selection, cv.invocations)
        /\ cv.state # "not covered"
    BY <2>3
  <2> QED BY <1>5, <2>1, <2>2, <2>4
<1>7. ASSUME HandOver PROVE Exact'
  <2> DEFINE s == IF cover.invocations = {} THEN "no invocation"
                  ELSE IF ~contains(cover.selection.functionTarget) THEN "not covered" ELSE "lifting"
             sel == cover.selection
  <2>1. UNCHANGED <<guestVars, ended>> /\ cover.state = "loaded" /\ cover' = [cover EXCEPT !.state = s]
    BY <1>7 DEF HandOver
  <2>2. PICK cv : cv = cover' OBVIOUS
  <2>3. cv.state \in {cover.state, s} /\ cv.selection = sel /\ cv.invocations = cover.invocations
    <3> HIDE DEF s
    <3> QED BY <2>1, <2>2
  <2>4. ended # "no" /\ sel \in Selections BY <1>0, <2>1 DEF CoverOK
  <2>5. ~Lost(sel) /\ Complete(sel, cover.invocations) BY <2>1 DEF Exact
  <2>6. s = "not covered" => sel.callIds # {}
    <3> SUFFICES ASSUME s = "not covered", sel.callIds = {} PROVE FALSE OBVIOUS
    <3>1. cover.invocations # {} /\ ~contains(sel.functionTarget) OBVIOUS
    <3>2. PICK invs : invs = cover.invocations OBVIOUS
    <3>3. PICK q \in Selections : q = sel BY <2>4
    <3>4. \E i \in invs : q.functionTarget \in i.executedPcs
      BY <2>4, <2>5, <3>1, <3>2, <3>3, EntryCovered
    <3> QED BY <3>1, <3>2, <3>3, <3>4 DEF contains
  <2>7. s # "error" OBVIOUS
  <2> HIDE DEF s, sel
  <2>8. cv.state # "none" =>
               /\ cv.state = "error" <=> Lost(cv.selection)
               /\ cv.state # "error" => Complete(cv.selection, cv.invocations)
               /\ cv.state = "not covered" => cv.selection.callIds # {}
    BY <2>1, <2>3, <2>5, <2>6, <2>7
  <2> QED BY <1>5, <2>1, <2>2, <2>8
<1>8. ASSUME UNCHANGED traceVars PROVE Exact'
  <2>1. UNCHANGED <<guestVars, ended>> /\ cover' = cover BY <1>8 DEF traceVars, guestVars
  <2>2. PICK cv : cv = cover OBVIOUS
  <2> QED BY <1>5, <2>1, <2>2 DEF Exact
<1> QED BY <1>2, <1>3, <1>4, <1>6, <1>7, <1>8 DEF TraceNext

\* The invariant says of the coverage what the property does.
LEMMA ExactIs == Exact => CoverageExact
<1> SUFFICES ASSUME Exact, cover.state # "none" PROVE CoverageExact BY DEF CoverageExact
<1> DEFINE sel == cover.selection
<1>1. /\ cover.state = "error" <=> \E c \in Wanted(sel) : Unfinished(c) \/ Ran(c) = {}
      /\ cover.state = "not covered" => sel.callIds # {}
      /\ cover.state # "error" => Complete(sel, cover.invocations)
  BY DEF Exact, Lost
<1> QED BY <1>1 DEF CoverageExact, Complete, Right

\* "xdec can decompile exactly the control flow covered by one tracedb engine"
\* (docs/26), for every module, every number of threads, every length of the
\* trace and every request: an invocation is given exactly the instructions it
\* executed itself and the branches it took, whatever the other calls and threads
\* did (ExecutionCoverage::load, execution_coverage.cpp:80-227).
THEOREM CoverageIsExact == TraceSpec => []CoverageExact
<1>1. TraceInit => Exact BY DEF TraceInit, NoCover, Exact
<1> QED BY <1>1, TraceInvInit, TraceInvNext, ExactNext, ExactIs, PTL DEF TraceSpec
=============================================================================
