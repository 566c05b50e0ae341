---------------------------- MODULE IndirectPasses ----------------------------
(***************************************************************************)
(* resolve-indirect: where a computed branch can go.  Three sources are    *)
(* asked in turn: the jump table under the target, the target's value set, *)
(* and a bounded walk of the function's paths.  Instructions have no       *)
(* addresses of their own here, only blocks have, so no candidate lies     *)
(* between a branch and its table read (skipsOwnTableRead).                *)
(***************************************************************************)
EXTENDS IndexBound

CONSTANTS
  maxPaths,           \* the blocks the walk steps in all
  maxStepsPerPath,    \* the blocks one path steps
  maxBlockRevisits,   \* the times one path steps one block
  kMaxOffsetSpan      \* how far from its anchor a relative entry may point

(***************************************************************************)
(* stack_canary.cpp: the checks of a saved stack guard.                    *)
(***************************************************************************)
loadDefining(f, e) == LET d == DefinitionOf(f, e.n)
                      IN  IF e.op # "Value" THEN NoOp ELSE IF d.code = "Load" THEN d ELSE NoOp
AddressKindOf(f, op) == IF op = NoOp THEN "none" ELSE classify(op.args[1]).kind

\* Stack displacement -> address of the guard saved there, the first save counting.
findGuardSaves(f) ==
  FoldLeft(LAMBDA saves, s :
             LET op == OpAt(f, s)
                 guard == loadDefining(f, op.args[2])
                 slot == classify(op.args[1])
             IN  IF op.code # "Store" THEN saves
                 ELSE IF slot.kind # "StackSlot" \/ AddressKindOf(f, guard) # "Global" \/ slot.base \in DOMAIN saves THEN saves
                 ELSE Put(saves, slot.base, classify(guard.args[1]).base),
           Nothing, SiteOrder(f))

\* The condition compares a reload of a guard with the copy saved of it.
isCanaryCheck(f, cond) ==
  LET saves == findGuardSaves(f)
      checks(x, y) == LET reload == loadDefining(f, x)
                          saved == loadDefining(f, y)
                      IN  /\ AddressKindOf(f, reload) = "Global" /\ AddressKindOf(f, saved) = "StackSlot"
                          /\ LET d == classify(saved.args[1]).base
                             IN  d \in DOMAIN saves /\ saves[d] = classify(reload.args[1]).base
  IN  IF cond.op \notin {"CmpEq", "CmpNe"} THEN FALSE ELSE checks(cond.a[1], cond.a[2]) \/ checks(cond.a[2], cond.a[1])

looksLikeBareCallBlock(f, b) ==
  LET ops == f.blocks[b]
  IN  Len(ops) = 2 /\ ops[1].code = "Call" /\ ops[2].code \in {"Unreachable", "Return"}

\* The arm of a canary check that reports the mismatch; 0 for none.
canaryFailSuccessor(f, t) ==
  LET bare(i) == looksLikeBareCallBlock(f, t.to[i])
  IN  IF ~isCanaryCheck(f, t.args[1]) \/ bare(1) = bare(2) THEN 0 ELSE IF bare(1) THEN t.to[1] ELSE t.to[2]

(***************************************************************************)
(* path_state.cpp: what one path knows.  An expression is evaluated once   *)
(* per path; its value is kept even when a value in it is bound again.     *)
(***************************************************************************)
NewPathState == [values |-> Nothing, memo |-> Nothing, store |-> Nothing, visits |-> Nothing, steps |-> 0,
                 out |-> Top, outs |-> <<>>]

RECURSIVE pathEval(_, _)
PathEach(st, es) ==
  FoldLeft(LAMBDA s, e : LET x == pathEval(s, e) IN [x EXCEPT !.outs = Append(s.outs, x.out)],
           [st EXCEPT !.outs = <<>>], es)

pathEval(st, e) ==
  LET cond == pathEval(st, e.a[1])
      each == PathEach(st, e.a)
      both == PathEach(cond, Tail(e.a))
      r == CASE e.op = "Const" -> [st EXCEPT !.out = {e.n}]
             [] e.op = "Value" -> [st EXCEPT !.out = IF e.n \in DOMAIN st.values THEN st.values[e.n] ELSE Top]
             [] e.op = "Select" -> IF cond.out # Top /\ Cardinality(cond.out) = 1
                                   THEN pathEval(cond, e.a[IF cond.out # {0} THEN 2 ELSE 3])
                                   ELSE [both EXCEPT !.out = unite(both.outs[1], both.outs[2])]
             [] e.op \in Evaluated -> [each EXCEPT !.out = Crossed(e, each.outs)]
             [] OTHER -> [st EXCEPT !.out = Top]
  IN  IF e \in DOMAIN st.memo THEN [st EXCEPT !.out = st.memo[e]]
      ELSE [r EXCEPT !.memo = Put(@, e, r.out), !.outs = st.outs]

\* This path's own stores first, then the image.
pathLoad(st, addresses, w) ==
  LET own(a) == a \in DOMAIN st.store
      unknown(a) == IF own(a) THEN st.store[a].width # w ELSE ~(Bytes(a, w) \subseteq DOMAIN Image)
      at(a) == IF own(a) THEN st.store[a].value ELSE {LoadFrom(Image, a, w)}
  IN  IF addresses = Top THEN Top
      ELSE IF \E a \in addresses : unknown(a) THEN Top
      ELSE FoldSet(LAMBDA a, acc : unite(acc, at(a)), {}, addresses)

recordStore(st, addr, w, value) ==
  LET a == pathEval(st, addr)
      v == pathEval(a, value)
      into == a.out
  IN  IF into = Top \/ Cardinality(into) > 4 THEN [v EXCEPT !.store = Nothing]
      ELSE [v EXCEPT !.store = [x \in DOMAIN @ \cup into |-> IF x \in into THEN [value |-> v.out, width |-> w] ELSE @[x]]]

\* path_interpreter.cpp: the ops of a block that was entered from another.
Bind(st, v, set) == [st EXCEPT !.values = Put(@, v, set)]
stepBlock(f, b, cameFrom, st0) ==
  LET slots == {i \in DOMAIN Preds(f, b) : Preds(f, b)[i] = cameFrom}
      step(st, op) ==
        LET x == pathEval(st, op.args[1])
            phi == pathEval(st, op.args[Min(slots)])
        IN  CASE op.code = "Phi" -> IF slots = {} THEN Bind(st, op.res, Top)
                                    ELSE IF Min(slots) > Len(op.args) THEN Bind(st, op.res, Top)
                                    ELSE Bind(phi, op.res, phi.out)
              [] op.code = "Load" -> Bind(x, op.res, pathLoad(x, x.out, op.w))
              [] op.code = "Store" -> recordStore(st, op.args[1], op.w, op.args[2])
              [] OTHER -> st
  IN  FoldLeft(step, st0, f.blocks[b])

(***************************************************************************)
(* path_explorer.cpp: a stack of continuations; results[b] is where the    *)
(* branch that ends block b was seen to go.                                *)
(***************************************************************************)
readable(va) == va \in DOMAIN Image

\* The candidate a value stands for: itself, or what is left of a tagged pointer.
CandidateOf(va) == IF va = 0 THEN 0 ELSE IF readable(va) THEN va
                   ELSE IF Decoded(va) # va /\ readable(Decoded(va)) THEN Decoded(va) ELSE 0
CandidatesOf(set) == IF set = Top THEN {} ELSE {CandidateOf(v) : v \in set} \ {0}

recordIndirectTarget(results, b, set) ==
  IF CandidatesOf(set) = {} THEN results
  ELSE Put(results, b, CandidatesOf(set) \cup (IF b \in DOMAIN results THEN results[b] ELSE {}))

Visits(st, b) == IF b \in DOMAIN st.visits THEN st.visits[b] ELSE 0

\* The arms of a conditional branch worth following.
ArmsOf(f, t, condition) ==
  LET decided == condition # Top /\ Cardinality(condition) = 1
      taken == IF ~decided THEN {1, 2} ELSE IF condition = {0} THEN {2} ELSE {1}
      arms == SelectSeq(<<1, 2>>, LAMBDA i : i \in taken /\ t.to[i] # canaryFailSuccessor(f, t))
  IN  MapSeq(arms, LAMBDA i : t.to[i])

\* The blocks a path goes on to, and the state it takes there.
Onward(f, t, st) ==
  LET cond == pathEval(st, t.args[1])
  IN  CASE t.code \in {"Branch", "IndirectBranch"} -> [to |-> t.to, state |-> st]
        [] t.code = "CondBranch" -> [to |-> ArmsOf(f, t, cond.out), state |-> cond]
        [] OTHER -> [to |-> <<>>, state |-> st]

RECURSIVE explore(_, _, _, _)
explore(f, work, popped, results) ==
  LET item == Last(work)
      visits == Visits(item.state, item.block)
      entered == [item.state EXCEPT !.visits = Put(@, item.block, visits + 1), !.steps = @ + 1]
      done == stepBlock(f, item.block, item.from, entered)
      t == Last(f.blocks[item.block])
      on == Onward(f, t, done)
      open == t.code = "IndirectBranch" /\ t.to = <<>>
  IN  IF work = <<>> \/ popped = maxPaths THEN results
      ELSE IF item.state.steps >= maxStepsPerPath \/ visits >= maxBlockRevisits
      THEN explore(f, Front(work), popped + 1, results)
      ELSE explore(f, Front(work) \o MapSeq(on.to, LAMBDA b : [block |-> b, from |-> item.block, state |-> on.state]),
                   popped + 1,
                   IF open THEN recordIndirectTarget(results, item.block, pathEval(done, t.args[1]).out) ELSE results)

exploreFrom(f) == explore(f, <<[block |-> 1, from |-> 0, state |-> NewPathState]>>, 0, Nothing)

(***************************************************************************)
(* Table entries.                                                          *)
(***************************************************************************)
\* An address here is a block's number, so an entry that is no multiple of an
\* instruction's size, which the code refuses, does not arise.
entryTarget(table, index) ==
  LET slot == (table.base + index * table.stride) % 2^WordBits
      entry == LoadFrom(Image, slot, table.bits)
      offset == (IF table.signed THEN SExt(entry, table.bits, WordBits) ELSE entry) * 2^table.shift
      va == IF table.relative THEN (table.anchor + offset) % 2^WordBits ELSE entry
  IN  IF ~(Bytes(slot, table.bits) \subseteq DOMAIN Image) THEN Undef
      ELSE IF table.relative /\ Abs(va - table.anchor) > kMaxOffsetSpan THEN Undef ELSE va

\* The targets of some entries; none at all when one contradicts the bound or,
\* unless such entries are tolerated, is not code.
entriesFor(table, proven, indices, tolerate) ==
  LET visit(st, i) ==
        LET va == entryTarget(table, i)
            code == IF va = Undef THEN Undef ELSE decodeIfNeeded(va)
        IN  IF proven # Undef /\ i > proven THEN [st EXCEPT !.bad = TRUE]
            ELSE IF ~table.relative /\ va = 0 THEN st
            ELSE IF code # Undef THEN [st EXCEPT !.out = Append(@, code)]
            ELSE [st EXCEPT !.bad = @ \/ ~tolerate]
      all == FoldLeft(visit, [out |-> <<>>, bad |-> FALSE], indices)
  IN  IF all.bad THEN <<>> ELSE all.out

Sorted(vs) == SetToSortSeq(vs, <)

tableCandidates(f, ev, idom, b, target) ==
  LET table == matchJumpTable(f, ev, target)
      index == table.index[1]
      proven == boundOnIndex(f, idom, b, index)
      values == evalSet(f, table.ev, index)
      shaped == preciseIndexSet(f, index)
      byValue == IF values.out = Top THEN <<>> ELSE entriesFor(table, proven, Sorted(values.out), TRUE)
      byShape == IF shaped = Top THEN <<>> ELSE entriesFor(table, proven, Sorted(shaped), TRUE)
      byGuard == IF proven = Undef THEN <<>> ELSE entriesFor(table, proven, [i \in 1..(proven + 1) |-> i - 1], FALSE)
  IN  IF ~table.found THEN [ev |-> table.ev, out |-> <<>>]
      ELSE IF table.stride = 0 \/ table.index = <<>> THEN [ev |-> table.ev, out |-> <<>>]
      ELSE [ev |-> values, out |-> IF byValue # <<>> THEN byValue ELSE IF byShape # <<>> THEN byShape ELSE byGuard]

(***************************************************************************)
(* The pass.  st: the function, the evaluator, and the walk's results once *)
(* a branch has needed them.                                               *)
(***************************************************************************)
isOpenBranch(f, b) ==
  IF f.blocks[b] = <<>> THEN FALSE
  ELSE LET t == Last(f.blocks[b]) IN t.code = "IndirectBranch" /\ t.to = <<>>

resolveOne(st, idom, b) ==
  LET f == st.f
      t == Last(f.blocks[b])
      table == tableCandidates(f, st.ev, idom, b, t.args[1])
      set == evalSet(f, table.ev, t.args[1])
      byTable == table.out
      byValue == Sorted(CandidatesOf(set.out))
      paths == IF st.explored THEN st.paths ELSE exploreFrom(f)
      byPath == IF b \in DOMAIN paths THEN Sorted(paths[b]) ELSE <<>>
      asked == IF byTable # <<>> THEN [st EXCEPT !.ev = table.ev]
               ELSE IF byValue # <<>> THEN [st EXCEPT !.ev = set]
               ELSE [st EXCEPT !.ev = set, !.explored = TRUE, !.paths = paths]
      candidates == IF byTable # <<>> THEN byTable ELSE IF byValue # <<>> THEN byValue ELSE byPath
  IN  IF ~isOpenBranch(f, b) THEN st
      ELSE IF candidates = <<>> \/ ~(ToSet(candidates) \subseteq DOMAIN f.blocks) THEN asked
      ELSE [asked EXCEPT !.f = setTerminator(f, b, appendIndirectBranch(t.args[1], candidates))]

resolveIndirect(f) ==
  rebuildEdges(FoldLeft(LAMBDA st, b : resolveOne(st, Idom(f), b),
                        [f |-> f, ev |-> NewEvaluator(DOMAIN Image), explored |-> FALSE, paths |-> Nothing],
                        [b \in 1..Len(f.blocks) |-> b]).f)

\* Every open branch the entry reaches becomes a marked hole.
seal(f) ==
  LET idom == Idom(f)
      hole(b) == idom[b] # 0 /\ isOpenBranch(f, b)
      sealed(b, ops) == IF hole(b) THEN Append(Front(ops), mkop("Unimplemented", 0, 0, "", <<>>, <<>>)) ELSE ops
  IN  rebuildEdges([f EXCEPT !.blocks = <<>> \o [b \in DOMAIN @ |-> sealed(b, @[b])]])

(***************************************************************************)
(* What the driver carries from one lifting to the next.                   *)
(***************************************************************************)
harvest(f) ==
  LET resolved == {b \in DOMAIN f.blocks : f.blocks[b] # <<>> /\ Last(f.blocks[b]).code = "IndirectBranch"
                                             /\ Last(f.blocks[b]).to # <<>>}
  IN  [b \in resolved |-> Last(f.blocks[b]).to]

absorb(known, found) ==
  LET was(b) == IF b \in DOMAIN known THEN known[b] ELSE <<>>
      add(mine, t) == IF t \in ToSet(mine) THEN mine ELSE Append(mine, t)
  IN  [b \in DOMAIN known \cup DOMAIN found |-> IF b \in DOMAIN found THEN FoldLeft(add, was(b), found[b]) ELSE known[b]]

applyResolutions(f, known) ==
  LET put(b, ops) == IF isOpenBranch(f, b) /\ b \in DOMAIN known
                     THEN Append(Front(ops), [Last(ops) EXCEPT !.to = known[b]]) ELSE ops
  IN  rebuildEdges([f EXCEPT !.blocks = <<>> \o [b \in DOMAIN @ |-> put(b, @[b])]])
=============================================================================
