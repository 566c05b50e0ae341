------------------------------ MODULE SsaPasses ------------------------------
(***************************************************************************)
(* Register SSA and the passes over it: ssa-construct, ssa-optimize,       *)
(* and const-fold-memory.                                                 *)
(***************************************************************************)
EXTENDS LocalPasses

TrackedRoots == SelectSeq(RootOrder, tracked)

(***************************************************************************)
(* The name of a call's target, folded from constants through casts and    *)
(* sums, as far as it matters here: whether it is a helper that preserves  *)
(* the registers.                                                          *)
(***************************************************************************)
RECURSIVE foldAddress(_)
foldAddress(e) ==
  IF IsConst(e) THEN e.n
  ELSE IF e.op \in {"ZExt", "SExt", "Trunc", "Bitcast"} THEN foldAddress(e.a[1])
  ELSE IF e.op \in {"Add", "Sub"}
       THEN LET l == foldAddress(e.a[1])
                r == foldAddress(e.a[2])
            IN  IF l = Undef \/ r = Undef THEN Undef
                ELSE (IF e.op = "Add" THEN l + r ELSE l - r) % 2^WordBits
  ELSE Undef

callsRegisterPreservingHelper(target) == foldAddress(target) \in Helpers

(***************************************************************************)
(* ssa-construct.                                                          *)
(***************************************************************************)
DefBlocks(f, live, r) ==
  {b \in live : \E i \in DOMAIN f.blocks[b] :
     LET op == f.blocks[b][i]
     IN  \/ op.code = "WriteReg" /\ Regs[op.reg].root = r
         \/ op.code = "Call" /\ clobbers(r)}

\* The value a register arrives with is a definition in the entry block.
collectDefSites(f, live, r) ==
  LET defs == DefBlocks(f, live, r) IN IF defs = {} THEN {} ELSE defs \cup {1}

RECURSIVE IteratedFrontier(_, _)
IteratedFrontier(frontier, blocks) ==
  LET all == blocks \cup UNION {frontier[b] : b \in blocks}
  IN  IF all = blocks THEN UNION {frontier[b] : b \in blocks} ELSE IteratedFrontier(frontier, all)

placePhis(f, frontier, live) ==
  FoldLeft(LAMBDA g, r :
             LET defs == collectDefSites(f, live, r)
                 joins == IteratedFrontier(frontier, defs)
             IN  IF Cardinality(defs) < 2 THEN g
                 ELSE FoldLeft(LAMBDA h, b : prependPhi(h, b, Regs[r].w, r), g, SetToSortSeq(joins, <)),
           f, TrackedRoots)

readAs(r, version) == IF Regs[r].root = r THEN version ELSE extract(Regs[r].w, version, Regs[r].off)
writeAs(r, written) ==
  LET root == Regs[r].root
  IN  IF root = r THEN written
      ELSE IF Regs[r].zext THEN cast("ZExt", Regs[root].w, written)
      ELSE undefined(Regs[root].w)

Versions(st, roots) == MapSeq(roots, LAMBDA r : st.version[r])

\* Renaming one op: version is what each root holds, subst what each read
\* denotes, extra the operands a call, open branch or return gains.
RenameOp(st, site, op) ==
  LET keep == op.reg \notin DOMAIN Regs \/ ~tracked(op.reg)
      call == callsRegisterPreservingHelper(apply(st.subst, op.args[1]))
      dies(r) == clobbers(r) /\ (call => registerPreservingHelperClobbers(r))
  IN  CASE op.code = "Phi" -> [st EXCEPT !.version[op.reg] = valueRef(op.w, op.res)]
        [] op.code = "ReadReg" /\ ~keep ->
             [st EXCEPT !.subst = SubstSet(@, op.res, readAs(op.reg, st.version[Regs[op.reg].root]))]
        [] op.code = "WriteReg" /\ ~keep ->
             [st EXCEPT !.version[Regs[op.reg].root] = writeAs(op.reg, apply(st.subst, op.args[1]))]
        [] op.code = "Call" ->
             [st EXCEPT !.extra = Put(@, site, IF call THEN <<>> ELSE Versions(st, ArgRoots)),
                        !.version = [r \in DOMAIN @ |->
                           IF ~dies(r) THEN @[r]
                           ELSE IF r = ResultRoot /\ op.res # 0 THEN valueRef(op.w, op.res)
                           ELSE undefined(Regs[r].w)]]
        [] op.code = "IndirectBranch" /\ op.to = <<>> ->
             [st EXCEPT !.extra = Put(@, site, Versions(st, ArgRoots))]
        [] op.code = "Return" -> [st EXCEPT !.extra = Put(@, site, Versions(st, <<ResultRoot>>))]
        [] OTHER -> st

RECURSIVE renameBlock(_, _, _, _)
renameBlock(f, idom, b, st) ==
  LET ops == f.blocks[b]
      body == FoldLeft(LAMBDA s, i : RenameOp(s, <<b, i>>, ops[i]), st, [i \in 1..Len(ops) |-> i])
      phisOf(t) == {op \in ToSet(f.blocks[t]) : op.code = "Phi"}
      slots(t) == {i \in DOMAIN Preds(f, t) : Preds(f, t)[i] = b}
      fed == {<<op.res, i>> : op \in UNION {phisOf(t) : t \in SuccSet(f, b)},
                              i \in UNION {slots(t) : t \in SuccSet(f, b)}}
      regOf(v) == DefinitionOf(f, v).reg
      sent == [st EXCEPT !.subst = body.subst, !.extra = body.extra,
                 !.inputs = [p \in DOMAIN @ \cup fed |->
                               IF p \in fed /\ p[2] \in slots(CHOOSE t \in SuccSet(f, b) :
                                                               \E op \in phisOf(t) : op.res = p[1])
                               THEN body.version[regOf(p[1])]
                               ELSE IF p \in DOMAIN @ THEN @[p] ELSE undefined(0)]]
      children == SetToSortSeq({c \in CFGBlocks(f) \ {b, 1} : idom[c] = b}, <)
      below(s, c) == [renameBlock(f, idom, c, [s EXCEPT !.version = body.version])
                        EXCEPT !.version = st.version]
  IN  FoldLeft(below, sent, children)

substituteOperands(f, live, st) ==
  LET fresh(b, i) ==
        LET op == f.blocks[b][i]
        IN  IF b \notin live THEN op
            ELSE IF op.code = "Phi"
                 THEN [op EXCEPT !.args = <<>> \o [k \in DOMAIN Preds(f, b) |->
                         IF Preds(f, b)[k] \in live THEN st.inputs[<<op.res, k>>] ELSE undefined(op.w)]]
            ELSE [applyAll(st.subst, op) EXCEPT
                    !.args = IF <<b, i>> \in DOMAIN st.extra THEN @ \o st.extra[<<b, i>>] ELSE @]
  IN  [f EXCEPT !.blocks = <<>> \o [b \in DOMAIN @ |-> <<>> \o [i \in DOMAIN @[b] |-> fresh(b, i)]]]

removeRegisterOps(f, live) ==
  removeOps(f, {s \in Sites(f) : s[1] \in live /\ OpAt(f, s).code \in {"ReadReg", "WriteReg"}
                                               /\ tracked(OpAt(f, s).reg)})

ssaConstruct(f) ==
  LET idom == Idom(f)
      live == {b \in CFGBlocks(f) : idom[b] # 0}
      g == placePhis(f, Frontier(f, idom), live)
      entry == [version |-> [r \in ToSet(TrackedRoots) |-> entryReg(Regs[r].w, r)],
                subst |-> NoSubst, extra |-> Nothing, inputs |-> Nothing]
      st == renameBlock(g, idom, 1, entry)
  IN  [removeRegisterOps(substituteOperands(g, live, st), live) EXCEPT !.level = "Ssa"]

(***************************************************************************)
(* Sparse conditional constant propagation.  A cell is Unknown, Over or    *)
(* the constant itself; a value without a cell is Unknown.                 *)
(***************************************************************************)
Unknown == -2
Over == -3

RECURSIVE CellOf(_, _)
CellOf(cells, e) ==
  CASE e.op = "Const" -> e.n
    [] e.op = "Value" -> (IF e.n \in DOMAIN cells THEN cells[e.n] ELSE Unknown)
    [] e.op # "Value" /\ e.op # "Const" /\ e.a = <<>> -> Over
    [] OTHER ->
         LET c == <<>> \o [i \in DOMAIN e.a |-> CellOf(cells, e.a[i])]
             known == [e EXCEPT !.a = <<>> \o [i \in DOMAIN e.a |-> constant(e.a[i].w, c[i])]]
         IN  IF \E i \in DOMAIN c : c[i] = Over THEN Over
             ELSE IF \E i \in DOMAIN c : c[i] = Unknown THEN Unknown
             ELSE IF e.w = 0 THEN Over
             ELSE tryEvalConst(known)

meet(x, y) == IF x = Unknown THEN y ELSE IF y = Unknown THEN x ELSE IF x = y THEN x ELSE Over

\* Ops are named by their sites; the newest work is taken first.
updateCell(f, s, v, cell) ==
  IF (IF v \in DOMAIN s.cells THEN s.cells[v] ELSE Unknown) = cell THEN s
  ELSE [s EXCEPT !.cells = Put(@, v, cell),
                 !.ssaWork = @ \o SetToSeq({u \in Sites(f) : v \in UsedIn(OpAt(f, u))})]

pushEdge(s, from, to) ==
  IF <<from, to>> \in s.edges THEN s
  ELSE [s EXCEPT !.edges = @ \cup {<<from, to>>}, !.cfgWork = Append(@, <<from, to>>)]

visitPhi(f, s, b, op) ==
  LET from == Preds(f, b)
      live == SelectSeq([i \in 1..Len(op.args) |-> i], LAMBDA i : <<from[i], b>> \in s.edges)
  IN  updateCell(f, s, op.res, FoldLeft(LAMBDA c, i : meet(c, CellOf(s.cells, op.args[i])), Unknown, live))

visitOp(f, s, site) ==
  LET op == OpAt(f, site)
      b == site[1]
      cond == CellOf(s.cells, op.args[1])
  IN  CASE op.code = "Phi" -> visitPhi(f, s, b, op)
        [] op.code \in {"Load", "Intrinsic", "Call"} ->
             IF op.res # 0 THEN updateCell(f, s, op.res, Over) ELSE s
        [] op.code = "Branch" -> pushEdge(s, b, op.to[1])
        [] op.code = "CondBranch" ->
             IF cond = Over THEN pushEdge(pushEdge(s, b, op.to[1]), b, op.to[2])
             ELSE IF cond = Unknown THEN s
             ELSE pushEdge(s, b, op.to[IF cond # 0 THEN 1 ELSE 2])
        [] op.code = "IndirectBranch" -> FoldLeft(LAMBDA a, t : pushEdge(a, b, t), s, op.to)
        [] OTHER -> s

visitBlock(f, s, b) ==
  FoldLeft(LAMBDA a, i : visitOp(f, a, <<b, i>>), [s EXCEPT !.exec = @ \cup {b}],
           [i \in 1..Len(f.blocks[b]) |-> i])

\* A newly executable edge into a block already reached is met into its phis.
visitPhisOnEdge(f, s, from, to) ==
  LET slots == SelectSeq([i \in 1..Len(Preds(f, to)) |-> i], LAMBDA i : Preds(f, to)[i] = from)
      merged(a, op) == FoldLeft(LAMBDA c, i : meet(c, CellOf(a.cells, op.args[i])),
                                CellOf(a.cells, valueRef(op.w, op.res)), slots)
  IN  FoldLeft(LAMBDA a, op : IF op.code = "Phi" THEN updateCell(f, a, op.res, merged(a, op)) ELSE a,
               s, f.blocks[to])

RECURSIVE drain(_, _)
drain(f, s) ==
  IF s.cfgWork # <<>>
  THEN LET edge == Last(s.cfgWork)
           t == [s EXCEPT !.cfgWork = Front(@)]
       IN  drain(f, IF edge[2] \in s.exec THEN visitPhisOnEdge(f, t, edge[1], edge[2])
                    ELSE visitBlock(f, t, edge[2]))
  ELSE IF s.ssaWork # <<>>
  THEN LET site == Last(s.ssaWork)
           t == [s EXCEPT !.ssaWork = Front(@)]
       IN  drain(f, IF site[1] \in s.exec THEN visitOp(f, t, site) ELSE t)
  ELSE s

rewriteConstants(f, s) ==
  LET known == {v \in DOMAIN s.cells : s.cells[v] >= 0 /\ DefinitionOf(f, v).w > 0}
      subst == [v \in known |-> constant(DefinitionOf(f, v).w, s.cells[v])]
  IN  MapOperands(f, LAMBDA e : apply(subst, e))

\* The dropped successor's phis lose one slot of this edge.
prunePhiSlot(f, b, from) ==
  IF from \notin PredSet(f, b) THEN f
  ELSE LET slot == CHOOSE i \in DOMAIN Preds(f, b) :
                     Preds(f, b)[i] = from /\ \A j \in 1..(i - 1) : Preds(f, b)[j] # from
       IN  [f EXCEPT !.blocks[b] = MapSeq(@, LAMBDA op :
              IF op.code = "Phi" /\ slot <= Len(op.args) THEN [op EXCEPT !.args = RemoveAt(@, slot)] ELSE op)]

foldBranches(f, s) ==
  LET fold(g, b) ==
        LET op == Last(g.blocks[b])
            c == CellOf(s.cells, op.args[1])
            kept == op.to[IF c # 0 THEN 1 ELSE 2]
            dropped == op.to[IF c # 0 THEN 2 ELSE 1]
        IN  IF b \notin s.exec \/ g.blocks[b] = <<>> THEN g
            ELSE IF op.code # "CondBranch" THEN g
            ELSE IF c < 0 THEN g
            ELSE rebuildEdges(prunePhiSlot(setTerminator(g, b, appendBranch(kept)), dropped, b))
  IN  FoldLeft(fold, f, [b \in 1..Len(f.blocks) |-> b])

sccp(f) ==
  LET s == drain(f, visitBlock(f, [cells |-> Nothing, edges |-> {}, exec |-> {},
                                    cfgWork |-> <<>>, ssaWork |-> <<>>], 1))
      rewritten == rewriteConstants(f, s)
  IN  IF rewritten # f THEN rewritten ELSE foldBranches(f, s)

(***************************************************************************)
(* Phis that merge nothing, and demand-driven dead code.                   *)
(***************************************************************************)
simplifyPhisOnce(f) ==
  LET phis == {s \in Sites(f) : OpAt(f, s).code = "Phi"}
      inputs(op) == ToSet(op.args) \ {valueRef(op.w, op.res)}
      dead == {s \in phis : Cardinality(inputs(OpAt(f, s))) <= 1}
      subst == [v \in {OpAt(f, s).res : s \in dead} |->
                  LET op == DefinitionOf(f, v)
                  IN  IF inputs(op) = {} THEN undefined(op.w) ELSE CHOOSE e \in inputs(op) : TRUE]
  IN  removeOps(MapOperands(f, LAMBDA e : apply(subst, e)), dead)

RECURSIVE simplifyPhis(_)
simplifyPhis(f) == LET g == simplifyPhisOnce(f) IN IF g = f THEN f ELSE simplifyPhis(g)

RECURSIVE Needed(_, _)
Needed(f, values) ==
  LET all == values \cup UNION {UsedIn(DefinitionOf(f, v)) : v \in values}
  IN  IF all = values THEN values ELSE Needed(f, all)

\* Mutant: a value only another dead definition reads is not what keeps it.
dce_Roots(f) ==
  LET roots == UNION {UsedIn(OpAt(f, s)) : s \in {t \in Sites(f) :
                 OpAt(f, t).code \in SideEffects \/ isTerminator(OpAt(f, t))}}
  IN  removeOps(f, {s \in Sites(f) : OpAt(f, s).code \in {"Phi", "Load"} /\ OpAt(f, s).res \notin roots})

dce(f) ==
  LET roots == UNION {UsedIn(OpAt(f, s)) : s \in {t \in Sites(f) :
                 OpAt(f, t).code \in SideEffects \/ isTerminator(OpAt(f, t))}}
      needed == Needed(f, roots)
  IN  removeOps(f, {s \in Sites(f) : OpAt(f, s).code \in {"Phi", "Load"} /\ OpAt(f, s).res \notin needed})

(***************************************************************************)
(* A condition on a flags phi becomes a phi of conditions, one per phi and *)
(* condition code.  The distributor d carries the function it edits and    *)
(* the phis it made; out is the expression, or nothing.                    *)
(***************************************************************************)
RECURSIVE resolveFlags(_, _, _)
resolveFlags(d, flags, code) ==
  IF flags.op = "FlagDef" THEN [d EXCEPT !.out = FlagConditionRewrite(flags, code)]
  ELSE IF flags.op # "Value" THEN [d EXCEPT !.out = <<>>]
  ELSE LET phi == DefinitionOf(d.f, flags.n)
           key == <<flags.n, code>>
           home == (CHOOSE s \in Definitions(d.f, flags.n) : TRUE)[1]
           made == prependPhi(d.f, home, 1, "")
           v == d.f.next
           arm(a, in) ==
             LET r == resolveFlags(a, in, code)
             IN  [r EXCEPT !.arms = Append(a.arms, IF r.out # <<>> THEN r.out[1] ELSE flagCondition(in, code))]
           built == FoldLeft(arm, [d EXCEPT !.f = made, !.cache = Put(@, key, v), !.arms = <<>>], phi.args)
       IN  IF phi.code # "Phi" THEN [d EXCEPT !.out = <<>>]
           ELSE IF key \in DOMAIN d.cache THEN [d EXCEPT !.out = <<valueRef(1, d.cache[key])>>]
           ELSE IF flags \in ToSet(phi.args) THEN [d EXCEPT !.out = <<>>]
           ELSE [built EXCEPT !.f = MapOps(built.f, LAMBDA op : IF op.res = v THEN [op EXCEPT !.args = built.arms]
                                                                ELSE op),
                              !.arms = d.arms, !.out = <<valueRef(1, v)>>]

\* Conditions still over a value, in one expression, resolved one by one.
FlagPhiTests(e) == {x \in SubExprs(e) : x.op = "FlagCond" /\ x.a[1].op # "FlagDef"}

RECURSIVE ReplaceIn(_, _, _)
ReplaceIn(e, old, new) ==
  IF e = old THEN new ELSE [e EXCEPT !.a = MapSeq(@, LAMBDA x : ReplaceIn(x, old, new))]

distributeFlagCondThroughPhi(f) ==
  LET tests == UNION {UNION {FlagPhiTests(OpAt(f, s).args[i]) : i \in DOMAIN OpAt(f, s).args} : s \in Sites(f)}
      one(d, t) ==
        LET r == resolveFlags(d, t.a[1], t.k)
        IN  IF r.out = <<>> THEN r
            ELSE [r EXCEPT !.f = MapOps(@, LAMBDA op : IF op.res \in {r.cache[k] : k \in DOMAIN r.cache} THEN op
                                          ELSE [op EXCEPT !.args = MapSeq(@, LAMBDA e : ReplaceIn(e, t, r.out[1]))])]
  IN  FoldLeft(one, [f |-> f, cache |-> Nothing, arms |-> <<>>, out |-> <<>>], SetToSeq(tests)).f

FoldAllFlags(f) == distributeFlagCondThroughPhi(MapOperands(f, foldFlagConditions))

ssaOptimize(f) == dce(simplifyPhis(MapOperands(sccp(FoldAllFlags(f)), simplify)))

(***************************************************************************)
(* Loads of constant addresses in memory that never changes.               *)
(***************************************************************************)
isImmutable(a, w) == Bytes(a, w) \subseteq Immutable

foldable(op) ==
  /\ op.code = "Load" /\ op.w \in CWidths \cup {WordBits}
  /\ IsEvaluable(op.args[1])
  /\ isImmutable(tryEvalConst(op.args[1]), op.w)

constFoldMemory(f) ==
  LET folded == {s \in Sites(f) : foldable(OpAt(f, s))}
      subst == [v \in {OpAt(f, s).res : s \in folded} |->
                  LET op == DefinitionOf(f, v)
                  IN  constant(op.w, LoadFrom(Image, tryEvalConst(op.args[1]), op.w))]
  IN  removeOps(MapOperands(f, LAMBDA e : apply(subst, e)), folded)
=============================================================================
