----------------------------- MODULE LocalPasses -----------------------------
(***************************************************************************)
(* The passes below SSA: local-simplify with its block-local sweeps,       *)
(* cfg-finalize and trampoline-fold.                                       *)
(***************************************************************************)
EXTENDS IlRun, Algebra

CONSTANTS
  MaxTrackedExprNodes,  \* copyprop.cpp's kMaxTrackedExprNodes
  MegaBlockOps          \* local_simplify.cpp's kMegaBlockOpThreshold

RECURSIVE SubExprs(_)
SubExprs(e) == {e} \cup UNION {SubExprs(e.a[i]) : i \in DOMAIN e.a}

\* A map with one more entry, and without one.
Put(map, k, v) == [x \in DOMAIN map \cup {k} |-> IF x = k THEN v ELSE map[x]]
Erase(map, k)  == [x \in DOMAIN map \ {k} |-> map[x]]
Nothing == [x \in {} |-> 0]

(***************************************************************************)
(* Copy propagation: contents is what each root register holds, as far as  *)
(* the block knows.                                                        *)
(***************************************************************************)
readExpr(contents, r) ==
  LET known == contents[Regs[r].root]
  IN  IF Regs[r].root = r THEN known ELSE extract(Regs[r].w, known, Regs[r].off)

BlockPropWrite(contents, r, e) ==
  LET i == Regs[r]
  IN  IF Cardinality(SubExprs(e)) > MaxTrackedExprNodes THEN Erase(contents, i.root)
      ELSE IF i.root = r THEN Put(contents, r, e)
      ELSE IF i.zext THEN Put(contents, i.root, cast("ZExt", Regs[i.root].w, e))
      ELSE Erase(contents, i.root)

\* Mutant: a call is taken to preserve what the registers hold.
PropOp_CallKeeps(st, op0) ==
  LET op == applyAll(st.subst, op0)
      zero == op.reg \in DOMAIN Regs /\ Regs[op.reg].class = "Zero"
      done == [st EXCEPT !.ops = Append(@, op)]
  IN  CASE op.code = "ReadReg" /\ Regs[op.reg].root \in DOMAIN st.contents ->
             [done EXCEPT !.subst = SubstSet(@, op.res, readExpr(st.contents, op.reg))]
        [] op.code = "WriteReg" /\ ~zero ->
             [done EXCEPT !.contents = BlockPropWrite(@, op.reg, op.args[1])]
        [] OTHER -> done

PropOp(st, op0) ==
  LET op == applyAll(st.subst, op0)
      zero == op.reg \in DOMAIN Regs /\ Regs[op.reg].class = "Zero"
      done == [st EXCEPT !.ops = Append(@, op)]
  IN  CASE op.code = "ReadReg" /\ zero ->
             [done EXCEPT !.subst = SubstSet(@, op.res, constant(Regs[op.reg].w, 0))]
        [] op.code = "ReadReg" /\ ~zero /\ Regs[op.reg].root \in DOMAIN st.contents ->
             [done EXCEPT !.subst = SubstSet(@, op.res, readExpr(st.contents, op.reg))]
        [] op.code = "WriteReg" /\ zero -> st
        [] op.code = "WriteReg" /\ ~zero ->
             [done EXCEPT !.contents = BlockPropWrite(@, op.reg, op.args[1])]
        [] op.code \in {"Call", "Intrinsic", "Unimplemented"} -> [done EXCEPT !.contents = Nothing]
        [] OTHER -> done

copyPropagateBlock(ops) ==
  FoldLeft(PropOp, [ops |-> <<>>, subst |-> NoSubst, contents |-> Nothing], ops).ops

(***************************************************************************)
(* Redundant loads: last is the value of the load that still holds each    *)
(* address.                                                                *)
(***************************************************************************)
ForwardOp(st, op0) ==
  LET op == applyAll(st.subst, op0)
      done == [st EXCEPT !.ops = Append(@, op)]
      known == op.code = "Load" /\ op.args[1] \in DOMAIN st.last
  IN  CASE known /\ st.last[op.args[1]].w = op.w ->
             [st EXCEPT !.subst = SubstSet(@, op.res, st.last[op.args[1]])]
        [] op.code = "Load" /\ ~(known /\ st.last[op.args[1]].w = op.w) ->
             [done EXCEPT !.last = Put(@, op.args[1], valueRef(op.w, op.res))]
        [] op.code \in {"Store", "Call", "Intrinsic"} -> [done EXCEPT !.last = Nothing]
        [] OTHER -> done

forwardRedundantLoads(ops) ==
  FoldLeft(ForwardOp, [ops |-> <<>>, subst |-> NoSubst, last |-> Nothing], ops).ops

(***************************************************************************)
(* Dead reads and overwritten writes: pending is the write of each root    *)
(* not read since.                                                         *)
(***************************************************************************)
DceOp(ops, uses, st, i) ==
  LET op == ops[i]
      root == Regs[op.reg].root
  IN  CASE op.code = "ReadReg" /\ op.res \notin uses -> [st EXCEPT !.dead = @ \cup {i}]
        [] op.code = "ReadReg" /\ op.res \in uses -> [st EXCEPT !.pending = Erase(@, root)]
        [] op.code = "WriteReg" ->
             [dead |-> st.dead \cup (IF root \in DOMAIN st.pending THEN {st.pending[root]} ELSE {}),
              pending |-> Put(st.pending, root, i)]
        [] op.code \in {"Call", "Intrinsic", "Unimplemented"} -> [st EXCEPT !.pending = Nothing]
        [] OTHER -> st

dceBlock(ops) ==
  LET uses == UNION {UsedIn(ops[i]) : i \in DOMAIN ops}
  IN  Without(ops, FoldLeft(LAMBDA st, i : DceOp(ops, uses, st, i), [dead |-> {}, pending |-> Nothing],
                            [i \in 1..Len(ops) |-> i]).dead)

localSimplify(f) ==
  LET block(ops) == dceBlock(IF Len(ops) > MegaBlockOps THEN ops
                             ELSE forwardRedundantLoads(copyPropagateBlock(ops)))
      folded == MapOperands(f, LAMBDA e : foldFlagConditions(foldConstants(simplify(e))))
  IN  [folded EXCEPT !.blocks = MapSeq(@, block)]

(***************************************************************************)
(* The audit of cfg-finalize, and its repair of the edges.                 *)
(***************************************************************************)
cfgFinalizeOk(f) ==
  \A b \in DOMAIN f.blocks : IF b \in f.ext THEN f.blocks[b] = <<>>
                             ELSE f.blocks[b] # <<>> /\ isTerminator(Last(f.blocks[b]))
cfgFinalize(f) == rebuildEdges(f)

isTrampoline(f, b) == Len(f.blocks[b]) = 1 /\ f.blocks[b][1].code = "Branch"

\* The first block of the chain that is no trampoline, or, on a cycle of
\* trampolines, the one met twice.
RECURSIVE resolveTrampoline(_, _, _)
resolveTrampoline(f, b, seen) ==
  IF ~isTrampoline(f, b) \/ b \in seen THEN b
  ELSE resolveTrampoline(f, f.blocks[b][1].to[1], seen \cup {b})

trampolineFold(f) ==
  rebuildEdges(MapOps(f, LAMBDA op : [op EXCEPT !.to = MapSeq(@, LAMBDA b : resolveTrampoline(f, b, {}))]))
=============================================================================
