----------------------------- MODULE IlFunction -----------------------------
(***************************************************************************)
(* A function of the intermediate language: blocks of effectful ops over   *)
(* the expressions of IlExpr, the edits passes make to it, and the checks  *)
(* of the verifier.  A function is a record f:                             *)
(*   f.blocks[b]  the ops of block b; block 1 is the entry                 *)
(*   f.ext        the external stubs, blocks outside the function          *)
(*   f.succ       the cached successor lists (see rebuildEdges)            *)
(*   f.next       one past the last value handle ever created              *)
(*   f.level      its maturity                                             *)
(* An op is a record: opcode, result width, result value (0 for none),     *)
(* register or intrinsic name, operands and branch targets.  A removed op  *)
(* is simply absent: its value then has no definition, which is what the   *)
(* tombstone of removeOp records.                                          *)
(***************************************************************************)
EXTENDS IlExpr, CfgAnalysis

CONSTANTS
  Regs,       \* register name -> [root, w, off, class, zext]
  RootOrder   \* the root registers in handle order

\* root: the register a view is part of; off: its bit offset there; zext: a
\* write through the view zeroes the rest of the root.
ASSUME RegsAssumption ==
  /\ \A r \in DOMAIN Regs : Regs[r].root \in DOMAIN Regs /\ Regs[Regs[r].root].root = Regs[r].root
  /\ ToSet(RootOrder) = {r \in DOMAIN Regs : Regs[r].root = r}

mkop(code, w, res, reg, args, to) ==
  [code |-> code, w |-> w, res |-> res, reg |-> reg, args |-> args, to |-> to]

appendReadReg(v, r)       == mkop("ReadReg", Regs[r].w, v, r, <<>>, <<>>)
appendWriteReg(r, e)      == mkop("WriteReg", 0, 0, r, <<e>>, <<>>)
appendLoad(v, w, addr)    == mkop("Load", w, v, "", <<addr>>, <<>>)
appendStore(w, addr, e)   == mkop("Store", w, 0, "", <<addr, e>>, <<>>)
appendBranch(b)           == mkop("Branch", 0, 0, "", <<>>, <<b>>)
appendCondBranch(c, t, e) == mkop("CondBranch", 0, 0, "", <<c>>, <<t, e>>)
appendIndirectBranch(e, to) == mkop("IndirectBranch", 0, 0, "", <<e>>, to)
appendCall(v, w, target)  == mkop("Call", w, v, "", <<target>>, <<>>)
appendReturn              == mkop("Return", 0, 0, "", <<>>, <<>>)
appendUnreachable         == mkop("Unreachable", 0, 0, "", <<>>, <<>>)
appendIntrinsic(v, w, n, args) == mkop("Intrinsic", w, v, n, args, <<>>)

Terminators == {"Branch", "CondBranch", "IndirectBranch", "Return", "Unreachable", "Unimplemented"}
SideEffects == {"WriteReg", "Store", "Call", "Intrinsic"}
isTerminator(op) == op.code \in Terminators

(***************************************************************************)
(* Edits.                                                                  *)
(***************************************************************************)
Sites(f) == UNION {{<<b, i>> : i \in 1..Len(f.blocks[b])} : b \in DOMAIN f.blocks}
OpAt(f, s) == f.blocks[s[1]][s[2]]
UsedIn(op) == UNION {ValuesIn(op.args[i]) : i \in DOMAIN op.args}
UsedValues(f) == UNION {UsedIn(OpAt(f, s)) : s \in Sites(f)}
Definitions(f, v) == {s \in Sites(f) : OpAt(f, s).res = v}

NoOp == mkop("None", 0, 0, "", <<>>, <<>>)
DefinitionOf(f, v) ==
  LET sites == Definitions(f, v) IN IF sites = {} THEN NoOp ELSE OpAt(f, CHOOSE s \in sites : TRUE)

MapOps(f, F(_)) == [f EXCEPT !.blocks = MapSeq(@, LAMBDA ops : MapSeq(ops, F))]
MapOperands(f, F(_)) == MapOps(f, LAMBDA op : [op EXCEPT !.args = MapSeq(@, F)])

\* The elements of a sequence whose index is not in dead.
Without(seq, dead) ==
  FoldLeft(LAMBDA acc, i : IF i \in dead THEN acc ELSE Append(acc, seq[i]),
           <<>>, [i \in 1..Len(seq) |-> i])

removeOps(f, dead) ==
  [f EXCEPT !.blocks = <<>> \o [b \in DOMAIN @ |-> Without(@[b], {s[2] : s \in {d \in dead : d[1] = b}})]]

setTerminator(f, b, op) == [f EXCEPT !.blocks[b] = Append(Front(@), op)]

PhiCount(ops) == Cardinality({i \in DOMAIN ops : ops[i].code = "Phi"})

\* A new phi goes after the phis already there, and defines value f.next.
prependPhi(f, b, w, note) ==
  [f EXCEPT !.blocks[b] = InsertAt(@, PhiCount(@) + 1, mkop("Phi", w, f.next, note, <<>>, <<>>)),
            !.next = @ + 1]

\* Duplicate edges are kept: phi operands are aligned with them.
rebuildEdges(f) ==
  [f EXCEPT !.succ = MapSeq(f.blocks, LAMBDA ops : IF ops # <<>> /\ isTerminator(Last(ops))
                                                    THEN Last(ops).to ELSE <<>>)]

\* ValueSubst::apply: a leaf is replaced once, its replacement is not walked.
RECURSIVE apply(_, _)
apply(subst, e) ==
  IF e.op = "Value" THEN (IF e.n \in DOMAIN subst THEN subst[e.n] ELSE e)
  ELSE [e EXCEPT !.a = MapSeq(@, LAMBDA x : apply(subst, x))]

NoSubst == [v \in {} |-> boolean(FALSE)]
SubstSet(subst, v, e) == [w \in DOMAIN subst \cup {v} |-> IF w = v THEN e ELSE subst[w]]
applyAll(subst, op) == [op EXCEPT !.args = MapSeq(@, LAMBDA e : apply(subst, e))]

(***************************************************************************)
(* The verifier.                                                           *)
(***************************************************************************)
Maturities == <<"Lifted", "Local", "Cfg", "Ssa", "Resolved", "Vars">>
atLeast(level, other) ==
  LET rank(m) == CHOOSE i \in DOMAIN Maturities : Maturities[i] = m IN rank(level) >= rank(other)

\* checkExpressionTypes for one node.
checkExpressionTypes(f, e) ==
  LET w(i) == e.a[i].w
  IN  CASE e.op \in CompareOps -> e.w = 1 /\ w(1) = w(2)
        [] e.op = "Const"    -> e.n < 2^e.w
        [] e.op = "Value"    -> e.n < f.next /\ (Definitions(f, e.n) # {} => DefinitionOf(f, e.n).w = e.w)
        [] e.op = "EntryReg" -> e.k \in DOMAIN Regs /\ Regs[e.k].w = e.w
        [] e.op = "Undef"    -> TRUE
        [] e.op \in {"FlagCond", "FlagBit"} -> w(1) = 0 /\ e.w = 1
        [] e.op = "Extract"  -> e.n + e.w <= w(1)
        [] e.op = "Concat"   -> e.w = w(1) + w(2)
        [] e.op \in {"ZExt", "SExt"} -> w(1) <= e.w
        [] e.op = "Trunc"    -> w(1) >= e.w
        [] e.op = "Bitcast"  -> TRUE
        [] e.op = "Select"   -> w(1) = 1 /\ w(2) = w(3) /\ w(2) = e.w
        [] e.op = "FlagDef"  -> e.w = 0 /\ e.n # 0 /\
             Len(e.a) = (CASE e.k \in {"Logical", "Const"} -> 1 [] e.k \in {"AddCarry", "SubCarry"} -> 3
                           [] OTHER -> 2)
        [] OTHER -> \A i \in DOMAIN e.a : w(i) = e.w

RECURSIVE checkExpressions(_, _)
checkExpressions(f, e) ==
  checkExpressionTypes(f, e) /\ \A i \in DOMAIN e.a : checkExpressions(f, e.a[i])

checkOp(f, level, b, op) ==
  LET n == Len(op.args)
      t == Len(op.to)
      ssa == atLeast(level, "Ssa")
  IN  /\ \A i \in DOMAIN op.args : checkExpressions(f, op.args[i])
      /\ \A i \in DOMAIN op.to : op.to[i] \in DOMAIN f.blocks
      /\ CASE op.code = "ReadReg"  -> n = 0 /\ op.reg \in DOMAIN Regs /\ op.w = Regs[op.reg].w
           [] op.code = "WriteReg" -> n = 1 /\ op.reg \in DOMAIN Regs /\ op.args[1].w = Regs[op.reg].w
           [] op.code = "Load"     -> n = 1 /\ op.w # 0
           [] op.code = "Store"    -> n = 2 /\ op.args[2].w = op.w
           [] op.code = "Branch"   -> n = 0 /\ t = 1
           [] op.code = "CondBranch" -> n = 1 /\ op.args[1].w = 1 /\ t = 2
           [] op.code = "IndirectBranch" ->
                /\ IF ssa /\ t = 0 THEN n \in 1..9 ELSE n = 1
                /\ ~(t = 0 /\ atLeast(level, "Resolved") /\ b \in ToSet(reversePostOrder(f)))
           [] op.code = "Call"     -> IF ssa THEN n \in 1..9 ELSE n = 1
           [] op.code = "Return"   -> t = 0 /\ (IF ssa THEN n <= 1 ELSE n = 0)
           [] op.code = "Unreachable" -> n = 0 /\ t = 0
           [] op.code = "Unimplemented" -> TRUE
           [] op.code = "Intrinsic" -> op.reg # ""
           [] op.code = "Phi" ->
                /\ ssa => n = Len(Preds(f, b))
                /\ \A i \in 1..n : op.args[i].w = op.w
      /\ (op.res # 0) = (IF op.code \in {"Intrinsic", "Call"} THEN op.w # 0
                         ELSE op.code \in {"ReadReg", "Load", "Phi"})

checkBlocks(f, level) ==
  \A b \in DOMAIN f.blocks :
    LET ops == f.blocks[b]
    IN  /\ ops = <<>> => b \in f.ext
        /\ \A i \in DOMAIN ops :
             /\ isTerminator(ops[i]) => i = Len(ops)
             /\ (i = Len(ops) /\ atLeast(level, "Cfg")) => isTerminator(ops[i])
             /\ ops[i].code = "Phi" => \A j \in 1..i : ops[j].code = "Phi"
             /\ checkOp(f, level, b, ops[i])

checkValues(f) ==
  \A s \in Sites(f) : LET v == OpAt(f, s).res IN v # 0 => v < f.next /\ Definitions(f, v) = {s}

\* Below SSA a value is read after its definition, in the same block.
checkValueUseOrder(f, level) ==
  ~atLeast(level, "Ssa") =>
    \A s \in Sites(f) : \A v \in UsedIn(OpAt(f, s)) :
      \E d \in Definitions(f, v) : d[1] = s[1] /\ d[2] < s[2]

checkEdges(f) == f.succ = rebuildEdges(f).succ

verify(f, level) ==
  /\ checkBlocks(f, level)
  /\ checkValues(f)
  /\ checkValueUseOrder(f, level)
  /\ checkEdges(f)

(***************************************************************************)
(* What SSA promises and the verifier does not check: every value a        *)
(* reachable op reads has a definition that dominates the read, a phi      *)
(* operand the edge it arrives on.                                         *)
(***************************************************************************)
DominatesUse(idom, d, b, i) == IF d[1] = b THEN d[2] < i ELSE dominates(idom, d[1], b)

SsaWellFormed(f) ==
  LET idom == Idom(f)
  IN  \A s \in {t \in Sites(f) : idom[t[1]] # 0} :
        LET op == OpAt(f, s)
        IN  IF op.code = "Phi"
            THEN \A i \in DOMAIN op.args :
                   LET p == Preds(f, s[1])[i]
                   IN  idom[p] # 0 => \A v \in ValuesIn(op.args[i]) : \E d \in Definitions(f, v) :
                         DominatesUse(idom, d, p, Len(f.blocks[p]))
            ELSE \A v \in UsedIn(op) : \E d \in Definitions(f, v) : DominatesUse(idom, d, s[1], s[2])
=============================================================================
