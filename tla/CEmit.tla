------------------------------- MODULE CEmit -------------------------------
(***************************************************************************)
(* The C function written for a function at Vars, and what running it      *)
(* shows: the types variable recovery declares, the loads and stores the   *)
(* emitter folds away, the statements of a block and the copies on the     *)
(* edges between blocks.                                                   *)
(*                                                                         *)
(* Left to other modules or out: the nesting of the statements (StmtTree,  *)
(* Structurizer), types from headers, exclusive accesses, string stores    *)
(* and the frame of a dispatcher.                                          *)
(***************************************************************************)
EXTENDS CExpr, IndirectPasses

CONSTANTS
  IntBits,          \* the width of C's int, 32 in the code
  StateThreshold    \* the constants a slot is stored that make it the state, 4 in the code

AllOps(f) == {OpAt(f, s) : s \in Sites(f)}
OperandsOf(op) == ToSet(op.args)
AllNodes(f) == UNION {UNION {Nodes(e) : e \in OperandsOf(op)} : op \in AllOps(f)}
MemoryOps(f) == {op \in AllOps(f) : op.code \in {"Load", "Store"}}
Phis(f) == {op \in AllOps(f) : op.code = "Phi"}
Widest(ws) == FoldSet(LAMBDA a, b : IF a > b THEN a ELSE b, 0, ws)
Narrowest == CHOOSE w \in CWidths : \A x \in CWidths : w <= x
WordType == [w |-> WordBits, s |-> FALSE]

(***************************************************************************)
(* variables.cpp: the width of an argument, by how its register is read.   *)
(***************************************************************************)
\* How a leaf is read.
widthUse(f, leaf) ==
  LET above == {n \in AllNodes(f) : leaf \in ToSet(n.a)}
      direct == {op \in AllOps(f) : leaf \in OperandsOf(op)}
      truncs == {n \in above : n.op = "Trunc"}
  IN  [fullWidth  |-> above # truncs \/ \E op \in direct : op.code \notin {"Phi", "Return"},
       truncWidth |-> Widest({n.w : n \in truncs}),
       merges     |-> {valueRef(op.w, op.res) : op \in {p \in direct : p.code = "Phi"}}]

\* The widest reading of a leaf and of the merges it reaches; 0 for none.
RECURSIVE readWidth(_, _, _)
readWidth(f, leaves, declared) ==
  LET uses == {widthUse(f, l) : l \in leaves}
      all == leaves \cup UNION {u.merges : u \in uses}
  IN  IF all # leaves THEN readWidth(f, all, declared)
      ELSE Widest({IF u.fullWidth THEN declared ELSE u.truncWidth : u \in uses})

ArgumentLeaves(f) == {n \in AllNodes(f) : n.op = "EntryReg" /\ n.k \in ToSet(ArgRoots)}
argumentWidth(f, leaf) == LET w == readWidth(f, {leaf}, leaf.w) IN IF w = 0 THEN leaf.w ELSE w

(***************************************************************************)
(* MergeWidth: how many bits of the returned value the function sets.      *)
(***************************************************************************)
Measured(r, w, strong) == [r EXCEPT !.width = Widest({@, w}), !.strong = @ \/ strong]

RECURSIVE measure(_, _, _)
measure(f, e, r) ==
  CASE e.op \in {"ZExt", "SExt"} ->
         LET x == measure(f, e.a[1], [width |-> 0, signed |-> FALSE, strong |-> FALSE, active |-> r.active])
             from == e.a[1].w
         IN  Measured([r EXCEPT !.signed = @ \/ e.op = "SExt", !.active = x.active],
                      IF x.strong /\ x.width < from THEN x.width ELSE from, TRUE)
    [] IsConst(e) -> Measured(r, significantBits(e.n), FALSE)
    [] e.op = "EntryReg" -> Measured(r, IF e \in ArgumentLeaves(f) THEN argumentWidth(f, e) ELSE e.w, TRUE)
    [] e.op = "Value" /\ DefinitionOf(f, e.n).code = "Phi" ->
         IF e.n \in r.active THEN r
         ELSE FoldLeft(LAMBDA acc, x : measure(f, x, acc), [r EXCEPT !.active = @ \cup {e.n}], DefinitionOf(f, e.n).args)
    [] OTHER -> Measured(r, e.w, TRUE)

returnedType(f) ==
  LET returned == {op.args[1] : op \in {o \in AllOps(f) : o.code = "Return" /\ o.args # <<>>}}
      results == {measure(f, e, [width |-> 0, signed |-> FALSE, strong |-> FALSE, active |-> {}]) : e \in returned}
      strong == {r \in results : r.strong}
  IN  IF strong = {} THEN WordType
      ELSE [w |-> Widest({r.width : r \in strong} \cup {Narrowest}), s |-> \E r \in strong : r.signed]

(***************************************************************************)
(* Locals, and which variables are pointers or signed.                     *)
(***************************************************************************)
SlotOf(op) == classify(op.args[1])
SlotOps(f) == {op \in MemoryOps(f) : SlotOf(op).kind = "StackSlot"}
Slots(f) == {SlotOf(op).base : op \in SlotOps(f)}
localWidth(f, delta) == Widest({Narrowest} \cup {op.w : op \in {o \in SlotOps(f) : SlotOf(o).base = delta}})

RECURSIVE collectSmallConstants(_)
collectSmallConstants(e) ==
  IF IsConst(e) THEN {e.n}
  ELSE IF e.op = "Select" THEN collectSmallConstants(e.a[2]) \cup collectSmallConstants(e.a[3]) ELSE {}
slotConstants(f, delta) ==
  UNION {collectSmallConstants(op.args[2]) : op \in {o \in SlotOps(f) : o.code = "Store" /\ SlotOf(o).base = delta}}
isState(f, delta) ==
  LET n(d) == Cardinality(slotConstants(f, d))
      at(d) == Signed(d, WordBits)
  IN  /\ n(delta) >= StateThreshold
      /\ \A d \in Slots(f) : n(d) < n(delta) \/ (n(d) = n(delta) /\ at(d) >= at(delta))

RECURSIVE addressBase(_)
addressBase(e) ==
  CASE e.op \in {"ZExt", "SExt", "Trunc"} -> addressBase(e.a[1])
    [] e.op \in {"Add", "Sub"} /\ IsConst(e.a[2]) -> addressBase(e.a[1])
    [] e.op = "Add" /\ IsConst(e.a[1]) /\ ~IsConst(e.a[2]) -> addressBase(e.a[2])
    [] OTHER -> e

\* Arguments and phi temporaries can be pointers: those an access goes through,
\* and those merged into one.
IsVariable(f, e) == e \in ArgumentLeaves(f) \/ (e.op = "Value" /\ DefinitionOf(f, e.n).code = "Phi")
RECURSIVE PointerFlow(_, _)
PointerFlow(f, ps) ==
  LET fed == UNION {OperandsOf(op) : op \in {p \in Phis(f) : valueRef(p.w, p.res) \in ps}}
      all == ps \cup {e \in fed : IsVariable(f, e)}
  IN  IF all = ps THEN ps ELSE PointerFlow(f, all)
Pointers(f) == PointerFlow(f, {b \in {addressBase(op.args[1]) : op \in MemoryOps(f)} : IsVariable(f, b)})

SignedOps == {"CmpLtS", "CmpLeS", "DivS", "RemS", "MulHiS", "SExt"}
signedUses(f) == UNION {ToSet(n.a) : n \in {m \in AllNodes(f) : m.op \in SignedOps}}

declared(f) ==
  [r \in {e.k : e \in ArgumentLeaves(f)} |->
     LET e == CHOOSE x \in ArgumentLeaves(f) : x.k = r
     IN  IF e \in Pointers(f) THEN WordType ELSE [w |-> argumentWidth(f, e), s |-> e \in signedUses(f)]]
signedTemps(f) == {op.res : op \in {p \in Phis(f) : LET t == valueRef(p.w, p.res) IN t \in signedUses(f) \ Pointers(f)}}

(***************************************************************************)
(* Loads read where they are used, and stores nobody reads.                *)
(***************************************************************************)
clobberedBetween(f, b, i, j, addr, w) ==
  \E k \in (i + 1)..(j - 1) :
    LET op == f.blocks[b][k]
    IN  \/ op.code \in {"Call", "Intrinsic", "Unimplemented"}
        \/ op.code = "Store" /\ mayAlias(addr, w, op.args[1], op.w) # "No"

collectValueUses(f, v) == {s \in Sites(f) : v \in UsedIn(OpAt(f, s))}
isAddressOperand(op, v) == op.code \in {"Load", "Store"} /\ op.args[1].op = "Value" /\ op.args[1].n = v

liveReaders(f, v, dead) == collectValueUses(f, v) \ dead
ReadInPlace(f, s, dead) ==
  LET op == OpAt(f, s)
      readers == liveReaders(f, op.res, dead)
  IN  /\ readers # {}
      /\ \A r \in readers : r[1] = s[1] /\ r[2] > s[2]
      /\ \A r \in readers : ~clobberedBetween(f, s[1], s[2], r[2], op.args[1], op.w)

LoadSites(f) == {s \in Sites(f) : OpAt(f, s).code = "Load"}
findFoldableStackLoads(f, dead) == {s \in LoadSites(f) : SlotOf(OpAt(f, s)).kind = "StackSlot" /\ ReadInPlace(f, s, dead)}
findFoldableMemoryLoads(f, dead) ==
  {s \in LoadSites(f) :
     /\ SlotOf(OpAt(f, s)).kind # "StackSlot"
     /\ ReadInPlace(f, s, dead)
     /\ \A r \in liveReaders(f, OpAt(f, s).res, dead) : ~isAddressOperand(OpAt(f, r), OpAt(f, s).res)}

\* The slots whose address is handed out, with the stores that follow on them.
pointEscapes(f) ==
  UNION {{classify(op.args[i]).base : i \in {j \in DOMAIN op.args : /\ classify(op.args[j]).kind = "StackSlot"
                                                                      /\ ~(op.code \in {"Load", "Store"} /\ j = 1)}} :
         op \in AllOps(f)}
StoreSpans(f) == {[at |-> Signed(SlotOf(op).base, WordBits), w |-> op.w] : op \in {o \in SlotOps(f) : o.code = "Store"}}
RECURSIVE Footprint(_, _, _)
Footprint(spans, base, end) ==
  LET reach == Widest({end} \cup {s.at - base + s.w : s \in {t \in spans : t.at >= base /\ t.at - base <= end}})
  IN  IF reach = end THEN end ELSE Footprint(spans, base, reach)
isEscaped(f, delta) ==
  \E p \in pointEscapes(f) :
    LET base == Signed(p, WordBits)
    IN  Signed(delta, WordBits) - base \in 0..(Widest({1, Footprint(StoreSpans(f), base, 0)}) - 1)

findDeadStackStores(f) ==
  {s \in Sites(f) : LET op == OpAt(f, s)
                    IN  /\ op.code = "Store" /\ op \in SlotOps(f)
                        /\ \A o \in SlotOps(f) : o.code = "Load" => SlotOf(o).base # SlotOf(op).base
                        /\ ~isEscaped(f, SlotOf(op).base)
                        /\ ~isState(f, SlotOf(op).base)}

\* A local a folded load reads only to go through it holds a pointer.
pointerLocals(f) ==
  {SlotOf(OpAt(f, s)).base :
     s \in {t \in findFoldableStackLoads(f, {}) :
              LET v == OpAt(f, t).res
              IN  \A r \in collectValueUses(f, v) : isAddressOperand(OpAt(f, r), v)}}

\* The emitter's view of a function.  Slots that overlap become locals that do
\* not, and a returned width no C type has is printed all the same: neither is
\* a function C can run (README, Remarks).
prepareEmitRedundancy(f) ==
  LET stack == findFoldableStackLoads(f, {})
      memory == findFoldableMemoryLoads(f, stack)
      stores == findDeadStackStores(f)
  IN  [folded |-> stack \cup memory, dead |-> stack \cup memory \cup stores, stores |-> stores]
\* The loops printed as do-while, latch and header, where the structurizer has
\* no choice: blocks one after the other, of which the last tests whether to go
\* round.  (One that branches inside is Structurizer's to decide.)
DoWhiles(f) ==
  LET loops == naturalLoops(f, Idom(f))
      straight(h, l) == \A b \in loops[h].blocks : Len(f.succ[b]) = IF b = l THEN 2 ELSE 1
      leaves(h, l) == h \in SuccSet(f, l) /\ SuccSet(f, l) \ loops[h].blocks # {}
  IN  {<<l, h>> \in CFGBlocks(f) \X DOMAIN loops :
         Last(f.blocks[l]).code = "CondBranch" /\ l \in loops[h].blocks /\ straight(h, l) /\ leaves(h, l)}

Overlapping(f) ==
  \E x, y \in SlotOps(f) : SlotOf(x).base # SlotOf(y).base /\ mayAlias(x.args[1], x.w, y.args[1], y.w) # "No"
Emission(f) ==
  LET ret == returnedType(f)
  IN  [decl |-> declared(f), signed |-> signedTemps(f), ret |-> ret, pointers |-> pointerLocals(f),
       prep |-> prepareEmitRedundancy(f), doWhiles |-> DoWhiles(f),
       sound |-> ~Overlapping(f) /\ ret.w \in CWidths \cup {WordBits}]

(***************************************************************************)
(* Running the C function.  A machine of IlRun with what a scope of        *)
(* printing adds: its shared nodes, the temporaries they have got, and the *)
(* nodes that go by the name of the local they were stored to.  Locals are *)
(* the frame's bytes.  A run stops at "gap" where the text is not exact,   *)
(* and where an environment puts something of the caller's into the frame; *)
(* at "uninitialised" where it reads a local whose store was dropped.      *)
(* retested is one past the events seen when a do-while's test first came  *)
(* out differently after the copies of its back edge, 0 for never.         *)
(***************************************************************************)
\* The bytes of the locals, and those the C function no longer writes.
SlotBytes(env, ops) == UNION {Bytes((env.entry[SpRoot] + SlotOf(op).base) % 2^WordBits, op.w) : op \in ops}
CStart(f, em, env) ==
  Start(f, env) @@ [shared |-> {}, named |-> NoNames, stored |-> Nothing, retested |-> 0, frame |-> SlotBytes(env, SlotOps(f)),
                    unwritten |-> SlotBytes(env, {OpAt(f, s) : s \in em.prep.stores})]

\* An address that is no slot and is still computed from the stack pointer.
FromStack(op) == SlotOf(op).kind = "Other" /\ \E n \in Nodes(op.args[1]) : n.op = "EntryReg" /\ n.k = SpRoot
\* How far an access at an address gets.
Access(m, op, at) ==
  LET dropped == op.code = "Load" /\ Bytes(at, op.w) \cap m.unwritten # {}
  IN  CASE SlotOf(op).kind = "Global" /\ Bytes(at, op.w) \cap m.frame # {} -> "gap"
        [] FromStack(op) /\ dropped -> "uninitialised"
        [] SlotOf(op).kind = "Other" /\ ~FromStack(op) /\ dropped -> "gap"
        [] OTHER -> "running"
beginScope(m, roots) == [m EXCEPT !.shared = Shared(roots), !.named = NoNames, !.stored = Nothing]

Context(em, env, m) ==
  [value |-> m.vals, entry |-> env.entry, int |-> IntBits, decl |-> em.decl, signed |-> em.signed,
   shared |-> m.shared, named |-> m.named]

Number(x, w) == LET y == Convert(x, w, FALSE) IN IF NoValue(y) THEN Undef ELSE y.v
SetTemp(m, v, w, x) == [m EXCEPT !.vals[v] = Number(x, w)]

\* memoryLvalue: a slot or a global goes by its name, anything else by its text.
memoryLvalue(c, e) ==
  IF classify(e).kind # "Other" THEN [x |-> Variable(WordBits, FALSE, Eval(e, c)), ok |-> TRUE] ELSE printed(c, e)
AddressParts(e) == IF classify(e).kind # "Other" THEN {} ELSE {e}

\* The loads of block b before op i that are read in place, as they read now.
Reread(f, em, env, m, b, i) ==
  FoldLeft(LAMBDA acc, k :
             LET op == f.blocks[b][k]
                 a == memoryLvalue(Context(em, env, [acc EXCEPT !.shared = {}, !.named = NoNames]), op.args[1])
             IN  IF <<b, k>> \notin em.prep.folded \/ acc.stop # "running" THEN acc
                 ELSE IF ~a.ok THEN Stopped(acc, "gap")
                 ELSE IF NoValue(a.x) THEN acc
                 ELSE [acc EXCEPT !.stop = Access(acc, op, Number(a.x, WordBits)),
                                  !.vals[op.res] = LoadFrom(acc.mem, Number(a.x, WordBits), op.w)],
           m, [k \in 1..(i - 1) |-> k])

(***************************************************************************)
(* A select is assigned as a chain of guarded assignments.                 *)
(***************************************************************************)
RECURSIVE Peeled(_)
Peeled(e) == IF e.op \in {"ZExt", "SExt", "Trunc"} THEN Peeled(e.a[1]) ELSE e
RECURSIVE PeelExact(_, _)
PeelExact(e, op) == e.op = "Select" \/ (e.op = op /\ PeelExact(e.a[1], op))
flattens(e) == Peeled(e).op = "Select"

RECURSIVE ChainValue(_, _)
ChainValue(c, e) ==
  IF e.op # "Select" THEN rootPrinted(c, e)
  ELSE LET guard == rootPrinted(c, e.a[1])
           arm == IF NoValue(guard.x) THEN guard ELSE IF guard.x.v # 0 THEN rootPrinted(c, e.a[2]) ELSE ChainValue(c, e.a[3])
       IN  [arm EXCEPT !.ok = @ /\ guard.ok]
RECURSIVE ChainParts(_)
ChainParts(e) == IF e.op # "Select" THEN {e} ELSE {e.a[1], e.a[2]} \cup ChainParts(e.a[3])

\* What an assignment, a return or a copy of e assigns.
flattenSelect(c, e) ==
  LET chain == ChainValue(c, Peeled(e))
  IN  [chain EXCEPT !.ok = @ /\ (PeelExact(e, "ZExt") \/ PeelExact(e, "Trunc"))]
assigned(c, e) == IF flattens(e) THEN flattenSelect(c, e) ELSE rootPrinted(c, e)
AssignedParts(e) == IF flattens(e) THEN ChainParts(Peeled(e)) ELSE {e}

\* Printing the parts gives their shared nodes temporaries.
materialized(c, m, parts) ==
  LET new == (UNION {Nodes(e) : e \in parts} \cap c.shared) \ DOMAIN c.named
  IN  [m EXCEPT !.named = [n \in new \cup DOMAIN @ |-> IF n \in new THEN text(c, n) ELSE @[n]]]

\* A node named by a local reads that local: it is stale once it is overwritten.
Stale(m, parts) ==
  \E n \in UNION {Nodes(e) : e \in parts} \cap DOMAIN m.stored :
    LoadFrom(m.mem, m.stored[n], n.w) # Number(m.named[n], n.w)

\* A statement that prints parts with the results ps and does what after does.
Stmt(c, m, parts, ps, after) ==
  IF (\E p \in ps : ~p.ok) \/ Stale(m, parts) THEN Stopped(m, "gap") ELSE materialized(c, after, parts)

(***************************************************************************)
(* Statements.                                                             *)
(***************************************************************************)
printLoad(c, m, op) ==
  LET a == memoryLvalue(c, op.args[1])
  IN  Stmt(c, m, AddressParts(op.args[1]), {a},
           IF NoValue(a.x) THEN Stopped(m, "undef")
           ELSE Define(Stopped(m, Access(m, op, Number(a.x, WordBits))), op, LoadFrom(m.mem, Number(a.x, WordBits), op.w)))

\* materializeAs: a shared value stored to a local of its width has that local
\* for its temporary.
bareLocal(f, em, op) ==
  LET slot == SlotOf(op)
  IN  slot.kind = "StackSlot" /\ localWidth(f, slot.base) = op.w /\ slot.base \notin em.pointers
printStore(f, em, c, m, op) ==
  LET a == memoryLvalue(c, op.args[1])
      at == Number(a.x, WordBits)
      value == op.args[2]
      as == bareLocal(f, em, op) /\ value \in c.shared \ DOMAIN c.named
      v == IF as THEN printed(c, value) ELSE assigned(c, value)
      parts == AddressParts(op.args[1]) \cup (IF as THEN {value} ELSE AssignedParts(value))
  IN  Stmt(c, m, parts, {a, v},
           IF at = Undef THEN Stopped(m, "undef")
           ELSE IF Access(m, op, at) # "running" THEN Stopped(m, Access(m, op, at))
           ELSE IF Bytes(at, op.w) \cap Immutable # {} THEN Stopped(m, "fault")
           ELSE [m EXCEPT !.mem = StoreTo(@, at, op.w, Number(v.x, op.w)),
                          !.stored = IF as THEN Put(@, value, at) ELSE @])

\* The object a call is handed: the bytes the function stores from there on,
\* without a hole.  A store to it that is dropped leaves it uninitialised.
ObjectAt(f, env, at) ==
  LET bytes == SlotBytes(env, {op \in SlotOps(f) : op.code = "Store"})
  IN  {a \in bytes : at <= a /\ at..a \subseteq bytes}
callArgument(c, e) == LET p == memoryLvalue(c, e) IN IF classify(e).kind = "StackSlot" THEN p ELSE printed(c, e)
printCall(f, env, c, m, op) ==
  LET ps == MapSeq(op.args, LAMBDA e : callArgument(c, e))
      vs == MapSeq(ps, LAMBDA p : Number(p.x, WordBits))
      target == vs[1]
      handed == UNION {ObjectAt(f, env, vs[i]) : i \in {j \in DOMAIN vs : classify(op.args[j]).kind = "StackSlot"}}
  IN  Stmt(c, m, OperandsOf(op), ToSet(ps),
           IF target = Undef THEN Stopped(m, "undef")
           ELSE IF handed \cap m.unwritten # {} THEN Stopped(m, "uninitialised")
           ELSE Define(AfterCall(f, env, Observe(m, "call", Decoded(target), Tail(vs)), target), op, Answer(env, m)))

printIntrinsic(env, c, m, op) ==
  LET ps == MapSeq(op.args, LAMBDA e : printed(c, e))
      vs == <<>> \o [i \in DOMAIN ps |-> Number(ps[i].x, op.args[i].w)]
  IN  Stmt(c, m, OperandsOf(op), ToSet(ps),
           Define([Observe(m, op.reg, 0, vs) EXCEPT !.answers = @ + 1, !.mem = Havoc(env, @)], op, Answer(env, m)))

printReturn(em, c, m, op) ==
  IF op.args = <<>> THEN ReturnOf(m, <<>>)
  ELSE LET v == assigned(c, op.args[1])
       IN  Stmt(c, m, AssignedParts(op.args[1]), {v},
                ReturnOf(m, <<Number(Convert(v.x, em.ret.w, em.ret.s), em.ret.w)>>))

printOp(f, em, env, m0, b, i) ==
  LET op == f.blocks[b][i]
      m == Reread(f, em, env, m0, b, i)
      c == Context(em, env, m)
  IN  IF m.stop # "running" \/ <<b, i>> \in em.prep.dead THEN m0
      ELSE CASE op.code = "Load"  -> printLoad(c, m, op)
             [] op.code = "Store" -> printStore(f, em, c, m, op)
             [] op.code = "Call"  -> printCall(f, env, c, m, op)
             [] op.code = "Intrinsic" -> printIntrinsic(env, c, m, op)
             [] op.code = "Return" -> printReturn(em, c, m, op)
             [] op.code \in {"Phi", "Branch", "CondBranch", "IndirectBranch"} -> m0
             [] OTHER -> Stopped(m, op.code)

addExprRoots(op) ==
  CASE op.code \in {"Store", "Call", "Intrinsic"} -> op.args
    [] op.code \in {"Load", "WriteReg", "Return"} /\ op.args # <<>> -> <<op.args[1]>>
    [] OTHER -> <<>>

printBlock(f, em, env, m, b) ==
  LET ops == f.blocks[b]
      live == SelectSeq([i \in DOMAIN ops |-> i], LAMBDA i : <<b, i>> \notin em.prep.dead)
      roots == FoldLeft(LAMBDA acc, i : acc \o addExprRoots(ops[i]), <<>>, live)
  IN  FoldLeft(LAMBDA acc, i : IF acc.stop = "running" THEN printOp(f, em, env, acc, b, i) ELSE acc, beginScope(m, roots), live)

(***************************************************************************)
(* Edges: the phis of the block entered are assigned one after the other.  *)
(***************************************************************************)
edgeCopies(f, from, to) ==
  LET slot == CHOOSE i \in DOMAIN Preds(f, to) : Preds(f, to)[i] = from /\ \A j \in 1..(i - 1) : Preds(f, to)[j] # from
      phis == SelectSeq(f.blocks[to], LAMBDA op : op.code = "Phi")
      all == MapSeq(phis, LAMBDA op : [to |-> op.res, w |-> op.w, source |-> op.args[slot]])
  IN  SelectSeq(all, LAMBDA x : x.source # valueRef(x.w, x.to))

\* The destinations another copy of the edge reads keep their old value aside.
\* Mutant: only those an earlier copy reads.
conflicting_Earlier(copies) ==
  {copies[i].to : i \in {j \in DOMAIN copies : \E k \in 1..(j - 1) : copies[j].to \in ValuesIn(copies[k].source)}}
conflicting(copies) ==
  {copies[i].to : i \in {j \in DOMAIN copies : \E k \in DOMAIN copies \ {j} : copies[j].to \in ValuesIn(copies[k].source)}}

printEdge(f, em, env, m, from, to) ==
  LET copies == edgeCopies(f, from, to)
      aside == conflicting(copies)
      copyOne(acc, x) ==
        LET seen == [acc EXCEPT !.vals = [v \in DOMAIN @ |-> IF v \in aside THEN m.vals[v] ELSE @[v]]]
            c == Context(em, env, seen)
            p == assigned(c, x.source)
        IN  IF acc.stop # "running" THEN acc ELSE Stmt(c, acc, AssignedParts(x.source), {p}, SetTemp(acc, x.to, x.w, p.x))
  IN  IF copies = <<>> THEN m
      ELSE FoldLeft(copyOne, beginScope(m, MapSeq(copies, LAMBDA x : x.source)), copies)

\* Where a block is left to.  The test of a branch is printed once, in a scope
\* of its own whose temporaries are assigned before the statement.  scope is that
\* scope, with the values the names have when the text is evaluated.
Branched(f, em, env, scope, b) ==
  LET op == Last(f.blocks[b])
      test == WrittenAs(Context(em, env, scope), op.args[1])
  IN  IF ~test.exact THEN Stopped(scope, "gap")
      ELSE IF NoValue(test.text) THEN Stopped(scope, "undef")
      ELSE GoTo(scope, op.to[IF test.text.v # 0 THEN 1 ELSE 2])

Transfer(f, em, env, m0, b) ==
  LET op == Last(f.blocks[b])
      m == Reread(f, em, env, m0, b, Len(f.blocks[b]))
  IN  IF m.stop # "running" THEN m
      ELSE CASE op.code = "Branch" -> GoTo(m, op.to[1])
             [] op.code = "CondBranch" -> Branched(f, em, env, beginScope(m, <<op.args[1]>>), b)
             [] op.code = "IndirectBranch" -> BranchTo(f, env, m, op)
             [] OTHER -> Stopped(m, "error")

\* printDoWhile: `if (test) { copies } } while (test);`.  After the copies of the
\* back edge the same text decides again: what it names by a temporary is as it
\* was, the phis in it are the copied ones.
\* (printWhile needs nothing like it: its header is a test and no phi, so the
\* test reads nothing the loop assigns.)
Retest(f, em, env, left, copied, b) ==
  LET test == Last(f.blocks[b]).args[1]
      scope == beginScope(left, <<test>>)
      named == materialized(Context(em, env, scope), scope, {test})
      now == [Reread(f, em, env, copied, b, Len(f.blocks[b])) EXCEPT !.at = b, !.shared = named.shared, !.named = named.named]
  IN  Branched(f, em, env, now, b)

\* From the end of block b to the start of the next one.
Leave(f, em, env, ran, b) ==
  LET left == Transfer(f, em, env, ran, b)
      copied == printEdge(f, em, env, left, b, left.at)
      retests == <<b, left.at>> \in em.doWhiles /\ edgeCopies(f, b, left.at) # <<>> /\ copied.stop = "running"
      again == Retest(f, em, env, left, copied, b)
      marked == [again EXCEPT !.retested = IF @ = 0 THEN Len(again.trace) + 1 ELSE @]
  IN  CASE left.stop # "running" -> left
        [] left.stop = "running" /\ ~retests -> copied
        [] left.stop = "running" /\ retests ->
             CASE again.stop = "gap" -> again
               [] again.stop = "undef" -> marked
               [] again.stop = "running" -> IF again.at = left.at THEN copied ELSE printEdge(f, em, env, marked, b, again.at)

RECURSIVE CRunFor(_, _, _, _, _)
CRunFor(f, em, env, m, fuel) ==
  LET ran == printBlock(f, em, env, m, m.at)
  IN  IF m.stop # "running" \/ fuel = 0 THEN m
      ELSE IF ran.stop # "running" THEN ran
      ELSE CRunFor(f, em, env, Leave(f, em, env, ran, m.at), fuel - 1)

\* What a run of the C function shows, and the type it returns.
RunOfC(f, em, env) ==
  LET start == CStart(f, em, env)
      m == CRunFor(f, em, env, IF em.sound THEN start ELSE Stopped(start, "gap"), Fuel)
  IN  [trace |-> m.trace, stop |-> m.stop, retested |-> m.retested, ret |-> em.ret, unwritten |-> start.unwritten]
\* The part of a run before a do-while's second test differs from its first.
UpToRetest(run) ==
  IF run.retested = 0 THEN run ELSE [run EXCEPT !.trace = SubSeq(@, 1, run.retested - 1), !.stop = "gap"]

(***************************************************************************)
(* The C function shows what the lifted one shows: its returned value      *)
(* through the return type, its memory but for what it no longer writes.   *)
(***************************************************************************)
Narrow(e, ret) == IF e.kind = "return" THEN [e EXCEPT !.args = MapSeq(@, LAMBDA v : IF v = Undef THEN Undef ELSE v % 2^ret.w)] ELSE e
Forget(e, bytes) == [e EXCEPT !.mem = [a \in Addresses |-> IF a \in bytes THEN Undef ELSE @[a]]]
SameRunC(want, got) ==
  SameRun([want EXCEPT !.trace = MapSeq(@, LAMBDA e : Forget(Narrow(e, got.ret), got.unwritten))], got, {"Unimplemented", "gap"})
=============================================================================
