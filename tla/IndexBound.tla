------------------------------- MODULE IndexBound -------------------------------
(***************************************************************************)
(* What can be proved about the index of a jump table: jump_table.cpp      *)
(* finds the table under a branch target, index_bound.cpp bounds its index *)
(* from the shape of the expression and from the guards above the branch,  *)
(* or enumerates it.  Undef is the answer "nothing proved" for a bound,    *)
(* Top for a set.                                                          *)
(***************************************************************************)
EXTENDS CallPasses

CONSTANTS
  kSetCap,     \* the most values the enumeration carries, 64 in the code
  kMaxDepth    \* how deep both walks look into an expression

ASSUME CapAssumption == kSetCap \in Nat /\ kMaxDepth \in Nat

(***************************************************************************)
(* jump_table.cpp.  A matcher answers with a record whose field ev is the  *)
(* evaluator after the questions it asked, and found whether it matched.   *)
(***************************************************************************)
NoMatch(ev) == [ev |-> ev, found |-> FALSE]

\* The one value of e, written or evaluated.
singleValueOf(f, ev, e) ==
  LET r == evalSet(f, ev, e)
  IN  IF IsConst(e) THEN [ev |-> ev, n |-> e.n]
      ELSE [ev |-> r, n |-> IF r.out # Top /\ Cardinality(r.out) = 1 THEN CHOOSE v \in r.out : TRUE ELSE Undef]

\* base + index * stride; index is empty for a bare base.
matchTableAddress(f, ev, addr, defaultStride) ==
  LET left  == singleValueOf(f, ev, addr.a[1])
      right == singleValueOf(f, left.ev, addr.a[2])
      leftBase == left.n # Undef
      side == IF leftBase THEN left ELSE right
      scaled == addr.a[IF leftBase THEN 2 ELSE 1]
      amount == scaled.a[2].n
      table(base, stride, index) == [ev |-> side.ev, found |-> TRUE, base |-> base, stride |-> stride, index |-> index]
  IN  IF IsConst(addr) THEN [ev |-> ev, found |-> TRUE, base |-> addr.n, stride |-> defaultStride, index |-> <<>>]
      ELSE IF addr.op # "Add" THEN NoMatch(ev)
      ELSE IF side.n = Undef THEN NoMatch(side.ev)
      ELSE CASE scaled.op = "Shl" /\ IsConst(scaled.a[2]) /\ amount <= 3 -> table(side.n, 2^amount, <<scaled.a[1]>>)
             [] scaled.op = "Mul" /\ IsConst(scaled.a[2]) /\ amount \in {1, 2, 4, 8} -> table(side.n, amount, <<scaled.a[1]>>)
             [] scaled.op \in {"ZExt", "SExt", "And"} -> table(side.n, defaultStride, <<scaled>>)
             [] OTHER -> NoMatch(side.ev)

RECURSIVE UnderCasts(_, _)
UnderCasts(e, signed) ==
  IF e.op \in {"ZExt", "SExt", "Trunc"} THEN UnderCasts(e.a[1], signed \/ e.op = "SExt")
  ELSE [e |-> e, signed |-> signed]

\* The load under a branch target; its width is the entry's.
loadTable(f, ev, loaded) ==
  LET under == UnderCasts(loaded, FALSE)
      load == DefinitionOf(f, under.e.n)
      address == matchTableAddress(f, ev, load.args[1], load.w)
  IN  IF under.e.op # "Value" \/ load.code # "Load" THEN NoMatch(ev)
      ELSE IF ~address.found THEN address
      ELSE [ev |-> address.ev, found |-> TRUE, base |-> address.base, stride |-> address.stride,
            index |-> address.index, bits |-> load.w, signed |-> under.signed]

HalfWord == Max(CWidths)
JumpTable(load, relative, anchor, signed, shift) ==
  [ev |-> load.ev, found |-> TRUE, base |-> load.base, stride |-> load.stride, bits |-> load.bits, index |-> load.index,
   relative |-> relative, anchor |-> anchor, signed |-> signed, shift |-> shift]

\* anchor + sext(load), anchor + (extend(load) << k), with the anchor on one side.
matchOffsetTable(f, ev, target, arm) ==
  LET anchor == singleValueOf(f, ev, target.a[arm])
      offset == target.a[3 - arm]
      plain  == loadTable(f, anchor.ev, offset.a[1])
      shift  == offset.a[2].n
  IN  IF anchor.n = Undef THEN NoMatch(anchor.ev)
      ELSE CASE offset.op = "SExt" ->
                  (IF plain.found /\ plain.bits = HalfWord THEN JumpTable(plain, TRUE, anchor.n, TRUE, 0) ELSE NoMatch(plain.ev))
             [] offset.op = "Shl" /\ IsConst(offset.a[2]) /\ shift <= 4 ->
                  (IF plain.found /\ plain.bits \in CWidths THEN JumpTable(plain, TRUE, anchor.n, plain.signed, shift)
                   ELSE NoMatch(plain.ev))
             [] OTHER -> NoMatch(anchor.ev)

matchJumpTable(f, ev, target) ==
  LET first  == matchOffsetTable(f, ev, target, 1)
      second == matchOffsetTable(f, first.ev, target, 2)
      offset == IF target.op # "Add" THEN NoMatch(ev) ELSE IF first.found THEN first ELSE second
      pointer == loadTable(f, offset.ev, target)
  IN  IF offset.found THEN offset
      ELSE IF pointer.found /\ pointer.bits = WordBits THEN JumpTable(pointer, FALSE, 0, FALSE, 0)
      ELSE NoMatch(pointer.ev)

(***************************************************************************)
(* Bounds from comparisons.                                                *)
(***************************************************************************)
RECURSIVE stripWidening(_)
stripWidening(e) == IF e.op = "ZExt" THEN stripWidening(e.a[1]) ELSE e
sameValue(x, y) == stripWidening(x) = stripWidening(y)

\* Mutant: c < index is read as index <= c - 1 where it does not hold.
upperBound_Below(cond, index, onTrueEdge) ==
  LET c == cond.a[1].n
  IN  IF cond.op # "CmpLtU" \/ onTrueEdge THEN Undef
      ELSE IF ~(sameValue(cond.a[2], index) /\ IsConst(cond.a[1])) \/ c = 0 THEN Undef ELSE c - 1

\* readComparison and upperBound: the bound an unsigned comparison of the index
\* with a constant puts on it along one edge.
upperBound(cond, index, onTrueEdge) ==
  LET onLeft  == sameValue(cond.a[1], index) /\ IsConst(cond.a[2])
      onRight == sameValue(cond.a[2], index) /\ IsConst(cond.a[1])
      c == cond.a[IF onLeft THEN 2 ELSE 1].n
      below == IF c = 0 THEN Undef ELSE c - 1
  IN  IF cond.op \notin {"CmpLtU", "CmpLeU"} THEN Undef
      ELSE IF ~(onLeft \/ onRight) \/ onTrueEdge # onLeft THEN Undef
      ELSE IF (cond.op = "CmpLeU") = onLeft THEN c ELSE below

\* The successor via is entered from nowhere but from.
edgeDominates(f, idom, from, via, reached) ==
  dominates(idom, via, reached) /\ PredSet(f, via) = {from}

\* The edges of block's conditional branch that alone lead to reached.
guardedEdge(f, idom, block, reached) ==
  LET t == Last(f.blocks[block])
      viaTrue  == edgeDominates(f, idom, block, t.to[1], reached)
      viaFalse == edgeDominates(f, idom, block, t.to[2], reached)
  IN  IF f.blocks[block] = <<>> THEN {}
      ELSE IF t.code # "CondBranch" THEN {}
      ELSE IF viaTrue = viaFalse THEN {} ELSE {viaTrue}

(***************************************************************************)
(* Bounds from the expression itself.                                      *)
(***************************************************************************)
typeBound(w) == AllOnes(w)
Least(x, y) == IF x = Undef THEN y ELSE IF y = Undef \/ x <= y THEN x ELSE y

\* The literal operand of a commutative operator, the right one first.
Literal(e) == IF IsConst(e.a[2]) THEN e.a[2].n ELSE IF IsConst(e.a[1]) THEN e.a[1].n ELSE Undef
OtherOperand(e) == IF IsConst(e.a[2]) THEN e.a[1] ELSE e.a[2]

significantBits(v) == Cardinality({i \in 0..(WordBits - 1) : 2^i <= v})
lowMask(n) == AllOnes(n)

RECURSIVE localBound(_, _), armBound(_, _, _, _), evaluateAgainstBoundedRange(_, _)

\* The truth values a comparison with a constant can have while its other side
\* ranges over 0..bound; signed comparisons are decided as unsigned ones.
evaluateAgainstBoundedRange(cond, depth) ==
  LET onLeft == IsConst(cond.a[1])
      c == cond.a[IF onLeft THEN 1 ELSE 2].n
      hi == localBound(cond.a[IF onLeft THEN 2 ELSE 1], depth + 1)
      holds(v) == LET a == IF onLeft THEN c ELSE v
                      b == IF onLeft THEN v ELSE c
                  IN  CASE cond.op \in {"CmpLtU", "CmpLtS"} -> a < b
                        [] cond.op \in {"CmpLeU", "CmpLeS"} -> a <= b
                        [] cond.op = "CmpEq" -> a = b
                        [] cond.op = "CmpNe" -> a # b
  IN  IF cond.op \notin CompareOps THEN BOOLEAN
      ELSE IF ~(onLeft \/ IsConst(cond.a[2])) THEN BOOLEAN
      ELSE IF hi = Undef \/ hi > AllOnes(WordBits - 1) THEN BOOLEAN
      ELSE IF cond.op \in {"CmpEq", "CmpNe"} /\ c > hi THEN {cond.op = "CmpNe"}
      ELSE IF cond.op \in {"CmpEq", "CmpNe"} /\ hi # 0 THEN BOOLEAN
      ELSE {holds(0), holds(hi)}

\* One arm of a select: never taken, bounded by the condition, bounded by it
\* at a constant offset, or by its own shape.
armBound(cond, arm, onTrueEdge, depth) ==
  LET direct == upperBound(cond, arm, onTrueEdge)
      offset == arm.op \in {"Add", "Sub"} /\ IsConst(arm.a[2])
      guarded == upperBound(cond, arm.a[1], onTrueEdge)
      k == arm.a[2].n
  IN  IF onTrueEdge \notin evaluateAgainstBoundedRange(cond, depth) THEN 0
      ELSE IF direct # Undef THEN direct
      ELSE IF offset /\ guarded # Undef /\ arm.op = "Sub" THEN (IF guarded < k THEN 0 ELSE guarded - k)
      ELSE IF offset /\ guarded # Undef /\ k <= typeBound(arm.w) /\ guarded <= typeBound(arm.w) - k THEN guarded + k
      ELSE localBound(arm, depth + 1)

localBound(e, depth) ==
  LET inner(i) == localBound(e.a[i], depth + 1)
      other == localBound(OtherOperand(e), depth + 1)
      k == Literal(e)
      arm(i) == armBound(e.a[1], e.a[i], i = 2, depth)
  IN  IF depth > kMaxDepth THEN Undef
      ELSE CASE IsConst(e) -> e.n
             [] e.op = "ZExt"  -> Least(inner(1), typeBound(e.a[1].w))
             [] e.op = "Trunc" -> Least(inner(1), typeBound(e.w))
             [] e.op = "And"   -> IF k = Undef THEN Undef ELSE Least(other, k)
             [] e.op = "ShrU"  -> IF ~IsConst(e.a[2]) THEN Undef
                                  ELSE IF e.a[2].n >= WordBits THEN 0
                                  ELSE Least(inner(1), typeBound(e.w)) \div 2^e.a[2].n
             [] e.op = "Or"    -> IF k = Undef THEN Undef
                                  ELSE lowMask(significantBits(IF other = Undef THEN typeBound(e.w) ELSE other)) | k
             [] e.op \in {"Add", "Sub"} ->
                  CASE k = Undef \/ other = Undef -> Undef
                    [] e.op = "Add" -> IF other > typeBound(e.w) - k THEN Undef ELSE other + k
                    [] e.op = "Sub" /\ ~IsConst(e.a[2]) -> IF other > k THEN Undef ELSE k
                    [] OTHER -> IF other < k THEN Undef ELSE other - k
             [] e.op = "Select" -> IF arm(2) = Undef \/ arm(3) = Undef THEN Undef ELSE Max({arm(2), arm(3)})
             [] OTHER -> Undef

\* The tightest of the index's own bound and those of the guards up the
\* dominator tree.
RECURSIVE GuardBounds(_, _, _, _, _)
GuardBounds(f, idom, block, dispatch, index) ==
  LET cond == Last(f.blocks[block]).args[1]
      here == {upperBound(cond, index, edge) : edge \in guardedEdge(f, idom, block, dispatch)}
  IN  here \cup (IF block = 1 THEN {} ELSE GuardBounds(f, idom, idom[block], dispatch, index))

boundOnIndex(f, idom, dispatch, index) ==
  FoldSet(Least, localBound(index, 0), IF idom[dispatch] = 0 THEN {} ELSE GuardBounds(f, idom, dispatch, dispatch, index))

(***************************************************************************)
(* Every value an index can take, from its shape.                          *)
(***************************************************************************)
valuesOfWidth(w) == IF AllOnes(w) >= kSetCap THEN Top ELSE 0..AllOnes(w)
CapSet(vs) == IF vs # Top /\ Cardinality(vs) > kSetCap THEN Top ELSE vs

combineBinary(op, x, y, w) ==
  CASE op = "Or"  -> (x | y) % 2^w
    [] op = "And" -> (x & y) % 2^w
    [] op = "Xor" -> (x ^^ y) % 2^w
    [] op = "Add" -> (x + y) % 2^w
    [] op = "Sub" -> (x - y) % 2^w
    [] op = "Shl" -> Shl(x, w, y)
    [] op = "Mul" -> (x * y) % 2^w

\* A side that is a multiple of one boolean: the question it answers, whether
\* it is negated, and the multiplier.
BitFactor(question, complemented) == [question |-> question, comp |-> complemented, mult |-> 1]
NoFactor == [question |-> <<>>, comp |-> FALSE, mult |-> 0]

RECURSIVE UnderNots(_, _)
UnderNots(e, negated) == IF e.op = "Not" THEN UnderNots(e.a[1], ~negated) ELSE [e |-> e, negated |-> negated]

RECURSIVE matchBitFactor(_)
matchBitFactor(e) ==
  LET inner == matchBitFactor(IF e.op = "Mul" THEN OtherOperand(e) ELSE e.a[1])
      k == IF e.op = "Mul" THEN Literal(e) ELSE IF IsConst(e.a[2]) /\ e.a[2].n < WordBits THEN 2^e.a[2].n ELSE Undef
      x == e.a[1]
      cmp == UnderNots(e, FALSE)
  IN  CASE e.op \in {"Mul", "Shl"} ->
             IF k = Undef THEN NoFactor
             ELSE IF inner = NoFactor THEN NoFactor ELSE [inner EXCEPT !.mult = (@ * k) % 2^WordBits]
        [] e.op = "ShrU" ->
             IF ~IsConst(e.a[2]) THEN NoFactor
             ELSE IF x.op = "Not" THEN BitFactor(<<"bit", x.a[1], e.a[2]>>, TRUE)
             ELSE BitFactor(<<"bit", x, e.a[2]>>, FALSE)
        [] e.op \in {"ZExt", "SExt"} -> IF x.w = 1 THEN matchBitFactor(x) ELSE NoFactor
        [] OTHER -> IF cmp.e.op \in {"CmpEq", "CmpNe"}
                    THEN BitFactor(<<"compare", cmp.e.a[1], cmp.e.a[2]>>, (cmp.e.op = "CmpNe") # cmp.negated)
                    ELSE NoFactor

Complementary(l, r) == l # NoFactor /\ r # NoFactor /\ l.question = r.question /\ l.comp # r.comp
PairValues(op, l, r, w) ==
  LET bit(x, v) == (IF x.comp THEN 1 - v ELSE v) * x.mult IN {combineBinary(op, bit(l, v), bit(r, v), w) : v \in {0, 1}}

RECURSIVE flattenChain(_, _)
flattenChain(op, e) == IF e.op = op THEN flattenChain(op, e.a[1]) \o flattenChain(op, e.a[2]) ELSE <<e>>

CrossValues(op, xs, ys, w) ==
  IF xs = Top \/ ys = Top THEN Top
  ELSE IF Cardinality(xs) * Cardinality(ys) > kSetCap THEN Top
  ELSE {combineBinary(op, x, y, w) : x \in xs, y \in ys}

RECURSIVE exactValues(_, _, _)

\* Three or more terms: each is paired with the first later complement of it.
exactOrChainValues(f, e, depth) ==
  LET leaves == flattenChain("Or", e)
      later(claimed, i) == {j \in (i + 1)..Len(leaves) : j \notin claimed
                                /\ Complementary(matchBitFactor(leaves[i]), matchBitFactor(leaves[j]))}
      visit(st, i) ==
        LET js == later(st.claimed, i)
            j == Min(js)
        IN  IF i \in st.claimed THEN st
            ELSE IF js = {} THEN [st EXCEPT !.groups = Append(@, exactValues(f, leaves[i], depth + 1))]
            ELSE [claimed |-> st.claimed \cup {i, j}, paired |-> TRUE,
                  groups |-> Append(st.groups, PairValues("Or", matchBitFactor(leaves[i]), matchBitFactor(leaves[j]), e.w))]
      done == FoldLeft(visit, [claimed |-> {}, paired |-> FALSE, groups |-> <<>>], [i \in 1..Len(leaves) |-> i])
  IN  IF Len(leaves) <= 2 \/ ~done.paired THEN Top
      ELSE FoldLeft(LAMBDA acc, g : CrossValues("Or", acc, g, e.w), {0}, done.groups)

PhiValues(f, w, arms, depth) ==
  FoldLeft(LAMBDA acc, e : LET vs == exactValues(f, e, depth + 1)
                           IN  IF acc = Top \/ vs = Top THEN Top ELSE CapSet(acc \cup vs),
           {}, Computed(arms))

\* A select one of whose arms is the other plus or minus a literal.
OffsetArm(known, knownValues, arm, w) ==
  IF arm.op \notin {"Add", "Sub"} THEN Top
  ELSE IF ~(sameValue(arm.a[1], known) /\ IsConst(arm.a[2])) THEN Top
  ELSE CapSet(knownValues \cup {combineBinary(arm.op, v, arm.a[2].n, w) : v \in knownValues})

exactValues(f, e, depth) ==
  LET vals(i) == exactValues(f, e.a[i], depth + 1)
      def == DefinitionOf(f, e.n)
      l == matchBitFactor(e.a[1])
      r == matchBitFactor(e.a[2])
      chained == exactOrChainValues(f, e, depth)
      from == e.a[1].w
  IN  IF depth > kMaxDepth THEN Top
      ELSE CASE IsConst(e) -> {e.n}
             [] e.op \in {"ZExt", "SExt", "Trunc"} ->
                  IF vals(1) = Top THEN (IF e.op = "Trunc" THEN valuesOfWidth(e.w) ELSE Top)
                  ELSE {IF e.op = "SExt" THEN SExt(v, from, e.w) ELSE v % 2^e.w : v \in vals(1)}
             [] e.op = "Value" -> IF def.code = "Phi" THEN PhiValues(f, e.w, def.args, depth) ELSE valuesOfWidth(e.w)
             [] e.op = "ShrU" -> IF ~IsConst(e.a[2]) THEN Top
                                 ELSE IF e.a[2].n >= e.w THEN {0}
                                 ELSE IF vals(1) = Top THEN valuesOfWidth(e.w - e.a[2].n)
                                 ELSE {(v % 2^e.w) \div 2^e.a[2].n : v \in vals(1)}
             [] e.op \in {"Or", "And", "Xor", "Add", "Sub", "Mul", "Shl"} ->
                  IF e.op = "Or" /\ chained # Top THEN chained
                  ELSE IF Complementary(l, r) THEN PairValues(e.op, l, r, e.w)
                  ELSE CrossValues(e.op, vals(1), vals(2), e.w)
             [] e.op = "Select" ->
                  CASE vals(2) # Top /\ vals(3) # Top -> CapSet(vals(2) \cup vals(3))
                    [] vals(2) # Top /\ vals(3) = Top -> OffsetArm(e.a[2], vals(2), e.a[3], e.w)
                    [] vals(2) = Top /\ vals(3) # Top -> OffsetArm(e.a[3], vals(3), e.a[2], e.w)
                    [] OTHER -> Top
             [] OTHER -> valuesOfWidth(e.w)

\* Top when nothing is enumerated.
preciseIndexSet(f, index) == LET vs == exactValues(f, index, 0) IN IF vs = {} THEN Top ELSE CapSet(vs)
=============================================================================
