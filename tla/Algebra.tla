------------------------------ MODULE Algebra ------------------------------
(***************************************************************************)
(* The algebraic simplifier of the SSA optimizer (passes/algebra.cpp) and  *)
(* the obfuscation idioms it undoes (passes/algebra_idioms.cpp): bottom-up *)
(* rewriting, each node rewritten at most kMaxRounds times.  A rule is the *)
(* empty sequence when it does not match and the rewritten node otherwise; *)
(* the first rule that matches wins.                                       *)
(***************************************************************************)
EXTENDS IlExpr

CONSTANT kMaxRounds    \* rewrites of one node before the simplifier gives up

When(matches, e) == IF matches THEN <<e>> ELSE <<>>
FirstOf(rules, other) ==
  LET hits == SelectSeq(rules, LAMBDA r : r # <<>>)
  IN  IF hits = <<>> THEN other ELSE hits[1][1]

ConstIs(e, v) == IsConst(e) /\ e.n = v
IsAllOnes(e)  == IsConst(e) /\ e.w > 0 /\ e.n = AllOnes(e.w)

normaliseCommutative(e) ==
  IF IsConst(e.a[1]) /\ ~IsConst(e.a[2]) THEN [e EXCEPT !.a = <<@[2], @[1]>>] ELSE e

samePair(p, q) == p.a = q.a \/ p.a = <<q.a[2], q.a[1]>>
BothOf(p, opP, q, opQ) == p.op = opP /\ q.op = opQ /\ samePair(p, q)

\* 2*v and v << 1.
Doubles(e) == e.op \in {"Mul", "Shl"} /\ ConstIs(e.a[2], IF e.op = "Mul" THEN 2 ELSE 1)

(***************************************************************************)
(* algebra_idioms.cpp                                                      *)
(***************************************************************************)
matchMbaAdd(l, r) ==
  << When(Doubles(r) /\ BothOf(l, "Xor", r.a[1], "And"), binary("Add", l.a[1], l.a[2])),
     When(BothOf(l, "Or", r, "And"), binary("Add", l.a[1], l.a[2])),
     When(BothOf(l, "And", r, "Xor"), binary("Or", l.a[1], l.a[2])) >>

matchMbaOr(l, r)  == When(BothOf(l, "And", r, "Xor"), binary("Or", l.a[1], l.a[2]))
matchMbaXor(l, r) == When(BothOf(l, "Or", r, "And"), binary("Xor", l.a[1], l.a[2]))

matchMbaSub(l, r) ==
  << When(BothOf(l, "Or", r, "And"), binary("Xor", l.a[1], l.a[2])),
     When(Doubles(l) /\ BothOf(l.a[1], "Or", r, "Xor"), binary("Add", l.a[1].a[1], l.a[1].a[2])) >>

\* ((2*v) | 2) - (v ^ 1), which is v + 1.
matchObfuscatedIncrement(l, r) ==
  When(/\ l.op = "Or" /\ Doubles(l.a[1]) /\ ConstIs(l.a[2], 2)
       /\ r.op = "Xor" /\ r.a[1] = l.a[1].a[1] /\ ConstIs(r.a[2], 1),
       binary("Add", r.a[1], constant(l.w, 1)))

\* v * (v - 1), v * (v + 1) and v * ~v are even.
matchEvenProduct(e) ==
  e.op = "Mul" /\ \E arm \in 1..2 :
    LET factor == e.a[arm]
        other  == e.a[3 - arm]
    IN  \/ factor.op \in {"Sub", "Add"} /\ ConstIs(factor.a[2], 1) /\ factor.a[1] = other
        \/ factor.op = "Not" /\ factor.a[1] = other

matchMaskedRotate(x, mask) ==
  LET w == x.w
      k == x.a[2].n
      right == IF x.op = "RotR" THEN k ELSE w - k
      fromRight == AllOnes(w - right)
      fromLeft  == AllOnes(w) - fromRight
      matches == x.op \in {"RotR", "RotL"} /\ IsConst(mask) /\ IsConst(x.a[2]) /\ k > 0 /\ k < w
      masked(op, by) == binary("And", binary(op, x.a[1], constant(w, by)), mask)
  IN  << When(matches /\ (mask.n & fromRight) = 0, masked("Shl", w - right)),
         When(matches /\ (mask.n & fromLeft) = 0, masked("ShrU", right)) >>

reachableBits(op, w, k) == IF op = "Shl" THEN AllOnes(w) - AllOnes(k) ELSE AllOnes(w - k)
matchMaskedShift(x, mask) ==
  When(/\ x.op \in {"Shl", "ShrU"} /\ IsConst(mask) /\ IsConst(x.a[2]) /\ x.a[2].n < x.w
       /\ LET bits == reachableBits(x.op, x.w, x.a[2].n) IN (mask.n & bits) = bits,
       x)

\* (x & low) | (sext(sign bit of x) & ~low), the inlined sign extension.
isBitOf(bit, i, source) ==
  /\ bit.w = 1
  /\ (bit.op = "Extract" /\ bit.n = i) \/ (bit.op = "Trunc" /\ i = 0)
  /\ bit.a[1] = source
matchSignExtend(high, low) ==
  LET w == high.w
      field == CHOOSE f \in 1..w : low.a[2].n = AllOnes(f)
      matches == /\ high.op = "And" /\ low.op = "And" /\ IsConst(high.a[2]) /\ IsConst(low.a[2])
                 /\ \E f \in {1} \cup CWidths : f < w /\ low.a[2].n = AllOnes(f)
                 /\ high.a[2].n = AllOnes(w) - low.a[2].n
                 /\ high.a[1].op = "SExt" /\ high.a[1].w = w
                 /\ isBitOf(high.a[1].a[1], field - 1, low.a[1])
  IN  When(matches, IF field = 1 THEN unary("Neg", low)
                    ELSE cast("SExt", w, cast("Trunc", field, low.a[1])))

\* The operand of cmp that eq compares with zero, when it is the other operand
\* plus a constant; the loop over both arms accepts the sum on either side.
carrySums(cmp, eq) ==
  {arm \in 1..2 : /\ cmp.a[arm] = eq.a[1] /\ cmp.a[arm].op = "Add"
                  /\ cmp.a[arm].a[1] = cmp.a[3 - arm]
                  /\ IsConst(cmp.a[arm].a[2]) /\ cmp.a[arm].a[2].n # 0}
matchCarryBound(cmp, eq, cmpOp, eqOp) ==
  cmp.op = cmpOp /\ eq.op = eqOp /\ ConstIs(eq.a[2], 0) /\ carrySums(cmp, eq) # {}
carryBound(eq) == constant(eq.a[1].w, -eq.a[1].a[2].n)
matchCarryCompare(cmp, eq) ==
  When(matchCarryBound(cmp, eq, "CmpLtU", "CmpNe"),
       binary("CmpLtU", carryBound(eq), eq.a[1].a[1]))
matchCarryCompareOr(cmp, eq) ==
  When(matchCarryBound(cmp, eq, "CmpLeU", "CmpEq"),
       binary("CmpLeU", eq.a[1].a[1], carryBound(eq)))

\* Comparing v << k with a constant or with u << k compares the low bits.
matchShiftedCompare(e) ==
  LET mirrored == e.a[1].op # "Shl"
      lhs == e.a[IF mirrored THEN 2 ELSE 1]
      rhs == e.a[IF mirrored THEN 1 ELSE 2]
      k == lhs.a[2].n
      narrow == lhs.w - k
      low(x) == cast("Trunc", narrow, x)
      compare(other) == IF mirrored THEN binary(e.op, other, low(lhs.a[1]))
                        ELSE binary(e.op, low(lhs.a[1]), other)
      matches == /\ lhs.op = "Shl" /\ IsConst(lhs.a[2]) /\ k > 0 /\ k < lhs.w
                 /\ narrow \in CWidths
  IN  << When(matches /\ IsConst(rhs) /\ rhs.n % 2^k = 0, compare(constant(narrow, rhs.n \div 2^k))),
         When(matches /\ rhs.op = "Shl" /\ ConstIs(rhs.a[2], k), compare(low(rhs.a[1]))) >>

\* (K1 - v) + a  compared with  K2 - v, which compares a with K2 - K1.
matchCancelledSubtrahend(e) ==
  LET cancelled(sum, sub, i) ==
        When(/\ e.op \in {"CmpEq", "CmpNe"} /\ sum.op = "Add" /\ sub.op = "Sub"
             /\ sum.a[i].op = "Sub" /\ sum.a[i].a[2] = sub.a[2]
             /\ IsConst(sum.a[i].a[1]) /\ IsConst(sub.a[1]),
             binary(e.op, sum.a[3 - i], constant(sum.w, sub.a[1].n - sum.a[i].a[1].n)))
  IN  << cancelled(e.a[1], e.a[2], 1), cancelled(e.a[1], e.a[2], 2),
         cancelled(e.a[2], e.a[1], 1), cancelled(e.a[2], e.a[1], 2) >>

(***************************************************************************)
(* algebra.cpp                                                             *)
(***************************************************************************)
rewriteAdd(e0) ==
  LET e == normaliseCommutative(e0)
      x == e.a[1]
      y == e.a[2]
      K(v) == constant(e.w, v)
  IN  FirstOf(matchMbaAdd(x, y) \o matchMbaAdd(y, x) \o
        << When(ConstIs(y, 1) /\ x.op = "Not", unary("Neg", x.a[1])),
           When(ConstIs(y, 0), x),
           When(x.op = "Neg", binary("Sub", y, x.a[1])),
           When(y.op = "Neg", binary("Sub", x, y.a[1])),
           When(IsConst(y) /\ x.op = "Add" /\ IsConst(x.a[2]),
                binary("Add", x.a[1], K(x.a[2].n + y.n))),
           When(IsConst(y) /\ x.op = "Sub" /\ IsConst(x.a[2]),
                binary("Add", x.a[1], K(y.n - x.a[2].n))),
           When(IsConst(y) /\ x.op = "Sub" /\ IsConst(x.a[1]),
                binary("Sub", K(x.a[1].n + y.n), x.a[2])) >>, e)

rewriteSub(e) ==
  LET x == e.a[1]
      y == e.a[2]
      K(v) == constant(e.w, v)
  IN  FirstOf(matchMbaSub(x, y) \o
        << matchObfuscatedIncrement(x, y),
           When(ConstIs(y, 0), x),
           When(x = y, K(0)),
           When(y.op = "Neg", binary("Add", x, y.a[1])),
           When(ConstIs(x, 0), unary("Neg", y)),
           When(IsConst(y) /\ x.op = "Sub" /\ IsConst(x.a[2]),
                binary("Sub", x.a[1], K(x.a[2].n + y.n))),
           When(IsConst(y) /\ x.op = "Add" /\ IsConst(x.a[2]),
                binary("Add", x.a[1], K(x.a[2].n - y.n))),
           When(IsConst(y) /\ x.op = "Sub" /\ IsConst(x.a[1]),
                binary("Sub", K(x.a[1].n - y.n), x.a[2])),
           When(IsConst(x) /\ y.op = "Sub" /\ IsConst(y.a[2]),
                binary("Sub", K(x.n + y.a[2].n), y.a[1])),
           When(IsConst(x) /\ y.op = "Add" /\ IsConst(y.a[2]),
                binary("Sub", K(x.n - y.a[2].n), y.a[1])) >>, e)

rewriteMul(e0) ==
  LET e == normaliseCommutative(e0)
      x == e.a[1]
      y == e.a[2]
  IN  FirstOf(<< When(ConstIs(y, 0), y),
                 When(ConstIs(y, 1), x),
                 When(IsConst(y) /\ x.op = "Mul" /\ IsConst(x.a[2]),
                      binary("Mul", x.a[1], constant(e.w, x.a[2].n * y.n))) >>, e)

rewriteAnd(e0) ==
  LET e == normaliseCommutative(e0)
      x == e.a[1]
      y == e.a[2]
  IN  FirstOf(<< When(ConstIs(y, 0), y),
                 When(IsAllOnes(y) \/ x = y, x),
                 When(IsConst(y) /\ x.op = "And" /\ IsConst(x.a[2]),
                      binary("And", x.a[1], constant(e.w, x.a[2].n & y.n))),
                 When(ConstIs(y, 1) /\ matchEvenProduct(x), constant(e.w, 0)) >>
              \o matchMaskedRotate(x, y) \o
              << matchMaskedShift(x, y),
                 matchCarryCompare(x, y),
                 matchCarryCompare(y, x) >>, e)

rewriteOr(e0) ==
  LET e == normaliseCommutative(e0)
      x == e.a[1]
      y == e.a[2]
  IN  FirstOf(<< When(ConstIs(y, 0) \/ x = y, x),
                 When(IsAllOnes(y), y),
                 matchSignExtend(x, y), matchSignExtend(y, x),
                 matchMbaOr(x, y), matchMbaOr(y, x),
                 matchCarryCompareOr(x, y), matchCarryCompareOr(y, x) >>, e)

rewriteXor(e0) ==
  LET e == normaliseCommutative(e0)
      x == e.a[1]
      y == e.a[2]
  IN  FirstOf(<< When(ConstIs(y, 0), x),
                 When(x = y, constant(e.w, 0)),
                 When(IsAllOnes(y), unary("Not", x)),
                 matchMbaXor(x, y), matchMbaXor(y, x) >>, e)

\* Mutant: ~-x taken for x + 1.
rewriteNot_Increment(e) ==
  LET x == e.a[1]
  IN  FirstOf(<< When(x.op = "Not", x.a[1]),
                 When(x.op = "Neg", binary("Add", x.a[1], constant(e.w, 1))) >>, e)

rewriteNot(e) ==
  LET x == e.a[1]
  IN  FirstOf(<< When(x.op = "Not", x.a[1]),
                 When(x.op = "Neg", binary("Sub", x.a[1], constant(e.w, 1))) >>, e)

\* Mutant: -x written back as ~x + 1, which rewriteAdd turns into -x.
rewriteNeg_Unfolds(e) ==
  LET x == e.a[1]
  IN  FirstOf(<< When(x.op = "Neg", x.a[1]),
                 When(x.op = "EntryReg", binary("Add", unary("Not", x), constant(e.w, 1))) >>, e)

rewriteNeg(e) ==
  LET x == e.a[1]
  IN  FirstOf(<< When(x.op = "Neg", x.a[1]),
                 When(x.op = "Not", binary("Add", x.a[1], constant(e.w, 1))) >>, e)

rewriteShift(e) == FirstOf(<< When(ConstIs(e.a[2], 0), e.a[1]) >>, e)

rewriteSelect(e) ==
  FirstOf(<< When(IsConst(e.a[1]), e.a[IF e.a[1].n # 0 THEN 2 ELSE 3]),
             When(e.a[2] = e.a[3], e.a[2]) >>, e)

rewriteFlagCond(e) ==
  LET def == e.a[1]
  IN  FirstOf(<< When(def.op = "FlagDef" /\ def.k = "Const" /\ IsConst(def.a[1]),
                      boolean(evalCondition(e.k, def.a[1].n % 16))),
                 When(def.op = "FlagDef" /\ def.k = "Logical" /\ e.k \in {"CS", "VS"}, boolean(FALSE)),
                 When(def.op = "FlagDef" /\ def.k = "Logical" /\ e.k \in {"CC", "VC"}, boolean(TRUE)) >>, e)

rewriteCompare(e) == FirstOf(matchShiftedCompare(e) \o matchCancelledSubtrahend(e), e)

rewriteCast(e) ==
  LET x == e.a[1]
  IN  FirstOf(<< When(e.op # "Extract" /\ x.w = e.w, x),
                 When(e.op = "Trunc" /\ x.op = "ZExt" /\ x.a[1].w = e.w, x.a[1]),
                 When(e.op = "Extract" /\ e.n = 0 /\ e.w < x.w, cast("Trunc", e.w, x)) >>, e)

rewriteOnce(e) ==
  CASE e.a # <<>> /\ e.w > 0 /\ e.w <= WordBits /\ IsEvaluable(e) -> constant(e.w, tryEvalConst(e))
    [] OTHER ->
       CASE e.op = "Add" -> rewriteAdd(e)
         [] e.op = "Sub" -> rewriteSub(e)
         [] e.op = "Mul" -> rewriteMul(e)
         [] e.op = "And" -> rewriteAnd(e)
         [] e.op = "Or"  -> rewriteOr(e)
         [] e.op = "Xor" -> rewriteXor(e)
         [] e.op = "Not" -> rewriteNot(e)
         [] e.op = "Neg" -> rewriteNeg(e)
         [] e.op \in {"Shl", "ShrU", "ShrS", "RotR", "RotL"} -> rewriteShift(e)
         [] e.op \in CompareOps  -> rewriteCompare(e)
         [] e.op = "Select"   -> rewriteSelect(e)
         [] e.op = "FlagCond" -> rewriteFlagCond(e)
         [] e.op \in {"ZExt", "SExt", "Trunc", "Extract"} -> rewriteCast(e)
         [] OTHER -> e

RECURSIVE RewriteRounds(_, _)
RewriteRounds(e, rounds) ==
  LET next == rewriteOnce(e)
  IN  IF rounds = 0 \/ next = e THEN e ELSE RewriteRounds(next, rounds - 1)
rewriteToFixpoint(e) == RewriteRounds(e, kMaxRounds)

\* Below a depth of 512 nodes the code leaves a node as it is; expressions here
\* are never that deep.
RECURSIVE simplify(_)
simplify(e) ==
  IF e.a = <<>> THEN e
  ELSE rewriteToFixpoint([e EXCEPT !.a = <<>> \o [i \in DOMAIN e.a |-> simplify(e.a[i])]])

(***************************************************************************)
(* fold.cpp: constant folding, and conditions on flags as comparisons.     *)
(***************************************************************************)
RECURSIVE foldConstants(_)
foldConstants(e) ==
  IF e.a = <<>> THEN e
  ELSE LET rebuilt == [e EXCEPT !.a = <<>> \o [i \in DOMAIN e.a |-> foldConstants(e.a[i])]]
       IN  IF e.w > 0 /\ IsEvaluable(rebuilt) THEN constant(e.w, tryEvalConst(rebuilt)) ELSE rebuilt

\* The comparison a condition makes of a flag bundle that survives as
\* arithmetic; the empty sequence when the bundle itself is needed.
rewriteSubFlags(a, b, code) ==
  LET diff == binary("Sub", a, b)
      zero == constant(a.w, 0)
  IN  CASE code = "EQ" -> <<binary("CmpEq", a, b)>>  [] code = "NE" -> <<binary("CmpNe", a, b)>>
        [] code = "CS" -> <<binary("CmpLeU", b, a)>> [] code = "CC" -> <<binary("CmpLtU", a, b)>>
        [] code = "HI" -> <<binary("CmpLtU", b, a)>> [] code = "LS" -> <<binary("CmpLeU", a, b)>>
        [] code = "GE" -> <<binary("CmpLeS", b, a)>> [] code = "LT" -> <<binary("CmpLtS", a, b)>>
        [] code = "GT" -> <<binary("CmpLtS", b, a)>> [] code = "LE" -> <<binary("CmpLeS", a, b)>>
        [] code = "MI" -> <<binary("CmpLtS", diff, zero)>>
        [] code = "PL" -> <<binary("CmpLeS", zero, diff)>>
        [] OTHER -> <<>>

rewriteAddFlags(a, b, code) ==
  LET sum == binary("Add", a, b)
      zero == constant(a.w, 0)
      carry == binary("CmpLtU", sum, a)
      noCarry == binary("CmpLeU", a, sum)
  IN  CASE code = "EQ" -> <<binary("CmpEq", sum, zero)>>
        [] code = "NE" -> <<binary("CmpNe", sum, zero)>>
        [] code = "CS" -> <<carry>>
        [] code = "CC" -> <<noCarry>>
        [] code = "HI" -> <<binary("And", carry, binary("CmpNe", sum, zero))>>
        [] code = "LS" -> <<binary("Or", noCarry, binary("CmpEq", sum, zero))>>
        [] code = "MI" -> <<binary("CmpLtS", sum, zero)>>
        [] code = "PL" -> <<binary("CmpLeS", zero, sum)>>
        [] OTHER -> <<>>

rewriteLogicalFlags(r, code) ==
  LET zero == constant(r.w, 0)
      eq  == binary("CmpEq", r, zero)
      neg == binary("CmpLtS", r, zero)
      pos == binary("CmpLeS", zero, r)
  IN  CASE code = "EQ" \/ code = "LS" -> <<eq>>
        [] code = "NE" -> <<binary("CmpNe", r, zero)>>
        [] code \in {"MI", "LT"} -> <<neg>>
        [] code \in {"PL", "GE"} -> <<pos>>
        [] code \in {"CS", "VS", "HI"} -> <<boolean(FALSE)>>
        [] code \in {"CC", "VC"} -> <<boolean(TRUE)>>
        [] code = "GT" -> <<binary("And", binary("CmpNe", r, zero), pos)>>
        [] code = "LE" -> <<binary("Or", eq, neg)>>

FlagConditionRewrite(def, code) ==
  CASE code = "AL" -> <<boolean(TRUE)>>
    [] code = "NV" -> <<boolean(FALSE)>>
    [] def.k = "Sub" /\ code \notin {"AL", "NV"} -> rewriteSubFlags(def.a[1], def.a[2], code)
    [] def.k = "Add" /\ code \notin {"AL", "NV"} -> rewriteAddFlags(def.a[1], def.a[2], code)
    [] def.k = "Logical" /\ code \notin {"AL", "NV"} -> rewriteLogicalFlags(def.a[1], code)
    [] OTHER -> <<>>

RECURSIVE foldFlagConditions(_)
foldFlagConditions(e) ==
  IF e.a = <<>> THEN e
  ELSE LET rebuilt == [e EXCEPT !.a = <<>> \o [i \in DOMAIN e.a |-> foldFlagConditions(e.a[i])]]
       IN  FirstOf(<< IF e.op = "FlagCond" /\ rebuilt.a[1].op = "FlagDef"
                      THEN FlagConditionRewrite(rebuilt.a[1], e.k) ELSE <<>> >>, rebuilt)
=============================================================================
