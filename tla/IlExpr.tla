------------------------------- MODULE IlExpr -------------------------------
(***************************************************************************)
(* The expressions of the intermediate language and what they evaluate to. *)
(* An interned node is a record: operator, width in bits (0 for a flags    *)
(* bundle), a number, a name and the operands; interning makes node        *)
(* identity structural equality, which is TLA+ equality of the records.    *)
(*                                                                         *)
(* The arithmetic is that of u128.h scaled down: WordBits stands for the 64*)
(* bits of a machine word.                                                 *)
(***************************************************************************)
EXTENDS Integers, Sequences, FiniteSets, SequencesExt, Bitwise

CONSTANTS
  WordBits,   \* the width of a machine word, 64 in the code
  CWidths     \* the narrower widths C has a type for: 8, 16 and 32 in the code

ASSUME WidthAssumption ==
  WordBits \in Nat \ {0} /\ CWidths \subseteq 1..(WordBits - 1)

node(op, w, n, k, a) == [op |-> op, w |-> w, n |-> n, k |-> k, a |-> a]

CompareOps == {"CmpEq", "CmpNe", "CmpLtU", "CmpLeU", "CmpLtS", "CmpLeS"}

constant(w, v)      == node("Const", w, v % 2^w, "", <<>>)
boolean(b)          == constant(1, IF b THEN 1 ELSE 0)
valueRef(w, v)      == node("Value", w, v, "", <<>>)
undefined(w)        == node("Undef", w, 0, "", <<>>)
entryReg(w, r)      == node("EntryReg", w, 0, r, <<>>)
unary(op, x)        == node(op, x.w, 0, "", <<x>>)
binary(op, x, y)    == node(op, IF op \in CompareOps THEN 1 ELSE x.w, 0, "", <<x, y>>)
cast(op, w, x)      == node(op, w, 0, "", <<x>>)
extract(w, x, off)  == node("Extract", w, off, "", <<x>>)
select(c, x, y)     == node("Select", x.w, 0, "", <<c, x, y>>)
flagDef(f, w, args) == node("FlagDef", 0, w, f, args)
flagCondition(x, c) == node("FlagCond", 1, 0, c, <<x>>)

IsConst(e) == e.op = "Const"
AllOnes(w) == 2^w - 1

RECURSIVE Leaves(_)
Leaves(e) == IF e.a = <<>> THEN {e} ELSE UNION {Leaves(e.a[i]) : i \in DOMAIN e.a}

ValuesIn(e) == {l.n : l \in {x \in Leaves(e) : x.op = "Value"}}

RECURSIVE NodeCount(_)
NodeCount(e) == 1 + FoldFunction(+, 0, [i \in DOMAIN e.a |-> NodeCount(e.a[i])])

(***************************************************************************)
(* Evaluation: interp.cpp's eval and ceval.cpp's evalRec compute the same  *)
(* integer operators over u128.h.  Undef is the value of an undefined leaf *)
(* and of everything computed from one.                                    *)
(***************************************************************************)
Undef == -1

Signed(v, w) == IF v >= 2^(w - 1) THEN v - 2^w ELSE v

Abs(i) == IF i < 0 THEN -i ELSE i
TruncDiv(a, b) == (IF (a < 0) # (b < 0) THEN -1 ELSE 1) * (Abs(a) \div Abs(b))

Shl(v, w, k)  == IF k >= w THEN 0 ELSE (v * 2^k) % 2^w
ShrU(v, w, k) == IF k >= w THEN 0 ELSE v \div 2^k
ShrS(v, w, k) == IF k >= w THEN (IF v >= 2^(w - 1) THEN AllOnes(w) ELSE 0)
                 ELSE (Signed(v, w) \div 2^k) % 2^w
RotR(v, w, k) == LET m == k % w IN IF m = 0 THEN v ELSE ShrU(v, w, m) + Shl(v, w, w - m)
SExt(v, from, to) == Signed(v, from) % 2^to

EvalArith(op, v, w) ==
  CASE op = "Add"  -> (v[1] + v[2]) % 2^w
    [] op = "Sub"  -> (v[1] - v[2]) % 2^w
    [] op = "Mul"  -> (v[1] * v[2]) % 2^w
    [] op = "MulHiU" -> ((v[1] * v[2]) \div 2^WordBits) % 2^w
    [] op = "MulHiS" -> ((v[1] * v[2]) \div 2^WordBits
                          - (IF v[1] >= 2^(w - 1) THEN v[2] ELSE 0)
                          - (IF v[2] >= 2^(w - 1) THEN v[1] ELSE 0)) % 2^w
    [] op = "DivU" -> IF v[2] = 0 THEN 0 ELSE v[1] \div v[2]
    [] op = "RemU" -> IF v[2] = 0 THEN 0 ELSE v[1] % v[2]
    [] op = "DivS" -> IF v[2] = 0 THEN 0 ELSE TruncDiv(Signed(v[1], w), Signed(v[2], w)) % 2^w
    [] op = "RemS" -> IF v[2] = 0 THEN 0
                      ELSE LET s == Signed(v[1], w)
                               d == Signed(v[2], w)
                           IN  (s - d * TruncDiv(s, d)) % 2^w
    [] op = "Neg"  -> (-v[1]) % 2^w

EvalBits(op, v, w) ==
  CASE op = "And" -> v[1] & v[2]
    [] op = "Or"  -> v[1] | v[2]
    [] op = "Xor" -> v[1] ^^ v[2]
    [] op = "Not" -> AllOnes(w) - v[1]
    [] op = "Shl"  -> Shl(v[1], w, v[2])
    [] op = "ShrU" -> ShrU(v[1], w, v[2])
    [] op = "ShrS" -> ShrS(v[1], w, v[2])
    [] op = "RotR" -> RotR(v[1], w, v[2])
    [] op = "RotL" -> RotR(v[1], w, w - (v[2] % w))

EvalCompare(op, v, w) ==
  LET Holds == CASE op = "CmpEq" -> v[1] = v[2]
                 [] op = "CmpNe" -> v[1] # v[2]
                 [] op = "CmpLtU" -> v[1] < v[2]
                 [] op = "CmpLeU" -> v[1] <= v[2]
                 [] op = "CmpLtS" -> Signed(v[1], w) < Signed(v[2], w)
                 [] op = "CmpLeS" -> Signed(v[1], w) <= Signed(v[2], w)
  IN  IF Holds THEN 1 ELSE 0

\* ws are the operands' widths.
EvalCast(e, v, ws) ==
  CASE e.op = "ZExt"    -> v[1]
    [] e.op = "SExt"    -> SExt(v[1], ws[1], e.w)
    [] e.op = "Trunc"   -> v[1] % 2^e.w
    [] e.op = "Bitcast" -> v[1]
    [] e.op = "Extract" -> ShrU(v[1], ws[1], e.n) % 2^e.w
    [] e.op = "Concat"  -> v[1] * 2^ws[2] + v[2]

BitAt(v, i) == (v \div 2^i) % 2
EvalBitCount(op, v, w) ==
  LET set == {i \in 0..(w - 1) : BitAt(v[1], i) = 1}
  IN  CASE op = "Clz" -> Cardinality({i \in 0..(w - 1) : \A j \in set : j < i})
        [] op = "Ctz" -> Cardinality({i \in 0..(w - 1) : \A j \in set : j > i})
        [] op = "PopCount" -> Cardinality(set)
        [] op = "BitReverse" -> FoldSet(LAMBDA i, acc : acc + 2^(w - 1 - i), 0, set)

\* A flags bundle as its NZCV nibble.
nzcv(n, z, c, v) == (IF n THEN 8 ELSE 0) + (IF z THEN 4 ELSE 0)
                    + (IF c THEN 2 ELSE 0) + (IF v THEN 1 ELSE 0)

evalFlagDef(f, w, v) ==
  LET neg(x) == x >= 2^(w - 1)
      sum(a, b, carry) ==
        LET r == (a + b + carry) % 2^w
        IN  nzcv(neg(r), r = 0, a + b + carry >= 2^w, neg(a) = neg(b) /\ neg(r) # neg(a))
  IN  CASE f = "Add"      -> sum(v[1], v[2], 0)
        [] f = "AddCarry" -> sum(v[1], v[2], v[3] % 2)
        [] f = "Sub"      -> sum(v[1], AllOnes(w) - v[2], 1)
        [] f = "SubCarry" -> sum(v[1], AllOnes(w) - v[2], v[3] % 2)
        [] f = "Logical"  -> nzcv(neg(v[1]), v[1] = 0, FALSE, FALSE)
        [] f = "Const"    -> v[1] % 16

ConditionCodes == {"EQ", "NE", "CS", "CC", "MI", "PL", "VS", "VC",
                   "HI", "LS", "GE", "LT", "GT", "LE", "AL", "NV"}

evalCondition(code, flags) ==
  LET n == BitAt(flags, 3) = 1
      z == BitAt(flags, 2) = 1
      c == BitAt(flags, 1) = 1
      v == BitAt(flags, 0) = 1
  IN  CASE code = "EQ" -> z       [] code = "NE" -> ~z
        [] code = "CS" -> c       [] code = "CC" -> ~c
        [] code = "MI" -> n       [] code = "PL" -> ~n
        [] code = "VS" -> v       [] code = "VC" -> ~v
        [] code = "HI" -> c /\ ~z [] code = "LS" -> ~c \/ z
        [] code = "GE" -> n = v   [] code = "LT" -> n # v
        [] code = "GT" -> ~z /\ n = v
        [] code = "LE" -> z \/ n # v
        [] code = "AL" -> TRUE    [] code = "NV" -> FALSE

FlagPosition(bit) == CASE bit = "N" -> 3 [] bit = "Z" -> 2 [] bit = "C" -> 1 [] bit = "V" -> 0

EvalOp(e, v, ws) ==
  CASE e.op \in {"Add", "Sub", "Mul", "MulHiU", "MulHiS", "DivU", "DivS", "RemU", "RemS", "Neg"} ->
         EvalArith(e.op, v, e.w)
    [] e.op \in {"And", "Or", "Xor", "Not", "Shl", "ShrU", "ShrS", "RotR", "RotL"} ->
         EvalBits(e.op, v, e.w)
    [] e.op \in CompareOps -> EvalCompare(e.op, v, ws[1])
    [] e.op \in {"ZExt", "SExt", "Trunc", "Bitcast", "Extract", "Concat"} -> EvalCast(e, v, ws)
    [] e.op \in {"Clz", "Ctz", "PopCount", "BitReverse"} -> EvalBitCount(e.op, v, e.w)
    [] e.op = "FlagDef"  -> evalFlagDef(e.k, e.n, v)
    [] e.op = "FlagCond" -> IF evalCondition(e.k, v[1]) THEN 1 ELSE 0
    [] e.op = "FlagBit"  -> BitAt(v[1], FlagPosition(e.k))

\* env.value: what every defined value holds; env.entry: the registers on entry.
RECURSIVE Eval(_, _)
Eval(e, env) ==
  CASE e.op = "Const"    -> e.n
    [] e.op = "Value"    -> env.value[e.n]
    [] e.op = "EntryReg" -> env.entry[e.k]
    [] e.op = "Undef"    -> Undef
    [] e.op = "Select"   ->
         LET c == Eval(e.a[1], env)
         IN  IF c = Undef THEN Undef ELSE Eval(e.a[IF c % 2 = 1 THEN 2 ELSE 3], env)
    [] OTHER ->
         LET v == <<>> \o [i \in DOMAIN e.a |-> Eval(e.a[i], env)]
         IN  IF \E i \in DOMAIN v : v[i] = Undef THEN Undef
             ELSE EvalOp(e, v, <<>> \o [i \in DOMAIN e.a |-> e.a[i].w])

\* ceval.cpp: the value of an expression with constant leaves only.
IsEvaluable(e) == \A l \in Leaves(e) : IsConst(l)
tryEvalConst(e) == Eval(e, [value |-> <<>>, entry |-> <<>>])
=============================================================================
