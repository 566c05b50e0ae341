------------------------------- MODULE CExpr -------------------------------
(***************************************************************************)
(* The C text the printer writes for an expression, by the value that text *)
(* has in C.  A printed expression is a C value [w, s, v]: its type's width*)
(* and signedness and the number it holds, NoC where C defines none.  The  *)
(* integer promotions and the usual arithmetic conversions are C's; a      *)
(* signed result that does not fit wraps.                                  *)
(*                                                                         *)
(* The context c is an environment of IlExpr!Eval with more fields:        *)
(*   int     the width of C's int                                          *)
(*   decl    the declared type [w, s] of each argument register (one that  *)
(*           is no argument is an unsigned extern)                         *)
(*   signed  the values whose temporary is declared signed                 *)
(*   shared  the nodes the printing scope refers to more than once         *)
(*   named   those of them that have their temporary: node -> C value      *)
(***************************************************************************)
EXTENDS IlExpr

C(w, s, v) == [w |-> w, s |-> s, v |-> v]
NoC == 2^(2 * WordBits + 2)

(***************************************************************************)
(* C itself.                                                               *)
(***************************************************************************)
\* Conversion to bool is a test against zero.
Convert(x, w, s) ==
  C(w, s /\ w # 1,
    IF x.v = NoC THEN NoC
    ELSE IF w = 1 THEN (IF x.v = 0 THEN 0 ELSE 1)
    ELSE IF s THEN Signed(x.v % 2^w, w) ELSE x.v % 2^w)

Promote(c, x) == IF x.w < c.int THEN Convert(x, c.int, TRUE) ELSE x

CommonWidth(x, y) == IF x.w >= y.w THEN x.w ELSE y.w
CommonSign(x, y) == IF x.w = y.w THEN x.s /\ y.s ELSE IF x.w > y.w THEN x.s ELSE y.s
Balanced(c, x, y) ==
  LET p == Promote(c, x)
      q == Promote(c, y)
      w == CommonWidth(p, q)
      s == CommonSign(p, q)
  IN  <<Convert(p, w, s), Convert(q, w, s)>>

\* The value of a two's complement result r of type t's.
Wrapped(t, r) == Convert(C(t.w, t.s, r), t.w, t.s)
NoValue(x) == x.v = NoC

CArith(c, op, x, y) ==
  LET b == Balanced(c, x, y)
      m == b[1].v
      n == b[2].v
      bits(f(_, _)) == f(m % 2^b[1].w, n % 2^b[1].w)
  IN  IF NoValue(x) \/ NoValue(y) \/ (op \in {"/", "%"} /\ n = 0) THEN [b[1] EXCEPT !.v = NoC]
      ELSE Wrapped(b[1], CASE op = "+" -> m + n
                           [] op = "-" -> m - n
                           [] op = "*" -> m * n
                           [] op = "/" -> TruncDiv(m, n)
                           [] op = "%" -> m - n * TruncDiv(m, n)
                           [] op = "&" -> bits(LAMBDA p, q : p & q)
                           [] op = "|" -> bits(LAMBDA p, q : p | q)
                           [] op = "^" -> bits(LAMBDA p, q : p ^^ q))

\* A shift has the promoted type of its left operand; past its width, or by a
\* negative amount, C defines nothing.
CShift(c, op, x, n) ==
  LET p == Promote(c, x)
  IN  IF NoValue(x) \/ NoValue(n) \/ n.v < 0 \/ n.v >= p.w THEN [p EXCEPT !.v = NoC]
      ELSE Wrapped(p, IF op = "<<" THEN p.v * 2^n.v ELSE p.v \div 2^n.v)

CTruth(c, b) == C(c.int, TRUE, IF b THEN 1 ELSE 0)
CCompare(c, op, x, y) ==
  LET b == Balanced(c, x, y)
      m == b[1].v
      n == b[2].v
  IN  IF NoValue(x) \/ NoValue(y) THEN C(c.int, TRUE, NoC)
      ELSE CTruth(c, CASE op = "==" -> m = n [] op = "!=" -> m # n
                       [] op = "<" -> m < n  [] op = "<=" -> m <= n
                       [] op = ">" -> m > n  [] op = ">=" -> m >= n)
CNot(c, x) == CCompare(c, "==", x, C(c.int, TRUE, 0))

\* A hexadecimal literal has the first of int, unsigned, long, unsigned long
\* that holds it.
hexLiteral(c, n) ==
  LET w == IF n < 2^c.int THEN c.int ELSE WordBits IN C(w, n < 2^(w - 1), n)

(***************************************************************************)
(* Leaves.                                                                 *)
(***************************************************************************)
Variable(w, s, v) == Convert(C(w, s, IF v = Undef THEN NoC ELSE v), w, s)
argument(c, e) ==
  LET v == Variable(e.w, FALSE, c.entry[e.k])
  IN  IF e.k \in DOMAIN c.decl THEN Convert(v, c.decl[e.k].w, c.decl[e.k].s) ELSE v

(***************************************************************************)
(* The printer.                                                            *)
(***************************************************************************)
\* Mutant: a narrow result is left as the int C computes it in.
widthWrap_Never(c, e, x, sign) == x
widthWrap(c, e, x, sign) == IF e.w >= c.int THEN x ELSE Convert(x, e.w, sign)

signedOperand(x, w) == Convert(x, w, TRUE)

\* t: the operands' texts; e.a: the operands.
infix(c, e, t, op, sign) ==
  widthWrap(c, e, CArith(c, op, IF sign THEN signedOperand(t[1], e.w) ELSE t[1],
                               IF sign THEN signedOperand(t[2], e.w) ELSE t[2]), sign)

shift(c, e, t, op) ==
  widthWrap(c, e, CShift(c, op, IF e.a[1].w = e.w THEN t[1] ELSE Convert(t[1], e.w, FALSE), t[2]), FALSE)

signExtend(c, e, t) ==
  LET from == e.a[1].w
  IN  IF from = 1 THEN CArith(c, "-", C(c.int, TRUE, 0), Convert(t[1], e.w, TRUE))
      ELSE IF from >= e.w THEN Convert(t[1], e.w, TRUE)
      ELSE Convert(Convert(t[1], from, TRUE), e.w, TRUE)

\* A ZExt against a constant its source can hold drops its cast: u is the text
\* of its operand.
equalityOperand(e, t, u, other) ==
  IF IsConst(other) /\ e.op = "ZExt" /\ other.n < 2^e.a[1].w THEN u ELSE t

Infix == [Add |-> "+", Sub |-> "-", Mul |-> "*", And |-> "&", Or |-> "|", Xor |-> "^",
          DivU |-> "/", RemU |-> "%", DivS |-> "/", RemS |-> "%"]
Relation == [CmpEq |-> "==", CmpNe |-> "!=", CmpLtU |-> "<", CmpLeU |-> "<=", CmpLtS |-> "<", CmpLeS |-> "<="]
Inverted == ("==" :> "!=") @@ ("!=" :> "==") @@ ("<" :> ">=") @@ ("<=" :> ">")

\* The helpers take and give unsigned words of the expression's width.
HelperOps == {"MulHiU", "MulHiS", "RotR", "RotL", "Clz", "Ctz", "PopCount", "BitReverse"}
helper(e, t) ==
  LET v == <<>> \o [i \in DOMAIN t |-> Convert(t[i], e.a[i].w, FALSE).v]
  IN  C(e.w, FALSE, IF \E i \in DOMAIN v : v[i] = NoC THEN NoC
                    ELSE EvalOp(e, v, <<>> \o [i \in DOMAIN e.a |-> e.a[i].w]))

\* xdec_helpers.h's condition codes: the flags of a subtraction.
ccHelper(c, code, w, a, b) ==
  LET r == Signed((a.v - b.v) % 2^w, w)
      sa == Convert(a, w, TRUE).v >= 0
      sb == Convert(b, w, TRUE).v >= 0
      n == r < 0
      v == (sa # sb) /\ (n # sa)
  IN  IF NoValue(a) \/ NoValue(b) THEN C(1, FALSE, NoC)
      ELSE Convert(CTruth(c, CASE code = "GE" -> n = v [] code = "LT" -> n # v
                               [] code = "GT" -> r # 0 /\ n = v [] code = "LE" -> r = 0 \/ n # v
                               [] code = "VS" -> v [] code = "VC" -> ~v), 1, FALSE)
Stub(c) == C(c.int, TRUE, NoC)
ccKnown == {"GE", "LT", "GT", "LE", "VS", "VC"}

flagFromNzcv(c, code, bits) == CTruth(c, evalCondition(code, bits))

\* t: the texts of the flag definition's operands.
printFlagCond(c, e, t) ==
  LET d == e.a[1]
      w == d.n
      a == t[1]
      b == IF Len(t) >= 2 THEN t[2] ELSE hexLiteral(c, 0)
      zero == hexLiteral(c, 0)
      u(x) == Convert(x, w, FALSE)
      overflowExact == IF e.k \in ccKnown THEN ccHelper(c, e.k, w, a, IF d.k = "Logical" THEN zero ELSE b) ELSE Stub(c)
      against(x) == CASE e.k = "EQ" -> CCompare(c, "==", x, zero)
                      [] e.k = "NE" -> CCompare(c, "!=", x, zero)
                      [] e.k = "MI" -> CCompare(c, "<", Convert(x, w, TRUE), zero)
                      [] e.k = "PL" -> CCompare(c, ">=", Convert(x, w, TRUE), zero)
  IN  CASE d.op # "FlagDef" -> zero
        [] d.k = "Const" -> IF IsConst(d.a[1]) THEN flagFromNzcv(c, e.k, d.a[1].n % 16) ELSE zero
        [] d.k = "Sub" ->
             (CASE e.k = "EQ" -> CCompare(c, "==", a, b)
                [] e.k = "NE" -> CCompare(c, "!=", a, b)
                [] e.k = "CS" -> CCompare(c, ">=", u(a), u(b))
                [] e.k = "CC" -> CCompare(c, "<", u(a), u(b))
                [] e.k = "HI" -> CCompare(c, ">", u(a), u(b))
                [] e.k = "LS" -> CCompare(c, "<=", u(a), u(b))
                [] e.k \in {"MI", "PL"} -> against(CArith(c, "-", u(a), u(b)))
                [] OTHER -> overflowExact)
        [] d.k = "Logical" ->
             (CASE e.k \in {"EQ", "NE", "MI", "PL"} -> against(a)
                [] e.k \in {"CS", "VS"} -> zero
                [] e.k \in {"CC", "VC"} -> hexLiteral(c, 1)
                [] OTHER -> overflowExact)
        [] d.k = "Add" ->
             (CASE e.k \in {"EQ", "NE", "MI", "PL"} -> against(u(CArith(c, "+", a, b)))
                [] OTHER -> overflowExact)
        [] OTHER -> Stub(c)

\* Trunc and ZExt: no cast to the width the operand's text has already.
castText(c, e, t) ==
  LET x == e.a[1]
      same == x.w = e.w \/ (x.op = "EntryReg" /\ x.k \in DOMAIN c.decl /\ c.decl[x.k].w = e.w)
  IN  IF same THEN t[1] ELSE Convert(t[1], e.w, FALSE)

concatText(c, e, t) ==
  CArith(c, "|", CShift(c, "<<", Convert(t[1], e.w, FALSE), hexLiteral(c, e.a[2].w)), Convert(t[2], e.w, FALSE))

\* inner: the text of a node given its operands' texts t (of a ZExt operand's
\* own operand, under).
inner(c, e, t, under) ==
  CASE e.op = "Const"    -> hexLiteral(c, e.n)
    [] e.op = "Value"    -> Variable(e.w, e.n \in c.signed, c.value[e.n])
    [] e.op = "EntryReg" -> argument(c, e)
    [] e.op = "Undef"    -> hexLiteral(c, 0)
    [] e.op \in {"Add", "Sub", "Mul", "And", "Or", "Xor", "DivU", "RemU"} -> infix(c, e, t, Infix[e.op], FALSE)
    [] e.op \in {"DivS", "RemS"} -> infix(c, e, t, Infix[e.op], TRUE)
    [] e.op = "Shl"  -> shift(c, e, t, "<<")
    [] e.op = "ShrU" -> shift(c, e, t, ">>")
    [] e.op = "ShrS" -> widthWrap(c, e, CShift(c, ">>", signedOperand(t[1], e.w), t[2]), TRUE)
    [] e.op \in HelperOps -> helper(e, t)
    [] e.op = "Bitcast" -> Convert(t[1], e.w, FALSE)
    [] e.op = "Concat"  -> concatText(c, e, t)
    [] e.op = "Neg" -> widthWrap(c, e, CArith(c, "-", C(t[1].w, t[1].s, 0), t[1]), FALSE)
    [] e.op = "Not" -> IF e.w = 1 THEN CNot(c, t[1])
                       ELSE widthWrap(c, e, CArith(c, "-", CArith(c, "-", C(t[1].w, t[1].s, 0), t[1]), C(c.int, TRUE, 1)), FALSE)
    [] e.op \in {"CmpEq", "CmpNe"} ->
         CCompare(c, Relation[e.op], equalityOperand(e.a[1], t[1], under[1], e.a[2]),
                                     equalityOperand(e.a[2], t[2], under[2], e.a[1]))
    [] e.op \in {"CmpLtU", "CmpLeU"} -> CCompare(c, Relation[e.op], t[1], t[2])
    [] e.op \in {"CmpLtS", "CmpLeS"} ->
         CCompare(c, Relation[e.op], signedOperand(t[1], e.a[1].w), signedOperand(t[2], e.a[1].w))
    [] e.op \in {"ZExt", "Trunc"} -> castText(c, e, t)
    [] e.op = "SExt"    -> signExtend(c, e, t)
    [] e.op = "Select"  -> LET b == Balanced(c, t[2], t[3])
                           IN  IF NoValue(t[1]) THEN [b[1] EXCEPT !.v = NoC]
                               ELSE IF t[1].v # 0 THEN b[1] ELSE b[2]
    [] e.op = "Extract" -> Convert(IF e.n = 0 THEN t[1] ELSE CShift(c, ">>", t[1], hexLiteral(c, e.n)), e.w, FALSE)
    [] e.op = "FlagBit" -> Stub(c)
    [] e.op = "FlagDef" -> hexLiteral(c, 0)

(***************************************************************************)
(* Where the text is not exact.  The printer leaves these to the reader, or*)
(* gets them wrong (README, Remarks): a one-bit value cut out of a wider   *)
(* one or computed by arithmetic; a condition left to a helper; a number   *)
(* of negative C value where its sign changes the result; word arithmetic  *)
(* on operands whose text is only an int; what C does not define.          *)
(***************************************************************************)
OneBit == CompareOps \cup {"Const", "Value", "EntryReg", "Undef", "And", "Or", "Xor", "Not", "Select", "ZExt", "FlagCond"}
SignMatters(c, e) ==
  CASE e.op \in {"ShrU", "ZExt", "PopCount"} -> {1}
    [] e.op = "Concat" -> {2}
    [] e.op \in {"CmpLtU", "CmpLeU", "DivU", "RemU"} -> {1, 2}
    [] e.op \in {"CmpEq", "CmpNe"} -> IF e.a[1].w < c.int THEN {1, 2} ELSE {}
    [] OTHER -> {}
\* A negative number of a signed type of that width.
Negative(x, w) == x.v \in -(2^(w - 1))..(-1)
IntOnly(c, e, t) ==
  /\ e.w > c.int
  /\ CASE e.op \in {"Shl", "ShrU"} -> t[1].w < e.w
       [] e.op \in {"Add", "Sub", "Mul", "And", "Or", "Xor", "DivU", "RemU", "Neg", "Not"} -> \A i \in DOMAIN t : t[i].w < e.w
       [] OTHER -> FALSE
COutOfRange(e, t) ==
  \/ e.op \in {"Shl", "ShrU", "ShrS"} /\ Convert(t[2], e.w, FALSE).v >= e.w
  \/ e.op \in {"DivU", "DivS", "RemU", "RemS"} /\ t[2].v = 0
FlagsExact(c, e, t) ==
  CASE e.a[1].k = "Const"   -> IsConst(e.a[1].a[1])
    [] e.a[1].k = "Sub"     -> e.k \in {"CS", "CC", "HI", "LS", "MI", "PL"}
                                  \/ (e.k \in {"EQ", "NE"} /\ (e.a[1].n < c.int => \A i \in DOMAIN t : ~Negative(t[i], e.a[1].n)))
    [] e.a[1].k = "Logical" -> e.k \in {"EQ", "NE", "MI", "PL", "CS", "CC", "VS", "VC"}
    [] e.a[1].k = "Add"     -> e.k \in {"EQ", "NE", "MI", "PL"}
    [] OTHER -> FALSE

NodeExact(c, e, t) ==
  /\ e.op \notin {"FlagBit", "FlagDef"}
  /\ e.w = 1 => e.op \in OneBit
  /\ \A i \in SignMatters(c, e) : ~Negative(t[i], e.a[i].w)
  /\ ~IntOnly(c, e, t)
  /\ ~COutOfRange(e, t)

\* A ZExt at the root of an assignment, a return or a test has no cast: the
\* conversion happens anyway.
isRedundantRootZext(e) == e.op = "ZExt"

(***************************************************************************)
(* A node printed: its text x, and whether that is exact (ok).  A shared   *)
(* node is assigned to a temporary of its own width the first time it is   *)
(* printed (CEmit), and is that temporary's name from then on.        *)
(***************************************************************************)
RECURSIVE printed(_, _)
printed(c, e) ==
  LET flags == e.op = "FlagCond" /\ e.a[1].op = "FlagDef"
      operands == IF flags THEN e.a[1].a ELSE e.a
      p == <<>> \o [i \in DOMAIN operands |-> printed(c, operands[i])]
      t == <<>> \o [i \in DOMAIN p |-> p[i].x]
      under == <<>> \o [i \in DOMAIN operands |->
                          IF e.op \in {"CmpEq", "CmpNe"} /\ operands[i].op = "ZExt" THEN printed(c, operands[i].a[1]).x ELSE Stub(c)]
      plain == IF e.op = "FlagCond" THEN printFlagCond(c, e, t) ELSE inner(c, e, t, under)
      below == (\A i \in DOMAIN p : p[i].ok) /\ (IF e.op = "FlagCond" THEN flags /\ FlagsExact(c, e, t) ELSE NodeExact(c, e, t))
  IN  IF e \in DOMAIN c.named THEN [x |-> c.named[e], ok |-> TRUE]
      ELSE IF e \in c.shared
      THEN [x |-> Convert(IF isRedundantRootZext(e) THEN t[1] ELSE plain, e.w, FALSE), ok |-> below]
      ELSE [x |-> plain, ok |-> below]

text(c, e) == printed(c, e).x

rootPrinted(c, e) ==
  LET p == printed(c, e)
  IN  IF e \notin DOMAIN c.named /\ e \notin c.shared /\ isRedundantRootZext(e) THEN [p EXCEPT !.x = text(c, e.a[1])] ELSE p
rootText(c, e) == rootPrinted(c, e).x

\* A branch condition, with the comparison itself inverted where there is one.
condition(c, e, invert) ==
  LET t == <<>> \o [i \in DOMAIN e.a |-> text(c, e.a[i])]
      under == <<>> \o [i \in DOMAIN e.a |-> IF e.a[i].op = "ZExt" THEN text(c, e.a[i].a[1]) ELSE Stub(c)]
      side(i) == IF e.op \in {"CmpLtS", "CmpLeS"} THEN signedOperand(t[i], e.a[1].w)
                 ELSE IF e.op \in {"CmpEq", "CmpNe"} THEN equalityOperand(e.a[i], t[i], under[i], e.a[3 - i])
                 ELSE t[i]
  IN  IF ~invert THEN rootText(c, e)
      ELSE IF e.op \in CompareOps THEN CCompare(c, Inverted[Relation[e.op]], side(1), side(2))
      ELSE IF e.op = "Not" /\ e.w = 1 THEN rootText(c, e.a[1])
      ELSE CNot(c, rootText(c, e))

\* What is written for e: its text, the inverted test of it, whether exact.
WrittenAs(c, e) ==
  LET p == rootPrinted(c, e)
  IN  [text |-> p.x, inverted |-> IF e.w = 1 THEN condition(c, e, TRUE) ELSE p.x, exact |-> p.ok]

(***************************************************************************)
(* Scopes: the expressions printed together, by reference counts.          *)
(***************************************************************************)
RECURSIVE Nodes(_)
Nodes(e) == {e} \cup UNION {Nodes(e.a[i]) : i \in DOMAIN e.a}

countReferences(roots, n) ==
  Cardinality({i \in DOMAIN roots : roots[i] = n})
  + Cardinality(UNION {{<<p, i>> : i \in {j \in DOMAIN p.a : p.a[j] = n}} :
                         p \in UNION {Nodes(roots[i]) : i \in DOMAIN roots}})
isShared(roots, n) == n.a # <<>> /\ n.w # 0 /\ countReferences(roots, n) >= 2
Shared(roots) == {n \in UNION {Nodes(roots[i]) : i \in DOMAIN roots} : isShared(roots, n)}

NoNames == [n \in {} |-> Stub([int |-> 1])]
=============================================================================
