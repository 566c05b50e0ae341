-------------------------- MODULE MCExprRewriting --------------------------
(***************************************************************************)
(* Families of operands for the rewriters and the printer, and beside them *)
(* the nested calls of the exec session.  The two share no variable, so a  *)
(* behaviour exercises one of them (focus) and leaves the other alone.  An *)
(* operand may stay as it is; the session stops only where it says so.     *)
(***************************************************************************)
EXTENDS ExprRewriting, MCExecSession

CONSTANT Focuses

x == entryReg(WordBits, "x")
y == entryReg(WordBits, "y")
K(v) == constant(WordBits, v)
Ks == {K(v) : v \in 0..AllOnes(WordBits)}
Arith == {"Add", "Sub", "Mul", "And", "Or", "Xor"}
Shifts == {"Shl", "ShrU", "ShrS", "RotR", "RotL"}
Divs == {"DivU", "DivS", "RemU", "RemS", "MulHiU", "MulHiS"}
Terms == {x, y, K(0), K(1), K(AllOnes(WordBits))}
Flat(ops, ls, rs) == {binary(op, l, r) : op \in ops, l \in ls, r \in rs}
Unaries(es) == {unary(op, e) : op \in {"Neg", "Not"}, e \in es}

\* Every operator over every operator of the ring, one level deep.
Nested ==
  LET some  == {x, K(0), K(1), K(5), K(AllOnes(WordBits))}
      arith == Flat(Arith, {x}, {y} \cup some) \cup Flat({"Sub"}, some, {x}) \cup Unaries({x})
      shifts == Flat(Shifts, {x}, {K(1), K(2), K(5)})
  IN  Flat(Arith, arith, {y} \cup some) \cup Flat(Arith, some, arith)
      \cup Flat({"And", "Or"}, shifts, Ks) \cup Flat({"CmpLtU"}, shifts, some)
      \cup Flat(Shifts \cup Divs, arith, {K(0), K(1)}) \cup Unaries(arith) \cup Unaries(Unaries(arith))

\* The obfuscation idioms, in both operand orders, and near misses of them.
Doubled(e) == {binary("Mul", e, K(2)), binary("Shl", e, K(1)), binary("Mul", e, K(1))}
Idioms ==
  LET ring == {binary(op, p[1], p[2]) : op \in {"And", "Or", "Xor"},
                                        p \in {<<x, y>>, <<y, x>>, <<x, K(1)>>}}
      twice == UNION {Doubled(e) : e \in ring}
      bit(i) == {extract(1, x, i), cast("Trunc", 1, x)}
      masked(e) == Flat({"And"}, {e}, Ks)
      sums == Flat({"Add"}, {x}, Ks)
  IN  Flat({"Add", "Sub", "Or", "Xor"}, ring, ring \cup twice)
      \cup Flat({"Add", "Sub"}, twice, ring)
      \cup Flat({"Sub"}, {binary("Or", d, K(2)) : d \in Doubled(x)}, Flat({"Xor"}, {x}, Ks))
      \cup Flat({"And"}, Flat({"Mul"}, {x} \cup Flat({"Sub", "Add"}, {x}, {K(1)}) \cup {unary("Not", x)},
                                       {x} \cup Flat({"Sub", "Add"}, {x}, {K(1)}) \cup {unary("Not", x)}), Ks)
      \cup UNION {Flat({"Or"}, masked(cast("SExt", WordBits, b)), masked(x)) :
                     b \in bit(0) \cup bit(1)}
      \cup Flat({"And"}, Flat({"CmpLtU"}, sums, {x}), Flat({"CmpNe"}, sums, {K(0)}))
      \cup Flat({"Or"}, Flat({"CmpLeU"}, {x}, sums), Flat({"CmpEq"}, sums, {K(0)}))
      \cup Flat(CompareOps, Flat({"Shl"}, {x}, {K(0), K(1), K(2)}), Ks \cup Flat({"Shl"}, {y}, {K(1), K(2)}))
      \cup Flat(CompareOps, Ks, Flat({"Shl"}, {x}, {K(1), K(2)}))
      \cup Flat({"CmpEq", "CmpNe"}, Flat({"Add"}, Flat({"Sub"}, Ks, {x}), {y}), Flat({"Sub"}, {K(1), K(6)}, {x}))
      \cup Flat({"CmpEq", "CmpLtU"}, Flat({"Sub"}, {K(1), K(6)}, {x}), Flat({"Add"}, {y}, Flat({"Sub"}, Ks, {x})))

\* Conditions on every kind of flag bundle, and the casts.
Flags ==
  LET pairs == {<<a, b>> : a \in {x, K(1)}, b \in {x, y} \cup Ks}
      defs == {flagDef(f, WordBits, p) : f \in {"Add", "Sub"}, p \in pairs}
              \cup {flagDef(f, WordBits, Append(p, K(1))) : f \in {"AddCarry", "SubCarry"}, p \in pairs}
              \cup {flagDef("Logical", WordBits, <<e>>) : e \in Flat({"And", "Or"}, {x}, {y} \cup Ks)}
              \cup {flagDef("Const", WordBits, <<k>>) : k \in Ks}
  IN  {flagCondition(d, c) : d \in defs, c \in ConditionCodes}

\* The pair fold.cpp gets wrong: unsigned-lower-or-same after ands or tst.
IsTestLS(e) == e.op = "FlagCond" /\ e.k = "LS" /\ e.a[1].k = "Logical"
Casts ==
  LET narrow == {cast("Trunc", w, e) : w \in CWidths \cup {1, WordBits}, e \in Flat({"Add"}, {x}, {K(0), y})}
                \cup {extract(w, x, i) : w \in CWidths \cup {1}, i \in 0..(WordBits - 1)}
      wide == {cast(op, WordBits, n) : op \in {"ZExt", "SExt"}, n \in narrow}
  IN  wide \cup {cast("Trunc", w, e) : w \in CWidths \cup {1}, e \in wide}
      \cup {select(c, a, b) : c \in Flat({"CmpEq", "CmpLtU"}, {x}, {x} \cup Ks), a \in wide, b \in {x, K(0)}}

\* Arithmetic in a type narrower than int or of its width, and what is made of
\* its result: widened, compared, shifted, chosen, used twice.
NarrowTerms == {cast("Trunc", w, x) : w \in CWidths} \cup {constant(w, n) : w \in CWidths, n \in {1, 3}}
Narrow ==
  LET y2 == cast("Trunc", CHOOSE w \in CWidths : TRUE, y)
      sums == Flat(Arith \cup Shifts \cup {"DivU", "DivS", "RemU", "RemS"}, {y2}, NarrowTerms)
              \cup Unaries({y2}) \cup Unaries(Flat({"Add"}, {y2}, NarrowTerms))
      wide == {cast(op, WordBits, e) : op \in {"ZExt", "SExt"}, e \in sums}
      bits == Flat(CompareOps, {y2}, NarrowTerms)
  IN  sums \cup wide \cup Flat(CompareOps, sums, NarrowTerms) \cup Flat({"ShrU", "ShrS", "Add"}, sums, {constant(2, 1)})
      \cup Flat({"ShrU", "Add", "CmpLtU", "CmpEq", "CmpLtS"}, wide, {x, K(3)})
      \cup {binary(op, e, e) : op \in {"Add", "Mul", "Xor"}, e \in sums}
      \cup {binary("Mul", cast("ZExt", WordBits, e), cast("SExt", WordBits, e)) : e \in sums}
      \cup bits \cup Unaries(bits) \cup Flat({"And", "Or", "Xor"}, bits, Flat({"CmpLtS"}, {y2}, NarrowTerms))
      \cup {cast(op, WordBits, e) : op \in {"ZExt", "SExt"}, e \in bits}
      \cup {select(c, e, y2) : c \in Flat({"CmpLtS"}, {y2}, NarrowTerms), e \in sums}
      \cup {node("Concat", WordBits, 0, "", <<c, y2>>) : c \in bits}

MCOperands == Nested \cup Idioms \cup {e \in Flags : ~IsTestLS(e)} \cup Casts \cup Narrow

-----------------------------------------------------------------------------
VARIABLE focus

MCVars == <<focus, exprVars, vars>>

AnyOperand == CHOOSE e \in Operands : TRUE

\* What a module's initial states choose is fixed where it is not in focus.
MCInit ==
  /\ focus \in Focuses
  /\ (focus # "operand" => original = AnyOperand) /\ ExprInit
  /\ (focus # "calls" => observer = FALSE /\ handler = FALSE) /\ Init
MCNext ==
  \/ focus = "operand" /\ ExprNext /\ UNCHANGED <<focus, vars>>
  \/ focus = "calls" /\ Next /\ UNCHANGED <<focus, exprVars>>
  \/ focus = "operand" /\ UNCHANGED MCVars
MCSpec == MCInit /\ [][MCNext]_MCVars
=============================================================================
