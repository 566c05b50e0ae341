--------------------------- MODULE ExprRewriting ---------------------------
(***************************************************************************)
(* One operand of the function under the rewriters of the pipeline: the    *)
(* flag folder and the constant folder of local-simplify and ssa-optimize  *)
(* and the algebraic simplifier, in any order, as often as the fixpoint    *)
(* passes repeat them, and the C text printed for it.                      *)
(***************************************************************************)
EXTENDS Algebra, CExpr

CONSTANTS Operands,      \* the expressions a run starts from
          MaxRewrites,   \* bound on the rewriters applied to one operand
          IntWidths,     \* the widths of C's int to print for
          Text(_, _)     \* the C printer, CExpr's WrittenAs: context, operand -> what is written

VARIABLES original, current, rewrites

exprVars == <<original, current, rewrites>>

ExprInit == original \in Operands /\ current = original /\ rewrites = 0

Rewrite(f(_)) ==
  /\ rewrites < MaxRewrites
  /\ current' = f(current)
  /\ current' # current
  /\ rewrites' = rewrites + 1
  /\ UNCHANGED original

FoldConstants      == Rewrite(foldConstants)
FoldFlagConditions == Rewrite(foldFlagConditions)
SimplifyAlgebra    == Rewrite(simplify)

ExprNext == FoldConstants \/ FoldFlagConditions \/ SimplifyAlgebra

\* What the operand's registers may hold.
Valuations ==
  LET regs == {l \in Leaves(original) \cup Leaves(current) : l.op = "EntryReg"}
  IN  {v \in [{l.k : l \in regs} -> 0..AllOnes(WordBits)] : \A l \in regs : v[l.k] <= AllOnes(l.w)}

\* Every rewriting computes what the original expression computes, whatever
\* the registers hold: no rule guesses ("none of them guess",
\* algebra_idioms.h), also where several rules meet in one expression.
MeaningKept ==
  \A v \in Valuations :
    LET env == [value |-> <<>>, entry |-> v]
    IN  Eval(current, env) = Eval(original, env) /\ current.w = original.w

\* What one printing of the operand computes: by itself, and in a scope where
\* the nodes it refers to more than once have temporaries.
Printing(v, int, shared) ==
  [value |-> <<>>, entry |-> v, int |-> int, decl |-> [r \in {} |-> 0], signed |-> {},
   shared |-> shared, named |-> NoNames]

\* The text p of the operand has the operand's value, its inversion the other.
PrintedAs(c, p) ==
  LET exact == Eval(current, c)
  IN  /\ Convert(p.text, current.w, FALSE).v = exact
      /\ current.w = 1 => p.inverted.v = 1 - exact

\* Once nothing is left to rewrite, the C text of the operand has in C the
\* value the operand has, whatever the registers hold and however wide int is,
\* and the inverted condition of a branch is its negation: the casts the
\* printer leaves out are all redundant ("a sub-64-bit operation carries a cast
\* that is semantics rather than decoration", c_expr.h), except for the
\* constructs NodeExact and FlagsExact rule out.
PrintedExact ==
  (foldConstants(current) = current /\ simplify(current) = current) =>
    LET scopes == {{}, Shared(<<current>>)}
    IN  \A v \in Valuations, int \in IntWidths, shared \in scopes :
          LET c == Printing(v, int, shared)
              p == Text(c, current)
          IN  p.exact => PrintedAs(c, p)

\* The rewriters settle: the simplifier's answer is one its own rules leave
\* alone, so the bound on rounds never cuts a cycle of rules short, and when the
\* bound is reached nothing is left to rewrite, so the fixpoint passes the
\* rewriters belong to stop reporting changes.
RewritesSettle ==
  /\ LET s == simplify(current) IN rewriteOnce(s) = s
  /\ rewrites = MaxRewrites =>
       simplify(current) = current /\ foldConstants(current) = current
                                   /\ foldFlagConditions(current) = current
=============================================================================
