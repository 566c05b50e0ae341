--------------------------- MODULE MCStructurizer ---------------------------
(***************************************************************************)
(* Families of small functions for the structurizer.                       *)
(***************************************************************************)
EXTENDS Structurizer

CONSTANT Families

\* A term is [k, to]: a terminator kind and its targets.  Every computed branch
\* reads table 1; `named` says its values and condition were recovered.
T(k, to) == [k |-> k, to |-> to]
Ret == T("ret", <<>>)
Br(b) == T("br", <<b>>)
Cond(b, c) == T("cond", <<b, c>>)
Ind(targets) == T("ind", targets)

Fn(terms, bare, named) ==
    LET each(F(_)) == <<>> \o [b \in DOMAIN terms |-> F(b)]
    IN  [kind  |-> each(LAMBDA b : terms[b].k),
         succ  |-> each(LAMBDA b : terms[b].to),
         ops   |-> each(LAMBDA b : b \notin bare),
         table |-> each(LAMBDA b : IF terms[b].k = "ind" THEN 1 ELSE 0),
         vals  |-> each(LAMBDA b : named),
         cond  |-> each(LAMBDA b : named),
         first |-> each(LAMBDA b : 1),
         index |-> each(LAMBDA b : b),
         test  |-> each(LAMBDA b : [k |-> "none", v |-> 0]),
         phis  |-> each(LAMBDA b : <<>>),
         dup |-> FALSE, maxDepth |-> 32, budget |-> 200, shared |-> 24, defer |-> FALSE]

PairsOf(bs) == {e \in bs \X bs : e[1] # e[2]}
PlainOf(bs) == {Ret} \cup {Br(b) : b \in bs} \cup {Cond(e[1], e[2]) : e \in PairsOf(bs)}
Pairs(n) == PairsOf(2..n)
Plain(n) == PlainOf(2..n)
Conds(t) == {b \in DOMAIN t : t[b].k = "cond"}
Whole(fs) == {f \in fs : Reachable(f) = CFGBlocks(f)}

\* Every function of n blocks.
Branching(n) == Whole({Fn(t, {}, FALSE) : t \in [1..n -> Plain(n)]})
\* Every function of n blocks that may also branch back to its entry.
EntryLoops(n) == Whole({Fn(t, {}, FALSE) : t \in [1..n -> PlainOf(1..n)]})
\* The same with every condition bare, where each block follows one of a lower number.
Bare(n) ==
    LET met(t, b) == \E a \in 1..(b - 1) : b \in ToSet(t[a].to)
    IN  Whole({Fn(t, Conds(t), FALSE) : t \in {u \in [1..n -> Plain(n)] : \A b \in 2..n : met(u, b)}})
\* Both under limits small enough to be met.
Tight(n) == {[f EXCEPT !.maxDepth = 1] : f \in Branching(n)}
            \cup {[f EXCEPT !.budget = 1] : f \in Bare(n)}

\* The entry dispatches and any other block may dispatch two ways.
Dispatching ==
    LET some == Plain(4) \cup {Ind(e) : e \in Pairs(4)}
    IN  Whole({Fn(<<Ind(<<2, 3>>), a, b, c>>, {}, TRUE) : a \in some, b \in some, c \in Plain(4)})
        \cup Whole({Fn(<<Ind(<<2, 3, 4>>), a, b, c>>, {}, FALSE) :
                        a \in some, b \in Plain(4), c \in {Ret, Br(2), Br(3), Cond(2, 3)}})

\* Two-way sites of one region over private tails, a shared handler and a hub.
Region2(v, d) ==
    {[Fn(<<a, Ind(<<4, 5>>), b, c, e, f>>, {}, v) EXCEPT !.defer = d] :
        a \in {Ind(<<2, 3>>), Cond(2, 3), Cond(2, 6)},
        b \in {Br(6), Ret, Ind(<<4, 6>>), Ind(<<5, 6>>)},
        c \in {Br(6), Ret, Br(5)}, e \in {Br(6), Ret, Br(2)},
        f \in {Ret, Br(2), Cond(2, 3)}}
Regions == Whole(UNION {Region2(v, d) : v \in BOOLEAN, d \in BOOLEAN}
                 \cup {[f EXCEPT !.shared = 1] : f \in Region2(TRUE, FALSE)})

\* A guarded dispatch whose handlers share a tail that returns to the guard.
Flattened ==
    Whole({Fn(<<Br(2), g, Ind(<<4, 5, 6>>), a, b, Br(7), c, e>>, {}, TRUE) :
        g \in {Cond(3, 8), Cond(8, 3)},
        a \in {Br(7), Ret, Br(2), Cond(7, 8)}, b \in {Br(7), Ret, Br(8)},
        c \in {Br(2), Cond(2, 8)}, e \in {Ret, Br(7)}})

\* A loop in a loop, leaving both from inside.
Nested ==
    Whole({Fn(<<Br(2), a, b, c, d, Ret>>, bare, FALSE) :
        a \in {Br(3), Cond(3, 6)}, b \in {Cond(4, 5), Cond(5, 4)},
        c \in {Cond(3, 6), Br(3), Cond(5, 3), Cond(6, 3)},
        d \in {Cond(2, 6), Cond(6, 2), Br(2)}, bare \in {{}, {3}}})

\* Compare chains and a binary tree over one value.
Tests(f, tests) == [f EXCEPT !.test = [b \in DOMAIN @ |-> IF b \in DOMAIN tests THEN tests[b] ELSE @[b]],
                             !.ops = [b \in DOMAIN @ |-> b \notin DOMAIN tests]]
Cmp(k, v) == [k |-> k, v |-> v]
Compared ==
    LET ends == {Ret, Br(1), Br(7)}
        two == {Ret, Br(1)}
        chain(a, b, c, d) ==
            Tests(Fn(<<Cond(4, 2), Cond(5, 3), Cond(6, 7), a, b, c, d>>, {}, FALSE),
                  <<Cmp("eq", 1), Cmp("eq", 2), Cmp("eq", 3)>>)
        \* The middle test has phis, or the default's edges copy different values.
        phis == {[chain(a, Br(7), Ret, d) EXCEPT !.phis[2] = <<1>>] : a \in ends, d \in two}
        differ(x) == {[Tests(Fn(<<Cond(2, 3), Cond(4, 7), Cond(5, 6), a, Ret, Cond(4, 7), Ret>>,
                                {}, FALSE),
                             (1 :> Cmp("lt", 2)) @@ (2 :> Cmp("eq", 1)) @@ (3 :> Cmp("eq", 2))
                             @@ (6 :> Cmp("eq", 3)))
                          EXCEPT !.phis[7] = [p \in {2, 6} |-> IF p = 2 THEN 0 ELSE x]] : a \in two}
    IN  Whole({chain(a, b, c, d) : a \in ends, b \in ends, c \in {Ret, Br(5)}, d \in two})
        \cup Whole(phis \cup differ(0) \cup differ(1))
        \cup
        Whole({Tests(Fn(<<Cond(2, 3), Cond(5, 8), Cond(4, 6), Cond(7, 8), a, b, c, d>>, {}, FALSE),
                     <<Cmp("lt", 2), Cmp("eq", 1), Cmp("ne", 2), Cmp("eq", 3)>>) :
                  a \in {Ret, Br(1), Br(8)}, b \in {Ret, Br(7)}, c \in two, d \in two})

Fns == UNION {CASE f = "branching" -> Branching(4)
                [] f = "bare"      -> Bare(4)
                [] f = "tight"     -> Tight(3)
                [] f = "entry"     -> EntryLoops(3)
                [] f = "dispatch"  -> Dispatching
                [] f = "region"    -> Regions
                [] f = "flattened" -> Flattened
                [] f = "nested"    -> Nested
                [] f = "compared"  -> Compared : f \in Families}
=============================================================================
