------------------------- MODULE PassPipelineProofs -------------------------
(***************************************************************************)
(* Proofs about the pass framework, for every registry, every pair of      *)
(* maturities and every answer of every pass.                              *)
(***************************************************************************)
EXTENDS PassPipeline, FiniteSetTheorems, TLAPS

Infos == UNION {Offered[n] : n \in DOMAIN Offered}

\* The shape of the state, phase by phase.
ShapeOK ==
  /\ PipelineTypeOK
  /\ passes \in Seq(Infos) /\ offers \in Int
  /\ pipeline \in Seq(Registered)
  /\ phase = "idle" => pipeline = <<>> /\ target = None
  /\ phase \in {"idle", "resolve"} => next = 1
  /\ phase = "resolve" => target \in Maturity
  /\ phase = "over" <=> outcome # "none"
  /\ phase \in {"pass", "verify"} => next <= Len(pipeline) /\ maturity = CurrentPass.level
  /\ phase = "pass" => iterations < FixpointLimit

\* Between passes the function is verified at the level it is at; the walk of
\* runTo is where the last pass took it and ends at the target.
WalkOK ==
  /\ phase \in {"idle", "resolve", "run"} => sound
  /\ target # None /\ phase \in {"run", "pass", "verify"} =>
       /\ next > 1 => maturity = pipeline[next - 1].produces
       /\ pipeline = <<>> => maturity = target
       /\ pipeline # <<>> => pipeline[Len(pipeline)].produces = target
  /\ OkIsVerified

\* What Kahn's algorithm has put out so far: distinct usable passes, none
\* before its requirements.
OrderOK ==
  phase = "resolve" =>
    /\ InPipeline \subseteq PassCandidates(maturity, target)
    /\ \A i, j \in DOMAIN pipeline : pipeline[i] = pipeline[j] => i = j
    /\ \A i \in DOMAIN pipeline :
         Wired(pipeline[i], maturity) \subseteq {pipeline[j] : j \in 1..(i - 1)}

\* p may stand before q in a walk.
Precedes(p, q) == p.level < q.level \/ (p.level = q.level /\ p.produces = p.level)

\* When some order of the usable passes is a walk, the passes put out so far
\* are one too, and each may stand before whatever is still to come.
GreedyOK ==
  phase = "resolve" /\ Resolvable(maturity, target) =>
    /\ \A p \in InPipeline, q \in PassCandidates(maturity, target) \ InPipeline : Precedes(p, q)
    /\ \A i, j \in DOMAIN pipeline : i < j => Precedes(pipeline[i], pipeline[j])
    /\ ~Gap(pipeline, maturity)

PipelineInv ==
  /\ ShapeOK
  /\ WalkOK
  /\ OrderOK
  /\ GreedyOK
  /\ ResolvedIsValid
  /\ ResolveComplete
  /\ SplitResolves

(***************************************************************************)
(* Natural numbers and walks.                                              *)
(***************************************************************************)
\* A set of natural numbers has a smallest element: every induction below
\* argues about the smallest index at which a claim would fail.
LEMMA NatMin ==
  ASSUME NEW T \in SUBSET Nat, T # {}
  PROVE  \E x \in T : \A y \in T : x <= y
<1> DEFINE R == {ss \in Nat \X Nat : ss[1] < ss[2]}
<1>1. IsWellFoundedOn(R, Nat)
  BY NatLessThanWellFounded DEF OpToRel
<1>2. \A x, y \in Nat : x < y => <<x, y>> \in R
  OBVIOUS
<1> HIDE DEF R
<1>3. \E x \in T : \A y \in T : ~ (<<y, x>> \in R)
  BY <1>1, WFMin
<1>4. \A x, y \in Nat : ~(y < x) => x <= y
  OBVIOUS
<1>5. QED
  BY <1>2, <1>3, <1>4

\* n passes, none of which goes backwards, each starting where the one before
\* it ended.
IsWalk(pipe, from, n) ==
  /\ n \in Nat /\ from \in Maturity
  /\ \A i \in 1..n : /\ pipe[i].level \in Maturity /\ pipe[i].produces \in Maturity
                     /\ pipe[i].level <= pipe[i].produces
                     /\ pipe[i].level = At(pipe, from, i - 1)

\* The maturity never decreases along a walk.
LEMMA WalkMonotone ==
  ASSUME NEW pipe, NEW from, NEW n, IsWalk(pipe, from, n),
         NEW i \in 0..n, NEW j \in i..n
  PROVE  At(pipe, from, i) <= At(pipe, from, j)
<1> DEFINE T == {k \in i..n : At(pipe, from, k) < At(pipe, from, i)}
<1>0. n \in Nat /\ i \in Nat /\ j \in Nat
  BY DEF IsWalk
<1>1. \A k \in 0..n : At(pipe, from, k) \in Int
  BY <1>0, MaturityAssumption DEF IsWalk, At, Maturity
<1>2. CASE T = {}
  BY <1>0, <1>1, <1>2
<1>3. CASE T # {}
  <2>1. PICK k \in T : \A m \in T : k <= m
    <3>1. T \in SUBSET Nat
      BY <1>0
    <3>2. QED
      BY <3>1, <1>3, NatMin
  <2>2. k # i /\ k - 1 \in i..n /\ k \in 1..n
    BY <1>0, <1>1, <2>1
  <2>3. k - 1 \notin T
    BY <2>1, <2>2
  <2>4. At(pipe, from, k) = pipe[k].produces /\ pipe[k].level = At(pipe, from, k - 1)
        /\ pipe[k].level <= pipe[k].produces
    BY <2>2 DEF IsWalk, At
  <2>5. QED
    BY <1>0, <1>1, <2>1, <2>2, <2>3, <2>4
<1>4. QED
  BY <1>2, <1>3

\* So a pass begins no earlier than where an earlier pass of the walk ended.
LEMMA WalkSorted ==
  ASSUME NEW pipe, NEW from, NEW n, IsWalk(pipe, from, n),
         NEW i \in 1..n, NEW j \in 1..n, i < j
  PROVE  pipe[i].produces <= pipe[j].level
<1>1. n \in Nat /\ i \in 0..n /\ j - 1 \in i..n
  BY DEF IsWalk
<1>2. At(pipe, from, i) <= At(pipe, from, j - 1)
  BY <1>1, WalkMonotone
<1>3. QED
  BY <1>1, <1>2 DEF IsWalk, At

(***************************************************************************)
(* What a valid order tells about the set of usable passes.                *)
(***************************************************************************)
\* The registry is finite and no registered pass goes backwards.
LEMMA RegistryFacts ==
  ASSUME ShapeOK
  PROVE  /\ IsFiniteSet(Registered)
         /\ \A p \in Registered : /\ p.level \in Maturity /\ p.produces \in Maturity
                                  /\ p.level <= p.produces
<1>1. passes \in Seq(Infos)
  BY DEF ShapeOK
<1>2. \A i \in DOMAIN passes : passes[i] \in Infos /\ passes[i].level <= passes[i].produces
  BY <1>1 DEF ShapeOK, PipelineTypeOK
<1>3. \A p \in Infos : p.level \in Maturity /\ p.produces \in Maturity
  BY OfferedAssumption DEF Infos
<1>4. IsFiniteSet(Registered)
  <2>1. Len(passes) \in Nat /\ DOMAIN passes = 1..Len(passes)
    BY <1>1
  <2>2. IsFiniteSet(DOMAIN passes)
    BY <2>1, FS_Interval
  <2>3. passes \in Surjection(DOMAIN passes, Registered)
    BY <1>1 DEF Registered, Surjection
  <2>4. QED
    BY <2>2, <2>3, FS_Surjection
<1>5. QED
  BY <1>2, <1>3, <1>4 DEF Registered

\* order lists the usable passes between from and to as a valid order.
IsOrder(order, n, from, to) ==
  /\ n \in Nat /\ order \in [1..n -> PassCandidates(from, to)]
  /\ from \in Maturity /\ to \in Maturity
  /\ ValidOrder(order, from, to)

\* A resolvable pair of maturities has such a list.
LEMMA ResolvableOrder ==
  ASSUME ShapeOK, NEW from \in Maturity, NEW to \in Maturity, Resolvable(from, to)
  PROVE  \E n : \E order : IsOrder(order, n, from, to)
<1>1. IsFiniteSet(PassCandidates(from, to))
  BY RegistryFacts, FS_Subset DEF PassCandidates
<1>2. Cardinality(PassCandidates(from, to)) \in Nat
  BY <1>1, FS_CardinalityType
<1>3. QED
  BY <1>2 DEF Resolvable, IsOrder

\* A valid order is a walk over all usable passes.
LEMMA OrderIsWalk ==
  ASSUME ShapeOK, NEW from, NEW to, NEW n, NEW order, IsOrder(order, n, from, to)
  PROVE  /\ n \in Nat
         /\ IsWalk(order, from, n)
         /\ \A p \in PassCandidates(from, to) : \E i \in 1..n : order[i] = p
<1>1. \A p \in PassCandidates(from, to) : p \in Registered
  BY DEF PassCandidates
<1>2. QED
  BY <1>1, RegistryFacts DEF IsOrder, ValidOrder, IsWalk

\* Of the passes still missing, the first of a valid order is ready, and it may
\* stand before all the others.
LEMMA FirstMissing ==
  ASSUME ShapeOK, NEW from, NEW to, NEW n, NEW order, IsOrder(order, n, from, to),
         NEW S, NEW p \in PassCandidates(from, to) \ S
  PROVE  \E q \in PassCandidates(from, to) \ S :
           /\ Wired(q, from) \subseteq S
           /\ \A r \in PassCandidates(from, to) \ S : r # q => Precedes(q, r)
<1> DEFINE T == {i \in 1..n : order[i] \notin S}
<1>1. /\ n \in Nat
      /\ IsWalk(order, from, n)
      /\ \A r \in PassCandidates(from, to) : \E i \in 1..n : order[i] = r
  BY OrderIsWalk
<1>2. PICK k \in T : \A m \in T : k <= m
  <2>1. T \in SUBSET Nat /\ T # {}
    BY <1>1
  <2>2. QED
    BY <2>1, NatMin
<1>3. order[k] \in PassCandidates(from, to) \ S /\ k \in 1..n
  BY <1>2 DEF IsOrder
<1>4. Wired(order[k], from) \subseteq S
  <2>1. Wired(order[k], from) \subseteq {order[j] : j \in 1..(k - 1)}
    BY <1>2, <1>3 DEF IsOrder, ValidOrder
  <2>2. \A j \in 1..(k - 1) : order[j] \in S
    BY <1>1, <1>2
  <2>3. QED
    BY <2>1, <2>2
<1>5. ASSUME NEW r \in PassCandidates(from, to) \ S, r # order[k]
      PROVE  Precedes(order[k], r)
  <2>1. PICK m \in 1..n : order[m] = r
    BY <1>1
  <2>2. k < m
    BY <1>1, <1>2, <1>3, <1>5, <2>1
  <2>3. order[k].produces <= order[m].level
    BY <1>1, <1>3, <2>1, <2>2, WalkSorted
  <2>4. order[k].level <= order[k].produces /\ order[k].level \in Int
        /\ order[k].produces \in Int /\ order[m].level \in Int
    BY <1>1, <1>3, <2>1, MaturityAssumption DEF IsWalk, Maturity
  <2>5. QED
    BY <2>1, <2>3, <2>4 DEF Precedes
<1>6. QED
  BY <1>3, <1>4, <1>5

\* No usable pass begins strictly inside the step of another.
LEMMA Apart ==
  ASSUME ShapeOK, NEW from, NEW to, NEW n, NEW order, IsOrder(order, n, from, to),
         NEW p \in PassCandidates(from, to), NEW q \in PassCandidates(from, to), p.level < q.level
  PROVE  p.produces <= q.level
<1>1. /\ n \in Nat
      /\ IsWalk(order, from, n)
      /\ \A r \in PassCandidates(from, to) : \E i \in 1..n : order[i] = r
  BY OrderIsWalk
<1>2. PICK i \in 1..n : order[i] = p
  BY <1>1
<1>3. PICK j \in 1..n : order[j] = q
  BY <1>1
<1>4. /\ p.level \in Int /\ p.produces \in Int /\ q.level \in Int /\ q.produces \in Int
      /\ q.level <= q.produces
  BY <1>1, <1>2, <1>3, MaturityAssumption DEF IsWalk, Maturity
<1>5. CASE i < j
  BY <1>1, <1>2, <1>3, <1>5, WalkSorted
<1>6. CASE j < i
  <2>1. q.produces <= p.level
    BY <1>1, <1>2, <1>3, <1>6, WalkSorted
  <2>2. QED
    BY <2>1, <1>4
<1>7. i # j
  BY <1>2, <1>3, <1>4
<1>8. QED
  BY <1>1, <1>5, <1>6, <1>7

\* A usable pass that does not begin at the start begins where another ends.
LEMMA Linked ==
  ASSUME ShapeOK, NEW from, NEW to, NEW n, NEW order, IsOrder(order, n, from, to),
         NEW q \in PassCandidates(from, to), q.level # from
  PROVE  \E r \in PassCandidates(from, to) : r.level < q.level /\ r.produces = q.level
<1> DEFINE T == {i \in 0..n : At(order, from, i) = q.level}
<1>1. /\ n \in Nat
      /\ IsWalk(order, from, n)
      /\ \A r \in PassCandidates(from, to) : \E i \in 1..n : order[i] = r
  BY OrderIsWalk
<1>2. PICK j \in 1..n : order[j] = q
  BY <1>1
<1>3. j - 1 \in T
  BY <1>1, <1>2 DEF IsWalk
<1>4. PICK m \in T : \A k \in T : m <= k
  <2>1. T \in SUBSET Nat /\ T # {}
    BY <1>1, <1>3
  <2>2. QED
    BY <2>1, NatMin
<1>5. m \in 1..n /\ order[m].produces = q.level
  BY <1>1, <1>4 DEF At
<1>6. order[m].level # q.level
  <2>1. m - 1 \notin T /\ m - 1 \in 0..n
    BY <1>1, <1>4, <1>5
  <2>2. QED
    BY <1>1, <1>5, <2>1 DEF IsWalk
<1>7. order[m].level < q.level
  BY <1>1, <1>5, <1>6, MaturityAssumption DEF IsWalk, Maturity
<1>8. QED
  BY <1>5, <1>7 DEF IsOrder

(***************************************************************************)
(* The greedy choice.                                                      *)
(***************************************************************************)
\* What the state says while resolve() orders.
Ordering ==
  /\ ShapeOK /\ OrderOK /\ GreedyOK
  /\ phase = "resolve" /\ Orderable

\* The pass that ResolveStep puts out.
Chosen(p) == p \in Ready /\ \A q \in Ready \ {p} : Before(p, q)

\* The chosen pass may stand before everything else that is still missing: it
\* is as low as the first missing pass of any valid order, and if that one
\* stays on its level, so does the chosen one.
LEMMA ChosenFirst ==
  ASSUME Ordering, Resolvable(maturity, target), NEW p, Chosen(p)
  PROVE  \A r \in (PassCandidates(maturity, target) \ InPipeline) \ {p} : Precedes(p, r)
<1> DEFINE C == PassCandidates(maturity, target)
<1>1. maturity \in Maturity /\ target \in Maturity
  BY DEF Ordering, ShapeOK, PipelineTypeOK
<1>2. PICK n, order : IsOrder(order, n, maturity, target)
  BY <1>1, ResolvableOrder DEF Ordering
<1>3. p \in C \ InPipeline
  BY DEF Chosen, Ready
<1>4. PICK q \in C \ InPipeline :
        /\ Wired(q, maturity) \subseteq InPipeline
        /\ \A r \in C \ InPipeline : r # q => Precedes(q, r)
  BY <1>2, <1>3, FirstMissing DEF Ordering
<1>5. q \in Ready
  BY <1>4 DEF Ready
<1>6. CASE p = q
  BY <1>4, <1>6
<1>7. CASE p # q
  <2>1. Before(p, q) /\ Precedes(q, p)
    BY <1>3, <1>4, <1>5, <1>7 DEF Chosen
  <2>2. \A x \in C : x.level \in Int /\ x.produces \in Int /\ x.level <= x.produces
    BY RegistryFacts, MaturityAssumption DEF Ordering, PassCandidates, Maturity
  <2>3. p.level = q.level /\ p.produces = p.level
    BY <1>3, <1>4, <2>1, <2>2 DEF Before, Precedes
  <2>4. ASSUME NEW r \in (C \ InPipeline) \ {p} PROVE Precedes(p, r)
    BY <1>4, <2>2, <2>3, <2>4 DEF Precedes
  <2>5. QED
    BY <2>4
<1>8. QED
  BY <1>6, <1>7

\* The chosen pass begins where the walk stands.
LEMMA ChosenFits ==
  ASSUME Ordering, Resolvable(maturity, target), NEW p, Chosen(p)
  PROVE  p.level = At(pipeline, maturity, Len(pipeline))
<1> DEFINE C == PassCandidates(maturity, target)
           l == pipeline[Len(pipeline)]
<1>1. maturity \in Maturity /\ target \in Maturity
  BY DEF Ordering, ShapeOK, PipelineTypeOK
<1>2. PICK n, order : IsOrder(order, n, maturity, target)
  BY <1>1, ResolvableOrder DEF Ordering
<1>3. p \in C /\ p \notin InPipeline
  BY DEF Chosen, Ready
<1>4. \A x \in C : /\ x.level \in Int /\ x.produces \in Int /\ x.level <= x.produces
                   /\ x.level >= maturity
  BY RegistryFacts, MaturityAssumption DEF Ordering, PassCandidates, Maturity
<1>5. \A r \in C : r.level < p.level => r \in InPipeline
  <2>1. \A r \in (C \ InPipeline) \ {p} : Precedes(p, r)
    BY ChosenFirst
  <2>2. QED
    BY <1>3, <1>4, <2>1 DEF Precedes
<1>6. /\ \A x \in InPipeline : Precedes(x, p)
      /\ \A i, j \in DOMAIN pipeline : i < j => Precedes(pipeline[i], pipeline[j])
  BY <1>3 DEF Ordering, GreedyOK
<1>7. InPipeline \subseteq C
  BY DEF Ordering, OrderOK
<1>8. Len(pipeline) \in Nat /\ DOMAIN pipeline = 1..Len(pipeline)
  BY DEF Ordering, ShapeOK
<1>9. CASE Len(pipeline) = 0
  <2>1. InPipeline = {}
    BY <1>8, <1>9 DEF InPipeline
  <2>2. p.level = maturity
    BY <1>2, <1>3, <1>5, <2>1, Linked DEF Ordering
  <2>3. QED
    BY <1>9, <2>2 DEF At
<1>10. CASE Len(pipeline) # 0
  <2>1. l \in InPipeline /\ At(pipeline, maturity, Len(pipeline)) = l.produces
    BY <1>8, <1>10 DEF At, InPipeline
  <2>2. l \in C /\ Precedes(l, p)
    BY <1>6, <1>7, <2>1
  <2>3. CASE l.level = p.level
    BY <1>3, <1>4, <2>1, <2>2, <2>3 DEF Precedes
  <2>4. CASE l.level < p.level
    <3>1. l.produces <= p.level
      BY <1>2, <1>3, <2>2, <2>4, Apart DEF Ordering
    <3>2. p.level # maturity
      BY <1>1, <1>3, <1>4, <2>2, <2>4, MaturityAssumption DEF Maturity
    <3>3. PICK r \in C : r.level < p.level /\ r.produces = p.level
      BY <1>2, <1>3, <3>2, Linked DEF Ordering
    <3>4. r \in InPipeline
      BY <1>5, <3>3
    <3>5. CASE r = l
      BY <2>1, <3>3, <3>5
    <3>6. CASE r # l
      <4>1. PICK i \in DOMAIN pipeline : pipeline[i] = r
        BY <3>4 DEF InPipeline
      <4>2. i < Len(pipeline)
        BY <1>8, <3>6, <4>1
      <4>3. Precedes(r, l)
        BY <1>6, <1>8, <1>10, <4>1, <4>2
      <4>4. r.level # l.level
        BY <1>3, <1>4, <2>2, <2>4, <3>3, <4>3 DEF Precedes
      <4>5. r.level < l.level
        BY <4>3, <4>4 DEF Precedes
      <4>6. r.produces <= l.level
        BY <1>2, <2>2, <3>3, <4>5, Apart DEF Ordering
      <4>7. QED
        BY <1>3, <1>4, <2>2, <2>4, <3>3, <4>6
    <3>7. QED
      BY <3>5, <3>6
  <2>5. QED
    BY <2>2, <2>3, <2>4 DEF Precedes
<1>11. QED
  BY <1>9, <1>10

\* When nothing is ready any more and some order is valid, the pipeline is
\* complete, without a gap and at the target.
LEMMA DoneIsWalk ==
  ASSUME Ordering, Resolvable(maturity, target), Ready = {}
  PROVE  /\ PassCandidates(maturity, target) = InPipeline
         /\ ~Gap(pipeline, maturity)
         /\ ~Short(pipeline, maturity, target)
<1> DEFINE C == PassCandidates(maturity, target)
           l == pipeline[Len(pipeline)]
<1>1. maturity \in Maturity /\ target \in Maturity
  BY DEF Ordering, ShapeOK, PipelineTypeOK
<1>2. PICK n, order : IsOrder(order, n, maturity, target)
  BY <1>1, ResolvableOrder DEF Ordering
<1>3. C \subseteq InPipeline
  <2>1. SUFFICES ASSUME NEW p \in C \ InPipeline PROVE FALSE
    OBVIOUS
  <2>2. PICK q \in C \ InPipeline : Wired(q, maturity) \subseteq InPipeline
    BY <1>2, FirstMissing DEF Ordering
  <2>3. QED
    BY <2>2 DEF Ready
<1>4. C = InPipeline
  BY <1>3 DEF Ordering, OrderOK
<1>5. ~Gap(pipeline, maturity)
  BY DEF Ordering, GreedyOK
<1>6. \A x \in C : /\ x.level \in Int /\ x.produces \in Int /\ x.level <= x.produces
                   /\ x.produces <= target
  BY RegistryFacts, MaturityAssumption DEF Ordering, PassCandidates, Maturity
<1>7. Len(pipeline) \in Nat /\ DOMAIN pipeline = 1..Len(pipeline)
  BY DEF Ordering, ShapeOK
<1>8. /\ n \in Nat /\ order \in [1..n -> C]
      /\ DOMAIN order = 1..n /\ Len(order) = n
      /\ At(order, maturity, n) = target
  <2>1. n \in Nat /\ order \in [1..n -> C] /\ At(order, maturity, Len(order)) = target
    BY <1>2 DEF IsOrder, ValidOrder
  <2>2. Len(order) = n
    BY <2>1
  <2>3. QED
    BY <2>1, <2>2
<1>9. CASE Len(pipeline) = 0
  <2>1. C = {}
    BY <1>4, <1>7, <1>9 DEF InPipeline
  <2>2. n = 0
    BY <1>8, <2>1
  <2>3. QED
    BY <1>4, <1>5, <1>8, <1>9, <2>2 DEF At, Short
<1>10. CASE Len(pipeline) # 0
  <2>1. l \in C /\ At(pipeline, maturity, Len(pipeline)) = l.produces
    BY <1>4, <1>7, <1>10 DEF At, InPipeline
  <2>2. n # 0
    <3>1. PICK i \in 1..n : order[i] = l
      BY <1>2, <2>1, OrderIsWalk DEF Ordering
    <3>2. QED
      BY <1>8, <3>1
  <2>3. order[n] \in C /\ order[n].produces = target
    BY <1>8, <2>2 DEF At
  <2>4. l.produces = target
    <3>1. CASE order[n] = l
      BY <2>3, <3>1
    <3>2. CASE order[n] # l
      <4>1. PICK i \in DOMAIN pipeline : pipeline[i] = order[n]
        BY <1>4, <2>3 DEF InPipeline
      <4>2. i < Len(pipeline)
        BY <1>7, <3>2, <4>1
      <4>3. Precedes(order[n], l)
        BY <1>7, <1>10, <4>1, <4>2 DEF Ordering, GreedyOK
      <4>4. order[n].level < l.level => order[n].produces <= l.level
        BY <1>2, <2>1, <2>3, Apart DEF Ordering
      <4>5. QED
        BY <1>1, <1>6, <2>1, <2>3, <4>3, <4>4, MaturityAssumption DEF Precedes, Maturity
    <3>3. QED
      BY <3>1, <3>2
  <2>5. QED
    BY <1>4, <1>5, <2>1, <2>4 DEF Short
<1>11. QED
  BY <1>9, <1>10

(***************************************************************************)
(* A walk can be cut wherever a pass ends.                                 *)
(***************************************************************************)
\* A valid order is as long as there are usable passes.
LEMMA OrderResolves ==
  ASSUME NEW from, NEW to, NEW n, NEW order, IsOrder(order, n, from, to),
         ~UnknownRequirement(from, to), ~BeyondTarget(from, to)
  PROVE  Resolvable(from, to)
<1> DEFINE C == PassCandidates(from, to)
<1>1. n \in Nat /\ order \in [1..n -> C] /\ DOMAIN order = 1..n
  BY DEF IsOrder
<1>2. order \in Bijection(1..n, C)
  <2>1. \A i, j \in 1..n : order[i] = order[j] => i = j
    BY <1>1 DEF IsOrder, ValidOrder
  <2>2. \A p \in C : \E i \in 1..n : order[i] = p
    BY <1>1 DEF IsOrder, ValidOrder
  <2> HIDE DEF C
  <2>3. QED
    BY <1>1, <2>1, <2>2 DEF Bijection, Injection, Surjection, IsInjective
<1>3. Cardinality(C) = n
  BY <1>1, <1>2, FS_CountingElements DEF ExistsBijection
<1>4. QED
  BY <1>1, <1>3 DEF Resolvable, IsOrder

\* The first part of the walk, up to the last pass that ends at mid.
LEMMA CutBefore ==
  ASSUME ShapeOK, NEW from, NEW to, NEW n, NEW order, IsOrder(order, n, from, to),
         ~UnknownRequirement(from, to), ~BeyondTarget(from, to),
         NEW i \in 1..n
  PROVE  Resolvable(from, order[i].produces)
<1> DEFINE mid == order[i].produces
           T == {k \in 1..(n + 1) : k = n + 1 \/ order[k].produces > mid}
<1>1. /\ n \in Nat
      /\ IsWalk(order, from, n)
      /\ \A r \in PassCandidates(from, to) : \E k \in 1..n : order[k] = r
  BY OrderIsWalk
<1>2. /\ order \in [1..n -> PassCandidates(from, to)]
      /\ from \in Maturity /\ to \in Maturity
      /\ ValidOrder(order, from, to)
  BY DEF IsOrder
<1>3. PICK m \in T : \A k \in T : m <= k
  <2>1. T \in SUBSET Nat /\ n + 1 \in T
    BY <1>1
  <2>2. QED
    BY <2>1, NatMin
<1>4. \A p \in PassCandidates(from, to) :
        /\ p \in Registered /\ p.level >= from /\ p.produces <= to
        /\ p.level \in Int /\ p.produces \in Int /\ p.level <= p.produces
  BY RegistryFacts, MaturityAssumption DEF PassCandidates, Maturity
<1>5. mid \in Maturity /\ mid <= to /\ mid \in Int /\ to \in Int
  BY <1>1, <1>2, <1>4, MaturityAssumption DEF IsWalk, Maturity
<1>6. m \in 1..(n + 1) /\ m - 1 \in Nat /\ \A k \in 1..n : k < m <=> order[k].produces <= mid
  <2>1. m \in 1..(n + 1) /\ m - 1 \in Nat
    BY <1>1, <1>3
  <2>2. ASSUME NEW k \in 1..n, k < m PROVE order[k].produces <= mid
    <3>1. k \notin T
      BY <1>1, <1>3, <2>1, <2>2
    <3>2. order[k].produces \in Int
      BY <1>2, <1>4
    <3>3. QED
      BY <1>1, <1>5, <3>1, <3>2
  <2>3. ASSUME NEW k \in 1..n, m <= k PROVE order[k].produces > mid
    <3>1. m \in 1..n /\ order[m].produces > mid
      BY <1>1, <1>3, <2>1, <2>3
    <3>2. m = k \/ order[m].produces <= order[k].level
      BY <1>1, <2>3, <3>1, WalkSorted
    <3>3. QED
      BY <1>2, <1>4, <1>5, <3>1, <3>2
  <2>4. QED
    BY <1>1, <1>2, <1>4, <1>5, <2>1, <2>2, <2>3
<1> DEFINE front == [k \in 1..(m - 1) |-> order[k]]
           S == PassCandidates(from, mid)
<1>7. S = {p \in PassCandidates(from, to) : p.produces <= mid}
  BY <1>4, <1>5, RegistryFacts, MaturityAssumption DEF PassCandidates, Maturity
<1>8. \A k \in 0..(m - 1) : At(front, from, k) = At(order, from, k)
  BY <1>1, <1>6 DEF At
<1>9. front \in [1..(m - 1) -> S] /\ {front[k] : k \in DOMAIN front} = S
  <2>1. \A k \in 1..(m - 1) : k \in 1..n /\ order[k] \in S
    BY <1>1, <1>2, <1>6, <1>7
  <2>2. ASSUME NEW p \in S PROVE \E k \in 1..(m - 1) : order[k] = p
    <3>1. PICK k \in 1..n : order[k] = p
      BY <1>1, <1>7
    <3>2. k \in 1..(m - 1)
      BY <1>1, <1>6, <1>7, <3>1
    <3>3. QED
      BY <3>1, <3>2
  <2> HIDE DEF S
  <2>3. QED
    BY <2>1, <2>2
<1>10. ASSUME NEW p \in S PROVE Wired(p, from) \subseteq S
  <2>1. PICK k \in 1..n : order[k] = p
    BY <1>1, <1>7
  <2>2. Wired(p, from) \subseteq {order[j] : j \in 1..(k - 1)}
    BY <1>2, <2>1 DEF ValidOrder
  <2>3. ASSUME NEW j \in 1..(k - 1) PROVE order[j].produces <= mid /\ order[j] \in PassCandidates(from, to)
    <3>1. j \in 1..n /\ order[j].produces <= order[k].level
      BY <1>1, <2>1, WalkSorted
    <3>2. QED
      BY <1>2, <1>4, <1>5, <1>7, <2>1, <3>1
  <2>4. QED
    BY <1>7, <2>2, <2>3
<1>11. ValidOrder(front, from, mid)
  <2>1. \A j, k \in DOMAIN front : front[j] = front[k] => j = k
    BY <1>1, <1>2, <1>6 DEF ValidOrder
  <2>2. ASSUME NEW k \in DOMAIN front
        PROVE  Wired(front[k], from) \subseteq {front[j] : j \in 1..(k - 1)}
    <3>1. k \in 1..n /\ front[k] = order[k]
      BY <1>1, <1>6
    <3>2. Wired(order[k], from) \subseteq {order[j] : j \in 1..(k - 1)}
      BY <1>2, <3>1 DEF ValidOrder
    <3>3. \A j \in 1..(k - 1) : front[j] = order[j]
      BY <1>1, <1>6, <2>2
    <3>4. QED
      BY <3>1, <3>2, <3>3
  <2>3. ASSUME NEW k \in DOMAIN front PROVE front[k].level = At(front, from, k - 1)
    <3>1. k \in 1..n /\ front[k] = order[k] /\ k - 1 \in 0..(m - 1)
      BY <1>1, <1>6
    <3>2. QED
      BY <1>1, <1>8, <3>1 DEF IsWalk
  <2>4. At(front, from, Len(front)) = mid
    <3>1. Len(front) = m - 1
      BY <1>6
    <3>2. i \in 1..(m - 1)
      BY <1>1, <1>2, <1>4, <1>5, <1>6
    <3>3. m - 1 \in 1..n /\ order[m - 1].produces <= mid
      BY <1>1, <1>6, <3>2
    <3>4. i = m - 1 \/ order[i].produces <= order[m - 1].level
      BY <1>1, <3>2, <3>3, WalkSorted
    <3>5. order[m - 1].produces = mid
      BY <1>2, <1>4, <1>5, <3>3, <3>4
    <3>6. QED
      BY <1>6, <1>8, <3>1, <3>3, <3>5 DEF At
  <2>5. QED
    BY <1>9, <2>1, <2>2, <2>3, <2>4 DEF ValidOrder
<1>12. ~UnknownRequirement(from, mid)
  BY <1>7 DEF UnknownRequirement
<1>13. ~BeyondTarget(from, mid)
  <2> HIDE DEF mid
  <2>1. \A p \in S : \A r \in Wired(p, from) : r.produces <= mid /\ r.produces \in Int
    BY <1>4, <1>7, <1>10
  <2>2. QED
    BY <1>5, <2>1 DEF BeyondTarget
<1>14. IsOrder(front, m - 1, from, mid)
  BY <1>2, <1>5, <1>6, <1>9, <1>11 DEF IsOrder
<1>15. QED
  BY <1>12, <1>13, <1>14, OrderResolves

\* The rest of the walk, from the first moment it stands at mid.
LEMMA CutAfter ==
  ASSUME ShapeOK, NEW from, NEW to, NEW n, NEW order, IsOrder(order, n, from, to),
         ~UnknownRequirement(from, to), ~BeyondTarget(from, to),
         NEW i \in 1..n
  PROVE  Resolvable(order[i].produces, to)
<1> DEFINE mid == order[i].produces
           T == {k \in 0..n : At(order, from, k) >= mid}
<1>1. /\ n \in Nat
      /\ IsWalk(order, from, n)
      /\ \A r \in PassCandidates(from, to) : \E k \in 1..n : order[k] = r
  BY OrderIsWalk
<1>2. /\ order \in [1..n -> PassCandidates(from, to)]
      /\ from \in Maturity /\ to \in Maturity
      /\ ValidOrder(order, from, to)
  BY DEF IsOrder
<1>3. \A p \in PassCandidates(from, to) :
        /\ p \in Registered /\ p.level >= from /\ p.produces <= to
        /\ p.level \in Int /\ p.produces \in Int /\ p.level <= p.produces
  BY RegistryFacts, MaturityAssumption DEF PassCandidates, Maturity
<1>4. mid \in Maturity /\ from <= mid /\ mid \in Int /\ from \in Int /\ to \in Int
  <2>1. order[i] \in PassCandidates(from, to)
    BY <1>2
  <2>2. order[i].level >= from /\ order[i].level <= mid /\ order[i].level \in Int
    BY <1>3, <2>1
  <2>3. mid \in Maturity
    BY <1>1 DEF IsWalk
  <2>4. QED
    BY <1>2, <2>2, <2>3, MaturityAssumption DEF Maturity
<1>5. \A k \in 0..n : At(order, from, k) \in Int
  BY <1>1, <1>2, <1>3, <1>4 DEF At
<1>6. PICK m \in T : \A k \in T : m <= k
  <2>1. T \in SUBSET Nat /\ i \in T
    BY <1>1, <1>4 DEF At
  <2>2. QED
    BY <2>1, NatMin
<1>7. m \in 0..n /\ m \in Nat /\ m <= i /\ At(order, from, m) = mid
  <2>1. m \in 0..n /\ m <= i /\ i \in T
    BY <1>1, <1>4, <1>6 DEF At
  <2>2. At(order, from, m) <= At(order, from, i)
    BY <1>1, <2>1, WalkMonotone
  <2>3. At(order, from, i) = mid
    BY <1>1 DEF At
  <2>4. QED
    BY <1>1, <1>4, <1>5, <1>6, <2>1, <2>2, <2>3
<1>8. \A k \in 1..n : k > m <=> order[k].level >= mid
  <2>1. ASSUME NEW k \in 1..n, k > m PROVE order[k].level >= mid
    <3>1. k - 1 \in m..n /\ At(order, from, m) <= At(order, from, k - 1)
      BY <1>1, <1>7, <2>1, WalkMonotone
    <3>2. QED
      BY <1>1, <1>4, <1>5, <1>7, <3>1 DEF IsWalk
  <2>2. ASSUME NEW k \in 1..n, order[k].level >= mid PROVE k > m
    <3>1. k - 1 \in T
      BY <1>1, <2>2 DEF IsWalk
    <3>2. QED
      BY <1>1, <1>6, <1>7, <3>1
  <2>3. QED
    BY <2>1, <2>2
<1> DEFINE rest == [k \in 1..(n - m) |-> order[m + k]]
           S == PassCandidates(mid, to)
<1>9. S = {p \in PassCandidates(from, to) : p.level >= mid}
  BY <1>3, <1>4, RegistryFacts, MaturityAssumption DEF PassCandidates, Maturity
<1>10. n - m \in Nat /\ \A k \in 0..(n - m) : At(rest, mid, k) = At(order, from, m + k)
  BY <1>1, <1>7 DEF At
<1>11. rest \in [1..(n - m) -> S] /\ {rest[k] : k \in DOMAIN rest} = S
  <2>1. \A k \in 1..(n - m) : m + k \in 1..n /\ order[m + k] \in S
    BY <1>1, <1>2, <1>7, <1>8, <1>9
  <2>2. ASSUME NEW p \in S PROVE \E k \in 1..(n - m) : order[m + k] = p
    <3>1. PICK k \in 1..n : order[k] = p
      BY <1>1, <1>9
    <3>2. k - m \in 1..(n - m) /\ m + (k - m) = k
      BY <1>1, <1>7, <1>8, <1>9, <3>1
    <3>3. QED
      BY <3>1, <3>2
  <2> HIDE DEF S
  <2>3. QED
    BY <2>1, <2>2
<1>12. ValidOrder(rest, mid, to)
  <2>1. \A j, k \in DOMAIN rest : rest[j] = rest[k] => j = k
    BY <1>1, <1>2, <1>7 DEF ValidOrder
  <2>2. ASSUME NEW k \in DOMAIN rest, NEW r \in Wired(rest[k], mid)
        PROVE  \E j \in 1..(k - 1) : rest[j] = r
    <3>1. m + k \in 1..n /\ rest[k] = order[m + k] /\ k \in 1..(n - m)
      BY <1>1, <1>7
    <3>2. r \in Wired(order[m + k], from) /\ r.level >= mid
      <4>1. r \in Registered /\ r.name \in order[m + k].requirements /\ r.level >= mid
        BY <2>2, <3>1 DEF Wired
      <4>2. r.level \in Int
        BY <4>1, RegistryFacts, MaturityAssumption DEF Maturity
      <4>3. QED
        BY <1>4, <4>1, <4>2 DEF Wired
    <3>3. PICK j \in 1..(m + k - 1) : order[j] = r
      BY <1>2, <3>1, <3>2 DEF ValidOrder
    <3>4. j \in 1..n /\ j > m
      BY <1>1, <1>7, <1>8, <3>1, <3>2, <3>3
    <3>5. j - m \in 1..(k - 1) /\ rest[j - m] = order[j]
      BY <1>1, <1>7, <3>1, <3>3, <3>4
    <3>6. QED
      BY <3>3, <3>5
  <2>3. ASSUME NEW k \in DOMAIN rest PROVE rest[k].level = At(rest, mid, k - 1)
    <3>1. m + k \in 1..n /\ rest[k] = order[m + k] /\ k - 1 \in 0..(n - m)
          /\ m + (k - 1) = (m + k) - 1
      BY <1>1, <1>7
    <3>2. At(rest, mid, k - 1) = At(order, from, (m + k) - 1)
      BY <1>10, <3>1
    <3>3. QED
      BY <1>1, <3>1, <3>2 DEF IsWalk
  <2>4. At(rest, mid, Len(rest)) = to
    <3>1. Len(rest) = n - m /\ m + (n - m) = n /\ n - m \in 0..(n - m)
      BY <1>1, <1>7, <1>10
    <3>2. At(order, from, Len(order)) = to /\ Len(order) = n
      <4>1. Len(order) = n
        BY <1>1, <1>2
      <4>2. QED
        BY <1>2, <4>1 DEF ValidOrder
    <3>3. At(rest, mid, n - m) = At(order, from, n)
      BY <1>10, <3>1
    <3>4. QED
      BY <3>1, <3>2, <3>3
  <2>5. ASSUME NEW k \in DOMAIN rest
        PROVE  Wired(rest[k], mid) \subseteq {rest[j] : j \in 1..(k - 1)}
    <3>1. \A r \in Wired(rest[k], mid) : \E j \in 1..(k - 1) : rest[j] = r
      BY <2>2
    <3> HIDE DEF rest, mid
    <3>2. QED
      BY <3>1
  <2>6. QED
    BY <1>11, <2>1, <2>3, <2>4, <2>5 DEF ValidOrder
<1>13. ~UnknownRequirement(mid, to)
  BY <1>9 DEF UnknownRequirement
<1>14. ~BeyondTarget(mid, to)
  <2>1. ASSUME NEW p \in S, NEW r \in Wired(p, mid) PROVE r \in Wired(p, from)
    <3>1. r \in Registered /\ r.name \in p.requirements /\ r.level >= mid /\ r.level \in Int
      BY <2>1, RegistryFacts, MaturityAssumption DEF Wired, Maturity
    <3>2. QED
      BY <1>4, <3>1 DEF Wired
  <2>2. QED
    BY <1>9, <2>1 DEF BeyondTarget
<1>15. IsOrder(rest, n - m, mid, to)
  BY <1>2, <1>4, <1>10, <1>11, <1>12 DEF IsOrder
<1>16. QED
  BY <1>13, <1>14, <1>15, OrderResolves

(***************************************************************************)
(* Every step preserves the shape of the state.                            *)
(***************************************************************************)
\* The framework starts in shape.
LEMMA InitShape == PipelineInit => ShapeOK
<1> SUFFICES ASSUME PipelineInit PROVE ShapeOK
  OBVIOUS
<1>1. InPipeline = {} /\ Len(pipeline) = 0 /\ 0 \in Maturity
  BY MaturityAssumption DEF PipelineInit, InPipeline, Maturity
<1>2. PipelineTypeOK
  <2>1. sound \in BOOLEAN /\ changed \in BOOLEAN
    BY Zenon DEF PipelineInit
  <2>2. maturity \in Maturity /\ target \in Maturity \cup {None}
    BY <1>1 DEF PipelineInit
  <2>3. DOMAIN passes = {} /\ InPipeline \subseteq Registered
    BY <1>1 DEF PipelineInit
  <2>4. next \in 1..(Len(pipeline) + 1) /\ iterations \in 0..FixpointLimit
    BY <1>1, LimitAssumption DEF PipelineInit
  <2>5. phase = "idle" /\ outcome = "none"
    BY DEF PipelineInit
  <2>6. QED
    BY <2>1, <2>2, <2>3, <2>4, <2>5 DEF PipelineTypeOK
<1>3. passes \in Seq(Infos) /\ pipeline \in Seq(Registered) /\ offers \in Int
  BY DEF PipelineInit
<1>4. QED
  BY <1>2, <1>3 DEF PipelineInit, ShapeOK

\* Registration appends a pass with a new name that does not go backwards, or
\* leaves the registry alone.
LEMMA AddShape == ASSUME ShapeOK, Add PROVE ShapeOK'
<1>1. PICK info \in Offered[offers + 1] :
        passes' = IF Refuses(info) THEN passes ELSE Append(passes, info)
  BY DEF Add
<1>2. info \in Infos /\ info.level \in Int /\ info.produces \in Int
  BY OfferedAssumption, MaturityAssumption DEF Add, Infos, Maturity
<1>3. /\ passes \in Seq(Infos) /\ offers \in Int
      /\ \A i, j \in DOMAIN passes : passes[i].name = passes[j].name => i = j
      /\ \A i \in DOMAIN passes : passes[i].level <= passes[i].produces
  BY DEF ShapeOK, PipelineTypeOK
<1>4. pipeline = <<>> /\ pipeline' = <<>> /\ InPipeline' = {}
  BY DEF ShapeOK, Add, InPipeline
<1>5. /\ passes' \in Seq(Infos)
      /\ \A i, j \in DOMAIN passes' : passes'[i].name = passes'[j].name => i = j
      /\ \A i \in DOMAIN passes' : passes'[i].level <= passes'[i].produces
  <2>1. CASE Refuses(info)
    BY <1>1, <1>3, <2>1
  <2>2. CASE ~Refuses(info)
    <3>1. passes' = Append(passes, info) /\ info.level <= info.produces
      BY <1>1, <1>2, <2>2 DEF Refuses
    <3>2. \A i \in DOMAIN passes : passes[i].name # info.name
      BY <2>2 DEF Refuses, Named, Registered
    <3>3. /\ passes' \in Seq(Infos) /\ Len(passes) \in Nat
          /\ DOMAIN passes = 1..Len(passes) /\ DOMAIN passes' = 1..(Len(passes) + 1)
          /\ \A i \in 1..Len(passes) : passes'[i] = passes[i]
          /\ passes'[Len(passes) + 1] = info
      BY <1>2, <1>3, <3>1
    <3>4. QED
      BY <1>3, <3>1, <3>2, <3>3
  <2>3. QED
    BY <2>1, <2>2
<1>6. PipelineTypeOK'
  BY <1>4, <1>5 DEF ShapeOK, PipelineTypeOK, Add, function, slot
<1>7. QED
  BY <1>3, <1>4, <1>5, <1>6 DEF ShapeOK, Add, function, slot

\* A call of runTo fixes the two maturities.
LEMMA RunToShape ==
  ASSUME ShapeOK, NEW m \in Maturity, NEW t \in Maturity, RunTo(m, t) PROVE ShapeOK'
<1>1. UNCHANGED <<passes, offers, sound, pipeline, next, iterations, changed, outcome>>
      /\ maturity' = m /\ target' = t /\ phase = "idle" /\ phase' = "resolve"
  BY DEF RunTo, registry, slot
<1>2. Registered' = Registered /\ InPipeline' = InPipeline
  BY <1>1 DEF Registered, InPipeline
<1>3. PipelineTypeOK'
  BY <1>1, <1>2 DEF ShapeOK, PipelineTypeOK
<1>4. QED
  BY <1>1, <1>2, <1>3 DEF ShapeOK

\* resolve() only appends registered passes.
LEMMA ResolveShape ==
  ASSUME ShapeOK, ResolveRejects \/ ResolveStep \/ ResolveDone PROVE ShapeOK'
<1>1. /\ UNCHANGED <<passes, offers, maturity, sound, target, next, iterations, changed>>
      /\ phase = "resolve" /\ next = 1
  BY DEF ResolveRejects, ResolveStep, ResolveDone, registry, function, slot, ShapeOK
<1>2. Registered' = Registered
  BY <1>1 DEF Registered
<1>3. pipeline \in Seq(Registered) /\ outcome = "none"
  BY <1>1 DEF ShapeOK
<1>4. CASE ResolveRejects
  <2>1. pipeline' = pipeline /\ InPipeline' = InPipeline
    BY <1>4 DEF ResolveRejects, InPipeline
  <2>2. phase' = "over" /\ outcome' \in {"backwards", "unknown", "beyond"}
    BY <1>4 DEF ResolveRejects, Over
  <2>3. PipelineTypeOK'
    BY <1>1, <1>2, <2>1, <2>2 DEF ShapeOK, PipelineTypeOK
  <2>4. QED
    BY <1>1, <1>2, <2>1, <2>2, <2>3 DEF ShapeOK
<1>5. CASE ResolveStep
  <2>1. PICK p \in Ready : pipeline' = Append(pipeline, p)
    BY <1>5 DEF ResolveStep
  <2>2. p \in Registered
    BY DEF Ready, PassCandidates
  <2>3. pipeline' \in Seq(Registered) /\ Len(pipeline') \in Nat
    BY <1>3, <2>1, <2>2
  <2>4. InPipeline' \subseteq Registered
    BY <2>3 DEF InPipeline
  <2>5. phase' = phase /\ outcome' = outcome
    BY <1>5 DEF ResolveStep
  <2>6. PipelineTypeOK'
    BY <1>1, <1>2, <2>3, <2>4, <2>5 DEF ShapeOK, PipelineTypeOK
  <2>7. QED
    BY <1>1, <1>2, <2>3, <2>5, <2>6 DEF ShapeOK
<1>6. CASE ResolveDone
  <2>1. pipeline' = pipeline /\ InPipeline' = InPipeline
    BY <1>6 DEF ResolveDone, InPipeline
  <2>2. \/ phase' = "over" /\ outcome' \in {"cycle", "gap", "short"}
        \/ phase' = "run" /\ outcome' = "none"
    BY <1>3, <1>6 DEF ResolveDone, Over
  <2>3. PipelineTypeOK'
    BY <1>1, <1>2, <2>1, <2>2 DEF ShapeOK, PipelineTypeOK
  <2>4. QED
    BY <1>1, <1>2, <2>1, <2>2, <2>3 DEF ShapeOK
<1>7. QED
  BY <1>4, <1>5, <1>6

\* A pipeline assembled by hand consists of registered passes.
LEMMA ByHandShape == ASSUME ShapeOK, RunByHand PROVE ShapeOK'
<1>1. /\ UNCHANGED <<passes, offers, sound, target, next, iterations, changed, outcome>>
      /\ phase = "idle" /\ phase' = "run" /\ maturity' \in Maturity
  BY DEF RunByHand, registry, slot
<1>2. Registered' = Registered
  BY <1>1 DEF Registered
<1>3. PICK n \in 1..HandLimit : pipeline' \in [1..n -> Registered]
  BY DEF RunByHand
<1>4. pipeline' \in Seq(Registered) /\ Len(pipeline') \in Nat
  BY <1>3, LimitAssumption
<1>5. InPipeline' \subseteq Registered
  BY <1>4 DEF InPipeline
<1>6. PipelineTypeOK'
  BY <1>1, <1>2, <1>4, <1>5 DEF ShapeOK, PipelineTypeOK
<1>7. QED
  BY <1>1, <1>2, <1>4, <1>6 DEF ShapeOK

\* The manager walks the pipeline and iterates within its limit.
LEMMA ManagerShape ==
  ASSUME ShapeOK, BeginPass \/ Iterate \/ PassFails \/ Verify \/ PipelineDone
  PROVE  ShapeOK'
<1>1. UNCHANGED <<passes, offers, target, pipeline>>
  BY DEF BeginPass, Iterate, PassFails, Verify, PipelineDone, registry, function
<1>2. Registered' = Registered /\ InPipeline' = InPipeline
  BY <1>1 DEF Registered, InPipeline
<1>3. /\ pipeline \in Seq(Registered) /\ Len(pipeline) \in Nat
      /\ next \in Nat /\ next >= 1 /\ iterations \in Nat
      /\ FixpointLimit \in Nat /\ FixpointLimit >= 1
  BY LimitAssumption DEF ShapeOK, PipelineTypeOK
<1>4. next <= Len(pipeline) => CurrentPass \in Registered
  BY <1>3 DEF CurrentPass
<1>5. CASE BeginPass
  <2>1. /\ next <= Len(pipeline) /\ phase = "run"
        /\ UNCHANGED <<maturity, sound, next>> /\ iterations' = 0
        /\ \/ maturity = CurrentPass.level /\ phase' = "pass" /\ outcome' = outcome
           \/ phase' = "over" /\ outcome' = "level"
    BY <1>5 DEF BeginPass, Over, AtItsLevel, function
  <2>2. CurrentPass' = CurrentPass
    BY <1>1, <2>1 DEF CurrentPass
  <2>2a. changed' \in BOOLEAN
    BY <1>5, Zenon DEF BeginPass
  <2>3. PipelineTypeOK'
    BY <1>1, <1>2, <1>3, <2>1, <2>2a DEF ShapeOK, PipelineTypeOK
  <2>4. QED
    BY <1>1, <1>2, <1>3, <2>1, <2>2, <2>3 DEF ShapeOK
<1>6. CASE Iterate
  <2>1. PICK answer \in BOOLEAN :
          /\ changed' = answer
          /\ iterations' = iterations + 1
          /\ IF Again(answer) /\ iterations + 1 >= FixpointLimit THEN Over("limit")
             ELSE /\ phase' = IF Again(answer) THEN "pass" ELSE "verify"
                  /\ UNCHANGED outcome
    BY <1>6 DEF Iterate
  <2>2. phase = "pass" /\ UNCHANGED <<maturity, next>>
    BY <1>6 DEF Iterate
  <2>3. /\ iterations' \in 0..FixpointLimit
        /\ \/ phase' = "over" /\ outcome' = "limit"
           \/ phase' = "pass" /\ outcome' = outcome /\ iterations' < FixpointLimit
           \/ phase' = "verify" /\ outcome' = outcome
    BY <1>3, <2>1, <2>2 DEF Over, ShapeOK
  <2>4. CurrentPass' = CurrentPass
    BY <1>1, <2>2 DEF CurrentPass
  <2>4a. changed' \in BOOLEAN /\ sound' \in BOOLEAN
    BY <1>6, <2>1, Zenon DEF Iterate
  <2>5. PipelineTypeOK'
    BY <1>1, <1>2, <1>3, <2>2, <2>3, <2>4, <2>4a DEF ShapeOK, PipelineTypeOK
  <2>6. QED
    BY <1>1, <1>2, <1>3, <2>2, <2>3, <2>4, <2>5 DEF ShapeOK
<1>7. CASE PassFails
  <2>1. /\ phase = "pass" /\ phase' = "over" /\ outcome' \in {"error", "stopped"}
        /\ sound' \in BOOLEAN /\ UNCHANGED <<maturity, next, iterations, changed>>
    BY <1>7 DEF PassFails, Over, slot
  <2>2. PipelineTypeOK'
    BY <1>1, <1>2, <2>1 DEF ShapeOK, PipelineTypeOK
  <2>3. QED
    BY <1>1, <1>2, <2>1, <2>2 DEF ShapeOK
<1>8. CASE Verify
  <2>1. /\ phase = "verify" /\ UNCHANGED <<iterations, changed>> /\ sound' \in BOOLEAN
        /\ \/ /\ maturity' = CurrentPass.produces /\ next' = next + 1
              /\ phase' = "run" /\ outcome' = outcome
           \/ phase' = "over" /\ outcome' = "verify" /\ UNCHANGED <<maturity, next>>
    BY <1>8 DEF Verify, Over
  <2>2. next <= Len(pipeline) /\ CurrentPass.produces \in Maturity
    BY <1>4, <2>1, RegistryFacts DEF ShapeOK
  <2>3. PipelineTypeOK'
    BY <1>1, <1>2, <1>3, <2>1, <2>2 DEF ShapeOK, PipelineTypeOK
  <2>4. QED
    BY <1>1, <1>2, <2>1, <2>3 DEF ShapeOK
<1>9. CASE PipelineDone
  <2>1. /\ phase' = "over" /\ outcome' = "ok"
        /\ UNCHANGED <<maturity, sound, next, iterations, changed>>
    BY <1>9 DEF PipelineDone, Over, slot, function
  <2>2. PipelineTypeOK'
    BY <1>1, <1>2, <2>1 DEF ShapeOK, PipelineTypeOK
  <2>3. QED
    BY <1>1, <1>2, <2>1, <2>2 DEF ShapeOK
<1>10. QED
  BY <1>5, <1>6, <1>7, <1>8, <1>9

\* A step that changes nothing changes nothing of the above.
LEMMA StutterShape == ASSUME ShapeOK, UNCHANGED pipelineVars PROVE ShapeOK'
<1>1. UNCHANGED <<passes, phase, offers, maturity, sound, target, pipeline, next,
                  iterations, changed, outcome>>
  BY DEF pipelineVars
<1>2. Registered' = Registered /\ InPipeline' = InPipeline /\ CurrentPass' = CurrentPass
  BY <1>1 DEF Registered, InPipeline, CurrentPass
<1>3. PipelineTypeOK'
  BY <1>1, <1>2 DEF ShapeOK, PipelineTypeOK
<1>4. QED
  BY <1>1, <1>2, <1>3 DEF ShapeOK

\* The shape is inductive.
LEMMA ShapeStep == ASSUME ShapeOK, [PipelineNext]_pipelineVars PROVE ShapeOK'
<1>1. CASE \E m, t \in Maturity : RunTo(m, t)
  BY <1>1, RunToShape
<1>2. QED
  BY <1>1, AddShape, ResolveShape, ByHandShape, ManagerShape, StutterShape DEF PipelineNext

(***************************************************************************)
(* Every step preserves what the walk promises.                            *)
(***************************************************************************)
\* The manager ends at the target with a verified function, or says why not.
LEMMA WalkStep == ASSUME ShapeOK, WalkOK, [PipelineNext]_pipelineVars PROVE WalkOK'
<1>1. /\ Len(pipeline) \in Nat /\ next \in 1..(Len(pipeline) + 1)
      /\ DOMAIN pipeline = 1..Len(pipeline)
      /\ pipeline = <<>> <=> Len(pipeline) = 0
  BY DEF ShapeOK, PipelineTypeOK
<1>2. CASE Add
  <2>1. phase = "idle" /\ phase' = "idle" /\ UNCHANGED <<sound, outcome, target>>
    BY <1>2 DEF Add, function
  <2>2. QED
    BY <2>1 DEF ShapeOK, WalkOK, OkIsVerified
<1>3. CASE \E m, t \in Maturity : RunTo(m, t)
  <2>1. phase = "idle" /\ phase' = "resolve" /\ UNCHANGED <<sound, outcome>>
    BY <1>3 DEF RunTo
  <2>2. QED
    BY <2>1 DEF ShapeOK, WalkOK, OkIsVerified
<1>4. CASE ResolveRejects
  <2>1. phase' = "over" /\ outcome' # "ok"
    BY <1>4 DEF ResolveRejects, Over
  <2>2. QED
    BY <2>1 DEF WalkOK, OkIsVerified
<1>5. CASE ResolveStep
  <2>1. phase = "resolve" /\ phase' = "resolve" /\ UNCHANGED <<sound, outcome>>
    BY <1>5 DEF ResolveStep, function
  <2>2. QED
    BY <2>1 DEF ShapeOK, WalkOK, OkIsVerified
<1>6. CASE ResolveDone
  <2>1. phase = "resolve" /\ next = 1 /\ UNCHANGED <<maturity, sound, target, pipeline, next>>
    BY <1>6 DEF ResolveDone, ShapeOK, function, slot
  <2>2. CASE phase' = "run" /\ outcome' = outcome /\ ~Short(pipeline, maturity, target)
    <3>1. At(pipeline, maturity, Len(pipeline)) = target
      BY <2>2 DEF Short
    <3>2. QED
      BY <1>1, <2>1, <2>2, <3>1 DEF WalkOK, ShapeOK, OkIsVerified, At
  <2>3. CASE phase' = "over" /\ outcome' # "ok"
    BY <2>3 DEF WalkOK, OkIsVerified
  <2>4. QED
    BY <1>6, <2>2, <2>3 DEF ResolveDone, Over
<1>7. CASE RunByHand
  <2>1. phase = "idle" /\ phase' = "run" /\ UNCHANGED <<sound, outcome, target>>
    BY <1>7 DEF RunByHand
  <2>2. QED
    BY <2>1 DEF ShapeOK, WalkOK, OkIsVerified
<1>8. CASE BeginPass
  <2>1. /\ phase = "run" /\ UNCHANGED <<maturity, target, pipeline, next>>
        /\ \/ phase' = "pass" /\ outcome' = outcome
           \/ phase' = "over" /\ outcome' # "ok"
    BY <1>8 DEF BeginPass, Over, function
  <2>2. QED
    BY <2>1 DEF ShapeOK, WalkOK, OkIsVerified
<1>9. CASE Iterate
  <2>1. /\ phase = "pass" /\ UNCHANGED <<maturity, target, pipeline, next>>
        /\ \/ phase' \in {"pass", "verify"} /\ outcome' = outcome
           \/ phase' = "over" /\ outcome' # "ok"
    BY <1>9 DEF Iterate, Over
  <2>2. QED
    BY <2>1 DEF ShapeOK, WalkOK, OkIsVerified
<1>10. CASE PassFails
  <2>1. phase' = "over" /\ outcome' # "ok"
    BY <1>10 DEF PassFails, Over
  <2>2. QED
    BY <2>1 DEF WalkOK, OkIsVerified
<1>11. CASE Verify
  <2>1. phase = "verify" /\ next <= Len(pipeline) /\ UNCHANGED <<target, pipeline>>
    BY <1>11 DEF Verify, ShapeOK
  <2>2. \/ /\ sound' = TRUE /\ maturity' = pipeline[next].produces /\ next' = next + 1
           /\ phase' = "run" /\ outcome' = outcome
        \/ phase' = "over" /\ outcome' # "ok"
    BY <1>11 DEF Verify, Accepted, Over, CurrentPass
  <2>3. CASE phase' = "over" /\ outcome' # "ok"
    BY <2>3 DEF WalkOK, OkIsVerified
  <2>4. CASE /\ sound' = TRUE /\ maturity' = pipeline[next].produces /\ next' = next + 1
             /\ phase' = "run" /\ outcome' = outcome
    <3>1. next' - 1 = next /\ pipeline # <<>>
      BY <1>1, <2>1, <2>4
    <3>2. outcome' = "none" /\ sound'
      BY <2>1, <2>4 DEF ShapeOK
    <3>3. QED
      BY <2>1, <2>4, <3>1, <3>2 DEF WalkOK, OkIsVerified
  <2>5. QED
    BY <2>2, <2>3, <2>4
<1>12. CASE PipelineDone
  <2>1. /\ phase = "run" /\ phase' = "over" /\ next > Len(pipeline)
        /\ UNCHANGED <<maturity, sound, target>>
    BY <1>12 DEF PipelineDone, Over, function
  <2>2. sound /\ (target # None => maturity = target)
    <3>1. next = Len(pipeline) + 1
      BY <1>1, <2>1
    <3>2. CASE pipeline = <<>>
      BY <2>1, <3>2 DEF WalkOK
    <3>3. CASE pipeline # <<>>
      <4>1. next > 1 /\ next - 1 = Len(pipeline)
        BY <1>1, <3>1, <3>3
      <4>2. QED
        BY <2>1, <3>3, <4>1 DEF WalkOK
    <3>4. QED
      BY <3>2, <3>3
  <2>3. QED
    BY <2>1, <2>2 DEF WalkOK, OkIsVerified
<1>13. CASE UNCHANGED pipelineVars
  BY <1>13 DEF WalkOK, OkIsVerified, pipelineVars
<1>14. QED
  BY <1>2, <1>3, <1>4, <1>5, <1>6, <1>7, <1>8, <1>9, <1>10, <1>11, <1>12, <1>13 DEF PipelineNext

(***************************************************************************)
(* Every step preserves what resolve() promises.                           *)
(***************************************************************************)
\* Outside registration and the start of a walk, what can be resolved between
\* the two maturities stays the same.
LEMMA Frame ==
  ASSUME UNCHANGED <<passes, maturity, target>>
  PROVE  /\ PassCandidates(maturity, target)' = PassCandidates(maturity, target)
         /\ \A p : Wired(p, maturity)' = Wired(p, maturity)
         /\ Resolvable(maturity, target)' <=> Resolvable(maturity, target)
<1>1. Registered' = Registered
  BY DEF Registered
<1>2. PassCandidates(maturity, target)' = PassCandidates(maturity, target)
  BY <1>1 DEF PassCandidates
<1>3. \A p : Wired(p, maturity)' = Wired(p, maturity)
  BY <1>1 DEF Wired
<1>4. Resolvable(maturity, target)' <=> Resolvable(maturity, target)
  <2>1. UnknownRequirement(maturity, target)' <=> UnknownRequirement(maturity, target)
    BY <1>1, <1>2 DEF UnknownRequirement, Named
  <2>2. BeyondTarget(maturity, target)' <=> BeyondTarget(maturity, target)
    BY <1>2, <1>3 DEF BeyondTarget
  <2>3. \A pipe : ValidOrder(pipe, maturity, target)' <=> ValidOrder(pipe, maturity, target)
    BY <1>2, <1>3 DEF ValidOrder, At
  <2>4. QED
    BY <1>2, <2>1, <2>2, <2>3 DEF Resolvable
<1>5. QED
  BY <1>2, <1>3, <1>4

\* The same for the two halves of the pipeline at hand, cut after its i-th pass.
LEMMA FrameCut ==
  ASSUME UNCHANGED <<passes, maturity, target, pipeline>>, NEW i
  PROVE  /\ Resolvable(maturity, pipeline[i].produces)'
              <=> Resolvable(maturity, pipeline[i].produces)
         /\ Resolvable(pipeline[i].produces, target)'
              <=> Resolvable(pipeline[i].produces, target)
<1> DEFINE mid == pipeline[i].produces
<1>1. Registered' = Registered /\ mid' = mid
  BY DEF Registered
<1>2. PassCandidates(maturity, mid)' = PassCandidates(maturity, mid)
      /\ PassCandidates(mid, target)' = PassCandidates(mid, target)
  BY <1>1 DEF PassCandidates
<1>3. \A p : Wired(p, maturity)' = Wired(p, maturity) /\ Wired(p, mid)' = Wired(p, mid)
  BY <1>1 DEF Wired
<1>4. /\ UnknownRequirement(maturity, mid)' <=> UnknownRequirement(maturity, mid)
      /\ UnknownRequirement(mid, target)' <=> UnknownRequirement(mid, target)
  BY <1>1, <1>2 DEF UnknownRequirement, Named
<1>5. /\ BeyondTarget(maturity, mid)' <=> BeyondTarget(maturity, mid)
      /\ BeyondTarget(mid, target)' <=> BeyondTarget(mid, target)
  BY <1>1, <1>2, <1>3 DEF BeyondTarget
<1>6. \A pipe : /\ ValidOrder(pipe, maturity, mid)' <=> ValidOrder(pipe, maturity, mid)
                /\ ValidOrder(pipe, mid, target)' <=> ValidOrder(pipe, mid, target)
  BY <1>1, <1>2, <1>3 DEF ValidOrder, At
<1> HIDE DEF mid
<1>7. QED
  <2>1. Resolvable(maturity, mid)' <=> Resolvable(maturity, mid)
    BY <1>2, <1>4, <1>5, <1>6 DEF Resolvable
  <2>2. Resolvable(mid, target)' <=> Resolvable(mid, target)
    BY <1>2, <1>4, <1>5, <1>6 DEF Resolvable
  <2>3. QED
    BY <2>1, <2>2 DEF mid

\* Putting out a ready pass keeps the pipeline a list of distinct passes, none
\* before its requirements.
LEMMA OrderAppend == ASSUME ShapeOK, OrderOK, ResolveStep PROVE OrderOK'
<1>1. phase = "resolve" /\ UNCHANGED <<passes, maturity, target>>
  BY DEF ResolveStep, registry, function
<1>2. PICK p \in Ready : pipeline' = Append(pipeline, p)
  BY DEF ResolveStep
<1>3. /\ p \in PassCandidates(maturity, target) /\ p \notin InPipeline
      /\ Wired(p, maturity) \subseteq InPipeline /\ p \in Registered
  BY <1>2 DEF Ready, PassCandidates
<1> DEFINE n == Len(pipeline)
<1>4. /\ n \in Nat /\ DOMAIN pipeline = 1..n /\ DOMAIN pipeline' = 1..(n + 1)
      /\ \A i \in 1..n : pipeline'[i] = pipeline[i]
      /\ pipeline'[n + 1] = p
  BY <1>2, <1>3 DEF ShapeOK
<1> HIDE DEF n
<1>5. /\ InPipeline \subseteq PassCandidates(maturity, target)
      /\ \A i, j \in 1..n : pipeline[i] = pipeline[j] => i = j
      /\ \A i \in 1..n : Wired(pipeline[i], maturity) \subseteq {pipeline[j] : j \in 1..(i - 1)}
      /\ InPipeline = {pipeline[j] : j \in 1..n}
  BY <1>1, <1>4 DEF OrderOK, InPipeline
<1>6. InPipeline' \subseteq PassCandidates(maturity, target)
  BY <1>3, <1>4, <1>5 DEF InPipeline
<1>7. \A i, j \in 1..(n + 1) : pipeline'[i] = pipeline'[j] => i = j
  BY <1>3, <1>4, <1>5
<1>8. ASSUME NEW i \in 1..(n + 1)
      PROVE  Wired(pipeline'[i], maturity) \subseteq {pipeline'[j] : j \in 1..(i - 1)}
  <2>1. \A j \in 1..(i - 1) : pipeline'[j] = pipeline[j]
    BY <1>4
  <2>2. CASE i = n + 1
    <3>1. i - 1 = n
      BY <1>4, <2>2
    <3>2. {pipeline'[j] : j \in 1..(i - 1)} = InPipeline
      BY <1>5, <2>1, <3>1
    <3>3. QED
      BY <1>3, <1>4, <2>2, <3>2
  <2>3. CASE i # n + 1
    <3>1. i \in 1..n /\ pipeline'[i] = pipeline[i]
      BY <1>4, <2>3
    <3>2. {pipeline'[j] : j \in 1..(i - 1)} = {pipeline[j] : j \in 1..(i - 1)}
      BY <2>1
    <3>3. QED
      BY <1>5, <3>1, <3>2
  <2>4. QED
    BY <2>2, <2>3
<1>9. PassCandidates(maturity, target)' = PassCandidates(maturity, target)
      /\ \A q : Wired(q, maturity)' = Wired(q, maturity)
  BY <1>1, Frame
<1>10. QED
  BY <1>4, <1>6, <1>7, <1>8, <1>9 DEF OrderOK

\* Putting out the chosen pass keeps the pipeline a walk that everything else
\* can still follow.
LEMMA GreedyAppend == ASSUME ShapeOK, OrderOK, GreedyOK, ResolveStep PROVE GreedyOK'
<1>1. Ordering /\ UNCHANGED <<passes, maturity, target>>
  BY DEF ResolveStep, registry, function, Ordering
<1>2. PICK p : Chosen(p) /\ pipeline' = Append(pipeline, p)
  BY DEF ResolveStep, Chosen
<1>3. p \in PassCandidates(maturity, target) /\ p \notin InPipeline /\ p \in Registered
  BY <1>2 DEF Chosen, Ready, PassCandidates
<1> DEFINE n == Len(pipeline)
           C == PassCandidates(maturity, target)
<1>4. /\ n \in Nat /\ DOMAIN pipeline = 1..n /\ DOMAIN pipeline' = 1..(n + 1)
      /\ \A i \in 1..n : pipeline'[i] = pipeline[i]
      /\ pipeline'[n + 1] = p
  BY <1>2, <1>3 DEF ShapeOK
<1>5. PassCandidates(maturity, target)' = C
      /\ (Resolvable(maturity, target)' <=> Resolvable(maturity, target))
  BY <1>1, Frame
<1>6. SUFFICES ASSUME Resolvable(maturity, target)
      PROVE  /\ \A x \in InPipeline', q \in C \ InPipeline' : Precedes(x, q)
             /\ \A i, j \in 1..(n + 1) : i < j => Precedes(pipeline'[i], pipeline'[j])
             /\ ~Gap(pipeline, maturity)'
  <2>1. ASSUME NEW x, NEW y PROVE Precedes(x, y)' <=> Precedes(x, y)
    BY DEF Precedes
  <2>2. QED
    BY <1>4, <1>5, Zenon DEF GreedyOK, Precedes
<1>7. /\ \A x \in InPipeline, q \in C \ InPipeline : Precedes(x, q)
      /\ \A i, j \in 1..n : i < j => Precedes(pipeline[i], pipeline[j])
      /\ \A i \in 1..n : pipeline[i].level = At(pipeline, maturity, i - 1)
  BY <1>1, <1>4, <1>6 DEF GreedyOK, Ordering, Gap
<1>8. InPipeline' = InPipeline \cup {p}
  BY <1>4 DEF InPipeline
<1>9. \A q \in (C \ InPipeline) \ {p} : Precedes(p, q)
  BY <1>1, <1>2, <1>6, ChosenFirst
<1>10. p.level = At(pipeline, maturity, n)
  BY <1>1, <1>2, <1>6, ChosenFits
<1> HIDE DEF n, C
<1>11. \A x \in InPipeline', q \in C \ InPipeline' : Precedes(x, q)
  BY <1>7, <1>8, <1>9
<1>12. \A i, j \in 1..(n + 1) : i < j => Precedes(pipeline'[i], pipeline'[j])
  <2>1. \A i \in 1..n : Precedes(pipeline[i], p)
    BY <1>3, <1>4, <1>7 DEF InPipeline, C
  <2>2. ASSUME NEW i \in 1..(n + 1), NEW j \in 1..(n + 1), i < j
        PROVE  Precedes(pipeline'[i], pipeline'[j])
    <3>1. i \in 1..n /\ pipeline'[i] = pipeline[i]
      BY <1>4, <2>2
    <3>2. CASE j = n + 1
      BY <1>4, <2>1, <3>1, <3>2
    <3>3. CASE j # n + 1
      <4>1. j \in 1..n /\ pipeline'[j] = pipeline[j]
        BY <1>4, <3>3
      <4>2. QED
        BY <1>7, <2>2, <3>1, <4>1
    <3>4. QED
      BY <3>2, <3>3
  <2>3. QED
    BY <2>2
<1>13. ~Gap(pipeline, maturity)'
  <2>1. \A i \in 1..(n + 1) : (IF i - 1 = 0 THEN maturity ELSE pipeline'[i - 1].produces)
                              = At(pipeline, maturity, i - 1)
    BY <1>4 DEF At
  <2>2. \A i \in 1..(n + 1) : pipeline'[i].level = At(pipeline, maturity, i - 1)
    <3>1. ASSUME NEW i \in 1..(n + 1) PROVE pipeline'[i].level = At(pipeline, maturity, i - 1)
      <4>1. CASE i = n + 1
        <5>1. i - 1 = n
          BY <1>4, <4>1
        <5>2. QED
          BY <1>4, <1>10, <4>1, <5>1
      <4>2. CASE i # n + 1
        <5>1. i \in 1..n
          BY <1>4, <4>2
        <5>2. QED
          BY <1>4, <1>7, <5>1
      <4>3. QED
        BY <4>1, <4>2
    <3>2. QED
      BY <3>1
  <2>3. QED
    BY <1>1, <1>4, <2>1, <2>2 DEF Gap, At
<1>14. QED
  BY <1>11, <1>12, <1>13

\* Only runTo begins to order, with nothing put out yet, and only ResolveStep
\* goes on with it.
LEMMA WhileResolving ==
  ASSUME ShapeOK, [PipelineNext]_pipelineVars, (phase = "resolve")'
  PROVE  \/ pipeline' = <<>>
         \/ ResolveStep
         \/ UNCHANGED pipelineVars
<1>1. CASE Add
  BY <1>1 DEF Add
<1>2. CASE \E m, t \in Maturity : RunTo(m, t)
  BY <1>2 DEF RunTo, ShapeOK
<1>3. CASE ResolveRejects \/ ResolveDone
  BY <1>3 DEF ResolveRejects, ResolveDone, Over
<1>4. CASE RunByHand \/ BeginPass \/ Iterate \/ PassFails \/ Verify \/ PipelineDone
  BY <1>4 DEF RunByHand, BeginPass, Iterate, PassFails, Verify, PipelineDone, Over
<1>5. QED
  BY <1>1, <1>2, <1>3, <1>4 DEF PipelineNext

\* The order put out so far is inductive.
LEMMA OrderStep ==
  ASSUME ShapeOK, OrderOK, GreedyOK, [PipelineNext]_pipelineVars
  PROVE  OrderOK' /\ GreedyOK'
<1>1. CASE ~(phase = "resolve")'
  BY <1>1 DEF OrderOK, GreedyOK
<1>2. CASE pipeline' = <<>>
  <2>1. InPipeline' = {} /\ DOMAIN pipeline' = {}
    BY <1>2 DEF InPipeline
  <2>2. QED
    BY <2>1 DEF OrderOK, GreedyOK, Gap
<1>3. CASE ResolveStep
  BY <1>3, OrderAppend, GreedyAppend
<1>4. CASE UNCHANGED pipelineVars
  <2>1. UNCHANGED <<passes, maturity, target, pipeline, phase>>
    BY <1>4 DEF pipelineVars
  <2>2. /\ PassCandidates(maturity, target)' = PassCandidates(maturity, target)
        /\ \A p : Wired(p, maturity)' = Wired(p, maturity)
        /\ Resolvable(maturity, target)' <=> Resolvable(maturity, target)
    BY <2>1, Frame
  <2>3. InPipeline' = InPipeline /\ (Gap(pipeline, maturity)' <=> Gap(pipeline, maturity))
    BY <2>1 DEF InPipeline, Gap, At
  <2>4. OrderOK'
    BY <2>1, <2>2, <2>3 DEF OrderOK
  <2>5. GreedyOK'
    BY <2>1, <2>2, <2>3 DEF GreedyOK, Precedes
  <2>6. QED
    BY <2>4, <2>5
<1>5. QED
  BY <1>1, <1>2, <1>3, <1>4, WhileResolving

\* The moment a pipeline is resolved it is a valid order.
LEMMA DoneIsValid ==
  ASSUME ShapeOK, OrderOK, phase = "resolve",
         PassCandidates(maturity, target) = InPipeline,
         ~Gap(pipeline, maturity), ~Short(pipeline, maturity, target)
  PROVE  ValidOrder(pipeline, maturity, target)
  BY DEF OrderOK, Gap, Short, ValidOrder, InPipeline

\* And it can be cut after each of its passes.
LEMMA ValidSplits ==
  ASSUME ShapeOK, Orderable, phase = "resolve", ValidOrder(pipeline, maturity, target),
         NEW i \in DOMAIN pipeline
  PROVE  /\ Resolvable(maturity, pipeline[i].produces)
         /\ Resolvable(pipeline[i].produces, target)
<1>1. Len(pipeline) \in Nat /\ DOMAIN pipeline = 1..Len(pipeline)
  BY DEF ShapeOK
<1>2. pipeline \in [1..Len(pipeline) -> PassCandidates(maturity, target)]
  <2>1. \A k \in DOMAIN pipeline : pipeline[k] \in PassCandidates(maturity, target)
    BY DEF ValidOrder
  <2>2. pipeline = [k \in 1..Len(pipeline) |-> pipeline[k]]
    BY <1>1 DEF ShapeOK
  <2>3. QED
    BY <1>1, <2>1, <2>2
<1>3. IsOrder(pipeline, Len(pipeline), maturity, target)
  BY <1>1, <1>2 DEF IsOrder, ShapeOK, PipelineTypeOK
<1>4. QED
  BY <1>1, <1>3, CutBefore, CutAfter DEF Orderable

\* What is said of resolve()'s answers is inductive.
LEMMA AnswerStep ==
  ASSUME PipelineInv, [PipelineNext]_pipelineVars
  PROVE  ResolvedIsValid' /\ ResolveComplete' /\ SplitResolves'
<1> DEFINE verdicts == {"cycle", "gap", "short"}
<1>1. ShapeOK /\ OrderOK /\ GreedyOK /\ ResolvedIsValid /\ ResolveComplete /\ SplitResolves
  BY DEF PipelineInv
<1>2. CASE ResolveDone
  <2>1. /\ Ordering /\ Ready = {}
        /\ UNCHANGED <<passes, maturity, target, pipeline, next>>
        /\ outcome = "none"
    BY <1>1, <1>2 DEF ResolveDone, Ordering, ShapeOK, registry, function, slot
  <2>2. CASE phase' = "over"
    <3>1. ~(/\ PassCandidates(maturity, target) = InPipeline
            /\ ~Gap(pipeline, maturity)
            /\ ~Short(pipeline, maturity, target))
      BY <1>2, <2>2 DEF ResolveDone, Over
    <3>2. ~Resolvable(maturity, target)
      BY <2>1, <3>1, DoneIsWalk
    <3>3. ~Resolvable(maturity, target)'
      BY <2>1, <3>2, Frame
    <3>4. QED
      BY <2>2, <3>3 DEF ResolvedIsValid, ResolveComplete, SplitResolves, JustResolved
  <2>3. CASE phase' # "over"
    <3>1. /\ phase' = "run" /\ outcome' = "none"
          /\ PassCandidates(maturity, target) = InPipeline
          /\ ~Gap(pipeline, maturity)
          /\ ~Short(pipeline, maturity, target)
      BY <1>2, <2>1, <2>3 DEF ResolveDone, Over
    <3>2. ValidOrder(pipeline, maturity, target)
      BY <2>1, <3>1, DoneIsValid DEF Ordering
    <3>3. ValidOrder(pipeline, maturity, target)'
      <4>1. /\ PassCandidates(maturity, target)' = PassCandidates(maturity, target)
            /\ \A p : Wired(p, maturity)' = Wired(p, maturity)
        BY <2>1, Frame
      <4>2. QED
        BY <2>1, <3>2, <4>1 DEF ValidOrder, At
    <3>4. ASSUME NEW i \in DOMAIN pipeline
          PROVE  /\ Resolvable(maturity, pipeline[i].produces)'
                 /\ Resolvable(pipeline[i].produces, target)'
      <4>1. /\ Resolvable(maturity, pipeline[i].produces)
            /\ Resolvable(pipeline[i].produces, target)
        BY <2>1, <3>2, ValidSplits DEF Ordering
      <4>2. QED
        BY <2>1, <4>1, FrameCut
    <3>5. QED
      BY <2>1, <3>1, <3>3, <3>4 DEF ResolvedIsValid, ResolveComplete, SplitResolves
  <2>4. QED
    BY <2>2, <2>3
<1>3. CASE UNCHANGED pipelineVars
  <2>1. UNCHANGED <<passes, phase, maturity, target, pipeline, next, outcome>>
    BY <1>3 DEF pipelineVars
  <2>2. /\ PassCandidates(maturity, target)' = PassCandidates(maturity, target)
        /\ \A p : Wired(p, maturity)' = Wired(p, maturity)
        /\ Resolvable(maturity, target)' <=> Resolvable(maturity, target)
    BY <2>1, Frame
  <2>3. ResolvedIsValid'
    BY <1>1, <2>1, <2>2 DEF ResolvedIsValid, JustResolved, ValidOrder, At
  <2>4. ResolveComplete'
    BY <1>1, <2>1, <2>2 DEF ResolveComplete
  <2>5. SplitResolves'
    <3>1. \A i : /\ Resolvable(maturity, pipeline[i].produces)'
                      <=> Resolvable(maturity, pipeline[i].produces)
                 /\ Resolvable(pipeline[i].produces, target)'
                      <=> Resolvable(pipeline[i].produces, target)
      BY <2>1, FrameCut
    <3>2. QED
      BY <1>1, <2>1, <3>1 DEF SplitResolves, JustResolved
  <2>6. QED
    BY <2>3, <2>4, <2>5
<1>4. CASE ~JustResolved' /\ outcome' \notin verdicts
  BY <1>4 DEF ResolvedIsValid, ResolveComplete, SplitResolves
<1>5. CASE Add \/ (\E m, t \in Maturity : RunTo(m, t)) \/ ResolveStep
  <2>1. phase' \in {"idle", "resolve"} /\ outcome' = outcome /\ outcome = "none"
    BY <1>1, <1>5 DEF Add, RunTo, ResolveStep, ShapeOK
  <2>2. QED
    BY <1>4, <2>1 DEF JustResolved
<1>6. CASE ResolveRejects
  BY <1>4, <1>6 DEF ResolveRejects, Over, JustResolved
<1>7. CASE RunByHand
  <2>1. target' = None /\ outcome' = outcome /\ outcome = "none"
    BY <1>1, <1>7 DEF RunByHand, ShapeOK
  <2>2. QED
    BY <1>4, <2>1 DEF JustResolved
<1>8. CASE BeginPass \/ Iterate \/ PassFails \/ PipelineDone
  <2>1. phase' # "run" /\ outcome = "none" /\
        (outcome' = outcome \/ outcome' \in {"level", "limit", "error", "stopped", "ok"})
    BY <1>1, <1>8 DEF BeginPass, Iterate, PassFails, PipelineDone, Over, ShapeOK
  <2>2. QED
    BY <1>4, <2>1 DEF JustResolved
<1>9. CASE Verify
  <2>1. next \in Nat /\ next >= 1
    BY <1>1 DEF ShapeOK, PipelineTypeOK
  <2>2. /\ next' = next + 1 \/ phase' = "over"
        /\ outcome = "none" /\ (outcome' = outcome \/ outcome' = "verify")
    BY <1>1, <1>9 DEF Verify, Over, ShapeOK
  <2>3. QED
    BY <1>4, <2>1, <2>2 DEF JustResolved
<1>10. QED
  BY <1>2, <1>3, <1>5, <1>6, <1>7, <1>8, <1>9 DEF PipelineNext

(***************************************************************************)
(* The theorems.                                                           *)
(***************************************************************************)
\* The inductive invariant holds initially.
LEMMA InitInv == PipelineInit => PipelineInv
<1> SUFFICES ASSUME PipelineInit PROVE PipelineInv
  OBVIOUS
<1>1. ShapeOK
  BY InitShape
<1>2. WalkOK
  BY DEF PipelineInit, WalkOK, OkIsVerified
<1>3. OrderOK /\ GreedyOK
  BY DEF PipelineInit, OrderOK, GreedyOK
<1>4. ResolvedIsValid /\ ResolveComplete /\ SplitResolves
  BY DEF PipelineInit, ResolvedIsValid, ResolveComplete, SplitResolves, JustResolved
<1>5. QED
  BY <1>1, <1>2, <1>3, <1>4 DEF PipelineInv

\* And every step preserves it.
LEMMA NextInv == PipelineInv /\ [PipelineNext]_pipelineVars => PipelineInv'
<1> SUFFICES ASSUME PipelineInv, [PipelineNext]_pipelineVars PROVE PipelineInv'
  OBVIOUS
<1>1. ShapeOK /\ WalkOK /\ OrderOK /\ GreedyOK
  BY DEF PipelineInv
<1>2. ShapeOK' /\ WalkOK' /\ OrderOK' /\ GreedyOK'
  BY <1>1, ShapeStep, WalkStep, OrderStep
<1>3. QED
  BY <1>2, AnswerStep DEF PipelineInv

\* The registry, the pipeline and the manager's counters keep their types.
THEOREM TypeCorrect == PipelineSpec => []PipelineTypeOK
<1>1. PipelineInv => PipelineTypeOK
  BY DEF PipelineInv, ShapeOK
<1>2. QED
  BY <1>1, InitInv, NextInv, PTL DEF PipelineSpec

\* Manager::run: a run that succeeds leaves a function verified at its recorded
\* maturity, and runTo leaves it at the target.
THEOREM Verified == PipelineSpec => []OkIsVerified
<1>1. PipelineInv => OkIsVerified
  BY DEF PipelineInv, WalkOK
<1>2. QED
  BY <1>1, InitInv, NextInv, PTL DEF PipelineSpec

\* Registry::resolve is sound: what it returns is a valid order of the usable
\* passes.
THEOREM ResolvedValid == PipelineSpec => []ResolvedIsValid
<1>1. PipelineInv => ResolvedIsValid
  BY DEF PipelineInv
<1>2. QED
  BY <1>1, InitInv, NextInv, PTL DEF PipelineSpec

\* Registry::resolve is complete: its ready order reports a cycle, a gap or a
\* missing bridge only when no order of the usable passes would do.
THEOREM ResolveIsComplete == PipelineSpec => []ResolveComplete
<1>1. PipelineInv => ResolveComplete
  BY DEF PipelineInv
<1>2. QED
  BY <1>1, InitInv, NextInv, PTL DEF PipelineSpec

\* A resolved walk also resolves in two parts that meet at any maturity it
\* passes through, as the driver asks at Cfg.
THEOREM SplitsResolve == PipelineSpec => []SplitResolves
<1>1. PipelineInv => SplitResolves
  BY DEF PipelineInv
<1>2. QED
  BY <1>1, InitInv, NextInv, PTL DEF PipelineSpec

\* Manager::run never takes a function back to a lower maturity.
THEOREM Ratchet == PipelineSpec => MaturityRatchet
<1>1. PipelineInv /\ [PipelineNext]_pipelineVars => [phase # "idle" => maturity' >= maturity]_pipelineVars
  <2> SUFFICES ASSUME PipelineInv, [PipelineNext]_pipelineVars, phase # "idle"
               PROVE  maturity' >= maturity
    OBVIOUS
  <2>1. maturity \in Int
    BY MaturityAssumption DEF PipelineInv, ShapeOK, PipelineTypeOK, Maturity
  <2>2. CASE maturity' = maturity
    BY <2>1, <2>2
  <2>3. CASE Verify
    <3>1. phase = "verify"
      BY <2>3 DEF Verify
    <3>2. /\ next <= Len(pipeline) /\ maturity = CurrentPass.level
          /\ pipeline \in Seq(Registered) /\ next \in 1..(Len(pipeline) + 1)
      BY <3>1 DEF PipelineInv, ShapeOK, PipelineTypeOK
    <3>3. CurrentPass \in Registered
      BY <3>2 DEF CurrentPass
    <3>4. CurrentPass.level <= CurrentPass.produces /\ CurrentPass.produces \in Int
      BY <3>3, RegistryFacts, MaturityAssumption DEF PipelineInv, Maturity
    <3>5. maturity' = maturity \/ maturity' = CurrentPass.produces
      BY <2>3 DEF Verify
    <3>6. QED
      BY <2>1, <3>2, <3>4, <3>5
  <2>4. QED
    BY <2>2, <2>3 DEF PipelineNext, Add, RunTo, ResolveRejects, ResolveStep, ResolveDone, RunByHand,
                      BeginPass, Iterate, PassFails, PipelineDone, function, pipelineVars
<1>2. QED
  BY <1>1, InitInv, NextInv, PTL DEF PipelineSpec, MaturityRatchet
=============================================================================
