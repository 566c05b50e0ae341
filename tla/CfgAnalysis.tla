---------------------------- MODULE CfgAnalysis ----------------------------
(***************************************************************************)
(* The graph analyses every structural decision rests on: reverse         *)
(* post-order, Cooper-Harvey-Kennedy dominators, their post-dominator      *)
(* mirror, natural loops, Tarjan components and the reducibility test,     *)
(* each as the code computes it, next to the path definition it is meant   *)
(* to compute.  A function is a record f:                                  *)
(*   f.kind[b]  terminator: "br", "cond", "ind", "ret", "none"             *)
(*   f.succ[b]  the successor list, duplicates kept, in target order       *)
(*   f.ops[b]   whether the block holds anything but its terminator        *)
(* Blocks are 1..Len(f.succ), block 1 is the entry and 0 the invalid id.   *)
(***************************************************************************)
EXTENDS Naturals, Sequences, FiniteSets, FiniteSetsExt, SequencesExt

\* F of every element, in order.
MapSeq(seq, F(_)) == <<>> \o [i \in DOMAIN seq |-> F(seq[i])]

CFGBlocks(f) == 1..Len(f.succ)
SuccSet(f, b) == ToSet(f.succ[b])

\* Predecessors in the order rebuildEdges appends them: by block handle, a
\* duplicate edge twice.
Preds(f, b) ==
    FlattenSeq([p \in CFGBlocks(f) |->
                   [i \in 1..Len(SelectSeq(f.succ[p], LAMBDA t : t = b)) |-> p]])
PredSet(f, b) == {p \in CFGBlocks(f) : b \in SuccSet(f, p)}

-----------------------------------------------------------------------------
(* Reverse post-order: an explicit-stack depth-first walk.                 *)

RECURSIVE Visit(_, _, _)
Visit(f, b, acc) ==
    LET opened == [acc EXCEPT !.seen = @ \cup {b}]
        below  == FoldLeft(LAMBDA a, t : IF t \in a.seen THEN a ELSE Visit(f, t, a),
                           opened, f.succ[b])
    IN  [below EXCEPT !.post = Append(@, b)]

reversePostOrder(f) == Reverse(Visit(f, 1, [seen |-> {}, post |-> <<>>]).post)

\* rank[b]: position in an order, or a number past every position.
RankIn(f, order) ==
    [b \in CFGBlocks(f) |-> IF b \in ToSet(order)
                            THEN CHOOSE i \in 1..Len(order) : order[i] = b
                            ELSE Len(f.succ) + 1]

-----------------------------------------------------------------------------
(* Dominators.                                                             *)

RECURSIVE Intersect(_, _, _, _)
Intersect(idom, rank, a, b) ==
    IF a = b THEN a
    ELSE IF rank[a] > rank[b] THEN Intersect(idom, rank, idom[a], b)
    ELSE Intersect(idom, rank, a, idom[b])

\* One visit of a block: the meet over the predecessors that already have an
\* immediate dominator.
MeetPreds(f, rank, idom, b) ==
    LET known == SelectSeq(Preds(f, b), LAMBDA p : idom[p] # 0)
    IN  IF known = <<>> THEN 0
        ELSE FoldLeft(LAMBDA m, p : Intersect(idom, rank, p, m), Head(known), Tail(known))

DomRound(f, order, rank, idom) ==
    FoldLeft(LAMBDA d, b : LET m == MeetPreds(f, rank, d, b)
                           IN  IF m # 0 THEN [d EXCEPT ![b] = m] ELSE d,
             idom, Tail(order))

RECURSIVE DomFixpoint(_, _, _, _)
DomFixpoint(f, order, rank, idom) ==
    LET next == DomRound(f, order, rank, idom)
    IN  IF next = idom THEN idom ELSE DomFixpoint(f, order, rank, next)

\* idom[b], the entry its own parent, 0 for a block the entry cannot reach.
Idom(f) ==
    LET order == reversePostOrder(f)
    IN  DomFixpoint(f, order, RankIn(f, order),
                    [b \in CFGBlocks(f) |-> IF b = 1 THEN 1 ELSE 0])

RECURSIVE ClimbTo(_, _, _)
ClimbTo(idom, a, finger) ==
    IF finger = a \/ finger = 1 THEN finger = a ELSE ClimbTo(idom, a, idom[finger])

dominates(idom, a, b) ==
    IF idom[a] = 0 \/ idom[b] = 0 THEN a = b ELSE ClimbTo(idom, a, b)

\* Cytron's frontier: each reachable predecessor of a join climbs to the
\* join's immediate dominator.
RECURSIVE ClimbSet(_, _, _)
ClimbSet(idom, runner, top) ==
    IF runner = top THEN {} ELSE {runner} \cup ClimbSet(idom, idom[runner], top)

Frontier(f, idom) ==
    [b \in CFGBlocks(f) |->
        {j \in CFGBlocks(f) : /\ idom[j] # 0
                              /\ Len(Preds(f, j)) >= 2
                              /\ \E p \in PredSet(f, j) :
                                    idom[p] # 0 /\ b \in ClimbSet(idom, p, idom[j])}]

-----------------------------------------------------------------------------
(* Post-dominators: the same meet on the reversed graph, from all exits at *)
(* once, with 0 the virtual exit root.                                     *)

RECURSIVE VisitBack(_, _, _)
VisitBack(f, b, acc) ==
    LET opened == [acc EXCEPT !.seen = @ \cup {b}]
        below  == FoldLeft(LAMBDA a, t : IF t \in a.seen THEN a ELSE VisitBack(f, t, a),
                           opened, Preds(f, b))
    IN  [below EXCEPT !.post = Append(@, b)]

Exits(f) == SelectSeq(reversePostOrder(f), LAMBDA b : f.succ[b] = <<>>)

BackOrder(f) ==
    Reverse(FoldLeft(LAMBDA a, x : IF x \in a.seen THEN a ELSE VisitBack(f, x, a),
                     [seen |-> {}, post |-> <<>>], Exits(f)).post)

RECURSIVE IntersectForest(_, _, _, _)
IntersectForest(ipdom, rank, a, b) ==
    IF a = b THEN a
    ELSE IF a = 0 \/ b = 0 THEN 0
    ELSE IF rank[a] > rank[b] THEN IntersectForest(ipdom, rank, ipdom[a], b)
    ELSE IntersectForest(ipdom, rank, a, ipdom[b])

\* Mutant: only the first successor that reaches an exit is consulted.
MeetSuccs_First(f, order, rank, ipdom, b) ==
    LET live == SelectSeq(f.succ[b], LAMBDA t : t \in ToSet(order))
    IN  IF live = <<>> THEN 0 ELSE Head(live)

\* The meet over the successors that reach an exit; a successor not visited
\* yet still has parent 0 and so pulls the meet to the root.
MeetSuccs(f, order, rank, ipdom, b) ==
    LET live == SelectSeq(f.succ[b], LAMBDA t : t \in ToSet(order))
    IN  IF live = <<>> THEN 0
        ELSE FoldLeft(LAMBDA m, t : IF m = 0 THEN 0 ELSE IntersectForest(ipdom, rank, m, t),
                      Head(live), Tail(live))

PdomRound(f, order, rank, ipdom) ==
    FoldLeft(LAMBDA d, b : IF f.succ[b] = <<>> THEN d
                           ELSE [d EXCEPT ![b] = MeetSuccs(f, order, rank, d, b)],
             ipdom, order)

RECURSIVE PdomFixpoint(_, _, _, _)
PdomFixpoint(f, order, rank, ipdom) ==
    LET next == PdomRound(f, order, rank, ipdom)
    IN  IF next = ipdom THEN ipdom ELSE PdomFixpoint(f, order, rank, next)

Ipdom(f) ==
    LET order == BackOrder(f)
    IN  PdomFixpoint(f, order, RankIn(f, order), [b \in CFGBlocks(f) |-> 0])

RECURSIVE postDominates(_, _, _)
postDominates(ipdom, a, b) ==
    IF a = b THEN TRUE
    ELSE IF ipdom[b] = 0 THEN FALSE ELSE postDominates(ipdom, a, ipdom[b])

-----------------------------------------------------------------------------
(* Loops.                                                                  *)

BackEdges(f, idom) ==
    {<<a, b>> \in CFGBlocks(f) \X CFGBlocks(f) :
        idom[a] # 0 /\ b \in SuccSet(f, a) /\ dominates(idom, b, a)}

RECURSIVE LoopBody(_, _, _)
LoopBody(f, body, work) ==
    IF work = {} THEN body
    ELSE LET fresh == UNION {PredSet(f, b) : b \in work} \ body
         IN  LoopBody(f, body \cup fresh, fresh)

naturalLoop(f, h, latches) == LoopBody(f, {h} \cup latches, latches \ {h})

\* header -> [blocks, latches]; latches keep their order, a duplicate back
\* edge twice.
naturalLoops(f, idom) ==
    LET order == reversePostOrder(f)
        back == BackEdges(f, idom)
        times(from, h) == Cardinality({i \in DOMAIN f.succ[from] : f.succ[from][i] = h})
    IN  [h \in {e[2] : e \in back} |->
            [blocks  |-> naturalLoop(f, h, {e[1] : e \in {x \in back : x[2] = h}}),
             latches |-> FlattenSeq(MapSeq(order, LAMBDA from :
                            IF <<from, h>> \in back THEN [i \in 1..times(from, h) |-> from] ELSE <<>>))]]

-----------------------------------------------------------------------------
(* Strongly connected components: Tarjan, indices from 1, 0 unvisited.     *)

PopThrough(st, b) ==
    LET at == CHOOSE i \in 1..Len(st.stack) : st.stack[i] = b
    IN  [st EXCEPT !.comps = Append(@, ToSet(SubSeq(st.stack, at, Len(st.stack)))),
                   !.stack = SubSeq(@, 1, at - 1)]

RECURSIVE StrongConnect(_, _, _)
StrongConnect(f, b, st) ==
    LET opened == [st EXCEPT !.index[b] = st.next, !.low[b] = st.next,
                             !.next = @ + 1, !.stack = Append(@, b)]
        scan(a, t) ==
            IF a.index[t] = 0
            THEN LET deep == StrongConnect(f, t, a)
                 IN  [deep EXCEPT !.low[b] = IF deep.low[t] < @ THEN deep.low[t] ELSE @]
            ELSE IF t \in ToSet(a.stack)
            THEN [a EXCEPT !.low[b] = IF a.index[t] < @ THEN a.index[t] ELSE @]
            ELSE a
        done == FoldLeft(scan, opened, f.succ[b])
    IN  IF done.low[b] = done.index[b] THEN PopThrough(done, b) ELSE done

Sccs(f) ==
    LET zero == [b \in CFGBlocks(f) |-> 0]
    IN  StrongConnect(f, 1, [index |-> zero, low |-> zero, next |-> 1,
                             stack |-> <<>>, comps |-> <<>>]).comps

Cyclic(f, comp) == \/ Cardinality(comp) > 1
                   \/ \E b \in comp : b \in SuccSet(f, b)

\* Every cyclic component has one block receiving all entries from outside.
isReducible(f) ==
    LET comps == ToSet(Sccs(f))
        known == UNION comps
    IN  \A c \in {x \in comps : Cyclic(f, x)} :
            Cardinality({m \in c : PredSet(f, m) \cap (known \ c) # {}}) <= 1

-----------------------------------------------------------------------------
(* The path definitions the analyses are compared with.                    *)

RECURSIVE Closure(_, _, _, _)
Closure(f, avoid, seen, work) ==
    IF work = {} THEN seen
    ELSE LET fresh == UNION {SuccSet(f, b) : b \in work} \ (seen \cup {avoid})
         IN  Closure(f, avoid, seen \cup fresh, fresh)

ReachAvoiding(f, from, avoid) ==
    IF from = avoid THEN {} ELSE Closure(f, avoid, {from}, {from})
Reachable(f) == ReachAvoiding(f, 1, 0)

PathDominates(f, a, b) == b \in Reachable(f) /\ b \notin ReachAvoiding(f, 1, a)
ReachesExit(f, b, avoid) == \E x \in ReachAvoiding(f, b, avoid) : f.succ[x] = <<>>
PathPostDominates(f, a, b) == a = b \/ (ReachesExit(f, b, 0) /\ ~ReachesExit(f, b, a))
ReachesCycle(f, b) ==
    \E x \in ReachAvoiding(f, b, 0) : \E y \in SuccSet(f, x) : x \in ReachAvoiding(f, y, 0)

-----------------------------------------------------------------------------
(* Shapes the structurizer asks for.                                       *)

PrivateTo(f, b, owner) == Preds(f, b) = <<owner>>

\* The most voted merge among the private single-successor handlers, the
\* smallest block on a tie (std::map order, first maximum).
MostVoted(votes) ==
    IF votes = <<>> THEN 0
    ELSE LET n(m) == Len(SelectSeq(votes, LAMBDA v : v = m))
         IN  CHOOSE m \in ToSet(votes) :
                \A o \in ToSet(votes) : n(o) < n(m) \/ (n(o) = n(m) /\ m <= o)

\* 4/5 of the targets must agree on the merge, which must fall through to a
\* hub of its own.  NoShape when they do not.
NoShape == [merge |-> 0, hub |-> 0]
ShapeFromVotes(f, votes, targetCount, sites) ==
    LET merge == MostVoted(votes)
        count == Len(SelectSeq(votes, LAMBDA v : v = merge))
    IN  IF \/ targetCount < 3 \/ merge = 0 \/ 5 * count < 4 * targetCount
           \/ merge \in sites \/ Len(f.succ[merge]) # 1
           \/ f.succ[merge][1] \in sites \cup {merge}
        THEN NoShape ELSE [merge |-> merge, hub |-> f.succ[merge][1]]

VotesOf(f, targets, private(_)) ==
    LET voters == SelectSeq(targets, LAMBDA h : private(h) /\ Len(f.succ[h]) = 1)
    IN  MapSeq(voters, LAMBDA h : f.succ[h][1])

matchDispatcherShape(f, dispatch, targets) ==
    ShapeFromVotes(f, VotesOf(f, targets, LAMBDA h : PrivateTo(f, h, dispatch)),
                   Len(targets), {dispatch})

\* Two guards failing into one private fallback that rejoins the merge.
GuardCascades(f, ipdom, head) ==
    LET merge == ipdom[head]
    IN  IF f.kind[head] # "cond" \/ f.succ[head][1] = f.succ[head][2] \/ merge \in {0, head}
        THEN <<>>
        ELSE SelectSeq(
                <<[inner |-> f.succ[head][1], fallback |-> f.succ[head][2], merge |-> merge],
                  [inner |-> f.succ[head][2], fallback |-> f.succ[head][1], merge |-> merge]>>,
                LAMBDA g : /\ {g.inner, g.fallback} \cap {head, merge} = {}
                           /\ PrivateTo(f, g.inner, head)
                           /\ f.kind[g.inner] = "cond"
                           /\ SuccSet(f, g.inner) = {merge, g.fallback}
                           /\ Len(Preds(f, g.fallback)) = 2
                           /\ PredSet(f, g.fallback) = {head, g.inner}
                           /\ f.succ[g.fallback] = <<merge>>)

\* One region per jump table: f.table[b] # 0 names the table a resolved
\* computed branch reads.
RegionSites(f, table) == {b \in CFGBlocks(f) : f.table[b] = table /\ f.succ[b] # <<>>}
RegionTargets(f, table) ==
    FlattenSeq([b \in CFGBlocks(f) |-> IF b \in RegionSites(f, table) THEN f.succ[b] ELSE <<>>])

matchRegionSharedTail(f, table) ==
    LET sites == RegionSites(f, table)
        targets == RegionTargets(f, table)
    IN  ShapeFromVotes(f, VotesOf(f, targets, LAMBDA h : /\ Len(Preds(f, h)) = 1
                                                         /\ PredSet(f, h) \subseteq sites),
                       Len(targets), sites)

\* Private tails of a region's sites, and the hubs only such tails enter.
PrivateTails(f, table) ==
    {h \in ToSet(RegionTargets(f, table)) :
        /\ Len(Preds(f, h)) = 1
        /\ PredSet(f, h) \subseteq RegionSites(f, table)
        /\ Len(f.succ[h]) = 1
        /\ f.succ[h][1] \notin RegionSites(f, table) \cup {h}}
JoinHubs(f, table) ==
    {hub \in CFGBlocks(f) :
        LET tails == {h \in PrivateTails(f, table) : f.succ[h][1] = hub}
        IN  Cardinality(tails) >= 2 /\ PredSet(f, hub) = tails}
JoinHubByTail(f, tail) ==
    LET hubs == {hub \in CFGBlocks(f) :
                    \E t \in {f.table[b] : b \in CFGBlocks(f)} \ {0} :
                        hub \in JoinHubs(f, t) /\ tail \in PrivateTails(f, t)
                        /\ f.succ[tail] = <<hub>>}
    IN  IF hubs = {} THEN 0 ELSE CHOOSE h \in hubs : TRUE

confirmDispatcherShapeFromRegion(f, dispatch, targets) ==
    LET tail == IF f.table[dispatch] = 0 THEN NoShape
                ELSE matchRegionSharedTail(f, f.table[dispatch])
    IN  IF /\ tail.merge # 0 /\ targets # <<>>
           /\ \A h \in ToSet(targets) : /\ h # tail.merge
                                         /\ PrivateTo(f, h, dispatch)
                                         /\ f.succ[h] = <<tail.merge>>
        THEN tail ELSE NoShape
=============================================================================
