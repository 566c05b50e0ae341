---------------------------- MODULE Structurizer ----------------------------
(***************************************************************************)
(* The structurizer: the region walk that turns a control-flow graph into  *)
(* a statement tree (emitRegion and the patterns it tries), the sweeps     *)
(* that visit what the entry walk left, the remnant folds, and the layout  *)
(* rewrites of StmtTree.  Every speculative pattern claims blocks on a     *)
(* trail and gives them back when it fails.                                *)
(*                                                                         *)
(* Once the tree is laid out the module runs it beside the graph: `pc` is  *)
(* the block the graph executes, `text` where the printed program stands.  *)
(* The run does not perform phi copies; a condition is named by its block. *)
(***************************************************************************)
EXTENDS StmtTree

CONSTANTS
    Functions_,        \* the functions to structure, each with its limits:
                       \*   maxDepth  kMaxDepth, nesting patterns open at (32)
                       \*   budget    kBudgetPerBlock, speculative work (200)
                       \*   shared    kMaxSharedBodySize, blocks of a cloned body (24)
                       \*   defer     deferRegionCollapse
    Emit(_, _),        \* emitTopLevelRegion below
    Fold(_, _),        \* foldRemnants below
    Lay(_, _),         \* layoutRoot below
    minRegionSites,    \* region size that defers the two-way collapse (8)
    SpineValues        \* values a compared discriminant takes

VARIABLES
    s,        \* walk state, see Start
    groups,   \* finished top-level regions, [head, t]
    todo,     \* blocks the current sweep has still to visit
    phase,    \* "walk", "first", "second", "fold", "run"
    root,     \* the laid-out tree
    pc,       \* the block the graph is at, 0 once it has left
    text      \* where the printed program is, see Arrived

vars == <<s, groups, todo, phase, root, pc, text>>

-----------------------------------------------------------------------------
(* Walk state.  f: the function; an: its analyses; trail: blocks claimed   *)
(* so far in order; prog: inProgressHeaders_; end: regionEnd_; one:        *)
(* oneSidedEnabled_; cache: sharedCaseBodyCache_ with the trail length     *)
(* each entry was made at.                                                 *)

Analyse(f) ==
    LET idom == Idom(f)
    IN  [rpo |-> reversePostOrder(f), idom |-> idom, ipdom |-> Ipdom(f),
         loops |-> naturalLoops(f, idom)]

Start(f) == [f |-> f, an |-> Analyse(f), trail |-> <<>>, prog |-> {}, end |-> 0, one |-> FALSE,
             cache |-> {}, budget |-> f.budget * Len(f.succ)]

Made(st, t) == [s |-> st, t |-> t]
Failed(st) == Made(st, Nil)

emitted(st) == ToSet(st.trail)
mark(st, b) == [st EXCEPT !.trail = Append(@, b)]
Opening(st, h) == [st EXCEPT !.prog = @ \cup {h}]
Closing(st, h) == [st EXCEPT !.prog = @ \ {h}]

\* Mutant: the claims of a failed speculation stay.
rollback_KeepClaims(st, n) == st

\* Takes back every claim since the trail had length n, cached bodies too.
rollback(st, n) ==
    [st EXCEPT !.trail = SubSeq(@, 1, n), !.cache = {e \in @ : e.at < n}]

\* A failed speculation also pays for the blocks it walked.
Discard(st, n) ==
    LET cost == Len(st.trail) - n
    IN  rollback([st EXCEPT !.budget = IF cost > @ THEN 0 ELSE @ - cost], n)
Abandon(st, n, h) == Failed(Closing(Discard(st, n), h))

\* Every block claimed since n, but for the head, is entered only from the
\* head and the blocks claimed with it.
regionClosed(st, n, head) ==
    LET claimed == ToSet(SubSeq(st.trail, n + 1, Len(st.trail)))
    IN  \A b \in claimed \ {head} : PredSet(st.f, b) \subseteq claimed \cup {head}

IsHeader(st, b) == b \in DOMAIN st.an.loops
InLoop(st, h, b) == b \in st.an.loops[h].blocks
exits(st, b) == b # 0 /\ st.f.kind[b] = "ret"
holdsAPattern(st, b) == IsHeader(st, b) \/ st.f.kind[b] \in {"cond", "ind"}

gotoChain(st, b) ==
    IfOf(b, FALSE, GotoTo(st.f.succ[b][1]),
         IF st.f.succ[b][1] = st.f.succ[b][2] THEN Nil ELSE GotoTo(st.f.succ[b][2]))

wrapAsLoop(st, t, head) ==
    LET looped == continueAtBackEdges(t, head)
    IN  IF IsHeader(st, head) /\ looped # t THEN WhileOf(head, 0, FALSE, looped) ELSE t

\* First success of a list of attempts, each starting from the state the
\* failures before it left.
FirstOf(st, attempts, Try(_, _)) ==
    FoldLeft(LAMBDA acc, a : IF IsNil(acc.t) THEN Try(acc.s, a) ELSE acc, Failed(st), attempts)

-----------------------------------------------------------------------------
RECURSIVE emitRegion(_, _, _, _)
RECURSIVE Walk(_, _, _, _, _)

(* Diamonds: both arms end at the immediate post-dominator.                *)

\* Mutant: an arm that stopped short of the merge is kept.
tryDiamond_AnyEnd(st, head, d) ==
    LET merge == st.an.ipdom[head]
        open  == Opening(st, head)
        th    == emitRegion(open, st.f.succ[head][1], merge, d + 1)
        el    == emitRegion(th.s, st.f.succ[head][2], merge, d + 1)
    IN  IF st.budget = 0 \/ merge \in {0, head} \cup emitted(st) THEN Failed(st)
        ELSE Made([Closing(el.s, head) EXCEPT !.end = merge], IfOf(head, FALSE, th.t, el.t))

tryDiamond(st, head, d) ==
    LET merge == st.an.ipdom[head]
        n     == Len(st.trail)
        taken == st.f.succ[head][1]
        other == st.f.succ[head][2]
        open  == Opening(st, head)
        th    == IF taken = merge THEN Failed([open EXCEPT !.end = merge])
                 ELSE emitRegion(open, taken, merge, d + 1)
        el    == IF other = merge THEN Failed([th.s EXCEPT !.end = merge])
                 ELSE emitRegion(th.s, other, merge, d + 1)
    IN  IF st.budget = 0 \/ merge \in {0, head} \cup emitted(st) THEN Failed(st)
        ELSE IF th.s.end # merge THEN Abandon(th.s, n, head)
        ELSE IF el.s.end # merge \/ merge \in emitted(el.s) \/ ~regionClosed(el.s, n, head)
        THEN Abandon(el.s, n, head)
        ELSE Made([Closing(el.s, head) EXCEPT !.end = merge],
                  IF taken = merge THEN IfOf(head, TRUE, el.t, Nil)
                  ELSE IfOf(head, FALSE, th.t, el.t))

(* One-sided ifs: one arm, falling into the rest or leaving for good.      *)

OneSided(st, head, d, inv) ==
    LET body == st.f.succ[head][IF inv THEN 2 ELSE 1]
        rest == st.f.succ[head][IF inv THEN 1 ELSE 2]
        n    == Len(st.trail)
        arm  == emitRegion(Opening(st, head), body, rest, d + 1)
        deadEnds == Len(arm.s.trail) > n /\ Last(arm.s.trail) = arm.s.end
    IN  IF body \in {head, rest} \/ ~dominates(st.an.idom, head, body) THEN Failed(st)
        ELSE IF \/ arm.s.end # rest /\ ~deadEnds
                \/ ~st.one /\ ~(deadEnds /\ exits(st, arm.s.end))
                \/ ~regionClosed(arm.s, n, head)
        THEN Abandon(arm.s, n, head)
        ELSE Made([Closing(arm.s, head) EXCEPT !.end = rest], IfOf(head, inv, arm.t, Nil))

tryOneSided(st, head, d) ==
    IF st.budget = 0 THEN Failed(st)
    ELSE FirstOf(st, <<FALSE, TRUE>>,
                 LAMBDA x, inv : IF x.budget = 0 THEN Failed(x) ELSE OneSided(x, head, d, inv))

(* Guard cascades: the shared fallback is claimed once and printed twice.  *)

claimSharedFallbackBody(st, fallback, merge, d) ==
    LET n    == Len(st.trail)
        body == emitRegion(st, fallback, merge, d)
    IN  IF d >= st.f.maxDepth \/ st.budget = 0 \/ fallback \in {merge} \cup emitted(st) \cup st.prog
        THEN Failed(st)
        ELSE IF \/ Len(body.s.trail) = n \/ body.s.end # merge
                \/ ~regionClosed(body.s, n, fallback)
        THEN Failed(Discard(body.s, n))
        ELSE body

tryGuardCascade(st, head, d) ==
    LET shapes == GuardCascades(st.f, st.an.ipdom, head)
        g      == shapes[1]
        n      == Len(st.trail)
        once   == claimSharedFallbackBody(Opening(st, head), g.fallback, g.merge, d + 1)
        after  == mark(once.s, g.inner)
        inner  == SeqStmt(<<BlockOf(g.inner),
                            IfOf(g.inner, st.f.succ[g.inner][1] # g.merge, Nil, once.t)>>)
    IN  IF \/ st.budget = 0 \/ shapes = <<>>
           \/ {g.merge, g.fallback, g.inner} \cap emitted(st) # {} \/ g.inner \in st.prog
        THEN Failed(st)
        ELSE IF IsNil(once.t) THEN Abandon(once.s, n, head)
        ELSE IF ~regionClosed(after, n, head) THEN Abandon(after, n, head)
        ELSE Made([Closing(after, head) EXCEPT !.end = g.merge],
                  IfOf(head, st.f.succ[head][1] # g.inner, inner, once.t))

-----------------------------------------------------------------------------
(* Loops.  A form that fails after walking rolls back without paying.      *)

\* while: a bare conditional header with one arm inside.
WhileForm(st, h, d) ==
    LET arms == SelectSeq(<<1, 2>>, LAMBDA a : /\ InLoop(st, h, st.f.succ[h][a])
                                               /\ ~InLoop(st, h, st.f.succ[h][3 - a]))
        arm  == arms[1]
        exit == st.f.succ[h][3 - arm]
        n    == Len(st.trail)
        body == emitRegion(st, st.f.succ[h][arm], h, d + 1)
    IN  IF st.f.kind[h] # "cond" \/ st.f.ops[h] \/ arms = <<>> THEN Failed(st)
        ELSE IF body.s.end # h \/ ~regionClosed(body.s, n, h) THEN Failed(rollback(body.s, n))
        ELSE Made([mark(body.s, h) EXCEPT !.end = exit],
                  WhileOf(h, h, arm = 2, rewriteLoopExitToBreak(body.t, exit)))

\* while (true) around a block that only jumps to itself.
InfiniteForm(st, h) ==
    IF st.an.loops[h].blocks = {h} /\ st.f.kind[h] = "br" /\ st.f.succ[h][1] = h
    THEN Made([mark(st, h) EXCEPT !.end = 0], WhileOf(h, 0, FALSE, SeqStmt(<<BlockOf(h)>>)))
    ELSE Failed(st)

BackArm(st, l, h) == IF st.f.succ[l][1] = h THEN 1 ELSE 2
\* A latch whose conditional returns to the header and otherwise leaves.
LeavingLatch(st, h, l) == /\ st.f.kind[l] = "cond"
                      /\ h \in SuccSet(st.f, l)
                      /\ ~InLoop(st, h, st.f.succ[l][3 - BackArm(st, l, h)])

DoWhileForm(st, h, d) ==
    LET ls   == SelectSeq(st.an.loops[h].latches, LAMBDA x : LeavingLatch(st, h, x))
        l    == ls[1]
        exit == st.f.succ[l][3 - BackArm(st, l, h)]
        n    == Len(st.trail)
        body == emitRegion(st, h, l, d + 1)
    IN  IF ls = <<>> THEN Failed(st)
        ELSE IF body.s.end # l \/ l \in emitted(body.s) \/ ~regionClosed(body.s, n, h)
        THEN Failed(rollback(body.s, n))
        ELSE Made([mark(body.s, l) EXCEPT !.end = exit],
                  DoWhileOf(h, l, BackArm(st, l, h) = 2,
                      rewriteLoopExitToBreak(SeqStmt(Append(body.t.items, BlockOf(l))), exit)))

\* A header that may leave before the body runs, to where the latch leaves to.
GuardedForm(st, h, d, arm, l) ==
    LET inside == st.f.succ[h][arm]
        exit   == st.f.succ[h][3 - arm]
        n      == Len(st.trail)
        body   == IF inside = l THEN Made(st, SeqStmt(<<>>)) ELSE emitRegion(st, inside, l, d + 1)
        guard  == IfOf(h, arm = 1, GotoTo(exit), Nil)
    IN  IF \/ inside = h \/ ~InLoop(st, h, inside) \/ InLoop(st, h, exit) \/ l = h
           \/ ~LeavingLatch(st, h, l) \/ st.f.succ[l][3 - BackArm(st, l, h)] # exit
        THEN Failed(st)
        ELSE IF \/ inside # l /\ (body.s.end # l \/ ~regionClosed(body.s, n, h))
                \/ l \in emitted(body.s)
        THEN Failed(rollback(body.s, n))
        ELSE Made([mark(mark(body.s, h), l) EXCEPT !.end = exit],
                  DoWhileOf(h, l, BackArm(st, l, h) = 2,
                      rewriteLoopExitToBreak(
                          SeqStmt(<<BlockOf(h), guard>> \o body.t.items \o <<BlockOf(l)>>), exit)))

-----------------------------------------------------------------------------
(* Claiming a dispatch target's code into its case or arm.                 *)

MayClaim(st, dispatcher, handler, d) ==
    /\ d < st.f.maxDepth /\ st.budget # 0 /\ handler # dispatcher
    /\ handler \notin emitted(st) \cup st.prog

\* A private handler that leaves on its own.
claimCaseBody(st, dispatcher, handler, d) ==
    LET n    == Len(st.trail)
        body == emitRegion(Opening(st, dispatcher), handler, 0, d + 1)
    IN  IF ~MayClaim(st, dispatcher, handler, d) \/ ~PrivateTo(st.f, handler, dispatcher)
        THEN Failed(st)
        ELSE IF \/ Len(body.s.trail) = n \/ ~regionClosed(body.s, n, dispatcher)
                \/ ~alwaysLeaves(st.f, body.t)
        THEN Abandon(body.s, n, dispatcher)
        ELSE Made(Closing(body.s, dispatcher), body.t)

\* A private handler that ends at the shared tail printed after the switch.
claimDispatcherCaseBody(st, dispatcher, handler, merge, d, appendBreak) ==
    LET n    == Len(st.trail)
        body == emitRegion(Opening(st, dispatcher), handler, merge, d + 1)
    IN  IF \/ ~MayClaim(st, dispatcher, handler, d) \/ handler = merge
           \/ ~PrivateTo(st.f, handler, dispatcher)
        THEN Failed(st)
        ELSE IF \/ Len(body.s.trail) = n \/ body.s.end # merge
                \/ ~regionClosed(body.s, n, dispatcher)
        THEN Abandon(body.s, n, dispatcher)
        ELSE Made(Closing(body.s, dispatcher),
                  IF appendBreak THEN SeqStmt(Append(body.t.items, BreakTo(0))) ELSE body.t)

\* Depth first from the end of queue, as long as few enough blocks were visited.
RECURSIVE reachesFurtherDispatch(_, _, _, _)
reachesFurtherDispatch(f, queue, visited, budget) ==
    LET b   == Last(queue)
        new == FoldLeft(LAMBDA acc, x : IF x \in visited \cup ToSet(acc) THEN acc ELSE Append(acc, x),
                        <<>>, f.succ[b])
    IN  /\ queue # <<>> /\ Cardinality(visited) <= budget
        /\ \/ f.kind[b] = "ind"
           \/ reachesFurtherDispatch(f, Front(queue) \o new, visited \cup ToSet(new), budget)

\* A handler that only resolved two-way table dispatches reach: claimed once,
\* cloned for each of them.  It stays small, and neither the graph near it nor
\* the body may dispatch again.
claimOrCloneSharedCaseBody(st, dispatcher, handler, d) ==
    LET cached == {e \in st.cache : e.h = handler}
        n      == Len(st.trail)
        twoWay(p) == /\ st.f.kind[p] = "ind" /\ Len(st.f.succ[p]) = 2
                     /\ st.f.table[p] # 0 /\ st.f.vals[p]
        body   == emitRegion(Opening(st, dispatcher), handler, 0, d + 1)
        kept   == Closing(body.s, dispatcher)
    IN  IF cached # {} THEN Made(st, (CHOOSE e \in cached : TRUE).body)
        ELSE IF \/ ~MayClaim(st, dispatcher, handler, d)
                \/ Len(Preds(st.f, handler)) < 2
                \/ \E p \in PredSet(st.f, handler) : ~twoWay(p)
                \/ reachesFurtherDispatch(st.f, <<handler>>, {handler}, st.f.shared)
        THEN Failed(st)
        ELSE IF \/ Len(body.s.trail) = n \/ ~regionClosed(body.s, n, handler)
                \/ ~alwaysLeaves(st.f, body.t) \/ Len(body.s.trail) - n > st.f.shared
                \/ containsSwitch(body.t)
        THEN Abandon(body.s, n, dispatcher)
        ELSE Made([kept EXCEPT !.cache = @ \cup {[h |-> handler, at |-> n, body |-> body.t]}],
                  body.t)

\* The claims in the order a site tries them; Nil leaves a goto.
ClaimTarget(st, b, target, merge, d, appendBreak) ==
    FirstOf(st, <<"tail", "own", "shared">>,
        LAMBDA x, how :
            CASE how = "tail"   -> IF merge = 0 THEN Failed(x)
                                   ELSE claimDispatcherCaseBody(x, b, target, merge, d, appendBreak)
              [] how = "own"    -> claimCaseBody(x, b, target, d)
              [] how = "shared" -> claimOrCloneSharedCaseBody(x, b, target, d))

\* The first target that is a pooled private tail whose hub is still free.
FreeHub(st, targets) ==
    LET hubs == SelectSeq(MapSeq(targets, LAMBDA t : JoinHubByTail(st.f, t)),
                          LAMBDA h : h # 0 /\ h \notin emitted(st) \cup st.prog)
    IN  IF hubs = <<>> THEN 0 ELSE hubs[1]

-----------------------------------------------------------------------------
(* Computed branches.                                                      *)

deferCollapse(st, b) ==
    \/ st.f.defer
    \/ /\ st.f.table[b] # 0
       /\ Cardinality(RegionSites(st.f, st.f.table[b])) >= minRegionSites
       /\ matchRegionSharedTail(st.f, st.f.table[b]).merge # 0

\* A resolved two-way table dispatch whose index names its condition.
TwoWayIf(st, b, d) ==
    LET one   == st.f.succ[b][st.f.first[b]]
        two   == st.f.succ[b][3 - st.f.first[b]]
        merge == FreeHub(st, <<one, two>>)
        epi   == IF merge = 0 THEN Failed(st) ELSE emitRegion(st, merge, 0, d + 1)
        tail(x, t) == IF merge = 0 THEN Failed(x)
                      ELSE claimDispatcherCaseBody(x, b, t, merge, d, FALSE)
        own(x, t)  == LET c == claimCaseBody(x, b, t, d)
                      IN  IF IsNil(c.t) THEN claimOrCloneSharedCaseBody(c.s, b, t, d) ELSE c
        th1 == tail(epi.s, one)
        el1 == tail(th1.s, two)
        th2 == IF IsNil(th1.t) THEN own(el1.s, one) ELSE Made(el1.s, th1.t)
        el2 == IF IsNil(el1.t) THEN own(th2.s, two) ELSE Made(th2.s, el1.t)
        arm(t, target) == IF IsNil(t) THEN GotoTo(target) ELSE t
    IN  Made(el2.s, [IfOf(b, FALSE, arm(th2.t, one), arm(el2.t, two))
                        EXCEPT !.epi = epi.t, !.merge = merge])

\* Nested switches on the identical discriminant are spliced into one.
RECURSIVE collapseRegionDispatchTree(_, _, _)
collapseRegionDispatchTree(st, t, i) ==
    LET body  == t.bodies[i]
        inner == body.items[2]
        splice(outer, new) == SubSeq(outer, 1, i - 1) \o new \o SubSeq(outer, i + 1, Len(outer))
    IN  IF i > Len(t.bodies) THEN t
        ELSE IF /\ body.k = "seq" /\ Len(body.items) = 2
                /\ body.items[1].k = "block" /\ inner.k = "switch"
                /\ inner.table /\ st.f.index[inner.b] = st.f.index[t.b]
                /\ (t.values = <<>>) = (inner.values = <<>>)
                /\ IsNil(inner.epi)
                /\ st.f.table[body.items[1].b] = st.f.table[t.b]
        THEN collapseRegionDispatchTree(st, 
                [t EXCEPT !.cases = splice(@, inner.cases), !.bodies = splice(@, inner.bodies),
                          !.values = IF @ = <<>> THEN @ ELSE splice(@, inner.values)], i)
        ELSE collapseRegionDispatchTree(st, t, i + 1)

SwitchOf(b, cases, bodies) ==
    [k |-> "switch", b |-> b, cases |-> cases, bodies |-> bodies, values |-> <<>>,
     dflt |-> 0, dbody |-> Nil, epi |-> Nil, merge |-> 0, table |-> FALSE, addr |-> FALSE,
     tree |-> FALSE]

switchFor(st, b, d) ==
    LET targets == st.f.succ[b]
        ordinal == [i \in DOMAIN targets |-> i]
        shape   == matchDispatcherShape(st.f, b, targets)
        merge   == IF shape.merge = 0 THEN FreeHub(st, targets)
                   ELSE IF shape.merge \in emitted(st) \cup st.prog THEN 0 ELSE shape.merge
        epi     == IF merge = 0 THEN Failed(st) ELSE emitRegion(st, merge, 0, d + 1)
        claimed == FoldLeft(LAMBDA acc, t : LET c == ClaimTarget(acc.s, b, t, merge, d, TRUE)
                                            IN  [s |-> c.s, bodies |-> Append(acc.bodies, c.t)],
                            [s |-> epi.s, bodies |-> <<>>], targets)
        plain   == [SwitchOf(b, targets, claimed.bodies) EXCEPT !.epi = epi.t, !.merge = merge]
    IN  IF Len(targets) = 2 /\ st.f.table[b] # 0 /\ st.f.cond[b] /\ ~deferCollapse(st, b)
        THEN TwoWayIf(st, b, d)
        ELSE IF Len(targets) >= 2 /\ st.f.table[b] # 0
        THEN Made(claimed.s, collapseRegionDispatchTree(st, 
                    [plain EXCEPT !.table = TRUE, !.values = IF st.f.vals[b] THEN ordinal ELSE <<>>], 1))
        ELSE IF Len(targets) > 2 /\ ~st.f.dup
        THEN Made(claimed.s, [plain EXCEPT !.addr = TRUE, !.values = ordinal])
        ELSE Made(claimed.s, plain)

-----------------------------------------------------------------------------
(* Decision trees over one value.                                          *)

\* A bare compare of the discriminant with a constant: the arm taken and the
\* arm every other value goes to.
IsTest(st, b) == b # 0 /\ st.f.kind[b] = "cond" /\ ~st.f.ops[b] /\ st.f.test[b].k # "none"
Taken(st, b) == st.f.succ[b][IF st.f.test[b].k = "ne" THEN 2 ELSE 1]
NextOf(st, b) == st.f.succ[b][IF st.f.test[b].k = "ne" THEN 1 ELSE 2]

\* phis[b] is what the edge from each predecessor copies into b's phis, <<>> where
\* b has none.  A switch has one default edge for all that fall through to it.
edgesAgree(f, target, preds) ==
    \/ f.phis[target] = <<>>
    \/ /\ preds \subseteq DOMAIN f.phis[target]
       /\ \A p, q \in preds : f.phis[target][p] = f.phis[target][q]

NoTree == [ok |-> FALSE]
RECURSIVE collectTree(_, _, _, _)
collectTree(st, head, pending, tree) ==
    LET block  == Last(pending).b
        parent == Last(pending).from
        rest   == Front(pending)
        joins  == /\ IsTest(st, block)
                  /\ \/ block = head
                     \/ /\ block \notin emitted(st) \cup st.prog
                        /\ PrivateTo(st.f, block, parent)
                        /\ st.f.phis[block] = <<>>   \* allowPhis is for the root
        absorb == [tree EXCEPT !.absorbed = Append(@, block)]
        step(to) == [b |-> to, from |-> block]
    IN  IF pending = <<>>
        THEN IF \/ tree.dflt = 0 \/ (tree.dflt # head /\ tree.dflt \in ToSet(tree.absorbed))
                \/ ~edgesAgree(st.f, tree.dflt, ToSet(tree.dpreds))
             THEN NoTree ELSE tree
        ELSE IF ~joins
        THEN IF tree.dflt \notin {0, block} THEN NoTree
             ELSE collectTree(st, head, rest, [tree EXCEPT !.dflt = block,
                                                           !.dpreds = Append(@, parent)])
        ELSE IF st.f.test[block].k = "lt"
        THEN collectTree(st, head, rest \o <<step(Taken(st, block)), step(NextOf(st, block))>>, absorb)
        ELSE IF \E c \in ToSet(tree.cases) : c.v = st.f.test[block].v THEN NoTree
        ELSE collectTree(st, head, Append(rest, step(NextOf(st, block))),
                [absorb EXCEPT !.cases = Append(@, [v |-> st.f.test[block].v,
                                                    to |-> Taken(st, block), from |-> block])])

tryDispatchTree(st, head, d) ==
    LET tree  == IF IsTest(st, head)
                 THEN collectTree(st, head, <<[b |-> head, from |-> 0]>>,
                        [ok |-> TRUE, cases |-> <<>>, dflt |-> 0, dpreds |-> <<>>, absorbed |-> <<>>])
                 ELSE NoTree
        cases == SortSeq(tree.cases, LAMBDA x, y : x.v < y.v)
        taken == [st EXCEPT !.trail = @ \o tree.absorbed]
        claimed == FoldLeft(LAMBDA acc, c : LET r == claimCaseBody(acc.s, c.from, c.to, d)
                                            IN  [s |-> r.s, bodies |-> Append(acc.bodies, r.t)],
                            [s |-> taken, bodies |-> <<>>], cases)
        dbody == claimCaseBody(claimed.s, tree.dpreds[1], tree.dflt, d)
    IN  IF ~tree.ok \/ Len(tree.cases) < 3 THEN Failed(st)
        ELSE Made(dbody.s,
                wrapAsLoop(st, [SwitchOf(head, MapSeq(cases, LAMBDA c : c.to), claimed.bodies)
                               EXCEPT !.values = MapSeq(cases, LAMBDA c : c.v),
                                      !.dflt = tree.dflt, !.dbody = dbody.t, !.tree = TRUE],
                           head))

-----------------------------------------------------------------------------
\* A header testing whether to leave or dispatch, whose handlers share a tail
\* that jumps back to it.  When the leaving arm rejoins that tail too, the
\* tail runs once after both.
DispatcherLoop(st, h, d, arm) ==
    LET dispatch == st.f.succ[h][arm]
        exit  == st.f.succ[h][3 - arm]
        own   == matchDispatcherShape(st.f, dispatch, st.f.succ[dispatch])
        shape == IF own.merge # 0 THEN own
                 ELSE confirmDispatcherShapeFromRegion(st.f, dispatch, st.f.succ[dispatch])
        n     == Len(st.trail)
        three == InLoop(st, h, exit)
        out   == IF three
                 THEN claimDispatcherCaseBody(mark(st, h), h, exit, shape.merge, d + 1, FALSE)
                 ELSE Made(mark(st, h), GotoTo(exit))
        sw    == switchFor(mark(out.s, dispatch), dispatch, d + 1)
        tail  == sw.t.epi
        back  == tail.k = "seq" /\ tail.items # <<>> /\ Last(tail.items) = GotoTo(h)
        epi   == IF back THEN SeqStmt(Front(tail.items)) ELSE tail
        body  == IF three
                 THEN <<BlockOf(h),
                        IfOf(h, arm = 1, out.t,
                             SeqStmt(<<BlockOf(dispatch), [sw.t EXCEPT !.epi = Nil]>>))>>
                      \o (IF IsNil(epi) THEN <<>> ELSE <<epi>>)
                 ELSE <<BlockOf(h), IfOf(h, arm = 1, out.t, Nil),
                        BlockOf(dispatch), [sw.t EXCEPT !.epi = epi]>>
    IN  IF \/ dispatch = h \/ ~InLoop(st, h, dispatch) \/ dispatch \in emitted(st)
           \/ st.f.kind[dispatch] # "ind"
           \/ shape.hub # h \/ shape.merge \notin ToSet(st.an.loops[h].latches)
        THEN Failed(st)
        ELSE IF IsNil(out.t) THEN Failed(rollback(out.s, n))
        ELSE IF ~regionClosed(sw.s, n, h) THEN Failed(rollback(sw.s, n))
        ELSE Made([sw.s EXCEPT !.end = IF three THEN 0 ELSE exit],
                  WhileOf(h, 0, FALSE, SeqStmt(body)))

tryLoop(st, h, d) ==
    LET ls   == st.an.loops[h].latches
        forms == <<[f |-> "while"], [f |-> "forever"], [f |-> "do"]>>
                 \o (IF st.f.kind[h] # "cond" THEN <<>>
                     ELSE [i \in 1..(2 * Len(ls)) |->
                              [f |-> "guarded", arm |-> 1 + ((i - 1) \div Len(ls)),
                               l |-> ls[1 + ((i - 1) % Len(ls))]]]
                          \o <<[f |-> "dispatch", arm |-> 1], [f |-> "dispatch", arm |-> 2]>>)
        made == FirstOf(Opening(st, h), forms,
                    LAMBDA x, form :
                        CASE form.f = "while"    -> WhileForm(x, h, d)
                          [] form.f = "forever"  -> InfiniteForm(x, h)
                          [] form.f = "do"       -> DoWhileForm(x, h, d)
                          [] form.f = "guarded"  -> GuardedForm(x, h, d, form.arm, form.l)
                          [] form.f = "dispatch" -> DispatcherLoop(x, h, d, form.arm))
    IN  IF st.an.loops[h].blocks \cap emitted(st) # {} \/ st.f.kind[h] = "none" THEN Failed(st)
        ELSE Made(Closing(made.s, h), made.t)

-----------------------------------------------------------------------------
(* The walk itself.                                                        *)

\* The first pattern a two-way branch matches.  A compare tree prints its own
\* head and ends the region; the others print the head first and walk on.
CondPattern(st, cur, d) ==
    FirstOf(st, <<"diamond", "cascade", "tree", "onesided">>,
        LAMBDA x, how :
            CASE how = "diamond"  -> tryDiamond(x, cur, d)
              [] how = "cascade"  -> tryGuardCascade(x, cur, d)
              [] how = "tree"     -> tryDispatchTree(x, cur, d)
              [] how = "onesided" -> tryOneSided(x, cur, d))
IsTree(t) == \/ t.k = "switch" /\ t.tree
             \/ t.k = "while" /\ t.body.k = "switch" /\ t.body.tree

Walk(st, cur, stop, d, items) ==
    LET ends(x, all) == Made([x EXCEPT !.end = cur], SeqStmt(all))
        own   == Append(items, BlockOf(cur))
        loop  == IF d < st.f.maxDepth /\ cur \notin st.prog /\ IsHeader(st, cur)
                 THEN tryLoop(st, cur, d) ELSE Failed(st)
        now   == loop.s
        found == IF /\ d < st.f.maxDepth /\ st.f.succ[cur][1] # st.f.succ[cur][2]
                    /\ cur \notin now.prog
                 THEN CondPattern(now, cur, d) ELSE Failed(now)
        sw    == switchFor(mark(now, cur), cur, d)
    IN  IF cur = 0 \/ cur = stop THEN ends(st, items)
        ELSE IF cur \in emitted(st)
        THEN ends(st, IF items = <<>> THEN items ELSE Append(items, GotoTo(cur)))
        ELSE IF ~IsNil(loop.t) THEN Walk(now, now.end, stop, d, Append(items, loop.t))
        ELSE CASE st.f.kind[cur] \in {"none", "ret"} -> ends(mark(now, cur), own)
               [] st.f.kind[cur] = "br"   -> Walk(mark(now, cur), st.f.succ[cur][1], stop, d, own)
               [] st.f.kind[cur] = "ind"  -> ends(sw.s, Append(own, wrapAsLoop(st, sw.t, cur)))
               [] st.f.kind[cur] = "cond" ->
                     IF ~IsNil(found.t)
                     THEN IF IsTree(found.t) THEN ends(found.s, Append(items, found.t))
                          ELSE Walk(mark(found.s, cur), found.s.end, stop, d, Append(own, found.t))
                     ELSE IF ~st.one /\ items = <<>> THEN ends(found.s, items)
                     ELSE ends(mark(found.s, cur), Append(own, gotoChain(st, cur)))

emitRegion(st, cur, stop, d) == Walk(st, cur, stop, d, <<>>)

-----------------------------------------------------------------------------
(* Remnant folds.                                                          *)

\* Top-level regions that start with the block they are filed under.
OrphanOf(gs, b) ==
    SelectInSeq(gs, LAMBDA g : /\ g.head = b /\ b # 1 /\ g.t.items # <<>>
                               /\ g.t.items[1] = BlockOf(b))

\* Inlines the regions a group's bare cases and goto arms name, where nothing
\* else reaches them.  [t, used], used the groups inlined so far.
RECURSIVE expandGotoTargets(_, _, _, _, _, _)
expandGotoTargets(st, t, owner, gs, count, used) ==
    LET kids == Kids(t)
        slot(i) == CASE t.k = "switch" /\ IsNil(kids[i]) ->
                           IF i <= Len(t.cases) THEN t.cases[i]
                           ELSE IF i = Len(t.cases) + 1 THEN t.dflt ELSE 0
                     [] t.k = "if" /\ i < 3 /\ kids[i].k = "goto" -> kids[i].b
                     [] OTHER -> 0
        folds(i, u) == LET b == slot(i)
                           o == OrphanOf(gs, b)
                       IN  /\ b # 0 /\ o \notin {0, owner} \cup u
                           /\ count[b] = 1 /\ Len(Preds(st.f, b)) = 1
                           /\ alwaysLeaves(st.f, gs[o].t) /\ ~containsSwitch(gs[o].t)
        deeper(x, u) == expandGotoTargets(st, x, owner, gs, count, u)
        step(acc, i) ==
            LET o == OrphanOf(gs, slot(i))
                r == IF ~folds(i, acc.used) THEN deeper(kids[i], acc.used)
                     ELSE IF t.k = "switch" THEN [t |-> gs[o].t, used |-> acc.used \cup {o}]
                     ELSE deeper(gs[o].t, acc.used \cup {o})
            IN  [kids |-> Append(acc.kids, r.t), used |-> r.used]
        done == FoldLeft(step, [kids |-> <<>>, used |-> used], [i \in DOMAIN kids |-> i])
    IN  IF kids = <<>> THEN [t |-> t, used |-> used]
        ELSE [t |-> WithKids(t, done.kids), used |-> done.used]

Remaining(gs, used) ==
    LET keep == SelectSeq([i \in DOMAIN gs |-> i], LAMBDA i : i \notin used)
    IN  MapSeq(keep, LAMBDA i : gs[i])

expandUniqueCaseGotos(st, gs) ==
    LET whole == SeqStmt(MapSeq(gs, LAMBDA g : g.t))
        count == [b \in CFGBlocks(st.f) |-> countReferences(whole, b)]
        step(acc, i) ==
            IF i \in acc.used THEN acc
            ELSE LET r == expandGotoTargets(st, acc.gs[i].t, i, acc.gs, count, acc.used)
                 IN  [gs |-> [acc.gs EXCEPT ![i].t = r.t], used |-> r.used]
        done == FoldLeft(step, [gs |-> gs, used |-> {}], [i \in DOMAIN gs |-> i])
    IN  Remaining(done.gs, done.used)

\* A loop whose blocks lie in regions of their own becomes `while (true)`
\* around the header's tail and those regions.  One header: [gs, used].
CollapseLoop(st, gs, owner, used, h) ==
    LET at    == owner[h]
        items == gs[at].t.items
        split == SelectInSeq(items, LAMBDA x : x = BlockOf(h))
        tail  == SubSeq(items, split, Len(items))
        owners == {owner[b] : b \in st.an.loops[h].blocks \ {h}}
        parts == owners \ {at}
        rank  == RankIn(st.f, st.an.rpo)
        order == SetToSortSeq(parts, LAMBDA x, y : rank[gs[x].head] < rank[gs[y].head])
        body  == SeqStmt(tail \o FlattenSeq(MapSeq(order, LAMBDA i : gs[i].t.items)))
        loop  == WhileOf(h, 0, FALSE, continueAtBackEdges(body, h))
    IN  IF \/ at \in {0} \cup used \/ split = 0
           \/ \E x \in ToSet(tail) : containsLoopStmt(x)
           \/ owners \cap ({0} \cup used) # {}
           \/ \E o \in parts : \/ gs[o].head \notin st.an.loops[h].blocks
                               \/ containsLoopStmt(gs[o].t)
        THEN [gs |-> gs, used |-> used]
        ELSE [gs |-> [gs EXCEPT ![at].t = SeqStmt(Append(SubSeq(items, 1, split - 1), loop))],
              used |-> used \cup parts]

\* Which region prints each block: the first that does, 0 for none.
OwnerOf(st, gs) ==
    [b \in CFGBlocks(st.f) |-> SelectInSeq(gs, LAMBDA g : b \in ToSet(PrintedBlocks(g.t)))]

collapseLabeledNaturalLoops(st, gs) ==
    LET owner == OwnerOf(st, gs)
        done  == FoldLeft(LAMBDA acc, h : CollapseLoop(st, acc.gs, owner, acc.used, h),
                          [gs |-> gs, used |-> {}],
                          SetToSortSeq(DOMAIN st.an.loops, LAMBDA x, y : x < y))
    IN  Remaining(done.gs, done.used)

-----------------------------------------------------------------------------
\* Groups in reverse post-order of the block they start at.
Ordered(st, gs) ==
    LET rank == RankIn(st.f, st.an.rpo)
        at(r) == SelectSeq(gs, LAMBDA g : rank[g.head] = r)
    IN  FlattenSeq(<<>> \o [r \in 1..Len(st.an.rpo) |-> at(r)])

LaidOut(st, gs) ==
    LET sorted == Ordered(st, gs)
        items  == FlattenSeq(MapSeq(sorted, LAMBDA g : g.t.items))
    IN  elideFallthroughGotos(
            simplifyGuardedSpins(st.f,
                flattenEarlyExitGuards(st.f, restructureSkipGotos(SeqStmt(items)))), 0)

\* The value of Emit: the region walk from b at nesting depth 0.
emitTopLevelRegion(st, b) == LET r == emitRegion(st, b, 0, 0) IN r

\* The value of Fold.
foldRemnants(st, gs) ==
    LET gs2 == collapseLabeledNaturalLoops(st, expandUniqueCaseGotos(st, gs))
    IN  expandUniqueCaseGotos(st, gs2)

\* The value of Lay.
layoutRoot(st, gs) == LET t == LaidOut(st, gs) IN t

fn == s.f
an == s.an

Nowhere == Reached(0, "block", <<>>)

Init == /\ \E f \in Functions_ : s = Start(f)
        /\ groups = <<>> /\ todo = <<>> /\ phase = "walk"
        /\ root = Nil /\ pc = 0 /\ text = Nowhere

Region(b) == LET r == Emit(s, b)
             IN  /\ s' = r.s
                 /\ groups' = Append(groups, [head |-> b, t |-> r.t])

EntryWalk == /\ phase = "walk"
             /\ Region(1)
             /\ phase' = "first" /\ todo' = an.rpo
             /\ UNCHANGED <<root, pc, text>>

\* Blocks that hold no pattern are left for a branch above to absorb.
Wanted(b) == b \notin emitted(s) /\ (phase = "second" \/ holdsAPattern(s, b))

Visiting == /\ phase \in {"first", "second"} /\ todo # <<>>
            /\ todo' = Tail(todo)
            /\ IF Wanted(Head(todo)) THEN Region(Head(todo)) ELSE UNCHANGED <<s, groups>>
            /\ UNCHANGED <<phase, root, pc, text>>

SecondSweep == /\ phase = "first" /\ todo = <<>>
               /\ phase' = "second" /\ todo' = an.rpo
               /\ s' = [s EXCEPT !.one = TRUE]
               /\ UNCHANGED <<groups, root, pc, text>>

FoldRemnants == /\ phase = "second" /\ todo = <<>>
                /\ groups' = Fold(s, groups)
                /\ phase' = "fold"
                /\ UNCHANGED <<s, todo, root, pc, text>>

\* Where the program is once it reached its first block.
Started(t) == Execute(t, <<t>>, [b |-> 0, pick |-> 0, truth |-> FALSE])

Layout == /\ phase = "fold"
          /\ root' = Lay(s, groups)
          /\ phase' = "run" /\ pc' = 1
          /\ text' = Started(root')
          /\ UNCHANGED <<s, groups, todo>>

-----------------------------------------------------------------------------
(* Running the text beside the graph.                                      *)

AtTree == text.how = "test" /\ Head(text.todo).k = "switch" /\ Head(text.todo).tree

TestNext(b, v) == IF (IF fn.test[b].k = "lt" THEN v < fn.test[b].v ELSE v = fn.test[b].v)
                  THEN Taken(s, b) ELSE NextOf(s, b)
\* Where the graph's compares lead value v: to `to` if they pass it.
RECURSIVE SpineEnd(_, _, _, _)
SpineEnd(b, v, to, seen) ==
    IF ~IsTest(s, b) \/ b \in seen \/ (b = to /\ seen # {}) THEN b
    ELSE SpineEnd(TestNext(b, v), v, to, seen \cup {b})

Decide(pick, truth) == text' = Execute(root, text.todo, [b |-> pc, pick |-> pick, truth |-> truth])

RunStep == /\ phase = "run" /\ pc # 0 /\ fn.succ[pc] # <<>>
           /\ text.b = pc /\ text.how # "lost"
           /\ IF AtTree
              THEN \E v \in SpineValues : /\ Decide(v, FALSE)
                                          /\ pc' = SpineEnd(pc, v, text'.b, {})
              ELSE \E i \in DOMAIN fn.succ[pc] : /\ Decide(i, i = fn.first[pc])
                                                 /\ pc' = fn.succ[pc][i]
           /\ UNCHANGED <<s, groups, todo, phase, root>>

Next == \/ EntryWalk \/ Visiting \/ SecondSweep \/ FoldRemnants \/ Layout \/ RunStep

Spec == Init /\ [][Next]_vars

-----------------------------------------------------------------------------
\* The printed program goes where the graph goes, whatever every branch decides.
\* It starts at the entry, unless a branch back to the entry let another region
\* claim it; it runs a block's operations every time the graph enters the block,
\* except those of a computed branch that wrapAsLoop made the head of a loop; and
\* each goto finds its label, except one to a header whose bare test became a
\* while's.  RunsWhole is without the three exceptions, and the code fails it.
RunsAsFunction ==
    phase = "run" =>
        /\ text.b = pc \/ (Started(root).b # 1 /\ PredSet(fn, 1) # {})
        /\ text.how = "test" /\ fn.ops[pc] => fn.kind[pc] = "ind" /\ IsHeader(s, pc)
        /\ text.how = "lost" => fn.kind[pc] = "cond" /\ ~fn.ops[pc] /\ IsHeader(s, pc)

\* Wherever the graph enters a block the printed program does, and it finds the
\* block's operations there (structure.h: "never a guess").
RunsWhole ==
    phase = "run" => text.b = pc /\ text.how # "lost" /\ (text.how = "test" => ~fn.ops[pc])

\* Blocks a tree shows: the ones it prints, the headers its whiles test and
\* the heads its compare trees replace.
Shown(t) ==
    UNION {CASE n.k = "block" -> {n.b}
             [] n.k = "while" -> {n.c} \ {0}
             [] n.k = "switch" -> IF n.tree THEN {n.b} ELSE {}
             [] OTHER -> {} : n \in ToSet(Nodes(t))}
AllShown(gs) == UNION {Shown(gs[i].t) : i \in DOMAIN gs}
Absorbed == {b \in CFGBlocks(fn) : IsTest(s, b)}

Acyclic == \A c \in ToSet(Sccs(fn)) : ~Cyclic(fn, c)

\* In a function without loops every label a goto or a bare case names is
\* printed, and once.
LabelsOnce ==
    phase = "run" /\ Acyclic => \A b \in collectReferences(root) : Labels(root, b) = 1

\* A failed speculation leaves no trace: between walks the claimed blocks are
\* exactly those the finished regions show (a compare tree claims its inner
\* tests without showing them), and the folds and the layout lose none.
ClaimedIsShown ==
    /\ LabelsOnce
    /\ phase \in {"first", "second"} => /\ AllShown(groups) \subseteq emitted(s)
                                        /\ emitted(s) \subseteq AllShown(groups) \cup Absorbed
    /\ phase = "fold" => emitted(s) \subseteq AllShown(groups) \cup Absorbed
    /\ phase = "run"  => Reachable(fn) \subseteq Shown(root) \cup Absorbed

\* Just after the entry's walk; the analyses stay as they are from the start on.
Analysed == phase = "first" /\ todo = an.rpo

\* The immediate dominators are path dominance, for every pair of blocks.
IdomIsDominance ==
    Analysed =>
        \A a, b \in Reachable(fn) : dominates(an.idom, a, b) = PathDominates(fn, a, b)

\* The frontier is where dominance ends: the joins a block's reach stops at,
\* the entry apart.
FrontierIsEdge ==
    Analysed =>
        LET front == Frontier(fn, an.idom)
        IN  \A a \in Reachable(fn) :
                front[a] \ {1} = {j \in Reachable(fn) \ {1} :
                              /\ ~(PathDominates(fn, a, j) /\ a # j)
                              /\ \E p \in PredSet(fn, j) : PathDominates(fn, a, p)}

\* A claimed post-dominator is one: no path from b to an exit avoids it.  Where b
\* reaches no cycle the claim is also the nearest of them, and is made whenever
\* there is one.  On and above a cycle the meet takes a successor without a parent
\* yet for the root and may miss it, as at the header of every while loop, although
\* dominators.h states the equivalence for all blocks.
PostdomSound ==
    Analysed =>
        \A b \in CFGBlocks(fn) :
            LET after == {a \in CFGBlocks(fn) \ {b} : PathPostDominates(fn, a, b)}
            IN  IF ReachesCycle(fn, b) THEN an.ipdom[b] \in after \cup {0}
                ELSE IF after = {} THEN an.ipdom[b] = 0
                ELSE /\ an.ipdom[b] \in after
                     /\ \A a \in after : PathPostDominates(fn, a, an.ipdom[b])

\* A natural loop is the header and what reaches a latch without passing it;
\* only the header is entered from outside.
LoopsAreNatural ==
    Analysed =>
        \A h \in DOMAIN an.loops :
            /\ an.loops[h].blocks =
                   {h} \cup {b \in Reachable(fn) \ {h} :
                               \E l \in ToSet(an.loops[h].latches) : l \in ReachAvoiding(fn, b, h)}
            /\ \A b \in an.loops[h].blocks \ {h} : PredSet(fn, b) \subseteq an.loops[h].blocks

\* Tarjan's components are the classes of mutual reachability.
SccsAreMutual ==
    Analysed =>
        \A a, b \in Reachable(fn) :
            (\E c \in ToSet(Sccs(fn)) : {a, b} \subseteq c)
                <=> (b \in ReachAvoiding(fn, a, 0) /\ a \in ReachAvoiding(fn, b, 0))

\* A reducible verdict means every cyclic component has one way in.
ReducibleMeansDominated ==
    Analysed /\ isReducible(fn) =>
        \A c \in ToSet(Sccs(fn)) : Cyclic(fn, c) => \E h \in c : \A b \in c : dominates(an.idom, h, b)

\* The graph analyses the structurizer and the passes trust agree with their
\* definitions over paths: dominators, frontiers, natural loops and strongly
\* connected components are those; post-dominators are where no cycle lies ahead,
\* and elsewhere no wrong one is claimed; and a reducible verdict means one way
\* into every cycle (src/analysis).
AnalysesSound ==
    /\ IdomIsDominance
    /\ FrontierIsEdge
    /\ PostdomSound
    /\ LoopsAreNatural
    /\ SccsAreMutual
    /\ ReducibleMeansDominated
=============================================================================
