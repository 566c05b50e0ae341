------------------------------ MODULE StmtTree ------------------------------
(***************************************************************************)
(* The statement tree the structurizer builds (StmtKind in structure.h),   *)
(* the rewrites it applies to a finished tree, and the meaning of the C    *)
(* text the printer lays out for it.  A condition is named by the block    *)
(* whose terminator computes it; Nil is the null pointer.                  *)
(***************************************************************************)
EXTENDS CfgAnalysis

Nil == [k |-> "nil"]
SeqStmt(items) == [k |-> "seq", items |-> items]
BlockOf(b) == [k |-> "block", b |-> b]
GotoTo(b) == [k |-> "goto", b |-> b]
ContinueTo(b) == [k |-> "continue", b |-> b]
BreakTo(b) == [k |-> "break", b |-> b]
\* c: the block whose condition is tested; inv: invertCond.
IfOf(c, inv, th, el) ==
    [k |-> "if", c |-> c, inv |-> inv, th |-> th, el |-> el, epi |-> Nil, merge |-> 0]
\* c = 0 is `while (true)`.
WhileOf(b, c, inv, body) == [k |-> "while", b |-> b, c |-> c, inv |-> inv, body |-> body]
DoWhileOf(b, c, inv, body) == [k |-> "dowhile", b |-> b, c |-> c, inv |-> inv, body |-> body]

IsNil(t) == t.k = "nil"

Kids(t) ==
    CASE t.k = "seq"    -> t.items
      [] t.k = "if"     -> <<t.th, t.el, t.epi>>
      [] t.k \in {"while", "dowhile"} -> <<t.body>>
      [] t.k = "switch" -> t.bodies \o <<t.dbody, t.epi>>
      [] OTHER          -> <<>>

\* The same statement with its children replaced, in the order Kids lists them.
WithKids(t, kids) ==
    CASE t.k = "seq"    -> [t EXCEPT !.items = kids]
      [] t.k = "if"     -> [t EXCEPT !.th = kids[1], !.el = kids[2], !.epi = kids[3]]
      [] t.k \in {"while", "dowhile"} -> [t EXCEPT !.body = kids[1]]
      [] t.k = "switch" -> [t EXCEPT !.bodies = SubSeq(kids, 1, Len(kids) - 2),
                                     !.dbody = kids[Len(kids) - 1], !.epi = Last(kids)]
      [] OTHER          -> t

MapKids(t, F(_)) == WithKids(t, MapSeq(Kids(t), F))

\* Every node of a tree, a node once per occurrence.
RECURSIVE Nodes(_)
Nodes(t) == <<t>> \o FlattenSeq(MapSeq(Kids(t), Nodes))

statementWeight(t) == Len(SelectSeq(Nodes(t), LAMBDA n : ~IsNil(n)))
containsSwitch(t) == \E n \in ToSet(Nodes(t)) : n.k = "switch"

RECURSIVE containsLoopStmt(_)
containsLoopStmt(t) ==
    \/ t.k \in {"while", "dowhile"}
    \/ \E kid \in ToSet(Kids(t)) : containsLoopStmt(kid)

\* The blocks the tree names rather than falls into: gotos, and the cases
\* that carry no body.
NodeReferences(n) ==
    CASE n.k = "goto"   -> <<n.b>>
      [] n.k = "switch" -> SelectSeq([i \in DOMAIN n.cases |->
                                         IF IsNil(n.bodies[i]) THEN n.cases[i] ELSE 0],
                                     LAMBDA b : b # 0)
                           \o (IF IsNil(n.dbody) /\ n.dflt # 0 THEN <<n.dflt>> ELSE <<>>)
      [] OTHER          -> <<>>
References(t) == FlattenSeq(MapSeq(Nodes(t), NodeReferences))
collectReferences(t) == ToSet(References(t))
countReferences(t, b) == Len(SelectSeq(References(t), LAMBDA r : r = b))

\* Blocks printed by a `Block` node.
PrintedBlocks(t) ==
    MapSeq(SelectSeq(Nodes(t), LAMBDA n : n.k = "block"), LAMBDA n : n.b)

RECURSIVE firstBlock(_)
firstBlock(t) ==
    CASE t.k = "block"   -> t.b
      [] t.k = "seq"     -> IF t.items = <<>> THEN 0 ELSE firstBlock(t.items[1])
      [] t.k = "dowhile" -> firstBlock(t.body)
      [] OTHER           -> 0

\* Whether control cannot run off the end of a statement.
RECURSIVE alwaysLeaves(_, _)
alwaysLeaves(f, t) ==
    CASE t.k \in {"goto", "break"} -> TRUE
      [] t.k = "block"  -> f.kind[t.b] = "ret"
      [] t.k = "seq"    -> t.items # <<>> /\ alwaysLeaves(f, Last(t.items))
      [] t.k = "if"     -> IF ~IsNil(t.epi) THEN alwaysLeaves(f, t.epi)
                           ELSE alwaysLeaves(f, t.th) /\ alwaysLeaves(f, t.el)
      [] t.k = "switch" -> IF ~IsNil(t.epi) THEN alwaysLeaves(f, t.epi)
                           ELSE t.table \/ (t.values # <<>> /\ ~t.addr)
      [] OTHER          -> FALSE

-----------------------------------------------------------------------------
(* Rewrites.                                                               *)

\* A goto to the loop's exit becomes a break, through sequences and if arms
\* only: inside a nested loop or switch the break would bind elsewhere.
RECURSIVE rewriteLoopExitToBreak(_, _)
rewriteLoopExitToBreak(t, exit) ==
    CASE t.k = "goto" /\ t.b = exit -> BreakTo(exit)
      [] t.k = "seq" -> MapKids(t, LAMBDA x : rewriteLoopExitToBreak(x, exit))
      [] t.k = "if"  -> [t EXCEPT !.th = rewriteLoopExitToBreak(t.th, exit),
                                  !.el = rewriteLoopExitToBreak(t.el, exit)]
      [] OTHER -> t

\* A jump back to the header becomes a continue; nested loops keep theirs, and
\* a case or default that names the header without a body is given one.
RECURSIVE continueAtBackEdges(_, _)
continueAtBackEdges(t, h) ==
    CASE t.k = "goto" -> IF t.b = h THEN ContinueTo(h) ELSE t
      [] t.k \in {"while", "dowhile"} -> t
      [] t.k = "switch" ->
            [t EXCEPT !.bodies = <<>> \o [i \in DOMAIN t.bodies |->
                                     IF ~IsNil(t.bodies[i]) THEN continueAtBackEdges(t.bodies[i], h)
                                     ELSE IF t.cases[i] = h THEN ContinueTo(h) ELSE Nil],
                      !.dbody = IF ~IsNil(t.dbody) THEN continueAtBackEdges(t.dbody, h)
                                ELSE IF t.dflt = h THEN ContinueTo(h) ELSE Nil,
                      !.epi = continueAtBackEdges(t.epi, h)]
      [] OTHER -> MapKids(t, LAMBDA x : continueAtBackEdges(x, h))

\* Inserts a run of items after position i.
SpliceAfter(items, i, run) == SubSeq(items, 1, i) \o run \o SubSeq(items, i + 1, Len(items))

\* `if (c) goto M; else { WORK; M... }`: M and what follows it move out after
\* the if.  [t, tail], tail empty when the shape is not there.
SkipTarget(gotoArm, bodyArm) ==
    IF gotoArm.k # "goto" \/ bodyArm.k # "seq" THEN 0
    ELSE SelectInSeq(bodyArm.items, LAMBDA x : x.k = "block" /\ x.b = gotoArm.b)
trySplitSkipGoto(t) ==
    LET inThen == SkipTarget(t.th, t.el)
        inElse == SkipTarget(t.el, t.th)
    IN  IF inThen # 0
        THEN [t    |-> [t EXCEPT !.th = SeqStmt(SubSeq(t.el.items, 1, inThen - 1)),
                                 !.el = Nil, !.inv = ~@],
              tail |-> SubSeq(t.el.items, inThen, Len(t.el.items))]
        ELSE IF inElse # 0
        THEN [t    |-> [t EXCEPT !.th = SeqStmt(SubSeq(t.th.items, 1, inElse - 1)), !.el = Nil],
              tail |-> SubSeq(t.th.items, inElse, Len(t.th.items))]
        ELSE [t |-> t, tail |-> <<>>]

RECURSIVE SplitItems(_, _)
SplitItems(items, i) ==
    IF i > Len(items) THEN items
    ELSE IF items[i].k # "if" THEN SplitItems(items, i + 1)
    ELSE LET split == trySplitSkipGoto(items[i])
         IN  SplitItems(SpliceAfter([items EXCEPT ![i] = split.t], i, split.tail), i + 1)

RECURSIVE restructureSkipGotos(_)
restructureSkipGotos(t) ==
    MapKids(IF t.k = "seq" THEN SeqStmt(SplitItems(t.items, 1)) ELSE t, restructureSkipGotos)

AsItems(t) == IF t.k = "seq" THEN t.items ELSE <<t>>

\* An if both of whose arms exist and one leaves: the other follows it.
PromoteArm(f, items, i) ==
    LET t == items[i]
        thenLeaves == alwaysLeaves(f, t.th)
        elseLeaves == alwaysLeaves(f, t.el)
    IN  IF thenLeaves /\ (~elseLeaves \/ statementWeight(t.th) <= statementWeight(t.el))
        THEN SpliceAfter([items EXCEPT ![i] = [t EXCEPT !.el = Nil]], i, AsItems(t.el))
        ELSE IF elseLeaves
        THEN SpliceAfter([items EXCEPT ![i] = [t EXCEPT !.th = t.el, !.el = Nil, !.inv = ~@]],
                         i, AsItems(t.th))
        ELSE items

\* A one-armed if followed by a tail that leaves: the tail becomes the guard's
\* arm (or a goto to it) and the arm follows.
InvertGuard(f, items, i) ==
    LET t == items[i]
        suffix == SubSeq(items, i + 1, Len(items))
        leaves == alwaysLeaves(f, t.th)
        chain == t.th.k = "seq" /\ \E n \in ToSet(t.th.items) : n.k = "if"
    IN  IF suffix = <<>> \/ ~alwaysLeaves(f, SeqStmt(suffix)) THEN items
        ELSE IF leaves
        THEN SubSeq(items, 1, i - 1) \o <<[t EXCEPT !.th = SeqStmt(suffix), !.inv = ~@]>>
             \o AsItems(t.th)
        ELSE IF chain /\ suffix[1].k = "block"
        THEN SpliceAfter([items EXCEPT ![i] = [t EXCEPT !.th = GotoTo(suffix[1].b), !.inv = ~@]],
                         i, AsItems(t.th))
        ELSE items

RECURSIVE FlattenItems(_, _, _)
FlattenItems(f, items, i) ==
    IF i > Len(items) THEN items
    ELSE IF items[i].k # "if" \/ (items[i].k = "if" /\ ~IsNil(items[i].epi))
    THEN FlattenItems(f, items, i + 1)
    ELSE FlattenItems(f, IF ~IsNil(items[i].el) THEN PromoteArm(f, items, i)
                         ELSE InvertGuard(f, items, i), i + 1)

RECURSIVE flattenEarlyExitGuards(_, _)
flattenEarlyExitGuards(f, t) ==
    LET go(x) == flattenEarlyExitGuards(f, x)
    IN  CASE t.k = "seq" -> SeqStmt(FlattenItems(f, MapKids(t, go).items, 1))
          [] t.k = "if"  -> [t EXCEPT !.th = go(t.th), !.el = go(t.el)]
          [] OTHER       -> t

\* `while (true) { if (c) continue; else WORK }` with WORK leaving is
\* `while (c) {} WORK`.  [t, work], work Nil when the shape is not there.
trySimplifyGuardedSpin(f, t) ==
    LET guard == IF t.body.k = "if" THEN t.body
                 ELSE IF t.body.k = "seq" /\ Len(t.body.items) = 1 THEN t.body.items[1] ELSE Nil
        shape(cont, work) == cont.k = "continue" /\ ~IsNil(work) /\ alwaysLeaves(f, work)
    IN  IF t.c # 0 \/ guard.k # "if" THEN [t |-> t, work |-> Nil]
        ELSE IF shape(guard.th, guard.el)
        THEN [t |-> WhileOf(t.b, guard.c, guard.inv, SeqStmt(<<>>)), work |-> guard.el]
        ELSE IF shape(guard.el, guard.th)
        THEN [t |-> WhileOf(t.b, guard.c, ~guard.inv, SeqStmt(<<>>)), work |-> guard.th]
        ELSE [t |-> t, work |-> Nil]

RECURSIVE SpinItems(_, _, _)
SpinItems(f, items, i) ==
    IF i > Len(items) THEN items
    ELSE IF items[i].k # "while" THEN SpinItems(f, items, i + 1)
    ELSE LET spin == trySimplifyGuardedSpin(f, items[i])
         IN  SpinItems(f, SpliceAfter([items EXCEPT ![i] = spin.t], i,
                                      IF IsNil(spin.work) THEN <<>> ELSE <<spin.work>>), i + 1)

RECURSIVE simplifyGuardedSpins(_, _)
simplifyGuardedSpins(f, t) ==
    MapKids(IF t.k = "seq" THEN SeqStmt(SpinItems(f, t.items, 1)) ELSE t,
            LAMBDA x : simplifyGuardedSpins(f, x))

\* A goto to the block that follows anyway is dropped; `next` is that block, 0
\* when nothing is known to follow.  A loop body and a case never fall into
\* what follows their statement.
RECURSIVE elideFallthroughGotos(_, _)
elideFallthroughGotos(t, next) ==
    CASE t.k = "goto" -> IF next # 0 /\ t.b = next THEN Nil ELSE t
      [] t.k = "seq"  ->
            SeqStmt(SelectSeq([i \in DOMAIN t.items |->
                                elideFallthroughGotos(t.items[i],
                                    IF i < Len(t.items) THEN firstBlock(t.items[i + 1]) ELSE next)],
                            LAMBDA x : ~IsNil(x)))
      [] t.k = "if"   ->
            LET armNext == IF IsNil(t.epi) THEN next ELSE t.merge
                arm(x)  == LET y == elideFallthroughGotos(x, armNext)
                           IN  IF y.k = "seq" /\ y.items = <<>> THEN Nil ELSE y
                th      == arm(t.th)
                el      == arm(t.el)
                swap    == IsNil(th) /\ ~IsNil(el)
            IN  [t EXCEPT !.th = IF swap THEN el ELSE th,
                          !.el = IF swap THEN Nil ELSE el,
                          !.inv = IF swap THEN ~@ ELSE @,
                          !.epi = elideFallthroughGotos(t.epi, next)]
      [] t.k \in {"while", "dowhile"} -> [t EXCEPT !.body = elideFallthroughGotos(t.body, 0)]
      [] t.k = "switch" ->
            [t EXCEPT !.bodies = MapSeq(t.bodies, LAMBDA x : elideFallthroughGotos(x, 0)),
                      !.dbody = elideFallthroughGotos(t.dbody, 0),
                      !.epi = elideFallthroughGotos(t.epi, next)]
      [] OTHER -> t

-----------------------------------------------------------------------------
(* The printed text as C runs it: what is left to execute is a sequence    *)
(* whose elements are statements and the ends of the loops and switches    *)
(* that are open.  A chain of compares prints as if/else, so it opens no   *)
(* switch for a break to leave.                                            *)

EndOf(t) == [k |-> "end", loop |-> t.k \in {"while", "dowhile"}, t |-> t]
Enumerated(t) == t.table \/ t.values # <<>>
ArmText(body, target) == IF IsNil(body) THEN GotoTo(target) ELSE body

\* From case i on: a case that does not leave runs into the next one.
FromCase(t, i, rest) ==
    LET arms == [j \in i..Len(t.bodies) |-> ArmText(t.bodies[j], t.cases[j])]
        run  == [j \in 1..(Len(t.bodies) - i + 1) |-> arms[j + i - 1]]
    IN  IF Enumerated(t)
        THEN run \o (IF t.dflt = 0 THEN <<>> ELSE <<ArmText(t.dbody, t.dflt)>>)
             \o <<EndOf(t), t.epi>> \o rest
        ELSE <<IF i > Len(t.bodies) THEN Nil ELSE run[1], t.epi>> \o rest

\* A block prints its label; so does a compare tree's switch, which has no
\* block statement.  A while's header is its condition and prints none.
HasLabel(t, b) == (t.k = "block" /\ t.b = b) \/ (t.k = "switch" /\ t.tree /\ t.b = b)
Labels(t, b) == Len(SelectSeq(Nodes(t), LAMBDA n : HasLabel(n, b)))

\* What a jump to b's label leaves to execute, <<>> when no label is printed.
RECURSIVE JumpTo(_, _, _)
JumpTo(t, b, rest) ==
    LET after(i) ==
            CASE t.k = "seq" -> SubSeq(t.items, i + 1, Len(t.items)) \o rest
              [] t.k = "if"  -> (IF i = 3 THEN <<>> ELSE <<t.epi>>) \o rest
              [] t.k \in {"while", "dowhile"} -> <<EndOf(t)>> \o rest
              [] t.k = "switch" -> IF i = Len(t.bodies) + 2 THEN rest
                                   ELSE IF i = Len(t.bodies) + 1 THEN <<EndOf(t), t.epi>> \o rest
                                   ELSE Tail(FromCase(t, i, rest))
        kids  == Kids(t)
        found == SelectInSeq(kids, LAMBDA x : Labels(x, b) > 0)
    IN  IF HasLabel(t, b) THEN <<t>> \o rest
        ELSE IF found = 0 THEN <<>>
        ELSE JumpTo(kids[found], b, after(found))

\* What a break or a continue leaves to execute.
RECURSIVE Unwind(_, _)
Unwind(todo, onlyLoops) ==
    IF todo = <<>> THEN <<>>
    ELSE IF Head(todo).k = "end" /\ (Head(todo).loop \/ ~onlyLoops) THEN todo
    ELSE Unwind(Tail(todo), onlyLoops)

\* The arm a switch takes.  `pick` is the position of the chosen target, or
\* the compared value in a compare tree.
CaseFor(t, pick) ==
    LET labels == IF t.values # <<>> THEN t.values ELSE [i \in DOMAIN t.cases |-> i]
        hit    == SelectInSeq(labels, LAMBDA v : v = pick)
    IN  IF hit = 0 THEN Len(t.cases) + 1 ELSE hit

\* Runs the text to the next block it enters.  `choice` is [b, pick, truth],
\* what block b's terminator decided; b = 0 once a test has used it up.
\* The result names the block reached (0: ran off the end), how it was reached
\* ("block" prints it, "test" only evaluates its condition, "lost" follows a
\* jump with nowhere to go) and what is left.
Reached(b, how, todo) == [b |-> b, how |-> how, todo |-> todo]
RECURSIVE Execute(_, _, _)
Execute(tree, todo, choice) ==
    LET t    == Head(todo)
        rest == Tail(todo)
        used == [choice EXCEPT !.b = 0]
        tested(b, next(_)) == IF choice.b = b THEN Execute(tree, next(choice), used)
                              ELSE Reached(b, "test", todo)
        loops(c) == c.truth # t.inv
        ended(x) ==
            IF x.k = "while" THEN Execute(tree, <<x>> \o rest, choice)
            ELSE IF x.k = "dowhile"
            THEN tested(x.c, LAMBDA c : IF c.truth # x.inv THEN <<x>> \o rest ELSE rest)
            ELSE Execute(tree, rest, choice)
        jump(b) == LET to == JumpTo(tree, b, <<>>)
                   IN  IF to = <<>> THEN Reached(b, "lost", <<>>) ELSE Execute(tree, to, choice)
    IN  IF todo = <<>> THEN Reached(0, "block", <<>>)
        ELSE CASE t.k = "nil"   -> Execute(tree, rest, choice)
               [] t.k = "seq"   -> Execute(tree, t.items \o rest, choice)
               [] t.k = "block" -> Reached(t.b, "block", rest)
               [] t.k = "goto"  -> jump(t.b)
               [] t.k = "continue" -> Execute(tree, Unwind(rest, TRUE), choice)
               [] t.k = "break" -> LET out == Unwind(rest, FALSE)
                                   IN  IF out = <<>> THEN Reached(0, "lost", <<>>)
                                       ELSE Execute(tree, Tail(out), choice)
               [] t.k = "if"    -> tested(t.c, LAMBDA c :
                                      <<IF loops(c) THEN t.th ELSE t.el, t.epi>> \o rest)
               [] t.k = "while" ->
                     IF t.c = 0 THEN Execute(tree, <<t.body, EndOf(t)>> \o rest, choice)
                     ELSE tested(t.c, LAMBDA c :
                            IF loops(c) THEN <<t.body, EndOf(t)>> \o rest ELSE rest)
               [] t.k = "dowhile" -> Execute(tree, <<t.body, EndOf(t)>> \o rest, choice)
               [] t.k = "switch" -> tested(t.b, LAMBDA c : FromCase(t, CaseFor(t, c.pick), rest))
               [] t.k = "end"   -> ended(t.t)
=============================================================================
