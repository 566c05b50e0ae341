----------------------------- MODULE MCDecompile -----------------------------
(***************************************************************************)
(* The driver and the pass framework it runs each round.  The two share no *)
(* variable, so a behaviour exercises one of them (focus) and leaves the   *)
(* other alone.                                                            *)
(***************************************************************************)
EXTENDS Driver, PassPipeline, TLC

CONSTANT Focuses

-----------------------------------------------------------------------------
(* Images and options of the driver.  Addresses are 0..n with the entry at *)
(* 0.  A block is unmapped, a leaf, a direct jump or fork, or an indirect  *)
(* branch.                                                                 *)

MCSix == 0..5

NoShape == [gate |-> 0, before |-> {}, after |-> {}]

Unmapped == [mapped |-> FALSE, branch |-> FALSE, succ |-> {}, shape |-> NoShape]
Leaf == [Unmapped EXCEPT !.mapped = TRUE]
JumpTo(a) == [Leaf EXCEPT !.succ = {a}]
BranchTo(gate, before, after) ==
  [Leaf EXCEPT !.branch = TRUE,
               !.shape = [gate |-> gate, before |-> before, after |-> after]]

\* The image whose block at address a is f[a]; nothing is mapped elsewhere.
ImageOf(f) ==
  LET BlockAt(a) == IF a \in DOMAIN f THEN f[a] ELSE Unmapped IN
  [mapped |-> {a \in Addr : BlockAt(a).mapped},
   branch |-> {a \in Addr : BlockAt(a).branch},
   succ   |-> [a \in Addr |-> BlockAt(a).succ],
   gate   |-> [a \in Addr |-> BlockAt(a).shape.gate],
   before |-> [a \in Addr |-> BlockAt(a).shape.before],
   after  |-> [a \in Addr |-> BlockAt(a).shape.after]]

\* The entry dispatches; its candidate set may change once block 1 is reached.
Dispatchers == {BranchTo(1, B, A) : B \in {{1}, {1, 2}}, A \in {{}, {2}, {1, 2, 3}}}

\* Any other block: also a branch that has no candidates before something
\* reaches it.
BlocksAt(a) ==
  {Unmapped, Leaf, JumpTo(3)} \cup {BranchTo(a, {}, A) : A \in {{3}, {2, 3}}}

MCImages ==
  {ImageOf((0 :> d) @@ (1 :> x) @@ (2 :> y) @@ (3 :> z)) :
     d \in Dispatchers, x \in BlocksAt(1), y \in BlocksAt(2),
     z \in {Leaf, BranchTo(3, {}, {1})}}

\* The entry reaches 1, 1 reaches 2, 2 reaches 3: a chain of dispatchers; a
\* dispatcher that leaves a hole; and one whose edge needs no new address.
Chain ==
  ImageOf((0 :> BranchTo(0, {}, {1})) @@ (1 :> BranchTo(1, {}, {2}))
          @@ (2 :> BranchTo(2, {}, {3})) @@ (3 :> Leaf))
HoleAfterEdge ==
  ImageOf((0 :> BranchTo(0, {}, {1})) @@ (1 :> BranchTo(1, {}, {0}))
          @@ (2 :> Leaf) @@ (3 :> Leaf))
HoleBehind ==
  ImageOf((0 :> BranchTo(0, {}, {1, 2})) @@ (1 :> BranchTo(1, {}, {}))
          @@ (2 :> BranchTo(2, {}, {3})) @@ (3 :> Leaf))
\* Blocks 3 and 4 are lifted for the branch at 1, which stays open because its
\* third target, 5, is refused; edges alone then make them reachable, one by
\* one.
EdgeLadder(gated, then) ==
  ImageOf((0 :> [Leaf EXCEPT !.succ = {1, 2}])
          @@ (1 :> BranchTo(gated, {3, 4, 5}, then)) @@ (2 :> BranchTo(2, {}, {3}))
          @@ (3 :> BranchTo(3, {}, {4})) @@ (4 :> BranchTo(4, {}, {0})) @@ (5 :> Leaf))
MCLadders == {EdgeLadder(g, l) : g \in {2, 3, 4, 5}, l \in SUBSET {2, 3, 5}}

Dark == ImageOf((0 :> Unmapped) @@ (1 :> Leaf) @@ (2 :> Leaf) @@ (3 :> Leaf))
\* The branch's target does not read; only code that is never lifted jumps to it.
Unread == ImageOf((0 :> BranchTo(0, {}, {1})) @@ (2 :> JumpTo(1)))
MCStopImages == {Chain, HoleAfterEdge, HoleBehind, Dark, Unread}

Default ==
  [maxRounds |-> 2, extendWhileProving |-> TRUE, sealUnresolvedBranches |-> FALSE,
   maxTotalEntries |-> 8, maxDiscoveryPerBranch |-> 0, fence |-> Addr,
   needsDiscovery |-> TRUE]

MCOptions ==
  {Default,
   [Default EXCEPT !.maxTotalEntries = 2, !.sealUnresolvedBranches = TRUE],
   [Default EXCEPT !.maxDiscoveryPerBranch = 1],
   [Default EXCEPT !.fence = {0, 2, 3}],
   [Default EXCEPT !.maxRounds = 1, !.extendWhileProving = FALSE]}

\* No round is allowed; nothing is left to discover.
MCNoDiscovery ==
  {[Default EXCEPT !.maxRounds = 0],
   [Default EXCEPT !.needsDiscovery = FALSE, !.sealUnresolvedBranches = TRUE]}

MCLadderOptions ==
  {[Default EXCEPT !.fence = f, !.maxRounds = r, !.maxTotalEntries = n] :
     f \in {Addr, Addr \ {5}}, r \in 1..2, n \in {3, 8}}

MCDriverImages == MCImages \cup MCLadders \cup MCStopImages
MCDriverOptions == MCOptions \cup MCNoDiscovery \cup MCLadderOptions
\* The round budgets of the ladders are for images that need many rounds.
Suits(i, o) == i \in MCImages => o \in MCOptions \cup MCNoDiscovery

-----------------------------------------------------------------------------
(* Every registry of up to three passes over three maturities in which a   *)
(* pass requires at most one other; the first may require itself, and the  *)
(* second offer also repeats a name or goes backwards, which add refuses.  *)

Names == {"a", "b", "c"}
Levels == {<<l, p>> \in Maturity \X Maturity : l <= p}
Infos(name, levels, requirements) ==
  {[name |-> name, level |-> lp[1], produces |-> lp[2], requirements |-> r] :
     lp \in levels, r \in requirements}
AtMostOne(names) == {{}} \cup {{n} : n \in names}

MCOffered ==
  <<Infos("a", Levels, AtMostOne(Names)),
    Infos("b", Levels, AtMostOne(Names \ {"b"})) \cup Infos("b", {<<1, 0>>}, {{}}) \cup Infos("a", {<<0, 1>>}, {{}}),
    Infos("c", Levels, AtMostOne(Names \ {"c"}) \cup {{"ghost"}, {"a", "b"}})>>

-----------------------------------------------------------------------------
VARIABLE focus

MCVars == <<focus, vars, pipelineVars>>

\* The driver's inputs are chosen once; they are fixed where it is not in focus.
MCInit ==
  /\ focus \in Focuses
  /\ (focus # "driver" => image = Dark /\ options = Default) /\ Init /\ Suits(image, options)
  /\ PipelineInit
MCNext ==
  \/ focus = "driver" /\ Next /\ UNCHANGED <<focus, pipelineVars>>
  \/ focus = "pipeline" /\ PipelineNext /\ UNCHANGED <<focus, vars>>
MCSpec == MCInit /\ [][MCNext]_MCVars
=============================================================================
