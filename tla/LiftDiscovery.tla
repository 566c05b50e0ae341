---------------------------- MODULE LiftDiscovery ----------------------------
(***************************************************************************)
(* The Discovery machine of src/spec/lift.cpp, shared by liftFunction and  *)
(* liftBlocksInto: phase one maps block extents by probing instructions    *)
(* from a worklist of leaders, phase two creates one block per new extent  *)
(* and gives each its terminator.                                          *)
(*                                                                         *)
(* Addresses count instructions, so `va + width_' is a + 1; address 0 is   *)
(* the code's "no target".  A program is an image (what the byte reader    *)
(* can read, decoded), the dynamic coverage the lift is restricted to, the *)
(* entry, and the entry lists later liftBlocksInto calls may be given.     *)
(* One step of the specification is one iteration of a loop of scan(), or  *)
(* the whole of elaborate().                                               *)
(***************************************************************************)
EXTENDS Integers, Sequences, FiniteSets

CONSTANTS
  Programs,    \* the programs a behaviour may lift
  MaxLifts     \* bound: lift calls into one function, the first included

(***************************************************************************)
(* FlowKind, with the one distinction scan() adds to it: a direct call to  *)
(* a known-noreturn import.  "plain" is every instruction whose flow is    *)
(* Fallthrough, calls that return included.                                *)
(***************************************************************************)
Kinds == {"plain", "noreturn", "branch", "cond", "indirect", "return",
          "undecodable", "unimplemented"}
Insn == [kind : Kinds, target : Nat]

(***************************************************************************)
(* What the byte reader, the engine and the trace can hand the lifter: a   *)
(* finite image, no encoded branch to address 0 (the code's "no target"),  *)
(* and entry lists that are not empty, as the driver guards its call.      *)
(***************************************************************************)
Address == Nat \ {0}

ASSUME ProgramsAssumption ==
  \A p \in Programs :
    /\ IsFiniteSet(DOMAIN p.image) /\ DOMAIN p.image \subseteq Address
    /\ \A a \in DOMAIN p.image :
         /\ p.image[a] \in Insn
         /\ p.image[a].kind \in {"branch", "cond"} => p.image[a].target # 0
    /\ p.coverage.active \in BOOLEAN
    /\ \A a \in DOMAIN p.coverage.succ : p.coverage.succ[a] \in Seq(Address)
    /\ p.entry \in Address
    /\ \A entries \in p.increments : entries \in Seq(Address) /\ entries # << >>

VARIABLES
  program,     \* the program being lifted
  blocks,      \* function_: block address -> the block there
  leaders, external, extents, unresolved,   \* the Discovery fields
  worklist,    \* scan()'s deque
  current,     \* the extent being scanned: [start, at]
  pending,     \* entries still to seed, or targets still to visit
  phase, lifts,
  roots        \* history: every entry a lift call was given

vars == <<program, blocks, leaders, external, extents, unresolved, worklist,
          current, pending, phase, lifts, roots>>

Elems(s) == {s[i] : i \in 1 .. Len(s)}

Image == program.image
readable(a) == a \in DOMAIN Image
covered(a) == program.coverage.active => a \in program.coverage.pcs
observed(a) == IF a \in DOMAIN program.coverage.succ
                 THEN program.coverage.succ[a] ELSE <<>>

(***************************************************************************)
(* The flow of the instruction at a: whether it ends its block, and the    *)
(* target and fall-through addresses probe reports (0 when it has none).   *)
(* Only an undecodable word and a conditional branch report both a block   *)
(* end and a fall-through.                                                 *)
(***************************************************************************)
terminates(a) == Image[a].kind \notin {"plain", "noreturn"}
flowTarget(a) == IF Image[a].kind \in {"branch", "cond"} THEN Image[a].target ELSE 0
fallthrough(a) == IF Image[a].kind \in {"cond", "undecodable"} THEN a + 1 ELSE 0
arms(a) == {flowTarget(a), fallthrough(a)} \ {0}

\* Mutant: a call that never returns is scanned through like any other.
callsReturn(a) == terminates(a)

endsBlock(a) == terminates(a) \/ Image[a].kind = "noreturn"

(***************************************************************************)
(* Where the inner loop of scan() stops when it starts at `start': before  *)
(* a leader, before an address outside the coverage or the image, or just  *)
(* past an instruction that ends the block.                                *)
(***************************************************************************)
boundary(start, a) == \/ a # start /\ a \in leaders
                      \/ ~covered(a)
                      \/ ~readable(a)

\* [start, a) reads as straight-line code that something stops at a, and no
\* leader lies strictly inside it.
measured(start, a) ==
  /\ a >= start
  /\ \A b \in start .. (a - 1) :
       readable(b) /\ covered(b) /\ (endsBlock(b) => b = a - 1)
  /\ boundary(start, a) \/ (a > start /\ endsBlock(a - 1))

isEnd(start, a) == /\ measured(start, a)
                   /\ \A b \in (start + 1) .. (a - 1) : b \notin leaders

\* The one address the scan stops at; the image is finite, so the range has it.
ends(start) == {a \in start .. (start + Cardinality(DOMAIN Image)) : isEnd(start, a)}

\* Whether the extent [start, at) was closed by an instruction, and by which
\* kind of end it leaves an edge no probe can follow.
byInsn(start, at) == at > start /\ endsBlock(at - 1)

leavesHole(start, at) ==
  IF byInsn(start, at)
    THEN /\ Image[at - 1].kind \in {"indirect", "undecodable", "unimplemented"}
         /\ ~program.coverage.active
    ELSE ~(at # start /\ at \in leaders) /\ covered(at) /\ ~readable(at)

\* Mutant: the fall-through of a conditional branch is left to the next scan.
takenOnly(a) == IF program.coverage.active THEN observed(a) ELSE <<flowTarget(a)>>

\* The addresses scan() visits after the terminator at a, and the encoded
\* arms the trace did not take, which only get stubs.
targetsOf(a) == IF program.coverage.active THEN observed(a)
                                           ELSE <<flowTarget(a), fallthrough(a)>>
untaken(a) == IF program.coverage.active
                THEN arms(a) \ Elems(observed(a))
                ELSE {}

Init == /\ program \in Programs
        /\ blocks = << >>
        /\ leaders = {}
        /\ external = {}
        /\ extents = << >>
        /\ unresolved = {}
        /\ worklist = << >>
        /\ current = [start |-> 0, at |-> 0]
        /\ pending = << >>
        /\ phase = "idle"
        /\ lifts = 0
        /\ roots = {}

(***************************************************************************)
(* A Discovery object over the blocks already lifted: their addresses are  *)
(* leaders, the extents of those with content are honoured.                *)
(***************************************************************************)
construct(entries) ==
  /\ leaders' = DOMAIN blocks
  /\ external' = {}
  /\ extents' = [b \in {c \in DOMAIN blocks : ~blocks[c].external} |-> blocks[b].end]
  /\ unresolved' = {}
  /\ worklist' = << >>
  /\ pending' = entries
  /\ phase' = "seed"
  /\ lifts' = lifts + 1
  /\ roots' = roots \cup Elems(entries)
  /\ UNCHANGED <<program, blocks, current>>

LiftFunction == phase = "idle" /\ construct(<<program.entry>>)

LiftBlocksInto(entries) == phase = "done" /\ lifts < MaxLifts /\ construct(entries)

\* scan(): an entry that is not a known extent, reads and is covered is seeded.
SeedEntry ==
  /\ phase = "seed"
  /\ LET e == Head(pending)
         admitted == e \notin DOMAIN extents /\ readable(e) /\ covered(e)
     IN  /\ leaders' = IF admitted THEN leaders \cup {e} ELSE leaders
         /\ worklist' = IF admitted THEN Append(worklist, e) ELSE worklist
  /\ pending' = Tail(pending)
  /\ phase' = IF Len(pending) = 1 THEN "pop" ELSE "seed"
  /\ UNCHANGED <<program, blocks, external, extents, unresolved, current, lifts, roots>>

\* Mutant: the skipped start is left at the front of the queue.
SkipWithoutPop ==
  /\ phase = "pop"
  /\ worklist # << >>
  /\ Head(worklist) \in DOMAIN extents
  /\ UNCHANGED vars

SkipScanned ==
  /\ phase = "pop"
  /\ worklist # << >>
  /\ Head(worklist) \in DOMAIN extents
  /\ worklist' = Tail(worklist)
  /\ UNCHANGED <<program, blocks, leaders, external, extents, unresolved, current,
                 pending, phase, lifts, roots>>

ScanBlock ==
  /\ phase = "pop"
  /\ worklist # << >>
  /\ Head(worklist) \notin DOMAIN extents
  /\ \E at \in ends(Head(worklist)) :
       LET start == Head(worklist)
           visits == at > start /\ terminates(at - 1)
       IN  /\ current' = [start |-> start, at |-> at]
           /\ pending' = IF visits THEN targetsOf(at - 1) ELSE << >>
           /\ external' = external \cup (IF visits THEN untaken(at - 1) ELSE {})
           /\ unresolved' = unresolved \cup (IF leavesHole(start, at) THEN {start} ELSE {})
  /\ worklist' = Tail(worklist)
  /\ phase' = "visit"
  /\ UNCHANGED <<program, blocks, leaders, extents, lifts, roots>>

(***************************************************************************)
(* The extent a target cuts: the last one that starts at or before it,     *)
(* when it starts strictly before, runs past it, and is not a block of the *)
(* function already.  At most one.                                         *)
(***************************************************************************)
isLastBefore(s, t) == \A u \in DOMAIN extents : u <= t => u <= s

\* Mutant: no extent is ever split.
neverCut(t) == {}

cutBy(t) == {s \in DOMAIN extents : /\ s < t /\ t < extents[s]
                                    /\ s \notin DOMAIN blocks
                                    /\ isLastBefore(s, t)}

asSeq(S) == IF S = {} THEN << >> ELSE <<CHOOSE s \in S : TRUE>>

\* What visiting a readable target queues: itself when it is a new leader, and
\* the start of the extent it cuts.
queueFor(t) == asSeq({t} \ leaders) \o asSeq(cutBy(t))

stubFor(t) == {t} \ {0}

\* One iteration of the loop over a terminator's targets.
VisitTarget ==
  /\ phase = "visit"
  /\ pending # << >>
  /\ LET t == Head(pending)
     IN  \/ /\ t = 0 \/ ~readable(t)
            /\ external' = external \cup stubFor(t)
            /\ UNCHANGED <<leaders, worklist, extents>>
         \/ /\ t # 0 /\ readable(t)
            /\ leaders' = leaders \cup {t}
            /\ worklist' = worklist \o queueFor(t)
            /\ extents' = [s \in DOMAIN extents \ cutBy(t) |-> extents[s]]
            /\ UNCHANGED external
  /\ pending' = Tail(pending)
  /\ UNCHANGED <<program, blocks, unresolved, current, phase, lifts, roots>>

\* extents_[start] = at, after the targets of its terminator were visited.
CloseExtent ==
  /\ phase = "visit"
  /\ pending = << >>
  /\ extents' = [s \in DOMAIN extents \cup {current.start} |->
                   IF s = current.start THEN current.at ELSE extents[s]]
  /\ phase' = "pop"
  /\ UNCHANGED <<program, blocks, leaders, external, unresolved, worklist, current,
                 pending, lifts, roots>>

(***************************************************************************)
(* Phase two.  `all' is every address with a block once the new extents    *)
(* and the stubs have theirs.                                              *)
(***************************************************************************)
lifted == DOMAIN extents \ DOMAIN blocks
all == DOMAIN blocks \cup lifted \cup external

\* What the engine's terminator, or the synthesized one, leaves as successors:
\* the encoded arms of a branch, nothing after an instruction that stops, and
\* the block that starts where the extent ends when no instruction closed it.
staticSuccessors(s) ==
  IF extents[s] > s /\ terminates(extents[s] - 1)
    THEN IF Image[extents[s] - 1].kind = "undecodable" THEN {} ELSE arms(extents[s] - 1)
    ELSE {extents[s]} \cap (all \ {s})

\* Dynamic coverage replaces them by what was observed, when that is one block
\* or the terminator is an indirect branch.
successors(s) ==
  LET last == extents[s] - 1
      seen == Elems(observed(last)) \cap all
      isIndirect == extents[s] > s /\ Image[last].kind = "indirect"
  IN  IF /\ program.coverage.active
         /\ staticSuccessors(s) # {} \/ isIndirect
         /\ Cardinality(seen) = 1 \/ (seen # {} /\ isIndirect)
        THEN seen
        ELSE staticSuccessors(s)

\* The engine resolves every encoded arm of a branch through blockAt and fails
\* the lift on one that has no block.
resolvable(s) ==
  LET last == extents[s] - 1
  IN  (extents[s] > s /\ Image[last].kind \in {"branch", "cond"}) =>
        /\ flowTarget(last) \in all
        /\ Image[last].kind = "cond" => fallthrough(last) \in all

Block == [end : Address, external : BOOLEAN, succ : SUBSET Nat, lift : Nat]

newBlock(a) ==
  IF a \in DOMAIN blocks THEN blocks[a]
  ELSE IF a \in lifted
    THEN [end |-> extents[a], external |-> FALSE, succ |-> successors(a), lift |-> lifts]
    ELSE [end |-> a, external |-> TRUE, succ |-> {}, lift |-> lifts]

Elaborate ==
  /\ phase = "pop"
  /\ worklist = << >>
  /\ LET ok == \A s \in lifted : resolvable(s)
     IN  /\ blocks' = IF ok THEN [a \in all |-> newBlock(a)] ELSE blocks
         /\ phase' = CASE ~ok -> "failed"
                       [] ok /\ lifts = 1 /\ program.entry \notin all -> "unmapped"
                       [] OTHER -> "done"
  /\ UNCHANGED <<program, leaders, external, extents, unresolved, worklist, current,
                 pending, lifts, roots>>

Scan == SeedEntry \/ SkipScanned \/ ScanBlock \/ VisitTarget \/ CloseExtent \/ Elaborate

Next == \/ LiftFunction
        \/ \E entries \in program.increments : LiftBlocksInto(entries)
        \/ Scan

Spec == Init /\ [][Next]_vars

\* The lift is one thread running a loop: once called it keeps taking steps.
FairSpec == Spec /\ WF_vars(Scan)

-----------------------------------------------------------------------------
Working == {"seed", "pop", "visit"}

TypeOK ==
  /\ DOMAIN blocks \subseteq Address /\ blocks \in [DOMAIN blocks -> Block]
  /\ leaders \subseteq Address /\ external \subseteq Address
  /\ DOMAIN extents \subseteq Address /\ extents \in [DOMAIN extents -> Address]
  /\ unresolved \subseteq Address
  /\ worklist \in Seq(Address)
  /\ current \in [start : Nat, at : Nat]
  /\ pending \in Seq(Nat)
  /\ phase \in Working \cup {"idle", "done", "failed", "unmapped"}
  /\ lifts \in Nat
  /\ roots \subseteq Address

stubs == {b \in DOMAIN blocks : blocks[b].external}
queued == Elems(worklist)

\* While a scan works, a leader is never forgotten: it is a stub of an earlier
\* lift, has an extent, is queued, or is the block being scanned.  A split that
\* dropped the coarse extent without queueing its start would lose a block
\* (lift.cpp:236-249).
LeaderNeverLost ==
  phase \in Working =>
    leaders = stubs \cup DOMAIN extents \cup queued
                \cup (IF phase = "visit" THEN {current.start} ELSE {})

\* Elaboration never meets a branch arm without a block: whatever order the
\* worklist took, each encoded arm of each new extent's terminator became a
\* leader or a stub (lift.cpp:204-233; engine.cpp:203-214 fails the whole lift).
EveryArmResolves == phase # "failed"

freshBlocks == {s \in DOMAIN blocks : ~blocks[s].external /\ blocks[s].lift = lifts}

\* When a lift returns, each block it made ends where a scan against the final
\* leaders would end it: no extent measured against an older, coarser set of
\* leaders survives, so no instruction is lifted into two of them.  This is what
\* "rescan from its start against the finer leader set" (lift.cpp:236-238) buys.
NoStaleExtent == phase = "done" => \A s \in freshBlocks : isEnd(s, blocks[s].end)

\* The instruction-level meaning of discovery: where the flow goes on from the
\* instruction at a, through fall-through and encoded arms (or observed ones).
within(a) == readable(a) /\ covered(a)

follows(a) ==
  LET kind == IF within(a) THEN Image[a].kind ELSE "outside"
  IN  CASE kind = "plain" -> {a + 1}
        [] kind \in {"outside", "noreturn"} -> {}
        [] OTHER -> Elems(targetsOf(a)) \ {0}

\* What a lift may reach from its roots: the least set of instructions that has
\* the roots and, with an instruction, the ones its flow goes on to.
Closed(R) ==
  /\ \A r \in roots : within(r) => r \in R
  /\ \A a \in R : \A b \in follows(a) : within(b) => b \in R

reachable == {a \in DOMAIN Image : \A R \in SUBSET DOMAIN Image : Closed(R) => a \in R}

contents == UNION {s .. (blocks[s].end - 1) : s \in DOMAIN blocks \ stubs}

\* A block [s, e) whose scan ended on an edge no probe can follow.  The stub an
\* earlier lift left at e is a known block: the scan stops at it like at any
\* other and reports nothing (lift.cpp:171).
earlierStubs == {b \in stubs : blocks[b].lift < lifts}

hole(s, e) ==
  IF e > s
    THEN \/ Image[e - 1].kind \in {"indirect", "undecodable", "unimplemented"}
         \/ Image[e - 1].kind = "plain" /\ ~readable(e) /\ e \notin earlierStubs
    ELSE TRUE

\* Such a block is reported, also when it became a block of its own only by a
\* later split.
HolesListed ==
  phase = "done" /\ ~program.coverage.active =>
    \A s \in freshBlocks : hole(s, blocks[s].end) => s \in unresolved

\* The blocks hold exactly the instructions reachable from the entries: none is
\* lost to the order of the worklist, to a split or to an earlier lift's blocks,
\* and none past a known-noreturn call or a terminator is swept in.  Where the
\* flow could not be followed the hole is listed.
CoversReachable ==
  /\ phase = "done" => contents = reachable
  /\ HolesListed

\* "Converges because leaders only ever grow" (lift.cpp:238): the worklist that
\* splits keep refilling runs dry.
Converges == (phase \in Working) ~> (phase \notin Working)

-----------------------------------------------------------------------------
(***************************************************************************)
(* The inductive invariant: why a scan that measures one block at a time   *)
(* against a growing set of leaders ends with none measured too long.      *)
(***************************************************************************)
static == ~program.coverage.active
fresh == DOMAIN extents \ DOMAIN blocks

\* The arms the engine will look up for the terminator of [s, e).
needs(s, e) == IF e > s /\ Image[e - 1].kind \in {"branch", "cond"} THEN arms(e - 1) ELSE {}

ArmsKnown ==
  /\ phase \in Working => \A s \in fresh : needs(s, extents[s]) \subseteq leaders \cup external
  /\ phase = "visit" => needs(current.start, current.at)
                           \subseteq leaders \cup external \cup Elems(pending)

Measured ==
  /\ phase = "seed" => fresh = {} /\ pending # << >>
  /\ phase \in Working => \A s \in fresh : measured(s, extents[s])
  /\ phase = "visit" => /\ measured(current.start, current.at)
                        /\ current.start # 0
                        /\ static /\ pending # << >> =>
                             Elems(pending) \subseteq
                               {0, flowTarget(current.at - 1), current.at}

\* A leader strictly inside a measured extent is the target of the extent's own
\* terminator, is waiting to be scanned, and its scan has yet to visit it.
Interior ==
  phase \in Working /\ static =>
    \A s \in fresh, l \in leaders :
      s < l /\ l < extents[s] =>
        /\ l \notin stubs /\ l \notin DOMAIN extents
        /\ l = flowTarget(extents[s] - 1)
        /\ (phase = "visit" /\ l = current.start) => l \in Elems(pending)

CurrentInterior ==
  phase = "visit" /\ static =>
    \A l \in leaders :
      current.start < l /\ l < current.at =>
        /\ l \notin stubs /\ l \notin DOMAIN extents
        /\ l = flowTarget(current.at - 1)

Aged == \A b \in DOMAIN blocks :
          blocks[b].lift <= lifts /\ (phase \in Working => blocks[b].lift < lifts)

StaticNoStale == static => NoStaleExtent

IndInv == /\ TypeOK /\ LeaderNeverLost /\ EveryArmResolves /\ ArmsKnown
          /\ Measured /\ Interior /\ CurrentInterior /\ Aged /\ StaticNoStale
-----------------------------------------------------------------------------
(***************************************************************************)
(* Why the blocks hold exactly what is reachable.  Sound: whatever has the *)
(* roots and is closed under the flow has every instruction of an extent   *)
(* and every queued start.  Linked and Rooted: where the flow leaves an    *)
(* extent, and at a root, there is a leader, and a block once the lift is  *)
(* done; it is a stub only if an earlier lift left it there.               *)
(***************************************************************************)
Bounded(R) ==
  /\ contents \subseteq R
  /\ phase \in Working => /\ \A s \in fresh : s .. (extents[s] - 1) \subseteq R
                          /\ \A l \in queued : within(l) => l \in R
  /\ phase = "visit" => /\ current.start .. (current.at - 1) \subseteq R
                        /\ \A t \in Elems(pending) : within(t) => t \in R

Sound == \A R \in SUBSET DOMAIN Image : Closed(R) => Bounded(R)

exits(s, e) == {b \in (IF e > s THEN follows(e - 1) ELSE {}) : within(b)}

hasBlock(b, lift) == b \in DOMAIN blocks /\ (blocks[b].external => blocks[b].lift < lift)

Linked ==
  /\ \A s \in DOMAIN blocks \ stubs :
       \A b \in exits(s, blocks[s].end) : hasBlock(b, blocks[s].lift)
  /\ phase \in Working => \A s \in fresh : exits(s, extents[s]) \subseteq leaders
  /\ phase = "visit" => exits(current.start, current.at) \subseteq leaders \cup Elems(pending)

Rooted ==
  /\ phase = "idle" => roots = {}
  /\ phase = "seed" => Elems(pending) \subseteq roots
  /\ phase = "done" => \A r \in roots : within(r) => hasBlock(r, lifts)
  /\ phase \in Working =>
       \A r \in roots : within(r) =>
         r \in leaders \cup (IF phase = "seed" THEN Elems(pending) ELSE {})

\* A block with content is straight-line code and is empty only outside.
straight(s, e) ==
  /\ \A b \in s .. (e - 1) : within(b) /\ (endsBlock(b) => b = e - 1)
  /\ within(s) => e > s

Shaped ==
  /\ \A s \in DOMAIN blocks : blocks[s].lift >= 1
  /\ phase # "idle" => lifts >= 1
  /\ \A s \in DOMAIN blocks \ stubs : readable(s) /\ straight(s, blocks[s].end)
  /\ static => \A x \in external \cup stubs : ~readable(x)
  /\ phase \in Working => \A l \in leaders \ stubs : readable(l)

HolesKnown ==
  static =>
    /\ phase \in Working => \A s \in fresh : hole(s, extents[s]) => s \in unresolved
    /\ phase = "visit" /\ hole(current.start, current.at) => current.start \in unresolved

CoverInv == Sound /\ Linked /\ Rooted /\ Shaped /\ HolesKnown /\ HolesListed
=============================================================================
