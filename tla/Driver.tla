------------------------------- MODULE Driver -------------------------------
(***************************************************************************)
(* The decompilation driver (src/src/decompile/driver.cpp): rounds of      *)
(* lift - SSA - probe that grow the set of lifted addresses and the set of *)
(* proved indirect edges until a round finds nothing, a cap or a wind-down *)
(* request cuts them short, or the job is stopped.                         *)
(*                                                                         *)
(* A function is abstracted to its block starts and to the targets of its  *)
(* indirect branches (a branch is named by its block).  The image under    *)
(* decompilation is one of Images; what the analyses behind                *)
(* resolve-indirect would answer for a branch depends on the graph they    *)
(* see, so it is a function of the reachable blocks.  The stop controls of *)
(* obs::Job are written by other threads and by the signal handler, at any *)
(* moment between two steps of the driver.                                 *)
(***************************************************************************)
EXTENDS Integers, FiniteSets

CONSTANTS
  Addr,           \* code addresses, integers: admission goes in address order
  Entry,          \* the requested entry
  Images,         \* the images a run may be given, see ImageOK
  Options,        \* the DriverOptions a run may be given, see OptionsOK
  StopRequests,   \* which of "interrupt", "soft", "hard", "cancel" may happen
  RoundCeiling,   \* DriverOptions::kRoundCeiling
  SettleCeiling   \* kSettleCeiling

(***************************************************************************)
(* mapped: readable addresses.  succ: direct successors of the block       *)
(* starting there.  branch: blocks ending in an indirect branch.  For such *)
(* a block the candidates are before[b] until gate[b] is reachable, and    *)
(* after[b] from then on: a value set over a phi grows with the            *)
(* predecessors lifted, goes to top ({}), or does not exist in a block     *)
(* nothing reaches (gate[b] = b).                                          *)
(***************************************************************************)
ImageOK(img) ==
  /\ img.mapped \subseteq Addr
  /\ img.branch \subseteq img.mapped
  /\ img.succ \in [Addr -> SUBSET Addr]
  /\ \A b \in img.branch : img.succ[b] = {}
  /\ img.gate \in [Addr -> Addr]
  /\ img.before \in [Addr -> SUBSET Addr]
  /\ img.after \in [Addr -> SUBSET Addr]

OptionsOK(o) ==
  /\ o.maxRounds \in Nat
  /\ o.extendWhileProving \in BOOLEAN
  /\ o.sealUnresolvedBranches \in BOOLEAN
  /\ o.maxTotalEntries \in Nat
  /\ o.maxDiscoveryPerBranch \in Nat
  /\ o.fence \subseteq Addr          \* Addr when inactive or only advisory
  /\ o.needsDiscovery \in BOOLEAN    \* target > Ssa

ASSUME AddrAssumption == Addr \subseteq Int /\ IsFiniteSet(Addr) /\ Entry \in Addr
ASSUME ImagesAssumption == \A img \in Images : ImageOK(img)
ASSUME OptionsAssumption == \A o \in Options : OptionsOK(o)
ASSUME CeilingAssumption == RoundCeiling \in Nat /\ SettleCeiling \in Nat \ {0}

VARIABLES
  image, options,     \* chosen once
  job,                \* obs::Job: interrupts, soft, hard, cancel
  control,            \* where the driver is
  known,              \* entries / known
  resolved,           \* Resolutions: branch -> proved targets
  blocks,             \* block starts of the function currently lifted
  round, budget, settle,
  passNew, foundNew, foundEdges,   \* > 0, of the pass and of the round
  stop,               \* DriverReport::stop, or "none"
  result,             \* what decompile() returned, or "none"
  capped,             \* history: addresses maxTotalEntries refused
  late                \* history: passes begun with a wind-down request in force

vars == <<image, options, job, control, known, resolved, blocks, round, budget,
          settle, passNew, foundNew, foundEdges, stop, result, capped, late>>
inputs == <<image, options>>
counters == <<round, budget, settle, passNew, foundNew, foundEdges>>
proved == <<known, resolved, capped>>

(***************************************************************************)
(* obs::Job                                                                *)
(***************************************************************************)
stopReason ==
  IF job.cancel \/ job.interrupts >= 2 THEN "Cancelled"
  ELSE IF job.hard THEN "Timeout"
  ELSE "None"

windDownRequested == job.interrupts >= 1 \/ job.soft \/ stopReason # "None"

\* checkpoint() throws when this does not hold.
Checkpoint == stopReason = "None"

(***************************************************************************)
(* The lifted function.                                                    *)
(***************************************************************************)
\* Least set with S that is closed under step.
Closure(S, step) ==
  {a \in Addr : \A T \in SUBSET Addr :
     (S \subseteq T /\ \A x \in T : step[x] \subseteq T) => a \in T}

\* spec::liftFunction and liftBlocksInto: recursive descent from every entry
\* that reads; a direct target that does not read is still a (stub) block.
liftKnown(entries) ==
  Closure(entries \cap image.mapped,
          [a \in Addr |-> IF a \in image.mapped THEN image.succ[a] ELSE {}])

IndirectBranches(blks) == image.branch \cap blks

reachableBlocks(blks, targets) ==
  Closure({Entry} \cap blks,
          [a \in Addr |-> IF a \in IndirectBranches(blks) THEN targets[a] ELSE
                          IF a \in image.mapped THEN image.succ[a] ELSE {}])

\* applyResolutions: a branch gets its known targets when all are blocks now.
applyResolutions(blks, edges) ==
  [b \in Addr |-> IF b \in IndirectBranches(blks) /\ edges[b] \subseteq blks
                  THEN edges[b] ELSE {}]

Candidates(b, reachable) ==
  IF image.gate[b] \in reachable THEN image.after[b] ELSE image.before[b]

\* What resolve-indirect does to a graph: only branches without targets are
\* looked at, and one resolves only when every candidate is a block.
Open(blks, targets) == {b \in IndirectBranches(blks) : targets[b] = {}}

CandidatesIn(blks, targets) ==
  LET reachable == reachableBlocks(blks, targets) IN
  [b \in Addr |-> IF b \in Open(blks, targets) THEN Candidates(b, reachable) ELSE {}]

resolveIndirect(blks, targets) ==
  LET cands == CandidatesIn(blks, targets) IN
  [b \in Addr |-> IF cands[b] \subseteq blks THEN targets[b] \cup cands[b] ELSE targets[b]]

\* Branches whose Discovery the probe's sink takes, given the candidates.
Discovered(blks, cands) ==
  {b \in Addr :
     LET missing == cands[b] \ blks IN
     /\ missing # {}
     /\ \/ options.maxDiscoveryPerBranch = 0
        \/ Cardinality(missing) <= options.maxDiscoveryPerBranch}

\* Mutant: over the per-branch cap the edge is dropped but not the addresses.
DiscoveriesPastCap(blks, cands) == UNION {cands[b] \ blks : b \in Addr}

\* Probe::discoveries
DiscoveriesOf(blks, cands) == UNION {cands[b] \ blks : b \in Discovered(blks, cands)}

(***************************************************************************)
(* Admission and accumulation.                                             *)
(***************************************************************************)
\* What admitDiscoveries adds to known: the lowest fresh addresses inside an
\* enforced fence that fit under maxTotalEntries.
Fresh(discoveries) == (discoveries \cap options.fence) \ known

Admitted(discoveries) ==
  {va \in Fresh(discoveries) :
     Cardinality(known) + Cardinality({x \in Fresh(discoveries) : x < va})
       < options.maxTotalEntries}

\* absorb: targets accumulate, and only what is new counts as progress.
absorb(edges, found) == [b \in Addr |-> edges[b] \cup found[b]]

\* What one pass over the graph blks finds: addresses, and the edges it leaves
\* proved (harvested, or pending until their targets are lifted).
Findings(blks) == DiscoveriesOf(blks, CandidatesIn(blks, applyResolutions(blks, resolved)))

EdgesAfter(blks) ==
  LET applied == applyResolutions(blks, resolved)
      cands == CandidatesIn(blks, applied)
      pending == [b \in Addr |-> IF b \in Discovered(blks, cands) THEN cands[b] ELSE {}]
  IN absorb(absorb(resolved, resolveIndirect(blks, applied)), pending)

\* Mutant: refused targets count as stuck too.
stuckThoughRefused == \E b \in Addr : ~(resolved[b] \subseteq blocks)

\* Mutant: nothing is ever stuck.
neverStuck == FALSE

\* hasStuckResolution: an admitted target of a proved edge without a block.
hasStuckResolution == \E b \in Addr : \E t \in resolved[b] : t \in known /\ t \notin blocks

----------------------------------------------------------------------------

Init ==
  /\ image \in Images
  /\ options \in Options
  /\ job = [interrupts |-> 0, soft |-> FALSE, hard |-> FALSE, cancel |-> FALSE]
  /\ control = "top"
  /\ known = {Entry}
  /\ resolved = [b \in Addr |-> {}]
  /\ blocks = {}
  /\ round = 0
  /\ budget = IF options.maxRounds < RoundCeiling THEN options.maxRounds ELSE RoundCeiling
  /\ settle = 0
  /\ passNew = FALSE /\ foundNew = FALSE /\ foundEdges = FALSE
  /\ stop = "none" /\ result = "none"
  /\ capped = {} /\ late = 0

\* finish(stop) begins: the reason is recorded, the final lift comes next.
Finishing(why) == stop' = why /\ control' = "finish"

Returns(what) == result' = what /\ control' = "done"

(***************************************************************************)
(* The head of the round loop: the budget, the wind-down check (not before *)
(* round 1), the fresh lift, and the way out for a target that needs no    *)
(* discovery.                                                              *)
(***************************************************************************)
OutOfRounds ==
  /\ control = "top"
  /\ round >= budget
  /\ Finishing("RoundCap")
  /\ UNCHANGED <<inputs, job, proved, blocks, counters, result, late>>

WindDownAtRound ==
  /\ control = "top"
  /\ round < budget
  /\ round > 0 /\ windDownRequested
  /\ Finishing("WindDown")
  /\ UNCHANGED <<inputs, job, proved, blocks, counters, result, late>>

\* The lift at the head of a round or between two passes.
Lifts ==
  /\ Checkpoint
  /\ Entry \in image.mapped
  /\ blocks' = liftKnown(known)

\* Mutant: the round's tallies are declared outside the loop.
KeepsTallies == UNCHANGED <<passNew, foundNew, foundEdges>>

ResetsTallies == passNew' = FALSE /\ foundNew' = FALSE /\ foundEdges' = FALSE

BeginRound ==
  /\ control = "top"
  /\ round < budget
  /\ round = 0 \/ ~windDownRequested
  /\ Lifts
  /\ \/ /\ options.needsDiscovery
        /\ control' = "settle"
        /\ settle' = 0 /\ ResetsTallies
        /\ UNCHANGED <<stop, result>>
     \/ /\ ~options.needsDiscovery
        /\ stop' = "NoDiscovery"
        /\ Returns("function")
        /\ UNCHANGED <<settle, passNew, foundNew, foundEdges>>
  /\ UNCHANGED <<inputs, job, proved, round, budget, late>>

(***************************************************************************)
(* One settle pass: re-apply the proved edges at Cfg, probe at Ssa, admit  *)
(* the discoveries, harvest and absorb the edges.  The passes throw at     *)
(* their checkpoints; nothing the pass learned is kept when they do.       *)
(***************************************************************************)
SettlePass ==
  /\ control = "settle"
  /\ Checkpoint
  /\ passNew' = (Admitted(Findings(blocks)) # {})
  /\ known' = known \cup Admitted(Findings(blocks))
  /\ capped' = capped \cup (Fresh(Findings(blocks)) \ Admitted(Findings(blocks)))
  /\ resolved' = EdgesAfter(blocks)
  /\ foundNew' = (foundNew \/ passNew')
  /\ foundEdges' = (foundEdges \/ resolved' # resolved)
  /\ control' = "passed"
  /\ late' = late + (IF windDownRequested THEN 1 ELSE 0)
  /\ UNCHANGED <<inputs, job, blocks, round, budget, settle, stop, result>>

\* Nothing this pass admitted needs lifting.
Settled ==
  /\ control = "passed"
  /\ ~passNew
  /\ control' = "decide"
  /\ UNCHANGED <<inputs, job, proved, blocks, counters, stop, result, late>>

WindDownAfterPass ==
  /\ control = "passed"
  /\ passNew
  /\ windDownRequested
  /\ Finishing("WindDown")
  /\ UNCHANGED <<inputs, job, proved, blocks, counters, result, late>>

\* Mutant: the relift does not look at the request.
ReliftRegardless ==
  /\ control = "passed"
  /\ passNew
  /\ Lifts
  /\ settle' = settle + 1
  /\ control' = IF settle + 1 < SettleCeiling THEN "settle" ELSE "decide"
  /\ UNCHANGED <<inputs, job, proved, round, budget, passNew, foundNew, foundEdges,
                 stop, result, late>>

Relift ==
  /\ control = "passed"
  /\ passNew
  /\ ~windDownRequested
  /\ Lifts
  /\ settle' = settle + 1
  /\ control' = IF settle + 1 < SettleCeiling THEN "settle" ELSE "decide"
  /\ UNCHANGED <<inputs, job, proved, round, budget, passNew, foundNew, foundEdges,
                 stop, result, late>>

(***************************************************************************)
(* The end of a round.                                                     *)
(***************************************************************************)
NothingFound == ~foundNew /\ ~foundEdges

Converges ==
  /\ control = "decide"
  /\ NothingFound
  /\ Finishing(IF hasStuckResolution THEN "StuckResolution" ELSE "Converged")
  /\ UNCHANGED <<inputs, job, proved, blocks, counters, result, late>>

ExtendedBudget ==
  IF round + 1 = budget /\ options.extendWhileProving /\ budget < RoundCeiling
  THEN budget + 1 ELSE budget

NextRound ==
  /\ control = "decide"
  /\ ~NothingFound
  /\ budget' = ExtendedBudget
  /\ round' = round + 1
  /\ control' = "top"
  /\ UNCHANGED <<inputs, job, proved, blocks, settle, passNew, foundNew, foundEdges,
                 stop, result, late>>

(***************************************************************************)
(* The final run: a fresh lift, the proved edges, resolve-indirect once    *)
(* more, then sealing or the verifier's demand that no reachable branch is *)
(* left open.                                                              *)
(***************************************************************************)
FinalTargets(blks) == resolveIndirect(blks, applyResolutions(blks, resolved))

Holes(blks) ==
  Open(blks, FinalTargets(blks)) \cap reachableBlocks(blks, FinalTargets(blks))

Seals == options.sealUnresolvedBranches \/ stop = "WindDown"

Finish ==
  /\ control = "finish"
  /\ Lifts
  /\ Returns(IF ~options.needsDiscovery \/ Holes(blocks') = {} \/ Seals
             THEN "function" ELSE "unresolved")
  /\ UNCHANGED <<inputs, job, proved, counters, stop, late>>

\* A checkpoint of a lift or of a pass throws; catchStop turns it into a
\* Cancelled or a Timeout diagnostic.
Stopped ==
  /\ control \in {"top", "settle", "passed", "finish"}
  /\ control = "top" => round < budget /\ (round = 0 \/ ~windDownRequested)
  /\ control = "passed" => passNew /\ ~windDownRequested
  /\ ~Checkpoint
  /\ Returns(stopReason)
  /\ UNCHANGED <<inputs, job, proved, blocks, counters, stop, late>>

\* A lift or a pass returns an error of its own (an unmapped entry always
\* does): XDEC_TRY hands it to the caller.
Fails ==
  /\ control \in {"top", "settle", "passed", "finish"}
  /\ control = "top" => round < budget /\ (round = 0 \/ ~windDownRequested)
  /\ control = "passed" => passNew /\ ~windDownRequested
  /\ Checkpoint
  /\ Returns("error")
  /\ UNCHANGED <<inputs, job, proved, blocks, counters, stop, late>>

----------------------------------------------------------------------------
(***************************************************************************)
(* The job's other users: Ctrl+C, the clock, a canceller.                  *)
(***************************************************************************)
Running == control # "done"
JobOnly ==
  UNCHANGED <<inputs, control, proved, blocks, counters, stop, result, late>>

Interrupt ==
  /\ Running
  /\ "interrupt" \in StopRequests
  /\ job.interrupts < 2
  /\ job' = [job EXCEPT !.interrupts = @ + 1]
  /\ JobOnly

SoftDeadline ==
  /\ Running
  /\ "soft" \in StopRequests /\ ~job.soft
  /\ job' = [job EXCEPT !.soft = TRUE]
  /\ JobOnly

HardDeadline ==
  /\ Running
  /\ "hard" \in StopRequests /\ ~job.hard
  /\ job' = [job EXCEPT !.hard = TRUE]
  /\ JobOnly

RequestCancel ==
  /\ Running
  /\ "cancel" \in StopRequests /\ ~job.cancel
  /\ job' = [job EXCEPT !.cancel = TRUE]
  /\ JobOnly

Terminated == control = "done" /\ UNCHANGED vars

RoundStep == OutOfRounds \/ WindDownAtRound \/ BeginRound \/ Converges \/ NextRound
PassStep == SettlePass \/ Settled \/ WindDownAfterPass \/ Relift
EndStep == Finish \/ Stopped \/ Fails
JobStep == Interrupt \/ SoftDeadline \/ HardDeadline \/ RequestCancel

Next == RoundStep \/ PassStep \/ EndStep \/ JobStep \/ Terminated

Spec == Init /\ [][Next]_vars

----------------------------------------------------------------------------
(***************************************************************************)
(* Properties.                                                             *)
(***************************************************************************)
\* The round counter stays within a budget that the ceiling bounds, and every
\* field has its type.
TypeOK ==
  /\ ImageOK(image) /\ OptionsOK(options)
  /\ job.interrupts \in 0..2
  /\ job.soft \in BOOLEAN /\ job.hard \in BOOLEAN /\ job.cancel \in BOOLEAN
  /\ control \in {"top", "settle", "passed", "decide", "finish", "done"}
  /\ known \subseteq Addr /\ blocks \subseteq Addr /\ capped \subseteq Addr
  /\ resolved \in [Addr -> SUBSET Addr]
  /\ budget \in 0..RoundCeiling
  /\ round \in 0..budget
  /\ settle \in 0..SettleCeiling
  /\ passNew \in BOOLEAN /\ foundNew \in BOOLEAN /\ foundEdges \in BOOLEAN
  /\ stop \in {"none", "Converged", "RoundCap", "StuckResolution", "WindDown",
               "NoDiscovery"}
  /\ result \in {"none", "function", "unresolved", "error", "Cancelled", "Timeout"}
  /\ late \in Nat

Edges == {e \in Addr \X Addr : e[2] \in resolved[e[1]]}

\* The loop does not spin: every round that is followed by another one admitted
\* an address or proved an edge nobody had proved before (driver.cpp absorb,
\* the decision after the settle loop).
EveryRoundProves == round + 1 <= Cardinality(known) + Cardinality(Edges)

\* When the driver declares convergence, a branch its graph leaves open is one
\* whose candidates were all carried as edges, and each candidate without a
\* block was refused by the fence or by the entry cap - never one a further
\* lift, pass or round would have opened (driver.cpp:580-593).
ConvergedExplained ==
  control = "finish" /\ stop = "Converged" =>
    LET applied == applyResolutions(blocks, resolved)
        cands == CandidatesIn(blocks, applied)
    IN \A b \in Open(blocks, applied) :
         cands[b] \subseteq blocks \/ b \in Discovered(blocks, cands) =>
           /\ cands[b] \subseteq resolved[b]
           /\ (cands[b] \ blocks) \cap options.fence \subseteq capped

\* "Stuck" is permanent: some proved target that was admitted does not read and
\* has no block in a fresh lift, and no further pass or round would change that,
\* because one more pass would admit and prove nothing (driver.cpp:330-337).
StuckIsPermanent ==
  stop = "StuckResolution" =>
    /\ \E b \in Addr : \E t \in resolved[b] :
         t \in known /\ t \notin image.mapped /\ t \notin liftKnown(known)
    /\ Admitted(Findings(liftKnown(known))) = {}
    /\ EdgesAfter(liftKnown(known)) = resolved

\* Every address lifted beyond the entry is the target of an edge the driver
\* carries: nothing is lifted for a branch whose candidate set was declined
\* (Probe::run, maxDiscoveryPerBranch).
KnownJustified == \A va \in known \ {Entry} : \E b \in Addr : va \in resolved[b]

\* After a wind-down request at most one more settle pass begins, wherever in
\* the loop the request arrives (driver.cpp:459, 562).
PromptWindDown == late <= 1

\* "the run finishes with what it proved, reported as partial" (job.h): a run
\* cut short with a wind-down request in force is never failed for a branch
\* discovery did not get to, whichever bound ends its rounds.
WindDownYields ==
  late > 0 /\ stop \notin {"Converged", "StuckResolution"} => result # "unresolved"

\* A round proves and never disproves: admitted addresses and proved edges only
\* accumulate (driver.cpp absorb, admitDiscoveries).
NeverDisproves ==
  [][/\ known \subseteq known'
     /\ \A b \in Addr : resolved[b] \subseteq resolved'[b]]_vars
=============================================================================
