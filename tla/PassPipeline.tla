---------------------------- MODULE PassPipeline ----------------------------
(***************************************************************************)
(* The pass framework (src/src/pass): passes are registered, a pipeline    *)
(* between two maturities is resolved from their metadata, and the manager *)
(* runs it, verifying the function at every pass boundary.                 *)
(*                                                                         *)
(* A pass is its PassInfo.  What run() does to the function is abstracted  *)
(* to its answer (error, changed, unchanged) and to whether the function   *)
(* then satisfies the invariants of the level the pass claims to produce.  *)
(***************************************************************************)
EXTENDS Integers, Sequences, FiniteSets

CONSTANTS
  MaxMaturity,     \* maturities are 0..MaxMaturity
  Offered,         \* Offered[n]: the PassInfos that may be registered as n-th
  Fixpoints,       \* names of the passes that ask to be iterated
  FixpointLimit,   \* Manager::kFixpointLimit
  HandLimit        \* longest hand-assembled pipeline

Maturity == 0..MaxMaturity
None == -1

ASSUME MaturityAssumption == MaxMaturity \in Nat
ASSUME LimitAssumption == FixpointLimit \in Nat \ {0} /\ HandLimit \in Nat
ASSUME OfferedAssumption ==
  \A n \in DOMAIN Offered : \A info \in Offered[n] :
    info.level \in Maturity /\ info.produces \in Maturity

VARIABLES
  passes,      \* Registry::passes_, in registration order
  phase,       \* "idle", "resolve", "run", "pass", "verify", "over"
  offers,      \* how many registrations were attempted
  maturity,    \* the function's recorded maturity
  sound,       \* the function satisfies the invariants of that maturity
  target,      \* where runTo goes, or None for a hand-assembled pipeline
  pipeline,    \* resolved so far, then running
  next,        \* index of the pass being run
  iterations,  \* of the pass being run
  changed,     \* what its last run() answered
  outcome      \* "none", "ok" or the kind of error

pipelineVars == <<passes, phase, offers, maturity, sound, target, pipeline, next,
                  iterations, changed, outcome>>
registry == <<passes, offers>>
function == <<maturity, sound>>
slot == <<next, iterations, changed>>

Registered == {passes[i] : i \in DOMAIN passes}
Named(name) == {p \in Registered : p.name = name}
InPipeline == {pipeline[i] : i \in DOMAIN pipeline}
Position(p) == CHOOSE i \in DOMAIN passes : passes[i] = p

(***************************************************************************)
(* Registry::resolve, for a walk between two maturities.                   *)
(***************************************************************************)
PassCandidates(from, to) == {p \in Registered : p.level >= from /\ p.produces <= to}

\* Mutant: a requirement behind the walk still has to be met by it.
WiredAlways(p, from) == {r \in Registered : r.name \in p.requirements}

\* Requirements of p that the walk itself has to meet; one whose level is behind
\* the start counts as met.
Wired(p, from) == {r \in Registered : r.name \in p.requirements /\ r.level >= from}

UnknownRequirement(from, to) ==
  \E p \in PassCandidates(from, to) : \E name \in p.requirements : Named(name) = {}
BeyondTarget(from, to) ==
  \E p \in PassCandidates(from, to) : \E r \in Wired(p, from) : r.produces > to

Ready ==
  {p \in PassCandidates(maturity, target) \ InPipeline : Wired(p, maturity) \subseteq InPipeline}

\* Mutant: at one level registration order alone decides.
BeforeByRegistration(p, q) ==
  \/ p.level < q.level
  \/ p.level = q.level /\ Position(p) < Position(q)

\* The deterministic ready order: lower level, then staying before advancing,
\* then registration.
Before(p, q) ==
  \/ p.level < q.level
  \/ p.level = q.level /\ p.produces < q.produces
  \/ p.level = q.level /\ p.produces = q.produces /\ Position(p) < Position(q)

\* Where a function starting at from is after the first n passes of a pipeline.
At(pipe, from, n) == IF n = 0 THEN from ELSE pipe[n].produces

Gap(pipe, from) == \E i \in DOMAIN pipe : pipe[i].level # At(pipe, from, i - 1)
Short(pipe, from, to) == At(pipe, from, Len(pipe)) # to

----------------------------------------------------------------------------
PipelineInit ==
  /\ passes = <<>> /\ offers = 0
  /\ phase = "idle"
  /\ maturity = 0 /\ sound = TRUE
  /\ target = None
  /\ pipeline = <<>> /\ next = 1 /\ iterations = 0 /\ changed = FALSE
  /\ outcome = "none"

Refuses(info) == info.produces < info.level \/ Named(info.name) # {}

\* Registry::add; a refused pass leaves the registry as it was.
Add ==
  /\ phase = "idle"
  /\ offers + 1 \in DOMAIN Offered
  /\ offers' = offers + 1
  /\ \E info \in Offered[offers + 1] :
       passes' = IF Refuses(info) THEN passes ELSE Append(passes, info)
  /\ UNCHANGED <<phase, function, target, pipeline, slot, outcome>>

\* Manager::runTo on a function at maturity m: the checks resolve makes before
\* it starts ordering.
RunTo(m, t) ==
  /\ phase = "idle"
  /\ maturity' = m /\ target' = t
  /\ phase' = "resolve"
  /\ UNCHANGED <<registry, sound, pipeline, slot, outcome>>

Over(why) == phase' = "over" /\ outcome' = why

ResolveRejects ==
  /\ phase = "resolve" /\ pipeline = <<>>
  /\ maturity > target \/ UnknownRequirement(maturity, target) \/ BeyondTarget(maturity, target)
  /\ Over(IF maturity > target THEN "backwards"
          ELSE IF UnknownRequirement(maturity, target) THEN "unknown" ELSE "beyond")
  /\ UNCHANGED <<registry, function, target, pipeline, slot>>

Orderable ==
  /\ maturity <= target
  /\ ~UnknownRequirement(maturity, target) /\ ~BeyondTarget(maturity, target)

\* Kahn's algorithm: the first ready pass in Before order is next.
ResolveStep ==
  /\ phase = "resolve" /\ Orderable
  /\ \E p \in Ready :
       /\ \A q \in Ready \ {p} : Before(p, q)
       /\ pipeline' = Append(pipeline, p)
  /\ UNCHANGED <<registry, phase, function, target, slot, outcome>>

ResolveDone ==
  /\ phase = "resolve" /\ Orderable
  /\ Ready = {}
  /\ IF PassCandidates(maturity, target) # InPipeline THEN Over("cycle")
     ELSE IF Gap(pipeline, maturity) THEN Over("gap")
     ELSE IF Short(pipeline, maturity, target) THEN Over("short")
     ELSE phase' = "run" /\ UNCHANGED outcome
  /\ UNCHANGED <<registry, function, target, pipeline, slot>>

(***************************************************************************)
(* Manager::run.                                                           *)
(***************************************************************************)
\* A pipeline somebody assembled by hand.
RunByHand ==
  /\ phase = "idle"
  /\ maturity' \in Maturity
  /\ \E n \in 1..HandLimit : pipeline' \in [1..n -> Registered]
  /\ phase' = "run"
  /\ UNCHANGED <<registry, sound, target, slot, outcome>>

CurrentPass == pipeline[next]

AtItsLevel(p) == maturity = p.level

BeginPass ==
  /\ phase = "run" /\ next <= Len(pipeline)
  /\ IF AtItsLevel(CurrentPass) THEN phase' = "pass" /\ UNCHANGED outcome
     ELSE Over("level")
  /\ iterations' = 0 /\ changed' = FALSE
  /\ UNCHANGED <<registry, function, target, pipeline, next>>

\* Whether the do-while goes round again after an iteration.
Again(answer) == CurrentPass.name \in Fixpoints /\ answer

\* One call of run(): it may rewrite the function, so the invariants of the
\* recorded maturity are no longer known to hold.
Iterate ==
  /\ phase = "pass"
  /\ \E answer \in BOOLEAN :
       /\ changed' = answer
       /\ iterations' = iterations + 1
       /\ IF Again(answer) /\ iterations + 1 >= FixpointLimit THEN Over("limit")
          ELSE /\ phase' = IF Again(answer) THEN "pass" ELSE "verify"
               /\ UNCHANGED outcome
  /\ sound' = FALSE
  /\ UNCHANGED <<registry, maturity, target, pipeline, next>>

\* run() reports an error, or a checkpoint throws, between two iterations.
PassFails ==
  /\ phase = "pass"
  /\ \E kind \in {"error", "stopped"} : Over(kind)
  /\ sound' \in BOOLEAN
  /\ UNCHANGED <<registry, maturity, target, pipeline, slot>>

\* Mutant: a pass that reports no change is not verified.
AcceptedUnchanged(verifies) == verifies \/ ~changed

Accepted(verifies) == verifies

\* il::verify at the produced level, then the maturity advances.
Verify ==
  /\ phase = "verify"
  /\ \E verifies \in BOOLEAN :
       /\ sound' = verifies
       /\ IF Accepted(verifies)
          THEN /\ maturity' = CurrentPass.produces
               /\ next' = next + 1
               /\ phase' = "run"
               /\ UNCHANGED outcome
          ELSE Over("verify") /\ UNCHANGED <<maturity, next>>
  /\ UNCHANGED <<registry, target, pipeline, iterations, changed>>

PipelineDone ==
  /\ phase = "run" /\ next > Len(pipeline)
  /\ Over("ok")
  /\ UNCHANGED <<registry, function, target, pipeline, slot>>

PipelineNext ==
  \/ Add
  \/ \E m, t \in Maturity : RunTo(m, t)
  \/ ResolveRejects \/ ResolveStep \/ ResolveDone
  \/ RunByHand \/ BeginPass \/ Iterate \/ PassFails \/ Verify \/ PipelineDone
  \/ phase = "over" /\ UNCHANGED pipelineVars

PipelineSpec == PipelineInit /\ [][PipelineNext]_pipelineVars

----------------------------------------------------------------------------
(***************************************************************************)
(* Properties.                                                             *)
(***************************************************************************)
\* Names identify passes, and counters stay in their ranges.
PipelineTypeOK ==
  /\ \A i, j \in DOMAIN passes : passes[i].name = passes[j].name => i = j
  /\ \A i \in DOMAIN passes : passes[i].level <= passes[i].produces
  /\ phase \in {"idle", "resolve", "run", "pass", "verify", "over"}
  /\ maturity \in Maturity /\ sound \in BOOLEAN /\ changed \in BOOLEAN
  /\ target \in Maturity \cup {None}
  /\ InPipeline \subseteq Registered
  /\ next \in 1..(Len(pipeline) + 1)
  /\ iterations \in 0..FixpointLimit
  /\ outcome \in {"none", "ok", "backwards", "unknown", "beyond", "cycle", "gap", "short",
                  "level", "limit", "error", "stopped", "verify"}

\* What a pipeline between two maturities has to be: every usable pass once,
\* requirements first, each pass finding the function at its level.
ValidOrder(pipe, from, to) ==
  /\ {pipe[i] : i \in DOMAIN pipe} = PassCandidates(from, to)
  /\ \A i, j \in DOMAIN pipe : pipe[i] = pipe[j] => i = j
  /\ \A i \in DOMAIN pipe : Wired(pipe[i], from) \subseteq {pipe[j] : j \in 1..(i - 1)}
  /\ \A i \in DOMAIN pipe : pipe[i].level = At(pipe, from, i - 1)
  /\ At(pipe, from, Len(pipe)) = to

Resolvable(from, to) ==
  /\ ~UnknownRequirement(from, to) /\ ~BeyondTarget(from, to)
  /\ \E pipe \in [1..Cardinality(PassCandidates(from, to)) -> PassCandidates(from, to)] :
       ValidOrder(pipe, from, to)

JustResolved == phase = "run" /\ next = 1 /\ target # None

\* A resolved pipeline is a valid order of all usable passes (registry.cpp
\* resolve: requirement edges, ready order, maturity walk).
ResolvedIsValid == JustResolved => ValidOrder(pipeline, maturity, target)

\* The greedy ready order loses nothing: resolve reports a cycle, a gap or a
\* missing bridge only when no order of the usable passes would do.
ResolveComplete ==
  outcome \in {"cycle", "gap", "short"} => ~Resolvable(maturity, target)

\* The driver stops every pipeline at Cfg to put edges back (driver.cpp:408,
\* 514): a walk that resolves as a whole also resolves as two walks that meet
\* at any maturity it passes through.
SplitResolves ==
  JustResolved =>
    \A i \in DOMAIN pipeline :
      LET mid == pipeline[i].produces IN
      Resolvable(maturity, mid) /\ Resolvable(mid, target)

\* A run that succeeds leaves a function verified at its recorded maturity, and
\* runTo leaves it at the target (manager.cpp run).
OkIsVerified == outcome = "ok" => sound /\ (target # None => maturity = target)

\* Maturity is a ratchet: no pass, hand-assembled pipelines included, takes a
\* function back to a lower level (manager.cpp:50-53, registry.cpp:16).
MaturityRatchet == [][phase # "idle" => maturity' >= maturity]_pipelineVars
=============================================================================
