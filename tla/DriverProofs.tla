---------------------------- MODULE DriverProofs ----------------------------
(***************************************************************************)
(* Proofs about the discovery loop, for every image, every options record, *)
(* every pair of ceilings and every pattern of stop requests.              *)
(***************************************************************************)
EXTENDS Driver, FiniteSetTheorems, TLAPS

Controls == {"top", "settle", "passed", "decide", "finish", "done"}
Stops == {"none", "Converged", "RoundCap", "StuckResolution", "WindDown", "NoDiscovery"}
Results == {"none", "function", "unresolved", "error", "Cancelled", "Timeout"}
Jobs == [interrupts : 0..2, soft : BOOLEAN, hard : BOOLEAN, cancel : BOOLEAN]

\* What the loop carries.
CarriedOK ==
  /\ known \subseteq Addr /\ blocks \subseteq Addr /\ capped \subseteq Addr
  /\ resolved \in [Addr -> SUBSET Addr]

\* The loop counters: inside a round there is still budget, inside the settle
\* loop there is still a pass to run.
CountersOK ==
  /\ control \in Controls
  /\ budget \in Nat /\ budget <= RoundCeiling
  /\ round \in Nat /\ round <= budget
  /\ control \in {"settle", "passed", "decide"} => round < budget
  /\ settle \in Nat /\ settle <= SettleCeiling
  /\ control \in {"settle", "passed"} => settle < SettleCeiling

TalliesOK == passNew \in BOOLEAN /\ foundNew \in BOOLEAN /\ foundEdges \in BOOLEAN

\* A pass that begins late leaves the request in force, and nothing begins a
\* pass or a round while it is.
LateOK ==
  /\ late \in Nat
  /\ late > 0 => windDownRequested
  /\ control = "settle" => late = 0
  /\ control = "top" /\ round = 0 => late = 0

EndsOK ==
  /\ stop \in Stops /\ result \in Results
  /\ control # "done" => result = "none"

\* The inductive invariant.
IndInv ==
  /\ image \in Images /\ options \in Options
  /\ job \in Jobs
  /\ CarriedOK
  /\ CountersOK
  /\ TalliesOK
  /\ LateOK
  /\ EndsOK
  /\ KnownJustified
  /\ PromptWindDown

(***************************************************************************)
(* The operators of one pass.                                              *)
(***************************************************************************)
\* Lifting only creates blocks at addresses.
LEMMA LiftType ==
  ASSUME NEW E PROVE liftKnown(E) \subseteq Addr
  BY DEF liftKnown, Closure

\* applyResolutions keeps the shape of the edge map.
LEMMA ApplyType ==
  ASSUME NEW B, NEW R \in [Addr -> SUBSET Addr]
  PROVE  applyResolutions(B, R) \in [Addr -> SUBSET Addr]
  BY DEF applyResolutions

\* The candidates of every branch are addresses.
LEMMA CandidatesType ==
  ASSUME image \in Images, NEW B, NEW T
  PROVE  CandidatesIn(B, T) \in [Addr -> SUBSET Addr]
<1>1. ImageOK(image)
  BY ImagesAssumption
<1>2. ASSUME NEW b \in Addr, NEW R PROVE Candidates(b, R) \subseteq Addr
  BY <1>1 DEF Candidates, ImageOK
<1>3. QED
  BY <1>2 DEF CandidatesIn

\* So are the targets resolve-indirect leaves behind.
LEMMA ResolveType ==
  ASSUME image \in Images, NEW B, NEW T \in [Addr -> SUBSET Addr]
  PROVE  resolveIndirect(B, T) \in [Addr -> SUBSET Addr]
  BY CandidatesType DEF resolveIndirect

\* absorb only adds, and adds everything it is given.
LEMMA AbsorbGrows ==
  ASSUME NEW R \in [Addr -> SUBSET Addr], NEW F \in [Addr -> SUBSET Addr]
  PROVE  /\ absorb(R, F) \in [Addr -> SUBSET Addr]
         /\ \A b \in Addr : R[b] \subseteq absorb(R, F)[b] /\ F[b] \subseteq absorb(R, F)[b]
  BY DEF absorb

(***************************************************************************)
(* What one settle pass does to the carried state.                         *)
(***************************************************************************)
LEMMA PassCarries ==
  ASSUME IndInv, SettlePass
  PROVE  /\ known' \subseteq Addr /\ known \subseteq known'
         /\ capped' \subseteq Addr
         /\ resolved' \in [Addr -> SUBSET Addr]
         /\ \A b \in Addr : resolved[b] \subseteq resolved'[b]
         /\ KnownJustified'
<1> DEFINE applied == applyResolutions(blocks, resolved)
           cands == CandidatesIn(blocks, applied)
           discoveries == DiscoveriesOf(blocks, cands)
           harvest == resolveIndirect(blocks, applied)
           pending == [b \in Addr |-> IF b \in Discovered(blocks, cands)
                                      THEN cands[b] ELSE {}]
<1>1. /\ known' = known \cup Admitted(discoveries)
      /\ capped' = capped \cup (Fresh(discoveries) \ Admitted(discoveries))
      /\ resolved' = absorb(absorb(resolved, harvest), pending)
  BY DEF SettlePass, Findings, EdgesAfter
<1>2. /\ image \in Images
      /\ known \subseteq Addr /\ capped \subseteq Addr
      /\ resolved \in [Addr -> SUBSET Addr]
      /\ KnownJustified
  BY DEF IndInv, CarriedOK
<1>3. applied \in [Addr -> SUBSET Addr]
  BY <1>2, ApplyType
<1>4. cands \in [Addr -> SUBSET Addr]
  BY <1>2, CandidatesType
<1>5. harvest \in [Addr -> SUBSET Addr]
  BY <1>2, <1>3, ResolveType
<1>6. pending \in [Addr -> SUBSET Addr]
  BY <1>4
<1>7. discoveries \subseteq Addr
  BY <1>4 DEF DiscoveriesOf, Discovered
<1>8. Admitted(discoveries) \subseteq discoveries /\ Fresh(discoveries) \subseteq discoveries
  BY DEF Admitted, Fresh
<1> HIDE DEF applied, cands, discoveries, harvest
<1>9. /\ resolved' \in [Addr -> SUBSET Addr]
      /\ \A b \in Addr : resolved[b] \subseteq resolved'[b] /\ pending[b] \subseteq resolved'[b]
  <2> DEFINE once == absorb(resolved, harvest)
  <2>1. /\ once \in [Addr -> SUBSET Addr]
        /\ \A b \in Addr : resolved[b] \subseteq once[b]
    BY <1>2, <1>5, AbsorbGrows
  <2> HIDE DEF once, pending
  <2>2. /\ absorb(once, pending) \in [Addr -> SUBSET Addr]
        /\ \A b \in Addr : /\ once[b] \subseteq absorb(once, pending)[b]
                           /\ pending[b] \subseteq absorb(once, pending)[b]
    BY <2>1, <1>6, AbsorbGrows
  <2>3. resolved' = absorb(once, pending)
    BY <1>1 DEF once
  <2>4. QED
    BY <2>1, <2>2, <2>3
<1>10. ASSUME NEW va \in known' \ {Entry} PROVE \E b \in Addr : va \in resolved'[b]
  <2>1. CASE va \in known
    BY <2>1, <1>2, <1>9, <1>10 DEF KnownJustified
  <2>2. CASE va \notin known
    <3>1. va \in discoveries
      BY <2>2, <1>1, <1>8, <1>10
    <3>2. PICK b \in Discovered(blocks, cands) : va \in cands[b]
      BY <3>1 DEF DiscoveriesOf, discoveries
    <3>3. b \in Addr
      BY <3>2 DEF Discovered
    <3>4. va \in pending[b]
      BY <3>2, <3>3
    <3>5. QED
      BY <3>3, <3>4, <1>9
  <2>3. QED
    BY <2>1, <2>2
<1>11. QED
  BY <1>1, <1>2, <1>7, <1>8, <1>9, <1>10 DEF KnownJustified

(***************************************************************************)
(* Every step preserves the invariant.                                     *)
(***************************************************************************)
\* A request, once made, stays in force: the job only ever moves forward.
LEMMA RequestsStay ==
  ASSUME IndInv, JobStep
  PROVE  job' \in Jobs /\ (windDownRequested => windDownRequested')
<1>1. job \in Jobs
  BY DEF IndInv
<1>2. CASE Interrupt
  BY <1>1, <1>2 DEF Interrupt, Jobs, windDownRequested, stopReason
<1>3. CASE SoftDeadline
  BY <1>1, <1>3 DEF SoftDeadline, Jobs, windDownRequested, stopReason
<1>4. CASE HardDeadline
  BY <1>1, <1>4 DEF HardDeadline, Jobs, windDownRequested, stopReason
<1>5. CASE RequestCancel
  BY <1>1, <1>5 DEF RequestCancel, Jobs, windDownRequested, stopReason
<1>6. QED
  BY <1>2, <1>3, <1>4, <1>5 DEF JobStep

\* Every program starts in the invariant.
LEMMA InitInv == Init => IndInv
<1> SUFFICES ASSUME Init PROVE IndInv
  OBVIOUS
<1>1. image \in Images /\ options \in Options /\ job \in Jobs
  BY DEF Init, Jobs
<1>2. CarriedOK /\ KnownJustified
  BY AddrAssumption DEF Init, CarriedOK, KnownJustified
<1>3. options.maxRounds \in Nat
  BY <1>1, OptionsAssumption DEF OptionsOK
<1>4. CountersOK
  BY <1>3, CeilingAssumption DEF Init, CountersOK, Controls
<1>4a. TalliesOK
  BY DEF Init, TalliesOK
<1>5. LateOK /\ EndsOK /\ PromptWindDown
  BY DEF Init, LateOK, EndsOK, PromptWindDown, Stops, Results
<1>6. QED
  BY <1>1, <1>2, <1>4, <1>5, <1>4a DEF IndInv

\* What no step but a settle pass touches.
Kept == UNCHANGED <<inputs, job, proved>>

LEMMA KeptCarries ==
  ASSUME IndInv, Kept, blocks' \subseteq Addr
  PROVE  /\ image' \in Images /\ options' \in Options /\ job' \in Jobs
         /\ CarriedOK' /\ KnownJustified'
         /\ (windDownRequested' <=> windDownRequested)
  BY DEF IndInv, Kept, inputs, proved, CarriedOK, KnownJustified, windDownRequested, stopReason

LEMMA RoundInv ==
  ASSUME IndInv, RoundStep
  PROVE  IndInv'
<1>1. Kept /\ blocks' \subseteq Addr
  BY LiftType DEF RoundStep, OutOfRounds, WindDownAtRound, BeginRound, Converges, NextRound,
     Kept, Lifts, proved, inputs, IndInv, CarriedOK
<1>2. /\ image' \in Images /\ options' \in Options /\ job' \in Jobs
      /\ CarriedOK' /\ KnownJustified'
      /\ (windDownRequested' <=> windDownRequested)
  BY <1>1, KeptCarries
<1>3. /\ CountersOK /\ LateOK /\ EndsOK /\ PromptWindDown
  BY DEF IndInv
<1>3a. TalliesOK'
  <2>1. TalliesOK
    BY DEF IndInv
  <2>2. CASE BeginRound /\ options.needsDiscovery
    BY <2>2 DEF BeginRound, ResetsTallies, TalliesOK
  <2>3. CASE ~(BeginRound /\ options.needsDiscovery)
    <3>1. UNCHANGED <<passNew, foundNew, foundEdges>>
      BY <2>3 DEF RoundStep, OutOfRounds, WindDownAtRound, BeginRound, Converges, NextRound, counters
    <3>2. QED
      BY <2>1, <3>1 DEF TalliesOK
  <2>4. QED
    BY <2>2, <2>3
<1>4. CASE OutOfRounds
  <2>1. CountersOK'
    BY <1>3, <1>4 DEF OutOfRounds, CountersOK, Finishing, counters, Controls
  <2>2. LateOK' /\ PromptWindDown'
    BY <1>2, <1>3, <1>4 DEF OutOfRounds, LateOK, Finishing, PromptWindDown
  <2>3. EndsOK'
    BY <1>3, <1>4 DEF OutOfRounds, EndsOK, Finishing, Stops, Results
  <2>4. QED
    BY <1>2, <1>3a, <2>1, <2>2, <2>3 DEF IndInv
<1>5. CASE WindDownAtRound
  <2>1. CountersOK'
    BY <1>3, <1>5 DEF WindDownAtRound, CountersOK, Finishing, counters, Controls
  <2>2. LateOK' /\ PromptWindDown'
    BY <1>2, <1>3, <1>5 DEF WindDownAtRound, LateOK, Finishing, PromptWindDown
  <2>3. EndsOK'
    BY <1>3, <1>5 DEF WindDownAtRound, EndsOK, Finishing, Stops, Results
  <2>4. QED
    BY <1>2, <1>3a, <2>1, <2>2, <2>3 DEF IndInv
<1>6. CASE BeginRound
  <2>1. CountersOK'
    <3>1. CASE options.needsDiscovery
      BY <1>3, <1>6, <3>1, CeilingAssumption DEF BeginRound, CountersOK, ResetsTallies, Controls
    <3>2. CASE ~options.needsDiscovery
      BY <1>3, <1>6, <3>2 DEF BeginRound, CountersOK, Returns, Controls
    <3>3. QED
      BY <3>1, <3>2
  <2>2. late = 0
    BY <1>3, <1>6 DEF BeginRound, LateOK
  <2>3. LateOK' /\ PromptWindDown'
    BY <2>2, <1>6 DEF BeginRound, LateOK, PromptWindDown
  <2>4. EndsOK'
    BY <1>3, <1>6 DEF BeginRound, EndsOK, Returns, Stops, Results
  <2>5. QED
    BY <1>2, <1>3a, <2>1, <2>3, <2>4 DEF IndInv
<1>7. CASE Converges
  <2>1. CountersOK'
    BY <1>3, <1>7 DEF Converges, CountersOK, Finishing, counters, Controls
  <2>2. LateOK' /\ PromptWindDown'
    BY <1>2, <1>3, <1>7 DEF Converges, LateOK, Finishing, PromptWindDown
  <2>3. EndsOK'
    BY <1>3, <1>7 DEF Converges, EndsOK, Finishing, Stops, Results
  <2>4. QED
    BY <1>2, <1>3a, <2>1, <2>2, <2>3 DEF IndInv
<1>8. CASE NextRound
  <2>1. CountersOK'
    BY <1>3, <1>8, CeilingAssumption
    DEF NextRound, CountersOK, ExtendedBudget, Controls
  <2>2. LateOK' /\ PromptWindDown'
    BY <1>2, <1>3, <1>8 DEF NextRound, LateOK, PromptWindDown, CountersOK
  <2>3. EndsOK'
    BY <1>3, <1>8 DEF NextRound, EndsOK, Stops, Results
  <2>4. QED
    BY <1>2, <1>3a, <2>1, <2>2, <2>3 DEF IndInv
<1>9. QED
  BY <1>4, <1>5, <1>6, <1>7, <1>8 DEF RoundStep

LEMMA PassInv ==
  ASSUME IndInv, PassStep
  PROVE  IndInv'
<1>1. /\ CountersOK /\ LateOK /\ EndsOK /\ PromptWindDown
      /\ TalliesOK
  BY DEF IndInv
<1>2. CASE SettlePass
  <2>1. /\ image' \in Images /\ options' \in Options /\ job' \in Jobs
        /\ CarriedOK' /\ KnownJustified'
    BY <1>2, PassCarries DEF SettlePass, inputs, IndInv, CarriedOK
  <2>2. windDownRequested' <=> windDownRequested
    BY <1>2 DEF SettlePass, windDownRequested, stopReason
  <2>3. CountersOK'
    BY <1>1, <1>2 DEF SettlePass, CountersOK, Controls
  <2>3a. TalliesOK'
    BY <1>1, <1>2 DEF SettlePass, TalliesOK
  <2>4. late = 0
    BY <1>1, <1>2 DEF SettlePass, LateOK
  <2>5. LateOK' /\ PromptWindDown'
    BY <1>2, <2>2, <2>4 DEF SettlePass, LateOK, PromptWindDown
  <2>6. EndsOK'
    BY <1>1, <1>2 DEF SettlePass, EndsOK
  <2>7. QED
    BY <2>1, <2>3, <2>5, <2>6, <2>3a DEF IndInv
<1>3. ASSUME Settled \/ WindDownAfterPass \/ Relift PROVE IndInv'
  <2>1. Kept /\ blocks' \subseteq Addr
    BY <1>3, LiftType DEF Settled, WindDownAfterPass, Relift, Kept, Lifts, proved, inputs,
       IndInv, CarriedOK
  <2>2. /\ image' \in Images /\ options' \in Options /\ job' \in Jobs
        /\ CarriedOK' /\ KnownJustified'
        /\ (windDownRequested' <=> windDownRequested)
    BY <2>1, KeptCarries
  <2>3. CountersOK'
    BY <1>1, <1>3, CeilingAssumption
    DEF Settled, WindDownAfterPass, Relift, CountersOK, Finishing, counters, Controls
  <2>3a. TalliesOK'
    BY <1>1, <1>3 DEF Settled, WindDownAfterPass, Relift, counters, TalliesOK
  <2>4. LateOK' /\ PromptWindDown'
    BY <1>1, <1>3, <2>2
    DEF Settled, WindDownAfterPass, Relift, LateOK, Finishing, PromptWindDown
  <2>5. EndsOK'
    BY <1>1, <1>3
    DEF Settled, WindDownAfterPass, Relift, EndsOK, Finishing, Stops, Results
  <2>6. QED
    BY <2>2, <2>3, <2>4, <2>5, <2>3a DEF IndInv
<1>4. QED
  BY <1>2, <1>3 DEF PassStep

LEMMA EndInv ==
  ASSUME IndInv, EndStep
  PROVE  IndInv'
<1>1. Kept /\ blocks' \subseteq Addr
  BY LiftType DEF EndStep, Finish, Stopped, Fails, Kept, Lifts, proved, inputs, IndInv, CarriedOK
<1>2. /\ image' \in Images /\ options' \in Options /\ job' \in Jobs
      /\ CarriedOK' /\ KnownJustified'
      /\ (windDownRequested' <=> windDownRequested)
  BY <1>1, KeptCarries
<1>3. /\ CountersOK /\ LateOK /\ EndsOK /\ PromptWindDown
  BY DEF IndInv
<1>4. CountersOK'
  BY <1>3 DEF EndStep, Finish, Stopped, Fails, CountersOK, Returns, counters, Controls
<1>4a. TalliesOK'
  BY DEF IndInv, EndStep, Finish, Stopped, Fails, counters, TalliesOK
<1>5. LateOK' /\ PromptWindDown'
  BY <1>2, <1>3 DEF EndStep, Finish, Stopped, Fails, LateOK, Returns, PromptWindDown
<1>6. EndsOK'
  BY <1>3 DEF EndStep, Finish, Stopped, Fails, EndsOK, Returns, Seals,
     Stops, Results, stopReason, Checkpoint
<1>7. QED
  BY <1>2, <1>4, <1>5, <1>6, <1>4a DEF IndInv

LEMMA JobInv ==
  ASSUME IndInv, JobStep
  PROVE  IndInv'
<1>1. JobOnly
  BY DEF JobStep, Interrupt, SoftDeadline, HardDeadline, RequestCancel
<1>2. job' \in Jobs /\ (windDownRequested => windDownRequested')
  BY RequestsStay
<1>3. /\ image' \in Images /\ options' \in Options /\ CarriedOK' /\ KnownJustified'
  BY <1>1 DEF JobOnly, inputs, proved, IndInv, CarriedOK, KnownJustified
<1>4. CountersOK' /\ TalliesOK' /\ EndsOK' /\ PromptWindDown'
  BY <1>1 DEF JobOnly, counters, IndInv, CountersOK, TalliesOK, EndsOK, PromptWindDown
<1>5. LateOK'
  BY <1>1, <1>2 DEF JobOnly, counters, IndInv, LateOK
<1>6. QED
  BY <1>2, <1>3, <1>4, <1>5 DEF IndInv

LEMMA StutterInv ==
  ASSUME IndInv, UNCHANGED vars
  PROVE  IndInv'
  BY DEF IndInv, vars, CarriedOK, CountersOK, TalliesOK, LateOK, EndsOK, KnownJustified,
     PromptWindDown, windDownRequested, stopReason

\* The driver never leaves the inductive invariant.
THEOREM Inductive == Spec => []IndInv
<1>1. IndInv /\ [Next]_vars => IndInv'
  BY RoundInv, PassInv, EndInv, JobInv, StutterInv DEF Next, Terminated
<1>2. QED
  BY InitInv, <1>1, PTL DEF Spec

\* Rounds, passes and the budget stay within the ceilings, and the state is
\* well formed, however long the loop runs (driver.cpp:443-605).
THEOREM TypeCorrect == Spec => []TypeOK
<1>1. IndInv => TypeOK
  BY ImagesAssumption, OptionsAssumption, CeilingAssumption
  DEF IndInv, TypeOK, Jobs, CarriedOK, CountersOK, TalliesOK, LateOK, EndsOK, Controls, Stops, Results
<1>2. QED
  BY Inductive, <1>1, PTL

\* After a wind-down request at most one more pass begins, wherever the request
\* falls (driver.cpp:459, 562).
THEOREM WindDownIsPrompt == Spec => []PromptWindDown
<1>1. IndInv => PromptWindDown
  BY DEF IndInv
<1>2. QED
  BY Inductive, <1>1, PTL

\* Every lifted address beyond the entry is the target of a carried edge
\* (driver.cpp Probe::run, admitDiscoveries, absorb).
THEOREM LiftedForAReason == Spec => []KnownJustified
<1>1. IndInv => KnownJustified
  BY DEF IndInv
<1>2. QED
  BY Inductive, <1>1, PTL

\* Addresses and edges only accumulate (driver.cpp absorb).
THEOREM Accumulates == Spec => NeverDisproves
<1> DEFINE Grows == known \subseteq known' /\ \A b \in Addr : resolved[b] \subseteq resolved'[b]
<1>1. ASSUME IndInv, [Next]_vars PROVE Grows
  <2>1. CASE SettlePass
    BY <1>1, <2>1, PassCarries
  <2>2. CASE ~SettlePass
    <3>1. UNCHANGED <<known, resolved>>
      BY <1>1, <2>2
      DEF Next, RoundStep, PassStep, EndStep, JobStep, Terminated, OutOfRounds, WindDownAtRound,
          BeginRound, Converges, NextRound, Settled, WindDownAfterPass, Relift, Finish, Stopped,
          Fails, Interrupt, SoftDeadline, HardDeadline, RequestCancel, JobOnly, proved, vars
    <3>2. QED
      BY <3>1
  <2>3. QED
    BY <2>1, <2>2
<1>2. IndInv /\ [Next]_vars => [Grows]_vars
  BY <1>1
<1>3. QED
  BY Inductive, <1>2, PTL DEF Spec, NeverDisproves

(***************************************************************************)
(* Convergence and progress.                                               *)
(***************************************************************************)
\* One more pass over blks would admit and prove nothing.
NothingNew(blks) == Admitted(Findings(blks)) = {} /\ EdgesAfter(blks) = resolved

\* As long as a round has admitted nothing, the graph is a fresh lift of the
\* known addresses; a round that found nothing ended with such a pass, and what
\* that pass left out was refused.
PassesOK ==
  /\ control \in {"settle", "passed", "decide"} /\ ~foundNew => blocks = liftKnown(known)
  /\ control = "passed" /\ passNew => foundNew
  /\ control \notin {"finish", "done"} => stop = "none"
  /\ control \in {"passed", "decide"} /\ NothingFound =>
       NothingNew(blocks) /\ Fresh(Findings(blocks)) \subseteq capped

\* A round that found something has already paid for the next one.
ProgressOK ==
  LET paid == control \in {"settle", "passed", "decide"} /\ ~NothingFound
  IN round + 1 + (IF paid THEN 1 ELSE 0) <= Cardinality(known) + Cardinality(Edges)

LoopInv == PassesOK /\ ProgressOK /\ ConvergedExplained /\ StuckIsPermanent

\* What a run that declares itself stuck or converged claims.
Gap ==
  /\ \E b \in Addr : \E t \in resolved[b] :
       t \in known /\ t \notin image.mapped /\ t \notin liftKnown(known)
  /\ NothingNew(liftKnown(known))
Explained ==
  LET applied == applyResolutions(blocks, resolved)
      cands == CandidatesIn(blocks, applied)
  IN \A b \in Open(blocks, applied) :
       cands[b] \subseteq blocks \/ b \in Discovered(blocks, cands) =>
         /\ cands[b] \subseteq resolved[b]
         /\ (cands[b] \ blocks) \cap options.fence \subseteq capped

\* Steps that leave addresses, edges and graph alone leave alone everything
\* that is computed from them.
discovery == <<image, options, known, resolved>>
LEMMA Frame ==
  ASSUME UNCHANGED discovery
  PROVE  /\ liftKnown(known)' = liftKnown(known)
         /\ Gap' = Gap
         /\ Edges' = Edges
         /\ UNCHANGED blocks => /\ NothingNew(blocks)' = NothingNew(blocks)
                                /\ Fresh(Findings(blocks))' = Fresh(Findings(blocks))
         /\ UNCHANGED <<blocks, capped>> => Explained' = Explained
<1>1. liftKnown(known)' = liftKnown(known)
  BY DEF discovery, liftKnown, Closure
<1>2. /\ Findings(liftKnown(known))' = Findings(liftKnown(known))
      /\ EdgesAfter(liftKnown(known))' = EdgesAfter(liftKnown(known))
  <2>1. Findings(liftKnown(known))' = Findings(liftKnown(known))
    BY <1>1 DEF discovery, Findings, DiscoveriesOf, Discovered, CandidatesIn, Candidates, Open,
           applyResolutions, IndirectBranches, reachableBlocks, Closure
  <2>2. EdgesAfter(liftKnown(known))' = EdgesAfter(liftKnown(known))
    BY <1>1 DEF discovery, EdgesAfter, Discovered, CandidatesIn, Candidates, Open,
           applyResolutions, IndirectBranches, reachableBlocks, resolveIndirect, absorb, Closure
  <2>3. QED
    BY <2>1, <2>2
<1>2a. Gap' = Gap
  BY <1>1, <1>2 DEF discovery, Gap, NothingNew, Admitted, Fresh
<1>3. Edges' = Edges
  BY DEF discovery, Edges
<1>4. ASSUME UNCHANGED blocks
      PROVE  /\ NothingNew(blocks)' = NothingNew(blocks)
             /\ Fresh(Findings(blocks))' = Fresh(Findings(blocks))
  <2>1. Findings(blocks)' = Findings(blocks)
    BY <1>4 DEF discovery, Findings, DiscoveriesOf, Discovered, CandidatesIn, Candidates, Open,
           applyResolutions, IndirectBranches, reachableBlocks, Closure
  <2>2. EdgesAfter(blocks)' = EdgesAfter(blocks)
    BY <1>4 DEF discovery, EdgesAfter, Discovered, CandidatesIn, Candidates, Open,
           applyResolutions, IndirectBranches, reachableBlocks, resolveIndirect, absorb, Closure
  <2>3. QED
    BY <1>4, <2>1, <2>2 DEF discovery, NothingNew, Admitted, Fresh
<1>5. ASSUME UNCHANGED <<blocks, capped>> PROVE Explained' = Explained
  BY <1>5 DEF discovery, Explained, Discovered, CandidatesIn, Candidates, Open, applyResolutions,
         IndirectBranches, reachableBlocks, Closure
<1>6. QED
  BY <1>1, <1>2a, <1>3, <1>4, <1>5

\* Every known address that reads is a block.
LEMMA LiftCovers == known \subseteq Addr => known \cap image.mapped \subseteq liftKnown(known)
  BY DEF liftKnown, Closure

\* The addresses and the edges are finite sets, so that growing one counts.
LEMMA FiniteCounts ==
  ASSUME IndInv
  PROVE  /\ IsFiniteSet(known) /\ Cardinality(known) \in Nat
         /\ IsFiniteSet(Edges) /\ Cardinality(Edges) \in Nat
<1>1. IsFiniteSet(Addr) /\ known \subseteq Addr
  BY AddrAssumption DEF IndInv, CarriedOK
<1>2. IsFiniteSet(Addr \X Addr) /\ Edges \subseteq Addr \X Addr
  BY <1>1, FS_Product DEF Edges
<1>3. QED
  BY <1>1, <1>2, FS_Subset, FS_CardinalityType
LEMMA MoreCounts ==
  ASSUME NEW S, NEW T, IsFiniteSet(T), S \subseteq T
  PROVE  /\ Cardinality(S) \in Nat /\ Cardinality(T) \in Nat /\ Cardinality(S) <= Cardinality(T)
         /\ S # T => Cardinality(S) + 1 <= Cardinality(T)
  BY FS_Subset, FS_CardinalityType

\* A pass: what it admits is new, and what it proves is counted.
LEMMA PassProgress ==
  ASSUME IndInv, LoopInv, SettlePass
  PROVE  LoopInv'
<1>1. /\ control = "settle" /\ control' = "passed" /\ stop = "none" /\ stop' = stop
      /\ UNCHANGED <<image, options, blocks, round>>
      /\ passNew' = (Admitted(Findings(blocks)) # {})
      /\ known' = known \cup Admitted(Findings(blocks))
      /\ capped' = capped \cup (Fresh(Findings(blocks)) \ Admitted(Findings(blocks)))
      /\ resolved' = EdgesAfter(blocks)
      /\ foundNew' = (foundNew \/ passNew') /\ foundEdges' = (foundEdges \/ resolved' # resolved)
  BY DEF SettlePass, inputs, LoopInv, PassesOK
<1>2. /\ known \subseteq known' /\ known' \subseteq Addr
      /\ resolved' \in [Addr -> SUBSET Addr] /\ resolved \in [Addr -> SUBSET Addr]
      /\ \A b \in Addr : resolved[b] \subseteq resolved'[b]
  BY PassCarries DEF IndInv, CarriedOK
<1>3. Admitted(Findings(blocks)) \cap known = {}
  BY DEF Admitted, Fresh
<1>4. known' = known <=> ~passNew'
  BY <1>1, <1>3
<1>5. PassesOK'
  <2>1. ASSUME ~foundNew' PROVE blocks' = liftKnown(known)'
    <3>1. ~foundNew /\ known' = known
      BY <1>1, <1>4, <2>1
    <3>2. blocks = liftKnown(known)
      BY <1>1, <3>1 DEF LoopInv, PassesOK
    <3>3. liftKnown(known)' = liftKnown(known)
      BY <1>1, <3>1 DEF liftKnown, Closure
    <3>4. QED
      BY <1>1, <3>2, <3>3
  <2>2. ASSUME NothingFound' PROVE NothingNew(blocks)' /\ Fresh(Findings(blocks))' \subseteq capped'
    <3>1. known' = known /\ resolved' = resolved /\ Admitted(Findings(blocks)) = {}
      BY <1>1, <1>4, <2>2 DEF NothingFound
    <3>2. NothingNew(blocks)
      BY <1>1, <3>1 DEF NothingNew
    <3>3. /\ NothingNew(blocks)' = NothingNew(blocks)
          /\ Fresh(Findings(blocks))' = Fresh(Findings(blocks))
      BY <1>1, <3>1, Frame DEF discovery
    <3>4. QED
      BY <1>1, <3>1, <3>2, <3>3
  <2>3. QED
    BY <1>1, <2>1, <2>2 DEF PassesOK
<1>6. ProgressOK'
  <2>1. /\ IsFiniteSet(known') /\ IsFiniteSet(Edges')
        /\ Cardinality(known) \in Nat /\ Cardinality(Edges) \in Nat
        /\ Cardinality(known') \in Nat /\ Cardinality(Edges') \in Nat
    <3>1. IsFiniteSet(Addr) /\ IsFiniteSet(Addr \X Addr) /\ Edges' \subseteq Addr \X Addr
      BY AddrAssumption, FS_Product DEF Edges
    <3>2. QED
      BY <1>2, <3>1, FiniteCounts, FS_Subset, FS_CardinalityType
  <2>2. Edges \subseteq Edges'
    BY <1>2 DEF Edges
  <2>3. resolved' # resolved => Edges # Edges'
    <3> SUFFICES ASSUME resolved' # resolved PROVE Edges # Edges'
      OBVIOUS
    <3>1. PICK b \in Addr : resolved'[b] # resolved[b]
      BY <1>2
    <3>2. PICK t \in resolved'[b] : t \notin resolved[b]
      BY <1>2, <3>1
    <3>3. <<b, t>> \in Edges' /\ <<b, t>> \notin Edges
      BY <1>2, <3>2 DEF Edges
    <3>4. QED
      BY <3>3
  <2>4. /\ Cardinality(known) <= Cardinality(known') /\ Cardinality(Edges) <= Cardinality(Edges')
        /\ known' # known => Cardinality(known) + 1 <= Cardinality(known')
        /\ resolved' # resolved => Cardinality(Edges) + 1 <= Cardinality(Edges')
    BY <1>2, <2>1, <2>2, <2>3, MoreCounts
  <2>5. round \in Nat
    BY DEF IndInv, CountersOK
  <2>6. CASE NothingFound
    <3>1. round + 1 <= Cardinality(known) + Cardinality(Edges)
      BY <1>1, <2>1, <2>5, <2>6 DEF LoopInv, ProgressOK
    <3>2. CASE NothingFound'
      BY <1>1, <2>1, <2>4, <2>5, <3>1, <3>2 DEF ProgressOK
    <3>3. CASE ~NothingFound'
      <4>1. known' # known \/ resolved' # resolved
        BY <1>1, <1>4, <2>6, <3>3 DEF NothingFound
      <4>2. QED
        BY <1>1, <2>1, <2>4, <2>5, <3>1, <3>3, <4>1 DEF ProgressOK
    <3>4. QED
      BY <3>2, <3>3
  <2>7. CASE ~NothingFound
    <3>1. round + 1 + 1 <= Cardinality(known) + Cardinality(Edges)
      BY <1>1, <2>7 DEF LoopInv, ProgressOK
    <3>2. QED
      BY <1>1, <2>1, <2>4, <2>5, <3>1 DEF ProgressOK
  <2>8. QED
    BY <2>6, <2>7
<1>7. ConvergedExplained' /\ StuckIsPermanent'
  BY <1>1 DEF ConvergedExplained, StuckIsPermanent
<1>8. QED
  BY <1>5, <1>6, <1>7 DEF LoopInv

\* Steps that are neither a pass nor a lift nor a verdict.
LEMMA OtherProgress ==
  ASSUME IndInv, LoopInv,
         \/ OutOfRounds \/ WindDownAtRound \/ NextRound \/ Settled \/ WindDownAfterPass
         \/ Stopped \/ Fails \/ JobStep \/ UNCHANGED vars
  PROVE  LoopInv'
<1>1. UNCHANGED <<image, options, known, resolved, blocks, capped>>
  BY DEF OutOfRounds, WindDownAtRound, NextRound, Settled, WindDownAfterPass, Stopped, Fails,
         JobStep, Interrupt, SoftDeadline, HardDeadline, RequestCancel, JobOnly, vars, inputs, proved
<1>2. /\ liftKnown(known)' = liftKnown(known) /\ Gap' = Gap /\ Edges' = Edges
      /\ NothingNew(blocks)' = NothingNew(blocks)
      /\ Fresh(Findings(blocks))' = Fresh(Findings(blocks)) /\ Explained' = Explained
  BY <1>1, Frame DEF discovery
<1>3. /\ Cardinality(known) \in Nat /\ Cardinality(Edges) \in Nat /\ round \in Nat
  BY FiniteCounts DEF IndInv, CountersOK
<1>4. UNCHANGED <<foundNew, foundEdges, passNew>>
  BY DEF OutOfRounds, WindDownAtRound, NextRound, Settled, WindDownAfterPass, Stopped, Fails,
         JobStep, Interrupt, SoftDeadline, HardDeadline, RequestCancel, JobOnly, vars, counters
<1>5. PassesOK /\ ProgressOK /\ ConvergedExplained /\ StuckIsPermanent
  BY DEF LoopInv
<1>6. CASE NextRound
  <2>1. control = "decide" /\ control' = "top" /\ ~NothingFound /\ round' = round + 1 /\ stop' = stop
    BY <1>6 DEF NextRound
  <2>2. PassesOK'
    BY <1>5, <2>1 DEF PassesOK
  <2>3. ProgressOK'
    BY <1>1, <1>2, <1>3, <1>5, <2>1 DEF ProgressOK
  <2>4. ConvergedExplained' /\ StuckIsPermanent'
    BY <1>5, <2>1 DEF ConvergedExplained, StuckIsPermanent, PassesOK
  <2>5. QED
    BY <2>2, <2>3, <2>4 DEF LoopInv
<1>7. CASE ~NextRound
  <2>1. round' = round
    BY <1>7 DEF OutOfRounds, WindDownAtRound, Settled, WindDownAfterPass, Stopped, Fails, JobStep,
           Interrupt, SoftDeadline, HardDeadline, RequestCancel, JobOnly, vars, counters
  <2>2. \/ control' = control /\ stop' = stop
        \/ control = "passed" /\ ~passNew /\ control' = "decide" /\ stop' = stop
        \/ control' = "finish" /\ stop' \in {"RoundCap", "WindDown"}
        \/ control' = "done" /\ stop' = stop
    BY <1>7 DEF OutOfRounds, WindDownAtRound, Settled, WindDownAfterPass, Stopped, Fails, JobStep,
           Interrupt, SoftDeadline, HardDeadline, RequestCancel, JobOnly, vars, Finishing, Returns
  <2>3. PassesOK'
    <3>1. NothingFound' = NothingFound
      BY <1>4 DEF NothingFound
    <3>2. QED
      BY <1>1, <1>2, <1>4, <1>5, <2>2, <3>1 DEF PassesOK
  <2>4. ProgressOK'
    <3>1. NothingFound' = NothingFound
      BY <1>4 DEF NothingFound
    <3>2. QED
      BY <1>1, <1>2, <1>3, <1>5, <2>1, <2>2, <3>1 DEF ProgressOK
  <2>5. ConvergedExplained'
    <3>1. ConvergedExplained = (control = "finish" /\ stop = "Converged" => Explained)
      BY DEF ConvergedExplained, Explained
    <3>2. ConvergedExplained' = (control' = "finish" /\ stop' = "Converged" => Explained')
      BY DEF ConvergedExplained, Explained
    <3>3. QED
      BY <1>2, <1>5, <2>2, <3>1, <3>2
  <2>6. StuckIsPermanent'
    <3>1. StuckIsPermanent = (stop = "StuckResolution" => Gap)
      BY DEF StuckIsPermanent, Gap, NothingNew
    <3>2. StuckIsPermanent' = (stop' = "StuckResolution" => Gap')
      BY DEF StuckIsPermanent, Gap, NothingNew
    <3>3. QED
      BY <1>2, <1>5, <2>2, <3>1, <3>2
  <2>7. QED
    BY <2>3, <2>4, <2>5, <2>6 DEF LoopInv
<1>8. QED
  BY <1>6, <1>7

\* The lifts: at the head of a round, between two passes, and the final one.
LEMMA LiftProgress ==
  ASSUME IndInv, LoopInv, BeginRound \/ Relift \/ Finish
  PROVE  LoopInv'
<1>1. /\ UNCHANGED <<image, options, known, resolved, capped, round>>
      /\ blocks' = liftKnown(known)
  BY DEF BeginRound, Relift, Finish, Lifts, inputs, proved, counters
<1>2. liftKnown(known)' = liftKnown(known) /\ Gap' = Gap /\ Edges' = Edges
  BY <1>1, Frame DEF discovery
<1>3. Cardinality(known) \in Nat /\ Cardinality(Edges) \in Nat /\ round \in Nat
  BY FiniteCounts DEF IndInv, CountersOK
<1>4. PassesOK /\ ProgressOK /\ StuckIsPermanent
  BY DEF LoopInv
<1>5. round + 1 <= Cardinality(known) + Cardinality(Edges)
  BY <1>3, <1>4 DEF ProgressOK
<1>6. CASE BeginRound
  <2>1. \/ control' = "settle" /\ ~foundNew' /\ ~foundEdges' /\ stop' = stop
        \/ control' = "done" /\ stop' = "NoDiscovery"
    BY <1>6 DEF BeginRound, ResetsTallies, Returns
  <2>2. stop = "none"
    BY <1>4, <1>6 DEF PassesOK, BeginRound
  <2>3. PassesOK'
    BY <1>1, <1>2, <2>1, <2>2 DEF PassesOK
  <2>4. ProgressOK'
    BY <1>1, <1>2, <1>3, <1>5, <2>1 DEF ProgressOK, NothingFound
  <2>5. ConvergedExplained' /\ StuckIsPermanent'
    BY <2>1, <2>2 DEF ConvergedExplained, StuckIsPermanent
  <2>6. QED
    BY <2>3, <2>4, <2>5 DEF LoopInv
<1>7. CASE Relift
  <2>1. control = "passed" /\ control' \in {"settle", "decide"} /\ passNew
        /\ UNCHANGED <<foundNew, foundEdges, stop>>
    BY <1>7 DEF Relift
  <2>2. foundNew /\ foundNew' /\ stop = "none"
    BY <1>4, <2>1 DEF PassesOK
  <2>3. PassesOK'
    BY <2>1, <2>2 DEF PassesOK, NothingFound
  <2>4. ProgressOK'
    <3>1. round + 1 + 1 <= Cardinality(known) + Cardinality(Edges)
      BY <1>4, <2>1, <2>2 DEF ProgressOK, NothingFound
    <3>2. QED
      BY <1>1, <1>2, <1>3, <3>1 DEF ProgressOK
  <2>5. ConvergedExplained' /\ StuckIsPermanent'
    BY <2>1, <2>2 DEF ConvergedExplained, StuckIsPermanent
  <2>6. QED
    BY <2>3, <2>4, <2>5 DEF LoopInv
<1>8. CASE Finish
  <2>1. control' = "done" /\ stop' = stop
    BY <1>8 DEF Finish, Returns
  <2>2. PassesOK'
    BY <2>1 DEF PassesOK
  <2>3. ProgressOK'
    BY <1>1, <1>2, <1>3, <1>5, <2>1 DEF ProgressOK
  <2>4. ConvergedExplained'
    BY <2>1 DEF ConvergedExplained
  <2>5. StuckIsPermanent'
    <3>1. StuckIsPermanent = (stop = "StuckResolution" => Gap)
      BY DEF StuckIsPermanent, Gap, NothingNew
    <3>2. StuckIsPermanent' = (stop' = "StuckResolution" => Gap')
      BY DEF StuckIsPermanent, Gap, NothingNew
    <3>3. QED
      BY <1>2, <1>4, <2>1, <3>1, <3>2
  <2>6. QED
    BY <2>2, <2>3, <2>4, <2>5 DEF LoopInv
<1>9. QED
  BY <1>6, <1>7, <1>8

\* What the last pass of a round that found nothing says of every open branch.
LEMMA Verdict ==
  ASSUME IndInv, NothingNew(blocks), Fresh(Findings(blocks)) \subseteq capped, ~hasStuckResolution
  PROVE  Explained
<1> DEFINE applied == applyResolutions(blocks, resolved)
           cands == CandidatesIn(blocks, applied)
           harvest == resolveIndirect(blocks, applied)
           pending == [b \in Addr |-> IF b \in Discovered(blocks, cands) THEN cands[b] ELSE {}]
<1>1. image \in Images /\ resolved \in [Addr -> SUBSET Addr] /\ blocks \subseteq Addr
  BY DEF IndInv, CarriedOK
<1>2. /\ applied \in [Addr -> SUBSET Addr] /\ cands \in [Addr -> SUBSET Addr]
      /\ harvest \in [Addr -> SUBSET Addr]
  BY <1>1, ApplyType, CandidatesType, ResolveType
<1>3. \A b \in Addr : cands[b] \subseteq blocks => cands[b] \subseteq harvest[b]
  BY <1>2 DEF resolveIndirect
<1>4. resolved = absorb(absorb(resolved, harvest), pending)
  BY DEF NothingNew, EdgesAfter
<1>5. Findings(blocks) = DiscoveriesOf(blocks, cands)
  BY DEF Findings
<1>6. Open(blocks, applied) \subseteq Addr
  BY <1>1 DEF Open, IndirectBranches
<1> HIDE DEF applied, cands, harvest
<1>7. \A b \in Addr : harvest[b] \subseteq resolved[b] /\ pending[b] \subseteq resolved[b]
  BY <1>1, <1>2, <1>4 DEF absorb
<1>8. ASSUME NEW b \in Open(blocks, applied),
             cands[b] \subseteq blocks \/ b \in Discovered(blocks, cands)
      PROVE  /\ cands[b] \subseteq resolved[b]
             /\ (cands[b] \ blocks) \cap options.fence \subseteq capped
  <2>1. b \in Addr
    BY <1>6
  <2>2. cands[b] \subseteq resolved[b]
    BY <1>3, <1>7, <1>8, <2>1
  <2>3. ASSUME NEW t \in cands[b] \ blocks, t \in options.fence PROVE t \in capped
    <3>1. b \in Discovered(blocks, cands)
      BY <1>8, <2>3
    <3>2. t \in Findings(blocks)
      BY <1>5, <2>3, <3>1 DEF DiscoveriesOf
    <3>3. t \notin known
      BY <2>1, <2>2, <2>3 DEF hasStuckResolution
    <3>4. QED
      BY <2>3, <3>2, <3>3 DEF Fresh
  <2>4. QED
    BY <2>2, <2>3
<1>9. QED
  BY <1>8 DEF Explained, applied, cands

\* The verdict of a round that found nothing.
LEMMA ConvergeProgress ==
  ASSUME IndInv, LoopInv, Converges
  PROVE  LoopInv'
<1>1. /\ control = "decide" /\ NothingFound /\ control' = "finish"
      /\ stop' = IF hasStuckResolution THEN "StuckResolution" ELSE "Converged"
      /\ UNCHANGED <<image, options, known, resolved, blocks, capped, round>>
  BY DEF Converges, Finishing, inputs, proved, counters
<1>2. /\ blocks = liftKnown(known) /\ NothingNew(blocks)
      /\ Fresh(Findings(blocks)) \subseteq capped
  BY <1>1 DEF LoopInv, PassesOK, NothingFound
<1>3. Gap' = Gap /\ Explained' = Explained /\ Edges' = Edges
  BY <1>1, Frame DEF discovery
<1>4. hasStuckResolution => Gap
  <2> SUFFICES ASSUME hasStuckResolution PROVE Gap
    OBVIOUS
  <2>1. PICK b \in Addr : \E t \in resolved[b] : t \in known /\ t \notin blocks
    BY DEF hasStuckResolution
  <2>2. PICK t \in resolved[b] : t \in known /\ t \notin blocks
    BY <2>1
  <2>3. t \notin image.mapped
    BY <1>2, <2>2, LiftCovers DEF IndInv, CarriedOK
  <2>4. NothingNew(liftKnown(known))
    BY <1>2
  <2>5. QED
    BY <1>2, <2>2, <2>3, <2>4 DEF Gap
<1>5. PassesOK'
  BY <1>1 DEF PassesOK
<1>6. ProgressOK'
  <2>1. Cardinality(known) \in Nat /\ Cardinality(Edges) \in Nat /\ round \in Nat
    BY FiniteCounts DEF IndInv, CountersOK
  <2>2. QED
    BY <1>1, <1>3, <2>1 DEF LoopInv, ProgressOK
<1>7. ConvergedExplained'
  <2>1. ConvergedExplained' = (control' = "finish" /\ stop' = "Converged" => Explained')
    BY DEF ConvergedExplained, Explained
  <2>2. QED
    BY <1>1, <1>2, <1>3, <2>1, Verdict
<1>8. StuckIsPermanent'
  <2>1. StuckIsPermanent' = (stop' = "StuckResolution" => Gap')
    BY DEF StuckIsPermanent, Gap, NothingNew
  <2>2. QED
    BY <1>1, <1>3, <1>4, <2>1
<1>9. QED
  BY <1>5, <1>6, <1>7, <1>8 DEF LoopInv

LEMMA LoopInit == Init => LoopInv
<1> SUFFICES ASSUME Init PROVE LoopInv
  OBVIOUS
<1>1. control = "top" /\ stop = "none" /\ round = 0 /\ known = {Entry}
      /\ resolved = [b \in Addr |-> {}]
  BY DEF Init
<1>2. Cardinality(known) = 1 /\ Cardinality(Edges) \in Nat
  BY <1>1, FS_Singleton, InitInv, FiniteCounts
<1>3. ProgressOK
  BY <1>1, <1>2 DEF ProgressOK
<1>4. QED
  BY <1>1, <1>3 DEF LoopInv, PassesOK, ConvergedExplained, StuckIsPermanent

LEMMA LoopInductive == Spec => [](IndInv /\ LoopInv)
<1>1. IndInv /\ LoopInv /\ [Next]_vars => LoopInv'
  BY PassProgress, OtherProgress, LiftProgress, ConvergeProgress
     DEF Next, RoundStep, PassStep, EndStep, Terminated
<1>2. QED
  BY Inductive, LoopInit, <1>1, PTL DEF Spec

\* The loop does not spin: round n + 1 begins only when n addresses or edges
\* beyond the entry were found (driver.cpp:580-594).
THEOREM RoundsPay == Spec => []EveryRoundProves
<1>1. IndInv /\ LoopInv => EveryRoundProves
  <2> SUFFICES ASSUME IndInv, LoopInv PROVE EveryRoundProves
    OBVIOUS
  <2>1. Cardinality(known) \in Nat /\ Cardinality(Edges) \in Nat /\ round \in Nat
    BY FiniteCounts DEF IndInv, CountersOK
  <2>2. QED
    BY <2>1 DEF LoopInv, ProgressOK, EveryRoundProves
<1>2. QED
  BY LoopInductive, <1>1, PTL

\* A run that declares convergence has carried every candidate it could use, and
\* what has no block was refused (driver.cpp:580-593).
THEOREM ConvergenceExplained == Spec => []ConvergedExplained
<1>1. LoopInv => ConvergedExplained
  BY DEF LoopInv
<1>2. QED
  BY LoopInductive, <1>1, PTL

\* A run that declares itself stuck has a proved, admitted target that does not
\* read, and one more pass would find nothing (driver.cpp:330-347).
THEOREM StuckForGood == Spec => []StuckIsPermanent
<1>1. LoopInv => StuckIsPermanent
  BY DEF LoopInv
<1>2. QED
  BY LoopInductive, <1>1, PTL
=============================================================================
