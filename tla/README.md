# A TLA+ verification of xdec

xdec is an AArch64 decompiler and emulator: it lifts machine code to an IL by
means of an instruction-specification language, discovers the control flow of
obfuscated functions in rounds, runs passes over the IL, structures and prints
C, and can execute guest code under an embedder's control. This directory holds
TLA+ modules that model its core, TLC configurations that check them on small
instances, and TLAPS proofs of the properties that matter most.

Paths below are relative to the repository (`src/exec/...` is the file
`src/src/exec/...` of `PROJECT.json`).

## Inventory

| Component | State it keeps | Operations | Interacts with | What is hard | Modules |
|---|---|---|---|---|---|
| Guest address space (`src/exec/memory.cpp`) | pages with permissions, dirty words, generations; a one-entry cache; the dirty list; a page provider | map, seed, seedImage, protect, unmap, read, write, refresh, validate/apply of patch batches, dirty ranges | provider callback; sessions read generations | a cache that points into the table, batches whose patches depend on each other, failures half way, generation stamps that stand for bytes | `GuestPages`, `GuestMemory`, `AddressSpace` |
| Execution session (`src/exec/session.cpp`, `exec_ir.cpp`) | machine state, interpreter registers, block cache, redirect frames, suspension token, budgets | run, resume, block loop, responses | embedder callbacks, shared block cache, guest memory | self-modifying code inside a cached block, stale registers, replayed tokens, frames out of step with the guest's calls | `GuestIsa`, `ExecSession`, `GuestMachine` |
| Decompilation driver (`src/decompile/driver.cpp`) | known addresses, proved edges, the lifted function, round and pass counters | rounds, settle passes, admission, finish | lifter, passes, job | convergence decided over graphs that change, caps, requests from other threads at any point | `Driver`; putting edges back also in `FunctionPasses` |
| Job stop controls (`src/obs/job.cpp`) | interrupts, deadlines, cancel flag | interrupt, deadlines, cancel, checkpoint | signal handler, clock, driver | atomics read at different points of a loop | `Driver`, `RunLifecycle` |
| Pass framework (`src/pass`) | registered passes; a function's maturity | add, resolve, run, runTo | passes, verifier, driver | ordering from partial metadata, a pass that fails half way | `PassPipeline` |
| Function discovery (`src/spec/lift.cpp`) | leaders, extents, stubs, worklist, blocks | liftFunction, liftBlocksInto | byte reader, engine, trace coverage | splitting finished blocks from a worklist, lifting on top of an older lift | `LiftDiscovery` |
| Trace database and execution coverage (`src/storage`, `src/analysis/execution_coverage.cpp`) | rows, intervals, observed successors | load, contains, successors | lifter, driver | nested invocations, versions of the format | `TraceCoverage`; its queries in `LiftDiscovery` |
| Observability (`src/obs`) | log levels and rules, sinks, ring, recorder, spans, monitor, crash state | log, spans, watchdog, crash report | every thread | handlers that run while locks are held, sinks that come and go under a dispatch, objects that die under a handler | `LogLevels`, `LogDispatch`, `SpanMonitor`, `RunLifecycle` |
| IL (`src/il`) | expressions, functions with blocks, values, cached edges | building, editing, verification, interpretation | every pass | invariants kept over in-place edits | `IlExpr`, `IlFunction`, `IlRun` |
| CFG analyses (`src/analysis`: dominators, loops, scc, reducibility) | none (pure) | reverse postorder, dominators, frontiers, post-dominators, loops, components | passes, structurizer | iterative algorithms whose order matters | `CfgAnalysis` |
| Passes (`src/passes`) | the function under rewriting | the thirteen kinds of rewriting from local-simplify to vars | pass manager, analyses | sound only together: substitutions, aliasing, phis of edges that disappear | `Algebra`, `ExprRewriting`, `LocalPasses`, `SsaPasses`, `CallPasses`, `IndirectPasses`, `FunctionPasses` |
| Symbolic and path analyses (`src/analysis`: index_bound, jump_table, image_eval, path explorer, value sets) | path state, budgets | bound, enumerate, explore | resolve-indirect, resolve-call | a bound too tight drops a target silently | `IndexBound`, `IndirectPasses`, `CallPasses` |
| Value and frame analyses (`src/analysis`: stack_frame, variables, uses, foldable loads) | none (pure) | frame deltas, aliasing, declared types | stack-prop, emitter | a declared width that forgets bits | `CallPasses`, `CEmit` |
| Structurizer (`src/emit/structure*.cpp`) | claimed blocks, trail, labels, statement tree | region walk, patterns, sweeps, remnant folds, layout | CFG analyses, printer | speculation that must be undone whole, gotos into regions | `StmtTree`, `Structurizer` |
| C emitter (`src/emit/c_*.cpp`) | scopes, shared temporaries, suppressed operations | expressions, statements, edge copies | structurizer, variables | C's own promotions; parallel copies written one after another | `CExpr`, `CEmit` |
| Analysis cache (`src/analysis`) | results per function | get, invalidate | passes | results that outlive an edit | not modelled |
| Instruction specification language (`src/spec`) | compiled programs | parse, check, compile, decode, probe, elaborate | lifter | pure translation; encoding overlap | `probe` as `LiftDiscovery` uses it |
| Binary loading (`src/binary`), types (`src/types`) | images, memory map; type database | parse ELF, Mach-O and headers, layout | byte reader, emitter | format parsing, layout arithmetic | not modelled |
| Plugin loader, support, command line | handles, arenas, run context | load, parse arguments, start and finish a run | registry, observability | library lifetime, teardown order | run context in `RunLifecycle` |

## Modules and how they correspond to the code

**Guest memory.** `GuestPages` is the page table as one value with every
operation of `GuestAddressSpace` as an operator that returns the set of possible
outcomes (a provider may answer, decline or fail). A page lives in a heap node,
because `pages_` is a node-based map and `cache_` holds a pointer into it: a
node can be freed and allocated again, so a cache that outlives its page is
visible. The last address of the model stands for the largest `uint64_t`.
`GuestMemory` has one action per operation, a decoded block with its generation
stamp (what `compileExecBlock` keeps), and `apply` as it runs: one step per
patch validated, one per patch performed. `AddressSpace` is what a caller is
promised, without cache, nodes, dirty list or generations.

**Execution.** `GuestIsa` is a guest reduced to what control flow and the
register hand-over tell apart: one instruction per outcome that
`Interpreter::runBlock` can end with, and stores into code. `ExecSession` is the
session: `run` and `resume`, the loop that looks up or compiles a block
(`EnterBlock`), one action per instruction the interpreter executes (`Execute`,
the `Take...` actions, `Interrupt`), boundaries raised to a handler or by
suspension, redirect frames. A response is applied as the code does it: the
checks (`Checked`), then the redirect frame (`FramesLeft`), then a batch of two
memory patches one after the other, which may still fail (`MemoryLeft`), and an
error leaves frames and memory as they are at that moment. The embedder edits
memory, registers and the shared cache while it has control. `GuestMachine` is
the promise: instructions run one at a time, each decoded from the bytes memory
holds then, on the registers its predecessor left.

**Driver.** `Driver` abstracts a function to its block starts and the targets of
its indirect branches. What an analysis answers for a branch is a function of
what is reachable (`gate`, `before`, `after`): it grows, shrinks to top, or does
not exist yet. The steps are the driver's: budget and wind-down checks at the
head of a round, lift, settle pass, relift, decision, final run. `Job` is
changed by other threads between any two steps.

**Pass framework.** `PassPipeline` is registration, Kahn's ordering with its
tie-break, the maturity walk, and `Manager::run` with fixpoint iteration and
verification. A pass is its metadata plus arbitrary answers: error, stop,
changed, unchanged, an invariant kept or broken.

**Discovery.** `LiftDiscovery` is the `Discovery` class. Addresses count
instructions. A step is one iteration of a loop of `scan()` (an entry seeded, a
block measured, a target visited, an extent stored) or the whole of
`elaborate()`. The measuring loop is the operator `ends`, the one address the
loop can stop at. A program is any finite image plus an optional trace coverage;
lifts are repeated into the same function as the driver does.

**Recorded coverage.** `TraceCoverage` is the reader of a recording and
`ExecutionCoverage::load`: segments put back in order, candidates matched by
module offset, the body interval of a call without its nested calls, the two
edge formats, rebasing, and the hand-over to the driver. Once the rows of a
stream are known to come in increasing order (`ordered`) the reader is stated
over their set: "the next owned row" is the owned row with no other in between
(`follow`), and the walk from a call to its parents (`childOf`) is what every set
closed under parents must contain. The recorder is outside the repository; it is
modelled from what the reader and its tests take for granted, one action per kind
of instruction (`GoOn`, `CallOn`, `CallOut`, `Return`), with threads that call,
recurse, call out and are called back, roll segments and end at any instruction.
What really happened is kept beside the rows and compared with what was loaded.
Requests are for an image that is not at address 0: there the reader compares
runtime addresses instead of offsets (`execution_coverage.h:15`).

**Observability.** `LogLevels` is the category registry with its rules:
categories register, specs are applied, `XDEC_LOG` is read by whichever comes
first. Applying a list of rules in order is stated as its outcome, the level of
the last rule that matches. `LogDispatch` is `dispatch()` step by step for two threads (the level
test, the snapshot of the sink list, each sink, the ring and the recorder)
while sinks attach, detach and throw and the status line is drawn and erased.
`SpanMonitor` has spans opened and ended in any order on two threads, the
profile and trace sinks, and the watchdog's poll loop with its growing
threshold. `RunLifecycle` is `RunContext::start` and `finish` around a command,
with the monitor thread, SIGINTs that escalate, and crashes of either thread
inside or outside a locked section. Signals follow POSIX: a handler runs on top
of one thread, which does not proceed until it returns; counting an interrupt and
testing the count are two steps, between which another thread's handler may run.

**Graphs and structure.** `CfgAnalysis` holds the analyses as the code computes
them (reverse postorder, Cooper-Harvey-Kennedy dominators and their mirror,
frontiers, Tarjan components, natural loops, the reducibility test) next to
their definitions over paths. `StmtTree` is the statement tree, the rewrites of
the finished tree and the meaning of the text printed for it. `Structurizer` is
the region walk with every pattern it tries, the trail of claims and its
rollback, the two sweeps, the remnant folds, dispatch trees with their cost
limits and the edges they may merge, shared case bodies with the cap on their
size, and the layout. When the tree is laid out the module runs it beside the
graph: `pc` is the block the graph executes and `text` where the printed program
stands. The walk is one atomic action per region, as in the code, and reaches
the specification as the constants `Emit`, `Fold` and `Lay`, which the
configuration binds to the operators of the same module. Phi copies are not in
the tree; a condition is named by its block.

**Expressions.** `IlExpr` is the expression language and its evaluation, the
constant folder and the flag folder; `Algebra` the algebraic simplifier with the
obfuscation idioms it undoes; `CExpr` the C text printed for an expression, by
the value that text has in C: a C value is a width, a signedness and a number,
promoted and converted as C does, and a signed result that does not fit wraps.
`ExprRewriting` puts one operand through the rewriters in any order and prints
it. Widths are scaled: `WordBits` stands for 64, `CWidths` for the fixed-width C
types below it, `IntWidths` for `int`. Floating point, byte swaps and the depth
limits of the walks are left out, the 512 levels at which `simplify` stops
(`algebra.cpp:65`) among them, which no operand comes near. Constructs whose C text is
known not to be exact (`NodeExact`, `FlagsExact`, see the remarks) are excluded
from `PrintedExact`.

**Functions and passes.** `IlFunction` is a function with its blocks, values,
cached edges and the verifier; `IlRun` a reference interpreter that yields a
trace (calls with arguments, stores outside the frame, the return). The passes
are pure operators, in `LocalPasses` (local-simplify, copy propagation, DCE,
CFG cleanup), `SsaPasses` (ssa-construct, ssa-optimize, const-fold-memory),
`CallPasses` (stack-prop and the frame analysis, recover-tailcall, resolve-call,
recover-syscall, fold-resolved-branch, vars and the image evaluator), `IndexBound` and `IndirectPasses` (resolve-indirect with
jump tables, bounds and path exploration). `CEmit` is the C function written at
the end: the types variable recovery declares, the loads and stores folded away,
the statements of a block and the copies on the edges. The test of a branch comes
before the copies of the edge it takes, and the do-while of a straight loop
(`DoWhiles`) tests a second time behind them (`Retest`). `FunctionPasses` drives a
function through all of them, one action per pass, and back to a new lift when a
branch resolves, as the driver does. A word has four bits and a byte one, so a
frame has sixteen places. `annotate-stack-canary` (a note), the
`skipsOwnTableRead` shortcut and the alignment `entryTarget` asks of a target
(`resolve_indirect.cpp:631`: addresses count instructions) are left out. A run of
the C stops as "uninitialised" where it reads a local whose store was dropped, by
name, through an address computed in the frame or by handing its object to a
call, and the lifted function never stops so. It stops as "gap" where its text is
known not to be exact and where the environment makes a caller's pointer point
into the frame (see the remarks); from a gap on nothing is compared.

## Runs

| Run | What it asks | Instance, and why it is enough |
|---|---|---|
| `guest_memory` | cache, dirty list and stamps (`IndInv`), harmless failure, atomic batches, refinement of `AddressSpace` | two pages of two bytes, three nodes, accesses inside a page, across both and past the end, batches of two patches chosen so that one depends on the other, four generations. A page pair is what spanning needs, a third node is what reuse after free needs |
| `run` | budgets, tokens, harmless refusal of a response, refinement of `GuestMachine`, every call returns; levels are those the rules in force give; `DispatchSound`: no steady sink misses or repeats a record, no thread is left mute except by a throw, ring and recorder account for what they saw, the terminal is never torn; `SpansSound`: profile, trace and stall reports are truthful; a stall is reported; `RunSound`: no handler or monitor outlives the job, an interrupt always finds it, only the third interrupt ends the process, one thread writes the crash report | the five modules share no variable, so a behaviour exercises one of them (`focus`). The session: a loop that stores into its own block, two-location pages, instruction budget 5, trace budget 4, block limit 3 (three different limits cut blocks in all three ways), two tokens, responses with good and bad registers and batches of two patches the second of which may depend on the first. The services: three categories of two names, two threads with two records each and a sink that comes, goes or throws once, two spans on two threads over three ticks, four interrupts and crashes of both threads |
| `decompile` | what convergence and stuckness claim; nothing lifted without an edge; every round proves something; a request is honoured within one pass; pass resolution complete and splittable; success means verified | driver and pass framework, which share no variable (`focus`). Every image of four blocks with a dispatcher whose answer changes, plus ladders of six blocks on which only edges make progress, under entry cap, branch cap, fence, round budgets 0 to 2 and a hard one, all four requests at every moment. Every registry of three passes over three maturities with at most one requirement each (the first may require itself, the third two or an unknown one), every walk, every hand-assembled pair |
| `lift_discovery` | every arm resolves, no stale extent, exactly the reachable code with holes listed, the worklist runs dry; the coverage loaded from a recording is exactly what the invocations asked for executed | every image of four instructions of five kinds, images with a gap and undecodable words, every trace of the images over four kinds of instruction that saw one target per indirect branch; two lifts. A split needs three instructions, a split of a split four. Recordings of two threads and six instructions over two segments: recursion takes five, a callback inside a nested call six |
| `structurizer` | the text enters the block the graph enters and runs its operations, but for three exceptions `RunsAsFunction` names; a failed speculation leaves no trace and, without loops, every label named is printed once (`ClaimedIsShown`); dominators, frontiers, loops, components and reducibility equal their path definitions, and post-dominators do where no cycle lies ahead (on and above one a claimed post-dominator is a true one) | every branching function of four blocks, with and without computed conditions and under tight limits; families of dispatchers, regions, flattened functions, nested loops and compare trees, which four blocks cannot show |
| `expr_rewriting` | meaning kept by any order of rewriters; they settle; the C printed has the value; a return is reported only from the outermost function | families of expressions around every rule at three-bit words, evaluated for every value of two registers; `int` as wide as a word and narrower. Beside them (`focus`) a session with three nested functions, the innermost a veneer that leaves the code domain, answered as the repository's tests do |
| `function_passes` | after every pass the verifier holds and the function shows what the lifted one showed; a branch taken as resolved has all its targets; the C shows the same, up to a do-while's second test | about 6,570 lifted functions: straight code, diamonds, loops, nested tests, trampolines, computed calls, jump tables, targets in registers and in the frame, register exchanges round a loop, narrow arguments, frame structures handed to calls; three environments each, traces of twelve steps |
| `dispatcher_loop`, `crash`, `wind_down`, `runs_whole`, `do_while` | what a comment of the code says and the code does not do: findings, below | the smallest instance that shows it |

Every bound is a constant, most with `Max`, `Limit`, `Ceiling`, `Cap` or `Fuel`
in the name (`RoundCeiling`, `SettleCeiling`, `FixpointLimit`, `kMaxRounds`,
`kSetCap`, `maxPaths` are the code's own, made small enough to be hit). The view
of `MCGuestMemory` drops `last`, which no action reads; its symmetry permutes
heap nodes, which no property names. Deadlock is checked in `guest_memory`,
`run`, `decompile` and `expr_rewriting`, where what may rest (a finished process,
an operand) is allowed to stutter and nothing else is; the others end when the
lift or the function has ended.

Fairness is assumed in three places. `ExecSession` assumes weak fairness of the
session's own steps and of the handler: both run on the caller's thread, and a
handler that never returned would block any implementation. Nothing is assumed
of the embedder. `LiftDiscovery` assumes weak fairness of the scan, a loop on
one thread. `MCRun` assumes it of the monitor's poll loop, and `RunLifecycle` of
the main and monitor threads' own steps (`FairRunSpec`), which the operating system
schedules; signals, crashes and the user are under no obligation. No liveness is
claimed for the driver: its rounds are bounded by counters, which the invariants
cover.

## Proofs

All theorems hold for every value of the constants that satisfies the named
assumptions of the modules: geometry, bytes, nodes, seeds and a canonicalizer
that is idempotent (`GuestPages`), sizes of inputs (`GuestMemory`), guest words
and options (`GuestIsa`, `ExecSession`), finite images and sane options
(`Driver`), metadata of passes (`PassPipeline`), finite images
(`LiftDiscovery`), code that execution does not run off and a finite set of
threads (`TraceCoverage`), and sentinels that are no data (`SentinelAssumption`,
`LevelAssumption`, `DispatchAssumption`). TLC evaluates each of them on the
instance of a run.

**Guest address space** (`GuestMemoryProofs`), for every page size, number of
pages, provider, canonicalizer and patch set.

* `Inductive`, `TypeCorrect`, `CacheNeverDangles`, `NoDirtyByteLost`,
  `StampsNeverLie`. A stamp is sound only because generations are drawn from a
  counter that every node's generation is below, and because no two pages share
  a node; so the invariant is `IndInv`: types, coherent cache, distinct nodes,
  complete dirty list, generations drawn, stamps sound. Each operator on a
  memory value is shown to keep `Sound` and to change a page only under a fresh
  generation (`Keeps`, `Fine`); actions follow.
* `FailuresHarmless`: each operation's failing outcomes come from the access
  check alone, which only adds pages of the provider.
* `BatchesAtomic`. That no accepted patch fails when it is performed is not
  inductive: validation and performance are two passes over the batch. `BatchInv`
  ties them together. While the batch is validated there is a trail of overlays,
  one per patch, each of which foresees what its patch makes of the permissions
  (`Trail`, `Foreseen`); while it is performed the memory agrees with the overlay
  of the patch that is next (`Agrees`), so that patch meets the pages validation
  said it would. Pages the provider adds on the way are ones no overlay speaks of.
* `RefinesPages`: the page table implements `AddressSpace`. What every operation
  does to bytes, permissions and dirty bytes is first stated of two memory values
  (`Written`, `Mapped`, `Seeded`, `Protected`, `Unmapped`, `Refreshed`,
  `Cleared`, or `Preserved` where it fails or only looks), then translated to the
  abstract step. That `dirtyRanges` reports exactly the dirty bits, although it
  visits only listed pages through the cache, is `DirtyRangesPages`, which needs
  `Sound`.

**Execution session** (`ExecSessionProofs`), for every guest program, embedder
and handler of the model: `SessionInvariant`, `TypeCorrect`, `Budgets`,
`TokensOnce`, `ImportIsPending`, `RefusalsHarmless`, `RefinesMachine`. The session is to behave as a
machine that decodes each instruction from the bytes memory holds when it
starts, although it runs decoded blocks out of a cache. `BlockOK` says that a
block whose stamps are current holds the words of memory now, which survives a
store because the store draws a generation that no block carries (`Outlives`).
Before the first instruction of a block the stamps are not looked at again, so
`LocalOK` says that they are current there, that the bound block is a good block
of this memory, and that the interpreter's registers differ from the session's
only where the block writes.
`BudgetOK` counts the instructions of the bound block still to run against both
budgets: a block is cut to what is left before it is entered.
`RefusalsHarmless` rests on what `validate` foresees: its overlay after the first
patch is what is mapped once that patch was performed, so past the checks no patch
fails and the frame that was pushed or popped before is never left behind.
`FramesTrackCalls` and `NoCallCutShort` have a hypothesis on the handler,
`CompletesTailCalls`: tail calls are completed, never redirected or stepped over,
and no other request is answered as a completed call (the handler of the
repository's test, and of the calls in the `expr_rewriting` run, is one). Then the frames are those
of the redirected calls the guest is in, and a return that belongs to one of them
is never reported as the end of the function. Without the hypothesis they are
not: a frame is found by its return address alone, so a completed call made from
the site of the innermost redirected one takes that one's frame.

**Driver** (`DriverProofs`), for every image, options record, ceiling and pattern
of requests: `TypeCorrect`, `WindDownIsPrompt`, `LiftedForAReason`, `Accumulates`, `RoundsPay`, `ConvergenceExplained`,
`StuckForGood`. `PromptWindDown` is inductive only together with where the
driver may be once a pass began late: past the pass, about to finish or done.
`KnownJustified` needs that every address a pass admits is in the candidate set
it absorbs as an edge, in the same step. The claims about how a run ended rest on
`PassesOK`: as long as a round has admitted nothing the graph is a fresh lift of
the known addresses, so the last pass of a round that found nothing is the pass
that would be run again. `ProgressOK` pays for a round with an address or an
edge, one round ahead.

**Pass framework** (`PassPipelineProofs`), for every registry and every answer of
every pass: `TypeCorrect`, `Verified`, `ResolvedValid`, `ResolveIsComplete`,
`SplitsResolve`, `Ratchet`. `ResolveIsComplete` is an exchange argument about the
greedy order: when some order of the usable passes is a walk, the passes put out
so far are one too, and each of them may stand before everything that is still
to come (`GreedyOK`). That the registry's order is never stuck on a set that has
an order is shown with a pass that comes first in it.

**Discovery** (`LiftDiscoveryProofs`), for every finite image and every sequence
of lifts: `TypeCorrect`, `NoLeaderLost`, `LiftNeverFails`, `NoBlockTooLong`. The
last holds for static lifts: `~program.coverage.active => NoStaleExtent`. The
argument is the invariant `Interior`: a leader strictly inside a measured extent
can only be the target of that extent's own terminator (any other visit would
have cut the extent at once), it is still waiting to be scanned, and since its
scan runs straight into the same terminator it visits itself and cuts the extent
then. When the worklist is empty no such leader is left.

`CoverInductive`, `NothingSweptIn` and `DiscoveryComplete` say that the blocks
hold exactly the reachable code and list where the flow could not be followed
(`CoversReachable`). Reachability is a least closed set, so no induction over
paths is needed: whatever has the roots and is closed under the flow has every
instruction measured and every start queued (`Sound`, which gives that nothing is
swept in), and conversely the blocks are closed under the flow, because where the
flow leaves an extent there is a leader while the lift works and a block once it
is done (`Linked`, `Rooted`), and a block is straight-line code up to its
terminator (`Shaped`). `NothingSweptIn` holds for every lift; completeness is
stated for static lifts and, under a trace, for the first lift of a function: a
stub left by an earlier traced lift is not lifted again, and the driver lifts a
traced function once (`driver.cpp:431-439`).

**Recorded coverage** (`TraceCoverageProofs`), for every module, any number of
threads, any length of the trace, any split into segments and any request:
`RecordedExactly` and `CoverageIsExact`. A thread is described by values: the
calls in progress, the calls made, the instructions executed and the callgraph
rows written. Three lemmas carry `Core` over the three things a step does to
them: an instruction is executed (`CoreRow`), a call begins (`CorePush`), a call
ends (`CorePop`). Its heart is `OwnOK`: an instruction was executed while its own
call was in progress, and every call in progress at that moment is one that its
own call goes up to through parents (`Under`). Hence an instruction inside a
call's interval is the call's own exactly when it is in the interval of no call
below it, which is what the reader computes (`OwnedIsRan`): a call below both
contains and is contained, and numbers go down from call to parent. The rest is
`GoesOn` (a branch and the row after it are of the same call, so order alone
finds the branches in a v5 database, and a v6 one names their targets), the
anchor of a frame (`Begun`, which gives the base address of the module), and a
bijection between the candidates in the reader's order and the calls in the order
they began (`OrdinalIsRank`).

**Observability** (`ObservabilityProofs`), for any number of threads, sinks,
categories, rules, spans and ticks: `RunsSound`, `RulesDecideLevels`,
`DispatchesSound`, `SpansAreSound`.
`RunInv` is the order of the teardown: while a handler runs anywhere it is
installed, its pointer is set and its thread is running, and the job is alive
until all of that is over. `LevelsInv` needs that the environment is read before
anything registers. For `DispatchSound`, each thread's walk over its snapshot is
described by what it has written and what it still holds, which are disjoint and
together cover the sinks that were there throughout (`Walk`); ids of sinks are
never used twice; the ring is a suffix of what it was offered. For `SpansSound`
(`SpanInv`), the open spans of a thread lie in the order they began and what is
charged to one fits before the next (`FramesOK`), which survives the removal of
any of them (`FramesPop`). As long as spans end innermost first, the self times
are ahead of the outermost durations by exactly what is charged to the spans
still open (`SumOK`). That sum is a function of partial sums over the ids: ending
a span shifts it from that id on (`SumsShift`), and where nothing is charged a
smallest nonzero partial sum would contradict the one before it (`SumsZero`). The
thresholds of one silence double because a set of one more element has twice the
subsets (`PowerDoubles`).

Only model-checked, and why:

* liveness (`CallsReturn`, `Converges`, `StallReported`), which needs fairness and ENABLED;
* `ReturnedIsOutermost`, which also depends on a guest that returns where it was
  called from (what holds for every guest is `NoCallCutShort`);
* `Structurizer`, `ExprRewriting` and `FunctionPasses`: built from recursive
  operators over trees and functions, about which this prover cannot argue by
  induction. Arguments by a smallest counterexample over the naturals are within
  reach and are used where a sequence is walked.

## Findings

1. `dispatcher_loop` (`driver.cpp:515`, `:409`, `resolve_indirect.cpp:93-96`):
   the targets a branch was given in one round are put back before every later
   one, and `resolve-indirect` skips a branch that has targets. In a loop around
   a jump table whose index takes its second value only in the case the first
   one selects, the second case is never found and the function is emitted as if
   complete; `driver.h:53` speaks of rounds that "widen a dispatcher's target
   set a few entries at a time".
2. `crash` (`metrics.cpp:49`): the crash report takes the counter registry's lock
   unconditionally, while thread and ring snapshots are only tried. A fatal signal
   in a thread that holds it waits for itself; `threads.h:32` says "the crash
   handler must not deadlock".
3. `wind_down` (`driver.cpp:458`, `557`): a wind-down request during the last
   allowed round whose final pass admits nothing ends as a round cap, is not sealed
   and can fail for an unresolved branch. `job.h:13-15` says "the run finishes with
   what it proved, reported as partial", `driver.h:269-271` "output still
   produced", and the comment at `driver.cpp:404-405` calls an open branch "a marked
   hole in that answer, not a reason to discard it".
4. `runs_whole` (`structure.cpp:803-809`, `structure_dispatch.cpp:302-319`):
   `wrapAsLoop` leaves the header of a computed branch outside its `while (true)`,
   so what the header computes, the next case included, is computed once;
   `structure_dispatch.cpp:306` says "the shape is the shape of the source". It is
   one of three exceptions of `RunsAsFunction`; the other two are in the remarks.
5. `do_while` (`c_stmt.cpp:449-457`): the loop's test is printed again behind the
   copies of the back edge and reads the phis they assigned. A loop that counts a
   register down to zero ends a turn early; `c_stmt.h:4-6` says that a copy "must be
   emitted where control takes that edge and nowhere else".

Remarks that have no run of their own. The instances leave these cases out,
where they would hide everything else.

*Execution, driver, discovery, observability*

* A redirected tail call pushes a second frame with the same return address, and
  an inner `RET` then ends the session (`session.cpp:126`).
* A taken conditional branch out of the code domain is followed
  (`session.cpp:581`), although `session.h:85` speaks of taken branches.
* `ReturnFromCall` pops a frame and drops its `continuationPc`, although
  `external.h:29` promises the boundary.
* Register writes through `session.state()` while no import is pending are not
  seen by the interpreter (`session.h:118`, `164`); the model's embedder writes
  only where an import is due.
* An address refused at `maxTotalEntries` leaves the run reported as converged
  (`driver.cpp:275`); `ConvergedExplained` allows it, as one of the reasons why a
  candidate has no block.
* The comment on `DriverStop` ("every value but the last two still
  produced a function") and the list at `job.h:98` are behind the code.
* Under trace coverage, an indirect branch observed jumping to two addresses
  inside its own block leaves that block measured too long, so two blocks hold
  the same instructions (`lift.cpp:240`). Static lifts are proved free of it.
* `if (x) abort(); rest` gives the block of the call an edge to `rest`
  (`lift.cpp:302`).
* `lift.h:109-111` calls existing blocks split candidates; the constructor of
  `Discovery` (`lift.cpp:138-141`) exempts them, so an entry in the middle of
  one becomes an overlapping block. `NoStaleExtent` is about the blocks of the
  lift that returns.
* A second lift that runs straight into an unmapped address where an earlier lift
  left a stub stops at that leader (`lift.cpp:171`) and does not list its block
  as unresolved, although `lift.h:117-119` gives the list the "same meaning as
  LiftedFunction::unresolved". `CoversReachable` leaves those starts out.
* After a split, a start stays listed in `unresolved` although its block now
  ends in a fall-through. The scan follows the fall-through of an undecodable
  word although the block's terminator has no such edge.
* A v6 flow row of a call out of the module, followed by the caller's next
  instruction, is counted as an edge to the function outside, although the
  comment at `execution_coverage.cpp:206-208` says call crossings are removed;
  the lifter asks only for the successors of branches. One call that the
  recorder left open, or that executed nothing, makes the whole load fail.

*Expressions and passes*

* After `tst`, `ls` is folded to "the result is zero" (`fold.cpp:183`), although
  the carry is cleared (`:163`), which makes it always true. `matchCarryBound`
  accepts the mirrored form (`algebra_idioms.cpp:126`). `MulHi` takes the upper
  64 bits at every width.
* `forwardStoreFreeGlobals` does not ask that the first load dominate the next;
  a value can be replaced through `globalSubst` and again through `subst_`, and
  `simplifyPhisOnce` follows chains only one step: both can leave a value that
  no operation defines. Global addresses are compared for exact equality.
* SCCP takes a read of an untracked register as unknown; the entry block as a
  loop header gets no phi; `dceBlock` treats a write of a partial view as a
  write of the whole.
* The end of the slot just below the entry stack pointer wraps to zero, so
  `mayAlias` answers No for accesses that meet there (`stack_frame.cpp:122`
  against `stack_frame.h:43`, `:56`).
* `ImageEval` and `PathState` evaluate a signed comparison at width one
  (`image_eval.cpp:250`, `290-299`). `matchTableAddress` takes an unscaled index
  for an entry number. `evaluateAgainstBoundedRange` decides a signed comparison
  with a negative constant as unsigned. `armBound` and `localBound` ignore that a
  subtraction wraps, against "Never wrong when it answers"; `matchBitFactor`
  takes any shift for one bit; `nonNegativeBound` uses `INT64_MAX` at every
  width.
* Path exploration binds phis one after another, keeps memo entries over a
  rebinding, ignores overlapping stores, and keeps what is known of memory over
  a call. `resolve-indirect`'s evaluator reads writable image memory, and drops
  arms that are entry registers (`image_eval.cpp:192-208`, `index_bound.cpp:824`
  against `resolve_indirect.cpp:401-402`). A cycle under evaluation contributes
  no value.

*Structure and C*

* Where the entry has predecessors another region can claim it, and the printed
  function starts elsewhere, although the layout "puts the entry first by
  construction" (`structure.cpp:585-586`); a goto to a header whose bare test became
  a while's finds no label. A block may be shown more than once, against
  `structure.h:14`; `gotoChain` with equal targets (`structure.cpp:1805-1814`
  against `:169`).
* Post-dominators are missed on and above cycles: the meet takes a successor that
  has no parent yet for the root (`dominators.cpp:213-243`), so the header of every
  while loop sits under the virtual exit, although `dominators.h:78-80` states the
  equivalence for all blocks. Whatever is claimed is true, and where no cycle lies
  ahead everything is claimed (`PostdomSound`).
* `materializeAs` keeps a local's name that goes stale.
* A truncation or extraction of one bit is printed as a cast to `bool`
  (`c_expr.cpp:441-484`, `c_context.cpp:17-19`), which tests the whole shifted
  register: the branch a `tbz` is lifted to goes the other way for 2, although
  `c_expr.h:3-5` says a sub-64-bit operation "carries a cast that is semantics
  rather than decoration". `PrintedExact` leaves these nodes out (`NodeExact`).
* A signed-typed text reaches an unsigned shift, comparison, extension or
  division; the literal in `(0x1 << x)` is an `int`; one signed use makes every
  use of a variable signed; `flattenSelect` looks through sign extensions and
  truncations.
* Overlapping stack slots become distinct locals, and a store is dropped if no
  load has exactly its place, whatever a callee reads through a pointer. A read
  through the stack pointer plus a variable does not count either
  (`stack_store_fold.cpp:8-65`), although the stored value "must be unobservable
  from *anywhere* in the function" (`stack_store_fold.h:30`); the model would stop
  at such a read, and no instance has one.
* `xdec_helpers.h` inverts the overflow test, against "overflow-exact"; the
  helper for `cmn` computes the flags of a subtraction; a return width taken
  from a constant's bits can be a type C does not have.
* An argument that is read only through truncations and merged into a returned
  phi is declared narrow although another arm makes the return type wide, so its
  upper bits are lost (`variables.cpp:161-165`, "Not a demand").

## Not modelled, and why

Parsers (specification language, IL text, headers, ELF and Mach-O), the layout
of text and the command line are sequential translations of text or bytes, whose
correctness is about data and not about states. The contents of trace records,
access observers, pass statistics and log messages change no state the
properties look at. Object lifetimes other than the page nodes and the job
(`boundBlock_`, plugin libraries) need a model of ownership. The analysis cache
is a memo with one invalidation hook; the passes are modelled as if every
analysis were computed afresh. In the driver, branches that `recover-tailcall`
turns into calls are left out. Of a recording, the bytes of a row, the manifest
and the dictionaries are. In the emitter: the frame
of a dispatcher, exclusive accesses, string stores, virtual calls, imported
types, and where in the statement tree a copy is placed. Threads: a session and
a driver run on one thread; what other threads do to them is the embedder's turn
and the job's flags.

## Plan

Done: guest memory, session, driver with job, pass framework, discovery,
recorded coverage, observability, graph analyses and structurizer, expressions,
passes, emission.

1. Edge copies inside the statement tree: `Structurizer` and `CEmit` composed.
2. `TraceCoverage` composed with `LiftDiscovery`, so that a lift runs on the
   coverage of a recording; `liftBasicBlock` under `ExecSession`.
3. The analysis cache with its observer, composed with `PassPipeline`; the
   memory map's segments; type layout.
4. Proofs: `ReturnedIsOutermost` for guests that keep their return addresses.

## Running

    tlc -workers 2 -config MCGuestMemory.cfg MCGuestMemory
    tlapm GuestMemoryProofs.tla

and likewise for the other configurations; `PROJECT.json` names the module of
each. The runs take from a few seconds to about four minutes.
