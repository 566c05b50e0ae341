---------------------------- MODULE FunctionPasses ----------------------------
(***************************************************************************)
(* A function going through the passes of builtin.cpp, one action a pass.  *)
(* A fixpoint pass repeats until it changes nothing.  The pass manager     *)
(* itself and its scheduling are PassPipeline's.  A computed branch that   *)
(* resolves sends the function back to be lifted again with the new edges  *)
(* in place, as the driver does; the blocks they reach are all there.      *)
(* The passes, the interpreter and the emitter are pure and reach the      *)
(* specification as the constants Pass, Shows and ShowsC.                  *)
(***************************************************************************)
EXTENDS CEmit

CONSTANTS
  Pass(_, _),     \* the registry: pass name, function -> function after the pass
  Shows(_, _),    \* what a run of a function in an environment shows
  ShowsC(_, _),   \* what runs of the C written for a function show, by environment
  Programs,       \* the lifted functions to compile
  Envs            \* the environments they are run in

VARIABLES
  fn,         \* the function as the passes have left it
  pc,         \* the pass to run next
  lifted,     \* the function as it was lifted
  known,      \* the driver's resolutions: block -> targets of the branch ending it
  reference   \* what the lifted function shows in each environment

passVars == <<fn, pc, lifted, known, reference>>

\* The value of Pass.
registerBuiltinPasses(name, f) ==
  LET after == CASE name = "local-simplify"   -> localSimplify(f)
                 [] name = "cfg-finalize"     -> cfgFinalize(f)
                 [] name = "trampoline-fold"  -> trampolineFold(f)
                 [] name = "ssa-construct"    -> ssaConstruct(f)
                 [] name = "const-fold-memory" -> constFoldMemory(f)
                 [] name = "ssa-optimize"     -> ssaOptimize(f)
                 [] name = "stack-prop"       -> stackProp(f)
                 [] name = "recover-tailcall" -> recoverTailCall(f)
                 [] name = "resolve-call"     -> resolveCall(f)
                 [] name = "recover-syscall"  -> recoverSyscall(f)
                 [] name = "apply-types"      -> applyTypes(f)
                 [] name = "resolve-indirect" -> resolveIndirect(f)
                 [] name = "seal"             -> seal(f)
                 [] name = "fold-resolved-branch" -> foldResolvedBranch(f)
                 [] name = "vars"             -> vars(f)
  IN  after

\* The value of Shows.
Running(f, env) == LET run == RunOf(f, env) IN run

\* The value of ShowsC.
RunningC(f, envs) == LET em == Emission(f) IN [env \in envs |-> RunOfC(f, em, env)]

Init ==
  \E p \in Programs :
    /\ fn = p
    /\ lifted = p
    /\ known = Nothing
    /\ pc = "local-simplify"
    /\ reference = [env \in Envs |-> Shows(p, env)]

At(level, f) == [f EXCEPT !.level = level]

Once(pass, next) ==
  /\ pc = pass
  /\ fn' = Pass(pass, fn)
  /\ pc' = next
  /\ UNCHANGED <<lifted, known, reference>>

Fixpoint(pass, next, level) ==
  /\ pc = pass
  /\ LET g == Pass(pass, fn)
     IN  IF g = fn THEN fn' = At(level, fn) /\ pc' = next
                   ELSE fn' = g /\ pc' = pc
  /\ UNCHANGED <<lifted, known, reference>>

LocalSimplify == Fixpoint("local-simplify", "cfg-finalize", "Local")

CfgFinalize ==
  /\ pc = "cfg-finalize"
  /\ IF cfgFinalizeOk(fn) THEN fn' = At("Cfg", Pass("cfg-finalize", fn)) /\ pc' = "trampoline-fold"
                          ELSE fn' = fn /\ pc' = "failed"
  /\ UNCHANGED <<lifted, known, reference>>

TrampolineFold == Once("trampoline-fold", "apply-resolutions")

\* The driver stops at Cfg to put the edges back, and goes on from there, which
\* runs trampoline-fold again.
ApplyResolutions ==
  /\ pc = "apply-resolutions"
  /\ fn' = Pass("trampoline-fold", applyResolutions(fn, known))
  /\ pc' = "ssa-construct"
  /\ UNCHANGED <<lifted, known, reference>>

SsaConstruct    == Once("ssa-construct", "const-fold-memory")
ConstFoldMemory == Fixpoint("const-fold-memory", "ssa-optimize", "Ssa")
SsaOptimize     == Fixpoint("ssa-optimize", "stack-prop", "Ssa")
StackProp       == Fixpoint("stack-prop", "recover-tailcall", "Ssa")
RecoverTailCall == Once("recover-tailcall", "resolve-call")
ResolveCall     == Once("resolve-call", "recover-syscall")
RecoverSyscall  == Once("recover-syscall", "apply-types")
ApplyTypes      == Once("apply-types", "resolve-indirect")

\* A probe that proves an edge starts over from the lifter; one that proves
\* nothing new is the last, and what it leaves open fails the function or,
\* where the driver asks for it, is sealed.
ResolveIndirect ==
  LET g == Pass("resolve-indirect", fn)
      found == absorb(known, harvest(g))
      open == \E b \in ToSet(reversePostOrder(g)) : isOpenBranch(g, b)
  IN  /\ pc = "resolve-indirect"
      /\ known' = found
      /\ \/ found # known /\ fn' = lifted /\ pc' = "local-simplify"
         \/ found = known /\ ~open /\ fn' = At("Resolved", g) /\ pc' = "fold-resolved-branch"
         \/ found = known /\ open /\ fn' = g /\ pc' = "unresolved"
         \/ found = known /\ open /\ fn' = At("Resolved", Pass("seal", g)) /\ pc' = "fold-resolved-branch"
      /\ UNCHANGED <<lifted, reference>>

FoldResolvedBranch == Once("fold-resolved-branch", "vars")

Vars ==
  /\ pc = "vars"
  /\ fn' = At("Vars", Pass("vars", fn))
  /\ pc' = "done"
  /\ UNCHANGED <<lifted, known, reference>>

Next ==
  \/ LocalSimplify \/ CfgFinalize \/ TrampolineFold \/ ApplyResolutions \/ SsaConstruct \/ ConstFoldMemory \/ SsaOptimize
  \/ StackProp \/ RecoverTailCall \/ ResolveCall \/ RecoverSyscall \/ ApplyTypes \/ ResolveIndirect
  \/ FoldResolvedBranch \/ Vars

Spec == Init /\ [][Next]_passVars

(***************************************************************************)
(* Properties.                                                             *)
(***************************************************************************)
\* After every pass the function still shows, in every environment, what the
\* lifted one showed: the same calls with the same targets and arguments, the
\* same system instructions and return value, and the same memory at each.  A
\* run may end early at a sealed branch, and, while targets are still being
\* learned, at a branch to one not known yet.
BehaviourKept ==
  LET ends == {"Unimplemented"} \cup IF atLeast(fn.level, "Resolved") THEN {} ELSE {"lost"}
  IN  \A env \in Envs : SameRun(reference[env], Shows(fn, env), ends)

\* Once every reachable computed branch has targets, no run takes one of them
\* anywhere else: neither the table, the value set nor the path walk left a
\* target out.
BranchesComplete ==
  atLeast(fn.level, "Resolved") => \A env \in Envs : Shows(fn, env).stop # "lost"

\* The C function written in the end shows, in every environment, what the
\* lifted function showed: no load is moved past a store to its location, no
\* argument is declared narrower than it is read, the phis of a block are
\* assigned as if at once, and a store is only dropped if no call is handed its
\* object and no load reads it through an address computed in the frame.
\* A run counts up to where its text is not exact, where a caller's pointer
\* happens to lie in the frame, and where a do-while tests again what the copies
\* of its back edge have changed (EmittedWhole); a function whose slots overlap
\* does not count (README, Remarks).
EmittedKept ==
  pc = "done" =>
    LET runs == ShowsC(fn, Envs) IN \A env \in Envs : SameRunC(reference[env], UpToRetest(runs[env]))

\* The same of whole runs: the copies of an edge run where control takes that
\* edge and nowhere else (c_stmt.h:4-6).  printDoWhile prints the loop's test
\* again behind the copies of the back edge, and the loop can end there.
EmittedWhole ==
  pc = "done" =>
    LET runs == ShowsC(fn, Envs) IN \A env \in Envs : SameRunC(reference[env], runs[env])

\* After every pass the function satisfies the verifier at the maturity it has
\* reached, and from SSA on every value read is defined by an op that
\* dominates the read, which the verifier does not check.
PassesVerify == verify(fn, fn.level) /\ (InSsa(fn) => SsaWellFormed(fn))
=============================================================================
