---------------------------- MODULE ExecSession -----------------------------
(***************************************************************************)
(* xdec::exec::ExecSession (exec/session.cpp): run and resume drive a loop *)
(* that looks a block up in the cache or compiles it, runs it in an        *)
(* interpreter that keeps its own copy of the registers, and turns calls,  *)
(* syscalls and branches out of the code domain into requests to the       *)
(* embedder.  Blocks are validated against code-page generations at lookup *)
(* and again before every later instruction; GuestMemory shows that equal  *)
(* generations mean equal bytes.                                           *)
(*                                                                         *)
(* One thread: the embedder acts while control is "idle" (no call in       *)
(* progress) or "handler" (inside IExternalHandler::handle).  Dirty-byte   *)
(* tracking (dirtyRanges, clearDirty) is GuestMemory's and left out, as    *)
(* are the contents of trace records.                                      *)
(***************************************************************************)
EXTENDS GuestIsa, Sequences

CONSTANTS
  Program, Entry,         \* initial memory words and pc
  External,               \* where ExecOptions::externalBranch answers true
  MaxInstructions,        \* ExecOptions: 0 means no budget
  MaxBlockInstructions,
  MaxInstructionRecords,  \* TracePolicy: 0 means no limit
  SameRegisterFile,       \* the state uses the engine's register file
  NoBlock, NoRequest, Idle,
  NextPcs,                \* where a redirect may lead, by the request's target
  ContinuationPcs, StatePatches, MemoryPatches,           \* what responses carry
  Answers,                \* actions a handler uses, by the request's origin
  SharedBlocks,           \* blocks other sessions put in a shared cache: <<pc, budget>>
  EmbedderWrites,         \* words the embedder writes: <<location, word>>
  EmbedderRegisters,      \* registers it writes through state(): <<register, value>>
  MaxGeneration, MaxTokens

Action == {"HandledContinue", "ReturnFromCall", "Redirect", "Stop"}
Origin == {"instruction", "tail", "callback"}

\* A register name outside the file makes MachineState::apply fail.
StatePatch == UNION {[R -> Location] : R \in SUBSET (Reg \cup {"unknown"})}

ASSUME OptionAssumption ==
  /\ MaxInstructions \in Nat /\ MaxBlockInstructions \in Nat /\ MaxInstructionRecords \in Nat
  /\ SameRegisterFile \in BOOLEAN
  /\ MaxGeneration \in Nat /\ MaxTokens \in Nat
ASSUME GuestAssumption ==
  /\ Program \in Words /\ Entry \in Location /\ External \subseteq Location
  /\ NextPcs \in [Location -> SUBSET Location] /\ ContinuationPcs \subseteq Location
  /\ StatePatches \subseteq StatePatch /\ MemoryPatches \subseteq MemoryBatch
  /\ Answers \in [Origin -> SUBSET Action]
  /\ SharedBlocks \subseteq Location \X (Nat \ {0})
  /\ EmbedderWrites \subseteq (0 .. (Top - 1)) \X Word
  /\ EmbedderRegisters \subseteq Reg \X Location

VARIABLES
  memory, state,     \* guest memory; MachineState: pc and registers
  interp,            \* the interpreter's own registers
  stateNeedsImport,
  cache,             \* blocks by start pc
  local,             \* runLoop's locals: the bound block and the instruction in flight
  frames,            \* redirectedCallReturns_
  executed, emitted,
  tokenGeneration, suspended,
  observer, handler, \* whether one is set
  control, pending,  \* where the thread is; the request inside handle()
  result,            \* SessionStop and pc of the last ExecResult
  calls,             \* history: return pcs of redirected calls the guest is really in
  spent              \* history: tokens a successful resume used up

progress == <<executed, emitted>>
tokens == <<tokenGeneration, suspended, spent>>
setup == <<observer, handler>>
vars == <<memory, state, interp, stateNeedsImport, cache, local, frames, progress, tokens,
          setup, control, pending, result, calls>>

Request == [kind : {"DirectCall", "IndirectCall", "Syscall"}, pc : Location,
            returnPc : Location, target : Location,
            origin : Origin]   \* history: the request itself does not say
ASSUME SentinelAssumption == NoRequest \notin Request /\ Idle \notin Location

\* What the embedder may answer to a request.
Response(request) ==
  [action : Answers[request.origin], nextPc : NextPcs[request.target],
   continuationPc : ContinuationPcs, registers : StatePatches, memory : MemoryPatches]

SessionStop == {"none", "Returned", "InstructionBudget", "ExternalBoundary", "HandlerStop",
                "Fault", "Unimplemented", "Unreachable", "InvalidResume",
                "InvalidConfiguration"}

\* b is an ExecBlock for the code at a.
IsBlock(b, a) ==
  /\ \E last \in a .. Top : b.code \in [a .. last -> Word]
  /\ \E pages \in SUBSET Page : b.stamps \in [pages -> Nat]

-----------------------------------------------------------------------------
(* compileExecBlock *)

\* How many instructions are fetched from a: up to one that ends the block,
\* the budget, or the last readable one.
Fetched(m, a, budget) ==
  CHOOSE n \in 1 .. budget :
    /\ \A k \in 0 .. (n - 1) : m.words[a + k] # NoWord
    /\ \A k \in 0 .. (n - 2) : Insn[m.words[a + k]].op \notin EndsFetch
    /\ \/ n = budget
       \/ Insn[m.words[a + n - 1]].op \in EndsFetch
       \/ m.words[a + n] = NoWord

\* liftBasicBlock starts a second block at a branch target inside the range.
Kept(m, a, n) ==
  LET i == Insn[m.words[a + n - 1]]
  IN IF i.op \in {"b", "cbz"} /\ i.target \in (a + 1) .. (a + n - 1) THEN i.target - a ELSE n

Compile(m, a, budget) ==
  LET n == Fetched(m, a, budget)
  IN [code |-> [x \in a .. (a + Kept(m, a, n) - 1) |-> m.words[x]],
      stamps |-> [p \in {PageOf(x) : x \in a .. (a + n - 1)} |-> m.generation[p]]]

ValidFor(b, m) == \A p \in DOMAIN b.stamps : m.generation[p] = b.stamps[p]

Size(b) == Cardinality(DOMAIN b.code)

WrittenRoots(b) == UNION {Written(Insn[b.code[a]]) : a \in DOMAIN b.code}

-----------------------------------------------------------------------------
(* Ends of a call *)

NoLocal == [block |-> NoBlock, at |-> Idle, active |-> Idle]

Return(stop, pc) == control' = "idle" /\ result' = [stop |-> stop, pc |-> pc]

\* Mutant: the token of the previous suspension stays good.
SuspendKeepingToken(request, reason) ==
  /\ suspended' = request
  /\ tokenGeneration' = IF tokenGeneration = 0 THEN 1 ELSE tokenGeneration
  /\ Return(reason, state'.pc)
Suspend(request, reason) ==
  /\ suspended' = request
  /\ tokenGeneration' = tokenGeneration + 1
  /\ Return(reason, state'.pc)

-----------------------------------------------------------------------------
(* applyResponse *)

\* The checks made before anything changes.
Checked(response) ==
  "unknown" \notin DOMAIN response.registers /\ Validate(memory, response.memory)

\* Past them the frames change first and memory after, which may still fail.
Accepted(response) == Checked(response) /\ ApplyMemory(memory, response.memory).ok

\* Mutant: a completed call model leaves its redirect frame behind.
FramesAfterKeeping(request, response) ==
  IF response.action = "Redirect" /\ request.kind \in {"DirectCall", "IndirectCall"}
  THEN Append(frames, [returnPc |-> request.returnPc,
                       continuationPc |-> response.continuationPc])
  ELSE frames

FramesAfter(request, response) ==
  CASE response.action = "Redirect" /\ request.kind \in {"DirectCall", "IndirectCall"} ->
         Append(frames, [returnPc |-> request.returnPc,
                         continuationPc |-> response.continuationPc])
    [] response.action = "ReturnFromCall" /\ frames # <<>>
         /\ frames[Len(frames)].returnPc = request.returnPc ->
         SubSeq(frames, 1, Len(frames) - 1)
    [] OTHER -> frames

PcAfter(request, response) ==
  CASE response.action = "Redirect" -> response.nextPc
    [] response.action \in {"ReturnFromCall", "HandledContinue"} -> request.returnPc
    [] OTHER -> state.pc

\* History: a tail call that comes back ends the redirected call it was made
\* from; a redirected call is a new one unless it replaces its caller.
CallsAfter(request, response) ==
  CASE response.action = "Redirect" /\ request.origin # "tail" /\ request.kind # "Syscall" ->
         Append(calls, request.returnPc)
    [] response.action \in {"ReturnFromCall", "HandledContinue"} /\ request.origin = "tail"
         /\ calls # <<>> /\ calls[Len(calls)] = request.returnPc ->
         SubSeq(calls, 1, Len(calls) - 1)
    [] OTHER -> calls

\* What applyResponse has done to frames and memory when it returns.
FramesLeft(request, response) ==
  IF Checked(response) THEN FramesAfter(request, response) ELSE frames
MemoryLeft(response) ==
  IF Checked(response) THEN ApplyMemory(memory, response.memory).memory ELSE memory

ApplyResponse(request, response) ==
  /\ Accepted(response)
  /\ memory' = MemoryLeft(response)
  /\ state' = [pc |-> PcAfter(request, response),
               regs |-> [r \in Reg |-> IF r \in DOMAIN response.registers
                                       THEN response.registers[r] ELSE state.regs[r]]]
  /\ frames' = FramesLeft(request, response)
  /\ calls' = CallsAfter(request, response)
  /\ stateNeedsImport' = TRUE

\* The error leaves frames and memory as they are at that moment.
RejectResponse(request, response) ==
  /\ ~Accepted(response)
  /\ memory' = MemoryLeft(response)
  /\ frames' = FramesLeft(request, response)
  /\ UNCHANGED <<state, stateNeedsImport, calls>>

-----------------------------------------------------------------------------
(* run and resume *)

\* Bounds the calls: each one suspends at most once.
MayCall == control = "idle" /\ tokenGeneration < MaxTokens

ConfigurationValid == SameRegisterFile /\ MaxBlockInstructions # 0

Run ==
  /\ MayCall
  /\ IF ~ConfigurationValid THEN Return("InvalidConfiguration", state.pc)
     ELSE IF suspended # NoRequest THEN Return("InvalidResume", state.pc)
     ELSE control' = "loop" /\ UNCHANGED result
  /\ UNCHANGED <<memory, state, interp, stateNeedsImport, cache, local, frames, progress,
                 tokens, setup, pending, calls>>

\* A token of this session, current or old, or of another one (own = FALSE).
Honoured(own, token) == suspended # NoRequest /\ own /\ token = tokenGeneration

ResumeRefused(own, token) ==
  /\ MayCall
  /\ ~Honoured(own, token)
  /\ Return("InvalidResume", state.pc)
  /\ UNCHANGED <<memory, state, interp, stateNeedsImport, cache, local, frames, progress,
                 tokens, setup, pending, calls>>

ResumeRejected(token, response) ==
  /\ MayCall
  /\ Honoured(TRUE, token)
  /\ RejectResponse(suspended, response)
  /\ Return("Fault", state.pc)
  /\ UNCHANGED <<interp, cache, local, progress, tokens, setup, pending>>

Resume(token, response) ==
  /\ MayCall
  /\ Honoured(TRUE, token)
  /\ ApplyResponse(suspended, response)
  /\ spent' = spent \cup {token}
  /\ IF response.action = "Stop" THEN Suspend(suspended, "HandlerStop")
     ELSE /\ suspended' = NoRequest
          /\ control' = "loop"
          /\ UNCHANGED <<tokenGeneration, result>>
  /\ UNCHANGED <<interp, cache, local, progress, setup, pending>>

-----------------------------------------------------------------------------
(* runLoop: from the top of the loop to the first instruction of a block *)

TraceLimited == observer /\ MaxInstructionRecords # 0

OutOfBudget ==
  \/ MaxInstructions # 0 /\ executed >= MaxInstructions
  \/ TraceLimited /\ emitted >= MaxInstructionRecords

BlockBudget ==
  LET bounds == {MaxBlockInstructions}
                \cup {n - executed : n \in {MaxInstructions} \ {0}}
                \cup {n - emitted : n \in IF TraceLimited THEN {MaxInstructionRecords} ELSE {}}
  IN CHOOSE b \in bounds : \A c \in bounds : b <= c

BudgetSpent ==
  /\ control = "loop"
  /\ OutOfBudget
  /\ Return("InstructionBudget", state.pc)
  /\ UNCHANGED <<memory, state, interp, stateNeedsImport, cache, local, frames, progress,
                 tokens, setup, pending, calls>>

\* Mutant: a cached block is used whatever its length.
ReusableAnySize(b) == b # NoBlock /\ ValidFor(b, memory)

\* The cached block for the pc may be used as it stands.
Reusable(b) == b # NoBlock /\ ValidFor(b, memory) /\ Size(b) <= BlockBudget

CompileFails ==
  /\ control = "loop"
  /\ ~OutOfBudget
  /\ ~Reusable(cache[state.pc])
  /\ memory.words[state.pc] = NoWord
  /\ Return("Fault", state.pc)
  /\ UNCHANGED <<memory, state, interp, stateNeedsImport, cache, local, frames, progress,
                 tokens, setup, pending, calls>>

EnterBlock ==
  /\ control = "loop"
  /\ ~OutOfBudget
  /\ LET found == cache[state.pc]
         b == IF Reusable(found) THEN found ELSE Compile(memory, state.pc, BlockBudget)
     IN /\ Reusable(found) \/ memory.words[state.pc] # NoWord
        /\ cache' = [cache EXCEPT ![state.pc] = b]
        /\ local' = [block |-> b, at |-> state.pc, active |-> Idle]
  /\ interp' = IF stateNeedsImport THEN state.regs ELSE interp
  /\ stateNeedsImport' = FALSE
  /\ control' = "block"
  /\ UNCHANGED <<memory, state, frames, progress, tokens, setup, pending, result, calls>>

-----------------------------------------------------------------------------
(* runBlock with the session's hooks *)

Current == Insn[local.block.code[local.at]]

\* A block without a terminator is closed by a branch to the next location.
LastOfBlock == local.at + 1 \notin DOMAIN local.block.code

\* Mutant: the interrupt hook is missing.
NeverInterrupted == FALSE

\* The interrupt hook: the instruction that just ran may have changed the code.
Interrupted == local.active # Idle /\ ~ValidFor(local.block, memory)

\* finalize() of n instructions.
Finalize(n) ==
  /\ executed' = executed + n
  /\ emitted' = IF observer THEN emitted + n ELSE emitted

InFlight == IF local.active = Idle THEN 0 ELSE 1

Executing(ops) == control = "block" /\ ~Interrupted /\ Current.op \in ops

\* exportState and the end of runBlock, with the interpreter's registers regs.
Leave(pc, regs) ==
  /\ interp' = regs
  /\ state' = [pc |-> pc, regs |-> [r \in Reg |-> IF r \in WrittenRoots(local.block)
                                                  THEN regs[r] ELSE state.regs[r]]]
  /\ local' = NoLocal

After == RegistersAfter(Current, local.at, interp)

\* Mutant: the last instruction of a block is not finalized.
EndBlockUncounted(pc) == Finalize(InFlight) /\ Leave(pc, After)
\* The block ended with the instruction at local.at.
EndBlock(pc) == Finalize(InFlight + 1) /\ Leave(pc, After)

Continue(pc) ==
  /\ EndBlock(pc)
  /\ control' = "loop"
  /\ UNCHANGED <<tokens, pending, result>>

\* A request: the state is left at the requesting instruction.
Raise(request) ==
  /\ EndBlock(request.pc)
  /\ IF handler
     THEN /\ pending' = request
          /\ control' = "handler"
          /\ UNCHANGED <<tokens, result>>
     ELSE /\ Suspend(request, "ExternalBoundary")
          /\ UNCHANGED <<spent, pending>>

Interrupt ==
  /\ control = "block"
  /\ Interrupted
  /\ Finalize(InFlight)
  /\ Leave(local.at, interp)
  /\ control' = "loop"
  /\ UNCHANGED <<memory, stateNeedsImport, cache, frames, tokens, setup, pending, result, calls>>

Execute ==
  /\ Executing(Straight)
  /\ ~Faults(memory, Current)
  /\ ~LastOfBlock
  /\ Finalize(InFlight)
  /\ interp' = After
  /\ memory' = MemoryAfter(Current, memory)
  /\ local' = [local EXCEPT !.at = @ + 1, !.active = local.at]
  /\ UNCHANGED <<state, stateNeedsImport, cache, frames, tokens, setup, control, pending,
                 result, calls>>

-----------------------------------------------------------------------------
(* runLoop: what each outcome of the block leads to *)

LeavesDomain(target) == target \in External

\* A direct branch, or the branch to the next location that closes a block cut
\* short by the budget, by unreadable memory or by a leader.
TakeBranch ==
  /\ \/ Executing({"b"})
     \/ Executing(Straight) /\ LastOfBlock /\ ~Faults(memory, Current)
  /\ memory' = MemoryAfter(Current, memory)
  /\ LET target == IF Current.op = "b" THEN Current.target ELSE local.at + 1
     IN IF LeavesDomain(target)
        THEN Raise([kind |-> "DirectCall", pc |-> local.at, returnPc |-> After["lr"],
                    target |-> target, origin |-> "tail"])
        ELSE Continue(target)
  /\ UNCHANGED <<stateNeedsImport, cache, frames, setup, calls>>

TakeCondBranch ==
  /\ Executing({"cbz"})
  /\ Continue(CondTarget(Current, local.at, interp))
  /\ UNCHANGED <<memory, stateNeedsImport, cache, frames, setup, calls>>

TakeIndirectBranch ==
  /\ Executing({"br"})
  /\ IF LeavesDomain(interp["x0"])
     THEN Raise([kind |-> "IndirectCall", pc |-> local.at, returnPc |-> interp["lr"],
                 target |-> interp["x0"], origin |-> "tail"])
     ELSE Continue(interp["x0"])
  /\ UNCHANGED <<memory, stateNeedsImport, cache, frames, setup, calls>>

\* History: a return to where the innermost redirected call came from ends it.
CallsReturned ==
  IF calls # <<>> /\ calls[Len(calls)] = interp["lr"] THEN SubSeq(calls, 1, Len(calls) - 1)
  ELSE calls

\* A ret to the top redirect frame ends that call: the caller goes on, or the
\* model that redirected asked to be called back first.
ReturnFromFrame ==
  /\ Executing({"ret"})
  /\ frames # <<>>
  /\ LET frame == frames[Len(frames)]
     IN /\ frame.returnPc = interp["lr"]
        /\ frames' = SubSeq(frames, 1, Len(frames) - 1)
        /\ IF frame.continuationPc = 0 THEN Continue(frame.returnPc)
           ELSE Raise([kind |-> "DirectCall", pc |-> local.at, returnPc |-> frame.returnPc,
                       target |-> frame.continuationPc, origin |-> "callback"])
  /\ calls' = CallsReturned
  /\ UNCHANGED <<memory, stateNeedsImport, cache, setup>>

\* Any other ret ends the session's function.
Returned ==
  /\ Executing({"ret"})
  /\ frames # <<>> => frames[Len(frames)].returnPc # interp["lr"]
  /\ EndBlock(local.at)
  /\ Return("Returned", local.at)
  /\ UNCHANGED <<memory, stateNeedsImport, cache, frames, tokens, setup, pending, calls>>

\* Unreachable reports the state's pc, the others the instruction's; the
\* state's pc stays where the block began in all three.
StopAtInstruction ==
  /\ \/ Executing({"brk"}) /\ Return("Unreachable", state.pc)
     \/ Executing({"udf"}) /\ Return("Unimplemented", local.at)
     \/ Executing(Straight) /\ Faults(memory, Current) /\ Return("Fault", local.at)
  /\ Finalize(InFlight + 1)
  /\ Leave(state.pc, interp)
  /\ UNCHANGED <<memory, stateNeedsImport, cache, frames, tokens, setup, pending, calls>>

RaiseBoundary ==
  /\ Executing(Calls \cup {"svc"})
  /\ Raise([kind |-> CASE Current.op = "bl" -> "DirectCall"
                      [] Current.op = "blr" -> "IndirectCall"
                      [] OTHER -> "Syscall",
            pc |-> local.at, returnPc |-> local.at + 1,
            target |-> IF Current.op = "blr" THEN interp["x0"] ELSE Current.target,
            origin |-> "instruction"])
  /\ UNCHANGED <<memory, stateNeedsImport, cache, frames, setup, calls>>

-----------------------------------------------------------------------------
(* The handler returns from handle() *)

HandlerFails ==
  /\ control = "handler"
  /\ UNCHANGED <<memory, state, interp, stateNeedsImport, cache, local, frames, progress,
                 spent, setup, calls>>
  /\ Suspend(pending, "HandlerStop")
  /\ pending' = NoRequest

HandlerRejected(response) ==
  /\ control = "handler"
  /\ RejectResponse(pending, response)
  /\ Suspend(pending, "Fault")
  /\ pending' = NoRequest
  /\ UNCHANGED <<interp, cache, local, progress, spent, setup>>

HandlerAnswers(response) ==
  /\ control = "handler"
  /\ ApplyResponse(pending, response)
  /\ IF response.action = "Stop" THEN Suspend(pending, "HandlerStop")
     ELSE control' = "loop" /\ UNCHANGED <<tokenGeneration, suspended, result>>
  /\ pending' = NoRequest
  /\ UNCHANGED <<interp, cache, local, progress, spent, setup>>

-----------------------------------------------------------------------------
(* The embedder, between calls or inside handle() *)

EmbedderTurn == control \in {"idle", "handler"}

\* setObserver and setExternalHandler.
SetHooks(o, h) ==
  /\ control = "idle"
  /\ observer' = o /\ handler' = h
  /\ UNCHANGED <<memory, state, interp, stateNeedsImport, cache, local, frames, progress,
                 tokens, control, pending, result, calls>>

\* It owns the address space.
WriteMemory(a, w) ==
  /\ EmbedderTurn
  /\ memory.next <= MaxGeneration
  /\ memory.words[a] # NoWord
  /\ memory' = WriteWord(memory, a, w)
  /\ UNCHANGED <<state, interp, stateNeedsImport, cache, local, frames, progress, tokens,
                 setup, control, pending, result, calls>>

\* session.state().write(r, v), where an import is still to come: before the
\* first block and at a suspension.  Written at any other time it is not seen.
WriteState(r, v) ==
  /\ control = "idle"
  /\ stateNeedsImport \/ suspended # NoRequest
  /\ state' = [state EXCEPT !.regs[r] = v]
  /\ UNCHANGED <<memory, interp, stateNeedsImport, cache, local, frames, progress, tokens,
                 setup, control, pending, result, calls>>

\* Another session that shares ExecOptions::blockCache compiled a block.
ShareBlock(a, budget) ==
  /\ EmbedderTurn
  /\ memory.words[a] # NoWord
  /\ cache' = [cache EXCEPT ![a] = Compile(memory, a, budget)]
  /\ UNCHANGED <<memory, state, interp, stateNeedsImport, local, frames, progress, tokens,
                 setup, control, pending, result, calls>>

-----------------------------------------------------------------------------
Init ==
  /\ memory = [words |-> Program, generation |-> [p \in Page |-> 1], next |-> 2]
  /\ state = [pc |-> Entry, regs |-> [r \in Reg |-> Top]]
  /\ interp = [r \in Reg |-> 0]
  /\ stateNeedsImport = TRUE
  /\ cache = [a \in Location |-> NoBlock]
  /\ local = NoLocal
  /\ frames = <<>> /\ calls = <<>>
  /\ executed = 0 /\ emitted = 0
  /\ tokenGeneration = 0 /\ suspended = NoRequest /\ spent = {}
  /\ observer \in BOOLEAN /\ handler \in BOOLEAN
  /\ control = "idle" /\ pending = NoRequest
  /\ result = [stop |-> "none", pc |-> Entry]

Session ==
  \/ BudgetSpent \/ CompileFails \/ EnterBlock
  \/ Interrupt \/ Execute
  \/ TakeBranch \/ TakeCondBranch \/ TakeIndirectBranch
  \/ ReturnFromFrame \/ Returned \/ StopAtInstruction \/ RaiseBoundary

Handler ==
  \/ HandlerFails
  \/ control = "handler" /\ \E r \in Response(pending) : HandlerRejected(r) \/ HandlerAnswers(r)

Embedder ==
  \/ Run
  \/ \E own \in BOOLEAN, t \in 1 .. tokenGeneration : ResumeRefused(own, t)
  \/ suspended # NoRequest /\ \E t \in 1 .. tokenGeneration, r \in Response(suspended) :
       ResumeRejected(t, r) \/ Resume(t, r)
  \/ \E o, h \in BOOLEAN : SetHooks(o, h)
  \/ \E x \in EmbedderWrites : WriteMemory(x[1], x[2])
  \/ \E x \in EmbedderRegisters : WriteState(x[1], x[2])
  \/ \E x \in SharedBlocks : ShareBlock(x[1], x[2])

Next == Session \/ Handler \/ Embedder

Spec == Init /\ [][Next]_vars

\* Once called, the session runs on its caller's thread, and a handler returns.
FairSpec == Spec /\ WF_vars(Session) /\ WF_vars(Handler)

-----------------------------------------------------------------------------
(* Properties *)

TypeOK ==
  /\ memory \in CodeMemory
  /\ state \in [pc : Location, regs : Registers]
  /\ interp \in Registers
  /\ stateNeedsImport \in BOOLEAN
  /\ \A a \in Location : cache[a] = NoBlock \/ IsBlock(cache[a], a)
  /\ local = NoLocal \/ (IsBlock(local.block, state.pc) /\ local.at \in DOMAIN local.block.code)
  /\ \A k \in 1 .. Len(frames) : frames[k] \in [returnPc : Location, continuationPc : Location]
  /\ executed \in Nat /\ emitted \in Nat
  /\ tokenGeneration \in Nat /\ spent \subseteq Nat
  /\ suspended \in Request \cup {NoRequest} /\ pending \in Request \cup {NoRequest}
  /\ observer \in BOOLEAN /\ handler \in BOOLEAN
  /\ control \in {"idle", "loop", "block", "handler"}
  /\ result \in [stop : SessionStop, pc : Location]

\* The budgets of ExecOptions and TracePolicy are never overrun, although they
\* are only consulted between blocks and blocks of any length may be cached.
WithinBudget ==
  /\ MaxInstructions # 0 => executed <= MaxInstructions
  /\ MaxInstructionRecords # 0 => emitted <= MaxInstructionRecords

\* A token that a successful resume used up never matches a later suspension.
TokenSingleUse == suspended # NoRequest => tokenGeneration \notin spent

\* A response that is refused leaves registers, pc, memory and redirect frames as
\* they were and the same boundary resumable, although applyResponse pushes or pops
\* the frame before it applies the memory patches and those are applied one by one:
\* validate() must foresee every failure, one patch's effect on the next included.
RejectedHarmless ==
  [][/\ pending # NoRequest /\ result'.stop = "Fault" => \A r \in Response(pending) :
            HandlerRejected(r) => UNCHANGED <<memory, state, frames>> /\ suspended' = pending
     /\ suspended # NoRequest /\ result'.stop = "Fault" => \A r \in Response(suspended) :
            ResumeRejected(tokenGeneration, r) =>
              UNCHANGED <<memory, state, frames, suspended, tokenGeneration>>]_vars

\* Outside blocks the session's registers and the interpreter's agree, unless
\* an import is due before the next block (session.h: stateNeedsImport_).
ImportPending ==
  control # "block" /\ suspended = NoRequest /\ ~stateNeedsImport => state.regs = interp

\* The session reports that the guest function returned only when the guest is
\* in none of the calls that responses redirected (session.h: redirectedCallReturns_).
ReturnedIsOutermost == control = "idle" /\ result.stop = "Returned" => calls = <<>>

\* Every call of run and resume returns.
CallsReturn == control # "idle" ~> control = "idle"

-----------------------------------------------------------------------------
(* The session implements the machine that runs one instruction at a time. *)

GuestRegisters ==
  CASE control = "block" -> interp
    [] stateNeedsImport \/ suspended # NoRequest \/ control = "handler" -> state.regs
    [] OTHER -> interp

Guest == INSTANCE GuestMachine WITH
  phase <- CASE control \in {"loop", "block"} -> "running"
             [] suspended # NoRequest \/ control = "handler" -> "boundary"
             [] OTHER -> "stopped",
  pc <- IF control = "block" THEN local.at ELSE state.pc,
  regs <- GuestRegisters,
  words <- memory.words

\* Block cache, register hand-over, budgets and interrupts are invisible: each
\* instruction the session runs is the one memory holds, on current registers.
RefinesGuestMachine == Guest!Spec
=============================================================================
