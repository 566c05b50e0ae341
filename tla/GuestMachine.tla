---------------------------- MODULE GuestMachine ----------------------------
(***************************************************************************)
(* What an ExecSession promises about the guest (docs/25): instructions    *)
(* run one at a time, each decoded from the bytes memory holds when it     *)
(* starts and each on the registers its predecessor left.  There are no    *)
(* blocks, no block cache, no interpreter copy of the registers and no     *)
(* budgets here; the caller may stop the machine after any instruction.    *)
(***************************************************************************)
EXTENDS GuestIsa

CONSTANTS External  \* targets outside the code domain (ExecOptions::externalBranch)

VARIABLES
  phase,  \* "stopped", "running" or "boundary"
  pc,
  regs,
  words

machine == <<phase, pc, regs, words>>

Goto(a) == phase' = "running" /\ pc' = a
Boundary == phase' = "boundary" /\ pc' = pc
Halt == phase' = "stopped" /\ pc' = pc

\* A branch out of the code domain may become a tail call.
BranchTo(a) == Goto(a) \/ (a \in External /\ Boundary)

Start == phase = "stopped" /\ Goto(pc) /\ UNCHANGED <<regs, words>>

Execute ==
  /\ phase = "running"
  /\ words[pc] # NoWord
  /\ LET i == Insn[words[pc]] IN
       /\ ~Faults([words |-> words], i)
       /\ regs' = RegistersAfter(i, pc, regs)
       /\ words' = IF i.op = "str" THEN [words EXCEPT ![i.target] = i.word] ELSE words
       /\ CASE i.op \in Straight -> BranchTo(pc + 1)
            [] i.op = "b" -> BranchTo(i.target)
            [] i.op = "br" -> BranchTo(regs["x0"])
            [] i.op = "cbz" -> Goto(CondTarget(i, pc, regs))
            [] i.op \in Calls \cup {"svc"} -> Boundary
            [] i.op = "ret" -> Goto(regs["lr"]) \/ Boundary \/ Halt
            [] OTHER -> FALSE

\* The caller's budget ran out, or the next instruction cannot be fetched.
Pause == phase = "running" /\ Halt /\ UNCHANGED <<regs, words>>

\* The instruction cannot be executed.  The registers keep every earlier
\* instruction's effect; the pc left behind is the block's, not this one's.
Refuse ==
  /\ phase = "running"
  /\ words[pc] # NoWord
  /\ LET i == Insn[words[pc]] IN i.op \in {"brk", "udf"} \/ Faults([words |-> words], i)
  /\ phase' = "stopped"
  /\ pc' \in Location
  /\ UNCHANGED <<regs, words>>

\* The environment answers a boundary and decides what the guest sees next.
Answer ==
  /\ phase = "boundary"
  /\ phase' \in {"boundary", "running"}
  /\ pc' \in Location /\ regs' \in Registers /\ words' \in Words

\* The embedder edits registers or memory while the guest does not run.
Edit ==
  /\ phase \in {"stopped", "boundary"}
  /\ regs' \in Registers /\ words' \in Words
  /\ UNCHANGED <<phase, pc>>

Init == phase = "stopped" /\ pc \in Location /\ regs \in Registers /\ words \in Words
Next == Start \/ Execute \/ Pause \/ Refuse \/ Answer \/ Edit
Spec == Init /\ [][Next]_machine
=============================================================================
