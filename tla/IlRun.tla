-------------------------------- MODULE IlRun --------------------------------
(***************************************************************************)
(* Running a function of the intermediate language, before and after SSA:  *)
(* the reference that says whether a pass kept a function's behaviour.     *)
(* Below SSA a block runs as interp.cpp runs it.  From SSA on, which the   *)
(* interpreter refuses, a phi takes the operand of the edge it was entered *)
(* by, calls carry their arguments and the return its value.               *)
(*                                                                         *)
(* Memory is 2^WordBits bytes of one bit, so an access of w bits covers w  *)
(* bytes.  What an observer sees of a run is its trace: every call, system *)
(* instruction and return, with its arguments and the memory at that point.*)
(***************************************************************************)
EXTENDS IlFunction

CONSTANTS
  Image,        \* the bytes of the image: address -> bit
  Immutable,    \* the addresses the image maps read-only
  Executable,   \* the addresses the image maps as code
  PointerBits,  \* the low bits of a pointer that are its address, the rest a tag
  Helpers,      \* the addresses of register-preserving helpers (__chkstk)
  ArgRoots,     \* x0..x7: the argument registers, in order
  CalleeSaved,  \* the registers a call preserves by their name (x19..x29)
  Fuel          \* the blocks one run executes at most

ASSUME ImageAssumption == Immutable \subseteq DOMAIN Image /\ Fuel \in Nat

Addresses == 0..AllOnes(WordBits)
ResultRoot == ArgRoots[1]
tracked(r) == Regs[Regs[r].root].class \in {"General", "Flags", "StackPointer"}

readRegister(regs, r) ==
  LET i == Regs[r]
  IN  IF i.class = "Zero" THEN 0
      ELSE IF i.root = r \/ regs[i.root] = Undef THEN regs[i.root]
      ELSE ShrU(regs[i.root], Regs[i.root].w, i.off) % 2^i.w

writeRegister(regs, r, v) ==
  LET i == Regs[r]
      old == regs[i.root]
      rest == old - 2^i.off * (ShrU(old, Regs[i.root].w, i.off) % 2^i.w)
  IN  IF i.class = "Zero" THEN regs
      ELSE IF i.root = r \/ i.zext \/ v = Undef THEN [regs EXCEPT ![i.root] = v]
      ELSE [regs EXCEPT ![i.root] = IF old = Undef THEN Undef ELSE rest + v * 2^i.off]

Bytes(a, w) == {(a + i) % 2^WordBits : i \in 0..(w - 1)}
LoadFrom(mem, a, w) ==
  IF \E x \in Bytes(a, w) : mem[x] = Undef THEN Undef
  ELSE FoldSet(LAMBDA i, acc : acc + 2^i * mem[(a + i) % 2^WordBits], 0, 0..(w - 1))
StoreTo(mem, a, w, v) ==
  [x \in Addresses |-> IF x \in Bytes(a, w)
                       THEN (IF v = Undef THEN Undef ELSE BitAt(v, (x - a) % 2^WordBits))
                       ELSE mem[x]]

\* What a call may leave behind in mutable memory, decided by the environment.
Havoc(env, mem) ==
  [x \in Addresses |-> IF x \in Immutable \/ mem[x] = Undef \/ ~env.flip THEN mem[x] ELSE 1 - mem[x]]

(***************************************************************************)
(* A machine m: the block it is at and came from, the values, registers    *)
(* and memory, the trace, the number of answers taken from the outside,    *)
(* and why it stopped.                                                     *)
(***************************************************************************)
Start(f, env) ==
  [at |-> 1, from |-> 0, vals |-> [v \in 1..(f.next - 1) |-> Undef], regs |-> env.entry,
   mem |-> env.mem, trace |-> <<>>, answers |-> 0, stop |-> "running"]

InSsa(f) == atLeast(f.level, "Ssa")
Val(env, m, e) == Eval(e, [value |-> m.vals, entry |-> env.entry])
Vals(env, m, es) == MapSeq(es, LAMBDA e : Val(env, m, e))
Stopped(m, why) == [m EXCEPT !.stop = why]
GoTo(m, b) == [m EXCEPT !.at = b, !.from = m.at]
Define(m, op, v) == IF op.res = 0 THEN m ELSE [m EXCEPT !.vals[op.res] = v]
Observe(m, kind, target, args) ==
  [m EXCEPT !.trace = Append(@, [kind |-> kind, target |-> target, args |-> args, mem |-> m.mem])]

Answer(env, m) == env.answers[(m.answers % Len(env.answers)) + 1]

\* CachePointerDecoder; the processor ignores the tag when it lands.
Decoded(va) == va % 2^PointerBits

\* clobbers: what a call destroys, by the calling convention.
clobbers(r) == Regs[r].class \notin {"StackPointer", "Zero"} /\ r \notin CalleeSaved
registerPreservingHelperClobbers(r) == r \in {"x16", "x17", "x30"}

AfterCall(f, env, m, target) ==
  LET helper == target \in Helpers
      dies(r) == clobbers(r) /\ (helper => registerPreservingHelperClobbers(r))
  IN  [m EXCEPT !.mem = Havoc(env, @), !.answers = @ + 1,
                !.regs = [r \in DOMAIN @ |-> IF ~dies(r) THEN @[r]
                                              ELSE IF r = ResultRoot THEN Answer(env, m) ELSE Undef]]

Arguments(f, env, m, op, target) ==
  IF InSsa(f) THEN Vals(env, m, Tail(op.args))
  ELSE IF target \in Helpers THEN <<>>
  ELSE MapSeq(ArgRoots, LAMBDA r : m.regs[r])

CallOut(f, env, m, op) ==
  LET target == Val(env, m, op.args[1])
      seen == Observe(m, "call", Decoded(target), Arguments(f, env, m, op, target))
  IN  IF target = Undef THEN Stopped(m, "undef")
      ELSE Define(AfterCall(f, env, seen, target), op, Answer(env, m))

ReturnOf(m, v) == Stopped(Observe(m, "return", 0, v), "returned")

isSkippable(f, b) == Len(f.blocks[b]) = 1 /\ f.blocks[b][1].code = "Branch"

\* A computed branch: to a block of this function, or out of it as a tail call.
\* The block at the address may be one the branch's targets skip (trampoline-fold).
\* From SSA on a block is entered by the edges it has: a branch still open to it
\* loses the run.
BranchTo(f, env, m, op) ==
  LET t == Val(env, m, op.args[1])
      at == Decoded(t)
      seen == Observe(m, "call", at, Arguments(f, env, m, op, t))
      skipped == op.to # <<>> /\ at \in DOMAIN f.blocks \ ToSet(op.to)
      lands == IF skipped THEN (IF isSkippable(f, at) THEN f.blocks[at][1].to[1] ELSE at) ELSE at
  IN  IF t = Undef THEN Stopped(m, "undef")
      ELSE IF lands \notin ToSet(op.to) /\ (op.to # <<>> \/ (InSsa(f) /\ at \in DOMAIN f.blocks)) THEN Stopped(m, "lost")
      ELSE IF at \notin DOMAIN f.blocks THEN ReturnOf(AfterCall(f, env, seen, t), <<Answer(env, m)>>)
      ELSE GoTo(m, lands)

Step(f, env, m, op) ==
  LET v(i) == Val(env, m, op.args[i])
  IN  IF m.stop # "running" THEN m
      ELSE CASE op.code = "ReadReg"  -> Define(m, op, readRegister(m.regs, op.reg))
             [] op.code = "WriteReg" -> [m EXCEPT !.regs = writeRegister(@, op.reg, v(1))]
             [] op.code = "Load"     -> IF v(1) = Undef THEN Stopped(m, "undef")
                                        ELSE Define(m, op, LoadFrom(m.mem, v(1), op.w))
             [] op.code = "Store"    -> IF v(1) = Undef THEN Stopped(m, "undef")
                                        ELSE IF Bytes(v(1), op.w) \cap Immutable # {} THEN Stopped(m, "fault")
                                        ELSE [m EXCEPT !.mem = StoreTo(@, v(1), op.w, v(2))]
             [] op.code = "Branch"   -> GoTo(m, op.to[1])
             [] op.code = "CondBranch" -> IF v(1) = Undef THEN Stopped(m, "undef")
                                          ELSE GoTo(m, op.to[IF v(1) = 1 THEN 1 ELSE 2])
             [] op.code = "IndirectBranch" -> BranchTo(f, env, m, op)
             [] op.code = "Call"     -> CallOut(f, env, m, op)
             [] op.code = "Intrinsic" ->
                  Define([Observe(m, op.reg, 0, Vals(env, m, op.args)) EXCEPT
                            !.answers = @ + 1, !.mem = Havoc(env, @)], op, Answer(env, m))
             [] op.code = "Return"   -> ReturnOf(m, IF InSsa(f) THEN Vals(env, m, op.args)
                                                    ELSE <<m.regs[ResultRoot]>>)
             [] OTHER                -> Stopped(m, op.code)

\* Phis read their operands together, before any of them is assigned.
EnterBlock(f, env, m) ==
  LET phis == SelectSeq(f.blocks[m.at], LAMBDA op : op.code = "Phi")
      slot == CHOOSE i \in DOMAIN Preds(f, m.at) : Preds(f, m.at)[i] = m.from
      new  == [v \in {phis[i].res : i \in DOMAIN phis} |->
                 LET op == CHOOSE p \in ToSet(phis) : p.res = v IN Val(env, m, op.args[slot])]
  IN  IF phis = <<>> THEN m
      ELSE [m EXCEPT !.vals = [v \in DOMAIN @ |-> IF v \in DOMAIN new THEN new[v] ELSE @[v]]]

\* A block without a terminator is an error.
runBlock(f, env, m) ==
  LET ops == f.blocks[m.at]
      ran == FoldLeft(LAMBDA acc, op : IF op.code = "Phi" THEN acc ELSE Step(f, env, acc, op), EnterBlock(f, env, m), ops)
  IN  IF ran.stop # "running" \/ (ops # <<>> /\ isTerminator(Last(ops))) THEN ran ELSE Stopped(ran, "error")

RECURSIVE RunFor(_, _, _, _)
RunFor(f, env, m, fuel) ==
  IF m.stop # "running" \/ fuel = 0 THEN m ELSE RunFor(f, env, runBlock(f, env, m), fuel - 1)

RunOf(f, env) ==
  LET m == RunFor(f, env, Start(f, env), Fuel) IN [trace |-> m.trace, stop |-> m.stop]

(***************************************************************************)
(* got shows what want shows.  What want leaves undefined may be anything; *)
(* arguments may be cut to those the caller set up; a run that reads an    *)
(* undefined address or condition, or is still going, is compared up to    *)
(* there, and so is one that got cuts short for a reason in ends.          *)
(***************************************************************************)
AgreesOn(want, got) == want = Undef \/ want = got

SameEvent(want, got) ==
  /\ want.kind = got.kind
  /\ AgreesOn(want.target, got.target)
  /\ Len(got.args) <= Len(want.args)
  /\ \A i \in DOMAIN got.args : AgreesOn(want.args[i], got.args[i])
  /\ \A a \in Addresses : AgreesOn(want.mem[a], got.mem[a])

SameRun(want, got, ends) ==
  LET n == IF Len(want.trace) < Len(got.trace) THEN Len(want.trace) ELSE Len(got.trace)
  IN  /\ \A i \in 1..n : SameEvent(want.trace[i], got.trace[i])
      /\ want.stop \notin {"running", "undef"} =>
           IF got.stop \in ends THEN Len(got.trace) <= Len(want.trace)
           ELSE Len(got.trace) = Len(want.trace) /\ got.stop = want.stop
=============================================================================
