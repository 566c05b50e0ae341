------------------------------ MODULE GuestIsa ------------------------------
(***************************************************************************)
(* The guest machine as ExecSession sees it: code words in pages with      *)
(* generations, three registers, and one word per outcome that             *)
(* Interpreter::runBlock can end with (il/interp.cpp).  Instructions are   *)
(* one location long.  Operand data is reduced to what control flow and    *)
(* the register hand-over between session and interpreter can tell apart.  *)
(*                                                                         *)
(*   mov x0 := target      save x19 := lr      restore lr := x19           *)
(*   str word -> target    b / cbz x0 / br x0  bl / blr x0 / ret           *)
(*   svc                   brk (unreachable)   udf (unimplemented)         *)
(***************************************************************************)
EXTENDS Integers, FiniteSets

CONSTANTS
  Top,       \* locations are 0 .. Top; nothing is ever mapped at Top
  PageWords,  \* locations in a code page
  Word,       \* instruction encodings
  NoWord,     \* an unmapped location
  Insn        \* what a word decodes to: [Word -> Instruction]

ASSUME SizeAssumption == Top \in Nat /\ PageWords \in Nat \ {0}

Location == 0 .. Top
PageOf(a) == a \div PageWords
Page == {PageOf(a) : a \in Location}

Reg == {"x0", "x19", "lr"}
Registers == [Reg -> Location]

Opcode == {"mov", "save", "restore", "str", "b", "cbz", "br", "bl", "blr", "ret",
           "svc", "brk", "udf"}
Instruction == [op : Opcode, target : Location, word : Word \cup {NoWord}]

ASSUME WordAssumption ==
  /\ NoWord \notin Word
  /\ Insn \in [Word -> Instruction]
  /\ \A w \in Word : Insn[w].op = "str" => Insn[w].word \in Word

Words == {f \in [Location -> Word \cup {NoWord}] : f[Top] = NoWord}
CodeMemory == [words : Words, generation : [Page -> Nat], next : Nat]

-----------------------------------------------------------------------------
(* Memory *)

\* Every change of a page gives it a generation never used before.
Replace(m, words, p) ==
  [words |-> words, generation |-> [m.generation EXCEPT ![p] = m.next], next |-> m.next + 1]

WriteWord(m, a, w) == Replace(m, [m.words EXCEPT ![a] = w], PageOf(a))
UnmapPage(m, p) ==
  Replace(m, [a \in Location |-> IF PageOf(a) = p THEN NoWord ELSE m.words[a]], p)

\* A patch writes one word or unmaps a page.  A batch has two, in order, so that
\* the second can depend on the first.
MemoryPatch ==
  {p \in [kind : {"none", "write", "unmap"}, address : Location, word : Word \cup {NoWord}] :
     p.kind = "write" => p.word # NoWord}
MemoryBatch == [first : MemoryPatch, second : MemoryPatch]

Mapped(m) == {a \in Location : m.words[a] # NoWord}
PatchValid(mapped, patch) == patch.kind = "none" \/ patch.address \in mapped

\* Mutant: every patch is judged by the memory the batch starts from.
ValidateAsItStands(m, batch) ==
  PatchValid(Mapped(m), batch.first) /\ PatchValid(Mapped(m), batch.second)

\* What is mapped once the patch took effect: validate's overlay.
Overlay(mapped, patch) ==
  {a \in mapped : patch.kind = "unmap" => PageOf(a) # PageOf(patch.address)}
Validate(m, batch) ==
  /\ PatchValid(Mapped(m), batch.first)
  /\ PatchValid(Overlay(Mapped(m), batch.first), batch.second)

Patched(m, patch) ==
  CASE patch.kind = "none" -> m
    [] patch.kind = "write" -> WriteWord(m, patch.address, patch.word)
    [] patch.kind = "unmap" -> UnmapPage(m, PageOf(patch.address))

\* apply validates and then works patch by patch: a patch that fails ends it, and
\* the ones before it stay.
ApplyMemory(m, batch) ==
  LET once == Patched(m, batch.first)
  IN IF ~Validate(m, batch) \/ ~PatchValid(Mapped(m), batch.first) THEN [ok |-> FALSE, memory |-> m]
     ELSE IF ~PatchValid(Mapped(once), batch.second) THEN [ok |-> FALSE, memory |-> once]
     ELSE [ok |-> TRUE, memory |-> Patched(once, batch.second)]

-----------------------------------------------------------------------------
(* Instructions *)

Straight == {"mov", "save", "restore", "str"}   \* control falls through
Calls == {"bl", "blr"}
EndsFetch == Opcode \ (Straight \cup {"svc"})   \* InsnFlow: terminates() or calls

Faults(m, i) == i.op = "str" /\ m.words[i.target] = NoWord

\* The registers an instruction writes, and their values after it ran at a.
Written(i) ==
  CASE i.op = "mov" -> {"x0"}
    [] i.op = "save" -> {"x19"}
    [] i.op = "restore" -> {"lr"}
    [] i.op \in Calls -> {"lr"}
    [] OTHER -> {}

RegistersAfter(i, a, regs) ==
  CASE i.op = "mov" -> [regs EXCEPT !["x0"] = i.target]
    [] i.op = "save" -> [regs EXCEPT !["x19"] = regs["lr"]]
    [] i.op = "restore" -> [regs EXCEPT !["lr"] = regs["x19"]]
    [] i.op \in Calls -> [regs EXCEPT !["lr"] = a + 1]
    [] OTHER -> regs

MemoryAfter(i, m) == IF i.op = "str" THEN WriteWord(m, i.target, i.word) ELSE m

CondTarget(i, a, regs) == IF regs["x0"] = 0 THEN i.target ELSE a + 1
=============================================================================
