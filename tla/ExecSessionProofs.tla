------------------------- MODULE ExecSessionProofs --------------------------
(***************************************************************************)
(* Proofs about the execution session, for every guest program, every set  *)
(* of options and every embedder and handler that ExecSession allows.      *)
(***************************************************************************)
EXTENDS ExecSession, FiniteSetTheorems, SequenceTheorems, TLAPS

Frame == [returnPc : Location, continuationPc : Location]

\* A generation is used once: every page's is older than the next one.
MemoryOK(m) == m \in CodeMemory /\ \A p \in Page : m.generation[p] < m.next

\* b was compiled at a from a memory that m came from: as long as its stamps
\* are current, it holds the words of m.
BlockOK(b, a, m) ==
  /\ IsBlock(b, a)
  /\ \A x \in DOMAIN b.code : PageOf(x) \in DOMAIN b.stamps
  /\ \A p \in DOMAIN b.stamps : b.stamps[p] < m.next
  /\ ValidFor(b, m) => \A x \in DOMAIN b.code : m.words[x] = b.code[x]

\* The state of the session outside runBlock.
ShapeOK ==
  /\ MemoryOK(memory)
  /\ state \in [pc : Location, regs : Registers] /\ interp \in Registers
  /\ stateNeedsImport \in BOOLEAN
  /\ cache = [a \in Location |-> cache[a]]
  /\ frames \in Seq(Frame)
  /\ executed \in Nat /\ emitted \in Nat
  /\ tokenGeneration \in Nat /\ spent \subseteq Nat
  /\ suspended \in Request \cup {NoRequest} /\ pending \in Request \cup {NoRequest}
  /\ observer \in BOOLEAN /\ handler \in BOOLEAN
  /\ control \in {"idle", "loop", "block", "handler"}
  /\ result \in [stop : SessionStop, pc : Location]

\* A call in progress has a valid configuration and no suspension; a suspended
\* session had one, and is idle.
ControlOK ==
  /\ control # "idle" \/ suspended # NoRequest => ConfigurationValid
  /\ control # "idle" => suspended = NoRequest
  /\ control = "handler" => pending # NoRequest
  /\ control # "block" => local = NoLocal

CacheOK == \A a \in Location : cache[a] = NoBlock \/ BlockOK(cache[a], a, memory)

\* Inside runBlock: the bound block is code of this memory, its first
\* instruction cannot be stale, and the interpreter differs from the state only
\* in registers that the block writes.
LocalOK ==
  control = "block" =>
    /\ BlockOK(local.block, state.pc, memory)
    /\ local = [block |-> local.block, at |-> local.at, active |-> local.active]
    /\ local.at \in DOMAIN local.block.code
    /\ local.active \in Location \cup {Idle}
    /\ local.active = Idle => ValidFor(local.block, memory)
    /\ ~stateNeedsImport
    /\ \A r \in Reg : r \notin WrittenRoots(local.block) => interp[r] = state.regs[r]

\* Every instruction of the bound block that is still to run fits both budgets.
BudgetOK ==
  control = "block" =>
    \A x \in DOMAIN local.block.code :
      /\ MaxInstructions # 0 => executed + InFlight + (x - local.at) + 1 <= MaxInstructions
      /\ TraceLimited => emitted + InFlight + (x - local.at) + 1 <= MaxInstructionRecords

TokensOK == \A t \in spent : t <= tokenGeneration

SessionInv ==
  /\ ShapeOK
  /\ ControlOK
  /\ CacheOK
  /\ LocalOK
  /\ BudgetOK /\ WithinBudget
  /\ TokensOK /\ TokenSingleUse
  /\ ImportPending

(***************************************************************************)
(* Memory and the blocks compiled from it.                                 *)
(***************************************************************************)
\* A set of natural numbers has a smallest element.
LEMMA NatMin ==
  ASSUME NEW T \in SUBSET Nat, T # {}
  PROVE  \E x \in T : \A y \in T : x <= y
<1> DEFINE R == {ss \in Nat \X Nat : ss[1] < ss[2]}
<1>1. IsWellFoundedOn(R, Nat)
  BY NatLessThanWellFounded DEF OpToRel
<1>2. \A x, y \in Nat : x < y => <<x, y>> \in R
  OBVIOUS
<1> HIDE DEF R
<1>3. \E x \in T : \A y \in T : ~ (<<y, x>> \in R)
  BY <1>1, WFMin
<1>4. \A x, y \in Nat : ~(y < x) => x <= y
  OBVIOUS
<1>5. QED
  BY <1>2, <1>3, <1>4

\* Locations and pages.
LEMMA LocationFacts ==
  /\ Location \subseteq Nat /\ 0 \in Location /\ Top \in Location
  /\ \A a \in Location : PageOf(a) \in Page
  /\ \A a \in Location : a # Top => a + 1 \in Location
  BY SizeAssumption DEF Location, Page

\* A block compiled from m is still good for n: whatever m's successor n did
\* to a page gave the page a generation that no block carries.
Outlives(m, n) ==
  /\ MemoryOK(n)
  /\ \A b : \A a \in Location : BlockOK(b, a, m) => BlockOK(b, a, n)

\* Replacing the words of one page outlives every block.
LEMMA ReplaceOutlives ==
  ASSUME NEW m, MemoryOK(m), NEW words \in Words, NEW p \in Page,
         \A x \in Location : PageOf(x) # p => words[x] = m.words[x]
  PROVE  Outlives(m, Replace(m, words, p)) /\ Replace(m, words, p).words = words
<1> DEFINE n == Replace(m, words, p)
<1>1. /\ m.generation \in [Page -> Nat] /\ m.next \in Nat
      /\ \A q \in Page : m.generation[q] < m.next
  BY DEF MemoryOK, CodeMemory
<1>2. /\ n.words = words /\ n.next = m.next + 1
      /\ n.generation = [m.generation EXCEPT ![p] = m.next]
      /\ n = [words |-> words, generation |-> n.generation, next |-> n.next]
  BY DEF Replace
<1>3. MemoryOK(n)
  <2>1. n.generation \in [Page -> Nat] /\ n.next \in Nat
    BY <1>1, <1>2
  <2>2. \A q \in Page : n.generation[q] < n.next
    BY <1>1, <1>2
  <2>3. n \in CodeMemory
    BY <1>2, <2>1 DEF CodeMemory
  <2>4. QED
    BY <2>2, <2>3 DEF MemoryOK
<1>4. ASSUME NEW b, NEW a \in Location, BlockOK(b, a, m) PROVE BlockOK(b, a, n)
  <2>1. PICK last \in a .. Top, pages \in SUBSET Page :
          b.code \in [a .. last -> Word] /\ b.stamps \in [pages -> Nat]
    BY <1>4 DEF BlockOK, IsBlock
  <2>2. \A x \in DOMAIN b.code : x \in Location /\ PageOf(x) \in DOMAIN b.stamps
    BY <1>4, <2>1, SizeAssumption DEF BlockOK, Location
  <2>3. \A q \in DOMAIN b.stamps : q \in Page /\ b.stamps[q] \in Nat /\ b.stamps[q] < m.next
    BY <1>4, <2>1 DEF BlockOK
  <2>4. \A q \in DOMAIN b.stamps : b.stamps[q] < n.next
    BY <1>1, <1>2, <2>3
  <2>5. ASSUME ValidFor(b, n), NEW x \in DOMAIN b.code PROVE n.words[x] = b.code[x]
    <3>1. p \notin DOMAIN b.stamps
      BY <1>1, <1>2, <2>3, <2>5 DEF ValidFor
    <3>2. ValidFor(b, m)
      BY <1>1, <1>2, <2>3, <2>5, <3>1 DEF ValidFor
    <3>3. m.words[x] = b.code[x]
      BY <1>4, <2>5, <3>2 DEF BlockOK
    <3>4. words[x] = m.words[x]
      BY <2>2, <2>5, <3>1
    <3>5. QED
      BY <1>2, <3>3, <3>4
  <2> HIDE DEF n
  <2>6. IsBlock(b, a)
    BY <1>4 DEF BlockOK
  <2>7. QED
    BY <2>2, <2>4, <2>5, <2>6 DEF BlockOK
<1>5. QED
  BY <1>2, <1>3, <1>4 DEF Outlives

\* So does writing one word of mapped memory.
LEMMA WriteOutlives ==
  ASSUME NEW m, MemoryOK(m), NEW a \in Location, NEW w \in Word \cup {NoWord},
         m.words[a] # NoWord
  PROVE  Outlives(m, WriteWord(m, a, w)) /\ WriteWord(m, a, w).words = [m.words EXCEPT ![a] = w]
<1>1. m.words \in Words /\ m.words \in [Location -> Word \cup {NoWord}] /\ m.words[Top] = NoWord
  BY DEF MemoryOK, CodeMemory, Words
<1> DEFINE words == [m.words EXCEPT ![a] = w]
           p == PageOf(a)
<1>2. words \in Words
  BY <1>1, LocationFacts DEF Words
<1>3. p \in Page
  BY LocationFacts
<1>4. \A x \in Location : PageOf(x) # p => words[x] = m.words[x]
  BY <1>1
<1> HIDE DEF words, p
<1>5. Outlives(m, Replace(m, words, p)) /\ Replace(m, words, p).words = words
  BY <1>2, <1>3, <1>4, ReplaceOutlives
<1>6. QED
  BY <1>5 DEF WriteWord, words, p

\* And unmapping a page.
LEMMA UnmapOutlives ==
  ASSUME NEW m, MemoryOK(m), NEW p \in Page
  PROVE  /\ Outlives(m, UnmapPage(m, p))
         /\ UnmapPage(m, p).words =
              [a \in Location |-> IF PageOf(a) = p THEN NoWord ELSE m.words[a]]
<1> DEFINE cleared == [a \in Location |-> IF PageOf(a) = p THEN NoWord ELSE m.words[a]]
<1>1. m.words \in [Location -> Word \cup {NoWord}] /\ m.words[Top] = NoWord
  BY DEF MemoryOK, CodeMemory, Words
<1>2. cleared \in Words
  BY <1>1, LocationFacts DEF Words
<1>3. \A x \in Location : PageOf(x) # p => cleared[x] = m.words[x]
  OBVIOUS
<1>4. QED
  BY <1>2, <1>3, ReplaceOutlives DEF UnmapPage

\* Memory that does not change outlives itself.
LEMMA SameOutlives ==
  ASSUME NEW m, MemoryOK(m) PROVE Outlives(m, m)
  BY DEF Outlives

\* A valid patch of a response: what it leaves mapped is validate's overlay.
LEMMA PatchOutlives ==
  ASSUME NEW m, MemoryOK(m), NEW patch \in MemoryPatch, PatchValid(Mapped(m), patch)
  PROVE  /\ Outlives(m, Patched(m, patch))
         /\ Mapped(Patched(m, patch)) = Overlay(Mapped(m), patch)
<1>1. patch.kind \in {"none", "write", "unmap"} /\ patch.address \in Location
      /\ patch.word \in Word \cup {NoWord} /\ (patch.kind = "write" => patch.word # NoWord)
  BY DEF MemoryPatch
<1>2. m.words \in [Location -> Word \cup {NoWord}]
  BY DEF MemoryOK, CodeMemory, Words
<1>3. CASE patch.kind = "none"
  BY <1>3, SameOutlives DEF Patched, Overlay
<1>4. CASE patch.kind = "write"
  <2>1. m.words[patch.address] # NoWord
    BY <1>4 DEF PatchValid, Mapped
  <2>2. Patched(m, patch) = WriteWord(m, patch.address, patch.word)
    BY <1>4 DEF Patched
  <2>3. /\ Outlives(m, Patched(m, patch))
        /\ Patched(m, patch).words = [m.words EXCEPT ![patch.address] = patch.word]
    BY <1>1, <2>1, <2>2, WriteOutlives
  <2>4. \A a \in Location : Patched(m, patch).words[a] # NoWord <=> m.words[a] # NoWord
    BY <1>1, <1>2, <1>4, <2>1, <2>3
  <2>5. QED
    BY <1>4, <2>3, <2>4 DEF Mapped, Overlay
<1>5. CASE patch.kind = "unmap"
  <2>1. Patched(m, patch) = UnmapPage(m, PageOf(patch.address))
    BY <1>5 DEF Patched
  <2>2. /\ Outlives(m, Patched(m, patch))
        /\ Patched(m, patch).words =
             [a \in Location |-> IF PageOf(a) = PageOf(patch.address) THEN NoWord ELSE m.words[a]]
    <3>1. PageOf(patch.address) \in Page
      BY <1>1, LocationFacts
    <3> DEFINE p == PageOf(patch.address)
    <3> HIDE DEF p
    <3>2. /\ Outlives(m, UnmapPage(m, p))
          /\ UnmapPage(m, p).words =
               [a \in Location |-> IF PageOf(a) = p THEN NoWord ELSE m.words[a]]
      BY <3>1, UnmapOutlives DEF p
    <3>3. QED
      BY <2>1, <3>2 DEF p
  <2>3. \A a \in Location : Patched(m, patch).words[a] # NoWord
                            <=> m.words[a] # NoWord /\ PageOf(a) # PageOf(patch.address)
    BY <2>2
  <2>4. QED
    BY <1>5, <2>2, <2>3 DEF Mapped, Overlay
<1>6. QED
  BY <1>1, <1>3, <1>4, <1>5

\* A batch that validate accepts is applied to the last patch.
LEMMA BatchApplies ==
  ASSUME NEW m, MemoryOK(m), NEW batch \in MemoryBatch, Validate(m, batch)
  PROVE  /\ ApplyMemory(m, batch) =
              [ok |-> TRUE, memory |-> Patched(Patched(m, batch.first), batch.second)]
         /\ Outlives(m, Patched(Patched(m, batch.first), batch.second))
<1> DEFINE once == Patched(m, batch.first)
<1>1. batch.first \in MemoryPatch /\ batch.second \in MemoryPatch
  BY DEF MemoryBatch
<1>2. /\ PatchValid(Mapped(m), batch.first)
      /\ PatchValid(Overlay(Mapped(m), batch.first), batch.second)
  BY DEF Validate
<1>3. Outlives(m, once) /\ Mapped(once) = Overlay(Mapped(m), batch.first)
  BY <1>1, <1>2, PatchOutlives
<1>4. PatchValid(Mapped(once), batch.second)
  BY <1>2, <1>3
<1>5. MemoryOK(once)
  BY <1>3 DEF Outlives
<1> HIDE DEF once
<1>6. Outlives(once, Patched(once, batch.second))
  BY <1>1, <1>4, <1>5, PatchOutlives
<1>7. Outlives(m, Patched(once, batch.second))
  BY <1>3, <1>6 DEF Outlives
<1>8. QED
  BY <1>2, <1>4, <1>7 DEF ApplyMemory, once

\* An instruction that does not fault.
LEMMA MemoryAfterOutlives ==
  ASSUME NEW m, MemoryOK(m), NEW w \in Word, ~Faults(m, Insn[w])
  PROVE  /\ Outlives(m, MemoryAfter(Insn[w], m))
         /\ MemoryAfter(Insn[w], m).words =
              IF Insn[w].op = "str" THEN [m.words EXCEPT ![Insn[w].target] = Insn[w].word]
              ELSE m.words
<1>1. Insn[w] \in Instruction /\ (Insn[w].op = "str" => Insn[w].word \in Word)
  BY WordAssumption
<1>2. Insn[w].target \in Location
  BY <1>1 DEF Instruction
<1>3. CASE Insn[w].op = "str"
  BY <1>1, <1>2, <1>3, WriteOutlives DEF MemoryAfter, Faults
<1>4. CASE Insn[w].op # "str"
  BY <1>4, SameOutlives DEF MemoryAfter
<1>5. QED
  BY <1>3, <1>4

(***************************************************************************)
(* compileExecBlock.                                                       *)
(***************************************************************************)
\* What the fetch loop finds: all of it is mapped and within the budget.
LEMMA FetchedFacts ==
  ASSUME NEW m, MemoryOK(m), NEW a \in Location, NEW budget \in Nat \ {0},
         m.words[a] # NoWord
  PROVE  /\ Fetched(m, a, budget) \in 1 .. budget
         /\ \A k \in 0 .. (Fetched(m, a, budget) - 1) : m.words[a + k] # NoWord
<1> DEFINE Stop(n) == \/ n = budget
                      \/ Insn[m.words[a + n - 1]].op \in EndsFetch
                      \/ m.words[a + n] = NoWord
           S == {n \in 1 .. budget : Stop(n)}
           P(n) == /\ \A k \in 0 .. (n - 1) : m.words[a + k] # NoWord
                   /\ \A k \in 0 .. (n - 2) : Insn[m.words[a + k]].op \notin EndsFetch
                   /\ Stop(n)
<1>1. S \subseteq Nat /\ S # {}
  <2>1. budget \in S
    OBVIOUS
  <2>2. QED
    BY <2>1
<1>2. PICK n \in S : \A k \in S : n <= k
  BY <1>1, NatMin
<1>3. n \in 1 .. budget /\ Stop(n)
  BY <1>2
<1>4. \A k \in 1 .. (n - 1) : ~Stop(k)
  BY <1>2, <1>3
<1>5. \A k \in 0 .. (n - 1) : m.words[a + k] # NoWord
  <2> SUFFICES ASSUME NEW k \in 0 .. (n - 1) PROVE m.words[a + k] # NoWord
    OBVIOUS
  <2>1. CASE k = 0
    BY <2>1, LocationFacts
  <2>2. CASE k # 0
    BY <1>3, <1>4, <2>2
  <2>3. QED
    BY <2>1, <2>2
<1>6. \A k \in 0 .. (n - 2) : Insn[m.words[a + k]].op \notin EndsFetch
  <2> SUFFICES ASSUME NEW k \in 0 .. (n - 2) PROVE Insn[m.words[a + k]].op \notin EndsFetch
    OBVIOUS
  <2>1. k + 1 \in 1 .. (n - 1) /\ a + (k + 1) - 1 = a + k
    BY <1>3, LocationFacts
  <2>2. QED
    BY <1>4, <2>1
<1>7. P(n)
  BY <1>3, <1>5, <1>6
<1>8. Fetched(m, a, budget) = CHOOSE x \in 1 .. budget : P(x)
  BY DEF Fetched
<1> HIDE DEF P
<1>9. Fetched(m, a, budget) \in 1 .. budget /\ P(Fetched(m, a, budget))
  BY <1>3, <1>7, <1>8
<1>10. QED
  BY <1>9 DEF P

\* The size of a block is its number of locations.
LEMMA SizeIs ==
  ASSUME NEW b, NEW a \in Nat, NEW last \in Nat, a <= last, DOMAIN b.code = a .. last
  PROVE  Size(b) = last - a + 1
  BY FS_Interval DEF Size

\* A block just compiled holds the words of memory, is stamped with their
\* generations and fits the budget it was compiled for.
LEMMA CompileOK ==
  ASSUME NEW m, MemoryOK(m), NEW a \in Location, NEW budget \in Nat \ {0},
         m.words[a] # NoWord
  PROVE  /\ BlockOK(Compile(m, a, budget), a, m)
         /\ ValidFor(Compile(m, a, budget), m)
         /\ Size(Compile(m, a, budget)) <= budget
         /\ a \in DOMAIN Compile(m, a, budget).code
<1> DEFINE n == Fetched(m, a, budget)
           kept == Kept(m, a, n)
           last == a + kept - 1
           pages == {PageOf(x) : x \in a .. (a + n - 1)}
           b == Compile(m, a, budget)
<1>1. /\ m.words \in [Location -> Word \cup {NoWord}] /\ m.words[Top] = NoWord
      /\ m.generation \in [Page -> Nat] /\ m.next \in Nat
      /\ \A q \in Page : m.generation[q] < m.next
  BY DEF MemoryOK, CodeMemory, Words
<1>2. n \in 1 .. budget /\ \A k \in 0 .. (n - 1) : m.words[a + k] # NoWord
  BY FetchedFacts
<1> HIDE DEF n
<1>3. a \in Nat /\ Top \in Nat /\ a <= Top
  BY SizeAssumption DEF Location
<1>4. a + n - 1 < Top
  <2> SUFFICES ASSUME Top <= a + n - 1 PROVE FALSE
    BY <1>2, <1>3
  <2>1. Top - a \in 0 .. (n - 1) /\ a + (Top - a) = Top
    BY <1>2, <1>3
  <2>2. QED
    BY <1>1, <1>2, <2>1
<1>5. kept \in 1 .. n
  <2>1. CASE /\ Insn[m.words[a + n - 1]].op \in {"b", "cbz"}
             /\ Insn[m.words[a + n - 1]].target \in (a + 1) .. (a + n - 1)
    <3>1. kept = Insn[m.words[a + n - 1]].target - a
      BY <2>1 DEF Kept
    <3> HIDE DEF kept
    <3>2. QED
      BY <1>2, <1>3, <2>1, <3>1
  <2>2. CASE ~ (/\ Insn[m.words[a + n - 1]].op \in {"b", "cbz"}
                /\ Insn[m.words[a + n - 1]].target \in (a + 1) .. (a + n - 1))
    <3>1. kept = n
      BY <2>2 DEF Kept
    <3> HIDE DEF kept
    <3>2. QED
      BY <1>2, <3>1
  <2>3. QED
    BY <2>1, <2>2
<1> HIDE DEF kept
<1>6. last \in a .. Top /\ last <= a + n - 1 /\ last \in Nat
  BY <1>2, <1>3, <1>4, <1>5
<1>7. b.code = [x \in a .. last |-> m.words[x]] /\ b.stamps = [p \in pages |-> m.generation[p]]
  BY DEF Compile, n, kept
<1> HIDE DEF b
<1>8. \A x \in a .. (a + n - 1) : x \in Location /\ m.words[x] \in Word /\ PageOf(x) \in pages
  <2> SUFFICES ASSUME NEW x \in a .. (a + n - 1)
               PROVE  x \in Location /\ m.words[x] \in Word /\ PageOf(x) \in pages
    OBVIOUS
  <2>1. x \in Location
    BY <1>2, <1>3, <1>4 DEF Location
  <2>2. x - a \in 0 .. (n - 1) /\ a + (x - a) = x
    BY <1>2, <1>3
  <2>3. m.words[x] # NoWord
    BY <1>2, <2>2
  <2>4. PageOf(x) \in pages
    OBVIOUS
  <2>5. QED
    BY <1>1, <2>1, <2>3, <2>4
<1>9. pages \subseteq Page
  BY <1>8, LocationFacts
<1>10. \A x \in a .. last : x \in a .. (a + n - 1)
  BY <1>2, <1>3, <1>6
<1> HIDE DEF last, pages
<1>11. b.code \in [a .. last -> Word]
  BY <1>7, <1>8, <1>10
<1>12. b.stamps \in [pages -> Nat]
  BY <1>1, <1>7, <1>9
<1>13. IsBlock(b, a)
  BY <1>6, <1>9, <1>11, <1>12 DEF IsBlock
<1>14. \A x \in DOMAIN b.code : PageOf(x) \in DOMAIN b.stamps
  BY <1>8, <1>10, <1>11, <1>12
<1>15. \A p \in DOMAIN b.stamps : b.stamps[p] < m.next
  BY <1>1, <1>7, <1>9
<1>16. ValidFor(b, m)
  BY <1>7 DEF ValidFor
<1>17. \A x \in DOMAIN b.code : m.words[x] = b.code[x]
  BY <1>7
<1>18. BlockOK(b, a, m)
  BY <1>13, <1>14, <1>15, <1>17 DEF BlockOK
<1>19. Size(b) <= budget
  <2>1. Size(b) = last - a + 1
    BY <1>3, <1>6, <1>11, SizeIs
  <2>2. QED
    BY <1>2, <1>3, <1>6, <2>1
<1>20. a \in DOMAIN b.code
  BY <1>3, <1>6, <1>11
<1>21. QED
  BY <1>16, <1>18, <1>19, <1>20 DEF b

\* The budget of the next block is positive and within both remaining budgets.
LEMMA BlockBudgetFacts ==
  ASSUME executed \in Nat, emitted \in Nat, ConfigurationValid, ~OutOfBudget
  PROVE  /\ BlockBudget \in Nat \ {0}
         /\ MaxInstructions # 0 => executed + BlockBudget <= MaxInstructions
         /\ TraceLimited => emitted + BlockBudget <= MaxInstructionRecords
<1> DEFINE bounds == {MaxBlockInstructions}
                     \cup {n - executed : n \in {MaxInstructions} \ {0}}
                     \cup {n - emitted : n \in IF TraceLimited THEN {MaxInstructionRecords} ELSE {}}
<1>1. \A x \in bounds : x \in Nat \ {0}
  <2> SUFFICES ASSUME NEW x \in bounds PROVE x \in Nat \ {0}
    OBVIOUS
  <2>1. CASE x = MaxBlockInstructions
    BY <2>1, OptionAssumption DEF ConfigurationValid
  <2>2. CASE x = MaxInstructions - executed /\ MaxInstructions # 0
    BY <2>2, OptionAssumption DEF OutOfBudget
  <2>3. CASE x = MaxInstructionRecords - emitted /\ TraceLimited
    BY <2>3, OptionAssumption DEF OutOfBudget
  <2>4. QED
    BY <2>1, <2>2, <2>3
<1>2. MaxBlockInstructions \in bounds
  OBVIOUS
<1>3. MaxInstructions # 0 => MaxInstructions - executed \in bounds
  OBVIOUS
<1>4. TraceLimited => MaxInstructionRecords - emitted \in bounds
  OBVIOUS
<1>5. BlockBudget = CHOOSE b \in bounds : \A c \in bounds : b <= c
  BY DEF BlockBudget
<1> HIDE DEF bounds
<1>6. \E x \in bounds : \A y \in bounds : x <= y
  BY <1>1, <1>2, NatMin
<1>7. BlockBudget \in bounds /\ \A c \in bounds : BlockBudget <= c
  BY <1>5, <1>6
<1>8. BlockBudget \in Nat \ {0}
  BY <1>1, <1>7
<1>9. QED
  BY <1>3, <1>4, <1>7, <1>8, OptionAssumption

(***************************************************************************)
(* Inside runBlock.                                                        *)
(***************************************************************************)
\* An instruction that is not interrupted is the one memory holds at its
\* location, which is mapped and so not the last one.
LEMMA CurrentFacts ==
  ASSUME SessionInv, control = "block", ~Interrupted
  PROVE  /\ local.at \in Location /\ local.at + 1 \in Location
         /\ memory.words[local.at] \in Word
         /\ memory.words[local.at] = local.block.code[local.at]
         /\ Current = Insn[memory.words[local.at]]
         /\ Current \in Instruction
<1>1. /\ BlockOK(local.block, state.pc, memory) /\ local.at \in DOMAIN local.block.code
      /\ ValidFor(local.block, memory)
  BY DEF SessionInv, LocalOK, Interrupted
<1>2. state.pc \in Location /\ MemoryOK(memory)
  BY DEF SessionInv, ShapeOK
<1>3. PICK last \in state.pc .. Top : local.block.code \in [state.pc .. last -> Word]
  BY <1>1 DEF BlockOK, IsBlock
<1>4. local.at \in Location /\ local.block.code[local.at] \in Word
  BY <1>1, <1>2, <1>3, SizeAssumption DEF Location
<1>5. memory.words[local.at] = local.block.code[local.at]
  BY <1>1 DEF BlockOK
<1>6. local.at # Top
  BY <1>2, <1>4, <1>5, WordAssumption DEF MemoryOK, CodeMemory, Words
<1>7. QED
  BY <1>4, <1>5, <1>6, LocationFacts, WordAssumption DEF Current

\* An instruction changes no register but those it writes.
LEMMA RegistersAfterFacts ==
  ASSUME NEW i \in Instruction, NEW a \in Location, a + 1 \in Location, NEW regs \in Registers
  PROVE  /\ RegistersAfter(i, a, regs) \in Registers
         /\ \A r \in Reg : r \notin Written(i) => RegistersAfter(i, a, regs)[r] = regs[r]
<1>1. regs \in [Reg -> Location] /\ Reg = {"x0", "x19", "lr"}
  BY DEF Registers, Reg
<1>2. i.target \in Location
  BY DEF Instruction
<1>3. CASE i.op = "mov"
  BY <1>1, <1>2, <1>3 DEF RegistersAfter, Written, Registers
<1>4. CASE i.op = "save"
  BY <1>1, <1>2, <1>4 DEF RegistersAfter, Written, Registers
<1>5. CASE i.op = "restore"
  BY <1>1, <1>2, <1>5 DEF RegistersAfter, Written, Registers
<1>6. CASE i.op \in Calls
  BY <1>1, <1>2, <1>6 DEF RegistersAfter, Written, Registers, Calls
<1>7. CASE i.op \notin {"mov", "save", "restore"} \cup Calls
  BY <1>1, <1>2, <1>7 DEF RegistersAfter, Written, Registers, Calls
<1>8. QED
  BY <1>3, <1>4, <1>5, <1>6, <1>7

\* Registers that differ from the session's only where the block writes.
Exportable(regs) ==
  /\ regs \in Registers
  /\ \A r \in Reg : r \notin WrittenRoots(local.block) => regs[r] = state.regs[r]

\* Before and after each instruction, the interpreter's registers are such.
LEMMA BothExportable ==
  ASSUME SessionInv, control = "block"
  PROVE  Exportable(interp) /\ (~Interrupted => Exportable(After))
<1>1. interp \in Registers /\ local.at \in DOMAIN local.block.code
      /\ \A r \in Reg : r \notin WrittenRoots(local.block) => interp[r] = state.regs[r]
  BY DEF SessionInv, ShapeOK, LocalOK
<1>2. Exportable(interp)
  BY <1>1 DEF Exportable
<1>3. ASSUME ~Interrupted PROVE Exportable(After)
  <2>1. local.at \in Location /\ local.at + 1 \in Location /\ Current \in Instruction
    BY <1>3, CurrentFacts
  <2>2. After \in Registers /\ \A r \in Reg : r \notin Written(Current) => After[r] = interp[r]
    BY <1>1, <2>1, RegistersAfterFacts DEF After
  <2>3. Written(Current) \subseteq WrittenRoots(local.block)
    BY <1>1 DEF WrittenRoots, Current
  <2>4. QED
    BY <1>1, <2>2, <2>3 DEF Exportable
<1>4. QED
  BY <1>2, <1>3

\* exportState loses nothing: it copies only the registers the block writes.
LEMMA LeaveExports ==
  ASSUME NEW pc, NEW regs, Exportable(regs), Leave(pc, regs)
  PROVE  state' = [pc |-> pc, regs |-> regs] /\ interp' = regs /\ local' = NoLocal
<1>1. [r \in Reg |-> IF r \in WrittenRoots(local.block) THEN regs[r] ELSE state.regs[r]] = regs
  BY DEF Exportable, Registers
<1>2. QED
  BY <1>1 DEF Leave

\* Blocks stay good.
LEMMA CacheKept ==
  ASSUME CacheOK, Outlives(memory, memory'), cache' = cache
  PROVE  CacheOK'
  BY DEF CacheOK, Outlives

\* Leaving a block, with or without having run its last instruction, for the
\* loop, the handler, a suspension or the end of the call.
LEMMA ExitKeeps ==
  ASSUME SessionInv, control = "block", NEW pc \in Location, NEW regs, Exportable(regs),
         NEW n \in {InFlight, InFlight + 1}, Finalize(n), Leave(pc, regs),
         Outlives(memory, memory'), frames' \in Seq(Frame),
         UNCHANGED <<cache, stateNeedsImport, setup, spent>>,
         result' \in [stop : SessionStop, pc : Location],
         \/ /\ control' \in {"loop", "idle"}
            /\ UNCHANGED <<tokenGeneration, suspended, pending>>
         \/ /\ control' = "handler" /\ pending' \in Request
            /\ UNCHANGED <<tokenGeneration, suspended>>
         \/ /\ control' = "idle" /\ suspended' \in Request
            /\ tokenGeneration' = tokenGeneration + 1 /\ UNCHANGED pending
  PROVE  SessionInv'
<1>1. state' = [pc |-> pc, regs |-> regs] /\ interp' = regs /\ local' = NoLocal
  BY LeaveExports
<1>2. suspended = NoRequest /\ ConfigurationValid /\ NoRequest \notin Request
  BY SentinelAssumption DEF SessionInv, ControlOK
<1>3. control' \in {"loop", "idle", "handler"}
  OBVIOUS
<1>4. n \in Nat /\ n <= InFlight + 1 /\ InFlight \in {0, 1}
  BY DEF InFlight
<1>5. executed' \in Nat /\ emitted' \in Nat
  BY <1>4 DEF SessionInv, ShapeOK, Finalize
<1>6. ShapeOK'
  <2>1. MemoryOK(memory')
    BY DEF Outlives
  <2>2. state' \in [pc : Location, regs : Registers] /\ interp' \in Registers
    BY <1>1 DEF Exportable
  <2>3. (stateNeedsImport \in BOOLEAN)' /\ (observer \in BOOLEAN)' /\ (handler \in BOOLEAN)'
    BY Zenon DEF SessionInv, ShapeOK, setup
  <2>4. cache' = [a \in Location |-> cache'[a]]
    BY DEF SessionInv, ShapeOK
  <2>5. tokenGeneration' \in Nat /\ spent' \subseteq Nat
    BY DEF SessionInv, ShapeOK
  <2>6. suspended' \in Request \cup {NoRequest} /\ pending' \in Request \cup {NoRequest}
    BY DEF SessionInv, ShapeOK
  <2>7. QED
    BY <1>3, <1>5, <2>1, <2>2, <2>3, <2>4, <2>5, <2>6 DEF ShapeOK
<1>7. ControlOK'
  <2>1. control' # "idle" => suspended' = NoRequest
    BY <1>2
  <2>2. control' = "handler" => pending' # NoRequest
    BY <1>2
  <2>3. QED
    BY <1>1, <1>2, <2>1, <2>2 DEF ControlOK, NoLocal, ConfigurationValid
<1>8. CacheOK'
  BY CacheKept DEF SessionInv
<1>9. LocalOK' /\ BudgetOK'
  BY <1>3 DEF LocalOK, BudgetOK
<1>10. WithinBudget'
  <2>1. /\ local.at \in DOMAIN local.block.code /\ local.at - local.at = 0
        /\ executed \in Nat /\ emitted \in Nat
    <3>1. local.at \in DOMAIN local.block.code /\ BlockOK(local.block, state.pc, memory)
      BY DEF SessionInv, LocalOK
    <3>2. PICK last \in state.pc .. Top : local.block.code \in [state.pc .. last -> Word]
      BY <3>1 DEF BlockOK, IsBlock
    <3>3. state.pc \in Nat
      BY LocationFacts DEF SessionInv, ShapeOK
    <3>4. local.at \in Nat
      BY <3>1, <3>2, <3>3, SizeAssumption
    <3>5. QED
      BY <3>1, <3>4 DEF SessionInv, ShapeOK
  <2>2. /\ MaxInstructions # 0 => executed + InFlight + (local.at - local.at) + 1 <= MaxInstructions
        /\ TraceLimited =>
             emitted + InFlight + (local.at - local.at) + 1 <= MaxInstructionRecords
    BY <2>1 DEF SessionInv, BudgetOK
  <2>3. MaxInstructions # 0 => executed' <= MaxInstructions
    BY <1>4, <2>1, <2>2, OptionAssumption DEF Finalize
  <2>4. MaxInstructionRecords # 0 => emitted' <= MaxInstructionRecords
    <3>1. CASE observer
      BY <1>4, <2>1, <2>2, <3>1, OptionAssumption DEF Finalize, TraceLimited
    <3>2. CASE ~observer
      BY <3>2 DEF Finalize, SessionInv, WithinBudget
    <3>3. QED
      BY <3>1, <3>2
  <2>5. QED
    BY <2>3, <2>4 DEF WithinBudget
<1>11. TokensOK' /\ TokenSingleUse'
  <2>1. tokenGeneration \in Nat /\ spent \subseteq Nat /\ \A t \in spent : t <= tokenGeneration
    BY DEF SessionInv, ShapeOK, TokensOK
  <2>2. CASE tokenGeneration' = tokenGeneration /\ suspended' = NoRequest
    BY <2>1, <2>2 DEF TokensOK, TokenSingleUse
  <2>3. CASE tokenGeneration' = tokenGeneration + 1
    BY <2>1, <2>3 DEF TokensOK, TokenSingleUse
  <2>4. QED
    BY <1>2, <2>2, <2>3
<1>12. ImportPending'
  BY <1>1 DEF ImportPending
<1>13. QED
  BY <1>6, <1>7, <1>8, <1>9, <1>10, <1>11, <1>12 DEF SessionInv

\* The block ended and the loop goes on.
LEMMA ContinueKeeps ==
  ASSUME SessionInv, control = "block", ~Interrupted, NEW pc \in Location, Continue(pc),
         Outlives(memory, memory'), frames' \in Seq(Frame),
         UNCHANGED <<cache, stateNeedsImport, setup>>
  PROVE  SessionInv'
<1>1. Exportable(After)
  BY BothExportable
<1>2. result' \in [stop : SessionStop, pc : Location]
  BY DEF SessionInv, ShapeOK, Continue
<1>3. /\ Finalize(InFlight + 1) /\ Leave(pc, After) /\ control' \in {"loop", "idle"}
      /\ UNCHANGED <<tokenGeneration, suspended, pending, spent>>
  BY DEF Continue, EndBlock, tokens
<1>4. QED
  BY <1>1, <1>2, <1>3, ExitKeeps

\* The block ended with a request.
LEMMA RaiseKeeps ==
  ASSUME SessionInv, control = "block", ~Interrupted, NEW request \in Request, Raise(request),
         Outlives(memory, memory'), frames' \in Seq(Frame),
         UNCHANGED <<cache, stateNeedsImport, setup>>
  PROVE  SessionInv'
<1>1. Exportable(After)
  BY BothExportable
<1>2. request.pc \in Location
  BY DEF Request
<1>3. Finalize(InFlight + 1) /\ Leave(request.pc, After)
  BY DEF Raise, EndBlock
<1>4. state'.pc = request.pc
  BY <1>1, <1>3, LeaveExports
<1>5. CASE handler
  <2>1. /\ control' = "handler" /\ pending' = request /\ UNCHANGED result
        /\ UNCHANGED <<tokenGeneration, suspended, spent>>
    BY <1>5 DEF Raise, tokens
  <2>2. result' \in [stop : SessionStop, pc : Location]
    BY <2>1 DEF SessionInv, ShapeOK
  <2>3. QED
    BY <1>1, <1>2, <1>3, <2>1, <2>2, ExitKeeps
<1>6. CASE ~handler
  <2>1. /\ control' = "idle" /\ suspended' = request /\ tokenGeneration' = tokenGeneration + 1
        /\ result' = [stop |-> "ExternalBoundary", pc |-> state'.pc] /\ UNCHANGED <<spent, pending>>
    BY <1>6 DEF Raise, Suspend, Return
  <2>2. result' \in [stop : SessionStop, pc : Location]
    BY <1>2, <1>4, <2>1 DEF SessionStop
  <2>3. QED
    BY <1>1, <1>2, <1>3, <2>1, <2>2, ExitKeeps
<1>7. QED
  BY <1>5, <1>6

\* The redirect frames but the top one are frames.
LEMMA PopFrame ==
  ASSUME frames \in Seq(Frame), frames # <<>>
  PROVE  frames[Len(frames)] \in Frame /\ SubSeq(frames, 1, Len(frames) - 1) \in Seq(Frame)
<1>1. Len(frames) \in Nat \ {0}
  BY EmptySeq, LenProperties
<1>2. frames[Len(frames)] \in Frame
  BY <1>1, ElementOfSeq
<1>3. SubSeq(frames, 1, Len(frames) - 1) \in Seq(Frame)
  BY <1>1, SubSeqProperties
<1>4. QED
  BY <1>2, <1>3

\* Memory after the current instruction.
LEMMA CurrentOutlives ==
  ASSUME SessionInv, control = "block", ~Interrupted, ~Faults(memory, Current)
  PROVE  /\ Outlives(memory, MemoryAfter(Current, memory))
         /\ MemoryAfter(Current, memory).words =
              IF Current.op = "str" THEN [memory.words EXCEPT ![Current.target] = Current.word]
              ELSE memory.words
  BY CurrentFacts, MemoryAfterOutlives, SMTT(60) DEF SessionInv, ShapeOK

\* A direct branch or the end of a block cut short.
LEMMA TakeBranchKeeps == SessionInv /\ TakeBranch => SessionInv'
<1> SUFFICES ASSUME SessionInv, TakeBranch PROVE SessionInv'
  OBVIOUS
<1> DEFINE target == IF Current.op = "b" THEN Current.target ELSE local.at + 1
           request == [kind |-> "DirectCall", pc |-> local.at, returnPc |-> After["lr"],
                       target |-> target, origin |-> "tail"]
<1>1. /\ control = "block" /\ ~Interrupted /\ ~Faults(memory, Current)
      /\ memory' = MemoryAfter(Current, memory)
      /\ UNCHANGED <<cache, stateNeedsImport, setup, frames>>
  BY DEF TakeBranch, Executing, Faults
<1>2. IF LeavesDomain(target) THEN Raise(request) ELSE Continue(target)
  BY DEF TakeBranch
<1>3. local.at \in Location /\ target \in Location /\ After["lr"] \in Location
  BY <1>1, CurrentFacts, BothExportable DEF Instruction, Exportable, Registers, Reg
<1>4. Outlives(memory, memory') /\ frames' \in Seq(Frame)
  BY <1>1, CurrentOutlives DEF SessionInv, ShapeOK
<1>5. request \in Request
  BY <1>3 DEF Request, Origin
<1> HIDE DEF request, target
<1>6. QED
  BY <1>1, <1>2, <1>3, <1>4, <1>5, RaiseKeeps, ContinueKeeps

\* A conditional branch.
LEMMA TakeCondBranchKeeps == SessionInv /\ TakeCondBranch => SessionInv'
<1> SUFFICES ASSUME SessionInv, TakeCondBranch PROVE SessionInv'
  OBVIOUS
<1>1. /\ control = "block" /\ ~Interrupted /\ Continue(CondTarget(Current, local.at, interp))
      /\ UNCHANGED <<memory, cache, stateNeedsImport, setup, frames>>
  BY DEF TakeCondBranch, Executing
<1>2. CondTarget(Current, local.at, interp) \in Location
  BY <1>1, CurrentFacts DEF CondTarget, Instruction
<1>3. Outlives(memory, memory') /\ frames' \in Seq(Frame)
  BY <1>1, SameOutlives DEF SessionInv, ShapeOK
<1>4. QED
  BY <1>1, <1>2, <1>3, ContinueKeeps

\* An indirect branch.
LEMMA TakeIndirectBranchKeeps == SessionInv /\ TakeIndirectBranch => SessionInv'
<1> SUFFICES ASSUME SessionInv, TakeIndirectBranch PROVE SessionInv'
  OBVIOUS
<1> DEFINE request == [kind |-> "IndirectCall", pc |-> local.at, returnPc |-> interp["lr"],
                       target |-> interp["x0"], origin |-> "tail"]
<1>1. /\ control = "block" /\ ~Interrupted
      /\ UNCHANGED <<memory, cache, stateNeedsImport, setup, frames>>
  BY DEF TakeIndirectBranch, Executing
<1>2. IF LeavesDomain(interp["x0"]) THEN Raise(request) ELSE Continue(interp["x0"])
  BY DEF TakeIndirectBranch
<1>3. local.at \in Location /\ interp["x0"] \in Location /\ interp["lr"] \in Location
  BY <1>1, CurrentFacts DEF SessionInv, ShapeOK, Registers, Reg
<1>4. Outlives(memory, memory') /\ frames' \in Seq(Frame)
  BY <1>1, SameOutlives DEF SessionInv, ShapeOK
<1>5. request \in Request
  BY <1>3 DEF Request, Origin
<1> HIDE DEF request
<1>6. QED
  BY <1>1, <1>2, <1>3, <1>4, <1>5, RaiseKeeps, ContinueKeeps

\* A return to the top redirect frame.
LEMMA ReturnFromFrameKeeps == SessionInv /\ ReturnFromFrame => SessionInv'
<1> SUFFICES ASSUME SessionInv, ReturnFromFrame PROVE SessionInv'
  OBVIOUS
<1> DEFINE frame == frames[Len(frames)]
           request == [kind |-> "DirectCall", pc |-> local.at, returnPc |-> frame.returnPc,
                       target |-> frame.continuationPc, origin |-> "callback"]
<1>1. /\ control = "block" /\ ~Interrupted /\ frames # <<>>
      /\ frames' = SubSeq(frames, 1, Len(frames) - 1)
      /\ UNCHANGED <<memory, cache, stateNeedsImport, setup>>
  BY DEF ReturnFromFrame, Executing
<1>2. IF frame.continuationPc = 0 THEN Continue(frame.returnPc) ELSE Raise(request)
  BY DEF ReturnFromFrame
<1>3. frame \in Frame /\ frames' \in Seq(Frame)
  BY <1>1, PopFrame DEF SessionInv, ShapeOK
<1>4. local.at \in Location /\ frame.returnPc \in Location /\ frame.continuationPc \in Location
  BY <1>1, <1>3, CurrentFacts DEF Frame
<1>5. Outlives(memory, memory')
  BY <1>1, SameOutlives DEF SessionInv, ShapeOK
<1>6. request \in Request
  BY <1>4 DEF Request, Origin
<1> HIDE DEF request, frame
<1>7. QED
  BY <1>1, <1>2, <1>3, <1>4, <1>5, <1>6, RaiseKeeps, ContinueKeeps

\* A call or a syscall.
LEMMA RaiseBoundaryKeeps == SessionInv /\ RaiseBoundary => SessionInv'
<1> SUFFICES ASSUME SessionInv, RaiseBoundary PROVE SessionInv'
  OBVIOUS
<1> DEFINE kind == CASE Current.op = "bl" -> "DirectCall"
                     [] Current.op = "blr" -> "IndirectCall"
                     [] OTHER -> "Syscall"
           target == IF Current.op = "blr" THEN interp["x0"] ELSE Current.target
           request == [kind |-> kind, pc |-> local.at, returnPc |-> local.at + 1,
                       target |-> target, origin |-> "instruction"]
<1>1. /\ control = "block" /\ ~Interrupted
      /\ UNCHANGED <<memory, cache, stateNeedsImport, setup, frames>>
  BY DEF RaiseBoundary, Executing
<1>2. Raise(request)
  BY DEF RaiseBoundary
<1>3. local.at \in Location /\ local.at + 1 \in Location /\ target \in Location
  BY <1>1, CurrentFacts DEF SessionInv, ShapeOK, Registers, Reg, Instruction
<1>4. kind \in {"DirectCall", "IndirectCall", "Syscall"}
  OBVIOUS
<1>5. Outlives(memory, memory') /\ frames' \in Seq(Frame)
  BY <1>1, SameOutlives DEF SessionInv, ShapeOK
<1> HIDE DEF kind, target
<1>6. request \in Request
  BY <1>3, <1>4 DEF Request, Origin
<1> HIDE DEF request
<1>7. QED
  BY <1>1, <1>2, <1>5, <1>6, RaiseKeeps

\* A return from the session's function, an instruction that cannot be
\* executed, and an interrupt.
LEMMA EndKeeps == SessionInv /\ (Returned \/ StopAtInstruction \/ Interrupt) => SessionInv'
<1> SUFFICES ASSUME SessionInv, Returned \/ StopAtInstruction \/ Interrupt PROVE SessionInv'
  OBVIOUS
<1>1. /\ control = "block" /\ UNCHANGED <<memory, cache, stateNeedsImport, setup, frames, spent>>
      /\ UNCHANGED <<tokenGeneration, suspended, pending>>
  BY DEF Returned, StopAtInstruction, Interrupt, Executing, tokens
<1>2. Outlives(memory, memory') /\ frames' \in Seq(Frame)
  BY <1>1, SameOutlives DEF SessionInv, ShapeOK
<1>3. state.pc \in Location /\ result \in [stop : SessionStop, pc : Location]
  BY DEF SessionInv, ShapeOK
<1>4. Exportable(interp)
  BY <1>1, BothExportable
<1>5. CASE Returned
  <2>1. ~Interrupted /\ EndBlock(local.at) /\ Return("Returned", local.at)
    BY <1>5 DEF Returned, Executing
  <2>2. local.at \in Location
    BY <1>1, <2>1, CurrentFacts
  <2>3. result' \in [stop : SessionStop, pc : Location] /\ control' \in {"loop", "idle"}
    BY <2>1, <2>2 DEF Return, SessionStop
  <2>4. Exportable(After) /\ Finalize(InFlight + 1) /\ Leave(local.at, After)
    BY <1>1, <2>1, BothExportable DEF EndBlock
  <2>5. QED
    BY <1>1, <1>2, <2>2, <2>3, <2>4, ExitKeeps
<1>6. CASE StopAtInstruction
  <2>1. /\ ~Interrupted /\ Finalize(InFlight + 1) /\ Leave(state.pc, interp)
        /\ \/ Return("Unreachable", state.pc) \/ Return("Unimplemented", local.at)
           \/ Return("Fault", local.at)
    BY <1>6 DEF StopAtInstruction, Executing
  <2>2. local.at \in Location
    BY <1>1, <2>1, CurrentFacts
  <2>3. result' \in [stop : SessionStop, pc : Location] /\ control' \in {"loop", "idle"}
    BY <1>3, <2>1, <2>2 DEF Return, SessionStop
  <2>4. QED
    BY <1>1, <1>2, <1>3, <1>4, <2>1, <2>3, ExitKeeps
<1>7. CASE Interrupt
  <2>1. /\ Finalize(InFlight) /\ Leave(local.at, interp) /\ control' \in {"loop", "idle"}
        /\ result' = result
    BY <1>7 DEF Interrupt
  <2>2. local.at \in Location
    <3>1. local.at \in DOMAIN local.block.code /\ BlockOK(local.block, state.pc, memory)
      BY <1>1 DEF SessionInv, LocalOK
    <3>2. PICK last \in state.pc .. Top : local.block.code \in [state.pc .. last -> Word]
      BY <3>1 DEF BlockOK, IsBlock
    <3>3. QED
      BY <1>3, <3>1, <3>2, SizeAssumption DEF Location
  <2>3. QED
    BY <1>1, <1>2, <1>3, <1>4, <2>1, <2>2, ExitKeeps
<1>8. QED
  BY <1>5, <1>6, <1>7

\* An instruction in the middle of a block.
LEMMA ExecuteKeeps == SessionInv /\ Execute => SessionInv'
<1> SUFFICES ASSUME SessionInv, Execute PROVE SessionInv'
  OBVIOUS
<1>1. /\ control = "block" /\ ~Interrupted /\ ~Faults(memory, Current) /\ ~LastOfBlock
      /\ Finalize(InFlight) /\ interp' = After /\ memory' = MemoryAfter(Current, memory)
      /\ local' = [local EXCEPT !.at = @ + 1, !.active = local.at]
      /\ UNCHANGED <<state, stateNeedsImport, cache, frames, tokenGeneration, suspended, spent,
                     observer, handler, control, pending, result>>
  BY DEF Execute, Executing, tokens, setup
<1>2. Outlives(memory, memory')
  BY <1>1, CurrentOutlives
<1>3. Exportable(After)
  BY <1>1, BothExportable
<1>4. /\ local.at \in Location /\ local.at \in Nat
      /\ local = [block |-> local.block, at |-> local.at, active |-> local.active]
      /\ BlockOK(local.block, state.pc, memory) /\ ~stateNeedsImport /\ state.pc \in Location
  BY <1>1, CurrentFacts, LocationFacts DEF SessionInv, LocalOK, ShapeOK
<1>5. local' = [block |-> local.block, at |-> local.at + 1, active |-> local.at]
  BY <1>1, <1>4
<1>6. InFlight \in {0, 1} /\ InFlight' = 1
  BY <1>4, <1>5, SentinelAssumption DEF InFlight
<1>7. executed \in Nat /\ emitted \in Nat
  BY DEF SessionInv, ShapeOK
<1>8. executed' = executed + InFlight /\ emitted' = IF observer THEN emitted + InFlight ELSE emitted
  BY <1>1 DEF Finalize
<1>9. ShapeOK'
  <2>1. MemoryOK(memory') /\ interp' \in Registers /\ executed' \in Nat /\ emitted' \in Nat
    BY <1>1, <1>2, <1>3, <1>6, <1>7, <1>8 DEF Outlives, Exportable
  <2>2. (stateNeedsImport \in BOOLEAN)' /\ (observer \in BOOLEAN)' /\ (handler \in BOOLEAN)'
    BY <1>1, Zenon DEF SessionInv, ShapeOK
  <2>3. QED
    BY <1>1, <2>1, <2>2 DEF SessionInv, ShapeOK
<1>10. ControlOK' /\ TokensOK' /\ TokenSingleUse'
  BY <1>1 DEF SessionInv, ControlOK, TokensOK, TokenSingleUse, ConfigurationValid
<1>11. CacheOK'
  BY <1>1, <1>2, CacheKept DEF SessionInv
<1>12. LocalOK'
  <2>1. BlockOK(local'.block, state'.pc, memory')
    BY <1>1, <1>2, <1>4, <1>5 DEF Outlives
  <2>2. local'.at \in DOMAIN local'.block.code
    BY <1>1, <1>5 DEF LastOfBlock
  <2>3. local'.active \in Location /\ local'.active # Idle
    BY <1>4, <1>5, SentinelAssumption
  <2>4. local' = [block |-> local'.block, at |-> local'.at, active |-> local'.active]
    BY <1>5
  <2>5. \A r \in Reg : r \notin WrittenRoots(local'.block) => interp'[r] = state'.regs[r]
    BY <1>1, <1>3, <1>5 DEF Exportable
  <2>6. (~stateNeedsImport)'
    BY <1>1, <1>4, Zenon
  <2>7. QED
    BY <2>1, <2>2, <2>3, <2>4, <2>5, <2>6 DEF LocalOK
<1>13. BudgetOK' /\ WithinBudget'
  <2>1. PICK last \in state.pc .. Top : local.block.code \in [state.pc .. last -> Word]
    BY <1>4 DEF BlockOK, IsBlock
  <2>2. DOMAIN local.block.code \subseteq Int /\ local.at \in DOMAIN local.block.code
    <3>1. DOMAIN local.block.code = state.pc .. last /\ state.pc \in Nat
      BY <1>4, <2>1, LocationFacts
    <3>2. local.at \in DOMAIN local.block.code
      BY <1>1 DEF SessionInv, LocalOK
    <3>3. QED
      BY <3>1, <3>2
  <2>3. \A x \in DOMAIN local.block.code :
          /\ MaxInstructions # 0 => executed + InFlight + (x - local.at) + 1 <= MaxInstructions
          /\ TraceLimited => emitted + InFlight + (x - local.at) + 1 <= MaxInstructionRecords
    BY <1>1 DEF SessionInv, BudgetOK
  <2>4. ASSUME NEW x \in DOMAIN local'.block.code
        PROVE  /\ MaxInstructions # 0 =>
                    executed' + InFlight' + (x - local'.at) + 1 <= MaxInstructions
               /\ TraceLimited' =>
                    emitted' + InFlight' + (x - local'.at) + 1 <= MaxInstructionRecords
    <3>1. x \in DOMAIN local.block.code /\ x \in Int /\ local'.at = local.at + 1
      BY <1>5, <2>2, <2>4
    <3>2. MaxInstructions # 0 =>
            executed' + InFlight' + (x - local'.at) + 1 <= MaxInstructions
      BY <1>4, <1>6, <1>7, <1>8, <2>3, <3>1, OptionAssumption
    <3>3. TraceLimited' = TraceLimited /\ (TraceLimited => observer)
      BY <1>1 DEF TraceLimited
    <3>4. TraceLimited => emitted' + InFlight' + (x - local'.at) + 1 <= MaxInstructionRecords
      BY <1>4, <1>6, <1>7, <1>8, <2>3, <3>1, <3>3, OptionAssumption
    <3>5. QED
      BY <3>2, <3>3, <3>4
  <2>5. BudgetOK'
    BY <2>4 DEF BudgetOK
  <2>6. MaxInstructions # 0 => executed' <= MaxInstructions
    BY <1>4, <1>6, <1>7, <1>8, <2>2, <2>3, OptionAssumption
  <2>7. MaxInstructionRecords # 0 => emitted' <= MaxInstructionRecords
    <3>1. CASE observer
      <4>1. MaxInstructionRecords # 0 =>
              emitted + InFlight + (local.at - local.at) + 1 <= MaxInstructionRecords
        BY <2>2, <2>3, <3>1 DEF TraceLimited
      <4>2. QED
        BY <1>4, <1>6, <1>7, <1>8, <3>1, <4>1, OptionAssumption
    <3>2. CASE ~observer
      BY <1>8, <3>2 DEF SessionInv, WithinBudget
    <3>3. QED
      BY <3>1, <3>2
  <2>8. QED
    BY <2>5, <2>6, <2>7 DEF WithinBudget
<1>14. ImportPending'
  BY <1>1 DEF ImportPending
<1>15. QED
  BY <1>9, <1>10, <1>11, <1>12, <1>13, <1>14 DEF SessionInv

\* Entering a block, found in the cache or compiled.
LEMMA EnterBlockKeeps == SessionInv /\ EnterBlock => SessionInv'
<1> SUFFICES ASSUME SessionInv, EnterBlock PROVE SessionInv'
  OBVIOUS
<1> DEFINE found == cache[state.pc]
           b == IF Reusable(found) THEN found ELSE Compile(memory, state.pc, BlockBudget)
<1>1. /\ control = "loop" /\ ~OutOfBudget
      /\ Reusable(found) \/ memory.words[state.pc] # NoWord
      /\ cache' = [cache EXCEPT ![state.pc] = b]
      /\ local' = [block |-> b, at |-> state.pc, active |-> Idle]
      /\ UNCHANGED <<memory, state, frames, executed, emitted, tokenGeneration, suspended, spent,
                     observer, handler, pending, result>>
  BY DEF EnterBlock, progress, tokens, setup
<1>2. interp' = (IF stateNeedsImport THEN state.regs ELSE interp) /\ ~stateNeedsImport'
      /\ control' = "block"
  BY DEF EnterBlock
<1>3. /\ MemoryOK(memory) /\ state.pc \in Location /\ executed \in Nat /\ emitted \in Nat
      /\ state.regs \in Registers /\ cache = [a \in Location |-> cache[a]]
      /\ ConfigurationValid /\ suspended = NoRequest
  BY <1>1 DEF SessionInv, ShapeOK, ControlOK
<1>4. /\ BlockBudget \in Nat \ {0}
      /\ MaxInstructions # 0 => executed + BlockBudget <= MaxInstructions
      /\ TraceLimited => emitted + BlockBudget <= MaxInstructionRecords
  BY <1>1, <1>3, BlockBudgetFacts
<1>5. BlockOK(b, state.pc, memory) /\ ValidFor(b, memory) /\ Size(b) <= BlockBudget
  <2>1. CASE Reusable(found)
    BY <1>3, <2>1 DEF SessionInv, CacheOK, Reusable
  <2>2. CASE ~Reusable(found)
    BY <1>1, <1>3, <1>4, <2>2, CompileOK
  <2>3. QED
    BY <2>1, <2>2
<1> HIDE DEF b
<1>6. PICK last \in state.pc .. Top : b.code \in [state.pc .. last -> Word]
  BY <1>5 DEF BlockOK, IsBlock
<1>7. state.pc \in Nat /\ last \in Nat /\ state.pc <= last
  BY <1>3, <1>6, LocationFacts, SizeAssumption
<1>8. state.pc \in DOMAIN b.code /\ \A x \in DOMAIN b.code : x \in Int /\ x <= last
  BY <1>6, <1>7
<1>9. Size(b) = last - state.pc + 1
  BY <1>6, <1>7, SizeIs
<1>10. interp' = state.regs
  BY <1>1, <1>2, <1>3 DEF SessionInv, ImportPending
<1>11. ShapeOK'
  <2>1. (stateNeedsImport \in BOOLEAN)' /\ (observer \in BOOLEAN)' /\ (handler \in BOOLEAN)'
    <3>1. stateNeedsImport' = FALSE
      BY DEF EnterBlock
    <3>2. QED
      BY <1>1, <3>1, Zenon DEF SessionInv, ShapeOK
  <2>2. cache' = [a \in Location |-> cache'[a]]
    BY <1>1, <1>3
  <2>3. QED
    BY <1>1, <1>2, <1>3, <1>10, <2>1, <2>2 DEF SessionInv, ShapeOK
<1>12. ControlOK' /\ TokensOK' /\ TokenSingleUse' /\ WithinBudget'
  BY <1>1, <1>2, <1>3
     DEF SessionInv, ControlOK, TokensOK, TokenSingleUse, WithinBudget, ConfigurationValid
<1>13. CacheOK'
  BY <1>1, <1>3, <1>5 DEF SessionInv, CacheOK
<1>14. LocalOK'
  <2>1. local'.block = b /\ local'.at = state.pc /\ local'.active = Idle
        /\ local' = [block |-> local'.block, at |-> local'.at, active |-> local'.active]
    BY <1>1
  <2>2. BlockOK(local'.block, state'.pc, memory') /\ ValidFor(local'.block, memory')
    BY <1>1, <1>5, <2>1
  <2>3. \A r \in Reg : interp'[r] = state'.regs[r]
    BY <1>1, <1>10
  <2>4. QED
    BY <1>2, <1>8, <2>1, <2>2, <2>3 DEF LocalOK
<1>15. BudgetOK'
  <2>1. InFlight' = 0 /\ local'.block = b /\ local'.at = state.pc /\ TraceLimited' = TraceLimited
    BY <1>1 DEF InFlight, TraceLimited
  <2>2. ASSUME NEW x \in DOMAIN b.code
        PROVE  /\ MaxInstructions # 0 => executed + 0 + (x - state.pc) + 1 <= MaxInstructions
               /\ TraceLimited => emitted + 0 + (x - state.pc) + 1 <= MaxInstructionRecords
    BY <1>3, <1>4, <1>5, <1>7, <1>8, <1>9, <2>2, OptionAssumption
  <2>3. QED
    BY <1>1, <2>1, <2>2 DEF BudgetOK
<1>16. ImportPending'
  BY <1>2 DEF ImportPending
<1>17. QED
  BY <1>11, <1>12, <1>13, <1>14, <1>15, <1>16 DEF SessionInv

(***************************************************************************)
(* Between blocks.                                                         *)
(***************************************************************************)
\* A step outside runBlock executes nothing; what is left to show of it.
LEMMA OutsideKeeps ==
  ASSUME SessionInv, control # "block", control' # "block", UNCHANGED <<executed, emitted>>,
         ShapeOK', ControlOK', CacheOK', TokensOK', TokenSingleUse', ImportPending'
  PROVE  SessionInv'
<1>1. LocalOK' /\ BudgetOK'
  BY DEF LocalOK, BudgetOK
<1>2. WithinBudget'
  BY DEF SessionInv, WithinBudget
<1>3. QED
  BY <1>1, <1>2 DEF SessionInv

\* A call ends, or is refused, without having done anything else.
LEMMA RefusedKeeps ==
  ASSUME SessionInv, control # "block", NEW stop \in SessionStop, Return(stop, state.pc),
         UNCHANGED <<memory, state, interp, stateNeedsImport, cache, local, frames, progress,
                     tokens, setup, pending>>
  PROVE  SessionInv'
<1>1. control' = "idle" /\ result' = [stop |-> stop, pc |-> state.pc]
  BY DEF Return
<1>2. result' \in [stop : SessionStop, pc : Location]
  BY <1>1 DEF SessionInv, ShapeOK
<1>3. ShapeOK'
  <2>1. (stateNeedsImport \in BOOLEAN)' /\ (observer \in BOOLEAN)' /\ (handler \in BOOLEAN)'
    BY Zenon DEF SessionInv, ShapeOK, setup
  <2>2. QED
    BY <1>1, <1>2, <2>1 DEF SessionInv, ShapeOK, progress, tokens
<1>4. CacheOK'
  BY DEF SessionInv, CacheOK
<1>5. ControlOK'
  BY <1>1 DEF SessionInv, ControlOK, ConfigurationValid, tokens, NoLocal
<1>6. TokensOK' /\ TokenSingleUse'
  BY DEF SessionInv, TokensOK, TokenSingleUse, tokens
<1>7. ImportPending'
  BY <1>1 DEF SessionInv, ImportPending, tokens
<1>8. QED
  BY <1>1, <1>3, <1>4, <1>5, <1>6, <1>7, OutsideKeeps DEF progress

\* run: refused, or the loop starts.
LEMMA RunKeeps == SessionInv /\ Run => SessionInv'
<1> SUFFICES ASSUME SessionInv, Run PROVE SessionInv'
  OBVIOUS
<1>1. /\ control = "idle"
      /\ UNCHANGED <<memory, state, interp, stateNeedsImport, cache, local, frames, progress,
                     tokens, setup, pending>>
  BY DEF Run, MayCall
<1>2. CASE ~ConfigurationValid
  BY <1>1, <1>2, RefusedKeeps DEF Run, SessionStop
<1>3. CASE ConfigurationValid /\ suspended # NoRequest
  BY <1>1, <1>3, RefusedKeeps DEF Run, SessionStop
<1>4. CASE ConfigurationValid /\ suspended = NoRequest
  <2>1. control' = "loop" /\ result' = result
    BY <1>4 DEF Run
  <2>2. ShapeOK'
    <3>1. (stateNeedsImport \in BOOLEAN)' /\ (observer \in BOOLEAN)' /\ (handler \in BOOLEAN)'
      BY <1>1, Zenon DEF SessionInv, ShapeOK, setup
    <3>2. QED
      BY <1>1, <2>1, <3>1 DEF SessionInv, ShapeOK, progress, tokens
  <2>3. CacheOK'
    BY <1>1 DEF SessionInv, CacheOK
  <2>4. ControlOK'
    BY <1>1, <1>4, <2>1 DEF SessionInv, ControlOK, ConfigurationValid, tokens, NoLocal
  <2>5. TokensOK' /\ TokenSingleUse'
    BY <1>1 DEF SessionInv, TokensOK, TokenSingleUse, tokens
  <2>6. ImportPending'
    BY <1>1, <2>1 DEF SessionInv, ImportPending, tokens
  <2>7. QED
    BY <1>1, <2>1, <2>2, <2>3, <2>4, <2>5, <2>6, OutsideKeeps DEF progress
<1>5. QED
  BY <1>2, <1>3, <1>4
\* What a response may carry.
LEMMA ResponseFacts ==
  ASSUME NEW request \in Request, NEW response \in Response(request)
  PROVE  /\ response.nextPc \in Location /\ response.continuationPc \in Location
         /\ response.registers \in StatePatch /\ response.memory \in MemoryBatch
         /\ request.returnPc \in Location
<1>1. request.target \in Location /\ request.returnPc \in Location
  BY DEF Request
<1>2. response.nextPc \in NextPcs[request.target] /\ response.continuationPc \in ContinuationPcs
      /\ response.registers \in StatePatches /\ response.memory \in MemoryPatches
  BY DEF Response
<1>3. QED
  BY <1>1, <1>2, GuestAssumption

\* The checks foresee every failure, so a refusal comes before the first change.
LEMMA RejectedLeaves ==
  ASSUME SessionInv, NEW request \in Request, NEW response \in Response(request),
         RejectResponse(request, response)
  PROVE  UNCHANGED <<memory, state, frames, stateNeedsImport, calls>>
<1>1. response.memory \in MemoryBatch /\ MemoryOK(memory)
  BY ResponseFacts DEF SessionInv, ShapeOK
<1>2. ~Checked(response)
  <2>1. ASSUME Checked(response) PROVE FALSE
    <3>1. Validate(memory, response.memory)
      BY <2>1 DEF Checked
    <3>2. ApplyMemory(memory, response.memory).ok
      BY <1>1, <3>1, BatchApplies
    <3>3. QED
      BY <2>1, <3>2 DEF RejectResponse, Accepted
  <2>2. QED
    BY <2>1
<1>3. QED
  BY <1>2 DEF RejectResponse, MemoryLeft, FramesLeft

LEMMA ResumeRejectedLeaves ==
  ASSUME SessionInv, NEW t, NEW r \in Response(suspended), ResumeRejected(t, r)
  PROVE  UNCHANGED <<memory, state, frames, stateNeedsImport, calls>>
<1>1. suspended \in Request /\ RejectResponse(suspended, r)
  BY DEF ResumeRejected, Honoured, SessionInv, ShapeOK
<1>2. QED
  BY <1>1, RejectedLeaves

LEMMA HandlerRejectedLeaves ==
  ASSUME SessionInv, NEW r \in Response(pending), HandlerRejected(r)
  PROVE  UNCHANGED <<memory, state, frames, stateNeedsImport, calls>>
<1>1. pending \in Request /\ RejectResponse(pending, r)
  BY DEF HandlerRejected, SessionInv, ControlOK, ShapeOK
<1>2. QED
  BY <1>1, RejectedLeaves

\* A refused token, a rejected response, a spent budget, code that cannot be read.
LEMMA CallEndsKeeps ==
  ASSUME SessionInv,
         \/ BudgetSpent \/ CompileFails
         \/ \E own, t : ResumeRefused(own, t)
         \/ \E t : \E r \in Response(suspended) : ResumeRejected(t, r)
  PROVE  SessionInv'
<1>1. CASE BudgetSpent
  BY <1>1, RefusedKeeps DEF BudgetSpent, SessionStop
<1>2. CASE CompileFails
  BY <1>2, RefusedKeeps DEF CompileFails, SessionStop
<1>3. CASE \E own, t : ResumeRefused(own, t)
  BY <1>3, RefusedKeeps DEF ResumeRefused, SessionStop, MayCall
<1>4. CASE \E t : \E r \in Response(suspended) : ResumeRejected(t, r)
  <2>1. PICK t : \E r \in Response(suspended) : ResumeRejected(t, r)
    BY <1>4
  <2>2. control # "block" /\ Return("Fault", state.pc) /\ "Fault" \in SessionStop
    BY <2>1 DEF ResumeRejected, MayCall, SessionStop
  <2>3. UNCHANGED <<memory, state, interp, stateNeedsImport, cache, local, frames, progress,
                    tokens, setup, pending>>
    BY <2>1, ResumeRejectedLeaves DEF ResumeRejected
  <2>4. QED
    BY <2>2, <2>3, RefusedKeeps
<1>5. QED
  BY <1>1, <1>2, <1>3, <1>4

\* The handler fails or its response is rejected: the request becomes a suspension.
LEMMA HandlerGivesUpKeeps ==
  ASSUME SessionInv, HandlerFails \/ \E r \in Response(pending) : HandlerRejected(r)
  PROVE  SessionInv'
<1>1. /\ control = "handler" /\ pending' = NoRequest
      /\ Suspend(pending, "HandlerStop") \/ Suspend(pending, "Fault")
      /\ UNCHANGED <<memory, state, frames, interp, stateNeedsImport, cache, local, executed,
                     emitted, spent, observer, handler>>
  BY HandlerRejectedLeaves DEF HandlerFails, HandlerRejected, progress, setup
<1>2. /\ suspended' = pending /\ tokenGeneration' = tokenGeneration + 1 /\ control' = "idle"
      /\ result' \in [stop : SessionStop, pc : Location]
  BY <1>1 DEF Suspend, Return, SessionInv, ShapeOK, SessionStop
<1>3. pending \in Request /\ pending # NoRequest /\ local = NoLocal /\ ConfigurationValid
  BY <1>1, SentinelAssumption DEF SessionInv, ControlOK, ShapeOK
<1>4. ShapeOK'
  <2>1. (stateNeedsImport \in BOOLEAN)' /\ (observer \in BOOLEAN)' /\ (handler \in BOOLEAN)'
    BY <1>1, Zenon DEF SessionInv, ShapeOK
  <2>2. QED
    BY <1>1, <1>2, <1>3, <2>1 DEF SessionInv, ShapeOK
<1>5. CacheOK'
  BY <1>1 DEF SessionInv, CacheOK
<1>6. ControlOK'
  BY <1>1, <1>2, <1>3 DEF ControlOK, ConfigurationValid, NoLocal
<1>7. TokensOK' /\ TokenSingleUse'
  BY <1>1, <1>2 DEF SessionInv, ShapeOK, TokensOK, TokenSingleUse
<1>8. ImportPending'
  BY <1>2, <1>3 DEF ImportPending
<1>9. QED
  BY <1>1, <1>2, <1>4, <1>5, <1>6, <1>7, <1>8, OutsideKeeps

\* What an accepted response does to memory, state and frames.
LEMMA ApplyFacts ==
  ASSUME SessionInv, NEW request \in Request, NEW response \in Response(request),
         ApplyResponse(request, response)
  PROVE  /\ Outlives(memory, memory')
         /\ state' \in [pc : Location, regs : Registers]
         /\ frames' \in Seq(Frame)
         /\ stateNeedsImport'
<1>1. /\ response.nextPc \in Location /\ response.continuationPc \in Location
      /\ response.registers \in StatePatch /\ response.memory \in MemoryBatch
      /\ request.returnPc \in Location
  BY ResponseFacts
<1>2. MemoryOK(memory) /\ state.pc \in Location /\ state.regs \in Registers /\ frames \in Seq(Frame)
  BY DEF SessionInv, ShapeOK
<1>3. Outlives(memory, memory')
  <2>1. Checked(response) /\ memory' = MemoryLeft(response)
    BY DEF ApplyResponse, Accepted
  <2>2. Validate(memory, response.memory) /\ memory' = ApplyMemory(memory, response.memory).memory
    BY <2>1 DEF Checked, MemoryLeft
  <2>3. QED
    BY <1>1, <1>2, <2>2, BatchApplies
<1>4. state' \in [pc : Location, regs : Registers]
  <2> DEFINE new == [r \in Reg |-> IF r \in DOMAIN response.registers
                                   THEN response.registers[r] ELSE state.regs[r]]
  <2>1. PICK R \in SUBSET (Reg \cup {"unknown"}) : response.registers \in [R -> Location]
    BY <1>1 DEF StatePatch
  <2>2. new \in Registers
    BY <1>2, <2>1 DEF Registers
  <2>3. PcAfter(request, response) \in Location
    BY <1>1, <1>2 DEF PcAfter
  <2>4. state' = [pc |-> PcAfter(request, response), regs |-> new]
    BY DEF ApplyResponse
  <2> HIDE DEF new
  <2>5. QED
    BY <2>2, <2>3, <2>4
<1>5. frames' \in Seq(Frame)
  <2> DEFINE frame == [returnPc |-> request.returnPc, continuationPc |-> response.continuationPc]
  <2>1. frame \in Frame
    BY <1>1 DEF Frame
  <2>2. Append(frames, frame) \in Seq(Frame)
    BY <1>2, <2>1, AppendProperties
  <2>3. frames # <<>> => SubSeq(frames, 1, Len(frames) - 1) \in Seq(Frame)
    BY <1>2, PopFrame
  <2>4. frames' = FramesAfter(request, response)
    BY DEF ApplyResponse, Accepted, FramesLeft
  <2>5. \/ FramesAfter(request, response) = Append(frames, frame)
        \/ frames # <<>> /\ FramesAfter(request, response) = SubSeq(frames, 1, Len(frames) - 1)
        \/ FramesAfter(request, response) = frames
    BY DEF FramesAfter
  <2>6. QED
    BY <1>2, <2>2, <2>3, <2>4, <2>5
<1>6. QED
  BY <1>3, <1>4, <1>5 DEF ApplyResponse

\* An accepted response: the session stops at the same request or goes on.
LEMMA AnsweredKeeps ==
  ASSUME SessionInv, control # "block", ConfigurationValid,
         NEW request \in Request, NEW response \in Response(request),
         ApplyResponse(request, response),
         UNCHANGED <<interp, cache, local, executed, emitted, observer, handler>>,
         pending' \in Request \cup {NoRequest},
         spent' \subseteq Nat, \A t \in spent' : t <= tokenGeneration,
         \/ /\ control' = "idle" /\ suspended' = request /\ tokenGeneration' = tokenGeneration + 1
            /\ result' = [stop |-> "HandlerStop", pc |-> state'.pc]
         \/ control' = "loop" /\ suspended' = NoRequest /\ UNCHANGED <<tokenGeneration, result>>
  PROVE  SessionInv'
<1>1. /\ Outlives(memory, memory') /\ state' \in [pc : Location, regs : Registers]
      /\ frames' \in Seq(Frame) /\ stateNeedsImport' = TRUE
  BY ApplyFacts DEF ApplyResponse
<1>2. result' \in [stop : SessionStop, pc : Location] /\ tokenGeneration' \in Nat
  BY <1>1 DEF SessionInv, ShapeOK, SessionStop
<1>3. ShapeOK'
  <2>1. (stateNeedsImport \in BOOLEAN)' /\ (observer \in BOOLEAN)' /\ (handler \in BOOLEAN)'
    BY <1>1, Zenon DEF SessionInv, ShapeOK
  <2>2. MemoryOK(memory')
    BY <1>1 DEF Outlives
  <2>3. state' \in [pc : Location, regs : Registers] /\ frames' \in Seq(Frame)
    BY <1>1
  <2>4. QED
    BY <1>2, <2>1, <2>2, <2>3 DEF SessionInv, ShapeOK
<1>4. CacheOK'
  BY <1>1, CacheKept DEF SessionInv
<1>5. ControlOK'
  BY DEF SessionInv, ControlOK, ConfigurationValid, NoLocal
<1>6. TokensOK' /\ TokenSingleUse'
  BY <1>2 DEF SessionInv, ShapeOK, TokensOK, TokenSingleUse
<1>7. ImportPending'
  BY <1>1 DEF ImportPending
<1>8. QED
  BY <1>3, <1>4, <1>5, <1>6, <1>7, OutsideKeeps

\* The handler's response.
LEMMA HandlerAnswersKeeps ==
  ASSUME SessionInv, NEW r \in Response(pending), HandlerAnswers(r)
  PROVE  SessionInv'
<1>1. /\ control = "handler" /\ ApplyResponse(pending, r) /\ pending' = NoRequest
      /\ UNCHANGED <<interp, cache, local, executed, emitted, observer, handler, spent>>
  BY DEF HandlerAnswers, progress, setup
<1>2. pending \in Request /\ ConfigurationValid /\ suspended = NoRequest
  BY <1>1 DEF SessionInv, ControlOK, ShapeOK
<1>3. spent' \subseteq Nat /\ \A t \in spent' : t <= tokenGeneration
  BY <1>1 DEF SessionInv, ShapeOK, TokensOK
<1>4. \/ /\ control' = "idle" /\ suspended' = pending /\ tokenGeneration' = tokenGeneration + 1
         /\ result' = [stop |-> "HandlerStop", pc |-> state'.pc]
      \/ control' = "loop" /\ suspended' = NoRequest /\ UNCHANGED <<tokenGeneration, result>>
  BY <1>2 DEF HandlerAnswers, Suspend, Return
<1>5. QED
  BY <1>1, <1>2, <1>3, <1>4, AnsweredKeeps

\* resume with the current token.
LEMMA ResumeKeeps ==
  ASSUME SessionInv, NEW t, NEW r \in Response(suspended), Resume(t, r)
  PROVE  SessionInv'
<1>1. /\ control = "idle" /\ suspended # NoRequest /\ t = tokenGeneration
      /\ ApplyResponse(suspended, r) /\ pending' = pending /\ spent' = spent \cup {t}
      /\ UNCHANGED <<interp, cache, local, executed, emitted, observer, handler>>
  BY DEF Resume, MayCall, Honoured, progress, setup
<1>2. suspended \in Request /\ ConfigurationValid
  BY <1>1 DEF SessionInv, ControlOK, ShapeOK
<1>3. spent' \subseteq Nat /\ \A x \in spent' : x <= tokenGeneration
  BY <1>1 DEF SessionInv, ShapeOK, TokensOK
<1>4. \/ /\ control' = "idle" /\ suspended' = suspended /\ tokenGeneration' = tokenGeneration + 1
         /\ result' = [stop |-> "HandlerStop", pc |-> state'.pc]
      \/ control' = "loop" /\ suspended' = NoRequest /\ UNCHANGED <<tokenGeneration, result>>
  BY DEF Resume, Suspend, Return
<1>5. pending' \in Request \cup {NoRequest}
  BY <1>1 DEF SessionInv, ShapeOK
<1>6. QED
  BY <1>1, <1>2, <1>3, <1>4, <1>5, AnsweredKeeps

\* The embedder sets hooks, edits memory or registers, or shares a block.
LEMMA EmbedderKeeps ==
  ASSUME SessionInv,
         \/ \E o, h \in BOOLEAN : SetHooks(o, h)
         \/ \E x \in EmbedderWrites : WriteMemory(x[1], x[2])
         \/ \E x \in EmbedderRegisters : WriteState(x[1], x[2])
         \/ \E x \in SharedBlocks : ShareBlock(x[1], x[2])
  PROVE  SessionInv'
<1>1. /\ control \in {"idle", "handler"} /\ control' = control
      /\ UNCHANGED <<interp, stateNeedsImport, local, frames, executed, emitted, tokenGeneration,
                     suspended, spent, pending, result>>
  BY DEF SetHooks, WriteMemory, WriteState, ShareBlock, EmbedderTurn, progress, tokens
<1>2. ControlOK' /\ TokensOK' /\ TokenSingleUse'
  BY <1>1 DEF SessionInv, ControlOK, TokensOK, TokenSingleUse, ConfigurationValid, NoLocal
<1>3. MemoryOK(memory)
  BY DEF SessionInv, ShapeOK
<1>4. CASE \E o, h \in BOOLEAN : SetHooks(o, h)
  <2>1. UNCHANGED <<memory, state, cache>> /\ (observer \in BOOLEAN)' /\ (handler \in BOOLEAN)'
    BY <1>4, Zenon DEF SetHooks
  <2>2. (stateNeedsImport \in BOOLEAN)'
    BY <1>1, Zenon DEF SessionInv, ShapeOK
  <2>3. ShapeOK'
    BY <1>1, <2>1, <2>2 DEF SessionInv, ShapeOK
  <2>4. CacheOK' /\ ImportPending'
    BY <1>1, <2>1 DEF SessionInv, CacheOK, ImportPending
  <2>5. QED
    BY <1>1, <1>2, <2>3, <2>4, OutsideKeeps
<1>5. ASSUME UNCHANGED <<observer, handler>> PROVE
        (stateNeedsImport \in BOOLEAN)' /\ (observer \in BOOLEAN)' /\ (handler \in BOOLEAN)'
  BY <1>1, <1>5, Zenon DEF SessionInv, ShapeOK
<1>6. CASE \E x \in EmbedderWrites : WriteMemory(x[1], x[2])
  <2>1. PICK x \in EmbedderWrites : WriteMemory(x[1], x[2])
    BY <1>6
  <2>2. x[1] \in Location /\ x[2] \in Word
    BY GuestAssumption, SizeAssumption DEF Location
  <2>3. /\ UNCHANGED <<observer, handler, state, cache>>
        /\ memory.words[x[1]] # NoWord /\ memory' = WriteWord(memory, x[1], x[2])
    BY <2>1 DEF WriteMemory, setup
  <2>4. Outlives(memory, memory')
    BY <1>3, <2>2, <2>3, WriteOutlives
  <2>5. ShapeOK'
    BY <1>1, <1>5, <2>3, <2>4 DEF SessionInv, ShapeOK, Outlives
  <2>6. CacheOK' /\ ImportPending'
    BY <1>1, <2>3, <2>4, CacheKept DEF SessionInv, ImportPending
  <2>7. QED
    BY <1>1, <1>2, <2>5, <2>6, OutsideKeeps
<1>7. CASE \E x \in EmbedderRegisters : WriteState(x[1], x[2])
  <2>1. PICK x \in EmbedderRegisters : WriteState(x[1], x[2])
    BY <1>7
  <2>2. x[1] \in Reg /\ x[2] \in Location
    BY GuestAssumption
  <2>3. /\ UNCHANGED <<observer, handler, memory, cache>>
        /\ stateNeedsImport \/ suspended # NoRequest
        /\ state' = [state EXCEPT !.regs[x[1]] = x[2]]
    BY <2>1 DEF WriteState, setup
  <2>4. state' \in [pc : Location, regs : Registers]
    BY <2>2, <2>3 DEF SessionInv, ShapeOK, Registers
  <2>5. ShapeOK'
    BY <1>1, <1>5, <2>3, <2>4 DEF SessionInv, ShapeOK
  <2>6. CacheOK' /\ ImportPending'
    BY <1>1, <2>3 DEF SessionInv, CacheOK, ImportPending
  <2>7. QED
    BY <1>1, <1>2, <2>5, <2>6, OutsideKeeps
<1>8. CASE \E x \in SharedBlocks : ShareBlock(x[1], x[2])
  <2>1. PICK x \in SharedBlocks : ShareBlock(x[1], x[2])
    BY <1>8
  <2>2. x[1] \in Location /\ x[2] \in Nat \ {0}
    BY GuestAssumption
  <2> DEFINE b == Compile(memory, x[1], x[2])
  <2>3. /\ UNCHANGED <<observer, handler, memory, state>> /\ memory.words[x[1]] # NoWord
        /\ cache' = [cache EXCEPT ![x[1]] = b]
    BY <2>1 DEF ShareBlock, setup
  <2>4. BlockOK(b, x[1], memory)
    BY <1>3, <2>2, <2>3, CompileOK
  <2> HIDE DEF b
  <2>5. cache = [a \in Location |-> cache[a]]
    BY DEF SessionInv, ShapeOK
  <2>6. cache' = [a \in Location |-> cache'[a]]
    BY <2>3, <2>5
  <2>7. ShapeOK'
    BY <1>1, <1>5, <2>3, <2>6 DEF SessionInv, ShapeOK
  <2>8. CacheOK'
    BY <2>2, <2>3, <2>4, <2>5 DEF SessionInv, CacheOK
  <2>9. ImportPending'
    BY <1>1, <2>3 DEF SessionInv, ImportPending
  <2>10. QED
    BY <1>1, <1>2, <2>7, <2>8, <2>9, OutsideKeeps
<1>9. QED
  BY <1>4, <1>6, <1>7, <1>8

(***************************************************************************)
(* The invariant and what follows from it.                                 *)
(***************************************************************************)
LEMMA InitInv == Init => SessionInv
<1> SUFFICES ASSUME Init PROVE SessionInv
  OBVIOUS
<1>1. memory = [words |-> Program, generation |-> [p \in Page |-> 1], next |-> 2]
  BY DEF Init
<1>2. MemoryOK(memory)
  BY <1>1, GuestAssumption DEF MemoryOK, CodeMemory
<1>3. state \in [pc : Location, regs : Registers] /\ interp \in Registers
  BY GuestAssumption, LocationFacts DEF Init, Registers
<1>4. cache = [a \in Location |-> cache[a]] /\ \A a \in Location : cache[a] = NoBlock
  BY DEF Init
<1>5. stateNeedsImport \in BOOLEAN /\ observer \in BOOLEAN /\ handler \in BOOLEAN
  BY Zenon DEF Init
<1>6. result \in [stop : SessionStop, pc : Location] /\ frames \in Seq(Frame)
  BY GuestAssumption DEF Init, SessionStop
<1>7. ShapeOK
  BY <1>2, <1>3, <1>4, <1>5, <1>6 DEF Init, ShapeOK
<1>8. ControlOK /\ LocalOK /\ BudgetOK /\ TokensOK /\ TokenSingleUse
  BY DEF Init, ControlOK, LocalOK, BudgetOK, TokensOK, TokenSingleUse
<1>9. CacheOK
  BY <1>4 DEF CacheOK
<1>10. WithinBudget
  BY OptionAssumption DEF Init, WithinBudget
<1>11. ImportPending
  BY DEF Init, ImportPending
<1>12. QED
  BY <1>7, <1>8, <1>9, <1>10, <1>11 DEF SessionInv

LEMMA StepInv == SessionInv /\ [Next]_vars => SessionInv'
<1> SUFFICES ASSUME SessionInv, [Next]_vars PROVE SessionInv'
  OBVIOUS
<1>1. CASE Session
  <2>1. CASE BudgetSpent \/ CompileFails
    BY <2>1, CallEndsKeeps
  <2>2. CASE EnterBlock
    BY <2>2, EnterBlockKeeps
  <2>3. CASE Execute
    BY <2>3, ExecuteKeeps
  <2>4. CASE TakeBranch
    BY <2>4, TakeBranchKeeps
  <2>5. CASE TakeCondBranch
    BY <2>5, TakeCondBranchKeeps
  <2>6. CASE TakeIndirectBranch
    BY <2>6, TakeIndirectBranchKeeps
  <2>7. CASE ReturnFromFrame
    BY <2>7, ReturnFromFrameKeeps
  <2>8. CASE RaiseBoundary
    BY <2>8, RaiseBoundaryKeeps
  <2>9. CASE Returned \/ StopAtInstruction \/ Interrupt
    BY <2>9, EndKeeps
  <2>10. QED
    BY <1>1, <2>1, <2>2, <2>3, <2>4, <2>5, <2>6, <2>7, <2>8, <2>9 DEF Session
<1>2. CASE Handler
  <2>1. CASE HandlerFails \/ \E r \in Response(pending) : HandlerRejected(r)
    BY <2>1, HandlerGivesUpKeeps
  <2>2. CASE \E r \in Response(pending) : HandlerAnswers(r)
    BY <2>2, HandlerAnswersKeeps
  <2>3. QED
    BY <1>2, <2>1, <2>2 DEF Handler
<1>3. CASE Embedder
  <2>1. CASE Run
    BY <2>1, RunKeeps
  <2>2. CASE \E own \in BOOLEAN, t \in 1 .. tokenGeneration : ResumeRefused(own, t)
    BY <2>2, CallEndsKeeps
  <2>3. CASE \E t \in 1 .. tokenGeneration, r \in Response(suspended) : ResumeRejected(t, r)
    BY <2>3, CallEndsKeeps
  <2>4. CASE \E t \in 1 .. tokenGeneration, r \in Response(suspended) : Resume(t, r)
    BY <2>4, ResumeKeeps
  <2>5. CASE \/ \E o, h \in BOOLEAN : SetHooks(o, h)
             \/ \E x \in EmbedderWrites : WriteMemory(x[1], x[2])
             \/ \E x \in EmbedderRegisters : WriteState(x[1], x[2])
             \/ \E x \in SharedBlocks : ShareBlock(x[1], x[2])
    BY <2>5, EmbedderKeeps
  <2>6. QED
    BY <1>3, <2>1, <2>2, <2>3, <2>4, <2>5 DEF Embedder
<1>4. CASE UNCHANGED vars
  <2>1. (stateNeedsImport \in BOOLEAN)' /\ (observer \in BOOLEAN)' /\ (handler \in BOOLEAN)'
    BY <1>4, Zenon DEF SessionInv, ShapeOK, vars, setup
  <2>2. ShapeOK'
    BY <1>4, <2>1 DEF SessionInv, ShapeOK, vars, progress, tokens
  <2>3. CacheOK' /\ ControlOK' /\ TokensOK' /\ TokenSingleUse' /\ ImportPending' /\ WithinBudget'
    BY <1>4 DEF SessionInv, CacheOK, ControlOK, TokensOK, TokenSingleUse, ImportPending,
                WithinBudget, ConfigurationValid, NoLocal, vars, tokens, progress
  <2>4. LocalOK' /\ BudgetOK'
    BY <1>4 DEF SessionInv, LocalOK, BudgetOK, InFlight, TraceLimited, vars, progress, setup
  <2>5. QED
    BY <2>2, <2>3, <2>4 DEF SessionInv
<1>5. QED
  BY <1>1, <1>2, <1>3, <1>4 DEF Next

\* Blocks, registers, stamps, tokens and budgets of the session agree in every
\* reachable state: the inductive invariant of ExecSession (exec/session.cpp).
THEOREM SessionInvariant == Spec => []SessionInv
<1>1. Init => SessionInv
  BY InitInv
<1>2. SessionInv /\ [Next]_vars => SessionInv'
  BY StepInv
<1>3. QED
  BY <1>1, <1>2, PTL DEF Spec

\* Every run keeps the state well formed: blocks are contiguous code within
\* memory, the bound block is the one at the session's pc.
THEOREM TypeCorrect == Spec => []TypeOK
<1>1. SessionInv => TypeOK
  <2> SUFFICES ASSUME SessionInv PROVE TypeOK
    OBVIOUS
  <2>1. \A a \in Location : cache[a] = NoBlock \/ IsBlock(cache[a], a)
    BY DEF SessionInv, CacheOK, BlockOK
  <2>2. local = NoLocal \/ (IsBlock(local.block, state.pc) /\ local.at \in DOMAIN local.block.code)
    BY DEF SessionInv, ControlOK, LocalOK, BlockOK
  <2>3. \A k \in 1 .. Len(frames) : frames[k] \in [returnPc : Location, continuationPc : Location]
    BY ElementOfSeq DEF SessionInv, ShapeOK, Frame
  <2>4. stateNeedsImport \in BOOLEAN /\ observer \in BOOLEAN /\ handler \in BOOLEAN
    BY Zenon DEF SessionInv, ShapeOK
  <2>5. QED
    BY <2>1, <2>2, <2>3, <2>4 DEF SessionInv, ShapeOK, MemoryOK, TypeOK
<1>2. QED
  BY <1>1, SessionInvariant, PTL

\* ExecOptions::maxInstructions and TracePolicy::maxInstructionRecords are
\* never overrun, whatever blocks the cache holds.
THEOREM Budgets == Spec => []WithinBudget
<1>1. SessionInv => WithinBudget
  BY DEF SessionInv
<1>2. QED
  BY <1>1, SessionInvariant, PTL

\* A resume token is honoured at most once.
THEOREM TokensOnce == Spec => []TokenSingleUse
<1>1. SessionInv => TokenSingleUse
  BY DEF SessionInv
<1>2. QED
  BY <1>1, SessionInvariant, PTL

\* applyResponse is all or nothing: it moves the redirect frames and applies the
\* memory patches one by one, and still a refused response has changed nothing.
THEOREM RefusalsHarmless == Spec => RejectedHarmless
<1> DEFINE Harmless ==
      /\ pending # NoRequest /\ result'.stop = "Fault" => \A r \in Response(pending) :
           HandlerRejected(r) => UNCHANGED <<memory, state, frames>> /\ suspended' = pending
      /\ suspended # NoRequest /\ result'.stop = "Fault" => \A r \in Response(suspended) :
           ResumeRejected(tokenGeneration, r) =>
             UNCHANGED <<memory, state, frames, suspended, tokenGeneration>>
<1>1. SessionInv => Harmless
  BY HandlerRejectedLeaves, ResumeRejectedLeaves
     DEF HandlerRejected, ResumeRejected, Suspend, tokens
<1>2. QED
  BY <1>1, SessionInvariant, PTL DEF RejectedHarmless

\* Between blocks the session's registers and the interpreter's agree unless
\* stateNeedsImport_ says that they will be copied.
THEOREM ImportIsPending == Spec => []ImportPending
<1>1. SessionInv => ImportPending
  BY DEF SessionInv
<1>2. QED
  BY <1>1, SessionInvariant, PTL

(***************************************************************************)
(* The session implements GuestMachine.                                    *)
(***************************************************************************)
Phase ==
  CASE control \in {"loop", "block"} -> "running"
    [] suspended # NoRequest \/ control = "handler" -> "boundary"
    [] OTHER -> "stopped"
Pc == IF control = "block" THEN local.at ELSE state.pc

\* What the machine sees while a block runs and outside blocks, now and next.
LEMMA InsideView ==
  ASSUME SessionInv, control = "block"
  PROVE  Phase = "running" /\ Pc = local.at /\ GuestRegisters = interp
  BY DEF SessionInv, ControlOK, LocalOK, Phase, Pc, GuestRegisters
LEMMA OutsideView ==
  ASSUME SessionInv, control # "block"
  PROVE  /\ Pc = state.pc /\ GuestRegisters = state.regs
         /\ control = "loop" => Phase = "running"
         /\ control = "handler" \/ suspended # NoRequest => Phase = "boundary"
         /\ control = "idle" /\ suspended = NoRequest => Phase = "stopped"
  BY DEF SessionInv, ShapeOK, ControlOK, ImportPending, Phase, Pc, GuestRegisters
LEMMA InsideNext ==
  ASSUME SessionInv', control' = "block"
  PROVE  Phase' = "running" /\ Pc' = local'.at /\ GuestRegisters' = interp'
  BY DEF SessionInv, ControlOK, LocalOK, Phase, Pc, GuestRegisters
LEMMA OutsideNext ==
  ASSUME SessionInv', control' # "block"
  PROVE  /\ Pc' = state'.pc /\ GuestRegisters' = state'.regs
         /\ control' = "loop" => Phase' = "running"
         /\ control' = "handler" \/ suspended' # NoRequest => Phase' = "boundary"
         /\ control' = "idle" /\ suspended' = NoRequest => Phase' = "stopped"
  BY DEF SessionInv, ShapeOK, ControlOK, ImportPending, Phase, Pc, GuestRegisters

\* The machine's actions in the session's terms.
LEMMA MachineStart ==
  ASSUME Phase = "stopped", Phase' = "running", Pc' = Pc, GuestRegisters' = GuestRegisters,
         memory'.words = memory.words
  PROVE  Guest!Next
  BY DEF Guest!Next, Guest!Start, Guest!Goto, Phase, Pc
LEMMA MachinePause ==
  ASSUME Phase = "running", Phase' = "stopped", Pc' = Pc, GuestRegisters' = GuestRegisters,
         memory'.words = memory.words
  PROVE  Guest!Next
  BY DEF Guest!Next, Guest!Pause, Guest!Halt, Phase, Pc
LEMMA MachineAnswer ==
  ASSUME Phase = "boundary", Phase' \in {"boundary", "running"}, Pc' \in Location,
         GuestRegisters' \in Registers, memory'.words \in Words
  PROVE  Guest!Next
  BY DEF Guest!Next, Guest!Answer, Guest!Location, Guest!Registers, Guest!Reg, Guest!Words,
         Location, Registers, Reg, Words, Phase, Pc
LEMMA MachineEdit ==
  ASSUME Phase \in {"stopped", "boundary"}, Phase' = Phase, Pc' = Pc,
         GuestRegisters' \in Registers, memory'.words \in Words
  PROVE  Guest!Next
  BY DEF Guest!Next, Guest!Edit, Guest!Location, Guest!Registers, Guest!Reg, Guest!Words,
         Location, Registers, Reg, Words, Phase, Pc
LEMMA MachineStutter ==
  ASSUME Phase' = Phase, Pc' = Pc, GuestRegisters' = GuestRegisters, memory'.words = memory.words
  PROVE  UNCHANGED Guest!machine
  BY DEF Guest!machine, Phase, Pc

\* The machine's Execute, and where it may go: to a, or to the boundary from a
\* branch that leaves the code domain.
Goes(a) == Phase' = "running" /\ Pc' = a
Branches(a) == Goes(a) \/ (a \in External /\ Phase' = "boundary" /\ Pc' = Pc)
Moves(j) ==
  CASE j.op \in Straight -> Branches(Pc + 1)
    [] j.op = "b" -> Branches(j.target)
    [] j.op = "br" -> Branches(GuestRegisters["x0"])
    [] j.op = "cbz" -> Goes(CondTarget(j, Pc, GuestRegisters))
    [] j.op \in Calls \cup {"svc"} -> Phase' = "boundary" /\ Pc' = Pc
    [] j.op = "ret" -> Goes(GuestRegisters["lr"]) \/ (Phase' \in {"boundary", "stopped"} /\ Pc' = Pc)
    [] OTHER -> FALSE

LEMMA MachineExecute ==
  ASSUME SessionInv, control = "block", ~Interrupted, ~Faults(memory, Current),
         memory' = MemoryAfter(Current, memory), GuestRegisters' = After,
         \/ Current.op \in Straight /\ Branches(local.at + 1)
         \/ Current.op = "b" /\ Branches(Current.target)
         \/ Current.op = "br" /\ Branches(interp["x0"])
         \/ Current.op = "cbz" /\ Goes(CondTarget(Current, local.at, interp))
         \/ Current.op \in Calls \cup {"svc"} /\ Phase' = "boundary" /\ Pc' = Pc
         \/ Current.op = "ret" /\ \/ Goes(interp["lr"])
                                  \/ Phase' = "boundary" /\ Pc' = Pc
                                  \/ Phase' = "stopped" /\ Pc' = Pc
  PROVE  Guest!Next
<1> DEFINE i == Insn[memory.words[local.at]]
<1>1. Phase = "running" /\ Pc = local.at /\ GuestRegisters = interp
  BY InsideView
<1>2. i = Current /\ memory.words[local.at] # NoWord
  BY CurrentFacts, WordAssumption
<1>3. memory'.words = IF i.op = "str" THEN [memory.words EXCEPT ![i.target] = i.word]
                      ELSE memory.words
  BY <1>2, CurrentOutlives
<1>4. GuestRegisters' = RegistersAfter(i, Pc, GuestRegisters)
  BY <1>1, <1>2 DEF After
<1>5. ~(i.op = "str" /\ memory.words[i.target] = NoWord)
  BY <1>2 DEF Faults

<1>6. Guest!Execute <=>
        /\ Phase = "running" /\ memory.words[Pc] # NoWord
        /\ LET j == Insn[memory.words[Pc]] IN
             /\ ~(j.op = "str" /\ memory.words[j.target] = NoWord)
             /\ GuestRegisters' = RegistersAfter(j, Pc, GuestRegisters)
             /\ memory'.words = IF j.op = "str" THEN [memory.words EXCEPT ![j.target] = j.word]
                                ELSE memory.words
             /\ Moves(j)
  BY DEF Guest!Execute, Guest!Faults, Guest!RegistersAfter, RegistersAfter, Guest!CondTarget,
         CondTarget, Guest!Straight, Straight, Guest!Calls, Calls, Guest!BranchTo, Guest!Goto,
         Guest!Boundary, Guest!Halt, Moves, Branches, Goes, Phase, Pc
<1>7. Moves(i)
  BY <1>1, <1>2 DEF Moves, Straight, Calls
<1>8. Guest!Execute
  BY <1>1, <1>2, <1>3, <1>4, <1>5, <1>6, <1>7
<1>9. QED
  BY <1>8 DEF Guest!Next

\* The machine's Refuse: the pc it leaves is any location.
LEMMA MachineRefuse ==
  ASSUME SessionInv, control = "block", ~Interrupted,
         Current.op \in {"brk", "udf"} \/ Faults(memory, Current),
         Phase' = "stopped", Pc' \in Location, GuestRegisters' = interp,
         memory'.words = memory.words
  PROVE  Guest!Next
<1>1. Phase = "running" /\ Pc = local.at /\ GuestRegisters = interp
  BY InsideView
<1>2. Insn[memory.words[Pc]] = Current /\ memory.words[Pc] # NoWord
  BY <1>1, CurrentFacts, WordAssumption
<1>3. Guest!Refuse <=>
        /\ Phase = "running" /\ memory.words[Pc] # NoWord
        /\ LET j == Insn[memory.words[Pc]] IN
             j.op \in {"brk", "udf"} \/ (j.op = "str" /\ memory.words[j.target] = NoWord)
        /\ Phase' = "stopped" /\ Pc' \in Location
        /\ GuestRegisters' = GuestRegisters /\ memory'.words = memory.words
  BY DEF Guest!Refuse, Guest!Faults, Guest!Location, Location, Phase, Pc
<1>4. Guest!Refuse
  BY <1>1, <1>2, <1>3 DEF Faults
<1>5. QED
  BY <1>4 DEF Guest!Next

\* Where the machine is after a block ended.
LEMMA ContinueView ==
  ASSUME SessionInv, SessionInv', control = "block", ~Interrupted, NEW pc, Continue(pc)
  PROVE  Goes(pc) /\ GuestRegisters' = After
<1>1. Leave(pc, After) /\ control' = "loop"
  BY DEF Continue, EndBlock
<1>2. state' = [pc |-> pc, regs |-> After]
  BY <1>1, BothExportable, LeaveExports
<1>3. QED
  BY <1>1, <1>2, OutsideNext DEF Goes
LEMMA RaiseView ==
  ASSUME SessionInv, SessionInv', control = "block", ~Interrupted, NEW request \in Request,
         Raise(request)
  PROVE  Phase' = "boundary" /\ Pc' = request.pc /\ GuestRegisters' = After
<1>1. Leave(request.pc, After)
  BY DEF Raise, EndBlock
<1>2. state' = [pc |-> request.pc, regs |-> After]
  BY <1>1, BothExportable, LeaveExports
<1>3. control' = "handler" \/ (control' = "idle" /\ suspended' = request)
  BY DEF Raise, Suspend, Return
<1>4. QED
  BY <1>2, <1>3, OutsideNext, SentinelAssumption

\* Each way a block can end is the machine's execution of its last instruction.
LEMMA BranchRefines ==
  ASSUME SessionInv, SessionInv', TakeBranch
  PROVE  Guest!Next
<1> DEFINE target == IF Current.op = "b" THEN Current.target ELSE local.at + 1
           request == [kind |-> "DirectCall", pc |-> local.at, returnPc |-> After["lr"],
                       target |-> target, origin |-> "tail"]
<1>1. /\ control = "block" /\ ~Interrupted /\ ~Faults(memory, Current)
      /\ memory' = MemoryAfter(Current, memory) /\ Current.op \in Straight \cup {"b"}
  BY DEF TakeBranch, Executing, Faults
<1>2. \/ target \in External /\ Raise(request)
      \/ Continue(target)
  BY DEF TakeBranch, LeavesDomain
<1>3. local.at \in Location /\ target \in Location /\ After["lr"] \in Location
  BY <1>1, CurrentFacts, BothExportable DEF Instruction, Exportable, Registers, Reg
<1>4. request \in Request /\ request.pc = local.at
  BY <1>3 DEF Request, Origin
<1>5. Pc = local.at
  BY <1>1, InsideView
<1> HIDE DEF request
<1>6. Branches(target) /\ GuestRegisters' = After
  BY <1>1, <1>2, <1>4, <1>5, ContinueView, RaiseView DEF Branches
<1>7. QED
  BY <1>1, <1>6, MachineExecute DEF Straight
LEMMA CondBranchRefines ==
  ASSUME SessionInv, SessionInv', TakeCondBranch
  PROVE  Guest!Next
<1>1. /\ control = "block" /\ ~Interrupted /\ Current.op = "cbz" /\ memory' = memory
      /\ Continue(CondTarget(Current, local.at, interp))
  BY DEF TakeCondBranch, Executing
<1>2. ~Faults(memory, Current) /\ memory' = MemoryAfter(Current, memory)
  BY <1>1 DEF Faults, MemoryAfter
<1>3. QED
  BY <1>1, <1>2, ContinueView, MachineExecute
LEMMA IndirectBranchRefines ==
  ASSUME SessionInv, SessionInv', TakeIndirectBranch
  PROVE  Guest!Next
<1> DEFINE request == [kind |-> "IndirectCall", pc |-> local.at, returnPc |-> interp["lr"],
                       target |-> interp["x0"], origin |-> "tail"]
<1>1. /\ control = "block" /\ ~Interrupted /\ Current.op = "br" /\ memory' = memory
      /\ \/ interp["x0"] \in External /\ Raise(request)
         \/ Continue(interp["x0"])
  BY DEF TakeIndirectBranch, Executing, LeavesDomain
<1>2. ~Faults(memory, Current) /\ memory' = MemoryAfter(Current, memory)
  BY <1>1 DEF Faults, MemoryAfter
<1>3. local.at \in Location /\ interp["x0"] \in Location /\ interp["lr"] \in Location
  BY <1>1, CurrentFacts DEF SessionInv, ShapeOK, Registers, Reg
<1>4. request \in Request /\ request.pc = local.at
  BY <1>3 DEF Request, Origin
<1>5. Pc = local.at
  BY <1>1, InsideView
<1> HIDE DEF request
<1>6. Branches(interp["x0"]) /\ GuestRegisters' = After
  BY <1>1, <1>4, <1>5, ContinueView, RaiseView DEF Branches
<1>7. QED
  BY <1>1, <1>2, <1>6, MachineExecute
LEMMA ReturnRefines ==
  ASSUME SessionInv, SessionInv', ReturnFromFrame \/ Returned
  PROVE  Guest!Next
<1>1. control = "block" /\ ~Interrupted /\ Current.op = "ret" /\ memory' = memory
  BY DEF ReturnFromFrame, Returned, Executing
<1>2. ~Faults(memory, Current) /\ memory' = MemoryAfter(Current, memory)
  BY <1>1 DEF Faults, MemoryAfter
<1>3. Pc = local.at /\ local.at \in Location /\ suspended = NoRequest
  BY <1>1, InsideView, CurrentFacts DEF SessionInv, ControlOK
<1>4. CASE ReturnFromFrame
  <2> DEFINE frame == frames[Len(frames)]
             request == [kind |-> "DirectCall", pc |-> local.at, returnPc |-> frame.returnPc,
                         target |-> frame.continuationPc, origin |-> "callback"]
  <2>1. frames # <<>> /\ frame.returnPc = interp["lr"] /\ (Continue(frame.returnPc) \/ Raise(request))
    BY <1>4 DEF ReturnFromFrame
  <2>2. frame \in Frame
    BY <2>1, PopFrame DEF SessionInv, ShapeOK
  <2>3. request \in Request /\ request.pc = local.at
    BY <1>3, <2>2 DEF Request, Origin, Frame
  <2> HIDE DEF request, frame
  <2>4. /\ Goes(interp["lr"]) \/ (Phase' = "boundary" /\ Pc' = Pc)
        /\ GuestRegisters' = After
    BY <1>1, <1>3, <2>1, <2>3, ContinueView, RaiseView
  <2>5. QED
    BY <1>1, <1>2, <2>4, MachineExecute
<1>5. CASE Returned
  <2>1. Leave(local.at, After) /\ control' = "idle" /\ suspended' = suspended
    BY <1>5 DEF Returned, EndBlock, Return, tokens
  <2>2. state' = [pc |-> local.at, regs |-> After]
    BY <1>1, <2>1, BothExportable, LeaveExports
  <2>3. Phase' = "stopped" /\ Pc' = Pc /\ GuestRegisters' = After
    BY <1>3, <2>1, <2>2, OutsideNext
  <2>4. QED
    BY <1>1, <1>2, <2>3, MachineExecute
<1>6. QED
  BY <1>4, <1>5
LEMMA BoundaryRefines ==
  ASSUME SessionInv, SessionInv', RaiseBoundary
  PROVE  Guest!Next
<1>1. control = "block" /\ ~Interrupted /\ Current.op \in Calls \cup {"svc"} /\ memory' = memory
  BY DEF RaiseBoundary, Executing
<1>2. ~Faults(memory, Current) /\ memory' = MemoryAfter(Current, memory)
  BY <1>1 DEF Faults, MemoryAfter, Calls
<1>3. Pc = local.at /\ local.at \in Location /\ local.at + 1 \in Location
      /\ interp["x0"] \in Location /\ Current.target \in Location
  BY <1>1, InsideView, CurrentFacts DEF SessionInv, ShapeOK, Registers, Reg, Instruction
<1>4. PICK request \in Request : Raise(request) /\ request.pc = local.at
  <2> DEFINE kind == CASE Current.op = "bl" -> "DirectCall"
                       [] Current.op = "blr" -> "IndirectCall"
                       [] OTHER -> "Syscall"
             target == IF Current.op = "blr" THEN interp["x0"] ELSE Current.target
             request == [kind |-> kind, pc |-> local.at, returnPc |-> local.at + 1,
                         target |-> target, origin |-> "instruction"]
  <2>1. Raise(request)
    BY DEF RaiseBoundary
  <2>2. kind \in {"DirectCall", "IndirectCall", "Syscall"} /\ target \in Location
    BY <1>3
  <2> HIDE DEF kind, target
  <2>3. request \in Request /\ request.pc = local.at
    BY <1>3, <2>2 DEF Request, Origin
  <2> HIDE DEF request
  <2>4. QED
    BY <2>1, <2>3
<1>5. Phase' = "boundary" /\ Pc' = Pc /\ GuestRegisters' = After
  BY <1>1, <1>3, <1>4, RaiseView
<1>6. QED
  BY <1>1, <1>2, <1>5, MachineExecute

\* An instruction in the middle of a block, one that cannot be executed, and
\* an interrupt, which the machine does not see.
LEMMA MiddleRefines ==
  ASSUME SessionInv, SessionInv', Execute \/ StopAtInstruction \/ Interrupt
  PROVE  Guest!Next \/ UNCHANGED Guest!machine
<1>1. control = "block" /\ Phase = "running" /\ Pc = local.at /\ GuestRegisters = interp
      /\ suspended = NoRequest /\ state.pc \in Location
  BY InsideView DEF Execute, StopAtInstruction, Interrupt, Executing, SessionInv, ControlOK, ShapeOK
<1>2. CASE Execute
  <2>1. /\ ~Interrupted /\ Current.op \in Straight /\ ~Faults(memory, Current)
        /\ memory' = MemoryAfter(Current, memory) /\ interp' = After /\ control' = "block"
        /\ local' = [local EXCEPT !.at = @ + 1, !.active = local.at]
    BY <1>2 DEF Execute, Executing
  <2>2. local = [block |-> local.block, at |-> local.at, active |-> local.active]
    BY <1>1 DEF SessionInv, LocalOK
  <2>3. local'.at = local.at + 1
    BY <2>1, <2>2
  <2>4. Branches(local.at + 1) /\ GuestRegisters' = After
    BY <2>1, <2>3, InsideNext DEF Branches, Goes
  <2>5. QED
    BY <1>1, <2>1, <2>4, MachineExecute
<1>3. CASE StopAtInstruction
  <2>1. /\ ~Interrupted /\ (Current.op \in {"brk", "udf"} \/ Faults(memory, Current))
        /\ Leave(state.pc, interp) /\ control' = "idle" /\ UNCHANGED <<suspended, memory>>
    BY <1>3 DEF StopAtInstruction, Executing, Return, tokens
  <2>2. state' = [pc |-> state.pc, regs |-> interp]
    BY <1>1, <2>1, BothExportable, LeaveExports
  <2>3. Phase' = "stopped" /\ Pc' \in Location /\ GuestRegisters' = interp
    BY <1>1, <2>1, <2>2, OutsideNext
  <2>4. QED
    BY <1>1, <2>1, <2>3, MachineRefuse
<1>4. CASE Interrupt
  <2>1. Leave(local.at, interp) /\ control' = "loop" /\ UNCHANGED memory
    BY <1>4 DEF Interrupt
  <2>2. state' = [pc |-> local.at, regs |-> interp]
    BY <1>1, <2>1, BothExportable, LeaveExports
  <2>3. Phase' = "running" /\ Pc' = local.at /\ GuestRegisters' = interp
    BY <2>1, <2>2, OutsideNext
  <2>4. UNCHANGED Guest!machine
    BY <1>1, <2>1, <2>3, MachineStutter
  <2>5. QED
    BY <2>4
<1>5. QED
  BY <1>2, <1>3, <1>4

\* Steps between blocks.
LEMMA OutsideRefines ==
  ASSUME SessionInv, SessionInv', control # "block", control' # "block",
         state'.pc \in Location, state'.regs \in Registers, memory'.words \in Words,
         \/ control = "idle" /\ suspended = NoRequest /\ control' = "loop"
            /\ UNCHANGED <<state, memory>>
         \/ control = "loop" /\ control' = "idle" /\ UNCHANGED <<state, memory, suspended>>
         \/ control = "handler" \/ suspended # NoRequest
         \/ control \in {"idle", "handler"} /\ control' = control /\ suspended' = suspended
            /\ state'.pc = state.pc,
         (control = "handler" \/ suspended # NoRequest) =>
           control' \in {"handler", "loop"} \/ suspended' # NoRequest
  PROVE  Guest!Next
<1>1. /\ Pc = state.pc /\ GuestRegisters = state.regs
      /\ control = "loop" => Phase = "running"
      /\ control = "handler" \/ suspended # NoRequest => Phase = "boundary"
      /\ control = "idle" /\ suspended = NoRequest => Phase = "stopped"
  BY OutsideView
<1>2. /\ Pc' = state'.pc /\ GuestRegisters' = state'.regs
      /\ control' = "loop" => Phase' = "running"
      /\ control' = "handler" \/ suspended' # NoRequest => Phase' = "boundary"
      /\ control' = "idle" /\ suspended' = NoRequest => Phase' = "stopped"
  BY OutsideNext
<1>3. CASE control = "idle" /\ suspended = NoRequest /\ control' = "loop"
           /\ UNCHANGED <<state, memory>>
  BY <1>1, <1>2, <1>3, MachineStart
<1>4. CASE control = "loop" /\ control' = "idle" /\ UNCHANGED <<state, memory, suspended>>
  <2>1. suspended = NoRequest
    BY <1>4 DEF SessionInv, ControlOK
  <2>2. QED
    BY <1>1, <1>2, <1>4, <2>1, MachinePause
<1>5. CASE control = "handler" \/ suspended # NoRequest
  BY <1>1, <1>2, <1>5, MachineAnswer
<1>6. CASE control \in {"idle", "handler"} /\ control' = control /\ suspended' = suspended
           /\ state'.pc = state.pc
  BY <1>1, <1>2, <1>6, MachineEdit
<1>7. QED
  BY <1>3, <1>4, <1>5, <1>6

\* The session's own steps, the handler's and the embedder's, step by step.
LEMMA SessionRefines ==
  ASSUME SessionInv, SessionInv', Session
  PROVE  Guest!Next \/ UNCHANGED Guest!machine
<1>1. MemoryOK(memory') /\ state' \in [pc : Location, regs : Registers]
  BY DEF SessionInv, ShapeOK
<1>2. memory'.words \in Words /\ state'.pc \in Location /\ state'.regs \in Registers
  BY <1>1 DEF MemoryOK, CodeMemory
<1>3. CASE BudgetSpent \/ CompileFails
  <2>1. control = "loop" /\ control' = "idle" /\ UNCHANGED <<state, memory, suspended>>
    BY <1>3 DEF BudgetSpent, CompileFails, Return, tokens
  <2>2. suspended = NoRequest
    BY <2>1 DEF SessionInv, ControlOK
  <2>3. QED
    BY <1>2, <2>1, <2>2, OutsideRefines
<1>4. CASE EnterBlock
  <2>1. /\ control = "loop" /\ control' = "block" /\ UNCHANGED <<state, memory>>
        /\ local'.at = state.pc /\ interp' = IF stateNeedsImport THEN state.regs ELSE interp
    BY <1>4 DEF EnterBlock
  <2>2. interp' = state.regs
    BY <2>1 DEF SessionInv, ControlOK, ImportPending
  <2>3. Phase = "running" /\ Pc = state.pc /\ GuestRegisters = state.regs
    BY <2>1, OutsideView
  <2>4. Phase' = "running" /\ Pc' = state.pc /\ GuestRegisters' = state.regs
    BY <2>1, <2>2, InsideNext
  <2>5. UNCHANGED Guest!machine
    BY <2>1, <2>3, <2>4, MachineStutter
  <2>6. QED
    BY <2>5
<1>5. CASE Interrupt \/ Execute \/ StopAtInstruction
  BY <1>5, MiddleRefines
<1>6. CASE TakeBranch
  BY <1>6, BranchRefines
<1>7. CASE TakeCondBranch
  BY <1>7, CondBranchRefines
<1>8. CASE TakeIndirectBranch
  BY <1>8, IndirectBranchRefines
<1>9. CASE ReturnFromFrame \/ Returned
  BY <1>9, ReturnRefines
<1>10. CASE RaiseBoundary
  BY <1>10, BoundaryRefines
<1>11. QED
  BY <1>3, <1>4, <1>5, <1>6, <1>7, <1>8, <1>9, <1>10 DEF Session
LEMMA CallerRefines ==
  ASSUME SessionInv, SessionInv', Handler \/ Embedder
  PROVE  Guest!Next \/ UNCHANGED Guest!machine
<1>1. MemoryOK(memory') /\ state' \in [pc : Location, regs : Registers]
  BY DEF SessionInv, ShapeOK
<1>2. memory'.words \in Words /\ state'.pc \in Location /\ state'.regs \in Registers
  BY <1>1 DEF MemoryOK, CodeMemory
<1>3. CASE Handler
  <2>1. control = "handler" /\ pending \in Request /\ pending # NoRequest /\ control # "block"
    BY <1>3 DEF Handler, HandlerFails, SessionInv, ShapeOK, ControlOK
  <2>2. control' = "loop" \/ (control' = "idle" /\ suspended' = pending)
    BY <1>3 DEF Handler, HandlerFails, HandlerRejected, HandlerAnswers, Suspend, Return
  <2>3. QED
    BY <1>2, <2>1, <2>2, OutsideRefines
<1>4. CASE Run /\ control' = "loop"
  <2>1. control = "idle" /\ suspended = NoRequest /\ UNCHANGED <<state, memory>>
    BY <1>4 DEF Run, MayCall, Return
  <2>2. QED
    BY <1>2, <1>4, <2>1, OutsideRefines
<1>5. CASE \/ Run /\ control' # "loop"
           \/ \E own, t : ResumeRefused(own, t)
           \/ \E t : \E r \in Response(suspended) : ResumeRejected(t, r)
  <2>1. control = "idle" /\ control' = "idle" /\ UNCHANGED <<state, memory, suspended>>
    BY <1>5, ResumeRejectedLeaves DEF Run, ResumeRefused, ResumeRejected, MayCall, Return, tokens
  <2>2. QED
    BY <1>2, <2>1, OutsideRefines
<1>6. CASE \E t, r : Resume(t, r)
  <2>1. control = "idle" /\ suspended # NoRequest
    BY <1>6 DEF Resume, MayCall, Honoured
  <2>2. control' = "loop" \/ (control' = "idle" /\ suspended' = suspended)
    BY <1>6 DEF Resume, Suspend, Return
  <2>3. QED
    BY <1>2, <2>1, <2>2, OutsideRefines
<1>7. CASE \/ \E o, h \in BOOLEAN : SetHooks(o, h)
           \/ \E x \in EmbedderWrites : WriteMemory(x[1], x[2])
           \/ \E x \in EmbedderRegisters : WriteState(x[1], x[2])
           \/ \E x \in SharedBlocks : ShareBlock(x[1], x[2])
  <2>1. /\ control \in {"idle", "handler"} /\ control' = control /\ suspended' = suspended
        /\ state'.pc = state.pc
    BY <1>7 DEF SetHooks, WriteMemory, WriteState, ShareBlock, EmbedderTurn, tokens,
                SessionInv, ShapeOK
  <2>2. QED
    BY <1>2, <2>1, OutsideRefines
<1>8. QED
  BY <1>3, <1>4, <1>5, <1>6, <1>7 DEF Embedder

LEMMA GuestInit == SessionInv /\ Init => Guest!Init
<1> SUFFICES ASSUME SessionInv, Init PROVE Guest!Init
  OBVIOUS
<1>1. control = "idle" /\ suspended = NoRequest
  BY DEF Init
<1>2. Phase = "stopped" /\ Pc = state.pc /\ GuestRegisters = state.regs
  BY <1>1, OutsideView
<1>3. memory.words \in Words /\ state.pc \in Location /\ state.regs \in Registers
  BY DEF SessionInv, ShapeOK, MemoryOK, CodeMemory
<1>4. Guest!Init <=> /\ Phase = "stopped" /\ Pc \in Location
                     /\ GuestRegisters \in Registers /\ memory.words \in Words
  BY DEF Guest!Init, Guest!Location, Guest!Registers, Guest!Reg, Guest!Words,
         Location, Registers, Reg, Words, Phase, Pc
<1>5. QED
  BY <1>2, <1>3, <1>4

\* What the embedder sees of the guest is a machine that decodes every
\* instruction from the bytes memory holds when it starts and runs it on the
\* registers its predecessor left: the block cache, the generation stamps, the
\* interpreter's copy of the registers, the budgets and the interrupts of
\* self-modifying code never show.
THEOREM RefinesMachine == Spec => RefinesGuestMachine
<1>1. Init => Guest!Init
  BY InitInv, GuestInit
<1>2. SessionInv /\ SessionInv' /\ [Next]_vars => [Guest!Next]_(Guest!machine)
  <2> SUFFICES ASSUME SessionInv, SessionInv', [Next]_vars
               PROVE  Guest!Next \/ UNCHANGED Guest!machine
    OBVIOUS
  <2>1. CASE Session
    BY <2>1, SessionRefines
  <2>2. CASE Handler \/ Embedder
    BY <2>2, CallerRefines
  <2>3. CASE UNCHANGED vars
    <3>1. UNCHANGED Guest!machine
      BY <2>3 DEF vars, tokens, Guest!machine, GuestRegisters
    <3>2. QED
      BY <3>1
  <2>4. QED
    BY <2>1, <2>2, <2>3 DEF Next
<1>3. QED
  BY <1>1, <1>2, SessionInvariant, PTL DEF Spec, RefinesGuestMachine, Guest!Spec

-----------------------------------------------------------------------------
(* Redirected calls. *)

\* fr are the redirect frames of the calls that return to cl.
Tracks(fr, cl) ==
  /\ fr \in Seq(Frame) /\ cl \in Seq(Location) /\ Len(cl) = Len(fr)
  /\ \A k \in 1 .. Len(fr) : cl[k] = fr[k].returnPc

\* redirectedCallReturns_ holds the redirected calls the guest is in.
FramesAreCalls == Tracks(frames, calls)

\* The handlers this is for: a tail call is completed, never redirected or
\* stepped over, and any other request is answered by anything but a completed call.
CompletesTailCalls ==
  /\ Answers["tail"] \subseteq {"ReturnFromCall", "Stop"}
  /\ "ReturnFromCall" \notin Answers["instruction"] \cup Answers["callback"]

LEMMA TracksPush ==
  ASSUME NEW fr, NEW cl, Tracks(fr, cl), NEW f \in Frame
  PROVE  Tracks(Append(fr, f), Append(cl, f.returnPc))
<1>1. f.returnPc \in Location /\ Len(fr) \in Nat BY DEF Frame, Tracks
<1>2. /\ Append(fr, f) \in Seq(Frame) /\ Len(Append(fr, f)) = Len(fr) + 1
      /\ Append(cl, f.returnPc) \in Seq(Location) /\ Len(Append(cl, f.returnPc)) = Len(fr) + 1
  BY <1>1 DEF Tracks
<1>3. ASSUME NEW k \in 1 .. (Len(fr) + 1) PROVE Append(cl, f.returnPc)[k] = Append(fr, f)[k].returnPc
  <2>1. CASE k = Len(fr) + 1 BY <1>1, <2>1 DEF Tracks
  <2>2. CASE k # Len(fr) + 1
    <3>1. k \in 1 .. Len(fr) BY <1>1, <2>2
    <3>2. Append(cl, f.returnPc)[k] = cl[k] /\ Append(fr, f)[k] = fr[k] BY <3>1 DEF Tracks
    <3> QED BY <3>1, <3>2 DEF Tracks
  <2> QED BY <2>1, <2>2
<1> QED BY <1>2, <1>3 DEF Tracks

LEMMA TracksPop ==
  ASSUME NEW fr, NEW cl, Tracks(fr, cl)
  PROVE  /\ fr = <<>> <=> cl = <<>>
         /\ fr # <<>> => /\ cl[Len(cl)] = fr[Len(fr)].returnPc
                         /\ Tracks(SubSeq(fr, 1, Len(fr) - 1), SubSeq(cl, 1, Len(cl) - 1))
<1>1. fr \in Seq(Frame) /\ cl \in Seq(Location) /\ Len(cl) = Len(fr) /\ Len(fr) \in Nat BY DEF Tracks
<1>2. (fr = <<>> <=> Len(fr) = 0) /\ (cl = <<>> <=> Len(cl) = 0) BY <1>1, EmptySeq
<1>3. ASSUME fr # <<>>
      PROVE  /\ cl[Len(cl)] = fr[Len(fr)].returnPc
             /\ Tracks(SubSeq(fr, 1, Len(fr) - 1), SubSeq(cl, 1, Len(cl) - 1))
  <2>1. Len(fr) \in 1 .. Len(fr) BY <1>1, <1>2, <1>3
  <2>2. cl[Len(cl)] = fr[Len(fr)].returnPc BY <1>1, <2>1 DEF Tracks
  <2>3. /\ SubSeq(fr, 1, Len(fr) - 1) \in Seq(Frame) /\ Len(SubSeq(fr, 1, Len(fr) - 1)) = Len(fr) - 1
        /\ \A k \in 1 .. (Len(fr) - 1) : SubSeq(fr, 1, Len(fr) - 1)[k] = fr[k]
    BY <1>1, <2>1
  <2>4. /\ SubSeq(cl, 1, Len(cl) - 1) \in Seq(Location) /\ Len(SubSeq(cl, 1, Len(cl) - 1)) = Len(fr) - 1
        /\ \A k \in 1 .. (Len(fr) - 1) : SubSeq(cl, 1, Len(cl) - 1)[k] = cl[k]
    BY <1>1, <2>1
  <2>5. \A k \in 1 .. (Len(fr) - 1) : k \in 1 .. Len(fr) BY <1>1
  <2> QED BY <2>2, <2>3, <2>4, <2>5 DEF Tracks
<1> QED BY <1>1, <1>2, <1>3

\* applyResponse pushes and pops a frame exactly when a redirected call begins
\* and ends.
LEMMA ResponseTracks ==
  ASSUME CompletesTailCalls, FramesAreCalls, NEW request \in Request, NEW response \in Response(request),
         ApplyResponse(request, response)
  PROVE  FramesAreCalls'
<1> DEFINE f == [returnPc |-> request.returnPc, continuationPc |-> response.continuationPc]
<1>1. /\ frames' = FramesAfter(request, response) /\ calls' = CallsAfter(request, response)
      /\ Tracks(frames, calls)
  BY DEF ApplyResponse, Accepted, FramesLeft, FramesAreCalls
<1>2. /\ request.origin \in {"instruction", "tail", "callback"}
      /\ request.kind \in {"DirectCall", "IndirectCall", "Syscall"}
      /\ request.returnPc \in Location
      /\ response.action \in Answers[request.origin] /\ response.continuationPc \in Location
  <2>1. response.continuationPc \in ContinuationPcs /\ response.action \in Answers[request.origin]
    BY DEF Response
  <2>2. ContinuationPcs \subseteq Location BY GuestAssumption
  <2> QED BY <2>1, <2>2 DEF Request, Origin
<1>3. f \in Frame /\ f.returnPc = request.returnPc BY <1>2 DEF Frame
<1> HIDE DEF f
<1>4. CASE response.action = "Redirect"
  <2>1. request.origin # "tail" BY <1>2, <1>4 DEF CompletesTailCalls
  <2>2. CASE request.kind = "Syscall"
    <3>1. frames' = frames /\ calls' = calls BY <1>1, <1>4, <2>1, <2>2 DEF FramesAfter, CallsAfter
    <3> QED BY <1>1, <3>1 DEF FramesAreCalls
  <2>3. CASE request.kind # "Syscall"
    <3>1. frames' = Append(frames, f) /\ calls' = Append(calls, f.returnPc)
      BY <1>1, <1>2, <1>3, <1>4, <2>1, <2>3 DEF FramesAfter, CallsAfter, f
    <3> QED BY <1>1, <1>3, <3>1, TracksPush DEF FramesAreCalls
  <2> QED BY <2>2, <2>3
<1>5. CASE response.action = "ReturnFromCall"
  <2>1. request.origin = "tail" BY <1>2, <1>5 DEF CompletesTailCalls
  <2>2. CASE frames # <<>> /\ frames[Len(frames)].returnPc = request.returnPc
    <3>1. calls # <<>> /\ calls[Len(calls)] = request.returnPc BY <1>1, <2>2, TracksPop
    <3>2. frames' = SubSeq(frames, 1, Len(frames) - 1) /\ calls' = SubSeq(calls, 1, Len(calls) - 1)
      BY <1>1, <1>5, <2>1, <2>2, <3>1 DEF FramesAfter, CallsAfter
    <3> QED BY <1>1, <2>2, <3>2, TracksPop DEF FramesAreCalls
  <2>3. CASE ~(frames # <<>> /\ frames[Len(frames)].returnPc = request.returnPc)
    <3>1. ~(calls # <<>> /\ calls[Len(calls)] = request.returnPc) BY <1>1, <2>3, TracksPop
    <3>2. frames' = frames /\ calls' = calls BY <1>1, <1>5, <2>1, <2>3, <3>1 DEF FramesAfter, CallsAfter
    <3> QED BY <1>1, <3>2 DEF FramesAreCalls
  <2> QED BY <2>2, <2>3
<1>6. CASE response.action # "Redirect" /\ response.action # "ReturnFromCall"
  <2>1. request.origin = "tail" => response.action = "Stop" BY <1>2, <1>6 DEF CompletesTailCalls
  <2>2. frames' = frames /\ calls' = calls BY <1>1, <1>6, <2>1 DEF FramesAfter, CallsAfter
  <2> QED BY <1>1, <2>2 DEF FramesAreCalls
<1> QED BY <1>4, <1>5, <1>6

LEMMA StepTracks ==
  ASSUME CompletesTailCalls, SessionInv, FramesAreCalls, [Next]_vars
  PROVE  FramesAreCalls'
<1>1. CASE UNCHANGED <<frames, calls>> BY <1>1 DEF FramesAreCalls
<1>2. CASE ReturnFromFrame
  <2>1. /\ frames # <<>> /\ frames[Len(frames)].returnPc = interp["lr"]
        /\ frames' = SubSeq(frames, 1, Len(frames) - 1) /\ calls' = CallsReturned
    BY <1>2 DEF ReturnFromFrame
  <2>2. calls # <<>> /\ calls[Len(calls)] = interp["lr"] BY <2>1, TracksPop DEF FramesAreCalls
  <2>3. calls' = SubSeq(calls, 1, Len(calls) - 1) BY <2>1, <2>2 DEF CallsReturned
  <2> QED BY <2>1, <2>3, TracksPop DEF FramesAreCalls
<1>3. CASE Session /\ ~ReturnFromFrame
  <2>1. UNCHANGED <<frames, calls>>
    BY <1>3 DEF Session, BudgetSpent, CompileFails, EnterBlock, Interrupt, Execute, TakeBranch,
                TakeCondBranch, TakeIndirectBranch, Returned, StopAtInstruction, RaiseBoundary
  <2> QED BY <1>1, <2>1
<1>4. CASE Handler
  <2>1. CASE HandlerFails BY <1>1, <2>1 DEF HandlerFails
  <2>2. CASE control = "handler" /\ \E r \in Response(pending) : HandlerRejected(r)
    BY <1>1, <2>2, HandlerRejectedLeaves
  <2>3. CASE control = "handler" /\ \E r \in Response(pending) : HandlerAnswers(r)
    <3>1. pending \in Request BY <2>3 DEF SessionInv, ShapeOK, ControlOK
    <3>2. PICK r \in Response(pending) : ApplyResponse(pending, r) BY <2>3 DEF HandlerAnswers
    <3> QED BY <3>1, <3>2, ResponseTracks
  <2> QED BY <1>4, <2>1, <2>2, <2>3 DEF Handler
<1>5. CASE Embedder
  <2>1. CASE Run BY <1>1, <2>1 DEF Run
  <2>2. CASE \E own \in BOOLEAN, t \in 1 .. tokenGeneration : ResumeRefused(own, t)
    BY <1>1, <2>2 DEF ResumeRefused
  <2>3. CASE \E t \in 1 .. tokenGeneration, r \in Response(suspended) : ResumeRejected(t, r)
    BY <1>1, <2>3, ResumeRejectedLeaves
  <2>4. CASE suspended # NoRequest /\ \E t \in 1 .. tokenGeneration, r \in Response(suspended) : Resume(t, r)
    <3>1. suspended \in Request BY <2>4 DEF SessionInv, ShapeOK
    <3>2. PICK r \in Response(suspended) : ApplyResponse(suspended, r) BY <2>4 DEF Resume
    <3> QED BY <3>1, <3>2, ResponseTracks
  <2>5. CASE \/ \E o, h \in BOOLEAN : SetHooks(o, h)
             \/ \E x \in EmbedderWrites : WriteMemory(x[1], x[2])
             \/ \E x \in EmbedderRegisters : WriteState(x[1], x[2])
             \/ \E x \in SharedBlocks : ShareBlock(x[1], x[2])
    BY <1>1, <2>5 DEF SetHooks, WriteMemory, WriteState, ShareBlock
  <2> QED BY <1>5, <2>1, <2>2, <2>3, <2>4, <2>5 DEF Embedder
<1>6. CASE UNCHANGED vars BY <1>1, <1>6 DEF vars
<1> QED BY <1>2, <1>3, <1>4, <1>5, <1>6 DEF Next

\* With a handler that completes tail calls, the frames are at every moment those
\* of the redirected calls the guest is in, whatever the program, the other
\* answers, suspensions and rejected responses (session.h: redirectedCallReturns_).
THEOREM FramesTrackCalls ==
  ASSUME CompletesTailCalls
  PROVE  Spec => []FramesAreCalls
<1>1. Init => FramesAreCalls BY DEF Init, FramesAreCalls, Tracks
<1>2. SessionInv /\ FramesAreCalls /\ [Next]_vars => FramesAreCalls' BY StepTracks
<1> QED BY <1>1, <1>2, SessionInvariant, PTL DEF Spec

\* The session reports that its function returned, instead of going on in a
\* caller, only for a return that ends none of those calls.
ReturnedEndsNoCall ==
  control = "block" /\ control' = "idle" /\ result'.stop = "Returned" =>
    calls = <<>> \/ calls[Len(calls)] # interp["lr"]

\* With such a handler no return of a redirected call is taken for the end of the
\* function (runLoop, the Return outcome).
THEOREM NoCallCutShort ==
  ASSUME CompletesTailCalls
  PROVE  Spec => [][ReturnedEndsNoCall]_vars
<1>1. ASSUME FramesAreCalls, [Next]_vars PROVE [ReturnedEndsNoCall]_vars
  <2> SUFFICES ASSUME Next, control = "block", control' = "idle", result'.stop = "Returned"
               PROVE  calls = <<>> \/ calls[Len(calls)] # interp["lr"]
    BY <1>1 DEF ReturnedEndsNoCall
  <2>1. CASE Returned
    <3>1. frames # <<>> => frames[Len(frames)].returnPc # interp["lr"] BY <2>1 DEF Returned
    <3> QED BY <1>1, <3>1, TracksPop DEF FramesAreCalls
  <2>2. ASSUME ~Returned PROVE FALSE
    BY <2>2 DEF Next, Session, Handler, Embedder, BudgetSpent, CompileFails, EnterBlock, Interrupt,
       Execute, TakeBranch, TakeCondBranch, TakeIndirectBranch, ReturnFromFrame, StopAtInstruction,
       RaiseBoundary, HandlerFails, HandlerRejected, HandlerAnswers, Run, MayCall, ResumeRefused,
       ResumeRejected, Resume, SetHooks, WriteMemory, WriteState, ShareBlock, EmbedderTurn,
       Continue, Raise, Suspend, Return
  <2> QED BY <2>1, <2>2
<1> QED BY <1>1, FramesTrackCalls, PTL DEF Spec
=============================================================================
