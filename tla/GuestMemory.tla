---------------------------- MODULE GuestMemory ----------------------------
(***************************************************************************)
(* xdec's GuestAddressSpace as a state machine: one action per public      *)
(* operation, called in any order by one thread.  A batch of patches       *)
(* (apply) is validated patch by patch and then applied patch by patch; no *)
(* other operation runs in between.                                        *)
(*                                                                         *)
(* block is a page of code an ExecBlock was decoded from (exec_ir.cpp):    *)
(* the generation stamp it keeps and, as a history value, the page's bytes *)
(* and permissions at that time.                                           *)
(***************************************************************************)
EXTENDS GuestPages, Sequences

CONSTANTS
  PermissionChoices,  \* permissions callers ask for
  MaxAccess,          \* longest access
  Accesses,           \* accesses callers make, as <<address, size>>
  Payloads,           \* byte strings callers write or seed
  Patch,              \* patches a handler can answer with
  MaxBatch,           \* longest batch of patches
  MaxGeneration       \* bound on nextGeneration_

VARIABLES
  mem,    \* the address space
  block,  \* the stamp of one decoded code page
  batch,  \* the batch apply is working on
  last    \* the operation that ran last and whether it succeeded

vars == <<mem, block, batch, last>>

PatchKind == {"Write", "Map", "Protect", "Unmap"}

Bytes == UNION {[0 .. (n - 1) -> Byte] : n \in 0 .. MaxAccess}

PatchType == [kind : PatchKind, address : Address, size : 0 .. MaxAccess,
              permissions : SUBSET MemoryPermission,
              bytes : Bytes]

ASSUME BoundAssumption ==
  /\ PermissionChoices \subseteq SUBSET MemoryPermission
  /\ MaxAccess \in Nat /\ MaxBatch \in Nat /\ MaxGeneration \in Nat
ASSUME InputAssumption ==
  /\ Accesses \subseteq Address \X (0 .. MaxAccess)
  /\ Payloads \subseteq Bytes
  /\ Patch \subseteq PatchType

\* Number of bytes a function on 0 .. n - 1 holds.
Size(data) == CHOOSE n \in 0 .. MaxAccess : DOMAIN data = 0 .. (n - 1)

NoBlock == [page |-> Null, generation |-> 0,
            bytes |-> BlankPage.bytes, permissions |-> {}]

\* An overlay gives, for the pages it covers, {} (unmapped) or {permissions}.
Overlay == UNION {[D -> SUBSET SUBSET MemoryPermission] : D \in SUBSET Page}

NoOverlay == [r \in {} |-> {}]

BatchType == [phase : {"idle", "validate", "apply"},
              patches : Seq(Patch),
              index : Nat \ {0},
              overlay : Overlay,
              before : Memory]      \* history: the memory when apply was called

NoBatch == [phase |-> "idle", patches |-> <<>>, index |-> 1,
            overlay |-> NoOverlay, before |-> InitMemory]

Operation == {"none", "setPageProvider", "map", "seed", "seedImage", "protect", "unmap",
              "readBytes", "readResidentBytes", "writeBytes", "refresh", "clearDirty",
              "compileExecBlock", "apply"}

TypeOK ==
  /\ mem \in Memory
  /\ block \in [page : Page \cup {Null}, generation : Nat,
                bytes : [Offset -> Byte], permissions : SUBSET MemoryPermission]
  /\ batch \in BatchType
  /\ last \in [op : Operation, ok : BOOLEAN]

Init ==
  /\ mem = InitMemory
  /\ block = NoBlock
  /\ batch = NoBatch
  /\ last = [op |-> "none", ok |-> TRUE]

-----------------------------------------------------------------------------
(* Operations called from outside a batch. *)

Idle == batch.phase = "idle"

\* The bound on generations: a step that draws one stays below it.
Bounded(m) == m.next > mem.next => m.next <= MaxGeneration

\* The step takes one of the outcomes.
Take(outcomes, op) ==
  /\ Idle
  /\ \E out \in outcomes :
       /\ Bounded(out.mem)
       /\ mem' = out.mem
       /\ last' = [op |-> op, ok |-> out.ok]
  /\ UNCHANGED <<block, batch>>

SetPageProvider(on) ==
  Take({Done([mem EXCEPT !.provider = on])}, "setPageProvider")

DoMap(a, n, perms) == Take(Map(mem, a, n, perms, [i \in {} |-> ZeroByte], 0), "map")
DoSeed(a, data, perms) == Take(SeedBytes(mem, a, Size(data), data, perms), "seed")
DoProtect(a, n, perms) == Take(Protect(mem, a, n, perms), "protect")
DoUnmap(a, n) == Take(Unmap(mem, a, n), "unmap")
DoReadBytes(a, n, right) == Take(ReadBytes(mem, a, n, {right}), "readBytes")
DoReadResidentBytes(a, n) == Take(ReadResidentBytes(mem, a, n), "readResidentBytes")
DoWriteBytes(a, data) == Take(WriteBytes(mem, a, Size(data), data), "writeBytes")
DoRefresh(a, n) == Take(Refresh(mem, a, n), "refresh")
DoClearDirty == Take(ClearDirty(mem), "clearDirty")

\* seedImage of an image of one region: the image's own read may fail, which
\* leaves the dirty bytes in place.
SeedImage(a, data, perms) ==
  Take({Fail(mem)} \cup
         (UNION {IF e.ok THEN ClearDirty(e.mem) ELSE {e} :
                   e \in SeedBytes(mem, a, Size(data), data, perms)}),
       "seedImage")

\* compileExecBlock: reads the page's code with Execute permission and keeps
\* the generation of the page it spans.
CompileBlock(r) ==
  /\ Idle
  /\ \E out \in EnsureOutcomes(mem, {r}, {"Execute"}) :
       /\ Bounded(out.mem)
       /\ mem' = out.mem
       /\ last' = [op |-> "compileExecBlock", ok |-> out.ok]
       /\ block' = IF out.ok
                   THEN [page |-> r, generation |-> GenerationAt(out.mem, r),
                         bytes |-> PageOf(out.mem, r).bytes,
                         permissions |-> PageOf(out.mem, r).permissions]
                   ELSE block
  /\ UNCHANGED batch

-----------------------------------------------------------------------------
(* apply: validate every patch against an overlay of the batch's own       *)
(* effects, then perform them in order.                                    *)

\* permissionAt: what the batch so far makes of page r.
PermissionAt(m, ov, r) ==
  IF r \in DOMAIN ov THEN ov[r]
  ELSE IF Contains(m, r) THEN {m.heap[m.table[r]].permissions} ELSE {}

PatchSize(p) == IF p.kind = "Write" THEN Size(p.bytes) ELSE p.size

\* The write check of page r: a page the batch does not know is asked for.
Unwritable(m, ov, ans, r) ==
  LET known == PermissionAt(m, ov, r)
  IN  IF known # {} THEN \E perms \in known : "Write" \notin perms
      ELSE r \in DOMAIN ov \/ Refused(m, {"Write"}, ans, r)

\* Outcomes of validating a write: pages before the first unwritable one, and
\* that one, may have been materialized.
ValidateWrite(m, ov, S) ==
  LET Visited(ans) == {r \in S : \A q \in S : q < r => ~Unwritable(m, ov, ans, q)}
      Asked(ans) == {r \in Visited(ans) : PermissionAt(m, ov, r) = {}}
      New(ans) == {r \in Asked(ans) : Lookup(m, r) = Null /\ ans[r] \in Seed}
      After(ans, alloc) ==
        Remember(Put(m, alloc, [r \in New(ans) |-> SeedPage(ans[r])]), Asked(ans))
  IN  UNION {{[ok |-> \A r \in S : ~Unwritable(m, ov, ans, r), mem |-> After(ans, alloc),
               overlay |-> ov] :
                 alloc \in Allocations(m, New(ans))} :
               ans \in Answers(m, S)}

\* Mutant: validation forgets what the batch itself unmaps.
ValidateForgettingUnmap(m, ov, p) ==
  LET a == Canonicalizer[p.address]
      n == PatchSize(p)
      S == Span(a, n)
      Cover(v) == [r \in DOMAIN ov \cup S |-> IF r \in S THEN v ELSE ov[r]]
      present == \A r \in S : PermissionAt(m, ov, r) # {}
      absent == \A r \in S : PermissionAt(m, ov, r) = {}
      fits == ~Wraps(a, n) /\ (p.kind = "Map" => Size(p.bytes) <= n /\ absent)
      wanted == fits /\ (p.kind \in {"Protect", "Unmap"} => present)
  IN  IF wanted /\ p.kind = "Write" THEN ValidateWrite(m, ov, S)
      ELSE {[ok |-> wanted, mem |-> m,
             overlay |-> IF p.kind = "Unmap" THEN ov ELSE Cover({p.permissions})]}

\* Outcomes of validating patch p in the overlay ov.
ValidatePatch(m, ov, p) ==
  LET a == Canonicalizer[p.address]
      n == PatchSize(p)
      S == Span(a, n)
      Cover(v) == [r \in DOMAIN ov \cup S |-> IF r \in S THEN v ELSE ov[r]]
      Check(ok, v) == {[ok |-> ok, mem |-> m, overlay |-> IF ok THEN Cover(v) ELSE ov]}
      present == \A r \in S : PermissionAt(m, ov, r) # {}
      absent == \A r \in S : PermissionAt(m, ov, r) = {}
  IN  IF p.kind = "Map" /\ Size(p.bytes) > n THEN {[ok |-> FALSE, mem |-> m, overlay |-> ov]}
      ELSE IF Wraps(a, n) THEN {[ok |-> FALSE, mem |-> m, overlay |-> ov]}
      ELSE CASE p.kind = "Write" -> ValidateWrite(m, ov, S)
             [] p.kind = "Map" -> Check(absent, {p.permissions})
             [] p.kind = "Protect" -> Check(present, {p.permissions})
             [] p.kind = "Unmap" -> Check(present, {})

\* Outcomes of performing patch p.
ApplyPatch(m, p) ==
  CASE p.kind = "Write" -> WriteBytes(m, p.address, Size(p.bytes), p.bytes)
    [] p.kind = "Map" -> Map(m, p.address, p.size, p.permissions, p.bytes, Size(p.bytes))
    [] p.kind = "Protect" -> Protect(m, p.address, p.size, p.permissions)
    [] p.kind = "Unmap" -> Unmap(m, p.address, p.size)

ApplyBegin(patches) ==
  /\ Idle
  /\ mem.next <= MaxGeneration
  /\ batch' = [phase |-> "validate", patches |-> patches, index |-> 1,
               overlay |-> NoOverlay, before |-> mem]
  /\ UNCHANGED <<mem, block, last>>

\* The batch ends with this result.
Finish(ok) ==
  /\ batch' = NoBatch
  /\ last' = [op |-> "apply", ok |-> ok]

ApplyValidate ==
  /\ batch.phase = "validate"
  /\ batch.index <= Len(batch.patches)
  /\ \E out \in ValidatePatch(mem, batch.overlay, batch.patches[batch.index]) :
       /\ mem' = out.mem
       /\ IF out.ok
          THEN /\ batch' = [batch EXCEPT !.index = @ + 1, !.overlay = out.overlay]
               /\ UNCHANGED last
          ELSE Finish(FALSE)
  /\ UNCHANGED block

ApplyValidated ==
  /\ batch.phase = "validate"
  /\ batch.index > Len(batch.patches)
  /\ batch' = [phase |-> "apply", patches |-> batch.patches, index |-> 1,
               overlay |-> NoOverlay, before |-> batch.before]
  /\ UNCHANGED <<mem, block, last>>

ApplyPerform ==
  /\ batch.phase = "apply"
  /\ batch.index <= Len(batch.patches)
  /\ \E out \in ApplyPatch(mem, batch.patches[batch.index]) :
       /\ mem' = out.mem
       /\ IF out.ok
          THEN batch' = [batch EXCEPT !.index = @ + 1] /\ UNCHANGED last
          ELSE Finish(FALSE)
  /\ UNCHANGED block

ApplyEnd ==
  /\ batch.phase = "apply"
  /\ batch.index > Len(batch.patches)
  /\ Finish(TRUE)
  /\ UNCHANGED <<mem, block>>

-----------------------------------------------------------------------------
Batches == UNION {[1 .. k -> Patch] : k \in 1 .. MaxBatch}

Next ==
  \/ \E on \in BOOLEAN : SetPageProvider(on)
  \/ DoClearDirty
  \/ \E x \in Accesses :
       \/ \E perms \in PermissionChoices :
            \/ DoMap(x[1], x[2], perms)
            \/ DoProtect(x[1], x[2], perms)
       \/ DoUnmap(x[1], x[2])
       \/ DoReadResidentBytes(x[1], x[2])
       \/ DoRefresh(x[1], x[2])
       \/ \E right \in MemoryPermission : DoReadBytes(x[1], x[2], right)
  \/ \E x \in Accesses, data \in Payloads :
       /\ x[2] = Size(data)
       /\ \/ DoWriteBytes(x[1], data)
          \/ \E perms \in PermissionChoices :
               \/ DoSeed(x[1], data, perms)
               \/ SeedImage(x[1], data, perms)
  \/ \E r \in Page : CompileBlock(r)
  \/ \E patches \in Batches : ApplyBegin(patches)
  \/ ApplyValidate
  \/ ApplyValidated
  \/ ApplyPerform
  \/ ApplyEnd

Spec == Init /\ [][Next]_vars
-----------------------------------------------------------------------------
(* Properties. *)

\* The one-entry cache never outlives its page: it names a page that pages_
\* holds and points at that page's node (memory.cpp lookup, unmap's
\* cache_.forget()).
CacheCoherent == Coherent(mem)

\* A byte with a dirty bit is always reachable from dirtyPages_, also after its
\* page was unmapped and mapped again or dirtyPages_ was cleared: otherwise
\* dirtyRanges would not report it (memory.cpp markDirty, clearDirty).
DirtyListed == Listed(mem)

\* A decoded block whose stamp still matches was decoded from the bytes the
\* page holds now, under the permissions it has now (exec_ir.cpp validFor):
\* whatever wrote, protected, refreshed, unmapped or remapped the page since.
StampSound ==
  block.page # Null /\ GenerationAt(mem, block.page) = block.generation =>
    /\ PageOf(mem, block.page).bytes = block.bytes
    /\ PageOf(mem, block.page).permissions = block.permissions

\* The stamp of the decoded block was drawn.
StampDrawn ==
  /\ block.generation < mem.next
  /\ block.page # Null => block.generation > 0

\* The inductive invariant behind the state properties.
IndInv == TypeOK /\ Sound(mem) /\ StampDrawn /\ StampSound

\* m1 has m0's pages as they were, and besides them only pages exactly as the
\* provider supplied them.
Preserved(m0, m1) ==
  \A r \in Page :
    /\ Contains(m0, r) => Contains(m1, r) /\ m1.heap[m1.table[r]] = m0.heap[m0.table[r]]
    /\ ~Contains(m0, r) /\ Contains(m1, r) =>
         \E s \in Seed : [m1.heap[m1.table[r]] EXCEPT !.generation = 0] = SeedPage(s)

\* A batch that fails leaves no trace but provider pages: validate accepts
\* only batches whose every patch then succeeds (memory.cpp apply).
BatchAtomic ==
  [][~Idle /\ batch'.phase = "idle" /\ ~last'.ok => Preserved(batch.before, mem')]_vars

\* An operation that fails on its second page has not touched the first
\* (memory.cpp writeBytes, map, protect, unmap).  refresh and seedImage work
\* page by page and promise no such thing.
FailureHarmless ==
  [][Idle /\ Idle' /\ ~last'.ok /\ last'.op \notin {"refresh", "seedImage"}
       => Preserved(mem, mem')]_vars

\* The address space a caller sees: the resident pages without nodes, cache
\* and generations, and the bytes dirtyRanges reports.
Visible == INSTANCE AddressSpace WITH
  pages <- [r \in {q \in Page : Contains(mem, q)} |->
              [bytes |-> mem.heap[mem.table[r]].bytes,
               permissions |-> mem.heap[mem.table[r]].permissions]],
  dirty <- DirtyRanges(mem)

\* The page table with its cache and its dirty list implements that plain
\* address space.
RefinesAddressSpace == Visible!Spec
=============================================================================
