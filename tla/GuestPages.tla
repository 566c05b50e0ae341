----------------------------- MODULE GuestPages -----------------------------
(***************************************************************************)
(* The page table of xdec's GuestAddressSpace (exec/memory.h, memory.cpp)  *)
(* and the operations on it, as functions of one memory value.             *)
(*                                                                         *)
(* Addresses run over 0 .. PageSize * NumPages - 1: the last one stands    *)
(* for the largest uint64_t, so an access can wrap.  A page is named by    *)
(* its index and a byte by its page and offset.  pages_ is a hash map      *)
(* whose nodes the one-entry cache points into, so a page lives in a Node  *)
(* and the cache holds a node: a cache entry that outlives its page is a   *)
(* dangling pointer, and a freed node may be allocated again.              *)
(*                                                                         *)
(* Abstracted: dirtyPages_ is the set of its elements (its one reader,     *)
(* dirtyRanges, sorts it and drops repetitions), the dirty words of a page *)
(* are the set of dirty offsets, and permissions are sets of rights.       *)
(***************************************************************************)
EXTENDS Integers, FiniteSets

CONSTANTS
  PageSize,       \* kPageSize
  NumPages,       \* pages of the address space
  Byte,           \* byte values
  ZeroByte,       \* what a mapped page is filled with
  Node,           \* heap nodes a page can live in
  Null,           \* nullptr, kNoPage
  Seed,           \* pages the provider can supply (PageSeed)
  NoSeed,         \* the provider's nullopt
  ProviderError,  \* the provider's error
  Canonicalizer   \* canonicalizer_

Page == 0 .. (NumPages - 1)
Offset == 0 .. (PageSize - 1)
AddressMax == PageSize * NumPages - 1
Address == 0 .. AddressMax
MemoryPermission == {"Read", "Write", "Execute"}

\* What the environment of the address space provides.
ASSUME GeometryAssumption ==
  /\ PageSize \in Nat \ {0}
  /\ NumPages \in Nat \ {0}
ASSUME ByteAssumption == ZeroByte \in Byte
ASSUME NodeAssumption == Null \notin Node /\ Null \notin Page
ASSUME SeedAssumption ==
  /\ Seed \subseteq [bytes : [Offset -> Byte],
                     permissions : SUBSET MemoryPermission]
  /\ NoSeed \notin Seed /\ ProviderError \notin Seed
ASSUME CanonicalizerAssumption ==
  /\ Canonicalizer \in [Address -> Address]
  /\ \A a \in Address : Canonicalizer[Canonicalizer[a]] = Canonicalizer[a]

-----------------------------------------------------------------------------
(* State of one address space. *)

PageRecord == [bytes : [Offset -> Byte],
               permissions : SUBSET MemoryPermission,
               generation : Nat,
               dirty : SUBSET Offset,
               dirtyListed : BOOLEAN]

\* A default-constructed Page.
BlankPage == [bytes |-> [o \in Offset |-> ZeroByte], permissions |-> {},
              generation |-> 0, dirty |-> {}, dirtyListed |-> FALSE]

EmptyCache == [base |-> Null, page |-> Null]

Memory == [table : [Page -> Node \cup {Null}],   \* pages_
           heap : [Node -> PageRecord],
           cache : [base : Page \cup {Null}, page : Node \cup {Null}],
           dirtyPages : SUBSET Page,
           provider : BOOLEAN,                   \* provider_ is set
           next : Nat \ {0}]                     \* nextGeneration_

InitMemory == [table |-> [r \in Page |-> Null],
               heap |-> [n \in Node |-> BlankPage],
               cache |-> EmptyCache,
               dirtyPages |-> {},
               provider |-> FALSE,
               next |-> 1]

\* pages_.contains(r)
Contains(m, r) == m.table[r] # Null

\* Node r's page is found in: the cached pointer first, then the map.
Lookup(m, r) == IF m.cache.base = r THEN m.cache.page ELSE m.table[r]

PageOf(m, r) == m.heap[Lookup(m, r)]

\* The pages an access of n bytes at a touches, and the bytes of page r in it.
Covers(r, o, a, n) == PageSize * r + o \in a .. (a + n - 1)
Span(a, n) == {r \in Page : \E o \in Offset : Covers(r, o, a, n)}
OffsetsIn(r, a, n) == {o \in Offset : Covers(r, o, a, n)}

Wraps(a, n) == a + n - 1 > AddressMax

-----------------------------------------------------------------------------
(* Primitive updates. *)

\* Looking up the pages of S in order leaves the last one found in the cache.
Remember(m, S) ==
  LET found == {r \in S : Lookup(m, r) # Null}
      latest == {r \in found : \A q \in found : q <= r}
      r == CHOOSE r \in latest : TRUE
  IN  IF latest = {} THEN m
      ELSE [m EXCEPT !.cache = [base |-> r, page |-> Lookup(m, r)]]

\* freshGeneration(), drawn once for each page of S in page order.
FreshGeneration(m, S, r) == m.next + Cardinality({q \in S : q < r})

\* Ways to allocate a node for each page of S.
Allocations(m, S) ==
  {f \in [S -> {n \in Node : \A r \in Page : m.table[r] # n}] :
      \A r, q \in S : r # q => f[r] # f[q]}

\* The node of page r once alloc is in the map.
NodeIn(m, alloc, r) == IF r \in DOMAIN alloc THEN alloc[r] ELSE Lookup(m, r)

\* Stores new[r] into every page r of DOMAIN new, allocating those of alloc,
\* and stamps each with a fresh generation.
Put(m, alloc, new) ==
  LET S == DOMAIN new
      Holds(n, r) == NodeIn(m, alloc, r) = n
  IN  [m EXCEPT
        !.table = [r \in Page |-> IF r \in DOMAIN alloc THEN alloc[r] ELSE m.table[r]],
        !.heap = [n \in Node |->
                    IF \E r \in S : Holds(n, r)
                    THEN LET r == CHOOSE r \in S : Holds(n, r)
                         IN  [new[r] EXCEPT !.generation = FreshGeneration(m, S, r)]
                    ELSE m.heap[n]],
        !.next = m.next + Cardinality(S)]

NoAllocation == [r \in {} |-> Null]

-----------------------------------------------------------------------------
(* residentPage and ensure: every access resolves its pages in ascending   *)
(* order, asks the provider for a missing one and stops at the first page  *)
(* that stays missing or lacks the permission.                             *)

Missing(m, S) == {r \in S : Lookup(m, r) = Null}

\* What the provider answers for the missing pages of S; without a provider
\* the code acts as on nullopt.
Answers(m, S) ==
  [Missing(m, S) -> IF m.provider THEN Seed \cup {NoSeed, ProviderError} ELSE {NoSeed}]

Refused(m, perm, ans, r) ==
  IF Lookup(m, r) # Null THEN ~(perm \subseteq PageOf(m, r).permissions)
  ELSE ans[r] \notin Seed \/ ~(perm \subseteq ans[r].permissions)

Reached(m, S, perm, ans) ==
  {r \in S : \A q \in S : q < r => ~Refused(m, perm, ans, q)}

Supplied(m, S, perm, ans) ==
  {r \in Reached(m, S, perm, ans) : Lookup(m, r) = Null /\ ans[r] \in Seed}

\* A page made from the provider's seed s.
SeedPage(s) == [BlankPage EXCEPT !.bytes = s.bytes, !.permissions = s.permissions]

Materialize(m, S, perm, ans, alloc) ==
  Remember(Put(m, alloc, [r \in DOMAIN alloc |-> SeedPage(ans[r])]),
           Reached(m, S, perm, ans))

\* Every outcome [ok, mem] of ensure on the pages of S.
EnsureOutcomes(m, S, perm) ==
  UNION {{[ok |-> \A r \in S : ~Refused(m, perm, ans, r),
           mem |-> Materialize(m, S, perm, ans, alloc)] :
             alloc \in Allocations(m, Supplied(m, S, perm, ans))} :
           ans \in Answers(m, S)}

Fail(m) == [ok |-> FALSE, mem |-> m]
Done(m) == [ok |-> TRUE, mem |-> m]

Ensure(m, a, n, perm) ==
  IF Wraps(a, n) THEN {Fail(m)} ELSE EnsureOutcomes(m, Span(a, n), perm)

-----------------------------------------------------------------------------
(* The operations of GuestAddressSpace: each is the set of its outcomes.   *)
(* Addresses are raw; an operation canonicalizes first.                    *)

\* A page whose bytes in the access [a, a + n) are replaced by data.
Overwrite(p, r, a, data, n) ==
  [p EXCEPT !.bytes = [o \in Offset |-> IF Covers(r, o, a, n)
                                        THEN data[PageSize * r + o - a] ELSE @[o]]]

\* map, and the initial bytes a Map patch stores after it: data is a function
\* on 0 .. k - 1, with k = 0 for map itself.
Map(m, raw, n, perms, data, k) ==
  LET a == Canonicalizer[raw]
      S == Span(a, n)
      Fresh(r) == Overwrite([BlankPage EXCEPT !.permissions = perms], r, a, data, k)
  IN  IF n = 0 THEN {Done(m)}
      ELSE IF Wraps(a, n) \/ (\E r \in S : Contains(m, r)) THEN {Fail(m)}
      ELSE {Done(Remember(Put(m, alloc, [r \in S |-> Fresh(r)]), Span(a, k))) :
              alloc \in Allocations(m, S)}

SeedBytes(m, raw, n, data, perms) ==
  LET a == Canonicalizer[raw]
      S == Span(a, n)
      Old(r) == IF Contains(m, r) THEN m.heap[m.table[r]] ELSE BlankPage
      New(r) == Overwrite([Old(r) EXCEPT !.permissions = @ \cup perms], r, a, data, n)
      absent == {r \in S : ~Contains(m, r)}
  IN  IF n = 0 THEN {Done(m)}
      ELSE IF Wraps(a, n) THEN {Fail(m)}
      ELSE {Done(Remember(Put(m, alloc, [r \in S |-> New(r)]), S)) :
              alloc \in Allocations(m, absent)}

Protect(m, raw, n, perms) ==
  LET a == Canonicalizer[raw]
      S == Span(a, n)
      Set(m1) == Put(m1, NoAllocation,
                     [r \in S |-> [PageOf(m1, r) EXCEPT !.permissions = perms]])
  IN  {IF e.ok THEN Done(Set(e.mem)) ELSE e : e \in Ensure(m, a, n, {})}

\* Mutant: the pages go and the cache keeps pointing at one of them.
EraseKeepingCache(m, S) ==
  [m EXCEPT !.table = [r \in Page |-> IF r \in S THEN Null ELSE m.table[r]],
            !.heap = [n \in Node |-> IF \E r \in S : m.table[r] = n
                                     THEN BlankPage ELSE m.heap[n]]]

\* pages_.erase of every page of S, after cache_.forget().
Erase(m, S) ==
  [m EXCEPT !.cache = EmptyCache,
            !.table = [r \in Page |-> IF r \in S THEN Null ELSE m.table[r]],
            !.heap = [n \in Node |-> IF \E r \in S : m.table[r] = n
                                     THEN BlankPage ELSE m.heap[n]]]

Unmap(m, raw, n) ==
  LET a == Canonicalizer[raw]
  IN  {IF e.ok /\ n > 0 THEN Done(Erase(e.mem, Span(a, n))) ELSE e :
         e \in Ensure(m, a, n, {})}

ReadBytes(m, raw, n, perm) == Ensure(m, Canonicalizer[raw], n, perm)

\* readResidentBytes: never asks the provider and checks no permission.
ReadResidentBytes(m, raw, n) ==
  LET a == Canonicalizer[raw]
      S == Span(a, n)
      first == {r \in S : \A q \in S : q <= r => Lookup(m, q) # Null}
  IN  IF Wraps(a, n) THEN {Fail(m)}
      ELSE {[ok |-> Missing(m, S) = {}, mem |-> Remember(m, first)]}

\* Mutant: a write replaces the page's dirty bits instead of adding to them.
MarkDirtyReplacing(p, r, a, n) ==
  [p EXCEPT !.dirty = OffsetsIn(r, a, n), !.dirtyListed = TRUE]

\* markDirty of the bytes of page r in the access.
MarkDirty(p, r, a, n) ==
  [p EXCEPT !.dirty = @ \cup OffsetsIn(r, a, n), !.dirtyListed = TRUE]

Store(m, a, n, data) ==
  LET S == Span(a, n)
      New(r) == MarkDirty(Overwrite(PageOf(m, r), r, a, data, n), r, a, n)
      listed == {r \in S : ~PageOf(m, r).dirtyListed}
  IN  Put([m EXCEPT !.dirtyPages = @ \cup listed], NoAllocation, [r \in S |-> New(r)])

\* Mutant: each page is written as soon as it is checked.
WritePageByPage(m, raw, n, data) ==
  LET a == Canonicalizer[raw]
      Writable(m1, r) == Lookup(m1, r) # Null /\ "Write" \in PageOf(m1, r).permissions
      Cut(m1) == {r \in Span(a, n) : Writable(m1, r)}
      New(m1, r) == MarkDirty(Overwrite(PageOf(m1, r), r, a, data, n), r, a, n)
  IN  {[e EXCEPT !.mem = Put(@, NoAllocation, [r \in Cut(@) |-> New(@, r)])] :
         e \in Ensure(m, a, n, {"Write"})}

WriteBytes(m, raw, n, data) ==
  LET a == Canonicalizer[raw]
  IN  {IF e.ok THEN Done(Store(e.mem, a, n, data)) ELSE e :
         e \in Ensure(m, a, n, {"Write"})}

\* refresh: resident pages only; an error of the provider stops the walk,
\* nullopt skips the page.
Refresh(m, raw, n) ==
  LET a == Canonicalizer[raw]
      S == Span(a, n) \ Missing(m, Span(a, n))
      Before(ans) == {r \in S : \A q \in S : q < r => ans[q] # ProviderError}
      Hit(ans) == {r \in Before(ans) : ans[r] \in Seed}
      New(ans, r) == [PageOf(m, r) EXCEPT !.bytes = ans[r].bytes,
                                          !.permissions = ans[r].permissions]
  IN  IF n = 0 \/ ~m.provider THEN {Done(m)}
      ELSE IF Wraps(a, n) THEN {Fail(m)}
      ELSE {[ok |-> \A r \in S : ans[r] # ProviderError,
             mem |-> Remember(Put(m, NoAllocation, [r \in Hit(ans) |-> New(ans, r)]),
                              Before(ans))] :
              ans \in [S -> Seed \cup {NoSeed, ProviderError}]}

\* The bytes dirtyRanges() reports, as pairs of page and offset.
DirtyRanges(m) ==
  {x \in m.dirtyPages \X Offset :
      Lookup(m, x[1]) # Null /\ x[2] \in PageOf(m, x[1]).dirty}

\* clearDirty visits the listed pages in the order they became dirty, so any
\* of them may be the one left in the cache.
ClearDirty(m) ==
  LET listed == {r \in m.dirtyPages : Lookup(m, r) # Null}
      Cleared(n) == \E r \in listed : Lookup(m, r) = n
      m1 == [m EXCEPT !.heap = [n \in Node |->
                        IF Cleared(n) THEN [m.heap[n] EXCEPT !.dirty = {}, !.dirtyListed = FALSE]
                        ELSE m.heap[n]],
                      !.dirtyPages = {}]
  IN  IF listed = {} THEN {Done(m1)} ELSE {Done(Remember(m1, {r})) : r \in listed}

GenerationAt(m, r) == IF Lookup(m, r) = Null THEN 0 ELSE PageOf(m, r).generation

-----------------------------------------------------------------------------
(* What holds of every address space between two operations. *)

\* The page in the map, not through the cache.
Stored(m, r) == m.heap[m.table[r]]

\* The cache names a page of the map and points at its node.
Coherent(m) ==
  m.cache.base # Null =>
    /\ m.cache.page # Null
    /\ m.cache.page = m.table[m.cache.base]

\* No two pages share a node.
Distinct(m) ==
  \A r, q \in Page : r # q /\ Contains(m, r) => m.table[r] # m.table[q]

\* A page with dirty bytes is marked as listed, and a marked page is listed.
Listed(m) ==
  \A r \in Page : Contains(m, r) =>
    /\ Stored(m, r).dirty # {} => Stored(m, r).dirtyListed
    /\ Stored(m, r).dirtyListed => r \in m.dirtyPages

\* Generations in use were drawn.
Drawn(m) ==
  \A r \in Page : Contains(m, r) =>
    Stored(m, r).generation > 0 /\ Stored(m, r).generation < m.next

Sound(m) == m \in Memory /\ Coherent(m) /\ Distinct(m) /\ Listed(m) /\ Drawn(m)
=============================================================================
