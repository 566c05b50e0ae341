------------------------- MODULE GuestMemoryProofs -------------------------
EXTENDS GuestMemory, TLAPS, FiniteSetTheorems

LEMMA PageFacts ==
  /\ \A r \in Page : r \in Int /\ r # Null
  /\ IsFiniteSet(Page)
  /\ \A S \in SUBSET Page : IsFiniteSet(S) /\ Cardinality(S) \in Nat
<1>1. IsFiniteSet(Page)
  BY GeometryAssumption, FS_Interval DEF Page
<1>2. \A S \in SUBSET Page : IsFiniteSet(S) /\ Cardinality(S) \in Nat
  BY <1>1, FS_Subset, FS_CardinalityType
<1>3. \A r \in Page : r \in Int /\ r # Null
  BY GeometryAssumption, NodeAssumption DEF Page
<1> QED BY <1>1, <1>2, <1>3

LEMMA BlankPageType == BlankPage \in PageRecord
  BY ByteAssumption DEF BlankPage, PageRecord

LEMMA InitMemoryType == InitMemory \in Memory
  BY BlankPageType DEF InitMemory, Memory, EmptyCache

LEMMA PutType ==
  ASSUME NEW m \in Memory, NEW D \in SUBSET Page, NEW alloc \in [D -> Node],
         NEW S \in SUBSET Page, NEW new \in [S -> PageRecord]
  PROVE  Put(m, alloc, new) \in Memory
<1> DEFINE Holds(n, r) == NodeIn(m, alloc, r) = n
           Stamped(r) == [new[r] EXCEPT !.generation = FreshGeneration(m, S, r)]
           h == [n \in Node |-> IF \E r \in S : Holds(n, r)
                                THEN Stamped(CHOOSE r \in S : Holds(n, r)) ELSE m.heap[n]]
           t == [r \in Page |-> IF r \in D THEN alloc[r] ELSE m.table[r]]
<1>1. \A r \in S : Stamped(r) \in PageRecord
  <2> TAKE r \in S
  <2>1. FreshGeneration(m, S, r) \in Nat
    BY PageFacts DEF FreshGeneration, Memory
  <2> QED BY <2>1 DEF PageRecord
<1>2. h \in [Node -> PageRecord]
  BY <1>1 DEF Memory
<1>3. t \in [Page -> Node \cup {Null}]
  BY DEF Memory
<1>4. m.next + Cardinality(S) \in Nat \ {0}
  BY PageFacts DEF Memory
<1>5. Put(m, alloc, new) = [m EXCEPT !.table = t, !.heap = h, !.next = m.next + Cardinality(S)]
  BY DEF Put, NodeIn
<1> QED BY <1>2, <1>3, <1>4, <1>5 DEF Memory

-----------------------------------------------------------------------------
(* The primitive updates. *)

\* Pages of m1 whose generation m had already drawn are m's, unchanged.
Keeps(m, m1) ==
  /\ m.next <= m1.next
  /\ \A r \in Page : Contains(m1, r) /\ Stored(m1, r).generation < m.next =>
       /\ Contains(m, r)
       /\ Stored(m1, r).generation = Stored(m, r).generation
       /\ Stored(m1, r).bytes = Stored(m, r).bytes
       /\ Stored(m1, r).permissions = Stored(m, r).permissions

LEMMA KeepsTransitive ==
  ASSUME NEW m1, NEW m2, NEW m3, Sound(m1), Sound(m2), Sound(m3),
         Keeps(m1, m2), Keeps(m2, m3)
  PROVE  Keeps(m1, m3)
<1> USE DEF Sound
<1>1. m1.next \in Nat /\ m2.next \in Nat /\ m3.next \in Nat
  BY DEF Memory
<1>2. \A r \in Page : Contains(m3, r) => Stored(m3, r).generation \in Nat
  BY DEF Memory, Contains, Stored, PageRecord
<1> QED BY <1>1, <1>2 DEF Keeps

LEMMA KeepsSame == ASSUME NEW m, Sound(m) PROVE Keeps(m, m)
  BY DEF Keeps, Sound, Memory

LEMMA LookupTable ==
  ASSUME NEW m, Sound(m), NEW r \in Page
  PROVE  Lookup(m, r) = m.table[r] /\ PageOf(m, r) = Stored(m, r)
  BY PageFacts DEF Sound, Coherent, Lookup, PageOf, Stored

LEMMA RememberSound ==
  ASSUME NEW m, Sound(m), NEW S \in SUBSET Page
  PROVE  /\ Sound(Remember(m, S))
         /\ Keeps(m, Remember(m, S))
         /\ Remember(m, S).table = m.table
         /\ Remember(m, S).heap = m.heap
         /\ Remember(m, S).next = m.next
         /\ Remember(m, S).provider = m.provider
         /\ Remember(m, S).dirtyPages = m.dirtyPages
<1> DEFINE found == {r \in S : Lookup(m, r) # Null}
           latest == {r \in found : \A q \in found : q <= r}
           r == CHOOSE r \in latest : TRUE
<1>1. CASE latest = {}
  <2>1. Remember(m, S) = m
    BY <1>1 DEF Remember
  <2> QED BY <2>1, KeepsSame
<1>2. CASE latest # {}
  <2> DEFINE c == [base |-> r, page |-> Lookup(m, r)]
  <2>1. Remember(m, S) = [m EXCEPT !.cache = c]
    BY <1>2 DEF Remember
  <2>2. r \in latest
    BY <1>2
  <2>3. r \in Page /\ Lookup(m, r) # Null /\ Lookup(m, r) = m.table[r]
    BY <2>2, LookupTable
  <2> HIDE DEF r
  <2>4. m \in Memory
    BY DEF Sound
  <2>5. m.table \in [Page -> Node \cup {Null}]
    BY <2>4 DEF Memory
  <2>6. c \in [base : Page \cup {Null}, page : Node \cup {Null}]
    BY <2>3, <2>5
  <2> DEFINE m1 == [m EXCEPT !.cache = c]
  <2>7. m1 \in Memory
    BY <2>4, <2>6 DEF Memory
  <2>8. /\ m1.table = m.table /\ m1.heap = m.heap /\ m1.next = m.next
        /\ m1.provider = m.provider /\ m1.dirtyPages = m.dirtyPages
        /\ m1.cache = c
    BY <2>4 DEF Memory
  <2> HIDE DEF m1
  <2>9. Sound(m1)
    BY <2>3, <2>7, <2>8 DEF Sound, Coherent, Distinct, Listed, Drawn, Contains, Stored
  <2>10. Keeps(m, m1)
    BY <2>4, <2>8 DEF Keeps, Memory, Contains, Stored
  <2> QED BY <2>1, <2>8, <2>9, <2>10 DEF m1
<1> QED BY <1>1, <1>2

LEMMA FreshBounds ==
  ASSUME NEW m \in Memory, NEW S \in SUBSET Page, NEW r \in S
  PROVE  /\ FreshGeneration(m, S, r) \in Nat
         /\ FreshGeneration(m, S, r) >= m.next
         /\ FreshGeneration(m, S, r) < m.next + Cardinality(S)
<1> DEFINE T == {q \in S : q < r}
<1>1. T \in SUBSET S /\ T # S /\ T \in SUBSET Page
  BY PageFacts
<1> HIDE DEF T
<1>2. IsFiniteSet(S) /\ Cardinality(S) \in Nat /\ Cardinality(T) \in Nat
  BY <1>1, PageFacts
<1>3. Cardinality(T) <= Cardinality(S) /\ Cardinality(T) # Cardinality(S)
  BY <1>1, <1>2, FS_Subset
<1>4. m.next \in Nat
  BY DEF Memory
<1>5. FreshGeneration(m, S, r) = m.next + Cardinality(T)
  BY DEF FreshGeneration, T
<1> QED BY <1>2, <1>3, <1>4, <1>5

\* The conditions under which an operation may Put.
CanPut(m, alloc, D, new, S) ==
  /\ S \in SUBSET Page /\ D \in SUBSET S
  /\ alloc \in Allocations(m, D)
  /\ \A r \in D : m.table[r] = Null
  /\ \A r \in S \ D : m.table[r] # Null
  /\ new \in [S -> PageRecord]
  /\ \A r \in S : /\ new[r].dirty # {} => new[r].dirtyListed
                  /\ new[r].dirtyListed => r \in m.dirtyPages

LEMMA PutSound ==
  ASSUME NEW m, Sound(m), NEW alloc, NEW D, NEW new, NEW S,
         CanPut(m, alloc, D, new, S)
  PROVE  LET m1 == Put(m, alloc, new)
         IN  /\ Sound(m1) /\ Keeps(m, m1)
             /\ m1.provider = m.provider /\ m1.dirtyPages = m.dirtyPages
             /\ \A r \in Page : m1.table[r] = IF r \in D THEN alloc[r] ELSE m.table[r]
             /\ \A r \in Page : r \notin S /\ Contains(m, r) => Stored(m1, r) = Stored(m, r)
             /\ \A r \in S : /\ Contains(m1, r)
                             /\ Stored(m1, r) =
                                  [new[r] EXCEPT !.generation = FreshGeneration(m, S, r)]
<1> DEFINE m1 == Put(m, alloc, new)
           Free == {n \in Node : \A r \in Page : m.table[r] # n}
<1>0. m \in Memory /\ S \in SUBSET Page /\ D \in SUBSET Page /\ D \subseteq S
  BY DEF Sound, CanPut
<1>1. /\ alloc \in [D -> Node] /\ DOMAIN alloc = D
      /\ \A r \in D : alloc[r] \in Node /\ \A q \in Page : m.table[q] # alloc[r]
      /\ \A r, q \in D : r # q => alloc[r] # alloc[q]
  BY DEF CanPut, Allocations
<1>2. new \in [S -> PageRecord] /\ DOMAIN new = S
  BY DEF CanPut
<1>3. m1 \in Memory
  BY <1>0, <1>1, <1>2, PutType
<1> DEFINE node(r) == IF r \in D THEN alloc[r] ELSE m.table[r]
<1>4. \A r \in Page : NodeIn(m, alloc, r) = node(r)
  BY <1>1, LookupTable DEF NodeIn
<1>5. \A r \in S : node(r) \in Node
  BY <1>0, <1>1 DEF Memory, CanPut
<1>6. \A r \in Page, q \in S : r # q => node(r) # node(q)
  BY <1>0, <1>1, NodeAssumption DEF Sound, Distinct, Contains, CanPut, Memory
<1>7. /\ m1.provider = m.provider /\ m1.dirtyPages = m.dirtyPages
      /\ m1.cache = m.cache /\ m1.next = m.next + Cardinality(S)
      /\ m1.table = [r \in Page |-> node(r)]
  BY <1>0, <1>1, <1>2 DEF Put, Memory
<1>8. m1.heap = [n \in Node |->
                   IF \E r \in S : NodeIn(m, alloc, r) = n
                   THEN LET r == CHOOSE r \in S : NodeIn(m, alloc, r) = n
                        IN  [new[r] EXCEPT !.generation = FreshGeneration(m, S, r)]
                   ELSE m.heap[n]]
  BY <1>0, <1>2 DEF Put, Memory
<1> DEFINE stamped(r) == [new[r] EXCEPT !.generation = FreshGeneration(m, S, r)]
<1>9. ASSUME NEW r \in S PROVE Stored(m1, r) = stamped(r)
  <2>1. m1.table[r] = node(r) /\ node(r) \in Node /\ r \in Page
    BY <1>0, <1>5, <1>7
  <2>2. \A q \in S : NodeIn(m, alloc, q) = node(r) <=> q = r
    BY <1>0, <1>4, <1>6
  <2>3. (CHOOSE q \in S : NodeIn(m, alloc, q) = node(r)) = r
    BY <2>2
  <2>4. m1.heap[node(r)] = stamped(r)
    BY <1>8, <2>1, <2>2, <2>3
  <2> QED BY <2>1, <2>4 DEF Stored
<1>10. ASSUME NEW r \in Page, r \notin S, Contains(m, r) PROVE Stored(m1, r) = Stored(m, r)
  <2>1. m1.table[r] = m.table[r] /\ node(r) = m.table[r] /\ m.table[r] \in Node
    BY <1>0, <1>7, <1>10 DEF Contains, Memory
  <2>2. \A q \in S : NodeIn(m, alloc, q) # m.table[r]
    BY <1>0, <1>4, <1>6, <1>10, <2>1
  <2>3. m1.heap[m.table[r]] = m.heap[m.table[r]]
    BY <1>8, <2>1, <2>2
  <2> QED BY <2>1, <2>3 DEF Stored
<1>11. \A r \in S : /\ stamped(r).generation = FreshGeneration(m, S, r)
                    /\ stamped(r).dirty = new[r].dirty
                    /\ stamped(r).dirtyListed = new[r].dirtyListed
                    /\ stamped(r).generation >= m.next
                    /\ stamped(r).generation < m1.next
                    /\ stamped(r).generation \in Nat
  BY <1>0, <1>2, <1>7, FreshBounds DEF PageRecord
<1>12. \A r \in S : Contains(m1, r)
  BY <1>0, <1>5, <1>7, NodeAssumption DEF Contains
<1>13. \A r \in Page : r \notin S => (Contains(m1, r) <=> Contains(m, r))
  BY <1>0, <1>7 DEF Contains
<1>14. m.next \in Nat /\ m1.next \in Nat /\ m.next > 0 /\ m.next <= m1.next
  BY <1>0, <1>3, <1>7, PageFacts DEF Memory
<1> HIDE DEF m1, stamped
<1>15. Coherent(m1)
  BY <1>0, <1>1, <1>7 DEF Sound, Coherent, CanPut, Memory
<1>16. Distinct(m1)
  BY <1>0, <1>6, <1>7, <1>13 DEF Sound, Distinct, Contains
<1>17. Listed(m1)
  BY <1>0, <1>7, <1>9, <1>10, <1>11, <1>13 DEF Sound, Listed, CanPut
<1>18. Drawn(m1)
  <2> SUFFICES ASSUME NEW r \in Page, Contains(m1, r)
               PROVE  Stored(m1, r).generation > 0 /\ Stored(m1, r).generation < m1.next
    BY DEF Drawn
  <2>1. CASE r \in S
    BY <1>9, <1>11, <1>14, <2>1
  <2>2. CASE r \notin S
    <3>1. Contains(m, r) /\ Stored(m1, r) = Stored(m, r)
      BY <1>10, <1>13, <2>2
    <3>2. Stored(m, r).generation \in Nat
      BY <1>0, <3>1 DEF Contains, Stored, Memory, PageRecord
    <3> QED BY <1>14, <3>1, <3>2 DEF Sound, Drawn
  <2> QED BY <2>1, <2>2
<1>19. Keeps(m, m1)
  <2> SUFFICES ASSUME NEW r \in Page, Contains(m1, r), Stored(m1, r).generation < m.next
               PROVE  Contains(m, r) /\ Stored(m1, r) = Stored(m, r)
    BY <1>14 DEF Keeps
  <2>1. r \notin S
    BY <1>9, <1>11, <1>14
  <2> QED BY <1>10, <1>13, <2>1
<1> QED
  BY <1>3, <1>7, <1>9, <1>10, <1>12, <1>15, <1>16, <1>17, <1>18, <1>19
     DEF Sound, m1, stamped

LEMMA EraseSound ==
  ASSUME NEW m, Sound(m), NEW S \in SUBSET Page
  PROVE  Sound(Erase(m, S)) /\ Keeps(m, Erase(m, S))
<1> DEFINE m1 == Erase(m, S)
           t == [r \in Page |-> IF r \in S THEN Null ELSE m.table[r]]
           h == [n \in Node |-> IF \E r \in S : m.table[r] = n THEN BlankPage ELSE m.heap[n]]
<1>0. m \in Memory
  BY DEF Sound
<1>1. /\ m1.table = t /\ m1.heap = h /\ m1.cache = EmptyCache
      /\ m1.next = m.next /\ m1.dirtyPages = m.dirtyPages
  BY <1>0 DEF Erase, Memory
<1>2. m1 \in Memory
  BY <1>0, BlankPageType DEF Erase, Memory, EmptyCache
<1> HIDE DEF m1
<1>3. ASSUME NEW r \in Page, Contains(m1, r)
      PROVE  r \notin S /\ Contains(m, r) /\ m1.table[r] = m.table[r] /\ Stored(m1, r) = Stored(m, r)
  <2>1. r \notin S /\ Contains(m, r) /\ m1.table[r] = m.table[r] /\ m.table[r] \in Node
    BY <1>0, <1>1, <1>3 DEF Contains, Memory
  <2>2. \A q \in S : m.table[q] # m.table[r]
    BY <2>1 DEF Sound, Distinct
  <2> QED BY <1>1, <2>1, <2>2 DEF Stored
<1>4. Coherent(m1)
  BY <1>1 DEF Coherent, EmptyCache
<1>5. Distinct(m1)
  BY <1>1, <1>3 DEF Distinct, Sound, Contains
<1>6. Listed(m1) /\ Drawn(m1)
  BY <1>1, <1>3 DEF Listed, Drawn, Sound
<1>7. Keeps(m, m1)
  BY <1>0, <1>1, <1>3 DEF Keeps, Memory
<1> QED BY <1>2, <1>4, <1>5, <1>6, <1>7 DEF Sound, m1

-----------------------------------------------------------------------------
(* Every operation keeps an address space sound, whatever its outcome. *)

Fine(m, out) == out.ok \in BOOLEAN /\ Sound(out.mem) /\ Keeps(m, out.mem)

LEMMA FailDoneFine == ASSUME NEW m, Sound(m) PROVE Fine(m, Fail(m)) /\ Fine(m, Done(m))
  BY KeepsSame DEF Fine, Fail, Done

LEMMA SeedPageType ==
  ASSUME NEW s \in Seed
  PROVE  /\ SeedPage(s) \in PageRecord
         /\ SeedPage(s).dirty = {} /\ SeedPage(s).dirtyListed = FALSE
  BY SeedAssumption, BlankPageType DEF SeedPage, PageRecord, BlankPage

LEMMA EnsureFine ==
  ASSUME NEW m, Sound(m), NEW S \in SUBSET Page, NEW perm,
         NEW e \in EnsureOutcomes(m, S, perm)
  PROVE  /\ Fine(m, e)
         /\ e.ok => \A r \in S : Contains(e.mem, r)
<1>1. PICK ans \in Answers(m, S) :
        \E alloc \in Allocations(m, Supplied(m, S, perm, ans)) :
          e = [ok |-> \A r \in S : ~Refused(m, perm, ans, r),
               mem |-> Materialize(m, S, perm, ans, alloc)]
  BY DEF EnsureOutcomes
<1> DEFINE D == Supplied(m, S, perm, ans)
           R == Reached(m, S, perm, ans)
<1>2. PICK alloc \in Allocations(m, D) :
          e = [ok |-> \A r \in S : ~Refused(m, perm, ans, r),
               mem |-> Materialize(m, S, perm, ans, alloc)]
  BY <1>1
<1>3. D \in SUBSET Page /\ R \in SUBSET Page /\ DOMAIN alloc = D
  BY DEF Supplied, Reached, Allocations
<1>4. \A r \in D : m.table[r] = Null /\ ans[r] \in Seed
  BY <1>3, LookupTable DEF Supplied
<1> DEFINE new == [r \in D |-> SeedPage(ans[r])]
           m1 == Put(m, alloc, new)
<1>5. CanPut(m, alloc, D, new, D)
  BY <1>3, <1>4, SeedPageType DEF CanPut
<1> HIDE DEF new, D, R
<1>6. /\ Sound(m1) /\ Keeps(m, m1)
      /\ \A r \in D : Contains(m1, r)
      /\ \A r \in Page \ D : m1.table[r] = m.table[r]
  BY <1>3, <1>5, PutSound
<1> HIDE DEF m1
<1>7. e.mem = Remember(m1, R)
  BY <1>2, <1>3 DEF Materialize, m1, new, R
<1>8. Sound(e.mem) /\ Keeps(m1, e.mem) /\ e.mem.table = m1.table
  BY <1>3, <1>6, <1>7, RememberSound
<1>9. Fine(m, e)
  BY <1>2, <1>6, <1>8, KeepsTransitive DEF Fine
<1>10. ASSUME e.ok, NEW r \in S PROVE Contains(e.mem, r)
  <2>1. \A q \in S : ~Refused(m, perm, ans, q)
    BY <1>2, <1>10
  <2>2. CASE Lookup(m, r) # Null
    <3>1. m.table[r] # Null
      BY <2>2, LookupTable
    <3> QED BY <1>4, <1>6, <1>8, <3>1 DEF Contains
  <2>3. CASE Lookup(m, r) = Null
    <3>1. r \in D
      BY <2>1, <2>3 DEF D, Supplied, Reached, Refused
    <3> QED BY <1>6, <1>8, <3>1 DEF Contains
  <2> QED BY <2>2, <2>3
<1> QED BY <1>9, <1>10

LEMMA SpanPages == \A a, n : Span(a, n) \in SUBSET Page
  BY DEF Span

LEMMA EnsureAccessFine ==
  ASSUME NEW m, Sound(m), NEW a, NEW n, NEW perm, NEW e \in Ensure(m, a, n, perm)
  PROVE  /\ Fine(m, e)
         /\ e.ok => \A r \in Span(a, n) : Contains(e.mem, r)
<1>1. CASE Wraps(a, n)
  BY <1>1, FailDoneFine DEF Ensure, Fail
<1>2. CASE ~Wraps(a, n)
  BY <1>2, SpanPages, EnsureFine DEF Ensure
<1> QED BY <1>1, <1>2

LEMMA OverwriteType ==
  ASSUME NEW p \in PageRecord, NEW r \in Page, NEW a \in Int, NEW n \in Nat,
         NEW data \in [0 .. (n - 1) -> Byte]
  PROVE  /\ Overwrite(p, r, a, data, n) \in PageRecord
         /\ Overwrite(p, r, a, data, n).dirty = p.dirty
         /\ Overwrite(p, r, a, data, n).dirtyListed = p.dirtyListed
<1> DEFINE b == [o \in Offset |-> IF Covers(r, o, a, n)
                                  THEN data[PageSize * r + o - a] ELSE p.bytes[o]]
<1>1. Overwrite(p, r, a, data, n) = [p EXCEPT !.bytes = b]
  BY DEF Overwrite, PageRecord
<1>2. b \in [Offset -> Byte]
  <2> SUFFICES ASSUME NEW o \in Offset, Covers(r, o, a, n)
               PROVE  PageSize * r + o - a \in 0 .. (n - 1)
    BY DEF PageRecord
  <2>1. PageSize * r \in Int /\ o \in Int
    BY GeometryAssumption DEF Page, Offset
  <2> DEFINE x == PageSize * r
  <2>2. x \in Int /\ x + o \in a .. (a + n - 1)
    BY <2>1 DEF Covers
  <2> HIDE DEF x
  <2>3. x + o - a \in 0 .. (n - 1)
    BY <2>1, <2>2
  <2> QED BY <2>3 DEF x
<1> QED BY <1>1, <1>2 DEF PageRecord

LEMMA CanonicalInt == ASSUME NEW raw \in Address PROVE Canonicalizer[raw] \in Int
<1>1. Canonicalizer[raw] \in Address
  BY CanonicalizerAssumption
<1>2. AddressMax \in Int
  BY GeometryAssumption DEF AddressMax
<1> QED BY <1>1, <1>2 DEF Address

\* Rewriting resident pages, with their dirty marks in order.
LEMMA RewriteSound ==
  ASSUME NEW m, Sound(m), NEW S \in SUBSET Page, \A r \in S : Contains(m, r),
         NEW new \in [S -> PageRecord],
         \A r \in S : /\ new[r].dirty # {} => new[r].dirtyListed
                      /\ new[r].dirtyListed => r \in m.dirtyPages
  PROVE  /\ Sound(Put(m, NoAllocation, new)) /\ Keeps(m, Put(m, NoAllocation, new))
         /\ \A r \in Page : Put(m, NoAllocation, new).table[r] = m.table[r]
<1>1. NoAllocation \in Allocations(m, {})
  BY DEF NoAllocation, Allocations
<1>2. CanPut(m, NoAllocation, {}, new, S)
  BY <1>1 DEF CanPut, Contains
<1> QED BY <1>2, PutSound

LEMMA StoredType ==
  ASSUME NEW m, Sound(m), NEW r \in Page, Contains(m, r)
  PROVE  /\ Stored(m, r) \in PageRecord
         /\ Stored(m, r).dirty # {} => Stored(m, r).dirtyListed
         /\ Stored(m, r).dirtyListed => r \in m.dirtyPages
  BY DEF Sound, Listed, Contains, Stored, Memory

LEMMA MapFine ==
  ASSUME NEW m, Sound(m), NEW raw \in Address, NEW n,
         NEW perms \in SUBSET MemoryPermission,
         NEW k \in Nat, NEW data \in [0 .. (k - 1) -> Byte],
         NEW out \in Map(m, raw, n, perms, data, k)
  PROVE  Fine(m, out)
<1> DEFINE a == Canonicalizer[raw]
           S == Span(a, n)
           blank == [BlankPage EXCEPT !.permissions = perms]
           new == [r \in S |-> Overwrite(blank, r, a, data, k)]
           After(alloc) == Put(m, alloc, new)
<1>1. CASE n = 0 \/ Wraps(a, n) \/ (\E r \in S : Contains(m, r))
  <2>1. out \in {Fail(m), Done(m)}
    BY <1>1 DEF Map
  <2> QED BY <2>1, FailDoneFine
<1>2. CASE ~(n = 0 \/ Wraps(a, n) \/ (\E r \in S : Contains(m, r)))
  <2>1. PICK alloc \in Allocations(m, S) :
          out = Done(Remember(After(alloc), Span(a, k)))
    BY <1>2 DEF Map
  <2>2. blank \in PageRecord /\ blank.dirty = {} /\ blank.dirtyListed = FALSE
    BY BlankPageType DEF BlankPage, PageRecord
  <2> HIDE DEF blank
  <2>3. a \in Int
    BY CanonicalInt
  <2> HIDE DEF a
  <2>4. new \in [S -> PageRecord] /\ \A r \in S : new[r].dirty = {} /\ new[r].dirtyListed = FALSE
    BY <2>2, <2>3, OverwriteType, SpanPages
  <2>5. CanPut(m, alloc, S, new, S)
    BY <1>2, <2>4, SpanPages DEF CanPut, Contains
  <2> HIDE DEF new
  <2>6. Sound(After(alloc)) /\ Keeps(m, After(alloc))
    BY <2>5, PutSound
  <2> HIDE DEF After
  <2> DEFINE m2 == Remember(After(alloc), Span(a, k))
  <2>7. Sound(m2) /\ Keeps(After(alloc), m2)
    BY <2>6, SpanPages, RememberSound
  <2>8. Keeps(m, m2)
    BY <2>6, <2>7, KeepsTransitive
  <2> QED BY <2>1, <2>7, <2>8 DEF Fine, Done
<1> QED BY <1>1, <1>2

LEMMA SeedFine ==
  ASSUME NEW m, Sound(m), NEW raw \in Address, NEW n \in Nat,
         NEW data \in [0 .. (n - 1) -> Byte], NEW perms \in SUBSET MemoryPermission,
         NEW out \in SeedBytes(m, raw, n, data, perms)
  PROVE  Fine(m, out)
<1> DEFINE a == Canonicalizer[raw]
           S == Span(a, n)
           Old(r) == IF Contains(m, r) THEN m.heap[m.table[r]] ELSE BlankPage
           Granted(r) == [Old(r) EXCEPT !.permissions = @ \cup perms]
           new == [r \in S |-> Overwrite(Granted(r), r, a, data, n)]
           absent == {r \in S : ~Contains(m, r)}
           After(alloc) == Put(m, alloc, new)
<1>1. CASE n = 0 \/ Wraps(a, n)
  <2>1. out \in {Fail(m), Done(m)}
    BY <1>1 DEF SeedBytes
  <2> QED BY <2>1, FailDoneFine
<1>2. CASE ~(n = 0 \/ Wraps(a, n))
  <2>1. PICK alloc \in Allocations(m, absent) : out = Done(Remember(After(alloc), S))
    BY <1>2 DEF SeedBytes
  <2>2. a \in Int
    BY CanonicalInt
  <2> HIDE DEF a
  <2>3. ASSUME NEW r \in S
        PROVE  /\ Old(r) \in PageRecord
               /\ Old(r).dirty # {} => Old(r).dirtyListed
               /\ Old(r).dirtyListed => r \in m.dirtyPages
    BY StoredType, BlankPageType, SpanPages DEF Stored, BlankPage
  <2>4. ASSUME NEW r \in S
        PROVE  /\ Granted(r) \in PageRecord
               /\ Granted(r).dirty = Old(r).dirty
               /\ Granted(r).dirtyListed = Old(r).dirtyListed
    BY <2>3 DEF PageRecord
  <2> HIDE DEF Old, Granted
  <2>5. /\ new \in [S -> PageRecord]
        /\ \A r \in S : new[r].dirty = Old(r).dirty /\ new[r].dirtyListed = Old(r).dirtyListed
    BY <2>2, <2>4, OverwriteType, SpanPages
  <2>6. CanPut(m, alloc, absent, new, S)
    BY <2>3, <2>5, SpanPages DEF CanPut, Contains
  <2> HIDE DEF new
  <2>7. Sound(After(alloc)) /\ Keeps(m, After(alloc))
    BY <2>6, PutSound
  <2> HIDE DEF After
  <2> DEFINE m2 == Remember(After(alloc), S)
  <2>8. Sound(m2) /\ Keeps(After(alloc), m2)
    BY <2>7, SpanPages, RememberSound
  <2>9. Keeps(m, m2)
    BY <2>7, <2>8, KeepsTransitive
  <2> QED BY <2>1, <2>8, <2>9 DEF Fine, Done
<1> QED BY <1>1, <1>2

LEMMA ProtectFine ==
  ASSUME NEW m, Sound(m), NEW raw \in Address, NEW n,
         NEW perms \in SUBSET MemoryPermission,
         NEW out \in Protect(m, raw, n, perms)
  PROVE  Fine(m, out)
<1> DEFINE a == Canonicalizer[raw]
           S == Span(a, n)
           new(m1) == [r \in S |-> [PageOf(m1, r) EXCEPT !.permissions = perms]]
<1>1. PICK e \in Ensure(m, a, n, {}) :
        out = IF e.ok THEN Done(Put(e.mem, NoAllocation, new(e.mem))) ELSE e
  BY DEF Protect
<1>2. Fine(m, e) /\ (e.ok => \A r \in S : Contains(e.mem, r))
  BY EnsureAccessFine
<1>3. CASE ~e.ok
  BY <1>1, <1>2, <1>3
<1>4. CASE e.ok
  <2> DEFINE m1 == e.mem
  <2>1. Sound(m1) /\ \A r \in S : Contains(m1, r)
    BY <1>2, <1>4 DEF Fine
  <2>2. \A r \in S : PageOf(m1, r) = Stored(m1, r) /\ Stored(m1, r) \in PageRecord
    BY <2>1, SpanPages, LookupTable, StoredType
  <2>3. /\ new(m1) \in [S -> PageRecord]
        /\ \A r \in S : /\ new(m1)[r].dirty = Stored(m1, r).dirty
                        /\ new(m1)[r].dirtyListed = Stored(m1, r).dirtyListed
    BY <2>2 DEF PageRecord
  <2> HIDE DEF new
  <2>4. Sound(Put(m1, NoAllocation, new(m1))) /\ Keeps(m1, Put(m1, NoAllocation, new(m1)))
    BY <2>1, <2>3, SpanPages, StoredType, RewriteSound
  <2>5. Keeps(m, Put(m1, NoAllocation, new(m1)))
    BY <1>2, <2>4, KeepsTransitive DEF Fine
  <2> QED BY <1>1, <1>4, <2>4, <2>5 DEF Fine, Done
<1> QED BY <1>2, <1>3, <1>4 DEF Fine

LEMMA UnmapFine ==
  ASSUME NEW m, Sound(m), NEW raw \in Address, NEW n, NEW out \in Unmap(m, raw, n)
  PROVE  Fine(m, out)
<1> DEFINE a == Canonicalizer[raw]
<1>1. PICK e \in Ensure(m, a, n, {}) :
        out = IF e.ok /\ n > 0 THEN Done(Erase(e.mem, Span(a, n))) ELSE e
  BY DEF Unmap
<1>2. Fine(m, e)
  BY EnsureAccessFine
<1> DEFINE m2 == Erase(e.mem, Span(a, n))
<1>3. Sound(m2) /\ Keeps(e.mem, m2)
  BY <1>2, SpanPages, EraseSound DEF Fine
<1>4. Keeps(m, m2)
  BY <1>2, <1>3, KeepsTransitive DEF Fine
<1> QED BY <1>1, <1>2, <1>3, <1>4 DEF Fine, Done

LEMMA ReadFine ==
  ASSUME NEW m, Sound(m), NEW raw \in Address, NEW n, NEW perm
  PROVE  /\ \A out \in ReadBytes(m, raw, n, perm) : Fine(m, out)
         /\ \A out \in ReadResidentBytes(m, raw, n) : Fine(m, out)
<1> DEFINE a == Canonicalizer[raw]
           S == Span(a, n)
           first == {r \in S : \A q \in S : q <= r => Lookup(m, q) # Null}
<1>1. \A out \in ReadBytes(m, raw, n, perm) : Fine(m, out)
  BY EnsureAccessFine DEF ReadBytes
<1>2. ASSUME NEW out \in ReadResidentBytes(m, raw, n) PROVE Fine(m, out)
  <2>1. CASE Wraps(a, n)
    BY <1>2, <2>1, FailDoneFine DEF ReadResidentBytes
  <2>2. CASE ~Wraps(a, n)
    <3>1. out = [ok |-> Missing(m, S) = {}, mem |-> Remember(m, first)]
      BY <1>2, <2>2 DEF ReadResidentBytes
    <3>2. first \in SUBSET Page
      BY SpanPages
    <3> QED BY <3>1, <3>2, RememberSound DEF Fine
  <2> QED BY <2>1, <2>2
<1> QED BY <1>1, <1>2

LEMMA StoreSound ==
  ASSUME NEW m, Sound(m), NEW a \in Int, NEW n \in Nat,
         NEW data \in [0 .. (n - 1) -> Byte], \A r \in Span(a, n) : Contains(m, r)
  PROVE  Sound(Store(m, a, n, data)) /\ Keeps(m, Store(m, a, n, data))
<1> DEFINE S == Span(a, n)
           listed == {r \in S : ~PageOf(m, r).dirtyListed}
           m1 == [m EXCEPT !.dirtyPages = @ \cup listed]
           New(r) == MarkDirty(Overwrite(PageOf(m, r), r, a, data, n), r, a, n)
           new == [r \in S |-> New(r)]
<1>1. m \in Memory /\ listed \in SUBSET Page
  BY SpanPages DEF Sound
<1>2. /\ m1 \in Memory
      /\ m1.table = m.table /\ m1.heap = m.heap /\ m1.cache = m.cache
      /\ m1.next = m.next /\ m1.dirtyPages = m.dirtyPages \cup listed
  BY <1>1 DEF Memory
<1>3. \A r \in S : /\ PageOf(m, r) = Stored(m, r)
                   /\ Stored(m, r) \in PageRecord
                   /\ Stored(m, r).dirtyListed => r \in m.dirtyPages
  BY SpanPages, LookupTable, StoredType
<1>4. \A r \in S : r \in m1.dirtyPages
  BY <1>2, <1>3
<1>5. ASSUME NEW r \in S
      PROVE  New(r) \in PageRecord /\ New(r).dirtyListed = TRUE
  <2> DEFINE p == Overwrite(PageOf(m, r), r, a, data, n)
  <2>1. p \in PageRecord
    BY <1>3, SpanPages, OverwriteType
  <2>2. OffsetsIn(r, a, n) \in SUBSET Offset
    BY DEF OffsetsIn
  <2> HIDE DEF p
  <2>3. MarkDirty(p, r, a, n) \in PageRecord /\ MarkDirty(p, r, a, n).dirtyListed = TRUE
    BY <2>1, <2>2 DEF MarkDirty, PageRecord
  <2> QED BY <2>3 DEF p
<1>6. new \in [S -> PageRecord] /\ \A r \in S : new[r].dirtyListed = TRUE
  BY <1>5
<1>7. Store(m, a, n, data) = Put(m1, NoAllocation, new)
  BY DEF Store
<1> HIDE DEF m1, new, listed
<1>8. Sound(m1) /\ Keeps(m, m1)
  BY <1>1, <1>2 DEF Sound, Coherent, Distinct, Listed, Drawn, Contains, Stored, Keeps, Memory
<1>9. \A r \in S : Contains(m1, r)
  BY <1>2 DEF Contains
<1>10. Sound(Put(m1, NoAllocation, new)) /\ Keeps(m1, Put(m1, NoAllocation, new))
  BY <1>4, <1>6, <1>8, <1>9, SpanPages, RewriteSound
<1> QED BY <1>7, <1>8, <1>10, KeepsTransitive

LEMMA WriteFine ==
  ASSUME NEW m, Sound(m), NEW raw \in Address, NEW n \in Nat,
         NEW data \in [0 .. (n - 1) -> Byte],
         NEW out \in WriteBytes(m, raw, n, data)
  PROVE  Fine(m, out)
<1> DEFINE a == Canonicalizer[raw]
<1>1. PICK e \in Ensure(m, a, n, {"Write"}) :
        out = IF e.ok THEN Done(Store(e.mem, a, n, data)) ELSE e
  BY DEF WriteBytes
<1>2. Fine(m, e) /\ (e.ok => \A r \in Span(a, n) : Contains(e.mem, r))
  BY EnsureAccessFine
<1>3. CASE ~e.ok
  BY <1>1, <1>2, <1>3
<1>4. CASE e.ok
  <2> DEFINE m2 == Store(e.mem, a, n, data)
  <2>1. Sound(m2) /\ Keeps(e.mem, m2)
    BY <1>2, <1>4, CanonicalInt, StoreSound DEF Fine
  <2>2. Keeps(m, m2)
    BY <1>2, <2>1, KeepsTransitive DEF Fine
  <2> QED BY <1>1, <1>4, <2>1, <2>2 DEF Fine, Done
<1> QED BY <1>2, <1>3, <1>4 DEF Fine

LEMMA RefreshFine ==
  ASSUME NEW m, Sound(m), NEW raw \in Address, NEW n, NEW out \in Refresh(m, raw, n)
  PROVE  Fine(m, out)
<1> DEFINE a == Canonicalizer[raw]
           S == Span(a, n) \ Missing(m, Span(a, n))
           Before(ans) == {r \in S : \A q \in S : q < r => ans[q] # ProviderError}
           Hit(ans) == {r \in Before(ans) : ans[r] \in Seed}
           New(ans, r) == [PageOf(m, r) EXCEPT !.bytes = ans[r].bytes,
                                               !.permissions = ans[r].permissions]
           After(ans) == Put(m, NoAllocation, [r \in Hit(ans) |-> New(ans, r)])
<1>1. CASE n = 0 \/ ~m.provider \/ Wraps(a, n)
  <2>1. out \in {Fail(m), Done(m)}
    BY <1>1 DEF Refresh
  <2> QED BY <2>1, FailDoneFine
<1>2. CASE ~(n = 0 \/ ~m.provider \/ Wraps(a, n))
  <2>1. PICK ans \in [S -> Seed \cup {NoSeed, ProviderError}] :
          out = [ok |-> \A r \in S : ans[r] # ProviderError,
                 mem |-> Remember(After(ans), Before(ans))]
    BY <1>2 DEF Refresh
  <2>2. S \in SUBSET Page /\ \A r \in S : Contains(m, r)
    BY SpanPages, LookupTable DEF Missing, Contains
  <2> DEFINE H == Hit(ans)
             new == [r \in H |-> New(ans, r)]
  <2>3. H \in SUBSET Page /\ Before(ans) \in SUBSET Page /\ \A r \in H : Contains(m, r) /\ ans[r] \in Seed
    BY <2>2
  <2>4. \A r \in H : PageOf(m, r) = Stored(m, r) /\ Stored(m, r) \in PageRecord
    BY <2>3, LookupTable, StoredType
  <2>5. ASSUME NEW r \in H
        PROVE  /\ New(ans, r) \in PageRecord
               /\ New(ans, r).dirty = Stored(m, r).dirty
               /\ New(ans, r).dirtyListed = Stored(m, r).dirtyListed
    BY <2>3, <2>4, SeedAssumption DEF PageRecord
  <2> HIDE DEF H, S
  <2>6. /\ new \in [H -> PageRecord]
        /\ \A r \in H : /\ new[r].dirty = Stored(m, r).dirty
                        /\ new[r].dirtyListed = Stored(m, r).dirtyListed
    BY <2>5
  <2> HIDE DEF new
  <2>7. Sound(Put(m, NoAllocation, new)) /\ Keeps(m, Put(m, NoAllocation, new))
    BY <2>3, <2>6, StoredType, RewriteSound
  <2>8. After(ans) = Put(m, NoAllocation, new)
    BY DEF new, H
  <2> HIDE DEF After, Before
  <2> DEFINE m2 == Remember(After(ans), Before(ans))
  <2>9. Sound(m2) /\ Keeps(After(ans), m2)
    BY <2>3, <2>7, <2>8, RememberSound
  <2>10. Keeps(m, m2)
    BY <2>7, <2>8, <2>9, KeepsTransitive
  <2> QED BY <2>1, <2>9, <2>10 DEF Fine
<1> QED BY <1>1, <1>2

LEMMA ClearFine ==
  ASSUME NEW m, Sound(m), NEW out \in ClearDirty(m)
  PROVE  /\ Fine(m, out)
         /\ \A r \in Page : Contains(out.mem, r) <=> Contains(m, r)
         /\ \A r \in Page : Contains(m, r) =>
              /\ Stored(out.mem, r).bytes = Stored(m, r).bytes
              /\ Stored(out.mem, r).permissions = Stored(m, r).permissions
              /\ Stored(out.mem, r).dirty = {}
<1> DEFINE listed == {r \in m.dirtyPages : Lookup(m, r) # Null}
           Cleared(n) == \E r \in listed : Lookup(m, r) = n
           Wiped(n) == [m.heap[n] EXCEPT !.dirty = {}, !.dirtyListed = FALSE]
           h == [n \in Node |-> IF Cleared(n) THEN Wiped(n) ELSE m.heap[n]]
           m1 == [m EXCEPT !.heap = h, !.dirtyPages = {}]
<1>1. m \in Memory /\ m.dirtyPages \in SUBSET Page /\ listed \in SUBSET Page
  BY DEF Sound, Memory
<1>2. ASSUME NEW n \in Node
      PROVE  /\ Wiped(n) \in PageRecord /\ Wiped(n).dirty = {} /\ Wiped(n).dirtyListed = FALSE
             /\ Wiped(n).generation = m.heap[n].generation
             /\ Wiped(n).bytes = m.heap[n].bytes
             /\ Wiped(n).permissions = m.heap[n].permissions
  BY <1>1 DEF Memory, PageRecord
<1> HIDE DEF Wiped
<1>3. h \in [Node -> PageRecord]
  BY <1>1, <1>2 DEF Memory
<1>4. /\ m1 \in Memory
      /\ m1.table = m.table /\ m1.heap = h /\ m1.cache = m.cache
      /\ m1.next = m.next /\ m1.dirtyPages = {}
  BY <1>1, <1>3 DEF Memory
<1> HIDE DEF m1, listed
<1>5. ASSUME NEW r \in Page, Contains(m, r)
      PROVE  /\ Stored(m1, r).generation = Stored(m, r).generation
             /\ Stored(m1, r).bytes = Stored(m, r).bytes
             /\ Stored(m1, r).permissions = Stored(m, r).permissions
             /\ Stored(m1, r).dirty = {} /\ Stored(m1, r).dirtyListed = FALSE
  <2> DEFINE n == m.table[r]
  <2>1. n \in Node
    BY <1>1, <1>5 DEF Memory, Contains
  <2>1a. Stored(m1, r) = (IF Cleared(n) THEN Wiped(n) ELSE m.heap[n]) /\ Stored(m, r) = m.heap[n]
    BY <1>4, <2>1 DEF Stored
  <2> HIDE DEF n, Cleared
  <2>2. CASE r \in m.dirtyPages
    <3>1. Cleared(n)
      BY <1>5, <2>2, LookupTable DEF Contains, listed, Cleared, n
    <3> QED BY <1>2, <2>1, <2>1a, <3>1
  <2>3. CASE r \notin m.dirtyPages
    <3>1. Stored(m, r) \in PageRecord /\ ~Stored(m, r).dirtyListed /\ Stored(m, r).dirty = {}
      BY <1>5, <2>3, StoredType DEF PageRecord
    <3>2. Stored(m, r).dirtyListed = FALSE
      BY <3>1 DEF PageRecord
    <3> QED BY <1>2, <2>1, <2>1a, <3>1, <3>2
  <2> QED BY <2>2, <2>3
<1>6. out = Done(m1) \/ \E r \in listed : out = Done(Remember(m1, {r}))
  BY DEF ClearDirty, Wiped, m1, listed
<1> HIDE DEF h
<1>7. Sound(m1)
  BY <1>4, <1>5, ZenonT(60) DEF Sound, Coherent, Distinct, Listed, Drawn, Contains
<1>8. Keeps(m, m1)
  <2>1. m.next \in Nat /\ m1.next = m.next
    BY <1>1, <1>4 DEF Memory
  <2>2. \A r \in Page : Contains(m1, r) <=> Contains(m, r)
    BY <1>4 DEF Contains
  <2>3. ASSUME NEW r \in Page, Contains(m1, r)
        PROVE  /\ Contains(m, r)
               /\ Stored(m1, r).generation = Stored(m, r).generation
               /\ Stored(m1, r).bytes = Stored(m, r).bytes
               /\ Stored(m1, r).permissions = Stored(m, r).permissions
    <3>1. Contains(m, r)
      BY <2>2, <2>3
    <3> QED BY <1>5, <3>1
  <2>4. m.next <= m1.next
    BY <2>1
  <2> QED BY <2>3, <2>4 DEF Keeps
<1>8a. /\ \A r \in Page : Contains(m1, r) <=> Contains(m, r)
       /\ \A r \in Page : Contains(m, r) =>
              /\ Stored(m1, r).bytes = Stored(m, r).bytes
              /\ Stored(m1, r).permissions = Stored(m, r).permissions
              /\ Stored(m1, r).dirty = {}
  BY <1>4, <1>5 DEF Contains
<1>9. Fine(m, out) /\ out.mem.table = m1.table /\ out.mem.heap = m1.heap
  <2>1. CASE out = Done(m1)
    BY <1>7, <1>8, <2>1 DEF Fine, Done
  <2>2. ASSUME NEW r \in listed, out = Done(Remember(m1, {r}))
        PROVE  Fine(m, out) /\ out.mem.table = m1.table /\ out.mem.heap = m1.heap
    <3>1. {r} \in SUBSET Page
      BY <1>1
    <3>2. /\ Sound(Remember(m1, {r})) /\ Keeps(m1, Remember(m1, {r}))
          /\ Remember(m1, {r}).table = m1.table /\ Remember(m1, {r}).heap = m1.heap
      BY <1>7, <3>1, RememberSound
    <3> QED BY <1>7, <1>8, <2>2, <3>2, KeepsTransitive DEF Fine, Done
  <2> QED BY <1>6, <2>1, <2>2
<1> QED BY <1>8a, <1>9 DEF Contains, Stored

-----------------------------------------------------------------------------
(* Batches of patches. *)

LEMMA SizeType ==
  ASSUME NEW data \in Bytes
  PROVE  /\ Size(data) \in Nat /\ Size(data) \in 0 .. MaxAccess
         /\ data \in [0 .. (Size(data) - 1) -> Byte]
<1>1. PICK n \in 0 .. MaxAccess : data \in [0 .. (n - 1) -> Byte]
  BY DEF Bytes
<1>2. Size(data) \in 0 .. MaxAccess /\ DOMAIN data = 0 .. (Size(data) - 1)
  BY <1>1 DEF Size
<1> QED BY <1>1, <1>2, BoundAssumption

LEMMA PatchFields ==
  ASSUME NEW p \in Patch
  PROVE  /\ p.kind \in PatchKind /\ p.address \in Address
         /\ p.permissions \in SUBSET MemoryPermission
         /\ p.bytes \in Bytes
  BY InputAssumption DEF PatchType

LEMMA ValidateWriteFine ==
  ASSUME NEW m, Sound(m), NEW ov \in Overlay, NEW S \in SUBSET Page,
         NEW out \in ValidateWrite(m, ov, S)
  PROVE  Fine(m, out) /\ out.overlay \in Overlay
<1> DEFINE Visited(ans) == {r \in S : \A q \in S : q < r => ~Unwritable(m, ov, ans, q)}
           Asked(ans) == {r \in Visited(ans) : PermissionAt(m, ov, r) = {}}
           New(ans) == {r \in Asked(ans) : Lookup(m, r) = Null /\ ans[r] \in Seed}
           Putted(ans, alloc) == Put(m, alloc, [r \in New(ans) |-> SeedPage(ans[r])])
<1>1. PICK ans \in Answers(m, S) : \E alloc \in Allocations(m, New(ans)) :
        out = [ok |-> \A r \in S : ~Unwritable(m, ov, ans, r),
               mem |-> Remember(Putted(ans, alloc), Asked(ans)), overlay |-> ov]
  BY DEF ValidateWrite
<1>2. PICK alloc \in Allocations(m, New(ans)) :
        out = [ok |-> \A r \in S : ~Unwritable(m, ov, ans, r),
               mem |-> Remember(Putted(ans, alloc), Asked(ans)), overlay |-> ov]
  BY <1>1
<1> DEFINE N == New(ans)
           new == [r \in N |-> SeedPage(ans[r])]
           m1 == Put(m, alloc, new)
<1>3. /\ N \in SUBSET Page /\ Asked(ans) \in SUBSET Page
      /\ \A r \in N : m.table[r] = Null /\ ans[r] \in Seed
  BY LookupTable
<1>4. alloc \in Allocations(m, N)
  OBVIOUS
<1>5. out.mem = Remember(m1, Asked(ans)) /\ out.ok \in BOOLEAN /\ out.overlay = ov
  BY <1>2
<1> HIDE DEF N, Asked
<1>6. CanPut(m, alloc, N, new, N)
  BY <1>3, <1>4, SeedPageType DEF CanPut
<1> HIDE DEF new
<1>7. Sound(m1) /\ Keeps(m, m1)
  BY <1>6, PutSound
<1> HIDE DEF m1
<1>8. Sound(out.mem) /\ Keeps(m1, out.mem)
  BY <1>3, <1>5, <1>7, RememberSound
<1> QED BY <1>5, <1>7, <1>8, KeepsTransitive DEF Fine

LEMMA ValidatePatchFine ==
  ASSUME NEW m, Sound(m), NEW ov \in Overlay, NEW p \in Patch,
         NEW out \in ValidatePatch(m, ov, p)
  PROVE  Fine(m, out) /\ out.overlay \in Overlay
<1> DEFINE a == Canonicalizer[p.address]
           n == PatchSize(p)
           S == Span(a, n)
           Cover(v) == [r \in DOMAIN ov \cup S |-> IF r \in S THEN v ELSE ov[r]]
           present == \A r \in S : PermissionAt(m, ov, r) # {}
           absent == \A r \in S : PermissionAt(m, ov, r) = {}
           Result(ok, v) == [ok |-> ok, mem |-> m, overlay |-> IF ok THEN Cover(v) ELSE ov]
<1>1. S \in SUBSET Page /\ p.kind \in PatchKind /\ p.permissions \in SUBSET MemoryPermission
  BY SpanPages, PatchFields
<1>2. ASSUME NEW v \in SUBSET SUBSET MemoryPermission PROVE Cover(v) \in Overlay
  <2>1. PICK D \in SUBSET Page : ov \in [D -> SUBSET SUBSET MemoryPermission]
    BY DEF Overlay
  <2>2. D \cup S \in SUBSET Page /\ DOMAIN ov = D
    BY <1>1, <2>1
  <2> HIDE DEF S
  <2>3. Cover(v) \in [D \cup S -> SUBSET SUBSET MemoryPermission]
    BY <1>2, <2>1, <2>2
  <2> HIDE DEF Cover
  <2> QED BY <2>2, <2>3 DEF Overlay
<1>3. ASSUME NEW ok \in BOOLEAN, NEW v \in SUBSET SUBSET MemoryPermission, out = Result(ok, v)
      PROVE  Fine(m, out) /\ out.overlay \in Overlay
  <2>1. Cover(v) \in Overlay
    BY <1>2, <1>3
  <2> HIDE DEF Cover
  <2>2. out.ok = ok /\ out.mem = m /\ out.overlay = IF ok THEN Cover(v) ELSE ov
    BY <1>3
  <2>3. Keeps(m, m)
    BY KeepsSame
  <2>4. out.overlay \in Overlay
    BY <2>1, <2>2
  <2> QED BY <2>2, <2>3, <2>4 DEF Fine
<1>4. CASE out = [ok |-> FALSE, mem |-> m, overlay |-> ov]
  BY <1>4, KeepsSame DEF Fine
<1>5. CASE p.kind = "Write" /\ out # [ok |-> FALSE, mem |-> m, overlay |-> ov]
  <2>1. out \in ValidateWrite(m, ov, S)
    BY <1>5 DEF ValidatePatch
  <2> QED BY <1>1, <2>1, ValidateWriteFine
<1>6. CASE p.kind = "Map" /\ out # [ok |-> FALSE, mem |-> m, overlay |-> ov]
  <2>1. out = Result(absent, {p.permissions})
    BY <1>6 DEF ValidatePatch
  <2>2. absent \in BOOLEAN /\ {p.permissions} \in SUBSET SUBSET MemoryPermission
    BY <1>1
  <2> HIDE DEF absent, Result
  <2> QED BY <1>3, <2>1, <2>2
<1>7. CASE p.kind = "Protect" /\ out # [ok |-> FALSE, mem |-> m, overlay |-> ov]
  <2>1. out = Result(present, {p.permissions})
    BY <1>7 DEF ValidatePatch
  <2>2. present \in BOOLEAN /\ {p.permissions} \in SUBSET SUBSET MemoryPermission
    BY <1>1
  <2> HIDE DEF present, Result
  <2> QED BY <1>3, <2>1, <2>2
<1>8. CASE p.kind = "Unmap" /\ out # [ok |-> FALSE, mem |-> m, overlay |-> ov]
  <2>1. out = Result(present, {})
    BY <1>8 DEF ValidatePatch
  <2>2. present \in BOOLEAN /\ {} \in SUBSET SUBSET MemoryPermission
    BY <1>1
  <2> HIDE DEF present, Result
  <2> QED BY <1>3, <2>1, <2>2
<1> QED BY <1>1, <1>4, <1>5, <1>6, <1>7, <1>8 DEF PatchKind

LEMMA ApplyPatchFine ==
  ASSUME NEW m, Sound(m), NEW p \in Patch, NEW out \in ApplyPatch(m, p)
  PROVE  Fine(m, out)
<1>1. /\ p.kind \in PatchKind /\ p.address \in Address
      /\ p.permissions \in SUBSET MemoryPermission
      /\ Size(p.bytes) \in Nat /\ p.bytes \in [0 .. (Size(p.bytes) - 1) -> Byte]
  BY PatchFields, SizeType
<1>2. CASE p.kind = "Write"
  <2>1. out \in WriteBytes(m, p.address, Size(p.bytes), p.bytes)
    BY <1>2 DEF ApplyPatch
  <2> QED BY <1>1, <2>1, WriteFine
<1>3. CASE p.kind = "Map"
  <2>1. out \in Map(m, p.address, p.size, p.permissions, p.bytes, Size(p.bytes))
    BY <1>3 DEF ApplyPatch
  <2> QED BY <1>1, <2>1, MapFine
<1>4. CASE p.kind = "Protect"
  <2>1. out \in Protect(m, p.address, p.size, p.permissions)
    BY <1>4 DEF ApplyPatch
  <2> QED BY <1>1, <2>1, ProtectFine
<1>5. CASE p.kind = "Unmap"
  <2>1. out \in Unmap(m, p.address, p.size)
    BY <1>5 DEF ApplyPatch
  <2> QED BY <1>1, <2>1, UnmapFine
<1> QED BY <1>1, <1>2, <1>3, <1>4, <1>5 DEF PatchKind

-----------------------------------------------------------------------------
(* The specification. *)

LEMMA InitMemorySound == Sound(InitMemory)
  BY InitMemoryType DEF Sound, Coherent, Distinct, Listed, Drawn, Contains, InitMemory, EmptyCache

LEMMA NoOverlayType == NoOverlay \in Overlay
  BY DEF NoOverlay, Overlay

LEMMA NoBatchType == NoBatch \in BatchType
<1>1. <<>> \in Seq(Patch)
  OBVIOUS
<1> QED BY <1>1, NoOverlayType, InitMemoryType DEF NoBatch, BatchType

LEMMA BatchUpdateType ==
  ASSUME NEW b \in BatchType, NEW ov \in Overlay
  PROVE  /\ [b EXCEPT !.index = @ + 1] \in BatchType
         /\ [b EXCEPT !.index = @ + 1, !.overlay = ov] \in BatchType
<1>1. b.index + 1 \in Nat \ {0}
  BY DEF BatchType
<1>2. [b EXCEPT !.index = b.index + 1] \in BatchType
  BY <1>1 DEF BatchType
<1>3. [b EXCEPT !.index = b.index + 1, !.overlay = ov] \in BatchType
  BY <1>1 DEF BatchType
<1> QED BY <1>2, <1>3

\* A step to a sound address space that keeps the drawn generations leaves
\* the stamp of the decoded block sound.
LEMMA StampStep ==
  ASSUME TypeOK, Sound(mem), StampDrawn, StampSound,
         mem' \in Memory, Sound(mem'), Keeps(mem, mem'), UNCHANGED block
  PROVE  StampDrawn' /\ StampSound'
<1>1. /\ mem.next \in Nat /\ mem'.next \in Nat /\ mem.next <= mem'.next
      /\ block.generation \in Nat
  BY DEF TypeOK, Memory, Keeps
<1>2. StampDrawn'
  BY <1>1 DEF StampDrawn
<1>3. ASSUME block.page # Null, GenerationAt(mem', block.page) = block.generation
      PROVE  /\ PageOf(mem', block.page).bytes = block.bytes
             /\ PageOf(mem', block.page).permissions = block.permissions
  <2> DEFINE r == block.page
  <2>1. r \in Page /\ block.generation > 0
    BY <1>3 DEF TypeOK, StampDrawn
  <2>2. Contains(mem', r) /\ Stored(mem', r).generation = block.generation
    BY <1>1, <1>3, <2>1, LookupTable DEF GenerationAt, Contains
  <2>3. /\ Contains(mem, r)
        /\ Stored(mem, r).generation = block.generation
        /\ Stored(mem', r).bytes = Stored(mem, r).bytes
        /\ Stored(mem', r).permissions = Stored(mem, r).permissions
    BY <2>1, <2>2 DEF Keeps, StampDrawn
  <2>4. GenerationAt(mem, r) = block.generation
    BY <2>1, <2>3, LookupTable DEF GenerationAt, Contains
  <2> QED BY <1>3, <2>1, <2>3, <2>4, LookupTable DEF StampSound
<1> QED BY <1>2, <1>3 DEF StampSound

LEMMA TakeStep ==
  ASSUME IndInv, NEW outcomes, NEW op \in Operation, Take(outcomes, op),
         \A out \in outcomes : Fine(mem, out)
  PROVE  IndInv'
<1>1. PICK out \in outcomes : mem' = out.mem /\ last' = [op |-> op, ok |-> out.ok]
  BY DEF Take
<1>2. UNCHANGED <<block, batch>>
  BY DEF Take
<1>3. Sound(mem') /\ Keeps(mem, mem') /\ out.ok \in BOOLEAN /\ mem' \in Memory
  BY <1>1 DEF Fine, Sound
<1>4. TypeOK'
  BY <1>1, <1>2, <1>3 DEF IndInv, TypeOK
<1>5. StampDrawn' /\ StampSound'
  BY <1>2, <1>3, StampStep DEF IndInv
<1> QED BY <1>3, <1>4, <1>5 DEF IndInv

LEMMA NextStep ==
  ASSUME IndInv, [Next]_vars
  PROVE  IndInv'
<1>0. TypeOK /\ Sound(mem) /\ StampDrawn /\ StampSound
  BY DEF IndInv
<1>1. ASSUME NEW on \in BOOLEAN, SetPageProvider(on) PROVE IndInv'
  <2> DEFINE m1 == [mem EXCEPT !.provider = on]
  <2>1. mem \in Memory
    BY <1>0 DEF Sound
  <2>2. /\ m1 \in Memory /\ m1.table = mem.table /\ m1.heap = mem.heap
        /\ m1.cache = mem.cache /\ m1.next = mem.next /\ m1.dirtyPages = mem.dirtyPages
    BY <2>1 DEF Memory
  <2> HIDE DEF m1
  <2>3. Sound(m1) /\ Keeps(mem, m1)
    BY <1>0, <2>1, <2>2
       DEF Sound, Coherent, Distinct, Listed, Drawn, Contains, Stored, Keeps, Memory
  <2>4. Fine(mem, Done(m1))
    BY <2>3 DEF Fine, Done
  <2> QED BY <1>1, <2>4, TakeStep DEF Operation, SetPageProvider, m1
<1>2. CASE DoClearDirty
  BY <1>0, <1>2, ClearFine, TakeStep DEF Operation, DoClearDirty
<1>3. ASSUME NEW x \in Accesses, NEW perms \in PermissionChoices,
             DoMap(x[1], x[2], perms) \/ DoProtect(x[1], x[2], perms)
      PROVE  IndInv'
  <2>1. x[1] \in Address /\ perms \in SUBSET MemoryPermission
    BY InputAssumption, BoundAssumption
  <2> DEFINE none == [i \in {} |-> ZeroByte]
  <2>2. none \in [0 .. (0 - 1) -> Byte]
    OBVIOUS
  <2> HIDE DEF none
  <2>3. \A out \in Map(mem, x[1], x[2], perms, none, 0) : Fine(mem, out)
    BY <1>0, <2>1, <2>2, MapFine
  <2>4. \A out \in Protect(mem, x[1], x[2], perms) : Fine(mem, out)
    BY <1>0, <2>1, ProtectFine
  <2> QED BY <1>3, <2>3, <2>4, TakeStep DEF Operation, DoMap, DoProtect, none
<1>4. ASSUME NEW x \in Accesses,
             DoUnmap(x[1], x[2]) \/ DoReadResidentBytes(x[1], x[2]) \/ DoRefresh(x[1], x[2])
      PROVE  IndInv'
  <2>1. x[1] \in Address
    BY InputAssumption
  <2>2. /\ \A out \in Unmap(mem, x[1], x[2]) : Fine(mem, out)
        /\ \A out \in ReadResidentBytes(mem, x[1], x[2]) : Fine(mem, out)
        /\ \A out \in Refresh(mem, x[1], x[2]) : Fine(mem, out)
    BY <1>0, <2>1, UnmapFine, ReadFine, RefreshFine
  <2> QED BY <1>4, <2>2, TakeStep DEF Operation, DoUnmap, DoReadResidentBytes, DoRefresh
<1>5. ASSUME NEW x \in Accesses, NEW right \in MemoryPermission,
             DoReadBytes(x[1], x[2], right)
      PROVE  IndInv'
  <2>1. x[1] \in Address
    BY InputAssumption
  <2>2. \A out \in ReadBytes(mem, x[1], x[2], {right}) : Fine(mem, out)
    BY <1>0, <2>1, ReadFine
  <2> QED BY <1>5, <2>2, TakeStep DEF Operation, DoReadBytes
<1>6. ASSUME NEW x \in Accesses, NEW data \in Payloads, DoWriteBytes(x[1], data)
      PROVE  IndInv'
  <2>1. /\ x[1] \in Address /\ Size(data) \in Nat
        /\ data \in [0 .. (Size(data) - 1) -> Byte]
    BY InputAssumption, SizeType
  <2>2. \A out \in WriteBytes(mem, x[1], Size(data), data) : Fine(mem, out)
    BY <1>0, <2>1, WriteFine
  <2> QED BY <1>6, <2>2, TakeStep DEF Operation, DoWriteBytes
<1>7. ASSUME NEW x \in Accesses, NEW data \in Payloads, NEW perms \in PermissionChoices,
             DoSeed(x[1], data, perms) \/ SeedImage(x[1], data, perms)
      PROVE  IndInv'
  <2>1. /\ x[1] \in Address /\ Size(data) \in Nat
        /\ data \in [0 .. (Size(data) - 1) -> Byte]
        /\ perms \in SUBSET MemoryPermission
    BY InputAssumption, BoundAssumption, SizeType
  <2> DEFINE seeded == SeedBytes(mem, x[1], Size(data), data, perms)
  <2>2. \A e \in seeded : Fine(mem, e)
    BY <1>0, <2>1, SeedFine
  <2> HIDE DEF seeded
  <2>3. ASSUME NEW e \in seeded, NEW out \in ClearDirty(e.mem) PROVE Fine(mem, out)
    <3>1. Sound(e.mem) /\ Keeps(mem, e.mem)
      BY <2>2 DEF Fine
    <3>2. Fine(e.mem, out)
      BY <3>1, ClearFine
    <3> QED BY <1>0, <3>1, <3>2, KeepsTransitive DEF Fine
  <2> DEFINE Result(e) == IF e.ok THEN ClearDirty(e.mem) ELSE {e}
             all == {Fail(mem)} \cup (UNION {Result(e) : e \in seeded})
  <2>4. ASSUME NEW out \in all PROVE Fine(mem, out)
    <3>1. CASE out = Fail(mem)
      BY <1>0, <3>1, FailDoneFine
    <3>2. ASSUME NEW e \in seeded, out \in Result(e) PROVE Fine(mem, out)
      <4>1. CASE e.ok
        BY <2>3, <3>2, <4>1
      <4>2. CASE ~e.ok
        BY <2>2, <3>2, <4>2
      <4> QED BY <4>1, <4>2
    <3> HIDE DEF Result
    <3>3. CASE out # Fail(mem)
      <4>1. out \in UNION {Result(e) : e \in seeded}
        BY <2>4, <3>3
      <4>2. PICK R \in {Result(e) : e \in seeded} : out \in R
        BY <4>1
      <4>3. PICK e \in seeded : R = Result(e)
        BY <4>2
      <4> QED BY <3>2, <4>2, <4>3
    <3> QED BY <3>1, <3>3
  <2>5. Take(seeded, "seed") \/ Take(all, "seedImage")
    BY <1>7 DEF DoSeed, SeedImage, seeded
  <2> HIDE DEF all
  <2> QED BY <2>2, <2>4, <2>5, TakeStep DEF Operation
<1>8. ASSUME NEW r \in Page, CompileBlock(r) PROVE IndInv'
  <2>1. PICK out \in EnsureOutcomes(mem, {r}, {"Execute"}) :
          /\ mem' = out.mem
          /\ last' = [op |-> "compileExecBlock", ok |-> out.ok]
          /\ block' = IF out.ok
                      THEN [page |-> r, generation |-> GenerationAt(out.mem, r),
                            bytes |-> PageOf(out.mem, r).bytes,
                            permissions |-> PageOf(out.mem, r).permissions]
                      ELSE block
    BY <1>8 DEF CompileBlock
  <2>2. UNCHANGED batch
    BY <1>8 DEF CompileBlock
  <2>3. {r} \in SUBSET Page
    OBVIOUS
  <2>4. /\ Fine(mem, out) /\ mem' \in Memory
        /\ out.ok => Contains(out.mem, r)
    BY <1>0, <2>1, <2>3, EnsureFine DEF Fine, Sound
  <2>5. CASE ~out.ok
    <3>1. UNCHANGED block
      BY <2>1, <2>5
    <3>2. Sound(mem') /\ Keeps(mem, mem')
      BY <2>1, <2>4 DEF Fine
    <3>3. TypeOK'
      BY <1>0, <2>1, <2>2, <2>4, <3>1 DEF TypeOK, Operation, Fine
    <3> QED BY <1>0, <2>4, <3>1, <3>2, <3>3, StampStep DEF IndInv
  <2>6. CASE out.ok
    <3>1. Sound(mem') /\ Contains(mem', r)
      BY <2>1, <2>4, <2>6 DEF Fine
    <3>2. /\ Lookup(mem', r) # Null /\ PageOf(mem', r) = Stored(mem', r)
          /\ Stored(mem', r) \in PageRecord
          /\ Stored(mem', r).generation > 0
          /\ Stored(mem', r).generation < mem'.next
      BY <3>1, LookupTable, StoredType DEF Contains, Sound, Drawn
    <3>3. block' = [page |-> r, generation |-> GenerationAt(mem', r),
                    bytes |-> PageOf(mem', r).bytes,
                    permissions |-> PageOf(mem', r).permissions]
      BY <2>1, <2>6
    <3>4. GenerationAt(mem', r) = Stored(mem', r).generation
      BY <3>2 DEF GenerationAt
    <3>5. TypeOK'
      BY <1>0, <2>1, <2>2, <2>4, <3>2, <3>3, <3>4 DEF TypeOK, Operation, Fine, PageRecord
    <3>6. StampDrawn' /\ StampSound'
      BY <3>2, <3>3, <3>4 DEF StampDrawn, StampSound
    <3> QED BY <3>1, <3>5, <3>6 DEF IndInv
  <2> QED BY <2>4, <2>5, <2>6 DEF Fine
<1>9. ASSUME NEW patches \in Batches, ApplyBegin(patches) PROVE IndInv'
  <2>1. patches \in Seq(Patch)
    BY BoundAssumption DEF Batches
  <2>3. TypeOK'
    BY <1>0, <1>9, <2>1, NoOverlayType DEF ApplyBegin, BatchType, TypeOK, Operation
  <2>4. UNCHANGED <<mem, block>>
    BY <1>9 DEF ApplyBegin
  <2> QED BY <1>0, <2>3, <2>4 DEF IndInv, StampDrawn, StampSound
<1>10. CASE ApplyValidate
  <2> DEFINE p == batch.patches[batch.index]
  <2>1. p \in Patch /\ batch.overlay \in Overlay
    BY <1>0, <1>10 DEF ApplyValidate, BatchType, TypeOK
  <2>2. PICK out \in ValidatePatch(mem, batch.overlay, p) :
          /\ mem' = out.mem
          /\ IF out.ok
             THEN /\ batch' = [batch EXCEPT !.index = @ + 1, !.overlay = out.overlay]
                  /\ UNCHANGED last
             ELSE Finish(FALSE)
    BY <1>10 DEF ApplyValidate
  <2>3. UNCHANGED block
    BY <1>10 DEF ApplyValidate
  <2>4. Fine(mem, out) /\ out.overlay \in Overlay
    BY <1>0, <2>1, ValidatePatchFine
  <2>5. Sound(mem') /\ Keeps(mem, mem') /\ mem' \in Memory
    BY <2>2, <2>4 DEF Fine, Sound
  <2>6. batch' \in BatchType /\ last' \in [op : Operation, ok : BOOLEAN]
    <3>0. batch \in BatchType /\ last \in [op : Operation, ok : BOOLEAN]
      BY <1>0 DEF TypeOK
    <3>1. CASE out.ok
      BY <2>2, <2>4, <3>0, <3>1, NoOverlayType, BatchUpdateType
    <3>2. CASE ~out.ok
      <4>1. Finish(FALSE)
        BY <2>2, <3>2
      <4>2. batch' = NoBatch /\ last' = [op |-> "apply", ok |-> FALSE]
        BY <4>1 DEF Finish
      <4> QED BY <4>2, NoBatchType DEF Operation
    <3> QED BY <3>1, <3>2
  <2>7. TypeOK'
    BY <1>0, <2>3, <2>5, <2>6 DEF TypeOK
  <2> QED BY <1>0, <2>3, <2>5, <2>7, StampStep DEF IndInv
<1>11. CASE ApplyValidated
  <2>2. TypeOK'
    BY <1>0, <1>11, NoOverlayType DEF ApplyValidated, BatchType, TypeOK, Operation
  <2>3. UNCHANGED <<mem, block>>
    BY <1>11 DEF ApplyValidated
  <2> QED BY <1>0, <2>2, <2>3 DEF IndInv, StampDrawn, StampSound
<1>12. CASE ApplyPerform
  <2> DEFINE p == batch.patches[batch.index]
  <2>1. p \in Patch
    BY <1>0, <1>12 DEF ApplyPerform, BatchType, TypeOK
  <2>2. PICK out \in ApplyPatch(mem, p) :
          /\ mem' = out.mem
          /\ IF out.ok THEN batch' = [batch EXCEPT !.index = @ + 1] /\ UNCHANGED last
             ELSE Finish(FALSE)
    BY <1>12 DEF ApplyPerform
  <2>3. UNCHANGED block
    BY <1>12 DEF ApplyPerform
  <2>4. Fine(mem, out)
    BY <1>0, <2>1, ApplyPatchFine
  <2>5. Sound(mem') /\ Keeps(mem, mem') /\ mem' \in Memory
    BY <2>2, <2>4 DEF Fine, Sound
  <2>6. batch' \in BatchType /\ last' \in [op : Operation, ok : BOOLEAN]
    <3>0. batch \in BatchType /\ last \in [op : Operation, ok : BOOLEAN]
      BY <1>0 DEF TypeOK
    <3>1. CASE out.ok
      BY <2>2, <3>0, <3>1, NoOverlayType, BatchUpdateType
    <3>2. CASE ~out.ok
      <4>1. Finish(FALSE)
        BY <2>2, <3>2
      <4>2. batch' = NoBatch /\ last' = [op |-> "apply", ok |-> FALSE]
        BY <4>1 DEF Finish
      <4> QED BY <4>2, NoBatchType DEF Operation
    <3> QED BY <3>1, <3>2
  <2>7. TypeOK'
    BY <1>0, <2>3, <2>5, <2>6 DEF TypeOK
  <2> QED BY <1>0, <2>3, <2>5, <2>7, StampStep DEF IndInv
<1>13. CASE ApplyEnd
  <2>1. TypeOK'
    BY <1>0, <1>13, NoBatchType DEF ApplyEnd, TypeOK, Operation, Finish
  <2>2. UNCHANGED <<mem, block>>
    BY <1>13 DEF ApplyEnd
  <2> QED BY <1>0, <2>1, <2>2 DEF IndInv, StampDrawn, StampSound
<1>14. CASE UNCHANGED vars
  BY <1>0, <1>14 DEF vars, IndInv, TypeOK, StampDrawn, StampSound
<1> QED
  BY <1>1, <1>2, <1>3, <1>4, <1>5, <1>6, <1>7, <1>8, <1>9, <1>10, <1>11, <1>12, <1>13,
     <1>14 DEF Next

\* The representation of the address space is sound in every reachable state:
\* the inductive invariant of GuestAddressSpace (exec/memory.cpp).
THEOREM Inductive == Spec => []IndInv
<1>1. Init => IndInv
  <2> SUFFICES ASSUME Init PROVE IndInv
    OBVIOUS
  <2>1. TypeOK
    BY InitMemoryType, NoBatchType, BlankPageType DEF Init, TypeOK, Operation, NoBlock, PageRecord
  <2>2. Sound(mem)
    BY InitMemorySound DEF Init
  <2>3. StampDrawn /\ StampSound
    BY DEF Init, StampDrawn, StampSound, NoBlock, InitMemory
  <2> QED BY <2>1, <2>2, <2>3 DEF IndInv
<1>2. IndInv /\ [Next]_vars => IndInv'
  BY NextStep
<1> QED BY <1>1, <1>2, PTL DEF Spec

\* Every reachable state has its type.
THEOREM TypeCorrect == Spec => []TypeOK
<1>1. IndInv => TypeOK
  BY DEF IndInv
<1> QED BY <1>1, Inductive, PTL

\* The one-entry page cache never dangles: unmap forgets it, and nothing else
\* removes a page (memory.cpp lookup, unmap).
THEOREM CacheNeverDangles == Spec => []CacheCoherent
<1>1. IndInv => CacheCoherent
  BY DEF IndInv, Sound, CacheCoherent
<1> QED BY <1>1, Inductive, PTL

\* No dirty byte is lost to dirtyRanges (memory.cpp markDirty, clearDirty).
THEOREM NoDirtyByteLost == Spec => []DirtyListed
<1>1. IndInv => DirtyListed
  BY DEF IndInv, Sound, DirtyListed
<1> QED BY <1>1, Inductive, PTL

\* A block of code whose generation stamp matches is not stale (exec_ir.cpp
\* validFor), for any geometry, provider and bound.
THEOREM StampsNeverLie == Spec => []StampSound
<1>1. IndInv => StampSound
  BY DEF IndInv
<1> QED BY <1>1, Inductive, PTL

-----------------------------------------------------------------------------
(* What a failure leaves behind: the pages as they were, and pages of the  *)
(* provider.                                                               *)

LEMMA PreservedSame ==
  ASSUME NEW m, NEW m1, m1.table = m.table, m1.heap = m.heap
  PROVE  Preserved(m, m1)
  BY DEF Preserved, Contains

LEMMA PreservedTransitive ==
  ASSUME NEW m1, NEW m2, NEW m3, Preserved(m1, m2), Preserved(m2, m3)
  PROVE  Preserved(m1, m3)
<1> SUFFICES ASSUME NEW r \in Page
             PROVE  /\ Contains(m1, r) => Contains(m3, r) /\ Stored(m3, r) = Stored(m1, r)
                    /\ ~Contains(m1, r) /\ Contains(m3, r) =>
                         \E s \in Seed : [Stored(m3, r) EXCEPT !.generation = 0] = SeedPage(s)
  BY DEF Preserved, Stored
<1>1. /\ Contains(m1, r) => Contains(m2, r) /\ Stored(m2, r) = Stored(m1, r)
      /\ ~Contains(m1, r) /\ Contains(m2, r) =>
           \E s \in Seed : [Stored(m2, r) EXCEPT !.generation = 0] = SeedPage(s)
  BY DEF Preserved, Stored
<1>2. /\ Contains(m2, r) => Contains(m3, r) /\ Stored(m3, r) = Stored(m2, r)
      /\ ~Contains(m2, r) /\ Contains(m3, r) =>
           \E s \in Seed : [Stored(m3, r) EXCEPT !.generation = 0] = SeedPage(s)
  BY DEF Preserved, Stored
<1> QED BY <1>1, <1>2

LEMMA SeedStamped ==
  ASSUME NEW s \in Seed, NEW g
  PROVE  [[SeedPage(s) EXCEPT !.generation = g] EXCEPT !.generation = 0] = SeedPage(s)
<1> DEFINE p == SeedPage(s)
           q == [p EXCEPT !.generation = g]
           Fields == {"bytes", "permissions", "generation", "dirty", "dirtyListed"}
<1>1. p \in PageRecord
  BY SeedPageType
<1>2. p = [f \in Fields |-> p[f]]
  BY <1>1 DEF PageRecord
<1>3. p.generation = 0
  BY DEF SeedPage, BlankPage
<1> HIDE DEF p
<1>4. q = [f \in Fields |-> IF f = "generation" THEN g ELSE p[f]]
  BY <1>2
<1> HIDE DEF q
<1>5. [q EXCEPT !.generation = 0] = [f \in Fields |-> IF f = "generation" THEN 0 ELSE p[f]]
  BY <1>4
<1>6. [f \in Fields |-> IF f = "generation" THEN 0 ELSE p[f]] = [f \in Fields |-> p[f]]
  BY <1>3
<1> QED BY <1>2, <1>5, <1>6 DEF p, q

\* Pages the provider supplies disturb no other page.
LEMMA SupplyPreserves ==
  ASSUME NEW m, Sound(m), NEW D \in SUBSET Page, NEW ans,
         NEW alloc \in Allocations(m, D),
         \A r \in D : m.table[r] = Null /\ ans[r] \in Seed
  PROVE  LET m1 == Put(m, alloc, [r \in D |-> SeedPage(ans[r])])
         IN  /\ Sound(m1)
             /\ Preserved(m, m1)
             /\ \A r \in Page : Contains(m1, r) <=> Contains(m, r) \/ r \in D
             /\ \A r \in D : Stored(m1, r).permissions = ans[r].permissions
<1> DEFINE new == [r \in D |-> SeedPage(ans[r])]
           m1 == Put(m, alloc, new)
<1>1. CanPut(m, alloc, D, new, D)
  BY SeedPageType DEF CanPut
<1>2. \A r \in D : new[r] = SeedPage(ans[r])
  OBVIOUS
<1> HIDE DEF new
<1>3. /\ Sound(m1)
      /\ \A r \in Page : m1.table[r] = IF r \in D THEN alloc[r] ELSE m.table[r]
      /\ \A r \in Page : r \notin D /\ Contains(m, r) => Stored(m1, r) = Stored(m, r)
      /\ \A r \in D : /\ Contains(m1, r)
                      /\ Stored(m1, r) = [new[r] EXCEPT !.generation = FreshGeneration(m, D, r)]
  BY <1>1, PutSound
<1> HIDE DEF m1
<1>4. \A r \in D : [Stored(m1, r) EXCEPT !.generation = 0] = SeedPage(ans[r])
  <2> TAKE r \in D
  <2>1. Stored(m1, r) = [SeedPage(ans[r]) EXCEPT !.generation = FreshGeneration(m, D, r)]
    BY <1>2, <1>3
  <2> QED BY <2>1, SeedStamped
<1>5. \A r \in Page : Contains(m1, r) <=> Contains(m, r) \/ r \in D
  BY <1>3 DEF Contains
<1>6. Preserved(m, m1)
  BY <1>3, <1>4, <1>5 DEF Preserved, Stored, Contains
<1>7. \A r \in D : Stored(m1, r).permissions = ans[r].permissions
  <2> TAKE r \in D
  <2>1. SeedPage(ans[r]).permissions = ans[r].permissions /\ SeedPage(ans[r]) \in PageRecord
    BY SeedPageType DEF SeedPage, BlankPage
  <2> QED BY <1>2, <1>3, <2>1 DEF PageRecord
<1> QED BY <1>3, <1>5, <1>6, <1>7 DEF m1, new

LEMMA EnsurePreserves ==
  ASSUME NEW m, Sound(m), NEW S \in SUBSET Page, NEW perm,
         NEW e \in EnsureOutcomes(m, S, perm)
  PROVE  Preserved(m, e.mem)
<1>1. PICK ans \in Answers(m, S) :
        \E alloc \in Allocations(m, Supplied(m, S, perm, ans)) :
          e.mem = Materialize(m, S, perm, ans, alloc)
  BY DEF EnsureOutcomes
<1> DEFINE D == Supplied(m, S, perm, ans)
           R == Reached(m, S, perm, ans)
<1>2. PICK alloc \in Allocations(m, D) : e.mem = Materialize(m, S, perm, ans, alloc)
  BY <1>1
<1>3. D \in SUBSET Page /\ R \in SUBSET Page /\ DOMAIN alloc = D
  BY DEF Supplied, Reached, Allocations
<1>4. \A r \in D : m.table[r] = Null /\ ans[r] \in Seed
  BY <1>3, LookupTable DEF Supplied
<1> DEFINE m1 == Put(m, alloc, [r \in D |-> SeedPage(ans[r])])
<1>5. e.mem = Remember(m1, R)
  BY <1>2, <1>3 DEF Materialize
<1> HIDE DEF D, R
<1>6. Sound(m1) /\ Preserved(m, m1)
  BY <1>3, <1>4, SupplyPreserves
<1> HIDE DEF m1
<1>7. e.mem.table = m1.table /\ e.mem.heap = m1.heap
  BY <1>3, <1>5, <1>6, RememberSound
<1> QED BY <1>6, <1>7, PreservedSame, PreservedTransitive

LEMMA AccessPreserves ==
  ASSUME NEW m, Sound(m), NEW a, NEW n, NEW perm, NEW e \in Ensure(m, a, n, perm)
  PROVE  Preserved(m, e.mem)
<1>1. CASE Wraps(a, n)
  BY <1>1, PreservedSame DEF Ensure, Fail
<1>2. CASE ~Wraps(a, n)
  BY <1>2, SpanPages, EnsurePreserves DEF Ensure
<1> QED BY <1>1, <1>2

\* A failed outcome of an operation on m.
Harmless(m, outcomes) == \A out \in outcomes : ~out.ok => Preserved(m, out.mem)

LEMMA OperationsHarmless ==
  ASSUME NEW m, Sound(m), NEW raw, NEW n, NEW data, NEW perms, NEW k
  PROVE  /\ Harmless(m, Map(m, raw, n, perms, data, k))
         /\ Harmless(m, SeedBytes(m, raw, n, data, perms))
         /\ Harmless(m, Protect(m, raw, n, perms))
         /\ Harmless(m, Unmap(m, raw, n))
         /\ Harmless(m, ReadBytes(m, raw, n, perms))
         /\ Harmless(m, ReadResidentBytes(m, raw, n))
         /\ Harmless(m, WriteBytes(m, raw, n, data))
<1> DEFINE a == Canonicalizer[raw]
<1>0. Preserved(m, m)
  BY PreservedSame
<1>1. \A m1 : Done(m1).ok = TRUE
  BY DEF Done
<1>2. Harmless(m, Map(m, raw, n, perms, data, k))
  <2> SUFFICES ASSUME NEW out \in Map(m, raw, n, perms, data, k), ~out.ok
               PROVE  Preserved(m, out.mem)
    BY DEF Harmless
  <2>1. out = Fail(m) \/ \E m1 : out = Done(m1)
    BY DEF Map
  <2> QED BY <1>0, <1>1, <2>1 DEF Fail
<1>3. Harmless(m, SeedBytes(m, raw, n, data, perms))
  <2> SUFFICES ASSUME NEW out \in SeedBytes(m, raw, n, data, perms), ~out.ok
               PROVE  Preserved(m, out.mem)
    BY DEF Harmless
  <2>1. out = Fail(m) \/ \E m1 : out = Done(m1)
    BY DEF SeedBytes
  <2> QED BY <1>0, <1>1, <2>1 DEF Fail
<1>4. Harmless(m, Protect(m, raw, n, perms))
  <2> SUFFICES ASSUME NEW out \in Protect(m, raw, n, perms), ~out.ok
               PROVE  Preserved(m, out.mem)
    BY DEF Harmless
  <2>1. out \in Ensure(m, a, n, {}) \/ \E m1 : out = Done(m1)
    BY DEF Protect
  <2> QED BY <1>1, <2>1, AccessPreserves
<1>5. Harmless(m, Unmap(m, raw, n))
  <2> SUFFICES ASSUME NEW out \in Unmap(m, raw, n), ~out.ok
               PROVE  Preserved(m, out.mem)
    BY DEF Harmless
  <2>1. out \in Ensure(m, a, n, {}) \/ \E m1 : out = Done(m1)
    BY DEF Unmap
  <2> QED BY <1>1, <2>1, AccessPreserves
<1>6. Harmless(m, ReadBytes(m, raw, n, perms))
  BY AccessPreserves DEF Harmless, ReadBytes
<1>7. Harmless(m, ReadResidentBytes(m, raw, n))
  <2> SUFFICES ASSUME NEW out \in ReadResidentBytes(m, raw, n), ~out.ok
               PROVE  Preserved(m, out.mem)
    BY DEF Harmless
  <2>1. out = Fail(m) \/ \E T \in SUBSET Page : out.mem = Remember(m, T)
    BY SpanPages DEF ReadResidentBytes
  <2> QED BY <1>0, <2>1, RememberSound, PreservedSame DEF Fail
<1>8. Harmless(m, WriteBytes(m, raw, n, data))
  <2> SUFFICES ASSUME NEW out \in WriteBytes(m, raw, n, data), ~out.ok
               PROVE  Preserved(m, out.mem)
    BY DEF Harmless
  <2>1. out \in Ensure(m, a, n, {"Write"}) \/ \E m1 : out = Done(m1)
    BY DEF WriteBytes
  <2> QED BY <1>1, <2>1, AccessPreserves
<1> QED BY <1>2, <1>3, <1>4, <1>5, <1>6, <1>7, <1>8

LEMMA TakeHarmless ==
  ASSUME NEW outcomes, NEW op, Take(outcomes, op), Harmless(mem, outcomes)
  PROVE  ~last'.ok => Preserved(mem, mem')
<1>1. PICK out \in outcomes : mem' = out.mem /\ last' = [op |-> op, ok |-> out.ok]
  BY DEF Take
<1> QED BY <1>1 DEF Harmless

\* An operation that fails, whichever page it fails on, has changed no page: at
\* most the provider's pages are there now (memory.cpp writeBytes, map,
\* protect, unmap, readBytes).
THEOREM FailuresHarmless == Spec => FailureHarmless
<1> DEFINE Step == Idle /\ Idle' /\ ~last'.ok /\ last'.op \notin {"refresh", "seedImage"}
                     => Preserved(mem, mem')
<1>1. ASSUME IndInv, [Next]_vars PROVE [Step]_vars
  <2> SUFFICES ASSUME Next, Idle, Idle', ~last'.ok, last'.op \notin {"refresh", "seedImage"}
               PROVE  Preserved(mem, mem')
    BY <1>1
  <2>0. Sound(mem)
    BY <1>1 DEF IndInv
  <2>1. ASSUME NEW on \in BOOLEAN, SetPageProvider(on) PROVE Preserved(mem, mem')
    <3>1. last'.ok = TRUE
      BY <2>1 DEF SetPageProvider, Take, Done
    <3> QED BY <3>1
  <2>2. CASE DoClearDirty
    <3>1. \A out \in ClearDirty(mem) : out.ok = TRUE
      <4> TAKE out \in ClearDirty(mem)
      <4>1. \E m1 : out = Done(m1)
        BY DEF ClearDirty
      <4> QED BY <4>1 DEF Done
    <3>2. Harmless(mem, ClearDirty(mem))
      BY <3>1 DEF Harmless
    <3> QED BY <2>2, <3>2, TakeHarmless DEF DoClearDirty
  <2>3. ASSUME NEW x \in Accesses, NEW perms \in PermissionChoices,
               DoMap(x[1], x[2], perms) \/ DoProtect(x[1], x[2], perms)
        PROVE  Preserved(mem, mem')
    BY <2>0, <2>3, OperationsHarmless, TakeHarmless DEF DoMap, DoProtect
  <2>4. ASSUME NEW x \in Accesses, DoUnmap(x[1], x[2]) \/ DoReadResidentBytes(x[1], x[2])
        PROVE  Preserved(mem, mem')
    BY <2>0, <2>4, OperationsHarmless, TakeHarmless DEF DoUnmap, DoReadResidentBytes
  <2>5. ASSUME NEW x \in Accesses, NEW right \in MemoryPermission, DoReadBytes(x[1], x[2], right)
        PROVE  Preserved(mem, mem')
    BY <2>0, <2>5, OperationsHarmless, TakeHarmless DEF DoReadBytes
  <2>6. ASSUME NEW x \in Accesses, NEW data \in Payloads, NEW perms \in PermissionChoices,
               DoSeed(x[1], data, perms)
        PROVE  Preserved(mem, mem')
    BY <2>0, <2>6, OperationsHarmless, TakeHarmless DEF DoSeed
  <2>6a. ASSUME NEW x \in Accesses, NEW data \in Payloads, DoWriteBytes(x[1], data)
        PROVE  Preserved(mem, mem')
    BY <2>0, <2>6a, OperationsHarmless, TakeHarmless DEF DoWriteBytes
  <2>7. ASSUME NEW x \in Accesses, DoRefresh(x[1], x[2]) PROVE Preserved(mem, mem')
    BY <2>7 DEF DoRefresh, Take
  <2>8. ASSUME NEW x \in Accesses, NEW data \in Payloads, NEW perms \in PermissionChoices,
               SeedImage(x[1], data, perms)
        PROVE  Preserved(mem, mem')
    BY <2>8 DEF SeedImage, Take
  <2>9. ASSUME NEW r \in Page, CompileBlock(r) PROVE Preserved(mem, mem')
    <3>1. PICK out \in EnsureOutcomes(mem, {r}, {"Execute"}) : mem' = out.mem
      BY <2>9 DEF CompileBlock
    <3>2. {r} \in SUBSET Page
      OBVIOUS
    <3> QED BY <2>0, <3>1, <3>2, EnsurePreserves
  <2>10. ASSUME NEW patches \in Batches, ApplyBegin(patches) PROVE FALSE
    BY <2>10 DEF ApplyBegin, Idle
  <2>11. ~(ApplyValidate \/ ApplyValidated \/ ApplyPerform \/ ApplyEnd)
    BY DEF ApplyValidate, ApplyValidated, ApplyPerform, ApplyEnd, Idle
  <2> QED BY <2>1, <2>2, <2>3, <2>4, <2>5, <2>6, <2>6a, <2>7, <2>8, <2>9, <2>10, <2>11 DEF Next
<1>2. IndInv /\ [Next]_vars => [Step]_vars
  BY <1>1
<1> QED BY <1>2, Inductive, PTL DEF Spec, FailureHarmless

-----------------------------------------------------------------------------
(* Batches are atomic: validation predicts, page by page, the permissions  *)
(* every patch will meet when it is performed.                             *)

\* The permissions of page r as a set: {} for a page that is not resident.
Resident(m, r) == IF Contains(m, r) THEN {Stored(m, r).permissions} ELSE {}


\* An operation on m succeeds and gives the pages of S the permissions perms,
\* or takes them away.
Grants(m, out, S, perms) ==
  /\ out.ok = TRUE
  /\ \A r \in Page : Resident(out.mem, r) = IF r \in S THEN {perms} ELSE Resident(m, r)
Removes(m, out, S) ==
  /\ out.ok = TRUE
  /\ \A r \in Page : Resident(out.mem, r) = IF r \in S THEN {} ELSE Resident(m, r)

LEMMA PermissionAtResident ==
  ASSUME NEW m, NEW ov, NEW r
  PROVE  PermissionAt(m, ov, r) = IF r \in DOMAIN ov THEN ov[r] ELSE Resident(m, r)
  BY DEF PermissionAt, Resident, Stored

LEMMA PreservedResident ==
  ASSUME NEW m, NEW m1, Preserved(m, m1), NEW r \in Page,
         Contains(m, r) \/ ~Contains(m1, r)
  PROVE  Resident(m1, r) = Resident(m, r)
  BY DEF Preserved, Resident, Stored

\* An access to resident pages with the permission succeeds and asks nobody.
LEMMA EnsureResident ==
  ASSUME NEW m, Sound(m), NEW a, NEW n, NEW perm, ~Wraps(a, n),
         \A r \in Span(a, n) : Contains(m, r) /\ perm \subseteq Stored(m, r).permissions,
         NEW e \in Ensure(m, a, n, perm)
  PROVE  /\ e.ok = TRUE /\ Sound(e.mem)
         /\ \A r \in Page : Contains(e.mem, r) <=> Contains(m, r)
         /\ \A r \in Page : Contains(m, r) => Stored(e.mem, r) = Stored(m, r)
<1> DEFINE S == Span(a, n)
<1>1. e \in EnsureOutcomes(m, S, perm) /\ S \in SUBSET Page
  BY SpanPages DEF Ensure
<1>2. \A r \in S : Lookup(m, r) # Null /\ PageOf(m, r) = Stored(m, r)
  BY <1>1, LookupTable DEF Contains
<1>3. PICK ans \in Answers(m, S) :
        \E alloc \in Allocations(m, Supplied(m, S, perm, ans)) :
          e = [ok |-> \A r \in S : ~Refused(m, perm, ans, r),
               mem |-> Materialize(m, S, perm, ans, alloc)]
  BY <1>1 DEF EnsureOutcomes
<1>4. PICK alloc \in Allocations(m, Supplied(m, S, perm, ans)) :
          e = [ok |-> \A r \in S : ~Refused(m, perm, ans, r),
               mem |-> Materialize(m, S, perm, ans, alloc)]
  BY <1>3
<1>5. Supplied(m, S, perm, ans) = {} /\ Reached(m, S, perm, ans) \in SUBSET Page
  BY <1>1, <1>2 DEF Supplied, Reached
<1>6. \A r \in S : ~Refused(m, perm, ans, r)
  BY <1>2 DEF Refused
<1>7. e.ok = TRUE
  BY <1>4, <1>6
<1> DEFINE D == Supplied(m, S, perm, ans)
           m1 == Put(m, alloc, [r \in D |-> SeedPage(ans[r])])
<1>8. alloc \in Allocations(m, D) /\ DOMAIN alloc = D
  BY <1>4 DEF Allocations
<1>9. e.mem = Remember(m1, Reached(m, S, perm, ans))
  BY <1>4, <1>8 DEF Materialize
<1>9a. D = {}
  BY <1>5
<1>9d. D \in SUBSET Page
  BY <1>5
<1> HIDE DEF D
<1>9b. \A r \in D : m.table[r] = Null /\ ans[r] \in Seed
  BY <1>9a
<1>9c. Sound(m1) /\ Preserved(m, m1) /\ \A r \in Page : Contains(m1, r) <=> Contains(m, r) \/ r \in D
  BY <1>8, <1>9d, <1>9b, SupplyPreserves
<1>10. Sound(m1) /\ Preserved(m, m1) /\ \A r \in Page : Contains(m1, r) <=> Contains(m, r)
  BY <1>9a, <1>9c
<1> HIDE DEF m1
<1>11. Sound(e.mem) /\ e.mem.table = m1.table /\ e.mem.heap = m1.heap
  BY <1>5, <1>9, <1>10, RememberSound
<1> QED BY <1>7, <1>10, <1>11 DEF Preserved, Contains, Stored

\* A map that fits makes the absent pages of its span and no other.
LEMMA MapEffect ==
  ASSUME NEW m, Sound(m), NEW raw \in Address, NEW n \in Nat,
         NEW perms \in SUBSET MemoryPermission,
         NEW k \in Nat, NEW data \in [0 .. (k - 1) -> Byte],
         ~Wraps(Canonicalizer[raw], n),
         \A r \in Span(Canonicalizer[raw], n) : ~Contains(m, r),
         NEW out \in Map(m, raw, n, perms, data, k)
  PROVE  LET S == Span(Canonicalizer[raw], n)
         IN  /\ out.ok = TRUE
             /\ \A r \in Page : Contains(out.mem, r) <=> Contains(m, r) \/ r \in S
             /\ \A r \in Page : Contains(m, r) => Stored(out.mem, r) = Stored(m, r)
             /\ \A r \in S : Stored(out.mem, r).permissions = perms /\ Stored(out.mem, r).dirty = {}
<1> DEFINE a == Canonicalizer[raw]
           S == Span(a, n)
           blank == [BlankPage EXCEPT !.permissions = perms]
           new == [r \in S |-> Overwrite(blank, r, a, data, k)]
           After(alloc) == Put(m, alloc, new)
<1>1. a \in Int
  BY CanonicalInt
<1>2. CASE n = 0
  <2>1. S = {}
    BY <1>1, <1>2 DEF Span, Covers
  <2>2. out = Done(m)
    BY <1>2 DEF Map
  <2> QED BY <2>1, <2>2 DEF Done
<1>3. CASE n # 0
  <2>1. PICK alloc \in Allocations(m, S) :
          out = Done(Remember(After(alloc), Span(a, k)))
    BY <1>3 DEF Map
  <2>2. /\ blank \in PageRecord /\ blank.dirty = {} /\ blank.dirtyListed = FALSE
        /\ blank.permissions = perms
    BY BlankPageType DEF BlankPage, PageRecord
  <2> HIDE DEF blank
  <2> HIDE DEF a
  <2>4. /\ new \in [S -> PageRecord]
        /\ \A r \in S : new[r].dirty = {} /\ new[r].dirtyListed = FALSE
    BY <1>1, <2>2, OverwriteType, SpanPages
  <2>4a. \A r \in S : new[r].permissions = perms
    BY <1>1, <2>2, SpanPages DEF Overwrite, PageRecord
  <2>5. CanPut(m, alloc, S, new, S)
    BY <2>4, SpanPages DEF CanPut, Contains, a
  <2> HIDE DEF new
  <2>6. /\ Sound(After(alloc))
        /\ \A r \in Page : After(alloc).table[r] = IF r \in S THEN alloc[r] ELSE m.table[r]
        /\ \A r \in Page : r \notin S /\ Contains(m, r) => Stored(After(alloc), r) = Stored(m, r)
        /\ \A r \in S : /\ Contains(After(alloc), r)
                        /\ Stored(After(alloc), r) =
                             [new[r] EXCEPT !.generation = FreshGeneration(m, S, r)]
    BY <2>5, PutSound
  <2>7. \A r \in S : /\ Stored(After(alloc), r).permissions = perms
                     /\ Stored(After(alloc), r).dirty = {}
    BY <2>4, <2>4a, <2>6 DEF PageRecord
  <2> HIDE DEF After
  <2> DEFINE m2 == Remember(After(alloc), Span(a, k))
  <2>8. m2.table = After(alloc).table /\ m2.heap = After(alloc).heap
    BY <2>6, SpanPages, RememberSound
  <2> HIDE DEF m2
  <2>9. /\ \A r \in Page : Contains(m2, r) <=> Contains(m, r) \/ r \in S
        /\ \A r \in Page : Contains(m, r) => Stored(m2, r) = Stored(m, r)
        /\ \A r \in S : Stored(m2, r).permissions = perms /\ Stored(m2, r).dirty = {}
    BY <2>6, <2>7, <2>8 DEF Contains, Stored, a
  <2>10. out.ok = TRUE /\ out.mem = m2
    BY <2>1 DEF Done, m2
  <2> QED BY <2>9, <2>10 DEF a
<1> QED BY <1>2, <1>3

\* What performing one patch makes of the permissions, when all of its pages
\* are as it needs them.
LEMMA MapPerforms ==
  ASSUME NEW m, Sound(m), NEW raw \in Address, NEW n \in Nat,
         NEW perms \in SUBSET MemoryPermission,
         NEW k \in Nat, NEW data \in [0 .. (k - 1) -> Byte],
         ~Wraps(Canonicalizer[raw], n),
         \A r \in Span(Canonicalizer[raw], n) : ~Contains(m, r),
         NEW out \in Map(m, raw, n, perms, data, k)
  PROVE  Grants(m, out, Span(Canonicalizer[raw], n), perms)
<1> DEFINE S == Span(Canonicalizer[raw], n)
<1>1. /\ out.ok = TRUE
      /\ \A r \in Page : Contains(out.mem, r) <=> Contains(m, r) \/ r \in S
      /\ \A r \in Page : Contains(m, r) => Stored(out.mem, r) = Stored(m, r)
      /\ \A r \in S : Stored(out.mem, r).permissions = perms /\ Stored(out.mem, r).dirty = {}
  BY MapEffect
<1>2. ASSUME NEW r \in Page
      PROVE  Resident(out.mem, r) = IF r \in S THEN {perms} ELSE Resident(m, r)
  <2>1. CASE r \in S
    BY <1>1, <2>1 DEF Resident
  <2>2. CASE r \notin S
    BY <1>1, <2>2 DEF Resident
  <2> QED BY <2>1, <2>2
<1> QED BY <1>1, <1>2 DEF Grants

\* Rewriting resident pages leaves the others and stores the new ones.
LEMMA RewriteEffect ==
  ASSUME NEW m, Sound(m), NEW S \in SUBSET Page, \A r \in S : Contains(m, r),
         NEW new \in [S -> PageRecord],
         \A r \in S : /\ new[r].dirty # {} => new[r].dirtyListed
                      /\ new[r].dirtyListed => r \in m.dirtyPages
  PROVE  LET m1 == Put(m, NoAllocation, new)
         IN  /\ Sound(m1)
             /\ \A r \in Page : Contains(m1, r) <=> Contains(m, r)
             /\ \A r \in Page : r \notin S /\ Contains(m, r) => Stored(m1, r) = Stored(m, r)
             /\ \A r \in S : /\ Stored(m1, r).bytes = new[r].bytes
                             /\ Stored(m1, r).permissions = new[r].permissions
                             /\ Stored(m1, r).dirty = new[r].dirty
<1> DEFINE m1 == Put(m, NoAllocation, new)
<1>1. NoAllocation \in Allocations(m, {})
  BY DEF NoAllocation, Allocations
<1>2. CanPut(m, NoAllocation, {}, new, S)
  BY <1>1 DEF CanPut, Contains
<1>3. /\ Sound(m1) /\ \A r \in Page : m1.table[r] = m.table[r]
      /\ \A r \in Page : r \notin S /\ Contains(m, r) => Stored(m1, r) = Stored(m, r)
      /\ \A r \in S : Stored(m1, r) = [new[r] EXCEPT !.generation = FreshGeneration(m, S, r)]
  BY <1>2, PutSound
<1> HIDE DEF m1
<1>4. \A r \in S : /\ Stored(m1, r).bytes = new[r].bytes
                   /\ Stored(m1, r).permissions = new[r].permissions
                   /\ Stored(m1, r).dirty = new[r].dirty
  BY <1>3 DEF PageRecord
<1> QED BY <1>3, <1>4 DEF m1, Contains

LEMMA RewriteResident ==
  ASSUME NEW m, Sound(m), NEW S \in SUBSET Page, \A r \in S : Contains(m, r),
         NEW new \in [S -> PageRecord],
         \A r \in S : /\ new[r].dirty # {} => new[r].dirtyListed
                      /\ new[r].dirtyListed => r \in m.dirtyPages
  PROVE  \A r \in Page : Resident(Put(m, NoAllocation, new), r) =
           IF r \in S THEN {new[r].permissions} ELSE Resident(m, r)
<1> DEFINE m1 == Put(m, NoAllocation, new)
<1>1. /\ \A r \in Page : Contains(m1, r) <=> Contains(m, r)
      /\ \A r \in Page : r \notin S /\ Contains(m, r) => Stored(m1, r) = Stored(m, r)
      /\ \A r \in S : Stored(m1, r).permissions = new[r].permissions
  BY RewriteEffect
<1> HIDE DEF m1
<1>2. ASSUME NEW r \in Page
      PROVE  Resident(m1, r) = IF r \in S THEN {new[r].permissions} ELSE Resident(m, r)
  <2>1. CASE r \in S
    BY <1>1, <2>1 DEF Resident
  <2>2. CASE r \notin S
    BY <1>1, <2>2 DEF Resident
  <2> QED BY <2>1, <2>2
<1> QED BY <1>2 DEF m1

LEMMA ProtectPerforms ==
  ASSUME NEW m, Sound(m), NEW raw \in Address, NEW n \in Nat,
         NEW perms \in SUBSET MemoryPermission,
         ~Wraps(Canonicalizer[raw], n),
         \A r \in Span(Canonicalizer[raw], n) : Contains(m, r),
         NEW out \in Protect(m, raw, n, perms)
  PROVE  Grants(m, out, Span(Canonicalizer[raw], n), perms)
<1> DEFINE a == Canonicalizer[raw]
           S == Span(a, n)
           new(m1) == [r \in S |-> [PageOf(m1, r) EXCEPT !.permissions = perms]]
<1>1. PICK e \in Ensure(m, a, n, {}) :
        out = IF e.ok THEN Done(Put(e.mem, NoAllocation, new(e.mem))) ELSE e
  BY DEF Protect
<1> DEFINE m1 == e.mem
<1>2. /\ e.ok = TRUE /\ Sound(m1)
      /\ \A r \in Page : Contains(m1, r) <=> Contains(m, r)
      /\ \A r \in Page : Contains(m, r) => Stored(m1, r) = Stored(m, r)
  <2>1. ~Wraps(a, n) /\ \A r \in Span(a, n) : Contains(m, r) /\ {} \subseteq Stored(m, r).permissions
    OBVIOUS
  <2> HIDE DEF a
  <2> QED BY <2>1, EnsureResident, ZenonT(60)
<1>3. \A r \in S : Contains(m1, r) /\ PageOf(m1, r) = Stored(m1, r) /\ Stored(m1, r) \in PageRecord
  BY <1>2, SpanPages, LookupTable, StoredType
<1>4. /\ new(m1) \in [S -> PageRecord]
      /\ \A r \in S : /\ new(m1)[r].dirty = Stored(m1, r).dirty
                      /\ new(m1)[r].dirtyListed = Stored(m1, r).dirtyListed
                      /\ new(m1)[r].permissions = perms
  BY <1>3 DEF PageRecord
<1>5. out.ok = TRUE /\ out.mem = Put(m1, NoAllocation, new(m1))
  BY <1>1, <1>2 DEF Done
<1> HIDE DEF new
<1>6. \A r \in Page : Resident(out.mem, r) =
        IF r \in S THEN {new(m1)[r].permissions} ELSE Resident(m1, r)
  <2>1. S \in SUBSET Page
    BY SpanPages
  <2>2. \A r \in S : /\ new(m1)[r].dirty # {} => new(m1)[r].dirtyListed
                     /\ new(m1)[r].dirtyListed => r \in m1.dirtyPages
    BY <1>2, <1>3, <1>4, <2>1, StoredType
  <2> HIDE DEF S, m1
  <2> QED BY <1>2, <1>3, <1>4, <1>5, <2>1, <2>2, RewriteResident
<1>7. \A r \in Page : Resident(m1, r) = Resident(m, r)
  BY <1>2 DEF Resident
<1> QED BY <1>4, <1>5, <1>6, <1>7, SpanPages DEF Grants

\* erase takes the pages of S and nothing else.
LEMMA EraseEffect ==
  ASSUME NEW m, Sound(m), NEW S \in SUBSET Page
  PROVE  LET m2 == Erase(m, S)
         IN  /\ \A r \in Page : Contains(m2, r) <=> Contains(m, r) /\ r \notin S
             /\ \A r \in Page : Contains(m2, r) => Stored(m2, r) = Stored(m, r)
<1> DEFINE m2 == Erase(m, S)
<1>1. m \in Memory
  BY DEF Sound
<1>2. /\ m2.table = [r \in Page |-> IF r \in S THEN Null ELSE m.table[r]]
      /\ m2.heap = [nd \in Node |-> IF \E r \in S : m.table[r] = nd
                                    THEN BlankPage ELSE m.heap[nd]]
  BY <1>1 DEF Erase, Memory
<1> HIDE DEF m2
<1>3. \A r \in Page : Contains(m2, r) <=> Contains(m, r) /\ r \notin S
  BY <1>2 DEF Contains
<1>4. ASSUME NEW r \in Page, Contains(m2, r) PROVE Stored(m2, r) = Stored(m, r)
  <2>1. r \notin S /\ Contains(m, r) /\ m2.table[r] = m.table[r]
    BY <1>2, <1>3, <1>4
  <2>2. m.table[r] \in Node
    BY <1>1, <2>1 DEF Contains, Memory
  <2>3. \A q \in S : m.table[q] # m.table[r]
    BY <2>1 DEF Sound, Distinct
  <2>4. m2.heap[m.table[r]] = m.heap[m.table[r]]
    BY <1>2, <2>2, <2>3
  <2> QED BY <2>1, <2>4 DEF Stored
<1> QED BY <1>3, <1>4 DEF m2

LEMMA UnmapPerforms ==
  ASSUME NEW m, Sound(m), NEW raw \in Address, NEW n \in Nat,
         ~Wraps(Canonicalizer[raw], n),
         \A r \in Span(Canonicalizer[raw], n) : Contains(m, r),
         NEW out \in Unmap(m, raw, n)
  PROVE  Removes(m, out, Span(Canonicalizer[raw], n))
<1> DEFINE a == Canonicalizer[raw]
           S == Span(a, n)
<1>1. PICK e \in Ensure(m, a, n, {}) :
        out = IF e.ok /\ n > 0 THEN Done(Erase(e.mem, S)) ELSE e
  BY DEF Unmap
<1> DEFINE m1 == e.mem
           m2 == Erase(m1, S)
<1>2. /\ e.ok = TRUE /\ Sound(m1)
      /\ \A r \in Page : Contains(m1, r) <=> Contains(m, r)
      /\ \A r \in Page : Contains(m, r) => Stored(m1, r) = Stored(m, r)
  <2>1. ~Wraps(a, n) /\ \A r \in Span(a, n) : Contains(m, r) /\ {} \subseteq Stored(m, r).permissions
    OBVIOUS
  <2>2. e \in Ensure(m, a, n, {})
    OBVIOUS
  <2> HIDE DEF a
  <2> QED BY ONLY <2>1, <2>2, Sound(m), EnsureResident
<1>3. \A r \in Page : Resident(m1, r) = Resident(m, r)
  BY <1>2 DEF Resident
<1>4. CASE n = 0
  <2>1. S = {}
    BY <1>4, CanonicalInt DEF Span, Covers
  <2>2. out = e
    BY <1>1, <1>4
  <2> QED BY <1>2, <1>3, <2>1, <2>2 DEF Removes
<1>5. CASE n # 0
  <2>1. out.ok = TRUE /\ out.mem = m2
    BY <1>1, <1>2, <1>5 DEF Done
  <2>2. S \in SUBSET Page
    BY SpanPages
  <2>3. /\ \A r \in Page : Contains(m2, r) <=> Contains(m1, r) /\ r \notin S
        /\ \A r \in Page : Contains(m2, r) => Stored(m2, r) = Stored(m1, r)
    BY <1>2, <2>2, EraseEffect
  <2> HIDE DEF m2, m1, S
  <2>4. \A r \in Page : Resident(m2, r) = IF r \in S THEN {} ELSE Resident(m1, r)
    BY <2>3 DEF Resident
  <2> QED BY <1>3, <2>1, <2>4 DEF S, Removes
<1> QED BY <1>4, <1>5

\* From m to m2 the bytes of the access are written, and nothing else.
Stores(m, m2, a, n) ==
  /\ \A r \in Page : Contains(m2, r) <=> Contains(m, r)
  /\ \A r \in Page : r \notin Span(a, n) /\ Contains(m, r) => Stored(m2, r) = Stored(m, r)
  /\ \A r \in Span(a, n) :
       /\ Stored(m2, r).permissions = Stored(m, r).permissions
       /\ Stored(m2, r).dirty = Stored(m, r).dirty \cup OffsetsIn(r, a, n)
       /\ \A o \in Offset : ~Covers(r, o, a, n) =>
            Stored(m2, r).bytes[o] = Stored(m, r).bytes[o]

LEMMA StoreEffect ==
  ASSUME NEW m, Sound(m), NEW a \in Int, NEW n \in Nat,
         NEW data \in [0 .. (n - 1) -> Byte], \A r \in Span(a, n) : Contains(m, r)
  PROVE  Stores(m, Store(m, a, n, data), a, n)
<1> DEFINE S == Span(a, n)
           listed == {r \in S : ~PageOf(m, r).dirtyListed}
           m1 == [m EXCEPT !.dirtyPages = @ \cup listed]
           New(r) == MarkDirty(Overwrite(PageOf(m, r), r, a, data, n), r, a, n)
           new == [r \in S |-> New(r)]
<1>1. m \in Memory /\ listed \in SUBSET Page
  BY SpanPages DEF Sound
<1>2. /\ m1 \in Memory
      /\ m1.table = m.table /\ m1.heap = m.heap /\ m1.cache = m.cache
      /\ m1.next = m.next /\ m1.dirtyPages = m.dirtyPages \cup listed
  BY <1>1 DEF Memory
<1>3. \A r \in S : /\ PageOf(m, r) = Stored(m, r)
                   /\ Stored(m, r) \in PageRecord
                   /\ Stored(m, r).dirtyListed => r \in m.dirtyPages
  BY SpanPages, LookupTable, StoredType
<1>4. \A r \in S : r \in m1.dirtyPages
  BY <1>2, <1>3
<1>5. ASSUME NEW r \in S
      PROVE  /\ New(r) \in PageRecord /\ New(r).dirtyListed = TRUE
             /\ New(r).permissions = Stored(m, r).permissions
             /\ New(r).dirty = Stored(m, r).dirty \cup OffsetsIn(r, a, n)
             /\ \A o \in Offset : ~Covers(r, o, a, n) => New(r).bytes[o] = Stored(m, r).bytes[o]
  <2> DEFINE p == Overwrite(PageOf(m, r), r, a, data, n)
  <2>1. p \in PageRecord /\ p.dirty = Stored(m, r).dirty
    BY <1>3, SpanPages, OverwriteType
  <2>2. OffsetsIn(r, a, n) \in SUBSET Offset
    BY DEF OffsetsIn
  <2>3. p.permissions = Stored(m, r).permissions
    BY <1>3 DEF Overwrite, PageRecord
  <2>4. \A o \in Offset : ~Covers(r, o, a, n) => p.bytes[o] = Stored(m, r).bytes[o]
    BY <1>3 DEF Overwrite, PageRecord
  <2> HIDE DEF p
  <2>5. /\ MarkDirty(p, r, a, n) \in PageRecord /\ MarkDirty(p, r, a, n).dirtyListed = TRUE
        /\ MarkDirty(p, r, a, n).permissions = p.permissions
        /\ MarkDirty(p, r, a, n).bytes = p.bytes
        /\ MarkDirty(p, r, a, n).dirty = p.dirty \cup OffsetsIn(r, a, n)
    BY <2>1, <2>2 DEF MarkDirty, PageRecord
  <2> QED BY <2>1, <2>3, <2>4, <2>5 DEF p
<1>6. /\ new \in [S -> PageRecord]
      /\ \A r \in S : new[r].dirtyListed = TRUE /\ new[r] = New(r)
  BY <1>5
<1>7. Store(m, a, n, data) = Put(m1, NoAllocation, new)
  BY DEF Store
<1> HIDE DEF m1, new, listed, New
<1>8. Sound(m1)
  BY <1>1, <1>2 DEF Sound, Coherent, Distinct, Listed, Drawn, Contains, Stored, Memory
<1>9. \A r \in Page : Contains(m1, r) <=> Contains(m, r)
  BY <1>2 DEF Contains
<1>10. \A r \in Page : Stored(m1, r) = Stored(m, r)
  BY <1>2 DEF Stored
<1> DEFINE m2 == Put(m1, NoAllocation, new)
<1>11. /\ \A r \in Page : Contains(m2, r) <=> Contains(m1, r)
       /\ \A r \in Page : r \notin S /\ Contains(m1, r) => Stored(m2, r) = Stored(m1, r)
       /\ \A r \in S : /\ Stored(m2, r).bytes = new[r].bytes
                       /\ Stored(m2, r).permissions = new[r].permissions
                       /\ Stored(m2, r).dirty = new[r].dirty
  <2>1. S \in SUBSET Page /\ \A r \in S : Contains(m1, r)
    BY <1>9, SpanPages
  <2> HIDE DEF S
  <2> QED BY <1>4, <1>6, <1>8, <2>1, RewriteEffect
<1> HIDE DEF m2
<1>12. \A r \in S : /\ Stored(m2, r).permissions = Stored(m, r).permissions
                    /\ Stored(m2, r).dirty = Stored(m, r).dirty \cup OffsetsIn(r, a, n)
                    /\ \A o \in Offset : ~Covers(r, o, a, n) =>
                         Stored(m2, r).bytes[o] = Stored(m, r).bytes[o]
  <2> TAKE r \in S
  <2>1. /\ Stored(m2, r).bytes = New(r).bytes /\ Stored(m2, r).permissions = New(r).permissions
        /\ Stored(m2, r).dirty = New(r).dirty
    BY <1>6, <1>11
  <2>2. /\ New(r).permissions = Stored(m, r).permissions
        /\ New(r).dirty = Stored(m, r).dirty \cup OffsetsIn(r, a, n)
        /\ \A o \in Offset : ~Covers(r, o, a, n) => New(r).bytes[o] = Stored(m, r).bytes[o]
    BY <1>5
  <2> QED BY <2>1, <2>2
<1> QED BY <1>7, <1>9, <1>10, <1>11, <1>12 DEF m2, S, Stores

LEMMA StoreResident ==
  ASSUME NEW m, Sound(m), NEW a \in Int, NEW n \in Nat,
         NEW data \in [0 .. (n - 1) -> Byte], \A r \in Span(a, n) : Contains(m, r)
  PROVE  \A r \in Page : Resident(Store(m, a, n, data), r) = Resident(m, r)
<1> DEFINE m2 == Store(m, a, n, data)
<1>1. Stores(m, m2, a, n)
  BY StoreEffect
<1> HIDE DEF m2
<1>2. \A r \in Page : Resident(m2, r) = Resident(m, r)
  BY <1>1 DEF Stores, Resident
<1> QED BY <1>2 DEF m2

LEMMA WritePerforms ==
  ASSUME NEW m, Sound(m), NEW raw \in Address, NEW n \in Nat,
         NEW data \in [0 .. (n - 1) -> Byte],
         ~Wraps(Canonicalizer[raw], n),
         \A r \in Span(Canonicalizer[raw], n) :
           Contains(m, r) /\ "Write" \in Stored(m, r).permissions,
         NEW out \in WriteBytes(m, raw, n, data)
  PROVE  /\ out.ok = TRUE
         /\ \A r \in Page : Resident(out.mem, r) = Resident(m, r)
<1> DEFINE a == Canonicalizer[raw]
<1>1. PICK e \in Ensure(m, a, n, {"Write"}) :
        out = IF e.ok THEN Done(Store(e.mem, a, n, data)) ELSE e
  BY DEF WriteBytes
<1> DEFINE m1 == e.mem
<1>2. /\ e.ok = TRUE /\ Sound(m1)
      /\ \A r \in Page : Contains(m1, r) <=> Contains(m, r)
      /\ \A r \in Page : Contains(m, r) => Stored(m1, r) = Stored(m, r)
  <2>1. /\ ~Wraps(a, n)
        /\ \A r \in Span(a, n) : Contains(m, r) /\ {"Write"} \subseteq Stored(m, r).permissions
    OBVIOUS
  <2> HIDE DEF a
  <2> QED BY <2>1, EnsureResident
<1>3. \A r \in Page : Resident(m1, r) = Resident(m, r)
  BY <1>2 DEF Resident
<1>4. \A r \in Span(a, n) : Contains(m1, r)
  BY <1>2, SpanPages
<1>5. \A r \in Page : Resident(Store(m1, a, n, data), r) = Resident(m1, r)
  BY <1>2, <1>4, CanonicalInt, StoreResident
<1> QED BY <1>1, <1>2, <1>3, <1>5 DEF Done

\* Overlay ov with the pages of S set to v.
Covered(ov, S, v) == [r \in DOMAIN ov \cup S |-> IF r \in S THEN v ELSE ov[r]]

\* Validation of p against the overlay ov of memory m accepts it and goes on
\* with the overlay ov1.
Foreseen(m, ov, p, ov1) ==
  LET a == Canonicalizer[p.address]
      S == Span(a, PatchSize(p))
  IN  /\ ~Wraps(a, PatchSize(p))
      /\ \/ /\ p.kind = "Write" /\ ov1 = ov
            /\ \A r \in S : /\ PermissionAt(m, ov, r) # {}
                            /\ \A perms \in PermissionAt(m, ov, r) : "Write" \in perms
         \/ /\ p.kind = "Map" /\ ov1 = Covered(ov, S, {p.permissions})
            /\ \A r \in S : PermissionAt(m, ov, r) = {}
         \/ /\ p.kind = "Protect" /\ ov1 = Covered(ov, S, {p.permissions})
            /\ \A r \in S : PermissionAt(m, ov, r) # {}
         \/ /\ p.kind = "Unmap" /\ ov1 = Covered(ov, S, {})
            /\ \A r \in S : PermissionAt(m, ov, r) # {}

\* The first n patches of ps were accepted one after the other: ovs[j] is the
\* overlay patch j met.
Trail(m, ps, n, ovs) ==
  /\ ovs[1] = NoOverlay
  /\ \A j \in 1 .. n : Foreseen(m, ovs[j], ps[j], ovs[j + 1])
  /\ \A j \in 1 .. (n + 1) : DOMAIN ovs[j] \subseteq DOMAIN ovs[n + 1]

\* Pages that the provider adds later, outside the overlay, change no verdict.
LEMMA ForeseenGrows ==
  ASSUME NEW m, NEW m1, NEW ov, NEW p, NEW ov1, NEW D, Foreseen(m, ov, p, ov1),
         Preserved(m, m1), DOMAIN ov1 \subseteq D,
         \A r \in Page : Contains(m1, r) /\ ~Contains(m, r) => r \notin D
  PROVE  Foreseen(m1, ov, p, ov1)
<1> DEFINE S == Span(Canonicalizer[p.address], PatchSize(p))
<1>1. \A r \in Page : r \in DOMAIN ov \/ Contains(m, r) \/ r \in D
                        => PermissionAt(m1, ov, r) = PermissionAt(m, ov, r)
  BY PermissionAtResident, PreservedResident
<1>2. \A v : DOMAIN Covered(ov, S, v) = DOMAIN ov \cup S
  BY DEF Covered
<1>3. \A r \in S : r \in Page
  BY SpanPages
<1>4. \A r \in S : PermissionAt(m, ov, r) # {} => PermissionAt(m1, ov, r) = PermissionAt(m, ov, r)
  BY <1>1, <1>3, PermissionAtResident DEF Resident
<1>5. CASE p.kind = "Write"
  BY <1>4, <1>5 DEF Foreseen
<1>6. CASE p.kind # "Write"
  <2>1. \A r \in S : r \in D
    BY <1>2, <1>6 DEF Foreseen
  <2>2. \A r \in S : PermissionAt(m1, ov, r) = PermissionAt(m, ov, r)
    BY <1>1, <1>3, <2>1
  <2> QED BY <1>6, <2>2 DEF Foreseen
<1> QED BY <1>5, <1>6

LEMMA TrailGrows ==
  ASSUME NEW m, NEW m1, NEW ps, NEW n \in Nat, NEW ovs, Trail(m, ps, n, ovs), Preserved(m, m1),
         \A r \in Page : Contains(m1, r) /\ ~Contains(m, r) => r \notin DOMAIN ovs[n + 1]
  PROVE  Trail(m1, ps, n, ovs)
<1> SUFFICES ASSUME NEW j \in 1 .. n PROVE Foreseen(m1, ovs[j], ps[j], ovs[j + 1])
  BY DEF Trail
<1>1. Foreseen(m, ovs[j], ps[j], ovs[j + 1])
  BY DEF Trail
<1>2. DOMAIN ovs[j + 1] \subseteq DOMAIN ovs[n + 1]
  BY DEF Trail
<1> QED BY <1>1, <1>2, ForeseenGrows

\* One more patch.
Extended(ovs, n, ov1) == [j \in 1 .. (n + 2) |-> IF j = n + 2 THEN ov1 ELSE ovs[j]]

LEMMA TrailExtends ==
  ASSUME NEW m, NEW ps, NEW n \in Nat, NEW ovs \in [1 .. (n + 1) -> Overlay],
         Trail(m, ps, n, ovs), NEW ov1 \in Overlay, DOMAIN ovs[n + 1] \subseteq DOMAIN ov1,
         Foreseen(m, ovs[n + 1], ps[n + 1], ov1)
  PROVE  /\ Extended(ovs, n, ov1) \in [1 .. (n + 2) -> Overlay]
         /\ Trail(m, ps, n + 1, Extended(ovs, n, ov1))
         /\ Extended(ovs, n, ov1)[n + 2] = ov1
<1> DEFINE more == Extended(ovs, n, ov1)
<1>1. more \in [1 .. (n + 2) -> Overlay] /\ more[n + 2] = ov1 /\ \A j \in 1 .. (n + 1) : more[j] = ovs[j]
  BY DEF Extended
<1> HIDE DEF more
<1>2. \A j \in 1 .. n : j + 1 \in 1 .. (n + 1) /\ j \in 1 .. (n + 1)
  OBVIOUS
<1>3. ASSUME NEW j \in 1 .. (n + 1) PROVE Foreseen(m, more[j], ps[j], more[j + 1])
  <2>1. CASE j = n + 1
    BY <1>1, <2>1
  <2>2. CASE j # n + 1
    <3>1. j \in 1 .. n
      BY <2>2
    <3> QED BY <1>1, <1>2, <3>1 DEF Trail
  <2> QED BY <2>1, <2>2
<1>4. ASSUME NEW j \in 1 .. (n + 2) PROVE DOMAIN more[j] \subseteq DOMAIN ov1
  <2>1. CASE j = n + 2
    BY <1>1, <2>1
  <2>2. CASE j # n + 2
    BY <1>1, <2>2 DEF Trail
  <2> QED BY <2>1, <2>2
<1>5. more[1] = NoOverlay
  BY <1>1 DEF Trail
<1>6. Trail(m, ps, n + 1, more)
  BY <1>1, <1>3, <1>4, <1>5 DEF Trail
<1> QED BY <1>1, <1>6 DEF more

\* Validation of a patch keeps every page, asks the provider only outside the
\* overlay, and accepts only what Foreseen says.
LEMMA ValidateWriteForesees ==
  ASSUME NEW m, Sound(m), NEW ov \in Overlay, NEW S \in SUBSET Page,
         NEW out \in ValidateWrite(m, ov, S)
  PROVE  /\ Preserved(m, out.mem)
         /\ out.overlay = ov
         /\ out.ok => \A r \in Page :
              Contains(out.mem, r) /\ ~Contains(m, r) => r \notin DOMAIN ov
         /\ out.ok => \A r \in S :
              /\ PermissionAt(out.mem, ov, r) # {}
              /\ \A perms \in PermissionAt(out.mem, ov, r) : "Write" \in perms
<1> DEFINE Visited(ans) == {r \in S : \A q \in S : q < r => ~Unwritable(m, ov, ans, q)}
           Asked(ans) == {r \in Visited(ans) : PermissionAt(m, ov, r) = {}}
           New(ans) == {r \in Asked(ans) : Lookup(m, r) = Null /\ ans[r] \in Seed}
           Putted(ans, alloc) == Put(m, alloc, [r \in New(ans) |-> SeedPage(ans[r])])
<1>1. PICK ans \in Answers(m, S) : \E alloc \in Allocations(m, New(ans)) :
        out = [ok |-> \A r \in S : ~Unwritable(m, ov, ans, r),
               mem |-> Remember(Putted(ans, alloc), Asked(ans)), overlay |-> ov]
  BY DEF ValidateWrite
<1>2. PICK alloc \in Allocations(m, New(ans)) :
        out = [ok |-> \A r \in S : ~Unwritable(m, ov, ans, r),
               mem |-> Remember(Putted(ans, alloc), Asked(ans)), overlay |-> ov]
  BY <1>1
<1> DEFINE N == New(ans)
           m1 == Put(m, alloc, [r \in N |-> SeedPage(ans[r])])
<1>3. /\ N \in SUBSET Page /\ Asked(ans) \in SUBSET Page
      /\ \A r \in N : m.table[r] = Null /\ ans[r] \in Seed
  BY LookupTable
<1>4. alloc \in Allocations(m, N)
  OBVIOUS
<1>5. /\ out.mem = Remember(m1, Asked(ans)) /\ out.overlay = ov
      /\ out.ok <=> \A r \in S : ~Unwritable(m, ov, ans, r)
  BY <1>2
<1>6. ASSUME \A r \in S : ~Unwritable(m, ov, ans, r), NEW r \in S,
             ~Contains(m, r), r \notin DOMAIN ov
      PROVE  r \in N /\ "Write" \in ans[r].permissions
  <2>1. PermissionAt(m, ov, r) = {}
    BY <1>6 DEF PermissionAt
  <2>2. ~Refused(m, {"Write"}, ans, r)
    BY <1>6, <2>1 DEF Unwritable
  <2>3. Lookup(m, r) = Null
    BY <1>6, LookupTable DEF Contains
  <2>4. ans[r] \in Seed /\ "Write" \in ans[r].permissions
    BY <2>2, <2>3 DEF Refused
  <2> QED BY <1>6, <2>1, <2>3, <2>4
<1>6a. ASSUME \A r \in S : ~Unwritable(m, ov, ans, r), NEW r \in N PROVE r \notin DOMAIN ov
  <2>1. PermissionAt(m, ov, r) = {} /\ r \in S
    OBVIOUS
  <2> QED BY <1>6a, <2>1 DEF Unwritable
<1> HIDE DEF N, Asked
<1>7. /\ Sound(m1) /\ Preserved(m, m1)
      /\ \A r \in Page : Contains(m1, r) <=> Contains(m, r) \/ r \in N
      /\ \A r \in N : Stored(m1, r).permissions = ans[r].permissions
  BY <1>3, <1>4, SupplyPreserves
<1> HIDE DEF m1
<1>8. out.mem.table = m1.table /\ out.mem.heap = m1.heap
  BY <1>3, <1>5, <1>7, RememberSound
<1>9. /\ Preserved(m, out.mem)
      /\ \A r \in Page : Contains(out.mem, r) <=> Contains(m, r) \/ r \in N
      /\ \A r \in N : Stored(out.mem, r).permissions = ans[r].permissions
  BY <1>7, <1>8, PreservedSame, PreservedTransitive DEF Contains, Stored
<1>10. ASSUME out.ok, NEW r \in S
       PROVE  /\ PermissionAt(out.mem, ov, r) # {}
              /\ \A perms \in PermissionAt(out.mem, ov, r) : "Write" \in perms
  <2>0. r \in Page /\ ~Unwritable(m, ov, ans, r)
    BY <1>5, <1>10
  <2>1. CASE r \in DOMAIN ov
    BY <2>0, <2>1 DEF Unwritable, PermissionAt
  <2>2. CASE r \notin DOMAIN ov /\ Contains(m, r)
    <3>1. PermissionAt(m, ov, r) = {Stored(m, r).permissions}
      BY <2>2 DEF PermissionAt, Stored
    <3>2. "Write" \in Stored(m, r).permissions
      BY <2>0, <3>1 DEF Unwritable
    <3>3. PermissionAt(out.mem, ov, r) = {Stored(m, r).permissions}
      BY <1>9, <2>0, <2>2 DEF PermissionAt, Preserved, Stored
    <3> QED BY <3>2, <3>3
  <2>3. CASE r \notin DOMAIN ov /\ ~Contains(m, r)
    <3>1. r \in N /\ "Write" \in ans[r].permissions
      BY <1>5, <1>6, <1>10, <2>3
    <3>2. PermissionAt(out.mem, ov, r) = {ans[r].permissions}
      BY <1>9, <2>0, <2>3, <3>1 DEF PermissionAt, Stored
    <3> QED BY <3>1, <3>2
  <2> QED BY <2>1, <2>2, <2>3
<1>11. ASSUME out.ok, NEW r \in Page, Contains(out.mem, r), ~Contains(m, r) PROVE r \notin DOMAIN ov
  BY <1>5, <1>6a, <1>9, <1>11
<1> QED BY <1>5, <1>9, <1>10, <1>11

LEMMA ValidateForesees ==
  ASSUME NEW m, Sound(m), NEW ov \in Overlay, NEW p \in Patch,
         NEW out \in ValidatePatch(m, ov, p)
  PROVE  /\ Preserved(m, out.mem)
         /\ out.ok =>
              /\ Foreseen(out.mem, ov, p, out.overlay)
              /\ DOMAIN ov \subseteq DOMAIN out.overlay
              /\ \A r \in Page : Contains(out.mem, r) /\ ~Contains(m, r) => r \notin DOMAIN ov
<1> DEFINE a == Canonicalizer[p.address]
           n == PatchSize(p)
           S == Span(a, n)
           present == \A r \in S : PermissionAt(m, ov, r) # {}
           absent == \A r \in S : PermissionAt(m, ov, r) = {}
           refused == [ok |-> FALSE, mem |-> m, overlay |-> ov]
           Result(ok, v) == [ok |-> ok, mem |-> m,
                             overlay |-> IF ok THEN Covered(ov, S, v) ELSE ov]
<1>1. S \in SUBSET Page /\ p.kind \in PatchKind
  BY SpanPages, PatchFields
<1>2. Preserved(m, m)
  BY PreservedSame
<1>3. \A v : DOMAIN ov \subseteq DOMAIN Covered(ov, S, v)
  BY DEF Covered
<1>4. CASE out = refused
  BY <1>2, <1>4
<1>5. out # refused => ~Wraps(a, n)
  BY DEF ValidatePatch
<1>6. CASE p.kind = "Write" /\ out # refused
  <2>1. out \in ValidateWrite(m, ov, S)
    BY <1>6 DEF ValidatePatch
  <2>2. /\ Preserved(m, out.mem) /\ out.overlay = ov
        /\ out.ok => \A r \in Page :
              Contains(out.mem, r) /\ ~Contains(m, r) => r \notin DOMAIN ov
        /\ out.ok => \A r \in S :
              /\ PermissionAt(out.mem, ov, r) # {}
              /\ \A perms \in PermissionAt(out.mem, ov, r) : "Write" \in perms
    BY <1>1, <2>1, ValidateWriteForesees
  <2> QED BY <1>5, <1>6, <2>2 DEF Foreseen
<1>7. CASE p.kind = "Map" /\ out # refused
  <2>1. out = Result(absent, {p.permissions})
    BY <1>7 DEF ValidatePatch, Covered
  <2>2. out.mem = m /\ (out.ok <=> absent) /\ (absent => out.overlay = Covered(ov, S, {p.permissions}))
    BY <2>1
  <2> QED BY <1>2, <1>3, <1>5, <1>7, <2>2 DEF Foreseen
<1>8. CASE p.kind = "Protect" /\ out # refused
  <2>1. out = Result(present, {p.permissions})
    BY <1>8 DEF ValidatePatch, Covered
  <2>2. out.mem = m /\ (out.ok <=> present) /\ (present => out.overlay = Covered(ov, S, {p.permissions}))
    BY <2>1
  <2> QED BY <1>2, <1>3, <1>5, <1>8, <2>2 DEF Foreseen
<1>9. CASE p.kind = "Unmap" /\ out # refused
  <2>1. out = Result(present, {})
    BY <1>9 DEF ValidatePatch, Covered
  <2>2. out.mem = m /\ (out.ok <=> present) /\ (present => out.overlay = Covered(ov, S, {}))
    BY <2>1
  <2> QED BY <1>2, <1>3, <1>5, <1>9, <2>2 DEF Foreseen
<1> QED BY <1>1, <1>4, <1>6, <1>7, <1>8, <1>9 DEF PatchKind

\* The memory m that patch p meets has the permissions foreseen for it in the
\* overlay ov of the memory m0 that validation ended with.
Agrees(m, m0, ov) == \A r \in Page : Resident(m, r) = PermissionAt(m0, ov, r)

\* A patch that was foreseen succeeds, and leaves what its validation foresaw.
LEMMA ForeseenPerforms ==
  ASSUME NEW m, Sound(m), NEW m0, NEW ov, NEW ov1, NEW p \in Patch,
         Foreseen(m0, ov, p, ov1), Agrees(m, m0, ov),
         NEW out \in ApplyPatch(m, p)
  PROVE  out.ok = TRUE /\ Agrees(out.mem, m0, ov1)
<1> DEFINE a == Canonicalizer[p.address]
           S == Span(a, PatchSize(p))
<1>1. /\ p.kind \in PatchKind /\ p.address \in Address
      /\ p.permissions \in SUBSET MemoryPermission
      /\ Size(p.bytes) \in Nat /\ p.bytes \in [0 .. (Size(p.bytes) - 1) -> Byte]
  BY PatchFields, SizeType
<1>2. p.size \in Nat
  BY InputAssumption, BoundAssumption DEF PatchType
<1>3. S \in SUBSET Page /\ ~Wraps(a, PatchSize(p))
  BY SpanPages DEF Foreseen
<1>4. \A r \in S : (PermissionAt(m0, ov, r) # {} <=> Contains(m, r))
  BY <1>3 DEF Agrees, Resident
<1>5. ASSUME NEW v, NEW m1, ov1 = Covered(ov, S, v),
             \A r \in Page : Resident(m1, r) = IF r \in S THEN v ELSE Resident(m, r)
      PROVE  Agrees(m1, m0, ov1)
  <2> SUFFICES ASSUME NEW r \in Page PROVE Resident(m1, r) = PermissionAt(m0, ov1, r)
    BY DEF Agrees
  <2>1. DOMAIN ov1 = DOMAIN ov \cup S /\ (r \in DOMAIN ov1 => ov1[r] = IF r \in S THEN v ELSE ov[r])
    BY <1>5 DEF Covered
  <2>2. PermissionAt(m0, ov1, r) = IF r \in S THEN v ELSE PermissionAt(m0, ov, r)
    BY <2>1, PermissionAtResident
  <2> QED BY <1>5, <2>2 DEF Agrees
<1>6. CASE p.kind = "Write"
  <2>1. out \in WriteBytes(m, p.address, Size(p.bytes), p.bytes) /\ PatchSize(p) = Size(p.bytes)
    BY <1>6 DEF ApplyPatch, PatchSize
  <2>2. ov1 = ov /\ \A r \in S : /\ PermissionAt(m0, ov, r) # {}
                                 /\ \A perms \in PermissionAt(m0, ov, r) : "Write" \in perms
    BY <1>6 DEF Foreseen
  <2>3. \A r \in S : Contains(m, r) /\ PermissionAt(m0, ov, r) = {Stored(m, r).permissions}
    BY <1>3, <1>4, <2>2 DEF Agrees, Resident
  <2>4. \A r \in S : Contains(m, r) /\ "Write" \in Stored(m, r).permissions
    BY <2>2, <2>3
  <2>5. out.ok = TRUE /\ \A r \in Page : Resident(out.mem, r) = Resident(m, r)
    BY <1>1, <1>3, <2>1, <2>4, WritePerforms
  <2> QED BY <2>2, <2>5 DEF Agrees
<1>7. CASE p.kind = "Map"
  <2>1. /\ out \in Map(m, p.address, p.size, p.permissions, p.bytes, Size(p.bytes))
        /\ PatchSize(p) = p.size
    BY <1>7 DEF ApplyPatch, PatchSize
  <2>2. ov1 = Covered(ov, S, {p.permissions}) /\ \A r \in S : PermissionAt(m0, ov, r) = {}
    BY <1>7 DEF Foreseen
  <2>3. \A r \in S : ~Contains(m, r)
    BY <1>4, <2>2
  <2>4. out.ok = TRUE /\ \A r \in Page : Resident(out.mem, r) =
                           IF r \in S THEN {p.permissions} ELSE Resident(m, r)
    <3>1. S = Span(Canonicalizer[p.address], p.size) /\ ~Wraps(Canonicalizer[p.address], p.size)
      BY <1>3, <2>1
    <3>2. \A r \in Span(Canonicalizer[p.address], p.size) : ~Contains(m, r)
      BY <2>3, <3>1
    <3> DEFINE raw == p.address
               n == p.size
               perms == p.permissions
               data == p.bytes
               k == Size(p.bytes)
    <3>3. /\ raw \in Address /\ out \in Map(m, raw, n, perms, data, k) /\ ~Wraps(Canonicalizer[raw], n)
          /\ \A r \in Span(Canonicalizer[raw], n) : ~Contains(m, r)
          /\ n \in Nat /\ perms \in SUBSET MemoryPermission /\ k \in Nat /\ data \in [0 .. (k - 1) -> Byte]
      BY <1>1, <1>2, <2>1, <3>1, <3>2
    <3> HIDE DEF raw, n, perms, data, k
    <3>4. Grants(m, out, Span(Canonicalizer[raw], n), perms)
      BY ONLY Sound(m), <3>3, MapPerforms
    <3> QED BY <3>1, <3>4 DEF raw, n, perms, Grants, Removes
  <2> QED BY <1>5, <2>2, <2>4
<1>8. CASE p.kind = "Protect"
  <2>1. out \in Protect(m, p.address, p.size, p.permissions) /\ PatchSize(p) = p.size
    BY <1>8 DEF ApplyPatch, PatchSize
  <2>2. ov1 = Covered(ov, S, {p.permissions}) /\ \A r \in S : PermissionAt(m0, ov, r) # {}
    BY <1>8 DEF Foreseen
  <2>3. \A r \in S : Contains(m, r)
    BY <1>4, <2>2
  <2>4. out.ok = TRUE /\ \A r \in Page : Resident(out.mem, r) =
                           IF r \in S THEN {p.permissions} ELSE Resident(m, r)
    <3>1. S = Span(Canonicalizer[p.address], p.size) /\ ~Wraps(Canonicalizer[p.address], p.size)
      BY <1>3, <2>1
    <3>2. \A r \in Span(Canonicalizer[p.address], p.size) : Contains(m, r)
      BY <2>3, <3>1
    <3> DEFINE raw == p.address
               n == p.size
               perms == p.permissions
               data == p.bytes
               k == Size(p.bytes)
    <3>3. /\ raw \in Address /\ out \in Protect(m, raw, n, perms) /\ ~Wraps(Canonicalizer[raw], n)
          /\ \A r \in Span(Canonicalizer[raw], n) : Contains(m, r)
          /\ n \in Nat /\ perms \in SUBSET MemoryPermission
      BY <1>1, <1>2, <2>1, <3>1, <3>2
    <3> HIDE DEF raw, n, perms, data, k
    <3>4. Grants(m, out, Span(Canonicalizer[raw], n), perms)
      BY ONLY Sound(m), <3>3, ProtectPerforms
    <3> QED BY <3>1, <3>4 DEF raw, n, perms, Grants, Removes
  <2> QED BY <1>5, <2>2, <2>4
<1>9. CASE p.kind = "Unmap"
  <2>1. out \in Unmap(m, p.address, p.size) /\ PatchSize(p) = p.size
    BY <1>9 DEF ApplyPatch, PatchSize
  <2>2. ov1 = Covered(ov, S, {}) /\ \A r \in S : PermissionAt(m0, ov, r) # {}
    BY <1>9 DEF Foreseen
  <2>3. \A r \in S : Contains(m, r)
    BY <1>4, <2>2
  <2>4. out.ok = TRUE /\ \A r \in Page : Resident(out.mem, r) =
                           IF r \in S THEN {} ELSE Resident(m, r)
    <3>1. S = Span(Canonicalizer[p.address], p.size) /\ ~Wraps(Canonicalizer[p.address], p.size)
      BY <1>3, <2>1
    <3>2. \A r \in Span(Canonicalizer[p.address], p.size) : Contains(m, r)
      BY <2>3, <3>1
    <3> DEFINE raw == p.address
               n == p.size
               perms == p.permissions
               data == p.bytes
               k == Size(p.bytes)
    <3>3. /\ raw \in Address /\ out \in Unmap(m, raw, n) /\ ~Wraps(Canonicalizer[raw], n)
          /\ \A r \in Span(Canonicalizer[raw], n) : Contains(m, r)
          /\ n \in Nat
      BY <1>1, <1>2, <2>1, <3>1, <3>2
    <3> HIDE DEF raw, n, perms, data, k
    <3>4. Removes(m, out, Span(Canonicalizer[raw], n))
      BY ONLY Sound(m), <3>3, UnmapPerforms
    <3> QED BY <3>1, <3>4 DEF raw, n, perms, Grants, Removes
  <2> QED BY <1>5, <2>2, <2>4
<1> QED BY <1>1, <1>6, <1>7, <1>8, <1>9 DEF PatchKind

\* The inductive invariant of a batch.  While it is validated, the memory is
\* the one apply was called with and pages of the provider, and the patches so
\* far were accepted in overlays that end with the present one.  While it is
\* performed, all of its patches were accepted and the memory agrees with the
\* overlay of the next one.
BatchInv ==
  /\ batch.phase = "validate" =>
       /\ batch.index \in 1 .. (Len(batch.patches) + 1)
       /\ Preserved(batch.before, mem)
       /\ \E ovs \in [1 .. batch.index -> Overlay] :
            /\ Trail(mem, batch.patches, batch.index - 1, ovs)
            /\ ovs[batch.index] = batch.overlay
  /\ batch.phase = "apply" =>
       /\ batch.index \in 1 .. (Len(batch.patches) + 1)
       /\ \E m0 \in Memory, ovs \in [1 .. (Len(batch.patches) + 1) -> Overlay] :
            /\ Trail(m0, batch.patches, Len(batch.patches), ovs)
            /\ Agrees(mem, m0, ovs[batch.index])

\* A step of a batch that fails leaves the memory apply was called with.
BatchStep ==
  ~Idle /\ batch'.phase = "idle" /\ ~last'.ok => Preserved(batch.before, mem')

LEMMA ValidateKeepsBatch ==
  ASSUME IndInv, BatchInv, ApplyValidate
  PROVE  BatchInv' /\ BatchStep
<1> DEFINE p == batch.patches[batch.index]
           i == batch.index
           ps == batch.patches
<1>1. /\ batch \in BatchType /\ Sound(mem) /\ batch.phase = "validate"
      /\ ps \in Seq(Patch) /\ i \in Nat \ {0} /\ i <= Len(ps)
      /\ batch.overlay \in Overlay
  BY DEF IndInv, TypeOK, BatchType, ApplyValidate
<1>2. p \in Patch
  BY <1>1
<1>3. PICK out \in ValidatePatch(mem, batch.overlay, p) :
          /\ mem' = out.mem
          /\ IF out.ok
             THEN /\ batch' = [batch EXCEPT !.index = @ + 1, !.overlay = out.overlay]
                  /\ UNCHANGED last
             ELSE Finish(FALSE)
  BY DEF ApplyValidate
<1> DEFINE m1 == out.mem
           ov1 == out.overlay
<1>4. /\ Preserved(mem, m1)
      /\ out.ok =>
           /\ Foreseen(m1, batch.overlay, p, ov1)
           /\ DOMAIN batch.overlay \subseteq DOMAIN ov1
           /\ \A r \in Page : Contains(m1, r) /\ ~Contains(mem, r) => r \notin DOMAIN batch.overlay
  BY <1>1, <1>2, ValidateForesees
<1>5. ov1 \in Overlay
  BY <1>1, <1>2, ValidatePatchFine
<1>6. Preserved(batch.before, m1)
  BY <1>1, <1>4, PreservedTransitive DEF BatchInv
<1>7. CASE ~out.ok
  <2>1. batch' = NoBatch
    BY <1>3, <1>7 DEF Finish
  <2>2. batch'.phase = "idle"
    BY <2>1 DEF NoBatch
  <2> QED BY <1>3, <1>6, <2>2 DEF BatchInv, BatchStep
<1>8. CASE out.ok
  <2>1. /\ batch'.phase = "validate" /\ batch'.patches = ps /\ batch'.index = i + 1
        /\ batch'.overlay = ov1 /\ batch'.before = batch.before
    BY <1>1, <1>3, <1>8 DEF BatchType
  <2>2. PICK ovs \in [1 .. i -> Overlay] : Trail(mem, ps, i - 1, ovs) /\ ovs[i] = batch.overlay
    BY <1>1 DEF BatchInv
  <2> DEFINE n == i - 1
  <2>3. n \in Nat /\ n + 1 = i /\ n + 2 = i + 1
    BY <1>1
  <2> HIDE DEF n, m1, ov1, p
  <2>4. /\ ovs \in [1 .. (n + 1) -> Overlay] /\ Trail(mem, ps, n, ovs)
        /\ ovs[n + 1] = batch.overlay
    BY <2>2, <2>3 DEF n
  <2>5. Trail(m1, ps, n, ovs)
    BY <1>4, <1>8, <2>3, <2>4, TrailGrows
  <2>6. Foreseen(m1, ovs[n + 1], ps[n + 1], ov1) /\ DOMAIN ovs[n + 1] \subseteq DOMAIN ov1
    BY <1>4, <1>8, <2>3, <2>4 DEF p
  <2>7. \E more \in [1 .. (n + 2) -> Overlay] : Trail(m1, ps, n + 1, more) /\ more[n + 2] = ov1
    <3>1. n \in Nat /\ ovs \in [1 .. (n + 1) -> Overlay] /\ ov1 \in Overlay
      BY <1>5, <2>3, <2>4
    <3> HIDE DEF ps, i
    <3>2. /\ Extended(ovs, n, ov1) \in [1 .. (n + 2) -> Overlay]
          /\ Trail(m1, ps, n + 1, Extended(ovs, n, ov1))
          /\ Extended(ovs, n, ov1)[n + 2] = ov1
      BY ONLY <2>5, <2>6, <3>1, TrailExtends
    <3> QED BY <3>2
  <2>8. \E more \in [1 .. (i + 1) -> Overlay] : Trail(m1, ps, (i + 1) - 1, more) /\ more[i + 1] = ov1
    BY <2>3, <2>7
  <2>9. i + 1 \in 1 .. (Len(ps) + 1)
    BY <1>1
  <2>10. mem' = m1
    BY <1>3 DEF m1
  <2>11. BatchInv'
    BY <1>6, <2>1, <2>8, <2>9, <2>10 DEF BatchInv
  <2>12. BatchStep
    BY <2>1 DEF BatchStep
  <2> QED BY <2>11, <2>12
<1> QED BY <1>7, <1>8

LEMMA PerformKeepsBatch ==
  ASSUME IndInv, BatchInv, ApplyPerform
  PROVE  BatchInv' /\ BatchStep
<1> DEFINE p == batch.patches[batch.index]
           i == batch.index
           ps == batch.patches
<1>1. /\ batch \in BatchType /\ Sound(mem) /\ batch.phase = "apply"
      /\ ps \in Seq(Patch) /\ i \in Nat \ {0} /\ i <= Len(ps)
  BY DEF IndInv, TypeOK, BatchType, ApplyPerform
<1>2. p \in Patch /\ i \in 1 .. Len(ps)
  BY <1>1
<1>3. PICK out \in ApplyPatch(mem, p) :
          /\ mem' = out.mem
          /\ IF out.ok THEN batch' = [batch EXCEPT !.index = @ + 1] /\ UNCHANGED last
             ELSE Finish(FALSE)
  BY DEF ApplyPerform
<1>4. PICK m0 \in Memory, ovs \in [1 .. (Len(ps) + 1) -> Overlay] :
        Trail(m0, ps, Len(ps), ovs) /\ Agrees(mem, m0, ovs[i])
  BY <1>1 DEF BatchInv
<1>5. Foreseen(m0, ovs[i], p, ovs[i + 1])
  BY <1>2, <1>4 DEF Trail
<1>6. out.ok = TRUE /\ Agrees(out.mem, m0, ovs[i + 1])
  BY <1>1, <1>2, <1>4, <1>5, ForeseenPerforms
<1>7. batch'.phase = "apply" /\ batch'.patches = ps /\ batch'.index = i + 1
  BY <1>1, <1>3, <1>6 DEF BatchType
<1>8. i + 1 \in 1 .. (Len(ps) + 1)
  BY <1>1
<1>9. BatchInv'
  BY <1>3, <1>4, <1>6, <1>7, <1>8 DEF BatchInv
<1>10. BatchStep
  BY <1>7 DEF BatchStep
<1> QED BY <1>9, <1>10

LEMMA BatchKept ==
  ASSUME IndInv, BatchInv, [Next]_vars
  PROVE  BatchInv' /\ (UNCHANGED vars \/ BatchStep)
<1>1. ASSUME NEW patches \in Batches, ApplyBegin(patches) PROVE BatchInv' /\ BatchStep
  <2>1. /\ batch'.phase = "validate" /\ batch'.patches = patches /\ batch'.index = 1
        /\ batch'.overlay = NoOverlay /\ batch'.before = mem /\ mem' = mem /\ Idle
    BY <1>1 DEF ApplyBegin
  <2>2. patches \in Seq(Patch)
    BY BoundAssumption DEF Batches
  <2>3. Preserved(mem, mem)
    BY PreservedSame
  <2> DEFINE ovs == [j \in 1 .. 1 |-> NoOverlay]
  <2>4. ovs \in [1 .. 1 -> Overlay] /\ ovs[1] = NoOverlay
    BY NoOverlayType
  <2> HIDE DEF ovs
  <2>5. Trail(mem, patches, 1 - 1, ovs)
    BY <2>4 DEF Trail
  <2>6. 1 \in 1 .. (Len(patches) + 1)
    BY <2>2
  <2>7. BatchInv'
    BY <2>1, <2>3, <2>4, <2>5, <2>6 DEF BatchInv
  <2> QED BY <2>1, <2>7 DEF BatchStep
<1>2. CASE ApplyValidate
  BY <1>2, ValidateKeepsBatch
<1>3. CASE ApplyValidated
  <2> DEFINE ps == batch.patches
  <2>1. /\ batch.phase = "validate" /\ ps \in Seq(Patch) /\ batch.index \in Nat \ {0}
        /\ batch.index > Len(ps) /\ mem \in Memory
    BY <1>3 DEF ApplyValidated, IndInv, TypeOK, BatchType
  <2>2. batch'.phase = "apply" /\ batch'.patches = ps /\ batch'.index = 1 /\ mem' = mem
    BY <1>3 DEF ApplyValidated
  <2>3. batch.index = Len(ps) + 1 /\ batch.index - 1 = Len(ps) /\ 1 \in 1 .. (Len(ps) + 1)
    BY <2>1 DEF BatchInv
  <2>4. PICK ovs \in [1 .. (Len(ps) + 1) -> Overlay] : Trail(mem, ps, Len(ps), ovs)
    BY <2>1, <2>3 DEF BatchInv
  <2>5. Agrees(mem, mem, ovs[1])
    <3>1. ovs[1] = NoOverlay
      BY <2>4 DEF Trail
    <3> QED BY <3>1, PermissionAtResident DEF Agrees, NoOverlay
  <2>6. BatchInv'
    BY <2>1, <2>2, <2>3, <2>4, <2>5 DEF BatchInv
  <2> QED BY <2>2, <2>6 DEF BatchStep
<1>4. CASE ApplyPerform
  BY <1>4, PerformKeepsBatch
<1>5. CASE ApplyEnd
  <2>1. batch'.phase = "idle" /\ last'.ok = TRUE
    BY <1>5 DEF ApplyEnd, Finish, NoBatch
  <2> QED BY <2>1 DEF BatchInv, BatchStep
<1>6. ASSUME Idle, UNCHANGED batch PROVE BatchInv' /\ BatchStep
  BY <1>6 DEF Idle, BatchInv, BatchStep
<1>7. ASSUME NEW outcomes, NEW op, Take(outcomes, op) PROVE BatchInv' /\ BatchStep
  BY <1>6, <1>7 DEF Take
<1>8. ASSUME NEW r \in Page, CompileBlock(r) PROVE BatchInv' /\ BatchStep
  BY <1>6, <1>8 DEF CompileBlock
<1>9. CASE UNCHANGED vars
  BY <1>9 DEF vars, BatchInv
<1> QED
  BY <1>1, <1>2, <1>3, <1>4, <1>5, <1>7, <1>8, <1>9
     DEF Next, SetPageProvider, DoClearDirty, DoMap, DoProtect, DoUnmap, DoReadResidentBytes,
         DoRefresh, DoReadBytes, DoWriteBytes, DoSeed, SeedImage

\* A batch that fails leaves no trace but pages of the provider: for every
\* memory, every batch and every provider, what validate accepts apply performs
\* to the end (memory.cpp validate, apply).
THEOREM BatchesAtomic == Spec => BatchAtomic
<1>1. Init => BatchInv
  BY DEF Init, BatchInv, NoBatch
<1>2. IndInv /\ BatchInv /\ [Next]_vars => BatchInv' /\ [BatchStep]_vars
  BY BatchKept
<1> QED BY <1>1, <1>2, Inductive, PTL DEF Spec, BatchAtomic, BatchStep

-----------------------------------------------------------------------------
(* The page table implements the plain address space of AddressSpace: what *)
(* each operation does to bytes, permissions and dirty bytes.              *)

\* The dirty bytes of page r.
DirtyOf(m, r) == IF Contains(m, r) THEN Stored(m, r).dirty ELSE {}

LEMMA DirtyRangesPages ==
  ASSUME NEW m, Sound(m)
  PROVE  DirtyRanges(m) = {x \in Page \X Offset : x[2] \in DirtyOf(m, x[1])}
<1>1. m.dirtyPages \in SUBSET Page
  BY DEF Sound, Memory
<1>2. \A r \in Page : /\ Lookup(m, r) # Null <=> Contains(m, r)
                      /\ PageOf(m, r) = Stored(m, r)
  BY LookupTable DEF Contains
<1>3. \A r \in Page : DirtyOf(m, r) # {} => r \in m.dirtyPages /\ Contains(m, r)
  BY StoredType DEF DirtyOf
<1>4. ASSUME NEW x \in DirtyRanges(m) PROVE x \in Page \X Offset /\ x[2] \in DirtyOf(m, x[1])
  <2>1. /\ x \in m.dirtyPages \X Offset /\ Lookup(m, x[1]) # Null
        /\ x[2] \in PageOf(m, x[1]).dirty
    BY <1>4 DEF DirtyRanges
  <2>2. x[1] \in Page /\ x[2] \in Offset /\ x \in Page \X Offset
    BY <1>1, <2>1
  <2> QED BY <1>2, <2>1, <2>2 DEF DirtyOf
<1>5. ASSUME NEW x \in Page \X Offset, x[2] \in DirtyOf(m, x[1]) PROVE x \in DirtyRanges(m)
  <2>1. x[1] \in Page /\ DirtyOf(m, x[1]) # {}
    BY <1>5
  <2>2. x[1] \in m.dirtyPages /\ Contains(m, x[1])
    BY <1>3, <2>1
  <2>3. x \in m.dirtyPages \X Offset
    BY <1>5, <2>2
  <2>4. Lookup(m, x[1]) # Null /\ x[2] \in PageOf(m, x[1]).dirty
    BY <1>2, <1>5, <2>1, <2>2 DEF DirtyOf
  <2> QED BY <2>3, <2>4 DEF DirtyRanges
<1> QED BY <1>4, <1>5

\* A page that appears in an access is the provider's, and clean.
LEMMA SuppliedLooks ==
  ASSUME NEW m, NEW m1, Preserved(m, m1), Sound(m1), NEW r \in Page,
         ~Contains(m, r), Contains(m1, r)
  PROVE  /\ \E s \in Seed : /\ Stored(m1, r).bytes = s.bytes
                            /\ Stored(m1, r).permissions = s.permissions
         /\ Stored(m1, r).dirty = {}
<1>1. PICK s \in Seed : [Stored(m1, r) EXCEPT !.generation = 0] = SeedPage(s)
  BY DEF Preserved, Stored
<1> DEFINE p == Stored(m1, r)
           q == [p EXCEPT !.generation = 0]
<1>2. p \in PageRecord
  BY StoredType
<1> HIDE DEF p
<1>3. q.bytes = p.bytes /\ q.permissions = p.permissions /\ q.dirty = p.dirty
  BY <1>2 DEF PageRecord
<1> HIDE DEF q
<1>4. /\ SeedPage(s).bytes = s.bytes /\ SeedPage(s).permissions = s.permissions
      /\ SeedPage(s).dirty = {}
  BY DEF SeedPage, BlankPage
<1>5. q = SeedPage(s)
  BY <1>1 DEF p, q
<1> QED BY <1>3, <1>4, <1>5 DEF p

LEMMA PreservedDirty ==
  ASSUME NEW m, NEW m1, Preserved(m, m1), Sound(m1), NEW r \in Page
  PROVE  DirtyOf(m1, r) = DirtyOf(m, r)
<1>1. CASE Contains(m, r)
  BY <1>1 DEF Preserved, DirtyOf, Stored
<1>2. CASE ~Contains(m, r)
  BY <1>2, SuppliedLooks DEF DirtyOf
<1> QED BY <1>1, <1>2

LEMMA EnsureEffect ==
  ASSUME NEW m, Sound(m), NEW a, NEW n, NEW perm, NEW e \in Ensure(m, a, n, perm)
  PROVE  /\ Sound(e.mem) /\ Preserved(m, e.mem)
         /\ \A r \in Page : Contains(e.mem, r) /\ ~Contains(m, r) => r \in Span(a, n)
         /\ e.ok => \A r \in Span(a, n) :
              Contains(e.mem, r) /\ perm \subseteq Stored(e.mem, r).permissions
<1>0. Sound(e.mem) /\ Preserved(m, e.mem) /\ (e.ok => \A r \in Span(a, n) : Contains(e.mem, r))
  BY EnsureAccessFine, AccessPreserves DEF Fine
<1>1. CASE Wraps(a, n)
  BY <1>0, <1>1 DEF Ensure, Fail
<1>2. CASE ~Wraps(a, n)
  <2> DEFINE S == Span(a, n)
  <2>1. e \in EnsureOutcomes(m, S, perm) /\ S \in SUBSET Page
    BY <1>2, SpanPages DEF Ensure
  <2> HIDE DEF S
  <2>2. PICK ans \in Answers(m, S) :
        \E alloc \in Allocations(m, Supplied(m, S, perm, ans)) :
          e = [ok |-> \A r \in S : ~Refused(m, perm, ans, r),
               mem |-> Materialize(m, S, perm, ans, alloc)]
    BY <2>1 DEF EnsureOutcomes
  <2> DEFINE D == Supplied(m, S, perm, ans)
             R == Reached(m, S, perm, ans)
  <2>3. PICK alloc \in Allocations(m, D) :
          e = [ok |-> \A r \in S : ~Refused(m, perm, ans, r),
               mem |-> Materialize(m, S, perm, ans, alloc)]
    BY <2>2
  <2>4. D \subseteq S /\ D \in SUBSET Page /\ R \in SUBSET Page /\ DOMAIN alloc = D
    BY <2>1 DEF Supplied, Reached, Allocations
  <2>5. \A r \in D : m.table[r] = Null /\ ans[r] \in Seed
    BY <2>4, LookupTable DEF Supplied
  <2> DEFINE m1 == Put(m, alloc, [r \in D |-> SeedPage(ans[r])])
  <2>6. e.mem = Remember(m1, R) /\ (e.ok => \A r \in S : ~Refused(m, perm, ans, r))
    BY <2>3, <2>4 DEF Materialize
  <2>7. \A r \in S : ~Contains(m, r) /\ ~Refused(m, perm, ans, r) => perm \subseteq ans[r].permissions
    BY <2>1, LookupTable DEF Refused, Contains
  <2>8. \A r \in S : Contains(m, r) /\ ~Refused(m, perm, ans, r) =>
          perm \subseteq Stored(m, r).permissions
    BY <2>1, LookupTable DEF Refused, Contains
  <2> HIDE DEF D, R
  <2>9. /\ Sound(m1)
        /\ \A r \in Page : Contains(m1, r) <=> Contains(m, r) \/ r \in D
        /\ \A r \in D : Stored(m1, r).permissions = ans[r].permissions
    BY <2>4, <2>5, SupplyPreserves
  <2> HIDE DEF m1
  <2>10. e.mem.table = m1.table /\ e.mem.heap = m1.heap
    BY <2>4, <2>6, <2>9, RememberSound
  <2>11. /\ \A r \in Page : Contains(e.mem, r) <=> Contains(m, r) \/ r \in D
         /\ \A r \in D : Stored(e.mem, r).permissions = ans[r].permissions
    BY <2>9, <2>10 DEF Contains, Stored
  <2>12. ASSUME e.ok, NEW r \in S PROVE perm \subseteq Stored(e.mem, r).permissions
    <3>1. r \in Page /\ Contains(e.mem, r) /\ ~Refused(m, perm, ans, r)
      BY <1>0, <2>1, <2>6, <2>12 DEF S
    <3>2. CASE Contains(m, r)
      <4>1. Stored(e.mem, r) = Stored(m, r)
        BY <1>0, <3>1, <3>2 DEF Preserved, Stored
      <4> QED BY <2>8, <3>1, <3>2, <4>1
    <3>3. CASE ~Contains(m, r)
      BY <2>7, <2>11, <3>1, <3>3
    <3> QED BY <3>2, <3>3
  <2> QED BY <1>0, <2>4, <2>11, <2>12 DEF S
<1> QED BY <1>1, <1>2

\* Page p1 is page p outside the access.
OutsideSame(p, p1, r, a, n) ==
  /\ p1.permissions = p.permissions
  /\ \A o \in Offset : ~Covers(r, o, a, n) => p1.bytes[o] = p.bytes[o]

\* From m to m1 as the abstract operations allow it.
Written(m, m1, a, n) ==
  /\ \A r \in Span(a, n) : Contains(m1, r) /\ "Write" \in Stored(m1, r).permissions
  /\ \A r \in Page : Contains(m, r) =>
       Contains(m1, r) /\ OutsideSame(Stored(m, r), Stored(m1, r), r, a, n)
  /\ \A r \in Page : Contains(m1, r) /\ ~Contains(m, r) =>
       \E s \in Seed : OutsideSame(s, Stored(m1, r), r, a, n)
  /\ \A r \in Page : DirtyOf(m1, r) = DirtyOf(m, r) \cup OffsetsIn(r, a, n)

Mapped(m, m1, S) ==
  /\ \A r \in S : ~Contains(m, r)
  /\ \A r \in Page : Contains(m1, r) <=> Contains(m, r) \/ r \in S
  /\ \A r \in Page : Contains(m, r) => Stored(m1, r) = Stored(m, r)
  /\ \A r \in Page : DirtyOf(m1, r) = DirtyOf(m, r)

Seeded(m, m1, a, n) ==
  /\ \A r \in Page : Contains(m1, r) <=> Contains(m, r) \/ r \in Span(a, n)
  /\ \A r \in Page : Contains(m, r) /\ r \notin Span(a, n) =>
       /\ Stored(m1, r).bytes = Stored(m, r).bytes
       /\ Stored(m1, r).permissions = Stored(m, r).permissions
  /\ \A r \in Page : Contains(m, r) /\ r \in Span(a, n) =>
       /\ Stored(m, r).permissions \subseteq Stored(m1, r).permissions
       /\ \A o \in Offset : ~Covers(r, o, a, n) => Stored(m1, r).bytes[o] = Stored(m, r).bytes[o]
  /\ \/ \A r \in Page : DirtyOf(m1, r) = DirtyOf(m, r)
     \/ \A r \in Page : DirtyOf(m1, r) = {}

Protected(m, m1, S) ==
  /\ \A r \in Page : Contains(m1, r) <=> Contains(m, r) \/ r \in S
  /\ \A r \in Page : Contains(m, r) /\ r \notin S => Stored(m1, r) = Stored(m, r)
  /\ \A r \in S : IF Contains(m, r) THEN Stored(m1, r).bytes = Stored(m, r).bytes
                  ELSE \E s \in Seed : Stored(m1, r).bytes = s.bytes
  /\ \A r \in Page : DirtyOf(m1, r) = DirtyOf(m, r)

Unmapped(m, m1, S) ==
  /\ \A r \in Page : Contains(m1, r) <=> Contains(m, r) /\ r \notin S
  /\ \A r \in Page : Contains(m1, r) => Stored(m1, r) = Stored(m, r)

Refreshed(m, m1) ==
  /\ \A r \in Page : Contains(m1, r) <=> Contains(m, r)
  /\ \A r \in Page : Contains(m, r) =>
       \/ Stored(m1, r) = Stored(m, r)
       \/ \E s \in Seed : Stored(m1, r).bytes = s.bytes /\ Stored(m1, r).permissions = s.permissions
  /\ \A r \in Page : DirtyOf(m1, r) = DirtyOf(m, r)

Cleared(m, m1) ==
  /\ \A r \in Page : Contains(m1, r) <=> Contains(m, r)
  /\ \A r \in Page : Contains(m, r) =>
       /\ Stored(m1, r).bytes = Stored(m, r).bytes
       /\ Stored(m1, r).permissions = Stored(m, r).permissions
  /\ \A r \in Page : DirtyOf(m1, r) = {}

LEMMA WriteEffect ==
  ASSUME NEW m, Sound(m), NEW raw \in Address, NEW n \in Nat,
         NEW data \in [0 .. (n - 1) -> Byte],
         NEW out \in WriteBytes(m, raw, n, data)
  PROVE  Preserved(m, out.mem) \/ Written(m, out.mem, Canonicalizer[raw], n)
<1> DEFINE a == Canonicalizer[raw]
           S == Span(a, n)
<1>1. PICK e \in Ensure(m, a, n, {"Write"}) :
        out = IF e.ok THEN Done(Store(e.mem, a, n, data)) ELSE e
  BY DEF WriteBytes
<1> DEFINE m1 == e.mem
           m2 == Store(m1, a, n, data)
<1>2. /\ Sound(m1) /\ Preserved(m, m1)
      /\ e.ok => \A r \in S : Contains(m1, r) /\ {"Write"} \subseteq Stored(m1, r).permissions
  BY EnsureEffect
<1>3. CASE ~e.ok
  BY <1>1, <1>2, <1>3
<1>4. CASE e.ok
  <2>1. out.mem = m2
    BY <1>1, <1>4 DEF Done
  <2>2. S \in SUBSET Page /\ \A r \in S : Contains(m1, r) /\ "Write" \in Stored(m1, r).permissions
    BY <1>2, <1>4, SpanPages
  <2>2a. Stores(m1, m2, a, n)
    BY <1>2, <2>2, CanonicalInt, StoreEffect
  <2>3. /\ \A r \in Page : Contains(m2, r) <=> Contains(m1, r)
        /\ \A r \in Page : r \notin S /\ Contains(m1, r) => Stored(m2, r) = Stored(m1, r)
        /\ \A r \in S : /\ Stored(m2, r).permissions = Stored(m1, r).permissions
                        /\ Stored(m2, r).dirty = Stored(m1, r).dirty \cup OffsetsIn(r, a, n)
                        /\ \A o \in Offset : ~Covers(r, o, a, n) =>
                             Stored(m2, r).bytes[o] = Stored(m1, r).bytes[o]
    BY <2>2a DEF Stores
  <2> HIDE DEF m1, m2, S, a
  <2>4. \A r \in Page : r \notin S => OffsetsIn(r, a, n) = {}
    BY DEF OffsetsIn, S, Span
  <2>5. \A r \in Page : Contains(m1, r) => OutsideSame(Stored(m1, r), Stored(m2, r), r, a, n)
    BY <2>3 DEF OutsideSame
  <2>6. ASSUME NEW r \in Page PROVE DirtyOf(m2, r) = DirtyOf(m, r) \cup OffsetsIn(r, a, n)
    <3>1. DirtyOf(m1, r) = DirtyOf(m, r)
      BY <1>2, PreservedDirty
    <3>2. CASE r \in S
      <4>1. Contains(m1, r) /\ Contains(m2, r)
        BY <2>2, <2>3, <3>2
      <4>2. DirtyOf(m2, r) = Stored(m2, r).dirty /\ DirtyOf(m1, r) = Stored(m1, r).dirty
        BY <4>1 DEF DirtyOf
      <4> QED BY <2>3, <3>1, <3>2, <4>2
    <3>3. CASE r \notin S
      <4>1. DirtyOf(m2, r) = DirtyOf(m1, r)
        BY <2>3, <3>3 DEF DirtyOf
      <4> QED BY <2>4, <3>1, <3>3, <4>1
    <3> QED BY <3>2, <3>3
  <2>7. ASSUME NEW r \in Page, Contains(m, r)
        PROVE  Contains(m2, r) /\ OutsideSame(Stored(m, r), Stored(m2, r), r, a, n)
    <3>1. Contains(m1, r) /\ Stored(m1, r) = Stored(m, r)
      BY <1>2, <2>7 DEF Preserved, Stored
    <3> QED BY <2>3, <2>5, <3>1
  <2>8. ASSUME NEW r \in Page, Contains(m2, r), ~Contains(m, r)
        PROVE  \E s \in Seed : OutsideSame(s, Stored(m2, r), r, a, n)
    <3>1. Contains(m1, r)
      BY <2>3, <2>8
    <3>2. PICK s \in Seed : /\ Stored(m1, r).bytes = s.bytes
                            /\ Stored(m1, r).permissions = s.permissions
      BY <1>2, <2>8, <3>1, SuppliedLooks
    <3>3. OutsideSame(Stored(m1, r), Stored(m2, r), r, a, n)
      BY <2>5, <3>1
    <3>4. OutsideSame(s, Stored(m2, r), r, a, n)
      BY <3>2, <3>3 DEF OutsideSame
    <3> QED BY <3>4
  <2>9. \A r \in S : Contains(m2, r) /\ "Write" \in Stored(m2, r).permissions
    BY <2>2, <2>3
  <2> QED BY <2>1, <2>6, <2>7, <2>8, <2>9 DEF Written, S, a
<1> QED BY <1>3, <1>4

LEMMA MapFits ==
  ASSUME NEW m, Sound(m), NEW raw \in Address, NEW n \in Nat,
         NEW perms \in SUBSET MemoryPermission,
         NEW k \in Nat, NEW data \in [0 .. (k - 1) -> Byte],
         ~Wraps(Canonicalizer[raw], n),
         \A r \in Span(Canonicalizer[raw], n) : ~Contains(m, r),
         NEW out \in Map(m, raw, n, perms, data, k)
  PROVE  Mapped(m, out.mem, Span(Canonicalizer[raw], n))
<1> DEFINE S == Span(Canonicalizer[raw], n)
<1>1. /\ out.ok = TRUE
      /\ \A r \in Page : Contains(out.mem, r) <=> Contains(m, r) \/ r \in S
      /\ \A r \in Page : Contains(m, r) => Stored(out.mem, r) = Stored(m, r)
      /\ \A r \in S : Stored(out.mem, r).permissions = perms /\ Stored(out.mem, r).dirty = {}
  BY MapEffect
<1>2. \A r \in Page : DirtyOf(out.mem, r) = DirtyOf(m, r)
  BY <1>1 DEF DirtyOf
<1> QED BY <1>1, <1>2 DEF Mapped

LEMMA MapMaps ==
  ASSUME NEW m, Sound(m), NEW raw \in Address, NEW n \in Nat,
         NEW perms \in SUBSET MemoryPermission,
         NEW k \in Nat, NEW data \in [0 .. (k - 1) -> Byte],
         NEW out \in Map(m, raw, n, perms, data, k)
  PROVE  Preserved(m, out.mem) \/ Mapped(m, out.mem, Span(Canonicalizer[raw], n))
<1> DEFINE S == Span(Canonicalizer[raw], n)
<1>1. CASE ~Wraps(Canonicalizer[raw], n) /\ \A r \in S : ~Contains(m, r)
  <2>1. ~Wraps(Canonicalizer[raw], n)
    BY <1>1
  <2>2. \A r \in Span(Canonicalizer[raw], n) : ~Contains(m, r)
    BY <1>1
  <2>3. Mapped(m, out.mem, Span(Canonicalizer[raw], n))
    BY <2>1, <2>2, MapFits
  <2> QED BY <2>3
<1>2. CASE ~(~Wraps(Canonicalizer[raw], n) /\ \A r \in S : ~Contains(m, r))
  <2>1. out \in {Fail(m), Done(m)}
    BY <1>2 DEF Map
  <2> QED BY <2>1, PreservedSame DEF Fail, Done
<1> QED BY <1>1, <1>2

LEMMA ProtectEffect ==
  ASSUME NEW m, Sound(m), NEW raw \in Address, NEW n,
         NEW perms \in SUBSET MemoryPermission,
         NEW out \in Protect(m, raw, n, perms)
  PROVE  Preserved(m, out.mem) \/ Protected(m, out.mem, Span(Canonicalizer[raw], n))
<1> DEFINE a == Canonicalizer[raw]
           S == Span(a, n)
           new(mm) == [r \in S |-> [PageOf(mm, r) EXCEPT !.permissions = perms]]
<1>1. PICK e \in Ensure(m, a, n, {}) :
        out = IF e.ok THEN Done(Put(e.mem, NoAllocation, new(e.mem))) ELSE e
  BY DEF Protect
<1> DEFINE m1 == e.mem
           m2 == Put(m1, NoAllocation, new(m1))
<1>2. /\ Sound(m1) /\ Preserved(m, m1)
      /\ \A r \in Page : Contains(m1, r) /\ ~Contains(m, r) => r \in S
      /\ e.ok => \A r \in S : Contains(m1, r) /\ {} \subseteq Stored(m1, r).permissions
  BY EnsureEffect
<1>3. CASE ~e.ok
  BY <1>1, <1>2, <1>3
<1>4. CASE e.ok
  <2>1. out.mem = m2
    BY <1>1, <1>4 DEF Done
  <2>2. S \in SUBSET Page /\ \A r \in S : Contains(m1, r)
    BY <1>2, <1>4, SpanPages
  <2>3. \A r \in S : /\ PageOf(m1, r) = Stored(m1, r) /\ Stored(m1, r) \in PageRecord
                     /\ Stored(m1, r).dirty # {} => Stored(m1, r).dirtyListed
                     /\ Stored(m1, r).dirtyListed => r \in m1.dirtyPages
    BY <1>2, <2>2, LookupTable, StoredType
  <2>4. /\ new(m1) \in [S -> PageRecord]
        /\ \A r \in S : /\ new(m1)[r].dirty = Stored(m1, r).dirty
                        /\ new(m1)[r].dirtyListed = Stored(m1, r).dirtyListed
                        /\ new(m1)[r].bytes = Stored(m1, r).bytes
    BY <2>3 DEF PageRecord
  <2> HIDE DEF new, m1, S
  <2>5. \A r \in S : /\ new(m1)[r].dirty # {} => new(m1)[r].dirtyListed
                     /\ new(m1)[r].dirtyListed => r \in m1.dirtyPages
    BY <2>3, <2>4
  <2>6. /\ \A r \in Page : Contains(m2, r) <=> Contains(m1, r)
        /\ \A r \in Page : r \notin S /\ Contains(m1, r) => Stored(m2, r) = Stored(m1, r)
        /\ \A r \in S : /\ Stored(m2, r).bytes = new(m1)[r].bytes
                        /\ Stored(m2, r).dirty = new(m1)[r].dirty
    BY <1>2, <2>2, <2>4, <2>5, RewriteEffect
  <2> HIDE DEF m2
  <2>7. \A r \in S : /\ Stored(m2, r).bytes = Stored(m1, r).bytes
                     /\ Stored(m2, r).dirty = Stored(m1, r).dirty
    BY <2>4, <2>6
  <2>8. \A r \in Page : Contains(m, r) => Contains(m1, r) /\ Stored(m1, r) = Stored(m, r)
    BY <1>2 DEF Preserved, Stored
  <2>9. \A r \in Page : Contains(m2, r) <=> Contains(m, r) \/ r \in S
    BY <1>2, <2>2, <2>6, <2>8
  <2>10. \A r \in Page : Contains(m, r) /\ r \notin S => Stored(m2, r) = Stored(m, r)
    BY <2>6, <2>8
  <2>11. ASSUME NEW r \in S
         PROVE  IF Contains(m, r) THEN Stored(m2, r).bytes = Stored(m, r).bytes
                ELSE \E s \in Seed : Stored(m2, r).bytes = s.bytes
    <3>1. CASE Contains(m, r)
      BY <2>2, <2>7, <2>8, <3>1
    <3>2. CASE ~Contains(m, r)
      <4>1. PICK s \in Seed : Stored(m1, r).bytes = s.bytes
        BY <1>2, <2>2, <3>2, SuppliedLooks
      <4> QED BY <2>7, <3>2, <4>1
    <3> QED BY <3>1, <3>2
  <2>12. ASSUME NEW r \in Page PROVE DirtyOf(m2, r) = DirtyOf(m, r)
    <3>1. DirtyOf(m1, r) = DirtyOf(m, r)
      BY <1>2, PreservedDirty
    <3>2. DirtyOf(m2, r) = DirtyOf(m1, r)
      BY <2>6, <2>7 DEF DirtyOf
    <3> QED BY <3>1, <3>2
  <2> QED BY <2>1, <2>9, <2>10, <2>11, <2>12 DEF Protected, S
<1> QED BY <1>3, <1>4

LEMMA UnmapEffect ==
  ASSUME NEW m, Sound(m), NEW raw \in Address, NEW n, NEW out \in Unmap(m, raw, n)
  PROVE  Preserved(m, out.mem) \/ Unmapped(m, out.mem, Span(Canonicalizer[raw], n))
<1> DEFINE a == Canonicalizer[raw]
           S == Span(a, n)
<1>1. PICK e \in Ensure(m, a, n, {}) :
        out = IF e.ok /\ n > 0 THEN Done(Erase(e.mem, S)) ELSE e
  BY DEF Unmap
<1> DEFINE m1 == e.mem
           m2 == Erase(m1, S)
<1>2. /\ Sound(m1) /\ Preserved(m, m1)
      /\ \A r \in Page : Contains(m1, r) /\ ~Contains(m, r) => r \in S
  BY EnsureEffect
<1>3. CASE out = e
  BY <1>2, <1>3
<1>4. CASE out # e
  <2>1. out.mem = m2
    BY <1>1, <1>4 DEF Done
  <2>2. S \in SUBSET Page
    BY SpanPages
  <2>3. /\ \A r \in Page : Contains(m2, r) <=> Contains(m1, r) /\ r \notin S
        /\ \A r \in Page : Contains(m2, r) => Stored(m2, r) = Stored(m1, r)
    BY <1>2, <2>2, EraseEffect
  <2> HIDE DEF m2, m1, S
  <2>4. \A r \in Page : Contains(m, r) => Contains(m1, r) /\ Stored(m1, r) = Stored(m, r)
    BY <1>2 DEF Preserved, Stored
  <2> QED BY <1>2, <2>1, <2>3, <2>4 DEF Unmapped, S
<1> QED BY <1>3, <1>4

LEMMA ClearEffect ==
  ASSUME NEW m, Sound(m), NEW out \in ClearDirty(m)
  PROVE  Sound(out.mem) /\ Cleared(m, out.mem)
<1>1. /\ Fine(m, out)
      /\ \A r \in Page : Contains(out.mem, r) <=> Contains(m, r)
      /\ \A r \in Page : Contains(m, r) =>
           /\ Stored(out.mem, r).bytes = Stored(m, r).bytes
           /\ Stored(out.mem, r).permissions = Stored(m, r).permissions
           /\ Stored(out.mem, r).dirty = {}
  BY ClearFine
<1>2. \A r \in Page : DirtyOf(out.mem, r) = {}
  BY <1>1 DEF DirtyOf
<1> QED BY <1>1, <1>2 DEF Cleared, Fine

LEMMA SeedEffect ==
  ASSUME NEW m, Sound(m), NEW raw \in Address, NEW n \in Nat,
         NEW data \in [0 .. (n - 1) -> Byte], NEW perms \in SUBSET MemoryPermission,
         NEW out \in SeedBytes(m, raw, n, data, perms)
  PROVE  (Preserved(m, out.mem) /\ out.mem = m) \/ Seeded(m, out.mem, Canonicalizer[raw], n)
<1> DEFINE a == Canonicalizer[raw]
           S == Span(a, n)
           Old(r) == IF Contains(m, r) THEN m.heap[m.table[r]] ELSE BlankPage
           Granted(r) == [Old(r) EXCEPT !.permissions = @ \cup perms]
           new == [r \in S |-> Overwrite(Granted(r), r, a, data, n)]
           absent == {r \in S : ~Contains(m, r)}
           After(alloc) == Put(m, alloc, new)
<1>1. CASE n = 0 \/ Wraps(a, n)
  <2>1. out \in {Fail(m), Done(m)}
    BY <1>1 DEF SeedBytes
  <2> QED BY <2>1, PreservedSame DEF Fail, Done
<1>2. CASE ~(n = 0 \/ Wraps(a, n))
  <2>1. PICK alloc \in Allocations(m, absent) : out = Done(Remember(After(alloc), S))
    BY <1>2 DEF SeedBytes
  <2>2. a \in Int
    BY CanonicalInt
  <2> HIDE DEF a
  <2>3. ASSUME NEW r \in S
        PROVE  /\ Old(r) \in PageRecord
               /\ Old(r).dirty # {} => Old(r).dirtyListed
               /\ Old(r).dirtyListed => r \in m.dirtyPages
               /\ Contains(m, r) => Old(r) = Stored(m, r)
               /\ Old(r).dirty = DirtyOf(m, r)
    BY StoredType, BlankPageType, SpanPages DEF Stored, BlankPage, DirtyOf
  <2>4. ASSUME NEW r \in S
        PROVE  /\ Granted(r) \in PageRecord
               /\ Granted(r).dirty = Old(r).dirty
               /\ Granted(r).dirtyListed = Old(r).dirtyListed
               /\ Granted(r).bytes = Old(r).bytes
               /\ Old(r).permissions \subseteq Granted(r).permissions
    BY <2>3 DEF PageRecord
  <2> HIDE DEF Old, Granted
  <2>5. /\ new \in [S -> PageRecord]
        /\ \A r \in S : new[r].dirty = Old(r).dirty /\ new[r].dirtyListed = Old(r).dirtyListed
    BY <2>2, <2>4, OverwriteType, SpanPages
  <2>5a. \A r \in S : /\ new[r].permissions = Granted(r).permissions
                      /\ \A o \in Offset : ~Covers(r, o, a, n) => new[r].bytes[o] = Granted(r).bytes[o]
    BY <2>4 DEF Overwrite, PageRecord
  <2>6. CanPut(m, alloc, absent, new, S)
    BY <2>3, <2>5, SpanPages DEF CanPut, Contains
  <2> HIDE DEF new
  <2>7. /\ Sound(After(alloc))
        /\ \A r \in Page : After(alloc).table[r] = IF r \in absent THEN alloc[r] ELSE m.table[r]
        /\ \A r \in Page : r \notin S /\ Contains(m, r) => Stored(After(alloc), r) = Stored(m, r)
        /\ \A r \in S : /\ Contains(After(alloc), r)
                        /\ Stored(After(alloc), r) =
                             [new[r] EXCEPT !.generation = FreshGeneration(m, S, r)]
    BY <2>6, PutSound
  <2> HIDE DEF After, absent
  <2> DEFINE m2 == Remember(After(alloc), S)
  <2>8. m2.table = After(alloc).table /\ m2.heap = After(alloc).heap /\ out.mem = m2
    BY <2>1, <2>7, SpanPages, RememberSound DEF Done
  <2> HIDE DEF m2
  <2>9. /\ \A r \in Page : r \notin S /\ Contains(m, r) => Stored(m2, r) = Stored(m, r)
        /\ \A r \in S : /\ Contains(m2, r)
                        /\ Stored(m2, r) = [new[r] EXCEPT !.generation = FreshGeneration(m, S, r)]
    BY <2>7, <2>8 DEF Contains, Stored
  <2>10. \A r \in Page : Contains(m2, r) <=> Contains(m, r) \/ r \in S
    BY <2>7, <2>8, <2>9 DEF Contains, absent
  <2>11. \A r \in S : /\ Stored(m2, r).bytes = new[r].bytes
                      /\ Stored(m2, r).permissions = new[r].permissions
                      /\ Stored(m2, r).dirty = new[r].dirty
    BY <2>5, <2>9 DEF PageRecord
  <2>12. ASSUME NEW r \in Page, Contains(m, r), r \in S
         PROVE  /\ Stored(m, r).permissions \subseteq Stored(m2, r).permissions
                /\ \A o \in Offset : ~Covers(r, o, a, n) =>
                     Stored(m2, r).bytes[o] = Stored(m, r).bytes[o]
    <3>1. Old(r) = Stored(m, r)
      BY <2>3, <2>12
    <3>2. /\ Stored(m2, r).bytes = new[r].bytes
          /\ Stored(m2, r).permissions = Granted(r).permissions
      BY <2>5a, <2>11, <2>12
    <3>3. /\ Granted(r).bytes = Old(r).bytes
          /\ Old(r).permissions \subseteq Granted(r).permissions
      BY <2>4, <2>12
    <3>4. \A o \in Offset : ~Covers(r, o, a, n) => new[r].bytes[o] = Granted(r).bytes[o]
      BY <2>5a, <2>12
    <3> QED BY <3>1, <3>2, <3>3, <3>4
  <2>13. ASSUME NEW r \in Page PROVE DirtyOf(m2, r) = DirtyOf(m, r)
    <3>1. CASE r \in S
      <4>1. DirtyOf(m2, r) = Stored(m2, r).dirty
        BY <2>9, <3>1 DEF DirtyOf
      <4>2. Stored(m2, r).dirty = new[r].dirty /\ new[r].dirty = Old(r).dirty
        BY <2>5, <2>11, <3>1
      <4>3. Old(r).dirty = DirtyOf(m, r)
        BY <2>3, <3>1
      <4> QED BY <4>1, <4>2, <4>3
    <3>2. CASE r \notin S
      BY <2>9, <2>10, <3>2 DEF DirtyOf
    <3> QED BY <3>1, <3>2
  <2> HIDE DEF S
  <2>14. Seeded(m, m2, a, n)
    BY <2>9, <2>10, <2>12, <2>13 DEF Seeded, S
  <2> QED BY <2>8, <2>14 DEF a
<1> QED BY <1>1, <1>2

LEMMA RefreshEffect ==
  ASSUME NEW m, Sound(m), NEW raw \in Address, NEW n, NEW out \in Refresh(m, raw, n)
  PROVE  Preserved(m, out.mem) \/ Refreshed(m, out.mem)
<1> DEFINE a == Canonicalizer[raw]
           S == Span(a, n) \ Missing(m, Span(a, n))
           Before(ans) == {r \in S : \A q \in S : q < r => ans[q] # ProviderError}
           Hit(ans) == {r \in Before(ans) : ans[r] \in Seed}
           New(ans, r) == [PageOf(m, r) EXCEPT !.bytes = ans[r].bytes,
                                               !.permissions = ans[r].permissions]
           After(ans) == Put(m, NoAllocation, [r \in Hit(ans) |-> New(ans, r)])
<1>1. CASE n = 0 \/ ~m.provider \/ Wraps(a, n)
  <2>1. out \in {Fail(m), Done(m)}
    BY <1>1 DEF Refresh
  <2> QED BY <2>1, PreservedSame DEF Fail, Done
<1>2. CASE ~(n = 0 \/ ~m.provider \/ Wraps(a, n))
  <2>1. PICK ans \in [S -> Seed \cup {NoSeed, ProviderError}] :
          out = [ok |-> \A r \in S : ans[r] # ProviderError,
                 mem |-> Remember(After(ans), Before(ans))]
    BY <1>2 DEF Refresh
  <2>2. S \in SUBSET Page /\ \A r \in S : Contains(m, r)
    BY SpanPages, LookupTable DEF Missing, Contains
  <2> DEFINE H == Hit(ans)
             new == [r \in H |-> New(ans, r)]
  <2>3. /\ H \in SUBSET Page /\ Before(ans) \in SUBSET Page
        /\ \A r \in H : Contains(m, r) /\ ans[r] \in Seed
    BY <2>2
  <2>4. \A r \in H : PageOf(m, r) = Stored(m, r) /\ Stored(m, r) \in PageRecord
    BY <2>3, LookupTable, StoredType
  <2>5. ASSUME NEW r \in H
        PROVE  /\ New(ans, r) \in PageRecord
               /\ New(ans, r).dirty = Stored(m, r).dirty
               /\ New(ans, r).dirtyListed = Stored(m, r).dirtyListed
               /\ New(ans, r).bytes = ans[r].bytes
               /\ New(ans, r).permissions = ans[r].permissions
    BY <2>3, <2>4, SeedAssumption DEF PageRecord
  <2> HIDE DEF H, S, New
  <2>6. /\ new \in [H -> PageRecord] /\ \A r \in H : new[r] = New(ans, r)
    BY <2>5
  <2>7. After(ans) = Put(m, NoAllocation, new)
    BY DEF H
  <2> HIDE DEF new, After, Before
  <2>8. \A r \in H : /\ new[r].dirty # {} => new[r].dirtyListed
                     /\ new[r].dirtyListed => r \in m.dirtyPages
    BY <2>3, <2>5, <2>6, StoredType
  <2> DEFINE m1 == Put(m, NoAllocation, new)
  <2>9. /\ Sound(m1)
        /\ \A r \in Page : Contains(m1, r) <=> Contains(m, r)
        /\ \A r \in Page : r \notin H /\ Contains(m, r) => Stored(m1, r) = Stored(m, r)
        /\ \A r \in H : /\ Stored(m1, r).bytes = new[r].bytes
                        /\ Stored(m1, r).permissions = new[r].permissions
                        /\ Stored(m1, r).dirty = new[r].dirty
    BY <2>3, <2>6, <2>8, RewriteEffect
  <2> HIDE DEF m1
  <2>10. out.mem = Remember(m1, Before(ans))
    BY <2>1, <2>7 DEF m1
  <2>11. out.mem.table = m1.table /\ out.mem.heap = m1.heap
    BY <2>3, <2>9, <2>10, RememberSound
  <2>12. \A r \in Page : Stored(out.mem, r) = Stored(m1, r) /\ (Contains(out.mem, r) <=> Contains(m, r))
    BY <2>9, <2>11 DEF Contains, Stored
  <2>13. ASSUME NEW r \in H
         PROVE  /\ Stored(m1, r).bytes = ans[r].bytes
                /\ Stored(m1, r).permissions = ans[r].permissions
                /\ Stored(m1, r).dirty = Stored(m, r).dirty
    BY <2>5, <2>6, <2>9
  <2>14. ASSUME NEW r \in Page, Contains(m, r)
         PROVE  \/ Stored(out.mem, r) = Stored(m, r)
                \/ \E s \in Seed : /\ Stored(out.mem, r).bytes = s.bytes
                                   /\ Stored(out.mem, r).permissions = s.permissions
    BY <2>3, <2>9, <2>12, <2>13, <2>14
  <2>15. ASSUME NEW r \in Page PROVE DirtyOf(out.mem, r) = DirtyOf(m, r)
    BY <2>9, <2>12, <2>13 DEF DirtyOf
  <2> QED BY <2>12, <2>14, <2>15 DEF Refreshed
<1> QED BY <1>1, <1>2

\* The resident pages as a caller sees them.
SeenPages(m) ==
  [r \in {q \in Page : Contains(m, q)} |->
     [bytes |-> m.heap[m.table[r]].bytes, permissions |-> m.heap[m.table[r]].permissions]]

\* p shows the pages of m.
Shows(p, m) ==
  /\ DOMAIN p = {r \in Page : Contains(m, r)}
  /\ \A r \in Page : Contains(m, r) =>
       /\ p[r] = [bytes |-> Stored(m, r).bytes, permissions |-> Stored(m, r).permissions]
       /\ p[r].bytes = Stored(m, r).bytes
       /\ p[r].permissions = Stored(m, r).permissions

LEMMA Seen ==
  ASSUME NEW m
  PROVE  Shows(SeenPages(m), m)
BY DEF SeenPages, Stored, Shows

LEMMA SameDirty ==
  ASSUME NEW m, NEW m1, Sound(m), Sound(m1), \A r \in Page : DirtyOf(m1, r) = DirtyOf(m, r)
  PROVE  DirtyRanges(m1) = DirtyRanges(m)
<1>1. /\ DirtyRanges(m) = {x \in Page \X Offset : x[2] \in DirtyOf(m, x[1])}
      /\ DirtyRanges(m1) = {x \in Page \X Offset : x[2] \in DirtyOf(m1, x[1])}
  BY DirtyRangesPages
<1>2. \A x \in Page \X Offset : DirtyOf(m1, x[1]) = DirtyOf(m, x[1])
  OBVIOUS
<1> QED BY <1>1, <1>2

\* The bytes and the pages of an access, in the terms of both specifications.
LEMMA SpanBytes ==
  ASSUME NEW a \in Int, NEW n \in Int
  PROVE  /\ \A r \in Page, o \in Offset : <<r, o>> \in Visible!Bytes(a, n) <=> Covers(r, o, a, n)
         /\ Visible!Bytes(a, n) \subseteq Page \X Offset
         /\ Visible!PagesOf(Visible!Bytes(a, n)) = Span(a, n)
<1>1. Visible!Bytes(a, n) = {x \in Page \X Offset : Covers(x[1], x[2], a, n)}
  BY DEF Visible!Bytes, Visible!AllPages, Visible!AllOffsets, Page, Offset, Covers
<1>2. \A r \in Page, o \in Offset : <<r, o>> \in Visible!Bytes(a, n) <=> Covers(r, o, a, n)
  BY <1>1
<1>3. \A r \in Page : r \in Visible!PagesOf(Visible!Bytes(a, n)) <=> \E o \in Offset : Covers(r, o, a, n)
  <2>1. ASSUME NEW r \in Page, NEW o \in Offset, Covers(r, o, a, n)
        PROVE  r \in Visible!PagesOf(Visible!Bytes(a, n))
    <3>1. <<r, o>> \in Visible!Bytes(a, n) /\ <<r, o>>[1] = r
      BY <1>2, <2>1
    <3> QED BY <3>1 DEF Visible!PagesOf
  <2>2. ASSUME NEW r \in Page, r \in Visible!PagesOf(Visible!Bytes(a, n))
        PROVE  \E o \in Offset : Covers(r, o, a, n)
    BY <1>1, <2>2 DEF Visible!PagesOf
  <2> QED BY <2>1, <2>2
<1>4. \A r \in Visible!PagesOf(Visible!Bytes(a, n)) : r \in Page
  BY <1>1 DEF Visible!PagesOf
<1> QED BY <1>1, <1>2, <1>3, <1>4 DEF Span

\* An access to pages that are there, or that the provider adds.
LEMMA AccessStep ==
  ASSUME Sound(mem), Sound(mem'), Preserved(mem, mem')
  PROVE  Visible!Access
<1> DEFINE P == SeenPages(mem)
           Q == SeenPages(mem')
<1>1. DirtyRanges(mem') = DirtyRanges(mem)
  BY PreservedDirty, SameDirty
<1>2. Shows(P, mem) /\ Shows(Q, mem')
  BY Seen
<1> HIDE DEF P, Q
<1>3. \A r \in DOMAIN P : r \in DOMAIN Q /\ Q[r].permissions = P[r].permissions /\ Q[r].bytes = P[r].bytes
  BY <1>2 DEF Preserved, Stored, Shows
<1>4. ASSUME NEW r \in DOMAIN Q \ DOMAIN P
      PROVE  \E s \in Seed : Q[r].permissions = s.permissions /\ Q[r].bytes = s.bytes
  <2>1. r \in Page /\ Contains(mem', r) /\ ~Contains(mem, r)
    BY <1>2 DEF Shows
  <2> QED BY <1>2, <2>1, SuppliedLooks DEF Shows
<1>5. /\ DOMAIN P \subseteq DOMAIN Q
      /\ \A r \in DOMAIN P : /\ Q[r].permissions = P[r].permissions
                             /\ \A o \in Visible!AllOffsets : <<r, o>> \notin {} =>
                                  Q[r].bytes[o] = P[r].bytes[o]
      /\ \A r \in DOMAIN Q \ DOMAIN P : \E s \in Seed :
           /\ Q[r].permissions = s.permissions
           /\ \A o \in Visible!AllOffsets : <<r, o>> \notin {} => Q[r].bytes[o] = s.bytes[o]
  BY <1>3, <1>4
<1>6. Visible!OnlyBytes({})
  BY <1>5 DEF Visible!OnlyBytes, Visible!Keeps, P, Q, SeenPages
<1> QED BY <1>1, <1>6 DEF Visible!Access

LEMMA WriteStep ==
  ASSUME Sound(mem), Sound(mem'), NEW a \in Int, NEW n \in Int, Written(mem, mem', a, n)
  PROVE  Visible!Write(Visible!Bytes(a, n))
<1> DEFINE P == SeenPages(mem)
           Q == SeenPages(mem')
           T == Visible!Bytes(a, n)
<1>1. Shows(P, mem) /\ Shows(Q, mem')
  BY Seen
<1>2. /\ \A r \in Page, o \in Offset : <<r, o>> \in T <=> Covers(r, o, a, n)
      /\ T \subseteq Page \X Offset
      /\ Visible!PagesOf(T) = Span(a, n)
      /\ Visible!AllOffsets = Offset
  BY SpanBytes DEF Visible!AllOffsets, Offset
<1> HIDE DEF P, Q, T
<1>3. DirtyRanges(mem') = DirtyRanges(mem) \cup T
  <2>1. /\ DirtyRanges(mem) = {x \in Page \X Offset : x[2] \in DirtyOf(mem, x[1])}
        /\ DirtyRanges(mem') = {x \in Page \X Offset : x[2] \in DirtyOf(mem', x[1])}
    BY DirtyRangesPages
  <2>2. \A x \in Page \X Offset :
          x[2] \in DirtyOf(mem', x[1]) <=> x[2] \in DirtyOf(mem, x[1]) \/ Covers(x[1], x[2], a, n)
    BY DEF Written, OffsetsIn
  <2>3. \A x \in Page \X Offset : x \in T <=> Covers(x[1], x[2], a, n)
    BY <1>2
  <2> QED BY <1>2, <2>1, <2>2, <2>3
<1>4. /\ Span(a, n) \subseteq DOMAIN Q
      /\ \A r \in Span(a, n) : "Write" \in Q[r].permissions
  BY <1>1, SpanPages DEF Written, Shows
<1>5. \A r \in DOMAIN P : r \in DOMAIN Q /\ OutsideSame(P[r], Q[r], r, a, n)
  BY <1>1 DEF Written, Shows, OutsideSame
<1>6. ASSUME NEW r \in DOMAIN Q \ DOMAIN P
      PROVE  \E s \in Seed : OutsideSame(s, Q[r], r, a, n)
  <2>1. r \in Page /\ Contains(mem', r) /\ ~Contains(mem, r)
    BY <1>1 DEF Shows
  <2>2. PICK s \in Seed : OutsideSame(s, Stored(mem', r), r, a, n)
    BY <2>1 DEF Written
  <2>3. OutsideSame(s, Q[r], r, a, n)
    BY <1>1, <2>1, <2>2 DEF Shows, OutsideSame
  <2> QED BY <2>3
<1>7. ASSUME NEW r \in Page, NEW p, OutsideSame(p, Q[r], r, a, n)
      PROVE  /\ Q[r].permissions = p.permissions
             /\ \A o \in Visible!AllOffsets : <<r, o>> \notin T => Q[r].bytes[o] = p.bytes[o]
  BY <1>2, <1>7 DEF OutsideSame
<1>8. /\ DOMAIN P \subseteq DOMAIN Q
      /\ \A r \in DOMAIN P : /\ Q[r].permissions = P[r].permissions
                             /\ \A o \in Visible!AllOffsets : <<r, o>> \notin T =>
                                  Q[r].bytes[o] = P[r].bytes[o]
  BY <1>1, <1>5, <1>7 DEF Shows
<1>9. ASSUME NEW r \in DOMAIN Q \ DOMAIN P
      PROVE  \E s \in Seed :
           /\ Q[r].permissions = s.permissions
           /\ \A o \in Visible!AllOffsets : <<r, o>> \notin T => Q[r].bytes[o] = s.bytes[o]
  <2>1. PICK s \in Seed : OutsideSame(s, Q[r], r, a, n)
    BY <1>6
  <2>2. r \in Page
    BY <1>1 DEF Shows
  <2> QED BY <1>7, <2>1, <2>2
<1>10. Visible!OnlyBytes(T)
  BY <1>8, <1>9 DEF Visible!OnlyBytes, Visible!Keeps, P, Q, SeenPages
<1>11. Visible!PagesOf(T) \subseteq DOMAIN Q /\ \A r \in Visible!PagesOf(T) : "Write" \in Q[r].permissions
  BY <1>2, <1>4
<1>12. Visible!Write(T)
  BY <1>3, <1>10, <1>11 DEF Visible!Write, Q, SeenPages
<1> QED BY <1>12 DEF T

LEMMA MapStep ==
  ASSUME Sound(mem), Sound(mem'), NEW S \in SUBSET Page, Mapped(mem, mem', S)
  PROVE  Visible!Map(S)
<1> DEFINE P == SeenPages(mem)
           Q == SeenPages(mem')
<1>1. Shows(P, mem) /\ Shows(Q, mem')
  BY Seen
<1>2. DirtyRanges(mem') = DirtyRanges(mem)
  BY SameDirty DEF Mapped
<1> HIDE DEF P, Q
<1>3. /\ S \cap DOMAIN P = {}
      /\ DOMAIN Q = DOMAIN P \cup S
      /\ \A r \in DOMAIN P : Q[r] = P[r]
  BY <1>1 DEF Mapped, Shows
<1> QED BY <1>2, <1>3 DEF Visible!Map, P, Q, SeenPages

LEMMA ProtectStep ==
  ASSUME Sound(mem), Sound(mem'), NEW S \in SUBSET Page, Protected(mem, mem', S)
  PROVE  Visible!Protect(S)
<1> DEFINE P == SeenPages(mem)
           Q == SeenPages(mem')
<1>1. Shows(P, mem) /\ Shows(Q, mem')
  BY Seen
<1>2. DirtyRanges(mem') = DirtyRanges(mem)
  BY SameDirty DEF Protected
<1> HIDE DEF P, Q
<1>3. /\ DOMAIN Q = DOMAIN P \cup S
      /\ \A r \in DOMAIN P \ S : Q[r] = P[r]
  BY <1>1 DEF Protected, Shows
<1>4. ASSUME NEW r \in S
      PROVE  \E s \in (IF r \in DOMAIN P THEN {P[r]} ELSE Seed) : Q[r].bytes = s.bytes
  <2>1. Contains(mem', r) /\ (Contains(mem, r) <=> r \in DOMAIN P)
    BY <1>1 DEF Protected, Shows
  <2>2. CASE Contains(mem, r)
    BY <1>1, <2>1, <2>2 DEF Protected, Shows
  <2>3. CASE ~Contains(mem, r)
    BY <1>1, <2>1, <2>3 DEF Protected, Shows
  <2> QED BY <2>2, <2>3
<1> QED BY <1>2, <1>3, <1>4 DEF Visible!Protect, P, Q, SeenPages

LEMMA UnmapStep ==
  ASSUME Sound(mem), Sound(mem'), NEW S \in SUBSET Page, Unmapped(mem, mem', S)
  PROVE  Visible!Unmap(S)
<1> DEFINE P == SeenPages(mem)
           Q == SeenPages(mem')
<1>1. Shows(P, mem) /\ Shows(Q, mem')
  BY Seen
<1>2. DirtyRanges(mem') = {x \in DirtyRanges(mem) : x[1] \notin S}
  <2>1. /\ DirtyRanges(mem) = {x \in Page \X Offset : x[2] \in DirtyOf(mem, x[1])}
        /\ DirtyRanges(mem') = {x \in Page \X Offset : x[2] \in DirtyOf(mem', x[1])}
    BY DirtyRangesPages
  <2>2. \A r \in Page : DirtyOf(mem', r) = IF r \in S THEN {} ELSE DirtyOf(mem, r)
    BY DEF Unmapped, DirtyOf
  <2>3. \A x \in Page \X Offset :
          x[2] \in DirtyOf(mem', x[1]) <=> x[2] \in DirtyOf(mem, x[1]) /\ x[1] \notin S
    BY <2>2
  <2> QED BY <2>1, <2>3
<1> HIDE DEF P, Q
<1>3. /\ DOMAIN Q = DOMAIN P \ S
      /\ \A r \in DOMAIN Q : Q[r] = P[r]
  BY <1>1 DEF Unmapped, Shows
<1> QED BY <1>2, <1>3 DEF Visible!Unmap, P, Q, SeenPages

LEMMA SeedStep ==
  ASSUME Sound(mem), Sound(mem'), NEW a \in Int, NEW n \in Int, Seeded(mem, mem', a, n)
  PROVE  Visible!SeedBytes(Visible!Bytes(a, n))
<1> DEFINE P == SeenPages(mem)
           Q == SeenPages(mem')
           T == Visible!Bytes(a, n)
<1>1. Shows(P, mem) /\ Shows(Q, mem')
  BY Seen
<1>2. /\ \A r \in Page, o \in Offset : <<r, o>> \in T <=> Covers(r, o, a, n)
      /\ Visible!PagesOf(T) = Span(a, n)
      /\ Visible!AllOffsets = Offset
  BY SpanBytes DEF Visible!AllOffsets, Offset
<1> HIDE DEF P, Q, T
<1>3. DirtyRanges(mem') \in {DirtyRanges(mem), {}}
  <2>1. CASE \A r \in Page : DirtyOf(mem', r) = DirtyOf(mem, r)
    BY <2>1, SameDirty
  <2>2. CASE \A r \in Page : DirtyOf(mem', r) = {}
    BY <2>2, DirtyRangesPages
  <2> QED BY <2>1, <2>2 DEF Seeded
<1>4. DOMAIN Q = DOMAIN P \cup Span(a, n)
  BY <1>1, SpanPages DEF Seeded, Shows
<1>5. \A r \in DOMAIN P \ Span(a, n) : Q[r] = P[r]
  BY <1>1 DEF Seeded, Shows
<1>6. \A r \in DOMAIN P \cap Span(a, n) :
        /\ P[r].permissions \subseteq Q[r].permissions
        /\ \A o \in Offset : ~Covers(r, o, a, n) => Q[r].bytes[o] = P[r].bytes[o]
  BY <1>1 DEF Seeded, Shows
<1>7. \A r \in DOMAIN P : r \in Page
  BY <1>1 DEF Shows
<1>8. /\ DOMAIN Q = DOMAIN P \cup Visible!PagesOf(T)
      /\ \A r \in DOMAIN P \ Visible!PagesOf(T) : Q[r] = P[r]
      /\ \A r \in DOMAIN P \cap Visible!PagesOf(T) :
           /\ P[r].permissions \subseteq Q[r].permissions
           /\ \A o \in Visible!AllOffsets : <<r, o>> \notin T => Q[r].bytes[o] = P[r].bytes[o]
  BY <1>2, <1>4, <1>5, <1>6, <1>7
<1>9. Visible!SeedBytes(T)
  BY <1>3, <1>8 DEF Visible!SeedBytes, P, Q, SeenPages
<1> QED BY <1>9 DEF T

LEMMA RefreshStep ==
  ASSUME Sound(mem), Sound(mem'), Refreshed(mem, mem')
  PROVE  Visible!Refresh
<1> DEFINE P == SeenPages(mem)
           Q == SeenPages(mem')
<1>1. Shows(P, mem) /\ Shows(Q, mem')
  BY Seen
<1>2. DirtyRanges(mem') = DirtyRanges(mem)
  BY SameDirty DEF Refreshed
<1> HIDE DEF P, Q
<1>3. DOMAIN Q = DOMAIN P
  BY <1>1 DEF Refreshed, Shows
<1>4. ASSUME NEW r \in DOMAIN P PROVE Q[r] = P[r] \/ Q[r] \in Seed
  <2>1. r \in Page /\ Contains(mem, r) /\ Contains(mem', r)
    BY <1>1 DEF Refreshed, Shows
  <2>2. CASE Stored(mem', r) = Stored(mem, r)
    BY <1>1, <2>1, <2>2 DEF Shows
  <2>3. CASE \E s \in Seed : Stored(mem', r).bytes = s.bytes /\ Stored(mem', r).permissions = s.permissions
    <3>1. PICK s \in Seed : Stored(mem', r).bytes = s.bytes /\ Stored(mem', r).permissions = s.permissions
      BY <2>3
    <3>2. Q[r] = [bytes |-> s.bytes, permissions |-> s.permissions]
      BY <1>1, <2>1, <3>1 DEF Shows
    <3>3. s = [bytes |-> s.bytes, permissions |-> s.permissions]
      BY SeedAssumption
    <3> QED BY <3>2, <3>3
  <2> QED BY <2>1, <2>2, <2>3 DEF Refreshed
<1> QED BY <1>2, <1>3, <1>4 DEF Visible!Refresh, P, Q, SeenPages

LEMMA ClearStep ==
  ASSUME Sound(mem), Sound(mem'), Cleared(mem, mem')
  PROVE  Visible!ClearDirty
<1>1. Shows(SeenPages(mem), mem) /\ Shows(SeenPages(mem'), mem')
  BY Seen
<1>2. DirtyRanges(mem') = {}
  BY DirtyRangesPages DEF Cleared
<1>3. SeenPages(mem') = SeenPages(mem)
  BY DEF Cleared, SeenPages, Stored
<1> QED BY <1>2, <1>3 DEF Visible!ClearDirty, SeenPages

\* An access of the program is one of the abstract specification's.
LEMMA AccessBytesOf ==
  ASSUME NEW raw \in Address, NEW n \in 0 .. MaxAccess
  PROVE  /\ Canonicalizer[raw] \in Int /\ n \in Int
         /\ Visible!Bytes(Canonicalizer[raw], n) \in Visible!AccessBytes
         /\ Visible!PagesOf(Visible!Bytes(Canonicalizer[raw], n)) = Span(Canonicalizer[raw], n)
         /\ Span(Canonicalizer[raw], n) \in SUBSET Page
<1>1. n \in Int
  BY BoundAssumption
<1>2. Canonicalizer[raw] \in 0 .. (PageSize * NumPages - 1)
  BY CanonicalizerAssumption DEF Address, AddressMax
<1>3. Visible!Bytes(Canonicalizer[raw], n) \in Visible!AccessBytes
  BY <1>2 DEF Visible!AccessBytes
<1> QED BY <1>1, <1>3, CanonicalInt, SpanBytes, SpanPages

\* What each operation does, a step of the abstract specification does.
LEMMA MapRefines ==
  ASSUME Sound(mem), Sound(mem'), NEW raw \in Address, NEW n \in 0 .. MaxAccess,
         NEW perms \in SUBSET MemoryPermission,
         NEW k \in Nat, NEW data \in [0 .. (k - 1) -> Byte],
         NEW out \in Map(mem, raw, n, perms, data, k), mem' = out.mem
  PROVE  Visible!Next
<1> DEFINE S == Span(Canonicalizer[raw], n)
<1>1. n \in Nat
  BY BoundAssumption
<1>2. Preserved(mem, out.mem) \/ Mapped(mem, out.mem, S)
  BY <1>1, MapMaps
<1>3. /\ Visible!Bytes(Canonicalizer[raw], n) \in Visible!AccessBytes
      /\ Visible!PagesOf(Visible!Bytes(Canonicalizer[raw], n)) = S
      /\ S \in SUBSET Page
  BY AccessBytesOf
<1> HIDE DEF S
<1>4. CASE Preserved(mem, mem')
  BY <1>4, AccessStep DEF Visible!Next
<1>5. CASE Mapped(mem, mem', S)
  <2>1. Visible!Map(S)
    BY <1>3, <1>5, MapStep
  <2> QED BY <1>3, <2>1 DEF Visible!Next
<1> QED BY <1>2, <1>4, <1>5

LEMMA ProtectRefines ==
  ASSUME Sound(mem), Sound(mem'), NEW raw \in Address, NEW n \in 0 .. MaxAccess,
         NEW perms \in SUBSET MemoryPermission,
         NEW out \in Protect(mem, raw, n, perms), mem' = out.mem
  PROVE  Visible!Next
<1> DEFINE S == Span(Canonicalizer[raw], n)
<1>2. Preserved(mem, out.mem) \/ Protected(mem, out.mem, S)
  BY ProtectEffect
<1>3. /\ Visible!Bytes(Canonicalizer[raw], n) \in Visible!AccessBytes
      /\ Visible!PagesOf(Visible!Bytes(Canonicalizer[raw], n)) = S
      /\ S \in SUBSET Page
  BY AccessBytesOf
<1> HIDE DEF S
<1>4. CASE Preserved(mem, mem')
  BY <1>4, AccessStep DEF Visible!Next
<1>5. CASE Protected(mem, mem', S)
  <2>1. Visible!Protect(S)
    BY <1>3, <1>5, ProtectStep
  <2> QED BY <1>3, <2>1 DEF Visible!Next
<1> QED BY <1>2, <1>4, <1>5

LEMMA UnmapRefines ==
  ASSUME Sound(mem), Sound(mem'), NEW raw \in Address, NEW n \in 0 .. MaxAccess,
         NEW out \in Unmap(mem, raw, n), mem' = out.mem
  PROVE  Visible!Next
<1> DEFINE S == Span(Canonicalizer[raw], n)
<1>2. Preserved(mem, out.mem) \/ Unmapped(mem, out.mem, S)
  BY UnmapEffect
<1>3. /\ Visible!Bytes(Canonicalizer[raw], n) \in Visible!AccessBytes
      /\ Visible!PagesOf(Visible!Bytes(Canonicalizer[raw], n)) = S
      /\ S \in SUBSET Page
  BY AccessBytesOf
<1> HIDE DEF S
<1>4. CASE Preserved(mem, mem')
  BY <1>4, AccessStep DEF Visible!Next
<1>5. CASE Unmapped(mem, mem', S)
  <2>1. Visible!Unmap(S)
    BY <1>3, <1>5, UnmapStep
  <2> QED BY <1>3, <2>1 DEF Visible!Next
<1> QED BY <1>2, <1>4, <1>5

LEMMA WriteRefines ==
  ASSUME Sound(mem), Sound(mem'), NEW raw \in Address, NEW data \in Bytes,
         NEW out \in WriteBytes(mem, raw, Size(data), data), mem' = out.mem
  PROVE  Visible!Next
<1> DEFINE a == Canonicalizer[raw]
           n == Size(data)
<1>1. n \in Nat /\ n \in 0 .. MaxAccess /\ data \in [0 .. (n - 1) -> Byte]
  BY SizeType
<1>2. Preserved(mem, out.mem) \/ Written(mem, out.mem, a, n)
  BY <1>1, WriteEffect
<1>3. a \in Int /\ n \in Int /\ Visible!Bytes(a, n) \in Visible!AccessBytes
  BY <1>1, AccessBytesOf
<1> HIDE DEF a, n
<1>4. CASE Preserved(mem, mem')
  BY <1>4, AccessStep DEF Visible!Next
<1>5. CASE Written(mem, mem', a, n)
  <2>1. Visible!Write(Visible!Bytes(a, n))
    BY <1>3, <1>5, WriteStep
  <2> QED BY <1>3, <2>1 DEF Visible!Next
<1> QED BY <1>2, <1>4, <1>5

LEMMA SeedRefines ==
  ASSUME Sound(mem), Sound(mem'), NEW raw \in Address, NEW data \in Bytes,
         NEW perms \in SUBSET MemoryPermission,
         NEW e \in SeedBytes(mem, raw, Size(data), data, perms),
         \/ mem' = e.mem
         \/ Sound(e.mem) /\ Cleared(e.mem, mem')
  PROVE  Visible!Next
<1> DEFINE a == Canonicalizer[raw]
           n == Size(data)
<1>1. n \in Nat /\ n \in 0 .. MaxAccess /\ data \in [0 .. (n - 1) -> Byte]
  BY SizeType
<1>2. (Preserved(mem, e.mem) /\ e.mem = mem) \/ Seeded(mem, e.mem, a, n)
  BY <1>1, SeedEffect
<1>3. a \in Int /\ n \in Int /\ Visible!Bytes(a, n) \in Visible!AccessBytes
  BY <1>1, AccessBytesOf
<1> HIDE DEF a, n
<1>4. CASE mem' = e.mem /\ Preserved(mem, e.mem)
  BY <1>4, AccessStep DEF Visible!Next
<1>5. CASE e.mem = mem /\ Cleared(e.mem, mem')
  BY <1>5, ClearStep DEF Visible!Next
<1>6. Seeded(mem, e.mem, a, n) /\ Cleared(e.mem, mem') => Seeded(mem, mem', a, n)
  BY DEF Seeded, Cleared
<1>7. CASE Seeded(mem, mem', a, n)
  <2>1. Visible!SeedBytes(Visible!Bytes(a, n))
    BY <1>3, <1>7, SeedStep
  <2> QED BY <1>3, <2>1 DEF Visible!Next
<1> QED BY <1>2, <1>4, <1>5, <1>6, <1>7

LEMMA PatchRefines ==
  ASSUME Sound(mem), Sound(mem'), NEW p \in Patch,
         NEW out \in ApplyPatch(mem, p), mem' = out.mem
  PROVE  Visible!Next
<1>1. /\ p.kind \in PatchKind /\ p.address \in Address /\ p.size \in 0 .. MaxAccess
      /\ p.permissions \in SUBSET MemoryPermission /\ p.bytes \in Bytes
  BY InputAssumption DEF PatchType
<1>2. Size(p.bytes) \in Nat /\ p.bytes \in [0 .. (Size(p.bytes) - 1) -> Byte]
  BY <1>1, SizeType
<1>3. CASE p.kind = "Write"
  <2>1. out \in WriteBytes(mem, p.address, Size(p.bytes), p.bytes)
    BY <1>3 DEF ApplyPatch
  <2> QED BY <1>1, <2>1, WriteRefines
<1>4. CASE p.kind = "Map"
  <2>1. out \in Map(mem, p.address, p.size, p.permissions, p.bytes, Size(p.bytes))
    BY <1>4 DEF ApplyPatch
  <2> QED BY <1>1, <1>2, <2>1, MapRefines
<1>5. CASE p.kind = "Protect"
  <2>1. out \in Protect(mem, p.address, p.size, p.permissions)
    BY <1>5 DEF ApplyPatch
  <2> QED BY <1>1, <2>1, ProtectRefines
<1>6. CASE p.kind = "Unmap"
  <2>1. out \in Unmap(mem, p.address, p.size)
    BY <1>6 DEF ApplyPatch
  <2> QED BY <1>1, <2>1, UnmapRefines
<1> QED BY <1>1, <1>3, <1>4, <1>5, <1>6 DEF PatchKind

\* Every step of the address space is a step of AddressSpace or leaves what a
\* caller sees alone.
LEMMA StepRefines ==
  ASSUME IndInv, IndInv', Next
  PROVE  Visible!Next
<1>0. Sound(mem) /\ Sound(mem') /\ TypeOK
  BY DEF IndInv
<1>a. Preserved(mem, mem') => Visible!Next
  BY <1>0, AccessStep DEF Visible!Next
<1>b. mem' = mem => Visible!Next
  BY <1>a, PreservedSame
<1>1. ASSUME NEW on \in BOOLEAN, SetPageProvider(on) PROVE Visible!Next
  <2>1. mem' = [mem EXCEPT !.provider = on]
    BY <1>1 DEF SetPageProvider, Take, Done
  <2>2. mem'.table = mem.table /\ mem'.heap = mem.heap
    BY <1>0, <2>1 DEF Sound, Memory
  <2> QED BY <1>a, <2>2, PreservedSame
<1>2. CASE DoClearDirty
  <2>1. PICK out \in ClearDirty(mem) : mem' = out.mem
    BY <1>2 DEF DoClearDirty, Take
  <2>2. Cleared(mem, mem')
    BY <1>0, <2>1, ClearEffect
  <2> QED BY <1>0, <2>2, ClearStep DEF Visible!Next
<1>3. ASSUME NEW x \in Accesses, NEW perms \in PermissionChoices, DoMap(x[1], x[2], perms)
      PROVE  Visible!Next
  <2> DEFINE none == [i \in {} |-> ZeroByte]
  <2>1. /\ x[1] \in Address /\ x[2] \in 0 .. MaxAccess /\ perms \in SUBSET MemoryPermission
        /\ none \in [0 .. (0 - 1) -> Byte] /\ 0 \in Nat
    BY InputAssumption, BoundAssumption
  <2> HIDE DEF none
  <2>2. PICK out \in Map(mem, x[1], x[2], perms, none, 0) : mem' = out.mem
    BY <1>3 DEF DoMap, Take, none
  <2> QED BY <1>0, <2>1, <2>2, MapRefines
<1>4. ASSUME NEW x \in Accesses, NEW perms \in PermissionChoices, DoProtect(x[1], x[2], perms)
      PROVE  Visible!Next
  <2>1. x[1] \in Address /\ x[2] \in 0 .. MaxAccess /\ perms \in SUBSET MemoryPermission
    BY InputAssumption, BoundAssumption
  <2>2. PICK out \in Protect(mem, x[1], x[2], perms) : mem' = out.mem
    BY <1>4 DEF DoProtect, Take
  <2> QED BY <1>0, <2>1, <2>2, ProtectRefines
<1>5. ASSUME NEW x \in Accesses, DoUnmap(x[1], x[2]) PROVE Visible!Next
  <2>1. x[1] \in Address /\ x[2] \in 0 .. MaxAccess
    BY InputAssumption
  <2>2. PICK out \in Unmap(mem, x[1], x[2]) : mem' = out.mem
    BY <1>5 DEF DoUnmap, Take
  <2> QED BY <1>0, <2>1, <2>2, UnmapRefines
<1>6. ASSUME NEW x \in Accesses, DoReadResidentBytes(x[1], x[2]) PROVE Visible!Next
  <2>1. PICK out \in ReadResidentBytes(mem, x[1], x[2]) : mem' = out.mem
    BY <1>6 DEF DoReadResidentBytes, Take
  <2>2. out.mem = mem \/ \E T \in SUBSET Page : out.mem = Remember(mem, T)
    BY SpanPages DEF ReadResidentBytes, Fail, Done
  <2> QED BY <1>0, <1>a, <2>1, <2>2, RememberSound, PreservedSame
<1>7. ASSUME NEW x \in Accesses, NEW right \in MemoryPermission, DoReadBytes(x[1], x[2], right)
      PROVE  Visible!Next
  <2>1. PICK out \in Ensure(mem, Canonicalizer[x[1]], x[2], {right}) : mem' = out.mem
    BY <1>7 DEF DoReadBytes, Take, ReadBytes
  <2> QED BY <1>0, <1>a, <2>1, AccessPreserves
<1>8. ASSUME NEW x \in Accesses, DoRefresh(x[1], x[2]) PROVE Visible!Next
  <2>1. x[1] \in Address
    BY InputAssumption
  <2>2. PICK out \in Refresh(mem, x[1], x[2]) : mem' = out.mem
    BY <1>8 DEF DoRefresh, Take
  <2>3. Preserved(mem, mem') \/ Refreshed(mem, mem')
    BY <1>0, <2>1, <2>2, RefreshEffect
  <2> QED BY <1>0, <1>a, <2>3, RefreshStep DEF Visible!Next
<1>9. ASSUME NEW x \in Accesses, NEW data \in Payloads, DoWriteBytes(x[1], data)
      PROVE  Visible!Next
  <2>1. x[1] \in Address /\ data \in Bytes
    BY InputAssumption
  <2>2. PICK out \in WriteBytes(mem, x[1], Size(data), data) : mem' = out.mem
    BY <1>9 DEF DoWriteBytes, Take
  <2> QED BY <1>0, <2>1, <2>2, WriteRefines
<1>10. ASSUME NEW x \in Accesses, NEW data \in Payloads, NEW perms \in PermissionChoices,
              DoSeed(x[1], data, perms)
       PROVE  Visible!Next
  <2>1. x[1] \in Address /\ data \in Bytes /\ perms \in SUBSET MemoryPermission
    BY InputAssumption, BoundAssumption
  <2>2. PICK out \in SeedBytes(mem, x[1], Size(data), data, perms) : mem' = out.mem
    BY <1>10 DEF DoSeed, Take
  <2> QED BY <1>0, <2>1, <2>2, SeedRefines
<1>11. ASSUME NEW x \in Accesses, NEW data \in Payloads, NEW perms \in PermissionChoices,
              SeedImage(x[1], data, perms)
       PROVE  Visible!Next
  <2>1. x[1] \in Address /\ data \in Bytes /\ perms \in SUBSET MemoryPermission
    BY InputAssumption, BoundAssumption
  <2>2. CASE mem' = Fail(mem).mem
    BY <1>b, <2>2 DEF Fail
  <2>3. CASE mem' # Fail(mem).mem
    <3>1. PICK e \in SeedBytes(mem, x[1], Size(data), data, perms) :
            \E out \in IF e.ok THEN ClearDirty(e.mem) ELSE {e} : mem' = out.mem
      BY <1>11, <2>3 DEF SeedImage, Take
    <3>2. CASE mem' = e.mem
      BY <1>0, <2>1, <3>1, <3>2, SeedRefines
    <3>3. CASE mem' # e.mem
      <4>1. PICK out \in ClearDirty(e.mem) : mem' = out.mem
        BY <3>1, <3>3
      <4>2. Size(data) \in Nat /\ data \in [0 .. (Size(data) - 1) -> Byte]
        BY <2>1, SizeType
      <4>3. Fine(mem, e)
        BY <1>0, <2>1, <4>2, SeedFine
      <4>4. Sound(e.mem) /\ Cleared(e.mem, mem')
        BY <4>1, <4>3, ClearEffect DEF Fine
      <4> QED BY <1>0, <2>1, <3>1, <4>4, SeedRefines
    <3> QED BY <3>2, <3>3
  <2> QED BY <2>2, <2>3
<1>12. ASSUME NEW r \in Page, CompileBlock(r) PROVE Visible!Next
  <2>1. PICK out \in EnsureOutcomes(mem, {r}, {"Execute"}) : mem' = out.mem
    BY <1>12 DEF CompileBlock
  <2>2. {r} \in SUBSET Page
    OBVIOUS
  <2>3. Preserved(mem, mem')
    BY <1>0, <2>1, <2>2, EnsurePreserves
  <2> QED BY <1>a, <2>3
<1>13. ASSUME NEW patches \in Batches, ApplyBegin(patches) PROVE Visible!Next
  BY <1>b, <1>13 DEF ApplyBegin
<1>14. CASE ApplyValidate
  <2> DEFINE p == batch.patches[batch.index]
  <2>1. PICK out \in ValidatePatch(mem, batch.overlay, p) : mem' = out.mem
    BY <1>14 DEF ApplyValidate
  <2>2. batch.overlay \in Overlay /\ p \in Patch
    BY <1>0, <1>14 DEF TypeOK, BatchType, ApplyValidate
  <2> HIDE DEF p
  <2> QED BY <1>0, <1>a, <2>1, <2>2, ValidateForesees
<1>15. CASE ApplyPerform
  <2> DEFINE p == batch.patches[batch.index]
  <2>1. PICK out \in ApplyPatch(mem, p) : mem' = out.mem
    BY <1>15 DEF ApplyPerform
  <2>2. p \in Patch
    BY <1>0, <1>15 DEF TypeOK, BatchType, ApplyPerform
  <2> HIDE DEF p
  <2> QED BY <1>0, <2>1, <2>2, PatchRefines
<1>16. CASE ApplyValidated \/ ApplyEnd
  BY <1>b, <1>16 DEF ApplyValidated, ApplyEnd
<1> QED BY <1>1, <1>2, <1>3, <1>4, <1>5, <1>6, <1>7, <1>8, <1>9, <1>10, <1>11, <1>12, <1>13,
          <1>14, <1>15, <1>16 DEF Next

LEMMA VisibleInit ==
  ASSUME Init
  PROVE  Visible!Init
<1>1. \A r \in Page : ~Contains(mem, r)
  BY DEF Init, InitMemory, Contains
<1>2. DirtyRanges(mem) = {}
  BY DEF Init, InitMemory, DirtyRanges
<1>3. {q \in Page : Contains(mem, q)} = {}
  BY <1>1
<1> QED BY <1>2, <1>3 DEF Visible!Init

\* The page table with its provider, its one-entry cache, its dirty list and
\* its generations implements the plain address space a caller reasons with:
\* each operation, whatever it materializes on the way and however a batch
\* ends, changes only the bytes, permissions and dirty bytes it may
\* (memory.cpp writeBytes, map, protect, unmap, seed, refresh, clearDirty, apply).
THEOREM RefinesPages == Spec => RefinesAddressSpace
<1>1. Init => Visible!Init
  BY VisibleInit
<1>2. IndInv /\ IndInv' /\ [Next]_vars =>
        [Visible!Next]_<<[r \in {q \in Page : Contains(mem, q)} |->
                            [bytes |-> mem.heap[mem.table[r]].bytes,
                             permissions |-> mem.heap[mem.table[r]].permissions]],
                         DirtyRanges(mem)>>
  <2> SUFFICES ASSUME IndInv, IndInv', [Next]_vars
               PROVE  \/ Visible!Next
                      \/ UNCHANGED <<SeenPages(mem), DirtyRanges(mem)>>
    BY DEF SeenPages
  <2>1. CASE Next
    BY <2>1, StepRefines
  <2>2. CASE UNCHANGED vars
    <3>1. mem' = mem
      BY <2>2 DEF vars
    <3> QED BY <3>1
  <2> QED BY <2>1, <2>2
<1> QED BY <1>1, <1>2, Inductive, PTL DEF Spec, RefinesAddressSpace, Visible!Spec
=============================================================================
