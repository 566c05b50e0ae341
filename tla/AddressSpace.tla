---------------------------- MODULE AddressSpace ----------------------------
(***************************************************************************)
(* What the guest address space promises (exec/memory.h): pages of bytes   *)
(* with permissions, which a provider may add to at any access, and the    *)
(* set of bytes written since the last clearDirty.  There is no cache, no  *)
(* page node, no dirty list and no generation here.                        *)
(***************************************************************************)
EXTENDS Integers

CONSTANTS PageSize, NumPages, Byte, ZeroByte, Seed, MaxAccess

VARIABLES
  pages,  \* the resident pages: a function on a set of page indices
  dirty   \* the bytes written since the last clearDirty, as <<page, offset>>

AllPages == 0 .. (NumPages - 1)
AllOffsets == 0 .. (PageSize - 1)

Init == pages = [r \in {} |-> {}] /\ dirty = {}

\* The bytes of an access of n bytes at a.
Bytes(a, n) ==
  {x \in AllPages \X AllOffsets : PageSize * x[1] + x[2] \in a .. (a + n - 1)}
PagesOf(T) == {x[1] : x \in T}
AccessBytes == {Bytes(a, n) : a \in 0 .. (PageSize * NumPages - 1), n \in 0 .. MaxAccess}

\* Page r of the next state is p outside the bytes of T.
Keeps(r, p, T) ==
  /\ pages'[r].permissions = p.permissions
  /\ \A o \in AllOffsets : <<r, o>> \notin T => pages'[r].bytes[o] = p.bytes[o]

\* Every page stays and is changed in the bytes of T only; a page that appears
\* is the provider's.
OnlyBytes(T) ==
  /\ DOMAIN pages \subseteq DOMAIN pages'
  /\ \A r \in DOMAIN pages : Keeps(r, pages[r], T)
  /\ \A r \in DOMAIN pages' \ DOMAIN pages : \E s \in Seed : Keeps(r, s, T)

Access == OnlyBytes({}) /\ UNCHANGED dirty

\* Writable pages only, and the dirty bytes grow by exactly the bytes written.
Write(T) ==
  /\ PagesOf(T) \subseteq DOMAIN pages'
  /\ \A r \in PagesOf(T) : "Write" \in pages'[r].permissions
  /\ OnlyBytes(T)
  /\ dirty' = dirty \cup T

\* Pages that were absent appear, and only they.
Map(S) ==
  /\ S \cap DOMAIN pages = {}
  /\ DOMAIN pages' = DOMAIN pages \cup S
  /\ \A r \in DOMAIN pages : pages'[r] = pages[r]
  /\ UNCHANGED dirty

\* Seeding bytes may create pages and add permissions; nothing becomes dirty.
\* Seeding an image clears the dirty bytes.
SeedBytes(T) ==
  /\ DOMAIN pages' = DOMAIN pages \cup PagesOf(T)
  /\ \A r \in DOMAIN pages \ PagesOf(T) : pages'[r] = pages[r]
  /\ \A r \in DOMAIN pages \cap PagesOf(T) :
       /\ pages[r].permissions \subseteq pages'[r].permissions
       /\ \A o \in AllOffsets : <<r, o>> \notin T => pages'[r].bytes[o] = pages[r].bytes[o]
  /\ dirty' \in {dirty, {}}

\* Only the permissions of the pages of S change.
Protect(S) ==
  /\ DOMAIN pages' = DOMAIN pages \cup S
  /\ \A r \in DOMAIN pages \ S : pages'[r] = pages[r]
  /\ \A r \in S : \E s \in (IF r \in DOMAIN pages THEN {pages[r]} ELSE Seed) :
       pages'[r].bytes = s.bytes
  /\ UNCHANGED dirty

\* The pages of S go, and their dirty bytes with them.
Unmap(S) ==
  /\ DOMAIN pages' = DOMAIN pages \ S
  /\ \A r \in DOMAIN pages' : pages'[r] = pages[r]
  /\ dirty' = {x \in dirty : x[1] \notin S}

\* Pages are replaced by what the provider has now; dirty bytes stay dirty.
Refresh ==
  /\ DOMAIN pages' = DOMAIN pages
  /\ \A r \in DOMAIN pages : pages'[r] = pages[r] \/ pages'[r] \in Seed
  /\ UNCHANGED dirty

ClearDirty == dirty' = {} /\ UNCHANGED pages

Next ==
  \/ Access \/ Refresh \/ ClearDirty
  \/ \E T \in AccessBytes : \/ Write(T) \/ SeedBytes(T) \/ Map(PagesOf(T))
                         \/ Protect(PagesOf(T)) \/ Unmap(PagesOf(T))

Spec == Init /\ [][Next]_<<pages, dirty>>
=============================================================================
