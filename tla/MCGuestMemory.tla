--------------------------- MODULE MCGuestMemory ---------------------------
(***************************************************************************)
(* TLC instance of GuestMemory: two pages of two bytes.                    *)
(***************************************************************************)
EXTENDS GuestMemory, TLC

RX == {"Read", "Execute"}

MCCanonicalizer == [a \in Address |-> a]

MCSeed == {[bytes |-> [o \in Offset |-> 1], permissions |-> MemoryPermission],
           [bytes |-> [o \in Offset |-> 0], permissions |-> {"Read"}]}

MCPermissionChoices == {MemoryPermission, RX}

P(kind, a, n, perms, data) ==
  [kind |-> kind, address |-> a, size |-> n, permissions |-> perms, bytes |-> data]

None == [i \in {} |-> 0]
One(v) == [i \in {0} |-> v]
Two == [i \in {0, 1} |-> 1]

MCPatch == {P("Write", 1, 0, {}, Two), P("Write", 2, 0, {}, One(0)),
            P("Map", 2, 1, MemoryPermission, One(1)), P("Protect", 1, 2, RX, None),
            P("Unmap", 2, 1, {}, None)}

MCAccesses == {<<0, 1>>, <<1, 2>>, <<3, 2>>}
MCPayloads == {One(1), Two}

\* No step and no state property depends on last.
MCView == <<mem, block, batch>>

NodeSymmetry == Permutations(Node)
=============================================================================
