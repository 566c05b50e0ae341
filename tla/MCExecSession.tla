--------------------------- MODULE MCExecSession ----------------------------
(***************************************************************************)
(* TLC instances of ExecSession: small guest programs.  Locations are in   *)
(* pages of two; the last location is unmapped and outside the code        *)
(* domain.                                                                 *)
(***************************************************************************)
EXTENDS ExecSession, TLC

\* Targets beyond a small program are its last location.
I(op, target, word) == [op |-> op, target |-> IF target < Top THEN target ELSE Top, word |-> word]

\* Encodings, named by what they do.
MCWord == {"mov0", "mov1", "str1", "strX", "b0", "b3", "bX", "cbz0", "cbzX", "br", "bl2", "bl6",
           "blr", "ret", "svc", "brk", "udf", "save", "restore"}
MCInsn == [w \in MCWord |->
  CASE w = "mov0" -> I("mov", 0, NoWord)
    [] w = "mov1" -> I("mov", Top, NoWord)
    [] w = "str1" -> I("str", 1, "mov1")
    [] w = "strX" -> I("str", Top, "ret")
    [] w = "b0" -> I("b", 0, NoWord)
    [] w = "b3" -> I("b", 3, NoWord)
    [] w = "bX" -> I("b", Top, NoWord)
    [] w = "cbz0" -> I("cbz", 0, NoWord)
    [] w = "cbzX" -> I("cbz", Top, NoWord)
    [] w = "br" -> I("br", 0, NoWord)
    [] w = "bl2" -> I("bl", 2, NoWord)
    [] w = "bl6" -> I("bl", 6, NoWord)
    [] w = "blr" -> I("blr", 0, NoWord)
    [] w = "ret" -> I("ret", 0, NoWord)
    [] w = "svc" -> I("svc", 0, NoWord)
    [] w = "brk" -> I("brk", 0, NoWord)
    [] w = "udf" -> I("udf", 0, NoWord)
    [] w = "save" -> I("save", 0, NoWord)
    [] w = "restore" -> I("restore", 0, NoWord)]

MCExternal == {Top}

Code(seq) == [a \in Location |-> IF a < Len(seq) THEN seq[a + 1] ELSE NoWord]

NoPatch == [kind |-> "none", address |-> 0, word |-> NoWord]
Batch(patch1, patch2) == [first |-> patch1, second |-> patch2]
NoRegisters == [r \in {} |-> 0]

-----------------------------------------------------------------------------
(* Self-modifying straight code, every instruction, an embedder that edits  *)
(* memory and the cache: no redirected calls.                               *)

SelfModifying == Code(<<"str1", "mov0", "cbz0", "svc">>)
EditWrites == {<<0, "strX">>, <<1, "ret">>, <<2, "br">>, <<2, "udf">>, <<3, "brk">>, <<3, "blr">>,
               <<3, "b3">>}
EditRegisters == {<<"x0", 0>>}
EditShared == {<<0, 4>>}
EditStatePatches == {NoRegisters, [r \in {"x0"} |-> 1], [r \in {"unknown"} |-> 0]}
WriteB0 == [kind |-> "write", address |-> 1, word |-> "b0"]
WriteUnmapped == [kind |-> "write", address |-> Top, word |-> "ret"]
UnmapTwo == [kind |-> "unmap", address |-> 2, word |-> NoWord]
WriteTwo == [kind |-> "write", address |-> 2, word |-> "ret"]
\* Among them batches whose second patch fails, one of them because of the first.
EditMemoryPatches == {Batch(NoPatch, NoPatch), Batch(WriteB0, UnmapTwo),
                      Batch(WriteB0, WriteUnmapped), Batch(UnmapTwo, WriteTwo)}
EditNextPcs == [a \in Location |-> {2}]
AllAnswers == [o \in Origin |-> Action]

-----------------------------------------------------------------------------
(* Redirected calls, as in the repository's test "external tail call         *)
(* consumes its redirected veneer return": main calls mid, mid saves lr and  *)
(* calls a veneer that branches out of the code domain.                      *)

Veneer == Code(<<"bl2", "ret", "save", "bl6", "restore", "ret", "bX", "ret">>)
\* The same with a conditional branch out of the code domain.
CondVeneer == Code(<<"mov0", "cbzX">>)

\* In-module calls are redirected to their target, the others to the leaf.
VeneerNextPcs == [a \in Location |-> IF a < Top /\ a > 0 THEN {a} ELSE {7}]
DomainNextPcs == [a \in Location |-> {0}]
NoStatePatches == {NoRegisters}
NoMemoryPatches == {Batch(NoPatch, NoPatch)}
\* Tail calls are answered the way that test's handler does.
ModelAnswers == [o \in Origin |->
  CASE o = "instruction" -> {"HandledContinue", "Redirect", "Stop"}
    [] o = "tail" -> {"ReturnFromCall", "Stop"}
    [] o = "callback" -> {"HandledContinue", "Stop"}]
RedirectingAnswers == [o \in Origin |-> {"Redirect"}]
NoPairs == {}
=============================================================================
