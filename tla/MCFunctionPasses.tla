--------------------------- MODULE MCFunctionPasses ---------------------------
(***************************************************************************)
(* Small lifted functions, assembled from instructions the way the lifter  *)
(* does: every instruction reads its registers into values, computes and   *)
(* writes back.                                                            *)
(***************************************************************************)
EXTENDS FunctionPasses

W == WordBits
MCRegs ==
  LET reg(root, w, class, zext) == [root |-> root, w |-> w, off |-> 0, class |-> class, zext |-> zext]
  IN  [r \in {"x0", "x1", "x19", "w0", "sp", "xzr", "nzcv"} |->
         CASE r = "w0" -> reg("x0", 2, "General", TRUE)
           [] r = "sp" -> reg("sp", 4, "StackPointer", FALSE)
           [] r = "xzr" -> reg("xzr", 4, "Zero", FALSE)
           [] r = "nzcv" -> reg("nzcv", 0, "Flags", FALSE)
           [] OTHER -> reg(r, 4, "General", FALSE)]
MCRootOrder == <<"x0", "x1", "x19", "sp", "nzcv", "xzr">>
MCArgRoots == <<"x0", "x1">>

\* Code at 0..4 and 6..7; an import slot at 1..4; a read-only word at 5..8; two
\* bytes of data at 9..10; the frame below sp = 0.  Read as words, 1 and 5 are a
\* table of the addresses 2 and 3; read as pairs, 5, 7 and 9 are one of the
\* offsets -1, 0 and 1.
MCImage == [a \in 1..10 |-> IF a \in {2, 5, 6, 9} THEN 1 ELSE 0]
MCSyscallArgs == [n \in {3} |-> 1]
MCDeclared == [a \in {7} |-> 1]

MCEnvs ==
  {[entry |-> [r \in ToSet(MCRootOrder) |-> CASE r = "x0" -> p[1] [] r = "x1" -> p[2] [] r = "x19" -> 9
                                               [] r = "nzcv" -> 4 [] OTHER -> 0],
    mem |-> [a \in Addresses |-> IF a \in DOMAIN MCImage THEN MCImage[a] ELSE (a \div 2) % 2],
    answers |-> <<11, 6>>, flip |-> p[3]] : p \in {<<0, 6, TRUE>>, <<1, 14, FALSE>>, <<9, 7, TRUE>>}}

(***************************************************************************)
(* Instructions and the assembler.                                         *)
(***************************************************************************)
ins(k, rd, rn, rm, n) == [k |-> k, rd |-> rd, rn |-> rn, rm |-> rm, n |-> n]
movi(rd, n)     == ins("mov", rd, "", "", n)
addi(rd, rn, n) == ins("addi", rd, rn, "", n)
add(rd, rn, rm) == ins("add", rd, rn, rm, 0)
xor(rd, rn, rm) == ins("xor", rd, rn, rm, 0)
cmpi(rn, n)     == ins("cmp", "", rn, "", n)
ldr(rd, rn, n)  == ins("ldr", rd, rn, "", n)
str(rd, rn, n)  == ins("str", rd, rn, "", n)
ldri(rd, n)     == ins("ldri", rd, "", "", n)
stri(rd, n)     == ins("stri", rd, "", "", n)
bl(n)           == ins("bl", "", "", "", n)
blr(rn)         == ins("blr", "", rn, "", 0)
svc             == ins("svc", "", "", "", 3)
cmpr(rn, rm)    == ins("cmpr", "", rn, rm, 0)
ldt(rd, rn, n)  == ins("ldt", rd, rn, "", n)    \* rd = n + the pair at 5 + 2 * rn
ldw(rd, rn)     == ins("ldw", rd, rn, "", 1)    \* rd = the word at 1 + 4 * rn
idx(rd, rn, n)  == ins("idx", rd, rn, "", n)    \* rd = an index computed from rn

R(v, r) == valueRef(MCRegs[r].w, v)

\* The ways compiled code makes an index: a mask, a shift, a bit, two arms, two
\* complementary conditions, one plus a constant.
IndexOf(x, n) ==
  LET one(y) == binary("CmpEq", y, constant(W, 1))
      k(c) == constant(W, c)
      bit(c) == cast("ZExt", W, c)
  IN  CASE n = 1 -> binary("And", x, k(1))
        [] n = 2 -> binary("ShrU", x, k(3))
        [] n = 3 -> cast("ZExt", W, cast("Trunc", 1, x))
        [] n = 4 -> select(one(x), k(2), k(0))
        [] n = 5 -> binary("Or", bit(one(x)), binary("Shl", bit(unary("Not", one(x))), k(1)))
        [] n = 6 -> binary("Add", binary("And", x, k(1)), k(1))
        [] n = 7 -> LET low == binary("And", x, k(3)) IN select(binary("CmpLtU", low, k(2)), low, k(0))
        [] n = 8 -> binary("Or", binary("And", x, k(1)), k(2))
        [] n = 9 -> binary("Sub", k(1), binary("And", x, k(1)))

Ops(i, v) ==
  LET w == MCRegs[i.rd].w
      addr == binary("Add", R(v, i.rn), constant(W, i.n))
  IN  CASE i.k = "mov"  -> <<appendWriteReg(i.rd, constant(w, i.n))>>
        [] i.k = "addi" -> <<appendReadReg(v, i.rn), appendWriteReg(i.rd, binary("Add", R(v, i.rn), constant(w, i.n)))>>
        [] i.k \in {"add", "xor"} ->
             <<appendReadReg(v, i.rn), appendReadReg(v + 1, i.rm),
               appendWriteReg(i.rd, binary(IF i.k = "add" THEN "Add" ELSE "Xor", R(v, i.rn), R(v + 1, i.rm)))>>
        [] i.k = "cmp"  -> <<appendReadReg(v, i.rn),
                             appendWriteReg("nzcv", flagDef("Sub", MCRegs[i.rn].w, <<R(v, i.rn), constant(MCRegs[i.rn].w, i.n)>>))>>
        [] i.k = "cmpr" -> <<appendReadReg(v, i.rn), appendReadReg(v + 1, i.rm),
                             appendWriteReg("nzcv", flagDef("Sub", W, <<R(v, i.rn), R(v + 1, i.rm)>>))>>
        [] i.k = "idx"  -> <<appendReadReg(v, i.rn), appendWriteReg(i.rd, IndexOf(R(v, i.rn), i.n))>>
        [] i.k = "ldt"  -> <<appendReadReg(v, i.rn), appendLoad(v + 1, 2, binary("Add", constant(W, 5), binary("Shl", R(v, i.rn), constant(W, 1)))),
                             appendWriteReg(i.rd, binary("Add", constant(W, i.n), cast("SExt", W, valueRef(2, v + 1))))>>
        [] i.k = "ldw"  -> <<appendReadReg(v, i.rn), appendLoad(v + 1, W, binary("Add", binary("Mul", R(v, i.rn), constant(W, 4)), constant(W, i.n))),
                             appendWriteReg(i.rd, valueRef(W, v + 1))>>
        [] i.k = "ldr"  -> <<appendReadReg(v, i.rn), appendLoad(v + 1, w, addr), appendWriteReg(i.rd, valueRef(w, v + 1))>>
        [] i.k = "str"  -> <<appendReadReg(v, i.rn), appendReadReg(v + 1, i.rd), appendStore(w, addr, valueRef(w, v + 1))>>
        [] i.k = "ldri" -> <<appendLoad(v, w, constant(W, i.n)), appendWriteReg(i.rd, valueRef(w, v))>>
        [] i.k = "stri" -> <<appendReadReg(v, i.rd), appendStore(w, constant(W, i.n), valueRef(w, v))>>
        [] i.k = "bl"   -> <<appendCall(v, W, constant(W, i.n))>>
        [] i.k = "blr"  -> <<appendReadReg(v, i.rn), appendCall(v + 1, W, R(v, i.rn))>>
        [] i.k = "svc"  -> <<appendReadReg(v, "x0"), appendReadReg(v + 1, "x1"),
                             appendIntrinsic(v + 2, W, kSyscallIntrinsic, <<constant(W, 0), constant(W, i.n), R(v, "x0"), R(v + 1, "x1")>>),
                             appendWriteReg("x0", valueRef(W, v + 2))>>

\* Terminators: on a flag condition, on a register being zero, computed.
Term(t, v) ==
  CASE t.k = "b"    -> <<appendBranch(t.to[1])>>
    [] t.k = "cond" -> <<appendReadReg(v, "nzcv"), appendCondBranch(flagCondition(valueRef(0, v), t.r), t.to[1], t.to[2])>>
    [] t.k = "cbz"  -> <<appendReadReg(v, t.r), appendCondBranch(binary("CmpEq", R(v, t.r), constant(W, 0)), t.to[1], t.to[2])>>
    [] t.k = "br"   -> <<appendReadReg(v, t.r), appendIndirectBranch(R(v, t.r), t.to)>>
    [] t.k = "ret"  -> <<appendReturn>>
    [] t.k = "hole" -> <<>>
end(k, r, to) == [k |-> k, r |-> r, to |-> to]
ret == end("ret", "", <<>>)
b(t) == end("b", "", <<t>>)

Block(acc, blk) ==
  LET body == FoldLeft(LAMBDA a, i : [ops |-> a.ops \o Ops(i, a.next), next |-> a.next + 3],
                       [ops |-> <<>>, next |-> acc.next], blk[1])
  IN  [blocks |-> Append(acc.blocks, body.ops \o Term(blk[2], body.next)), next |-> body.next + 1]

Fun(blks) ==
  LET acc == FoldLeft(Block, [blocks |-> <<>>, next |-> 1], blks)
  IN  rebuildEdges([blocks |-> acc.blocks, ext |-> {}, succ |-> <<>>, next |-> acc.next, level |-> "Lifted"])

(***************************************************************************)
(* The families.                                                           *)
(***************************************************************************)
Sets == {movi("x0", 3), addi("x0", "x1", 1), add("w0", "w0", "w0"), xor("x0", "x0", "x1"), movi("x19", 1),
         add("x1", "x0", "x19"), add("x0", "xzr", "x19"), movi("xzr", 5)}
Mems == {ldri("x0", 5), ldri("w0", 9), stri("w0", 9), str("w0", "sp", -5), str("x1", "sp", -5),
         ldr("w0", "sp", -4), ldr("x0", "sp", -5), str("w0", "x1", -2), addi("sp", "sp", -1),
         ldr("x0", "x0", -6), ldr("w0", "x1", -2)}
Outs == {bl(7), bl(0), bl(14), blr("x1"), svc}

Straight == {Fun(<< <<<<i, j, k>>, ret>> >>) : i \in Mems \cup Sets, j \in Mems \cup Outs, k \in Mems \cup {movi("x0", 3)}}

Conds == {end("cond", "EQ", <<2, 3>>), end("cbz", "x0", <<3, 2>>)}
Diamond ==
  {Fun(<< <<<<cmpi("x0", 1), h>>, c>>, <<<<i>>, b(4)>>, <<<<j>>, b(4)>>, <<<<k>>, ret>> >>) :
     h \in {movi("x0", 0), ldri("x1", 5), addi("x1", "x0", 2)}, c \in Conds,
     i \in Sets \cup {bl(7), bl(0), svc, cmpi("x1", 6)}, j \in {movi("x0", 3), addi("x0", "x1", 1), movi("x19", 1), blr("x1")},
     k \in {add("x0", "x0", "x19"), blr("x1"), stri("w0", 9)}}

Loop ==
  {Fun(<< <<<<i>>, b(2)>>, <<<<j, addi("x0", "x0", -1), cmpi("x0", 0)>>, end("cond", c, t)>>, <<<<k>>, ret>> >>) :
     i \in {movi("x0", 2), movi("x1", 3), svc}, j \in Sets \cup Mems \cup {bl(7), svc},
     c \in {"EQ", "GT"}, t \in {<<3, 2>>}, k \in {add("x0", "x0", "x1"), bl(7)}}

\* A test in a block of its own, over flags set on two paths; trampolines;
\* both arms to the same block; a dead arm.
Shapes ==
  {Fun(<< <<<<cmpi("x0", 1)>>, end("cbz", "x0", <<3, 2>>)>>, <<<<cmpi("x1", 6)>>, b(3)>>,
          <<<<>>, end("cond", c, <<4, 5>>)>>, <<<<movi("x0", 3)>>, ret>>, <<<<movi("x0", 7)>>, b(4)>> >>) :
     c \in {"EQ", "LS", "GE"}}
  \cup {Fun(<< <<<<i>>, end("cbz", "x1", t)>>, <<<<>>, b(4)>>, <<<<j>>, b(4)>>, <<<<>>, b(5)>>, <<<<>>, ret>> >>) :
     i \in Sets, j \in Sets, t \in {<<2, 3>>, <<2, 2>>, <<4, 3>>}}
  \cup {Fun(<< <<<<movi("x0", n), i>>, end("cbz", "x0", <<2, 3>>)>>, <<<<j>>, b(3)>>, <<<<k>>, ret>> >>) :
     n \in {0, 2}, i \in {movi("x1", 3), cmpi("x0", 1)}, j \in Sets, k \in {add("x0", "x1", "x1"), bl(7)}}

\* A test inside a test, its joins one after the other; a call to either of
\* two functions; a loop around a test; a block the lifter left open.
Nested ==
  {Fun(<< <<<<h>>, end("cbz", "x1", <<5, 2>>)>>, <<<<i, cmpi("x0", 1)>>, end("cond", "EQ", <<3, 4>>)>>,
          <<<<j>>, b(4)>>, <<<<k>>, b(5)>>, <<<<l>>, ret>> >>) :
     h \in {movi("x0", 3), cmpi("x0", 1), str("x1", "sp", -5)}, i \in {movi("x0", 1), addi("x19", "x1", 1), bl(7), ldr("x0", "sp", -5)},
     j \in {movi("x19", 1), add("w0", "w0", "w0"), svc, str("x0", "sp", -5)}, k \in {cmpi("x1", 6), addi("x0", "x0", 2), str("w0", "sp", -4)},
     l \in {add("x0", "x0", "x19"), ldr("x0", "sp", -5), blr("x1"), ldr("w0", "x0", -2)}}
  \cup {Fun(<< <<<<i, cmpi("x0", 1)>>, c>>, <<<<movi("x1", 6)>>, b(4)>>, <<<<movi("x1", n)>>, b(4)>>, <<<<j, blr("x1")>>, k>> >>) :
     i \in Sets, c \in Conds, n \in {6, 7, 14}, j \in {movi("x0", 3), str("x1", "sp", -5), bl(0)}, k \in {ret, end("br", "x1", <<>>)}}
  \cup {Fun(<< <<<<i>>, b(2)>>, <<<<cmpi("x0", 1)>>, end("cond", "GT", <<3, 6>>)>>, <<<<j>>, end("cbz", "x1", <<4, 5>>)>>,
               <<<<k>>, b(5)>>, <<<<addi("x0", "x0", -1)>>, b(2)>>, <<<<l>>, ret>> >>) :
     i \in {movi("x19", 3), str("x1", "sp", -5), cmpi("x0", 1)}, j \in {addi("x1", "x1", 1), movi("x1", 0), bl(7)},
     k \in {add("x19", "x19", "x1"), str("x0", "sp", -5), svc}, l \in {add("x0", "x0", "x19"), ldr("x0", "sp", -5)}}
  \cup {Fun(<< <<<<i>>, end("cbz", "x1", <<2, 3>>)>>, <<<<j>>, end("hole", "", <<>>)>>, <<<<>>, ret>> >>) : i \in Sets, j \in Outs}

\* Computed branches: out of the function, through the image, to its blocks.
Computed3 ==
  {Fun(<< <<<<i, j>>, end("br", "x1", <<>>)>> >>) :
     i \in Sets, j \in {ldri("x1", 1), ldri("x1", 5), ldr("x1", "x0", 5), ldr("x1", "x0", 1)}}
  \cup {Fun(<< <<<<i, movi("x0", 3)>>, end("br", "x1", <<>>)>> >>) : i \in Sets \ {add("x1", "x0", "x19")}}
  \cup {Fun(<< <<<<movi("x1", n), i>>, end("br", "x1", t)>>, <<<<movi("x0", 3)>>, ret>>, <<<<j>>, b(2)>> >>) :
     n \in {2, 3}, t \in {<<2, 3>>}, i \in {movi("x0", 3), stri("w0", 9)}, j \in Sets}
  \cup {Fun(<< <<<<ldri("x1", 5), addi("x1", "x1", -1)>>, end("br", "x1", <<2>>)>>, <<<<i>>, ret>> >>) : i \in Sets}

\* Jump tables: the index behind a guard, computed, and carried round a loop.
Tables ==
  {Fun(<< <<<<cmpi("x0", n)>>, end("cond", c[1], c[2])>>, <<<<i>>, b(4)>>, <<<<j>>, ret>>, <<<<movi("x0", 3)>>, ret>>,
          <<<<k, t>>, end("br", "x1", <<>>)>> >>) :
     n \in {0, 1}, c \in {<<"HI", <<4, 5>>>>, <<"LS", <<5, 4>>>>}, i \in {movi("x0", 7), bl(7)}, j \in {svc, movi("x19", 1)},
     k \in {str("x1", "sp", -5), addi("x19", "x0", 1)}, t \in {ldt("x1", "x0", 3), ldw("x1", "x0")}}
  \cup {Fun(<< <<<<idx("x0", "x0", n), i, t>>, end("br", "x1", <<>>)>>, <<<<j>>, ret>>, <<<<movi("x0", 7)>>, b(4)>>, <<<<>>, ret>> >>) :
     n \in 1..9, i \in {movi("x19", 1), str("x1", "sp", -5)}, j \in {bl(7), addi("x0", "x0", 2)}, t \in {ldt("x1", "x0", 3)}}
  \cup {Fun(<< <<<<idx("x0", "x0", n), ldw("x1", "x0")>>, end("br", "x1", <<>>)>>, <<<<j>>, ret>>, <<<<movi("x0", 7)>>, b(4)>>, <<<<>>, ret>> >>) :
     n \in {1, 2, 3, 7, 9}, j \in {bl(7), addi("x0", "x0", 2)}}
  \cup {Fun(<< <<<<i>>, b(2)>>, <<<<idx("x0", "x0", n), ldt("x1", "x0", 4)>>, end("br", "x1", <<>>)>>, <<<<j>>, ret>>, <<<<k, l>>, b(2)>> >>) :
     n \in {1, 3}, i \in {movi("x19", 1), cmpi("x0", 1)}, j \in Sets, k \in {svc, addi("x0", "x0", 1)}, l \in {addi("x19", "x19", 1), str("x1", "sp", -5)}}

\* Targets chosen before the branch: kept in a register, in memory, in the
\* frame; behind a stack guard.
Chosen ==
  {Fun(<< <<<<i>>, end("cbz", "x0", <<2, 3>>)>>, <<<<movi("x1", 5), s[1]>>, b(4)>>, <<<<movi("x1", n), s[1]>>, b(4)>>,
          <<<<j, s[2]>>, end("br", "x1", <<>>)>>, <<<<movi("x0", 7)>>, ret>>, <<<<bl(7)>>, b(5)>> >>) :
     i \in Sets, n \in {5, 6}, j \in {movi("x0", 3), addi("x19", "x0", 1)},
     s \in {<<movi("x19", 2), movi("x19", 3)>>, <<stri("x1", 9), ldri("x1", 9)>>, <<str("x1", "sp", -5), ldr("x1", "sp", -5)>>}}
  \cup {Fun(<< <<<<ldri("x0", 9), str("x0", "sp", -5), i, ldri("x0", 9), ldr("x1", "sp", -5), cmpr("x0", "x1")>>, end("cond", c[1], c[2])>>,
               <<<<bl(0)>>, ret>>, <<<<movi("x1", 4), s>>, end("br", "x1", <<>>)>>, <<<<movi("x0", 3)>>, ret>> >>) :
     i \in {bl(7), svc}, c \in {<<"NE", <<2, 3>>>>, <<"EQ", <<3, 2>>>>}, s \in {movi("x0", 7), ldri("x1", 9)}}

\* What the emitter has to get right: registers exchanged round a loop, an
\* argument read narrow and merged, a structure in the frame handed to a call.
mov(rd, rn) == addi(rd, rn, 0)
Emitted ==
  {Fun(<< <<<<i>>, b(2)>>, <<<<mov("x19", "x0"), mov("x0", "x1"), mov("x1", "x19"), cmpi("x0", n)>>, end("cond", c, <<3, 2>>)>>,
          <<<<k>>, ret>> >>) : i \in Sets, n \in {1, 9}, c \in {"EQ", "GT"}, k \in {add("x0", "x0", "x1"), bl(7)}}
  \cup {Fun(<< <<<<i>>, end("cbz", "x1", <<2, 3>>)>>, <<<<j>>, b(3)>>, <<<<k>>, ret>> >>) :
     i \in {stri("w0", 9), str("w0", "sp", -4)}, j \in Sets, k \in {add("x0", "x0", "x1"), bl(7)}}
  \cup {Fun(<< <<<<str("w0", "sp", m), str("w0", "sp", n), i, addi("x0", "sp", -5), c>>, ret>> >>) :
     m, n \in {-5, -3}, i \in Sets \cup {ldr("w0", "sp", -3)}, c \in {bl(7), blr("x1")}}

MCPrograms == Straight \cup Diamond \cup Loop \cup Shapes \cup Nested \cup Computed3 \cup Tables \cup Chosen \cup Emitted

\* A register counted down to zero.
CountDown ==
  {Fun(<< <<<<movi("x0", n)>>, b(2)>>, <<<<j, addi("x0", "x0", -1), cmpi("x0", 0)>>, end("cond", "EQ", <<3, 2>>)>>, <<<<k>>, ret>> >>) :
     n \in {1, 2, 3}, j \in {stri("w0", 9), bl(0), addi("x19", "x19", 1)}, k \in {movi("x0", 3), add("x0", "x0", "x19")}}

\* A loop around a jump table whose index starts as 1 and is set to 0 by the
\* case that 1 selects: round by round the branch gets a second target.
Dispatcher ==
  {Fun(<< <<<<movi("x0", 1), i>>, b(2)>>, <<<<ldt("x1", "x0", 4)>>, end("br", "x1", <<>>)>>, <<<<j>>, ret>>, <<<<movi("x0", 0), k>>, b(2)>> >>) :
     i \in {movi("x19", 1), cmpi("x0", 1)}, j \in Sets, k \in {svc, addi("x19", "x19", 1)}}
=============================================================================
