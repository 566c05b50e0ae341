------------------------------ MODULE CallPasses ------------------------------
(***************************************************************************)
(* The frame analysis and stack-prop, and the passes that decide where     *)
(* calls and computed branches go and what they pass: the image evaluator, *)
(* recover-tailcall, resolve-call, recover-syscall, fold-resolved-branch   *)
(* and vars.                                                               *)
(***************************************************************************)
EXTENDS SsaPasses

CONSTANTS
  SpRoot,       \* the stack pointer's root register
  ValueCap,     \* ValueSet::kCap
  FirstPage,    \* no object starts below this address
  ImportSlots,  \* the slots the loader binds to another module
  SyscallArgs,  \* the syscall table: number -> argument count
  Declared      \* the prototypes: address -> parameter count

(***************************************************************************)
(* What an address is, as far as the frame analysis can tell, and the pass *)
(* that forwards stores and loads by it: stack_frame.cpp and stack-prop.   *)
(* Displacements are the 64-bit integers of the code: counted modulo the   *)
(* word.                                                                   *)
(***************************************************************************)
NoDelta == Undef

RECURSIVE frameDelta(_)
frameDelta(e) ==
  LET shifted(base, c, sign) == LET d == frameDelta(base)
                                IN  IF d = NoDelta THEN NoDelta ELSE (d + sign * c.n) % 2^WordBits
  IN  CASE e.op = "EntryReg" -> (IF e.k = SpRoot THEN 0 ELSE NoDelta)
        [] e.op = "Add" -> (IF IsConst(e.a[2]) /\ frameDelta(e.a[1]) # NoDelta THEN shifted(e.a[1], e.a[2], 1)
                            ELSE IF IsConst(e.a[1]) THEN shifted(e.a[2], e.a[1], 1) ELSE NoDelta)
        [] e.op = "Sub" -> (IF IsConst(e.a[2]) THEN shifted(e.a[1], e.a[2], -1) ELSE NoDelta)
        [] OTHER -> NoDelta

classify(e) ==
  IF frameDelta(e) # NoDelta THEN [kind |-> "StackSlot", base |-> frameDelta(e)]
  ELSE IF IsConst(e) THEN [kind |-> "Global", base |-> e.n]
  ELSE [kind |-> "Other", base |-> 0]

\* The ends are 64-bit sums: a range that reaches the top of the word ends at 0.
mayAlias(x, sizeX, y, sizeY) ==
  LET a == classify(x)
      b == classify(y)
      endA == (a.base + sizeX) % 2^WordBits
      endB == (b.base + sizeY) % 2^WordBits
  IN  IF a.kind = "Other" \/ b.kind = "Other" THEN "May"
      ELSE IF a.kind # b.kind THEN "No"
      ELSE IF endA <= b.base \/ endB <= a.base THEN "No"
      ELSE IF a.base = b.base /\ sizeX = sizeY THEN "Must"
      ELSE "May"

canonical(delta) ==
  LET sp == entryReg(Regs[SpRoot].w, SpRoot)
  IN  IF delta = 0 THEN sp ELSE binary("Add", sp, constant(sp.w, delta))

canonicalAddress(e) == IF classify(e).kind = "StackSlot" THEN canonical(classify(e).base) ELSE e

\* What a reload reads of a source: all of it, or its low bits.
Reload(data, w) == IF data.w = w THEN data ELSE cast("Trunc", w, data)

(***************************************************************************)
(* One block: sources is what memory is known to hold since the last       *)
(* barrier, in the order it was learned.                                   *)
(***************************************************************************)
KnownAt(sources, addr) == SelectSeq(sources, LAMBDA s : s.addr = addr)

Learn(sources, addr, data) ==
  Append(SelectSeq(sources, LAMBDA s : mayAlias(addr, data.w, s.addr, s.size) = "No"),
         [addr |-> addr, data |-> data, size |-> data.w])

WalkOp(st, b, i, op0) ==
  LET access == op0.code \in {"Store", "Load"}
      op == IF access THEN [op0 EXCEPT !.args[1] = canonicalAddress(@)] ELSE op0
      addr == op.args[1]
      known == KnownAt(st.sources, addr)
      here == Append(st.sources, [addr |-> addr, data |-> valueRef(op.w, op.res), size |-> op.w])
      done == [st EXCEPT !.ops = Append(@, op)]
  IN  CASE access /\ classify(addr).kind = "Other" ->
             IF op.code = "Store" THEN [done EXCEPT !.sources = <<>>] ELSE done
        [] op.code = "Store" /\ classify(addr).kind # "Other" ->
             [done EXCEPT !.sources = Learn(@, addr, apply(st.subst, op.args[2]))]
        [] op.code = "Load" /\ classify(addr).kind # "Other" ->
             IF known # <<>> /\ known[1].data.w >= op.w
             THEN [done EXCEPT !.subst = SubstSet(@, op.res, Reload(known[1].data, op.w)),
                               !.forwarded = @ \cup {<<b, i>>}]
             ELSE [done EXCEPT !.sources = here]
        [] op.code \in {"Call", "Intrinsic", "Unimplemented"} -> [done EXCEPT !.sources = <<>>]
        [] OTHER -> done

walkBlock(st, b) ==
  LET ops == st.f.blocks[b]
      walked == FoldLeft(LAMBDA s, i : WalkOp(s, b, i, ops[i]),
                         [sources |-> <<>>, ops |-> <<>>, subst |-> st.subst, forwarded |-> st.forwarded],
                         [i \in 1..Len(ops) |-> i])
  IN  [f |-> [st.f EXCEPT !.blocks[b] = walked.ops], subst |-> walked.subst, forwarded |-> walked.forwarded]

(***************************************************************************)
(* A global nothing in the function can write is loaded once: the first    *)
(* load in block order serves every other.                                 *)
(***************************************************************************)
Clobbered(f) ==
  \E s \in Sites(f) : LET op == OpAt(f, s)
                      IN  \/ op.code \in {"Call", "Intrinsic", "Unimplemented"}
                          \/ op.code = "Store" /\ classify(op.args[1]).kind = "Other"

StoredAddresses(f) == {OpAt(f, s).args[1] : s \in {t \in Sites(f) : OpAt(f, t).code = "Store"}}

SiteOrder(f) == FoldLeft(LAMBDA acc, b : acc \o [i \in 1..Len(f.blocks[b]) |-> <<b, i>>],
                         <<>>, [b \in 1..Len(f.blocks) |-> b])

forwardStoreFreeGlobals(st) ==
  LET f == st.f
      loads == SelectSeq(SiteOrder(f), LAMBDA s :
                 /\ OpAt(f, s).code = "Load" /\ s \notin st.forwarded
                 /\ classify(OpAt(f, s).args[1]).kind = "Global"
                 /\ OpAt(f, s).args[1] \notin StoredAddresses(f))
      visit(g, s) ==
        LET op == OpAt(f, s)
            known == KnownAt(g.sources, op.args[1])
        IN  IF known # <<>> /\ known[1].data.w >= op.w
            THEN [g EXCEPT !.subst = SubstSet(@, op.res, Reload(known[1].data, op.w)), !.dead = @ \cup {s}]
            ELSE [g EXCEPT !.sources = Append(@, [addr |-> op.args[1], data |-> valueRef(op.w, op.res)])]
      got == FoldLeft(visit, [sources |-> <<>>, subst |-> NoSubst, dead |-> {}], loads)
  IN  IF Clobbered(f) THEN st
      ELSE [st EXCEPT !.f = MapOperands(f, LAMBDA e : apply(got.subst, e)), !.forwarded = @ \cup got.dead]

applyForwarding(st) == removeOps(MapOperands(st.f, LAMBDA e : apply(st.subst, e)), st.forwarded)

stackProp(f) ==
  applyForwarding(forwardStoreFreeGlobals(
    FoldLeft(walkBlock, [f |-> f, subst |-> NoSubst, forwarded |-> {}], [b \in 1..Len(f.blocks) |-> b])))

-----------------------------------------------------------------------------
asConstantThroughCasts(e) ==
  LET inner == IF e.op \in {"ZExt", "SExt", "Trunc", "Bitcast"} THEN e.a[1] ELSE e
  IN  IF IsConst(inner) THEN inner.n ELSE Undef

(***************************************************************************)
(* ImageEval: every value an expression can take, or Top.  The evaluator   *)
(* carries its memo and the expressions it is in the middle of; meeting    *)
(* one of those again contributes nothing.                                 *)
(***************************************************************************)
Top == {Undef}
Capped(vs) == IF Cardinality(vs) > ValueCap THEN Top ELSE vs
unite(a, b) == IF a = Top \/ b = Top THEN Top ELSE Capped(a \cup b)

\* A signed comparison sign-extends from its own width, which is one bit.
Crossed(e, sets) ==
  LET width(i) == IF e.op \in {"CmpLtS", "CmpLeS"} THEN e.w ELSE e.a[i].w
      known(c) == [e EXCEPT !.a = <<>> \o [i \in DOMAIN e.a |-> constant(width(i), c[i])]]
  IN  IF Top \in {sets[i] : i \in DOMAIN sets} THEN Top
      ELSE IF Len(sets) = 1 THEN {tryEvalConst(known(<<x>>)) : x \in sets[1]}
      ELSE IF Cardinality(sets[1]) * Cardinality(sets[2]) > ValueCap THEN Top
      ELSE {tryEvalConst(known(<<x, y>>)) : x \in sets[1], y \in sets[2]}

\* served: the bytes the evaluator's reader serves.
loadSet(served, addresses, w) ==
  IF addresses = Top \/ \E a \in addresses : ~(Bytes(a, w) \subseteq served) THEN Top
  ELSE Capped({LoadFrom(Image, a, w) : a \in addresses})

Evaluated == {"Add", "Sub", "Mul", "And", "Or", "Xor", "Shl", "ShrU", "ShrS", "RotR", "RotL", "Not", "Neg",
              "Clz", "ZExt", "SExt", "Trunc", "Extract"} \cup CompareOps

\* An argument register among computed arms is left out of the union.
Computed(arms) == LET own == SelectSeq(arms, LAMBDA e : e.op # "EntryReg") IN IF own = <<>> THEN arms ELSE own

RECURSIVE evalSet(_, _, _), evalValue(_, _, _), evalEach(_, _, _)
evalEach(f, st, es) ==
  FoldLeft(LAMBDA s, e : LET r == evalSet(f, s, e) IN [r EXCEPT !.outs = Append(s.outs, r.out)],
           [st EXCEPT !.outs = <<>>], es)

UnionOf(f, st, arms) ==
  LET r == evalEach(f, st, Computed(arms))
  IN  [r EXCEPT !.out = FoldLeft(unite, {}, r.outs), !.outs = st.outs]

evalValue(f, st, v) ==
  LET def == DefinitionOf(f, v)
      r == IF def.code = "Phi" THEN UnionOf(f, st, def.args)
           ELSE IF def.code = "Load" THEN LET a == evalSet(f, st, def.args[1])
                                          IN  [a EXCEPT !.out = loadSet(st.served, a.out, def.w)]
           ELSE [st EXCEPT !.out = Top]
  IN  IF v \in DOMAIN st.values THEN [st EXCEPT !.out = st.values[v]]
      ELSE [r EXCEPT !.values = Put(@, v, r.out)]

evalSet(f, st, e) ==
  LET in == [st EXCEPT !.active = @ \cup {e}]
      cond == evalSet(f, in, e.a[1])
      each == evalEach(f, in, e.a)
      r == CASE e.op = "Const" -> [in EXCEPT !.out = {e.n}]
             [] e.op = "Value" -> evalValue(f, in, e.n)
             [] e.op = "Select" -> IF cond.out # Top /\ Cardinality(cond.out) = 1
                                   THEN evalSet(f, cond, e.a[IF cond.out # {0} THEN 2 ELSE 3])
                                   ELSE UnionOf(f, cond, Tail(e.a))
             [] e.op \in Evaluated -> [each EXCEPT !.out = Crossed(e, each.outs), !.outs = st.outs]
             [] OTHER -> [in EXCEPT !.out = Top]
  IN  IF e \in DOMAIN st.memo THEN [st EXCEPT !.out = st.memo[e]]
      ELSE IF e \in st.active THEN [st EXCEPT !.out = {}]
      ELSE [r EXCEPT !.active = st.active, !.memo = Put(@, e, r.out)]

NewEvaluator(served) ==
  [served |-> served, memo |-> Nothing, values |-> Nothing, active |-> {}, out |-> Top, outs |-> <<>>]

(***************************************************************************)
(* resolve-call.                                                           *)
(***************************************************************************)
decodeIfNeeded(va) == IF va \in Executable THEN va
                      ELSE IF Decoded(va) # va /\ Decoded(va) \in Executable THEN Decoded(va)
                      ELSE Undef

converges(set) == IF set = Top \/ Cardinality(set) # 1 THEN Undef ELSE decodeIfNeeded(CHOOSE v \in set : TRUE)

resolveCall(f) ==
  LET calls == SelectSeq(SiteOrder(f), LAMBDA s : OpAt(f, s).code = "Call")
      visit(st, s) ==
        LET target == OpAt(st.f, s).args[1]
            set == evalSet(f, st.eval, target)
            va == IF IsConst(target) THEN decodeIfNeeded(target.n) ELSE converges(set.out)
        IN  [eval |-> IF IsConst(target) THEN st.eval ELSE set,
             f |-> IF va = Undef THEN st.f
                   ELSE [st.f EXCEPT !.blocks[s[1]][s[2]].args[1] = constant(target.w, va)]]
  IN  FoldLeft(visit, [eval |-> NewEvaluator(Immutable), f |-> f], calls).f

(***************************************************************************)
(* recover-tailcall: what the destination of an open branch is built from. *)
(***************************************************************************)
addressForming(op) == op \in {"Add", "Sub", "Or", "ZExt", "SExt", "Trunc", "Bitcast"}
addressesImage(v) == v >= FirstPage /\ v \in DOMAIN Image

\* The observations, as a set: "caller", "image", "import".
RECURSIVE walk(_, _, _, _)
walk(f, e, addressing, seen) ==
  LET def == DefinitionOf(f, e.n)
      next == seen \cup {<<e, addressing>>}
  IN  IF <<e, addressing>> \in seen THEN {}
      ELSE CASE e.op = "EntryReg" -> IF addressing /\ e.k \in ToSet(ArgRoots) THEN {"caller"} ELSE {}
             [] e.op = "Const" -> IF addressing /\ addressesImage(e.n) THEN {"image"} ELSE {}
             [] e.op = "Value" -> IF def.code # "Load" THEN {}
                                  ELSE IF asConstantThroughCasts(def.args[1]) \in ImportSlots THEN {"import"}
                                  ELSE walk(f, def.args[1], TRUE, next)
             [] e.op = "Select" -> walk(f, e.a[1], FALSE, next) \cup walk(f, e.a[2], addressing, next)
                                   \cup walk(f, e.a[3], addressing, next)
             [] OTHER -> UNION {walk(f, e.a[i], addressing /\ addressForming(e.op), next) : i \in DOMAIN e.a}

classifyOrigin(origin) == "import" \in origin \/ ("caller" \in origin /\ "image" \notin origin)

recoverOne(f, b) ==
  LET op == Last(f.blocks[b])
      call == mkop("Call", WordBits, f.next, "", op.args, <<>>)
      ret == mkop("Return", 0, 0, "", <<valueRef(WordBits, f.next)>>, <<>>)
  IN  [f EXCEPT !.blocks[b] = Front(@) \o <<call, ret>>, !.next = @ + 1]

recoverTailCall(f) ==
  LET open(b) == Idom(f)[b] # 0 /\ f.blocks[b] # <<>> /\ Last(f.blocks[b]).code = "IndirectBranch"
                 /\ Last(f.blocks[b]).to = <<>>
      leaves(b) == open(b) /\ classifyOrigin(walk(f, Last(f.blocks[b]).args[1], TRUE, {}))
  IN  FoldLeft(LAMBDA g, b : IF leaves(b) THEN recoverOne(g, b) ELSE g, f, [b \in 1..Len(f.blocks) |-> b])

(***************************************************************************)
(* recover-syscall: the arguments a known system call takes.               *)
(***************************************************************************)
kSyscallIntrinsic == "aarch64.svc"
kSyscallFirstArg == 3

recoverSyscall(f) ==
  MapOps(f, LAMBDA op :
    LET number == asConstantThroughCasts(op.args[2])
        keep == kSyscallFirstArg - 1 + SyscallArgs[number]
    IN  IF op.code # "Intrinsic" THEN op
        ELSE IF op.reg # kSyscallIntrinsic \/ Len(op.args) < kSyscallFirstArg THEN op
        ELSE IF number \notin DOMAIN SyscallArgs THEN op
        ELSE IF Len(op.args) <= keep THEN op
        ELSE [op EXCEPT !.args = SubSeq(@, 1, keep)])

\* apply-types: the arguments a callee's prototype declares.
applyTypes(f) ==
  MapOps(f, LAMBDA op :
    LET va == asConstantThroughCasts(op.args[1])
    IN  IF op.code # "Call" THEN op
        ELSE IF va \notin DOMAIN Declared THEN op
        ELSE IF Len(op.args) <= 1 + Declared[va] THEN op
        ELSE [op EXCEPT !.args = SubSeq(@, 1, 1 + Declared[va])])

(***************************************************************************)
(* fold-resolved-branch.                                                   *)
(***************************************************************************)
RECURSIVE removeOrphanedLoads(_, _)
removeOrphanedLoads(f, candidates) ==
  LET dead == {s \in Sites(f) : OpAt(f, s).code = "Load" /\ OpAt(f, s).res \in candidates \ UsedValues(f)}
  IN  IF dead = {} THEN f
      ELSE removeOrphanedLoads(removeOps(f, dead), UNION {UsedIn(OpAt(f, s)) : s \in dead})

foldResolvedBranch(f) ==
  LET single(op) == op.code = "IndirectBranch" /\ Len(op.to) = 1
      gone == UNION {ValuesIn(OpAt(f, s).args[1]) : s \in {t \in Sites(f) : single(OpAt(f, t))}}
  IN  removeOrphanedLoads(rebuildEdges(MapOps(f, LAMBDA op : IF single(op) THEN appendBranch(op.to[1]) ELSE op)),
                          gone)

(***************************************************************************)
(* vars: how many of the attached arguments the caller set up.             *)
(***************************************************************************)
clobbersArguments(op) == op.code = "Call" /\ ~callsRegisterPreservingHelper(op.args[1])

RECURSIVE ReachedFrom(_, _)
ReachedFrom(f, bs) == LET all == bs \cup UNION {SuccSet(f, b) : b \in bs} IN IF all = bs THEN bs ELSE ReachedFrom(f, all)

\* The argument slots that still hold their own register's entry value, with
\* no call before them that could have replaced it.
untouchedSlots(f) ==
  LET callBlocks == {s[1] : s \in {t \in Sites(f) : clobbersArguments(OpAt(f, t))}}
      afterCall == ReachedFrom(f, UNION {SuccSet(f, b) : b \in callBlocks})
      preceded(s) == s[1] \in afterCall \/ \E i \in 1..(s[2] - 1) : clobbersArguments(f.blocks[s[1]][i])
      slots == {s \in Sites(f) : OpAt(f, s).code \in {"Call", "IndirectBranch"} /\ ~preceded(s)}
               \X (1..Len(ArgRoots))
  IN  {x \in slots : LET args == OpAt(f, x[1]).args
                     IN  x[2] < Len(args) /\ args[x[2] + 1] = entryReg(Regs[ArgRoots[x[2]]].w, ArgRoots[x[2]])}

entryRegsReadOutside(f, untouched) ==
  LET entries(e) == {l.k : l \in {x \in Leaves(e) : x.op = "EntryReg"}}
      read(s) == UNION {entries(OpAt(f, s).args[i]) : i \in {j \in DOMAIN OpAt(f, s).args : <<s, j - 1>> \notin untouched}}
  IN  UNION {read(s) : s \in Sites(f)}

\* Slot i of the call at site s is evidence of an argument.
isSetUp(f, s, i, declared, untouched, readElsewhere) ==
  LET args == OpAt(f, s).args
      slot == args[i + 1]
  IN  /\ slot.op # "Undef"
      /\ i <= declared \/ IF <<s, i>> \in untouched THEN slot.k \in readElsewhere ELSE slot # args[1]

recoverArity(f, s, untouched, readElsewhere) ==
  LET op == OpAt(f, s)
      va == asConstantThroughCasts(op.args[1])
      declared == IF va \in DOMAIN Declared THEN Declared[va] ELSE 0
      attached == 1..(Len(op.args) - 1)
      written == {i \in attached : <<s, i>> \notin untouched /\ isSetUp(f, s, i, declared, untouched, readElsewhere)}
      ambiguous == IF written = {} THEN {} ELSE untouched
      used == {i \in attached : isSetUp(f, s, i, declared, ambiguous, readElsewhere)}
  IN  SubSeq(op.args, 1, IF used = {} THEN 1 ELSE Max(used) + 1)

vars(f) ==
  LET untouched == untouchedSlots(f)
      readElsewhere == entryRegsReadOutside(f, untouched)
      arity(b, i) == LET op == f.blocks[b][i]
                     IN  IF op.code # "Call" THEN op
                         ELSE [op EXCEPT !.args = recoverArity(f, <<b, i>>, untouched, readElsewhere)]
  IN  [f EXCEPT !.blocks = <<>> \o [b \in DOMAIN @ |-> <<>> \o [i \in DOMAIN @[b] |-> arity(b, i)]]]
=============================================================================
