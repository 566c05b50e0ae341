------------------------ MODULE LiftDiscoveryProofs ------------------------
(***************************************************************************)
(* Proofs about LiftDiscovery for every image, coverage and entry list:    *)
(* the inductive invariant IndInv and what follows from it.                *)
(***************************************************************************)
EXTENDS LiftDiscovery, FiniteSetTheorems, TLAPS

-----------------------------------------------------------------------------
(* The elements of a queue. *)

\* Popping a queue removes its front from its elements, and nothing else is lost.
LEMMA ElemsTail ==
  ASSUME NEW S, NEW q \in Seq(S), q # << >>
  PROVE  /\ Head(q) \in S /\ Tail(q) \in Seq(S)
         /\ Head(q) \in Elems(q)
         /\ Elems(q) = {Head(q)} \cup Elems(Tail(q))
<1>1. Len(q) \in Nat /\ Len(q) >= 1 /\ DOMAIN q = 1 .. Len(q)
  OBVIOUS
<1>2. /\ Tail(q) \in Seq(S) /\ Len(Tail(q)) = Len(q) - 1
      /\ \A i \in 1 .. (Len(q) - 1) : Tail(q)[i] = q[i + 1]
  OBVIOUS
<1>3. Head(q) = q[1] /\ q[1] \in S
  BY <1>1
<1>4. ASSUME NEW x \in Elems(q) PROVE x \in {Head(q)} \cup Elems(Tail(q))
  <2>1. PICK i \in 1 .. Len(q) : x = q[i]
    BY <1>4 DEF Elems
  <2>2. CASE i = 1
    BY <2>1, <2>2, <1>3
  <2>3. CASE i # 1
    <3>1. i - 1 \in 1 .. (Len(q) - 1) /\ Tail(q)[i - 1] = q[(i - 1) + 1] /\ (i - 1) + 1 = i
      BY <2>1, <2>3, <1>1, <1>2
    <3> QED
      BY <3>1, <2>1, <1>2 DEF Elems
  <2> QED
    BY <2>2, <2>3
<1>5. ASSUME NEW x \in Elems(Tail(q)) PROVE x \in Elems(q)
  <2>1. PICK i \in 1 .. (Len(q) - 1) : x = Tail(q)[i]
    BY <1>5, <1>2 DEF Elems
  <2>2. i + 1 \in 1 .. Len(q) /\ x = q[i + 1]
    BY <2>1, <1>1, <1>2
  <2> QED
    BY <2>2 DEF Elems
<1>6. Head(q) \in Elems(q)
  BY <1>1, <1>3 DEF Elems
<1> QED
  BY <1>2, <1>3, <1>4, <1>5, <1>6

\* Appending adds one element.
LEMMA ElemsAppend ==
  ASSUME NEW S, NEW q \in Seq(S), NEW x \in S
  PROVE  Append(q, x) \in Seq(S) /\ Elems(Append(q, x)) = Elems(q) \cup {x}
<1>1. /\ Append(q, x) \in Seq(S) /\ Len(Append(q, x)) = Len(q) + 1 /\ Len(q) \in Nat
      /\ \A i \in 1 .. Len(q) : Append(q, x)[i] = q[i]
      /\ Append(q, x)[Len(q) + 1] = x
  OBVIOUS
<1>2. 1 .. (Len(q) + 1) = (1 .. Len(q)) \cup {Len(q) + 1}
  BY <1>1
<1> QED
  BY <1>1, <1>2 DEF Elems

\* Concatenation adds the elements of the second queue.
LEMMA ElemsConcat ==
  ASSUME NEW S, NEW q \in Seq(S), NEW r \in Seq(S)
  PROVE  q \o r \in Seq(S) /\ Elems(q \o r) = Elems(q) \cup Elems(r)
<1>1. /\ q \o r \in Seq(S) /\ Len(q \o r) = Len(q) + Len(r) /\ Len(q) \in Nat /\ Len(r) \in Nat
      /\ \A i \in 1 .. (Len(q) + Len(r)) :
           (q \o r)[i] = IF i <= Len(q) THEN q[i] ELSE r[i - Len(q)]
  OBVIOUS
<1>2. ASSUME NEW x \in Elems(q \o r) PROVE x \in Elems(q) \cup Elems(r)
  <2>1. PICK i \in 1 .. (Len(q) + Len(r)) : x = (q \o r)[i]
    BY <1>2, <1>1 DEF Elems
  <2>2. CASE i <= Len(q)
    BY <2>1, <2>2, <1>1 DEF Elems
  <2>3. CASE ~(i <= Len(q))
    <3>1. i - Len(q) \in 1 .. Len(r) /\ x = r[i - Len(q)]
      BY <2>1, <2>3, <1>1
    <3> QED
      BY <3>1 DEF Elems
  <2> QED
    BY <2>2, <2>3
<1>3. ASSUME NEW x \in Elems(q) PROVE x \in Elems(q \o r)
  <2>1. PICK i \in 1 .. Len(q) : x = q[i]
    BY <1>3 DEF Elems
  <2>2. i \in 1 .. (Len(q) + Len(r)) /\ x = (q \o r)[i]
    BY <2>1, <1>1
  <2> QED
    BY <2>2, <1>1 DEF Elems
<1>4. ASSUME NEW x \in Elems(r) PROVE x \in Elems(q \o r)
  <2>1. PICK i \in 1 .. Len(r) : x = r[i]
    BY <1>4 DEF Elems
  <2>2. /\ i + Len(q) \in 1 .. (Len(q) + Len(r)) /\ ~(i + Len(q) <= Len(q))
        /\ (i + Len(q)) - Len(q) = i
    BY <2>1, <1>1
  <2>3. x = (q \o r)[i + Len(q)]
    BY <2>1, <2>2, <1>1
  <2> QED
    BY <2>2, <2>3, <1>1 DEF Elems
<1> QED
  BY <1>1, <1>2, <1>3, <1>4

LEMMA ElemsNone == Elems(<< >>) = {}
BY DEF Elems

\* A set with at most one element, as a queue.
LEMMA ElemsAsSeq ==
  ASSUME NEW T, NEW S \in SUBSET T, \A x, y \in S : x = y
  PROVE  asSeq(S) \in Seq(T) /\ Elems(asSeq(S)) = S
<1>1. CASE S = {}
  BY <1>1, ElemsNone DEF asSeq
<1>2. CASE S # {}
  <2> DEFINE c == CHOOSE x \in S : TRUE
  <2>1. c \in S
    BY <1>2
  <2>2. S = {c}
    BY <2>1
  <2>3. asSeq(S) = <<c>>
    BY <1>2 DEF asSeq
  <2>4. Len(<<c>>) = 1 /\ <<c>>[1] = c /\ 1 .. 1 = {1}
    OBVIOUS
  <2>5. Elems(<<c>>) = {c}
    BY <2>4 DEF Elems
  <2> QED
    BY <2>1, <2>2, <2>3, <2>5
<1> QED
  BY <1>1, <1>2

-----------------------------------------------------------------------------
(* The program and the operators that read it. *)

LEMMA AddressSeq == \A q \in Seq(Address) : q \in Seq(Nat) /\ Elems(q) \subseteq Address
BY DEF Address, Elems

LEMMA ProgramFacts ==
  ASSUME program \in Programs
  PROVE  /\ DOMAIN Image \subseteq Address
         /\ \A a \in DOMAIN Image :
              /\ Image[a].kind \in Kinds /\ Image[a].target \in Nat
              /\ Image[a].kind \in {"branch", "cond"} => Image[a].target # 0
         /\ program.coverage.active \in BOOLEAN
         /\ \A a : observed(a) \in Seq(Address)
         /\ program.entry \in Address
         /\ \A entries \in program.increments : entries \in Seq(Address) /\ entries # << >>
<1>1. \A a \in DOMAIN Image : Image[a] \in Insn
  BY ProgramsAssumption DEF Image
<1>2. \A a : observed(a) \in Seq(Address)
  BY ProgramsAssumption DEF observed
<1> QED
  BY <1>1, <1>2, ProgramsAssumption DEF Image, Insn

LEMMA FlowFacts ==
  ASSUME program \in Programs, NEW a \in DOMAIN Image
  PROVE  /\ a \in Nat /\ a # 0
         /\ flowTarget(a) \in Nat /\ fallthrough(a) \in {0, a + 1}
         /\ arms(a) \subseteq Address
         /\ Image[a].kind \in {"branch", "cond"} => terminates(a)
         /\ flowTarget(a) # 0 => Image[a].kind \in {"branch", "cond"}
         /\ targetsOf(a) \in Seq(Nat)
         /\ untaken(a) \subseteq Address
         /\ ~program.coverage.active =>
              Elems(targetsOf(a)) = {flowTarget(a), fallthrough(a)}
         /\ arms(a) \subseteq untaken(a) \cup Elems(targetsOf(a))
<1>1. a \in Nat /\ a # 0
  BY ProgramFacts DEF Address
<1>2. flowTarget(a) \in Nat /\ fallthrough(a) \in {0, a + 1} /\ fallthrough(a) \in Nat
  BY <1>1, ProgramFacts DEF flowTarget, fallthrough
<1>3. arms(a) \subseteq Address
  BY <1>2 DEF arms, Address
<1>4. untaken(a) \subseteq arms(a)
  BY DEF untaken
<1>5. Elems(<<flowTarget(a), fallthrough(a)>>) = {flowTarget(a), fallthrough(a)}
  BY DEF Elems
<1>6. observed(a) \in Seq(Nat)
  <2>1. observed(a) \in Seq(Address)
    BY ProgramFacts
  <2> QED
    BY <2>1, AddressSeq
<1>7. targetsOf(a) \in Seq(Nat)
  BY <1>2, <1>6 DEF targetsOf
<1>8. arms(a) \subseteq untaken(a) \cup Elems(targetsOf(a))
  BY <1>5 DEF arms, untaken, targetsOf
<1>9. /\ Image[a].kind \in {"branch", "cond"} => terminates(a)
      /\ flowTarget(a) # 0 => Image[a].kind \in {"branch", "cond"}
  BY DEF terminates, flowTarget
<1>10. ~program.coverage.active => Elems(targetsOf(a)) = {flowTarget(a), fallthrough(a)}
  BY <1>5 DEF targetsOf
<1> QED
  BY <1>1, <1>2, <1>3, <1>4, <1>7, <1>8, <1>9, <1>10

\* A scan stops at one address.
LEMMA EndUnique ==
  ASSUME NEW s \in Nat, NEW a \in Nat, NEW b \in Nat, isEnd(s, a), isEnd(s, b)
  PROVE  a = b
<1>1. ASSUME NEW c \in Nat, NEW d \in Nat, isEnd(s, c), isEnd(s, d), c < d PROVE FALSE
  <2>1. c >= s /\ c \in s .. (d - 1)
    BY <1>1 DEF isEnd, measured
  <2>2. readable(c) /\ covered(c) /\ (c # s => c \notin leaders)
    BY <1>1, <2>1 DEF isEnd, measured
  <2>3. ~boundary(s, c)
    BY <2>2 DEF boundary
  <2>4. c > s /\ endsBlock(c - 1)
    BY <1>1, <2>3 DEF isEnd, measured
  <2>5. c - 1 \in s .. (d - 1)
    BY <2>4, <1>1
  <2>6. c - 1 = d - 1
    BY <1>1, <2>4, <2>5 DEF isEnd, measured
  <2> QED
    BY <2>6, <1>1
<1> QED
  BY <1>1

\* At most one extent is cut by a target, and never one of an existing block.
LEMMA CutFacts ==
  ASSUME TypeOK, NEW t \in Nat
  PROVE  /\ cutBy(t) \subseteq fresh
         /\ \A x, y \in cutBy(t) : x = y
<1>1. \A x \in DOMAIN extents : x \in Nat
  BY DEF TypeOK, Address
<1> QED
  BY <1>1 DEF cutBy, isLastBefore, fresh

-----------------------------------------------------------------------------
(* The inductive invariant, action by action. *)

Inv == program \in Programs /\ IndInv

LEMMA InitInv == Init => Inv
<1> SUFFICES ASSUME Init PROVE Inv
  OBVIOUS
<1>1. TypeOK
  BY DEF Init, TypeOK, Working, Block
<1>2. /\ LeaderNeverLost /\ EveryArmResolves /\ ArmsKnown /\ Measured /\ Interior
      /\ CurrentInterior /\ Aged /\ StaticNoStale
  BY DEF Init, LeaderNeverLost, EveryArmResolves, ArmsKnown, Measured, Interior,
         CurrentInterior, Aged, StaticNoStale, NoStaleExtent, Working
<1> QED
  BY <1>1, <1>2 DEF Init, Inv, IndInv

\* A new Discovery object starts from what is already lifted.
LEMMA ConstructInv ==
  ASSUME Inv, NEW entries \in Seq(Address), entries # << >>, construct(entries)
  PROVE  Inv'
<1> USE DEF Inv, IndInv, construct
<1>1. TypeOK'
  <2>1. /\ leaders' \subseteq Address /\ external' \subseteq Address
        /\ unresolved' \subseteq Address /\ worklist' \in Seq(Address)
        /\ DOMAIN extents' \subseteq Address
    BY DEF TypeOK
  <2>2. \A b \in DOMAIN blocks : ~blocks[b].external => blocks[b].end \in Address
    BY DEF TypeOK, Block
  <2>3. extents' \in [DOMAIN extents' -> Address]
    BY <2>2
  <2>4. pending' \in Seq(Nat) /\ roots' \subseteq Address
    BY AddressSeq DEF TypeOK
  <2> QED
    BY <2>1, <2>3, <2>4 DEF TypeOK, Working
<1>2. DOMAIN extents' = DOMAIN blocks \ stubs /\ fresh' = {} /\ stubs' = stubs
  BY DEF fresh, stubs
<1>3. LeaderNeverLost'
  BY <1>2, ElemsNone DEF LeaderNeverLost, queued, Working, stubs
<1>4. EveryArmResolves' /\ ArmsKnown' /\ Measured' /\ Interior' /\ CurrentInterior'
  BY <1>2 DEF EveryArmResolves, ArmsKnown, Measured, Interior, CurrentInterior
<1>5. Aged'
  BY DEF Aged, TypeOK, Block
<1>6. StaticNoStale'
  BY DEF StaticNoStale, NoStaleExtent, static
<1> QED
  BY <1>1, <1>3, <1>4, <1>5, <1>6

\* What was measured stays measured while leaders only grow.
LEMMA MeasuredGrows ==
  ASSUME program' = program, leaders \subseteq leaders', NEW s, NEW e, measured(s, e)
  PROVE  measured(s, e)'
BY DEF measured, boundary, readable, covered, endsBlock, terminates, Image

\* The operators that only read the program do not change with the scan.
LEMMA ProgramStays ==
  ASSUME program' = program, NEW a, NEW b
  PROVE  /\ static' <=> static
         /\ needs(a, b)' = needs(a, b)
         /\ flowTarget(a)' = flowTarget(a)
         /\ readable(a)' <=> readable(a)
BY DEF static, needs, arms, flowTarget, fallthrough, Image, readable

LEMMA SeedInv == ASSUME Inv, SeedEntry PROVE Inv'
<1> USE DEF Inv, IndInv
<1> DEFINE e == Head(pending)
           admitted == e \notin DOMAIN extents /\ readable(e) /\ covered(e)
<1>1. /\ phase = "seed" /\ phase' \in {"seed", "pop"}
      /\ pending # << >> /\ fresh = {}
      /\ (phase' = "seed" => Len(pending) # 1)
      /\ UNCHANGED <<program, blocks, external, extents, unresolved, current, lifts, roots>>
  BY DEF SeedEntry, Measured
<1>2. e \in Nat /\ Tail(pending) \in Seq(Nat) /\ (phase' = "seed" => Tail(pending) # << >>)
  <2>1. pending \in Seq(Nat)
    BY DEF TypeOK
  <2>2. e \in Nat /\ Tail(pending) \in Seq(Nat)
    BY <2>1, <1>1, ElemsTail
  <2>3. Len(pending) # 1 => Len(Tail(pending)) # 0
    BY <2>1, <1>1
  <2>4. Len(pending) # 1 => Tail(pending) # << >>
    BY <2>3
  <2> QED
    BY <1>1, <2>2, <2>4
<1>3. admitted => e \in Address
  BY ProgramFacts DEF readable
<1>4. /\ leaders' = (IF admitted THEN leaders \cup {e} ELSE leaders)
      /\ worklist' = (IF admitted THEN Append(worklist, e) ELSE worklist)
      /\ pending' = Tail(pending)
  BY DEF SeedEntry
<1>5. /\ worklist' \in Seq(Address) /\ leaders' \subseteq Address
      /\ queued' = queued \cup (leaders' \ leaders) \cup (IF admitted THEN {e} ELSE {})
  <2>1. CASE admitted
    <3>1. worklist \in Seq(Address) /\ leaders \subseteq Address
      BY DEF TypeOK
    <3>2. Append(worklist, e) \in Seq(Address) /\ Elems(Append(worklist, e)) = Elems(worklist) \cup {e}
      BY <3>1, <2>1, <1>3, ElemsAppend
    <3> QED
      BY <3>1, <3>2, <2>1, <1>3, <1>4 DEF queued
  <2>2. CASE ~admitted
    BY <2>2, <1>4 DEF queued, TypeOK
  <2> QED
    BY <2>1, <2>2
<1>6. TypeOK'
  BY <1>1, <1>2, <1>4, <1>5 DEF TypeOK, Working
<1>7. fresh' = {} /\ stubs' = stubs
  BY <1>1 DEF fresh, stubs
<1>8. LeaderNeverLost'
  BY <1>1, <1>4, <1>5, <1>7 DEF LeaderNeverLost, Working
<1>9. EveryArmResolves' /\ ArmsKnown' /\ Measured' /\ Interior' /\ CurrentInterior'
  BY <1>1, <1>2, <1>4, <1>7 DEF EveryArmResolves, ArmsKnown, Measured, Interior, CurrentInterior
<1>10. Aged' /\ StaticNoStale'
  BY <1>1 DEF Aged, StaticNoStale, NoStaleExtent, Working
<1> QED
  BY <1>1, <1>6, <1>8, <1>9, <1>10

LEMMA SkipInv == ASSUME Inv, SkipScanned PROVE Inv'
<1> USE DEF Inv, IndInv
<1>1. /\ phase = "pop" /\ worklist # << >> /\ Head(worklist) \in DOMAIN extents
      /\ worklist' = Tail(worklist)
      /\ UNCHANGED <<program, blocks, leaders, external, extents, unresolved, current,
                     pending, phase, lifts, roots>>
  BY DEF SkipScanned
<1>2. worklist' \in Seq(Address) /\ queued = {Head(worklist)} \cup queued'
  BY <1>1, ElemsTail DEF TypeOK, queued
<1>3. TypeOK'
  BY <1>1, <1>2 DEF TypeOK
<1>4. LeaderNeverLost'
  BY <1>1, <1>2 DEF LeaderNeverLost, stubs
<1>5. EveryArmResolves' /\ ArmsKnown' /\ Interior' /\ CurrentInterior' /\ Aged'
  BY <1>1 DEF EveryArmResolves, ArmsKnown, Interior, CurrentInterior, Aged, fresh, needs,
              arms, flowTarget, fallthrough, Image, static, stubs
<1>6. Measured'
  <2>1. \A s \in fresh : measured(s, extents[s])'
    BY <1>1, MeasuredGrows DEF Measured, Working
  <2> QED
    BY <2>1, <1>1 DEF Measured, fresh
<1>7. StaticNoStale'
  BY <1>1 DEF StaticNoStale, NoStaleExtent
<1> QED
  BY <1>1, <1>3, <1>4, <1>5, <1>6, <1>7

LEMMA ScanInv == ASSUME Inv, ScanBlock PROVE Inv'
<1> USE DEF Inv, IndInv
<1> DEFINE start == Head(worklist)
<1>1. /\ phase = "pop" /\ worklist # << >> /\ start \notin DOMAIN extents
      /\ worklist' = Tail(worklist) /\ phase' = "visit"
      /\ UNCHANGED <<program, blocks, leaders, extents, lifts, roots>>
  BY DEF ScanBlock
<1>2. PICK at \in ends(start) :
        /\ current' = [start |-> start, at |-> at]
        /\ pending' = IF at > start /\ terminates(at - 1) THEN targetsOf(at - 1) ELSE << >>
        /\ external' = external \cup (IF at > start /\ terminates(at - 1)
                                        THEN untaken(at - 1) ELSE {})
        /\ unresolved' = unresolved \cup (IF leavesHole(start, at) THEN {start} ELSE {})
  BY DEF ScanBlock
<1>3. /\ start \in Address /\ worklist' \in Seq(Address) /\ start \in leaders
      /\ queued = {start} \cup queued'
  <2>1. worklist \in Seq(Address)
    BY DEF TypeOK
  <2>2. /\ start \in Address /\ Tail(worklist) \in Seq(Address) /\ start \in Elems(worklist)
        /\ Elems(worklist) = {start} \cup Elems(Tail(worklist))
    BY <2>1, <1>1, ElemsTail
  <2> QED
    BY <2>2, <1>1 DEF queued, LeaderNeverLost, Working
<1>4. /\ start \in Nat /\ start # 0 /\ at \in Nat /\ at >= start /\ isEnd(start, at)
      /\ measured(start, at)
  <2>1. at \in Int /\ isEnd(start, at)
    BY <1>2 DEF ends
  <2> QED
    BY <2>1, <1>3 DEF isEnd, measured, Address
<1>5. at > start => at - 1 \in DOMAIN Image /\ (at - 1) + 1 = at
  <2>1. at > start => at - 1 \in start .. (at - 1)
    BY <1>4
  <2> QED
    BY <2>1, <1>4 DEF measured, readable
<1>6. TypeOK'
  <2>1. pending' \in Seq(Nat) /\ external' \subseteq Address
    BY <1>2, <1>5, FlowFacts DEF TypeOK
  <2>2. unresolved' \subseteq Address /\ current' \in [start : Nat, at : Nat]
    BY <1>2, <1>3, <1>4 DEF TypeOK
  <2> QED
    BY <1>1, <1>3, <2>1, <2>2 DEF TypeOK, Working
<1>7. LeaderNeverLost'
  BY <1>1, <1>2, <1>3 DEF LeaderNeverLost, Working, stubs
<1>8. fresh' = fresh /\ stubs' = stubs /\ (static' <=> static)
  BY <1>1 DEF fresh, stubs, static
<1>9. ArmsKnown'
  <2>1. \A s \in fresh : needs(s, extents[s])' \subseteq leaders' \cup external'
    BY <1>1, <1>2, ProgramStays DEF ArmsKnown, Working
  <2>2. needs(start, at) \subseteq external' \cup Elems(pending')
    BY <1>2, <1>5, FlowFacts DEF needs
  <2>3. needs(current.start, current.at)' = needs(start, at)
    BY <1>1, <1>2 DEF needs, arms, flowTarget, fallthrough, Image
  <2> QED
    BY <1>1, <1>8, <2>1, <2>2, <2>3 DEF ArmsKnown
<1>10. Measured'
  <2>1. \A s \in fresh : measured(s, extents[s])'
    BY <1>1, MeasuredGrows DEF Measured, Working
  <2>2. measured(current.start, current.at)' /\ current'.start # 0
    BY <1>1, <1>2, <1>4 DEF measured, boundary, readable, covered, endsBlock, terminates, Image
  <2>3. ASSUME static, pending' # << >>
        PROVE  Elems(pending') \subseteq {0, flowTarget(at - 1), at}
    BY <2>3, <1>2, <1>5, FlowFacts DEF static
  <2>4. flowTarget(current.at - 1)' = flowTarget(at - 1) /\ current'.at = at
    BY <1>1, <1>2 DEF flowTarget, Image
  <2> QED
    BY <1>1, <1>8, <2>1, <2>2, <2>3, <2>4, ElemsNone DEF Measured
<1>11. Interior'
  <2> SUFFICES ASSUME static, NEW s \in fresh, NEW l \in leaders, s < l, l < extents[s]
               PROVE  /\ l \notin stubs /\ l \notin DOMAIN extents
                      /\ l = flowTarget(extents[s] - 1)
                      /\ l = start => l \in Elems(pending')
    BY <1>1, <1>2, <1>8 DEF Interior, flowTarget, Image
  <2>1. \A m \in leaders : s < m /\ m < extents[s] => m = flowTarget(extents[s] - 1)
    BY <1>1 DEF Interior, Working
  <2>2. l \notin stubs /\ l \notin DOMAIN extents /\ l = flowTarget(extents[s] - 1)
    BY <1>1 DEF Interior, Working
  <2>3. ASSUME l = start PROVE l \in Elems(pending')
    <3> DEFINE e == extents[s]
    <3>1. s \in Nat /\ e \in Nat /\ l \in Nat
      BY <1>3 DEF fresh, TypeOK, Address
    <3>2. measured(s, e)
      BY <1>1 DEF Measured, Working
    <3>3. e - 1 \in DOMAIN Image /\ e - 1 \in s .. (e - 1)
      BY <3>1, <3>2 DEF measured, readable
    <3>4. Image[e - 1].kind \in {"branch", "cond"} /\ terminates(e - 1) /\ endsBlock(e - 1)
      BY <2>2, <2>3, <1>4, <3>3, FlowFacts DEF endsBlock
    <3>5. measured(l, e)
      <4>1. \A b \in l .. (e - 1) : b \in s .. (e - 1)
        BY <3>1
      <4> QED
        BY <3>1, <3>2, <3>4, <4>1 DEF measured
    <3>6. \A b \in (l + 1) .. (e - 1) : b \notin leaders
      BY <2>1, <2>2, <3>1
    <3>7. at = e
      BY <1>4, <2>3, <3>1, <3>5, <3>6, EndUnique DEF isEnd
    <3>8. pending' = targetsOf(e - 1)
      BY <1>2, <2>3, <3>1, <3>4, <3>7
    <3> QED
      BY <2>2, <3>3, <3>8, FlowFacts DEF static
  <2> QED
    BY <2>2, <2>3
<1>12. CurrentInterior'
  <2>1. \A l \in leaders : ~(start < l /\ l < at)
    <3> SUFFICES ASSUME NEW l \in leaders, start < l, l < at PROVE FALSE
      OBVIOUS
    <3>1. l \in Nat
      BY DEF TypeOK, Address
    <3>2. l \in (start + 1) .. (at - 1)
      BY <3>1, <1>4
    <3> QED
      BY <3>2, <1>4 DEF isEnd
  <2> QED
    BY <2>1, <1>1, <1>2 DEF CurrentInterior
<1>13. EveryArmResolves' /\ Aged' /\ StaticNoStale'
  BY <1>1 DEF EveryArmResolves, Aged, StaticNoStale, NoStaleExtent, Working
<1> QED
  BY <1>1, <1>6, <1>7, <1>9, <1>10, <1>11, <1>12, <1>13

\* What visiting a target queues: the target when it is a new leader, and the
\* start of the extent it cuts.
visited(t) == IF t # 0 /\ readable(t) THEN ({t} \ leaders) \cup cutBy(t) ELSE {}

LEMMA VisitQueue ==
  ASSUME Inv, VisitTarget
  PROVE  /\ worklist' \in Seq(Address)
         /\ queued' = queued \cup visited(Head(pending))
<1> DEFINE t == Head(pending)
<1>1. pending \in Seq(Nat) /\ pending # << >> /\ worklist \in Seq(Address)
  BY DEF VisitTarget, Inv, IndInv, TypeOK
<1>2. t \in Nat
  BY <1>1, ElemsTail
<1>3. /\ cutBy(t) \subseteq Address /\ (\A x, y \in cutBy(t) : x = y)
      /\ (t # 0 => {t} \ leaders \subseteq Address)
  BY <1>2, CutFacts DEF Address, fresh, Inv, IndInv, TypeOK
<1>4. CASE t # 0 /\ readable(t)
  <2> DEFINE A == asSeq({t} \ leaders)
             B == asSeq(cutBy(t))
  <2>1. A \in Seq(Address) /\ Elems(A) = {t} \ leaders
    BY <1>3, <1>4, ElemsAsSeq
  <2>2. B \in Seq(Address) /\ Elems(B) = cutBy(t)
    BY <1>3, ElemsAsSeq
  <2> DEFINE C == A \o B
  <2>3. worklist' = worklist \o C
    BY <1>4 DEF VisitTarget, queueFor
  <2> HIDE DEF A, B
  <2>4. C \in Seq(Address) /\ Elems(C) = Elems(A) \cup Elems(B)
    BY <2>1, <2>2, ElemsConcat
  <2> HIDE DEF C
  <2>5. worklist \o C \in Seq(Address)
        /\ Elems(worklist \o C) = Elems(worklist) \cup Elems(C)
    BY <1>1, <2>4, ElemsConcat
  <2>6. visited(t) = ({t} \ leaders) \cup cutBy(t)
    BY <1>4 DEF visited
  <2> HIDE DEF t
  <2> QED
    BY <2>1, <2>2, <2>3, <2>4, <2>5, <2>6 DEF queued, t
<1>5. CASE ~(t # 0 /\ readable(t))
  BY <1>1, <1>5 DEF VisitTarget, visited, queued
<1> QED
  BY <1>4, <1>5

LEMMA VisitInv == ASSUME Inv, VisitTarget PROVE Inv'
<1> USE DEF Inv, IndInv
<1> DEFINE t == Head(pending)
           mapped == t # 0 /\ readable(t)
           cut == IF mapped THEN cutBy(t) ELSE {}
           added == IF mapped THEN {t} ELSE {}
<1>1. /\ phase = "visit" /\ pending # << >> /\ pending' = Tail(pending)
      /\ UNCHANGED <<program, blocks, unresolved, current, phase, lifts, roots>>
  BY DEF VisitTarget, stubFor
<1>2. /\ leaders' = leaders \cup added
      /\ extents' = [s \in DOMAIN extents \ cut |-> extents[s]]
      /\ external' = external \cup (IF mapped \/ t = 0 THEN {} ELSE {t})
  <2>1. extents = [s \in DOMAIN extents |-> extents[s]]
    BY DEF TypeOK
  <2> QED
    BY <2>1 DEF VisitTarget, stubFor, queueFor
<1>3. /\ t \in Nat /\ pending' \in Seq(Nat) /\ Elems(pending) = {t} \cup Elems(pending')
      /\ t \in Elems(pending)
  <2>1. pending \in Seq(Nat)
    BY DEF TypeOK
  <2> QED
    BY <2>1, <1>1, ElemsTail
<1>4. added \subseteq Address /\ cut \subseteq fresh /\ (\A x, y \in cut : x = y)
      /\ fresh \subseteq DOMAIN extents /\ DOMAIN extents \subseteq Address
  BY <1>3, CutFacts DEF Address, fresh, TypeOK
<1>5. worklist' \in Seq(Address) /\ queued' = queued \cup (added \ leaders) \cup cut
  BY VisitQueue DEF visited
<1>6. TypeOK'
  <2>1. leaders' \subseteq Address /\ external' \subseteq Address
    BY <1>2, <1>3, <1>4 DEF TypeOK, Address
  <2>2. DOMAIN extents' \subseteq Address /\ extents' \in [DOMAIN extents' -> Address]
    BY <1>2, <1>4 DEF TypeOK
  <2> QED
    BY <1>1, <1>3, <1>5, <2>1, <2>2 DEF TypeOK
<1>7. /\ fresh' = fresh \ cut /\ stubs' = stubs /\ (static' <=> static)
      /\ DOMAIN extents' = DOMAIN extents \ cut
      /\ \A s \in fresh' : extents'[s] = extents[s]
  BY <1>1, <1>2, <1>4 DEF fresh, stubs, static
<1>8. LeaderNeverLost'
  <2>1. leaders = stubs \cup DOMAIN extents \cup queued \cup {current.start}
    BY <1>1 DEF LeaderNeverLost, Working
  <2>2. leaders' = leaders \cup added
    BY <1>2
  <2> HIDE DEF cut, added
  <2>3. leaders' = stubs' \cup DOMAIN extents' \cup queued' \cup {current'.start}
    BY <2>1, <2>2, <1>1, <1>4, <1>5, <1>7
  <2> QED
    BY <2>3, <1>1 DEF LeaderNeverLost
<1> HIDE DEF cut
<1>9. ArmsKnown'
  <2>1. ASSUME NEW s \in fresh' PROVE needs(s, extents[s])' \subseteq leaders' \cup external'
    <3>1. needs(s, extents[s]) \subseteq leaders \cup external
      BY <1>1, <1>7 DEF ArmsKnown, Working
    <3>2. needs(s, extents[s])' = needs(s, extents[s])
      BY <1>1, <1>7 DEF needs, arms, flowTarget, fallthrough, Image
    <3> QED
      BY <3>1, <3>2, <1>2
  <2>2. needs(current.start, current.at) \subseteq Address
    <3>1. current.at > current.start => current.at - 1 \in DOMAIN Image
      <4>1. current.at > current.start => current.at - 1 \in current.start .. (current.at - 1)
        BY DEF TypeOK
      <4> QED
        BY <1>1, <4>1 DEF Measured, measured, readable
    <3> QED
      BY <3>1, FlowFacts DEF needs
  <2>3. needs(current.start, current.at) \subseteq leaders' \cup external' \cup Elems(pending')
    BY <1>1, <1>2, <1>3, <2>2 DEF ArmsKnown, Address
  <2>4. needs(current.start, current.at)' = needs(current.start, current.at)
    BY <1>1 DEF needs, arms, flowTarget, fallthrough, Image
  <2> QED
    BY <1>1, <2>1, <2>3, <2>4 DEF ArmsKnown
<1>10. Measured'
  <2>1. ASSUME NEW s \in fresh' PROVE measured(s, extents[s])'
    <3>1. measured(s, extents[s])
      BY <1>1, <1>7 DEF Measured, Working
    <3>2. extents'[s] = extents[s]
      BY <1>7
    <3> QED
      BY <3>1, <3>2, <1>1, <1>2
         DEF measured, boundary, readable, covered, endsBlock, terminates, Image
  <2>2. measured(current.start, current.at)' /\ current'.start # 0
    <3>1. measured(current.start, current.at)
      BY <1>1 DEF Measured
    <3> QED
      BY <3>1, <1>1, <1>2
         DEF Measured, measured, boundary, readable, covered, endsBlock, terminates, Image
  <2>3. static => Elems(pending') \subseteq {0, flowTarget(current.at - 1), current.at}
    BY <1>1, <1>3 DEF Measured
  <2>4. flowTarget(current.at - 1)' = flowTarget(current.at - 1) /\ current' = current
    BY <1>1 DEF flowTarget, Image
  <2> QED
    BY <1>1, <1>7, <2>1, <2>2, <2>3, <2>4 DEF Measured
<1>11. Interior'
  <2> SUFFICES ASSUME static, NEW s \in fresh \ cut, NEW l \in leaders', s < l, l < extents[s]
               PROVE  /\ l \notin stubs /\ l \notin DOMAIN extents
                      /\ l = flowTarget(extents[s] - 1)
                      /\ l = current.start => l \in Elems(pending')
    BY <1>1, <1>7 DEF Interior, flowTarget, Image
  <2>1. s \in Nat /\ extents[s] \in Nat /\ s \in DOMAIN extents /\ l \in Nat
    BY <1>6 DEF fresh, TypeOK, Address
  <2>2. \A m \in leaders : s < m /\ m < extents[s] =>
          /\ m \notin stubs /\ m \notin DOMAIN extents
          /\ m = flowTarget(extents[s] - 1)
          /\ m = current.start => m \in Elems(pending)
    BY <1>1 DEF Interior, Working
  <2>3. DOMAIN extents \subseteq leaders
    BY <1>1 DEF LeaderNeverLost, Working
  <2>4. ASSUME l = t, mapped PROVE FALSE
    <3>1. \A u \in DOMAIN extents : u <= t => u <= s
      <4> SUFFICES ASSUME NEW u \in DOMAIN extents, u <= t, ~(u <= s) PROVE FALSE
        OBVIOUS
      <4>1. u \in Nat /\ s < u /\ u < extents[s]
        BY <2>1, <2>4, <1>3, <1>4 DEF Address
      <4> QED
        BY <4>1, <2>2, <2>3
    <3>2. s \in cutBy(t)
      BY <2>1, <2>4, <3>1 DEF cutBy, isLastBefore, fresh
    <3> QED
      BY <2>4, <3>2 DEF cut
  <2>5. l \in leaders
    BY <2>4, <1>2
  <2>6. readable(l)
    <3>1. measured(s, extents[s])
      BY <1>1 DEF Measured, Working
    <3>2. l \in s .. (extents[s] - 1)
      BY <2>1
    <3> QED
      BY <3>1, <3>2 DEF measured
  <2>7. l # t
    BY <2>1, <2>4, <2>6
  <2> QED
    BY <2>2, <2>5, <2>7, <1>3
<1>12. CurrentInterior'
  <2> SUFFICES ASSUME static, NEW l \in leaders', current.start < l, l < current.at
               PROVE  /\ l \notin stubs /\ l \notin DOMAIN extents
                      /\ l = flowTarget(current.at - 1)
    BY <1>1, <1>7 DEF CurrentInterior, flowTarget, Image
  <2>1. CASE l \in leaders
    BY <1>1, <2>1 DEF CurrentInterior
  <2>2. CASE l \notin leaders
    <3>1. l = t /\ mapped
      BY <1>2, <2>2
    <3>2. l \notin stubs /\ l \notin DOMAIN extents
      BY <2>2, <1>1 DEF LeaderNeverLost, Working
    <3>3. t \in {0, flowTarget(current.at - 1), current.at}
      BY <1>1, <1>3 DEF Measured
    <3>4. l # current.at
      BY DEF TypeOK
    <3> QED
      BY <3>1, <3>2, <3>3, <3>4
  <2> QED
    BY <2>1, <2>2
<1>13. EveryArmResolves' /\ Aged' /\ StaticNoStale'
  BY <1>1 DEF EveryArmResolves, Aged, StaticNoStale, NoStaleExtent, Working
<1> QED
  BY <1>1, <1>6, <1>8, <1>9, <1>10, <1>11, <1>12, <1>13

LEMMA CloseInv == ASSUME Inv, CloseExtent PROVE Inv'
<1> USE DEF Inv, IndInv
<1> DEFINE start == current.start
           at == current.at
<1>1. /\ phase = "visit" /\ pending = << >> /\ phase' = "pop"
      /\ UNCHANGED <<program, blocks, leaders, external, unresolved, worklist, current,
                     pending, lifts, roots>>
  BY DEF CloseExtent
<1>2. extents' = [s \in DOMAIN extents \cup {start} |-> IF s = start THEN at ELSE extents[s]]
  BY DEF CloseExtent
<1>3. /\ start \in Nat /\ at \in Nat /\ start \in Address /\ at \in Address
      /\ measured(start, at)
  BY <1>1 DEF TypeOK, Measured, measured, Address
<1>4. /\ DOMAIN extents' = DOMAIN extents \cup {start}
      /\ extents'[start] = at
      /\ \A s \in DOMAIN extents : s # start => extents'[s] = extents[s]
      /\ fresh' \subseteq fresh \cup {start}
      /\ stubs' = stubs /\ (static' <=> static)
  BY <1>1, <1>2 DEF fresh, stubs, static
<1>5. TypeOK'
  <2>1. DOMAIN extents' \subseteq Address /\ extents' \in [DOMAIN extents' -> Address]
    BY <1>2, <1>3 DEF TypeOK
  <2> QED
    BY <1>1, <2>1 DEF TypeOK, Working
<1>6. LeaderNeverLost'
  BY <1>1, <1>4 DEF LeaderNeverLost, Working, queued
<1>7. ArmsKnown'
  <2>1. ASSUME NEW s \in fresh' PROVE needs(s, extents[s])' \subseteq leaders' \cup external'
    <3>1. CASE s = start
      <4>1. needs(s, extents[s])' = needs(start, at)
        BY <3>1, <1>1, <1>4 DEF needs, arms, flowTarget, fallthrough, Image
      <4> QED
        BY <4>1, <1>1, ElemsNone DEF ArmsKnown
    <3>2. CASE s # start
      <4>1. s \in fresh /\ extents'[s] = extents[s]
        BY <3>2, <1>4 DEF fresh
      <4>2. needs(s, extents[s])' = needs(s, extents[s])
        BY <4>1, <1>1 DEF needs, arms, flowTarget, fallthrough, Image
      <4> QED
        BY <4>1, <4>2, <1>1 DEF ArmsKnown, Working
    <3> QED
      BY <3>1, <3>2
  <2> QED
    BY <2>1, <1>1 DEF ArmsKnown
<1>8. Measured'
  <2>1. ASSUME NEW s \in fresh' PROVE measured(s, extents[s])'
    <3>1. measured(s, extents'[s])
      <4>1. CASE s = start
        BY <4>1, <1>3, <1>4
      <4>2. CASE s # start
        BY <4>2, <1>1, <1>4 DEF Measured, Working, fresh
      <4> QED
        BY <4>1, <4>2
    <3> QED
      BY <3>1, <1>1
         DEF measured, boundary, readable, covered, endsBlock, terminates, Image
  <2> QED
    BY <2>1, <1>1 DEF Measured
<1>9. Interior'
  <2> SUFFICES ASSUME static, NEW s \in fresh', NEW l \in leaders, s < l, l < extents'[s]
               PROVE  /\ l \notin stubs /\ l \notin DOMAIN extents \cup {start}
                      /\ l = flowTarget(extents'[s] - 1)
    BY <1>1, <1>4 DEF Interior, flowTarget, Image
  <2>1. CASE s = start
    <3>1. l # start
      BY <2>1, <1>3
    <3> QED
      BY <2>1, <3>1, <1>1, <1>4 DEF CurrentInterior
  <2>2. CASE s # start
    <3>1. s \in fresh /\ extents'[s] = extents[s]
      BY <2>2, <1>4 DEF fresh
    <3>2. /\ l \notin stubs /\ l \notin DOMAIN extents
          /\ l = flowTarget(extents[s] - 1)
          /\ l = start => l \in Elems(pending)
      BY <3>1, <1>1 DEF Interior, Working
    <3> QED
      BY <3>1, <3>2, <1>1, ElemsNone
  <2> QED
    BY <2>1, <2>2
<1>10. CurrentInterior' /\ EveryArmResolves' /\ Aged' /\ StaticNoStale'
  BY <1>1 DEF CurrentInterior, EveryArmResolves, Aged, StaticNoStale, NoStaleExtent, Working
<1> QED
  BY <1>1, <1>5, <1>6, <1>7, <1>8, <1>9, <1>10

\* With the queue empty, the engine finds a block for every arm of every new
\* extent.
LEMMA ArmsResolve ==
  ASSUME Inv, phase = "pop", worklist = << >>
  PROVE  leaders \cup external \subseteq all /\ \A s \in lifted : resolvable(s)
<1> USE DEF Inv, IndInv
<1>1. leaders \cup external \subseteq all
  BY ElemsNone DEF LeaderNeverLost, Working, queued, stubs, all, lifted
<1>2. ASSUME NEW s \in lifted PROVE resolvable(s)
  <2> DEFINE last == extents[s] - 1
  <2> SUFFICES ASSUME extents[s] > s, Image[last].kind \in {"branch", "cond"}
               PROVE  /\ flowTarget(last) \in all
                      /\ Image[last].kind = "cond" => fallthrough(last) \in all
    BY DEF resolvable
  <2>1. s \in fresh /\ s \in Nat /\ extents[s] \in Nat
    BY DEF fresh, lifted, TypeOK, Address
  <2>2. last \in DOMAIN Image
    <3>1. measured(s, extents[s]) /\ last \in s .. (extents[s] - 1)
      BY <2>1 DEF Measured, Working
    <3> QED
      BY <3>1 DEF measured, readable
  <2>3. arms(last) \subseteq all
    BY <1>1, <2>1 DEF ArmsKnown, Working, needs
  <2>4. flowTarget(last) \in arms(last)
    BY <2>2, ProgramFacts DEF flowTarget, arms
  <2>5. Image[last].kind = "cond" => fallthrough(last) \in arms(last)
    BY <2>1 DEF fallthrough, arms
  <2> QED
    BY <2>3, <2>4, <2>5
<1> QED
  BY <1>1, <1>2

LEMMA ElaborateInv == ASSUME Inv, Elaborate PROVE Inv'
<1> USE DEF Inv, IndInv
<1>1. /\ phase = "pop" /\ worklist = << >>
      /\ UNCHANGED <<program, leaders, external, extents, unresolved, worklist, current,
                     pending, lifts, roots>>
  BY DEF Elaborate
<1>2. /\ blocks' = [a \in all |-> newBlock(a)]
      /\ phase' \in {"unmapped", "done"}
  BY <1>1, ArmsResolve DEF Elaborate
<1>3. DOMAIN blocks' = all /\ all \subseteq Address /\ lifted = fresh
  BY <1>2 DEF all, lifted, fresh, TypeOK
<1>4. ASSUME NEW a \in all PROVE newBlock(a) \in Block
  <2>1. CASE a \in DOMAIN blocks
    BY <2>1 DEF newBlock, TypeOK
  <2>2. CASE a \in lifted /\ a \notin DOMAIN blocks
    <3>1. a \in fresh /\ a \in Nat /\ extents[a] \in Address /\ extents[a] \in Nat
      BY <2>2, <1>3 DEF fresh, TypeOK, Address
    <3>2. extents[a] > a => extents[a] - 1 \in DOMAIN Image
      <4>1. measured(a, extents[a])
        BY <3>1, <1>1 DEF Measured, Working
      <4>2. extents[a] > a => extents[a] - 1 \in a .. (extents[a] - 1)
        BY <3>1
      <4> QED
        BY <4>1, <4>2 DEF measured, readable
    <3>3. staticSuccessors(a) \subseteq Address
      BY <3>2, <1>3, FlowFacts DEF staticSuccessors
    <3>4. successors(a) \subseteq Address
      BY <3>3, <1>3 DEF successors
    <3>5. successors(a) \in SUBSET Nat
      BY <3>4 DEF Address
    <3> QED
      BY <2>2, <3>1, <3>5 DEF newBlock, Block, TypeOK
  <2>3. CASE a \notin lifted /\ a \notin DOMAIN blocks
    BY <2>3, <1>3 DEF newBlock, Block, TypeOK, Address
  <2> QED
    BY <2>1, <2>2, <2>3
<1>5. TypeOK'
  <2>1. DOMAIN blocks' \subseteq Address /\ blocks' \in [DOMAIN blocks' -> Block]
    BY <1>2, <1>3, <1>4
  <2> QED
    BY <1>1, <1>2, <2>1 DEF TypeOK, Working
<1>6. /\ LeaderNeverLost' /\ EveryArmResolves' /\ ArmsKnown' /\ Measured' /\ Interior'
      /\ CurrentInterior'
  BY <1>2 DEF LeaderNeverLost, EveryArmResolves, ArmsKnown, Measured, Interior,
              CurrentInterior, Working
<1>7. Aged'
  <2>1. \A a \in all : newBlock(a).lift <= lifts
    BY DEF newBlock, Aged, TypeOK
  <2> QED
    BY <2>1, <1>1, <1>2 DEF Aged, Working
<1>8. StaticNoStale'
  <2> SUFFICES ASSUME static, NEW s \in freshBlocks' PROVE isEnd(s, blocks[s].end)'
    BY <1>1 DEF StaticNoStale, NoStaleExtent, static
  <2>1. s \in all /\ newBlock(s).external = FALSE /\ newBlock(s).lift = lifts
    BY <1>1, <1>2, <1>4 DEF freshBlocks, Block
  <2>2. s \notin DOMAIN blocks
    BY <2>1, <1>1 DEF newBlock, Aged, Working, TypeOK, Block
  <2>3. s \in fresh /\ blocks'[s].end = extents[s]
    BY <2>1, <2>2, <1>2, <1>3 DEF newBlock
  <2>4. s \in Nat /\ extents[s] \in Nat
    BY <2>3 DEF fresh, TypeOK, Address
  <2>5. measured(s, extents[s])
    BY <2>3, <1>1 DEF Measured, Working
  <2>6. ASSUME NEW b \in (s + 1) .. (extents[s] - 1), b \in leaders PROVE FALSE
    <3>1. s < b /\ b < extents[s]
      BY <2>4
    <3>2. b \notin stubs /\ b \notin DOMAIN extents
      BY <3>1, <2>3, <2>6, <1>1 DEF Interior, Working
    <3> QED
      BY <3>2, <2>6, <1>1, ElemsNone DEF LeaderNeverLost, Working, queued
  <2>7. isEnd(s, extents[s])
    BY <2>5, <2>6 DEF isEnd
  <2> QED
    BY <2>3, <2>7, <1>1
       DEF isEnd, measured, boundary, readable, covered, endsBlock, terminates, Image
<1> QED
  BY <1>1, <1>5, <1>6, <1>7, <1>8

LEMMA StutterInv == ASSUME Inv, UNCHANGED vars PROVE Inv'
<1>1. TypeOK' /\ LeaderNeverLost' /\ program' \in Programs
  BY DEF Inv, IndInv, vars, TypeOK, LeaderNeverLost, stubs, queued
<1>2. EveryArmResolves' /\ ArmsKnown'
  BY DEF Inv, IndInv, vars, EveryArmResolves, ArmsKnown, fresh, needs, arms, flowTarget,
         fallthrough, Image, stubs, covered, terminates
<1>3. Measured' /\ Interior' /\ CurrentInterior' /\ Aged'
  BY DEF Inv, IndInv, vars, Measured, Interior, CurrentInterior, Aged, fresh, static, queued, stubs,
         arms, flowTarget, fallthrough, Image, measured, boundary, readable, covered, endsBlock,
         terminates
<1>4. StaticNoStale'
  BY DEF Inv, IndInv, vars, StaticNoStale, NoStaleExtent, static, freshBlocks, Image, isEnd,
         measured, boundary, readable, covered, endsBlock, terminates
<1> QED BY <1>1, <1>2, <1>3, <1>4 DEF Inv, IndInv

LEMMA NextInv == Inv /\ [Next]_vars => Inv'
<1> SUFFICES ASSUME Inv, [Next]_vars PROVE Inv'
  OBVIOUS
<1>1. CASE LiftFunction
  <2>1. program.entry \in Address
    BY ProgramFacts DEF Inv
  <2>2. <<program.entry>> \in Seq(Address) /\ <<program.entry>> # << >>
    BY <2>1
  <2> QED
    BY <1>1, <2>2, ConstructInv DEF LiftFunction
<1>2. CASE \E entries \in program.increments : LiftBlocksInto(entries)
  <2>1. PICK entries \in program.increments : LiftBlocksInto(entries)
    BY <1>2
  <2>2. entries \in Seq(Address) /\ entries # << >>
    BY ProgramFacts DEF Inv
  <2> QED
    BY <2>1, <2>2, ConstructInv DEF LiftBlocksInto
<1>3. CASE Scan
  BY <1>3, SeedInv, SkipInv, ScanInv, VisitInv, CloseInv, ElaborateInv DEF Scan
<1>4. CASE UNCHANGED vars
  BY <1>4, StutterInv
<1> QED
  BY <1>1, <1>2, <1>3, <1>4 DEF Next

-----------------------------------------------------------------------------
(* What holds of every lift of every program. *)

\* The strengthened invariant holds: see LiftDiscovery for what it says of a
\* leader that lies inside a measured extent.
THEOREM Inductive == Spec => []Inv
BY InitInv, NextInv, PTL DEF Spec

\* Type correctness of the Discovery machine (lift.cpp:368-374).
THEOREM TypeCorrect == Spec => []TypeOK
<1>1. Inv => TypeOK
  BY DEF Inv, IndInv
<1> QED
  BY <1>1, Inductive, PTL

\* No leader is forgotten by a scan, splits included (lift.cpp:230-249).
THEOREM NoLeaderLost == Spec => []LeaderNeverLost
<1>1. Inv => LeaderNeverLost
  BY DEF Inv, IndInv
<1> QED
  BY <1>1, Inductive, PTL

\* Elaboration finds a block for every encoded branch arm, with and without
\* dynamic coverage (lift.cpp:204-233, engine.cpp:203-214).
THEOREM LiftNeverFails == Spec => []EveryArmResolves
<1>1. Inv => EveryArmResolves
  BY DEF Inv, IndInv
<1> QED
  BY <1>1, Inductive, PTL

\* Without dynamic coverage, every block a lift makes ends where the final
\* leaders end it: splitting on the fly leaves no extent too long, whatever the
\* program and the order of the worklist (lift.cpp:234-252).
THEOREM NoBlockTooLong == Spec => [](~program.coverage.active => NoStaleExtent)
<1>1. Inv => (~program.coverage.active => NoStaleExtent)
  BY DEF Inv, IndInv, StaticNoStale, static
<1> QED
  BY <1>1, Inductive, PTL

-----------------------------------------------------------------------------
(* The flow of a program and the sets closed under it. *)

\* A set of natural numbers has a smallest element: the induction along a block
\* argues about the first instruction at which a claim would fail.
LEMMA NatMin ==
  ASSUME NEW T \in SUBSET Nat, T # {}
  PROVE  \E x \in T : \A y \in T : x <= y
<1> DEFINE R == {ss \in Nat \X Nat : ss[1] < ss[2]}
<1>1. IsWellFoundedOn(R, Nat)
  BY NatLessThanWellFounded DEF OpToRel
<1>2. \A x, y \in Nat : x < y => <<x, y>> \in R
  OBVIOUS
<1> HIDE DEF R
<1>3. \E x \in T : \A y \in T : ~ (<<y, x>> \in R)
  BY <1>1, WFMin
<1>4. \A x, y \in Nat : ~(y < x) => x <= y
  OBVIOUS
<1>5. QED
  BY <1>2, <1>3, <1>4

\* The flow reads the program only.
LEMMA FlowStays ==
  ASSUME program' = program, NEW a
  PROVE  /\ within(a)' <=> within(a)
         /\ readable(a)' <=> readable(a)
         /\ endsBlock(a)' <=> endsBlock(a)
         /\ follows(a)' = follows(a)
         /\ (DOMAIN Image)' = DOMAIN Image
<1>1. /\ within(a)' <=> within(a)
      /\ readable(a)' <=> readable(a)
      /\ endsBlock(a)' <=> endsBlock(a)
      /\ Image' = Image
  BY DEF within, readable, covered, endsBlock, terminates, Image
<1>2. targetsOf(a)' = targetsOf(a)
  BY DEF targetsOf, observed, flowTarget, fallthrough, Image
<1>3. Elems(targetsOf(a))' = Elems(targetsOf(a))
  BY <1>2 DEF Elems
<1>4. follows(a)' = follows(a)
  BY <1>1, <1>3 DEF follows
<1> QED
  BY <1>1, <1>4

\* A set closed when more roots are given was closed before.
LEMMA ClosedStays ==
  ASSUME program' = program, roots \subseteq roots', NEW R, Closed(R)'
  PROVE  Closed(R)
<1>1. \A a : (within(a)' <=> within(a)) /\ follows(a)' = follows(a)
  BY FlowStays
<1> QED
  BY <1>1 DEF Closed

\* Where the flow goes on from an instruction, by its kind.
LEMMA FollowsFacts ==
  ASSUME program \in Programs, NEW a
  PROVE  /\ ~within(a) => follows(a) = {}
         /\ within(a) /\ Image[a].kind = "plain" => follows(a) = {a + 1}
         /\ within(a) /\ Image[a].kind = "noreturn" => follows(a) = {}
         /\ within(a) /\ terminates(a) => follows(a) = Elems(targetsOf(a)) \ {0}
         /\ within(a) /\ ~endsBlock(a) => Image[a].kind = "plain"
         /\ within(a) => a \in DOMAIN Image /\ Image[a].kind \in Kinds
<1>1. within(a) => a \in DOMAIN Image /\ Image[a].kind \in Kinds
  BY ProgramFacts DEF within, readable
<1> QED
  BY <1>1 DEF follows, Kinds, terminates, endsBlock

\* Straight-line code that starts in a closed set stays in it.
LEMMA StraightClosed ==
  ASSUME program \in Programs, NEW R \in SUBSET DOMAIN Image, Closed(R),
         NEW s \in Nat, NEW e \in Nat,
         \A b \in s .. (e - 1) : within(b) /\ (endsBlock(b) => b = e - 1),
         within(s) => s \in R
  PROVE  s .. (e - 1) \subseteq R
<1> DEFINE Bad == {b \in s .. (e - 1) : b \notin R}
<1> SUFFICES ASSUME Bad # {} PROVE FALSE
  OBVIOUS
<1>1. PICK m \in Bad : \A b \in Bad : m <= b
  <2>1. Bad \in SUBSET Nat
    OBVIOUS
  <2> HIDE DEF Bad
  <2> QED
    BY <2>1, NatMin
<1>2. m \in s .. (e - 1) /\ m \notin R /\ m \in Nat
  OBVIOUS
<1>3. m # s
  BY <1>2
<1>4. m - 1 \in s .. (e - 1) /\ m - 1 # e - 1 /\ m - 1 < m /\ (m - 1) + 1 = m
  BY <1>2, <1>3
<1>5. m - 1 \in R
  BY <1>1, <1>2, <1>4
<1>6. within(m - 1) /\ ~endsBlock(m - 1) /\ within(m)
  BY <1>2, <1>4
<1>7. follows(m - 1) = {m}
  BY <1>4, <1>6, FollowsFacts
<1> QED
  BY <1>2, <1>5, <1>6, <1>7 DEF Closed

\* What the scan measured is straight-line code, empty only where nothing can
\* be scanned.
LEMMA MeasuredStraight ==
  ASSUME NEW s \in Nat, NEW e \in Nat, measured(s, e)
  PROVE  straight(s, e) /\ e >= s
<1>1. \A b \in s .. (e - 1) : within(b) /\ (endsBlock(b) => b = e - 1)
  BY DEF measured, within
<1>2. within(s) => e # s
  BY DEF measured, boundary, within
<1> QED
  BY <1>1, <1>2 DEF straight, measured

-----------------------------------------------------------------------------
(* What the blocks hold, action by action. *)

LEMMA FrameProgram ==
  ASSUME program' = program
  PROVE  /\ \A s, e : exits(s, e)' = exits(s, e) /\ (straight(s, e)' <=> straight(s, e))
         /\ \A a : (within(a)' <=> within(a)) /\ (readable(a)' <=> readable(a))
         /\ (DOMAIN Image)' = DOMAIN Image
         /\ (static' <=> static)
<1>1. \A a : /\ (within(a)' <=> within(a)) /\ (readable(a)' <=> readable(a))
             /\ (endsBlock(a)' <=> endsBlock(a)) /\ follows(a)' = follows(a)
             /\ (DOMAIN Image)' = DOMAIN Image
  BY FlowStays
<1>2. \A s, e : exits(s, e)' = exits(s, e)
  BY <1>1 DEF exits
<1>3. \A s, e : straight(s, e)' <=> straight(s, e)
  BY <1>1 DEF straight
<1> QED
  BY <1>1, <1>2, <1>3 DEF static

\* The parts of the invariant that speak of finished blocks.
BlocksLinked ==
  \A s \in DOMAIN blocks \ stubs :
    \A b \in exits(s, blocks[s].end) : hasBlock(b, blocks[s].lift)
BlocksShaped ==
  /\ \A s \in DOMAIN blocks : blocks[s].lift >= 1
  /\ \A s \in DOMAIN blocks \ stubs : readable(s) /\ straight(s, blocks[s].end)

LEMMA FrameBlocks ==
  ASSUME program' = program, blocks' = blocks
  PROVE  /\ stubs' = stubs /\ contents' = contents
         /\ \A b, n : hasBlock(b, n)' <=> hasBlock(b, n)
         /\ BlocksLinked => BlocksLinked'
         /\ BlocksShaped => BlocksShaped'
<1>1. stubs' = stubs /\ contents' = contents
  BY DEF stubs, contents
<1>2. \A b, n : hasBlock(b, n)' <=> hasBlock(b, n)
  BY DEF hasBlock
<1>3. BlocksLinked => BlocksLinked'
  <2>1. \A s : exits(s, blocks[s].end)' = exits(s, blocks[s].end)
    BY FlowStays DEF exits
  <2>2. \A s, b : hasBlock(b, blocks[s].lift)' <=> hasBlock(b, blocks[s].lift)
    BY DEF hasBlock
  <2> QED
    BY <1>1, <2>1, <2>2 DEF BlocksLinked
<1>4. BlocksShaped => BlocksShaped'
  <2>1. \A s : straight(s, blocks[s].end)' <=> straight(s, blocks[s].end)
    BY FlowStays DEF straight
  <2>2. \A s : readable(s)' <=> readable(s)
    BY FlowStays
  <2> QED
    BY <1>1, <2>1, <2>2 DEF BlocksShaped
<1> QED
  BY <1>1, <1>2, <1>3, <1>4

LEMMA SoundStep ==
  ASSUME program' = program, roots \subseteq roots', Sound,
         \A R \in SUBSET DOMAIN Image : Closed(R) /\ Bounded(R) => Bounded(R)'
  PROVE  Sound'
<1> SUFFICES ASSUME NEW R \in SUBSET (DOMAIN Image)', Closed(R)' PROVE Bounded(R)'
  BY DEF Sound
<1>1. R \in SUBSET DOMAIN Image /\ Closed(R)
  BY FrameProgram, ClosedStays
<1> QED
  BY <1>1 DEF Sound

LEMMA InitCover == Init => CoverInv
<1> SUFFICES ASSUME Init PROVE CoverInv
  OBVIOUS
<1>1. /\ DOMAIN blocks = {} /\ stubs = {} /\ contents = {} /\ phase = "idle"
      /\ external = {} /\ roots = {}
  BY DEF Init, stubs, contents
<1> QED
  BY <1>1 DEF CoverInv, Sound, Bounded, Linked, Rooted, Shaped, HolesKnown, HolesListed, Working

\* A new Discovery object: the leaders are the blocks, nothing is fresh.
LEMMA ConstructCover ==
  ASSUME Inv, CoverInv, NEW entries \in Seq(Address), entries # << >>, construct(entries),
         phase = "idle" \/ phase = "done"
  PROVE  CoverInv'
<1>1. /\ program' = program /\ blocks' = blocks /\ leaders' = DOMAIN blocks /\ external' = {}
      /\ worklist' = << >> /\ pending' = entries /\ phase' = "seed" /\ lifts' = lifts + 1
      /\ roots' = roots \cup Elems(entries)
      /\ DOMAIN extents' = DOMAIN blocks \ stubs
  BY DEF construct, stubs
<1>2. /\ fresh' = {} /\ queued' = {} /\ stubs' = stubs /\ contents' = contents
      /\ Elems(pending') = Elems(entries)
  BY <1>1, ElemsNone, FrameBlocks DEF fresh, queued
<1>3. Sound'
  BY <1>1, <1>2, SoundStep DEF CoverInv, Bounded
<1>4. Linked'
  <2>1. BlocksLinked'
    BY <1>1, FrameBlocks DEF CoverInv, Linked, BlocksLinked
  <2> QED
    BY <1>1, <1>2, <2>1 DEF Linked, BlocksLinked
<1>5. Rooted'
  <2>1. \A r \in roots : within(r) => r \in DOMAIN blocks
    BY DEF CoverInv, Rooted, hasBlock
  <2>2. \A r : within(r)' <=> within(r)
    BY <1>1, FrameProgram
  <2> QED
    BY <1>1, <1>2, <2>1, <2>2 DEF Rooted
<1>6. Shaped'
  <2>1. BlocksShaped' /\ lifts' >= 1
    BY <1>1, FrameBlocks DEF CoverInv, Shaped, BlocksShaped, Inv, IndInv, TypeOK
  <2>2. \A a : readable(a)' <=> readable(a)
    BY <1>1, FrameProgram
  <2>3. \A l \in DOMAIN blocks \ stubs : readable(l)
    BY DEF CoverInv, Shaped
  <2>4. static' => \A x \in stubs : ~readable(x)
    BY <1>1 DEF CoverInv, Shaped, static
  <2> QED
    BY <1>1, <1>2, <2>1, <2>2, <2>3, <2>4 DEF Shaped, BlocksShaped
<1>7. HolesKnown' /\ HolesListed'
  BY <1>1, <1>2 DEF HolesKnown, HolesListed
<1> QED
  BY <1>3, <1>4, <1>5, <1>6, <1>7 DEF CoverInv

LEMMA SeedCover == ASSUME Inv, CoverInv, SeedEntry PROVE CoverInv'
<1> DEFINE e == Head(pending)
           admitted == e \notin DOMAIN extents /\ readable(e) /\ covered(e)
<1>1. /\ phase = "seed" /\ phase' \in {"seed", "pop"} /\ pending # << >>
      /\ fresh = {} /\ pending \in Seq(Nat) /\ worklist \in Seq(Address)
      /\ leaders' = (IF admitted THEN leaders \cup {e} ELSE leaders)
      /\ worklist' = (IF admitted THEN Append(worklist, e) ELSE worklist)
      /\ pending' = Tail(pending)
      /\ UNCHANGED <<program, blocks, external, extents, unresolved, current, lifts, roots>>
  BY DEF SeedEntry, Inv, IndInv, Measured, TypeOK
<1>2. phase' = (IF Len(pending) = 1 THEN "pop" ELSE "seed")
  BY DEF SeedEntry
<1>3. /\ Elems(pending) = {e} \cup Elems(pending')
      /\ (phase' = "pop" => Elems(pending') = {})
  <2>1. Elems(pending) = {e} \cup Elems(Tail(pending))
    BY <1>1, ElemsTail
  <2>2. Len(pending) = 1 => Len(Tail(pending)) = 0 /\ 1 .. 0 = {}
    BY <1>1
  <2>3. Len(pending) = 1 => Elems(Tail(pending)) = {}
    BY <2>2 DEF Elems
  <2> QED
    BY <2>1, <2>3, <1>1, <1>2
<1>4. Elems(pending) \subseteq roots
  BY <1>1, <1>3 DEF CoverInv, Rooted, Working
<1>5. fresh' = {} /\ stubs' = stubs /\ contents' = contents
  BY <1>1, FrameBlocks DEF fresh
<1>6. queued' = queued \cup (IF admitted THEN {e} ELSE {})
  <2>1. CASE admitted
    <3>1. e \in Address
      BY <2>1, ProgramFacts DEF readable, Inv
    <3>2. Elems(Append(worklist, e)) = Elems(worklist) \cup {e}
      BY <3>1, <1>1, ElemsAppend
    <3> QED
      BY <2>1, <3>2, <1>1 DEF queued
  <2>2. CASE ~admitted
    BY <2>2, <1>1 DEF queued
  <2> QED
    BY <2>1, <2>2
<1>7. \A a : (within(a)' <=> within(a)) /\ (readable(a)' <=> readable(a)) /\ (static' <=> static)
  BY <1>1, FrameProgram
<1>8. Sound'
  <2>1. ASSUME NEW R \in SUBSET DOMAIN Image, Closed(R), Bounded(R) PROVE Bounded(R)'
    <3>1. \A l \in queued' : within(l) => l \in R
      BY <2>1, <1>1, <1>3, <1>4, <1>6 DEF Bounded, Closed, Working
    <3> QED
      BY <3>1, <2>1, <1>1, <1>5, <1>7 DEF Bounded, Working
  <2> QED
    BY <2>1, <1>1, SoundStep DEF CoverInv
<1>9. Linked'
  <2>1. BlocksLinked'
    BY <1>1, FrameBlocks DEF CoverInv, Linked, BlocksLinked
  <2> QED
    BY <1>1, <1>5, <2>1 DEF Linked, BlocksLinked
<1>10. Rooted'
  <2>1. \A r \in roots : within(r) => r \in leaders \cup Elems(pending)
    BY <1>1 DEF CoverInv, Rooted, Working
  <2>2. within(e) => e \in leaders'
    BY <1>1 DEF Inv, IndInv, LeaderNeverLost, Working, within
  <2>3. leaders \subseteq leaders'
    BY <1>1
  <2>4. \A r \in roots : within(r) => r \in leaders' \cup Elems(pending')
    BY <2>1, <2>2, <2>3, <1>3
  <2> HIDE DEF e
  <2> QED
    BY <2>4, <1>1, <1>2, <1>3, <1>4, <1>7 DEF Rooted, Working
<1>11. Shaped'
  <2>1. BlocksShaped' /\ lifts' >= 1
    BY <1>1, FrameBlocks DEF CoverInv, Shaped, BlocksShaped
  <2>2. \A l \in leaders' \ stubs : readable(l)
    BY <1>1 DEF CoverInv, Shaped, Working
  <2>3. static => \A x \in external \cup stubs : ~readable(x)
    BY DEF CoverInv, Shaped
  <2> HIDE DEF e
  <2> QED
    BY <2>1, <2>2, <2>3, <1>1, <1>5, <1>7 DEF Shaped, BlocksShaped
<1>12. HolesKnown' /\ HolesListed'
  BY <1>1, <1>5 DEF HolesKnown, HolesListed, Working
<1> QED
  BY <1>8, <1>9, <1>10, <1>11, <1>12 DEF CoverInv

LEMMA SkipCover == ASSUME Inv, CoverInv, SkipScanned PROVE CoverInv'
<1>1. /\ phase = "pop" /\ worklist # << >> /\ worklist \in Seq(Address)
      /\ worklist' = Tail(worklist)
      /\ UNCHANGED <<program, blocks, leaders, external, extents, unresolved, current,
                     pending, phase, lifts, roots>>
  BY DEF SkipScanned, Inv, IndInv, TypeOK
<1>2. queued' \subseteq queued
  BY <1>1, ElemsTail DEF queued
<1>3. \A a : (within(a)' <=> within(a)) /\ (readable(a)' <=> readable(a)) /\ (static' <=> static)
  BY <1>1, FrameProgram
<1>4. fresh' = fresh /\ stubs' = stubs /\ contents' = contents
  BY <1>1, FrameBlocks DEF fresh
<1>5. Sound'
  <2>1. ASSUME NEW R \in SUBSET DOMAIN Image, Closed(R), Bounded(R) PROVE Bounded(R)'
    BY <2>1, <1>1, <1>2, <1>3, <1>4 DEF Bounded, Working
  <2> QED
    BY <2>1, <1>1, SoundStep DEF CoverInv
<1>6. Linked'
  <2>1. BlocksLinked'
    BY <1>1, FrameBlocks DEF CoverInv, Linked, BlocksLinked
  <2>2. \A s \in fresh : exits(s, extents[s])' \subseteq leaders'
    BY <1>1, FlowStays DEF CoverInv, Linked, exits, Working
  <2> QED
    BY <1>1, <1>4, <2>1, <2>2 DEF Linked, BlocksLinked
<1>7. Rooted'
  BY <1>1, <1>3 DEF CoverInv, Rooted, Working
<1>8. Shaped'
  <2>1. BlocksShaped'
    BY <1>1, FrameBlocks DEF CoverInv, Shaped, BlocksShaped
  <2> QED
    BY <2>1, <1>1, <1>3, <1>4 DEF CoverInv, Shaped, BlocksShaped, Working
<1>9. HolesKnown' /\ HolesListed'
  <2>1. \A s \in fresh : hole(s, extents[s])' <=> hole(s, extents[s])
    BY <1>1 DEF hole, earlierStubs, stubs, Image, readable
  <2> QED
    BY <2>1, <1>1, <1>3, <1>4 DEF CoverInv, HolesKnown, HolesListed, Working
<1> QED
  BY <1>5, <1>6, <1>7, <1>8, <1>9 DEF CoverInv

\* What a scan finds: where the flow leaves the extent it measured there is a
\* leader, or a target waiting to be visited.
LEMMA ScanFacts ==
  ASSUME Inv, CoverInv, phase = "pop", NEW s \in Nat, NEW at \in Nat, measured(s, at)
  PROVE  /\ at > s /\ terminates(at - 1) => follows(at - 1) = Elems(targetsOf(at - 1)) \ {0}
         /\ exits(s, at) \subseteq
              leaders \cup (IF at > s /\ terminates(at - 1) THEN Elems(targetsOf(at - 1)) ELSE {})
         /\ static /\ hole(s, at) => leavesHole(s, at)
<1>1. at > s => within(at - 1)
  <2>1. at > s => at - 1 \in s .. (at - 1)
    OBVIOUS
  <2> QED
    BY <2>1 DEF measured, within
<1>2. program \in Programs
  BY DEF Inv
<1>3. at > s /\ terminates(at - 1) => follows(at - 1) = Elems(targetsOf(at - 1)) \ {0}
  BY <1>1, <1>2, FollowsFacts
<1>4. at > s => (Image[at - 1].kind = "plain" <=> ~endsBlock(at - 1))
  BY <1>1, <1>2, FollowsFacts DEF endsBlock, terminates
<1>5. ASSUME at > s, ~terminates(at - 1) PROVE exits(s, at) \subseteq leaders
  <2>1. CASE Image[at - 1].kind = "noreturn"
    BY <2>1, <1>1, <1>2, FollowsFacts, <1>5 DEF exits
  <2>2. CASE Image[at - 1].kind = "plain"
    <3>1. follows(at - 1) = {at}
      BY <2>2, <1>1, <1>2, <1>5, FollowsFacts
    <3>2. within(at) => at \in leaders
      BY <2>2, <1>4, <1>5 DEF measured, boundary, within
    <3> QED
      BY <3>1, <3>2 DEF exits
  <2> QED
    BY <1>5, <2>1, <2>2 DEF terminates
<1>6. exits(s, at) \subseteq
        leaders \cup (IF at > s /\ terminates(at - 1) THEN Elems(targetsOf(at - 1)) ELSE {})
  BY <1>3, <1>5 DEF exits
<1>7. ASSUME static, hole(s, at) PROVE leavesHole(s, at)
  <2>1. earlierStubs = stubs
    BY DEF earlierStubs, stubs, Inv, IndInv, Aged, Working
  <2>2. \A l \in leaders : readable(l) \/ l \in stubs
    BY DEF CoverInv, Shaped, Working
  <2>3. \A a : covered(a)
    BY <1>7 DEF static, covered
  <2>4. CASE at > s /\ Image[at - 1].kind \in {"indirect", "undecodable", "unimplemented"}
    BY <2>4, <1>7 DEF leavesHole, byInsn, endsBlock, terminates, static
  <2>5. CASE at > s /\ Image[at - 1].kind = "plain" /\ ~readable(at) /\ at \notin stubs
    BY <2>5, <2>2, <2>3, <1>4 DEF leavesHole, byInsn
  <2>6. CASE ~(at > s)
    <3>1. at = s /\ ~readable(at)
      BY <2>6, <2>3 DEF measured, boundary
    <3> QED
      BY <3>1, <2>3 DEF leavesHole, byInsn
  <2> QED
    BY <1>7, <2>1, <2>4, <2>5, <2>6 DEF hole
<1> QED
  BY <1>3, <1>6, <1>7

LEMMA ScanCover == ASSUME Inv, CoverInv, ScanBlock PROVE CoverInv'
<1> DEFINE start == Head(worklist)
<1>1. /\ phase = "pop" /\ worklist # << >> /\ worklist \in Seq(Address)
      /\ worklist' = Tail(worklist) /\ phase' = "visit" /\ program \in Programs
      /\ UNCHANGED <<program, blocks, leaders, extents, lifts, roots>>
  BY DEF ScanBlock, Inv, IndInv, TypeOK
<1>2. PICK at \in ends(start) :
        /\ current' = [start |-> start, at |-> at]
        /\ pending' = IF at > start /\ terminates(at - 1) THEN targetsOf(at - 1) ELSE << >>
        /\ external' = external \cup (IF at > start /\ terminates(at - 1)
                                        THEN untaken(at - 1) ELSE {})
        /\ unresolved' = unresolved \cup (IF leavesHole(start, at) THEN {start} ELSE {})
  BY DEF ScanBlock
<1>3. start \in Nat /\ start \in queued /\ queued' \subseteq queued
  <2>1. start \in Address /\ start \in Elems(worklist)
        /\ Elems(worklist) = {start} \cup Elems(Tail(worklist))
    BY <1>1, ElemsTail
  <2> QED
    BY <2>1, <1>1 DEF queued, Address
<1>4. at \in Nat /\ measured(start, at) /\ current'.start = start /\ current'.at = at
  BY <1>2, <1>3 DEF ends, isEnd, measured
<1>5. /\ at > start /\ terminates(at - 1) => follows(at - 1) = Elems(targetsOf(at - 1)) \ {0}
      /\ exits(start, at) \subseteq
           leaders \cup (IF at > start /\ terminates(at - 1) THEN Elems(targetsOf(at - 1)) ELSE {})
      /\ static /\ hole(start, at) => leavesHole(start, at)
  BY <1>1, <1>3, <1>4, ScanFacts
<1>6. Elems(pending') = IF at > start /\ terminates(at - 1) THEN Elems(targetsOf(at - 1)) ELSE {}
  BY <1>2, ElemsNone
<1> HIDE DEF start
<1>7. \A a : (within(a)' <=> within(a)) /\ (readable(a)' <=> readable(a)) /\ (static' <=> static)
  BY <1>1, FrameProgram
<1>8. fresh' = fresh /\ stubs' = stubs /\ contents' = contents
  BY <1>1, FrameBlocks DEF fresh
<1>9. Sound'
  <2>1. ASSUME NEW R \in SUBSET DOMAIN Image, Closed(R), Bounded(R) PROVE Bounded(R)'
    <3>1. within(start) => start \in R
      BY <2>1, <1>1, <1>3 DEF Bounded, Working
    <3>2. \A b \in start .. (at - 1) : within(b) /\ (endsBlock(b) => b = at - 1)
      BY <1>4 DEF measured, within
    <3>3. start .. (at - 1) \subseteq R
      BY <3>1, <3>2, <2>1, <1>1, <1>3, <1>4, StraightClosed
    <3>4. at > start => at - 1 \in R
      BY <3>3, <1>3, <1>4
    <3>5. \A t \in Elems(pending') : within(t) => t \in R
      <4>1. ~within(0)
        BY <1>1, ProgramFacts DEF within, readable, Address
      <4> QED
        BY <4>1, <3>4, <2>1, <1>5, <1>6 DEF Closed
    <3> QED
      BY <3>3, <3>5, <2>1, <1>1, <1>3, <1>4, <1>7, <1>8 DEF Bounded, Working
  <2> QED
    BY <2>1, <1>1, SoundStep DEF CoverInv
<1>10. Linked'
  <2>1. BlocksLinked'
    BY <1>1, FrameBlocks DEF CoverInv, Linked, BlocksLinked
  <2>2. \A s \in fresh : exits(s, extents[s])' \subseteq leaders'
    BY <1>1, FlowStays DEF CoverInv, Linked, exits, Working
  <2>3. exits(current.start, current.at)' = exits(start, at)
    BY <1>1, <1>4, FlowStays DEF exits
  <2> QED
    BY <1>1, <1>5, <1>6, <1>8, <2>1, <2>2, <2>3 DEF Linked, BlocksLinked
<1>11. Rooted'
  BY <1>1, <1>7 DEF CoverInv, Rooted, Working
<1>12. Shaped'
  <2>1. BlocksShaped'
    BY <1>1, FrameBlocks DEF CoverInv, Shaped, BlocksShaped
  <2>2. static => external' = external
    BY <1>2 DEF untaken, static
  <2> QED
    BY <2>1, <2>2, <1>1, <1>7, <1>8 DEF CoverInv, Shaped, BlocksShaped, Working
<1>13. HolesKnown' /\ HolesListed'
  <2>1. \A s \in fresh : hole(s, extents[s])' <=> hole(s, extents[s])
    BY <1>1 DEF hole, earlierStubs, stubs, Image, readable
  <2>2. hole(current.start, current.at)' <=> hole(start, at)
    BY <1>1, <1>4 DEF hole, earlierStubs, stubs, Image, readable
  <2>3. unresolved \subseteq unresolved'
    BY <1>2
  <2>4. static /\ hole(start, at) => start \in unresolved'
    BY <1>2, <1>5
  <2> QED
    BY <2>1, <2>2, <2>3, <2>4, <1>1, <1>4, <1>7, <1>8 DEF CoverInv, HolesKnown, HolesListed, Working
<1> QED
  BY <1>9, <1>10, <1>11, <1>12, <1>13 DEF CoverInv

LEMMA VisitCover == ASSUME Inv, CoverInv, VisitTarget PROVE CoverInv'
<1> DEFINE t == Head(pending)
<1>1. /\ phase = "visit" /\ pending # << >> /\ pending \in Seq(Nat) /\ pending' = Tail(pending)
      /\ UNCHANGED <<program, blocks, unresolved, current, phase, lifts, roots>>
  BY DEF VisitTarget, Inv, IndInv, TypeOK
<1>2. t \in Nat /\ Elems(pending) = {t} \cup Elems(pending') /\ t \in Elems(pending)
  BY <1>1, ElemsTail
<1>3. queued' = queued \cup visited(t)
  BY VisitQueue
<1>4. /\ leaders' = leaders \cup (IF t # 0 /\ readable(t) THEN {t} ELSE {})
      /\ external' \subseteq external \cup (IF readable(t) /\ t # 0 THEN {} ELSE {t} \ {0})
      /\ DOMAIN extents' \subseteq DOMAIN extents
      /\ \A s \in DOMAIN extents' : extents'[s] = extents[s]
  BY DEF VisitTarget, stubFor
<1>5. ~readable(0) /\ (within(t) => t # 0 /\ readable(t))
  BY ProgramFacts DEF within, readable, Address, Inv
<1>6. cutBy(t) \subseteq fresh /\ \A s \in cutBy(t) : s \in s .. (extents[s] - 1)
  <2>1. cutBy(t) \subseteq fresh
    BY <1>2, CutFacts DEF Inv, IndInv
  <2>2. \A s \in fresh : s \in Nat /\ extents[s] \in Nat
    BY DEF fresh, Inv, IndInv, TypeOK, Address
  <2> QED
    BY <1>2, <2>1, <2>2 DEF cutBy
<1> HIDE DEF t
<1>7. \A a : (within(a)' <=> within(a)) /\ (readable(a)' <=> readable(a)) /\ (static' <=> static)
  BY <1>1, FrameProgram
<1>8. /\ stubs' = stubs /\ contents' = contents
      /\ fresh' \subseteq fresh /\ \A s \in fresh' : extents'[s] = extents[s]
  BY <1>1, <1>4, FrameBlocks DEF fresh
<1>9. Sound'
  <2>1. ASSUME NEW R \in SUBSET DOMAIN Image, Closed(R), Bounded(R) PROVE Bounded(R)'
    <3>1. \A l \in queued' : within(l) => l \in R
      <4>1. within(t) => t \in R
        BY <2>1, <1>1, <1>2 DEF Bounded
      <4>2. cutBy(t) \subseteq R
        BY <2>1, <1>1, <1>6 DEF Bounded, Working
      <4>3. \A l \in queued : within(l) => l \in R
        BY <2>1, <1>1 DEF Bounded, Working
      <4> QED
        BY <4>1, <4>2, <4>3, <1>3 DEF visited
    <3>2. \A s \in fresh' : s .. (extents'[s] - 1) \subseteq R
      BY <2>1, <1>1, <1>8 DEF Bounded, Working
    <3>3. /\ current.start .. (current.at - 1) \subseteq R
          /\ \A x \in Elems(pending') : within(x) => x \in R
      BY <2>1, <1>1, <1>2 DEF Bounded
    <3> QED
      BY <3>1, <3>2, <3>3, <2>1, <1>1, <1>7, <1>8 DEF Bounded, Working
  <2> QED
    BY <2>1, <1>1, SoundStep DEF CoverInv
<1>10. Linked'
  <2>1. BlocksLinked'
    BY <1>1, FrameBlocks DEF CoverInv, Linked, BlocksLinked
  <2>2. ASSUME NEW s \in fresh' PROVE exits(s, extents[s])' \subseteq leaders'
    <3>1. exits(s, extents[s]) \subseteq leaders /\ extents'[s] = extents[s]
      BY <1>1, <1>8 DEF CoverInv, Linked, Working
    <3>2. exits(s, extents[s])' = exits(s, extents[s])
      BY <3>1, <1>1, FlowStays DEF exits
    <3> QED
      BY <3>1, <3>2, <1>4
  <2>3. exits(current.start, current.at)' = exits(current.start, current.at)
    BY <1>1, FlowStays DEF exits
  <2>4. exits(current.start, current.at) \subseteq leaders \cup Elems(pending)
    BY <1>1 DEF CoverInv, Linked
  <2>5. \A b \in exits(current.start, current.at) : within(b)
    BY DEF exits
  <2>6. exits(current.start, current.at) \subseteq leaders' \cup Elems(pending')
    BY <2>4, <2>5, <1>2, <1>4, <1>5
  <2> QED
    BY <1>1, <2>1, <2>2, <2>3, <2>6 DEF Linked, BlocksLinked
<1>11. Rooted'
  BY <1>1, <1>4, <1>7 DEF CoverInv, Rooted, Working
<1>12. Shaped'
  <2>1. BlocksShaped'
    BY <1>1, FrameBlocks DEF CoverInv, Shaped, BlocksShaped
  <2>2. static => \A x \in external' \cup stubs : ~readable(x)
    BY <1>4, <1>5 DEF CoverInv, Shaped
  <2>3. \A l \in leaders' \ stubs : readable(l)
    BY <1>1, <1>4 DEF CoverInv, Shaped, Working
  <2>4. lifts >= 1
    BY <1>1 DEF CoverInv, Shaped
  <2> QED
    BY <2>1, <2>2, <2>3, <2>4, <1>1, <1>7, <1>8 DEF Shaped, BlocksShaped
<1>13. HolesKnown' /\ HolesListed'
  <2>1. \A s \in fresh' : hole(s, extents[s])' <=> hole(s, extents[s])
    BY <1>1, <1>8 DEF hole, earlierStubs, stubs, Image, readable
  <2>2. hole(current.start, current.at)' <=> hole(current.start, current.at)
    BY <1>1 DEF hole, earlierStubs, stubs, Image, readable
  <2> QED
    BY <2>1, <2>2, <1>1, <1>7, <1>8 DEF CoverInv, HolesKnown, HolesListed, Working
<1> QED
  BY <1>9, <1>10, <1>11, <1>12, <1>13 DEF CoverInv

LEMMA CloseCover == ASSUME Inv, CoverInv, CloseExtent PROVE CoverInv'
<1> DEFINE start == current.start
           at == current.at
<1>1. /\ phase = "visit" /\ pending = << >> /\ phase' = "pop"
      /\ UNCHANGED <<program, blocks, leaders, external, unresolved, worklist, current,
                     pending, lifts, roots>>
  BY DEF CloseExtent
<1>2. extents' = [s \in DOMAIN extents \cup {start} |-> IF s = start THEN at ELSE extents[s]]
  BY DEF CloseExtent
<1>3. \A s \in fresh' : \/ s = start /\ extents'[s] = at
                        \/ s \in fresh /\ extents'[s] = extents[s]
  BY <1>1, <1>2 DEF fresh
<1>4. \A a : (within(a)' <=> within(a)) /\ (readable(a)' <=> readable(a)) /\ (static' <=> static)
  BY <1>1, FrameProgram
<1>5. stubs' = stubs /\ contents' = contents /\ queued' = queued /\ Elems(pending) = {}
  BY <1>1, FrameBlocks, ElemsNone DEF queued
<1>6. Sound'
  <2>1. ASSUME NEW R \in SUBSET DOMAIN Image, Closed(R), Bounded(R) PROVE Bounded(R)'
    <3>1. \A s \in fresh' : s .. (extents'[s] - 1) \subseteq R
      BY <2>1, <1>1, <1>3 DEF Bounded, Working
    <3> QED
      BY <3>1, <2>1, <1>1, <1>4, <1>5 DEF Bounded, Working
  <2> QED
    BY <2>1, <1>1, SoundStep DEF CoverInv
<1>7. Linked'
  <2>1. BlocksLinked'
    BY <1>1, FrameBlocks DEF CoverInv, Linked, BlocksLinked
  <2>2. ASSUME NEW s \in fresh' PROVE exits(s, extents[s])' \subseteq leaders'
    <3>1. exits(s, extents[s])' = exits(s, extents'[s])
      BY <1>1, FlowStays DEF exits
    <3>2. exits(s, extents'[s]) \subseteq leaders
      BY <1>1, <1>3, <1>5 DEF CoverInv, Linked, Working
    <3> QED
      BY <3>1, <3>2, <1>1
  <2> QED
    BY <1>1, <2>1, <2>2 DEF Linked, BlocksLinked
<1>8. Rooted'
  BY <1>1, <1>4 DEF CoverInv, Rooted, Working
<1>9. Shaped'
  <2>1. BlocksShaped'
    BY <1>1, FrameBlocks DEF CoverInv, Shaped, BlocksShaped
  <2> QED
    BY <2>1, <1>1, <1>4, <1>5 DEF CoverInv, Shaped, BlocksShaped, Working
<1>10. HolesKnown' /\ HolesListed'
  <2>1. \A s \in fresh' : hole(s, extents[s])' <=> hole(s, extents'[s])
    BY <1>1 DEF hole, earlierStubs, stubs, Image, readable
  <2>2. static => \A s \in fresh' : hole(s, extents'[s]) => s \in unresolved
    BY <1>1, <1>3 DEF CoverInv, HolesKnown, Working
  <2> QED
    BY <2>1, <2>2, <1>1, <1>4 DEF HolesKnown, HolesListed
<1> QED
  BY <1>6, <1>7, <1>8, <1>9, <1>10 DEF CoverInv

\* The blocks after elaboration: the old ones, one per new extent, and stubs.
LEMMA ElaborateFacts ==
  ASSUME Inv, Elaborate
  PROVE  /\ phase' \in {"unmapped", "done"} /\ DOMAIN blocks' = all
         /\ \A b \in DOMAIN blocks : blocks'[b] = blocks[b] /\ blocks[b].lift < lifts
         /\ \A b \in fresh : /\ blocks'[b].end = extents[b] /\ ~blocks'[b].external
                             /\ blocks'[b].lift = lifts
         /\ \A b \in all \ (DOMAIN blocks \cup fresh) :
              b \in external /\ blocks'[b].external /\ blocks'[b].lift = lifts
         /\ \A l \in leaders : l \in DOMAIN blocks \/ l \in fresh
         /\ stubs \subseteq DOMAIN blocks
<1>1. /\ phase = "pop" /\ worklist = << >>
  BY DEF Elaborate
<1>2. /\ blocks' = [a \in all |-> newBlock(a)]
      /\ phase' \in {"unmapped", "done"}
  BY <1>1, ArmsResolve DEF Elaborate
<1>3. all = DOMAIN blocks \cup fresh \cup external /\ lifted = fresh
  BY DEF all, lifted, fresh
<1>4. \A b \in DOMAIN blocks : blocks[b].lift < lifts
  BY <1>1 DEF Inv, IndInv, Aged, Working
<1>5. \A b \in DOMAIN blocks : blocks'[b] = blocks[b]
  BY <1>2, <1>3 DEF newBlock
<1>6. \A b \in fresh : /\ blocks'[b].end = extents[b] /\ ~blocks'[b].external
                       /\ blocks'[b].lift = lifts
  <2> SUFFICES ASSUME NEW b \in fresh
               PROVE  /\ blocks'[b].end = extents[b] /\ ~blocks'[b].external
                      /\ blocks'[b].lift = lifts
    OBVIOUS
  <2>1. blocks'[b] = [end |-> extents[b], external |-> FALSE, succ |-> successors(b), lift |-> lifts]
    BY <1>2, <1>3 DEF newBlock, fresh
  <2> QED
    BY <2>1
<1>7. ASSUME NEW b \in all \ (DOMAIN blocks \cup fresh)
      PROVE  b \in external /\ blocks'[b].external /\ blocks'[b].lift = lifts
  <2>1. blocks'[b] = [end |-> b, external |-> TRUE, succ |-> {}, lift |-> lifts]
    BY <1>2, <1>3 DEF newBlock
  <2> QED
    BY <2>1, <1>3
<1>8. \A l \in leaders : l \in DOMAIN blocks \/ l \in fresh
  BY <1>1, ElemsNone DEF Inv, IndInv, LeaderNeverLost, Working, queued, stubs, fresh
<1> QED
  BY <1>2, <1>4, <1>5, <1>6, <1>7, <1>8 DEF stubs

LEMMA ElaborateCover == ASSUME Inv, CoverInv, Elaborate PROVE CoverInv'
<1>1. /\ phase = "pop"
      /\ UNCHANGED <<program, leaders, external, extents, unresolved, worklist, current,
                     pending, lifts, roots>>
  BY DEF Elaborate
<1>2. /\ phase' \in {"unmapped", "done"} /\ DOMAIN blocks' = all
      /\ \A b \in DOMAIN blocks : blocks'[b] = blocks[b] /\ blocks[b].lift < lifts
      /\ \A b \in fresh : /\ blocks'[b].end = extents[b] /\ ~blocks'[b].external
                          /\ blocks'[b].lift = lifts
      /\ \A b \in all \ (DOMAIN blocks \cup fresh) :
           b \in external /\ blocks'[b].external /\ blocks'[b].lift = lifts
      /\ \A l \in leaders : l \in DOMAIN blocks \/ l \in fresh
      /\ stubs \subseteq DOMAIN blocks
  BY ElaborateFacts
<1>3. all = DOMAIN blocks \cup fresh \cup external /\ fresh \cap DOMAIN blocks = {}
  BY DEF all, lifted, fresh
<1>4. \A a : (within(a)' <=> within(a)) /\ (readable(a)' <=> readable(a)) /\ (static' <=> static)
  BY <1>1, FrameProgram
<1>5. /\ \A s \in DOMAIN blocks' \ stubs' :
           \/ s \in DOMAIN blocks \ stubs /\ blocks'[s] = blocks[s]
           \/ s \in fresh /\ blocks'[s].end = extents[s] /\ blocks'[s].lift = lifts
      /\ stubs' \subseteq stubs \cup external
  BY <1>2, <1>3 DEF stubs
<1>6. Sound'
  <2>1. ASSUME NEW R \in SUBSET DOMAIN Image, Closed(R), Bounded(R) PROVE Bounded(R)'
    <3>1. \A s \in DOMAIN blocks \ stubs : s .. (blocks[s].end - 1) \subseteq R
      BY <2>1 DEF Bounded, contents
    <3>2. \A s \in fresh : s .. (extents[s] - 1) \subseteq R
      BY <2>1, <1>1 DEF Bounded, Working
    <3>3. contents' \subseteq R
      BY <3>1, <3>2, <1>5 DEF contents
    <3> QED
      BY <3>3, <1>2 DEF Bounded, Working
  <2> QED
    BY <2>1, <1>1, SoundStep DEF CoverInv
<1>7. \A l \in leaders : hasBlock(l, lifts)'
  BY <1>1, <1>2, <1>3 DEF hasBlock
<1>8. Linked'
  <2>1. ASSUME NEW s \in DOMAIN blocks' \ stubs', NEW b \in exits(s, blocks[s].end)'
        PROVE  hasBlock(b, blocks[s].lift)'
    <3>1. b \in exits(s, blocks'[s].end)
      BY <1>1, FlowStays DEF exits
    <3>2. CASE s \in DOMAIN blocks \ stubs /\ blocks'[s] = blocks[s]
      <4>1. hasBlock(b, blocks[s].lift)
        BY <3>1, <3>2 DEF CoverInv, Linked
      <4> QED
        BY <4>1, <3>2, <1>2, <1>3 DEF hasBlock
    <3>3. CASE s \in fresh /\ blocks'[s].end = extents[s] /\ blocks'[s].lift = lifts
      <4>1. b \in leaders
        BY <3>1, <3>3, <1>1 DEF CoverInv, Linked, Working
      <4>2. hasBlock(b, lifts)'
        BY <4>1, <1>7
      <4> QED
        BY <4>2, <3>3, <1>1 DEF hasBlock
    <3> QED
      BY <3>2, <3>3, <1>5
  <2> QED
    BY <2>1, <1>2 DEF Linked, Working
<1>9. Rooted'
  <2>1. \A r \in roots : within(r) => r \in leaders
    BY <1>1 DEF CoverInv, Rooted, Working
  <2> QED
    BY <2>1, <1>1, <1>2, <1>4, <1>7 DEF Rooted, Working
<1>10. Shaped'
  <2>1. \A s \in DOMAIN blocks' : blocks'[s].lift >= 1
    BY <1>1, <1>2, <1>3 DEF CoverInv, Shaped
  <2>2. ASSUME NEW s \in DOMAIN blocks' \ stubs' PROVE readable(s) /\ straight(s, blocks[s].end)'
    <3>1. straight(s, blocks'[s].end)
      <4>1. CASE s \in DOMAIN blocks \ stubs /\ blocks'[s] = blocks[s]
        BY <4>1 DEF CoverInv, Shaped
      <4>2. CASE s \in fresh /\ blocks'[s].end = extents[s]
        <5>1. s \in Nat /\ extents[s] \in Nat
          BY <4>2 DEF fresh, Inv, IndInv, TypeOK, Address
        <5>2. measured(s, extents[s])
          BY <4>2, <1>1 DEF Inv, IndInv, Measured, Working
        <5> QED
          BY <4>2, <5>1, <5>2, MeasuredStraight
      <4> QED
        BY <4>1, <4>2, <1>5
    <3>2. readable(s)
      <4>1. fresh \subseteq leaders \ stubs
        BY <1>1 DEF fresh, Inv, IndInv, LeaderNeverLost, Working, stubs
      <4> QED
        BY <4>1, <1>1, <1>5 DEF CoverInv, Shaped, Working
    <3>3. straight(s, blocks[s].end)'
      BY <3>1, <1>1, FlowStays DEF straight
    <3> QED
      BY <3>2, <3>3
  <2>3. static => \A x \in external \cup stubs' : ~readable(x)
    BY <1>5 DEF CoverInv, Shaped
  <2> QED
    BY <2>1, <2>2, <2>3, <1>1, <1>2, <1>4 DEF CoverInv, Shaped, Working
<1>11. HolesKnown' /\ HolesListed'
  <2>1. HolesKnown'
    BY <1>2 DEF HolesKnown, Working
  <2>0. lifts \in Nat /\ \A b \in DOMAIN blocks : blocks[b].lift # lifts
    BY <1>2 DEF Inv, IndInv, TypeOK, Block
  <2>2. earlierStubs' = earlierStubs
    <3>1. \A b \in all : blocks'[b].external /\ blocks'[b].lift < lifts <=> b \in earlierStubs
      BY <2>0, <1>2, <1>3 DEF earlierStubs, stubs
    <3>2. earlierStubs \subseteq all
      BY <1>3 DEF earlierStubs, stubs
    <3> QED
      BY <3>1, <3>2, <1>1, <1>2 DEF earlierStubs, stubs
  <2>3. ASSUME static, NEW s \in freshBlocks', hole(s, blocks[s].end)' PROVE s \in unresolved
    <3>1. s \in fresh /\ blocks'[s].end = extents[s]
      <4>1. s \in all /\ ~blocks'[s].external /\ blocks'[s].lift = lifts
        BY <1>1, <1>2 DEF freshBlocks
      <4> QED
        BY <4>1, <2>0, <1>2, <1>3
    <3>2. hole(s, extents[s])
      BY <2>2, <2>3, <3>1, <1>1 DEF hole, Image, readable
    <3> QED
      BY <3>1, <3>2, <2>3, <1>1 DEF CoverInv, HolesKnown, Working
  <2>4. HolesListed'
    BY <2>3, <1>1 DEF HolesListed, static
  <2> QED
    BY <2>1, <2>4
<1> QED
  BY <1>6, <1>8, <1>9, <1>10, <1>11 DEF CoverInv

LEMMA StutterCover == ASSUME Inv, CoverInv, UNCHANGED vars PROVE CoverInv'
<1>1. UNCHANGED <<program, blocks, leaders, external, extents, unresolved, worklist,
                  current, pending, phase, lifts, roots>>
  BY DEF vars
<1>2. \A a : (within(a)' <=> within(a)) /\ (readable(a)' <=> readable(a)) /\ (static' <=> static)
  BY <1>1, FrameProgram
<1>3. fresh' = fresh /\ stubs' = stubs /\ contents' = contents /\ queued' = queued
  BY <1>1, FrameBlocks DEF fresh, queued
<1>4. Sound'
  <2>1. ASSUME NEW R \in SUBSET DOMAIN Image, Closed(R), Bounded(R) PROVE Bounded(R)'
    BY <2>1, <1>1, <1>2, <1>3 DEF Bounded
  <2> QED
    BY <2>1, <1>1, SoundStep DEF CoverInv
<1>5. Linked'
  <2>1. BlocksLinked'
    BY <1>1, FrameBlocks DEF CoverInv, Linked, BlocksLinked
  <2>2. \A s \in fresh : exits(s, extents[s])' = exits(s, extents[s])
    BY <1>1, FlowStays DEF exits
  <2>3. exits(current.start, current.at)' = exits(current.start, current.at)
    BY <1>1, FlowStays DEF exits
  <2> QED
    BY <1>1, <1>3, <2>1, <2>2, <2>3 DEF CoverInv, Linked, BlocksLinked
<1>6. Rooted'
  <2>1. \A b : hasBlock(b, lifts)' <=> hasBlock(b, lifts)
    BY <1>1 DEF hasBlock
  <2> QED
    BY <1>1, <1>2, <2>1 DEF CoverInv, Rooted
<1>7. Shaped'
  <2>1. BlocksShaped'
    BY <1>1, FrameBlocks DEF CoverInv, Shaped, BlocksShaped
  <2> QED
    BY <2>1, <1>1, <1>2, <1>3 DEF CoverInv, Shaped, BlocksShaped
<1>8. HolesKnown' /\ HolesListed'
  <2>1. \A s : (hole(s, extents[s])' <=> hole(s, extents[s]))
               /\ (hole(s, blocks[s].end)' <=> hole(s, blocks[s].end))
    BY <1>1 DEF hole, earlierStubs, stubs, Image, readable
  <2>2. hole(current.start, current.at)' <=> hole(current.start, current.at)
    BY <1>1 DEF hole, earlierStubs, stubs, Image, readable
  <2>3. freshBlocks' = freshBlocks
    BY <1>1 DEF freshBlocks
  <2> QED
    BY <2>1, <2>2, <2>3, <1>1, <1>2, <1>3 DEF CoverInv, HolesKnown, HolesListed
<1> QED
  BY <1>4, <1>5, <1>6, <1>7, <1>8 DEF CoverInv

LEMMA NextCover == Inv /\ CoverInv /\ [Next]_vars => CoverInv'
<1> SUFFICES ASSUME Inv, CoverInv, [Next]_vars PROVE CoverInv'
  OBVIOUS
<1>1. CASE LiftFunction
  <2>1. program.entry \in Address
    BY ProgramFacts DEF Inv
  <2>2. <<program.entry>> \in Seq(Address) /\ <<program.entry>> # << >>
    BY <2>1
  <2> QED
    BY <1>1, <2>2, ConstructCover DEF LiftFunction
<1>2. CASE \E entries \in program.increments : LiftBlocksInto(entries)
  <2>1. PICK entries \in program.increments : LiftBlocksInto(entries)
    BY <1>2
  <2>2. entries \in Seq(Address) /\ entries # << >>
    BY ProgramFacts DEF Inv
  <2> QED
    BY <2>1, <2>2, ConstructCover DEF LiftBlocksInto
<1>3. CASE Scan
  BY <1>3, SeedCover, SkipCover, ScanCover, VisitCover, CloseCover, ElaborateCover DEF Scan
<1>4. CASE UNCHANGED vars
  BY <1>4, StutterCover
<1> QED
  BY <1>1, <1>2, <1>3, <1>4 DEF Next

\* The blocks of a finished lift and the flow: what holds of them after every
\* lift of every program.
THEOREM CoverInductive == Spec => []CoverInv
BY Inductive, InitCover, NextCover, PTL DEF Spec

\* When a lift of the whole function is done, or any lift without a trace, the
\* blocks are a closed set of instructions.
LEMMA ContentsClosed ==
  ASSUME Inv, CoverInv, phase = "done", static \/ lifts = 1
  PROVE  contents \in SUBSET DOMAIN Image /\ Closed(contents)
<1>1. \A s \in DOMAIN blocks \ stubs :
        /\ s \in Nat /\ blocks[s].end \in Nat
        /\ straight(s, blocks[s].end)
        /\ \A b \in exits(s, blocks[s].end) : hasBlock(b, blocks[s].lift)
  BY DEF Inv, IndInv, TypeOK, Block, Address, CoverInv, Shaped, Linked
<1>2. ASSUME NEW b, within(b), NEW n \in Nat, n <= lifts, hasBlock(b, n) PROVE b \in contents
  <2>1. b \in DOMAIN blocks \ stubs
    <3>1. CASE static
      BY <3>1, <1>2 DEF hasBlock, CoverInv, Shaped, within
    <3>2. CASE lifts = 1
      <4>1. b \in DOMAIN blocks /\ blocks[b].lift >= 1 /\ blocks[b].lift \in Nat
        BY <1>2 DEF hasBlock, CoverInv, Shaped, Inv, IndInv, TypeOK, Block
      <4>2. ~(blocks[b].lift < n)
        BY <4>1, <3>2, <1>2
      <4> QED
        BY <4>1, <4>2, <1>2 DEF hasBlock, stubs
    <3> QED
      BY <3>1, <3>2
  <2>2. b \in b .. (blocks[b].end - 1)
    BY <2>1, <1>1, <1>2 DEF straight
  <2> QED
    BY <2>1, <2>2 DEF contents
<1>3. contents \in SUBSET DOMAIN Image
  BY <1>1 DEF contents, straight, within, readable
<1>4. \A r \in roots : within(r) => r \in contents
  BY <1>2 DEF CoverInv, Rooted, Inv, IndInv, TypeOK
<1>5. ASSUME NEW a \in contents, NEW b \in follows(a), within(b) PROVE b \in contents
  <2>1. PICK s \in DOMAIN blocks \ stubs : a \in s .. (blocks[s].end - 1)
    BY <1>5 DEF contents
  <2> DEFINE e == blocks[s].end
  <2>2. s \in Nat /\ e \in Nat /\ a \in Nat /\ within(a) /\ (endsBlock(a) => a = e - 1)
    BY <1>1, <2>1 DEF straight
  <2>3. CASE a = e - 1
    <3>1. b \in exits(s, e)
      BY <2>1, <2>2, <2>3, <1>5 DEF exits
    <3>2. hasBlock(b, blocks[s].lift)
      BY <3>1, <1>1
    <3>3. blocks[s].lift \in Nat /\ blocks[s].lift <= lifts
      BY DEF Inv, IndInv, TypeOK, Block, Aged
    <3> QED
      BY <3>2, <3>3, <1>2, <1>5
  <2>4. CASE a # e - 1
    <3>1. program \in Programs
      BY DEF Inv
    <3>2. follows(a) = {a + 1}
      BY <3>1, <2>2, <2>4, FollowsFacts
    <3>3. b \in s .. (e - 1)
      BY <3>2, <2>1, <2>2, <2>4, <1>5
    <3> QED
      BY <3>3 DEF contents
  <2> QED
    BY <2>3, <2>4
<1> QED
  BY <1>3, <1>4, <1>5 DEF Closed

ContentsReached == phase = "done" => contents \subseteq reachable

\* Nothing is lifted that the flow does not reach from the entries: for every
\* program, with and without a trace, and after any number of lifts
\* (lift.cpp:158-252).
THEOREM NothingSweptIn == Spec => []ContentsReached
<1>1. Inv /\ CoverInv => ContentsReached
  <2> SUFFICES ASSUME Inv, CoverInv, phase = "done", NEW a \in contents PROVE a \in reachable
    BY DEF ContentsReached
  <2>1. PICK s \in DOMAIN blocks \ stubs : a \in s .. (blocks[s].end - 1)
    BY DEF contents
  <2>2. a \in DOMAIN Image
    BY <2>1 DEF CoverInv, Shaped, straight, within, readable
  <2>3. \A R \in SUBSET DOMAIN Image : Closed(R) => a \in R
    BY DEF CoverInv, Sound, Bounded
  <2> QED
    BY <2>2, <2>3 DEF reachable
<1> QED
  BY <1>1, Inductive, CoverInductive, PTL

\* The blocks hold exactly what is reachable and list where the flow could not be
\* followed: for every image and entry list of every lift without a trace, and
\* for the first lift of every function under any trace (lift.cpp:149-253).
THEOREM DiscoveryComplete == Spec => [](static \/ lifts = 1 => CoversReachable)
<1>1. Inv /\ CoverInv /\ ContentsReached => (static \/ lifts = 1 => CoversReachable)
  <2> SUFFICES ASSUME Inv, CoverInv, ContentsReached, static \/ lifts = 1 PROVE CoversReachable
    OBVIOUS
  <2>1. ASSUME phase = "done" PROVE reachable \subseteq contents
    BY <2>1, ContentsClosed DEF reachable
  <2> QED
    BY <2>1 DEF CoversReachable, ContentsReached, CoverInv
<1> QED
  BY <1>1, Inductive, CoverInductive, NothingSweptIn, PTL
=============================================================================
