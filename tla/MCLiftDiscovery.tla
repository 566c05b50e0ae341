--------------------------- MODULE MCLiftDiscovery ---------------------------
(***************************************************************************)
(* Programs small enough to lift in every order the worklist can take:     *)
(* every image of a few instructions, and the dynamic coverages a trace of *)
(* such an image can leave behind.  How a recorded trace becomes such a    *)
(* coverage is TraceCoverage's; the two share no variable, so a behaviour  *)
(* exercises one of them (focus) and leaves the other alone.               *)
(***************************************************************************)
EXTENDS LiftDiscovery, TraceCoverage

I(kind) == [kind |-> kind, target |-> 0]
To(kind, t) == [kind |-> kind, target |-> t]

NoCoverage == [active |-> FALSE, pcs |-> {}, succ |-> << >>]

ProgramsOf(images, coverages, increments) ==
  [image : images, coverage : coverages, entry : {1}, increments : {increments}]

\* Every image over 1 .. n with the given stops and branches between them.
ImagesOf(n, stops) ==
  [1 .. n -> {I(k) : k \in stops}
               \cup {To(k, t) : k \in {"branch", "cond"}, t \in 1 .. n}]

\* Whole functions of n instructions and everything a second lift may add.
Static(n) ==
  ProgramsOf(ImagesOf(n, {"plain", "noreturn", "indirect"}), {NoCoverage},
              {<<e>> : e \in 2 .. n})

\* Images with a gap, and words the specification cannot lift.
Gapped(n, gap) ==
  ProgramsOf([1 .. n \ {gap} -> {I(k) : k \in {"plain", "undecodable", "unimplemented", "return"}}
                                 \cup {To(k, t) : k \in {"branch", "cond"}, t \in {2, gap, n}}],
              {NoCoverage}, {<<n, 2>>, <<2, n>>, <<2, 2>>})

\* A trace visits what it executed: the coverage is closed under the successors
\* it observed.
Traced(image, succ) ==
  LET next(a) == IF a \notin DOMAIN image THEN {}
                 ELSE IF image[a].kind = "plain" THEN {a + 1}
                 ELSE {succ[a][i] : i \in 1 .. Len(succ[a])}
      seen[k \in Nat] == IF k = 0 THEN {1}
                         ELSE LET r == seen[k - 1] IN r \cup UNION {next(a) : a \in r}
  IN  [active |-> TRUE, pcs |-> seen[Cardinality(DOMAIN image)] \cap DOMAIN image,
       succ |-> succ]

Ascending(S) == {p \in S \X S : p[1] < p[2]}

\* What a trace may have seen after the instruction at a, in the ascending order
\* successors() returns it: one arm of a branch or both, and up to `most' targets
\* of an indirect branch.
Observations(image, a, most) ==
  LET i == image[a]
  IN  CASE i.kind = "branch" -> {<<i.target>>}
        [] i.kind = "cond" -> {<<i.target>>, <<a + 1>>} \cup Ascending({i.target, a + 1})
        [] i.kind = "indirect" ->
             {<< >>} \cup {<<t>> : t \in 1 .. 4}
               \cup (IF most = 1 THEN {}
                     ELSE Ascending(1 .. 4))
        [] OTHER -> {<< >>}

TracesOf(image, most) ==
  ProgramsOf({image}, {Traced(image, <<a, b, c, d>>) :
     a \in Observations(image, 1, most), b \in Observations(image, 2, most),
     c \in Observations(image, 3, most), d \in Observations(image, 4, most)}, {})

Traces(kinds) == UNION {TracesOf(image, 1) : image \in [1 .. 4 -> kinds]}

MCPrograms ==
  Static(4) \cup Gapped(4, 3) \cup Gapped(2, 1)
    \cup Traces({I("plain"), I("indirect"), To("cond", 2), To("branch", 4)})

-----------------------------------------------------------------------------
\* The traced module: f at 1 may call itself or g; g at 4 calls out of the
\* module, from where f or g may be called back.
Ins(k, to) == [k |-> k, to |-> to]
MCCode == <<Ins("branch", {2, 3}), Ins("call", {1, 4}), Ins("ret", {}),
            Ins("plain", {}), Ins("import", {}), Ins("ret", {})>>

\* Every invocation of f; those of g on one thread, in an image above the traced
\* one; the second of f; the first of g and whatever has call id 2.
Sel(target, base, threads, ids, ordinals) ==
  [functionTarget |-> target, imageBase |-> base, threads |-> threads,
   callIds |-> ids, ordinals |-> ordinals]
MCSelections ==
  {Sel(11, 10, {}, {}, {}), Sel(44, 40, {1}, {}, {}), Sel(11, 10, {}, {}, {1}),
   Sel(14, 10, {}, {2}, {0})}

VARIABLE focus

MCVars == <<vars, traceVars, focus>>

AnyProgram == CHOOSE p \in MCPrograms : TRUE

MCInit == \/ focus = "lift" /\ Init /\ version = 6 /\ TraceInit
          \/ focus = "trace" /\ program = AnyProgram /\ Init /\ TraceInit

MCNext == \/ focus = "lift" /\ Next /\ UNCHANGED <<traceVars, focus>>
          \/ focus = "trace" /\ TraceNext /\ UNCHANGED <<vars, focus>>

MCSpec == /\ MCInit /\ [][MCNext]_MCVars
          /\ WF_MCVars(focus = "lift" /\ Scan /\ UNCHANGED <<traceVars, focus>>)
=============================================================================
