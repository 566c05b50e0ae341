----------------------------- MODULE LogLevels -----------------------------
(***************************************************************************)
(* Log configuration (src/src/obs/log.cpp): categories register at any     *)
(* time, rules are applied to the ones that exist and kept for the ones    *)
(* to come, and XDEC_LOG is read when the first of either happens.         *)
(*                                                                         *)
(* A spec is a sequence of clauses; a clause without a name is malformed.  *)
(* Every operation runs under the registry's mutex, so each is one action. *)
(***************************************************************************)
EXTENDS Naturals, Sequences, FiniteSetsExt

CONSTANTS
  Categories,    \* LogCategory objects; two may carry the same name
  Names,         \* what a clause can name, categories that never exist included
  NameOf,        \* [Categories -> Names]
  DefaultOf,     \* [Categories -> Levels]
  Levels,        \* LogLevel, 0 is Off
  Specs,         \* the specs given to applyLogSpec
  Environment,   \* XDEC_LOG; <<>> when unset
  MaxConfigOps   \* bound on configuration calls

All == "*"
Clause == [name : Names, level : Nat]

ASSUME LevelAssumption ==
  /\ All \in Names
  /\ DefaultOf \in [Categories -> Nat] /\ Levels \subseteq Nat
  /\ Specs \subseteq Seq(Clause) /\ Environment \in Seq(Clause)

VARIABLES
  registered,       \* the categories that exist, in registration order
  rules,            \* Registry::rules
  environmentRead,  \* Registry::environmentRead
  level,            \* LogCategory::level_
  pinned,           \* categories whose last change was a setLogLevel by name
  configOps

levelVars == <<registered, rules, environmentRead, level, pinned, configOps>>

Rule(name, l) == [name |-> name, level |-> l]
Bad == Rule("", 0)
IsRule(clause) == clause # Bad
Exists(c) == \E i \in DOMAIN registered : registered[i] = c

\* parseRules: clauses up to the first malformed one.
ParseRules(spec) ==
  LET bad == {i \in DOMAIN spec : ~IsRule(spec[i])}
  IN  SubSeq(spec, 1, IF bad = {} THEN Len(spec) ELSE Min(bad) - 1)

Matches(c, rule) == rule.name \in {All, NameOf[c]}

\* applyRule for every rule in turn, from level l: the last one that matches
\* decides.
ApplyRules(c, l, some) ==
  LET hits == {i \in DOMAIN some : Matches(c, some[i])}
  IN  IF hits = {} THEN l ELSE some[Max(hits)].level

\* readEnvironmentLocked: the rules list afterwards.
ReadEnvironment == IF environmentRead THEN rules ELSE rules \o ParseRules(Environment)

LevelsInit ==
  /\ registered = <<>>
  /\ rules = <<>>
  /\ environmentRead = FALSE
  /\ level = DefaultOf
  /\ pinned = {}
  /\ configOps = 0

ConfigOp == configOps < MaxConfigOps /\ configOps' = configOps + 1

\* Rules that reach the categories already registered.
Reach(some) ==
  /\ level' = [c \in Categories |-> IF Exists(c) THEN ApplyRules(c, level[c], some)
                                     ELSE level[c]]
  /\ pinned' = {c \in pinned : \A i \in DOMAIN some : ~Matches(c, some[i])}

\* Mutant: the environment is read after the pending rules were applied.
RegisterEarly(c) ==
  /\ ~Exists(c)
  /\ registered' = Append(registered, c)
  /\ rules' = ReadEnvironment
  /\ environmentRead' = TRUE
  /\ level' = [level EXCEPT ![c] = ApplyRules(c, DefaultOf[c], rules)]
  /\ UNCHANGED <<pinned, configOps>>

\* LogCategory::LogCategory
Register(c) ==
  /\ ~Exists(c)
  /\ registered' = Append(registered, c)
  /\ rules' = ReadEnvironment
  /\ environmentRead' = TRUE
  /\ level' = [level EXCEPT ![c] = ApplyRules(c, DefaultOf[c], ReadEnvironment)]
  /\ UNCHANGED <<pinned, configOps>>

ApplyLogSpec(spec) ==
  /\ ConfigOp
  /\ rules' = ReadEnvironment \o ParseRules(spec)
  /\ environmentRead' = TRUE
  /\ Reach(ParseRules(spec))
  /\ UNCHANGED registered

InitLoggingFromEnvironment ==
  /\ ConfigOp
  /\ rules' = rules \o ParseRules(Environment)
  /\ environmentRead' = TRUE
  /\ Reach(ParseRules(Environment))
  /\ UNCHANGED registered

ResetLogLevels ==
  /\ ConfigOp
  /\ rules' = <<>>
  /\ environmentRead' = TRUE
  /\ level' = [c \in Categories |-> IF Exists(c) THEN DefaultOf[c] ELSE level[c]]
  /\ pinned' = {}
  /\ UNCHANGED registered

SetLogLevel(name, l) ==
  LET hit == {c \in Categories : Exists(c) /\ NameOf[c] = name}
  IN  /\ ConfigOp
      /\ level' = [c \in Categories |-> IF c \in hit THEN l ELSE level[c]]
      /\ pinned' = pinned \cup hit
      /\ UNCHANGED <<registered, rules, environmentRead>>

SetAllLogLevels(l) ==
  /\ ConfigOp
  /\ rules' = Append(rules, Rule(All, l))
  /\ level' = [c \in Categories |-> IF Exists(c) THEN l ELSE level[c]]
  /\ pinned' = {}
  /\ UNCHANGED <<registered, environmentRead>>

LevelsNext ==
  \/ \E c \in Categories : Register(c)
  \/ \E spec \in Specs : ApplyLogSpec(spec)
  \/ InitLoggingFromEnvironment
  \/ ResetLogLevels
  \/ \E c \in Categories, l \in Levels : SetLogLevel(NameOf[c], l)
  \/ \E l \in Levels : SetAllLogLevels(l)

LevelsSpec == LevelsInit /\ [][LevelsNext]_levelVars

(***************************************************************************)
(* Properties.                                                             *)
(***************************************************************************)

\* "Rules apply in order, both to categories already registered and to ones
\* that register later" (log.cpp:17): whatever the order of registrations,
\* specs, environment reads and resets, a category that setLogLevel did not
\* single out runs at the level the whole list of rules gives its default.
LevelsFollowRules ==
  \A i \in DOMAIN registered :
    LET c == registered[i]
    IN  c \notin pinned => level[c] = ApplyRules(c, DefaultOf[c], rules)

=============================================================================
