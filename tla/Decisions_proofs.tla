--------------------------- MODULE Decisions_proofs ---------------------------
(***************************************************************************)
(* What is proved about the components that decide: the core hypervisor,   *)
(* for any world and any chain of origins; the two engines of provenance,  *)
(* for any registry of values; the path from a manifest to a recorded      *)
(* decision, for any manifests and budgets; workflow manifests, for any    *)
(* tools and traces; the defence of the benchmark, for any suites and      *)
(* whatever the model proposes and the tools return.  Each is a theorem    *)
(* about the component's own specification; the last one is about a        *)
(* process that runs any of them.                                          *)
(***************************************************************************)
EXTENDS DataInduction, Decisions

-----------------------------------------------------------------------------
(***************************************************************************)
(* The core hypervisor.                                                    *)
(***************************************************************************)

\* The world is always a record of the three parts of its manifest.
Whole(w) == w = [actions |-> w.actions, rules |-> w.rules, capabilities |-> w.capabilities]

Standing == Whole(world) /\ DecisionsStand

-----------------------------------------------------------------------------
\* extend leaves what other actions require, the rules and the capabilities as
\* they are, so the resolution of another action does not change
\* (ManifestResolver.resolve, WorldManifest.extend).
LEMMA ExtendLeavesOthers ==
  ASSUME NEW w, Whole(w),
         NEW action, NEW requires, NEW other, other # action, NEW m, NEW chain
  PROVE  /\ Required(Extend(w, action, requires), other) = Required(w, other)
         /\ Resolve(Extend(w, action, requires), m, other, chain) = Resolve(w, m, other, chain)
<1> DEFINE extended == Extend(w, action, requires)
<1> DEFINE acts == [a \in DOMAIN w.actions \cup {action} |->
                      IF a = action THEN requires ELSE w.actions[a]]
<1>1. extended = [w EXCEPT !.actions = acts]
  BY DEF Extend
<1>2. /\ extended.actions = acts
      /\ extended.rules = w.rules
      /\ extended.capabilities = w.capabilities
  BY <1>1 DEF Whole
<1>3. other \in DOMAIN acts <=> other \in DOMAIN w.actions
  OBVIOUS
<1>4. other \in DOMAIN w.actions => acts[other] = w.actions[other]
  OBVIOUS
<1>5. Required(extended, other) = Required(w, other)
  BY <1>2, <1>3, <1>4 DEF Required
<1>6. BreaksLaw(extended, other, chain) <=> BreaksLaw(w, other, chain)
  BY <1>5 DEF BreaksLaw
<1>7. \A verdict : Explicitly(extended, other, verdict) <=> Explicitly(w, other, verdict)
  BY <1>2 DEF Explicitly
<1>8. Available(extended, chain) = Available(w, chain)
  BY <1>2 DEF Available
<1>9. Resolve(extended, m, other, chain) = Resolve(w, m, other, chain)
  BY <1>2, <1>3, <1>5, <1>6, <1>7, <1>8 DEF Resolve
<1> QED
  BY <1>5, <1>9

\* What a fresh resolution never says: "ask" in the background, and anything but
\* "deny" to an action with external effects that something tainted is behind.
LEMMA ResolutionIsSafe ==
  ASSUME NEW w, NEW m, NEW action, NEW chain
  PROVE  /\ m = "background" => Resolve(w, m, action, chain) # "ask"
         /\ Tainted(chain) /\ "external_side_effects" \in Required(w, action) =>
              Resolve(w, m, action, chain) = "deny"
<1>1. m = "background" => Resolve(w, m, action, chain) # "ask"
  BY DEF Resolve
<1>2. Tainted(chain) /\ "external_side_effects" \in Required(w, action) =>
        Resolve(w, m, action, chain) = "deny"
  BY DEF Resolve, BreaksLaw
<1> QED
  BY <1>1, <1>2

-----------------------------------------------------------------------------
LEMMA StandingInit == CoreInit => Standing
  BY DEF CoreInit, Standing, Whole, DecisionsStand

LEMMA StandingNext == Standing /\ [CoreNext]_coreVars => Standing'
<1> SUFFICES ASSUME Standing, [CoreNext]_coreVars
             PROVE  Standing'
  OBVIOUS
<1>1. ASSUME NEW action, NEW chain, EvaluateAction(action, chain)
      PROVE  Standing'
  <2> DEFINE fresh == [action |-> action, chain |-> chain,
                       decision |-> Resolve(world, mode, action, chain)]
  <2>1. given' = given \cup {fresh} /\ world' = world /\ mode' = mode
    BY <1>1 DEF EvaluateAction
  <2>2. Whole(world)'
    BY <2>1 DEF Standing, Whole
  <2>3. ASSUME NEW g \in given'
        PROVE  /\ g.decision = Resolve(world, mode, g.action, g.chain)
               /\ mode = "background" => g.decision # "ask"
               /\ Tainted(g.chain) /\ "external_side_effects" \in Required(world, g.action) =>
                    g.decision = "deny"
    <3>1. CASE g \in given
      BY <3>1 DEF Standing, DecisionsStand
    <3>2. CASE g = fresh
      <4>1. g.action = action /\ g.chain = chain /\ g.decision = Resolve(world, mode, action, chain)
        BY <3>2
      <4> QED
        BY <4>1, ResolutionIsSafe
    <3> QED
      BY <2>1, <3>1, <3>2
  <2>4. DecisionsStand'
    <3> SUFFICES ASSUME NEW g \in given'
                 PROVE  /\ g.decision = Resolve(world', mode', g.action, g.chain)
                        /\ mode' = "background" => g.decision # "ask"
                        /\ Tainted(g.chain)
                             /\ "external_side_effects" \in Required(world', g.action) =>
                             g.decision = "deny"
      BY DEF DecisionsStand, Resolve, Required, BreaksLaw, Explicitly, Available,
             EffectiveTrust, Tainted
    <3> QED
      BY <2>1, <2>3
  <2> QED
    BY <2>2, <2>4 DEF Standing
<1>2. ASSUME NEW action, NEW requires, ExtendManifest(action, requires)
      PROVE  Standing'
  <2>1. /\ world' = Extend(world, action, requires)
        /\ given' = {g \in given : g.action # action}
        /\ mode' = mode
    BY <1>2 DEF ExtendManifest
  <2>2. Whole(world)'
    BY <2>1 DEF Standing, Whole, Extend
  <2>3. ASSUME NEW g \in given'
        PROVE  /\ g.decision = Resolve(world', mode', g.action, g.chain)
               /\ mode' = "background" => g.decision # "ask"
               /\ Tainted(g.chain) /\ "external_side_effects" \in Required(world', g.action) =>
                    g.decision = "deny"
    <3>1. g \in given /\ g.action # action
      BY <2>1
    <3>2. PICK w : w = world
      OBVIOUS
    <3>3. world' = Extend(w, action, requires)
      BY <2>1, <3>2
    <3>4. Whole(w)
      BY <3>2 DEF Standing
    <3>5. /\ Required(Extend(w, action, requires), g.action) = Required(w, g.action)
          /\ Resolve(Extend(w, action, requires), mode, g.action, g.chain)
               = Resolve(w, mode, g.action, g.chain)
      BY <3>1, <3>4, ExtendLeavesOthers
    <3> QED
      BY <2>1, <3>1, <3>2, <3>3, <3>5 DEF Standing, DecisionsStand
  <2>4. DecisionsStand'
    BY <2>3 DEF DecisionsStand, Resolve, Required, BreaksLaw, Explicitly, Available,
                EffectiveTrust, Tainted
  <2> QED
    BY <2>2, <2>4 DEF Standing
<1>3. ASSUME NEW tool, NEW args, EvaluateIntent(tool, args)
      PROVE  Standing'
  <2>1. UNCHANGED <<mode, world, given>>
    BY <1>3 DEF EvaluateIntent
  <2> QED
    BY <2>1 DEF Standing, Whole, DecisionsStand, Resolve, Required, BreaksLaw,
                Explicitly, Available, EffectiveTrust, Tainted
<1>4. CASE UNCHANGED coreVars
  BY <1>4 DEF coreVars, Standing, Whole, DecisionsStand, Resolve, Required, BreaksLaw,
              Explicitly, Available, EffectiveTrust, Tainted
<1> QED
  BY <1>1, <1>2, <1>3, <1>4 DEF CoreNext

-----------------------------------------------------------------------------
\* Whatever a user adds to a world, whoever asks and whatever goes into it: a
\* decision stands until its own action is extended, the background never asks,
\* and nothing tainted gets to an action with external effects.
THEOREM DecisionsAlwaysStand == CoreSpec => []DecisionsStand
<1>1. CoreInit => Standing
  BY StandingInit
<1>2. Standing /\ [CoreNext]_coreVars => Standing'
  BY StandingNext
<1>3. Standing => DecisionsStand
  BY DEF Standing
<1> QED
  BY <1>1, <1>2, <1>3, PTL DEF CoreSpec

-----------------------------------------------------------------------------
(***************************************************************************)
(* Derivation: what ResolveChain computes.                                 *)
(***************************************************************************)

\* One round of the walk.
Grow(values, known) ==
  known \cup ((UNION {values[v].parents : v \in known}) \cap DOMAIN values)

\* The walk that ResolveChain takes.
Walk(values, id) ==
  CHOOSE walk : walk = [n \in Nat |-> IF n = 0 THEN {id} ELSE Grow(values, walk[n - 1])]

\* With a set also the known parents of its members.
Closed(values, S) ==
  \A v \in S : values[v].parents \cap DOMAIN values \subseteq S

LEMMA WalkSteps ==
  ASSUME NEW values, NEW id \in DOMAIN values
  PROVE  /\ Walk(values, id) \in [Nat -> SUBSET DOMAIN values]
         /\ Walk(values, id)[0] = {id}
         /\ \A n \in Nat :
              Walk(values, id)[n + 1] = Grow(values, Walk(values, id)[n])
<1> DEFINE S == SUBSET DOMAIN values
           F == [n \in Nat |-> [known \in S |-> Grow(values, known)]]
           walk == Walk(values, id)
<1>1. StepsOf(S, F) /\ {id} \in S
  BY DEF StepsOf, Grow
<1>2. PICK g : Iterates(g, S, F, {id})
  <2> HIDE DEF S, F
  <2> QED
    BY <1>1, Iteration
<1>3. \A n \in Nat : g[n] = IF n = 0 THEN {id} ELSE Grow(values, g[n - 1])
  <2> SUFFICES ASSUME NEW n \in Nat, n # 0
               PROVE  g[n] = Grow(values, g[n - 1])
    BY <1>2 DEF Iterates
  <2>1. n - 1 \in Nat /\ (n - 1) + 1 = n
    OBVIOUS
  <2> QED
    BY <1>2, <2>1 DEF Iterates
<1>4. g = [n \in Nat |-> IF n = 0 THEN {id} ELSE Grow(values, g[n - 1])]
  BY <1>2, <1>3 DEF Iterates
<1>5. walk = [n \in Nat |-> IF n = 0 THEN {id} ELSE Grow(values, walk[n - 1])]
  BY <1>4 DEF Walk
<1> HIDE DEF walk
<1>6. /\ DOMAIN walk = Nat
      /\ walk[0] = {id}
      /\ \A n \in Nat : walk[n + 1] = Grow(values, walk[n])
  <2>1. \A n \in Nat : n + 1 \in Nat /\ n + 1 # 0 /\ (n + 1) - 1 = n
    OBVIOUS
  <2> QED
    BY <1>5, <2>1
<1>7. \A n \in Nat : walk[n] \in S
  <2> DEFINE G == {n \in Nat : walk[n] \in S}
  <2>1. 0 \in G
    BY <1>6
  <2>2. \A n \in Nat : n \in G => n + 1 \in G
    BY <1>6 DEF Grow
  <2>3. Nat \subseteq G
    <3> HIDE DEF G
    <3> QED
      BY <2>1, <2>2, AllNaturals
  <2> QED
    BY <2>3
<1> QED
  BY <1>5, <1>6, <1>7 DEF walk

\* After as many rounds as there are values the walk has come to an end.
LEMMA WalkEnds ==
  ASSUME NEW values, IsFiniteSet(DOMAIN values), NEW id \in DOMAIN values
  PROVE  Closed(values, ResolveChain(values, id))
<1> DEFINE walk == Walk(values, id)
           N == Cardinality(DOMAIN values)
           Done(n) == Grow(values, walk[n]) = walk[n]
           G == {n \in Nat : Done(n) \/ Cardinality(walk[n]) >= n + 1}
<1>1. /\ walk[0] = {id}
      /\ \A n \in Nat : /\ walk[n] \in SUBSET DOMAIN values
                        /\ walk[n + 1] = Grow(values, walk[n])
  BY WalkSteps
<1> HIDE DEF walk
<1>2. \A n \in Nat : /\ IsFiniteSet(walk[n]) /\ Cardinality(walk[n]) \in Nat
                     /\ Cardinality(walk[n]) <= N
  BY <1>1, FS_Subset, FS_CardinalityType
<1>3. 0 \in G
  <2>1. Cardinality(walk[0]) = 1
    BY <1>1, FS_Singleton
  <2> QED
    BY <2>1
<1>4. ASSUME NEW n \in Nat, n \in G
      PROVE  n + 1 \in G
  <2>1. CASE Done(n)
    BY <1>1, <2>1
  <2>2. CASE ~Done(n) /\ Cardinality(walk[n]) >= n + 1
    <3>1. walk[n] \subseteq walk[n + 1] /\ walk[n] # walk[n + 1]
      BY <1>1, <2>2 DEF Grow
    <3>2. Cardinality(walk[n]) < Cardinality(walk[n + 1])
      <4>1. n + 1 \in Nat
        OBVIOUS
      <4>2. /\ Cardinality(walk[n]) <= Cardinality(walk[n + 1])
            /\ Cardinality(walk[n]) # Cardinality(walk[n + 1])
        BY <1>2, <3>1, <4>1, FS_Subset
      <4> QED
        BY <1>2, <4>1, <4>2
    <3> QED
      BY <1>2, <2>2, <3>2
  <2> QED
    BY <1>4, <2>1, <2>2
<1>5. N \in Nat /\ N \in G
  <2>1. N \in Nat
    BY FS_CardinalityType
  <2>2. Nat \subseteq G
    <3> HIDE DEF G
    <3> QED
      BY <1>3, <1>4, AllNaturals
  <2> QED
    BY <2>1, <2>2
<1>6. Done(N)
  BY <1>2, <1>5
<1>7. ResolveChain(values, id) = walk[N]
  BY DEF ResolveChain, Walk, Grow, walk
<1> QED
  BY <1>6, <1>7 DEF Closed, Grow

\* A chain holds its value, and is the least set that does and is closed.
LEMMA ChainFacts ==
  ASSUME NEW values, IsFiniteSet(DOMAIN values), NEW id \in DOMAIN values
  PROVE  /\ id \in ResolveChain(values, id)
         /\ ResolveChain(values, id) \subseteq DOMAIN values
         /\ \A S : id \in S /\ Closed(values, S) => ResolveChain(values, id) \subseteq S
<1> DEFINE walk == Walk(values, id)
           N == Cardinality(DOMAIN values)
<1>1. /\ walk[0] = {id}
      /\ \A n \in Nat : /\ walk[n] \in SUBSET DOMAIN values
                        /\ walk[n + 1] = Grow(values, walk[n])
  BY WalkSteps
<1>2. ResolveChain(values, id) = walk[N] /\ N \in Nat
  BY FS_CardinalityType DEF ResolveChain, Walk, Grow
<1> HIDE DEF walk, N
<1>3. \A n \in Nat : id \in walk[n]
  <2> DEFINE G == {n \in Nat : id \in walk[n]}
  <2>1. 0 \in G /\ \A n \in Nat : n \in G => n + 1 \in G
    BY <1>1 DEF Grow
  <2>2. Nat \subseteq G
    <3> HIDE DEF G
    <3> QED
      BY <2>1, AllNaturals
  <2> QED
    BY <2>2
<1>4. ASSUME NEW S, id \in S, Closed(values, S)
      PROVE  \A n \in Nat : walk[n] \subseteq S
  <2> DEFINE G == {n \in Nat : walk[n] \subseteq S}
  <2>1. 0 \in G
    BY <1>1, <1>4
  <2>2. ASSUME NEW n \in Nat, n \in G
        PROVE  n + 1 \in G
    BY <1>1, <1>4, <2>2 DEF Grow, Closed
  <2>3. Nat \subseteq G
    <3> HIDE DEF G
    <3> QED
      BY <2>1, <2>2, AllNaturals
  <2> QED
    BY <2>3
<1> QED
  BY <1>1, <1>2, <1>3, <1>4

\* Derivation is transitive: what an ancestor is derived from, so is the value.
LEMMA ChainsNest ==
  ASSUME NEW values, IsFiniteSet(DOMAIN values), NEW id \in DOMAIN values,
         NEW origin \in ResolveChain(values, id)
  PROVE  ResolveChain(values, origin) \subseteq ResolveChain(values, id)
<1>1. origin \in DOMAIN values
  BY ChainFacts
<1> QED
  BY <1>1, WalkEnds, ChainFacts

-----------------------------------------------------------------------------
LEMMA KnownAreFinite ==
  ASSUME IsFiniteSet(DOMAIN registry), [RegistryNext]_registry
  PROVE  IsFiniteSet(DOMAIN registry)'
<1>1. CASE registry' = registry
  BY <1>1
<1>2. ASSUME NEW id, NEW kind, NEW parents, Register(id, kind, parents)
      PROVE  IsFiniteSet(DOMAIN registry)'
  <2>1. DOMAIN registry' = DOMAIN registry \cup {id}
    BY <1>2 DEF Register
  <2> QED
    BY <2>1, FS_AddElement
<1> QED
  BY <1>1, <1>2 DEF RegistryNext

\* What the two engines say of a call that differs in one value.
LEMMA EnginesFollowChains ==
  ASSUME IsFiniteSet(DOMAIN registry)
  PROVE  DenialsStick
<1> SUFFICES ASSUME NEW id \in DOMAIN registry, NEW origin \in Ancestry(id),
                    NEW tool \in Tools, NEW arg \in ArgNames,
                    NEW other \in DOMAIN registry
             PROVE  LET Made(v) == ToolCall(tool, [a \in ArgNames |-> IF a = arg THEN v ELSE other])
                        denies(v) == \E i \in Matching(Made(v)) : PolicyRules[i].verdict = "deny"
                    IN  /\ denies(origin) => PolicyVerdict(Made(id)) = "deny"
                        /\ tool \in Writers /\ FirewallVerdict(Made(origin)) = "deny"
                             => FirewallVerdict(Made(id)) = "deny"
  BY DEF DenialsStick
<1> DEFINE Made(v) == ToolCall(tool, [a \in ArgNames |-> IF a = arg THEN v ELSE other])
           old == Made(origin)
           new == Made(id)
<1>1. Ancestry(origin) \subseteq Ancestry(id)
  BY ChainsNest DEF Ancestry
<1>2. /\ old.tool = tool /\ new.tool = tool
      /\ DOMAIN old.args = ArgNames /\ DOMAIN new.args = ArgNames
      /\ \A a \in ArgNames : Ancestry(old.args[a]) \subseteq Ancestry(new.args[a])
  BY <1>1 DEF ToolCall
<1> HIDE DEF old, new
<1>3. Matching(old) \subseteq Matching(new)
  <2> SUFFICES ASSUME NEW i \in DOMAIN PolicyRules, Matches(PolicyRules[i], old)
               PROVE  Matches(PolicyRules[i], new)
    BY DEF Matching
  <2> DEFINE rule == PolicyRules[i]
  <2> HIDE DEF rule
  <2>1. ASSUME rule.argument # NoArgument
        PROVE  /\ rule.argument \in DOMAIN new.args
               /\ LET chain == Ancestry(new.args[rule.argument])
                  IN /\ rule.provenance \in {Unconditional} \cup {registry[v].provenance : v \in chain}
                     /\ rule.role \in {Unconditional} \cup UNION {registry[v].roles : v \in chain}
    BY <1>2, <2>1 DEF Matches, rule
  <2> QED
    BY <1>2, <2>1 DEF Matches, rule
<1>4. ASSUME NEW i \in Matching(old), PolicyRules[i].verdict = "deny"
      PROVE  PolicyVerdict(new) = "deny"
  BY <1>3, <1>4 DEF PolicyVerdict
<1>5. ASSUME tool \in Writers, FirewallVerdict(old) = "deny"
      PROVE  FirewallVerdict(new) = "deny"
  BY <1>2, <1>5 DEF FirewallVerdict, CheckSideEffect, FromDocument, Confirmed, Writers
<1> QED
  BY <1>4, <1>5 DEF old, new

\* Whatever is registered, in whatever order: what a rule of the policy denies a
\* value the policy denies whatever is derived from it, however long the
\* derivation, and so does the firewall for a tool that writes.  Nothing is said
\* of what the firewall makes of send_email.
THEOREM ProvenanceIsSticky == ProvenanceSpec => []DenialsStick
<1>1. RegistryInit => IsFiniteSet(DOMAIN registry)
  BY FS_EmptySet DEF RegistryInit
<1>2. IsFiniteSet(DOMAIN registry) /\ [RegistryNext]_registry => IsFiniteSet(DOMAIN registry)'
  BY KnownAreFinite
<1>3. IsFiniteSet(DOMAIN registry) => DenialsStick
  BY EnginesFollowChains
<1> QED
  BY <1>1, <1>2, <1>3, PTL DEF ProvenanceSpec

-----------------------------------------------------------------------------
(***************************************************************************)
(* Budgets.                                                                *)
(***************************************************************************)

\* Only the node of an execution has no trust level.
NodeType ==
  {node \in [type : {"event", "proposal", "decision", "execution"}, of : Nat,
             source : Nat \cup {None}, tool : Actions \cup {None}, taint : BOOLEAN,
             level : Level \cup {None}, verdict : Verdicts \cup {None}] :
     node.type # "execution" => node.level \in Level}

\* The allowed decisions that charge a counter.
ChargedTo(c) ==
  {i \in DOMAIN nodes :
     nodes[i].type = "decision" /\ nodes[i].verdict = "allow"
       /\ c \in Charged(engine.tables, nodes[i].tool)}

\* What the engine and the next one to be loaded are made of.
Limited ==
  /\ "limits" \in DOMAIN output => output["limits"] \in [Counters -> Nat]
  /\ engine # Missing =>
       /\ engine = [tables |-> engine.tables, used |-> engine.used]
       /\ engine.tables.limits \in [Counters -> Nat]
       /\ engine.used \in [Counters -> Nat]
  /\ nodes \in Seq(NodeType)

Spent == Limited /\ BudgetsMatchDecisions

\* Migrated or not, a manifest limits every counter.
LEMMA LimitsOfBuildable ==
  ASSUME NEW m \in Buildable
  PROVE  m.limits \in [Counters -> Nat]
<1>1. CASE m \in Manifests
  BY <1>1, ManifestsAssumption
<1>2. ASSUME NEW n \in Manifests, m = FillIn(Migrate(n))
      PROVE  m.limits \in [Counters -> Nat]
  <2>1. "limits" \in DOMAIN n /\ n.limits \in [Counters -> Nat]
    BY ManifestsAssumption
  <2>2. /\ "limits" \in DOMAIN Migrate(n)
        /\ Migrate(n).limits = [k \in Counters |-> NoLimit]
    BY <2>1 DEF Migrate
  <2>3. m.limits = [k \in Counters |-> NoLimit]
    BY <1>2, <2>2 DEF FillIn
  <2> QED
    BY <2>3 DEF NoLimit
<1> QED
  BY <1>1, <1>2 DEF Buildable

\* The three trust levels.
LEMMA LevelFacts ==
  /\ Level = {"TRUSTED", "SEMI_TRUSTED", "UNTRUSTED"}
  /\ Order("TRUSTED") = 1 /\ Order("SEMI_TRUSTED") = 2 /\ Order("UNTRUSTED") = 3
<1>1. DOMAIN Levels = {1, 2, 3}
  BY DEF Levels
<1>2. Levels[1] = "TRUSTED" /\ Levels[2] = "SEMI_TRUSTED" /\ Levels[3] = "UNTRUSTED"
  BY DEF Levels
<1>3. Level = {"TRUSTED", "SEMI_TRUSTED", "UNTRUSTED"}
  BY <1>1, <1>2 DEF Level, Range
<1>4. /\ Order("TRUSTED") = 1 /\ Order("SEMI_TRUSTED") = 2 /\ Order("UNTRUSTED") = 3
  BY <1>1, <1>2 DEF Order
<1> QED
  BY <1>3, <1>4

LEMMA DominatesFacts ==
  ASSUME NEW a \in Level, NEW b \in Level
  PROVE  /\ Dominates(a, b) \in Level
         /\ Order(Dominates(a, b)) >= Order(a)
         /\ Order(Dominates(a, b)) >= Order(b)
  BY LevelFacts DEF Dominates

\* An intent is at least as tainted, and at most as trusted, as its event.
LEMMA InheritedFacts ==
  ASSUME nodes \in Seq(NodeType), NEW origin, NEW elevated \in BOOLEAN,
         origin = 0 \/ (origin \in DOMAIN nodes /\ nodes[origin].type = "event")
  PROVE  LET own == Inherited(origin, elevated)
         IN  /\ own.taint \in BOOLEAN /\ own.level \in Level
             /\ origin # 0 => /\ Order(own.level) >= Order(nodes[origin].level)
                              /\ nodes[origin].taint => own.taint
<1> DEFINE first == IF origin = 0 THEN [taint |-> FALSE, level |-> "TRUSTED"]
                    ELSE [taint |-> nodes[origin].taint, level |-> nodes[origin].level]
           own == Inherited(origin, elevated)
<1>1. /\ first.taint \in BOOLEAN /\ first.level \in Level
      /\ origin # 0 => first.level = nodes[origin].level /\ first.taint = nodes[origin].taint
  <2>1. CASE origin = 0
    BY <2>1, LevelFacts
  <2>2. CASE origin # 0
    BY <2>2, ElementOfSeq DEF NodeType
  <2> QED
    BY <2>1, <2>2
<1>2. own = IF elevated THEN [taint |-> TRUE, level |-> Dominates(first.level, "SEMI_TRUSTED")]
            ELSE first
  BY DEF Inherited
<1> HIDE DEF first, own
<1>3. CASE elevated
  <2>1. own.taint = TRUE /\ own.level = Dominates(first.level, "SEMI_TRUSTED")
    BY <1>2, <1>3
  <2>2. "SEMI_TRUSTED" \in Level
    BY LevelFacts
  <2>3. own.level \in Level /\ Order(own.level) >= Order(first.level)
    BY <1>1, <2>1, <2>2, DominatesFacts
  <2> QED
    BY <1>1, <2>1, <2>3 DEF own
<1>4. CASE ~elevated
  <2>1. own = first
    BY <1>2, <1>4
  <2>2. Order(first.level) >= Order(first.level)
    BY <1>1, LevelFacts
  <2> QED
    BY <1>1, <2>1, <2>2 DEF own
<1> QED
  BY <1>3, <1>4

\* A verdict is one of the four, and "allow" only within the limits.
LEMMA EvaluateFacts ==
  ASSUME NEW tables, NEW used, NEW tool, NEW taint, NEW level
  PROVE  LET verdict == Evaluate(tables, used, tool, taint, level)
         IN  /\ verdict \in Verdicts
             /\ verdict = "allow" => ~Exhausted(tables, used, tool)
  BY DEF Evaluate, EscalatedTo, Verdicts

\* A node that allows nothing changes no count.
LEMMA OtherNode ==
  ASSUME Spent, NEW node \in NodeType, node.type # "decision" \/ node.verdict # "allow",
         nodes' = Append(nodes, node), engine' = engine, output' = output
  PROVE  Spent'
<1>1. /\ nodes' \in Seq(NodeType)
      /\ DOMAIN nodes' = DOMAIN nodes \cup {Len(nodes) + 1}
      /\ nodes'[Len(nodes) + 1] = node
      /\ \A i \in DOMAIN nodes : nodes'[i] = nodes[i]
  BY AppendProperties, LenProperties DEF Spent, Limited
<1>2. \A c : ChargedTo(c)' = ChargedTo(c)
  BY <1>1 DEF ChargedTo
<1>3. Limited'
  BY <1>1 DEF Spent, Limited
<1> QED
  BY <1>2, <1>3 DEF Spent, BudgetsMatchDecisions, ChargedTo

LEMMA SpentInit == PipelineInit => Spent
<1> SUFFICES ASSUME PipelineInit PROVE Spent
  OBVIOUS
<1>1. nodes \in Seq(NodeType)
  BY EmptySeq DEF PipelineInit
<1>2. "limits" \notin DOMAIN output
  BY DEF PipelineInit
<1> QED
  BY <1>1, <1>2 DEF PipelineInit, Spent, Limited, BudgetsMatchDecisions

\* A decision is charged where it is counted.
LEMMA SpentByDecision ==
  ASSUME Spent, NEW p, Decide(p)
  PROVE  Spent'
<1> DEFINE intent == nodes[p]
           tables == engine.tables
           used == engine.used
           verdict == Evaluate(tables, used, intent.tool, intent.taint, intent.level)
           node == Node("decision", p, None, intent.tool, intent.taint, intent.level, verdict)
           allowed == {c \in Counters : verdict = "allow" /\ c \in Charged(tables, intent.tool)}
           new == [engine EXCEPT !.used = Charge(tables, used, intent.tool, verdict)]
<1>1. /\ engine # Missing /\ p \in DOMAIN nodes /\ intent.type = "proposal"
      /\ engine' = new
      /\ nodes' = Append(nodes, node)
      /\ output' = output
  BY DEF Decide, Recording, Proposed
<1>2. /\ engine = [tables |-> tables, used |-> used]
      /\ tables.limits \in [Counters -> Nat]
      /\ used \in [Counters -> Nat]
      /\ nodes \in Seq(NodeType)
  BY <1>1 DEF Spent, Limited
<1>3. /\ engine'.tables = tables
      /\ engine' = [tables |-> engine'.tables, used |-> engine'.used]
      /\ engine'.used = Charge(tables, used, intent.tool, verdict)
  BY <1>1, <1>2
<1>4. verdict \in Verdicts /\ (verdict = "allow" => ~Exhausted(tables, used, intent.tool))
  BY EvaluateFacts
<1>5. node \in NodeType /\ node.type = "decision" /\ node.verdict = verdict
      /\ node.tool = intent.tool
  <2>1. intent \in NodeType
    BY <1>1, <1>2, ElementOfSeq
  <2>2. /\ intent.tool \in Actions \cup {None} /\ intent.taint \in BOOLEAN
        /\ intent.level \in Level
    BY <1>1, <2>1 DEF NodeType
  <2>3. p \in Nat
    BY <1>1, <1>2, LenProperties
  <2> HIDE DEF intent, verdict
  <2> QED
    BY <1>4, <2>2, <2>3 DEF Node, NodeType
<1> HIDE DEF intent, verdict, node, new
<1>6. /\ nodes' \in Seq(NodeType)
      /\ DOMAIN nodes' = DOMAIN nodes \cup {Len(nodes) + 1}
      /\ Len(nodes) + 1 \notin DOMAIN nodes
      /\ nodes'[Len(nodes) + 1] = node
      /\ \A i \in DOMAIN nodes : nodes'[i] = nodes[i]
  BY <1>1, <1>2, <1>5, AppendProperties, LenProperties
<1>7. \A c \in Counters :
        engine'.used[c] = used[c] + (IF c \in allowed THEN 1 ELSE 0)
  BY <1>2, <1>3 DEF Charge
<1>8. engine'.used \in [Counters -> Nat]
  BY <1>2, <1>3 DEF Charge
<1>9. ASSUME NEW c \in Counters
      PROVE  /\ engine'.used[c] = Cardinality(ChargedTo(c)')
             /\ engine'.used[c] <= engine'.tables.limits[c]
  <2>1. used[c] = Cardinality(ChargedTo(c)) /\ used[c] <= tables.limits[c]
    BY <1>1 DEF Spent, BudgetsMatchDecisions, ChargedTo
  <2>2. ChargedTo(c)' = IF c \in allowed THEN ChargedTo(c) \cup {Len(nodes) + 1} ELSE ChargedTo(c)
    BY <1>3, <1>5, <1>6 DEF ChargedTo
  <2>3. IsFiniteSet(ChargedTo(c)) /\ Len(nodes) + 1 \notin ChargedTo(c)
    <3>1. DOMAIN nodes = 1 .. Len(nodes) /\ Len(nodes) \in Nat
      BY <1>2, LenProperties
    <3>2. IsFiniteSet(DOMAIN nodes)
      BY <3>1, FS_Interval
    <3>3. ChargedTo(c) \in SUBSET DOMAIN nodes
      BY DEF ChargedTo
    <3> QED
      BY <1>6, <3>2, <3>3, FS_Subset
  <2>4. Cardinality(ChargedTo(c)') = Cardinality(ChargedTo(c)) + (IF c \in allowed THEN 1 ELSE 0)
    BY <2>2, <2>3, FS_AddElement, FS_CardinalityType
  <2>5. c \in allowed => used[c] + 1 <= tables.limits[c]
    BY <1>2, <1>4 DEF Exhausted
  <2> QED
    BY <1>2, <1>3, <1>7, <2>1, <2>4, <2>5
<1>10. BudgetsMatchDecisions'
  BY <1>9 DEF BudgetsMatchDecisions, ChargedTo
<1>11. Limited'
  BY <1>1, <1>2, <1>3, <1>6, <1>8 DEF Limited, Spent
<1> QED
  BY <1>10, <1>11 DEF Spent

LEMMA SpentNext == Spent /\ [PipelineNext]_pipelineVars => Spent'
<1> SUFFICES ASSUME Spent, [PipelineNext]_pipelineVars PROVE Spent'
  OBVIOUS
<1>0. nodes \in Seq(NodeType) /\ Len(nodes) \in Nat /\ NewId \in Nat
  BY LenProperties DEF Spent, Limited, NewId
<1>1. ASSUME UNCHANGED <<engine, nodes>>, Limited' PROVE Spent'
  BY <1>1 DEF Spent, BudgetsMatchDecisions
<1>2. ASSUME NEW m \in Buildable, NEW files, Build(m, files) PROVE Spent'
  <2>1. UNCHANGED <<engine, nodes>>
    BY <1>2 DEF Build
  <2>2. "limits" \in DOMAIN output' => output'["limits"] \in [Counters -> Nat]
    <3>1. Emitted(defaults, m)["limits"] \in [Counters -> Nat]
      BY LimitsOfBuildable DEF Emitted, PolicyTable
    <3> HIDE DEF Emitted
    <3>2. CASE output' = output
      BY <3>2 DEF Spent, Limited
    <3>3. CASE output' = [f \in DOMAIN output \cup files |->
                            IF f \in files THEN Emitted(defaults, m)[f] ELSE output[f]]
      BY <3>1, <3>3 DEF Spent, Limited
    <3> QED
      BY <1>2, <3>2, <3>3 DEF Build
  <2> QED
    BY <1>1, <2>1, <2>2 DEF Spent, Limited
<1>3. CASE NewCompiler \/ SaveAndLoad \/ UNCHANGED pipelineVars
  <2>1. UNCHANGED <<engine, nodes, output>>
    BY <1>3 DEF NewCompiler, SaveAndLoad, pipelineVars
  <2> QED
    BY <1>1, <2>1 DEF Spent, Limited
<1>4. CASE LoadEngine
  <2>1. /\ engine' = [tables |-> output, used |-> [c \in Counters |-> 0]]
        /\ nodes' = <<>> /\ output' = output /\ "limits" \in DOMAIN output
    BY <1>4 DEF LoadEngine, Artifacts
  <2>2. output["limits"] \in [Counters -> Nat] /\ engine'.tables.limits = output["limits"]
    BY <2>1 DEF Spent, Limited
  <2>3. nodes' \in Seq(NodeType) /\ DOMAIN nodes' = {}
    BY <2>1, EmptySeq
  <2>4. engine'.used = [c \in Counters |-> 0]
    BY <2>1
  <2>5. Limited'
    BY <2>1, <2>2, <2>3, <2>4 DEF Limited
  <2>6. \A c : ChargedTo(c)' = {}
    BY <2>3 DEF ChargedTo
  <2>7. BudgetsMatchDecisions'
    <3> SUFFICES ASSUME NEW c \in Counters
                 PROVE  /\ engine'.used[c] = Cardinality(ChargedTo(c)')
                        /\ engine'.used[c] <= engine'.tables.limits[c]
      BY DEF BudgetsMatchDecisions, ChargedTo
    <3>1. Cardinality(ChargedTo(c)') = 0
      BY <2>6, FS_EmptySet
    <3> QED
      BY <2>2, <2>4, <3>1
  <2> QED
    BY <2>5, <2>7 DEF Spent
<1>5. ASSUME NEW channel \in Channels, NEW level \in Level, Observe(channel, level)
      PROVE  Spent'
  <2> DEFINE node == Node("event", NewId, None, None, level # "TRUSTED", level, None)
  <2>1. node \in NodeType /\ node.type = "event"
    BY <1>0 DEF Node, NodeType
  <2> QED
    BY <1>5, <2>1, OtherNode DEF Observe
<1>6. ASSUME NEW origin \in 0 .. MaxNodes, NEW tool \in Actions, NEW elevated \in BOOLEAN,
             Propose(origin, tool, elevated)
      PROVE  Spent'
  <2> DEFINE own == Inherited(origin, elevated)
             node == Node("proposal", NewId, origin, tool, own.taint, own.level, None)
  <2>1. own.taint \in BOOLEAN /\ own.level \in Level
    BY <1>0, <1>6, InheritedFacts DEF Propose
  <2>2. node \in NodeType /\ node.type = "proposal"
    BY <1>0, <2>1 DEF Node, NodeType
  <2> QED
    BY <1>6, <2>2, OtherNode DEF Propose
<1>7. ASSUME NEW p \in 1 .. MaxNodes, Execute(p) PROVE Spent'
  <2> DEFINE node == Node("execution", p, None, nodes[p].tool, FALSE, None, None)
  <2>1. p \in DOMAIN nodes
    BY <1>7 DEF Execute, Proposed
  <2>2. nodes[p] \in NodeType /\ p \in Nat
    BY <1>0, <2>1, ElementOfSeq, LenProperties
  <2>3. node \in NodeType /\ node.type = "execution"
    BY <2>2 DEF Node, NodeType
  <2> QED
    BY <1>7, <2>3, OtherNode DEF Execute
<1> QED
  BY <1>2, <1>3, <1>4, <1>5, <1>6, <1>7, SpentByDecision DEF PipelineNext

\* Any manifests, built and loaded in any order, and any number of intents: a
\* session's counters are what was allowed in it, and within the limits.
THEOREM BudgetsAreKept == BoundarySpec => []BudgetsMatchDecisions
<1>1. Spent => BudgetsMatchDecisions
  BY DEF Spent
<1> QED
  BY SpentInit, SpentNext, <1>1, PTL DEF BoundarySpec

-----------------------------------------------------------------------------
(***************************************************************************)
(* Origins.                                                                *)
(***************************************************************************)

\* What one step back from a node leads to, and what all of them do.
Feeding(j) == {e[1] : e \in {d \in edges : d[2] = j}}

Forward == \A e \in edges : \E k, i \in DOMAIN nodes : e = <<k, i>> /\ k < i

\* What a node is about: itself, or a proposal before it.
Owned(i) ==
  LET o == nodes[i].of
  IN /\ nodes[i].type \in {"event", "proposal"} => o = i
     /\ nodes[i].type \in {"decision", "execution"} =>
          o \in DOMAIN nodes /\ o < i /\ nodes[o].type = "proposal"

\* The node of an intent, or of a decision about it: from each the way leads back
\* to the intent.
StandsFor(j, p) ==
  /\ j \in DOMAIN nodes
  /\ j # p => nodes[j].type = "decision" /\ nodes[j].of = p

\* Where the ids of objects lead, in memory and after the file was read.
EventNamed(i) == <<"event", i>> \in DOMAIN ids /\ ids[<<"event", i>>] = i

ProposalNamed(i) ==
  LET key == <<"proposal", i>>
  IN /\ key \in DOMAIN ids
     /\ ids[key] \in DOMAIN nodes
     /\ ~CutOff(i) => StandsFor(ids[key], i)

\* The latest decision about an intent is found by its own id, or, when it was
\* read from the file, by the intent's.
DecisionNamed(i) ==
  LET p == nodes[i].of
  IN ~Superseded(i) =>
       /\ i > loaded => /\ <<"decision", p>> \in DOMAIN ids
                        /\ ids[<<"decision", p>>] = i
       /\ i <= loaded /\ ~CutOff(p) => ids[<<"proposal", p>>] = i

\* A proposal is linked to its event, and no less strict than it.
FromItsEvent(i) ==
  LET origin == nodes[i].source
  IN origin # 0 =>
       /\ origin \in DOMAIN nodes
       /\ <<origin, i>> \in edges
       /\ Order(nodes[i].level) >= Order(nodes[origin].level)
       /\ nodes[origin].taint => nodes[i].taint

\* A decision is linked to its proposal or to an earlier decision about it, and
\* was made at its level and taint.
OnItsProposal(i) ==
  LET p == nodes[i].of
  IN /\ nodes[i].level = nodes[p].level
     /\ nodes[i].taint = nodes[p].taint
     /\ ~CutOff(p) => \E j : StandsFor(j, p) /\ <<j, i>> \in edges

Placed(i) ==
  /\ Owned(i)
  /\ nodes[i].type = "event" => EventNamed(i)
  /\ nodes[i].type = "proposal" => ProposalNamed(i) /\ FromItsEvent(i)
  /\ nodes[i].type = "decision" => DecisionNamed(i) /\ OnItsProposal(i)

Linking ==
  /\ nodes \in Seq(NodeType)
  /\ loaded \in Nat /\ loaded <= Len(nodes)
  /\ Forward
  /\ \A i \in DOMAIN nodes : Placed(i)

\* A chain holds its node and the chains of all that lead to it.
LEMMA ChainsGoBack ==
  ASSUME nodes \in Seq(NodeType), Forward, NEW i \in DOMAIN nodes
  PROVE  /\ i \in Chain(i)
         /\ \A k : <<k, i>> \in edges => Chain(k) \subseteq Chain(i)
<1> DEFINE n == Len(nodes)
           T == SUBSET (1 .. n)
           Step(t, j) == IF Feeding(j) = {} THEN {j} ELSE {j} \cup UNION {t[k] : k \in Feeding(j)}
           F == [j \in 1 .. n |-> [t \in [1 .. n -> T] |-> Step(t, j)]]
           Defines(t) == t = [j \in DOMAIN nodes |-> Step(t, j)]
           back == CHOOSE t : Defines(t)
<1>1. n \in Nat /\ DOMAIN nodes = 1 .. n
  BY LenProperties
<1>2. ASSUME NEW j \in 1 .. n PROVE Feeding(j) \subseteq 1 .. j - 1
  <2> SUFFICES ASSUME NEW e \in edges, e[2] = j PROVE e[1] \in 1 .. j - 1
    BY DEF Feeding
  <2>1. PICK k \in DOMAIN nodes, i0 \in DOMAIN nodes : e = <<k, i0>> /\ k < i0
    BY DEF Forward
  <2>2. e[1] = k /\ i0 = j
    BY <2>1
  <2> QED
    BY <1>1, <2>1, <2>2
<1>3. LooksBack(n, T, F)
  <2>1. F \in [1 .. n -> [[1 .. n -> T] -> T]]
    <3> SUFFICES ASSUME NEW j \in 1 .. n, NEW t \in [1 .. n -> T]
                 PROVE  Step(t, j) \in T
      OBVIOUS
    <3>1. Feeding(j) \subseteq 1 .. n
      BY <1>1, <1>2
    <3>2. \A k \in Feeding(j) : t[k] \subseteq 1 .. n
      BY <3>1
    <3> QED
      BY <3>2
  <2>2. ASSUME NEW j \in 1 .. n, NEW s \in [1 .. n -> T], NEW t \in [1 .. n -> T],
               \A k \in 1 .. j - 1 : s[k] = t[k]
        PROVE  F[j][s] = F[j][t]
    <3>1. \A k \in Feeding(j) : s[k] = t[k]
      BY <1>2, <2>2
    <3>2. {s[k] : k \in Feeding(j)} = {t[k] : k \in Feeding(j)}
      BY <3>1
    <3>3. Step(s, j) = Step(t, j)
      BY <3>2
    <3>4. F[j][s] = Step(s, j) /\ F[j][t] = Step(t, j)
      OBVIOUS
    <3> QED
      BY <3>3, <3>4
  <2> HIDE DEF F, T
  <2> QED
    BY <2>1, <2>2 DEF LooksBack
<1>4. PICK t : IsTable(t, n, T, F)
  <2>1. {} \in T
    OBVIOUS
  <2> HIDE DEF F, T, n
  <2> QED
    BY <1>1, <1>3, <2>1, CourseOfValues
<1>5. Defines(t)
  BY <1>1, <1>4 DEF IsTable
<1>6. Defines(back)
  <2> HIDE DEF Defines
  <2> QED
    BY <1>5
<1>7. \A k : Chain(k) = back[k]
  BY DEF Chain, Feeding
<1> HIDE DEF back
<1>8. back[i] = Step(back, i)
  BY <1>6
<1>9. i \in back[i] /\ \A k \in Feeding(i) : back[k] \subseteq back[i]
  BY <1>8
<1>10. \A k : <<k, i>> \in edges => k \in Feeding(i)
  BY DEF Feeding
<1> QED
  BY <1>7, <1>9, <1>10

\* From every decision about an intent that is not cut off, one reaches the
\* intent: over its edge, or over the decision before it that the edge leads to.
LEMMA DecisionsReachIntents ==
  ASSUME Linking, NEW p, ~CutOff(p),
         NEW i \in DOMAIN nodes, nodes[i].type = "decision", nodes[i].of = p
  PROVE  Chain(p) \subseteq Chain(i)
<1> DEFINE B == {j \in DOMAIN nodes : /\ nodes[j].type = "decision" /\ nodes[j].of = p
                                      /\ ~(Chain(p) \subseteq Chain(j))}
<1> SUFFICES ASSUME B # {} PROVE FALSE
  OBVIOUS
<1>1. Len(nodes) \in Nat /\ DOMAIN nodes = 1 .. Len(nodes)
  BY LenProperties DEF Linking
<1>2. PICK m \in B : \A k \in B : m <= k
  <2>1. B \in SUBSET Nat
    BY <1>1
  <2> HIDE DEF B
  <2> QED
    BY <2>1, Least
<1>3. m \in DOMAIN nodes /\ nodes[m].type = "decision" /\ nodes[m].of = p
  OBVIOUS
<1>4. PICK j : StandsFor(j, p) /\ <<j, m>> \in edges
  BY <1>3 DEF Linking, Placed, OnItsProposal
<1>5. j \in DOMAIN nodes /\ j < m
  BY <1>4 DEF Linking, Forward
<1>6. Chain(j) \subseteq Chain(m)
  BY <1>3, <1>4, ChainsGoBack DEF Linking
<1>7. Chain(p) \subseteq Chain(j)
  <2>1. CASE j = p
    BY <2>1
  <2>2. CASE j # p
    <3>1. nodes[j].type = "decision" /\ nodes[j].of = p
      BY <1>4, <2>2 DEF StandsFor
    <3>2. j \notin B
      BY <1>1, <1>2, <1>3, <1>5
    <3> QED
      BY <1>5, <3>1, <3>2
  <2> QED
    BY <2>1, <2>2
<1> QED
  BY <1>6, <1>7

LEMMA LinkingSuffices == Linking => DecisionsHaveOrigins
<1> SUFFICES ASSUME Linking, NEW i \in DOMAIN nodes, nodes[i].type = "decision"
             PROVE  LET p == nodes[i].of
                        origin == nodes[p].source
                    IN /\ ~Superseded(i) /\ ~CutOff(p) =>
                            {i, p} \cup ({origin} \ {0}) \subseteq Trace(AskedBy(i))
                       /\ origin # 0 => /\ Order(nodes[i].level) >= Order(nodes[origin].level)
                                        /\ nodes[origin].taint => nodes[i].taint
  BY DEF DecisionsHaveOrigins
<1> DEFINE p == nodes[i].of
           origin == nodes[p].source
<1>1. /\ p \in DOMAIN nodes /\ nodes[p].type = "proposal"
      /\ DecisionNamed(i) /\ OnItsProposal(i)
  BY DEF Linking, Placed, Owned
<1>2. FromItsEvent(p) /\ ProposalNamed(p)
  BY <1>1 DEF Linking, Placed
<1>3. i \in Nat /\ loaded \in Nat
  BY LenProperties DEF Linking
<1>4. ASSUME ~Superseded(i), ~CutOff(p)
      PROVE  {i, p} \cup ({origin} \ {0}) \subseteq Trace(AskedBy(i))
  <2>1. AskedBy(i) \in DOMAIN ids /\ ids[AskedBy(i)] = i
    <3>1. CASE i > loaded
      BY <1>1, <1>4, <3>1 DEF DecisionNamed, AskedBy
    <3>2. CASE i <= loaded
      <4>1. AskedBy(i) = <<"proposal", p>>
        BY <1>3, <3>2 DEF AskedBy
      <4> QED
        BY <1>1, <1>2, <1>4, <3>2, <4>1 DEF DecisionNamed, ProposalNamed
    <3> QED
      BY <1>3, <3>1, <3>2
  <2>2. Trace(AskedBy(i)) = Chain(i)
    BY <2>1 DEF Trace
  <2>3. i \in Chain(i) /\ p \in Chain(p)
    BY <1>1, ChainsGoBack DEF Linking
  <2>4. Chain(p) \subseteq Chain(i)
    BY <1>4, DecisionsReachIntents
  <2>5. ASSUME origin # 0 PROVE origin \in Chain(p)
    <3>1. origin \in DOMAIN nodes /\ <<origin, p>> \in edges
      BY <1>2, <2>5 DEF FromItsEvent
    <3>2. origin \in Chain(origin) /\ Chain(origin) \subseteq Chain(p)
      BY <1>1, <3>1, ChainsGoBack DEF Linking
    <3> QED
      BY <3>2
  <2> QED
    BY <2>2, <2>3, <2>4, <2>5
<1>5. ASSUME origin # 0
      PROVE  /\ Order(nodes[i].level) >= Order(nodes[origin].level)
             /\ nodes[origin].taint => nodes[i].taint
  BY <1>1, <1>2, <1>5 DEF FromItsEvent, OnItsProposal
<1> QED
  BY <1>4, <1>5

\* A new node disturbs none of the old ones, whatever is linked to it: what was
\* cut off stays so and nothing else is, and only a newer decision about its
\* intent takes a decision's id.
LEMMA NewNode ==
  ASSUME Linking, NEW node \in NodeType, nodes' = Append(nodes, node),
         loaded' = loaded, edges \subseteq edges',
         \A e \in edges' \ edges : \E k \in DOMAIN nodes : e = <<k, NewId>>,
         ids' = IF node.type = "execution" THEN ids ELSE WithId(<<node.type, node.of>>),
         node.type \in {"event", "proposal"} => node.of = NewId,
         node.type \in {"decision", "execution"} =>
           node.of \in DOMAIN nodes /\ nodes[node.of].type = "proposal",
         node.type = "proposal" /\ node.source # 0 =>
           /\ node.source \in DOMAIN nodes
           /\ <<node.source, NewId>> \in edges'
           /\ Order(node.level) >= Order(nodes[node.source].level)
           /\ nodes[node.source].taint => node.taint,
         node.type = "decision" =>
           /\ <<ids[<<"proposal", node.of>>], NewId>> \in edges'
           /\ node.level = nodes[node.of].level /\ node.taint = nodes[node.of].taint
  PROVE  Linking'
<1>1. /\ nodes' \in Seq(NodeType)
      /\ Len(nodes) \in Nat /\ DOMAIN nodes = 1 .. Len(nodes)
      /\ Len(nodes') = Len(nodes) + 1
      /\ DOMAIN nodes' = DOMAIN nodes \cup {NewId}
      /\ NewId = Len(nodes) + 1
      /\ NewId \notin DOMAIN nodes
      /\ nodes'[NewId] = node
      /\ \A i \in DOMAIN nodes : nodes'[i] = nodes[i]
  BY AppendProperties, LenProperties DEF Linking, NewId
<1>2. loaded \in Nat /\ loaded <= Len(nodes) /\ loaded < NewId
  BY <1>1 DEF Linking
<1>3. Forward'
  <2> SUFFICES ASSUME NEW e \in edges'
               PROVE  \E k, i \in DOMAIN nodes' : e = <<k, i>> /\ k < i
    BY DEF Forward
  <2>1. CASE e \in edges
    BY <1>1, <2>1 DEF Linking, Forward
  <2>2. CASE e \notin edges
    <3>1. PICK k \in DOMAIN nodes : e = <<k, NewId>>
      BY <2>2
    <3>2. k \in DOMAIN nodes' /\ NewId \in DOMAIN nodes' /\ k < NewId
      BY <1>1
    <3> QED
      BY <3>1, <3>2
  <2> QED
    BY <2>1, <2>2
<1>4. \A p : CutOff(p)' <=> CutOff(p)
  <2> SUFFICES ASSUME NEW p PROVE CutOff(p)' <=> CutOff(p)
    OBVIOUS
  <2>1. CutOff(p) => CutOff(p)'
    BY <1>1 DEF CutOff
  <2>2. CutOff(p)' => CutOff(p)
    <3>1. ASSUME NEW k \in DOMAIN nodes', k <= loaded, nodes'[k].type = "execution",
                 nodes'[k].of = p
          PROVE  CutOff(p)
      <4>1. k \in DOMAIN nodes
        BY <1>1, <1>2, <3>1
      <4> QED
        BY <1>1, <3>1, <4>1 DEF CutOff
    <3> QED
      BY <3>1 DEF CutOff
  <2> QED
    BY <2>1, <2>2
<1>5. \A j, p : StandsFor(j, p) => StandsFor(j, p)'
  BY <1>1 DEF StandsFor
<1>6. \A k \in DOMAIN ids : k # <<node.type, node.of>> => k \in DOMAIN ids' /\ ids'[k] = ids[k]
  BY DEF WithId
<1>7. node.type # "execution" => /\ <<node.type, node.of>> \in DOMAIN ids'
                                 /\ ids'[<<node.type, node.of>>] = NewId
  BY DEF WithId
<1>8. ASSUME NEW i \in DOMAIN nodes PROVE Placed(i)'
  <2>0. Placed(i) /\ nodes'[i] = nodes[i] /\ i \in Nat /\ i # NewId
    BY <1>1 DEF Linking
  <2>1. Owned(i)'
    BY <1>1, <2>0 DEF Placed, Owned
  <2>2. ASSUME nodes[i].type = "event" PROVE EventNamed(i)'
    <3>1. <<"event", i>> # <<node.type, node.of>>
      BY <2>0
    <3> QED
      BY <1>6, <2>0, <2>2, <3>1 DEF Placed, EventNamed
  <2>3. ASSUME nodes[i].type = "proposal" PROVE ProposalNamed(i)' /\ FromItsEvent(i)'
    <3>1. <<"proposal", i>> # <<node.type, node.of>>
      BY <2>0
    <3>2. ProposalNamed(i) /\ FromItsEvent(i)
      BY <2>0, <2>3 DEF Placed
    <3>3. ProposalNamed(i)'
      BY <1>1, <1>4, <1>5, <1>6, <3>1, <3>2 DEF ProposalNamed
    <3>4. FromItsEvent(i)'
      BY <1>1, <2>0, <3>2 DEF FromItsEvent
    <3> QED
      BY <3>3, <3>4
  <2>4. ASSUME nodes[i].type = "decision" PROVE DecisionNamed(i)' /\ OnItsProposal(i)'
    <3> DEFINE p == nodes[i].of
    <3>1. DecisionNamed(i) /\ OnItsProposal(i) /\ p \in DOMAIN nodes /\ nodes[p].type = "proposal"
      BY <2>0, <2>4 DEF Placed, Owned
    <3>2. nodes'[p] = nodes[p] /\ nodes'[i].of = p /\ p # NewId
      BY <1>1, <2>0, <3>1
    <3>3. OnItsProposal(i)'
      BY <1>4, <1>5, <2>0, <3>1, <3>2 DEF OnItsProposal
    <3>4. ASSUME ~Superseded(i)'
          PROVE  /\ i > loaded => /\ <<"decision", p>> \in DOMAIN ids'
                                  /\ ids'[<<"decision", p>>] = i
                 /\ i <= loaded /\ ~CutOff(p) => ids'[<<"proposal", p>>] = i
      <4>1. ~Superseded(i)
        BY <1>1, <2>0, <3>4 DEF Superseded
      <4>2. ~(node.type = "decision" /\ node.of = p)
        <5>1. NewId > i /\ NewId \in DOMAIN nodes'
          BY <1>1, <2>0
        <5> QED
          BY <1>1, <2>0, <3>4, <5>1 DEF Superseded
      <4>3. <<"decision", p>> # <<node.type, node.of>> /\ <<"proposal", p>> # <<node.type, node.of>>
        BY <3>2, <4>2
      <4>4. <<"proposal", p>> \in DOMAIN ids
        BY <3>1 DEF Linking, Placed, ProposalNamed
      <4> QED
        BY <1>6, <3>1, <4>1, <4>3, <4>4 DEF DecisionNamed
    <3>5. DecisionNamed(i)'
      BY <1>4, <3>2, <3>4 DEF DecisionNamed
    <3> QED
      BY <3>3, <3>5
  <2> QED
    BY <2>0, <2>1, <2>2, <2>3, <2>4 DEF Placed
<1>9. ASSUME NEW i, i = NewId PROVE Placed(i)'
  <2>0. node.type \in {"event", "proposal", "decision", "execution"}
    BY DEF NodeType
  <2>1. Owned(i)'
    BY <1>1, <1>9 DEF Owned
  <2>2. ASSUME node.type = "event" PROVE EventNamed(i)'
    BY <1>1, <1>7, <1>9, <2>2 DEF EventNamed
  <2>3. ASSUME node.type = "proposal" PROVE ProposalNamed(i)' /\ FromItsEvent(i)'
    <3>1. <<"proposal", i>> \in DOMAIN ids' /\ ids'[<<"proposal", i>>] = i
      BY <1>7, <1>9, <2>3
    <3>2. ProposalNamed(i)'
      BY <1>1, <1>9, <3>1 DEF ProposalNamed, StandsFor
    <3>3. FromItsEvent(i)'
      BY <1>1, <1>9, <2>3 DEF FromItsEvent
    <3> QED
      BY <3>2, <3>3
  <2>4. ASSUME node.type = "decision" PROVE DecisionNamed(i)' /\ OnItsProposal(i)'
    <3> DEFINE p == node.of
    <3>0. PICK j : j = ids[<<"proposal", p>>]
      OBVIOUS
    <3>1. p \in DOMAIN nodes /\ nodes'[p] = nodes[p] /\ ProposalNamed(p)
      BY <1>1, <2>4 DEF Linking, Placed
    <3>2. DecisionNamed(i)'
      <4>1. <<"decision", p>> \in DOMAIN ids' /\ ids'[<<"decision", p>>] = i
        BY <1>7, <1>9, <2>4
      <4>2. nodes'[i].of = p /\ loaded' = loaded /\ i > loaded /\ ~(i <= loaded)
        BY <1>1, <1>2, <1>9
      <4> QED
        BY <4>1, <4>2 DEF DecisionNamed
    <3>3. ~CutOff(p)' => StandsFor(j, p)' /\ <<j, i>> \in edges'
      BY <1>4, <1>5, <1>9, <2>4, <3>0, <3>1 DEF ProposalNamed
    <3>4. OnItsProposal(i)'
      BY <1>1, <1>9, <2>4, <3>1, <3>3 DEF OnItsProposal
    <3> QED
      BY <3>2, <3>4
  <2> QED
    BY <1>1, <1>9, <2>0, <2>1, <2>2, <2>3, <2>4 DEF Placed
<1> QED
  BY <1>1, <1>2, <1>3, <1>8, <1>9 DEF Linking

LEMMA LinkingInit == PipelineInit => Linking
  BY EmptySeq DEF PipelineInit, Linking, Forward

\* What every step knows of the nodes there are.
LEMMA LinkingTypes ==
  ASSUME Linking
  PROVE  /\ nodes \in Seq(NodeType) /\ NewId \in Nat /\ NewId \notin DOMAIN nodes
         /\ \A i \in DOMAIN nodes : i \in Nat /\ nodes[i] \in NodeType
  BY LenProperties, ElementOfSeq DEF Linking, NewId

\* Of the nodes about an object, the last.
LEMMA LastIsLast ==
  ASSUME Linking, NEW i \in DOMAIN nodes, nodes[i].type \in {"event", "proposal"}
  PROVE  LET last == LastOf(i)
         IN /\ last \in DOMAIN nodes /\ nodes[last].of = i
            /\ \A j \in DOMAIN nodes : nodes[j].of = i => j <= last
<1> DEFINE B == {j \in DOMAIN nodes : nodes[j].of = i}
<1>1. Len(nodes) \in Nat /\ DOMAIN nodes = 1 .. Len(nodes)
  BY LenProperties DEF Linking
<1>2. i \in B
  BY DEF Linking, Placed, Owned
<1>3. \E m \in B : \A k \in B : k <= m
  <2>1. B \in SUBSET (0 .. Len(nodes))
    BY <1>1
  <2> HIDE DEF B
  <2> QED
    BY <1>1, <1>2, <2>1, Greatest
<1>4. \E m \in DOMAIN nodes : /\ nodes[m].of = i
                              /\ \A j \in DOMAIN nodes : nodes[j].of = i => j <= m
  BY <1>3
<1> QED
  BY <1>4 DEF LastOf

\* What the ids are made of when the file is read.
FileIds == {<<IF nodes[i].type = "event" THEN "event" ELSE "proposal", nodes[i].of>> : i \in DOMAIN nodes}

\* A graph that is read from its file: every event and proposal is in it, and
\* the last decision is the last node of its intent unless that was executed.
LEMMA LinkingLoads == Linking /\ SaveAndLoad => Linking'
<1> SUFFICES ASSUME Linking, SaveAndLoad PROVE Linking'
  OBVIOUS
<1>1. /\ nodes \in Seq(NodeType) /\ Len(nodes) \in Nat /\ DOMAIN nodes = 1 .. Len(nodes)
      /\ \A i \in DOMAIN nodes : Placed(i) /\ nodes[i] \in NodeType
  BY LinkingTypes, LenProperties DEF Linking
<1>2. /\ nodes' = nodes /\ edges' = edges /\ loaded' = Len(nodes)
      /\ ids' = [k \in FileIds |-> LastOf(k[2])]
  BY DEF SaveAndLoad, FileIds
<1>3. Forward'
  BY <1>2 DEF Linking, Forward
<1>4. \A p : CutOff(p) => CutOff(p)'
  BY <1>1, <1>2 DEF CutOff, Linking
<1>5. \A p, k : ~CutOff(p)' /\ k \in DOMAIN nodes /\ nodes[k].of = p => nodes[k].type # "execution"
  BY <1>1, <1>2 DEF CutOff
<1>6. ASSUME NEW i \in DOMAIN nodes, nodes[i].type = "proposal"
      PROVE  /\ <<"proposal", i>> \in DOMAIN ids' /\ ids'[<<"proposal", i>>] = LastOf(i)
  <2>1. <<"proposal", i>> \in FileIds
    BY <1>1, <1>6 DEF FileIds, Placed, Owned
  <2> QED
    BY <1>2, <2>1
<1>7. ASSUME NEW i \in DOMAIN nodes PROVE Placed(i)'
  <2>0. Placed(i) /\ i \in Nat
    BY <1>1
  <2>1. Owned(i)'
    BY <1>2, <2>0 DEF Placed, Owned
  <2>2. ASSUME nodes[i].type = "event" PROVE EventNamed(i)'
    <3>1. <<"event", i>> \in FileIds
      BY <2>0, <2>2 DEF FileIds, Placed, Owned
    <3> DEFINE last == LastOf(i)
    <3>2. last \in DOMAIN nodes /\ nodes[last].of = i
      BY <2>2, LastIsLast
    <3> HIDE DEF last
    <3>3. last = i
      BY <1>1, <2>2, <3>2 DEF Placed, Owned, NodeType
    <3> QED
      BY <1>2, <3>1, <3>3 DEF EventNamed, last
  <2>3. ASSUME nodes[i].type = "proposal" PROVE ProposalNamed(i)' /\ FromItsEvent(i)'
    <3>0. PICK last : last = LastOf(i)
      OBVIOUS
    <3>1. last \in DOMAIN nodes /\ nodes[last].of = i
      BY <2>3, <3>0, LastIsLast
    <3>2. <<"proposal", i>> \in DOMAIN ids' /\ ids'[<<"proposal", i>>] = last
      BY <1>6, <2>3, <3>0
    <3>3. ~CutOff(i)' => StandsFor(last, i)'
      <4>1. ~CutOff(i)' => nodes[last].type # "execution"
        BY <1>5, <3>1
      <4>2. nodes[last].type \in {"event", "proposal"} => last = i
        BY <1>1, <3>1 DEF Placed, Owned
      <4>3. nodes[last].type \in {"event", "proposal", "decision", "execution"}
        BY <1>1, <3>1 DEF NodeType
      <4>4. ~CutOff(i)' => last = i \/ nodes[last].type = "decision"
        BY <4>1, <4>2, <4>3
      <4> QED
        BY <1>2, <3>1, <4>4 DEF StandsFor
    <3>4. ProposalNamed(i)'
      BY <1>2, <3>1, <3>2, <3>3 DEF ProposalNamed
    <3>5. FromItsEvent(i)'
      BY <1>2, <2>0, <2>3 DEF Placed, FromItsEvent
    <3> QED
      BY <3>4, <3>5
  <2>4. ASSUME nodes[i].type = "decision" PROVE DecisionNamed(i)' /\ OnItsProposal(i)'
    <3>0. PICK p, last : p = nodes[i].of /\ last = LastOf(p)
      OBVIOUS
    <3>1. p \in DOMAIN nodes /\ p < i /\ nodes[p].type = "proposal" /\ OnItsProposal(i)
      BY <2>0, <2>4, <3>0 DEF Placed, Owned
    <3>2. OnItsProposal(i)'
      BY <1>2, <1>4, <3>0, <3>1 DEF OnItsProposal, StandsFor
    <3>3. /\ last \in DOMAIN nodes /\ nodes[last].of = p
          /\ \A j \in DOMAIN nodes : nodes[j].of = p => j <= last
      BY <3>0, <3>1, LastIsLast
    <3>4. ids'[<<"proposal", p>>] = last
      BY <1>6, <3>0, <3>1
    <3>5. ASSUME ~Superseded(i)', ~CutOff(p)' PROVE last = i
      <4>1. i <= last
        BY <3>0, <3>3
      <4>2. nodes[last].type # "execution"
        BY <1>5, <3>3, <3>5
      <4>3. nodes[last].type \in {"event", "proposal"} => last = p
        BY <1>1, <3>3 DEF Placed, Owned
      <4>4. nodes[last].type = "decision"
        BY <1>1, <2>0, <3>1, <3>3, <4>1, <4>2, <4>3 DEF NodeType
      <4>5. ~(last > i)
        BY <1>2, <3>0, <3>3, <3>5, <4>4 DEF Superseded
      <4> QED
        BY <1>1, <2>0, <3>3, <4>1, <4>5
    <3>6. ~(i > loaded')
      BY <1>1, <1>2
    <3>7. DecisionNamed(i)'
      BY <1>2, <3>0, <3>4, <3>5, <3>6 DEF DecisionNamed
    <3> QED
      BY <3>2, <3>7
  <2> QED
    BY <1>2, <2>0, <2>1, <2>2, <2>3, <2>4 DEF Placed
<1> QED
  BY <1>1, <1>2, <1>3, <1>7 DEF Linking

LEMMA LinkingNext == Linking /\ [PipelineNext]_pipelineVars => Linking'
<1> SUFFICES ASSUME Linking, [PipelineNext]_pipelineVars PROVE Linking'
  OBVIOUS
<1>0. /\ nodes \in Seq(NodeType) /\ NewId \in Nat /\ NewId \notin DOMAIN nodes
      /\ \A i \in DOMAIN nodes : i \in Nat /\ nodes[i] \in NodeType
  BY LinkingTypes
<1>1. ASSUME UNCHANGED <<nodes, edges, ids, loaded>> PROVE Linking'
  <2>1. ASSUME NEW i \in DOMAIN nodes PROVE Placed(i)'
    <3>1. Placed(i)
      BY DEF Linking
    <3>2. (CutOff(nodes[i].of)' <=> CutOff(nodes[i].of)) /\ (CutOff(i)' <=> CutOff(i))
      BY <1>1 DEF CutOff
    <3>3. Superseded(i)' <=> Superseded(i)
      BY <1>1 DEF Superseded
    <3>4. \A j, p : StandsFor(j, p)' <=> StandsFor(j, p)
      BY <1>1 DEF StandsFor
    <3> QED
      BY <1>1, <3>1, <3>2, <3>3, <3>4
         DEF Placed, Owned, EventNamed, ProposalNamed, DecisionNamed, FromItsEvent, OnItsProposal
  <2> QED
    BY <1>1, <2>1 DEF Linking, Forward
<1>2. CASE (\E m \in Buildable, files \in {{"actions", "matrix"}, Artifacts} : Build(m, files))
           \/ NewCompiler \/ UNCHANGED pipelineVars
  BY <1>1, <1>2 DEF Build, NewCompiler, pipelineVars
<1>3. CASE SaveAndLoad
  BY <1>3, LinkingLoads
<1>4. CASE LoadEngine
  <2>1. nodes' = <<>> /\ edges' = {} /\ loaded' = 0
    BY <1>4 DEF LoadEngine
  <2> QED
    BY <2>1, EmptySeq DEF Linking, Forward
<1>5. ASSUME NEW channel \in Channels, NEW level \in Level, Observe(channel, level)
      PROVE  Linking'
  <2> DEFINE node == Node("event", NewId, None, None, level # "TRUSTED", level, None)
  <2>1. node \in NodeType /\ node.type = "event" /\ node.of = NewId
    BY <1>0 DEF Node, NodeType
  <2>2. /\ nodes' = Append(nodes, node) /\ ids' = WithId(<<"event", NewId>>)
        /\ edges' = edges /\ loaded' = loaded
    BY <1>5 DEF Observe
  <2> HIDE DEF node
  <2> QED
    BY <2>1, <2>2, NewNode
<1>6. ASSUME NEW origin \in 0 .. MaxNodes, NEW tool \in Actions, NEW elevated \in BOOLEAN,
             Propose(origin, tool, elevated)
      PROVE  Linking'
  <2> DEFINE own == Inherited(origin, elevated)
             node == Node("proposal", NewId, origin, tool, own.taint, own.level, None)
  <2>1. /\ origin = 0 \/ (origin \in DOMAIN nodes /\ nodes[origin].type = "event")
        /\ nodes' = Append(nodes, node) /\ ids' = WithId(<<"proposal", NewId>>)
        /\ edges' = edges \cup (IF origin = 0 THEN {} ELSE Linked(<<"event", origin>>, NewId))
        /\ loaded' = loaded
    BY <1>6 DEF Propose
  <2>2. /\ own.taint \in BOOLEAN /\ own.level \in Level
        /\ origin # 0 => /\ Order(own.level) >= Order(nodes[origin].level)
                         /\ nodes[origin].taint => own.taint
    BY <1>0, <2>1, InheritedFacts
  <2>3. /\ node \in NodeType /\ node.type = "proposal" /\ node.source = origin
        /\ node.of = NewId /\ node.level = own.level /\ node.taint = own.taint
    BY <1>0, <2>2 DEF Node, NodeType
  <2> HIDE DEF node, own
  <2>4. edges' = edges \cup (IF origin = 0 THEN {} ELSE {<<origin, NewId>>})
    <3>1. origin # 0 => Linked(<<"event", origin>>, NewId) = {<<origin, NewId>>}
      BY <2>1 DEF Linked, Linking, Placed, EventNamed
    <3> QED
      BY <2>1, <3>1
  <2>5. edges \subseteq edges' /\ \A e \in edges' \ edges : \E k \in DOMAIN nodes : e = <<k, NewId>>
    BY <2>1, <2>4
  <2>6. origin # 0 => origin \in DOMAIN nodes /\ <<origin, NewId>> \in edges'
    BY <2>1, <2>4
  <2> QED
    BY <2>1, <2>2, <2>3, <2>5, <2>6, NewNode
<1>7. ASSUME NEW p \in 1 .. MaxNodes, Decide(p) PROVE Linking'
  <2> DEFINE intent == nodes[p]
             verdict == Evaluate(engine.tables, engine.used, intent.tool, intent.taint, intent.level)
             node == Node("decision", p, None, intent.tool, intent.taint, intent.level, verdict)
             stands == ids[<<"proposal", p>>]
  <2>1. /\ p \in DOMAIN nodes /\ intent.type = "proposal"
        /\ nodes' = Append(nodes, node) /\ ids' = WithId(<<"decision", p>>)
        /\ edges' = edges \cup Linked(<<"proposal", p>>, NewId)
        /\ loaded' = loaded
    BY <1>7 DEF Decide, Proposed
  <2>2. /\ p \in Nat
        /\ intent.tool \in Actions \cup {None} /\ intent.taint \in BOOLEAN
        /\ intent.level \in Level
    BY <1>0, <2>1 DEF NodeType
  <2>3. verdict \in Verdicts
    BY EvaluateFacts
  <2> HIDE DEF intent, verdict
  <2>4. /\ node \in NodeType /\ node.type = "decision" /\ node.of = p
        /\ node.level = intent.level /\ node.taint = intent.taint
    BY <2>2, <2>3 DEF Node, NodeType
  <2> HIDE DEF node
  <2>5. stands \in DOMAIN nodes /\ edges' = edges \cup {<<stands, NewId>>}
    BY <2>1 DEF Linked, Linking, Placed, ProposalNamed, intent
  <2>6. /\ edges \subseteq edges' /\ <<stands, NewId>> \in edges'
        /\ \A e \in edges' \ edges : \E k \in DOMAIN nodes : e = <<k, NewId>>
    BY <2>5
  <2>7. nodes[node.of] = intent /\ stands = ids[<<"proposal", node.of>>]
    BY <2>4 DEF intent
  <2> HIDE DEF stands
  <2> QED
    BY <2>1, <2>4, <2>6, <2>7, NewNode
<1>8. ASSUME NEW p \in 1 .. MaxNodes, Execute(p) PROVE Linking'
  <2> DEFINE node == Node("execution", p, None, nodes[p].tool, FALSE, None, None)
  <2>1. /\ p \in DOMAIN nodes /\ nodes[p].type = "proposal" /\ nodes' = Append(nodes, node)
        /\ UNCHANGED <<edges, ids, loaded>>
    BY <1>8 DEF Execute, Proposed
  <2>2. p \in Nat /\ nodes[p].tool \in Actions \cup {None}
    BY <1>0, <2>1 DEF NodeType
  <2>3. node \in NodeType /\ node.type = "execution" /\ node.of = p
    BY <2>2 DEF Node, NodeType
  <2> HIDE DEF node
  <2> QED
    BY <2>1, <2>3, NewNode
<1> QED
  BY <1>2, <1>3, <1>4, <1>5, <1>6, <1>7, <1>8 DEF PipelineNext

\* Any manifests, any events, proposals, decisions and executions in any order,
\* and the graph read from its file and written on as often as one likes: asked
\* for the last decision about an intent, trace() leads over the intent to its
\* input, unless the intent was executed before its graph was read; and every
\* decision was at least as strict as its input.
THEOREM DecisionsAreTraceable == BoundarySpec => []DecisionsHaveOrigins
  BY LinkingInit, LinkingNext, LinkingSuffices, PTL DEF BoundarySpec

-----------------------------------------------------------------------------
(***************************************************************************)
(* Workflow manifests.                                                     *)
(***************************************************************************)

\* A compiled manifest is the profile of the trace behind it.
Compiled ==
  /\ trace \in Seq(Calls)
  /\ source # NoTrace => source \in Seq(Calls) /\ manifest = ProfileTrace(source)

\* A capability is of its tool, and restricts it as its name says.
LEMMA ProfiledFacts ==
  ASSUME NEW counted, NEW tool \in WorkflowTools
  PROVE  LET cap == Profiled(counted, tool)
         IN  /\ cap.tool = tool
             /\ tool \in FileTools => cap.constraints = [paths |-> ValuesOf(counted, tool, Paths)]
             /\ tool \in WebTools => cap.constraints = [domains |-> ValuesOf(counted, tool, Domains)]
             /\ tool \in PlainTools => cap.constraints = Unrestricted
<1>1. CASE tool \in FileTools
  <2>1. tool \notin WebTools /\ tool \notin PlainTools
    BY <1>1, WorkflowToolsAssumption
  <2> QED
    BY <1>1, <2>1 DEF Profiled, Capability
<1>2. CASE tool \in WebTools
  <2>1. tool \notin FileTools /\ tool \notin PlainTools
    BY <1>2, WorkflowToolsAssumption
  <2> QED
    BY <1>2, <2>1 DEF Profiled, Capability
<1>3. CASE tool \in PlainTools
  <2>1. tool \notin FileTools /\ tool \notin WebTools
    BY <1>3, WorkflowToolsAssumption
  <2> QED
    BY <1>3, <2>1 DEF Profiled, Capability
<1> QED
  BY <1>1, <1>2, <1>3 DEF WorkflowTools

\* The capabilities of a trace are those of the tools of its safe calls.
LEMMA ProfileFacts ==
  ASSUME NEW calls \in Seq(Calls)
  PROVE  /\ \E k \in Nat : DOMAIN ProfileTrace(calls) = 1 .. k
         /\ \A c \in SafeCalls(calls) :
              \E n \in DOMAIN ProfileTrace(calls) : ProfileTrace(calls)[n].tool = c.tool
         /\ \A n \in DOMAIN ProfileTrace(calls) : \E c \in SafeCalls(calls) :
              ProfileTrace(calls)[n] = Profiled(SafeCalls(calls), c.tool)
<1> DEFINE positions == {i \in DOMAIN calls : calls[i].safe}
           firsts == {i \in positions :
                        \A j \in positions : j < i => calls[j].tool # calls[i].tool}
           counted == {calls[i] : i \in positions}
           order == InOrder(firsts)
<1>1. DOMAIN calls = 1 .. Len(calls) /\ Len(calls) \in Nat
  BY LenProperties
<1>2. counted = SafeCalls(calls)
  BY DEF SafeCalls, Range
<1>3. ProfileTrace(calls) = [n \in DOMAIN order |-> Profiled(counted, calls[order[n]].tool)]
  BY DEF ProfileTrace, Profile
<1>4. /\ \A n \in DOMAIN order : order[n] \in firsts
      /\ \A i \in firsts : \E n \in DOMAIN order : order[n] = i
  <2>1. firsts \in SUBSET (1 .. Len(calls))
    BY <1>1
  <2> HIDE DEF firsts
  <2> QED
    BY <1>1, <2>1, OrderKeeps
<1>5. ASSUME NEW i \in positions
      PROVE  \E m \in firsts : calls[m].tool = calls[i].tool
  <2> DEFINE B == {j \in positions : calls[j].tool = calls[i].tool}
  <2>1. B \in SUBSET Nat /\ B # {}
    BY <1>1
  <2>2. PICK m \in B : \A k \in B : m <= k
    <3> HIDE DEF B
    <3> QED
      BY <2>1, Least
  <2>3. ASSUME NEW j \in positions, j < m PROVE calls[j].tool # calls[m].tool
    <3>1. j \in Nat /\ m \in Nat /\ ~(m <= j)
      BY <1>1, <2>3
    <3>2. j \notin B
      BY <2>2, <3>1
    <3> QED
      BY <3>2
  <2> QED
    BY <2>3
<1>6. ASSUME NEW i \in positions PROVE calls[i].tool \in WorkflowTools
  <2>1. calls[i] \in Calls
    BY ElementOfSeq
  <2> QED
    BY <2>1 DEF Calls, Call
<1>9. \E k \in Nat : DOMAIN ProfileTrace(calls) = 1 .. k
  <2>1. IsFiniteSet(1 .. Len(calls)) /\ firsts \in SUBSET (1 .. Len(calls))
    BY <1>1, FS_Interval
  <2>2. Cardinality(firsts) \in Nat
    <3> HIDE DEF firsts
    <3>1. IsFiniteSet(firsts)
      BY <2>1, FS_Subset
    <3> QED
      BY <3>1, FS_CardinalityType
  <2>3. DOMAIN ProfileTrace(calls) = 1 .. Cardinality(firsts)
    BY <1>3 DEF InOrder
  <2> QED
    BY <2>2, <2>3
<1> HIDE DEF firsts, order
<1>7. ASSUME NEW c \in SafeCalls(calls)
      PROVE  \E n \in DOMAIN ProfileTrace(calls) : ProfileTrace(calls)[n].tool = c.tool
  <2>1. PICK i \in positions : c = calls[i]
    BY <1>2
  <2>2. PICK m \in firsts : calls[m].tool = c.tool
    BY <1>5, <2>1
  <2>3. PICK n \in DOMAIN order : order[n] = m
    BY <1>4
  <2>4. Profiled(counted, c.tool).tool = c.tool
    BY <1>6, <2>1, ProfiledFacts
  <2>5. n \in DOMAIN ProfileTrace(calls) /\ ProfileTrace(calls)[n] = Profiled(counted, c.tool)
    BY <1>3, <2>2, <2>3
  <2> QED
    BY <2>4, <2>5
<1>8. ASSUME NEW n \in DOMAIN ProfileTrace(calls)
      PROVE  \E c \in SafeCalls(calls) :
               ProfileTrace(calls)[n] = Profiled(SafeCalls(calls), c.tool)
  <2>1. n \in DOMAIN order /\ order[n] \in positions
    BY <1>3, <1>4 DEF firsts
  <2>2. calls[order[n]] \in counted
    BY <2>1
  <2>3. ProfileTrace(calls)[n] = Profiled(counted, calls[order[n]].tool)
    BY <1>3, <2>1
  <2> QED
    BY <1>2, <2>2, <2>3
<1> QED
  BY <1>7, <1>8, <1>9

LEMMA CompiledInit == WorkflowInit => Compiled
  BY EmptySeq DEF WorkflowInit, Compiled

LEMMA CompiledNext == Compiled /\ [WorkflowNext]_workflowVars => Compiled'
<1> SUFFICES ASSUME Compiled, [WorkflowNext]_workflowVars PROVE Compiled'
  OBVIOUS
<1>1. ASSUME NEW call \in Calls, Record(call) PROVE Compiled'
  BY <1>1, AppendProperties DEF Record, Compiled
<1>2. CASE InitManifest \/ (\E written \in HandWritten : WriteManifest(written))
  BY <1>2 DEF InitManifest, WriteManifest, Compiled
<1>3. CASE Compile
  BY <1>3 DEF Compile, Compiled
<1>4. CASE UNCHANGED workflowVars
  BY <1>4 DEF workflowVars, Compiled
<1> QED
  BY <1>1, <1>2, <1>3, <1>4 DEF WorkflowNext

\* Every manifest answers tainted input with "deny"; the rest is the profile's.
LEMMA CompiledSuffices == Compiled => SurfaceMatchesTrace
<1> SUFFICES ASSUME Compiled PROVE SurfaceMatchesTrace
  OBVIOUS
<1>1. \A names \in StepNames, param \in Params : Evaluated(names, param, TRUE) # "ALLOW"
  BY DEF Evaluated
<1> SUFFICES ASSUME source # NoTrace
             PROVE  /\ \A c \in {d \in SafeCalls(source) : \A x \in d.param \cap Paths : Fits(x, {x})} :
                         /\ RenderedCallPasses(c.tool, c.param)
                         /\ c.tool \in FileTools /\ c.param \subseteq Paths =>
                              Evaluated({c.tool}, c.param, FALSE) = "ALLOW"
                    /\ \A tool \in WorkflowTools, param \in Params :
                         RenderedCallPasses(tool, param) =>
                           \E c \in SafeCalls(source) : c.tool = tool /\
                             LET seen == UNION {d.param : d \in {d \in SafeCalls(source) : d.tool = tool}}
                             IN /\ tool \in FileTools => \A x \in param \cap Paths : Fits(x, seen)
                                /\ tool \in WebTools => param \cap Domains \subseteq seen
  BY <1>1 DEF SurfaceMatchesTrace
<1> DEFINE safe == SafeCalls(source)
           caps(tool) == {i \in DOMAIN manifest : manifest[i].tool = tool}
           cap(tool) == Profiled(safe, tool)
<1>2. source \in Seq(Calls) /\ manifest = ProfileTrace(source)
  BY DEF Compiled
<1>3. ASSUME NEW c \in safe PROVE c.tool \in WorkflowTools
  <2>1. c \in Calls
    BY <1>2, ElementOfSeq DEF SafeCalls, Range
  <2> QED
    BY <2>1 DEF Calls, Call
<1>4. ASSUME NEW tool, NEW i \in caps(tool) PROVE manifest[i] = cap(tool)
  <2>1. PICK c \in safe : manifest[i] = Profiled(safe, c.tool)
    BY <1>2, ProfileFacts
  <2>2. Profiled(safe, c.tool).tool = c.tool
    <3>1. c.tool \in WorkflowTools
      BY <1>3
    <3> HIDE DEF safe
    <3> QED
      BY <3>1, ProfiledFacts
  <2> QED
    BY <2>1, <2>2
<1>5. \A c \in safe : caps(c.tool) # {}
  BY <1>2, ProfileFacts
<1>6. ASSUME NEW tool, caps(tool) # {} PROVE \E c \in safe : c.tool = tool
  <2>1. PICK i \in caps(tool) : TRUE
    BY <1>6
  <2>2. PICK c \in safe : manifest[i] = Profiled(safe, c.tool)
    BY <1>2, ProfileFacts
  <2>3. Profiled(safe, c.tool).tool = c.tool
    <3>1. c.tool \in WorkflowTools
      BY <1>3
    <3> HIDE DEF safe
    <3> QED
      BY <3>1, ProfiledFacts
  <2>4. manifest[i].tool = tool
    OBVIOUS
  <2>5. c.tool = tool
    <3> HIDE DEF safe
    <3> QED
      BY <2>2, <2>3, <2>4
  <2> QED
    BY <2>5
<1>7. \A c \in safe : cap(c.tool).tool = c.tool
  BY <1>3, ProfiledFacts
<1>8. ASSUME NEW tool, caps(tool) # {}
      PROVE  /\ \A param : RenderedCallPasses(tool, param) <=> Allows(cap(tool), tool, param)
             /\ \A param : Evaluated({tool}, param, FALSE) =
                            IF Within(cap(tool), param) THEN "ALLOW" ELSE "DENY_POLICY"
  <2>1. PICK k \in Nat : DOMAIN manifest = 1 .. k
    BY <1>2, ProfileFacts
  <2>2. caps(tool) \in SUBSET (0 .. k)
    BY <2>1
  <2>3. \E m \in caps(tool) : \A j \in caps(tool) : m >= j
    <3>1. \E m \in caps(tool) : \A j \in caps(tool) : j <= m
      <4> HIDE DEF caps
      <4> QED
        BY <1>8, <2>2, Greatest
    <3> QED
      BY <2>2, <3>1
  <2>4. \E m \in caps(tool) : \A j \in caps(tool) : m <= j
    <3>1. caps(tool) \in SUBSET Nat
      BY <2>2
    <3> HIDE DEF caps
    <3> QED
      BY <1>8, <3>1, Least
  <2> DEFINE last == CHOOSE i \in caps(tool) : \A j \in caps(tool) : i >= j
             first == CHOOSE i \in caps(tool) : \A j \in caps(tool) : i <= j
  <2>5. last \in caps(tool) /\ first \in caps(tool)
    <3> HIDE DEF caps
    <3> QED
      BY <2>3, <2>4
  <2>6. manifest[last] = cap(tool) /\ manifest[first] = cap(tool)
    <3> HIDE DEF caps, last, first, cap
    <3> QED
      BY <1>4, <2>5
  <2>7. \A param : RenderedCallPasses(tool, param) <=> Allows(manifest[last], tool, param)
    BY <1>8 DEF RenderedCallPasses
  <2>8. \A param : Evaluated({tool}, param, FALSE) =
                   IF Within(manifest[first], param) THEN "ALLOW" ELSE "DENY_POLICY"
    BY <1>8 DEF Evaluated
  <2> HIDE DEF caps, last, first, cap
  <2> QED
    BY <2>6, <2>7, <2>8
<1> HIDE DEF caps, cap, safe
<1>9. ASSUME NEW c \in safe, \A x \in c.param \cap Paths : Fits(x, {x})
      PROVE  /\ RenderedCallPasses(c.tool, c.param)
             /\ c.tool \in FileTools /\ c.param \subseteq Paths =>
                  Evaluated({c.tool}, c.param, FALSE) = "ALLOW"
  <2> DEFINE allowed == cap(c.tool)
  <2>1. c.tool \in WorkflowTools /\ allowed.tool = c.tool /\ caps(c.tool) # {}
    BY <1>3, <1>5, <1>7
  <2>2. /\ c.tool \in FileTools => allowed.constraints = [paths |-> ValuesOf(safe, c.tool, Paths)]
        /\ c.tool \in WebTools => allowed.constraints = [domains |-> ValuesOf(safe, c.tool, Domains)]
        /\ c.tool \in PlainTools => allowed.constraints = Unrestricted
    BY <2>1, ProfiledFacts DEF cap
  <2>3. /\ c.param \cap Paths \subseteq ValuesOf(safe, c.tool, Paths)
        /\ c.param \cap Domains \subseteq ValuesOf(safe, c.tool, Domains)
    BY DEF ValuesOf
  <2>4. \A x \in c.param \cap Paths : Fits(x, ValuesOf(safe, c.tool, Paths))
    BY <1>9, <2>3 DEF Fits
  <2> HIDE DEF allowed
  <2>5. Allows(allowed, c.tool, c.param)
    BY <2>1, <2>2, <2>3, <2>4 DEF Allows, Constrains, Unrestricted, WorkflowTools
  <2>6. c.tool \in FileTools /\ c.param \subseteq Paths => Within(allowed, c.param)
    BY <2>2, <2>4 DEF Within, Constrains
  <2> QED
    BY <1>8, <2>1, <2>5, <2>6 DEF allowed
<1>10. ASSUME NEW tool \in WorkflowTools, NEW param, RenderedCallPasses(tool, param)
       PROVE  LET seen == UNION {d.param : d \in {d \in safe : d.tool = tool}}
              IN  /\ \E c \in safe : c.tool = tool
                  /\ tool \in FileTools => \A x \in param \cap Paths : Fits(x, seen)
                  /\ tool \in WebTools => param \cap Domains \subseteq seen
  <2> DEFINE allowed == cap(tool)
             seen == UNION {d.param : d \in {d \in safe : d.tool = tool}}
  <2>1. caps(tool) # {}
    BY <1>10 DEF RenderedCallPasses, caps
  <2>2. Allows(allowed, tool, param)
    BY <1>8, <1>10, <2>1
  <2>3. /\ tool \in FileTools => allowed.constraints = [paths |-> ValuesOf(safe, tool, Paths)]
        /\ tool \in WebTools => allowed.constraints = [domains |-> ValuesOf(safe, tool, Domains)]
    BY ProfiledFacts DEF cap
  <2>4. ValuesOf(safe, tool, Paths) \subseteq seen /\ ValuesOf(safe, tool, Domains) \subseteq seen
    BY DEF ValuesOf
  <2> HIDE DEF allowed, seen
  <2>5. tool \in FileTools => \A x \in param \cap Paths : Fits(x, seen)
    BY <2>2, <2>3, <2>4 DEF Allows, Constrains, Fits
  <2>6. tool \in WebTools => param \cap Domains \subseteq seen
    BY <2>2, <2>3, <2>4 DEF Allows, Constrains
  <2> QED
    BY <1>6, <2>1, <2>5, <2>6 DEF seen
<1> QED
  BY <1>9, <1>10 DEF safe

\* Whatever is observed, compiled or written by hand, and in whatever order: the
\* manifest of a trace lets through what the trace shows to be safe and nothing
\* of another tool, and no manifest lets tainted input through.
THEOREM SurfacesMatchTraces == WorkflowSpec => []SurfaceMatchesTrace
  BY CompiledInit, CompiledNext, CompiledSuffices, PTL DEF WorkflowSpec


-----------------------------------------------------------------------------
(***************************************************************************)
(* The benchmark defence.  The taint tells exactly what was seen: its      *)
(* values are those of the injections among the seen texts, and it is set  *)
(* after any.  A call that passed the guard runs before anything new is    *)
(* seen, so what the guard found of it still holds when it runs.           *)
(***************************************************************************)

Injections(seen) == {text \in seen : Redacted(text)}
Known(seen) == UNION {InjectionValues(text) : text \in Injections(seen)}

IsTaint(taint) == DOMAIN taint = {"label", "values", "channels", "legacy", "nodes"}

\* The taint tells of these texts.
Tells(taint, seen) ==
  /\ IsTaint(taint)
  /\ taint.values = Known(seen)
  /\ Injections(seen) # {} => taint.label = "tainted" /\ taint.legacy = TRUE

EpisodeFields == {"taint", "decisions", "blocked", "turns", "injected", "seen", "executed"}

\* The calls of a turn, and the messages of their results.
IsList(list) == Len(list) \in Nat /\ DOMAIN list = 1 .. Len(list)
AreCalls(calls) ==
  IsList(calls) /\ \A i \in DOMAIN calls : {"tool", "args", "blocked"} \subseteq DOMAIN calls[i]

DefenseInv ==
  /\ DOMAIN episode = EpisodeFields
  /\ DOMAIN turn = {"stage", "calls", "results"}
  /\ Tells(episode.taint, episode.seen)
  /\ InjectionsStayInside
  /\ pipeline # Unbuilt => pipeline \in Pipelines
  /\ pipeline = Unbuilt => episode.executed = {} /\ turn.stage = "idle"
  /\ turn.stage \in {"guard", "tools"} => AreCalls(turn.calls)
  /\ turn.stage = "tools" =>
       \A i \in DOMAIN turn.calls :
         ~turn.calls[i].blocked => StaysInside(turn.calls[i], episode.seen)
  /\ turn.stage \in {"errors", "sanitizer"} => IsList(turn.results)

\* What one check lets through, while the taint tells of what was seen.
LEMMA AllowedStaysInside ==
  ASSUME NEW call, NEW seen, Tells(episode.taint, seen), Judge(call).verdict = "allow"
  PROVE  StaysInside(call, seen)
<1> DEFINE taint == episode.taint
           compiled == pipeline.manifest
           action == Matched(compiled, call)[1].action
           def == compiled.actions[action]
<1>1. /\ taint.values = Known(seen)
      /\ Injections(seen) # {} => taint.label = "tainted" /\ taint.legacy = TRUE
  BY DEF Tells
<1>2. CASE compiled = Unbuilt
  <2>1. LegacyVerdict(pipeline.validator, call.tool, taint.legacy) = "allow"
    BY <1>2 DEF Judge, Decision
  <2>2. ~(taint.legacy /\ pipeline.validator.classes[call.tool] = "external_side_effect")
    BY <2>1 DEF LegacyVerdict
  <2>3. Injections(seen) # {} => taint.legacy
    BY <1>1
  <2> HIDE DEF taint
  <2>4. QED  BY <1>2, <2>2, <2>3 DEF StaysInside, Injections
<1>3. CASE compiled # Unbuilt
  <2>1. EvaluateToolCall(compiled, call, taint).verdict = "allow"
    BY <1>3 DEF Judge
  <2>2. ValidateIntent(compiled, action, call, taint)[1] = "allow"
    BY <2>1 DEF EvaluateToolCall, Decision
  <2>3. ~TaintContains(def, taint, call.args)
    BY <2>2 DEF ValidateIntent
  <2>4. Sensitive(def) /\ Injections(seen) # {} =>
          taint.values # {} /\ Strings(call.args) \cap taint.values = {}
    BY <1>1, <2>3 DEF TaintContains
  <2>5. Injections(seen) = {} => Known(seen) = {}
    BY DEF Known
  <2>6. QED
    BY <1>1, <1>3, <2>4, <2>5 DEF StaysInside, Injections, Known
<1>4. QED  BY <1>2, <1>3

\* It does not matter what else a call carries.
LEMMA InsideByToolAndArgs ==
  ASSUME NEW call, NEW other, call.tool = other.tool, call.args = other.args, NEW seen,
         StaysInside(call, seen)
  PROVE  StaysInside(other, seen)
<1>1. Matched(pipeline.manifest, call) = Matched(pipeline.manifest, other)
  BY DEF Matched
<1>2. QED  BY <1>1 DEF StaysInside

LEMMA SeedFacts ==
  ASSUME NEW taint, IsTaint(taint), NEW channel, NEW trust, NEW node
  PROVE  LET new == SeedFromSemanticEvent(taint, channel, trust, node)
         IN  /\ IsTaint(new)
             /\ new.values = taint.values /\ new.legacy = taint.legacy
             /\ trust = "untrusted" => new.label = "tainted"
             /\ trust = "trusted" /\ channel = "tool_clean" => new.label = taint.label
  BY DEF SeedFromSemanticEvent, IsTaint, TaintingChannels

LEMMA MarkFacts ==
  ASSUME NEW taint, IsTaint(taint)
  PROVE  /\ IsTaint(MarkTainted(taint)) /\ MarkTainted(taint).legacy = TRUE
         /\ MarkTainted(taint).values = taint.values /\ MarkTainted(taint).label = taint.label
  BY DEF MarkTainted, IsTaint

LEMMA AddFacts ==
  ASSUME NEW taint, IsTaint(taint), NEW values
  PROVE  /\ IsTaint(AddTaintedValues(taint, values))
         /\ AddTaintedValues(taint, values).values = taint.values \cup values
         /\ AddTaintedValues(taint, values).label = taint.label
  BY DEF AddTaintedValues, IsTaint

\* Only a redacted result of a tool that may taint changes what the guard reads.
LEMMA SanitizedResult ==
  ASSUME NEW taint, IsTaint(taint), NEW result
  PROVE  LET new == SanitizeResult(taint, result)
             hit == MayTaint(pipeline.manifest, result.tool) /\ Redacted(result.text)
         IN  /\ IsTaint(new)
             /\ hit => /\ new.values = taint.values \cup InjectionValues(result.text)
                       /\ new.label = "tainted" /\ new.legacy = TRUE
             /\ ~hit => /\ new.values = taint.values
                        /\ new.label = taint.label /\ new.legacy = taint.legacy
<1> DEFINE new == SanitizeResult(taint, result)
           values == InjectionValues(result.text)
           seeded == SeedFromSemanticEvent(taint, "mcp", "untrusted", result.id)
<1>1. CASE ~MayTaint(pipeline.manifest, result.tool)
  <2>1. new = taint
    BY <1>1 DEF SanitizeResult
  <2>2. QED  BY <1>1, <2>1
<1>2. CASE MayTaint(pipeline.manifest, result.tool) /\ Redacted(result.text)
  <2>1. new = IF values # {} THEN MarkTainted(AddTaintedValues(seeded, values))
                             ELSE MarkTainted(seeded)
    BY <1>2 DEF SanitizeResult
  <2>2. IsTaint(seeded) /\ seeded.values = taint.values /\ seeded.label = "tainted"
    BY SeedFacts
  <2> HIDE DEF seeded, values, new
  <2>3. CASE values # {}
    <3> DEFINE added == AddTaintedValues(seeded, values)
    <3>1. IsTaint(added) /\ added.values = seeded.values \cup values
          /\ added.label = seeded.label
      BY <2>2, AddFacts
    <3> HIDE DEF added
    <3>2. /\ IsTaint(MarkTainted(added)) /\ MarkTainted(added).legacy = TRUE
          /\ MarkTainted(added).values = added.values /\ MarkTainted(added).label = added.label
      BY <3>1, MarkFacts
    <3>3. new = MarkTainted(added)
      BY <2>1, <2>3 DEF added
    <3>4. QED  BY <1>2, <2>2, <3>1, <3>2, <3>3 DEF new, values
  <2>4. CASE values = {}
    <3>1. /\ IsTaint(MarkTainted(seeded)) /\ MarkTainted(seeded).legacy = TRUE
          /\ MarkTainted(seeded).values = seeded.values
          /\ MarkTainted(seeded).label = seeded.label
      BY <2>2, MarkFacts
    <3>2. QED  BY <1>2, <2>1, <2>2, <2>4, <3>1 DEF new, values
  <2>5. QED  BY <2>3, <2>4
<1>3. CASE MayTaint(pipeline.manifest, result.tool) /\ ~Redacted(result.text)
  <2>1. new = SeedFromSemanticEvent(taint, "tool_clean", "trusted", result.id)
    BY <1>3 DEF SanitizeResult
  <2>2. QED  BY <1>3, <2>1, SeedFacts
<1>4. QED  BY <1>1, <1>2, <1>3

\* The texts among some results that may taint.
Tainting(results, at) ==
  {results[i].text : i \in {j \in at : MayTaint(pipeline.manifest, results[j].tool)}}

LEMMA TellsMore ==
  ASSUME NEW taint, NEW seen, Tells(taint, seen), NEW result, NEW more,
         more = IF MayTaint(pipeline.manifest, result.tool) THEN seen \cup {result.text} ELSE seen
  PROVE  Tells(SanitizeResult(taint, result), more)
<1> DEFINE new == SanitizeResult(taint, result)
           text == result.text
<1>1. IsTaint(taint) /\ taint.values = Known(seen)
      /\ (Injections(seen) # {} => taint.label = "tainted" /\ taint.legacy = TRUE)
  BY DEF Tells
<1>2. CASE MayTaint(pipeline.manifest, result.tool) /\ Redacted(text)
  <2>1. Injections(more) = Injections(seen) \cup {text}
    BY <1>2 DEF Injections
  <2>2. Known(more) = Known(seen) \cup InjectionValues(text)
    BY <2>1 DEF Known
  <2>3. /\ IsTaint(new) /\ new.values = taint.values \cup InjectionValues(text)
        /\ new.label = "tainted" /\ new.legacy = TRUE
    BY <1>1, <1>2, SanitizedResult
  <2> HIDE DEF new
  <2>4. QED  BY <1>1, <2>2, <2>3 DEF Tells, new
<1>3. CASE ~(MayTaint(pipeline.manifest, result.tool) /\ Redacted(text))
  <2>1. Injections(more) = Injections(seen)
    BY <1>3 DEF Injections
  <2>2. Known(more) = Known(seen)
    BY <2>1 DEF Known
  <2>3. /\ IsTaint(new) /\ new.values = taint.values
        /\ new.label = taint.label /\ new.legacy = taint.legacy
    BY <1>1, <1>3, SanitizedResult
  <2> HIDE DEF new
  <2>4. QED  BY <1>1, <2>1, <2>2, <2>3 DEF Tells, new
<1>4. QED  BY <1>2, <1>3

\* There is a function that sanitizes one result after the other.
Sanitizes(after, taint, results, n) ==
  after = [k \in 0 .. n |->
             IF k = 0 THEN taint
             ELSE SanitizeResult(after[k - 1], results[Len(results) - k + 1])]

LEMMA SanitizerExists ==
  ASSUME NEW taint, NEW results, NEW n \in Nat
  PROVE  \E after : Sanitizes(after, taint, results, n)
<1> DEFINE G == {m \in Nat : \E after : Sanitizes(after, taint, results, m)}
<1>1. 0 \in G
  <2>1. Sanitizes([k \in 0 .. 0 |-> taint], taint, results, 0)
    BY DEF Sanitizes
  <2>2. QED  BY <2>1
<1>2. ASSUME NEW m \in Nat, m \in G
      PROVE  m + 1 \in G
  <2>1. PICK h : Sanitizes(h, taint, results, m)
    BY <1>2
  <2> DEFINE step(k, t) == SanitizeResult(t, results[Len(results) - k + 1])
             g == [k \in 0 .. m + 1 |-> IF k = m + 1 THEN step(k, h[m]) ELSE h[k]]
  <2>2. h = [k \in 0 .. m |-> IF k = 0 THEN taint ELSE step(k, h[k - 1])]
    BY <2>1 DEF Sanitizes
  <2> HIDE DEF step
  <2>3. \A k \in 0 .. m + 1 : g[k] = IF k = 0 THEN taint ELSE step(k, g[k - 1])
    <3> SUFFICES ASSUME NEW k \in 0 .. m + 1
                 PROVE  g[k] = IF k = 0 THEN taint ELSE step(k, g[k - 1])
      OBVIOUS
    <3>1. CASE k = m + 1
      <4>1. k # 0 /\ k - 1 = m /\ m \in 0 .. m + 1 /\ m # m + 1
        BY <3>1
      <4>2. g[m] = h[m] /\ g[k] = step(k, h[m])
        BY <3>1, <4>1
      <4> HIDE DEF g
      <4>3. QED  BY <4>1, <4>2
    <3>2. CASE k # m + 1
      <4>1. k \in 0 .. m /\ k # m + 1
        BY <3>2
      <4>2. g[k] = h[k]
        BY <4>1
      <4>3. CASE k = 0
        <5>1. h[k] = taint
          BY <2>2, <4>1, <4>3
        <5> HIDE DEF g
        <5>2. QED  BY <4>2, <4>3, <5>1
      <4>4. CASE k # 0
        <5>1. k - 1 \in 0 .. m + 1 /\ k - 1 # m + 1
          BY <4>1, <4>4
        <5>2. g[k - 1] = h[k - 1]
          BY <5>1
        <5>3. h[k] = step(k, h[k - 1])
          BY <2>2, <4>1, <4>4
        <5> HIDE DEF g
        <5>4. QED  BY <4>2, <4>4, <5>2, <5>3
      <4>5. QED  BY <4>3, <4>4
    <3>3. QED  BY <3>1, <3>2
  <2>4. g = [k \in 0 .. m + 1 |-> IF k = 0 THEN taint ELSE step(k, g[k - 1])]
    <3>1. g = [k \in 0 .. m + 1 |-> g[k]]
      OBVIOUS
    <3> HIDE DEF g
    <3>2. QED  BY <2>3, <3>1
  <2> HIDE DEF g
  <2>5. Sanitizes(g, taint, results, m + 1)
    BY <2>4 DEF Sanitizes, step
  <2>6. QED  BY <2>5
<1>3. Nat \subseteq G
  <2> HIDE DEF G
  <2>1. QED  BY <1>1, <1>2, AllNaturals
<1>4. QED  BY <1>3

LEMMA SanitizerTells ==
  ASSUME NEW taint, NEW seen, Tells(taint, seen), NEW results,
         Len(results) \in Nat, DOMAIN results = 1 .. Len(results)
  PROVE  Tells(SanitizeAll(taint, results),
               seen \cup Tainting(results, DOMAIN results))
<1> DEFINE L == Len(results)
           after == CHOOSE f : Sanitizes(f, taint, results, L)
           Done(n) == {i \in 1 .. L : i > L - n}
           Before(n) == seen \cup Tainting(results, Done(n))
           G == {n \in Nat : n <= L => Tells(after[n], Before(n))}
<1>1. SanitizeAll(taint, results) = after[L]
  BY Zenon DEF SanitizeAll, Sanitizes
<1>2. Sanitizes(after, taint, results, L)
  BY SanitizerExists
<1> HIDE DEF after
<1>3. 0 \in G
  <2>1. after[0] = taint
    BY <1>2 DEF Sanitizes
  <2>2. Done(0) = {}
    OBVIOUS
  <2>3. Before(0) = seen
    BY <2>2 DEF Tainting
  <2> HIDE DEF Before
  <2>4. QED  BY <2>1, <2>3
<1>4. ASSUME NEW n \in Nat, n \in G
      PROVE  n + 1 \in G
  <2> SUFFICES ASSUME n + 1 <= L
               PROVE  Tells(after[n + 1], Before(n + 1))
    OBVIOUS
  <2> DEFINE result == results[L - n]
  <2>1. after[n + 1] = SanitizeResult(after[n], result)
    <3>1. n + 1 \in 0 .. L /\ n + 1 # 0 /\ (n + 1) - 1 = n /\ L - (n + 1) + 1 = L - n
      OBVIOUS
    <3>2. after[n + 1] = SanitizeResult(after[(n + 1) - 1], results[L - (n + 1) + 1])
      BY <1>2, <3>1 DEF Sanitizes
    <3>3. QED  BY <3>1, <3>2
  <2>2. Tells(after[n], Before(n))
    BY <1>4
  <2>3. Done(n + 1) = Done(n) \cup {L - n}
    OBVIOUS
  <2>4. Before(n + 1) = IF MayTaint(pipeline.manifest, result.tool)
                        THEN Before(n) \cup {result.text} ELSE Before(n)
    <3> HIDE DEF Done
    <3>1. QED  BY <2>3 DEF Tainting
  <2> HIDE DEF Before, result
  <2>5. QED  BY <2>1, <2>2, <2>4, TellsMore
<1>5. Nat \subseteq G
  <2> HIDE DEF G
  <2>1. QED  BY <1>3, <1>4, AllNaturals
<1>6. L \in G
  BY <1>5
<1>7. Tells(after[L], Before(L))
  BY <1>6
<1>8. Done(L) = DOMAIN results
  OBVIOUS
<1>9. QED  BY <1>1, <1>7, <1>8

-----------------------------------------------------------------------------
(* The steps. *)

LEMMA DefenseStarts == DefenseInit => DefenseInv
<1> SUFFICES ASSUME DefenseInit PROVE DefenseInv
  OBVIOUS
<1>1. Tells(episode.taint, episode.seen)
  BY DEF DefenseInit, StartEpisode, CleanTaint, Tells, IsTaint, Known, Injections
<1>2. /\ DOMAIN episode = EpisodeFields /\ DOMAIN turn = {"stage", "calls", "results"}
      /\ episode.executed = {} /\ turn.stage = "idle" /\ pipeline = Unbuilt
  BY DEF DefenseInit, StartEpisode, Silent, EpisodeFields
<1>3. QED  BY <1>1, <1>2 DEF DefenseInv, InjectionsStayInside

LEMMA CleanTells == Tells(StartEpisode.taint, StartEpisode.seen)
  BY DEF StartEpisode, CleanTaint, Tells, IsTaint, Known, Injections

LEMMA BuildKeeps ==
  ASSUME DefenseInv, BuildDefense
  PROVE  DefenseInv'
<1>1. PICK suite \in Suites, hasIds \in BOOLEAN :
        CanBuild(suite) /\ pipeline' = BuildPipeline(suite, hasIds)
  BY DEF BuildDefense
<1>2. pipeline' \in Pipelines
  <2>1. BuildPipeline(suite, hasIds) = [BuildPipeline(suite, hasIds) EXCEPT !.queries = 0]
    BY DEF BuildPipeline
  <2>2. 0 \in 0 .. MaxQueries
    BY UnbuiltAssumption
  <2>3. QED  BY <1>1, <2>1, <2>2 DEF Pipelines
<1>3. pipeline = Unbuilt /\ episode' = episode /\ turn' = turn
  BY DEF BuildDefense
<1>4. pipeline' # Unbuilt
  BY <1>2, UnbuiltAssumption
<1>5. turn.stage = "idle" /\ episode.executed = {}
  BY <1>3 DEF DefenseInv
<1>6. QED  BY <1>2, <1>3, <1>4, <1>5 DEF DefenseInv, InjectionsStayInside

LEMMA QueryKeeps ==
  ASSUME DefenseInv, Query
  PROVE  DefenseInv'
<1>1. pipeline' \in Pipelines /\ pipeline' # Unbuilt
  <2>1. /\ pipeline \in Pipelines /\ pipeline.queries < MaxQueries
        /\ pipeline' = [pipeline EXCEPT !.queries = @ + 1]
    BY DEF DefenseInv, Query
  <2>2. PICK suite \in {s \in Suites : CanBuild(s)}, hasIds \in BOOLEAN, n \in 0 .. MaxQueries :
          pipeline = [BuildPipeline(suite, hasIds) EXCEPT !.queries = n]
    BY <2>1 DEF Pipelines
  <2> DEFINE fresh == BuildPipeline(suite, hasIds)
  <2>3. "queries" \in DOMAIN fresh
    BY DEF BuildPipeline
  <2> HIDE DEF fresh
  <2>4. pipeline = [fresh EXCEPT !.queries = n]
    BY <2>2 DEF fresh
  <2>5. pipeline.queries = n
    BY <2>3, <2>4
  <2>6. pipeline' = [fresh EXCEPT !.queries = n + 1]
    BY <2>1, <2>3, <2>4, <2>5
  <2>7. n + 1 \in 0 .. MaxQueries
    BY <2>1, <2>5, UnbuiltAssumption
  <2>8. pipeline' \in Pipelines
    BY <2>6, <2>7 DEF Pipelines, fresh
  <2>9. QED  BY <2>8, UnbuiltAssumption
<1>2. episode' = StartEpisode /\ turn' = [Silent EXCEPT !.stage = "model"]
  BY DEF Query
<1>3. /\ DOMAIN episode' = EpisodeFields /\ episode'.executed = {}
      /\ DOMAIN turn' = {"stage", "calls", "results"} /\ turn'.stage = "model"
  BY <1>2 DEF StartEpisode, EpisodeFields, Silent
<1>4. Tells(episode'.taint, episode'.seen)
  BY <1>2, CleanTells
<1>5. QED  BY <1>1, <1>3, <1>4 DEF DefenseInv, InjectionsStayInside, Tells, Known

\* A step that sees nothing and runs nothing.
LEMMA NothingRuns ==
  ASSUME DefenseInv, pipeline' = pipeline, pipeline # Unbuilt,
         DOMAIN episode' = EpisodeFields, DOMAIN turn' = {"stage", "calls", "results"},
         episode'.executed = episode.executed,
         episode'.taint = episode.taint, episode'.seen = episode.seen,
         turn'.stage \in {"guard", "tools"} => AreCalls(turn'.calls),
         turn'.stage = "tools" =>
           \A i \in DOMAIN turn'.calls :
             ~turn'.calls[i].blocked => StaysInside(turn'.calls[i], episode.seen),
         turn'.stage \in {"errors", "sanitizer"} => IsList(turn'.results)
  PROVE  DefenseInv'
<1>1. \A call, seen : StaysInside(call, seen)' <=> StaysInside(call, seen)
  BY DEF StaysInside, Matched
<1>2. InjectionsStayInside'
  BY <1>1 DEF DefenseInv, InjectionsStayInside
<1>3. Tells(episode.taint, episode.seen)' /\ (pipeline # Unbuilt => pipeline \in Pipelines)'
  BY DEF DefenseInv
<1>4. QED  BY <1>1, <1>2, <1>3 DEF DefenseInv, AreCalls, IsList

LEMMA ProposeCallsKeeps ==
  ASSUME DefenseInv, ProposeCalls
  PROVE  DefenseInv'
<1>1. pipeline' = pipeline /\ pipeline # Unbuilt
  BY DEF ProposeCalls, DefenseInv
<1>2. CASE turn' = Silent /\ episode' = episode
  <2>1. DOMAIN turn' = {"stage", "calls", "results"} /\ turn'.stage = "idle"
    BY <1>2 DEF Silent
  <2>2. DOMAIN episode = EpisodeFields
    BY DEF DefenseInv
  <2>3. QED  BY <1>1, <1>2, <2>1, <2>2, NothingRuns
<1>3. CASE /\ \E n \in 1 .. 2 : \E calls \in [1 .. n -> Proposals] :
                turn' = [Silent EXCEPT !.stage = "guard",
                           !.calls = [i \in DOMAIN calls |->
                             [tool |-> calls[i].tool, args |-> calls[i].args, blocked |-> FALSE,
                              id |-> IF pipeline.ids THEN <<episode.turns, i>> ELSE <<>>]]]
           /\ episode' = [episode EXCEPT !.turns = @ + 1]
  <2>1. PICK n \in 1 .. 2 : \E calls \in [1 .. n -> Proposals] :
          turn' = [Silent EXCEPT !.stage = "guard",
                     !.calls = [i \in DOMAIN calls |->
                       [tool |-> calls[i].tool, args |-> calls[i].args, blocked |-> FALSE,
                        id |-> IF pipeline.ids THEN <<episode.turns, i>> ELSE <<>>]]]
    BY <1>3
  <2>8. PICK calls \in [1 .. n -> Proposals] :
          turn' = [Silent EXCEPT !.stage = "guard",
                     !.calls = [i \in DOMAIN calls |->
                       [tool |-> calls[i].tool, args |-> calls[i].args, blocked |-> FALSE,
                        id |-> IF pipeline.ids THEN <<episode.turns, i>> ELSE <<>>]]]
    BY <2>1
  <2> DEFINE call(i) == [tool |-> calls[i].tool, args |-> calls[i].args, blocked |-> FALSE,
                         id |-> IF pipeline.ids THEN <<episode.turns, i>> ELSE <<>>]
             made == [i \in DOMAIN calls |-> call(i)]
  <2>2. \A i : {"tool", "args", "blocked"} \subseteq DOMAIN call(i)
    OBVIOUS
  <2>3. turn' = [Silent EXCEPT !.stage = "guard", !.calls = made]
    BY <2>8
  <2> HIDE DEF call
  <2>4. AreCalls(made)
    <3>1. DOMAIN made = 1 .. n /\ n \in Nat
      OBVIOUS
    <3>2. \A i \in DOMAIN made : {"tool", "args", "blocked"} \subseteq DOMAIN made[i]
      BY <2>2
    <3> HIDE DEF made
    <3>3. QED  BY <3>1, <3>2, LengthOf DEF AreCalls, IsList
  <2> HIDE DEF made
  <2>5. /\ DOMAIN turn' = {"stage", "calls", "results"} /\ turn'.stage = "guard"
        /\ turn'.calls = made
    BY <2>3 DEF Silent
  <2>6. /\ DOMAIN episode' = EpisodeFields /\ episode'.executed = episode.executed
        /\ episode'.taint = episode.taint /\ episode'.seen = episode.seen
    BY <1>3 DEF DefenseInv, EpisodeFields
  <2>7. QED  BY <1>1, <2>4, <2>5, <2>6, NothingRuns
<1>4. QED  BY <1>2, <1>3 DEF ProposeCalls

LEMMA GuardKeeps ==
  ASSUME DefenseInv, Guard
  PROVE  DefenseInv'
<1> DEFINE Denied(i) == Judge(turn.calls[i]).verdict # "allow"
           judged == [i \in DOMAIN turn.calls |-> [turn.calls[i] EXCEPT !.blocked = Denied(i)]]
<1>1. /\ turn.stage = "guard" /\ pipeline' = pipeline
      /\ turn' = [turn EXCEPT !.stage = "tools", !.calls = judged]
  BY DEF Guard
<1>2. pipeline # Unbuilt
  BY <1>1 DEF DefenseInv
<1>3. /\ DOMAIN episode' = EpisodeFields /\ episode'.executed = episode.executed
      /\ episode'.taint = episode.taint /\ episode'.seen = episode.seen
  <2>1. \E decisions, injected :
          episode' = [episode EXCEPT !.decisions = decisions, !.injected = injected]
    BY Zenon DEF Guard
  <2>2. QED  BY <2>1 DEF DefenseInv, EpisodeFields
<1>4. ASSUME NEW i \in DOMAIN judged, ~judged[i].blocked
      PROVE  StaysInside(judged[i], episode.seen)
  <2>1. i \in DOMAIN turn.calls /\ {"tool", "args", "blocked"} \subseteq DOMAIN turn.calls[i]
    BY <1>1 DEF DefenseInv, AreCalls
  <2>2. judged[i].tool = turn.calls[i].tool /\ judged[i].args = turn.calls[i].args
    BY <2>1
  <2>3. Judge(turn.calls[i]).verdict = "allow"
    <3>1. judged[i].blocked = Denied(i)
      BY <2>1
    <3>2. ~Denied(i)
      BY <1>4, <3>1
    <3>3. QED  BY <3>2
  <2>4. StaysInside(turn.calls[i], episode.seen)
    BY <2>3, AllowedStaysInside DEF DefenseInv
  <2> HIDE DEF judged
  <2>5. QED  BY <2>2, <2>4, InsideByToolAndArgs
<1>7. AreCalls(judged)
  <2>1. AreCalls(turn.calls)
    BY <1>1 DEF DefenseInv
  <2>2. DOMAIN judged = DOMAIN turn.calls
    OBVIOUS
  <2>3. \A i \in DOMAIN judged : DOMAIN judged[i] = DOMAIN turn.calls[i]
    OBVIOUS
  <2> HIDE DEF judged
  <2>4. QED  BY <2>1, <2>2, <2>3, LengthOf DEF AreCalls, IsList
<1> HIDE DEF judged
<1>5. /\ DOMAIN turn' = {"stage", "calls", "results"} /\ turn'.stage = "tools"
      /\ turn'.calls = judged
  BY <1>1 DEF DefenseInv
<1>6. QED  BY <1>1, <1>2, <1>3, <1>4, <1>5, <1>7, NothingRuns

LEMMA ExecuteToolsKeeps ==
  ASSUME DefenseInv, ExecuteTools
  PROVE  DefenseInv'
<1> DEFINE runs == {i \in DOMAIN turn.calls : ~turn.calls[i].blocked}
           ran == {[call |-> turn.calls[i], seen |-> episode.seen] : i \in runs}
           results(texts) ==
             [i \in DOMAIN texts |->
               [id |-> turn.calls[i].id, text |-> texts[i],
                tool |-> IF i \in runs THEN turn.calls[i].tool ELSE "ah_security_blocked"]]
<1>1. /\ turn.stage = "tools" /\ pipeline' = pipeline
      /\ episode' = [episode EXCEPT !.executed = @ \cup ran]
  BY Zenon DEF ExecuteTools
<1>2. \E texts \in [DOMAIN turn.calls -> Readings] :
        turn' = [turn EXCEPT !.stage = "errors", !.results = results(texts)]
  BY Zenon DEF ExecuteTools
<1>3. PICK texts \in [DOMAIN turn.calls -> Readings] :
        turn' = [turn EXCEPT !.stage = "errors", !.results = results(texts)]
  BY <1>2
<1>4. IsList(results(texts))
  <2>1. IsList(turn.calls)
    BY <1>1 DEF DefenseInv, AreCalls
  <2>2. DOMAIN results(texts) = DOMAIN turn.calls
    OBVIOUS
  <2> HIDE DEF results
  <2>3. QED  BY <2>1, <2>2, LengthOf DEF IsList
<1> HIDE DEF results
<1>5. /\ DOMAIN turn' = {"stage", "calls", "results"} /\ turn'.stage = "errors"
      /\ turn'.results = results(texts)
  BY <1>3 DEF DefenseInv
<1> HIDE DEF ran
<1>6. /\ DOMAIN episode' = EpisodeFields
      /\ episode'.executed = episode.executed \cup ran
      /\ episode'.taint = episode.taint /\ episode'.seen = episode.seen
  BY <1>1 DEF DefenseInv, EpisodeFields
<1>7. \A call, seen : StaysInside(call, seen)' <=> StaysInside(call, seen)
  BY <1>1 DEF StaysInside, Matched
<1>8. \A e \in ran : StaysInside(e.call, e.seen)
  BY <1>1 DEF DefenseInv, ran
<1>9. InjectionsStayInside'
  BY <1>6, <1>7, <1>8 DEF DefenseInv, InjectionsStayInside
<1>10. Tells(episode.taint, episode.seen)'
  BY <1>6 DEF DefenseInv, Tells, IsTaint, Known, Injections
<1>11. pipeline # Unbuilt
  BY <1>1 DEF DefenseInv
<1>12. QED
  BY <1>1, <1>4, <1>5, <1>6, <1>9, <1>10, <1>11 DEF DefenseInv, IsList

LEMMA InjectErrorsKeeps ==
  ASSUME DefenseInv, InjectErrors
  PROVE  DefenseInv'
<1>1. turn.stage = "errors" /\ pipeline' = pipeline
  BY Zenon DEF InjectErrors
<1>2. pipeline # Unbuilt
  BY <1>1 DEF DefenseInv
<1>3. /\ DOMAIN episode' = EpisodeFields /\ episode'.executed = episode.executed
      /\ episode'.taint = episode.taint /\ episode'.seen = episode.seen
  <2>1. \E blocked : episode' = [episode EXCEPT !.blocked = blocked]
    BY Zenon DEF InjectErrors
  <2>2. QED  BY <2>1 DEF DefenseInv, EpisodeFields
<1> DEFINE hit == {i \in DOMAIN turn.results : turn.results[i].id \in DOMAIN episode.injected}
           message(list, i) ==
             IF i \in hit THEN [list[i] EXCEPT !.text = [marks |-> {}, emails |-> {}]] ELSE list[i]
<1>4. turn' = [turn EXCEPT !.stage = "sanitizer",
                 !.results = [i \in DOMAIN @ |-> message(@, i)]]
  BY Zenon DEF InjectErrors
<1> HIDE DEF message
<1>5. /\ DOMAIN turn' = {"stage", "calls", "results"} /\ turn'.stage = "sanitizer"
      /\ DOMAIN turn'.results = DOMAIN turn.results
  BY <1>4 DEF DefenseInv
<1>6. IsList(turn'.results)
  BY <1>1, <1>5, LengthOf DEF DefenseInv, IsList
<1>7. QED  BY <1>1, <1>2, <1>3, <1>5, <1>6, NothingRuns

LEMMA SanitizeKeeps ==
  ASSUME DefenseInv, Sanitize
  PROVE  DefenseInv'
<1> DEFINE taint == SanitizeAll(episode.taint, turn.results)
           seen == episode.seen \cup Tainting(turn.results, DOMAIN turn.results)
<1>1. turn.stage = "sanitizer" /\ pipeline' = pipeline
      /\ turn' = [turn EXCEPT !.stage = "model", !.calls = <<>>, !.results = <<>>]
  BY Zenon DEF Sanitize
<1>2. episode' = [episode EXCEPT !.taint = SanitizeAll(@, turn.results),
                    !.seen = @ \cup Tainting(turn.results, DOMAIN turn.results)]
  BY DEF Sanitize, Tainting
<1>3. Tells(taint, seen)
  BY <1>1, SanitizerTells DEF DefenseInv, IsList
<1>4. /\ DOMAIN episode' = EpisodeFields /\ episode'.executed = episode.executed
      /\ episode'.taint = taint /\ episode'.seen = seen
  BY <1>2 DEF DefenseInv, EpisodeFields
<1> HIDE DEF taint, seen
<1>5. Tells(episode.taint, episode.seen)'
  BY <1>3, <1>4 DEF Tells, IsTaint, Known, Injections
<1>6. DOMAIN turn' = {"stage", "calls", "results"} /\ turn'.stage = "model"
  BY <1>1 DEF DefenseInv
<1>7. \A call, s : StaysInside(call, s)' <=> StaysInside(call, s)
  BY <1>1 DEF StaysInside, Matched
<1>8. InjectionsStayInside'
  BY <1>4, <1>7 DEF DefenseInv, InjectionsStayInside
<1>9. pipeline # Unbuilt
  BY <1>1 DEF DefenseInv
<1>10. QED  BY <1>1, <1>4, <1>5, <1>6, <1>8, <1>9 DEF DefenseInv

LEMMA DefenseKeeps == DefenseInv /\ [DefenseNext]_defenseVars => DefenseInv'
<1>1. ASSUME DefenseInv, DefenseNext
      PROVE  DefenseInv'
  BY <1>1, BuildKeeps, QueryKeeps, ProposeCallsKeeps, GuardKeeps, ExecuteToolsKeeps,
     InjectErrorsKeeps, SanitizeKeeps DEF DefenseNext
<1>2. ASSUME DefenseInv, UNCHANGED defenseVars
      PROVE  DefenseInv'
  <2>1. pipeline' = pipeline /\ episode' = episode /\ turn' = turn
    BY <1>2 DEF defenseVars
  <2>2. \A call, seen : StaysInside(call, seen)' <=> StaysInside(call, seen)
    BY <2>1 DEF StaysInside, Matched
  <2>3. InjectionsStayInside'
    BY <1>2, <2>1, <2>2 DEF DefenseInv, InjectionsStayInside
  <2>4. QED
    BY <1>2, <2>1, <2>2, <2>3
    DEF DefenseInv, Tells, IsTaint, Known, Injections, AreCalls, IsList
<1>3. QED  BY <1>1, <1>2

\* For every set of suites, of calls the model may propose and of texts the
\* tools may return, and for any number of turns and queries: no call that
\* crosses the boundary or cannot be undone runs with a value of an injection
\* of its episode, nor after one where no value is known (validate_intent in
\* intent_validator.py, AHInputSanitizer, ProvTaintState.add_tainted_values).
THEOREM InjectionsAreContained == DefenseSpec => []InjectionsStayInside
<1>1. DefenseInv => InjectionsStayInside
  BY DEF DefenseInv
<1>2. QED  BY <1>1, DefenseStarts, DefenseKeeps, PTL DEF DefenseSpec

-----------------------------------------------------------------------------
(***************************************************************************)
(* They share no state: in the composition each of them does only what it  *)
(* does alone.                                                             *)
(***************************************************************************)
LEMMA ProgramsKeepApart ==
  Spec => BoundarySpec /\ ProvenanceSpec /\ WorkflowSpec /\ CoreSpec /\ DefenseSpec
<1>1. Init => PipelineInit /\ RegistryInit /\ WorkflowInit /\ CoreInit /\ DefenseInit
  BY DEF Init
<1>2. [Next]_decisionVars =>
        /\ [PipelineNext]_pipelineVars /\ [RegistryNext]_registry
        /\ [WorkflowNext]_workflowVars /\ [CoreNext]_coreVars /\ [DefenseNext]_defenseVars
  BY DEF Next, decisionVars
<1>3. QED
  BY <1>1, <1>2, PTL
  DEF Spec, BoundarySpec, ProvenanceSpec, WorkflowSpec, CoreSpec, DefenseSpec

(***************************************************************************)
(* A process that runs any one of the deciding programs keeps what each of *)
(* them promises: budgets and origins of the compiled boundary, denials    *)
(* along provenance, the surface of a workflow manifest, standing          *)
(* decisions of the core hypervisor and the containment of injections, as  *)
(* checked on the composition.                                             *)
(***************************************************************************)
THEOREM ProgramsKeepTheirPromises ==
  Spec =>
    [](/\ BudgetsMatchDecisions /\ DecisionsHaveOrigins
       /\ DenialsStick
       /\ SurfaceMatchesTrace
       /\ DecisionsStand
       /\ InjectionsStayInside)
  BY ProgramsKeepApart, BudgetsAreKept, DecisionsAreTraceable, ProvenanceIsSticky,
     SurfacesMatchTraces, DecisionsAlwaysStand, InjectionsAreContained, PTL
=============================================================================
