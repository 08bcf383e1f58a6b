---------------------------- MODULE WorldArtifacts ----------------------------
(***************************************************************************)
(* What the build commands make of a world manifest: which manifests the   *)
(* validator and the loaders accept, the artifacts that the emitter derives *)
(* from one, and what a migration to version 2 carries over.               *)
(*                                                                         *)
(* A manifest is what the artifacts depend on, and the set of its flaws:   *)
(* each flaw is the violation of one check of a loader or the validator.   *)
(***************************************************************************)
EXTENDS Integers, Sequences, FiniteSets, SequencesExt

CONSTANTS
  Actions,      \* names of actions
  SideEffects,  \* internal_read, internal_write, external_read, external_write
  Targets       \* what taint spreads to: output, memory_entry, execution_input

Levels == <<"TRUSTED", "SEMI_TRUSTED", "UNTRUSTED">>
Level == Range(Levels)
Order(level) == CHOOSE i \in DOMAIN Levels : Levels[i] = level

\* TrustLevel.dominates: the more restrictive of two.
Dominates(a, b) == IF Order(a) >= Order(b) THEN a ELSE b

Places == Targets \cup SideEffects
None == "none"
Anything == "any"
NoLimit == 99

-----------------------------------------------------------------------------
(* Manifests *)

\* A rule of version 1: taint of a level spreads to a target, behind a gate or
\* without one.  A policy of version 2: from a zone of a level to a zone.
Rule(level, target, gate) == [level |-> level, target |-> target, gate |-> gate]

Policy(level, zone, allowed, gate) ==
  [level |-> level, zone |-> zone, allowed |-> allowed, gate |-> gate]

\* A condition may leave out the action, the taint or the level.
Escalation(action, taint, level, decision) ==
  [action |-> action, taint |-> taint, level |-> level, decision |-> decision]

Manifest(version, effects, matrix, rules, policies, escalations, limits) ==
  [version |-> version,          \* "1" or "2"
   flaws |-> {},
   effects |-> effects,          \* action -> its side effects
   matrix |-> matrix,            \* level -> side effects that it permits
   rules |-> rules,              \* taint rules, in order
   policies |-> policies,        \* transition policies, in order
   surfaces |-> [z \in {"out"} |-> DOMAIN effects],   \* zone -> actions that touch it
   escalations |-> escalations,  \* in order
   limits |-> limits]            \* counter -> how often per session

\* What the checks look at, and how often: by both, by the loader alone, by the
\* validator alone.
CheckedByBoth ==
  {"section missing", "action incomplete", "unknown side effect", "channel incomplete",
   "unknown level", "entity incomplete", "dangling data class", "unknown actor type",
   "data class incomplete", "zone incomplete", "dangling entity", "dangling action",
   "dangling zone"}

LoadedOnly ==
  {"no manifest name", "empty section", "surfaces not a list", "unknown actor tier",
   "unknown zone level", "confirmation incomplete", "dangling confirmation",
   "policy incomplete"}

ValidatedOnly == {"capabilities not a list", "budget not positive"}

\* Version 1 is validated by other names than its loader knows.
Checks(manifest) ==
  IF manifest.version = "2" THEN CheckedByBoth \cup ValidatedOnly
  ELSE {"section missing", "no capabilities", "no manifest name", "action incomplete"}

\* ahc validate; warnings (limits without a priced model) do not count.
Valid(manifest) == manifest.flaws \cap Checks(manifest) = {}

\* loader_v2.load, which stops at the first flaw.
LoadsV2(manifest) ==
  manifest.version = "2" /\ manifest.flaws \cap (CheckedByBoth \cup LoadedOnly) = {}

\* loader.load.
LoadsV1(manifest) ==
  /\ manifest.version = "1"
  /\ manifest.flaws \cap {"section missing", "no manifest name", "action incomplete",
                          "unknown side effect", "channel incomplete", "unknown level"} = {}

\* ahc build: what is not of version 2 is read as a workflow manifest, which has
\* an id of a workflow that no world manifest has.
Builds(manifest) == LoadsV2(manifest)

\* Sorting what is not a list fails before the taint compiler is called and
\* anything is written.
Emits(manifest) == "capabilities not a list" \notin manifest.flaws

-----------------------------------------------------------------------------
(* Containment: level -> place -> gate.  The compiler starts from defaults  *)
(* that it shares between compilations, and changes them in place.         *)

\* The defaults of a process that has compiled nothing.
DefaultContainment ==
  [l \in Level |->
    [p \in Places |-> IF p \notin Targets \/ l = "TRUSTED" THEN None
                      ELSE IF l = "UNTRUSTED" THEN "BLOCK" ELSE "review"]]

\* Without a gate of its own a rule takes the default, and BLOCK without one.
GateOf(defaults, rule) ==
  IF rule.gate # None THEN rule.gate
  ELSE IF defaults[rule.level][rule.target] # None THEN defaults[rule.level][rule.target]
  ELSE "BLOCK"

\* compile_taint_rules: the first rule about a level and a target wins.
CompileRules(defaults, rules) ==
  [l \in Level |-> [p \in Places |->
    LET about == {i \in DOMAIN rules : rules[i].level = l /\ rules[i].target = p}
    IN IF about = {} THEN defaults[l][p]
       ELSE GateOf(defaults, rules[CHOOSE i \in about : \A j \in about : i <= j])]]

\* What an action that touches the zone does.
Reaches(manifest, zone) ==
  UNION {manifest.effects[a] : a \in manifest.surfaces[zone] \cap DOMAIN manifest.effects}

PolicyGate(policy) ==
  IF ~policy.allowed /\ policy.gate = "auto" THEN "BLOCK" ELSE policy.gate

\* compile_v2_taint_machine: the last policy about a level and an effect wins.
CompilePolicies(defaults, manifest) ==
  [l \in Level |-> [p \in Places |->
    LET about == {i \in DOMAIN manifest.policies :
                    /\ manifest.policies[i].level = l
                    /\ p \in Reaches(manifest, manifest.policies[i].zone)}
    IN IF about = {} THEN defaults[l][p]
       ELSE PolicyGate(manifest.policies[CHOOSE i \in about : \A j \in about : i >= j])]]

Containment(defaults, manifest) ==
  IF manifest.version = "2" THEN CompilePolicies(defaults, manifest)
  ELSE CompileRules(defaults, manifest.rules)

\* The levels of the defaults are the same objects; that of TRUSTED is new.
DefaultsAfter(defaults, manifest) ==
  [l \in Level |-> IF l = "TRUSTED" THEN defaults[l] ELSE Containment(defaults, manifest)[l]]

-----------------------------------------------------------------------------
(* Artifacts *)

\* Version 2 has an escalation for an action by name, and it always denies.
EscalationTable(manifest) ==
  IF manifest.version = "2"
  THEN [i \in DOMAIN manifest.escalations |->
         [manifest.escalations[i] EXCEPT !.level = Anything, !.decision = "deny"]]
  ELSE manifest.escalations

ActionSchemas(manifest) == manifest.effects
CapabilityMatrix(manifest) == manifest.matrix
PolicyTable(manifest) == manifest.limits

Artifacts == {"actions", "matrix", "containment", "escalations", "limits"}

\* emit: everything is derived, then the files are written one by one.
Emitted(defaults, manifest) ==
  [actions |-> ActionSchemas(manifest), matrix |-> CapabilityMatrix(manifest),
   containment |-> Containment(defaults, manifest),
   escalations |-> EscalationTable(manifest), limits |-> PolicyTable(manifest)]

\* migrate_v1_to_v2: rules, whose spread has no operation, and escalations come
\* through as text that compiles to nothing; limits are left out; sections that
\* hold nothing but comments are empty.
Migrate(manifest) ==
  [manifest EXCEPT !.version = "2", !.flaws = {"empty section"}, !.rules = <<>>,
                   !.escalations = <<>>,
                   !.limits = [k \in DOMAIN @ |-> NoLimit]]

\* The sections filled in by hand, as the comments ask for.
FillIn(manifest) == [manifest EXCEPT !.flaws = @ \ {"empty section"}]
=============================================================================
