----------------------------- MODULE BrowserWorlds -----------------------------
(***************************************************************************)
(* The worlds of the browser extension: parsing, validating, compiling and *)
(* comparing manifests, and deciding an intent in a compiled world.        *)
(*                                                                         *)
(* A manifest is the mapping its author wrote; conditions and effects of a *)
(* rule are records that have the keys he gave and no others.  A text that *)
(* is no manifest at all has the world_id "".  After parsing, a condition  *)
(* is [keys, expects]: the keys that the object has, and the values of     *)
(* those that are not undefined.                                           *)
(***************************************************************************)
EXTENDS Naturals, FiniteSets, Sequences, SequencesExt, FiniteSetsExt, Functions

CONSTANT NoWorld   \* no world is active, or none could be compiled

IntentTypes ==
  {"summarize_page", "extract_links", "extract_action_items", "save_memory", "export_summary"}
TrustValues == {"trusted", "untrusted"}
EffectTypes == {"read_only", "internal_write", "external_side_effect"}
PolicyDecisions == {"allow", "deny", "ask", "simulate"}
ConditionKeys == {"hidden_content_detected", "taint", "trust", "action"}

-----------------------------------------------------------------------------
(* From a text to a manifest. *)

\* What parseManifest throws at.
Parses(m) ==
  /\ m.world_id # ""
  /\ m.version >= 1
  /\ \A s \in DOMAIN m.trust_sources : m.trust_sources[s].trust \in TrustValues
  /\ \A a \in DOMAIN m.actions : m.actions[a].effect \in EffectTypes
  /\ \A i \in DOMAIN m.rules : m.rules[i].id # ""

\* A rule keeps the conditions that the parser knows; a trust that is no trust
\* value is dropped with the rest.  All four keys are there, with a value or not.
ParseRule(rule) ==
  LET given == {k \in DOMAIN rule.if \cap ConditionKeys :
                  k = "trust" => rule.if[k] \in TrustValues}
  IN [id |-> rule.id,
      if |-> [keys |-> ConditionKeys, expects |-> Restrict(rule.if, given)],
      then |-> Restrict(rule.then, DOMAIN rule.then \cap {"taint", "decision", "note"})]

ParseManifest(m) == [m EXCEPT !.rules = [i \in DOMAIN m.rules |-> ParseRule(m.rules[i])]]

-----------------------------------------------------------------------------
(* Validation of a parsed manifest. *)

Found(issue, there) == IF there THEN {issue} ELSE {}

SourceIssues(m) ==
  LET sources == DOMAIN m.trust_sources
  IN Found("no source", sources = {})
     \cup Found("all trusted", \A s \in sources : m.trust_sources[s].trust = "trusted")

ActionIssues(m) ==
  LET actions == DOMAIN m.actions
  IN Found("no action", actions = {})
     \cup Found("allowed from nowhere", \E a \in actions : m.actions[a].allowed_from = {})
     \cup Found("undefined source",
            \E a \in actions : ~(m.actions[a].allowed_from \subseteq DOMAIN m.trust_sources))

Decides(rule, decisions) == "decision" \in DOMAIN rule.then /\ rule.then.decision \in decisions

IsAbout(rule, action) == "action" \in DOMAIN rule.if.expects /\ rule.if.expects.action = action

RuleIssues(m) ==
  LET rules == {m.rules[i] : i \in DOMAIN m.rules}
  IN Found("no rule", rules = {})
     \cup Found("duplicate id",
            \E i, j \in DOMAIN m.rules : i # j /\ m.rules[i].id = m.rules[j].id)
     \cup Found("no condition", \E r \in rules : r.if.keys = {})
     \cup Found("undefined action",
            \E r \in rules : "action" \in DOMAIN r.if.expects
                             /\ r.if.expects.action \notin DOMAIN m.actions)
     \cup Found("unknown decision",
            \E r \in rules : "decision" \in DOMAIN r.then /\ ~Decides(r, PolicyDecisions))

\* An action with outside effects that no rule stops or asks about.
UngovernedActions(m) ==
  {a \in DOMAIN m.actions :
     /\ m.actions[a].effect = "external_side_effect"
     /\ ~\E i \in DOMAIN m.rules : Decides(m.rules[i], {"deny", "ask"}) /\ IsAbout(m.rules[i], a)}

ManifestWarnings ==
  {"all trusted", "allowed from nowhere", "no rule", "no condition", "undefined action",
   "ungoverned action"}

ValidateManifest(m) ==
  SourceIssues(m) \cup ActionIssues(m) \cup RuleIssues(m)
    \cup Found("ungoverned action", UngovernedActions(m) # {})

IsAccepted(m) == Parses(m) /\ ValidateManifest(ParseManifest(m)) \subseteq ManifestWarnings

-----------------------------------------------------------------------------
(* Compilation. *)

SetsTaint(rule) == "taint" \in DOMAIN rule.then /\ rule.then.taint
HasDecision(rule) == "decision" \in DOMAIN rule.then

\* Rules that only taint come first, those that do neither last.
CompileManifest(m) ==
  [world_id |-> m.world_id,
   version |-> m.version,
   trust_lookup |-> [s \in DOMAIN m.trust_sources |-> m.trust_sources[s].trust],
   taint_lookup |-> [s \in DOMAIN m.trust_sources |-> m.trust_sources[s].default_taint],
   action_registry |-> m.actions,
   rule_index |->
     SelectSeq(m.rules, LAMBDA r : SetsTaint(r) /\ ~HasDecision(r))
       \o SelectSeq(m.rules, HasDecision)
       \o SelectSeq(m.rules, LAMBDA r : ~SetsTaint(r) /\ ~HasDecision(r))]

\* What chrome.storage and the messages between pages make of a world: a key
\* whose value is undefined is gone.
ThroughStorage(world) ==
  LET stored(rule) == [rule EXCEPT !.if.keys = DOMAIN rule.if.expects]
  IN [world EXCEPT !.rule_index = [i \in DOMAIN @ |-> stored(@[i])]]

-----------------------------------------------------------------------------
(* Decisions.  An event is [source, hidden, taint], a context holds the     *)
(* value of every condition.                                               *)

Ruling(decision, rule) == [decision |-> decision, rule |-> rule]

TrustOf(world, source) ==
  IF source \in DOMAIN world.trust_lookup THEN world.trust_lookup[source] ELSE "untrusted"

DefaultTaint(world, source) ==
  source \in DOMAIN world.taint_lookup /\ world.taint_lookup[source]

\* A key that is there without a value matches nothing.
MatchConditions(conditions, context) ==
  \A k \in conditions.keys :
    k \in DOMAIN conditions.expects /\ conditions.expects[k] = context[k]

\* Pass 1: each rule sees the taint that those before it left.
PropagateTaint(world, context) ==
  FoldLeft(LAMBDA ctx, rule :
             IF SetsTaint(rule) /\ ~HasDecision(rule) /\ MatchConditions(rule.if, ctx)
             THEN [ctx EXCEPT !.taint = TRUE] ELSE ctx,
           context, world.rule_index)

\* Pass 3: no rule matched; allowed_from is not looked at.
DecideByEffect(effect, context) ==
  CASE effect = "read_only" -> Ruling("allow", "action_effect_read_only")
    [] effect = "internal_write" /\ context.trust = "untrusted" ->
         Ruling("ask", "action_effect_internal_write_untrusted")
    [] effect = "external_side_effect" /\ context.taint ->
         Ruling("deny", "action_effect_external_tainted")
    [] effect = "external_side_effect" /\ ~context.taint /\ context.trust = "untrusted" ->
         Ruling("ask", "action_effect_external_untrusted")
    [] OTHER -> Ruling("allow", "action_allowed_by_registry")

EvaluatePolicyFromWorld(world, event, action) ==
  LET context == PropagateTaint(world,
        [trust |-> TrustOf(world, event.source),
         taint |-> event.taint \/ DefaultTaint(world, event.source),
         action |-> action, hidden_content_detected |-> event.hidden])
      hits == {i \in DOMAIN world.rule_index :
                 /\ HasDecision(world.rule_index[i])
                 /\ MatchConditions(world.rule_index[i].if, context)}
  IN IF hits # {}
     THEN LET first == world.rule_index[Min(hits)] IN Ruling(first.then.decision, first.id)
     ELSE IF action \in DOMAIN world.action_registry
     THEN DecideByEffect(world.action_registry[action].effect, context)
     ELSE Ruling("simulate", "fallback_simulate_unknown")

\* The rules of the time before worlds.  A page, the only source there, is
\* never trusted.
EvaluatePolicyLegacy(event, action) ==
  CASE action = "summarize_page" -> Ruling("allow", "always_allow_summarize")
    [] action \in {"extract_links", "extract_action_items"} ->
         Ruling("allow", "allow_read_only_extraction")
    [] action = "export_summary" /\ event.taint ->
         Ruling("deny", "deny_export_for_tainted_content")
    [] action = "save_memory" -> Ruling("ask", "ask_before_memory_write_from_untrusted")
    [] action = "export_summary" /\ ~event.taint ->
         Ruling("ask", "ask_before_export_from_untrusted")
    [] OTHER -> Ruling("simulate", "fallback_simulate_unknown")

EvaluatePolicy(world, event, action) ==
  IF world = NoWorld THEN EvaluatePolicyLegacy(event, action)
  ELSE EvaluatePolicyFromWorld(world, event, action)

\* Simulation takes the effect of what is allowed and bypasses nothing.
ApplySimulationGuard(decision, simulation) ==
  IF simulation /\ decision = "allow" THEN "simulate" ELSE decision

-----------------------------------------------------------------------------
(* Comparing worlds. *)

\* What changed between two parsed manifests, rules by their ids.
Entries(m) == {m.rules[i] : i \in DOMAIN m.rules}

RuleOf(m, id) == m.rules[Max({i \in DOMAIN m.rules : m.rules[i].id = id})]

DiffWorlds(old, new) ==
  LET ids(m) == {r.id : r \in Entries(m)}
      kept == DOMAIN old.actions \cap DOMAIN new.actions
      sources == DOMAIN old.trust_sources \cap DOMAIN new.trust_sources
  IN [actions_added |-> DOMAIN new.actions \ DOMAIN old.actions,
      actions_removed |-> DOMAIN old.actions \ DOMAIN new.actions,
      actions_changed |-> {a \in kept : old.actions[a] # new.actions[a]},
      rules_added |-> ids(new) \ ids(old),
      rules_removed |-> ids(old) \ ids(new),
      rules_changed |-> {id \in ids(old) \cap ids(new) : RuleOf(old, id) # RuleOf(new, id)},
      trust_changes |->
        SymDiff(DOMAIN old.trust_sources, DOMAIN new.trust_sources)
          \cup {s \in sources : old.trust_sources[s] # new.trust_sources[s]}]

\* What of it the editor calls security impact.  A source that gains trust and a
\* decision that becomes "simulate" are none.
SecurityImpact(old, new) ==
  LET kept == DOMAIN old.actions \cap DOMAIN new.actions
      gains(a) == new.actions[a].allowed_from \ old.actions[a].allowed_from
      losses(a) == old.actions[a].allowed_from \ new.actions[a].allowed_from
      ids(m) == {r.id : r \in Entries(m)}
      shifts(from, to) == {id \in ids(old) \cap ids(new) :
                             Decides(RuleOf(old, id), from) /\ Decides(RuleOf(new, id), to)}
      downgraded == {s \in DOMAIN old.trust_sources \cap DOMAIN new.trust_sources :
                       /\ old.trust_sources[s].trust = "trusted"
                       /\ new.trust_sources[s].trust = "untrusted"}
  IN {<<"allowed", a>> : a \in {a \in kept : gains(a) # {}}}
     \cup {<<"no longer allowed", a>> : a \in {a \in kept : losses(a) # {}}}
     \cup {<<"removed", id>> : id \in {id \in ids(old) \ ids(new) :
                                         Decides(RuleOf(old, id), {"deny", "ask"})}}
     \cup {<<"relaxed", id>> : id \in shifts({"deny"}, {"ask"})
                                       \cup shifts({"deny", "ask"}, {"allow"})}
     \cup {<<"tightened", id>> : id \in shifts({"ask"}, {"deny"})}
     \cup {<<"downgraded", s>> : s \in downgraded}

IsNoDiff(diff) == \A part \in DOMAIN diff : diff[part] = {}

\* The decisions of a world in one context.
BuildSurface(world, event) ==
  [a \in IntentTypes |-> EvaluatePolicyFromWorld(world, event, a).decision]

\* Classes are tried in this order.  An action may be in none of them.
SurfaceDiff(a, b) ==
  LET class(i) ==
        CASE a[i] = b[i] -> "same"
          [] a[i] = "allow" /\ b[i] \in {"deny", "simulate"} -> "only_in_a"
          [] a[i] \in {"deny", "simulate"} /\ b[i] = "allow" -> "only_in_b"
          [] a[i] = "allow" /\ b[i] = "ask" -> "moved_to_ask_in_b"
          [] a[i] = "ask" /\ b[i] = "deny" -> "moved_to_deny_in_b"
          [] a[i] = "ask" /\ b[i] = "allow" -> "moved_to_allow_in_b"
          [] OTHER -> "none"
  IN [i \in IntentTypes |-> class(i)]

\* The engine's own effective taint takes hidden content for taint, whatever the
\* rules of the world say.
EvaluateScenario(world, event, action) ==
  [trust |-> TrustOf(world, event.source),
   taint |-> event.taint \/ event.hidden \/ DefaultTaint(world, event.source),
   ruling |-> EvaluatePolicyFromWorld(world, event, action)]

\* Where two worlds part in a scenario.
CompareWorlds(a, b, event, action) ==
  LET evalA == EvaluateScenario(a, event, action)
      evalB == EvaluateScenario(b, event, action)
  IN Found("decision", evalA.ruling.decision # evalB.ruling.decision)
     \cup Found("taint", evalA.taint # evalB.taint)
     \cup Found("trust", evalA.trust # evalB.trust)

-----------------------------------------------------------------------------
(* The presets that ship with the extension. *)

PageSources == {"web_page", "extension_ui", "user_manual_note"}

PresetManifest(world, memoryFrom, exportFrom, rules) ==
  [world_id |-> world, version |-> 1,
   trust_sources |-> [s \in PageSources |->
     [trust |-> IF s = "web_page" THEN "untrusted" ELSE "trusted", default_taint |-> FALSE]],
   actions |-> [a \in IntentTypes |->
     CASE a = "save_memory" -> [allowed_from |-> memoryFrom, effect |-> "internal_write"]
       [] a = "export_summary" -> [allowed_from |-> exportFrom, effect |-> "external_side_effect"]
       [] OTHER -> [allowed_from |-> PageSources, effect |-> "read_only"]],
   rules |-> rules]

ManifestRule(id, conditions, effects) == [id |-> id, if |-> conditions, then |-> effects]

HiddenTaints == ManifestRule("RULE-01", [hidden_content_detected |-> TRUE], [taint |-> TRUE])
TaintedExport(decision) ==
  ManifestRule("RULE-02", [taint |-> TRUE, action |-> "export_summary"], [decision |-> decision])
UntrustedSave(id, decision) ==
  ManifestRule(id, [trust |-> "untrusted", action |-> "save_memory"], [decision |-> decision])
UntrustedExport(decision) ==
  ManifestRule("RULE-04", [trust |-> "untrusted", action |-> "export_summary"],
               [decision |-> decision])

BalancedWorld ==
  PresetManifest("balanced-world", PageSources, PageSources,
    <<HiddenTaints, TaintedExport("deny"),
      ManifestRule("RULE-SM-HIDDEN",
        [hidden_content_detected |-> TRUE, action |-> "save_memory"], [decision |-> "deny"]),
      UntrustedSave("RULE-SM-UNTRUSTED", "ask"), UntrustedExport("ask")>>)

StrictWorld ==
  PresetManifest("strict-world", PageSources \ {"web_page"}, {"extension_ui"},
    <<HiddenTaints, TaintedExport("deny"), UntrustedSave("RULE-03", "deny"),
      UntrustedExport("deny")>>)

PermissiveWorld ==
  PresetManifest("permissive-world", PageSources, PageSources,
    <<HiddenTaints, TaintedExport("ask")>>)

QuarantineWorld ==
  PresetManifest("demo-world-memory-quarantine", PageSources, {"extension_ui"},
    <<HiddenTaints, TaintedExport("deny"), UntrustedSave("RULE-03", "ask"),
      UntrustedExport("deny")>>)
=============================================================================
