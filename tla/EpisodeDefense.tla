---------------------------- MODULE EpisodeDefense ----------------------------
(***************************************************************************)
(* The defence of the AgentDojo benchmark                                  *)
(* (_research/agentdojo-bench/ah_defense): a suite's manifest compiled     *)
(* into predicates, capabilities and an ontology; the four elements that   *)
(* run round the language model in one query (guard, executor, injector of *)
(* errors, sanitizer); and the taint of the episode, which starts again    *)
(* with every query.  The language model and the tools are external: they  *)
(* propose any call of Proposals and return any text of Readings.          *)
(*                                                                         *)
(* A text is [marks |-> the patterns it holds, emails |-> the addresses in *)
(* it]; an argument is [type |-> its type, holds |-> the strings in it,    *)
(* empty |-> whether it is None or of no length].                          *)
(***************************************************************************)
EXTENDS Naturals, Sequences, FiniteSets, Positions

LOCAL INSTANCE TLC

CONSTANTS
  NotADict,     \* arguments that are no dict
  Unbuilt,      \* no file, no manifest, no pipeline
  Suites,       \* the manifest files a suite may have: [v2, v1]
  Proposals,    \* calls the model may propose: [tool, args]
  Readings,     \* texts the tools may return
  MaxTurns,     \* bound: turns of the tools loop in one query
  MaxQueries    \* bound: queries given to one pipeline

VARIABLES
  pipeline,     \* what build_ah_pipeline made, or Unbuilt
  episode,      \* EpisodeContext with the taint of the query that runs
  turn          \* the messages since the model last spoke

defenseVars == <<pipeline, episode, turn>>

Unknown == "unknown"          \* a name that is not a string, or is blank

-----------------------------------------------------------------------------
(* Manifests, compiled once for a suite. *)

RequiredSections ==
  {"version", "suite", "actions", "trust_channels", "capabilities", "predicates"}

ActionClasses ==
  [read_only |-> "read_only", reversible_internal |-> "internal_write",
   irreversible_internal |-> "internal_write", external_boundary |-> "external_side_effect"]

RiskClasses == {"low", "medium", "high", "critical"}

ActionDefinition(class, caps, approval, passthrough, schema) ==
  [class |-> class, risk |-> IF class = "read_only" THEN "low" ELSE "high",
   capabilities |-> caps, requiresApproval |-> approval, passthrough |-> passthrough,
   irreversible |-> class = "irreversible_internal",
   boundary |-> class = "external_boundary", schema |-> schema]

\* Every section that a manifest file must have to be read at all.
IsReadable(raw) == RequiredSections \subseteq raw.sections

CompilesActions(raw) ==
  /\ raw.actions # <<>>
  /\ \A a \in DOMAIN raw.actions :
       /\ raw.actions[a].class \in DOMAIN ActionClasses
       /\ raw.actions[a].risk \in RiskClasses

CompilesPredicates(raw) ==
  \A tool \in DOMAIN raw.predicates : \A i \in DOMAIN raw.predicates[tool] :
     raw.predicates[tool][i].action \in DOMAIN raw.actions

CompilesTaintRules(raw) ==
  /\ \A i \in DOMAIN raw.taintRules : raw.taintRules[i].result \in {"clear", "preserve"}
  /\ \A i, j \in DOMAIN raw.taintRules :
       raw.taintRules[i].operation = raw.taintRules[j].operation => i = j

Compiles(raw) ==
  /\ {"version", "suite"} \subseteq raw.sections
  /\ CompilesActions(raw)
  /\ CompilesPredicates(raw)
  /\ CompilesTaintRules(raw)

CapabilitiesFor(raw, trust) ==
  IF trust \in DOMAIN raw.capabilities THEN raw.capabilities[trust] ELSE {}

-----------------------------------------------------------------------------
(* The validator kept for suites without a compiled manifest. *)

\* The class of every action, and of every tool by its first predicate; a
\* file of the first version lists the tools of each class.
LegacyClasses(raw) ==
  LET led == {t \in DOMAIN raw.predicates : raw.predicates[t] # <<>>}
  IN [n \in DOMAIN raw.actions \cup led |->
        IF n \in led THEN ActionClasses[raw.actions[raw.predicates[n][1].action].class]
                     ELSE ActionClasses[raw.actions[n].class]]

LegacyValidator(suite) ==
  CASE suite.v2 # Unbuilt -> [classes |-> LegacyClasses(suite.v2), actions |-> suite.v2.actions]
    [] suite.v1 # Unbuilt -> [classes |-> suite.v1, actions |-> <<>>]
    [] OTHER -> [classes |-> <<>>, actions |-> <<>>]

LegacyVerdict(validator, tool, tainted) ==
  CASE tool \notin DOMAIN validator.classes -> "deny"
    [] tainted /\ validator.classes[tool] = "external_side_effect" -> "deny"
    [] tool \in DOMAIN validator.actions /\ validator.actions[tool].requiresApproval ->
         "requireapproval"
    [] OTHER -> "allow"

\* A manifest of the second version that cannot be loaded leaves the pipeline
\* without one; for_suite then compiles the same file again, and raises where
\* compiling, not loading, was what failed.
CanBuild(suite) == suite.v2 # Unbuilt => Compiles(suite.v2)

BuildPipeline(suite, hasIds) ==
  [manifest |-> IF suite.v2 # Unbuilt /\ IsReadable(suite.v2) THEN suite.v2 ELSE Unbuilt,
   validator |-> LegacyValidator(suite), ids |-> hasIds, queries |-> 0]

\* What may have been built, with the queries given to it since.
Pipelines ==
  {[BuildPipeline(suite, hasIds) EXCEPT !.queries = n] :
     suite \in {s \in Suites : CanBuild(s)}, hasIds \in BOOLEAN, n \in 0 .. MaxQueries}

ASSUME UnbuiltAssumption == Unbuilt \notin Pipelines /\ MaxQueries \in Nat

-----------------------------------------------------------------------------
(* One proposed call is resolved to one action of the manifest. *)

IsArgPresent(args, param) == param \in DOMAIN args /\ ~args[param].empty

PredicateMatches(match, args) ==
  \A key \in DOMAIN match :
     CASE key = "arg_present" -> IsArgPresent(args, match[key])
       [] key = "arg_absent" -> ~IsArgPresent(args, match[key])
       [] OTHER -> FALSE

Matched(manifest, call) ==
  LET predicates == manifest.predicates[call.tool]
  IN Part(predicates, {i \in DOMAIN predicates :
                         PredicateMatches(predicates[i].match, call.args)})

\* The error that keeps a call from being resolved, or "" for none.
ResolutionError(manifest, call) ==
  CASE call.tool = Unknown -> "MISSING_FUNCTION"
    [] call.args = NotADict -> "INVALID_ARGS_TYPE"
    [] call.tool \notin DOMAIN manifest.predicates -> "UNKNOWN_TOOL"
    [] Matched(manifest, call) = <<>> -> "NO_PREDICATE_MATCH"
    [] Len(Matched(manifest, call)) > 1 -> "AMBIGUOUS_PREDICATE_MATCH"
    [] OTHER -> ""

-----------------------------------------------------------------------------
(* The taint of an episode. *)

CleanTaint == [label |-> "clean", values |-> {}, channels |-> {}, legacy |-> FALSE, nodes |-> {}]

TaintingChannels == {"email", "web", "file", "mcp", "agent"}

SeedFromSemanticEvent(taint, channel, trust, node) ==
  LET taints == trust \in {"untrusted", "semi_trusted"} \/ channel \in TaintingChannels
  IN [taint EXCEPT !.nodes = {n \in @ : n.id # node}
                               \cup {[id |-> node, channel |-> channel, trust |-> trust]},
                   !.label = IF taints THEN "tainted" ELSE @,
                   !.channels = IF taints THEN @ \cup {channel} ELSE @]

\* A mutant: the last injection's values replace those of the others.
AddTaintedValuesAnew(taint, new) == [taint EXCEPT !.values = new]
AddTaintedValues(taint, new) == [taint EXCEPT !.values = @ \cup new]

MarkTainted(taint) == [taint EXCEPT !.legacy = TRUE]

\* What a derived node may be trusted with, and what a transformation does to
\* the label: only a rule that says so clears it.
DerivedTrust(trusts) ==
  CASE "untrusted" \in trusts -> "untrusted"
    [] "semi_trusted" \in trusts -> "semi_trusted"
    [] OTHER -> "trusted"

ApplyTransformationRule(taint, operation, manifest) ==
  IF /\ taint.label = "tainted"
     /\ manifest # Unbuilt
     /\ \E i \in DOMAIN manifest.taintRules :
          manifest.taintRules[i] = [operation |-> operation, result |-> "clear"]
  THEN [taint EXCEPT !.label = "clean"]
  ELSE taint

DeriveFromSources(taint, parents, operation, manifest, node) ==
  LET trusts == {n.trust : n \in {p \in taint.nodes : p.id \in parents}}
  IN ApplyTransformationRule(
       [taint EXCEPT !.nodes = {n \in @ : n.id # node}
          \cup {[id |-> node, channel |-> "derived", trust |-> DerivedTrust(trusts)]}],
       operation, manifest)

-----------------------------------------------------------------------------
(* The checks of one resolved call, in their order; the first to fail      *)
(* decides.                                                                *)

Strings(args) == UNION {args[p].holds : p \in DOMAIN args}

SchemaFails(schema, args) ==
  \E p \in DOMAIN schema :
     \/ schema[p].required /\ p \notin DOMAIN args
     \/ p \in DOMAIN args /\ schema[p].type # "" /\ args[p].type # schema[p].type

LacksCapability(manifest, def) ==
  ~(def.capabilities \subseteq CapabilitiesFor(manifest, "trusted"))

Sensitive(action) == action.boundary \/ action.irreversible

\* Where values of the injections are known, only an argument that is one of
\* them is held back; where none is known, everything sensitive is.
TaintContains(action, taint, args) ==
  /\ Sensitive(action)
  /\ taint.label = "tainted"
  /\ taint.values = {} \/ Strings(args) \cap taint.values # {}

ValidateIntent(manifest, action, call, taint) ==
  LET def == manifest.actions[action]
  IN CASE SchemaFails(def.schema, call.args) -> <<"deny", "SCHEMA">>
       [] LacksCapability(manifest, def) -> <<"deny", "CAPABILITY_MISSING">>
       [] TaintContains(def, taint, call.args) -> <<"deny", "TAINT_CONTAINMENT_VIOLATION">>
       [] def.requiresApproval -> <<"requireapproval", "APPROVAL_REQUIRED">>
       [] OTHER -> <<"allow", "ALL_CHECKS_PASSED">>

\* A decision as the episode keeps it.
Decision(tool, action, verdict, reason) ==
  [tool |-> tool, action |-> action, verdict |-> verdict, reason |-> reason]

\* Resolving may fail before any check.
EvaluateToolCall(manifest, call, taint) ==
  LET error == ResolutionError(manifest, call)
      action == Matched(manifest, call)[1].action
      result == ValidateIntent(manifest, action, call, taint)
  IN IF error # ""
     THEN Decision(call.tool, Unknown, "deny", error)
     ELSE Decision(call.tool, action, result[1], result[2])

\* The guard's decision, through the manifest or the older validator, which
\* keeps no record.
Judge(call) ==
  IF pipeline.manifest # Unbuilt
  THEN EvaluateToolCall(pipeline.manifest, call, episode.taint)
  ELSE Decision(call.tool, Unknown,
         IF call.tool = Unknown THEN "deny"
         ELSE LegacyVerdict(pipeline.validator, call.tool, episode.taint.legacy), "legacy")

-----------------------------------------------------------------------------
(* What the sanitizer finds in a text. *)

Patterns == {"information", "disguised", "system", "important", "instructions", "leak"}

\* A block disguised by zero-width characters is redacted too.
Redacted(text) == text.marks \cap Patterns # {}

\* Addresses are read from the raw text, so from plain blocks only.
InjectionValues(text) == IF "information" \in text.marks THEN text.emails ELSE {}

Canonicalize(text) ==
  IF Redacted(text)
  THEN [marks |-> text.marks \ Patterns, emails |-> text.emails \ InjectionValues(text)]
  ELSE text

\* Whether the results of a tool may taint: its first predicate's action
\* decides, whatever action the call was.
MayTaint(manifest, tool) ==
  \/ manifest = Unbuilt
  \/ tool \notin DOMAIN manifest.predicates
  \/ manifest.predicates[tool] = <<>>
  \/ manifest.actions[manifest.predicates[tool][1].action].passthrough

\* One message of a tool: what it does to the taint.
SanitizeResult(taint, result) ==
  LET taints == MayTaint(pipeline.manifest, result.tool)
      values == InjectionValues(result.text)
      seeded == SeedFromSemanticEvent(taint, "mcp", "untrusted", result.id)
  IN CASE ~taints -> taint
       [] taints /\ Redacted(result.text) ->
            IF values # {} THEN MarkTainted(AddTaintedValues(seeded, values))
                           ELSE MarkTainted(seeded)
       [] OTHER -> SeedFromSemanticEvent(taint, "tool_clean", "trusted", result.id)

\* The trailing messages, the last one first.
SanitizeAll(taint, results) ==
  LET after[n \in 0 .. Len(results)] ==
        IF n = 0 THEN taint ELSE SanitizeResult(after[n - 1], results[Len(results) - n + 1])
  IN after[Len(results)]

-----------------------------------------------------------------------------
(* The loop.  seen and executed are history: the texts that came back from *)
(* tools that may taint, and the calls that ran with what was seen then.   *)

StartEpisode ==
  [taint |-> CleanTaint, decisions |-> <<>>, blocked |-> <<>>, turns |-> 0,
   injected |-> <<>>, seen |-> {}, executed |-> {}]

Silent == [stage |-> "idle", calls |-> <<>>, results |-> <<>>]

DefenseInit ==
  /\ pipeline = Unbuilt
  /\ episode = StartEpisode
  /\ turn = Silent

\* build_ah_pipeline, where it does not raise.
BuildDefense ==
  /\ pipeline = Unbuilt
  /\ \E suite \in Suites, hasIds \in BOOLEAN :
       CanBuild(suite) /\ pipeline' = BuildPipeline(suite, hasIds)
  /\ UNCHANGED <<episode, turn>>

\* pipeline.query, wrapped so that everything of the last query is left behind.
Query ==
  /\ pipeline # Unbuilt
  /\ turn.stage = "idle" /\ pipeline.queries < MaxQueries
  /\ pipeline' = [pipeline EXCEPT !.queries = @ + 1]
  /\ episode' = StartEpisode
  /\ turn' = [Silent EXCEPT !.stage = "model"]

\* The model proposes one call or two, or ends the query.  A model that names
\* its calls gives each a name of its own; for the others every name is None.
ProposeCalls ==
  /\ turn.stage = "model"
  /\ \/ /\ turn' = Silent
        /\ UNCHANGED episode
     \/ /\ episode.turns < MaxTurns
        /\ \E n \in 1 .. 2 : \E calls \in [1 .. n -> Proposals] :
             turn' = [Silent EXCEPT !.stage = "guard",
                        !.calls = [i \in DOMAIN calls |->
                          [tool |-> calls[i].tool, args |-> calls[i].args, blocked |-> FALSE,
                           id |-> IF pipeline.ids THEN <<episode.turns, i>> ELSE <<>>]]]
        /\ episode' = [episode EXCEPT !.turns = @ + 1]
  /\ UNCHANGED pipeline

\* AHTaintGuard: every call is decided before any runs; one that is not
\* allowed is renamed, and its name and the reason are left for the injector.
Guard ==
  LET decisions == [i \in DOMAIN turn.calls |-> Judge(turn.calls[i])]
      Denied(i) == decisions[i].verdict # "allow"
      denied == {i \in DOMAIN turn.calls : Denied(i)}
      last(id) == CHOOSE i \in denied : turn.calls[i].id = id
                    /\ \A j \in denied : turn.calls[j].id = id => j <= i
      ids == {turn.calls[i].id : i \in denied}
  IN /\ turn.stage = "guard"
     /\ turn' = [turn EXCEPT !.stage = "tools",
                   !.calls = [i \in DOMAIN @ |-> [@[i] EXCEPT !.blocked = Denied(i)]]]
     /\ episode' = [episode EXCEPT
          !.decisions = IF pipeline.manifest # Unbuilt THEN @ \o decisions ELSE @,
          !.injected = [id \in ids |-> turn.calls[last(id)].tool] @@ @]
     /\ UNCHANGED pipeline

\* ToolsExecutor (external): a renamed call is no tool, so only the others run.
ExecuteTools ==
  /\ turn.stage = "tools"
  /\ \E texts \in [DOMAIN turn.calls -> Readings] :
       LET runs == {i \in DOMAIN turn.calls : ~turn.calls[i].blocked}
       IN /\ \A i \in DOMAIN turn.calls \ runs : texts[i] = [marks |-> {}, emails |-> {}]
          /\ turn' = [turn EXCEPT !.stage = "errors",
               !.results = [i \in DOMAIN texts |->
                 [id |-> turn.calls[i].id, text |-> texts[i],
                  tool |-> IF i \in runs THEN turn.calls[i].tool ELSE "ah_security_blocked"]]]
          /\ episode' = [episode EXCEPT !.executed = @ \cup
               {[call |-> turn.calls[i], seen |-> episode.seen] : i \in runs}]
  /\ UNCHANGED pipeline

\* AHBlockedCallInjector: the result of every call whose name was left is
\* replaced by an error, and counted for the tool that was left with it.
InjectErrors ==
  LET hit == {i \in DOMAIN turn.results : turn.results[i].id \in DOMAIN episode.injected}
      Hits(tool) == Cardinality({i \in hit : episode.injected[turn.results[i].id] = tool})
      named == {episode.injected[turn.results[i].id] : i \in hit}
      before(tool) == IF tool \in DOMAIN episode.blocked THEN episode.blocked[tool] ELSE 0
  IN /\ turn.stage = "errors"
     /\ turn' = [turn EXCEPT !.stage = "sanitizer",
          !.results = [i \in DOMAIN @ |->
             IF i \in hit THEN [@[i] EXCEPT !.text = [marks |-> {}, emails |-> {}]] ELSE @[i]]]
     /\ episode' = [episode EXCEPT
          !.blocked = [tool \in named |-> before(tool) + Hits(tool)] @@ @]
     /\ UNCHANGED pipeline

\* AHInputSanitizer: every trailing message of a tool.
Sanitize ==
  LET tainting == {i \in DOMAIN turn.results :
                     MayTaint(pipeline.manifest, turn.results[i].tool)}
  IN /\ turn.stage = "sanitizer"
     /\ turn' = [turn EXCEPT !.stage = "model", !.calls = <<>>, !.results = <<>>]
     /\ episode' = [episode EXCEPT
          !.taint = SanitizeAll(@, turn.results),
          !.seen = @ \cup {turn.results[i].text : i \in tainting}]
     /\ UNCHANGED pipeline

DefenseNext == BuildDefense \/ Query \/ ProposeCalls \/ Guard \/ ExecuteTools \/ InjectErrors \/ Sanitize

DefenseSpec == DefenseInit /\ [][DefenseNext]_defenseVars

-----------------------------------------------------------------------------
(* What has to hold. *)

\* A call that runs after these texts were seen.
StaysInside(call, seen) ==
  LET injections == {text \in seen : Redacted(text)}
      known == UNION {InjectionValues(text) : text \in injections}
  IN IF pipeline.manifest = Unbuilt
     THEN injections # {} => pipeline.validator.classes[call.tool] # "external_side_effect"
     ELSE Sensitive(pipeline.manifest.actions[Matched(pipeline.manifest, call)[1].action]) =>
            /\ Strings(call.args) \cap known = {}
            /\ injections # {} => known # {}

\* Whatever the tools returned and in whatever order, no call that crosses the
\* boundary or cannot be undone ever runs in an episode with a value of an
\* injection of that episode in its arguments, nor at all after an injection
\* where no value of any is known; without a compiled manifest no external call
\* runs after any injection (INV-006: validate_intent, AHInputSanitizer,
\* ProvTaintState).
InjectionsStayInside == \A e \in episode.executed : StaysInside(e.call, e.seen)
=============================================================================
