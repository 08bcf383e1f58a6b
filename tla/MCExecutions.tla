----------------------------- MODULE MCExecutions -----------------------------
(***************************************************************************)
(* A small instance of Executions for TLC.                                 *)
(***************************************************************************)
EXTENDS Executions

CONSTANTS read, send, pay, user, web, cheap, large, unpriced, mail

MCActions ==
  [a \in {read, send, pay} |->
     [type |-> IF a = read THEN "internal" ELSE "external", approval |-> a = pay]]

MCWorld ==
  [actions |-> MCActions,
   capabilities |-> {<<"trusted", "internal">>, <<"trusted", "external">>,
                     <<"untrusted", "internal">>},
   taintRules |-> {[taint |-> "tainted", type |-> "external"]},
   trust |-> [i \in {user} |-> "trusted"],
   provenanceRules |-> {},
   simulated |-> {send}]

\* A world with an action that the worker has no handler for, one whose kinds
\* are misspelt, and one without taint rules that lacks an action.
MCManifests ==
  {MCWorld,
   [MCWorld EXCEPT !.actions = [a \in {read, send, pay, mail} |->
      [type |-> "internal", approval |-> FALSE]]],
   [MCWorld EXCEPT !.trust = [i \in {user} |-> "friend"]]}

MCRegistry == {read, send, pay}
MCToolMap == [t \in {read, send, pay} |-> t]

MCPricing ==
  [m \in {cheap, large} |-> IF m = cheap THEN [input |-> 1, output |-> 1]
                            ELSE [input |-> 2, output |-> 4]]
MCToolCosts == [t \in {mail} |-> 10]

Request(action, identity, taint, llm, role) ==
  [tool |-> action, action |-> action, identity |-> identity, taint |-> taint,
   llm |-> llm, role |-> role, source |-> "user"]

\* Estimates of 144, 204, and 72, 72 and 192 for a role that may spend 60 on a
\* request.
MCRequests ==
  { Request(read, web, "tainted", NoCall, "*"),
    Request(send, user, "clean", NoCall, "*"),
    Request(send, web, "clean", NoCall, "*"),
    Request(pay, user, "clean", NoCall, "*"),
    Request(mail, user, "clean", NoCall, "*"),
    Request(send, user, "clean", LlmCall(large, 4, 4, ""), "*"),
    Request(read, user, "clean", LlmCall(large, 4, 4, mail), "*"),
    Request(read, user, "clean", LlmCall(cheap, 4, 8, ""), "intern"),
    Request(read, user, "clean", LlmCall(cheap, 10, 2, ""), "intern"),
    Request(read, user, "clean", LlmCall(large, 6, 5, ""), "intern"),
    Request(read, user, "clean", LlmCall(unpriced, 4, 4, ""), "*") }

MCBudget == [request |-> 150, session |-> 200]
MCRoleBudgets == {[role |-> "intern", source |-> "*", request |-> 60]}

\* Sandbox: programs that end, raise, never end, keep the interpreter and are
\* refused.
MCPlanRequests ==
  {[source |-> Source({}, body), workflow |-> NoSource, text |-> TRUE] :
     body \in {<<"first", "second">>, <<"first", "raise">>, <<"first", "spin">>,
              <<"first", "hold">>}}
  \cup {[source |-> Source({"import"}, <<"first">>), workflow |-> NoSource, text |-> TRUE]}
  \cup {[source |-> NoSource, workflow |-> w, text |-> t] :
          w \in {"count_lines", NoSource}, t \in BOOLEAN}

\* Browser: a page that can change under its url and another one; a preset, a
\* world that trusts pages and conditions on something else than the action, and
\* a manifest that does not validate.
MCPages == [url : {"here"}, hidden : BOOLEAN] \cup {[url |-> "there", hidden |-> FALSE]}

MCTrustingWorld ==
  [PermissiveWorld EXCEPT
     !.world_id = "trusting-world",
     !.trust_sources["web_page"].trust = "trusted",
     !.rules = <<ManifestRule("RULE-01", [source |-> "web_page", hidden_content_detected |-> TRUE],
                              [decision |-> "deny"])>>]

MCDuplicates == [StrictWorld EXCEPT !.rules = @ \o @]

MCWritten == {MCTrustingWorld, MCDuplicates}
MCDrafts == {MCTrustingWorld}

\* Benchmark: an attack of two steps of which the last comes from the web, and a
\* harmless request of the same manifest; a policy that denies what comes from
\* documents and asks before sending, and one that allows all but what it cannot
\* evaluate.
Step(tool, args, channel) == [tool |-> tool, args |-> args, channel |-> channel]

MCFixtures ==
  [ poisoned |-> [class |-> "attack", manifest |-> "mail", channel |-> "user",
                  steps |-> <<Step("read", "inbox", None), Step("send", "secret", "web")>>,
                  expected |-> "deny"],
    inbox |-> [class |-> "safe", manifest |-> "mail", channel |-> "user",
               steps |-> <<Step("read", "inbox", None)>>, expected |-> "allow"] ]

MCListing == <<"poisoned", "inbox">>

MCEngineVerdict ==
  LET asked == {"read", "send"} \X {"inbox", "secret", NoArgs}
               \X {"external_document", "derived", "system", "user_declared"}
  IN  [ strict |-> [c \in asked |-> IF c[3] = "external_document" THEN "deny"
                                    ELSE IF c[1] = "send" THEN "ask" ELSE "allow"],
        lax |-> [c \in asked |-> IF c[2] = NoArgs THEN "error" ELSE "allow"] ]

-----------------------------------------------------------------------------
(* Facts about the operators that no action needs. *)

\* A percentile lies between the least and the greatest cost, and a higher one
\* is never less (CostProfileStore.percentile).
ASSUME PercentilesOrdered ==
  \A n \in 1 .. 3 : \A costs \in [1 .. n -> 0 .. 3] : \A p, q \in {0, 33, 50, 95, 100} :
    LET seen == {costs[i] : i \in 1 .. n}
    IN p <= q =>
         /\ 100 * LeastOf(seen) <= Percentile(costs, p)
         /\ Percentile(costs, p) <= Percentile(costs, q)
         /\ \E c \in seen : Percentile(costs, q) <= 100 * c

\* What a hint proposes fits the limit, but that switching the model leaves out
\* what a tool costs and splitting the task promises nothing (build_replan_hint).
ASSUME HintsFit ==
  \A model \in {cheap, large, unpriced}, tokens, cap \in 0 .. 6, tool \in {"", mail},
     limit \in {0, 20, 60, 100, 140} :
    LET hint == ReplanHint(EstimateLlmCost(LlmCall(model, tokens, cap, tool)), limit)
        tools == IF hint.kind = "switch_model" THEN ToolCost(tool) * MultiplierNum ELSE 0
    IN hint.kind # "split_into_subtasks" =>
         Within(EstimateLlmCost(hint.call), limit + tools)

\* More rules, or a longer chain of provenances, never loosen a verdict that
\* some rule gave (evaluate_provenance).
Strictness(verdict) == CASE verdict = "allow" -> 0 [] verdict = "ask" -> 1 [] OTHER -> 2

MCProvenanceRules ==
  [tool : {Open, "mail"}, argument : {Open, "to"}, provenance : {Open, "derived"},
   verdict : {"allow", "ask"}]

ASSUME MoreIsStricter ==
  \A few, added \in {R \in SUBSET MCProvenanceRules : Cardinality(R) <= 2},
     chain \in {{"system"}, {"derived"}} :
    LET policy(rules) == [provenanceRules |-> rules]
        verdict == EvaluateProvenance(policy(few), "mail", "to", chain)
        longer == EvaluateProvenance(policy(few \cup added), "mail", "to", chain \cup {"derived"})
    IN verdict # "deny" => Strictness(longer) >= Strictness(verdict)

Runtime(manifest) == ThroughStorage(CompileManifest(ParseManifest(manifest)))

MCWorlds ==
  {BalancedWorld, StrictWorld, PermissiveWorld, QuarantineWorld, MCTrustingWorld,
   [BalancedWorld EXCEPT !.rules = Reverse(@)],
   [StrictWorld EXCEPT !.world_id = "another name"]}

Events == [source : PageSources, hidden : BOOLEAN, taint : BOOLEAN]

\* The balanced preset decides as the rules before worlds did about every page,
\* but for memory of a page with hidden content (presets.ts).
ASSUME BalancedReproducesLegacy ==
  \A hidden \in BOOLEAN, intent \in IntentTypes :
    LET page == Ingest([hidden |-> hidden])
    IN (EvaluatePolicy(Runtime(BalancedWorld), page, intent).decision
          # EvaluatePolicyLegacy(page, intent).decision) <=> hidden /\ intent = "save_memory"

\* A diff that shows nothing has no security impact, and the worlds decide alike
\* unless they have the same rules in another order (diffWorlds, isNoDiff).
ASSUME DiffsShowDecisions ==
  \A a, b \in MCWorlds :
    IsNoDiff(DiffWorlds(ParseManifest(a), ParseManifest(b))) =>
      /\ SecurityImpact(ParseManifest(a), ParseManifest(b)) = {}
      /\ a.rules = b.rules => \A event \in Events :
           /\ BuildSurface(Runtime(a), event) = BuildSurface(Runtime(b), event)
           /\ \A intent \in IntentTypes :
                CompareWorlds(Runtime(a), Runtime(b), event, intent) = {}

\* The surface diff has a place for all that changes but between "simulate" and
\* "ask" or "deny", and from "deny" to "ask" (buildSurfaceDiff).
ASSUME SurfaceDiffLeavesOut ==
  \A x, y \in PolicyDecisions :
    LET surface(d) == [a \in IntentTypes |-> d]
    IN SurfaceDiff(surface(x), surface(y))["save_memory"] = "none" <=>
         \/ x # y /\ "simulate" \in {x, y} /\ "allow" \notin {x, y}
         \/ x = "deny" /\ y = "ask"
=============================================================================
