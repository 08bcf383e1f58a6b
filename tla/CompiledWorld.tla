---------------------------- MODULE CompiledWorld ----------------------------
(***************************************************************************)
(* The compile phase of the runtime kernel: a world manifest and the       *)
(* policy it compiles to.  A manifest that names an unknown kind of trust, *)
(* taint, action or verdict does not compile; everything after the compile *)
(* phase is a lookup in the policy.                                        *)
(***************************************************************************)
EXTENDS Integers, Sequences, FiniteSets, SequencesExt

TaintStates == {"clean", "tainted"}
ActionTypes == {"internal", "external"}
TrustLevels == {"trusted", "untrusted"}
Verdicts == {"allow", "ask", "deny"}
ArgumentProvenances == {"external_document", "derived", "user_declared", "system"}

\* What a rule or a call leaves open.
Open == "*"

TaintRules == [taint : TaintStates, type : ActionTypes]
ProvenanceRules ==
  [tool : STRING, argument : STRING, provenance : ArgumentProvenances \cup {Open},
   verdict : Verdicts]

\* compile_world, without the file, its hash and the calibration constraints,
\* which nothing reads.
Compiles(manifest) ==
  /\ \A a \in DOMAIN manifest.actions : manifest.actions[a].type \in ActionTypes
  /\ manifest.capabilities \subseteq TrustLevels \X ActionTypes
  /\ manifest.taintRules \subseteq TaintRules
  /\ \A i \in DOMAIN manifest.trust : manifest.trust[i] \in TrustLevels
  /\ \A r \in manifest.provenanceRules :
       r.provenance \in ArgumentProvenances \cup {Open} /\ r.verdict \in Verdicts

ActionSpace(policy) == DOMAIN policy.actions

CanPerform(policy, trust, type) == <<trust, type>> \in policy.capabilities

\* Rules differ in their reason only; which of them is cited does not matter.
TaintRuleFor(policy, taint, type) == [taint |-> taint, type |-> type] \in policy.taintRules

\* An identity that the manifest does not name is untrusted.
ResolveTrust(policy, identity) ==
  IF identity \in DOMAIN policy.trust THEN policy.trust[identity] ELSE "untrusted"

\* An argument rule's provenance looks at the provenances of the whole chain; a
\* rule without an argument ignores them.
RuleMatches(rule, tool, argument, chain) ==
  /\ rule.tool \in {Open, tool}
  /\ rule.argument # Open =>
       /\ argument = rule.argument
       /\ rule.provenance \in {Open} \cup chain

\* The strictest verdict of the matching rules; none matches: deny.
EvaluateProvenance(policy, tool, argument, chain) ==
  LET found == {r.verdict : r \in {r \in policy.provenanceRules :
                                     RuleMatches(r, tool, argument, chain)}}
  IN IF "deny" \in found \/ found = {} THEN "deny"
     ELSE IF "ask" \in found THEN "ask" ELSE "allow"

SimulationBindingFor(policy, action) == action \in policy.simulated
=============================================================================
