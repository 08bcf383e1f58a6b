--------------------------- MODULE ProvenanceRules ---------------------------
(***************************************************************************)
(* The two engines that decide a call of a tool by where its arguments come *)
(* from: the declarative policy (PolicyEngine) and the firewall of a task  *)
(* (ProvenanceFirewall), over a registry of values and their parents.      *)
(***************************************************************************)
EXTENDS Integers, Sequences, FiniteSets, SequencesExt

CONSTANTS
  ValueIds,      \* ids of values
  ValueKinds,    \* what a value may be, parents apart
  Tools,         \* tools that are called
  ArgNames,      \* names of their arguments
  PolicyRules,   \* the rules of the policy, in order
  Grants         \* the grants of the task, in order: [tool, allowed, confirm]

VARIABLE registry   \* id -> value, as registered last

NoArgument == "none"
Unconditional == "any"
Writers == {"write_file", "http_post"}

\* A value: its class, the roles it carries, whether its source label is
\* declared in the task as a source of recipients, and its parents.
ValueRef(kind, parents) ==
  [provenance |-> kind.provenance, roles |-> kind.roles, declared |-> kind.declared,
   parents |-> parents]

PolicyRule(verdict, tool, argument, provenance, role) ==
  [verdict |-> verdict, tool |-> tool, argument |-> argument, provenance |-> provenance,
   role |-> role]

ToolCall(tool, args) == [tool |-> tool, args |-> args]

RegistryInit == registry = [v \in {} |-> {}]

\* A value enters under a new id or takes the place of another: a parent may
\* be missing, and a chain may lead back to where it began.
Register(id, kind, parents) ==
  registry' = [v \in DOMAIN registry \cup {id} |->
                 IF v = id THEN ValueRef(kind, parents) ELSE registry[v]]

-----------------------------------------------------------------------------
(* Derivation *)

\* Mutated: the parents of a value, and no further.
ParentsOnly(values, id) == {id} \cup (values[id].parents \cap DOMAIN values)

\* resolve_chain: all known ancestors and the value itself; every round of the
\* walk reaches one generation more.
ResolveChain(values, id) ==
  LET generation[n \in Nat] ==
        IF n = 0 THEN {id}
        ELSE LET known == generation[n - 1]
             IN known \cup ((UNION {values[v].parents : v \in known}) \cap DOMAIN values)
  IN generation[Cardinality(DOMAIN values)]

Ancestry(id) == ResolveChain(registry, id)

-----------------------------------------------------------------------------
(* Policy *)

\* A condition on provenance or role is read only with an argument.
Matches(rule, call) ==
  /\ rule.tool \in {Unconditional, call.tool}
  /\ rule.argument # NoArgument =>
       /\ rule.argument \in DOMAIN call.args
       /\ LET chain == Ancestry(call.args[rule.argument])
          IN /\ rule.provenance \in {Unconditional} \cup {registry[v].provenance : v \in chain}
             /\ rule.role \in {Unconditional} \cup UNION {registry[v].roles : v \in chain}

Matching(call) == {i \in DOMAIN PolicyRules : Matches(PolicyRules[i], call)}

\* deny over ask over allow, and deny without a match.
PolicyVerdict(call) ==
  LET verdicts == {PolicyRules[i].verdict : i \in Matching(call)}
  IN IF verdicts = {} \/ "deny" \in verdicts THEN "deny"
     ELSE IF "ask" \in verdicts THEN "ask" ELSE "allow"

-----------------------------------------------------------------------------
(* Firewall *)

FromDocument(id) ==
  \E v \in Ancestry(id) : registry[v].provenance = "external_document"

\* Declared in the task by label, or by a role that the value carries itself.
DeclaredSource(id) ==
  \E v \in Ancestry(id) :
    /\ registry[v].provenance = "user_declared"
    /\ registry[v].declared \/ "recipient_source" \in registry[v].roles

\* The first grant about the tool; none of them, or one that does not allow.
NoGrant == [allowed |-> FALSE]

FindGrant(tool) ==
  LET about == {i \in DOMAIN Grants : Grants[i].tool = tool}
  IN IF about = {} THEN NoGrant
     ELSE Grants[CHOOSE i \in about : \A j \in about : i <= j]

Confirmed(grant) == IF grant.confirm THEN "ask" ELSE "allow"

\* RULE-01 and RULE-02 as the code has them: a declared source in the chain
\* outweighs a document in it.
CheckSendEmail(call) ==
  IF "to" \notin DOMAIN call.args \/ ~DeclaredSource(call.args["to"]) THEN "deny"
  ELSE Confirmed(FindGrant(call.tool))

\* Any argument from a document denies the call.
CheckSideEffect(call) ==
  IF \E a \in DOMAIN call.args : FromDocument(call.args[a]) THEN "deny"
  ELSE Confirmed(FindGrant(call.tool))

FirewallVerdict(call) ==
  CASE ~FindGrant(call.tool).allowed -> "deny"
    [] FindGrant(call.tool).allowed /\ call.tool = "send_email" -> CheckSendEmail(call)
    [] FindGrant(call.tool).allowed /\ call.tool \in Writers -> CheckSideEffect(call)
    [] OTHER -> "allow"

RegistryNext ==
  \E id \in ValueIds, kind \in ValueKinds : \E parents \in SUBSET (ValueIds \ {id}) :
    Register(id, kind, parents)

ProvenanceSpec == RegistryInit /\ [][RegistryNext]_registry

-----------------------------------------------------------------------------
(* Properties *)

\* "Provenance is sticky through derivation", RULE-03, as far as the engines keep
\* it: what a rule of the policy denies a value, the policy denies every value that
\* was derived from it, whatever else went into it, and so does the firewall for
\* write_file and http_post.  For send_email the firewall does not: a recipient
\* that it denies may pass once a declared source is mixed into it.
DenialsStick ==
  \A id \in DOMAIN registry : \A origin \in Ancestry(id) :
    \A tool \in Tools, arg \in ArgNames, other \in DOMAIN registry :
      LET Call(v) == ToolCall(tool, [a \in ArgNames |-> IF a = arg THEN v ELSE other])
          denies(v) == \E i \in Matching(Call(v)) : PolicyRules[i].verdict = "deny"
      IN /\ denies(origin) => PolicyVerdict(Call(id)) = "deny"
         /\ tool \in Writers /\ FirewallVerdict(Call(origin)) = "deny"
              => FirewallVerdict(Call(id)) = "deny"
=============================================================================
