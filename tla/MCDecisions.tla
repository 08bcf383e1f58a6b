----------------------------- MODULE MCDecisions -----------------------------
(***************************************************************************)
(* A small instance of Decisions for TLC.                                  *)
(***************************************************************************)
EXTENDS Decisions

LOCAL INSTANCE Bags
LOCAL INSTANCE BagsExt

CONSTANTS plain, star, bracket, here, there

\* Compiled boundary: two tools; two manifests of version 1, of which one gates
\* what the other leaves to the defaults, and one of version 2.
MCActions == {"read", "send"}
MCSideEffects == {"external_read", "external_write"}
MCTargets == {"output", "memory_entry"}

MCEffects == [read |-> {"external_read"}, send |-> {"external_write"}]
MCMatrix == [l \in Level |-> IF l = "UNTRUSTED" THEN {"external_read"} ELSE MCSideEffects]
MCLimits == [c \in {"actions"} \cup MCSideEffects \cup MCActions |->
               IF c = "actions" THEN 2 ELSE IF c = "external_write" THEN 1 ELSE NoLimit]

Flawed(flaw) ==
  [Manifest("2", MCEffects, MCMatrix, <<>>, <<>>, <<>>, MCLimits) EXCEPT !.flaws = {flaw}]

MCManifests ==
  { Manifest("1", MCEffects, MCMatrix, <<Rule("UNTRUSTED", "output", "review")>>, <<>>,
             <<Escalation(Anything, "tainted", "SEMI_TRUSTED", "require_approval")>>, MCLimits),
    Manifest("1", MCEffects, MCMatrix, <<Rule("UNTRUSTED", "output", None)>>, <<>>,
             <<Escalation("send", Anything, Anything, "allow")>>, MCLimits),
    Manifest("2", MCEffects, MCMatrix, <<>>,
             <<Policy("SEMI_TRUSTED", "out", FALSE, "auto")>>, <<>>, MCLimits),
    Flawed("unknown actor tier"), Flawed("budget not positive"),
    Flawed("capabilities not a list") }

\* Provenance: one value of each kind that the engines tell apart.
Kind(provenance, roles, declared) ==
  [provenance |-> provenance, roles |-> roles, declared |-> declared]

MCValueKinds ==
  { Kind("external_document", {}, FALSE), Kind("derived", {"recipient_source"}, FALSE),
    Kind("user_declared", {}, TRUE), Kind("user_declared", {"recipient_source"}, FALSE) }

MCPolicyRules ==
  << PolicyRule("allow", Unconditional, NoArgument, Unconditional, Unconditional),
     PolicyRule("ask", "send_email", "to", "user_declared", Unconditional),
     PolicyRule("deny", "write_file", "body", "external_document", Unconditional),
     PolicyRule("deny", "send_email", "to", Unconditional, "recipient_source"),
     PolicyRule("deny", "send_email", "body", "external_document", Unconditional) >>

MCGrants ==
  << [tool |-> "send_email", allowed |-> TRUE, confirm |-> TRUE],
     [tool |-> "write_file", allowed |-> TRUE, confirm |-> FALSE],
     [tool |-> "write_file", allowed |-> FALSE, confirm |-> FALSE] >>

\* Workflows: a path that fits itself, one that fits every path, one that fits
\* none.
MCFitting == {<<plain, plain>>} \cup {<<star, p>> : p \in {plain, star, bracket}}
MCStarting == {<<plain, plain>>}
MCHandWritten ==
  { << [tool |-> "git_push", constraints |-> [remotes |-> {plain}]],
       [tool |-> "read_file", constraints |-> [commands |-> {plain}]] >> }

\* Core world: an action with external effects, one without, one that the world
\* does not have and memory.
MCWorldActions == [mail |-> {"external_side_effects"}, write_memory |-> {"memory"}]
MCExplicitRules == [mail |-> "allow", purge |-> "deny"]
MCCapabilities == [trusted |-> {"memory", "external_side_effects"}, tainted |-> {"read"}]
MCTrustChannels == [user |-> "trusted", report |-> "derived"]

\* Defence: a tool that reads what others write, one whose results never taint,
\* one that is two actions by its arguments and one that cannot be undone.
MCOntology ==
  [read |-> ActionDefinition("read_only", {}, FALSE, TRUE, <<>>),
   mail |-> ActionDefinition("external_boundary", {"external"}, FALSE, TRUE,
              [to |-> [required |-> TRUE, type |-> "str"]]),
   draft |-> ActionDefinition("reversible_internal", {}, FALSE, FALSE, <<>>),
   wipe |-> ActionDefinition("irreversible_internal", {}, TRUE, FALSE, <<>>)]

V2(sections, actions, result) ==
  [sections |-> sections, actions |-> actions,
   predicates |->
     [read |-> <<[action |-> "read", match |-> <<>>]>>,
      wipe |-> <<[action |-> "wipe", match |-> <<>>]>>,
      mail |-> <<[action |-> "mail", match |-> [arg_present |-> "to"]],
                 [action |-> "draft", match |-> [arg_absent |-> "to"]]>>],
   capabilities |-> [trusted |-> {"external"}],
   taintRules |-> <<[operation |-> "quote", result |-> "preserve"],
                    [operation |-> "summarize", result |-> result]>>]

MCSuites ==
  { [v2 |-> V2(RequiredSections, MCOntology, "preserve"), v1 |-> Unbuilt],
    [v2 |-> V2(RequiredSections \ {"trust_channels"}, MCOntology, "clear"), v1 |-> Unbuilt],
    [v2 |-> V2(RequiredSections, MCOntology, "forget"), v1 |-> Unbuilt],
    [v2 |-> Unbuilt, v1 |-> [read |-> "read_only", mail |-> "external_side_effect"]] }

Argument(address) == [type |-> "str", holds |-> {address}, empty |-> FALSE]

MCProposals ==
  { [tool |-> "read", args |-> <<>>], [tool |-> "wipe", args |-> <<>>],
    [tool |-> "mail", args |-> [to |-> Argument("stranger")]],
    [tool |-> "mail", args |-> [to |-> Argument("friend")]],
    [tool |-> Unknown, args |-> <<>>] }

MCReadings ==
  { [marks |-> {}, emails |-> {}],
    [marks |-> {"information"}, emails |-> {"stranger"}],
    [marks |-> {"information", "leak"}, emails |-> {"nobody"}],
    [marks |-> {"disguised"}, emails |-> {"stranger"}] }

-----------------------------------------------------------------------------
(* Facts about the operators that no action needs. *)

\* What ahc validate says of a manifest of version 2 foretells ahc build but for
\* the flaws that the loader alone looks at; a manifest of version 1 is
\* validated and never built.
ASSUME ValidationForetellsBuild ==
  /\ \A flaw \in CheckedByBoth \cup LoadedOnly \cup ValidatedOnly :
       Valid(Flawed(flaw)) => (Builds(Flawed(flaw)) <=> flaw \notin LoadedOnly)
                             /\ Emits(Flawed(flaw))
  /\ \A m \in MCManifests : m.version = "1" => Valid(m) /\ ~Builds(m)

\* A text is redacted at once: nothing that the sanitizer looks for is left, and
\* a second time changes nothing (sanitizer.canonicalize).
ASSUME RedactedAtOnce ==
  \A marks \in SUBSET (Patterns \cup {"harmless"}), emails \in SUBSET {"stranger", "friend"} :
    LET clean == Canonicalize([marks |-> marks, emails |-> emails])
    IN ~Redacted(clean) /\ Canonicalize(clean) = clean

\* Nothing derived is trusted more than the least trusted of what it is derived
\* from, and only a rule that says so clears the label (derive_from_sources).
MCSources ==
  {[id |-> "page", channel |-> "web", trust |-> "untrusted"],
   [id |-> "mail", channel |-> "email", trust |-> "semi_trusted"],
   [id |-> "task", channel |-> "user", trust |-> "trusted"]}

ASSUME DerivedKeepsTaint ==
  \A parents \in SUBSET {"page", "mail", "task"}, operation \in {"quote", "summarize"},
     suite \in {s \in MCSuites : s.v2 # Unbuilt}, label \in {"clean", "tainted"} :
    LET before == [CleanTaint EXCEPT !.nodes = MCSources, !.label = label]
        after == DeriveFromSources(before, parents, operation, suite.v2, "new")
        derived == CHOOSE n \in after.nodes : n.id = "new"
    IN /\ "page" \in parents => derived.trust = "untrusted"
       /\ derived.trust = "trusted" => parents \subseteq {"task"}
       /\ after.label # label =>
            \E i \in DOMAIN suite.v2.taintRules :
              suite.v2.taintRules[i] = [operation |-> operation, result |-> "clear"]

\* Tuner: mail allowed with any provenance, mail asked about and then approved or
\* rejected by one of two reviewers, reads denied; each under two policies.
Tuner(logs) ==
  INSTANCE PolicyTuner WITH
    traces <- logs.traces, approvals <- logs.approvals, versions <- logs.versions,
    SideEffectTools <- {"send_email"}, Actors <- {"ann", "bob"},
    MinRepeat <- 3, MinDiversity <- 3

Logged(tool, provenance, rule, verdict, version) ==
  [shape |-> [tool |-> tool, provenance |-> provenance],
   rule |-> rule, verdict |-> verdict, version |-> version]

MCTraces ==
  {Logged("send_email", [body |-> c], "mail", "allow", v) :
     c \in {"external_document", "derived", "user_declared"}, v \in {1, 2}}
  \cup {Logged("send_email", <<>>, "unsure", "ask", v) : v \in {1, 2}}
  \cup {Logged("send_email", <<>>, "approval:approved", "allow", 2),
        Logged("read_file", [path |-> "derived"], "closed", "deny", 2)}

MCPending ==
  {[shape |-> [tool |-> "send_email", provenance |-> <<>>], rule |-> "unsure",
    version |-> v, status |-> "pending", actor |-> ""] : v \in {1, 2}}

ResolvedBy(a, status, actor) == [a EXCEPT !.status = status, !.actor = actor]

MCApprovals ==
  MCPending \cup {ResolvedBy(a, status, actor) :
     a \in MCPending, status \in {"executed", "rejected"}, actor \in {"ann", "bob"}}

FewKinds(records) ==
  UNION {[kinds -> 1 .. 3] : kinds \in {K \in SUBSET records : Cardinality(K) <= 2}}

MCLogs ==
  {[traces |-> bag, approvals |-> <<>>, versions |-> 2] : bag \in FewKinds(MCTraces)}
  \cup {[traces |-> <<>>, approvals |-> bag, versions |-> 2] : bag \in FewKinds(MCApprovals)}

\* One more record, one that is resolved, one more policy.
Grown(logs) ==
  {[logs EXCEPT !.traces = BagAdd(@, t)] : t \in MCTraces}
  \cup {[logs EXCEPT !.approvals = BagAdd(@, a)] : a \in MCPending}
  \cup {[logs EXCEPT !.approvals = BagAdd(BagRemove(@, a), ResolvedBy(a, status, actor))] :
          a \in BagToSet(logs.approvals) \cap MCPending,
          status \in {"executed", "rejected"}, actor \in {"ann", "bob"}}
  \cup {[logs EXCEPT !.versions = 3]}

\* What a report says stays said however much more is logged, a record resolved
\* or a policy loaded, and the advice of a signal stays in the report with it;
\* only the two remarks about a share of the whole can be taken back
\* (PolicyAnalyzer.analyze, SuggestionGenerator.generate).
ASSUME ReportsOnlyGrow ==
  \A logs \in MCLogs :
    LET signals == Tuner(logs)!Lasting(Tuner(logs)!Signals)
        smells == Tuner(logs)!Lasting(Tuner(logs)!Smells)
    IN \A more \in Grown(logs) :
         /\ signals \subseteq Tuner(more)!Signals
         /\ smells \subseteq Tuner(more)!Smells
         /\ \A s \in signals : \A a \in Tuner(logs)!SignalAdvice[s.kind] :
              Tuner(more)!Advice(s, a) \in Tuner(more)!Suggestions

-----------------------------------------------------------------------------
(* Bounds on what the core world and a build may go through. *)

Extended ==
  {a \in DOMAIN world.actions :
     a \notin DOMAIN MCWorldActions \/ world.actions[a] # MCWorldActions[a]}

FewOfEach ==
  /\ Cardinality(Extended) <= 1
  /\ opened # 0 => given = {} /\ Extended = {}
  /\ engine # Missing => \E m \in MCManifests : m.flaws = {} /\ {b[1] : b \in built} = {m}
  /\ Cardinality(built) <= 2
  /\ episode.turns = MaxTurns => Len(turn.calls) <= 1
=============================================================================
