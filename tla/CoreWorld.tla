------------------------------ MODULE CoreWorld ------------------------------
(***************************************************************************)
(* The two small hypervisors: the core framework, whose world grows when a *)
(* user extends it, and the prototype that counts the files it opened.     *)
(***************************************************************************)
EXTENDS Integers, Sequences, FiniteSets, SequencesExt

CONSTANTS
  ActionTypes,     \* what may be proposed
  WorldActions,    \* action -> capabilities that it requires, in the manifest
  ExplicitRules,   \* action -> "allow" or "deny", in the manifest
  Capabilities,    \* trust level -> capabilities that it gives
  TrustChannels,   \* source -> "trusted", "untrusted", "derived" or "tainted"
  Sources,         \* where events come from, channels of the manifest or not
  Forbidden,       \* tools and arguments that the prototype's policy forbids
  AllowedTools,    \* tools that it allows
  MaxFilesOpened,  \* files that it lets be opened
  MaxGiven,        \* bound on the decisions that are remembered
  MaxChain         \* bound on the provenance chain of a proposal

VARIABLES
  mode,     \* of the core hypervisor: workflow, interactive, background
  world,    \* its manifest: actions, rules and capabilities
  given,    \* history variable: decisions about each action since its last extension
  opened    \* files that the prototype has opened

coreVars == <<mode, world, given, opened>>

Modes == {"workflow", "interactive", "background"}
Acts == {"external_side_effects"} \cup UNION {Capabilities[t] : t \in DOMAIN Capabilities}

\* A record of a provenance chain.
Origin(trust, tainted) == [trust |-> trust, tainted |-> tainted]

CoreInit ==
  /\ mode \in Modes
  /\ world = [actions |-> WorldActions, rules |-> ExplicitRules, capabilities |-> Capabilities]
  /\ given = {}
  /\ opened = 0

-----------------------------------------------------------------------------
(* Core framework *)

\* virtualize_input: a source that no channel names is not trusted, and hidden
\* content taints what comes from a trusted one.
ResolveTrust(source) ==
  IF source \in DOMAIN TrustChannels THEN TrustChannels[source] ELSE "untrusted"

VirtualizeInput(source, hidden) ==
  LET trust == ResolveTrust(source) IN Origin(trust, trust # "trusted" \/ hidden)

Tainted(chain) == \E i \in DOMAIN chain : chain[i].tainted

\* The latest record of a chain speaks for it, unless any of them is tainted.
EffectiveTrust(chain) ==
  IF Tainted(chain) THEN "tainted"
  ELSE IF chain # <<>> THEN chain[Len(chain)].trust
  ELSE "trusted"

Required(w, action) == IF action \in DOMAIN w.actions THEN w.actions[action] ELSE {}
Explicitly(w, action, verdict) == action \in DOMAIN w.rules /\ w.rules[action] = verdict

\* check_invariants: taint containment, and memory has a provenance.
BreaksLaw(w, action, chain) ==
  \/ Tainted(chain) /\ "external_side_effects" \in Required(w, action)
  \/ action = "write_memory" /\ chain = <<>>

Available(w, chain) ==
  LET trust == EffectiveTrust(chain)
  IN IF trust \in DOMAIN w.capabilities THEN w.capabilities[trust] ELSE {}

\* resolve: laws, explicit rules, capabilities, and the gap of the manifest.
Resolve(w, m, action, chain) ==
  IF BreaksLaw(w, action, chain) \/ Explicitly(w, action, "deny") THEN "deny"
  ELSE IF Explicitly(w, action, "allow") THEN "allow"
  ELSE IF action \notin DOMAIN w.actions
       THEN IF m = "background" THEN "deny" ELSE "ask"
  ELSE IF Required(w, action) \subseteq Available(w, chain) THEN "allow"
  ELSE IF m = "interactive" /\ Tainted(chain) THEN "ask"
  ELSE "deny"

\* A proposal comes with the origins of all that went into it.
EvaluateAction(action, chain) ==
  /\ Cardinality(given) < MaxGiven
  /\ given' = given \cup {[action |-> action, chain |-> chain,
                           decision |-> Resolve(world, mode, action, chain)]}
  /\ UNCHANGED <<mode, world, opened>>

\* Mutated: the extended world forgets its explicit rules.
ExtendForgetful(w, action, requires) ==
  [w EXCEPT !.actions = [a \in DOMAIN @ \cup {action} |->
                           IF a = action THEN requires ELSE @[a]],
            !.rules = [a \in {} |-> "deny"]]

\* extend: a new manifest, equal but for one action.
Extend(w, action, requires) ==
  [w EXCEPT !.actions = [a \in DOMAIN @ \cup {action} |->
                           IF a = action THEN requires ELSE @[a]]]

ExtendManifest(action, requires) ==
  /\ world' = Extend(world, action, requires)
  /\ given' = {g \in given : g.action # action}
  /\ UNCHANGED <<mode, opened>>

-----------------------------------------------------------------------------
(* Prototype *)

\* A forbidden pattern in the arguments or as the tool blocks, then a tool that
\* is not allowed, then the count of opened files.
EvaluateIntent(tool, args) ==
  LET blocked == \/ tool \in Forbidden \/ args \cap Forbidden # {}
                 \/ tool \notin AllowedTools
                 \/ tool = "read_file" /\ opened >= MaxFilesOpened
      counts == ~blocked /\ tool = "read_file"
  IN /\ opened' = opened + (IF counts THEN 1 ELSE 0)
     /\ UNCHANGED <<mode, world, given>>

Chains == UNION {[1 .. n -> {VirtualizeInput(s, h) : s \in Sources, h \in BOOLEAN}] :
                   n \in 0 .. MaxChain}

CoreNext ==
  \/ \E action \in ActionTypes, chain \in Chains : EvaluateAction(action, chain)
  \/ \E action \in ActionTypes, requires \in SUBSET Acts : ExtendManifest(action, requires)
  \/ \E tool \in AllowedTools \cup Forbidden, args \in SUBSET Forbidden :
       EvaluateIntent(tool, args)

CoreSpec == CoreInit /\ [][CoreNext]_coreVars

-----------------------------------------------------------------------------
(* Properties *)

\* What a user adds to a world changes nothing else in it: a decision stands
\* until its own action is extended; nobody is asked in the background; and as
\* long as an action has external effects, nothing that a source outside of the
\* trusted channels said, or that hid something, is let through to it.
DecisionsStand ==
  \A g \in given :
    /\ g.decision = Resolve(world, mode, g.action, g.chain)
    /\ mode = "background" => g.decision # "ask"
    /\ Tainted(g.chain) /\ "external_side_effects" \in Required(world, g.action) =>
         g.decision = "deny"
=============================================================================
