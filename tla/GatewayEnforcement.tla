-------------------------- MODULE GatewayEnforcement --------------------------
(***************************************************************************)
(* The pure part of the MCP gateway: linking rules that pick a profile     *)
(* from a session's signals, the surface a world shows, and the decision   *)
(* about one call.                                                         *)
(*                                                                         *)
(* A world has tools, and open tools, whose constraints admit the call's   *)
(* arguments whatever they are; arguments are "fine" or "off" (outside the *)
(* constraints of a tool that is not open).                                *)
(***************************************************************************)
EXTENDS Integers, Sequences, FiniteSets, SequencesExt

CONSTANTS
  Tools,
  Adapters,        \* tools with an adapter in the registry
  PolicyVerdict,   \* tool -> what the policy engine says of a call of it
  Profiles

ASSUME AdaptersAssumption == Adapters \subseteq Tools
ASSUME PolicyAssumption == PolicyVerdict \in [Tools -> {"allow", "ask", "deny"}]

Levels == <<"clean", "elevated", "high">>

TaintIndex(level) == CHOOSE i \in DOMAIN Levels : Levels[i] = level

Worlds == [tools : SUBSET Tools, open : SUBSET Tools]
Arguments == {"fine", "off"}

-----------------------------------------------------------------------------
(* Linking rules: a level, a verdict and a least count that the signals    *)
(* must have, each of which may be left out; a default has none.           *)

Left == "*"

LinkingRule(level, verdict, count, profile) ==
  [level |-> level, verdict |-> verdict, count |-> count, profile |-> profile]

Matches(rule, context) ==
  /\ rule.level \in {Left, context.level}
  /\ rule.verdict \in {Left, context.verdict}
  /\ context.count >= rule.count

\* The first rule that matches.
Evaluate(rules, context) ==
  LET matching == {i \in DOMAIN rules : Matches(rules[i], context)}
  IN IF matching = {} THEN "none"
     ELSE rules[CHOOSE i \in matching : \A j \in matching : i <= j].profile

-----------------------------------------------------------------------------
(* Surface and enforcement *)

Render(world) == world.tools \cap Adapters

Allows(world, tool, args) ==
  tool \in world.tools /\ (args = "fine" \/ tool \in world.open)

\* Mutated: the policy engine is asked last, and only denies.
EnforcePolicyLast(world, tool, args) ==
  IF tool \notin world.tools THEN "tool_not_declared"
  ELSE IF tool \notin Adapters THEN "no_adapter"
  ELSE IF ~Allows(world, tool, args) THEN "constraint_violated"
  ELSE IF PolicyVerdict[tool] = "deny" THEN "deny"
  ELSE "allow"

Enforce(world, tool, args) ==
  IF tool \notin world.tools THEN "tool_not_declared"
  ELSE IF tool \notin Adapters THEN "no_adapter"
  ELSE IF PolicyVerdict[tool] # "allow" THEN PolicyVerdict[tool]
  ELSE IF ~Allows(world, tool, args) THEN "constraint_violated"
  ELSE "allow"

\* What the tracker is told.
VerdictOf(rule) == IF rule \in {"allow", "ask"} THEN rule ELSE "deny"
=============================================================================
