------------------------------ MODULE PolicyTuner ------------------------------
(***************************************************************************)
(* The policy tuner (hypervisor/policy_tuner): what it reports about the   *)
(* traces and approvals that the tool gateway left behind.  It keeps no    *)
(* state.  No signal depends on the order of the records, so the logs are  *)
(* bags: how many records there are of each kind.  A shape is what the     *)
(* tuner calls the same request: a tool with the provenance of each        *)
(* argument.                                                               *)
(***************************************************************************)
EXTENDS Naturals, Sequences, FiniteSets

LOCAL INSTANCE Bags
LOCAL INSTANCE BagsExt

CONSTANTS
  traces,           \* bag of [shape, rule, verdict, version]
  approvals,        \* bag of [shape, rule, version, status, actor]
  versions,         \* length of the policy history; the last is live
  SideEffectTools,  \* SIDE_EFFECT_TOOLS
  Actors,           \* reviewers
  MinRepeat,        \* MIN_REPEAT_COUNT, MIN_APPROVAL_HEAVY_COUNT
  MinDiversity      \* MIN_PROVENANCE_DIVERSITY

Traces == BagToSet(traces)
Approvals == BagToSet(approvals)

Total(bag, kept) == BagCardinality([r \in kept |-> bag[r]])

-----------------------------------------------------------------------------
(* Counting. *)

Repeated(count) == count >= MinRepeat

VerdictCount(rule, verdict) ==
  Total(traces, {t \in Traces : t.rule = rule /\ t.verdict = verdict})

ShapesOf(rule, verdict) ==
  {t.shape.provenance : t \in {u \in Traces : u.rule = rule /\ u.verdict = verdict}}

AllowsOf(tool) == Total(traces, {t \in Traces : t.shape.tool = tool /\ t.verdict = "allow"})

Status(shape, statuses) ==
  Total(approvals, {a \in Approvals : a.shape = shape /\ a.status \in statuses})

Granted == {"approved", "executed"}

ClassesOf(shape) == {shape.provenance[arg] : arg \in DOMAIN shape.provenance}
IsRisky(shape) == ClassesOf(shape) \cap {"external_document", "derived"} # {}

RulesSeen == {t.rule : t \in Traces}
ShapesSeen == {a.shape : a \in Approvals}
SideEffectsSeen == {t.shape.tool : t \in Traces} \cap SideEffectTools

-----------------------------------------------------------------------------
(* Signals and smells: each a kind with the rule, the shape or the reviewer *)
(* it is about.                                                             *)

NoShape == [tool |-> "", provenance |-> <<>>]

Remark(kind, rule, shape, actor) ==
  [kind |-> kind, rule |-> rule, shape |-> shape, actor |-> actor]
OnRules(kind, rules) == {Remark(kind, r, NoShape, "") : r \in rules}
OnShapes(kind, shapes) == {Remark(kind, "", s, "") : s \in shapes}
OnTools(kind, tools) == {Remark(kind, "", [NoShape EXCEPT !.tool = t], "") : t \in tools}

FrictionSignals ==
  OnRules("repeated ask", {r \in RulesSeen : Repeated(VerdictCount(r, "ask"))})
  \cup OnRules("repeated deny", {r \in RulesSeen : Repeated(VerdictCount(r, "deny"))})
  \cup OnShapes("repeated manual approvals", {s \in ShapesSeen : Repeated(Status(s, Granted))})
  \cup OnShapes("repeated manual rejections", {s \in ShapesSeen : Repeated(Status(s, {"rejected"}))})

RiskyAllow(tool) ==
  \E t \in Traces : t.shape.tool = tool /\ t.verdict = "allow" /\ IsRisky(t.shape)

RiskSignals ==
  OnTools("repeated allow", {t \in SideEffectsSeen : Repeated(AllowsOf(t))})
  \cup OnTools("risky provenance", {t \in SideEffectsSeen : RiskyAllow(t)})
  \cup OnRules("heterogeneous provenance",
               {r \in RulesSeen : Cardinality(ShapesOf(r, "allow")) >= MinDiversity})

VersionsSeen(rule) == {t.version : t \in {u \in Traces : u.rule = rule}}
GrantedUnder(rule) == {a.version : a \in {b \in Approvals : b.rule = rule /\ b.status \in Granted}}
GrantCount(rule) == Total(approvals, {a \in Approvals : a.rule = rule /\ a.status \in Granted})
GrantsBy(actor, shape) ==
  Total(approvals, {a \in Approvals : a.actor = actor /\ a.shape = shape /\ a.status \in Granted})

ScopeDriftSignals ==
  OnRules("spans all versions",
          {r \in RulesSeen : versions >= 2 /\ Cardinality(VersionsSeen(r)) >= versions})
  \cup {Remark("approvals span versions", r, NoShape, "") :
          r \in {s \in {a.rule : a \in Approvals} :
                   Repeated(GrantCount(s)) /\ Cardinality(GrantedUnder(s)) >= 2}}
  \cup {Remark("repeatedly approves", "", p[2], p[1]) :
          p \in {q \in Actors \X ShapesSeen : Repeated(GrantsBy(q[1], q[2]))}}

Signals == FrictionSignals \cup RiskSignals \cup ScopeDriftSignals

ToolsAllowed(rule) ==
  {t.shape.tool : t \in {u \in Traces : u.rule = rule /\ u.verdict = "allow"}}

\* ask / total > 0.7
MostlyAsks(rule) ==
  LET total == Total(traces, {t \in Traces : t.rule = rule})
  IN Repeated(VerdictCount(rule, "ask")) /\ 10 * VerdictCount(rule, "ask") > 7 * total

Smells ==
  OnRules("broad allow on a dangerous sink",
          {r \in RulesSeen : /\ Repeated(VerdictCount(r, "allow"))
                             /\ ToolsAllowed(r) \cap SideEffectTools # {}})
  \cup OnRules("catch-all deny",
               {r \in RulesSeen : /\ Repeated(VerdictCount(r, "deny"))
                                  /\ Cardinality(ShapesOf(r, "deny")) >= MinDiversity})
  \cup OnRules("approval-heavy rule", {r \in RulesSeen : MostlyAsks(r)})
  \cup OnRules("one rule, many shapes",
               {r \in RulesSeen : Cardinality(ShapesOf(r, "allow")) >= MinDiversity})
  \cup {Remark("weak provenance", t.rule, t.shape, "") :
          t \in {u \in Traces : /\ u.verdict = "allow" /\ u.shape.tool \in SideEffectTools
                                /\ "external_document" \in ClassesOf(u.shape)}}

\* The kinds of suggestion that each kind of signal and smell leads to.
SignalAdvice ==
  [k \in {"repeated ask", "repeated deny", "repeated manual approvals",
          "repeated manual rejections", "repeated allow", "risky provenance",
          "heterogeneous provenance", "spans all versions", "approvals span versions",
          "repeatedly approves"} |->
    CASE k = "repeated ask" -> {"narrow_rule_scope", "promote_approval_to_policy"}
      [] k = "repeated manual rejections" -> {"narrow_rule_scope"}
      [] k \in {"repeated manual approvals", "repeatedly approves"} ->
           {"promote_approval_to_policy"}
      [] k \in {"repeated deny", "heterogeneous provenance"} -> {"split_broad_rule"}
      [] k = "repeated allow" -> {"add_approval_requirement"}
      [] k = "risky provenance" -> {"reduce_allow_constrain_provenance"}
      [] k = "spans all versions" -> {"add_review_metadata"}
      [] k = "approvals span versions" -> {"move_to_task_overlay"}]

SmellAdvice ==
  [k \in {"broad allow on a dangerous sink", "catch-all deny", "approval-heavy rule",
          "one rule, many shapes", "weak provenance"} |->
    CASE k \in {"broad allow on a dangerous sink", "approval-heavy rule"} -> {"narrow_rule_scope"}
      [] k = "catch-all deny" -> {"split_broad_rule", "improve_rule_explanation"}
      [] k = "one rule, many shapes" -> {"split_broad_rule"}
      [] k = "weak provenance" -> {"reduce_allow_constrain_provenance"}]

Advice(remark, type) == [type |-> type, about |-> [remark EXCEPT !.kind = ""]]

Suggestions ==
  UNION ({{Advice(s, a) : a \in SignalAdvice[s.kind]} : s \in Signals}
         \cup {{Advice(s, a) : a \in SmellAdvice[s.kind]} : s \in Smells})

-----------------------------------------------------------------------------
\* The remarks that are not about a share of the whole: all but a rule that is
\* seen under every version and one that mostly asks.
Lasting(remarks) ==
  {r \in remarks : r.kind \notin {"spans all versions", "approval-heavy rule"}}
=============================================================================
