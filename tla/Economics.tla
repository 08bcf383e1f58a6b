------------------------------ MODULE Economics ------------------------------
(***************************************************************************)
(* The economic part of the runtime kernel: prices, the estimate made      *)
(* before a call, the limit it is held against, the hint that comes with a *)
(* refusal, and the percentiles of observed costs.                         *)
(*                                                                         *)
(* Prices are per token, tool costs in the same unit, and the multiplier   *)
(* of estimates is MultiplierNum / MultiplierDen; estimates and limits are *)
(* counted in units of 1 / MultiplierDen.  Token counts and the thresholds *)
(* of the engine (256, 512) are in the model's own small units.            *)
(***************************************************************************)
EXTENDS Integers, Sequences, FiniteSets, SequencesExt

CONSTANTS
  Pricing,         \* model -> [input, output] per token
  ToolCosts,       \* tool -> fixed cost
  MultiplierNum,
  MultiplierDen,
  MinCap,          \* a cap up to this is not reduced (256)
  MinContext       \* an input up to this is not truncated (512)

ASSUME PricingAssumption ==
  \A m \in DOMAIN Pricing : Pricing[m].input \in Nat /\ Pricing[m].output \in Nat
ASSUME MultiplierAssumption ==
  MultiplierDen \in Nat \ {0} /\ MultiplierNum \in Nat /\ MultiplierNum >= MultiplierDen
ASSUME ToolCostsAssumption == \A t \in DOMAIN ToolCosts : ToolCosts[t] \in Nat

ToolCost(tool) == IF tool \in DOMAIN ToolCosts THEN ToolCosts[tool] ELSE 0

LlmCall(model, tokens, cap, tool) ==
  [model |-> model, tokens |-> tokens, cap |-> cap, tool |-> tool]

Known(model) == model \in DOMAIN Pricing

\* The estimate of a model without a price is infinite, and has no input.
EstimateLlmCost(call) ==
  IF ~Known(call.model)
  THEN [call |-> [call EXCEPT !.tokens = 0], unbounded |-> TRUE, total |-> 0]
  ELSE [call |-> call, unbounded |-> FALSE,
        total |-> (call.tokens * Pricing[call.model].input
                     + call.cap * Pricing[call.model].output
                     + ToolCost(call.tool)) * MultiplierNum]

\* The first model with the least sum of prices.
CheapestModel ==
  CHOOSE m \in DOMAIN Pricing : \A n \in DOMAIN Pricing :
    Pricing[m].input + Pricing[m].output <= Pricing[n].input + Pricing[n].output

-----------------------------------------------------------------------------
(* Budgets: a limit per request and per session, and role budgets that may *)
(* narrow the first.                                                       *)

NoOverride == -1

Matching(budget, role, source) ==
  budget.role \in {"*", role} /\ budget.source \in {"*", source}

LeastOf(S) == CHOOSE x \in S : \A y \in S : x <= y

RequestLimit(budget, override, roleBudgets, role, source) ==
  LeastOf({IF override = NoOverride THEN budget.request ELSE override}
            \cup {b.request : b \in {b \in roleBudgets : Matching(b, role, source)}})

BindingLimit(budget, spent, override, roleBudgets, role, source) ==
  LeastOf({RequestLimit(budget, override, roleBudgets, role, source), budget.session - spent})

Within(estimate, limit) == ~estimate.unbounded /\ estimate.total <= limit

-----------------------------------------------------------------------------
(* build_replan_hint: the first of four strategies that seems to fit.  The *)
(* cheaper model's cost leaves out the tool; splitting the task needs no   *)
(* reason.                                                                 *)

SwitchCost(estimate, m) ==
  (estimate.call.tokens * Pricing[m].input + estimate.call.cap * Pricing[m].output)
    * MultiplierNum

Switched(call, m) == [call EXCEPT !.model = m]
Reduced(call) == [call EXCEPT !.cap = @ \div 2]
Truncated(call) == [call EXCEPT !.tokens = @ \div 2]

ReplanHint(estimate, limit) ==
  LET call == estimate.call
  IN IF /\ DOMAIN Pricing # {}
        /\ CheapestModel # call.model
        /\ SwitchCost(estimate, CheapestModel) <= limit
     THEN [kind |-> "switch_model", call |-> Switched(call, CheapestModel)]
     ELSE IF call.cap > MinCap /\ Within(EstimateLlmCost(Reduced(call)), limit)
     THEN [kind |-> "reduce_max_tokens", call |-> Reduced(call)]
     ELSE IF call.tokens > MinContext /\ Within(EstimateLlmCost(Truncated(call)), limit)
     THEN [kind |-> "truncate_context", call |-> Truncated(call)]
     ELSE [kind |-> "split_into_subtasks", call |-> call]

-----------------------------------------------------------------------------
(* CostProfileStore: linear interpolation between the two observations     *)
(* around p percent, in hundredths.                                        *)

Sorted(costs) == SortSeq(costs, <)

Percentile(costs, p) ==
  LET values == Sorted(costs)
      n == Len(values)
      lo == (p * (n - 1)) \div 100
      frac == (p * (n - 1)) % 100
  IN IF lo + 1 >= n THEN 100 * values[n]
     ELSE 100 * values[lo + 1] + frac * (values[lo + 2] - values[lo + 1])
=============================================================================
