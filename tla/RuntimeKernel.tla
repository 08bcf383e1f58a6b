---------------------------- MODULE RuntimeKernel ----------------------------
(***************************************************************************)
(* The runtime kernel: a world is compiled once, an intent is formed only  *)
(* if the compiled policy has a place for it, and only formed intents get  *)
(* to the worker process.  Callers form intents in two ways: through the   *)
(* proxy, which maps a tool and takes the taint that the request declares, *)
(* or by IRBuilder.build with a TaintContext made from earlier outputs and *)
(* a cost estimate.  Callers run at the same time; each waits for its own  *)
(* worker process.                                                         *)
(***************************************************************************)
EXTENDS CompiledWorld, Economics

CONSTANTS
  Callers,
  WorldManifests,   \* manifests that may be compiled
  WorkerRegistry,   \* actions that the worker process has handlers for
  ToolMap,          \* proxy: tool -> action
  Requests,         \* [tool, action, identity, taint, llm, role, source]
  Budget,           \* [request, session], scaled
  RoleBudgets,      \* [role, source, request], scaled
  MaxCalls          \* bound on the calls of all callers

ASSUME BudgetAssumption == Budget.request \in Nat /\ Budget.session \in Nat
ASSUME CallsAssumption == MaxCalls \in Nat
ASSUME CallersAssumption == IsFiniteSet(Callers) /\ Callers # {}
ASSUME RoleBudgetsAssumption == \A b \in RoleBudgets : b.request \in Nat
ASSUME RequestsAssumption == \A r \in Requests : r.llm.tokens \in Nat /\ r.llm.cap \in Nat

VARIABLES
  runtime,    \* the Runtime, or NoRuntime
  calls,      \* per caller: the call it waits for
  made,       \* number of calls so far
  outputs,    \* TaintedValues returned, each with its lineage
  spent,      \* session_spent of the engine
  observed,   \* the actual costs recorded, in order
  executed,   \* history variable: handlers that ran in a worker
  answers,    \* history variable: how each call ended
  dirty       \* history variable: calls that began in a tainted context

kernelVars == <<runtime, calls, made, outputs, spent, observed, executed, answers, dirty>>

NoRuntime == [built |-> FALSE]
NoCall == LlmCall("", 0, 0, "")
NoEstimate == [call |-> NoCall, unbounded |-> FALSE, total |-> 0]

Waiting(stage, number, request, via, taint, lineage, estimate) ==
  [stage |-> stage, number |-> number, action |-> request.action, via |-> via,
   taint |-> taint, lineage |-> lineage, estimate |-> estimate]

IdleCall == [stage |-> "idle", number |-> 0]

Denials == {"non_existent_action", "constraint_violation", "approval_required",
            "taint_violation", "budget_exceeded"}

Init ==
  /\ runtime = NoRuntime
  /\ calls = [c \in Callers |-> IdleCall]
  /\ made = 0
  /\ outputs = {}
  /\ spent = 0
  /\ observed = <<>>
  /\ executed = {}
  /\ answers = {}
  /\ dirty = {}

-----------------------------------------------------------------------------
(* Building a runtime *)

Start(manifest, simulated) ==
  /\ ~runtime.built
  /\ Compiles(manifest)
  /\ runtime' = [built |-> TRUE, policy |-> manifest, simulated |-> simulated]
  /\ UNCHANGED <<calls, made, outputs, spent, observed, executed, answers, dirty>>

\* Mutated: the registries are not compared.
BuildRuntimeUnchecked(manifest) == Start(manifest, FALSE)

\* The registry of the worker and the action space have to be the same.
BuildRuntime(manifest) ==
  /\ ActionSpace(manifest) = WorkerRegistry
  /\ Start(manifest, FALSE)

BuildSimulationRuntime(manifest) == Start(manifest, TRUE)

-----------------------------------------------------------------------------
(* Forming an intent.  Every check is made before anything is formed, in   *)
(* this order.                                                             *)

Join(taints) == IF "tainted" \in taints THEN "tainted" ELSE "clean"

TypeOf(action) == runtime.policy.actions[action].type

\* Mutated: the session's remaining budget is not looked at.
RefusalPerRequest(request, taint, estimate) ==
  LET policy == runtime.policy
      action == request.action
      limit == RequestLimit(Budget, NoOverride, RoleBudgets, request.role, request.source)
  IN IF action \notin ActionSpace(policy) THEN "non_existent_action"
     ELSE IF ~CanPerform(policy, ResolveTrust(policy, request.identity), TypeOf(action))
     THEN "constraint_violation"
     ELSE IF policy.actions[action].approval THEN "approval_required"
     ELSE IF TaintRuleFor(policy, taint, TypeOf(action)) THEN "taint_violation"
     ELSE IF estimate # NoEstimate /\ ~Within(estimate, limit) THEN "budget_exceeded"
     ELSE "none"

Refusal(request, taint, estimate) ==
  LET policy == runtime.policy
      action == request.action
      limit == BindingLimit(Budget, spent, NoOverride, RoleBudgets, request.role, request.source)
  IN IF action \notin ActionSpace(policy) THEN "non_existent_action"
     ELSE IF ~CanPerform(policy, ResolveTrust(policy, request.identity), TypeOf(action))
     THEN "constraint_violation"
     ELSE IF policy.actions[action].approval THEN "approval_required"
     ELSE IF TaintRuleFor(policy, taint, TypeOf(action)) THEN "taint_violation"
     ELSE IF estimate # NoEstimate /\ ~Within(estimate, limit) THEN "budget_exceeded"
     ELSE "none"

\* A call is either answered at once or becomes a formed intent.
Form(c, request, via, taint, lineage, estimate) ==
  LET refusal == Refusal(request, taint, estimate)
      number == made + 1
  IN /\ runtime.built
     /\ calls[c] = IdleCall
     /\ made < MaxCalls
     /\ made' = number
     /\ dirty' = IF lineage = {} /\ taint = "tainted" THEN dirty \cup {number} ELSE dirty
     /\ IF refusal = "none"
        THEN /\ calls' = [calls EXCEPT ![c] = Waiting("formed", number, request, via, taint,
                                                      lineage \cup {number}, estimate)]
             /\ UNCHANGED answers
        ELSE /\ answers' = answers \cup {[number |-> number, status |-> refusal]}
             /\ UNCHANGED calls
     /\ UNCHANGED <<runtime, outputs, spent, observed, executed>>

EstimateOf(request) ==
  IF request.llm = NoCall THEN NoEstimate ELSE EstimateLlmCost(request.llm)

\* Mutated: the context has the taint of the latest value only.
FromLatest(values) ==
  Join({v.taint : v \in {v \in values : \A w \in values : w.number <= v.number}})

\* TaintContext.from_outputs: the join of all values that go in.
FromOutputs(values) == Join({v.taint : v \in values})

\* IRBuilder.build in a pipeline: a context from outputs, or a fresh one.
BuildFromOutputs(c, request, values) ==
  /\ values # {}
  /\ Form(c, request, "pipeline", FromOutputs(values),
          UNION {v.lineage : v \in values}, EstimateOf(request))

BuildFresh(c, request, taint) ==
  Form(c, request, "pipeline", taint, {}, EstimateOf(request))

\* SafeMCPProxy.handle: the taint is what the request says.
Handle(c, request) ==
  IF request.tool \in DOMAIN ToolMap
  THEN Form(c, [request EXCEPT !.action = ToolMap[request.tool]], "proxy",
            request.taint, {}, NoEstimate)
  ELSE /\ runtime.built
       /\ calls[c] = IdleCall
       /\ made < MaxCalls
       /\ made' = made + 1
       /\ answers' = answers \cup {[number |-> made', status |-> "non_existent_action"]}
       /\ UNCHANGED <<runtime, calls, outputs, spent, observed, executed, dirty>>

-----------------------------------------------------------------------------
(* Execution *)

Advance(c, stage) ==
  /\ calls' = [calls EXCEPT ![c].stage = stage]
  /\ UNCHANGED <<runtime, made, outputs, spent, observed, answers, dirty>>

\* The worker process: its handler runs, or the action is unknown to it, or the
\* handler raises before it has done anything.
RunHandler(c) ==
  /\ calls[c].stage = "formed"
  /\ ~runtime.simulated
  /\ calls[c].action \in WorkerRegistry
  /\ executed' = executed \cup {calls[c].number}
  /\ Advance(c, "ran")

RejectAction(c) ==
  /\ calls[c].stage = "formed"
  /\ ~runtime.simulated
  /\ UNCHANGED executed
  /\ Advance(c, "rejected")

\* A value comes back with the taint of its intent; the proxy passes on the
\* bare value.  Only a call with an estimate is charged for later.
Return(c) ==
  LET call == calls[c]
  IN /\ outputs' = IF call.via = "proxy" THEN outputs
                   ELSE outputs \cup {[number |-> call.number, taint |-> call.taint,
                                       lineage |-> call.lineage]}
     /\ answers' = answers \cup {[number |-> call.number, status |-> "ok"]}
     /\ calls' = [calls EXCEPT ![c] = IF call.estimate = NoEstimate THEN IdleCall
                                      ELSE [@ EXCEPT !.stage = "charge"]]
     /\ UNCHANGED <<runtime, made, spent, observed, executed, dirty>>

Execute(c) ==
  /\ calls[c].stage = "ran"
  /\ Return(c)

Simulate(c) ==
  /\ calls[c].stage = "formed"
  /\ runtime.simulated
  /\ SimulationBindingFor(runtime.policy, calls[c].action)
  /\ Return(c)

\* Mutated: the call is not given up when the executor raises.
RaiseAndRetry(c) ==
  /\ calls[c].stage \in {"formed", "ran", "rejected"}
  /\ answers' = answers \cup {[number |-> calls[c].number, status |-> "raised"]}
  /\ calls' = [calls EXCEPT ![c].stage = "formed"]
  /\ UNCHANGED <<runtime, made, outputs, spent, observed, executed, dirty>>

\* The executor raises: the worker said no, gave no answer in time, or there is
\* no binding to simulate.  Proxy and pipeline let it through.
Raise(c) ==
  /\ calls[c].stage \in {"formed", "ran", "rejected"}
  /\ runtime.simulated => ~SimulationBindingFor(runtime.policy, calls[c].action)
  /\ answers' = answers \cup {[number |-> calls[c].number, status |-> "raised"]}
  /\ calls' = [calls EXCEPT ![c] = IdleCall]
  /\ UNCHANGED <<runtime, made, outputs, spent, observed, executed, dirty>>

\* After a successful call, by whoever keeps the trace.  An estimate is an
\* upper bound of what the call then costs.
RecordActualCost(c) ==
  /\ calls[c].stage = "charge"
  /\ \E cost \in {calls[c].estimate.total \div 2, calls[c].estimate.total} :
       /\ spent' = spent + cost
       /\ observed' = Append(observed, cost)
  /\ calls' = [calls EXCEPT ![c] = IdleCall]
  /\ UNCHANGED <<runtime, made, outputs, executed, answers, dirty>>

Next ==
  \/ \E m \in WorldManifests : BuildRuntime(m) \/ BuildSimulationRuntime(m)
  \/ \E c \in Callers :
       \/ \E request \in Requests :
            \/ Handle(c, request)
            \/ \E taint \in TaintStates : BuildFresh(c, request, taint)
            \/ \E values \in SUBSET outputs : BuildFromOutputs(c, request, values)
       \/ RunHandler(c)
       \/ RejectAction(c)
       \/ Execute(c)
       \/ Simulate(c)
       \/ Raise(c)
       \/ RecordActualCost(c)

Spec == Init /\ [][Next]_kernelVars

-----------------------------------------------------------------------------
(* Properties *)

\* Taint follows the data: a value is tainted exactly if some call it descends
\* from began tainted, over any number of calls and whatever was joined on the
\* way ("cannot decrease"), and no intent in the hands of the worker descends
\* from a tainted beginning where a rule stops tainted data.
TaintFollowsLineage ==
  /\ \A v \in outputs : v.taint = "tainted" <=> v.lineage \cap dirty # {}
  /\ \A c \in Callers :
       calls[c].stage \in {"formed", "ran"} /\ calls[c].lineage \cap dirty # {} =>
         ~TaintRuleFor(runtime.policy, "tainted", TypeOf(calls[c].action))

\* The worker is only ever handed actions that it has a handler for: what the
\* policy, the proxy's map and the registry call an action is the same thing.
WorkerKnowsEveryAction ==
  \A c \in Callers : calls[c].stage \in {"formed", "rejected"} /\ ~runtime.simulated =>
    calls[c].action \in WorkerRegistry

\* An answer tells what happened: a result comes from a handler that ran, a
\* refusal left no trace in a worker, a call has one answer, a simulation runs
\* nothing, and no answer is that the worker does not know the action.
AnswersMatchEffects ==
  /\ WorkerKnowsEveryAction
  /\ \A a \in answers :
       /\ a.status = "ok" => a.number \in executed \/ runtime.simulated
       /\ a.status \in Denials => a.number \notin executed
       /\ \A b \in answers : a.number = b.number => a = b
  /\ runtime.built /\ runtime.simulated => executed = {}

\* The session's limit is checked against the estimate before the call and
\* charged after it, so callers that run together can overshoot it; by no more
\* than one request's limit for each caller but one.
OvershootBounded ==
  spent <= Budget.session + (Cardinality(Callers) - 1) * Budget.request
=============================================================================
