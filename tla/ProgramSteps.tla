----------------------------- MODULE ProgramSteps -----------------------------
(***************************************************************************)
(* The algorithms of the program layer: minimization of a candidate        *)
(* program, validation against a world, compilation and execution of its   *)
(* steps, replay under a world, and the comparison of worlds.  All of them *)
(* are pure; ReviewedPrograms and ProgramLayer use them in their steps.    *)
(*                                                                         *)
(* A parameter value is a record with a kind: "null", "empty" (the empty   *)
(* string), "text", "number" (with its value) or "url" (with its host and  *)
(* whether it has a query or fragment).  A capability is a tool and a      *)
(* reach, which is "any" or a host.                                        *)
(***************************************************************************)
EXTENDS Integers, Sequences, FiniteSets, Positions

CONSTANTS
  Tools,       \* names of actions
  Workflows,   \* SUPPORTED_WORKFLOWS of the task compiler
  TopN,        \* the workflow that reads the parameter top_n
  MaxSteps,    \* MAX_STEPS of a Program
  MaxTopN      \* the largest top_n that compiles

ASSUME ToolsAssumption == Workflows \subseteq Tools /\ TopN \in Workflows
ASSUME LimitsAssumption == MaxSteps \in Nat \ {0} /\ MaxTopN \in Nat

UrlKeys == {"url"}

Null == [kind |-> "null"]
Empty == [kind |-> "empty"]
Text == [kind |-> "text"]
Number(n) == [kind |-> "number", value |-> n]
Url(host, query) == [kind |-> "url", host |-> host, query |-> query]

CandidateStep(tool, params, caps) == [tool |-> tool, params |-> params, caps |-> caps]

-----------------------------------------------------------------------------
(* Minimizer *)

\* The index of a step whose tool and parameters its predecessor has too.
Signature(step) == <<step.tool, step.params>>

IsDuplicate(steps, i) == i > 1 /\ Signature(steps[i]) = Signature(steps[i - 1])

Dropped(value) == value.kind \in {"null", "empty"}

StripsQuery(key, value) == key \in UrlKeys /\ value.kind = "url" /\ value.query

ReduceParams(params) ==
  [k \in {k \in DOMAIN params : ~Dropped(params[k])} |->
     IF StripsQuery(k, params[k]) THEN Url(params[k].host, FALSE) ELSE params[k]]

\* Hosts of the URL parameters; a step has at most one.
Domains(params) ==
  {params[k].host : k \in {k \in DOMAIN params \cap UrlKeys : params[k].kind = "url"}}

Narrows(cap, params) == cap.reach = "any" /\ Domains(params) # {}

NarrowedCap(cap, params) ==
  [cap EXCEPT !.reach = CHOOSE h \in Domains(params) : TRUE]

ReduceCapabilities(caps, params) ==
  [c \in DOMAIN caps |->
     IF Narrows(caps[c], params) THEN NarrowedCap(caps[c], params) ELSE caps[c]]

ReduceStep(step) ==
  [step EXCEPT !.params = ReduceParams(step.params),
               !.caps = ReduceCapabilities(step.caps, ReduceParams(step.params))]

Kept(steps) == {i \in DOMAIN steps : ~IsDuplicate(steps, i)}

\* ProgramDiff: what was removed, changed and narrowed, each at its index in
\* the original steps.
EmptyDiff == [removed |-> {}, params |-> {}, caps |-> {}]

ParamChanges(steps, i) ==
  {[index |-> i, field |-> k, before |-> steps[i].params[k],
    after |-> IF Dropped(steps[i].params[k]) THEN Null
              ELSE ReduceParams(steps[i].params)[k]] :
     k \in {k \in DOMAIN steps[i].params :
              Dropped(steps[i].params[k]) \/ StripsQuery(k, steps[i].params[k])}}

CapabilityChanges(steps, i) ==
  LET params == ReduceParams(steps[i].params)
  IN {[index |-> i, before |-> steps[i].caps[c],
       after |-> NarrowedCap(steps[i].caps[c], params)] :
        c \in {c \in DOMAIN steps[i].caps : Narrows(steps[i].caps[c], params)}}

Minimize(steps) ==
  LET kept == InOrder(Kept(steps))
  IN [steps |-> [n \in DOMAIN kept |-> ReduceStep(steps[kept[n]])],
      diff |-> [removed |-> DOMAIN steps \ Kept(steps),
                params |-> UNION {ParamChanges(steps, i) : i \in Kept(steps)},
                caps |-> UNION {CapabilityChanges(steps, i) : i \in Kept(steps)}]]

-----------------------------------------------------------------------------
(* Validation against a world, which is a set of allowed actions *)

Violations(steps, allowed) == {i \in DOMAIN steps : steps[i].tool \notin allowed}

\* Program() refuses more steps than MAX_STEPS.
TooLong(steps) == Len(steps) > MaxSteps

Compatible(steps, allowed) == Violations(steps, allowed) = {}

Divergences(steps, a, b) == {i \in DOMAIN steps : (steps[i].tool \in a) # (steps[i].tool \in b)}

-----------------------------------------------------------------------------
(* Compiler, executor and runner.  What becomes of a step: it runs ("ok"), *)
(* is denied for one of several reasons, or raises out of the runner.      *)

HasParam(step, key) == key \in DOMAIN step.params

\* The step's own input hides the one of the context.
HasInput(step, input) ==
  IF HasParam(step, "input") THEN step.params["input"].kind \in {"text", "empty", "url"}
  ELSE input

\* Only ValueError is caught: a null for a number raises out of the runner.
CompileKind(step) ==
  IF step.tool \notin Workflows THEN "unsupported"
  ELSE IF HasParam(step, "timeout_seconds") /\ step.params["timeout_seconds"].value <= 0
       THEN "compile"
  ELSE IF step.tool # TopN \/ ~HasParam(step, "top_n") THEN "ok"
  ELSE IF step.params["top_n"].kind = "null" THEN "raise"
  ELSE IF step.params["top_n"].kind = "number"
            /\ step.params["top_n"].value \in 1 .. MaxTopN THEN "ok"
  ELSE "compile"

\* The sandbox: the compiled programs read a text, so without one they raise;
\* they may be slow, and whether they are in time is not theirs to decide.
ExecuteKind(step, input, slow) ==
  IF slow THEN "timeout"
  ELSE IF ~HasInput(step, input) THEN "runtime"
  ELSE "ok"

\* float(timeout_seconds) is not guarded.
StepKind(step, allowed, input, slow) ==
  IF step.tool \notin allowed THEN "not_allowed"
  ELSE IF HasParam(step, "timeout_seconds")
            /\ step.params["timeout_seconds"].kind # "number" THEN "raise"
  ELSE IF CompileKind(step) # "ok" THEN CompileKind(step)
  ELSE ExecuteKind(step, input, slow)

StepTrace(i, step, verdict, kind) ==
  [index |-> i, action |-> step.tool, verdict |-> verdict, kind |-> kind]

Earliest(S) == CHOOSE i \in S : \A j \in S : i <= j

\* The runner goes on until the first step that is not allowed.
RunProgram(steps, allowed, input, slow) ==
  LET kind == [i \in DOMAIN steps |-> StepKind(steps[i], allowed, input, i \in slow)]
      failed == {i \in DOMAIN steps : kind[i] # "ok"}
      stop == IF failed = {} THEN Len(steps) + 1 ELSE Earliest(failed)
  IN [ok |-> failed = {},
      raised |-> failed # {} /\ kind[stop] = "raise",
      aborted |-> IF failed = {} THEN 0 ELSE stop,
      steps |-> [i \in DOMAIN steps |->
                   IF i < stop THEN StepTrace(i, steps[i], "allow", "ok")
                   ELSE IF i = stop THEN StepTrace(i, steps[i], "deny", kind[i])
                   ELSE StepTrace(i, steps[i], "skip", "skip")]]

\* Mutated: replay leaves validation to the runner.
ReplayUnvalidated(steps, allowed, input, slow) ==
  RunProgram(steps, allowed, input, slow)

\* Replay validates the whole program before the first step runs.  A program
\* that fails has one trace per violation and no other.
Replay(steps, allowed, input, slow) ==
  LET bad == InOrder(Violations(steps, allowed))
  IN IF TooLong(steps)
     THEN [ok |-> FALSE, raised |-> TRUE, aborted |-> 0, steps |-> <<>>]
     ELSE IF ~Compatible(steps, allowed)
     THEN [ok |-> FALSE, raised |-> FALSE, aborted |-> bad[1],
           steps |-> [n \in DOMAIN bad |->
                        StepTrace(bad[n], steps[bad[n]], "deny", "world")]]
     ELSE RunProgram(steps, allowed, input, slow)

FinalVerdict(trace) ==
  IF trace.ok THEN "allow"
  ELSE IF \E n \in DOMAIN trace.steps : trace.steps[n].verdict = "allow"
       THEN "partial_failure"
       ELSE "deny"

-----------------------------------------------------------------------------
(* Scenarios: the same program under several worlds *)

\* The kind of rule that a denial is put down to.
RuleKind(kind) ==
  IF kind = "world" THEN "capability"
  ELSE IF kind \in {"unsupported", "compile"} THEN "schema"
  ELSE IF kind = "timeout" THEN "policy"
  ELSE "execution"

Outcome(i, action, stage, verdict, rule) ==
  [index |-> i, action |-> action, stage |-> stage, verdict |-> verdict, rule |-> rule]

\* The first denied step is denied, the later ones are skipped, and what is
\* allowed stays allowed wherever it is.
PreviewOutcomes(steps, allowed) ==
  LET bad == Violations(steps, allowed)
  IN {IF i \notin bad THEN Outcome(i, steps[i].tool, "preview", "allow", "capability")
      ELSE IF i = Earliest(bad) THEN Outcome(i, steps[i].tool, "preview", "deny", "capability")
      ELSE Outcome(i, steps[i].tool, "skipped", "skip", "capability") :
        i \in DOMAIN steps}

ReplayOutcomes(trace) ==
  {Outcome(trace.steps[n].index, trace.steps[n].action,
           IF trace.steps[n].verdict = "skip" THEN "skipped" ELSE "replay",
           trace.steps[n].verdict,
           IF trace.steps[n].verdict = "allow" THEN "execution"
           ELSE IF trace.steps[n].verdict = "skip" THEN "capability"
           ELSE RuleKind(trace.steps[n].kind)) : n \in DOMAIN trace.steps}

\* What a replay does not report keeps its row of the preview.
Merged(previewed, replayed) ==
  replayed \cup {o \in previewed : \A r \in replayed : r.index # o.index}

\* Only a compatible world gets as far as a replay.
WorldResult(steps, world, input, slow) ==
  LET previewed == PreviewOutcomes(steps, world.allowed)
      trace == Replay(steps, world.allowed, input, slow)
  IN IF Compatible(steps, world.allowed)
     THEN [world |-> world, compatible |-> TRUE, raised |-> trace.raised,
           verdict |-> FinalVerdict(trace),
           outcomes |-> Merged(previewed, ReplayOutcomes(trace))]
     ELSE [world |-> world, compatible |-> FALSE, raised |-> FALSE,
           verdict |-> "denied_at_preview", outcomes |-> previewed]

DivergencePoints(results) ==
  {i \in UNION {{o.index : o \in r.outcomes} : r \in results} :
     Cardinality(UNION {{o.verdict : o \in {o \in r.outcomes : o.index = i}} :
                          r \in results}) > 1}
=============================================================================
