# A verification project for agent-hypervisor

TLA+ modules that model the parts of agent-hypervisor that decide about actions
and keep state across requests, threads, processes, crashes and time, the TLC
configurations that check them on small instances, and theorems that the TLA+
proof system checks for every instance.  Paths below are relative to
`src/src/agent_hypervisor/` unless they begin with `src/`.

    tlc -workers 2 -config ApprovalSequential.cfg MCApprovalFlow
    tlapm ApprovalFlow_proofs.tla

## 1. The system

An agent's tool calls pass through a gateway that decides `allow`, `deny` or
`ask`.  There are two gateways, with an approval workflow each: the MCP gateway
(`hypervisor/mcp_gateway`) with its control plane (`control_plane`), all in
memory, and the tool gateway (`hypervisor/gateway`) with its stores on disk
(`hypervisor/storage`).  Beside them stand a runtime that executes compiled
worlds in a worker process, a program layer that reviews and replays programs,
compilers for manifests, a benchmark defence, scenario benchmarks and a browser
extension.

| Component | State | Operations | Interacts with | What makes it correct |
|---|---|---|---|---|
| Approval service, REST handlers (`control_plane/approval_service.py`, `api.py`) | `_approvals` by id: status, expiry, scoped verdicts | request, sweep, resolve, respond, look up by fingerprint | tools/call, overlays, event log, broadcaster | a call runs only under an allow somebody gave for it; decided once; the status says what is on record |
| Broadcaster, participants, streams (`approval_broadcaster.py`, `participant_registry.py`, `sse_transport.py`) | participants, one queue per open stream | register, push, deliver, close | approval service | who waits for an allow hears of it |
| Sessions, overlays, resolver (`session_store.py`, `overlay_service.py`, `event_store.py`, `world_state_resolver.py`) | session records, overlay records, one event log per session | create, mode, close, attach, detach, expire, resolve | approval service (session-scope allow), tools/list | the three records of an overlay agree; precedence; the log tells the history |
| Tool gateway (`gateway/execution_router.py`, `gateway_server.py`, `storage/*`) | pending approvals in memory and as files, traces, policy versions, engines | start, execute, resolve, reload | policy engine, firewall, adapters, sandbox | run at most once; never lost; always traced; engines match the recorded version |
| MCP gateway (`mcp_server.py`, `tool_call_enforcer.py`, `session_taint_tracker.py`, `linking_policy.py`, `session_world_resolver.py`, `profiles_catalog.py`, `ui/router.py`) | counters and taint, bindings, rules, profile catalog | list, call, bind, restore, edit rules and profiles, restart | control plane, files, adapters | nothing undeclared is dispatched; signals are the calls made; taint only grows; rules can be followed |
| Policy engine, firewall, provenance (`policy_engine.py`, `firewall.py`, `provenance_eval.py`) | a registry of values | register, evaluate | tool gateway | the strictest verdict wins along a chain |
| Core hypervisor, prototype (`src/src/core/hypervisor.py`, `hypervisor.py`) | a world that the user extends; opened files | resolve, evaluate, extend | - | an extension changes no decision but its own |
| Runtime kernel and economic policy (`runtime/*`, `economic/*`) | the compiled policy, tainted values, spent budget, observed costs | compile, start, build, execute, simulate, record cost | worker process | no effect without a built action; taint follows data; the budget holds but for calls under way |
| Program layer (`program_layer/*`) | programs, worlds, pointer, history, event log, traces | propose ... accept, activate, roll back, preview, replay, scenarios | files, CLI | legal transitions; pointer, history and log agree; a preview foretells |
| Executor and sandbox (`program_executor.py`, `sandbox_runtime.py`) | threads with a queue each | plan, validate, run, time out | tool gateway | one whole answer to each request |
| Manifest compilers (`compiler/*`, `policy_eval.py`, `provenance/graph.py`) | artifacts, defaults, engine counters, a graph | build, validate, migrate, observe, profile, enforce, decide, record | files | same manifest, same artifacts; budgets and graph agree with the decisions |
| Benchmark defence (`src/_research/agentdojo-bench/ah_defense`) | taint and counters of an episode | begin, propose, execute, sanitize | language model, tools | what an injection brought in leads to no effect outside |
| Scenario benchmark (`ui/router.py`, `src/_research/benchmarks`) | runs by id, traces and reports by second, caches of policies | start a run, judge, write, poll its status, replay, edit | policy engine, files | what is told of a run is true of it |
| Policy tuner (`policy_tuner/*`) | none: reads logs | report, suggest | traces, approvals | nothing reported is withdrawn by more evidence of it |
| Browser extension (`src/browser-demo/extension-standalone`) | one value in the browser's storage | 20 messages, each with its awaits | page, side panel | versions, trace and memory tell one story; decisions name their world |
| Gateway client, authoring DSL, rest of the web UI, older demos | none | - | - | - |

The behaviours that are hard to test: REST handlers are plain `def` functions
and run on a pool of threads, while the stores assume one thread; approvals
expire by the wall clock between any two steps; one handler writes two or three
stores and can fail between them; streams close while frames are on their way;
the tool gateway can end, or its adapter or disk can raise, between any two
writes; reviewers and operators are processes that load, change and save the
same files without a lock; callers of one runtime share a budget that is
checked before and charged after; a program past its deadline runs on; handlers
of the extension put back whole copies of a state that others have changed.
`PROJECT.json` lists them as hazards, each at its line.

## 2. The modules

| Module | Models | Lines up with the code as |
|---|---|---|
| `ControlPlaneDomain` | `domain.py`: records and their readings | value objects; a call stands for its fingerprint |
| `ActAuthorization` | the promise of an approval: decided once, for one action of one session, and nothing runs but under a standing allow | abstract specification |
| `ApprovalFlow`, `ApprovalFlow_proofs` | approval service, REST handlers, broadcaster, streams, the ask branch of tools/call | one action per part of a handler between two points where another thread can run |
| `ApprovedOnce` | the promise of a held request: at most once, never after a rejection | abstract specification |
| `ExecutionRouter`, `ExecutionRouter_proofs` | router, stores on disk, start and reload of the gateway | one action per write; `job` is the request in progress |
| `OverlayStack` | the promise of overlays: a stack per session | abstract specification |
| `SessionWorld`, `SessionWorld_proofs` | sessions, overlays, event log, resolver | one action per write of a handler |
| `GatewayEnforcement`, `GatewaySessions`, `GatewaySessions_proofs` | the enforcer and linking rules as operators; sessions, catalog, UI actions, restart | one action per coroutine; the removal of a binding, which runs in the pool, in two |
| `CompiledWorld`, `Economics`, `RuntimeKernel` | `compile.py`; prices, estimates, hints, percentiles; runtime, IR builder, proxy, executor, worker | operators; one action per call to the kernel, its worker's step and the charge |
| `ProgramSandbox` | executor, compiler of tasks, sandbox thread | one action per statement of a program, and the caller's wait |
| `BrowserWorlds`, `BrowserExtension` | parser, validator, compiler, runtime, diff, presets; the background page | operators; one action per stretch of a handler between two awaits |
| `ScenarioRuns` | benchmark runs from the web UI, their script and replay | one action per assignment of the run's thread, per read of the status handler, per scenario judged |
| `Executions`, `Executions_proofs` | the last five together: a process runs one | composition |
| `ProgramSteps` | minimizer, validation, runner, replay, comparison | operators |
| `ReviewedPrograms` | review lifecycle and store | load-and-check, then save |
| `WorldActivation` | registry, activation, rollback, CLI | one action per file written, and crash |
| `ProgramLayer`, `ProgramLayer_proofs` | both, with compatibility, preview and scenarios | composition over shared state |
| `WorldArtifacts`, `IntentPipeline` | loaders, validators, taint compiler, emitter; build, load, decide, graph | operators; one action per command or call |
| `ProvenanceRules` | policy engine, firewall | operators over a registry that grows |
| `WorkflowManifest` | observe, profile, enforce, render | one action per command |
| `CoreWorld` | core hypervisor, prototype | one action per call |
| `EpisodeDefense` | benchmark defence | one action per turn of each pipeline element |
| `Decisions`, `Decisions_proofs` | the last five lines together: a process runs one | composition |
| `PolicyTuner` | analyzer, suggestions | operators over bags of records |
| `Positions` | what Python writes as a comprehension over a list: positions in their order, and the list at some of them | operators |
| `DataInduction` | induction and recursion for the proofs: least elements, iteration, course of values, orders, parts of lists | lemmas |
| `MC*` | constants and bounds for TLC, facts about operators as ASSUMEs | |

**ApprovalFlow.**  `approvals`, `overlays`, `streams`, `registered`,
`participants`, `inbox` are the dictionaries of the services; `events` is the
event log as a set (its order is SessionWorld's subject).  `jobs[w]` is the
handler a thread of the pool is in, with its local variables: `todo` is the
rest of the verdict list, `scopes` first `existing_scopes` and then the scopes
that the tally saw, `before` the snapshot that decides about the notification.
The coroutines of `/mcp` have no `await` inside and are one action each
(`RunAskedCall`, `RequestApproval`), which may come between two steps of a
thread.  A session that a request header names (`HeaderSessions`) can ask
without being registered; attaching an overlay to it raises in the middle of
`respond()`.  `granted`, `told`, `ran` and `cutShort` (the approvals that this
happened to) are history.

**ExecutionRouter.**  The endpoints are coroutines without an `await` around
their work, so there is one `job`.  `OpenFile` and `WriteFile` are the two
halves of `open(path, "w")` and `json.dump`; in between, and after a failure
there, the file is `Torn` and reads as absent.  `DiskRaises` and
`AdapterRaises` end the handler with everything done so far in place; `Crash`
loses the memory.  A load reads the policy file twice, for the engines
(`LoadEngines`) and for the hash that names their version (`UseEngines`, in a
start or a reload), and the file can be edited in between; `policy` is what the
engines were made of, `version` what they are called, and `mixed` (history) says
that an edit fell between the two reads.  The engines' verdicts are constants,
so the theorems hold for any engines.

**SessionWorld.**  An overlay lives in three places: its record, `overlay_ids`
of its session and the event log.  `StoreOverlay`, `IndexOverlay` and
`AppendEvent` write them one after the other, `DetachOverlay`, `Unindex` and
`AppendEvent` take them back.  `ActiveOverlays` ranks the
overlays in effect by creation time and position, which is what the stable sort
leaves; `Resolve` applies them one after the other, and `LastWordWins` says what
that must give without applying anything.  `Resolve` and `Replay` are recursive
functions over lists, so that they can be proved about.

**GatewaySessions.**  A call is counted and the linking rules are read as if it
were allowed, the manifest they give is enforced, and the verdict is counted
again when it is not `allow` (`AfterDecision`); `tally` keeps the calls that were
really made.  The catalog lives in memory and in its index file; creating and
deleting a profile, posting rules and taking a profile from a session write one
after the other and may fail between (`torn`).

**RuntimeKernel, ProgramSandbox.**  Callers are threads; between the checks of
`IRBuilder.build` and the charge of the actual cost, others go on.  A value
carries its lineage, the calls it descends from, as history: taint is checked
against it.  A sandbox thread executes one statement per action; its caller
waits until the thread has ended or the deadline has passed, and an abandoned
thread goes on.  A statement that loops inside a builtin ("hold") keeps the
interpreter for good (`Held`), and no other thread does anything after it.

**BrowserExtension.**  `messages` are the handlers, each with the copy of the
state it took; a handler that needs no page is one action that takes and puts
back, others wait (`Snapshot`) and may be stopped.  The trip through the storage,
which drops undefined keys, is the operator `ThroughStorage`.

**ScenarioRuns.**  A run is a daemon thread that waits for a script and then
assigns output, exit code and status one after the other, while the status
handler reads status, output and exit code one after the other.  The script and
the replay read a policy file once per process, and the files can be edited at
any time.  Which policy judged a record (`by`) is history.

**IntentPipeline.**  `nodes`, `edges` and `ids` are the three parts of the
provenance graph; `SaveAndLoad` writes it and reads it back, which rebuilds `ids`
from the nodes, and every `record_*` call goes on from there.  `Trace` is
`trace()`: from an id over `ids` to a node, and from it back along the edges.
`loaded` (history) is the number of nodes there were when the file was last read.

**How the parts compose.**  `ApprovalFlow` attaches the overlay of a
session-scope allow and stops there; `SessionWorld` takes the same call
(`ApproveForSession`) as an input and follows the overlay.  `GatewaySessions`
takes an operator's allow (`granted`) as an input and `ApprovalFlow` shows how
it comes about.  `ProgramLayer` shares the library of worlds between previews and
activations.  `ActAuthorization`, `ApprovedOnce` and `OverlayStack` are
instantiated with refinement mappings in the modules that implement them.
`Executions` and `Decisions` hold parts that share nothing; one variable says
which of them a behaviour is about, so the state space is a sum and not a
product.

## 3. What is checked

| Run | Instance | Shows |
|---|---|---|
| `ApprovalSequential` | 1 session, registered or only named by a header, 2 calls, 2 approvals, 1 worker, expiry after 1 tick | a denied approval permits only if its response was cut short; one verdict per scope; the status tallies; terminal is final; refines `ActAuthorization` |
| `ApprovalThreads` | 1 session, 1 approval, 2 workers, fairness | every run was allowed and every allow is traced, whatever interleaves; whose approval is allowed hears of an allow |
| `RouterRestart` | 2 requests, 2 policies, 2 ids, all faults, load limit 1 | write-ahead; the trace is never behind; a pending approval survives; the version in use is on record, and the engines are its, unless an edit fell into their load; refines `ApprovedOnce` |
| `WorldSequential` | 2 sessions (one approved before it exists), 2 overlays, 2 kinds of changes, 2 ticks, 1 worker | the log replays to the session; index and records agree; precedence; refines `OverlayStack` |
| `ProgramLibrary` | 1 program, 3 drafts, 2 reviewers, 1 operator, 3 activations, 1 scenario | what was accepted can be run; its diff explains it; a preview foretells the replay; pointer, history and log account for every activation |
| `Executions` | 2 callers, 3 calls, a budget for one and a half of them; 2 program requests; 3 messages, 2 handlers; 1 benchmark run of 2 scenarios, 2 policies, 1 edit | taint follows lineage; answers match effects; the overshoot is bounded; every caller gets one whole answer unless a program keeps the interpreter; stored worlds, trace and memory agree; a decision names its world; what is told of a benchmark run is true |
| `Gateway` | 1 session and anonymous calls, 3 tools, 2 files, 2 profiles, 2 rule lists, 2 calls counted | counters explained by calls; rules name profiles; what is dispatched is permitted; taint holds |
| `Decisions` | each part with two or three inputs of every kind that its guards tell apart | budgets match decisions; `trace()` leads from a decision to its input, also on a graph that was read back and written on; denials stick; a profile is what was observed; extensions leave other decisions alone; injected values stay inside |

The bounds are small, and the interesting cases happen within them.  Two approvals
are the fewest at which one may lend its permission to another, two workers the
fewest at which a handler is overtaken; one tick of life and two of the clock give
every order of expiry and answer; verdict lists hold a deny, a session-scope
allow, which needs an overlay, before and after the one_off verdict, and all three
scopes; of two responses that overlap each has an allow of another scope, and
either may come first.  A load limit of 1 with two ids is the fewest at which a
start leaves a pending approval behind; two policies are enough for a change and a
change back.  Two overlays are the fewest that can be in conflict, and one of the
change sets hides and reveals the same tool and sets the same limit twice.  Two
reviewers and one program are the fewest for a lost update; three activations give
an activation, another one and a rollback, with a crash at any of them.  Two
callers are the fewest that pass a limit together, three calls the shortest chain
in which taint skips one.  Two messages give a lost update and a third one looks
at what is left; a history of 2 versions overflows within them.  One benchmark
run, its status handler and one replay are all that share a run's record, and one
edit before, during or after it gives every order of editing and reading.  Four
nodes are a proposal, a decision, its execution and a second decision, or an event
before two decisions of one intent, with the graph read back between any two of
them.  One refusal and two calls fire every linking rule.

Bounds that the code does not have: `MaxClock`, `MaxRuns`, `MaxCalls`, `MaxLog`,
`MaxActivations`, `MaxPlans`, `MaxMessages`, `MaxHandlers`, `MaxCount`,
`MaxNodes`, `MaxGiven`, `MaxChain`, `MaxTurns`, `MaxQueries`, `MaxEdits`, the
finite sets of ids, and three state constraints that keep apart what shares no
state: `OneKindAtATime` (reviews, activations and queries), `MCBound` (signals,
catalog edits and grants) and `FewOfEach` (one extension of the core world, two
builds of one manifest).  Smaller than in the code: `HistoryCap` (20 versions),
`MinRepeat` and `MinDiversity` (as in the code, 3), the load limit (1000).
Deadlock is not checked where bounds or an exhausted supply of ids stop the
system; `RouterRestart` and `Gateway` check it.

**Fairness.**  `ApprovalThreads`: a thread that is in a handler is scheduled
again (`WF(Continue(w))`) and an open stream goes on reading its queue
(`WF(Deliver(s))`; a frame put from another thread does not wake the event loop,
but `sse_stream` leaves its wait at the heartbeat timeout and takes the frame).
`Executions`: a caller of the sandbox leaves its wait when the deadline passes
(`join(timeout=...)`) if the interpreter can be had; the thread it waits for need
not take another step, and a thread that keeps the interpreter (`Held`) is not
assumed to give it back.  No
request has to come, no operator has to answer, no page has to load, and the
clock may stop.

**Facts about operators.**  The MC modules state as named ASSUMEs, which TLC
evaluates over bounded inputs, what pure functions must give: `PercentilesOrdered`,
`HintsFit`, `MoreIsStricter` (economics and provenance), `DiffsShowDecisions`,
`SurfaceDiffLeavesOut`, `BalancedReproducesLegacy` (browser worlds),
`DivergencesAreViolations` (scenarios), `ValidationForetellsBuild`,
`RedactedAtOnce`, `DerivedKeepsTaint` (manifests, sanitizer, derivation),
`ReportsOnlyGrow` (the tuner's reports over logs that grow).

**Disagreements** between the code and its own text, each with a run that
TLC finds violated:

| Run | Text | Code |
|---|---|---|
| `RouterPrograms` | "program" plans go to the ProgramExecutor (`execution_router.py:105`) | once held and approved, they go to the adapter |
| `RollbackRestores` | "Restore the world that was active immediately before the current one." (`world_operator_service.py:154`) | the newest history record decides: a second rollback goes forward, and an activation without a record is passed over |
| `CompilesAlike` | "The same manifest always produces identical artifacts" (`emitter.py:5`) | the defaults are copied at their first level only, and each compilation leaves its rules in them |
| `DraftPreviewsRuntime` | the test panel lets you preview the decisions of a draft (`src/browser-demo/docs/world-test-panel.md:66`) | conditions that are absent are undefined keys in memory and no keys in the storage: the draft's rules do not match |

**Mutants.**  Every property has an operator that models a plausible bug (marked
"Mutated" in the modules): a dropped guard, a wrong order, a swapped argument.
With it in place of the definition it mutates, TLC finds the property violated.

**Seen while modelling**, without a run of their own:

- *Approvals.*  An allowed call stays allowed until the approval expires, where
  the decisions log says "single-use" (`ARCHITECTURAL_DECISIONS_LOG.md:109`);
  only a one_off allow unblocks, where `api.py:627` says any scope does; two
  threads pass the check for a terminal approval (`approval_service.py:303`) and
  the later one writes over the status; `respond()` never emits
  `approval_resolved`; a session-scope allow takes the one notification
  (`api.py:671-673`), so a later one_off allow of the same approval, the one that
  admits the retry, is not announced, where `api.py:627` says that the originator
  hears of it "so the client knows to retry".  The session of a call is what a
  header or `_meta` says (`mcp_server.py:864-869`), registered or not; a
  session-scope allow for one that is not registered raises a `KeyError` after the
  verdicts before it were recorded, and the approval stays `pending`; if it is
  denied then, `has_explicit_allow` (`approval_service.py:430-438`) still finds its
  one_off allow, and the denied call runs.  `OnlyCutShortDenialsPermit`,
  `StatusTalliesVerdicts` and `ActAuthorization` have this case as their one
  exception.  With two workers `OneVerdictPerScope` fails.
- *Sessions.*  An overlay for a session nobody created is stored, raises, and
  takes effect unlogged when the session is created; a closed session can still
  change; overlays stay when their session closes (`domain.py:352` says
  otherwise); DELETE under one session's address detaches another session's
  overlay; sessions opened by a stream have no `session_created` event; with two
  workers the log can hold two mode changes in the other order.
- *Tool gateway.*  An adapter that raises after an approval leaves no trace
  (`execution_router.py:22` says every attempt is logged) and the held request
  `approved` for ever; an edit of the policy file between `from_yaml`
  (`gateway_server.py:100`) and the hash (`:102`) makes old rules judge under the
  name of the new version, which `policy_store.py:5` calls "currently active", until
  the next load; a torn file loses its approval; "deny > ask > allow" does
  not hold when a core hypervisor is loaded, which then decides alone.
- *MCP gateway.*  tools/list ignores linking rules and tools/call ignores
  overlays; rules are read as if the call were allowed (`mcp_server.py:747`
  against `:198`); the `from_profile_id` of the event of a restored profile is
  read after it was cleared (`ui/router.py:949-963`); `profile_switched` is never
  emitted; the constraints of the manifest are not checked for a call that is
  asked about and approved.
- *Runtime and program layer.*  `SafeMCPProxy.handle` lets the executor's
  exceptions through (`proxy.py:84` says it never raises); proposing under an id
  in use replaces the program; `awc world activate` writes no history; a sandbox
  thread past its deadline goes on (`sandbox_runtime.py:371`), and one that
  loops inside a builtin, all of it safe ones (`sandbox_runtime.py:74-101`), keeps
  the interpreter, so that `join(timeout)` (`:367`) does not return.
- *Compilers.*  `ahc validate` accepts flaws that `ahc build` refuses; rules that
  the migration carries over compile to nothing; the emitter writes its files one
  by one; the enforcer ignores a profile's domains.
- *Provenance.*  A policy rule without an argument ignores provenance and role.
  "Provenance is sticky through derivation ... Wrapping an external value does
  not launder it" (RULE-03, `firewall.py:26-28`, and likewise
  `src/wiki/code/modules/firewall.md:81` and `provenance_eval.py:82-86`), but for
  send_email one declared source anywhere in the chain lifts the denial that a
  document in it means (`firewall.py:132-133`: "hard block unless a declared
  recipient_source also appears in the chain", `:118-160`).  A recipient that is
  made of a document and of a declared source passes.  `DenialsStick` leaves
  send_email out of what it says of the firewall.
- *Provenance graph.*  `load()` (`graph.py:318-346`) finds no decision by its id
  again, so `trace()` of one returns an empty list; the id of an intent leads to
  its last record, which is the decision, or the execution, and an execution has
  no edge, so `trace()` of an executed intent returns only the execution; and a
  decision recorded after that is linked to the execution.
- *Benchmark defence.*  A block error of an earlier turn can be shown for a later
  one (`pipeline.py:543-560`); `apply_transformation_rule` is only called by tests.
- *Scenario benchmark.*  Trace and report are named after the second they are
  written in: of two runs that end in one second the later replaces the trace
  that the other's report names (`run_scenarios.py:251` against `:320`).  The
  defence benchmark truncates its results file before it writes it, so an
  interrupt in between loses what `run_benchmark.py:406` wants to keep.
- *Policy tuner.*  The same shape of call can be recommended for promotion and
  for denial in one report.
- *Browser extension.*  Two handlers overtake each other and the later one puts
  its stale copy back, so an approval that was resolved can be pending again, and
  two handlers that resolve the same one both carry it out
  (`src/browser-demo/docs/approval_flow.md:45` says never); simulation mode is
  ignored when an approval is resolved, so a simulated allow leaves a real memory
  behind (`approval_flow.md:138`); the `source` condition of a rule is documented
  and dropped by the parser; `allowed_from` is ignored at run time; the balanced
  preset denies a hidden `save_memory` where the policy it reproduces "exactly"
  (`presets.ts:5`) does not; "no difference" between two worlds leaves out the
  order of the rules; the surface diff leaves out several changes of decision.

## 4. What is proved

For every value of the constants that meets the named assumptions of the
modules; all leaves are checked by tlapm.

| Theorem | Statement |
|---|---|
| `ApprovalFlow_proofs!TypeCorrect` | `Spec => []TypeOK` |
| `ApprovalFlow_proofs!AllowsAreTraced` | `Spec => []AllowsTraced` |
| `ApprovalFlow_proofs!RunsAreAllowed` | `Spec => []RunsWereAllowed` |
| `ApprovalFlow_proofs!OneVerdictEach` | `Spec => []OneVerdictPerScope`, with one worker |
| `ApprovalFlow_proofs!TerminalStatusesAreFinal` | `Spec => TerminalIsFinal`, an action property, with one worker |
| `ApprovalFlow_proofs!DeniedPermitsIfCutShort` | `Spec => []OnlyCutShortDenialsPermit`, with one worker |
| `ApprovalFlow_proofs!StatusesTally` | `Spec => []StatusTalliesVerdicts`, with one worker |
| `ApprovalFlow_proofs!ApprovalsKeepTheirPromise` | `Spec => KeepsPromise`, the refinement of `ActAuthorization`, with one worker |
| `SessionWorld_proofs!LogsTellSessions` | `Spec => []LogReplays`, with one worker |
| `SessionWorld_proofs!ListsAgree` | `Spec => []IndexAgrees`, with one worker |
| `SessionWorld_proofs!LastWordsWin` | `Spec => []LastWordWins`, with one worker |
| `SessionWorld_proofs!StacksAreKept` | `Spec => KeepsStack`, the refinement of `OverlayStack`, with one worker |
| `ExecutionRouter_proofs!TypeCorrect` | `Spec => []TypeOK` |
| `ExecutionRouter_proofs!ApprovalsAreWrittenAhead` | `Spec => []WriteAhead` |
| `ExecutionRouter_proofs!HeldRequestsRunOnce` | `Spec => KeepsOnce`, the refinement of `ApprovedOnce` |
| `ExecutionRouter_proofs!NoDecisionWithoutTrace` | `Spec => []DecisionChainTraced` |
| `ExecutionRouter_proofs!AsksSurviveRestarts` | `Spec => []AskSurvives` |
| `ExecutionRouter_proofs!VersionsAreRecorded` | `Spec => []VersionsRecorded` |
| `GatewaySessions_proofs!DispatchIsPermitted` | `Spec => []DispatchedIsPermitted` |
| `GatewaySessions_proofs!CountsAreExplained` | `Spec => []CountsExplained` |
| `GatewaySessions_proofs!TaintOnlyGrows` | `Spec => TaintHolds`, an action property |
| `GatewaySessions_proofs!RulesCanBeFollowed` | `Spec => []RulesNameProfiles` |
| `Executions_proofs!TaintIsInherited` | `Spec => []TaintFollowsLineage` |
| `Executions_proofs!AnswersTellTheTruth` | `Spec => []AnswersMatchEffects` |
| `Executions_proofs!OvershootIsBounded` | `Spec => []OvershootBounded` |
| `Executions_proofs!ResultsAreWhole` | `SandboxSpec => []AnswersAreWhole` |
| `Executions_proofs!BenchmarksAreTrue` | `ScenarioSpec => []BenchmarksTellTheTruth` |
| `Executions_proofs!HandlersKeepOneStory` | `BrowserSpec => []StoreTellsOneStory` |
| `Executions_proofs!DecisionsAreReproducible` | `BrowserSpec => []DecisionsNameTheirWorld` |
| `Executions_proofs!HostsKeepTheirPromises` | the last seven for `ExecutionsSpec`, the composition |
| `ProgramLayer_proofs!ActivationsAreAudited` | `WorldSpec => []NothingUnaudited` |
| `ProgramLayer_proofs!RecordsNameThePrevious` | `WorldSpec => []RecordsTrail`, with one operator |
| `ProgramLayer_proofs!LayerIsAudited`, `LayerRecordsThePrevious` | the same for `Spec`, the whole program layer |
| `ProgramLayer_proofs!DiffsExplain` | `Spec => []DiffExplains` |
| `ProgramLayer_proofs!AcceptedRun` | `Spec => []AcceptedIsRunnable` |
| `ProgramLayer_proofs!PreviewsForetell` | `Spec => []PreviewForetellsReplay` |
| `Decisions_proofs!DecisionsAlwaysStand` | `CoreSpec => []DecisionsStand` |
| `Decisions_proofs!ProvenanceIsSticky` | `ProvenanceSpec => []DenialsStick` |
| `Decisions_proofs!BudgetsAreKept` | `BoundarySpec => []BudgetsMatchDecisions` |
| `Decisions_proofs!DecisionsAreTraceable` | `BoundarySpec => []DecisionsHaveOrigins` |
| `Decisions_proofs!SurfacesMatchTraces` | `WorkflowSpec => []SurfaceMatchesTrace` |
| `Decisions_proofs!InjectionsAreContained` | `DefenseSpec => []InjectionsStayInside` |
| `Decisions_proofs!ProgramsKeepTheirPromises` | the last six for `Spec`, the composition |

The theorems about a component are about its own specification; the runs check
the same formulas in the composition that the component is part of
(`ProgramLayer`, `Executions`, `Decisions`), and that they hold there is a theorem
too: in `Executions` and `Decisions` the other parts leave the variables alone, and
in `ProgramLayer` the queries log events that have no activation number.

*Approvals.*  That a run was allowed is not inductive: a call runs because of
what a record says now, and the record was written by a handler that looked at
the clock earlier.  `AllowsTraced` closes the gap: it follows an allow from the
operator into the handler's locals (a `resolve` job with decision "allowed", a
`respond` job whose list still carries a one_off allow) and from there into the
record.  The invariant is `TypeOK /\ AllowsTraced /\ RunsWereAllowed`, and no
assumption on the number of workers is needed.

*Approvals, one handler at a time.*  The stores assume it ("single-threaded async
FastAPI context"), and with two workers the properties fail.  `Sequential` says
what a handler between two of its steps knows: the scopes it copied are those on
record, the record is still what it found, nobody else is at work.  A status may
lag behind its verdicts exactly while the handler that added them has yet to
write it, and for good if that handler was cut short: for a session that only
a header named, attaching the overlay raises between the verdict and the status,
which leaves a pending record with verdicts on it.  Then a session verdict is
among them (`cutShort`), and no theorem asks that there be no such session.  For
the refinement, each step of a handler is mapped to a step of `ActAuthorization` or to a
stutter by what it makes permitted.

*Sessions.*  The log of a session is one event behind while a handler has written
a store and not yet its event.  `Followed` says just that: replaying the log
gives the session, or gives it once the event in the handler's hands is applied.
With two workers two such events can be in hand and the log can get them in the
other order, so one worker is assumed.  `Replay` is defined by recursion; that
one more event is one more step of `After` is a lemma, by induction over the
length.

*Overlays.*  That list and records agree is not inductive either: a handler has
written one of the two while it has yet to write the other, an overlay is
stored some time after its times were fixed, and detaching takes an id off the
list by its name.  `Kept` says what holds in between.  Ids are unique and creation
times rise with the position, because an overlay is stored before the next one
is begun, so the rank of an overlay in effect is its place among the positions
(`InSequence`); what the handler has in its hands is the overlay that it stored or
detached (`Underway`); and the list of a session is that of the attached overlays
in their order, without the one that is about to be indexed and with the one
that is about to be taken off (`Listed`).  An overlay that expires leaves the
world and not the list, in whatever order they expire.  The same invariant
gives the refinement: attaching puts an id on top of its session's stack,
and a tick or a detach ends some, which leaves a part of each list.  A session
approved before it is created is the exception that `IndexAgrees` names.
For `LastWordWins` the overlays in effect are a list of increasing positions, the
worlds between them a function of the step, and a lemma about such lists
(`LastInOrder`) says that what holds at the end is what the last step that decides
it decided: once for each tool, and once for each limit and level.

*Router.*  `WriteAhead` and the refinement rest on
`Settled == SettledStaysSettled /\ HandlerIsAhead`: an approval that ran, or whose
reviewer heard "rejected", is offered nowhere; and a handler that is about to
write or run an approval has already taken it off the pending ones in memory,
so that the tearing of the file, its rewriting, a crash between them and the
load at the next start all leave it off.  Both are stated per id, and a step
touches one id, which is how the proof is laid out.  `AskSurvives` needs the
opposite of an approval nobody decided (`AllAwait`): memory, file and handler all
say "pending", the file may be torn, but once the client has the id it is whole
and no handler is left that would open it.  `VersionsRecorded` is not inductive
either: a version that is current when the engines are loaded is not appended
again, so `Recorded` adds that the current one is known already; and while a
load is between its two reads, what was read first is what the file holds or the
file was edited since.

*Gateway.*  A dispatched call is judged in the step that dispatches it, but an
asked one runs on an operator's allow that came earlier, so the invariant adds
that allows are only ever given to named sessions (`GrantsAreNamed`).
Counters and their explanation are two dictionaries that grow key by key;
`SignalsExplained` says of each client what both hold.  Rules are checked
against the catalog in memory and read back from a file beside another one:
`FilesAgree` says that the two files tell what the memory tells as long as no
write failed, so that a start cannot bring back a rule without its profile.

*Runtime kernel.*  `KernelInv` says what is known of a call while its caller
waits: its number is its own; its taint is that of its lineage; the checks that
formed it still hold, because a runtime that is built never changes; and how
far it has got - it has run exactly if its handler has answered, and nobody was
told anything yet.  A step concerns one number, and `StepKeeps` shows once that
whatever else is known stays known; each action then only has to show what it
adds.

*Budget.*  The limit of the session is held against an estimate before the call
and the cost is charged after it, so the bound is not inductive: it says nothing
of the calls under way.  `WithinAllowance` does: with `k` calls pending, what is
spent leaves room for `k` request limits below the bound, but for one call, the
last one formed, whose estimate was held against what the session had left.
A call that is charged or given up takes its room with it; that removing one
caller takes one from the count is a fact about cardinalities.

*Sandbox.*  `SandboxInv` says of each run how far its thread has come: every
statement before is an emit, the holder has the last of them, and a thread that
ended either raised or has done all.  A thread the caller gave up on goes on, and
that is all it can change, also when it keeps the interpreter: `IsWhole` speaks of
the answer, the program and of whether a thread was ever started.

*Scenario benchmark.*  Where the thread of a run is says what the status handler
can read of it (`RunSound`): the status turns "done" only at its last station,
after which nothing changes, so whatever the handler reads later belongs to the
same end.  A record is judged by the policy of its manifest in the script's
cache, which only grows, so the records of one trace agree; and a record judged
again by the policy that judged it has the same outcome.

*Browser extension.*  A handler puts back the copy it took, whatever was put back
meanwhile, so nothing can be said of the storage alone: `BrowserInv` says the same
of the storage and of every copy in a handler's hands (`StateSound`).  A copy
names only messages that were answered, and a handler adds entries under its own
number, which no copy knows; once it has answered, the number is known everywhere,
and what was sound stays sound (`Widened`).  So it does not matter which copy is
put back last.  A decision is held against the manifest behind the version it
names, and versions are never given to another manifest (`Extends`).  How often an
approval was carried out is not part of it.  The theorems cover an approval that
one handler lost to another: the queue, the trace and the memory in the storage
then all forget it together.

*Composition.*  A process runs one of these hosts and leaves the variables of the
others alone, so `ExecutionsSpec` implements the specification of each, and the
theorems hold of it.

*Worlds.*  `AuditInv` says where an activation's number is at each stage of its
command, for any number of operators and with commands that end anywhere.
`TrailInv` adds, for one operator, that what the command read about the active
world is still so when it writes.  With two operators this fails, as it would
in the code.

*Programs.*  A reviewer loads a program, changes it and saves it over whatever the
file has become, so what is sound of a file has to be sound of every program in
a process's hands (`ReviewInv`): its steps are its draft's, or what minimizing
them gives, with the diff that belongs to them, and if it is accepted it passed
validation.  Minimizing does not undo that: a minimized program is no longer
than its original and names no other tools, and its steps and diff, undone, give
the original ones, step by step in the order of the steps that were kept.

*Previews.*  Compatibility and the replay both go through the steps of the same
program, one to collect the violations and the other to stop at the first.  The
first step that fails is where the replay ends, so it ends for want of a
capability exactly if something is missing, whatever the input does; and
manifests of one key are one manifest (`KeysAreUnique`), so that the preview and
the activation look at the same world.

*Core.*  A decision is compared with what the world would say now, so the proof
is a lemma about `Extend`: it leaves what any other action requires, and what is
resolved for it, as it was.

*Provenance.*  The walk along parents is a function of the number of rounds.
Each round either adds a value or the walk is closed, so after as many rounds as
there are values it is closed (by the cardinality of what is reached): a chain
is the least closed set that holds its value.  So derivation is transitive and the
chain of a derived value contains that of its ancestors: a rule of the policy that
matches an ancestor matches the value, and a document behind the ancestor is one
behind the value.

*Compiled boundary.*  `Spent` counts, for every counter of a session, the allowed
decisions of the loaded tables that charge it; a decision adds one to the count
exactly where the engine charges, and an allow is within the limit because the
check and the charge look at the same counters.  `Linking` says of each kind of
node what it is linked to, that it is no less strict, and where its id leads, in
memory and after any number of loads: an event's to the event, an intent's to
the intent or to a decision about it, unless it is cut off (its execution was read
from a file), and the id that the last decision is asked for by to that decision.
A load may put a decision where the intent was, so a decision can be linked to
an earlier one; that all of them reach the intent is an induction over the
decisions about it (the first that would not is linked to an earlier one that
does).  The chain of a node, which is defined by recursion over the graph, is
unrolled by course-of-values recursion (edges only lead to later nodes).

*Workflow manifests.*  A profile lists what was seen in the order it was first
seen.  `InOrder` is a function of a set of positions; that every position has its
place in the order, and no other has one, is an induction over the number of
positions before it.  With it, the capabilities of a trace are those of the
tools of its safe calls, and `Compiled` (a compiled manifest is the profile of
the trace behind it) is enough.

*Benchmark defence.*  `DefenseInv` says that the taint tells what was seen: its
values are those of the injections among the texts of the episode, and it is set
after any.  Sanitizing a list of results, the last one first, adds to the taint
just what it adds to what was seen, by induction over the list.  A call that
the guard let through runs before the next text is seen, so what the guard found
of it still holds when it runs; the calls of a turn keep their places between
the two.

*Induction.*  The library states induction and recursion with an operator as a
parameter, which the installed provers cannot instantiate.  `DataInduction`
derives the set forms from what they can use - finite sets are well founded by
inclusion, so every set of numbers has a least element - and from these the
existence of functions defined by iteration and by course of values, that a
set of positions has one order, and what a part of a part of a list is.

Assumptions: only the named ASSUMEs of the modules: engines are functions into the
three verdicts, `NoId` is not an approval id and `NoVersion` (the router's
"unversioned") no version, the key of calls without a session is no session,
lives, limits, prices, costs, token counts and bounds are natural numbers (the
history cap of the browser extension is one), tools are of one kind, there are
finitely many callers and at least one, the listing of scenarios names scenarios,
the body of a program is a sequence, a draft is a sequence of candidate steps and
not empty, and `Unbuilt` is no pipeline; and, stated in the theorems, one worker
or one operator where the code assumes them.

Only model-checked: the two liveness properties, `AllowIsAnnounced` and
`CallersAreAnswered`, which are out of the prover's reach, and the operator facts
of section 3, which TLC evaluates over bounded inputs.  Every safety property of
a passing run, its action properties and its refinements are theorems, under the
hypotheses named in the table (the runs of those properties meet them too).

## 5. Abstractions

- A call is its fingerprint; digests and truncated uuids do not collide.
- Time is a clock of ticks; no step takes time of its own.
- Inboxes are sets of frames; the capacity of queues and the framing are left out.
- Manifests, engines, arguments, provenance and messages are model values,
  small records or constants.  Session states that no code enters are left out.
- A failed append to a trace or history file writes nothing.  (A line is one
  buffered write; if the disk took a part of it, the next line would be glued to
  the rest and its readers would skip both.)
- `additional_constraints` is a limit whose value is replaced whole.
- Text is recognised, matched and canonicalised by constant relations: which
  path fits which pattern, which result holds an injection, which program
  validates.
- Costs are integers in units of 1/`MultiplierDen`; the rounding of floats is
  left out.
- Bags of records stand for logs whose order nothing reads.
- External, modelled from how `src/` uses them: adapters, the file system, the
  browser's storage and tabs, a worker's handlers, the interpreter of programs,
  the language model.

## 6. Not modelled, and what is left

- *Transport*: framing of server-sent events, the capacity of queues, the
  heartbeat, JSON-RPC responses that share a stream with approvals.
- *Semantic compiler and coverage commands*: heuristics over text, reports.
- *Gateway client, authoring DSL, the rest of the web UI*: no state that
  outlives a call; the UI's pages read what other modules model.
- *Older demos, notebooks, playgrounds*: illustrations and earlier copies of the
  same code.

Left to prove: the facts about operators of section 3 for all inputs, where
their operators do not rest on `SelectSeq`, folds or sorting, whose library
definitions the provers do not open; and what remains of the two-worker
behaviour of sessions, whose exact disorder no property states.
