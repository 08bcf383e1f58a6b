----------------------------- MODULE ScenarioRuns -----------------------------
(***************************************************************************)
(* The scenario benchmark: runs started from the web UI (ui/router.py),    *)
(* the script they run (_research/benchmarks/run_scenarios.py) and the     *)
(* replay of what it recorded (replay.py).                                 *)
(*                                                                         *)
(* A run is a daemon thread that waits for a child process; the status     *)
(* handler reads the same dictionary from a thread of the pool, so it can  *)
(* come between two of the thread's assignments, and the thread between    *)
(* two of its reads.  Files are named after the second they are written    *)
(* in.  The policy files can be edited, and fixtures removed, at any time. *)
(*                                                                         *)
(* by, in a record, and gone, in a comparison, are history: which policy   *)
(* judged, and whether the fixture was missing.                            *)
(***************************************************************************)
EXTENDS Naturals, Sequences

CONSTANTS
  Fixtures,       \* the scenario files: id -> scenario
  Listing,        \* their ids in the order of their paths
  Policies,       \* contents of a policy file
  EngineVerdict,  \* [Policies -> [calls -> verdict or "error"]]
  RunIds,         \* truncated uuids of runs, taken to be distinct
  MaxClock,       \* bound on the seconds that pass
  MaxEdits        \* bound on edits of policies and fixtures

ASSUME ListingAssumption == Listing \in Seq(DOMAIN Fixtures)

None == "none"
NoArgs == "no arguments"
Classes == {"attack", "safe", "ambiguous"}

VARIABLES
  clock,
  policyFile,   \* manifest -> what its policy file holds
  present,      \* the fixtures that exist
  edits,        \* how many edits there were
  benchmarkRuns, \* _benchmark_runs
  work,         \* the thread of each run and the script it waits for
  traces,       \* second -> records
  reports,      \* second -> the records it counts
  replay,       \* the replay script, if one runs
  compared,     \* what replays found
  poll,         \* the status handler in progress
  told          \* what it told

files == <<policyFile, present, edits>>
scenarioVars == <<clock, files, benchmarkRuns, work, traces, reports, replay,
                  compared, poll, told>>

Idle == [pc |-> "idle"]
Manifests == {Fixtures[id].manifest : id \in DOMAIN Fixtures}

Put(dict, key, value) ==
  [k \in DOMAIN dict \cup {key} |-> IF k = key THEN value ELSE dict[k]]

-----------------------------------------------------------------------------
(***************************************************************************)
(* Judging one scenario.                                                   *)
(***************************************************************************)
ProvenanceOf(channel) ==
  CASE channel \in {"email", "web", "file"} -> "external_document"
    [] channel \in {"mcp", "agent"} -> "derived"
    [] channel = "system" -> "system"
    [] OTHER -> "user_declared"

OutcomeOf(policy, tool, args, channel) ==
  LET verdict == EngineVerdict[policy][<<tool, args, ProvenanceOf(channel)>>]
  IN  IF verdict = "ask" THEN "require_approval" ELSE verdict

\* evaluate_scenario: of several steps the last one is judged; the record
\* keeps the channel of the scenario.
Evaluate(id, policy) ==
  LET scenario == Fixtures[id]
      step == scenario.steps[Len(scenario.steps)]
      channel == IF step.channel = None THEN scenario.channel ELSE step.channel
  IN  [ scenario |-> id,
        manifest |-> scenario.manifest,
        tool     |-> step.tool,
        channel  |-> scenario.channel,
        outcome  |-> OutcomeOf(policy, step.tool, step.args, channel),
        expected |-> scenario.expected,
        by       |-> policy ]

Matches(record) == record.outcome = record.expected

\* Mutated: every scenario reads its policy file.
LoadAlways(cache, manifest) == Put(cache, manifest, policyFile[manifest])

\* load_policy: a process reads the policy of a manifest once.
Load(cache, manifest) ==
  IF manifest \in DOMAIN cache THEN cache
  ELSE Put(cache, manifest, policyFile[manifest])

-----------------------------------------------------------------------------
(***************************************************************************)
(* POST /ui/api/benchmarks/run and the thread it starts.                   *)
(***************************************************************************)
\* Where the listing has a scenario of the class.
Selected(class) ==
  {i \in DOMAIN Listing : /\ Listing[i] \in present
                          /\ class \in {"all", Fixtures[Listing[i]].class}}

StartRun(r, class) ==
  /\ r \notin DOMAIN benchmarkRuns
  /\ benchmarkRuns' = Put(benchmarkRuns, r, [status |-> "running", output |-> None, exit |-> None])
  /\ work' = Put(work, r, [pc |-> "launch", class |-> class, todo |-> {},
                           cache |-> <<>>, records |-> <<>>, stamp |-> 0,
                           exit |-> None])
  /\ UNCHANGED <<clock, files, traces, reports, replay, compared, poll, told>>

Others == <<clock, files, replay, compared, poll, told>>

At(r, pc) == r \in DOMAIN work /\ work[r].pc = pc

\* The script lists the fixtures of its class.  Without any it returns 1.
LoadScenarios(r) ==
  /\ At(r, "launch")
  /\ LET todo == Selected(work[r].class) IN
     work' = [work EXCEPT ![r].todo = todo,
                          ![r].pc = IF todo = {} THEN "exited" ELSE "judging",
                          ![r].exit = IF todo = {} THEN "1" ELSE None]
  /\ UNCHANGED <<benchmarkRuns, traces, reports, Others>>

JudgeNext(r) ==
  /\ At(r, "judging")
  /\ \E i \in work[r].todo :
       /\ \A j \in work[r].todo : i <= j
       /\ LET id == Listing[i]
              cache == Load(work[r].cache, Fixtures[id].manifest)
              record == Evaluate(id, cache[Fixtures[id].manifest])
          IN  work' = [work EXCEPT ![r].todo = @ \ {i}, ![r].cache = cache,
                                   ![r].records = Append(@, record)]
  /\ UNCHANGED <<benchmarkRuns, traces, reports, Others>>

\* The name of the trace and of the report is the second it is now.
WriteTrace(r) ==
  /\ At(r, "judging")
  /\ work[r].todo = {}
  /\ traces' = Put(traces, clock, work[r].records)
  /\ work' = [work EXCEPT ![r].pc = "traced", ![r].stamp = clock]
  /\ UNCHANGED <<benchmarkRuns, reports, Others>>

\* The script exits with "0" if all outcomes were as expected.
WriteReport(r) ==
  /\ At(r, "traced")
  /\ reports' = Put(reports, work[r].stamp, work[r].records)
  /\ work' = [work EXCEPT ![r].pc = "exited",
       ![r].exit = IF \A i \in DOMAIN work[r].records : Matches(work[r].records[i])
                   THEN "0" ELSE "1"]
  /\ UNCHANGED <<benchmarkRuns, traces, Others>>

\* Mutated: the run is reported done before its exit code is known.
KeepOutputDone(r) ==
  /\ At(r, "exited")
  /\ benchmarkRuns' = [benchmarkRuns EXCEPT ![r].output = "printed", ![r].status = "done"]
  /\ work' = [work EXCEPT ![r].pc = "output"]
  /\ UNCHANGED <<traces, reports, Others>>

\* The thread's three assignments after the process has ended.
KeepOutput(r) ==
  /\ At(r, "exited")
  /\ benchmarkRuns' = [benchmarkRuns EXCEPT ![r].output = "printed"]
  /\ work' = [work EXCEPT ![r].pc = "output"]
  /\ UNCHANGED <<traces, reports, Others>>

KeepExit(r) ==
  /\ At(r, "output")
  /\ benchmarkRuns' = [benchmarkRuns EXCEPT ![r].exit = work[r].exit]
  /\ work' = [work EXCEPT ![r].pc = "exit"]
  /\ UNCHANGED <<traces, reports, Others>>

KeepDone(r) ==
  /\ At(r, "exit")
  /\ benchmarkRuns' = [benchmarkRuns EXCEPT ![r].status = "done"]
  /\ work' = [work EXCEPT ![r].pc = "end"]
  /\ UNCHANGED <<traces, reports, Others>>

\* 120 seconds are over and the process is killed, or it cannot be started: the
\* status comes first.
GiveUp(r) ==
  /\ \/ /\ At(r, "launch") \/ At(r, "judging") \/ At(r, "traced")
        /\ benchmarkRuns' = [benchmarkRuns EXCEPT ![r].status = "timeout"]
     \/ /\ At(r, "launch")
        /\ benchmarkRuns' = [benchmarkRuns EXCEPT ![r].status = "error"]
  /\ work' = [work EXCEPT ![r].pc = "given up"]
  /\ UNCHANGED <<traces, reports, Others>>

KeepReason(r) ==
  /\ At(r, "given up")
  /\ benchmarkRuns' = [benchmarkRuns EXCEPT ![r].output = "reason"]
  /\ work' = [work EXCEPT ![r].pc = "end"]
  /\ UNCHANGED <<traces, reports, Others>>

RunStep(r) ==
  \/ LoadScenarios(r) \/ JudgeNext(r) \/ WriteTrace(r) \/ WriteReport(r)
  \/ KeepOutput(r) \/ KeepExit(r) \/ KeepDone(r) \/ GiveUp(r) \/ KeepReason(r)

-----------------------------------------------------------------------------
(***************************************************************************)
(* GET /ui/api/benchmarks/run/{id}/status: status, output and exit code    *)
(* are read one after the other.                                           *)
(***************************************************************************)
ReadStatus(r) ==
  /\ poll = Idle
  /\ r \in DOMAIN benchmarkRuns
  /\ poll' = [pc |-> "status", run |-> r, status |-> benchmarkRuns[r].status]
  /\ UNCHANGED <<clock, files, benchmarkRuns, work, traces, reports, replay, compared, told>>

ReadOutput ==
  /\ poll.pc = "status"
  /\ poll' = [pc |-> "output", run |-> poll.run, status |-> poll.status,
              output |-> benchmarkRuns[poll.run].output]
  /\ UNCHANGED <<clock, files, benchmarkRuns, work, traces, reports, replay, compared, told>>

ReadExit ==
  /\ poll.pc = "output"
  /\ told' = told \cup {[run |-> poll.run, status |-> poll.status,
                               output |-> poll.output, exit |-> benchmarkRuns[poll.run].exit]}
  /\ poll' = Idle
  /\ UNCHANGED <<clock, files, benchmarkRuns, work, traces, reports, replay, compared>>

-----------------------------------------------------------------------------
(***************************************************************************)
(* replay.py: each record of a trace is judged again, by its fixture or,   *)
(* if that is gone, by its tool and channel alone.  The module has a cache *)
(* of policies and so has run_scenarios, which it imports; the fixtures    *)
(* are indexed with the first record.                                      *)
(***************************************************************************)
StartReplay(second) ==
  /\ replay = Idle
  /\ second \in DOMAIN traces
  /\ replay' = [pc |-> "replaying", todo |-> traces[second], begun |-> FALSE,
                index |-> {}, own |-> <<>>, runner |-> <<>>]
  /\ UNCHANGED <<clock, files, benchmarkRuns, work, traces, reports, compared, poll, told>>

\* Mutated: the arguments of the fixture are not used.
ReplayedWithout(record, indexed, own, runner) ==
  OutcomeOf(own[record.manifest], record.tool, NoArgs, record.channel)

\* _replay_record
Replayed(record, indexed, own, runner) ==
  IF indexed
  THEN Evaluate(record.scenario, runner[record.manifest]).outcome
  ELSE OutcomeOf(own[record.manifest], record.tool, NoArgs, record.channel)

ReplayNext ==
  /\ replay.pc = "replaying"
  /\ replay.todo # <<>>
  /\ LET record == Head(replay.todo)
         index == IF replay.begun THEN replay.index ELSE present
         indexed == record.scenario \in index
         own == Load(replay.own, record.manifest)
         runner == IF indexed THEN Load(replay.runner, record.manifest)
                   ELSE replay.runner
         outcome == Replayed(record, indexed, own, runner)
     IN  /\ replay' = [replay EXCEPT !.todo = Tail(@), !.begun = TRUE,
                                     !.index = index, !.own = own, !.runner = runner]
         /\ compared' = compared \cup
              {[record |-> record, outcome |-> outcome, gone |-> ~indexed,
                by |-> IF indexed THEN runner[record.manifest] ELSE own[record.manifest],
                deterministic |-> outcome = record.outcome /\ outcome # "error"]}
  /\ UNCHANGED <<clock, files, benchmarkRuns, work, traces, reports, poll, told>>

EndReplay ==
  /\ replay.pc = "replaying"
  /\ replay.todo = <<>>
  /\ replay' = Idle
  /\ UNCHANGED <<clock, files, benchmarkRuns, work, traces, reports, compared, poll, told>>

-----------------------------------------------------------------------------
EditPolicy(manifest, policy) ==
  /\ edits < MaxEdits
  /\ policyFile' = [policyFile EXCEPT ![manifest] = policy]
  /\ edits' = edits + 1
  /\ UNCHANGED <<clock, present, benchmarkRuns, work, traces, reports, replay, compared,
                 poll, told>>

RemoveFixture(id) ==
  /\ edits < MaxEdits
  /\ present' = present \ {id}
  /\ edits' = edits + 1
  /\ UNCHANGED <<clock, policyFile, benchmarkRuns, work, traces, reports, replay, compared,
                 poll, told>>

Tick ==
  /\ clock < MaxClock
  /\ clock' = clock + 1
  /\ UNCHANGED <<files, benchmarkRuns, work, traces, reports, replay, compared, poll, told>>

ScenarioInit ==
  /\ clock = 0
  /\ policyFile \in [Manifests -> Policies]
  /\ present = DOMAIN Fixtures
  /\ edits = 0
  /\ benchmarkRuns = <<>> /\ work = <<>> /\ traces = <<>> /\ reports = <<>>
  /\ replay = Idle /\ compared = {}
  /\ poll = Idle /\ told = {}

ScenarioNext ==
  \/ \E r \in RunIds, class \in Classes \cup {"all"} : StartRun(r, class)
  \/ \E r \in RunIds : RunStep(r) \/ ReadStatus(r)
  \/ ReadOutput \/ ReadExit
  \/ \E second \in 0..MaxClock : StartReplay(second)
  \/ ReplayNext \/ EndReplay
  \/ \E m \in Manifests, policy \in Policies : EditPolicy(m, policy)
  \/ \E id \in DOMAIN Fixtures : RemoveFixture(id)
  \/ Tick

ScenarioSpec == ScenarioInit /\ [][ScenarioNext]_scenarioVars

-----------------------------------------------------------------------------
\* Whoever is told that a run is done is told its output and its exit code, and
\* "0" means that every record of that run matched, however the status handler
\* and the thread of the run interleave.
DoneIsWhole ==
  \A answer \in told : answer.status = "done" =>
    /\ answer.output = "printed"
    /\ answer.exit # None
    /\ answer.exit = "0" => LET records == work[answer.run].records IN
                          \A i \in DOMAIN records : Matches(records[i])

\* The records of one manifest in one trace were judged by one policy, even if
\* its file was edited while the script ran.
JudgedAlike ==
  \A second \in DOMAIN traces : LET records == traces[second] IN
    \A i, j \in DOMAIN records :
      records[i].manifest = records[j].manifest => records[i].by = records[j].by

\* A replay reports drift only if the policy was edited or the fixture removed
\* since the run, or the engine had failed: "Determinism: same input -> same
\* outcome across runs" (replay.py).
DriftMeansEdit ==
  \A found \in compared : ~found.deterministic =>
    \/ found.gone
    \/ found.by # found.record.by
    \/ found.record.outcome = "error"

\* What the benchmark tells about a run is true of it: the status while threads
\* interleave, the trace while policies are edited, the drift that a replay
\* finds (api_benchmarks_run_status, load_policy, _replay_record).
BenchmarksTellTheTruth == DoneIsWhole /\ JudgedAlike /\ DriftMeansEdit
=============================================================================
