----------------------------- MODULE ProgramLayer -----------------------------
(***************************************************************************)
(* The program layer as a whole: reviewed programs and worlds side by      *)
(* side, and what needs both: compatibility queries, the preview of an     *)
(* activation, scenarios.  A replay changes nothing but its own output, so *)
(* the properties quantify over every replay there could be.               *)
(***************************************************************************)
EXTENDS ReviewedPrograms, WorldActivation

CONSTANTS
  Scenarios   \* the scenario manifests: [program, worlds (keys), input]

VARIABLES
  lastRun     \* per scenario what the latest trace says: did the worlds agree

layerVars == <<programs, review, worldVars, lastRun>>

Init ==
  /\ ReviewInit
  /\ WorldInit
  /\ lastRun = [s \in Scenarios |-> "none"]

LogQuery(action, key, losing) ==
  /\ events' = events \cup {OperatorEvent(action, 0, key, losing)}
  /\ UNCHANGED <<programs, review, library, active, history, command, activations,
                 written, pointed, before, lost, lastRun>>

\* The explicit world, or the active one.
GetProgramCompatibility(id, key) ==
  /\ id \in DOMAIN programs
  /\ Exists(key)
  /\ LogQuery("get_program_compatibility", key, 0)

\* Programs that reviewers have seen and that the target would refuse.
UnderReview == {id \in DOMAIN programs : programs[id].status \in {"reviewed", "accepted"}}

BecomingIncompatible(target) ==
  {id \in UnderReview :
     /\ ActiveWorld # NoWorld
     /\ Compatible(programs[id].minimized, World(ActiveWorld).allowed)
     /\ ~Compatible(programs[id].minimized, World(target).allowed)}

PreviewActivationImpact(key) ==
  /\ Exists(key)
  /\ LogQuery("preview_activation_impact", key, Cardinality(BecomingIncompatible(key)))

\* The worlds are looked up one after the other; one that is missing, and a
\* replay that raises, end the command before anything is stored.
ScenarioResults(s, input, slow) ==
  {WorldResult(programs[s.program].minimized, World(key), input, slow) : key \in s.worlds}

RunScenario(s) ==
  /\ s.program \in DOMAIN programs
  /\ \A key \in s.worlds : Exists(key)
  /\ \E slow \in {{}, {1}} :
       LET results == ScenarioResults(s, s.input, slow)
       IN /\ \A r \in results : ~r.raised
          /\ lastRun' = [lastRun EXCEPT ![s] =
               IF DivergencePoints(results) = {} THEN "agree" ELSE "diverged"]
  /\ UNCHANGED <<programs, review, worldVars>>

Next ==
  \/ ReviewNext /\ UNCHANGED <<worldVars, lastRun>>
  \/ WorldNext /\ UNCHANGED <<programs, review, lastRun>>
  \/ \E key \in Keys :
       \/ PreviewActivationImpact(key)
       \/ \E id \in ProgramIds : GetProgramCompatibility(id, key)
  \/ \E s \in Scenarios : RunScenario(s)

Spec == Init /\ [][Next]_layerVars

-----------------------------------------------------------------------------
(* Properties *)

Slowness(id) == SUBSET DOMAIN programs[id].minimized

Denied(id, w, input, slow) ==
  LET trace == Replay(programs[id].minimized, w.allowed, input, slow)
  IN /\ FinalVerdict(trace) = "deny"
     /\ \E n \in DOMAIN trace.steps : RuleKind(trace.steps[n].kind) = "capability"

\* A preview foretells the replay: where it finds the program compatible, no
\* step is denied for a missing capability; where it does not, no step runs at
\* all ("world validation runs before any step executes").  So the report
\* before an activation counts a program exactly if it is under review and its
\* replay turns from possible to denied, whatever its input and its timing.
PreviewForetellsReplay ==
  /\ \A id \in DOMAIN programs, w \in library, input \in BOOLEAN :
       LET steps == programs[id].minimized
       IN \A slow \in Slowness(id) :
            LET trace == Replay(steps, w.allowed, input, slow)
            IN ~trace.raised =>
                 /\ Compatible(steps, w.allowed) <=> ~Denied(id, w, input, slow)
                 /\ ~Compatible(steps, w.allowed) =>
                      \A n \in DOMAIN trace.steps : trace.steps[n].verdict = "deny"
  /\ \A w \in library : ActiveWorld # NoWorld =>
       {id \in BecomingIncompatible(Key(w)) : ~TooLong(programs[id].minimized)}
         = {id \in UnderReview : /\ ~TooLong(programs[id].minimized)
                                 /\ ~Denied(id, World(ActiveWorld), TRUE, {})
                                 /\ Denied(id, w, TRUE, {})}
=============================================================================
