------------------------------ MODULE Decisions ------------------------------
(***************************************************************************)
(* Every other place of the repository that decides about an action, or    *)
(* about what was decided: the compiled boundary, the provenance engines,  *)
(* the workflow manifests, the two small hypervisors and the defence of    *)
(* the benchmark.  They share no state: a process runs one.                *)
(***************************************************************************)
EXTENDS IntentPipeline, ProvenanceRules, WorkflowManifest, CoreWorld,
        EpisodeDefense

VARIABLE program   \* which of them the process runs

decisionVars == <<program, pipelineVars, registry, workflowVars, coreVars,
                  defenseVars>>

Programs == {"boundary", "provenance", "workflow", "core", "defense"}

Init ==
  /\ program \in Programs
  /\ PipelineInit
  /\ RegistryInit
  /\ WorkflowInit
  /\ CoreInit
  /\ DefenseInit
  /\ program # "core" => mode = "background"

Next ==
  /\ UNCHANGED program
  /\ \/ /\ program = "boundary" /\ PipelineNext
        /\ UNCHANGED <<registry, workflowVars, coreVars, defenseVars>>
     \/ /\ program = "provenance" /\ RegistryNext
        /\ UNCHANGED <<pipelineVars, workflowVars, coreVars, defenseVars>>
     \/ /\ program = "workflow" /\ WorkflowNext
        /\ UNCHANGED <<pipelineVars, registry, coreVars, defenseVars>>
     \/ /\ program = "core" /\ CoreNext
        /\ UNCHANGED <<pipelineVars, registry, workflowVars, defenseVars>>
     \/ /\ program = "defense" /\ DefenseNext
        /\ UNCHANGED <<pipelineVars, registry, workflowVars, coreVars>>

Spec == Init /\ [][Next]_decisionVars
=============================================================================
