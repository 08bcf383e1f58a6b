----------------------------- MODULE Executions -----------------------------
(***************************************************************************)
(* The four places that run something apart from the one who asks for it:  *)
(* the worker process of the runtime kernel, the sandbox thread of the     *)
(* tool gateway, the background page of the browser extension and the      *)
(* thread of a benchmark run.  They share no state: a process runs one.    *)
(***************************************************************************)
EXTENDS RuntimeKernel, ProgramSandbox, BrowserExtension, ScenarioRuns

VARIABLE host   \* which of them the process runs

executionVars == <<host, kernelVars, runs, browserVars, scenarioVars>>

ExecutionsInit ==
  /\ host \in {"worker", "sandbox", "browser", "benchmark"}
  /\ Init
  /\ SandboxInit
  /\ BrowserInit
  /\ ScenarioInit
  /\ host # "benchmark" => policyFile = CHOOSE f \in [Manifests -> Policies] : TRUE

ExecutionsNext ==
  /\ UNCHANGED host
  /\ \/ /\ host = "worker" /\ Next
        /\ UNCHANGED <<runs, browserVars, scenarioVars>>
     \/ /\ host = "sandbox" /\ SandboxNext
        /\ UNCHANGED <<kernelVars, browserVars, scenarioVars>>
     \/ /\ host = "browser" /\ BrowserNext
        /\ UNCHANGED <<kernelVars, runs, scenarioVars>>
     \/ /\ host = "benchmark" /\ ScenarioNext
        /\ UNCHANGED <<kernelVars, runs, browserVars>>

ExecutionsSpec ==
  ExecutionsInit /\ [][ExecutionsNext]_executionVars /\ SandboxFairness
=============================================================================
