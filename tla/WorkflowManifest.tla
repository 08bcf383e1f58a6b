--------------------------- MODULE WorkflowManifest ---------------------------
(***************************************************************************)
(* Workflow manifests: a trace of tool calls is observed, profiled into    *)
(* capabilities and saved; the manifest is rendered into wrapped tools, and *)
(* steps are enforced against it.                                          *)
(***************************************************************************)
EXTENDS Integers, Sequences, FiniteSets, SequencesExt, Positions

CONSTANTS
  FileTools, WebTools, PlainTools,   \* tools, by what their names say
  Paths, Domains,                    \* what their parameters may be
  Fitting,                           \* <<pattern, path>>: the path fits (fnmatch)
  Starting,                          \* <<command, resource>>: how the latter starts
  HandWritten,                       \* manifests that somebody writes
  MaxCalls                           \* bound on the calls of a trace

\* The profiler knows a tool by its name, as one of the three.
ASSUME WorkflowToolsAssumption ==
  /\ FileTools \cap WebTools = {}
  /\ PlainTools \cap (FileTools \cup WebTools) = {}

VARIABLES
  trace,      \* the calls observed so far, each annotated as safe or not
  manifest,   \* capabilities on disk, in order
  source      \* history variable: the trace behind the manifest

workflowVars == <<trace, manifest, source>>

WorkflowTools == FileTools \cup WebTools \cup PlainTools
Example == "example_tool"

\* A parameter is there or not.
NoParam == {}
Params == {NoParam} \cup {{x} : x \in Paths \cup Domains}

Call(tool, param, safe) == [tool |-> tool, param |-> param, safe |-> safe]
Calls == {Call(t, p, s) : t \in WorkflowTools, p \in Params, s \in BOOLEAN}

\* The constraints of a capability: paths, domains, remotes, commands, each or not.
Unrestricted == [k \in {} |-> {}]
Capability(tool, constraints) == [tool |-> tool, constraints |-> constraints]
Constrains(cap, kind) == kind \in DOMAIN cap.constraints

NoManifest == <<>>
NoTrace == <<Call(Example, NoParam, FALSE)>>

WorkflowInit ==
  /\ trace = <<>>
  /\ manifest = NoManifest
  /\ source = NoTrace

-----------------------------------------------------------------------------
(* Profiling *)

\* Of what is counted, the values of one kind in the calls of a tool.
ValuesOf(counted, tool, kinds) ==
  UNION {c.param \cap kinds : c \in {d \in counted : d.tool = tool}}

\* The constraint that the calls of a tool amount to.
Profiled(counted, tool) ==
  CASE tool \in FileTools -> Capability(tool, [paths |-> ValuesOf(counted, tool, Paths)])
    [] tool \in WebTools -> Capability(tool, [domains |-> ValuesOf(counted, tool, Domains)])
    [] tool \in PlainTools -> Capability(tool, Unrestricted)

\* A capability for each tool among the calls at some positions, in the order of
\* its first one.
Profile(calls, positions) ==
  LET first == InOrder({i \in positions :
                 \A j \in positions : j < i => calls[j].tool # calls[i].tool})
  IN [n \in DOMAIN first |->
        Profiled({calls[i] : i \in positions}, calls[first[n]].tool)]

\* Mutated: a tool that was safe once is profiled from all of its calls.
ProfileSafeTools(calls) ==
  LET tools == {calls[i].tool : i \in {j \in DOMAIN calls : calls[j].safe}}
  IN Profile(calls, {i \in DOMAIN calls : calls[i].tool \in tools})

\* profile_trace: only safe calls count.
ProfileTrace(calls) == Profile(calls, {i \in DOMAIN calls : calls[i].safe})

-----------------------------------------------------------------------------
(* Rendering and enforcing *)

Fits(path, patterns) == \E p \in patterns : <<p, path>> \in Fitting
Starts(resource, commands) == \E c \in commands : <<c, resource>> \in Starting

\* CapabilityConstraint.allows: a parameter that is not given is not checked.
Allows(cap, tool, param) ==
  /\ cap.tool = tool
  /\ Constrains(cap, "paths") => \A x \in param \cap Paths : Fits(x, cap.constraints["paths"])
  /\ Constrains(cap, "domains") => param \cap Domains \subseteq cap.constraints["domains"]

\* render_manifest: one wrapped tool per name, that of the last capability; a
\* tool that was not rendered is not there to be called.
RenderedCallPasses(tool, param) ==
  LET caps == {i \in DOMAIN manifest : manifest[i].tool = tool}
  IN /\ caps # {}
     /\ Allows(manifest[CHOOSE i \in caps : \A j \in caps : i >= j], tool, param)

\* What a resource may be under the constraints; domains are not looked at.
Within(cap, resource) ==
  /\ Constrains(cap, "remotes") => resource \subseteq cap.constraints["remotes"]
  /\ Constrains(cap, "commands") => \A x \in resource : Starts(x, cap.constraints["commands"])
  /\ Constrains(cap, "paths") => \A x \in resource : Fits(x, cap.constraints["paths"])

\* A step is known by its tool and by its tool_key, tool and action in one; both
\* are the same without an action.
StepNames == {{tool, key} : tool, key \in WorkflowTools}

\* evaluate: the first capability for either name decides.
Evaluated(names, resource, tainted) ==
  LET caps == {i \in DOMAIN manifest : manifest[i].tool \in names}
      cap == manifest[CHOOSE i \in caps : \A j \in caps : i <= j]
  IN IF caps = {} THEN "DENY_ABSENT"
     ELSE IF tainted \/ ~Within(cap, resource) THEN "DENY_POLICY"
     ELSE "ALLOW"

-----------------------------------------------------------------------------
(* Commands *)

\* An agent runs under observation; outside of this code.
Record(call) ==
  /\ Len(trace) < MaxCalls
  /\ trace' = Append(trace, call)
  /\ UNCHANGED <<manifest, source>>

\* awc init: a skeleton with a tool that nobody has.
InitManifest ==
  /\ manifest' = <<Capability(Example, Unrestricted)>>
  /\ source' = NoTrace
  /\ UNCHANGED trace

\* awc profile --output and awc compile: the file is replaced.
Compile ==
  /\ manifest' = ProfileTrace(trace)
  /\ source' = trace
  /\ UNCHANGED trace

\* load_manifest takes what somebody wrote, if its form is right.
WriteManifest(written) ==
  /\ manifest' = written
  /\ source' = NoTrace
  /\ UNCHANGED trace

WorkflowNext ==
  \/ \E call \in Calls : Record(call)
  \/ InitManifest
  \/ Compile
  \/ \E written \in HandWritten : WriteManifest(written)

WorkflowSpec == WorkflowInit /\ [][WorkflowNext]_workflowVars

-----------------------------------------------------------------------------
(* Properties *)

SafeCalls(calls) == {c \in Range(calls) : c.safe}

\* "Safe compression" and "no capability expansion", as they take effect where
\* tools are called: what a trace shows to be safe may be done again, unless a
\* path in it is a pattern that does not fit itself, and the enforcer agrees
\* about a step without an action; what the rendered tools let through is of a tool that was safe, with
\* a path or a domain that fits a safe one; and no manifest, written by hand or
\* compiled, lets tainted input through.
SurfaceMatchesTrace ==
  /\ \A names \in StepNames, param \in Params : Evaluated(names, param, TRUE) # "ALLOW"
  /\ source # NoTrace =>
       /\ \A c \in {d \in SafeCalls(source) : \A x \in d.param \cap Paths : Fits(x, {x})} :
            /\ RenderedCallPasses(c.tool, c.param)
            /\ c.tool \in FileTools /\ c.param \subseteq Paths =>
                 Evaluated({c.tool}, c.param, FALSE) = "ALLOW"
       /\ \A tool \in WorkflowTools, param \in Params : RenderedCallPasses(tool, param) =>
            \E c \in SafeCalls(source) : c.tool = tool /\
              LET seen == UNION {d.param : d \in {d \in SafeCalls(source) : d.tool = tool}}
              IN /\ tool \in FileTools => \A x \in param \cap Paths : Fits(x, seen)
                 /\ tool \in WebTools => param \cap Domains \subseteq seen
=============================================================================
