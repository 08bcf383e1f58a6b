---------------------------- MODULE IntentPipeline ----------------------------
(***************************************************************************)
(* From a world manifest to a recorded decision: artifacts are compiled and *)
(* written, an engine loads them, events cross the boundary, proposals     *)
(* inherit their taint, the engine decides within the session's budget,    *)
(* and the provenance graph links what happened.                           *)
(***************************************************************************)
EXTENDS WorldArtifacts

CONSTANTS
  Manifests,   \* manifests that may be built
  MaxNodes     \* bound on the nodes of the graph

VARIABLES
  defaults,   \* containment defaults of the compiling process
  output,     \* the artifacts on disk, none yet, or from several builds
  built,      \* history variable: each manifest with what was emitted for it
  engine,     \* the tables the engine has loaded and what its session has used
  nodes,      \* of the graph, in order; an object's id is the index of its node
  edges,      \* of the graph
  ids,        \* of the graph, _id_to_node: id of an object -> index of its node
  loaded      \* history variable: the nodes there were when the graph was last
              \* read from its file, 0 if it never was

pipelineVars == <<defaults, output, built, engine, nodes, edges, ids, loaded>>

Missing == [missing |-> TRUE]

External == {"external_read", "external_write"}
Counters == {"actions"} \cup External \cup Actions
Verdicts == {"allow", "deny", "require_approval", "simulate"}

\* Every counter has a limit; budgets below zero do not pass the validator.
ASSUME ManifestsAssumption ==
  \A m \in Manifests : "limits" \in DOMAIN m /\ m.limits \in [Counters -> Nat]

Node(type, of, source, tool, taint, level, verdict) ==
  [type |-> type, of |-> of, source |-> source, tool |-> tool, taint |-> taint,
   level |-> level, verdict |-> verdict]

\* What is written by hand, and what a migration makes of version 1.
Buildable == Manifests \cup {FillIn(Migrate(m)) : m \in {n \in Manifests : LoadsV1(n)}}

PipelineInit ==
  /\ defaults = DefaultContainment
  /\ output = [f \in {} |-> Missing]
  /\ built = {}
  /\ engine = Missing
  /\ nodes = <<>>
  /\ edges = {}
  /\ ids = [k \in {} |-> 0]
  /\ loaded = 0

-----------------------------------------------------------------------------
(* Building *)

Loads(manifest) == LoadsV1(manifest) \/ LoadsV2(manifest)

\* Loaded and emitted, by ahc build or by a caller of the two.  A build that stops
\* while it writes leaves files of the build before it.
Build(manifest, files) ==
  /\ Loads(manifest)
  /\ IF Emits(manifest)
     THEN LET new == Emitted(defaults, manifest)
          IN /\ defaults' = DefaultsAfter(defaults, manifest)
             /\ output' = [f \in DOMAIN output \cup files |->
                             IF f \in files THEN new[f] ELSE output[f]]
             /\ built' = built \cup {<<manifest, new>>}
     ELSE UNCHANGED <<defaults, output, built>>
  /\ UNCHANGED <<engine, nodes, edges, ids, loaded>>

NewCompiler ==
  /\ defaults' = DefaultContainment
  /\ UNCHANGED <<output, built, engine, nodes, edges, ids, loaded>>

\* from_compiled_dir, for a new session: nothing is used yet, and the graph is
\* another one.
LoadEngine ==
  /\ DOMAIN output = Artifacts
  /\ engine' = [tables |-> output, used |-> [c \in Counters |-> 0]]
  /\ nodes' = <<>>
  /\ edges' = {}
  /\ ids' = [k \in {} |-> 0]
  /\ loaded' = 0
  /\ UNCHANGED <<defaults, output, built>>

-----------------------------------------------------------------------------
(* Deciding *)

Permits(tables, tool, level) == tables.actions[tool] \subseteq tables.matrix[level]

Contained(tables, tool, taint, level) ==
  taint /\ \E e \in tables.actions[tool] : tables.containment[level][e] = "BLOCK"

MatchesEscalation(condition, tool, taint, level) ==
  /\ condition.action \in {Anything, tool}
  /\ condition.taint \in {Anything, IF taint THEN "tainted" ELSE "clean"}
  /\ condition.level \in {Anything, level}

\* A condition that decides anything but approval or denial only simulates.
EscalatedTo(decision) ==
  IF decision \in {"require_approval", "deny"} THEN decision ELSE "simulate"

Charged(tables, tool) == {"actions", tool} \cup (tables.actions[tool] \cap External)

Exhausted(tables, used, tool) ==
  \E c \in Charged(tables, tool) : used[c] >= tables.limits[c]

\* Ontology, capability, taint, the first escalation that matches, budget.
Evaluate(tables, used, tool, taint, level) ==
  LET conditions == tables.escalations
      matching == {i \in DOMAIN conditions :
                     MatchesEscalation(conditions[i], tool, taint, level)}
  IN IF tool \notin DOMAIN tables.actions THEN "deny"
     ELSE IF ~Permits(tables, tool, level) \/ Contained(tables, tool, taint, level) THEN "deny"
     ELSE IF matching # {}
     THEN EscalatedTo(conditions[CHOOSE i \in matching : \A j \in matching : i <= j].decision)
     ELSE IF Exhausted(tables, used, tool) THEN "deny"
     ELSE "allow"

\* Mutated: a held intent is charged, too.
ChargeHeld(tables, used, tool, verdict) ==
  IF verdict = "deny" THEN used
  ELSE [c \in Counters |-> used[c] + (IF c \in Charged(tables, tool) THEN 1 ELSE 0)]

Charge(tables, used, tool, verdict) ==
  IF verdict # "allow" THEN used
  ELSE [c \in Counters |-> used[c] + (IF c \in Charged(tables, tool) THEN 1 ELSE 0)]

-----------------------------------------------------------------------------
(* Boundary, proposals and graph *)

\* Also on a graph that was read from its file.
Recording == engine # Missing /\ Len(nodes) < MaxNodes

NewId == Len(nodes) + 1

\* An edge is recorded only if both ends are known by id.
Linked(from, key) == IF from \in DOMAIN ids THEN {<<ids[from], key>>} ELSE {}

WithId(key) == [k \in DOMAIN ids \cup {key} |-> IF k = key THEN NewId ELSE ids[k]]

\* What the factory makes of the channels: a file may be declared trusted, and
\* so may the tool behind an answer.
ChannelLevels(channel) ==
  CASE channel = "user" -> {"TRUSTED"}
    [] channel \in {"email", "web", "agent"} -> {"UNTRUSTED"}
    [] channel = "file" -> {"TRUSTED", "SEMI_TRUSTED"}
    [] channel = "MCP" -> Level

Channels == {"user", "email", "web", "agent", "file", "MCP"}

Observe(channel, level) ==
  /\ Recording
  /\ level \in ChannelLevels(channel)
  /\ nodes' = Append(nodes, Node("event", NewId, None, None, level # "TRUSTED", level, None))
  /\ ids' = WithId(<<"event", NewId>>)
  /\ UNCHANGED <<defaults, output, built, engine, edges, loaded>>

\* A builder without an event is trusted; an elevated one is tainted and at
\* most semi-trusted.
Inherited(source, elevated) ==
  LET own == IF source = 0 THEN [taint |-> FALSE, level |-> "TRUSTED"]
             ELSE [taint |-> nodes[source].taint, level |-> nodes[source].level]
  IN IF elevated THEN [taint |-> TRUE, level |-> Dominates(own.level, "SEMI_TRUSTED")]
     ELSE own

Propose(source, tool, elevated) ==
  LET own == Inherited(source, elevated)
  IN /\ Recording
     /\ source = 0 \/ (source \in DOMAIN nodes /\ nodes[source].type = "event")
     /\ nodes' = Append(nodes, Node("proposal", NewId, source, tool, own.taint, own.level, None))
     /\ ids' = WithId(<<"proposal", NewId>>)
     /\ edges' = edges \cup (IF source = 0 THEN {} ELSE Linked(<<"event", source>>, NewId))
     /\ UNCHANGED <<defaults, output, built, engine, loaded>>

Proposed(p) == p \in DOMAIN nodes /\ nodes[p].type = "proposal"

\* Mutated: the edge is added before the decision has its id.
DecideUnnamed(p) ==
  /\ Recording
  /\ Proposed(p)
  /\ LET intent == nodes[p]
         verdict == Evaluate(engine.tables, engine.used, intent.tool, intent.taint, intent.level)
     IN /\ engine' = [engine EXCEPT !.used = Charge(engine.tables, @, intent.tool, verdict)]
        /\ nodes' = Append(nodes, Node("decision", p, None, intent.tool, intent.taint,
                                       intent.level, verdict))
  /\ ids' = WithId(<<"decision", p>>)
  /\ edges' = edges \cup (IF <<"decision", p>> \in DOMAIN ids
                          THEN Linked(<<"proposal", p>>, ids[<<"decision", p>>]) ELSE {})
  /\ UNCHANGED <<defaults, output, built, loaded>>

\* An id leads to the latest decision of an intent.
Decide(p) ==
  /\ Recording
  /\ Proposed(p)
  /\ LET intent == nodes[p]
         verdict == Evaluate(engine.tables, engine.used, intent.tool, intent.taint, intent.level)
     IN /\ engine' = [engine EXCEPT !.used = Charge(engine.tables, @, intent.tool, verdict)]
        /\ nodes' = Append(nodes, Node("decision", p, None, intent.tool, intent.taint,
                                       intent.level, verdict))
  /\ ids' = WithId(<<"decision", p>>)
  /\ edges' = edges \cup Linked(<<"proposal", p>>, NewId)
  /\ UNCHANGED <<defaults, output, built, loaded>>

\* The node of an execution has no id, so no edge leads to it.
Execute(p) ==
  /\ Recording
  /\ Proposed(p)
  /\ \E i \in DOMAIN nodes : nodes[i].type = "decision" /\ nodes[i].of = p
                             /\ nodes[i].verdict = "allow"
  /\ nodes' = Append(nodes, Node("execution", p, None, nodes[p].tool, FALSE, None, None))
  /\ UNCHANGED <<defaults, output, built, engine, edges, ids, loaded>>

\* The file has nodes and edges; ids are found again from their data, where an
\* id of a proposal leads to the latest node that carries it.
LastOf(o) ==
  CHOOSE i \in DOMAIN nodes :
    /\ nodes[i].of = o
    /\ \A j \in DOMAIN nodes : nodes[j].of = o => j <= i

SaveAndLoad ==
  /\ nodes # <<>>
  /\ loaded' = Len(nodes)
  /\ ids' = [k \in {<<IF nodes[i].type = "event" THEN "event" ELSE "proposal", nodes[i].of>> :
                      i \in DOMAIN nodes} |-> LastOf(k[2])]
  /\ UNCHANGED <<defaults, output, built, engine, nodes, edges>>

\* Back from a node to where it came from.  Edges lead from older nodes to
\* newer ones.
Chain(i) ==
  LET back[j \in DOMAIN nodes] ==
        LET from == {e[1] : e \in {d \in edges : d[2] = j}}
        IN IF from = {} THEN {j} ELSE {j} \cup UNION {back[k] : k \in from}
  IN back[i]

\* trace of an object.
Trace(key) == IF key \in DOMAIN ids THEN Chain(ids[key]) ELSE {}

PipelineNext ==
  \/ \E m \in Buildable, files \in {{"actions", "matrix"}, Artifacts} : Build(m, files)
  \/ NewCompiler
  \/ LoadEngine
  \/ \E channel \in Channels, level \in Level : Observe(channel, level)
  \/ \E source \in 0 .. MaxNodes, tool \in Actions, elevated \in BOOLEAN :
       Propose(source, tool, elevated)
  \/ \E p \in 1 .. MaxNodes : Decide(p) \/ Execute(p)
  \/ SaveAndLoad

BoundarySpec == PipelineInit /\ [][PipelineNext]_pipelineVars

-----------------------------------------------------------------------------
(* Properties *)

\* A session's budget is what was decided in it: every allowed intent is
\* charged once, a denied, held or simulated one never, and no limit is passed.
BudgetsMatchDecisions ==
  engine # Missing =>
    \A c \in Counters :
      /\ engine.used[c] =
           Cardinality({i \in DOMAIN nodes :
             nodes[i].type = "decision" /\ nodes[i].verdict = "allow"
               /\ c \in Charged(engine.tables, nodes[i].tool)})
      /\ engine.used[c] <= engine.tables.limits[c]

\* The id that a decision is asked for by: its own, but a graph that was read
\* from its file knows those before by the id of the intent only.
AskedBy(i) == <<IF i > loaded THEN "decision" ELSE "proposal", nodes[i].of>>

Superseded(i) ==
  \E j \in DOMAIN nodes : j > i /\ nodes[j].type = "decision" /\ nodes[j].of = nodes[i].of

\* An intent whose execution was read from a file: its id leads there now, and
\* no edge leads on.
CutOff(p) ==
  \E k \in DOMAIN nodes : k <= loaded /\ nodes[k].type = "execution" /\ nodes[k].of = p

\* "What input triggered this decision?": asked for the last decision about an
\* intent, trace() goes from it over the intent to the input, also after the
\* graph was read from its file and went on being written, unless the intent
\* was executed before that.  And a decision was made at least as strictly as
\* that input.
DecisionsHaveOrigins ==
  \A i \in DOMAIN nodes : nodes[i].type = "decision" =>
    LET p == nodes[i].of
        source == nodes[p].source
    IN /\ ~Superseded(i) /\ ~CutOff(p) => {i, p} \cup ({source} \ {0}) \subseteq Trace(AskedBy(i))
       /\ source # 0 => /\ Order(nodes[i].level) >= Order(nodes[source].level)
                        /\ nodes[source].taint => nodes[i].taint

\* "The same manifest always produces identical artifacts", whatever else was
\* compiled before it.
CompilesAlike ==
  \A a, b \in built : a[1] = b[1] => a[2] = b[2]
=============================================================================
