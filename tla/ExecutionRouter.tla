--------------------------- MODULE ExecutionRouter ---------------------------
(***************************************************************************)
(* The tool gateway: ExecutionRouter (gateway/execution_router.py) with    *)
(* the stores it writes (storage/*.py) and the parts of GatewayState that  *)
(* start it and reload its policy (gateway/gateway_server.py).             *)
(*                                                                         *)
(* Every endpoint is a coroutine without an await around its work, so one  *)
(* request is handled at a time: job is the handler in progress.  What can *)
(* come between two of its steps is an exception (the adapter or a write   *)
(* raises; the memory of the process stays as it is), the end of the       *)
(* process (its memory is gone) or an edit of the policy file, which       *)
(* _load_engines reads twice.  ApprovalStore opens a file with "w" and     *)
(* then dumps into it: in between, and after a failure there, the file is  *)
(* Torn, and get() and list_recent() take it for absent.                   *)
(*                                                                         *)
(* calls, viaAdapter, submitted and answered record which adapters were    *)
(* called and what reviewers sent and were told, edited and mixed which    *)
(* loads an edit fell into; only the properties read them, but for the     *)
(* bound on calls.                                                         *)
(***************************************************************************)
EXTENDS Naturals, FiniteSets

CONSTANTS
  Requests,     \* tool requests: tool, arguments, plan
  Tools,
  ToolOf,       \* the tool a request names
  PlanOf,       \* its plan_type: "direct" or "program"
  ApprovalIds,  \* the truncated uuids of approvals, taken to be distinct
  Policies,     \* contents of the policy file
  Rules,        \* [Policies -> [Requests -> Verdicts]]: the PolicyEngine
  Firewall,     \* [Requests -> Verdicts]: the ProvenanceFirewall
  Core,         \* [Requests -> Verdicts]: the core hypervisor, if one is loaded
  HasCore,      \* whether one is
  Faults,       \* what may go wrong: "adapter" and "disk" raise, "crash"
  LoadLimit,    \* how many pending approvals a start loads (1000 in the code)
  MaxCalls      \* bound on the calls of requests that need no approval

Verdicts == {"allow", "ask", "deny"}

ASSUME RequestsAssumption ==
  /\ ToolOf \in [Requests -> Tools]
  /\ PlanOf \in [Requests -> {"direct", "program"}]
ASSUME EnginesAssumption ==
  /\ Rules \in [Policies -> [Requests -> Verdicts]]
  /\ Firewall \in [Requests -> Verdicts]
  /\ Core \in [Requests -> Verdicts]
  /\ HasCore \in BOOLEAN
ASSUME FaultsAssumption == Faults \subseteq {"adapter", "disk", "crash"}
ASSUME LimitsAssumption == LoadLimit \in Nat /\ MaxCalls \in Nat

NoId == "none"
NoVersion == "unversioned"
ASSUME NoIdAssumption == NoId \notin ApprovalIds
ASSUME NoVersionAssumption == NoVersion \notin Policies

VARIABLES
  up,          \* the process runs
  registry,    \* ToolRegistry: the names registered at start
  policyFile,  \* what the policy file holds now
  parsed,      \* what from_yaml read, until the load is over
  edited,      \* the file was changed since, to something else
  policy,      \* what the engines in use were loaded from
  version,     \* policy_version: the hash that the router puts on traces
  mixed,       \* the file was changed while the engines in use were loaded
  current,     \* the last record of policy_history.jsonl
  versions,    \* all versions it records
  memory,      \* _pending_approvals
  disk,        \* the approvals directory: one file per id
  log,         \* traces.jsonl
  job,         \* the request being handled
  calls,       \* adapter calls: per approval id, and for NoId the unheld ones
  viaAdapter,  \* the requests that an adapter ran
  submitted,   \* ids on which a reviewer sent a decision
  answered     \* <<id, status>> that a client or reviewer received

policyVars ==
  <<policyFile, parsed, edited, policy, version, mixed, current, versions>>
historyVars == <<calls, viaAdapter, submitted, answered>>
vars == <<up, registry, policyVars, memory, disk, log, job, historyVars>>

RecordStatuses == {"pending", "approved", "rejected", "executed"}
ApprovalRecord == [request : Requests, status : RecordStatuses]

Torn == [status |-> "torn"]

TraceEntry == [ verdict : Verdicts, id : ApprovalIds \cup {NoId},
                status : RecordStatuses \cup {"none"}, version : Policies ]

Idle == [pc |-> "idle"]

\* A handler: of a request that is not held, or of one held under an id, where
\* status is the approval status it is about to write or trace.
Steps == {"adapter", "open", "write", "dispatch", "trace", "remember"}

Jobs ==
  [ pc : {"adapter", "trace"}, request : Requests, id : {NoId},
    verdict : Verdicts, status : {"none"} ]
  \cup
  [ pc : Steps, request : Requests, id : ApprovalIds,
    verdict : Verdicts, status : RecordStatuses ]

Put(dict, key, value) ==
  [k \in DOMAIN dict \cup {key} |-> IF k = key THEN value ELSE dict[k]]

-----------------------------------------------------------------------------
(***************************************************************************)
(* Verdicts and lookups.                                                   *)
(***************************************************************************)
Rank == [allow |-> 0, ask |-> 1, deny |-> 2]

Strictest(v, w) == IF Rank[v] >= Rank[w] THEN v ELSE w

\* Step 5 of execute(): the core hypervisor decides alone when it is loaded.
FinalVerdict(request) ==
  IF HasCore THEN Core[request]
  ELSE Strictest(Rules[policy][request], Firewall[request])

Readable(id) == id \in DOMAIN disk /\ disk[id] # Torn

\* get_approval: memory first, then disk, which it caches.
Found(id) == id \in DOMAIN memory \/ Readable(id)

Lookup(id) == IF id \in DOMAIN memory THEN memory[id] ELSE disk[id]

PendingOnDisk == {id \in DOMAIN disk : Readable(id) /\ disk[id].status = "pending"}

\* _load_pending_from_store keeps the most recent LoadLimit of them.
Loads(ids) ==
  /\ ids \subseteq PendingOnDisk
  /\ \/ ids = PendingOnDisk /\ Cardinality(ids) <= LoadLimit
     \/ Cardinality(ids) = LoadLimit

-----------------------------------------------------------------------------
(***************************************************************************)
(* The process and its policy.                                             *)
(***************************************************************************)

\* Mutated: not recorded again when it was on record before.
MaybeRecordNewVersion(content) ==
  \/ /\ content \in versions
     /\ UNCHANGED <<current, versions>>
  \/ /\ content \notin versions
     /\ current' = content
     /\ versions' = versions \cup {content}

\* _maybe_record_version: appended when the content is not the last recorded.
MaybeRecordVersion(content) ==
  \/ /\ content = current
     /\ UNCHANGED <<current, versions>>
  \/ /\ content # current
     /\ current' = content
     /\ versions' = versions \cup {content}

Loading == parsed # NoVersion

\* _load_engines reads the policy file for the engines ...
LoadEngines ==
  /\ job = Idle
  /\ ~Loading
  /\ parsed' = policyFile
  /\ UNCHANGED <<up, registry, policyFile, edited, policy, version, mixed, current,
                 versions, memory, disk, log, job, historyVars>>

\* ... and once more for the hash that names their version, which is recorded
\* before they come into use.
UseEngines ==
  /\ Loading
  /\ policy' = parsed
  /\ version' = policyFile
  /\ mixed' = edited
  /\ parsed' = NoVersion
  /\ edited' = FALSE
  /\ MaybeRecordVersion(policyFile)
  /\ UNCHANGED policyFile

\* GatewayState.__init__: engines, version record, pending approvals.
Start ==
  /\ ~up
  /\ up' = TRUE
  /\ registry' \in SUBSET Tools
  /\ UseEngines
  /\ \E ids \in SUBSET DOMAIN disk :
       /\ Loads(ids)
       /\ memory' = [id \in ids |-> disk[id]]
  /\ UNCHANGED <<disk, log, job, historyVars>>

Crash ==
  /\ "crash" \in Faults
  /\ up \/ Loading
  /\ up' = FALSE
  /\ registry' = {}
  /\ memory' = <<>>
  /\ job' = Idle
  /\ parsed' = NoVersion
  /\ edited' = FALSE
  /\ policy' = NoVersion
  /\ version' = NoVersion
  /\ mixed' = FALSE
  /\ UNCHANGED <<policyFile, current, versions, disk, log, historyVars>>

\* Somebody edits the file; nothing notices until a reload or a start.
EditPolicy(content) ==
  /\ content # policyFile
  /\ policyFile' = content
  /\ edited' = (Loading /\ content # parsed)
  /\ UNCHANGED <<up, registry, parsed, policy, version, mixed, current,
                 versions, memory, disk, log, job, historyVars>>

\* POST /policy/reload, once it has read the file.  When recording fails
\* nothing has changed and the answer is 500.
ReloadPolicy ==
  /\ up /\ job = Idle
  /\ UseEngines
  /\ UNCHANGED <<up, registry, memory, disk, log, job, historyVars>>

\* The recording of a reload's version fails: the engines read are dropped.
ReloadFails ==
  /\ "disk" \in Faults
  /\ up /\ Loading
  /\ parsed' = NoVersion
  /\ edited' = FALSE
  /\ UNCHANGED <<up, registry, policyFile, policy, version, mixed, current,
                 versions, memory, disk, log, job, historyVars>>

-----------------------------------------------------------------------------
(***************************************************************************)
(* POST /tools/execute.                                                    *)
(***************************************************************************)

Entry(j) ==
  [ verdict |-> j.verdict, id |-> j.id, status |-> j.status, version |-> version ]

Handle(pc, request, id, verdict, status) ==
  job' = [ pc |-> pc, request |-> request, id |-> id,
           verdict |-> verdict, status |-> status ]

\* Uuids are fresh: no record, no trace and no handler knows the id.
Fresh(id) ==
  /\ id \notin DOMAIN memory \cup DOMAIN disk
  /\ \A entry \in log : entry.id # id

\* The decision: an unregistered tool is denied before the engines are asked.
Execute(request) ==
  /\ up /\ job = Idle /\ ~Loading
  /\ \/ /\ ToolOf[request] \notin registry
        /\ Handle("trace", request, NoId, "deny", "none")
     \/ /\ ToolOf[request] \in registry
        /\ \/ /\ FinalVerdict(request) = "deny"
              /\ Handle("trace", request, NoId, "deny", "none")
           \/ /\ FinalVerdict(request) = "allow"
              /\ calls[NoId] < MaxCalls
              /\ Handle("adapter", request, NoId, "allow", "none")
           \/ /\ FinalVerdict(request) = "ask"
              /\ \E id \in ApprovalIds :
                   Fresh(id) /\ Handle("trace", request, id, "ask", "pending")
  /\ UNCHANGED <<up, registry, policyVars, memory, disk, log, historyVars>>

\* _dispatch_execution sends a program to the ProgramExecutor; an approved
\* request goes to the adapter whatever its plan (resolve_approval).
UsesAdapter(j) == j.id # NoId \/ PlanOf[j.request] = "direct"

\* The adapter (or the ProgramExecutor) is called, and returns.
CallAdapter ==
  /\ up /\ job.pc = "adapter"
  /\ calls' = [calls EXCEPT ![job.id] = @ + 1]
  /\ viaAdapter' = IF UsesAdapter(job) THEN viaAdapter \cup {job.request}
                                       ELSE viaAdapter
  /\ \/ /\ job.id = NoId
        /\ job' = [job EXCEPT !.pc = "trace"]
        /\ UNCHANGED memory
     \/ /\ job.id # NoId
        /\ memory' = [memory EXCEPT ![job.id].status = "executed"]
        /\ job' = [job EXCEPT !.pc = "open", !.status = "executed"]
  /\ UNCHANGED <<up, registry, policyVars, disk, log, submitted,
                 answered>>

\* It raises: nobody catches it, the client gets a 500.
AdapterRaises ==
  /\ "adapter" \in Faults
  /\ up /\ job.pc = "adapter"
  /\ UsesAdapter(job)
  /\ calls' = [calls EXCEPT ![job.id] = @ + 1]
  /\ viaAdapter' = viaAdapter \cup {job.request}
  /\ job' = Idle
  /\ UNCHANGED <<up, registry, policyVars, memory, disk, log, submitted,
                 answered>>

\* _respond_and_trace, and the response when nothing is left to do.
Trace ==
  /\ up /\ job.pc = "trace"
  /\ log' = log \cup {Entry(job)}
  /\ \/ /\ job.status = "pending"
        /\ job' = [job EXCEPT !.pc = "remember"]
        /\ UNCHANGED answered
     \/ /\ job.status # "pending"
        /\ job' = Idle
        /\ answered' = IF job.id = NoId THEN answered
                       ELSE answered \cup {<<job.id, job.status>>}
  /\ UNCHANGED <<up, registry, policyVars, memory, disk, calls, viaAdapter,
                 submitted>>

\* Mutated: the client is answered and the file left for later.
RememberOnly ==
  /\ up /\ job.pc = "remember"
  /\ memory' = Put(memory, job.id,
                   [request |-> job.request, status |-> "pending"])
  /\ job' = Idle
  /\ answered' = answered \cup {<<job.id, "pending">>}
  /\ UNCHANGED <<up, registry, policyVars, disk, log, calls, viaAdapter,
                 submitted>>

\* Step 7.5: the record goes to memory, then to the store.
Remember ==
  /\ up /\ job.pc = "remember"
  /\ memory' = Put(memory, job.id,
                   [request |-> job.request, status |-> "pending"])
  /\ job' = [job EXCEPT !.pc = "open"]
  /\ UNCHANGED <<up, registry, policyVars, disk, log, historyVars>>

-----------------------------------------------------------------------------
(***************************************************************************)
(* ApprovalStore.create and update: read (update only), open "w", dump.    *)
(***************************************************************************)

\* update() reads the file first: absent is a KeyError, torn a decode error.
CanOpen(j) == j.status = "pending" \/ Readable(j.id)

OpenFile ==
  /\ up /\ job.pc = "open"
  /\ CanOpen(job)
  /\ disk' = Put(disk, job.id, Torn)
  /\ job' = [job EXCEPT !.pc = "write"]
  /\ UNCHANGED <<up, registry, policyVars, memory, log, historyVars>>

\* The file is whole again.  A client whose request was held hears so now.
WriteFile ==
  /\ up /\ job.pc = "write"
  /\ disk' = [disk EXCEPT ![job.id] =
                [request |-> job.request, status |-> job.status]]
  /\ \/ /\ job.status = "pending"
        /\ job' = Idle
        /\ answered' = answered \cup {<<job.id, "pending">>}
     \/ /\ job.status # "pending"
        /\ job' = [job EXCEPT !.pc =
                     IF job.status = "approved" THEN "dispatch" ELSE "trace"]
        /\ UNCHANGED answered
  /\ UNCHANGED <<up, registry, policyVars, memory, log, calls, viaAdapter,
                 submitted>>

\* Mutated: a failed trace is passed over and the reviewer is answered.
DiskRaisesSilently ==
  /\ "disk" \in Faults
  /\ up /\ job.pc \in {"open", "write", "trace"}
  /\ job' = Idle
  /\ answered' = IF job.pc = "trace" /\ job.id # NoId
                 THEN answered \cup {<<job.id, job.status>>} ELSE answered
  /\ UNCHANGED <<up, registry, policyVars, memory, disk, log, calls,
                 viaAdapter, submitted>>

\* A write or a read of the disk raises: the handler ends with a 500.  What
\* it did before stays done; a file it had opened stays torn.
DiskRaises ==
  /\ "disk" \in Faults
  /\ up /\ job.pc \in {"open", "write", "trace"}
  /\ job' = Idle
  /\ UNCHANGED <<up, registry, policyVars, memory, disk, log, historyVars>>

-----------------------------------------------------------------------------
(***************************************************************************)
(* GET and POST /approvals/{id}.                                           *)
(***************************************************************************)

\* A read caches what it found on disk.
GetApproval(id) ==
  /\ up /\ job = Idle /\ ~Loading
  /\ Found(id)
  /\ memory' = Put(memory, id, Lookup(id))
  /\ UNCHANGED <<up, registry, policyVars, disk, log, job, historyVars>>

\* Mutated: the status guard is dropped.
ResolveAnyStatus(id, approved) ==
  /\ up /\ job = Idle /\ ~Loading
  /\ Found(id)
  /\ LET request == Lookup(id).request
         status == IF approved THEN "approved" ELSE "rejected"
     IN  /\ memory' = Put(memory, id, [request |-> request, status |-> status])
         /\ Handle("open", request, id, IF approved THEN "allow" ELSE "deny",
                   status)
  /\ submitted' = submitted \cup {id}
  /\ UNCHANGED <<up, registry, policyVars, disk, log, calls, viaAdapter,
                 answered>>

\* Mutated: the tool is looked up before the decision is written.
ResolveUnsaved(id, approved) ==
  /\ up /\ job = Idle /\ ~Loading
  /\ Found(id)
  /\ Lookup(id).status = "pending"
  /\ LET request == Lookup(id).request
         status == IF approved THEN "approved" ELSE "rejected"
     IN  /\ memory' = Put(memory, id, [request |-> request, status |-> status])
         /\ Handle(IF approved THEN "dispatch" ELSE "open", request, id,
                   IF approved THEN "allow" ELSE "deny", status)
  /\ submitted' = submitted \cup {id}
  /\ UNCHANGED <<up, registry, policyVars, disk, log, calls, viaAdapter,
                 answered>>

\* resolve_approval: unknown is 404, anything but pending is 409.
Resolve(id, approved) ==
  /\ up /\ job = Idle /\ ~Loading
  /\ Found(id)
  /\ Lookup(id).status = "pending"
  /\ LET request == Lookup(id).request
         status == IF approved THEN "approved" ELSE "rejected"
     IN  /\ memory' = Put(memory, id, [request |-> request, status |-> status])
         /\ Handle("open", request, id, IF approved THEN "allow" ELSE "deny",
                   status)
  /\ submitted' = submitted \cup {id}
  /\ UNCHANGED <<up, registry, policyVars, disk, log, calls, viaAdapter,
                 answered>>

\* The approved tool is looked up again: gone means rejected after all.
Dispatch ==
  /\ up /\ job.pc = "dispatch"
  /\ \/ /\ ToolOf[job.request] \in registry
        /\ job' = [job EXCEPT !.pc = "adapter"]
        /\ UNCHANGED memory
     \/ /\ ToolOf[job.request] \notin registry
        /\ memory' = [memory EXCEPT ![job.id].status = "rejected"]
        /\ job' = [job EXCEPT !.pc = "open", !.status = "rejected",
                              !.verdict = "deny"]
  /\ UNCHANGED <<up, registry, policyVars, disk, log, historyVars>>

-----------------------------------------------------------------------------
Init ==
  /\ up = FALSE
  /\ registry = {}
  /\ policyFile \in Policies
  /\ parsed = NoVersion
  /\ edited = FALSE
  /\ policy = NoVersion
  /\ version = NoVersion
  /\ mixed = FALSE
  /\ current = NoVersion
  /\ versions = {}
  /\ memory = <<>>
  /\ disk = <<>>
  /\ log = {}
  /\ job = Idle
  /\ calls = [id \in ApprovalIds \cup {NoId} |-> 0]
  /\ viaAdapter = {}
  /\ submitted = {}
  /\ answered = {}

ProcessStep ==
  \/ LoadEngines \/ Start \/ Crash \/ ReloadPolicy \/ ReloadFails
  \/ \E content \in Policies : EditPolicy(content)

RequestStep ==
  \/ \E request \in Requests : Execute(request)
  \/ \E id \in ApprovalIds :
       GetApproval(id) \/ \E approved \in BOOLEAN : Resolve(id, approved)

HandlerStep ==
  \/ CallAdapter \/ AdapterRaises
  \/ Trace \/ Remember \/ OpenFile \/ WriteFile \/ DiskRaises
  \/ Dispatch

Next == ProcessStep \/ RequestStep \/ HandlerStep

Spec == Init /\ [][Next]_vars

-----------------------------------------------------------------------------
(***************************************************************************)
(* Properties.                                                             *)
(***************************************************************************)

\* The shape of the router's memory, of the files and of the handler.
TypeOK ==
  /\ up \in BOOLEAN
  /\ registry \subseteq Tools
  /\ policyFile \in Policies
  /\ parsed \in Policies \cup {NoVersion}
  /\ {policy, version} \subseteq Policies \cup {NoVersion}
  /\ up => {policy, version} \subseteq Policies
  /\ edited \in BOOLEAN /\ mixed \in BOOLEAN
  /\ current \in Policies \cup {NoVersion}
  /\ versions \subseteq Policies
  /\ DOMAIN memory \subseteq ApprovalIds
  /\ memory \in [DOMAIN memory -> ApprovalRecord]
  /\ DOMAIN disk \subseteq ApprovalIds
  /\ disk \in [DOMAIN disk -> ApprovalRecord \cup {Torn}]
  /\ log \subseteq TraceEntry
  /\ job \in {Idle} \cup Jobs
  /\ calls \in [ApprovalIds \cup {NoId} -> Nat]
  /\ viaAdapter \subseteq Requests
  /\ submitted \subseteq ApprovalIds
  /\ answered \subseteq ApprovalIds \X RecordStatuses

Traced(id, status) == \E entry \in log : entry.id = id /\ entry.status = status

\* No restart and no lookup offers the approval to a reviewer.
NotOffered(id) ==
  /\ id \notin PendingOnDisk
  /\ id \in DOMAIN memory => memory[id].status # "pending"

Rejected(id) == <<id, "rejected">> \in answered

\* The handler is past the point where an approval was written as approved.
Committed(id) == job.pc \in {"dispatch", "adapter"} /\ job.id = id

\* Write-ahead: from the moment a held request may run, the disk no longer
\* says "pending", so no restart offers it to a reviewer again.
WriteAhead ==
  \A id \in ApprovalIds : calls[id] > 0 \/ Committed(id) => NotOffered(id)

Once == INSTANCE ApprovedOnce WITH
  asked <- {id \in ApprovalIds : Traced(id, "pending")},
  ran <- [id \in ApprovalIds |-> calls[id]],
  refused <- {id \in ApprovalIds : Rejected(id)}

\* Whatever crashes, raises or restarts in between, a held request is run at
\* most once and never after its reviewer was told that it was rejected.
KeepsOnce == Once!Spec

\* The audit trail is never behind: an approval on record has its "ask" entry
\* and a decision the reviewer was told of has its own, across crashes.
DecisionChainTraced ==
  /\ \A id \in DOMAIN memory \cup DOMAIN disk : Traced(id, "pending")
  /\ \A pair \in answered : Traced(pair[1], pair[2])

\* A client that was given an approval id finds it pending on disk until a
\* reviewer sends a decision, however often the process ends and starts.
AskSurvives ==
  \A id \in ApprovalIds \ submitted :
    <<id, "pending">> \in answered => id \in PendingOnDisk

\* The router names the last recorded version ("the most recent entry is the
\* currently active version"), every trace names one on record, and the engines
\* in use are those of the version named, unless the policy file was edited
\* between the two reads of their load: then old rules judge under a new name.
VersionsRecorded ==
  /\ up => version = current
  /\ up => policy = version \/ mixed
  /\ \A entry \in log : entry.version \in versions

\* What makes WriteAhead and KeepsOnce inductive.  A settled approval is
\* traced and offered to nobody ...
SettledStaysSettled ==
  \A id \in ApprovalIds :
    /\ calls[id] > 0 \/ Rejected(id) => NotOffered(id) /\ Traced(id, "pending")
    /\ Rejected(id) => calls[id] = 0
    /\ id \in DOMAIN memory \cup DOMAIN disk => Traced(id, "pending")

\* ... and a handler that will write or run an approval has not run it yet,
\* and has taken it off the list of pending ones in memory before the disk.
HandlerIsAhead ==
  LET id == job.id
      new == job.pc = "trace" /\ job.status = "pending"
  IN  /\ ~up => job = Idle
      /\ job # Idle /\ id # NoId =>
           /\ job.status # "executed" => calls[id] = 0
           /\ job.status \in {"pending", "approved"} => ~Rejected(id)
           /\ new => id \notin DOMAIN memory \cup DOMAIN disk
           /\ new <=> ~Traced(id, "pending")
           /\ job.pc = "remember" => job.status = "pending"
           /\ job.pc \in {"open", "write"} =>
                /\ id \in DOMAIN memory
                /\ memory[id].status = job.status
           /\ job.pc = "write" => id \in DOMAIN disk /\ disk[id] = Torn
           /\ job.pc \in {"dispatch", "adapter"} =>
                /\ job.status = "approved"
                /\ id \in DOMAIN memory
                /\ NotOffered(id)
           /\ job.pc = "trace" /\ ~new =>
                job.status \in {"rejected", "executed"} /\ NotOffered(id)

(***************************************************************************)
(* What the documentation says.                                            *)
(***************************************************************************)

\* plan_type "program" routes to the ProgramExecutor, never to an adapter.
ProgramsAreSandboxed == \A request \in viaAdapter : PlanOf[request] = "direct"
=============================================================================
