------------------------ MODULE ExecutionRouter_proofs ------------------------
(***************************************************************************)
(* Theorems about the gateway's router, for every set of requests, tools,  *)
(* policies and approvals, and whatever raises or crashes.                 *)
(***************************************************************************)
EXTENDS ExecutionRouter, TLAPS

(***************************************************************************)
(* Lemmas about dicts of records.                                          *)
(***************************************************************************)

\* A dict after d[key] = value.
LEMMA PutFacts ==
  ASSUME NEW dict, NEW key, NEW value
  PROVE  /\ DOMAIN Put(dict, key, value) = DOMAIN dict \cup {key}
         /\ Put(dict, key, value)[key] = value
         /\ \A k \in DOMAIN dict : k # key => Put(dict, key, value)[k] = dict[k]
  BY DEF Put

\* A dict of values of T stays one when a value of T is put in.
LEMMA PutType ==
  ASSUME NEW T, NEW dict, dict \in [DOMAIN dict -> T], NEW key, NEW value \in T
  PROVE  Put(dict, key, value) \in [DOMAIN dict \cup {key} -> T]
  BY DEF Put

\* A record under another status.
LEMMA StatusOfRecord ==
  ASSUME NEW record \in ApprovalRecord, NEW status \in RecordStatuses
  PROVE  /\ [record EXCEPT !.status = status] \in ApprovalRecord
         /\ [record EXCEPT !.status = status].status = status
  BY DEF ApprovalRecord

\* Setting the status of a record in memory.
LEMMA SetInMemory ==
  ASSUME memory \in [DOMAIN memory -> ApprovalRecord],
         NEW id \in DOMAIN memory, NEW status \in RecordStatuses,
         memory' = [memory EXCEPT ![id].status = status]
  PROVE  /\ memory' \in [DOMAIN memory -> ApprovalRecord]
         /\ DOMAIN memory' = DOMAIN memory
         /\ memory'[id].status = status
         /\ \A k \in DOMAIN memory : k # id => memory'[k] = memory[k]
<1>1. memory[id] \in ApprovalRecord
  OBVIOUS
<1>2. /\ [memory[id] EXCEPT !.status = status] \in ApprovalRecord
      /\ [memory[id] EXCEPT !.status = status].status = status
  BY <1>1, StatusOfRecord
<1> QED
  BY <1>2

\* EXCEPT on a key that is not there changes nothing.
LEMMA SetStatusOfAny ==
  ASSUME memory \in [DOMAIN memory -> ApprovalRecord],
         NEW id, NEW status \in RecordStatuses,
         memory' = [memory EXCEPT ![id].status = status]
  PROVE  /\ memory' \in [DOMAIN memory -> ApprovalRecord]
         /\ DOMAIN memory' = DOMAIN memory
<1>1. CASE id \in DOMAIN memory
  BY <1>1, SetInMemory
<1>2. CASE id \notin DOMAIN memory
  BY <1>2
<1> QED
  BY <1>1, <1>2

\* What the fields of a handler are.
LEMMA JobFields ==
  ASSUME job \in {Idle} \cup Jobs, job # Idle
  PROVE  /\ job.request \in Requests
         /\ job.verdict \in Verdicts
         /\ \/ /\ job.id = NoId
               /\ job.pc \in {"adapter", "trace"}
               /\ job.status = "none"
               /\ [job EXCEPT !.pc = "trace"] \in Jobs
            \/ /\ job.id \in ApprovalIds
               /\ job.id # NoId
               /\ job.status \in RecordStatuses
               /\ \A pc \in Steps, status \in RecordStatuses, verdict \in Verdicts :
                    /\ [job EXCEPT !.pc = pc] \in Jobs
                    /\ [job EXCEPT !.pc = pc, !.status = status] \in Jobs
                    /\ [job EXCEPT !.pc = pc, !.status = status,
                                   !.verdict = verdict] \in Jobs
<1>1. job \in Jobs
  OBVIOUS
<1> QED
  BY <1>1, NoIdAssumption DEF Jobs, Steps

\* The handler that comes out of an assignment to fields of one.
LEMMA NextJob ==
  ASSUME job \in {Idle} \cup Jobs, job # Idle,
         NEW pc, NEW status, NEW verdict
  PROVE  /\ LET j == [job EXCEPT !.pc = pc]
            IN  j.pc = pc /\ j.id = job.id /\ j.status = job.status
         /\ LET j == [job EXCEPT !.pc = pc, !.status = status]
            IN  j.pc = pc /\ j.id = job.id /\ j.status = status
         /\ LET j == [job EXCEPT !.pc = pc, !.status = status,
                                 !.verdict = verdict]
            IN  j.pc = pc /\ j.id = job.id /\ j.status = status
  BY DEF Jobs

\* A handler at work is not idle.
LEMMA IdleJob == Idle.pc = "idle"
  BY DEF Idle

-----------------------------------------------------------------------------
(***************************************************************************)
(* Type correctness.                                                       *)
(***************************************************************************)

\* The empty dict.
LEMMA EmptyDict ==
  ASSUME NEW T
  PROVE  DOMAIN <<>> = {} /\ <<>> \in [DOMAIN <<>> -> T]
  OBVIOUS

LEMMA TypeInit == Init => TypeOK
<1> SUFFICES ASSUME Init PROVE TypeOK
  OBVIOUS
<1>1. /\ DOMAIN memory \subseteq ApprovalIds
      /\ memory \in [DOMAIN memory -> ApprovalRecord]
  BY EmptyDict DEF Init
<1>2. /\ DOMAIN disk \subseteq ApprovalIds
      /\ disk \in [DOMAIN disk -> ApprovalRecord \cup {Torn}]
  BY EmptyDict DEF Init
<1>3. calls \in [ApprovalIds \cup {NoId} -> Nat]
  BY DEF Init
<1> QED
  BY <1>1, <1>2, <1>3 DEF Init, TypeOK

LEMMA TypeProcess == TypeOK /\ ProcessStep => TypeOK'
<1> SUFFICES ASSUME TypeOK, ProcessStep PROVE TypeOK'
  OBVIOUS
<1>1. CASE Start
  <2>1. /\ DOMAIN memory' \subseteq ApprovalIds
        /\ memory' \in [DOMAIN memory' -> ApprovalRecord]
    <3>1. PICK ids \in SUBSET DOMAIN disk :
            Loads(ids) /\ memory' = [id \in ids |-> disk[id]]
      BY <1>1 DEF Start
    <3>2. \A id \in ids : id \in DOMAIN disk /\ disk[id] # Torn
      BY <3>1 DEF Loads, PendingOnDisk, Readable
    <3> QED
      BY <3>1, <3>2 DEF TypeOK
  <2> QED
    BY <1>1, <2>1
       DEF Start, UseEngines, Loading, TypeOK, MaybeRecordVersion, historyVars
<1>2. CASE Crash
  <2>1. /\ DOMAIN memory' \subseteq ApprovalIds
        /\ memory' \in [DOMAIN memory' -> ApprovalRecord]
    BY <1>2, EmptyDict DEF Crash
  <2> QED
    BY <1>2, <2>1 DEF Crash, TypeOK, policyVars, historyVars
<1>3. CASE ReloadPolicy
  BY <1>3 DEF ReloadPolicy, UseEngines, Loading, TypeOK, MaybeRecordVersion,
              historyVars
<1>4. ASSUME NEW content \in Policies, EditPolicy(content) PROVE TypeOK'
  BY <1>4 DEF EditPolicy, TypeOK, historyVars
<1>5. CASE LoadEngines \/ ReloadFails
  <2>1. /\ parsed' \in Policies \cup {NoVersion}
        /\ edited' \in BOOLEAN
        /\ UNCHANGED <<up, registry, policyFile, policy, version, mixed, current,
                       versions, memory, disk, log, job, historyVars>>
    BY <1>5 DEF LoadEngines, ReloadFails, TypeOK
  <2> QED
    BY <2>1 DEF TypeOK, historyVars
<1> QED
  BY <1>1, <1>2, <1>3, <1>4, <1>5 DEF ProcessStep

\* A handler is one of Jobs.
LEMMA HandleType ==
  ASSUME NEW pc, NEW request \in Requests, NEW id,
         NEW verdict \in Verdicts, NEW status,
         \/ pc \in {"adapter", "trace"} /\ id = NoId /\ status = "none"
         \/ pc \in Steps /\ id \in ApprovalIds /\ status \in RecordStatuses,
         Handle(pc, request, id, verdict, status)
  PROVE  job' \in Jobs
  BY DEF Handle, Jobs

LEMMA TypeRequest == TypeOK /\ RequestStep => TypeOK'
<1> SUFFICES ASSUME TypeOK, RequestStep PROVE TypeOK'
  OBVIOUS
<1>1. ASSUME NEW request \in Requests, Execute(request) PROVE TypeOK'
  <2>1. job' \in Jobs
    BY <1>1, HandleType DEF Execute, Verdicts, RecordStatuses, Steps
  <2> QED
    BY <1>1, <2>1 DEF Execute, TypeOK, policyVars, historyVars
<1>2. ASSUME NEW id \in ApprovalIds, Found(id)
      PROVE  Lookup(id) \in ApprovalRecord
  BY <1>2 DEF Found, Lookup, Readable, TypeOK
<1>3. ASSUME NEW id \in ApprovalIds, GetApproval(id) PROVE TypeOK'
  <2>1. memory' \in [DOMAIN memory \cup {id} -> ApprovalRecord]
    BY <1>2, <1>3, PutType DEF GetApproval, TypeOK
  <2> QED
    BY <1>3, <2>1 DEF GetApproval, TypeOK, policyVars, historyVars
<1>4. ASSUME NEW id \in ApprovalIds, NEW approved \in BOOLEAN,
             Resolve(id, approved)
      PROVE  TypeOK'
  <2> DEFINE request == Lookup(id).request
             status == IF approved THEN "approved" ELSE "rejected"
             record == [request |-> request, status |-> status]
  <2>1. request \in Requests /\ status \in RecordStatuses
    BY <1>2, <1>4 DEF Resolve, ApprovalRecord, RecordStatuses
  <2>2. record \in ApprovalRecord
    BY <2>1 DEF ApprovalRecord
  <2>3. memory' \in [DOMAIN memory \cup {id} -> ApprovalRecord]
    BY <1>4, <2>2, PutType DEF Resolve, TypeOK
  <2>4. job' \in Jobs
    BY <1>4, <2>1, HandleType DEF Resolve, Verdicts, Steps
  <2> QED
    BY <1>4, <2>3, <2>4 DEF Resolve, TypeOK, policyVars
<1> QED
  BY <1>1, <1>3, <1>4 DEF RequestStep

\* One more call.
LEMMA CountedCall ==
  ASSUME calls \in [ApprovalIds \cup {NoId} -> Nat],
         NEW id \in ApprovalIds \cup {NoId},
         calls' = [calls EXCEPT ![id] = @ + 1]
  PROVE  /\ calls' \in [ApprovalIds \cup {NoId} -> Nat]
         /\ calls'[id] = calls[id] + 1
         /\ \A k \in ApprovalIds : k # id => calls'[k] = calls[k]
<1>1. calls[id] + 1 \in Nat
  OBVIOUS
<1> QED
  BY <1>1

LEMMA TypeHandler == TypeOK /\ HandlerStep => TypeOK'
<1> SUFFICES ASSUME TypeOK, HandlerStep PROVE TypeOK'
  OBVIOUS
<1>0. job # Idle /\ job \in {Idle} \cup Jobs
  BY IdleJob DEF HandlerStep, CallAdapter, AdapterRaises, Trace, Remember,
     OpenFile, WriteFile, DiskRaises, Dispatch, TypeOK
<1>01. job.id \in ApprovalIds \cup {NoId} /\ job.request \in Requests
  BY <1>0, JobFields
<1>1. CASE CallAdapter
  <2>1. /\ DOMAIN memory' = DOMAIN memory
        /\ memory' \in [DOMAIN memory -> ApprovalRecord]
    <3>1. CASE UNCHANGED memory
      BY <3>1 DEF TypeOK
    <3>2. CASE memory' = [memory EXCEPT ![job.id].status = "executed"]
      BY <3>2, SetStatusOfAny DEF TypeOK, RecordStatuses
    <3> QED
      BY <1>1, <3>1, <3>2 DEF CallAdapter
  <2>2. job' \in Jobs
    BY <1>0, <1>1, JobFields DEF CallAdapter, RecordStatuses, Steps
  <2>3. calls' \in [ApprovalIds \cup {NoId} -> Nat]
    BY <1>1, <1>01, CountedCall DEF CallAdapter, TypeOK
  <2>4. viaAdapter' \subseteq Requests
    BY <1>1, <1>01 DEF CallAdapter, TypeOK
  <2> QED
    BY <1>1, <2>1, <2>2, <2>3, <2>4 DEF CallAdapter, TypeOK, policyVars
<1>2. CASE AdapterRaises
  <2>1. /\ calls' \in [ApprovalIds \cup {NoId} -> Nat]
        /\ viaAdapter' \subseteq Requests
    BY <1>2, <1>01, CountedCall DEF AdapterRaises, TypeOK
  <2> QED
    BY <1>2, <2>1 DEF AdapterRaises, TypeOK, policyVars
<1>3. CASE Trace
  <2>1. Entry(job) \in TraceEntry
    <3>1. version \in Policies
      BY <1>3 DEF Trace, TypeOK
    <3> QED
      BY <1>0, <3>1, JobFields DEF Entry, TraceEntry
  <2>2. job' \in {Idle} \cup Jobs
    BY <1>0, <1>3, JobFields DEF Trace, Steps
  <2>3. answered' \subseteq ApprovalIds \X RecordStatuses
    <3>1. job.id # NoId => <<job.id, job.status>> \in ApprovalIds \X RecordStatuses
      BY <1>0, JobFields
    <3>2. \/ answered' = answered
          \/ job.id # NoId /\ answered' = answered \cup {<<job.id, job.status>>}
      BY <1>3 DEF Trace
    <3> QED
      BY <3>1, <3>2 DEF TypeOK
  <2> QED
    BY <1>3, <2>1, <2>2, <2>3 DEF Trace, TypeOK, policyVars
<1>4. CASE Remember
  <2> DEFINE record == [request |-> job.request, status |-> "pending"]
  <2>1. /\ job.id \in ApprovalIds
        /\ record \in ApprovalRecord
        /\ [job EXCEPT !.pc = "open"] \in Jobs
    BY <1>0, <1>4, JobFields DEF Remember, ApprovalRecord, RecordStatuses, Steps
  <2>2. memory' \in [DOMAIN memory \cup {job.id} -> ApprovalRecord]
    BY <1>4, <2>1, PutType DEF Remember, TypeOK
  <2> QED
    BY <1>4, <2>1, <2>2 DEF Remember, TypeOK, policyVars, historyVars
<1>5. CASE OpenFile
  <2>1. job.id \in ApprovalIds /\ [job EXCEPT !.pc = "write"] \in Jobs
    BY <1>0, <1>5, JobFields DEF OpenFile, Steps
  <2>2. disk' \in [DOMAIN disk \cup {job.id} -> ApprovalRecord \cup {Torn}]
    BY <1>5, PutType DEF OpenFile, TypeOK
  <2> QED
    BY <1>5, <2>1, <2>2 DEF OpenFile, TypeOK, policyVars, historyVars
<1>6. CASE WriteFile
  <2>1. /\ job.id \in ApprovalIds
        /\ job.status \in RecordStatuses
        /\ [request |-> job.request, status |-> job.status] \in ApprovalRecord
        /\ [job EXCEPT !.pc = "dispatch"] \in Jobs
        /\ [job EXCEPT !.pc = "trace"] \in Jobs
    BY <1>0, <1>6, JobFields DEF WriteFile, ApprovalRecord, Steps
  <2>2. /\ disk' \in [DOMAIN disk -> ApprovalRecord \cup {Torn}]
        /\ DOMAIN disk' = DOMAIN disk
    BY <1>6, <2>1 DEF WriteFile, TypeOK
  <2> QED
    BY <1>6, <2>1, <2>2 DEF WriteFile, TypeOK, policyVars
<1>7. CASE DiskRaises
  BY <1>7 DEF DiskRaises, TypeOK, policyVars, historyVars
<1>8. CASE Dispatch
  <2>1. /\ [job EXCEPT !.pc = "adapter"] \in Jobs
        /\ [job EXCEPT !.pc = "open", !.status = "rejected",
                        !.verdict = "deny"] \in Jobs
    BY <1>0, <1>8, JobFields DEF Dispatch, Steps, RecordStatuses, Verdicts
  <2>2. /\ DOMAIN memory' = DOMAIN memory
        /\ memory' \in [DOMAIN memory -> ApprovalRecord]
    BY <1>8, SetStatusOfAny DEF Dispatch, TypeOK, RecordStatuses
  <2> QED
    BY <1>8, <2>1, <2>2 DEF Dispatch, TypeOK, policyVars, historyVars
<1> QED
  BY <1>1, <1>2, <1>3, <1>4, <1>5, <1>6, <1>7, <1>8 DEF HandlerStep

\* Every step keeps the types.
LEMMA TypeNext == TypeOK /\ [Next]_vars => TypeOK'
<1>1. TypeOK /\ UNCHANGED vars => TypeOK'
  BY DEF TypeOK, vars, policyVars, historyVars
<1> QED
  BY <1>1, TypeProcess, TypeRequest, TypeHandler DEF Next

-----------------------------------------------------------------------------
(***************************************************************************)
(* The inductive invariant: a settled approval is offered to nobody, and a *)
(* handler knows what it is about to write.                                *)
(***************************************************************************)

Settled == SettledStaysSettled /\ HandlerIsAhead

RInv == TypeOK /\ Settled

\* What the abstract specification sees.
Stutter == UNCHANGED Once!onceVars

LEMMA RInvInit == Init => RInv
<1> SUFFICES ASSUME Init PROVE RInv
  OBVIOUS
<1>1. SettledStaysSettled
  BY EmptyDict DEF Init, SettledStaysSettled, Rejected
<1>2. HandlerIsAhead
  BY DEF Init, HandlerIsAhead
<1> QED
  BY <1>1, <1>2, TypeInit DEF RInv, Settled

\* Steps that touch neither the approvals nor the handler.
LEMMA QuietStep ==
  ASSUME Settled,
         \/ UNCHANGED vars \/ LoadEngines \/ ReloadPolicy \/ ReloadFails
         \/ \E content \in Policies : EditPolicy(content)
  PROVE  Settled' /\ Stutter
<1>1. UNCHANGED <<up, memory, disk, log, job, calls, answered>>
  BY DEF LoadEngines, ReloadPolicy, ReloadFails, EditPolicy, vars, historyVars
<1>2. SettledStaysSettled'
  BY <1>1 DEF Settled, SettledStaysSettled, Rejected, NotOffered, Traced,
              PendingOnDisk, Readable
<1>3. HandlerIsAhead'
  BY <1>1 DEF Settled, HandlerIsAhead, Rejected, NotOffered, Traced,
              PendingOnDisk, Readable
<1>4. Stutter
  BY <1>1 DEF Stutter, Once!onceVars, Traced, Rejected
<1> QED
  BY <1>2, <1>3, <1>4 DEF Settled

\* Steps that end the handler and leave the approvals as they are.
LEMMA HandlerEnds ==
  ASSUME Settled, job' = Idle,
         UNCHANGED <<disk, log, calls, answered>>,
         \A id \in DOMAIN memory' :
           \/ id \in DOMAIN memory /\ memory'[id] = memory[id]
           \/ Readable(id) /\ memory'[id] = disk[id]
  PROVE  Settled' /\ Stutter
<1>1. SettledStaysSettled'
  BY DEF Settled, SettledStaysSettled, Rejected, NotOffered, Traced,
         PendingOnDisk, Readable
<1>2. HandlerIsAhead'
  BY DEF HandlerIsAhead
<1>3. Stutter
  BY DEF Stutter, Once!onceVars, Traced, Rejected
<1> QED
  BY <1>1, <1>2, <1>3 DEF Settled

LEMMA StartOrStop ==
  ASSUME RInv, Start \/ Crash \/ DiskRaises
           \/ \E id \in ApprovalIds : GetApproval(id)
  PROVE  Settled' /\ Stutter
<1>1. job' = Idle /\ UNCHANGED <<disk, log, calls, answered>>
  BY DEF RInv, Settled, HandlerIsAhead, Start, Crash, DiskRaises, GetApproval, historyVars
<1>2. \A id \in DOMAIN memory' :
        \/ id \in DOMAIN memory /\ memory'[id] = memory[id]
        \/ Readable(id) /\ memory'[id] = disk[id]
  <2>1. CASE Start
    BY <2>1 DEF Start, Loads, PendingOnDisk
  <2>2. CASE Crash
    BY <2>2, EmptyDict DEF Crash
  <2>3. CASE DiskRaises
    BY <2>3 DEF DiskRaises
  <2>4. ASSUME NEW id \in ApprovalIds, GetApproval(id)
        PROVE  \A k \in DOMAIN memory' :
                 \/ k \in DOMAIN memory /\ memory'[k] = memory[k]
                 \/ Readable(k) /\ memory'[k] = disk[k]
    BY <2>4 DEF GetApproval, Found, Lookup, Put
  <2> QED
    BY <2>1, <2>2, <2>3, <2>4
<1> QED
  BY <1>1, <1>2, HandlerEnds DEF RInv, Settled

\* A new request: the id it may be held under was never used.
LEMMA RequestArrives ==
  ASSUME RInv, NEW request \in Requests, Execute(request)
  PROVE  Settled' /\ Stutter
<1>1. UNCHANGED <<up, memory, disk, log, calls, answered>> /\ up
  BY DEF Execute, historyVars
<1>2. SettledStaysSettled'
  BY <1>1 DEF RInv, Settled, SettledStaysSettled, Rejected, NotOffered, Traced,
              PendingOnDisk, Readable
<1>3. \/ job'.id = NoId
      \/ /\ job'.id \in ApprovalIds /\ Fresh(job'.id)
         /\ job'.pc = "trace" /\ job'.status = "pending"
  BY DEF Execute, Handle
<1>4. ASSUME NEW id \in ApprovalIds, id = job'.id, Fresh(id),
             job'.pc = "trace", job'.status = "pending"
      PROVE  HandlerIsAhead'
  <2>1. /\ ~Traced(id, "pending")
        /\ id \notin DOMAIN memory \cup DOMAIN disk
    BY <1>4 DEF Fresh, Traced
  <2>2. ~Rejected(id) /\ ~(calls[id] > 0)
    BY <2>1 DEF RInv, Settled, SettledStaysSettled
  <2>3. calls[id] = 0
    BY <2>2 DEF RInv, TypeOK
  <2> QED
    BY <1>1, <1>4, <2>1, <2>2, <2>3 DEF HandlerIsAhead, Traced, Rejected
<1>5. HandlerIsAhead'
  BY <1>1, <1>3, <1>4 DEF HandlerIsAhead
<1>6. Stutter
  BY <1>1 DEF Stutter, Once!onceVars, Traced, Rejected
<1> QED
  BY <1>2, <1>5, <1>6 DEF Settled

\* A reviewer's decision: a pending approval was neither run nor refused.
LEMMA ReviewerDecides ==
  ASSUME RInv, NEW id \in ApprovalIds, NEW approved \in BOOLEAN,
         Resolve(id, approved)
  PROVE  Settled' /\ Stutter
<1> DEFINE status == IF approved THEN "approved" ELSE "rejected"
           record == [request |-> Lookup(id).request, status |-> status]
<1>1. UNCHANGED <<up, disk, log, calls, answered>> /\ up
  BY DEF Resolve
<1>2. ~NotOffered(id) /\ id \in DOMAIN memory \cup DOMAIN disk
  BY DEF Resolve, NotOffered, Found, Lookup, PendingOnDisk, Readable
<1>3. ~Rejected(id) /\ ~(calls[id] > 0) /\ Traced(id, "pending")
  BY <1>2 DEF RInv, Settled, SettledStaysSettled
<1>4. calls[id] = 0
  BY <1>3 DEF RInv, TypeOK
<1>5. memory' = Put(memory, id, record)
  BY DEF Resolve
<1>6. /\ DOMAIN memory' = DOMAIN memory \cup {id}
      /\ memory'[id].status = status
      /\ \A k \in DOMAIN memory : k # id => memory'[k] = memory[k]
  BY <1>5 DEF Put
<1>7. SettledStaysSettled'
  BY <1>1, <1>3, <1>6 DEF RInv, Settled, SettledStaysSettled, Rejected,
     NotOffered, Traced, PendingOnDisk, Readable
<1>8. job'.pc = "open" /\ job'.id = id /\ job'.status = status
  BY DEF Resolve, Handle
<1>9. HandlerIsAhead'
  BY <1>1, <1>3, <1>4, <1>6, <1>8 DEF HandlerIsAhead, Rejected, Traced
<1> QED
  BY <1>1, <1>7, <1>9 DEF Settled, Stutter, Once!onceVars, Traced, Rejected

\* The adapter is called: for a held request, the abstract Run.
LEMMA AdapterCalled ==
  ASSUME RInv, CallAdapter \/ AdapterRaises
  PROVE  Settled' /\ [Once!Next]_Once!onceVars
<1> PICK id : id = job.id
  OBVIOUS
<1>1. /\ UNCHANGED <<up, disk, log, answered>> /\ up
      /\ job.pc = "adapter" /\ job # Idle
      /\ calls' = [calls EXCEPT ![id] = @ + 1]
  BY IdleJob DEF CallAdapter, AdapterRaises
<1>2. job \in {Idle} \cup Jobs /\ calls \in [ApprovalIds \cup {NoId} -> Nat]
      /\ memory \in [DOMAIN memory -> ApprovalRecord]
  BY DEF RInv, TypeOK
<1>3. id \in ApprovalIds \cup {NoId}
  BY <1>1, <1>2, JobFields
<1>4. /\ calls'[id] = calls[id] + 1
      /\ \A k \in ApprovalIds : k # id => calls'[k] = calls[k]
  BY <1>1, <1>2, <1>3, CountedCall
<1>5. CASE id = NoId
  <2>1. UNCHANGED memory /\ \A k \in ApprovalIds : calls'[k] = calls[k]
    BY <1>4, <1>5, NoIdAssumption DEF CallAdapter, AdapterRaises
  <2>2. job' = Idle \/ job'.id = NoId
    <3>1. [job EXCEPT !.pc = "trace"].id = job.id
      BY <1>1, <1>2, NextJob
    <3> QED
      BY <1>5, <3>1 DEF CallAdapter, AdapterRaises
  <2>3. SettledStaysSettled'
    BY <1>1, <2>1 DEF RInv, Settled, SettledStaysSettled, Rejected,
       NotOffered, Traced, PendingOnDisk, Readable
  <2>4. HandlerIsAhead'
    BY <1>1, <2>2 DEF HandlerIsAhead
  <2>5. Stutter
    BY <1>1, <2>1 DEF Stutter, Once!onceVars, Traced, Rejected
  <2> QED
    BY <2>3, <2>4, <2>5 DEF Settled, Stutter
<1>6. CASE id # NoId
  <2>1. /\ id \in ApprovalIds /\ id \in DOMAIN memory /\ NotOffered(id)
        /\ calls[id] = 0 /\ ~Rejected(id) /\ Traced(id, "pending")
    BY <1>1, <1>3, <1>6 DEF RInv, Settled, HandlerIsAhead
  <2>2. \/ UNCHANGED memory /\ job' = Idle
        \/ /\ memory' = [memory EXCEPT ![id].status = "executed"]
           /\ job' = [job EXCEPT !.pc = "open", !.status = "executed"]
    BY <1>6 DEF CallAdapter, AdapterRaises
  <2>3. /\ DOMAIN memory' = DOMAIN memory
        /\ \A k \in DOMAIN memory : k # id => memory'[k] = memory[k]
        /\ NotOffered(id)'
    <3>1. CASE UNCHANGED memory
      BY <1>1, <2>1, <3>1 DEF NotOffered, PendingOnDisk, Readable
    <3>2. CASE memory' = [memory EXCEPT ![id].status = "executed"]
      <4>1. /\ DOMAIN memory' = DOMAIN memory
            /\ memory'[id].status = "executed"
            /\ \A k \in DOMAIN memory : k # id => memory'[k] = memory[k]
        BY <1>2, <2>1, <3>2, SetInMemory DEF RecordStatuses
      <4> QED
        BY <1>1, <2>1, <4>1 DEF NotOffered, PendingOnDisk, Readable
    <3> QED
      BY <2>2, <3>1, <3>2
  <2>4. SettledStaysSettled'
    <3>1. Traced(id, "pending")' /\ ~Rejected(id)'
      BY <1>1, <2>1 DEF Traced, Rejected
    <3>2. ASSUME NEW k \in ApprovalIds, k # id
          PROVE  /\ calls'[k] = calls[k]
                 /\ Rejected(k)' <=> Rejected(k)
                 /\ Traced(k, "pending")' <=> Traced(k, "pending")
                 /\ NotOffered(k)' <=> NotOffered(k)
                 /\ k \in DOMAIN memory' \cup DOMAIN disk'
                      <=> k \in DOMAIN memory \cup DOMAIN disk
      BY <1>1, <1>4, <2>3, <3>2 DEF Rejected, Traced, NotOffered,
         PendingOnDisk, Readable
    <3>3. ASSUME NEW k \in ApprovalIds
          PROVE  /\ calls[k] > 0 \/ Rejected(k) =>
                      NotOffered(k) /\ Traced(k, "pending")
                 /\ Rejected(k) => calls[k] = 0
                 /\ k \in DOMAIN memory \cup DOMAIN disk => Traced(k, "pending")
      BY DEF RInv, Settled, SettledStaysSettled
    <3> QED
      BY <2>3, <3>1, <3>2, <3>3 DEF SettledStaysSettled
  <2>5. HandlerIsAhead'
    <3>1. CASE job' = Idle
      BY <3>1 DEF HandlerIsAhead
    <3>2. CASE /\ memory' = [memory EXCEPT ![id].status = "executed"]
               /\ job' = [job EXCEPT !.pc = "open", !.status = "executed"]
      <4>1. job'.pc = "open" /\ job'.status = "executed" /\ job'.id = id
        BY <1>1, <1>2, <3>2, NextJob
      <4>2. id \in DOMAIN memory' /\ memory'[id].status = "executed"
        BY <1>2, <2>1, <3>2, SetInMemory DEF RecordStatuses
      <4> QED
        BY <1>1, <2>1, <4>1, <4>2 DEF HandlerIsAhead, Traced
    <3> QED
      BY <2>2, <3>1, <3>2
  <2>6. Once!Run(id)
    <3> DEFINE ran == [k \in ApprovalIds |-> calls[k]]
    <3>1. calls'[id] = 1
      BY <1>4, <2>1
    <3>2. \A k \in ApprovalIds : calls'[k] = IF k = id THEN 1 ELSE calls[k]
      BY <1>4, <3>1
    <3>3. ran' = [ran EXCEPT ![id] = 1]
      BY <2>1, <3>2
    <3>4. UNCHANGED <<{k \in ApprovalIds : Traced(k, "pending")},
                      {k \in ApprovalIds : Rejected(k)}>>
      BY <1>1 DEF Traced, Rejected
    <3> QED
      BY <2>1, <3>3, <3>4 DEF Once!Run
  <2> QED
    BY <2>1, <2>4, <2>5, <2>6 DEF Settled, Once!Next
<1> QED
  BY <1>5, <1>6

-----------------------------------------------------------------------------
(***************************************************************************)
(* The other steps of a handler touch the one approval they are about.     *)
(***************************************************************************)

SettledOne(id) ==
  /\ calls[id] > 0 \/ Rejected(id) => NotOffered(id) /\ Traced(id, "pending")
  /\ Rejected(id) => calls[id] = 0
  /\ id \in DOMAIN memory \cup DOMAIN disk => Traced(id, "pending")

Untouched(id) ==
  /\ id \in DOMAIN memory' <=> id \in DOMAIN memory
  /\ id \in DOMAIN memory => memory'[id] = memory[id]
  /\ id \in DOMAIN disk' <=> id \in DOMAIN disk
  /\ id \in DOMAIN disk => disk'[id] = disk[id]
  /\ Traced(id, "pending")' <=> Traced(id, "pending")
  /\ Rejected(id)' <=> Rejected(id)
  /\ calls'[id] = calls[id]

LEMMA OneTouched ==
  ASSUME Settled, NEW id \in ApprovalIds, SettledOne(id)', HandlerIsAhead',
         \A k \in ApprovalIds : k # id => Untouched(k)
  PROVE  Settled'
<1>1. ASSUME NEW k \in ApprovalIds, k # id PROVE SettledOne(k)'
  <2>1. SettledOne(k)
    BY DEF Settled, SettledStaysSettled, SettledOne
  <2>2. Untouched(k)
    BY <1>1
  <2>3. NotOffered(k)' <=> NotOffered(k)
    BY <2>2 DEF Untouched, NotOffered, PendingOnDisk, Readable
  <2> QED
    BY <2>1, <2>2, <2>3 DEF SettledOne, Untouched
<1> QED
  BY <1>1 DEF Settled, SettledStaysSettled, SettledOne

\* What a handler of a held request is about to do, by its pc.
LEMMA HeldJob ==
  ASSUME RInv, job # Idle, NEW id \in ApprovalIds, id = job.id
  PROVE  /\ up
         /\ job \in {Idle} \cup Jobs
         /\ job.status \in RecordStatuses
         /\ memory \in [DOMAIN memory -> ApprovalRecord]
         /\ SettledOne(id)
         /\ job.status # "executed" => calls[id] = 0
         /\ job.status \in {"pending", "approved"} => ~Rejected(id)
  BY JobFields, NoIdAssumption DEF RInv, TypeOK, Settled, SettledStaysSettled,
     HandlerIsAhead, SettledOne

\* A trace: for a held request, the abstract Ask or Refuse, or a stutter.
LEMMA DecisionTraced ==
  ASSUME RInv, Trace
  PROVE  Settled' /\ [Once!Next]_Once!onceVars
<1> PICK id : id = job.id
  OBVIOUS
<1>1. /\ UNCHANGED <<up, memory, disk, calls>> /\ up
      /\ job.pc = "trace" /\ job # Idle
      /\ log' = log \cup {Entry(job)}
  BY IdleJob DEF Trace
<1>2. Entry(job).id = id /\ Entry(job).status = job.status
  BY DEF Entry
<1>3. ASSUME NEW k, NEW status
      PROVE  Traced(k, status)' <=>
               Traced(k, status) \/ (k = id /\ status = job.status)
  BY <1>1, <1>2 DEF Traced
<1>4. id \in ApprovalIds \cup {NoId} /\ (id = NoId => job.status = "none")
  BY <1>1, JobFields DEF RInv, TypeOK
<1>5. CASE id = NoId
  <2>1. answered' = answered /\ job' = Idle
    BY <1>4, <1>5 DEF Trace
  <2>2. \A k \in ApprovalIds :
          /\ Traced(k, "pending")' <=> Traced(k, "pending")
          /\ Rejected(k)' <=> Rejected(k)
    BY <1>3, <1>5, <2>1, NoIdAssumption DEF Rejected
  <2>3. \A k \in ApprovalIds : NotOffered(k)' <=> NotOffered(k)
    BY <1>1 DEF NotOffered, PendingOnDisk, Readable
  <2>4. SettledStaysSettled'
    BY <1>1, <2>2, <2>3 DEF RInv, Settled, SettledStaysSettled
  <2>5. HandlerIsAhead'
    BY <2>1 DEF HandlerIsAhead
  <2>6. Stutter
    BY <1>1, <2>2 DEF Stutter, Once!onceVars
  <2> QED
    BY <2>4, <2>5, <2>6 DEF Settled, Stutter
<1>6. ASSUME id # NoId, job.status = "pending"
      PROVE  Settled' /\ Once!Next
  <2>1. /\ answered' = answered
        /\ job' = [job EXCEPT !.pc = "remember"]
    BY <1>6 DEF Trace
  <2>2. id \in ApprovalIds
    BY <1>4, <1>6
  <2>3. /\ calls[id] = 0 /\ ~Rejected(id) /\ ~Traced(id, "pending")
        /\ job \in {Idle} \cup Jobs
    BY <1>1, <1>6, <2>2, HeldJob DEF RInv, Settled, HandlerIsAhead
  <2>4. job'.pc = "remember" /\ job'.id = id /\ job'.status = "pending"
    BY <1>1, <1>6, <2>1, <2>3, NextJob
  <2>5. Traced(id, "pending")' /\ ~Rejected(id)'
    BY <1>3, <1>6, <2>1, <2>3 DEF Rejected
  <2>6. SettledOne(id)'
    BY <1>1, <2>3, <2>5 DEF SettledOne
  <2>7. HandlerIsAhead'
    BY <1>1, <2>3, <2>4, <2>5 DEF HandlerIsAhead
  <2>8. \A k \in ApprovalIds : k # id => Untouched(k)
    BY <1>1, <1>3, <2>1 DEF Untouched, Rejected
  <2>9. Once!Ask(id)
    <3>1. {k \in ApprovalIds : Traced(k, "pending")'}
            = {k \in ApprovalIds : Traced(k, "pending")} \cup {id}
      BY <1>3, <1>6, <2>2
    <3>2. UNCHANGED <<[k \in ApprovalIds |-> calls[k]],
                      {k \in ApprovalIds : Rejected(k)}>>
      BY <1>1, <2>1 DEF Rejected
    <3> QED
      BY <2>3, <3>1, <3>2 DEF Once!Ask
  <2> QED
    BY <2>2, <2>6, <2>7, <2>8, <2>9, OneTouched DEF RInv, Once!Next
<1>7. ASSUME id # NoId, job.status # "pending"
      PROVE  Settled' /\ [Once!Next]_Once!onceVars
  <2>1. answered' = answered \cup {<<id, job.status>>} /\ job' = Idle
    BY <1>7 DEF Trace
  <2>2. id \in ApprovalIds
    BY <1>4, <1>7
  <2>3. /\ job.status \in {"rejected", "executed"} /\ NotOffered(id)
        /\ Traced(id, "pending") /\ SettledOne(id)
        /\ job.status = "rejected" => calls[id] = 0
    BY <1>1, <1>7, <2>2, HeldJob DEF RInv, Settled, HandlerIsAhead
  <2>4. \A k : Rejected(k)' <=>
          Rejected(k) \/ (k = id /\ job.status = "rejected")
    BY <2>1 DEF Rejected
  <2>5. NotOffered(id)' /\ Traced(id, "pending")'
    BY <1>1, <1>3, <2>3 DEF NotOffered, PendingOnDisk, Readable
  <2>6. SettledOne(id)'
    BY <1>1, <2>3, <2>4, <2>5 DEF SettledOne
  <2>7. HandlerIsAhead'
    BY <2>1 DEF HandlerIsAhead
  <2>8. \A k \in ApprovalIds : k # id => Untouched(k)
    BY <1>1, <1>3, <2>4 DEF Untouched
  <2>9. [Once!Next]_Once!onceVars
    <3>1. UNCHANGED <<{k \in ApprovalIds : Traced(k, "pending")},
                      [k \in ApprovalIds |-> calls[k]]>>
      BY <1>1, <1>3, <1>7
    <3>2. CASE Rejected(id) \/ job.status # "rejected"
      <4>1. UNCHANGED {k \in ApprovalIds : Rejected(k)}
        BY <2>4, <3>2
      <4> QED
        BY <3>1, <4>1 DEF Once!onceVars
    <3>3. CASE ~Rejected(id) /\ job.status = "rejected"
      <4>1. {k \in ApprovalIds : Rejected(k)'}
              = {k \in ApprovalIds : Rejected(k)} \cup {id}
        BY <2>2, <2>4, <3>3
      <4>2. Once!Refuse(id)
        BY <2>2, <2>3, <3>1, <3>3, <4>1 DEF Once!Refuse
      <4> QED
        BY <2>2, <4>2 DEF Once!Next
    <3> QED
      BY <3>2, <3>3
  <2> QED
    BY <2>2, <2>6, <2>7, <2>8, <2>9, OneTouched DEF RInv
<1> QED
  BY <1>4, <1>5, <1>6, <1>7

\* Steps that write an approval to memory or to its file.
LEMMA RecordWritten ==
  ASSUME RInv, Remember \/ OpenFile \/ WriteFile \/ Dispatch
  PROVE  Settled' /\ Stutter
<1> PICK id : id = job.id
  OBVIOUS
<1>1. /\ UNCHANGED <<up, log, calls>> /\ up
      /\ job.pc \in {"remember", "open", "write", "dispatch"} /\ job # Idle
  BY IdleJob DEF Remember, OpenFile, WriteFile, Dispatch, historyVars
<1>2. id \in ApprovalIds
  BY <1>1, JobFields DEF RInv, TypeOK
<1>3. /\ job \in {Idle} \cup Jobs /\ job.status \in RecordStatuses
      /\ memory \in [DOMAIN memory -> ApprovalRecord]
      /\ SettledOne(id) /\ Traced(id, "pending")
      /\ job.status # "executed" => calls[id] = 0
      /\ job.status \in {"pending", "approved"} => ~Rejected(id)
  <2>1. Traced(id, "pending")
    BY <1>1, <1>2, NoIdAssumption DEF RInv, Settled, HandlerIsAhead
  <2> QED
    BY <1>1, <1>2, <2>1, HeldJob
<1>4. \A k : Rejected(k)' <=> Rejected(k)
  BY DEF Remember, OpenFile, WriteFile, Dispatch, historyVars, Rejected
<1>5. \A k : Traced(k, "pending")' <=> Traced(k, "pending")
  BY <1>1 DEF Traced
<1>6. Stutter
  BY <1>1, <1>4, <1>5 DEF Stutter, Once!onceVars
<1>7. CASE Remember
  <2>1. /\ job.status = "pending" /\ disk' = disk
        /\ job' = [job EXCEPT !.pc = "open"]
        /\ memory' = Put(memory, id, [request |-> job.request,
                                      status |-> "pending"])
    BY <1>1, <1>2, <1>7, NoIdAssumption
       DEF Remember, RInv, Settled, HandlerIsAhead
  <2>2. job'.pc = "open" /\ job'.id = id /\ job'.status = "pending"
    BY <1>1, <1>3, <2>1, NextJob
  <2>3. /\ DOMAIN memory' = DOMAIN memory \cup {id}
        /\ memory'[id].status = "pending"
        /\ \A k \in DOMAIN memory : k # id => memory'[k] = memory[k]
    BY <2>1 DEF Put
  <2>4. SettledOne(id)'
    BY <1>1, <1>3, <1>4, <1>5, <2>1 DEF SettledOne
  <2>5. HandlerIsAhead'
    BY <1>1, <1>3, <1>4, <1>5, <2>1, <2>2, <2>3 DEF HandlerIsAhead
  <2>6. \A k \in ApprovalIds : k # id => Untouched(k)
    BY <1>1, <1>4, <1>5, <2>1, <2>3 DEF Untouched
  <2> QED
    BY <1>2, <1>6, <2>4, <2>5, <2>6, OneTouched DEF RInv
<1>8. CASE OpenFile
  <2>1. /\ memory' = memory /\ disk' = Put(disk, id, Torn)
        /\ job' = [job EXCEPT !.pc = "write"]
        /\ id \in DOMAIN memory /\ memory[id].status = job.status
    BY <1>1, <1>2, <1>8, NoIdAssumption
       DEF OpenFile, RInv, Settled, HandlerIsAhead
  <2>2. job'.pc = "write" /\ job'.id = id /\ job'.status = job.status
    BY <1>1, <1>3, <2>1, NextJob
  <2>3. /\ DOMAIN disk' = DOMAIN disk \cup {id}
        /\ disk'[id] = Torn
        /\ \A k \in DOMAIN disk : k # id => disk'[k] = disk[k]
    BY <2>1 DEF Put
  <2>4. NotOffered(id) => NotOffered(id)'
    BY <2>1, <2>3 DEF NotOffered, PendingOnDisk, Readable
  <2>5. SettledOne(id)'
    BY <1>1, <1>3, <1>4, <1>5, <2>4 DEF SettledOne
  <2>6. HandlerIsAhead'
    BY <1>1, <1>3, <1>4, <1>5, <2>1, <2>2, <2>3 DEF HandlerIsAhead
  <2>7. \A k \in ApprovalIds : k # id => Untouched(k)
    BY <1>1, <1>4, <1>5, <2>1, <2>3 DEF Untouched
  <2> QED
    BY <1>2, <1>6, <2>5, <2>6, <2>7, OneTouched DEF RInv
<1>9. CASE WriteFile
  <2> DEFINE record == [request |-> job.request, status |-> job.status]
  <2>1. /\ memory' = memory /\ disk' = [disk EXCEPT ![id] = record]
        /\ id \in DOMAIN memory /\ memory[id].status = job.status
        /\ id \in DOMAIN disk
    BY <1>1, <1>2, <1>9, NoIdAssumption
       DEF WriteFile, RInv, Settled, HandlerIsAhead
  <2>2. /\ DOMAIN disk' = DOMAIN disk
        /\ disk'[id].status = job.status
        /\ \A k \in DOMAIN disk : k # id => disk'[k] = disk[k]
    BY <2>1
  <2>3. job.status # "pending" => NotOffered(id)'
    BY <2>1, <2>2 DEF NotOffered, PendingOnDisk, Readable
  <2>4. \/ job.status = "pending" /\ job' = Idle
        \/ /\ job.status # "pending" /\ job'.id = id
           /\ job'.status = job.status
           /\ job'.pc = IF job.status = "approved" THEN "dispatch" ELSE "trace"
    <3>1. CASE job.status = "pending"
      BY <1>9, <3>1 DEF WriteFile
    <3>2. CASE job.status # "pending"
      <4>1. PICK pc : /\ pc = IF job.status = "approved" THEN "dispatch"
                                                         ELSE "trace"
                      /\ job' = [job EXCEPT !.pc = pc]
        BY <1>9, <3>2 DEF WriteFile
      <4>2. job'.pc = pc /\ job'.id = id /\ job'.status = job.status
        BY <1>1, <1>3, <4>1, NextJob
      <4> QED
        BY <3>2, <4>1, <4>2
    <3> QED
      BY <3>1, <3>2
  <2>5. SettledOne(id)'
    BY <1>1, <1>3, <1>4, <1>5, <2>3 DEF SettledOne
  <2>6. HandlerIsAhead'
    BY <1>1, <1>3, <1>4, <1>5, <2>1, <2>3, <2>4
       DEF HandlerIsAhead, RecordStatuses
  <2>7. \A k \in ApprovalIds : k # id => Untouched(k)
    BY <1>1, <1>4, <1>5, <2>1, <2>2 DEF Untouched
  <2> QED
    BY <1>2, <1>6, <2>5, <2>6, <2>7, OneTouched DEF RInv
<1>10. CASE Dispatch
  <2>1. /\ disk' = disk /\ id \in DOMAIN memory /\ NotOffered(id)
        /\ job.status = "approved"
    BY <1>1, <1>2, <1>10, NoIdAssumption
       DEF Dispatch, RInv, Settled, HandlerIsAhead
  <2>2. calls[id] = 0 /\ ~Rejected(id)
    BY <1>3, <2>1
  <2>3. SettledOne(id)'
    BY <1>1, <1>3, <1>4, <1>5, <2>2 DEF SettledOne
  <2>4. ASSUME memory' = memory, job' = [job EXCEPT !.pc = "adapter"]
        PROVE  HandlerIsAhead' /\ \A k \in ApprovalIds : k # id => Untouched(k)
    <3>1. job'.pc = "adapter" /\ job'.id = id /\ job'.status = "approved"
      BY <1>1, <1>3, <2>1, <2>4, NextJob
    <3>2. NotOffered(id)'
      BY <2>1, <2>4 DEF NotOffered, PendingOnDisk, Readable
    <3>3. HandlerIsAhead'
      BY <1>1, <1>3, <1>4, <1>5, <2>1, <2>2, <2>4, <3>1, <3>2
         DEF HandlerIsAhead
    <3> QED
      BY <1>1, <1>4, <1>5, <2>1, <2>4, <3>3 DEF Untouched
  <2>5. ASSUME memory' = [memory EXCEPT ![id].status = "rejected"],
               job' = [job EXCEPT !.pc = "open", !.status = "rejected",
                                  !.verdict = "deny"]
        PROVE  HandlerIsAhead' /\ \A k \in ApprovalIds : k # id => Untouched(k)
    <3>1. job'.pc = "open" /\ job'.id = id /\ job'.status = "rejected"
      BY <1>1, <1>3, <2>5, NextJob
    <3>2. /\ DOMAIN memory' = DOMAIN memory
          /\ memory'[id].status = "rejected"
          /\ \A k \in DOMAIN memory : k # id => memory'[k] = memory[k]
      BY <1>3, <2>1, <2>5, SetInMemory DEF RecordStatuses
    <3>3. HandlerIsAhead'
      BY <1>1, <1>3, <1>4, <1>5, <2>1, <2>2, <3>1, <3>2 DEF HandlerIsAhead
    <3> QED
      BY <1>1, <1>4, <1>5, <2>1, <3>2, <3>3 DEF Untouched
  <2>6. HandlerIsAhead' /\ \A k \in ApprovalIds : k # id => Untouched(k)
    BY <1>10, <2>4, <2>5 DEF Dispatch
  <2> QED
    BY <1>2, <1>6, <2>3, <2>6, OneTouched DEF RInv
<1> QED
  BY <1>7, <1>8, <1>9, <1>10

\* Every step keeps the invariant and is a step of ApprovedOnce or a stutter.
LEMMA RInvNext ==
  ASSUME RInv, [Next]_vars
  PROVE  RInv' /\ [Once!Next]_Once!onceVars
<1>1. TypeOK'
  BY TypeNext DEF RInv
<1>2. Settled' /\ [Once!Next]_Once!onceVars
  <2>1. CASE UNCHANGED vars
    BY <2>1, QuietStep DEF RInv, Stutter
  <2>2. CASE ProcessStep
    BY <2>2, QuietStep, StartOrStop DEF RInv, Stutter, ProcessStep
  <2>3. CASE RequestStep
    BY <2>3, RequestArrives, ReviewerDecides, StartOrStop
       DEF Stutter, RequestStep
  <2>4. CASE HandlerStep
    BY <2>4, AdapterCalled, DecisionTraced, RecordWritten, StartOrStop
       DEF Stutter, HandlerStep
  <2> QED
    BY <2>1, <2>2, <2>3, <2>4 DEF Next
<1> QED
  BY <1>1, <1>2 DEF RInv

-----------------------------------------------------------------------------
(***************************************************************************)
(* Versions: what is in use and what a trace names is on record.           *)
(***************************************************************************)

\* VersionsRecorded alone is not inductive: a version that is current when
\* the engines are loaded is not appended again, so it must be known already,
\* and a load in progress knows whether what it read is still in the file.
Recorded ==
  /\ VersionsRecorded
  /\ current \in versions \/ current = NoVersion
  /\ Loading => parsed = policyFile \/ edited

\* Whoever brings engines into use leaves their version current and on record.
LEMMA LoadedIsRecorded ==
  ASSUME TypeOK, Recorded, UseEngines
  PROVE  /\ version' = current'
         /\ current' \in versions'
         /\ versions \subseteq versions'
         /\ policy' = version' \/ mixed'
         /\ ~Loading'
  BY NoVersionAssumption DEF TypeOK, Recorded, MaybeRecordVersion, UseEngines, Loading

LEMMA RecordedNext == RInv /\ Recorded /\ [Next]_vars => Recorded'
<1> SUFFICES ASSUME RInv, Recorded, [Next]_vars PROVE Recorded'
  OBVIOUS
<1>0. TypeOK /\ (~up => job = Idle)
  BY DEF RInv, Settled, HandlerIsAhead
<1>1. ASSUME UNCHANGED <<policy, version, mixed, current, versions, log>>, up' => up,
             Loading' => parsed' = policyFile' \/ edited'
      PROVE  Recorded'
  BY <1>1 DEF Recorded, VersionsRecorded
<1>2. ASSUME UNCHANGED policyVars, UNCHANGED log, up' => up PROVE Recorded'
  BY <1>1, <1>2 DEF policyVars, Recorded, Loading
<1>3. CASE Trace
  <2>1. version \in versions
    BY <1>0, <1>3, NoVersionAssumption DEF Trace, TypeOK, Recorded, VersionsRecorded
  <2>2. \A entry \in log' : entry \in log \/ entry.version = version
    BY <1>3 DEF Trace, Entry
  <2>3. UNCHANGED <<up, policyVars>>
    BY <1>3 DEF Trace
  <2> QED
    BY <2>1, <2>2, <2>3 DEF Recorded, VersionsRecorded, Loading, policyVars
<1>4. CASE UNCHANGED vars
  BY <1>2, <1>4 DEF vars
<1>5. CASE ProcessStep
  <2>1. CASE Start \/ ReloadPolicy
    <3>1. UseEngines /\ log' = log
      BY <2>1 DEF Start, ReloadPolicy
    <3> QED
      BY <1>0, <3>1, LoadedIsRecorded DEF Recorded, VersionsRecorded
  <2>2. CASE Crash
    BY <2>2 DEF Crash, Recorded, VersionsRecorded, Loading
  <2>3. ASSUME NEW content \in Policies, EditPolicy(content) PROVE Recorded'
    BY <1>1, <2>3 DEF EditPolicy, Loading
  <2>4. CASE LoadEngines \/ ReloadFails
    BY <1>1, <2>4 DEF LoadEngines, ReloadFails, Loading
  <2> QED
    BY <1>5, <2>1, <2>2, <2>3, <2>4 DEF ProcessStep
<1>6. CASE RequestStep
  <2>1. UNCHANGED <<up, policyVars, log>>
    BY <1>6 DEF RequestStep, Execute, GetApproval, Resolve, historyVars
  <2> QED
    BY <1>2, <2>1
<1>7. CASE HandlerStep /\ ~Trace
  <2>1. UNCHANGED <<up, policyVars, log>>
    BY <1>7 DEF HandlerStep, CallAdapter, AdapterRaises, Remember, OpenFile,
                WriteFile, DiskRaises, Dispatch
  <2> QED
    BY <1>2, <2>1
<1> QED
  BY <1>3, <1>4, <1>5, <1>6, <1>7 DEF Next

-----------------------------------------------------------------------------
(***************************************************************************)
(* The audit trail: no answer is ahead of its trace.                       *)
(***************************************************************************)

AnswersTraced == \A pair \in answered : Traced(pair[1], pair[2])

LEMMA AnswersTracedNext ==
  RInv /\ AnswersTraced /\ [Next]_vars => AnswersTraced'
<1> SUFFICES ASSUME RInv, AnswersTraced, [Next]_vars PROVE AnswersTraced'
  OBVIOUS
<1>1. log \subseteq log'
  BY DEF Next, ProcessStep, RequestStep, HandlerStep, LoadEngines, Start,
         Crash, ReloadPolicy, ReloadFails, EditPolicy, Execute, GetApproval,
         Resolve, CallAdapter, AdapterRaises,
         Trace, Remember, OpenFile, WriteFile, DiskRaises, Dispatch, vars
<1>2. ASSUME NEW id, NEW status, Traced(id, status) PROVE Traced(id, status)'
  BY <1>1, <1>2 DEF Traced
<1>3. ASSUME answered' = answered PROVE AnswersTraced'
  BY <1>2, <1>3 DEF AnswersTraced
<1>4. ASSUME NEW id, NEW status, Traced(id, status)',
             answered' = answered \cup {<<id, status>>}
      PROVE  AnswersTraced'
  BY <1>2, <1>4 DEF AnswersTraced
<1> PICK id, status : id = job.id /\ status = job.status
  OBVIOUS
<1>5. CASE Trace
  <2>1. log' = log \cup {Entry(job)}
    BY <1>5 DEF Trace
  <2>2. Entry(job).id = id /\ Entry(job).status = status
    BY DEF Entry
  <2>3. Traced(id, status)'
    BY <2>1, <2>2 DEF Traced
  <2>4. answered' = answered \/ answered' = answered \cup {<<id, status>>}
    BY <1>5 DEF Trace
  <2> QED
    BY <1>3, <1>4, <2>3, <2>4
<1>6. CASE WriteFile
  <2>1. Traced(id, "pending")
    <3>1. job # Idle /\ job.pc = "write"
      BY <1>6, IdleJob DEF WriteFile
    <3>2. job.id # NoId
      BY <3>1, JobFields DEF RInv, TypeOK
    <3> QED
      BY <3>1, <3>2 DEF RInv, Settled, HandlerIsAhead
  <2>2. Traced(id, "pending")'
    BY <1>2, <2>1
  <2>3. answered' = answered \/ answered' = answered \cup {<<id, "pending">>}
    BY <1>6 DEF WriteFile
  <2> QED
    BY <1>3, <1>4, <2>2, <2>3
<1>7. CASE ~Trace /\ ~WriteFile
  <2>1. answered' = answered
    BY <1>7 DEF Next, ProcessStep, RequestStep, HandlerStep, LoadEngines, Start,
       Crash, ReloadPolicy, ReloadFails, EditPolicy, Execute, GetApproval,
       Resolve, CallAdapter, AdapterRaises, Remember, OpenFile, DiskRaises, Dispatch, vars, historyVars
  <2> QED
    BY <1>3, <2>1
<1> QED
  BY <1>5, <1>6, <1>7

-----------------------------------------------------------------------------
(***************************************************************************)
(* An approval that no reviewer has decided.                               *)
(***************************************************************************)

\* Memory, file and handler all say "pending" of it (the file may be torn),
\* and once its client has the id the file is whole and no handler is left
\* that would open it.
Awaits(id) ==
  /\ id \in DOMAIN memory => memory[id].status = "pending"
  /\ Readable(id) => disk[id].status = "pending"
  /\ job # Idle /\ job.id = id => job.status = "pending"
  /\ <<id, "pending">> \in answered =>
       Readable(id) /\ ~(job # Idle /\ job.id = id)

AllAwait == \A id \in ApprovalIds \ submitted : Awaits(id)

\* A record is never taken for a torn file.
LEMMA RecordIsWhole ==
  ASSUME NEW request, NEW status, status # "torn"
  PROVE  [request |-> request, status |-> status] # Torn
  BY DEF Torn

LEMMA AwaitsProcess ==
  ASSUME RInv, NEW id \in ApprovalIds, Awaits(id),
         ProcessStep \/ UNCHANGED vars \/ DiskRaises
  PROVE  Awaits(id)'
<1>1. disk' = disk /\ answered' = answered
  BY DEF ProcessStep, LoadEngines, Start, Crash, ReloadPolicy, ReloadFails,
         EditPolicy, DiskRaises, vars, historyVars
<1>2. Readable(id)' <=> Readable(id)
  BY <1>1 DEF Readable
<1>3. job' \in {job, Idle}
  BY DEF ProcessStep, LoadEngines, Start, Crash, ReloadPolicy, ReloadFails,
         EditPolicy, DiskRaises, vars
<1>4. id \in DOMAIN memory' => memory'[id].status = "pending"
  <2>1. CASE Start
    BY <2>1 DEF Start, Loads, PendingOnDisk
  <2>2. CASE Crash
    BY <2>2, EmptyDict DEF Crash
  <2>3. CASE memory' = memory
    BY <2>3 DEF Awaits
  <2> QED
    BY <2>1, <2>2, <2>3
       DEF ProcessStep, LoadEngines, ReloadPolicy, ReloadFails, EditPolicy,
           DiskRaises, vars
<1> QED
  BY <1>1, <1>2, <1>3, <1>4 DEF Awaits

LEMMA AwaitsRequest ==
  ASSUME RInv, NEW id \in ApprovalIds, Awaits(id), RequestStep,
         id \notin submitted'
  PROVE  Awaits(id)'
<1>1. disk' = disk /\ answered' = answered /\ job = Idle
  BY DEF RequestStep, Execute, GetApproval, Resolve, historyVars
<1>2. Readable(id)' <=> Readable(id)
  BY <1>1 DEF Readable
<1>3. ASSUME NEW request \in Requests, Execute(request) PROVE Awaits(id)'
  <2>1. job'.id = id => job'.status = "pending" /\ Fresh(id)
    BY <1>3, NoIdAssumption DEF Execute, Handle
  <2>2. Fresh(id) => ~Readable(id)
    BY DEF Fresh, Readable
  <2> QED
    BY <1>1, <1>2, <1>3, <2>1, <2>2 DEF Execute, Awaits
<1>4. ASSUME NEW other \in ApprovalIds, GetApproval(other) PROVE Awaits(id)'
  <2>1. /\ DOMAIN memory' = DOMAIN memory \cup {other}
        /\ memory'[other] = Lookup(other)
        /\ \A k \in DOMAIN memory : k # other => memory'[k] = memory[k]
    BY <1>4 DEF GetApproval, Put
  <2>2. other = id => Lookup(other).status = "pending"
    BY <1>4 DEF GetApproval, Found, Lookup, Awaits
  <2>3. id \in DOMAIN memory' => memory'[id].status = "pending"
    BY <2>1, <2>2 DEF Awaits
  <2>4. job' = job
    BY <1>4 DEF GetApproval
  <2> QED
    BY <1>1, <1>2, <2>3, <2>4 DEF Awaits
<1>5. ASSUME NEW other \in ApprovalIds, NEW approved \in BOOLEAN,
             Resolve(other, approved)
      PROVE  Awaits(id)'
  <2>1. id # other
    BY <1>5 DEF Resolve
  <2>2. job'.id = other
    BY <1>5 DEF Resolve, Handle
  <2>3. id \in DOMAIN memory' => id \in DOMAIN memory /\ memory'[id] = memory[id]
    BY <1>5, <2>1 DEF Resolve, Put
  <2> QED
    BY <1>1, <1>2, <2>1, <2>2, <2>3 DEF Awaits
<1> QED
  BY <1>3, <1>4, <1>5 DEF RequestStep

\* Handlers: only one of a decided approval writes anything but "pending".
LEMMA AwaitsHandler ==
  ASSUME RInv, NEW id \in ApprovalIds, Awaits(id), HandlerStep
  PROVE  Awaits(id)'
<1>0. job # Idle /\ job \in {Idle} \cup Jobs
  BY IdleJob DEF HandlerStep, CallAdapter, AdapterRaises, Trace, Remember,
     OpenFile, WriteFile, DiskRaises, Dispatch, RInv, TypeOK
<1>1. job.pc \in {"adapter", "dispatch"} => job.id # id
  BY <1>0, NoIdAssumption DEF RInv, Settled, HandlerIsAhead, Awaits
<1>2. memory \in [DOMAIN memory -> ApprovalRecord]
  BY DEF RInv, TypeOK
<1>3. job' = Idle \/ job'.id = job.id
  <2>1. CASE CallAdapter
    <3>1. \/ job' = [job EXCEPT !.pc = "trace"]
          \/ job' = [job EXCEPT !.pc = "open", !.status = "executed"]
      BY <2>1 DEF CallAdapter
    <3> QED
      BY <1>0, <3>1 DEF Jobs
  <2>2. CASE AdapterRaises \/ Dispatch
    <3>1. \/ job' = Idle
          \/ job' = [job EXCEPT !.pc = "adapter"]
          \/ job' = [job EXCEPT !.pc = "open", !.status = "rejected",
                                !.verdict = "deny"]
      BY <2>2 DEF AdapterRaises, Dispatch
    <3> QED
      BY <1>0, <3>1 DEF Jobs
  <2>3. CASE Trace \/ Remember \/ OpenFile
    BY <1>0, <2>3 DEF Jobs, Trace, Remember, OpenFile
  <2>4. CASE WriteFile \/ DiskRaises
    BY <1>0, <2>4 DEF Jobs, WriteFile, DiskRaises
  <2> QED
    BY <2>1, <2>2, <2>3, <2>4 DEF HandlerStep
<1>4. CASE job.id # id
  <2>1. id \in DOMAIN memory' => id \in DOMAIN memory /\ memory'[id] = memory[id]
    <3>1. CASE Remember
      BY <1>4, <3>1 DEF Remember, Put
    <3>2. CASE CallAdapter \/ Dispatch
      <4>1. \/ memory' = memory
            \/ \E status : memory' = [memory EXCEPT ![job.id].status = status]
        BY <3>2 DEF CallAdapter, Dispatch
      <4> QED
        BY <1>2, <1>4, <4>1
    <3>3. CASE memory' = memory
      BY <3>3
    <3> QED
      BY <3>1, <3>2, <3>3
         DEF HandlerStep, AdapterRaises, Trace, OpenFile, WriteFile, DiskRaises
  <2>2. /\ id \in DOMAIN disk' <=> id \in DOMAIN disk
        /\ id \in DOMAIN disk => disk'[id] = disk[id]
    <3>1. CASE OpenFile
      BY <1>4, <3>1 DEF OpenFile, Put
    <3>2. CASE WriteFile
      BY <1>4, <3>2 DEF WriteFile, RInv, TypeOK
    <3>3. CASE disk' = disk
      BY <3>3
    <3> QED
      BY <3>1, <3>2, <3>3
         DEF HandlerStep, CallAdapter, AdapterRaises, Trace, Remember,
             DiskRaises, Dispatch
  <2>3. Readable(id)' <=> Readable(id)
    BY <2>2 DEF Readable
  <2>4. <<id, "pending">> \in answered' <=> <<id, "pending">> \in answered
    BY <1>4 DEF HandlerStep, CallAdapter, AdapterRaises, Trace, Remember,
       OpenFile, WriteFile, DiskRaises, Dispatch, historyVars
  <2> QED
    BY <1>3, <1>4, <2>1, <2>2, <2>3, <2>4 DEF Awaits, Readable
<1>5. CASE job.id = id
  <2>1. job.status = "pending" /\ <<id, "pending">> \notin answered
    BY <1>0, <1>5 DEF Awaits
  <2>2. CASE Trace
    <3>1. UNCHANGED <<memory, disk, answered>> /\ job' = [job EXCEPT !.pc = "remember"]
      BY <2>1, <2>2 DEF Trace
    <3> QED
      BY <1>0, <2>1, <3>1, NextJob DEF Awaits, Readable
  <2>3. CASE Remember
    <3>1. /\ UNCHANGED <<disk, answered>>
          /\ job' = [job EXCEPT !.pc = "open"]
          /\ memory'[id].status = "pending"
      BY <1>5, <2>3 DEF Remember, Put, historyVars
    <3> QED
      BY <1>0, <2>1, <3>1, NextJob DEF Awaits, Readable
  <2>4. CASE OpenFile
    <3>1. /\ UNCHANGED <<memory, answered>>
          /\ job' = [job EXCEPT !.pc = "write"]
          /\ disk'[id] = Torn
      BY <1>5, <2>4 DEF OpenFile, Put, historyVars
    <3> QED
      BY <1>0, <2>1, <3>1, NextJob DEF Awaits, Readable
  <2>5. CASE WriteFile
    <3> DEFINE record == [request |-> job.request, status |-> job.status]
    <3>1. id \in DOMAIN disk
      BY <1>0, <1>5, <2>5, NoIdAssumption
         DEF WriteFile, RInv, Settled, HandlerIsAhead
    <3>2. /\ id \in DOMAIN disk' /\ disk'[id] = record
          /\ memory' = memory /\ job' = Idle
      BY <1>5, <2>1, <2>5, <3>1 DEF WriteFile
    <3>3. record # Torn /\ record.status = "pending"
      BY <2>1, RecordIsWhole
    <3> QED
      BY <3>2, <3>3 DEF Awaits, Readable
  <2>6. CASE DiskRaises
    BY <2>6, AwaitsProcess
  <2> QED
    BY <1>1, <1>5, <2>2, <2>3, <2>4, <2>5, <2>6
       DEF HandlerStep, CallAdapter, AdapterRaises, Dispatch
<1> QED
  BY <1>4, <1>5

LEMMA AllAwaitNext == RInv /\ AllAwait /\ [Next]_vars => AllAwait'
<1> SUFFICES ASSUME RInv, AllAwait, [Next]_vars,
                    NEW id \in ApprovalIds, id \notin submitted'
             PROVE  Awaits(id)'
  BY DEF AllAwait
<1>1. submitted \subseteq submitted'
  BY DEF Next, ProcessStep, RequestStep, HandlerStep, LoadEngines, Start,
         Crash, ReloadPolicy, ReloadFails, EditPolicy, Execute, GetApproval,
         Resolve, CallAdapter, AdapterRaises,
         Trace, Remember, OpenFile, WriteFile, DiskRaises, Dispatch, vars,
         historyVars
<1>2. Awaits(id)
  BY <1>1 DEF AllAwait
<1> QED
  BY <1>2, AwaitsProcess, AwaitsRequest, AwaitsHandler DEF Next

-----------------------------------------------------------------------------
(***************************************************************************)
(* The theorems.                                                           *)
(***************************************************************************)

\* The invariant holds in every state.
LEMMA RInvHolds == Spec => []RInv
<1>1. RInv /\ [Next]_vars => RInv'
  BY RInvNext
<1> QED
  BY RInvInit, <1>1, PTL DEF Spec

\* The router's memory, files and handler keep their shape.
THEOREM TypeCorrect == Spec => []TypeOK
<1>1. RInv => TypeOK
  BY DEF RInv
<1> QED
  BY RInvHolds, <1>1, PTL

\* Write-ahead: once a held request may run, the disk no longer says pending,
\* whatever raises and whenever the process ends.
THEOREM ApprovalsAreWrittenAhead == Spec => []WriteAhead
<1>1. RInv => WriteAhead
  <2> SUFFICES ASSUME RInv, NEW id \in ApprovalIds, calls[id] > 0 \/ Committed(id)
               PROVE  NotOffered(id)
    BY DEF WriteAhead
  <2>1. CASE calls[id] > 0
    BY <2>1 DEF RInv, Settled, SettledStaysSettled
  <2>2. CASE Committed(id)
    BY <2>2, IdleJob, NoIdAssumption DEF Committed, RInv, Settled, HandlerIsAhead
  <2> QED
    BY <2>1, <2>2
<1> QED
  BY RInvHolds, <1>1, PTL

\* The router implements ApprovedOnce: a held request runs at most once, and
\* never after its reviewer was told that it was rejected.
THEOREM HeldRequestsRunOnce == Spec => KeepsOnce
<1>1. Init => Once!Init
  BY DEF Init, Once!Init, Traced, Rejected
<1>2. RInv /\ [Next]_vars => [Once!Next]_Once!onceVars
  BY RInvNext
<1> QED
  BY RInvHolds, <1>1, <1>2, PTL DEF Spec, KeepsOnce, Once!Spec

\* The audit trail is never behind: an approval on record has its "ask" entry
\* and a decision that a reviewer was told of has its own, across crashes.
THEOREM NoDecisionWithoutTrace == Spec => []DecisionChainTraced
<1>1. Init => AnswersTraced
  BY DEF Init, AnswersTraced
<1>2. RInv /\ AnswersTraced => DecisionChainTraced
  BY DEF RInv, TypeOK, Settled, SettledStaysSettled, AnswersTraced,
         DecisionChainTraced
<1> QED
  BY RInvHolds, AnswersTracedNext, <1>1, <1>2, PTL DEF Spec

\* A client that was given an approval id finds it pending on disk until a
\* reviewer decides, whatever raises and however often the process ends.
THEOREM AsksSurviveRestarts == Spec => []AskSurvives
<1>1. Init => AllAwait
  BY EmptyDict DEF Init, AllAwait, Awaits, Readable
<1>2. RInv /\ AllAwait => AskSurvives
  BY DEF AllAwait, Awaits, Readable, AskSurvives, PendingOnDisk
<1> QED
  BY RInvHolds, AllAwaitNext, <1>1, <1>2, PTL DEF Spec

\* The version that the router names is the last recorded one, every trace names
\* a version on record, and the engines in use are those of the version named
\* unless an edit fell into their load, whenever the file is edited, reloaded
\* or read by a start.
THEOREM VersionsAreRecorded == Spec => []VersionsRecorded
<1>1. Init => Recorded
  BY DEF Init, Recorded, VersionsRecorded, Loading
<1>2. Recorded => VersionsRecorded
  BY DEF Recorded
<1> QED
  BY RInvHolds, RecordedNext, <1>1, <1>2, PTL DEF Spec
=============================================================================
