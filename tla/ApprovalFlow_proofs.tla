-------------------------- MODULE ApprovalFlow_proofs --------------------------
(***************************************************************************)
(* Theorems about the approval workflow, for every set of sessions, calls, *)
(* approvals, workers and response bodies.                                 *)
(***************************************************************************)
EXTENDS ApprovalFlow, SequenceTheorems, TLAPS

USE DEF Scopes, Verdicts, ScopedVerdict, Statuses, ActionApproval, Idle,
        ResolveJobs, RespondJobs

(***************************************************************************)
(* Lemmas about the operators the workflow is built from.                  *)
(***************************************************************************)

\* The members of a sequence.
LEMMA MembersOfSeq ==
  ASSUME NEW S, NEW seq \in Seq(S)
  PROVE  \A i \in DOMAIN seq : seq[i] \in S
  BY LenProperties

\* A dict of values of T stays one when a value of T is put in.
LEMMA PutType ==
  ASSUME NEW T, NEW dict, dict \in [DOMAIN dict -> T], NEW key, NEW value \in T
  PROVE  Put(dict, key, value) \in [DOMAIN dict \cup {key} -> T]
  BY DEF Put

\* The program counter of a job tells its kind.
LEMMA JobKinds ==
  ASSUME NEW job \in {Idle} \cup ResolveJobs \cup RespondJobs
  PROVE  /\ job.pc \in {"resolve", "resolve_notify"} => job \in ResolveJobs
         /\ job.pc \in {"respond", "verdicts", "status", "respond_notify"} =>
              job \in RespondJobs
         /\ job.pc # "idle" => job # Idle
         /\ job # Idle => job.id \in ApprovalIds
  OBVIOUS

\* Pushing a frame keeps the queues well formed.
LEMMA PushType ==
  ASSUME NEW targets, NEW frame \in Frames,
         inbox \in [Sessions -> SUBSET Frames], Push(targets, frame)
  PROVE  inbox' \in [Sessions -> SUBSET Frames]
  BY DEF Push

\* An approval with another status is an approval.
LEMMA StatusType ==
  ASSUME NEW approval \in ActionApproval, NEW status \in Statuses
  PROVE  [approval EXCEPT !.status = status] \in ActionApproval
  OBVIOUS

\* Setting the status of a known approval.
LEMMA SetStatusType ==
  ASSUME approvals \in [DOMAIN approvals -> ActionApproval],
         NEW id \in DOMAIN approvals, NEW status \in Statuses,
         SetStatus(id, status)
  PROVE  /\ DOMAIN approvals' = DOMAIN approvals
         /\ approvals' \in [DOMAIN approvals -> ActionApproval]
  BY DEF SetStatus

-----------------------------------------------------------------------------
(***************************************************************************)
(* Type correctness.                                                       *)
(***************************************************************************)

LEMMA TypeInit == Init => TypeOK
  BY DEF Init, TypeOK

\* The steps of sessions, streams and participants.
LEMMA TypeSession ==
  ASSUME TypeOK, NEW s \in Sessions,
         \/ CreateSession(s) \/ OpenStream(s) \/ CloseStream(s) \/ Deliver(s)
         \/ RegisterParticipant(s) \/ UnregisterParticipant(s)
  PROVE  TypeOK'
<1>1. CASE CreateSession(s)
  BY <1>1 DEF TypeOK, CreateSession, recordVars, historyVars
<1>2. CASE OpenStream(s)
  BY <1>2 DEF TypeOK, OpenStream, recordVars, historyVars
<1>3. CASE CloseStream(s)
  BY <1>3 DEF TypeOK, CloseStream, recordVars, historyVars
<1>4. CASE Deliver(s)
  BY <1>4 DEF TypeOK, Deliver, recordVars, historyVars
<1>5. CASE RegisterParticipant(s)
  BY <1>5 DEF TypeOK, RegisterParticipant, recordVars, historyVars
<1>6. CASE UnregisterParticipant(s)
  BY <1>6 DEF TypeOK, UnregisterParticipant, recordVars, historyVars
<1> QED
  BY <1>1, <1>2, <1>3, <1>4, <1>5, <1>6

\* The steps of an asked call.
LEMMA TypeCall ==
  ASSUME TypeOK, NEW s \in Sessions, NEW c \in Calls,
         \/ RunAskedCall(s, c)
         \/ \E id \in ApprovalIds : RequestApproval(s, c, id)
  PROVE  TypeOK'
<1>1. CASE RunAskedCall(s, c)
  BY <1>1 DEF TypeOK, RunAskedCall, netVars, recordVars
<1>2. ASSUME NEW id \in ApprovalIds, RequestApproval(s, c, id)
      PROVE  TypeOK'
  <2> DEFINE new == [ session |-> s, call |-> c, status |-> "pending",
                      expiresAt |-> IF Ttl > 0 THEN clock + Ttl ELSE NoExpiry,
                      verdicts |-> <<>> ]
  <2>1. new \in ActionApproval
    BY TtlAssumption DEF TypeOK, NoExpiry
  <2>2. approvals' \in [DOMAIN approvals \cup {id} -> ActionApproval]
    BY <1>2, <2>1, PutType DEF RequestApproval, TypeOK
  <2>3. inbox' \in [Sessions -> SUBSET Frames]
    BY <1>2, PushType DEF RequestApproval, TypeOK, Frames
  <2>4. events' \subseteq EventTypes \X (ApprovalIds \cup OverlayIds)
    BY <1>2 DEF RequestApproval, TypeOK, Log, EventTypes
  <2> QED
    BY <1>2, <2>2, <2>3, <2>4 DEF RequestApproval, TypeOK, historyVars
<1> QED
  BY <1>1, <1>2

\* A request is given to an idle worker.
LEMMA TypeSubmit ==
  ASSUME TypeOK, NEW w \in Workers, Submit(w)
  PROVE  TypeOK'
<1>1. CASE CheckExpired(w)
  <2>1. \A id \in DOMAIN approvals :
          [approvals[id] EXCEPT !.status = "expired"] \in ActionApproval
    <3> TAKE id \in DOMAIN approvals
    <3>1. approvals[id] \in ActionApproval
      BY DEF TypeOK
    <3> QED
      BY <3>1, StatusType
  <2>2. approvals' \in [DOMAIN approvals -> ActionApproval]
    BY <1>1, <2>1 DEF CheckExpired, TypeOK
  <2> QED
    BY <1>1, <2>2 DEF CheckExpired, TypeOK, netVars, recordVars, historyVars
<1>2. ASSUME NEW id \in ApprovalIds, NEW decision \in {"allowed", "denied"},
             ResolveCheck(w, id, decision)
      PROVE  TypeOK'
  <2>1. jobs' \in [Workers -> {Idle} \cup ResolveJobs \cup RespondJobs]
    BY <1>2 DEF ResolveCheck, TypeOK
  <2>2. \A v \in Workers : jobs'[v] # Idle => jobs'[v].id \in DOMAIN approvals
    BY <1>2 DEF ResolveCheck, TypeOK
  <2> QED
    BY <1>2, <2>1, <2>2
       DEF ResolveCheck, Submitted, TypeOK, netVars, recordVars
<1>3. ASSUME NEW id \in ApprovalIds, NEW body \in VerdictLists,
             RespondBegin(w, id, body)
      PROVE  TypeOK'
  <2>1. jobs' \in [Workers -> {Idle} \cup ResolveJobs \cup RespondJobs]
    <3>1. [pc |-> "respond", id |-> id, todo |-> body, scopes |-> {},
           before |-> HasAllowVerdict(approvals[id])] \in RespondJobs
      BY VerdictListsAssumption, Zenon DEF HasAllowVerdict
    <3> QED
      BY <1>3, <3>1 DEF RespondBegin, TypeOK
  <2>2. \A v \in Workers : jobs'[v] # Idle => jobs'[v].id \in DOMAIN approvals
    BY <1>3 DEF RespondBegin, TypeOK
  <2> QED
    BY <1>3, <2>1, <2>2
       DEF RespondBegin, Submitted, TypeOK, netVars, recordVars
<1> QED
  BY <1>1, <1>2, <1>3 DEF Submit

\* A worker's job after a step that leaves its id alone.
LEMMA TypeJob ==
  ASSUME TypeOK, NEW w \in Workers, jobs[w] # Idle,
         NEW job \in {Idle} \cup ResolveJobs \cup RespondJobs,
         job # Idle => job.id = jobs[w].id,
         jobs' = [jobs EXCEPT ![w] = job],
         DOMAIN approvals' = DOMAIN approvals
  PROVE  /\ jobs' \in [Workers -> {Idle} \cup ResolveJobs \cup RespondJobs]
         /\ \A v \in Workers : jobs'[v] # Idle => jobs'[v].id \in DOMAIN approvals'
  BY DEF TypeOK

\* A worker goes on with a resolve.
LEMMA TypeResolve ==
  ASSUME TypeOK, NEW w \in Workers, ResolveSet(w) \/ ResolveNotify(w)
  PROVE  TypeOK'
<1> DEFINE job == jobs[w]
<1>1. /\ job \in ResolveJobs
      /\ job # Idle
      /\ job.id \in DOMAIN approvals
  BY JobKinds DEF TypeOK, ResolveSet, ResolveNotify
<1>2. CASE ResolveSet(w)
  <2>1. /\ DOMAIN approvals' = DOMAIN approvals
        /\ approvals' \in [DOMAIN approvals -> ActionApproval]
    BY <1>1, <1>2, SetStatusType DEF ResolveSet, TypeOK
  <2>2. [job EXCEPT !.pc = "resolve_notify"] \in ResolveJobs
    BY <1>1
  <2>3. /\ jobs' = [jobs EXCEPT ![w] = [job EXCEPT !.pc = "resolve_notify"]]
        /\ [job EXCEPT !.pc = "resolve_notify"].id = job.id
    BY <1>1, <1>2 DEF ResolveSet
  <2>4. /\ jobs' \in [Workers -> {Idle} \cup ResolveJobs \cup RespondJobs]
        /\ \A v \in Workers : jobs'[v] # Idle => jobs'[v].id \in DOMAIN approvals'
    BY <1>1, <2>1, <2>2, <2>3, TypeJob
  <2>5. events' \subseteq EventTypes \X (ApprovalIds \cup OverlayIds)
    BY <1>1, <1>2 DEF ResolveSet, TypeOK, Log, EventTypes
  <2> QED
    BY <1>2, <2>1, <2>4, <2>5 DEF ResolveSet, TypeOK, netVars, historyVars
<1>3. CASE ResolveNotify(w)
  <2>1. inbox' \in [Sessions -> SUBSET Frames]
    BY <1>1, <1>3, PushType DEF ResolveNotify, TypeOK, Frames
  <2>2. /\ jobs' \in [Workers -> {Idle} \cup ResolveJobs \cup RespondJobs]
        /\ \A v \in Workers : jobs'[v] # Idle => jobs'[v].id \in DOMAIN approvals'
    BY <1>1, <1>3, TypeJob DEF ResolveNotify
  <2> QED
    BY <1>3, <2>1, <2>2 DEF ResolveNotify, TypeOK, recordVars, historyVars
<1> QED
  BY <1>2, <1>3

\* Appending a verdict to a known approval.
LEMMA AppendType ==
  ASSUME approvals \in [DOMAIN approvals -> ActionApproval],
         NEW id \in DOMAIN approvals, NEW verdict \in ScopedVerdict,
         approvals' = [approvals EXCEPT ![id].verdicts = Append(@, verdict)]
  PROVE  /\ DOMAIN approvals' = DOMAIN approvals
         /\ approvals' \in [DOMAIN approvals -> ActionApproval]
         /\ approvals'[id].verdicts = Append(approvals[id].verdicts, verdict)
         /\ approvals'[id].status = approvals[id].status
         /\ approvals'[id].session = approvals[id].session
         /\ approvals'[id].call = approvals[id].call
         /\ approvals'[id].expiresAt = approvals[id].expiresAt
         /\ \A k \in DOMAIN approvals : k # id => approvals'[k] = approvals[k]
<1>1. approvals[id] \in ActionApproval /\ approvals[id].verdicts \in Seq(ScopedVerdict)
  OBVIOUS
<1>2. Append(approvals[id].verdicts, verdict) \in Seq(ScopedVerdict)
  BY <1>1
<1> DEFINE new == [approvals[id] EXCEPT
                     !.verdicts = Append(approvals[id].verdicts, verdict)]
<1>3. new \in ActionApproval
  BY <1>1, <1>2
<1>4. approvals' = [approvals EXCEPT ![id] = new]
  OBVIOUS
<1>5. /\ new.verdicts = Append(approvals[id].verdicts, verdict)
      /\ new.status = approvals[id].status
      /\ new.session = approvals[id].session
      /\ new.call = approvals[id].call
      /\ new.expiresAt = approvals[id].expiresAt
  BY <1>1
<1> HIDE DEF new
<1> QED
  BY <1>3, <1>4, <1>5

\* The scopes on record are scopes.
LEMMA RecordedType ==
  ASSUME NEW verdicts \in Seq(ScopedVerdict)
  PROVE  RecordedScopes(verdicts) \subseteq Scopes
<1>1. \A i \in DOMAIN verdicts : verdicts[i] \in ScopedVerdict
  BY MembersOfSeq
<1> QED
  BY <1>1 DEF RecordedScopes

\* A worker goes on with a respond.
LEMMA TypeRespond ==
  ASSUME TypeOK, NEW w \in Workers,
         \/ RespondCheck(w) \/ SkipVerdict(w) \/ RecordVerdict(w)
         \/ TallyVerdicts(w) \/ RespondStatus(w) \/ RespondNotify(w)
  PROVE  TypeOK'
<1> DEFINE job == jobs[w]
           Jobs == {Idle} \cup ResolveJobs \cup RespondJobs
<1>1. /\ job \in RespondJobs
      /\ job # Idle
      /\ job.id \in DOMAIN approvals
      /\ job.id \in ApprovalIds
      /\ approvals[job.id].verdicts \in Seq(ScopedVerdict)
  <2>1. job \in RespondJobs /\ job # Idle
    BY JobKinds DEF TypeOK, RespondCheck, SkipVerdict, RecordVerdict,
                    TallyVerdicts, RespondStatus, RespondNotify
  <2> QED
    BY <2>1 DEF TypeOK
<1>2. CASE RespondCheck(w)
  <2>1. /\ DOMAIN approvals' = DOMAIN approvals
        /\ approvals' \in [DOMAIN approvals -> ActionApproval]
    BY <1>1, <1>2, SetStatusType DEF RespondCheck, TypeOK
  <2>2. PICK new \in Jobs : /\ new # Idle => new.id = job.id
                            /\ jobs' = [jobs EXCEPT ![w] = new]
    <3>1. CASE jobs' = [jobs EXCEPT ![w].pc = "respond_notify"]
      <4>1. [job EXCEPT !.pc = "respond_notify"] \in RespondJobs
        BY <1>1
      <4> QED
        BY <1>1, <3>1, <4>1
    <3>2. CASE jobs' = [jobs EXCEPT ![w] = Idle]
      BY <3>2
    <3>3. CASE jobs' = [jobs EXCEPT
                 ![w].pc = "verdicts",
                 ![w].scopes = RecordedScopes(approvals[job.id].verdicts)]
      <4> DEFINE new == [job EXCEPT !.pc = "verdicts",
                   !.scopes = RecordedScopes(approvals[job.id].verdicts)]
      <4>1. new \in RespondJobs /\ new.id = job.id
        BY <1>1, RecordedType
      <4>2. jobs' = [jobs EXCEPT ![w] = new]
        BY <1>1, <3>3 DEF TypeOK
      <4> HIDE DEF new
      <4> QED
        BY <4>1, <4>2
    <3> QED
      BY <1>2, <3>1, <3>2, <3>3 DEF RespondCheck
  <2> QED
    BY <1>1, <1>2, <2>1, <2>2, TypeJob
       DEF RespondCheck, TypeOK, netVars, recordVars, historyVars
<1>3. CASE SkipVerdict(w)
  <2> DEFINE new == [job EXCEPT !.todo = Tail(job.todo)]
  <2>1. new \in RespondJobs /\ new.id = job.id
    <3>1. Tail(job.todo) \in Seq(ScopedVerdict)
      BY <1>1, <1>3, HeadTailProperties DEF SkipVerdict
    <3> QED
      BY <1>1, <3>1
  <2>2. jobs' = [jobs EXCEPT ![w] = new]
    BY <1>1, <1>3 DEF SkipVerdict, TypeOK
  <2> HIDE DEF new
  <2> QED
    BY <1>1, <1>3, <2>1, <2>2, TypeJob
       DEF SkipVerdict, TypeOK, netVars, recordVars, historyVars
<1>4. CASE RecordVerdict(w)
  <2> DEFINE verdict == Head(job.todo)
             new == [job EXCEPT !.todo = Tail(job.todo),
                                !.scopes = job.scopes \cup {verdict.scope}]
  <2>1. verdict \in ScopedVerdict /\ Tail(job.todo) \in Seq(ScopedVerdict)
    <3>1. job.todo \in Seq(ScopedVerdict) /\ job.todo # <<>>
      BY <1>1, <1>4 DEF RecordVerdict
    <3> QED
      BY <3>1, HeadTailProperties
  <2>2. new \in RespondJobs /\ new.id = job.id
    BY <1>1, <2>1
  <2>3. /\ DOMAIN approvals' = DOMAIN approvals
        /\ approvals' \in [DOMAIN approvals -> ActionApproval]
    BY <1>1, <1>4, <2>1, AppendType DEF RecordVerdict, TypeOK
  <2>4. jobs' = [jobs EXCEPT ![w] = new] \/ jobs' = [jobs EXCEPT ![w] = Idle]
    BY <1>1, <1>4 DEF RecordVerdict, TypeOK
  <2> HIDE DEF new
  <2>5. /\ jobs' \in [Workers -> Jobs]
        /\ \A v \in Workers : jobs'[v] # Idle => jobs'[v].id \in DOMAIN approvals'
    BY <1>1, <2>2, <2>3, <2>4, TypeJob
  <2>6. /\ DOMAIN overlays' \subseteq OverlayIds
        /\ overlays' \in [DOMAIN overlays' -> Overlays]
        /\ events' \subseteq EventTypes \X (ApprovalIds \cup OverlayIds)
    <3>1. CASE verdict # SessionAllow
      BY <1>4, <3>1 DEF RecordVerdict, TypeOK, recordVars
    <3>2. CASE verdict = SessionAllow
      <4> DEFINE value == [session |-> approvals[job.id].session,
                           reveals |-> ToolOf[approvals[job.id].call]]
      <4>1. PICK o \in OverlayIds \ DOMAIN overlays :
              /\ overlays' = Put(overlays, o, value)
              /\ Log("overlay_attached", o) \/ UNCHANGED events
        BY <1>4, <3>2 DEF RecordVerdict, StoreOverlay
      <4>2. value \in Overlays
        BY <1>1, ToolOfAssumption DEF TypeOK, Overlays
      <4>3. overlays' \in [DOMAIN overlays \cup {o} -> Overlays]
        BY <4>1, <4>2, PutType DEF TypeOK
      <4> QED
        BY <4>1, <4>3 DEF TypeOK, Log, EventTypes
    <3> QED
      BY <3>1, <3>2
  <2>7. UNCHANGED <<clock, netVars, granted, told, ran>>
    BY <1>4 DEF RecordVerdict
  <2>8. cutShort' \subseteq DOMAIN approvals
    BY <1>1, <1>4 DEF RecordVerdict, TypeOK, historyVars
  <2> QED
    BY <2>3, <2>5, <2>6, <2>7, <2>8 DEF TypeOK, netVars
<1>5. CASE TallyVerdicts(w)
  <2> DEFINE new == [job EXCEPT
               !.scopes = RecordedScopes(approvals[job.id].verdicts),
               !.pc = "status"]
  <2>1. new \in RespondJobs /\ new.id = job.id
    BY <1>1, <1>5, RecordedType DEF TallyVerdicts
  <2>2. jobs' = [jobs EXCEPT ![w] = new]
    BY <1>1, <1>5 DEF TallyVerdicts, TypeOK
  <2> HIDE DEF new
  <2> QED
    BY <1>1, <1>5, <2>1, <2>2, TypeJob
       DEF TallyVerdicts, TypeOK, netVars, recordVars, historyVars
<1>6. CASE RespondStatus(w)
  <2> DEFINE new == [job EXCEPT !.pc = "respond_notify"]
  <2>1. new \in RespondJobs /\ new.id = job.id
    BY <1>1, <1>6 DEF RespondStatus
  <2>2. jobs' = [jobs EXCEPT ![w] = new]
    BY <1>1, <1>6 DEF RespondStatus, TypeOK
  <2>3. /\ DOMAIN approvals' = DOMAIN approvals
        /\ approvals' \in [DOMAIN approvals -> ActionApproval]
    BY <1>1, <1>6, SetStatusType DEF RespondStatus, TypeOK
  <2> HIDE DEF new
  <2> QED
    BY <1>1, <1>6, <2>1, <2>2, <2>3, TypeJob
       DEF RespondStatus, TypeOK, netVars, recordVars, historyVars
<1>7. CASE RespondNotify(w)
  <2>1. inbox' \in [Sessions -> SUBSET Frames]
    BY <1>1, <1>7, PushType DEF RespondNotify, TypeOK, Frames, AllowFrame
  <2>2. /\ jobs' \in [Workers -> Jobs]
        /\ \A v \in Workers : jobs'[v] # Idle => jobs'[v].id \in DOMAIN approvals'
    BY <1>1, <1>7, TypeJob DEF RespondNotify
  <2> QED
    BY <1>7, <2>1, <2>2 DEF RespondNotify, TypeOK, recordVars, historyVars
<1> QED
  BY <1>2, <1>3, <1>4, <1>5, <1>6, <1>7

\* Every step keeps the types.
LEMMA TypeNext == TypeOK /\ [Next]_vars => TypeOK'
<1> SUFFICES ASSUME TypeOK, [Next]_vars PROVE TypeOK'
  OBVIOUS
<1>1. CASE SessionStep
  BY <1>1, TypeSession DEF SessionStep
<1>2. CASE ParticipantStep
  BY <1>2, TypeSession, SessionsAssumption DEF ParticipantStep
<1>3. CASE CallStep
  BY <1>3, TypeCall DEF CallStep
<1>4. ASSUME NEW w \in Workers, Submit(w) PROVE TypeOK'
  BY <1>4, TypeSubmit
<1>5. ASSUME NEW w \in Workers, Continue(w) PROVE TypeOK'
  BY <1>5, TypeResolve, TypeRespond DEF Continue
<1>6. CASE Tick
  BY <1>6 DEF Tick, TypeOK, netVars, recordVars, historyVars
<1>7. CASE UNCHANGED vars
  BY <1>7 DEF TypeOK, vars, netVars, recordVars, historyVars
<1> QED
  BY <1>1, <1>2, <1>3, <1>4, <1>5, <1>6, <1>7 DEF Next

\* The stores and the handlers keep their shape: every record the code reads
\* is one it wrote, and a handler always works on an approval that exists.
THEOREM TypeCorrect == Spec => []TypeOK
  BY TypeInit, TypeNext, PTL DEF Spec

-----------------------------------------------------------------------------
(***************************************************************************)
(* No call runs that nobody allowed.  RunsWereAllowed is not inductive: a  *)
(* run follows from what the records say, and what they say from what the  *)
(* handlers carry.  AllowsTraced adds both.                                *)
(***************************************************************************)

Inv == TypeOK /\ AllowsTraced /\ RunsWereAllowed

\* What is left of a body allows nothing that the body did not.
LEMMA CarriesTail ==
  ASSUME NEW body \in Seq(ScopedVerdict), body # <<>>
  PROVE  /\ CarriesAllow(Tail(body)) => CarriesAllow(body)
         /\ Head(body) = [scope |-> "one_off", verdict |-> "allow"] =>
              CarriesAllow(body)
<1>1. /\ Tail(body) \in Seq(ScopedVerdict)
      /\ Len(Tail(body)) = Len(body) - 1
      /\ \A i \in 1 .. Len(Tail(body)) : Tail(body)[i] = body[i + 1]
      /\ Len(body) \in Nat \ {0}
  BY HeadTailProperties, EmptySeq
<1>2. /\ DOMAIN body = 1 .. Len(body)
      /\ DOMAIN Tail(body) = 1 .. Len(Tail(body))
  BY <1>1, LenProperties
<1>3. ASSUME NEW i \in DOMAIN Tail(body)
      PROVE  i + 1 \in DOMAIN body /\ body[i + 1] = Tail(body)[i]
  BY <1>1, <1>2, <1>3
<1>4. 1 \in DOMAIN body /\ Head(body) = body[1]
  BY <1>1, <1>2
<1> QED
  BY <1>3, <1>4 DEF CarriesAllow

\* Recording a verdict allows the call only if it is a one_off allow.
LEMMA AllowedByAppend ==
  ASSUME NEW old \in ActionApproval, NEW new \in ActionApproval,
         NEW verdict \in ScopedVerdict,
         new.status = old.status,
         new.verdicts = Append(old.verdicts, verdict),
         ExplicitlyAllowed(new)
  PROVE  \/ ExplicitlyAllowed(old)
         \/ verdict = [scope |-> "one_off", verdict |-> "allow"]
<1> DEFINE allow == [scope |-> "one_off", verdict |-> "allow"]
<1>1. CASE new.status = "allowed"
  BY <1>1 DEF ExplicitlyAllowed
<1>2. ASSUME NEW i \in DOMAIN new.verdicts, new.verdicts[i] = allow
      PROVE  verdict = allow \/ HasVerdict(old, "one_off", "allow")
  <2>1. /\ old.verdicts \in Seq(ScopedVerdict)
        /\ new.verdicts \in Seq(ScopedVerdict)
    OBVIOUS
  <2>2. /\ Len(new.verdicts) = Len(old.verdicts) + 1
        /\ \A j \in 1 .. Len(old.verdicts) : new.verdicts[j] = old.verdicts[j]
        /\ new.verdicts[Len(old.verdicts) + 1] = verdict
    BY <2>1, AppendProperties
  <2>3. /\ DOMAIN new.verdicts = 1 .. Len(new.verdicts)
        /\ DOMAIN old.verdicts = 1 .. Len(old.verdicts)
        /\ Len(old.verdicts) \in Nat
    BY <2>1, LenProperties
  <2>4. CASE i = Len(old.verdicts) + 1
    BY <1>2, <2>2, <2>4
  <2>5. CASE i \in 1 .. Len(old.verdicts)
    BY <1>2, <2>2, <2>3, <2>5 DEF HasVerdict
  <2> QED
    BY <2>2, <2>3, <2>4, <2>5
<1> QED
  BY <1>1, <1>2 DEF ExplicitlyAllowed, HasVerdict

\* An approval that was only expired or left partly answered allows no more.
LEMMA AllowedByStatus ==
  ASSUME NEW approval \in ActionApproval, NEW status \in Statuses,
         status # "allowed",
         ExplicitlyAllowed([approval EXCEPT !.status = status])
  PROVE  ExplicitlyAllowed(approval)
  BY DEF ExplicitlyAllowed, HasVerdict

\* Time does not revive an approval.
LEMMA ExpiryLasts ==
  ASSUME NEW approval \in ActionApproval, NEW now \in Nat,
         IsExpired(approval, now)
  PROVE  IsExpired(approval, now + 1)
  BY DEF IsExpired

\* Steps that touch no approval, no handler, no grant and no clock.
LEMMA TracedQuiet ==
  ASSUME AllowsTraced, UNCHANGED <<clock, approvals, jobs, granted>>
  PROVE  AllowsTraced'
  BY DEF AllowsTraced

\* An asked call: a new approval allows nothing.
LEMMA TracedRequest ==
  ASSUME TypeOK, AllowsTraced, NEW s \in Sessions, NEW c \in Calls,
         NEW id \in ApprovalIds, RequestApproval(s, c, id)
  PROVE  AllowsTraced'
<1>1. /\ DOMAIN approvals' = DOMAIN approvals \cup {id}
      /\ \A k \in DOMAIN approvals : k # id => approvals'[k] = approvals[k]
      /\ id \notin DOMAIN approvals
      /\ approvals'[id].status = "pending"
      /\ approvals'[id].verdicts = <<>>
      /\ UNCHANGED <<clock, jobs, granted>>
  <2> DEFINE new == [ session |-> s, call |-> c, status |-> "pending",
                      expiresAt |-> IF Ttl > 0 THEN clock + Ttl ELSE NoExpiry,
                      verdicts |-> <<>> ]
  <2>1. /\ approvals' = Put(approvals, id, new)
        /\ id \notin DOMAIN approvals
        /\ UNCHANGED <<clock, jobs, granted>>
    BY DEF RequestApproval, historyVars
  <2>2. new.status = "pending" /\ new.verdicts = <<>>
    OBVIOUS
  <2> HIDE DEF new
  <2> QED
    <3>1. /\ DOMAIN Put(approvals, id, new) = DOMAIN approvals \cup {id}
          /\ Put(approvals, id, new)[id] = new
          /\ \A k \in DOMAIN approvals :
               k # id => Put(approvals, id, new)[k] = approvals[k]
      BY DEF Put
    <3> QED
      BY <2>1, <2>2, <3>1
<1>2. ~ExplicitlyAllowed(approvals'[id])
  BY <1>1 DEF ExplicitlyAllowed, HasVerdict
<1>3. \A w \in Workers : jobs[w] # Idle =>
        approvals'[jobs[w].id] = approvals[jobs[w].id]
  BY <1>1 DEF TypeOK
<1> QED
  BY <1>1, <1>2, <1>3 DEF AllowsTraced

\* The steps of a worker, by what they do to the approval the worker is on:
\* the others and their handlers are as they were.
LEMMA TracedWorker ==
  ASSUME TypeOK, AllowsTraced, NEW w \in Workers, NEW id \in DOMAIN approvals,
         NEW job, jobs' = [jobs EXCEPT ![w] = job],
         clock' = clock, granted \subseteq granted',
         DOMAIN approvals' = DOMAIN approvals,
         \A k \in DOMAIN approvals : approvals'[k].expiresAt = approvals[k].expiresAt,
         \A k \in DOMAIN approvals :
           ExplicitlyAllowed(approvals'[k]) =>
             ExplicitlyAllowed(approvals[k]) \/ k \in granted',
         job.pc = "resolve" /\ job.decision = "allowed" => job.id \in granted',
         job.pc = "verdicts" => (CarriesAllow(job.todo) => job.id \in granted'),
         job.pc = "respond" /\ ~IsExpired(approvals'[job.id], clock) =>
           (CarriesAllow(job.todo) => job.id \in granted')
  PROVE  AllowsTraced'
<1>1. \A k \in DOMAIN approvals' :
        ExplicitlyAllowed(approvals'[k]) => k \in granted'
  BY DEF AllowsTraced
<1>2. jobs'[w] = job /\ \A v \in Workers : v # w => jobs'[v] = jobs[v]
  BY DEF TypeOK
<1>3. \A k \in DOMAIN approvals :
        IsExpired(approvals'[k], clock') = IsExpired(approvals[k], clock)
  BY DEF IsExpired
<1>4. ASSUME NEW v \in Workers, v # w
      PROVE  /\ jobs'[v].pc = "resolve" /\ jobs'[v].decision = "allowed" =>
                   jobs'[v].id \in granted'
             /\ \/ jobs'[v].pc = "verdicts"
                \/ /\ jobs'[v].pc = "respond"
                   /\ ~IsExpired(approvals'[jobs'[v].id], clock')
               => (CarriesAllow(jobs'[v].todo) => jobs'[v].id \in granted')
  <2>1. jobs'[v] = jobs[v]
    BY <1>2, <1>4
  <2>2. jobs[v].pc = "respond" => jobs[v].id \in DOMAIN approvals
    BY JobKinds DEF TypeOK
  <2> QED
    BY <2>1, <2>2, <1>3 DEF AllowsTraced
<1> QED
  BY <1>1, <1>2, <1>4 DEF AllowsTraced

\* The first half of respond().
LEMMA TracedVerdicts ==
  ASSUME TypeOK, TypeOK', AllowsTraced, NEW w \in Workers,
         RespondCheck(w) \/ SkipVerdict(w) \/ RecordVerdict(w)
  PROVE  AllowsTraced'
<1> DEFINE job == jobs[w]
           id == job.id
           approval == approvals[id]
<1>1. /\ job \in RespondJobs
      /\ id \in DOMAIN approvals
      /\ approval \in ActionApproval
      /\ id \in granted => id \in granted'
      /\ UNCHANGED <<clock, granted>>
  BY JobKinds DEF TypeOK, RespondCheck, SkipVerdict, RecordVerdict, historyVars
<1>2. CASE RespondCheck(w)
  <2>1. CASE /\ SetStatus(id, "expired")
             /\ jobs' = [jobs EXCEPT ![w].pc = "respond_notify"]
    <3> DEFINE new == [job EXCEPT !.pc = "respond_notify"]
    <3>1. new.pc = "respond_notify" /\ jobs' = [jobs EXCEPT ![w] = new]
      BY <1>1, <2>1
    <3>2. /\ DOMAIN approvals' = DOMAIN approvals
          /\ \A k \in DOMAIN approvals : k # id => approvals'[k] = approvals[k]
          /\ approvals'[id] = [approval EXCEPT !.status = "expired"]
      BY <1>1, <2>1 DEF SetStatus, TypeOK
    <3>3. /\ [approval EXCEPT !.status = "expired"].expiresAt = approval.expiresAt
          /\ ExplicitlyAllowed([approval EXCEPT !.status = "expired"]) =>
               ExplicitlyAllowed(approval)
      BY <1>1, AllowedByStatus
    <3>4. /\ approvals'[id].expiresAt = approvals[id].expiresAt
          /\ ExplicitlyAllowed(approvals'[id]) => ExplicitlyAllowed(approvals[id])
      BY <3>2, <3>3
    <3> HIDE DEF new, approval
    <3> QED
      BY <1>1, <3>1, <3>2, <3>4, TracedWorker
  <2>2. CASE jobs' = [jobs EXCEPT ![w] = Idle] /\ UNCHANGED approvals
    <3>1. Idle.pc = "idle"
      OBVIOUS
    <3> QED
      BY <1>1, <2>2, <3>1, TracedWorker
  <2>3. CASE /\ ~IsExpired(approval, clock)
             /\ jobs' = [jobs EXCEPT
                  ![w].pc = "verdicts",
                  ![w].scopes = RecordedScopes(approval.verdicts)]
             /\ UNCHANGED approvals
    <3> DEFINE new == [job EXCEPT !.pc = "verdicts",
                         !.scopes = RecordedScopes(approval.verdicts)]
    <3>1. new.pc = "verdicts" /\ new.todo = job.todo /\ new.id = id
      BY <1>1
    <3>2. jobs' = [jobs EXCEPT ![w] = new]
      BY <1>1, <2>3 DEF TypeOK
    <3>3. CarriesAllow(job.todo) => id \in granted
      BY <1>2, <2>3 DEF RespondCheck, AllowsTraced
    <3> HIDE DEF new
    <3> QED
      BY <1>1, <2>3, <3>1, <3>2, <3>3, TracedWorker
  <2> QED
    BY <1>2, <2>1, <2>2, <2>3 DEF RespondCheck
<1>3. CASE SkipVerdict(w)
  <2> DEFINE new == [job EXCEPT !.todo = Tail(job.todo)]
  <2>1. new.pc = "verdicts" /\ new.todo = Tail(job.todo) /\ new.id = id
    BY <1>1, <1>3 DEF SkipVerdict
  <2>2. jobs' = [jobs EXCEPT ![w] = new] /\ UNCHANGED approvals
    BY <1>1, <1>3 DEF SkipVerdict, TypeOK
  <2>3. CarriesAllow(Tail(job.todo)) => id \in granted
    BY <1>1, <1>3, CarriesTail DEF SkipVerdict, AllowsTraced
  <2> HIDE DEF new
  <2> QED
    BY <1>1, <2>1, <2>2, <2>3, TracedWorker
<1>4. CASE RecordVerdict(w)
  <2> DEFINE verdict == Head(job.todo)
             new == [job EXCEPT !.todo = Tail(job.todo),
                                !.scopes = job.scopes \cup {verdict.scope}]
  <2>1. /\ job.todo \in Seq(ScopedVerdict) /\ job.todo # <<>>
        /\ job.pc = "verdicts"
    BY <1>1, <1>4 DEF RecordVerdict
  <2>2. verdict \in ScopedVerdict
    BY <2>1, HeadTailProperties
  <2>3. /\ CarriesAllow(Tail(job.todo)) => id \in granted
        /\ verdict = [scope |-> "one_off", verdict |-> "allow"] => id \in granted
    BY <2>1, CarriesTail DEF AllowsTraced
  <2>4. /\ DOMAIN approvals' = DOMAIN approvals
        /\ \A k \in DOMAIN approvals : k # id => approvals'[k] = approvals[k]
        /\ approvals'[id].expiresAt = approval.expiresAt
        /\ approvals'[id].status = approval.status
        /\ approvals'[id].verdicts = Append(approval.verdicts, verdict)
        /\ approvals'[id] \in ActionApproval
    <3>1. approvals' = [approvals EXCEPT ![id].verdicts = Append(@, verdict)]
      BY <1>4 DEF RecordVerdict
    <3>2. approvals \in [DOMAIN approvals -> ActionApproval]
      BY DEF TypeOK
    <3> HIDE DEF verdict, id
    <3> QED
      BY <1>1, <2>2, <3>1, <3>2, AppendType
  <2>5. ExplicitlyAllowed(approvals'[id]) => ExplicitlyAllowed(approval) \/ id \in granted
    BY <1>1, <2>2, <2>3, <2>4, AllowedByAppend
  <2>6. /\ new.pc = "verdicts" /\ new.todo = Tail(job.todo) /\ new.id = id
        /\ Idle.pc = "idle"
    BY <1>1, <2>1
  <2>7. jobs' = [jobs EXCEPT ![w] = new] \/ jobs' = [jobs EXCEPT ![w] = Idle]
    <3>1. \/ jobs' = [jobs EXCEPT ![w].todo = Tail(@),
                                ![w].scopes = @ \cup {verdict.scope}]
          \/ jobs' = [jobs EXCEPT ![w] = Idle]
      BY <1>4 DEF RecordVerdict
    <3>2. [jobs EXCEPT ![w].todo = Tail(@), ![w].scopes = @ \cup {verdict.scope}]
            = [jobs EXCEPT ![w] = new]
      BY <1>1 DEF TypeOK
    <3> HIDE DEF new
    <3> QED
      BY <3>1, <3>2
  <2> HIDE DEF new
  <2>8. CASE jobs' = [jobs EXCEPT ![w] = new]
    BY <1>1, <2>3, <2>4, <2>5, <2>6, <2>8, TracedWorker
  <2>9. CASE jobs' = [jobs EXCEPT ![w] = Idle]
    BY <1>1, <2>4, <2>5, <2>6, <2>9, TracedWorker
  <2> QED
    BY <2>7, <2>8, <2>9
<1> QED
  BY <1>2, <1>3, <1>4

\* The second half of respond().
LEMMA TracedStatus ==
  ASSUME TypeOK, TypeOK', AllowsTraced, NEW w \in Workers,
         TallyVerdicts(w) \/ RespondStatus(w) \/ RespondNotify(w)
  PROVE  AllowsTraced'
<1> DEFINE job == jobs[w]
           id == job.id
           approval == approvals[id]
<1>1. /\ job \in RespondJobs
      /\ id \in DOMAIN approvals
      /\ approval \in ActionApproval
      /\ UNCHANGED <<clock, granted>>
  BY JobKinds DEF TypeOK, TallyVerdicts, RespondStatus, RespondNotify, historyVars
<1>2. PICK new : /\ jobs' = [jobs EXCEPT ![w] = new]
                 /\ new.pc \in {"idle", "status", "respond_notify"}
  <2>1. CASE TallyVerdicts(w)
    <3> DEFINE new == [job EXCEPT !.scopes = RecordedScopes(approval.verdicts),
                                  !.pc = "status"]
    <3>1. jobs' = [jobs EXCEPT ![w] = new]
      BY <1>1, <2>1 DEF TallyVerdicts, TypeOK
    <3>2. new.pc = "status"
      BY <1>1
    <3> HIDE DEF new
    <3> QED
      BY <3>1, <3>2
  <2>2. CASE RespondStatus(w)
    <3> DEFINE new == [job EXCEPT !.pc = "respond_notify"]
    <3>1. jobs' = [jobs EXCEPT ![w] = new]
      BY <1>1, <2>2 DEF RespondStatus, TypeOK
    <3>2. new.pc = "respond_notify"
      BY <1>1
    <3> HIDE DEF new
    <3> QED
      BY <3>1, <3>2
  <2>3. CASE RespondNotify(w)
    <3>1. jobs' = [jobs EXCEPT ![w] = Idle] /\ Idle.pc = "idle"
      BY <2>3 DEF RespondNotify
    <3> HIDE DEF Idle
    <3> QED
      BY <3>1
  <2> QED
    BY <2>1, <2>2, <2>3
<1>3. /\ DOMAIN approvals' = DOMAIN approvals
      /\ \A k \in DOMAIN approvals : k # id => approvals'[k] = approvals[k]
      /\ \/ approvals'[id] = approval
         \/ \E status \in {"resolved", "partially_resolved"} :
              approvals'[id] = [approval EXCEPT !.status = status]
  BY <1>1 DEF TallyVerdicts, RespondStatus, RespondNotify, SetStatus, TypeOK
<1>4. \A status \in {"resolved", "partially_resolved"} :
        /\ [approval EXCEPT !.status = status].expiresAt = approval.expiresAt
        /\ ExplicitlyAllowed([approval EXCEPT !.status = status]) =>
             ExplicitlyAllowed(approval)
  BY <1>1, AllowedByStatus
<1> HIDE DEF approval
<1>5. /\ approvals'[id].expiresAt = approvals[id].expiresAt
      /\ ExplicitlyAllowed(approvals'[id]) => ExplicitlyAllowed(approvals[id])
  BY <1>3, <1>4 DEF approval
<1> QED
  BY <1>1, <1>2, <1>3, <1>5, TracedWorker

\* The handlers of a worker.
LEMMA TracedHandlers ==
  ASSUME TypeOK, TypeOK', AllowsTraced, NEW w \in Workers,
         Submit(w) \/ Continue(w)
  PROVE  AllowsTraced'
<1> DEFINE job == jobs[w]
<1>1. CASE CheckExpired(w)
  <2>1. \A id \in DOMAIN approvals :
          /\ approvals'[id].expiresAt = approvals[id].expiresAt
          /\ ExplicitlyAllowed(approvals'[id]) => ExplicitlyAllowed(approvals[id])
    <3> TAKE id \in DOMAIN approvals
    <3>1. approvals[id] \in ActionApproval
      BY DEF TypeOK
    <3>2. \/ approvals'[id] = approvals[id]
          \/ approvals'[id] = [approvals[id] EXCEPT !.status = "expired"]
      BY <1>1 DEF CheckExpired
    <3> QED
      BY <3>1, <3>2, AllowedByStatus
  <2>2. /\ DOMAIN approvals' = DOMAIN approvals
        /\ UNCHANGED <<clock, jobs, granted>>
    BY <1>1 DEF CheckExpired, historyVars
  <2>3. \A id \in DOMAIN approvals :
          IsExpired(approvals'[id], clock') = IsExpired(approvals[id], clock)
    BY <2>1, <2>2 DEF IsExpired
  <2>4. \A v \in Workers : jobs[v].pc = "respond" => jobs[v].id \in DOMAIN approvals
    BY JobKinds DEF TypeOK
  <2> QED
    BY <2>1, <2>2, <2>3, <2>4 DEF AllowsTraced
<1>2. ASSUME NEW id \in ApprovalIds, NEW decision \in {"allowed", "denied"},
             ResolveCheck(w, id, decision)
      PROVE  AllowsTraced'
  <2> DEFINE new == [pc |-> "resolve", id |-> id,
                     decision |-> IF IsExpired(approvals[id], clock)
                                  THEN "denied" ELSE decision]
  <2>1. /\ new.pc = "resolve"
        /\ new.decision = "allowed" =>
             decision = "allowed" /\ ~IsExpired(approvals[id], clock)
        /\ new.id = id
    OBVIOUS
  <2>2. /\ id \in DOMAIN approvals
        /\ jobs' = [jobs EXCEPT ![w] = new]
        /\ UNCHANGED <<clock, approvals>>
        /\ granted \subseteq granted'
        /\ decision = "allowed" /\ ~IsExpired(approvals[id], clock) => id \in granted'
    BY <1>2 DEF ResolveCheck, Submitted
  <2> HIDE DEF new
  <2> QED
    BY <2>1, <2>2, TracedWorker
<1>3. ASSUME NEW id \in ApprovalIds, NEW body \in VerdictLists,
             RespondBegin(w, id, body)
      PROVE  AllowsTraced'
  <2> DEFINE new == [pc |-> "respond", id |-> id, todo |-> body, scopes |-> {},
                     before |-> HasAllowVerdict(approvals[id])]
  <2>1. new.pc = "respond" /\ new.todo = body /\ new.id = id
    OBVIOUS
  <2>2. /\ id \in DOMAIN approvals
        /\ jobs' = [jobs EXCEPT ![w] = new]
        /\ UNCHANGED <<clock, approvals>>
        /\ granted \subseteq granted'
        /\ CarriesAllow(body) /\ ~IsExpired(approvals[id], clock) => id \in granted'
    BY <1>3 DEF RespondBegin, Submitted
  <2> HIDE DEF new
  <2> QED
    BY <2>1, <2>2, TracedWorker
<1>4. CASE ResolveSet(w)
  <2>1. job \in ResolveJobs /\ job.id \in DOMAIN approvals
    BY <1>4, JobKinds DEF ResolveSet, TypeOK
  <2> DEFINE new == [job EXCEPT !.pc = "resolve_notify"]
  <2>2. new.pc = "resolve_notify"
    BY <2>1
  <2>3. jobs' = [jobs EXCEPT ![w] = new] /\ UNCHANGED <<clock, granted>>
    BY <1>4 DEF ResolveSet, historyVars
  <2>4. /\ DOMAIN approvals' = DOMAIN approvals
        /\ \A k \in DOMAIN approvals : k # job.id => approvals'[k] = approvals[k]
        /\ approvals'[job.id] = [approvals[job.id] EXCEPT !.status = job.decision]
    BY <1>4, <2>1 DEF ResolveSet, SetStatus, TypeOK
  <2>5. approvals[job.id] \in ActionApproval
    BY <2>1 DEF TypeOK
  <2>6. CASE job.decision = "allowed"
    <3>1. job.id \in granted
      BY <1>4, <2>6 DEF ResolveSet, AllowsTraced
    <3>2. approvals'[job.id].expiresAt = approvals[job.id].expiresAt
      BY <2>4, <2>5
    <3> HIDE DEF new
    <3> QED
      BY <2>1, <2>2, <2>3, <2>4, <3>1, <3>2, TracedWorker
  <2>7. CASE job.decision = "denied"
    <3> DEFINE approval == approvals[job.id]
    <3>0. approvals'[job.id] = [approval EXCEPT !.status = "denied"]
      BY <2>4, <2>7
    <3>1. /\ [approval EXCEPT !.status = "denied"].expiresAt = approval.expiresAt
          /\ ExplicitlyAllowed([approval EXCEPT !.status = "denied"]) =>
               ExplicitlyAllowed(approval)
      BY <2>5, AllowedByStatus
    <3>2. /\ approvals'[job.id].expiresAt = approvals[job.id].expiresAt
          /\ ExplicitlyAllowed(approvals'[job.id]) =>
               ExplicitlyAllowed(approvals[job.id])
      BY <3>0, <3>1
    <3> HIDE DEF new, approval
    <3> QED
      BY <2>1, <2>2, <2>3, <2>4, <3>2, TracedWorker
  <2> QED
    BY <2>1, <2>6, <2>7
<1>5. CASE ResolveNotify(w)
  <2>1. job.id \in DOMAIN approvals
    BY <1>5, JobKinds DEF ResolveNotify, TypeOK
  <2>2. UNCHANGED <<clock, approvals, granted>> /\ jobs' = [jobs EXCEPT ![w] = Idle]
    BY <1>5 DEF ResolveNotify, historyVars
  <2>3. Idle.pc = "idle"
    OBVIOUS
  <2> QED
    BY <2>1, <2>2, <2>3, TracedWorker
<1>6. CASE RespondCheck(w) \/ SkipVerdict(w) \/ RecordVerdict(w)
  BY <1>6, TracedVerdicts
<1>7. CASE TallyVerdicts(w) \/ RespondStatus(w) \/ RespondNotify(w)
  BY <1>7, TracedStatus
<1> QED
  BY <1>1, <1>2, <1>3, <1>4, <1>5, <1>6, <1>7 DEF Submit, Continue

\* Every step keeps every allow traced.
LEMMA TracedNext ==
  ASSUME TypeOK, TypeOK', AllowsTraced, [Next]_vars
  PROVE  AllowsTraced'
<1>1. CASE SessionStep
  BY <1>1, TracedQuiet
     DEF SessionStep, CreateSession, OpenStream, CloseStream, Deliver, historyVars
<1>2. CASE ParticipantStep
  BY <1>2, TracedQuiet
     DEF ParticipantStep, RegisterParticipant, UnregisterParticipant, historyVars
<1>3. CASE CallStep
  <2>1. ASSUME NEW s \in Sessions, NEW c \in Calls, RunAskedCall(s, c)
        PROVE  AllowsTraced'
    BY <2>1, TracedQuiet DEF RunAskedCall
  <2> QED
    BY <1>3, <2>1, TracedRequest DEF CallStep
<1>4. ASSUME NEW w \in Workers, Submit(w) \/ Continue(w)
      PROVE  AllowsTraced'
  BY <1>4, TracedHandlers
<1>5. CASE Tick
  <2>1. UNCHANGED <<approvals, jobs, granted>> /\ clock' = clock + 1
    BY <1>5 DEF Tick, historyVars
  <2>2. \A w \in Workers : jobs[w].pc = "respond" =>
          approvals[jobs[w].id] \in ActionApproval
    BY JobKinds DEF TypeOK
  <2>3. \A w \in Workers :
          jobs[w].pc = "respond" /\ ~IsExpired(approvals[jobs[w].id], clock + 1) =>
            ~IsExpired(approvals[jobs[w].id], clock)
    BY <2>2, ExpiryLasts DEF TypeOK
  <2> QED
    BY <2>1, <2>3 DEF AllowsTraced
<1>6. CASE UNCHANGED vars
  BY <1>6, TracedQuiet DEF vars, historyVars
<1> QED
  BY <1>1, <1>2, <1>3, <1>4, <1>5, <1>6 DEF Next

\* What an approval is about never changes, and a grant is never forgotten.
Kept ==
  /\ \A id \in DOMAIN approvals :
       /\ id \in DOMAIN approvals'
       /\ approvals'[id].session = approvals[id].session
       /\ approvals'[id].call = approvals[id].call
  /\ granted \subseteq granted'

LEMMA KeptSetStatus ==
  ASSUME TypeOK, NEW id \in DOMAIN approvals, NEW status,
         SetStatus(id, status), granted' = granted
  PROVE  Kept
<1>1. approvals[id] \in ActionApproval
  BY DEF TypeOK
<1>2. /\ DOMAIN approvals' = DOMAIN approvals
      /\ \A k \in DOMAIN approvals : k # id => approvals'[k] = approvals[k]
      /\ approvals'[id] = [approvals[id] EXCEPT !.status = status]
  BY DEF SetStatus, TypeOK
<1> QED
  BY <1>1, <1>2 DEF Kept

LEMMA KeptNext ==
  ASSUME TypeOK, [Next]_vars
  PROVE  Kept
<1>1. CASE SessionStep \/ ParticipantStep \/ Tick \/ UNCHANGED vars
  <2>1. UNCHANGED <<approvals, granted>>
    BY <1>1 DEF SessionStep, CreateSession, OpenStream, CloseStream, Deliver,
                ParticipantStep, RegisterParticipant, UnregisterParticipant,
                Tick, vars, historyVars
  <2> QED
    BY <2>1 DEF Kept
<1>2. ASSUME NEW s \in Sessions, NEW c \in Calls, RunAskedCall(s, c)
      PROVE  Kept
  BY <1>2 DEF RunAskedCall, Kept
<1>3. ASSUME NEW s \in Sessions, NEW c \in Calls, NEW id \in ApprovalIds,
             RequestApproval(s, c, id)
      PROVE  Kept
  BY <1>3 DEF RequestApproval, Put, Kept, historyVars
<1>4. ASSUME NEW w \in Workers, Submit(w)
      PROVE  Kept
  <2>1. CASE CheckExpired(w)
    <3>1. \A id \in DOMAIN approvals : approvals[id] \in ActionApproval
      BY DEF TypeOK
    <3> QED
      BY <2>1, <3>1 DEF CheckExpired, Kept, historyVars
  <2>2. CASE UNCHANGED approvals /\ granted \subseteq granted'
    BY <2>2 DEF Kept
  <2> QED
    BY <1>4, <2>1, <2>2 DEF Submit, ResolveCheck, RespondBegin, Submitted
<1>5. ASSUME NEW w \in Workers, Continue(w)
      PROVE  Kept
  <2> DEFINE id == jobs[w].id
  <2>1. CASE UNCHANGED approvals
    BY <1>5, <2>1 DEF Continue, Kept, ResolveSet, ResolveNotify, RespondCheck,
       SkipVerdict, RecordVerdict, TallyVerdicts, RespondStatus, RespondNotify,
       historyVars
  <2>2. CASE ResolveSet(w) \/ RespondCheck(w) \/ RespondStatus(w)
    <3>1. id \in DOMAIN approvals
      BY <2>2, JobKinds DEF ResolveSet, RespondCheck, RespondStatus, TypeOK
    <3> QED
      BY <2>1, <2>2, <3>1, KeptSetStatus
         DEF ResolveSet, RespondCheck, RespondStatus, historyVars
  <2>3. CASE RecordVerdict(w)
    <3>1. id \in DOMAIN approvals
      BY <2>3, JobKinds DEF RecordVerdict, TypeOK
    <3>2. approvals[id] \in ActionApproval
      BY <3>1 DEF TypeOK
    <3>3. PICK verdict : approvals' = [approvals EXCEPT ![id].verdicts =
                                         Append(@, verdict)]
      BY <2>3 DEF RecordVerdict
    <3>4. /\ DOMAIN approvals' = DOMAIN approvals
          /\ \A k \in DOMAIN approvals : k # id => approvals'[k] = approvals[k]
          /\ approvals'[id] = [approvals[id] EXCEPT !.verdicts = Append(@, verdict)]
      BY <3>1, <3>3 DEF TypeOK
    <3>5. /\ approvals'[id].session = approvals[id].session
          /\ approvals'[id].call = approvals[id].call
      BY <3>2, <3>4
    <3> QED
      BY <2>3, <3>4, <3>5 DEF RecordVerdict, Kept, historyVars
  <2> QED
    BY <1>5, <2>1, <2>2, <2>3
       DEF Continue, ResolveNotify, SkipVerdict, TallyVerdicts, RespondNotify
<1> QED
  BY <1>1, <1>2, <1>3, <1>4, <1>5 DEF Next, CallStep

\* A call that runs is one that an operator allowed.
LEMMA RunsNext ==
  ASSUME TypeOK, AllowsTraced, RunsWereAllowed, [Next]_vars
  PROVE  RunsWereAllowed'
<1>1. Kept
  BY KeptNext
<1>2. \A id \in granted : /\ id \in granted'
                          /\ approvals'[id].session = approvals[id].session
                          /\ approvals'[id].call = approvals[id].call
  BY <1>1 DEF Kept, TypeOK
<1>3. CASE UNCHANGED ran
  BY <1>2, <1>3 DEF RunsWereAllowed
<1>4. ASSUME NEW s \in Sessions, NEW c \in Calls, RunAskedCall(s, c)
      PROVE  RunsWereAllowed'
  <2>1. \E id \in granted : approvals[id].session = s /\ approvals[id].call = c
    BY <1>4 DEF RunAskedCall, HasExplicitAllow, Permits, AllowsTraced
  <2>2. \A t \in Sessions, d \in Calls :
          ran'[<<t, d>>] > 0 => ran[<<t, d>>] > 0 \/ (t = s /\ d = c)
    BY <1>4 DEF RunAskedCall, TypeOK
  <2> QED
    BY <1>2, <2>1, <2>2 DEF RunsWereAllowed
<1> QED
  BY <1>3, <1>4 DEF Next, SessionStep, CreateSession, OpenStream, CloseStream,
     Deliver, ParticipantStep, RegisterParticipant, UnregisterParticipant,
     CallStep, RequestApproval, Submit, CheckExpired, ResolveCheck, RespondBegin,
     Continue, ResolveSet, ResolveNotify, RespondCheck, SkipVerdict,
     RecordVerdict, TallyVerdicts, RespondStatus, RespondNotify, Tick, vars,
     historyVars

LEMMA InvInit == Init => Inv
<1>1. Init => AllowsTraced
  BY DEF Init, AllowsTraced
<1>2. Init => RunsWereAllowed
  BY DEF Init, RunsWereAllowed
<1> QED
  BY <1>1, <1>2, TypeInit DEF Inv

LEMMA InvNext == Inv /\ [Next]_vars => Inv'
  BY TypeNext, TracedNext, RunsNext DEF Inv

LEMMA InvHolds == Spec => []Inv
  BY InvInit, InvNext, PTL DEF Spec

\* Whatever threads interleave, an allow in the records or in a handler goes
\* back to an operator who submitted it while the approval was alive.
THEOREM AllowsAreTraced == Spec => []AllowsTraced
<1>1. Inv => AllowsTraced
  BY DEF Inv
<1> QED
  BY <1>1, InvHolds, PTL

\* No asked call of any session runs unless an operator allowed that very call
\* of that very session while its approval was alive.
THEOREM RunsAreAllowed == Spec => []RunsWereAllowed
<1>1. Inv => RunsWereAllowed
  BY DEF Inv
<1> QED
  BY <1>1, InvHolds, PTL

-----------------------------------------------------------------------------
(***************************************************************************)
(* When no two REST handlers overlap, as the stores assume ("single-       *)
(* threaded async FastAPI context", session_store.py): what the runs with  *)
(* one worker check.  OneWorker: no handler starts before the last one is  *)
(* over.  A session may be one that nobody registered: for it              *)
(* attach_overlay raises after the verdict was recorded and before the     *)
(* status is written.  cutShort names the approvals this happened to.      *)
(***************************************************************************)
OneWorker == \A v, w \in Workers : v = w

OpenStatuses == {"pending", "partially_resolved"}

(***************************************************************************)
(* The inductive invariant.  What a status says of the verdicts holds      *)
(* except while respond() is between its first verdict and its status, and *)
(* for an approval whose response was cut short, which has a session       *)
(* verdict on record; a handler knows the scopes on record, and acts on an *)
(* open approval.                                                          *)
(***************************************************************************)
Unique(approval) ==
  \A i, j \in DOMAIN approval.verdicts :
    approval.verdicts[i].scope = approval.verdicts[j].scope => i = j

Tallies(id, approval, cut) ==
  LET recorded == RecordedScopes(approval.verdicts)
      status == approval.status
  IN  /\ status \in {"pending", "allowed", "denied"} => recorded = {} \/ id \in cut
      /\ status = "partially_resolved" =>
           recorded # {} /\ (recorded # Scopes \/ id \in cut)
      /\ status = "resolved" => recorded = Scopes

Writing(job) == job.pc \in {"verdicts", "status"}

InWork(approval, scopes) ==
  /\ approval.status \in OpenStatuses
  /\ scopes = RecordedScopes(approval.verdicts)
  /\ approval.status = "partially_resolved" => scopes # {}

Fits(job) ==
  /\ job.pc = "resolve" => approvals[job.id].status = "pending"
  /\ Writing(job) => InWork(approvals[job.id], job.scopes)

Sequential ==
  /\ \A id \in DOMAIN approvals : Unique(approvals[id])
  /\ \A id \in cutShort : "session" \in RecordedScopes(approvals[id].verdicts)
  /\ \A id \in DOMAIN approvals :
       \/ Tallies(id, approvals[id], cutShort)
       \/ \E w \in Workers : Writing(jobs[w]) /\ jobs[w].id = id
  /\ \A w \in Workers : Fits(jobs[w])

-----------------------------------------------------------------------------
(***************************************************************************)
(* Lemmas about records.                                                   *)
(***************************************************************************)

\* A record with another status.
LEMMA StatusOnly ==
  ASSUME NEW approval \in ActionApproval, NEW status \in Statuses
  PROVE  LET new == [approval EXCEPT !.status = status] IN
         /\ new \in ActionApproval
         /\ new.status = status
         /\ new.session = approval.session
         /\ new.call = approval.call
         /\ new.expiresAt = approval.expiresAt
         /\ new.verdicts = approval.verdicts
  OBVIOUS

\* What appending a verdict does to the verdicts.
LEMMA AppendReads ==
  ASSUME NEW old \in Seq(ScopedVerdict), NEW verdict \in ScopedVerdict
  PROVE  /\ DOMAIN Append(old, verdict) = DOMAIN old \cup {Len(old) + 1}
         /\ Len(old) + 1 \notin DOMAIN old
         /\ \A i \in DOMAIN old : Append(old, verdict)[i] = old[i]
         /\ Append(old, verdict)[Len(old) + 1] = verdict
<1>1. Append(old, verdict) \in Seq(ScopedVerdict) /\ Len(old) \in Nat
  BY LenProperties
<1>2. /\ DOMAIN old = 1 .. Len(old)
      /\ DOMAIN Append(old, verdict) = 1 .. Len(Append(old, verdict))
      /\ Len(Append(old, verdict)) = Len(old) + 1
  BY <1>1, LenProperties, AppendProperties
<1>3. 1 .. (Len(old) + 1) = (1 .. Len(old)) \cup {Len(old) + 1}
  BY <1>1
<1> QED
  BY <1>1, <1>2, <1>3, AppendProperties

\* The scopes on record after one more verdict.
LEMMA AppendScopes ==
  ASSUME NEW old \in Seq(ScopedVerdict), NEW verdict \in ScopedVerdict
  PROVE  RecordedScopes(Append(old, verdict)) =
           RecordedScopes(old) \cup {verdict.scope}
  BY AppendReads DEF RecordedScopes

\* A verdict of a scope that is not on record keeps the scopes distinct.
LEMMA AppendUnique ==
  ASSUME NEW old \in ActionApproval, NEW new, NEW verdict \in ScopedVerdict,
         new.verdicts = Append(old.verdicts, verdict), Unique(old),
         verdict.scope \notin RecordedScopes(old.verdicts)
  PROVE  Unique(new)
<1>1. old.verdicts \in Seq(ScopedVerdict)
  OBVIOUS
<1> QED
  BY <1>1, AppendReads DEF Unique, RecordedScopes

\* Which verdicts are on record after one more.
LEMMA AppendHas ==
  ASSUME NEW old \in ActionApproval, NEW new, NEW verdict \in ScopedVerdict,
         new.verdicts = Append(old.verdicts, verdict),
         NEW scope, NEW v
  PROVE  HasVerdict(new, scope, v) <=>
           \/ HasVerdict(old, scope, v)
           \/ verdict = [scope |-> scope, verdict |-> v]
<1>1. old.verdicts \in Seq(ScopedVerdict)
  OBVIOUS
<1> QED
  BY <1>1, AppendReads DEF HasVerdict

\* A scope that is not on record has no verdict.
LEMMA NoScopeNoVerdict ==
  ASSUME NEW approval, NEW scope, NEW v, HasVerdict(approval, scope, v)
  PROVE  scope \in RecordedScopes(approval.verdicts)
<1>1. PICK i \in DOMAIN approval.verdicts :
        approval.verdicts[i] = [scope |-> scope, verdict |-> v]
  BY DEF HasVerdict
<1>2. approval.verdicts[i].scope = scope
  BY <1>1
<1> QED
  BY <1>2 DEF RecordedScopes

-----------------------------------------------------------------------------
(***************************************************************************)
(* The invariant is kept.                                                  *)
(***************************************************************************)

LEMMA SequentialInit == Init => Sequential
<1> SUFFICES ASSUME Init PROVE Sequential
  OBVIOUS
<1>1. DOMAIN approvals = {}
  BY DEF Init
<1>2. \A w \in Workers : jobs[w].pc = "idle"
  BY DEF Init
<1>3. cutShort = {}
  BY DEF Init
<1> QED
  BY <1>1, <1>2, <1>3 DEF Sequential, Fits, Writing

\* A step of the one worker, by what it does to the approval it is on.
LEMMA SequentialWorker ==
  ASSUME TypeOK, TypeOK', Sequential, OneWorker, NEW w \in Workers,
         NEW id \in DOMAIN approvals,
         jobs[w] # Idle => jobs[w].id = id,
         DOMAIN approvals' = DOMAIN approvals,
         \A k \in DOMAIN approvals : k # id => approvals'[k] = approvals[k],
         Unique(approvals'[id]),
         RecordedScopes(approvals[id].verdicts) \subseteq
           RecordedScopes(approvals'[id].verdicts),
         \/ cutShort' = cutShort
         \/ /\ cutShort' = cutShort \cup {id}
            /\ "session" \in RecordedScopes(approvals'[id].verdicts),
         Fits(jobs[w])',
         \/ Tallies(id, approvals'[id], cutShort')
         \/ Writing(jobs'[w]) /\ jobs'[w].id = id
  PROVE  Sequential'
<1>1. \A v \in Workers : v = w
  BY DEF OneWorker
<1>2. \A v \in Workers : Fits(jobs[v])'
  BY <1>1
<1>3. \A k \in DOMAIN approvals' : Unique(approvals'[k])
  BY DEF Sequential
<1>4. ASSUME NEW k \in DOMAIN approvals'
      PROVE  \/ Tallies(k, approvals'[k], cutShort')
             \/ \E v \in Workers : Writing(jobs'[v]) /\ jobs'[v].id = k
  <2>1. CASE k = id
    BY <1>4, <2>1
  <2>2. CASE k # id
    <3>1. \A v \in Workers : ~(Writing(jobs[v]) /\ jobs[v].id = k)
      BY <1>1, <2>2 DEF Writing
    <3>2. Tallies(k, approvals[k], cutShort)
      BY <1>4, <3>1 DEF Sequential
    <3>3. k \in cutShort' <=> k \in cutShort
      BY <2>2
    <3> QED
      BY <1>4, <2>2, <3>2, <3>3 DEF Tallies
  <2> QED
    BY <2>1, <2>2
<1>5. ASSUME NEW k \in cutShort'
      PROVE  "session" \in RecordedScopes(approvals'[k].verdicts)
  <2>1. k \in cutShort => k \in DOMAIN approvals
    BY DEF TypeOK
  <2> QED
    BY <1>5, <2>1 DEF Sequential
<1> QED
  BY <1>2, <1>3, <1>4, <1>5 DEF Sequential, Writing, Unique, Tallies

\* A step that leaves approvals and handlers alone.
LEMMA SequentialQuiet ==
  ASSUME Sequential, UNCHANGED <<approvals, jobs, cutShort>>
  PROVE  Sequential'
  BY DEF Sequential, Fits, Writing, Unique, Tallies, InWork

\* What the record of an approval may become in one step of a handler.
Expires(old, new) ==
  IsExpired(old, clock) /\ new = [old EXCEPT !.status = "expired"]

IsResolved(id, old, new) ==
  \E decision \in {"allowed", "denied"} :
    /\ old.status = "pending"
    /\ RecordedScopes(old.verdicts) = {} \/ id \in cutShort
    /\ new = [old EXCEPT !.status = decision]

IsAnswered(old, new) ==
  \E verdict \in ScopedVerdict :
    /\ old.status \in OpenStatuses
    /\ verdict.scope \notin RecordedScopes(old.verdicts)
    /\ new = [old EXCEPT !.verdicts = Append(old.verdicts, verdict)]

IsTallied(old, new) ==
  \E status \in {"resolved", "partially_resolved"} :
    /\ old.status \in OpenStatuses
    /\ new = [old EXCEPT !.status = status]

Changes(id, old, new) ==
  \/ new = old
  \/ Expires(old, new)
  \/ IsResolved(id, old, new)
  \/ IsAnswered(old, new)
  \/ IsTallied(old, new)

ApprovalsChange ==
  \A id \in DOMAIN approvals :
    id \in DOMAIN approvals' /\ Changes(id, approvals[id], approvals'[id])

\* Between handlers, and in one that is not writing, the status tallies.
LEMMA TalliesNow ==
  ASSUME Sequential, OneWorker, NEW w \in Workers,
         ~Writing(jobs[w]), NEW id \in DOMAIN approvals
  PROVE  Tallies(id, approvals[id], cutShort)
  BY DEF Sequential, OneWorker

\* The sweep of the lists.
LEMMA SequentialSweep ==
  ASSUME TypeOK, TypeOK', Sequential, OneWorker, NEW w \in Workers, CheckExpired(w)
  PROVE  Sequential' /\ ApprovalsChange
<1>1. /\ \A v \in Workers : v = w
      /\ jobs[w] = Idle
      /\ UNCHANGED <<jobs, cutShort>>
      /\ DOMAIN approvals' = DOMAIN approvals
  BY DEF OneWorker, CheckExpired, historyVars
<1>2. jobs[w].pc = "idle" /\ ~Writing(jobs[w])
  BY <1>1 DEF Writing
<1>3. ASSUME NEW id \in DOMAIN approvals
      PROVE  /\ Changes(id, approvals[id], approvals'[id])
             /\ Unique(approvals'[id])
             /\ approvals'[id].verdicts = approvals[id].verdicts
             /\ Tallies(id, approvals[id], cutShort) =>
                  Tallies(id, approvals'[id], cutShort)
  <2> DEFINE old == approvals[id]
             new == [approvals[id] EXCEPT !.status = "expired"]
  <2>1. old \in ActionApproval
    BY DEF TypeOK
  <2>2. CASE approvals'[id] = old
    BY <2>2 DEF Changes, Sequential
  <2>3. CASE approvals'[id] = new /\ IsExpired(old, clock)
    <3>1. /\ new.status = "expired"
          /\ new.verdicts = old.verdicts
      BY <2>1
    <3>2. Unique(new)
      BY <3>1 DEF Sequential, Unique
    <3>3. Tallies(id, new, cutShort)
      BY <3>1 DEF Tallies
    <3>4. Changes(id, old, new)
      BY <2>3 DEF Changes, Expires
    <3> HIDE DEF old, new
    <3> QED
      BY <2>3, <3>1, <3>2, <3>3, <3>4 DEF old
  <2> QED
    BY <2>2, <2>3 DEF CheckExpired, Sweepable
<1>4. \A v \in Workers : Fits(jobs[v])'
  BY <1>1, <1>2 DEF Fits, Writing
<1>5. \A id \in DOMAIN approvals : Tallies(id, approvals[id], cutShort)
  BY <1>2, TalliesNow
<1>6. ApprovalsChange
  BY <1>1, <1>3 DEF ApprovalsChange
<1> QED
  <2>1. \A id \in DOMAIN approvals' : Tallies(id, approvals'[id], cutShort')
    BY <1>1, <1>3, <1>5
  <2>2. \A id \in cutShort' : "session" \in RecordedScopes(approvals'[id].verdicts)
    BY <1>1, <1>3 DEF Sequential, TypeOK
  <2> QED
    BY <1>1, <1>3, <1>4, <1>6, <2>1, <2>2 DEF Sequential, Unique, Tallies

\* A request to resolve or to respond is taken up.
LEMMA SequentialTaken ==
  ASSUME TypeOK, TypeOK', Sequential, OneWorker, NEW w \in Workers,
         NEW id \in ApprovalIds,
         \/ \E decision \in {"allowed", "denied"} : ResolveCheck(w, id, decision)
         \/ \E body \in VerdictLists : RespondBegin(w, id, body)
  PROVE  Sequential' /\ ApprovalsChange
<1>1. /\ jobs[w] = Idle
      /\ id \in DOMAIN approvals
      /\ UNCHANGED <<cutShort, approvals>>
      /\ jobs'[w].id = id
      /\ \/ jobs'[w].pc = "resolve" /\ approvals[id].status = "pending"
         \/ jobs'[w].pc = "respond"
  BY DEF ResolveCheck, RespondBegin, TypeOK
<1>2. ~Writing(jobs[w]) /\ Unique(approvals[id])
  BY <1>1 DEF Writing, Sequential
<1>3. Tallies(id, approvals[id], cutShort)
  BY <1>1, <1>2, TalliesNow
<1>4. Fits(jobs[w])'
  BY <1>1 DEF Fits, Writing
<1>5. ApprovalsChange
  BY <1>1 DEF ApprovalsChange, Changes
<1> QED
  BY <1>1, <1>2, <1>3, <1>4, <1>5, SequentialWorker

\* A worker goes on with a resolve.
LEMMA SequentialResolve ==
  ASSUME TypeOK, TypeOK', Sequential, OneWorker, NEW w \in Workers,
         ResolveSet(w) \/ ResolveNotify(w)
  PROVE  Sequential' /\ ApprovalsChange
<1> DEFINE job == jobs[w]
           id == jobs[w].id
           old == approvals[id]
<1>1. /\ job \in ResolveJobs
      /\ id \in DOMAIN approvals
      /\ old \in ActionApproval
      /\ Unique(old)
      /\ UNCHANGED cutShort
  BY JobKinds DEF TypeOK, ResolveSet, ResolveNotify, Sequential, historyVars
<1>2. ~Writing(job)
  BY <1>1 DEF Writing
<1>3. Tallies(id, old, cutShort)
  BY <1>1, <1>2, TalliesNow
<1>4. CASE ResolveSet(w)
  <2> DEFINE new == [old EXCEPT !.status = job.decision]
  <2>1. /\ DOMAIN approvals' = DOMAIN approvals
        /\ \A k \in DOMAIN approvals : k # id => approvals'[k] = approvals[k]
        /\ approvals'[id] = new
    BY <1>1, <1>4 DEF ResolveSet, SetStatus, TypeOK
  <2>2. jobs'[w].pc = "resolve_notify" /\ jobs'[w].id = id
    BY <1>1, <1>4 DEF ResolveSet, TypeOK
  <2>3. /\ new.status \in {"allowed", "denied"}
        /\ new.verdicts = old.verdicts
    BY <1>1
  <2>4. old.status = "pending"
    BY <1>4 DEF ResolveSet, Sequential, Fits
  <2>5. RecordedScopes(old.verdicts) = {} \/ id \in cutShort
    BY <1>3, <2>4 DEF Tallies
  <2>6. IsResolved(id, old, new)
    BY <1>1, <2>4, <2>5 DEF IsResolved
  <2> HIDE DEF new
  <2>7. Unique(new) /\ Tallies(id, new, cutShort)
    BY <1>1, <2>3, <2>5 DEF Unique, Tallies
  <2>8. Fits(jobs[w])'
    BY <2>2 DEF Fits, Writing
  <2>9. Sequential'
    BY <1>1, <2>1, <2>2, <2>3, <2>7, <2>8, SequentialWorker
  <2>10. ApprovalsChange
    BY <2>1, <2>6 DEF ApprovalsChange, Changes
  <2> QED
    BY <2>9, <2>10
<1>5. CASE ResolveNotify(w)
  <2>1. jobs'[w] = Idle /\ UNCHANGED approvals
    BY <1>5 DEF ResolveNotify, TypeOK
  <2>2. Fits(jobs[w])'
    BY <2>1 DEF Fits, Writing
  <2>3. ApprovalsChange
    BY <2>1 DEF ApprovalsChange, Changes
  <2>4. Sequential'
    BY <1>1, <1>3, <2>1, <2>2, SequentialWorker
  <2> QED
    BY <2>3, <2>4
<1> QED
  BY <1>4, <1>5

\* The first part of respond(): the checks, and verdicts that are skipped.
LEMMA SequentialRespond ==
  ASSUME TypeOK, TypeOK', Sequential, OneWorker, NEW w \in Workers,
         RespondCheck(w) \/ SkipVerdict(w) \/ TallyVerdicts(w) \/ RespondNotify(w)
  PROVE  Sequential' /\ ApprovalsChange
<1> DEFINE job == jobs[w]
           id == jobs[w].id
           old == approvals[id]
           recorded == RecordedScopes(old.verdicts)
<1>1. /\ job \in RespondJobs
      /\ id \in DOMAIN approvals
      /\ old \in ActionApproval
      /\ Unique(old)
      /\ Fits(job)
      /\ UNCHANGED cutShort
  BY JobKinds DEF TypeOK, RespondCheck, SkipVerdict, TallyVerdicts, RespondNotify,
                  Sequential, historyVars
<1>2. Tallies(id, old, cutShort) \/ Writing(job)
  BY <1>1, TalliesNow
<1>3. CASE /\ SetStatus(id, "expired")
           /\ IsExpired(old, clock)
           /\ jobs' = [jobs EXCEPT ![w].pc = "respond_notify"]
  <2> DEFINE new == [old EXCEPT !.status = "expired"]
  <2>1. /\ DOMAIN approvals' = DOMAIN approvals
        /\ \A k \in DOMAIN approvals : k # id => approvals'[k] = approvals[k]
        /\ approvals'[id] = new
    BY <1>1, <1>3 DEF SetStatus, TypeOK
  <2>2. jobs'[w].pc = "respond_notify" /\ jobs'[w].id = id
    BY <1>1, <1>3 DEF TypeOK
  <2>3. /\ new.status = "expired"
        /\ new.verdicts = old.verdicts
    BY <1>1
  <2>4. Expires(old, new)
    BY <1>3 DEF Expires
  <2> HIDE DEF new
  <2>5. Unique(new) /\ Tallies(id, new, cutShort)
    BY <1>1, <2>3 DEF Unique, Tallies
  <2>6. Fits(jobs[w])'
    BY <2>2 DEF Fits, Writing
  <2>7. Sequential'
    BY <1>1, <2>1, <2>2, <2>3, <2>5, <2>6, SequentialWorker
  <2>8. ApprovalsChange
    BY <2>1, <2>4 DEF ApprovalsChange, Changes
  <2> QED
    BY <2>7, <2>8
<1>4. CASE /\ UNCHANGED approvals
           /\ \/ jobs' = [jobs EXCEPT ![w] = Idle] /\ ~Writing(job)
              \/ /\ job.pc = "respond"
                 /\ old.status \in OpenStatuses
                 /\ jobs' = [jobs EXCEPT ![w].pc = "verdicts", ![w].scopes = recorded]
              \/ job.pc = "verdicts" /\ jobs' = [jobs EXCEPT ![w].todo = Tail(@)]
              \/ /\ job.pc = "verdicts"
                 /\ jobs' = [jobs EXCEPT ![w].scopes = recorded, ![w].pc = "status"]
  <2>1. ApprovalsChange
    BY <1>4 DEF ApprovalsChange, Changes
  <2>2. CASE jobs' = [jobs EXCEPT ![w] = Idle] /\ ~Writing(job)
    <3>1. jobs'[w].pc = "idle"
      BY <2>2 DEF TypeOK
    <3>2. Fits(jobs[w])'
      BY <3>1 DEF Fits, Writing
    <3> QED
      BY <1>1, <1>2, <1>4, <2>1, <2>2, <3>2, SequentialWorker
  <2>3. CASE job.pc = "respond" /\ old.status \in OpenStatuses
             /\ jobs' = [jobs EXCEPT ![w].pc = "verdicts", ![w].scopes = recorded]
    <3>1. /\ jobs'[w].pc = "verdicts"
          /\ jobs'[w].id = id
          /\ jobs'[w].scopes = recorded
      BY <1>1, <2>3 DEF TypeOK
    <3>2. Tallies(id, old, cutShort)
      BY <1>2, <2>3 DEF Writing
    <3>3. InWork(old, recorded)
      BY <2>3, <3>2 DEF InWork, Tallies
    <3>4. Fits(jobs[w])'
      BY <1>4, <3>1, <3>3 DEF Fits, InWork
    <3>5. Writing(jobs'[w])
      BY <3>1 DEF Writing
    <3> QED
      BY <1>1, <1>4, <2>1, <3>1, <3>4, <3>5, SequentialWorker
  <2>4. CASE /\ job.pc = "verdicts"
             /\ \/ jobs' = [jobs EXCEPT ![w].todo = Tail(@)]
                \/ jobs' = [jobs EXCEPT ![w].scopes = recorded, ![w].pc = "status"]
    <3>1. InWork(old, job.scopes) /\ job.scopes = recorded
      BY <1>1, <2>4 DEF Fits, Writing, InWork
    <3>2. /\ jobs'[w].pc \in {"verdicts", "status"}
          /\ jobs'[w].id = id
          /\ jobs'[w].scopes = recorded
      BY <1>1, <2>4, <3>1 DEF TypeOK
    <3>3. Fits(jobs[w])'
      BY <1>4, <3>1, <3>2 DEF Fits, InWork
    <3>4. Writing(jobs'[w])
      BY <3>2 DEF Writing
    <3> QED
      BY <1>1, <1>4, <2>1, <3>2, <3>3, <3>4, SequentialWorker
  <2> QED
    BY <1>4, <2>2, <2>3, <2>4
<1>5. CASE RespondCheck(w)
  <2>1. job.pc = "respond" /\ ~Writing(job)
    BY <1>5 DEF RespondCheck, Writing
  <2> QED
    BY <1>3, <1>4, <1>5, <2>1 DEF RespondCheck, OpenStatuses
<1>6. CASE SkipVerdict(w)
  BY <1>4, <1>6 DEF SkipVerdict
<1>7. CASE TallyVerdicts(w)
  BY <1>4, <1>7 DEF TallyVerdicts
<1>8. CASE RespondNotify(w)
  <2>1. ~Writing(job)
    BY <1>8 DEF RespondNotify, Writing
  <2> QED
    BY <1>4, <1>8, <2>1 DEF RespondNotify
<1> QED
  BY <1>5, <1>6, <1>7, <1>8

\* respond() records a verdict.
LEMMA SequentialRecord ==
  ASSUME TypeOK, TypeOK', Sequential, OneWorker, NEW w \in Workers, RecordVerdict(w)
  PROVE  Sequential' /\ ApprovalsChange
<1> DEFINE job == jobs[w]
           id == jobs[w].id
           old == approvals[id]
           verdict == Head(job.todo)
           new == [old EXCEPT !.verdicts = Append(old.verdicts, verdict)]
<1>1. /\ job \in RespondJobs
      /\ id \in DOMAIN approvals
      /\ old \in ActionApproval
      /\ Unique(old)
      /\ InWork(old, job.scopes)
  BY JobKinds DEF TypeOK, RecordVerdict, Sequential, Fits, Writing
<1>2. verdict \in ScopedVerdict
  <2>1. job.todo \in Seq(ScopedVerdict) /\ job.todo # <<>>
    BY <1>1 DEF RecordVerdict
  <2> QED
    BY <2>1, HeadTailProperties
<1>3. job.pc = "verdicts" /\ verdict.scope \notin RecordedScopes(old.verdicts)
  BY <1>1 DEF RecordVerdict, InWork
<1>4. approvals' = [approvals EXCEPT ![id].verdicts = Append(@, verdict)]
  BY DEF RecordVerdict
<1>5. /\ DOMAIN approvals' = DOMAIN approvals
      /\ \A k \in DOMAIN approvals : k # id => approvals'[k] = approvals[k]
      /\ approvals'[id] = new
  BY <1>1, <1>4 DEF TypeOK
<1>6. /\ new.verdicts = Append(old.verdicts, verdict)
      /\ new.status = old.status
  BY <1>1
<1>7. \/ /\ jobs'[w].pc = "verdicts"
         /\ jobs'[w].id = id
         /\ jobs'[w].scopes = job.scopes \cup {verdict.scope}
         /\ cutShort' = cutShort
      \/ /\ jobs'[w] = Idle
         /\ verdict = SessionAllow
         /\ cutShort' = cutShort \cup {id}
  <2>1. \/ /\ jobs' = [jobs EXCEPT ![w].todo = Tail(@),
                                   ![w].scopes = @ \cup {verdict.scope}]
           /\ cutShort' = cutShort
        \/ /\ jobs' = [jobs EXCEPT ![w] = Idle]
           /\ verdict = SessionAllow
           /\ cutShort' = cutShort \cup {id}
    BY DEF RecordVerdict
  <2> QED
    BY <1>1, <1>3, <2>1 DEF TypeOK
<1>8. IsAnswered(old, new)
  BY <1>1, <1>2, <1>3 DEF IsAnswered, InWork
<1> HIDE DEF new, verdict
<1>9. Unique(new)
  BY <1>1, <1>2, <1>3, <1>6, AppendUnique
<1>10. RecordedScopes(new.verdicts) = RecordedScopes(old.verdicts) \cup {verdict.scope}
  <2>1. old.verdicts \in Seq(ScopedVerdict)
    BY <1>1
  <2> QED
    BY <1>2, <1>6, <2>1, AppendScopes
<1>11. ApprovalsChange
  BY <1>5, <1>8 DEF ApprovalsChange, Changes
<1>12. CASE /\ jobs'[w].pc = "verdicts"
            /\ jobs'[w].id = id
            /\ jobs'[w].scopes = job.scopes \cup {verdict.scope}
            /\ cutShort' = cutShort
  <2>1. InWork(new, jobs'[w].scopes)
    BY <1>1, <1>6, <1>10, <1>12 DEF InWork
  <2>2. Fits(jobs[w])'
    BY <1>5, <1>12, <2>1 DEF Fits, InWork
  <2>3. Writing(jobs'[w])
    BY <1>12 DEF Writing
  <2> QED
    BY <1>1, <1>5, <1>9, <1>10, <1>11, <1>12, <2>2, <2>3, SequentialWorker
<1>13. CASE /\ jobs'[w] = Idle
            /\ verdict = SessionAllow
            /\ cutShort' = cutShort \cup {id}
  <2>1. "session" \in RecordedScopes(new.verdicts)
    BY <1>10, <1>13 DEF SessionAllow
  <2>2. Fits(jobs[w])'
    BY <1>13 DEF Fits, Writing
  <2> QED
    <3>1. new.status \in OpenStatuses
      BY <1>1, <1>6 DEF InWork
    <3>2. Tallies(id, new, cutShort')
      BY <1>13, <2>1, <3>1 DEF Tallies, OpenStatuses
    <3> QED
      BY <1>1, <1>5, <1>9, <1>10, <1>11, <1>13, <2>1, <2>2, <3>2, SequentialWorker
<1> QED
  BY <1>7, <1>12, <1>13

\* respond() writes the status.
LEMMA SequentialStatus ==
  ASSUME TypeOK, TypeOK', Sequential, OneWorker, NEW w \in Workers, RespondStatus(w)
  PROVE  Sequential' /\ ApprovalsChange
<1> DEFINE job == jobs[w]
           id == jobs[w].id
           old == approvals[id]
<1>1. /\ job \in RespondJobs
      /\ id \in DOMAIN approvals
      /\ old \in ActionApproval
      /\ Unique(old)
      /\ InWork(old, job.scopes)
      /\ UNCHANGED cutShort
  BY JobKinds DEF TypeOK, RespondStatus, Sequential, Fits, Writing, historyVars
<1>2. jobs'[w].pc = "respond_notify" /\ jobs'[w].id = id
  BY <1>1 DEF RespondStatus, TypeOK
<1>3. Fits(jobs[w])'
  BY <1>2 DEF Fits, Writing
<1>4. CASE job.scopes = {} /\ UNCHANGED approvals
  <2>1. Tallies(id, old, cutShort)
    BY <1>1, <1>4 DEF InWork, Tallies, OpenStatuses
  <2>2. ApprovalsChange
    BY <1>4 DEF ApprovalsChange, Changes
  <2> QED
    BY <1>1, <1>2, <1>3, <1>4, <2>1, <2>2, SequentialWorker
<1>5. ASSUME NEW status \in {"resolved", "partially_resolved"},
             SetStatus(id, status),
             IF status = "resolved" THEN job.scopes = Scopes
                                    ELSE job.scopes \notin {{}, Scopes}
      PROVE  Sequential' /\ ApprovalsChange
  <2> DEFINE new == [old EXCEPT !.status = status]
  <2>1. /\ DOMAIN approvals' = DOMAIN approvals
        /\ \A k \in DOMAIN approvals : k # id => approvals'[k] = approvals[k]
        /\ approvals'[id] = new
    BY <1>1, <1>5 DEF SetStatus, TypeOK
  <2>2. /\ new.status = status
        /\ new.verdicts = old.verdicts
    BY <1>1
  <2>3. IsTallied(old, new)
    BY <1>1 DEF IsTallied, InWork
  <2> HIDE DEF new
  <2>4. Unique(new)
    BY <1>1, <2>2 DEF Unique
  <2>5. Tallies(id, new, cutShort)
    BY <1>1, <1>5, <2>2 DEF Tallies, InWork
  <2>6. ApprovalsChange
    BY <2>1, <2>3 DEF ApprovalsChange, Changes
  <2> QED
    BY <1>1, <1>2, <1>3, <2>1, <2>2, <2>4, <2>5, <2>6, SequentialWorker
<1> QED
  BY <1>4, <1>5 DEF RespondStatus

\* An asked call: a new approval has nothing on record.
LEMMA SequentialRequest ==
  ASSUME TypeOK, TypeOK', Sequential, NEW s \in Sessions, NEW c \in Calls,
         NEW id \in ApprovalIds, RequestApproval(s, c, id)
  PROVE  Sequential' /\ ApprovalsChange
<1> DEFINE new == [ session |-> s, call |-> c, status |-> "pending",
                    expiresAt |-> IF Ttl > 0 THEN clock + Ttl ELSE NoExpiry,
                    verdicts |-> <<>> ]
<1>1. /\ approvals' = Put(approvals, id, new)
      /\ id \notin DOMAIN approvals
      /\ UNCHANGED <<jobs, cutShort>>
  BY DEF RequestApproval, historyVars
<1>2. /\ DOMAIN approvals' = DOMAIN approvals \cup {id}
      /\ approvals'[id] = new
      /\ \A k \in DOMAIN approvals : approvals'[k] = approvals[k]
  <2> HIDE DEF new
  <2> QED
    BY <1>1 DEF Put
<1>3. new.status = "pending" /\ new.verdicts = <<>>
  OBVIOUS
<1> HIDE DEF new
<1>4. RecordedScopes(new.verdicts) = {}
  BY <1>3 DEF RecordedScopes
<1>5. Unique(new) /\ Tallies(id, new, cutShort)
  BY <1>3, <1>4 DEF Unique, Tallies
<1>6. ASSUME NEW w \in Workers
      PROVE  Fits(jobs[w])'
  <2>1. CASE jobs[w] = Idle
    <3>1. jobs'[w].pc = "idle"
      BY <1>1, <2>1
    <3> QED
      BY <3>1 DEF Fits, Writing
  <2>2. CASE jobs[w] # Idle
    <3>1. jobs'[w] = jobs[w] /\ approvals'[jobs[w].id] = approvals[jobs[w].id]
      BY <1>1, <1>2, <2>2 DEF TypeOK
    <3> QED
      BY <3>1 DEF Sequential, Fits, Writing, InWork
  <2> QED
    BY <2>1, <2>2
<1>7. \A k \in DOMAIN approvals' : Unique(approvals'[k])
  BY <1>2, <1>5 DEF Sequential
<1>8. ASSUME NEW k \in DOMAIN approvals'
      PROVE  \/ Tallies(k, approvals'[k], cutShort')
             \/ \E w \in Workers : Writing(jobs'[w]) /\ jobs'[w].id = k
  <2>1. CASE k = id
    BY <1>1, <1>2, <1>5, <2>1
  <2>2. CASE k # id
    BY <1>1, <1>2, <1>8, <2>2 DEF Sequential
  <2> QED
    BY <2>1, <2>2
<1>9. ApprovalsChange
  BY <1>2 DEF ApprovalsChange, Changes
<1>10. \A k \in cutShort' : "session" \in RecordedScopes(approvals'[k].verdicts)
  BY <1>1, <1>2 DEF Sequential, TypeOK
<1> QED
  BY <1>6, <1>7, <1>8, <1>9, <1>10 DEF Sequential, Unique, Tallies

\* Every step keeps the invariant and changes records only as listed.
LEMMA SequentialNext ==
  ASSUME TypeOK, TypeOK', Sequential, OneWorker, [Next]_vars
  PROVE  Sequential' /\ ApprovalsChange
<1>1. CASE UNCHANGED <<approvals, jobs, cutShort>>
  BY <1>1, SequentialQuiet DEF ApprovalsChange, Changes
<1>2. CASE SessionStep \/ ParticipantStep \/ Tick \/ UNCHANGED vars
  BY <1>1, <1>2
     DEF SessionStep, CreateSession, OpenStream, CloseStream, Deliver,
         ParticipantStep, RegisterParticipant, UnregisterParticipant, Tick,
         vars, historyVars
<1>3. CASE CallStep
  BY <1>1, <1>3, SequentialRequest DEF CallStep, RunAskedCall
<1>4. ASSUME NEW w \in Workers, Submit(w)
      PROVE  Sequential' /\ ApprovalsChange
  BY <1>4, SequentialSweep, SequentialTaken DEF Submit
<1>5. ASSUME NEW w \in Workers, Continue(w)
      PROVE  Sequential' /\ ApprovalsChange
  BY <1>5, SequentialResolve, SequentialRespond, SequentialRecord, SequentialStatus
     DEF Continue
<1> QED
  BY <1>2, <1>3, <1>4, <1>5 DEF Next

LEMMA SequentialHolds ==
  ASSUME OneWorker
  PROVE  Spec => [](TypeOK /\ Sequential)
<1>1. Init => TypeOK /\ Sequential
  BY TypeInit, SequentialInit
<1>2. TypeOK /\ Sequential /\ [Next]_vars => (TypeOK /\ Sequential)'
  BY TypeNext, SequentialNext
<1> QED
  BY <1>1, <1>2, PTL DEF Spec

-----------------------------------------------------------------------------
(***************************************************************************)
(* The theorems.                                                           *)
(***************************************************************************)

\* If no two handlers overlap, a scope is on record at most once, so respond()
\* had the side effect of a scope at most once.
THEOREM OneVerdictEach ==
  ASSUME OneWorker
  PROVE  Spec => []OneVerdictPerScope
<1>1. Sequential => OneVerdictPerScope
  BY DEF Sequential, Unique, OneVerdictPerScope
<1> QED
  BY <1>1, SequentialHolds, PTL

\* If no two handlers overlap, an approval that was allowed, denied or fully
\* answered can only expire: resolve() and respond() write to open ones.
THEOREM TerminalStatusesAreFinal ==
  ASSUME OneWorker
  PROVE  Spec => TerminalIsFinal
<1>1. ASSUME TypeOK, TypeOK', Sequential, [Next]_vars, NEW id \in DOMAIN approvals,
             approvals[id].status \in {"allowed", "denied", "expired", "resolved"}
      PROVE  approvals'[id].status \in {approvals[id].status, "expired"}
  <2> DEFINE old == approvals[id]
  <2>1. old \in ActionApproval
    BY <1>1 DEF TypeOK
  <2>2. Changes(id, old, approvals'[id])
    BY <1>1, SequentialNext DEF ApprovalsChange
  <2>3. old.status \notin OpenStatuses /\ old.status # "pending"
    BY <1>1 DEF OpenStatuses
  <2>4. \/ approvals'[id] = old
        \/ approvals'[id] = [old EXCEPT !.status = "expired"]
    BY <2>2, <2>3 DEF Changes, Expires, IsResolved, IsAnswered, IsTallied
  <2> QED
    BY <2>1, <2>4
<1>2. TypeOK /\ TypeOK' /\ Sequential /\ [Next]_vars =>
        \A id \in DOMAIN approvals :
          approvals[id].status \in {"allowed", "denied", "expired", "resolved"} =>
            approvals'[id].status \in {approvals[id].status, "expired"}
  BY <1>1
<1> QED
  BY <1>2, SequentialHolds, PTL DEF Spec, TerminalIsFinal

\* ... and a denied approval permits its call only if a response to it was cut
\* short by the KeyError of a session that nobody registered.
THEOREM DeniedPermitsIfCutShort ==
  ASSUME OneWorker
  PROVE  Spec => []OnlyCutShortDenialsPermit
<1>1. Sequential => OnlyCutShortDenialsPermit
  <2> SUFFICES ASSUME Sequential, NEW id \in DOMAIN approvals,
                      approvals[id].status = "denied",
                      ExplicitlyAllowed(approvals[id]),
                      id \notin cutShort
               PROVE  FALSE
    BY DEF OnlyCutShortDenialsPermit
  <2>1. Tallies(id, approvals[id], cutShort)
    <3> SUFFICES ASSUME NEW w \in Workers, Writing(jobs[w]), jobs[w].id = id
                 PROVE  FALSE
      BY DEF Sequential
    <3> QED
      BY DEF Sequential, Fits, InWork, OpenStatuses
  <2>2. RecordedScopes(approvals[id].verdicts) = {}
    BY <2>1 DEF Tallies
  <2>3. HasVerdict(approvals[id], "one_off", "allow")
    BY DEF ExplicitlyAllowed
  <2> QED
    BY <2>2, <2>3, NoScopeNoVerdict
<1> QED
  BY <1>1, SequentialHolds, PTL

\* ... and, while no handler is at work on it, its status says which scopes are
\* on record, or a response to it was cut short and a session verdict is.
THEOREM StatusesTally ==
  ASSUME OneWorker
  PROVE  Spec => []StatusTalliesVerdicts
<1>1. TypeOK /\ Sequential => StatusTalliesVerdicts
  <2> SUFFICES ASSUME TypeOK, Sequential, NEW id \in DOMAIN approvals, ~Busy(id)
               PROVE  /\ Tallies(id, approvals[id], cutShort)
                      /\ id \in cutShort =>
                           "session" \in RecordedScopes(approvals[id].verdicts)
    BY DEF StatusTalliesVerdicts, Tallies
  <2>1. \A w \in Workers : ~(Writing(jobs[w]) /\ jobs[w].id = id)
    BY DEF Busy, Writing
  <2> QED
    BY <2>1 DEF Sequential
<1> QED
  BY <1>1, SequentialHolds, PTL

-----------------------------------------------------------------------------
(***************************************************************************)
(* The workflow implements ActAuthorization.  Each change of a record      *)
(* leaves what is decided as it was, decides what was open, or overrules a *)
(* deny whose response was cut short.                                      *)
(***************************************************************************)

\* Decision, of a record and a time.
DecisionOf(approval, now) ==
  IF IsExpired(approval, now) THEN "lapsed"
  ELSE IF ExplicitlyAllowed(approval) THEN "allow"
  ELSE IF \/ approval.status = "denied"
          \/ HasVerdict(approval, "one_off", "deny") THEN "deny"
  ELSE "open"

LEMMA DecisionReads ==
  /\ \A id : Decision(id) = DecisionOf(approvals[id], clock)
  /\ \A id : Decision(id)' = DecisionOf(approvals'[id], clock')
  BY DEF Decision, DecisionOf

\* What is decided depends on the expiry, on two statuses and on the one_off
\* verdicts.
LEMMA SameDecision ==
  ASSUME NEW old, NEW new, NEW now,
         new.expiresAt = old.expiresAt,
         \A status \in {"allowed", "denied"} : new.status = status <=> old.status = status,
         \A v \in Verdicts : HasVerdict(new, "one_off", v) <=> HasVerdict(old, "one_off", v)
  PROVE  DecisionOf(new, now) = DecisionOf(old, now)
<1>1. IsExpired(new, now) = IsExpired(old, now)
  BY DEF IsExpired
<1>2. ExplicitlyAllowed(new) <=> ExplicitlyAllowed(old)
  BY DEF ExplicitlyAllowed
<1> QED
  BY <1>1, <1>2 DEF DecisionOf

\* A change of a record keeps its decision, makes one, or overrules a deny.
LEMMA ChangesDecide ==
  ASSUME NEW id, NEW old \in ActionApproval, NEW new, Changes(id, old, new)
  PROVE  /\ new.session = old.session /\ new.call = old.call
         /\ \/ DecisionOf(new, clock) = DecisionOf(old, clock)
            \/ /\ DecisionOf(old, clock) = "open"
               /\ DecisionOf(new, clock) \in {"allow", "deny"}
            \/ /\ id \in cutShort
               /\ DecisionOf(old, clock) = "deny"
               /\ DecisionOf(new, clock) = "allow"
<1>1. CASE new = old
  BY <1>1
<1>2. CASE Expires(old, new)
  <2>1. /\ new.expiresAt = old.expiresAt
        /\ new.session = old.session
        /\ new.call = old.call
    BY <1>2 DEF Expires
  <2> QED
    BY <1>2, <2>1 DEF Expires, DecisionOf, IsExpired
<1>3. CASE IsResolved(id, old, new)
  <2>1. PICK decision \in {"allowed", "denied"} :
          /\ old.status = "pending"
          /\ RecordedScopes(old.verdicts) = {} \/ id \in cutShort
          /\ new = [old EXCEPT !.status = decision]
    BY <1>3 DEF IsResolved
  <2>2. /\ new.expiresAt = old.expiresAt
        /\ new.session = old.session
        /\ new.call = old.call
        /\ new.verdicts = old.verdicts
        /\ new.status = decision
    BY <2>1
  <2>3. /\ IsExpired(new, clock) = IsExpired(old, clock)
        /\ \A v : HasVerdict(new, "one_off", v) <=> HasVerdict(old, "one_off", v)
    BY <2>2 DEF IsExpired, HasVerdict
  <2>4. RecordedScopes(old.verdicts) = {} => \A v : ~HasVerdict(old, "one_off", v)
    BY NoScopeNoVerdict
  <2>5. CASE IsExpired(old, clock)
    BY <2>2, <2>3, <2>5 DEF DecisionOf
  <2>6. CASE ~IsExpired(old, clock)
    <3>1. DecisionOf(old, clock) = IF HasVerdict(old, "one_off", "allow") THEN "allow"
                                   ELSE IF HasVerdict(old, "one_off", "deny") THEN "deny"
                                   ELSE "open"
      BY <2>1, <2>6 DEF DecisionOf, ExplicitlyAllowed
    <3>2. DecisionOf(new, clock) =
            IF decision = "allowed" \/ HasVerdict(old, "one_off", "allow")
            THEN "allow" ELSE "deny"
      BY <2>2, <2>3, <2>6 DEF DecisionOf, ExplicitlyAllowed
    <3> QED
      BY <2>1, <2>2, <2>4, <3>1, <3>2
  <2> QED
    BY <2>5, <2>6
<1>4. CASE IsAnswered(old, new)
  <2>1. PICK verdict \in ScopedVerdict :
          /\ old.status \in OpenStatuses
          /\ verdict.scope \notin RecordedScopes(old.verdicts)
          /\ new = [old EXCEPT !.verdicts = Append(old.verdicts, verdict)]
    BY <1>4 DEF IsAnswered
  <2>2. /\ new.expiresAt = old.expiresAt
        /\ new.session = old.session
        /\ new.call = old.call
        /\ new.status = old.status
        /\ new.verdicts = Append(old.verdicts, verdict)
    BY <2>1
  <2>3. \A v : HasVerdict(new, "one_off", v) <=>
          \/ HasVerdict(old, "one_off", v)
          \/ verdict = [scope |-> "one_off", verdict |-> v]
    BY <2>2, AppendHas
  <2>4. CASE verdict.scope # "one_off"
    <3>1. \A v : HasVerdict(new, "one_off", v) <=> HasVerdict(old, "one_off", v)
      BY <2>3, <2>4
    <3>2. DecisionOf(new, clock) = DecisionOf(old, clock)
      BY <2>2, <3>1, SameDecision
    <3> QED
      BY <2>2, <3>2
  <2>5. CASE verdict.scope = "one_off"
    <3>1. \A v : ~HasVerdict(old, "one_off", v)
      BY <2>1, <2>5, NoScopeNoVerdict
    <3>2. \/ HasVerdict(new, "one_off", "allow")
          \/ HasVerdict(new, "one_off", "deny")
      <4>1. \/ verdict = [scope |-> "one_off", verdict |-> "allow"]
            \/ verdict = [scope |-> "one_off", verdict |-> "deny"]
        BY <2>5
      <4> QED
        BY <2>3, <4>1
    <3>3. IsExpired(new, clock) = IsExpired(old, clock)
      BY <2>2 DEF IsExpired
    <3>4. CASE IsExpired(old, clock)
      BY <2>2, <3>3, <3>4 DEF DecisionOf
    <3>5. CASE ~IsExpired(old, clock)
      <4>1. DecisionOf(old, clock) = "open"
        BY <2>1, <3>1, <3>5 DEF DecisionOf, ExplicitlyAllowed, OpenStatuses
      <4>2. DecisionOf(new, clock) \in {"allow", "deny"}
        BY <3>2, <3>3, <3>5 DEF DecisionOf, ExplicitlyAllowed
      <4> QED
        BY <2>2, <4>1, <4>2
    <3> QED
      BY <3>4, <3>5
  <2> QED
    BY <2>4, <2>5
<1>5. CASE IsTallied(old, new)
  <2>1. PICK status \in {"resolved", "partially_resolved"} :
          /\ old.status \in OpenStatuses
          /\ new = [old EXCEPT !.status = status]
    BY <1>5 DEF IsTallied
  <2>2. /\ new.expiresAt = old.expiresAt
        /\ new.session = old.session
        /\ new.call = old.call
        /\ new.status = status
        /\ new.verdicts = old.verdicts
    BY <2>1
  <2>3. \A v : HasVerdict(new, "one_off", v) <=> HasVerdict(old, "one_off", v)
    BY <2>2 DEF HasVerdict
  <2>4. DecisionOf(new, clock) = DecisionOf(old, clock)
    BY <2>1, <2>2, <2>3, SameDecision DEF OpenStatuses
  <2> QED
    BY <2>2, <2>4
<1> QED
  BY <1>1, <1>2, <1>3, <1>4, <1>5 DEF Changes

\* A worker that goes on with a handler touches the approval it is on.
LEMMA OthersKept ==
  ASSUME TypeOK, NEW w \in Workers, Continue(w)
  PROVE  /\ DOMAIN approvals' = DOMAIN approvals
         /\ jobs[w].id \in DOMAIN approvals
         /\ \A k \in DOMAIN approvals : k # jobs[w].id => approvals'[k] = approvals[k]
         /\ UNCHANGED <<clock, ran>>
         /\ RecordVerdict(w) \/ UNCHANGED cutShort
<1>1. jobs[w].id \in DOMAIN approvals
  BY JobKinds DEF TypeOK, Continue, ResolveSet, ResolveNotify, RespondCheck,
     SkipVerdict, RecordVerdict, TallyVerdicts, RespondStatus, RespondNotify
<1>2. UNCHANGED <<clock, ran>> /\ (RecordVerdict(w) \/ UNCHANGED cutShort)
  BY DEF Continue, ResolveSet, ResolveNotify, RespondCheck, SkipVerdict,
     RecordVerdict, TallyVerdicts, RespondStatus, RespondNotify, historyVars
<1>3. \/ UNCHANGED approvals
      \/ \E new : approvals' = [approvals EXCEPT ![jobs[w].id] = new]
  <2>1. CASE RecordVerdict(w)
    <3>1. approvals' = [approvals EXCEPT ![jobs[w].id].verdicts =
                          Append(@, Head(jobs[w].todo))]
      BY <2>1 DEF RecordVerdict
    <3> QED
      BY <3>1
  <2>2. CASE ~RecordVerdict(w)
    BY <2>2 DEF Continue, ResolveSet, ResolveNotify, RespondCheck, SkipVerdict,
       TallyVerdicts, RespondStatus, RespondNotify, SetStatus
  <2> QED
    BY <2>1, <2>2
<1> QED
  BY <1>1, <1>2, <1>3 DEF TypeOK

About(dict) == [id \in DOMAIN dict |-> <<dict[id].session, dict[id].call>>]

Decisions(dict, now) == [id \in DOMAIN dict |-> DecisionOf(dict[id], now)]

\* The variables of ActAuthorization, before and after a step.
LEMMA PromiseReads ==
  /\ [id \in DOMAIN approvals |-> <<approvals[id].session, approvals[id].call>>]
       = About(approvals)
  /\ [id \in DOMAIN approvals |-> Decision(id)] = Decisions(approvals, clock)
  BY DecisionReads DEF About, Decisions

\* Nothing is decided and nothing runs.
LEMMA PromiseStutters ==
  ASSUME DOMAIN approvals' = DOMAIN approvals,
         \A id \in DOMAIN approvals :
           /\ approvals'[id].session = approvals[id].session
           /\ approvals'[id].call = approvals[id].call
           /\ DecisionOf(approvals'[id], clock') = DecisionOf(approvals[id], clock),
         UNCHANGED <<ran, cutShort>>
  PROVE  UNCHANGED Promise!authVars
  BY DecisionReads DEF Promise!authVars

\* An asked call opens a decision.
LEMMA PromiseAsks ==
  ASSUME TypeOK, NEW s \in Sessions, NEW c \in Calls, NEW id \in ApprovalIds,
         RequestApproval(s, c, id)
  PROVE  Promise!Ask(id, <<s, c>>)
<1> DEFINE new == [ session |-> s, call |-> c, status |-> "pending",
                    expiresAt |-> IF Ttl > 0 THEN clock + Ttl ELSE NoExpiry,
                    verdicts |-> <<>> ]
<1>1. /\ approvals' = Put(approvals, id, new)
      /\ id \notin DOMAIN approvals
      /\ UNCHANGED <<clock, ran, cutShort>>
  BY DEF RequestApproval, historyVars
<1>2. DecisionOf(new, clock) = "open"
  <2>1. ~IsExpired(new, clock)
    BY TtlAssumption DEF TypeOK, IsExpired, NoExpiry
  <2>2. \A v : ~HasVerdict(new, "one_off", v)
    BY DEF HasVerdict
  <2> QED
    BY <2>1, <2>2 DEF DecisionOf, ExplicitlyAllowed
<1>3. new.session = s /\ new.call = c
  OBVIOUS
<1> HIDE DEF new
<1>4. /\ DOMAIN approvals' = DOMAIN approvals \cup {id}
      /\ approvals'[id] = new
      /\ \A k \in DOMAIN approvals : approvals'[k] = approvals[k]
  BY <1>1 DEF Put
<1>5. About(approvals') = [k \in DOMAIN approvals \cup {id} |->
                             IF k = id THEN <<s, c>> ELSE About(approvals)[k]]
  BY <1>1, <1>3, <1>4 DEF About
<1>6. Decisions(approvals', clock') =
        [k \in DOMAIN approvals \cup {id} |->
           IF k = id THEN "open" ELSE Decisions(approvals, clock)[k]]
  BY <1>1, <1>2, <1>4 DEF Decisions
<1>7. DOMAIN About(approvals) = DOMAIN approvals
  BY DEF About
<1> QED
  BY <1>1, <1>5, <1>6, <1>7, DecisionReads
     DEF Promise!Ask, Promise!Known, About, Decisions

\* A call runs under a decision that stands.
LEMMA PromiseRuns ==
  ASSUME TypeOK, NEW s \in Sessions, NEW c \in Calls, RunAskedCall(s, c)
  PROVE  Promise!Run(<<s, c>>)
<1>1. PICK id \in ApprovalIds : Permits(id, s, c)
  BY DEF RunAskedCall, HasExplicitAllow
<1>2. /\ id \in DOMAIN approvals
      /\ <<approvals[id].session, approvals[id].call>> = <<s, c>>
      /\ Decision(id) = "allow"
  BY <1>1 DEF Permits, Decision
<1>3. /\ UNCHANGED <<approvals, clock, cutShort>>
      /\ ran' = [ran EXCEPT ![<<s, c>>] = @ + 1]
  BY DEF RunAskedCall
<1>4. UNCHANGED <<[id_1 \in DOMAIN approvals |-> <<approvals[id_1].session, approvals[id_1].call>>],
                  [id_1 \in DOMAIN approvals |-> Decision(id_1)]>>
  BY <1>3, DecisionReads
<1> QED
  BY <1>2, <1>3, <1>4 DEF Promise!Run, Promise!Known

\* A session verdict decides nothing.
LEMMA SessionDecidesNothing ==
  \A old \in ActionApproval : \A now :
    DecisionOf([old EXCEPT !.verdicts = Append(old.verdicts, SessionAllow)], now)
      = DecisionOf(old, now)
<1> SUFFICES ASSUME NEW old \in ActionApproval, NEW now
             PROVE  DecisionOf([old EXCEPT !.verdicts =
                                  Append(old.verdicts, SessionAllow)], now)
                      = DecisionOf(old, now)
  OBVIOUS
<1> DEFINE new == [old EXCEPT !.verdicts = Append(old.verdicts, SessionAllow)]
<1>1. /\ new.expiresAt = old.expiresAt
      /\ new.status = old.status
      /\ new.verdicts = Append(old.verdicts, SessionAllow)
  OBVIOUS
<1>2. /\ SessionAllow \in ScopedVerdict
      /\ \A v : SessionAllow # [scope |-> "one_off", verdict |-> v]
  BY DEF SessionAllow
<1> HIDE DEF new
<1>3. \A v : HasVerdict(new, "one_off", v) <=>
        \/ HasVerdict(old, "one_off", v)
        \/ SessionAllow = [scope |-> "one_off", verdict |-> v]
  BY <1>1, <1>2, AppendHas
<1>4. DecisionOf(new, now) = DecisionOf(old, now)
  BY <1>1, <1>2, <1>3, SameDecision
<1> QED
  BY <1>4 DEF new

\* A response that is cut short has recorded a session verdict, which decides
\* nothing.
LEMMA PromiseInterrupts ==
  ASSUME TypeOK, NEW w \in Workers, RecordVerdict(w), ~UNCHANGED cutShort
  PROVE  Promise!Next
<1> DEFINE id == jobs[w].id
           old == approvals[id]
           new == [old EXCEPT !.verdicts = Append(old.verdicts, SessionAllow)]
<1>1. /\ id \in DOMAIN approvals
      /\ old \in ActionApproval
      /\ SessionAllow \in ScopedVerdict
  BY JobKinds DEF TypeOK, RecordVerdict, SessionAllow
<1>2. /\ Head(jobs[w].todo) = SessionAllow
      /\ cutShort' = cutShort \cup {id}
      /\ approvals' = [approvals EXCEPT ![id].verdicts =
                         Append(@, Head(jobs[w].todo))]
      /\ UNCHANGED <<clock, ran>>
  BY DEF RecordVerdict
<1>3. /\ DOMAIN approvals' = DOMAIN approvals
      /\ \A k \in DOMAIN approvals : k # id => approvals'[k] = approvals[k]
      /\ approvals'[id] = new
  BY <1>1, <1>2 DEF TypeOK
<1>4. /\ new.expiresAt = old.expiresAt
      /\ new.session = old.session
      /\ new.call = old.call
      /\ new.status = old.status
      /\ new.verdicts = Append(old.verdicts, SessionAllow)
  BY <1>1
<1> HIDE DEF new
<1>5. \A now : DecisionOf(new, now) = DecisionOf(old, now)
  BY <1>1, SessionDecidesNothing DEF new
<1>6. DecisionOf(new, clock) = DecisionOf(old, clock)
  BY <1>5
<1>7. Decisions(approvals', clock') = Decisions(approvals, clock)
  BY <1>2, <1>3, <1>6 DEF Decisions
<1>8. About(approvals') = About(approvals) /\ DOMAIN About(approvals) = DOMAIN approvals
  BY <1>3, <1>4 DEF About
<1>9. Promise!Interrupt(id)
  BY <1>2, <1>7, <1>8, DecisionReads DEF Promise!Interrupt, About, Decisions
<1> QED
  BY <1>1, <1>8, <1>9 DEF Promise!Next, Promise!Known, About

\* A handler decides once, overrules a deny that was cut short, or decides
\* nothing.
LEMMA PromiseDecides ==
  ASSUME TypeOK, TypeOK', Sequential, OneWorker,
         NEW w \in Workers, Submit(w) \/ Continue(w), UNCHANGED cutShort
  PROVE  [Promise!Next]_(Promise!authVars)
<1>1. ApprovalsChange
  BY SequentialNext DEF Next
<1>2. \A id \in DOMAIN approvals :
        /\ approvals'[id].session = approvals[id].session
        /\ approvals'[id].call = approvals[id].call
        /\ \/ DecisionOf(approvals'[id], clock) = DecisionOf(approvals[id], clock)
           \/ /\ DecisionOf(approvals[id], clock) = "open"
              /\ DecisionOf(approvals'[id], clock) \in {"allow", "deny"}
           \/ /\ id \in cutShort
              /\ DecisionOf(approvals[id], clock) = "deny"
              /\ DecisionOf(approvals'[id], clock) = "allow"
  <2> TAKE id \in DOMAIN approvals
  <2>1. approvals[id] \in ActionApproval /\ Changes(id, approvals[id], approvals'[id])
    BY <1>1 DEF TypeOK, ApprovalsChange
  <2> QED
    BY <2>1, ChangesDecide
<1>3. UNCHANGED <<clock, ran>> /\ DOMAIN approvals' = DOMAIN approvals
  BY OthersKept DEF Submit, CheckExpired, ResolveCheck, RespondBegin, historyVars
<1>4. CASE \A id \in DOMAIN approvals :
             DecisionOf(approvals'[id], clock) = DecisionOf(approvals[id], clock)
  BY <1>2, <1>3, <1>4, PromiseStutters
<1>5. ASSUME NEW id \in DOMAIN approvals,
             DecisionOf(approvals'[id], clock) # DecisionOf(approvals[id], clock)
      PROVE  Promise!Next
  <2> DEFINE verdict == DecisionOf(approvals'[id], clock)
  <2>1. \/ /\ DecisionOf(approvals[id], clock) = "open"
           /\ verdict \in {"allow", "deny"}
        \/ /\ id \in cutShort
           /\ DecisionOf(approvals[id], clock) = "deny"
           /\ verdict = "allow"
    BY <1>2, <1>5
  <2>2. \A k \in DOMAIN approvals : k # id => approvals'[k] = approvals[k]
    <3>1. CASE Continue(w)
      BY <1>5, <3>1, OthersKept
    <3>2. CASE Submit(w)
      <4>1. ~UNCHANGED approvals
        BY <1>5
      <4>2. CheckExpired(w)
        BY <3>2, <4>1 DEF Submit, ResolveCheck, RespondBegin
      <4>3. IsExpired(approvals[id], clock)
        BY <1>5, <4>2 DEF CheckExpired, Sweepable
      <4> QED
        BY <2>1, <4>3 DEF DecisionOf
    <3> QED
      BY <3>1, <3>2
  <2> HIDE DEF verdict
  <2>3. Decisions(approvals', clock') =
          [Decisions(approvals, clock) EXCEPT ![id] = verdict]
    BY <1>3, <2>2 DEF Decisions, verdict
  <2>4. About(approvals') = About(approvals)
    BY <1>2, <1>3 DEF About
  <2>5. /\ DOMAIN About(approvals) = DOMAIN approvals
        /\ Decisions(approvals, clock)[id] = DecisionOf(approvals[id], clock)
    BY DEF About, Decisions
  <2>6. CASE DecisionOf(approvals[id], clock) = "open" /\ verdict \in {"allow", "deny"}
    <3>1. Promise!Decide(id, verdict)
      BY <1>3, <2>3, <2>4, <2>5, <2>6, DecisionReads
         DEF Promise!Decide, About, Decisions
    <3> QED
      BY <2>5, <2>6, <3>1 DEF Promise!Next, Promise!Known, About
  <2>7. CASE /\ id \in cutShort
             /\ DecisionOf(approvals[id], clock) = "deny"
             /\ verdict = "allow"
    <3>1. Promise!Overrule(id)
      BY <1>3, <2>3, <2>4, <2>5, <2>7, DecisionReads
         DEF Promise!Overrule, About, Decisions
    <3> QED
      BY <2>5, <3>1 DEF Promise!Next, Promise!Known, About
  <2> QED
    BY <2>1, <2>6, <2>7
<1> QED
  BY <1>4, <1>5

\* The clock ends approvals and decides nothing.
LEMMA PromiseLapses ==
  ASSUME TypeOK, Tick
  PROVE  Promise!Next
<1> DEFINE ids == {id \in DOMAIN approvals : IsExpired(approvals[id], clock')}
<1>1. UNCHANGED <<approvals, ran, cutShort>> /\ clock' = clock + 1
  BY DEF Tick, historyVars
<1>2. ASSUME NEW id \in DOMAIN approvals
      PROVE  DecisionOf(approvals[id], clock') =
               IF id \in ids THEN "lapsed" ELSE DecisionOf(approvals[id], clock)
  <2>1. CASE id \in ids
    BY <2>1 DEF DecisionOf
  <2>2. CASE id \notin ids
    <3>1. approvals[id] \in ActionApproval /\ clock \in Nat
      BY DEF TypeOK
    <3>2. ~IsExpired(approvals[id], clock') /\ ~IsExpired(approvals[id], clock)
      BY <1>1, <2>2, <3>1, ExpiryLasts
    <3> QED
      BY <2>2, <3>2 DEF DecisionOf
  <2> QED
    BY <2>1, <2>2
<1> HIDE DEF ids
<1>3. Decisions(approvals', clock') =
        [id \in DOMAIN approvals |->
           IF id \in ids THEN "lapsed" ELSE Decisions(approvals, clock)[id]]
  BY <1>1, <1>2 DEF Decisions
<1>4. About(approvals') = About(approvals) /\ DOMAIN About(approvals) = DOMAIN approvals
  BY <1>1 DEF About
<1>5. ids \in SUBSET DOMAIN approvals
  BY DEF ids
<1>6. Promise!Lapse(ids)
  BY <1>1, <1>3, <1>4, DecisionReads
     DEF Promise!Lapse, Promise!Known, About, Decisions
<1> QED
  BY <1>4, <1>5, <1>6 DEF Promise!Next, Promise!Known, About

\* Every step is one of ActAuthorization or leaves its variables alone.
LEMMA PromiseNext ==
  ASSUME TypeOK, TypeOK', Sequential, OneWorker, [Next]_vars
  PROVE  [Promise!Next]_(Promise!authVars)
<1>1. CASE UNCHANGED <<clock, approvals, ran, cutShort>>
  BY <1>1, PromiseStutters
<1>2. CASE SessionStep \/ ParticipantStep \/ UNCHANGED vars
  BY <1>1, <1>2
     DEF SessionStep, CreateSession, OpenStream, CloseStream, Deliver,
         ParticipantStep, RegisterParticipant, UnregisterParticipant, vars,
         historyVars
<1>3. ASSUME NEW s \in Sessions, NEW c \in Calls, RunAskedCall(s, c)
      PROVE  Promise!Next
  BY <1>3, PromiseRuns DEF Promise!Next
<1>4. ASSUME NEW s \in Sessions, NEW c \in Calls, NEW id \in ApprovalIds,
             RequestApproval(s, c, id)
      PROVE  Promise!Next
  BY <1>4, PromiseAsks DEF Promise!Next
<1>5. ASSUME NEW w \in Workers, Submit(w) \/ Continue(w)
      PROVE  [Promise!Next]_(Promise!authVars)
  <2>1. RecordVerdict(w) \/ UNCHANGED cutShort
    BY <1>5, OthersKept
       DEF Submit, CheckExpired, ResolveCheck, RespondBegin, historyVars
  <2> QED
    BY <1>5, <2>1, PromiseDecides, PromiseInterrupts
<1> QED
  BY <1>2, <1>3, <1>4, <1>5, PromiseLapses DEF Next, CallStep

\* If no two handlers overlap, the workflow implements ActAuthorization: an
\* approval is decided once, for one call of one session, an allow is never
\* taken back, a deny is overruled only if its response was cut short, and no
\* call runs but under a standing allow.
THEOREM ApprovalsKeepTheirPromise ==
  ASSUME OneWorker
  PROVE  Spec => KeepsPromise
<1>1. Init => Promise!Init
  <2> SUFFICES ASSUME Init PROVE Promise!Init
    OBVIOUS
  <2>1. /\ DOMAIN approvals = {}
        /\ ran = [a \in Sessions \X Calls |-> 0]
        /\ cutShort = {}
    BY DEF Init
  <2> QED
    BY <2>1 DEF Promise!Init
<1>2. TypeOK /\ TypeOK' /\ Sequential /\ [Next]_vars =>
        [Promise!Next]_(Promise!authVars)
  BY PromiseNext
<1> QED
  BY <1>1, <1>2, SequentialHolds, PTL DEF Spec, KeepsPromise, Promise!Spec
=============================================================================
