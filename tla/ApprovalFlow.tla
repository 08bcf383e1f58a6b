----------------------------- MODULE ApprovalFlow -----------------------------
(***************************************************************************)
(* Approvals from the asked call to the run: the part of tools/call that   *)
(* asks for an approval and later runs under it (mcp_server.py), the       *)
(* approval service, its REST handlers (control_plane/api.py), the         *)
(* broadcaster, the streams it writes to, and the overlay that a           *)
(* session-scope allow attaches.  What overlays do to a session's world,   *)
(* and the life of sessions, is SessionWorld's subject.                    *)
(*                                                                         *)
(* The REST handlers are plain "def" functions, so the framework runs each *)
(* on a thread of its pool (a Worker): another handler can run between two *)
(* steps of one.  The /mcp handlers are coroutines without an await inside *)
(* and run as one step of the event loop, also between steps of a Worker.  *)
(* With one Worker no two REST handlers overlap, which is what the stores  *)
(* rely on ("single-threaded async FastAPI context", session_store.py).    *)
(*                                                                         *)
(* granted, told, ran and cutShort record what operators submitted, what   *)
(* clients heard, which calls ran and which responses stopped half-way.    *)
(* The code keeps none of them; only the properties read them.             *)
(***************************************************************************)
EXTENDS ControlPlaneDomain

CONSTANTS
  Workers,         \* threads of the pool that run REST handlers
  HeaderSessions,  \* ids a client puts in X-Session-Id without registering
  ParticipantIds,  \* sessions that may register as participants
  VerdictLists,    \* bodies of PATCH /approvals/{id}/respond
  MaxClock,        \* bound on the clock
  MaxRuns          \* bound on the runs of one action

ASSUME SessionsAssumption ==
  HeaderSessions \subseteq Sessions /\ ParticipantIds \subseteq Sessions
ASSUME VerdictListsAssumption == VerdictLists \subseteq Seq(ScopedVerdict)
ASSUME BoundsAssumption == MaxClock \in Nat /\ MaxRuns \in Nat

VARIABLES
  clock,         \* datetime.now()
  registered,    \* the keys of SessionStore._sessions
  streams,       \* SSESessionStore._sessions: the open streams
  participants,  \* ParticipantRegistry._participants
  inbox,         \* approval frames put on the queue of a session
  approvals,     \* ApprovalService._approvals
  overlays,      \* OverlayService._overlays
  events,        \* EventStore: what was logged, as <<type, subject>>
  jobs,          \* the handler each worker is in, and its local variables
  granted,       \* approvals an operator allowed while they were alive
  told,          \* approvals whose client heard of a standing allow
  ran,           \* how often the adapter ran an asked call of a session
  cutShort       \* approvals with a response that stopped on a KeyError

netVars == <<registered, streams, participants, inbox>>
recordVars == <<overlays, events>>
historyVars == <<granted, told, ran, cutShort>>
vars == <<clock, netVars, approvals, recordVars, jobs, historyVars>>

Idle == [pc |-> "idle"]

ResolveJobs == [pc : {"resolve", "resolve_notify"},
                id : ApprovalIds, decision : {"allowed", "denied"}]

RespondJobs == [pc : {"respond", "verdicts", "status", "respond_notify"},
                id : ApprovalIds, todo : Seq(ScopedVerdict),
                scopes : SUBSET Scopes, before : BOOLEAN]

Overlays == [session : Sessions, reveals : Tools]

Frames == [type : {"approval_requested"}, id : ApprovalIds]
          \cup [type : {"approval_resolved"}, id : ApprovalIds,
                verdict : Verdicts]

EventTypes == {"approval_requested", "approval_resolved", "overlay_attached"}

(***************************************************************************)
(* Services.                                                               *)
(***************************************************************************)

\* Mutated: frames reach registered participants only.
PushToParticipants(targets, frame) ==
  inbox' = [s \in Sessions |->
    IF s \in targets \cap streams \cap participants
    THEN inbox[s] \cup {frame} ELSE inbox[s]]

\* ApprovalBroadcaster._push_to_session: a session without a queue is skipped.
Push(targets, frame) ==
  inbox' = [s \in Sessions |->
    IF s \in targets \cap streams THEN inbox[s] \cup {frame} ELSE inbox[s]]

Log(type, subject) == events' = events \cup {<<type, subject>>}

\* Mutated: the clock, the session or the fingerprint is not looked at.
PermitsExpired(id, s, c) ==
  /\ id \in DOMAIN approvals
  /\ approvals[id].session = s
  /\ approvals[id].call = c
  /\ ExplicitlyAllowed(approvals[id])

\* ApprovalService.has_explicit_allow, for one approval.
Permits(id, s, c) ==
  /\ id \in DOMAIN approvals
  /\ approvals[id].session = s
  /\ approvals[id].call = c
  /\ ~IsExpired(approvals[id], clock)
  /\ ExplicitlyAllowed(approvals[id])

HasExplicitAllow(s, c) == \E id \in ApprovalIds : Permits(id, s, c)

SetStatus(id, status) ==
  approvals' = [approvals EXCEPT ![id].status = status]

\* OverlayService.attach stores the overlay before it looks the session up.
StoreOverlay(o, s, tool) ==
  overlays' = Put(overlays, o, [session |-> s, reveals |-> tool])

-----------------------------------------------------------------------------
(***************************************************************************)
(* Sessions, streams and participants.                                     *)
(***************************************************************************)

\* POST /control/sessions.  A known id is refused.
CreateSession(s) ==
  /\ s \notin registered
  /\ registered' = registered \cup {s}
  /\ UNCHANGED <<clock, streams, participants, inbox, approvals, recordVars,
                 jobs, historyVars>>

\* GET /mcp/sse: a fresh uuid, registered on the way.
OpenStream(s) ==
  /\ s \notin registered \cup HeaderSessions
  /\ registered' = registered \cup {s}
  /\ streams' = streams \cup {s}
  /\ UNCHANGED <<clock, participants, inbox, approvals, recordVars, jobs,
                 historyVars>>

\* The finally block of sse_stream: the queue goes, and nothing else does.
CloseStream(s) ==
  /\ s \in streams
  /\ streams' = streams \ {s}
  /\ UNCHANGED <<clock, registered, participants, inbox, approvals,
                 recordVars, jobs, historyVars>>

\* "The tool call UNBLOCKS as soon as any scope provides "allow"" (api.py).
Unblocked(approval) == approval.status = "allowed" \/ HasAllowVerdict(approval)

AllowFrame(id) ==
  [type |-> "approval_resolved", id |-> id, verdict |-> "allow"]

\* The stream takes what is on its queue to the client.  The client has heard
\* of an approval when an allow reaches it while one stands.
Deliver(s) ==
  /\ s \in streams
  /\ inbox[s] # {}
  /\ inbox' = [inbox EXCEPT ![s] = {}]
  /\ told' = told \cup {id \in DOMAIN approvals :
                         /\ AllowFrame(id) \in inbox[s]
                         /\ Unblocked(approvals[id])}
  /\ UNCHANGED <<clock, registered, streams, participants, approvals,
                 recordVars, jobs, granted, ran, cutShort>>

\* POST and DELETE /control/participants.
RegisterParticipant(s) ==
  /\ participants' = participants \cup {s}
  /\ UNCHANGED <<clock, registered, streams, inbox, approvals, recordVars,
                 jobs, historyVars>>

UnregisterParticipant(s) ==
  /\ participants' = participants \ {s}
  /\ UNCHANGED <<clock, registered, streams, inbox, approvals, recordVars,
                 jobs, historyVars>>

-----------------------------------------------------------------------------
(***************************************************************************)
(* tools/call when the policy answers "ask".  The session is whatever id   *)
(* the request carries; it need not be registered.                         *)
(***************************************************************************)
Callers == registered \cup HeaderSessions

\* The action was explicitly allowed: fall through to the adapter.
RunAskedCall(s, c) ==
  /\ s \in Callers
  /\ HasExplicitAllow(s, c)
  /\ ran[<<s, c>>] < MaxRuns
  /\ ran' = [ran EXCEPT ![<<s, c>>] = @ + 1]
  /\ UNCHANGED <<clock, netVars, approvals, recordVars, jobs, granted, told,
                 cutShort>>

\* It was not: a new approval, broadcast to the participants.
RequestApproval(s, c, id) ==
  /\ s \in Callers
  /\ ~HasExplicitAllow(s, c)
  /\ id \notin DOMAIN approvals
  /\ approvals' = Put(approvals, id,
       [ session   |-> s,
         call      |-> c,
         status    |-> "pending",
         expiresAt |-> IF Ttl > 0 THEN clock + Ttl ELSE NoExpiry,
         verdicts  |-> <<>> ])
  /\ Log("approval_requested", id)
  /\ Push(participants, [type |-> "approval_requested", id |-> id])
  /\ UNCHANGED <<clock, registered, streams, participants, overlays, jobs,
                 historyVars>>

\* GET /control/approvals (and the UI's list) sweeps before it lists.
Sweepable(id) ==
  /\ approvals[id].status \in {"pending", "partially_resolved"}
  /\ IsExpired(approvals[id], clock)

CheckExpired(w) ==
  /\ jobs[w] = Idle
  /\ \E id \in DOMAIN approvals : Sweepable(id)
  /\ approvals' = [id \in DOMAIN approvals |->
                     IF Sweepable(id)
                     THEN [approvals[id] EXCEPT !.status = "expired"]
                     ELSE approvals[id]]
  /\ UNCHANGED <<clock, netVars, recordVars, jobs, historyVars>>

-----------------------------------------------------------------------------
(***************************************************************************)
(* POST /control/approvals/{id}/resolve.                                   *)
(***************************************************************************)

\* History: an operator's allow counts if the approval was alive to receive it.
Submitted(id, isAllow) ==
  granted' = IF isAllow /\ ~IsExpired(approvals[id], clock)
             THEN granted \cup {id} ELSE granted

\* Mutated: the status guard is dropped.
ResolveCheckAnyStatus(w, id, decision) ==
  /\ jobs[w] = Idle
  /\ id \in DOMAIN approvals
  /\ jobs' = [jobs EXCEPT ![w] =
       [pc |-> "resolve", id |-> id, decision |-> decision]]
  /\ Submitted(id, decision = "allowed")
  /\ UNCHANGED <<clock, netVars, approvals, recordVars, told, ran, cutShort>>

\* The guards of resolve(): known, pending; expiry turns the decision round.
ResolveCheck(w, id, decision) ==
  /\ jobs[w] = Idle
  /\ id \in DOMAIN approvals
  /\ approvals[id].status = "pending"
  /\ jobs' = [jobs EXCEPT ![w] =
       [pc |-> "resolve", id |-> id,
        decision |-> IF IsExpired(approvals[id], clock)
                     THEN "denied" ELSE decision]]
  /\ Submitted(id, decision = "allowed")
  /\ UNCHANGED <<clock, netVars, approvals, recordVars, told, ran, cutShort>>

\* Its assignments and its event.
ResolveSet(w) ==
  /\ jobs[w].pc = "resolve"
  /\ SetStatus(jobs[w].id, jobs[w].decision)
  /\ Log("approval_resolved", jobs[w].id)
  /\ jobs' = [jobs EXCEPT ![w].pc = "resolve_notify"]
  /\ UNCHANGED <<clock, netVars, overlays, historyVars>>

\* The api tells the originator what the record now says.
ResolveNotify(w) ==
  /\ jobs[w].pc = "resolve_notify"
  /\ LET approval == approvals[jobs[w].id]
     IN  Push({approval.session},
              [type |-> "approval_resolved", id |-> jobs[w].id,
               verdict |-> IF approval.status = "allowed"
                           THEN "allow" ELSE "deny"])
  /\ jobs' = [jobs EXCEPT ![w] = Idle]
  /\ UNCHANGED <<clock, registered, streams, participants, approvals,
                 recordVars, historyVars>>

-----------------------------------------------------------------------------
(***************************************************************************)
(* PATCH /control/approvals/{id}/respond.                                  *)
(***************************************************************************)

\* A body, or what is left of it, that allows the one call.
CarriesAllow(body) ==
  \E i \in DOMAIN body : body[i] = [scope |-> "one_off", verdict |-> "allow"]

\* The api looks the approval up and snapshots "was it allowed before".
RespondBegin(w, id, body) ==
  /\ jobs[w] = Idle
  /\ id \in DOMAIN approvals
  /\ jobs' = [jobs EXCEPT ![w] =
       [pc |-> "respond", id |-> id, todo |-> body, scopes |-> {},
        before |-> HasAllowVerdict(approvals[id])]]
  /\ Submitted(id, CarriesAllow(body))
  /\ UNCHANGED <<clock, netVars, approvals, recordVars, told, ran, cutShort>>

\* respond() up to the loop: expired, terminal (409), or existing_scopes.
RespondCheck(w) ==
  /\ jobs[w].pc = "respond"
  /\ LET id == jobs[w].id
         approval == approvals[id]
     IN  \/ /\ IsExpired(approval, clock)
            /\ SetStatus(id, "expired")
            /\ jobs' = [jobs EXCEPT ![w].pc = "respond_notify"]
         \/ /\ ~IsExpired(approval, clock)
            /\ approval.status \notin {"pending", "partially_resolved"}
            /\ jobs' = [jobs EXCEPT ![w] = Idle]
            /\ UNCHANGED approvals
         \/ /\ ~IsExpired(approval, clock)
            /\ approval.status \in {"pending", "partially_resolved"}
            /\ jobs' = [jobs EXCEPT
                 ![w].pc = "verdicts",
                 ![w].scopes = RecordedScopes(approval.verdicts)]
            /\ UNCHANGED approvals
  /\ UNCHANGED <<clock, netVars, recordVars, historyVars>>

\* One turn of the loop for a scope this call already has on record: skipped.
SkipVerdict(w) ==
  /\ jobs[w].pc = "verdicts"
  /\ jobs[w].todo # <<>>
  /\ Head(jobs[w].todo).scope \in jobs[w].scopes
  /\ jobs' = [jobs EXCEPT ![w].todo = Tail(@)]
  /\ UNCHANGED <<clock, netVars, approvals, recordVars, historyVars>>

SessionAllow == [scope |-> "session", verdict |-> "allow"]

\* One turn for a new scope: recorded first, then its side effect.  A session
\* allow attaches an overlay; if the session is unknown attach_overlay raises
\* KeyError after the verdict and the overlay were stored: the rest of the body
\* is dropped, the status stays what it was, and the api answers 404.
RecordVerdict(w) ==
  /\ jobs[w].pc = "verdicts"
  /\ jobs[w].todo # <<>>
  /\ Head(jobs[w].todo).scope \notin jobs[w].scopes
  /\ LET id == jobs[w].id
         verdict == Head(jobs[w].todo)
         s == approvals[id].session
         next == [jobs EXCEPT ![w].todo = Tail(@),
                              ![w].scopes = @ \cup {verdict.scope}]
     IN  /\ approvals' = [approvals EXCEPT ![id].verdicts = Append(@, verdict)]
         /\ \/ /\ verdict # SessionAllow
               /\ jobs' = next
               /\ UNCHANGED <<recordVars, cutShort>>
            \/ /\ verdict = SessionAllow
               /\ \E o \in OverlayIds \ DOMAIN overlays :
                    /\ StoreOverlay(o, s, ToolOf[approvals[id].call])
                    /\ \/ /\ s \in registered
                          /\ Log("overlay_attached", o)
                          /\ jobs' = next
                          /\ UNCHANGED cutShort
                       \/ /\ s \notin registered
                          /\ jobs' = [jobs EXCEPT ![w] = Idle]
                          /\ cutShort' = cutShort \cup {id}
                          /\ UNCHANGED events
  /\ UNCHANGED <<clock, netVars, granted, told, ran>>

\* After the loop: the scopes on record are collected...
TallyVerdicts(w) ==
  /\ jobs[w].pc = "verdicts"
  /\ jobs[w].todo = <<>>
  /\ jobs' = [jobs EXCEPT
       ![w].scopes = RecordedScopes(approvals[jobs[w].id].verdicts),
       ![w].pc = "status"]
  /\ UNCHANGED <<clock, netVars, approvals, recordVars, historyVars>>

\* Mutated: two scopes already count as all of them.
RespondStatusEarly(w) ==
  /\ jobs[w].pc = "status"
  /\ \/ /\ jobs[w].scopes = {}
        /\ UNCHANGED approvals
     \/ /\ Cardinality(jobs[w].scopes) >= 2
        /\ SetStatus(jobs[w].id, "resolved")
     \/ /\ Cardinality(jobs[w].scopes) = 1
        /\ SetStatus(jobs[w].id, "partially_resolved")
  /\ jobs' = [jobs EXCEPT ![w].pc = "respond_notify"]
  /\ UNCHANGED <<clock, netVars, recordVars, historyVars>>

\* ... and the status is written from them.
RespondStatus(w) ==
  /\ jobs[w].pc = "status"
  /\ \/ /\ jobs[w].scopes = {}
        /\ UNCHANGED approvals
     \/ /\ jobs[w].scopes = Scopes
        /\ SetStatus(jobs[w].id, "resolved")
     \/ /\ jobs[w].scopes \notin {{}, Scopes}
        /\ SetStatus(jobs[w].id, "partially_resolved")
  /\ jobs' = [jobs EXCEPT ![w].pc = "respond_notify"]
  /\ UNCHANGED <<clock, netVars, recordVars, historyVars>>

\* The api notifies the originator of the first allow.
RespondNotify(w) ==
  /\ jobs[w].pc = "respond_notify"
  /\ LET approval == approvals[jobs[w].id]
     IN  \/ /\ HasAllowVerdict(approval) /\ ~jobs[w].before
            /\ Push({approval.session},
                    AllowFrame(jobs[w].id))
         \/ /\ ~(HasAllowVerdict(approval) /\ ~jobs[w].before)
            /\ UNCHANGED inbox
  /\ jobs' = [jobs EXCEPT ![w] = Idle]
  /\ UNCHANGED <<clock, registered, streams, participants, approvals,
                 recordVars, historyVars>>

-----------------------------------------------------------------------------
Tick ==
  /\ clock < MaxClock
  /\ clock' = clock + 1
  /\ UNCHANGED <<netVars, approvals, recordVars, jobs, historyVars>>

Init ==
  /\ clock = 0
  /\ registered = {}
  /\ streams = {}
  /\ participants = {}
  /\ inbox = [s \in Sessions |-> {}]
  /\ approvals = <<>>  \* the function with the empty domain
  /\ overlays = <<>>
  /\ events = {}
  /\ jobs = [w \in Workers |-> Idle]
  /\ granted = {}
  /\ told = {}
  /\ ran = [a \in Sessions \X Calls |-> 0]
  /\ cutShort = {}

SessionStep ==
  \E s \in Sessions :
    CreateSession(s) \/ OpenStream(s) \/ CloseStream(s) \/ Deliver(s)

ParticipantStep ==
  \E s \in ParticipantIds : RegisterParticipant(s) \/ UnregisterParticipant(s)

CallStep ==
  \E s \in Sessions, c \in Calls :
     \/ RunAskedCall(s, c)
     \/ \E id \in ApprovalIds : RequestApproval(s, c, id)

\* A REST call arrives and is given to an idle worker.
Submit(w) ==
  \/ CheckExpired(w)
  \/ \E id \in ApprovalIds :
       \/ \E decision \in {"allowed", "denied"} : ResolveCheck(w, id, decision)
       \/ \E body \in VerdictLists : RespondBegin(w, id, body)

\* The worker goes on with the handler it is in.
Continue(w) ==
  \/ ResolveSet(w)
  \/ ResolveNotify(w)
  \/ RespondCheck(w)
  \/ SkipVerdict(w)
  \/ RecordVerdict(w)
  \/ TallyVerdicts(w)
  \/ RespondStatus(w)
  \/ RespondNotify(w)

Next ==
  \/ SessionStep
  \/ ParticipantStep
  \/ CallStep
  \/ \E w \in Workers : Submit(w) \/ Continue(w)
  \/ Tick

Spec == Init /\ [][Next]_vars

\* A thread that is in a handler is scheduled again and an open stream goes
\* on reading its queue; no request has to come and the clock may stop.
FairSpec ==
  /\ Spec
  /\ \A w \in Workers : WF_vars(Continue(w))
  /\ \A s \in Sessions : WF_vars(Deliver(s))

-----------------------------------------------------------------------------
(***************************************************************************)
(* Properties.                                                             *)
(***************************************************************************)

\* Every variable has the shape the data classes and the stores give it, and
\* a handler works on an approval that exists.
TypeOK ==
  /\ clock \in Nat
  /\ registered \subseteq Sessions
  /\ streams \subseteq Sessions
  /\ participants \subseteq Sessions
  /\ inbox \in [Sessions -> SUBSET Frames]
  /\ DOMAIN approvals \subseteq ApprovalIds
  /\ approvals \in [DOMAIN approvals -> ActionApproval]
  /\ DOMAIN overlays \subseteq OverlayIds
  /\ overlays \in [DOMAIN overlays -> Overlays]
  /\ events \subseteq EventTypes \X (ApprovalIds \cup OverlayIds)
  /\ jobs \in [Workers -> {Idle} \cup ResolveJobs \cup RespondJobs]
  /\ \A w \in Workers : jobs[w] # Idle => jobs[w].id \in DOMAIN approvals
  /\ granted \subseteq DOMAIN approvals
  /\ told \subseteq ApprovalIds
  /\ ran \in [Sessions \X Calls -> Nat]
  /\ cutShort \subseteq DOMAIN approvals

\* No asked call of a session ever runs unless an operator submitted an allow
\* for that very call of that very session while its approval was alive,
\* whatever threads interleave (has_explicit_allow, resolve, respond).
RunsWereAllowed ==
  \A s \in Sessions, c \in Calls : ran[<<s, c>>] > 0 =>
    \E id \in granted : approvals[id].session = s /\ approvals[id].call = c

\* Every standing allow, and every allow a handler is about to record, goes
\* back to an operator who submitted it while the approval was alive: neither
\* a thread switch nor the clock between the check and the write of resolve()
\* or respond() makes an allow of its own.
AllowsTraced ==
  /\ \A id \in DOMAIN approvals :
       ExplicitlyAllowed(approvals[id]) => id \in granted
  /\ \A w \in Workers :
       LET job == jobs[w] IN
       /\ job.pc = "resolve" /\ job.decision = "allowed" => job.id \in granted
       /\ \/ job.pc = "verdicts"
          \/ job.pc = "respond" /\ ~IsExpired(approvals[job.id], clock)
         => (CarriesAllow(job.todo) => job.id \in granted)

\* A handler of some worker is between its first and last step on id.
Busy(id) == \E w \in Workers : jobs[w] # Idle /\ jobs[w].id = id

\* A terminal status stays: a resolved, allowed or denied approval can only
\* expire ("RuntimeError: If the approval is already in a terminal state").
TerminalIsFinal ==
  [][\A id \in DOMAIN approvals :
       approvals[id].status \in {"allowed", "denied", "expired", "resolved"} =>
         approvals'[id].status \in {approvals[id].status, "expired"}]_vars

\* has_explicit_allow honours a one_off allow without looking at the status.
\* A denied approval still permits its call only if a response to it was cut
\* short: the KeyError of a session-scope allow for a session nobody
\* registered keeps the verdicts before it and leaves the record "pending",
\* so that it can be denied with the allow on it.
OnlyCutShortDenialsPermit ==
  \A id \in DOMAIN approvals :
    /\ approvals[id].status = "denied"
    /\ ExplicitlyAllowed(approvals[id])
    => id \in cutShort

\* Verdicts are idempotent per scope: a scope is on record at most once, so
\* its side effect (an overlay) happened at most once.
OneVerdictPerScope ==
  \A id \in DOMAIN approvals :
    \A i, j \in DOMAIN approvals[id].verdicts :
      approvals[id].verdicts[i].scope = approvals[id].verdicts[j].scope => i = j

\* When no handler is at work on an approval, its status says how many scopes
\* are on record (what list_pending hides and respond() refuses depends on
\* it), or a response was cut short; then a session verdict is on record and
\* the status may say less than the record, but never more.
StatusTalliesVerdicts ==
  \A id \in DOMAIN approvals :
    LET recorded == RecordedScopes(approvals[id].verdicts)
        status == approvals[id].status
    IN  ~Busy(id) =>
          /\ status \in {"pending", "allowed", "denied"} =>
               recorded = {} \/ id \in cutShort
          /\ status = "partially_resolved" =>
               recorded # {} /\ (recorded # Scopes \/ id \in cutShort)
          /\ status = "resolved" => recorded = Scopes
          /\ id \in cutShort => "session" \in recorded

\* An approval's verdict as its promise sees it.
Decision(id) ==
  IF IsExpired(approvals[id], clock) THEN "lapsed"
  ELSE IF ExplicitlyAllowed(approvals[id]) THEN "allow"
  ELSE IF \/ approvals[id].status = "denied"
          \/ HasVerdict(approvals[id], "one_off", "deny") THEN "deny"
  ELSE "open"

Promise == INSTANCE ActAuthorization WITH
  Actions <- Sessions \X Calls,
  about <- [id \in DOMAIN approvals |->
              <<approvals[id].session, approvals[id].call>>],
  decision <- [id \in DOMAIN approvals |-> Decision(id)],
  interrupted <- cutShort

\* The workflow keeps the promise of an approval: decided once, for one action
\* of one session, and nothing runs but under a standing allow.  Only a deny
\* whose response was cut short can be overruled: its record is still
\* "pending", and resolve() takes it.
KeepsPromise == Promise!Spec

\* The client of s is connected and an allow of its approval stands.
AwaitsNews(id, s) ==
  /\ s \in streams
  /\ id \in DOMAIN approvals
  /\ approvals[id].session = s
  /\ ~IsExpired(approvals[id], clock)
  /\ Unblocked(approvals[id])

\* "The originator receives an approval_resolved SSE event so the client knows
\* to retry" (api.py): once an allow of any scope stands, the session that
\* asked hears of an allow while one stands, unless its stream goes or the
\* approval ends.  It hears of the first: a one_off allow that follows a
\* session-scope allow admits the retry and is not announced again.
AllowIsAnnounced ==
  \A id \in ApprovalIds, s \in Sessions :
    AwaitsNews(id, s) ~> (~AwaitsNews(id, s) \/ id \in told)

=============================================================================
