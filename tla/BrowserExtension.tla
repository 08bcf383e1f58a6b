--------------------------- MODULE BrowserExtension ---------------------------
(***************************************************************************)
(* The background page of the browser extension.  Its whole state is one   *)
(* value in chrome.storage.  The handler of a message gets a copy of it,   *)
(* waits for the page where it needs one, and puts back the copy it has    *)
(* changed: handlers take turns at every await, and a copy put back undoes *)
(* what others have put back since it was taken.  The browser may stop the *)
(* background page and all its handlers at any await.                      *)
(*                                                                         *)
(* Ids are numbers of messages: a message makes at most one entry of each  *)
(* kind.  A version is activated, a trace or memory entry written and an   *)
(* approval asked for by the message that has its number.                  *)
(***************************************************************************)
EXTENDS BrowserWorlds

CONSTANTS
  NoPage,        \* no tab that can be asked for a snapshot
  Pages,         \* snapshots: [url, hidden]
  Written,       \* manifests that are sent to be applied
  Drafts,        \* manifests that are validated in the side panel
  AskedIntents,  \* intents that the user asks for
  HistoryCap,    \* versions that are kept: 20 in the code
  MaxMessages,   \* bound on the messages
  MaxHandlers    \* bound on the handlers at work at the same time

ASSUME HistoryAssumption == HistoryCap \in Nat

VARIABLES
  store,      \* the appState in chrome.storage
  messages,   \* in order of arrival: [kind, args..., stage, copy, page]
  panel,      \* side panel: [source, compiled] of its draft, the version it has seen
  authored    \* history variable: version -> the manifest it was made from

browserVars == <<store, messages, panel, authored>>

NoVersion == [version_id |-> 0, source |-> NoWorld, compiled |-> NoWorld]

\* "erased" is a history variable: the trace entries that were cleared.
DefaultState ==
  [mode |-> "governed", simulation |-> FALSE, memory |-> <<>>, trace |-> <<>>, queue |-> <<>>,
   active |-> NoVersion, history |-> <<>>, erased |-> <<>>]

NoDraft == [source |-> NoWorld, compiled |-> NoWorld, seen |-> 0]

BrowserInit ==
  /\ store = DefaultState
  /\ messages = <<>>
  /\ panel = NoDraft
  /\ authored = <<>>

-----------------------------------------------------------------------------
(* What the messages do to a copy of the state. *)

\* A page is of source web_page, and content of a page is always tainted.
Ingest(page) == [source |-> "web_page", hidden |-> page.hidden, taint |-> TRUE]

TraceEntry(run, intent, decision, simulated, approval, version, hidden) ==
  [run |-> run, intent |-> intent, decision |-> decision, simulated |-> simulated,
   approval |-> approval, version |-> version, hidden |-> hidden]

MemoryEntry(run, mode, approval) == [run |-> run, mode |-> mode, approval |-> approval]

NoApproval == 0

\* Newest first.
Unshift(list, entry) == <<entry>> \o list

ResolveRequest(queue, id, status) ==
  [i \in DOMAIN queue |->
     IF queue[i].id = id THEN [queue[i] EXCEPT !.status = status] ELSE queue[i]]

PendingOnly(queue) == {r \in ToSet(queue) : r.status = "pending"}

\* The new version is active, as it comes back from chrome.storage, and heads
\* the history, whose oldest goes when it is full; what fails to parse or to
\* validate changes nothing.
ApplyNewWorld(state, run, manifest) ==
  LET record == [version_id |-> run, source |-> manifest]
      history == Unshift(state.history, record)
  IN IF ~IsAccepted(manifest) THEN {}
     ELSE {[state EXCEPT
              !.active = [version_id |-> run, source |-> manifest,
                          compiled |-> ThroughStorage(CompileManifest(ParseManifest(manifest)))],
              !.history = SubSeq(history, 1, Min({Len(history), HistoryCap}))]}

\* The naive agent does what it is asked to and leaves no trace.
RunNaive(state, run, intent) ==
  IF intent = "save_memory"
  THEN [state EXCEPT !.memory = Unshift(@, MemoryEntry(run, "naive", NoApproval))]
  ELSE state

\* Mutated: decided in the world that is active by now, traced with the one of
\* the copy.
RunGovernedFresh(state, run, intent, page) ==
  LET ruling == EvaluatePolicy(store.active.compiled, Ingest(page), intent)
      decision == ApplySimulationGuard(ruling.decision, state.simulation)
      entry == TraceEntry(run, intent, decision, decision # ruling.decision, NoApproval,
                          state.active.version_id, page.hidden)
      traced == [state EXCEPT !.trace = Unshift(@, entry)]
  IN CASE decision = "ask" ->
            [traced EXCEPT !.queue = Append(@, [id |-> run, intent |-> intent, url |-> page.url,
                                                hidden |-> page.hidden, status |-> "pending"])]
       [] decision = "allow" /\ intent = "save_memory" ->
            [traced EXCEPT !.memory = Unshift(@, MemoryEntry(run, "governed", NoApproval))]
       [] OTHER -> traced

\* The governed agent decides in the world of the copy: "ask" puts the intent
\* in the queue, only "allow" does anything, all of it is traced.
RunGoverned(state, run, intent, page) ==
  LET ruling == EvaluatePolicy(state.active.compiled, Ingest(page), intent)
      decision == ApplySimulationGuard(ruling.decision, state.simulation)
      entry == TraceEntry(run, intent, decision, decision # ruling.decision, NoApproval,
                          state.active.version_id, page.hidden)
      traced == [state EXCEPT !.trace = Unshift(@, entry)]
  IN CASE decision = "ask" ->
            [traced EXCEPT !.queue = Append(@, [id |-> run, intent |-> intent, url |-> page.url,
                                                hidden |-> page.hidden, status |-> "pending"])]
       [] decision = "allow" /\ intent = "save_memory" ->
            [traced EXCEPT !.memory = Unshift(@, MemoryEntry(run, "governed", NoApproval))]
       [] OTHER -> traced

\* The user said no, or the page is not there or not the same any more.
DenyRequest(state, run, request) ==
  [state EXCEPT
     !.queue = ResolveRequest(@, request.id, "denied"),
     !.trace = Unshift(@, TraceEntry(run, request.intent, "deny", FALSE, request.id, 0,
                                     request.hidden))]

\* The user said yes: the intent is carried out on the page as it is now.  It is
\* not decided again, and simulation mode only shows in the trace.
ApproveRequest(state, run, request, page) ==
  LET traced == [state EXCEPT
        !.queue = ResolveRequest(@, request.id, "approved"),
        !.trace = Unshift(@, TraceEntry(run, request.intent, "allow", state.simulation,
                                        request.id, state.active.version_id, page.hidden))]
  IN IF request.intent = "save_memory"
     THEN [traced EXCEPT !.memory = Unshift(@, MemoryEntry(run, "governed", request.id))]
     ELSE traced

ResolveApproval(state, run, request, page) ==
  IF page = NoPage \/ page.url # request.url THEN DenyRequest(state, run, request)
  ELSE ApproveRequest(state, run, request, page)

-----------------------------------------------------------------------------
(* Handlers. *)

Message(kind, arg, id) ==
  [kind |-> kind, arg |-> arg, id |-> id, stage |-> "received", copy |-> DefaultState,
   page |-> NoPage]

Ended(stage) == [Message("", NoWorld, 0) EXCEPT !.stage = stage]

AtWork(n) == messages[n].stage \in {"received", "read", "seen"}

\* The approval that a message is about, if it is pending in the copy.
Requested(m) == {r \in PendingOnly(m.copy.queue) : r.id = m.id}

\* What needs no page is written as soon as the state is read.
NeedsPage(m) ==
  \/ m.kind = "RUN_ACTION"
  \/ m.kind = "RESOLVE_APPROVAL" /\ m.arg = "approved" /\ Requested(m) # {}

Receive(kind, arg, id) ==
  /\ Len(messages) < MaxMessages
  /\ Cardinality({n \in DOMAIN messages : AtWork(n)}) < MaxHandlers
  /\ messages' = Append(messages, Message(kind, arg, id))
  /\ UNCHANGED <<store, panel, authored>>

\* onInstalled and the messages that can change something.
Send ==
  \/ Receive("onInstalled", NoWorld, 0)
  \/ \E mode \in {"naive", "governed"} : Receive("SET_MODE", mode, 0)
  \/ \E enabled \in BOOLEAN : Receive("SET_SIMULATION_MODE", enabled, 0)
  \/ Receive("CLEAR_TRACE", NoWorld, 0)
  \/ \E m \in Written : Receive("APPLY_MANIFEST", m, 0)
  \/ \E i \in DOMAIN store.history : Receive("ROLLBACK_WORLD", NoWorld, store.history[i].version_id)
  \/ \E i \in DOMAIN store.queue, status \in {"approved", "denied"} :
       Receive("RESOLVE_APPROVAL", status, store.queue[i].id)
  \/ \E intent \in AskedIntents : Receive("RUN_ACTION", intent, 0)

\* getState.
ReadState(n) ==
  /\ messages[n].stage = "received"
  /\ messages' = [messages EXCEPT ![n].stage = "read", ![n].copy = store]
  /\ UNCHANGED <<store, panel, authored>>

\* getSnapshot: what the active tab holds now, or no answer.  The user goes where
\* he likes, so that may be any page.
SeePage(n) ==
  /\ messages[n].stage = "read"
  /\ NeedsPage(messages[n])
  /\ \E page \in Pages \cup {NoPage} :
       messages' = [messages EXCEPT ![n].stage = "seen", ![n].page = page]
  /\ UNCHANGED <<store, panel, authored>>

RunAction(state, n, intent, page) ==
  IF state.mode = "naive" THEN RunNaive(state, n, intent) ELSE RunGoverned(state, n, intent, page)

\* The state that the handler puts back: none where it answers with an error
\* or finds a world installed.
PutBack(n) ==
  LET m == messages[n]
      state == m.copy
      targets == {v \in ToSet(state.history) : v.version_id = m.id}
  IN CASE m.kind = "onInstalled" ->
            IF state.active = NoVersion THEN ApplyNewWorld(state, n, BalancedWorld) ELSE {}
       [] m.kind = "SET_MODE" -> {[state EXCEPT !.mode = m.arg]}
       [] m.kind = "SET_SIMULATION_MODE" -> {[state EXCEPT !.simulation = m.arg]}
       [] m.kind = "CLEAR_TRACE" -> {[state EXCEPT !.trace = <<>>, !.erased = @ \o state.trace]}
       [] m.kind = "APPLY_MANIFEST" -> ApplyNewWorld(state, n, m.arg)
       [] m.kind = "ROLLBACK_WORLD" -> UNION {ApplyNewWorld(state, n, v.source) : v \in targets}
       [] m.kind = "RESOLVE_APPROVAL" /\ m.arg = "denied" ->
            {DenyRequest(state, n, r) : r \in Requested(m)}
       [] m.kind = "RESOLVE_APPROVAL" /\ m.arg = "approved" ->
            {ResolveApproval(state, n, r, m.page) : r \in Requested(m)}
       [] m.kind = "RUN_ACTION" ->
            {RunAction(state, n, m.arg, page) : page \in {m.page} \ {NoPage}}

WriteAndAnswer(n, put) ==
  /\ messages[n].stage = IF NeedsPage(messages[n]) THEN "seen" ELSE "read"
  /\ IF put = {} THEN UNCHANGED <<store, authored>>
     ELSE \E state \in put :
            /\ store' = state
            /\ authored' = IF state.active.version_id = n
                           THEN [v \in DOMAIN authored \cup {n} |->
                                   IF v = n THEN state.active.source ELSE authored[v]]
                           ELSE authored
  /\ messages' = [messages EXCEPT ![n] = Ended("answered")]
  /\ UNCHANGED panel

\* Mutated: an approval looked up in the copy is carried out on the state as it
\* is by now, "to lose nothing".
RespondOnFresh(n) ==
  LET m == messages[n]
  IN WriteAndAnswer(n, IF m.kind = "RESOLVE_APPROVAL"
                THEN {IF m.arg = "denied" THEN DenyRequest(store, n, r)
                      ELSE ResolveApproval(store, n, r, m.page) : r \in Requested(m)}
                ELSE PutBack(n))

\* setState and sendResponse.
Respond(n) == WriteAndAnswer(n, PutBack(n))

HandlerStep(n) == n \in DOMAIN messages /\ (ReadState(n) \/ SeePage(n) \/ Respond(n))

\* The browser stops the background page; who waits for an answer gets none.
StopWorker ==
  /\ \E n \in DOMAIN messages : AtWork(n)
  /\ messages' = [n \in DOMAIN messages |-> IF AtWork(n) THEN Ended("dropped") ELSE messages[n]]
  /\ UNCHANGED <<store, panel, authored>>

-----------------------------------------------------------------------------
(* The editor in the side panel, which compiles drafts for its test tab. *)

ValidateDraft(m) ==
  /\ panel' = [panel EXCEPT
       !.source = m,
       !.compiled = IF IsAccepted(m) THEN CompileManifest(ParseManifest(m)) ELSE NoWorld]
  /\ UNCHANGED <<store, messages, authored>>

\* Another version has become active: the panel takes it over.
SyncPanel ==
  /\ store.active # NoVersion
  /\ store.active.version_id # panel.seen
  /\ panel' = [source |-> store.active.source, compiled |-> store.active.compiled,
               seen |-> store.active.version_id]
  /\ UNCHANGED <<store, messages, authored>>

BrowserNext ==
  \/ Send
  \/ \E n \in DOMAIN messages : HandlerStep(n)
  \/ StopWorker
  \/ \E m \in Drafts : ValidateDraft(m)
  \/ SyncPanel

BrowserSpec == BrowserInit /\ [][BrowserNext]_browserVars

-----------------------------------------------------------------------------
(* What has to hold. *)

Traced(state) == ToSet(state.trace) \cup ToSet(state.erased)

Resolutions(state, id) == {t \in Traced(state) : t.approval = id}

\* However handlers overlap and whatever they undo of each other, the state in
\* the storage agrees with itself: the active version is the newest of the
\* history; an approval was asked for in the trace and has one resolution there
\* exactly if, and as, the queue says; what the governed agent remembers was
\* allowed in the trace, at most one memory per approval, and a memory behind a
\* merely simulated allow comes from an approval.  That an approval is carried
\* out once is not said: of two handlers that resolve the same one both do so
\* and tell the user, and a stale copy opens it again ("once resolved, an
\* approval request is never re-opened"); only the later copy stays.
StoreTellsOneStory ==
  /\ store.history # <<>> => store.active.version_id = store.history[1].version_id
  /\ \A request \in ToSet(store.queue) :
       /\ \E t \in Traced(store) : t.run = request.id /\ t.decision = "ask"
       /\ Cardinality(Resolutions(store, request.id)) <= 1
       /\ {t.decision : t \in Resolutions(store, request.id)} =
            CASE request.status = "pending" -> {}
              [] request.status = "approved" -> {"allow"}
              [] request.status = "denied" -> {"deny"}
  /\ \A i, j \in DOMAIN store.memory :
       LET e == store.memory[i]
       IN /\ e.mode = "governed" =>
               \E t \in Traced(store) : /\ t.run = e.run /\ t.approval = e.approval
                                        /\ t.decision = "allow"
                                        /\ t.simulated => e.approval # NoApproval
          /\ e.approval # NoApproval /\ e.approval = store.memory[j].approval => i = j

\* Every decision in the trace can be made again from what the trace names: it
\* is the ruling of the manifest behind the version it names ("the trace records
\* active_world_version ... making it auditable which world made which
\* decision"), and what was simulated had been allowed.
DecisionsNameTheirWorld ==
  \A t \in Traced(store) :
    LET world == IF t.version = 0 THEN NoWorld
                 ELSE ThroughStorage(CompileManifest(ParseManifest(authored[t.version])))
        ruling == EvaluatePolicy(world, Ingest([hidden |-> t.hidden]), t.intent)
    IN t.approval = NoApproval =>
         IF t.simulated THEN ruling.decision = "allow" /\ t.decision = "simulate"
         ELSE t.decision = ruling.decision

\* "Letting you preview decisions before activating": the test tab of the panel
\* decides as the background page does once the draft is active.
DraftPreviewsRuntime ==
  panel.compiled # NoWorld /\ store.active # NoVersion /\ panel.source = store.active.source =>
    \A source \in DOMAIN panel.compiled.trust_lookup, hidden, taint \in BOOLEAN,
       intent \in IntentTypes :
      LET event == [source |-> source, hidden |-> hidden, taint |-> taint]
      IN EvaluatePolicyFromWorld(panel.compiled, event, intent) =
           EvaluatePolicyFromWorld(store.active.compiled, event, intent)
=============================================================================
