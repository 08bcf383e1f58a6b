----------------------------- MODULE SessionWorld -----------------------------
(***************************************************************************)
(* The life of control plane sessions and of the overlays that change what *)
(* a session sees: SessionStore, OverlayService, EventStore, the REST      *)
(* handlers that change them (control_plane/api.py) and the view that      *)
(* WorldStateResolver computes for tools/list.                             *)
(*                                                                         *)
(* As in ApprovalFlow the handlers run on the threads of a pool (Workers), *)
(* and a job is a handler between two of its writes.  The code keeps each  *)
(* fact in up to three places - the overlay's own record, the overlay_ids  *)
(* of its session, the event log - and writes them one after the other.    *)
(*                                                                         *)
(* No code in the repository moves a session to "waiting_approval" or to   *)
(* "blocked"; the states here are the two that are left.                   *)
(***************************************************************************)
EXTENDS Naturals, Sequences, FiniteSets, Positions

CONSTANTS
  Sessions,      \* session ids
  OverlayIds,    \* the uuids of overlays
  Tools,         \* tool names
  Limits,        \* a constraint of a tool: the tool and the constraint's key
  Levels,        \* values of constraints
  Base,          \* what the manifest gives: [tools, limits]
  ChangeSets,    \* bodies of POST .../overlays that operators send
  ApprovalSet,   \* what a session-scope allow attaches: one tool revealed
  Ttls,          \* lives of overlays, 0 for "no expiry"
  Unregistered,  \* sessions whose calls are approved though nobody created them
  Workers,       \* threads of the pool
  MaxClock,      \* bound on the clock
  MaxLog         \* bound on the events of each session

PartialLevels == UNION {[on -> Levels] : on \in SUBSET Limits}
World == [tools : SUBSET Tools, limits : PartialLevels]
Changes == [ hide : SUBSET Tools, reveal : SUBSET Tools,
             widen : PartialLevels, narrow : PartialLevels ]

ASSUME WorldAssumption ==
  Base \in World /\ ChangeSets \subseteq Changes /\ ApprovalSet \in Changes
ASSUME SessionsAssumption == Unregistered \subseteq Sessions
ASSUME NumbersAssumption ==
  Ttls \subseteq Nat /\ MaxClock \in Nat /\ MaxLog \in [Sessions -> Nat]

VARIABLES
  clock,     \* datetime.now()
  sessions,  \* SessionStore._sessions
  overlays,  \* OverlayService._overlays, in the order of insertion
  log,       \* EventStore: per session its events, oldest first
  jobs       \* the handler each worker is in

vars == <<clock, sessions, overlays, log, jobs>>

Modes == {"background", "interactive"}

NoExpiry == 0
Idle == [pc |-> "idle"]

-----------------------------------------------------------------------------
(***************************************************************************)
(* WorldStateResolver.                                                     *)
(***************************************************************************)
IsExpired(overlay) == overlay.expiresAt # NoExpiry /\ clock > overlay.expiresAt

IsActive(overlay) == ~overlay.detached /\ ~IsExpired(overlay)

\* The overlays in effect on a session, as positions.
InEffect(s) == {i \in DOMAIN overlays : overlays[i].session = s /\ IsActive(overlays[i])}

\* Whether the sort by created_at leaves i no later than j: it is stable.
NoLater(i, j) ==
  \/ overlays[i].createdAt < overlays[j].createdAt
  \/ overlays[i].createdAt = overlays[j].createdAt /\ i <= j

\* Mutated: newest first.
NewestFirst(s) ==
  [n \in 1 .. Cardinality(InEffect(s)) |->
     CHOOSE i \in InEffect(s) : Cardinality({j \in InEffect(s) : NoLater(i, j)}) = n]

\* get_active_overlays, as positions: by created_at, which a stable sort of the
\* dict's values leaves in insertion order when it is the same.
ActiveOverlays(s) ==
  [n \in 1 .. Cardinality(InEffect(s)) |->
     CHOOSE i \in InEffect(s) : Cardinality({j \in InEffect(s) : NoLater(j, i)}) = n]

\* {**old, **new}
Merge(old, new) ==
  [key \in DOMAIN old \cup DOMAIN new |->
     IF key \in DOMAIN new THEN new[key] ELSE old[key]]

\* Mutated: the two pairs are applied in the other order.
ApplyOverlayReversed(world, changes) ==
  [ tools  |-> (world.tools \cup changes.reveal) \ changes.hide,
    limits |-> Merge(Merge(world.limits, changes.narrow), changes.widen) ]

\* _apply_overlay: hide, then reveal; widen, then narrow.
ApplyOverlay(world, changes) ==
  [ tools  |-> (world.tools \ changes.hide) \cup changes.reveal,
    limits |-> Merge(Merge(world.limits, changes.widen), changes.narrow) ]

\* WorldStateResolver.resolve.
Resolve(s) ==
  LET order == ActiveOverlays(s)
      after[n \in 0 .. Len(order)] ==
        IF n = 0 THEN Base ELSE ApplyOverlay(after[n - 1], overlays[order[n]].changes)
  IN  after[Len(order)]

-----------------------------------------------------------------------------
(***************************************************************************)
(* Sessions.                                                               *)
(***************************************************************************)
Registered == DOMAIN sessions

Put(dict, key, value) ==
  [k \in DOMAIN dict \cup {key} |-> IF k = key THEN value ELSE dict[k]]

\* A list without an id, which is on it once at most.
Without(list, o) == Part(list, {k \in DOMAIN list : list[k] # o})

NewSession(mode) == [mode |-> mode, state |-> "active", overlays |-> <<>>]

HasRoom(s) == Len(log[s]) < MaxLog[s]

\* The handler goes on to append an event to the log of s.
WillLog(w, s, event) ==
  jobs' = [jobs EXCEPT ![w] = [pc |-> "log", session |-> s, event |-> event]]

\* POST /control/sessions; a known id is refused.
CreateSession(w, s, mode) ==
  /\ jobs[w] = Idle /\ HasRoom(s)
  /\ s \notin Registered
  /\ sessions' = Put(sessions, s, NewSession(mode))
  /\ WillLog(w, s, [type |-> "session_created", mode |-> mode])
  /\ UNCHANGED <<clock, overlays, log>>

\* GET /mcp/sse registers its session, and logs nothing.
OpenStream(s) ==
  /\ s \notin Registered \cup Unregistered
  /\ sessions' = Put(sessions, s, NewSession("background"))
  /\ UNCHANGED <<clock, overlays, log, jobs>>

\* PATCH /control/sessions/{id}/mode, whatever the state of the session.
SetMode(w, s, mode) ==
  /\ jobs[w] = Idle /\ HasRoom(s)
  /\ s \in Registered
  /\ sessions' = [sessions EXCEPT ![s].mode = mode]
  /\ WillLog(w, s, [type |-> "mode_changed", mode |-> mode])
  /\ UNCHANGED <<clock, overlays, log>>

\* DELETE /control/sessions/{id}.  The overlays stay.
CloseSession(w, s) ==
  /\ jobs[w] = Idle /\ HasRoom(s)
  /\ s \in Registered
  /\ sessions' = [sessions EXCEPT ![s].state = "closed"]
  /\ WillLog(w, s, [type |-> "session_closed"])
  /\ UNCHANGED <<clock, overlays, log>>

-----------------------------------------------------------------------------
(***************************************************************************)
(* Overlays.                                                               *)
(***************************************************************************)
KnownOverlays == {overlays[i].id : i \in DOMAIN overlays}

\* attach() up to the new SessionOverlay: its uuid and its times are fixed.
NewOverlay(w, s, o, changes, ttl) ==
  /\ jobs[w] = Idle /\ HasRoom(s)
  /\ o \notin KnownOverlays
  /\ \A v \in Workers : jobs[v].pc \in {"store"} => jobs[v].overlay.id # o
  /\ jobs' = [jobs EXCEPT ![w] =
       [ pc |-> "store", session |-> s,
         overlay |-> [ id |-> o, session |-> s, changes |-> changes,
                       createdAt |-> clock,
                       expiresAt |-> IF ttl > 0 THEN clock + ttl ELSE NoExpiry,
                       detached |-> FALSE ] ]]
  /\ UNCHANGED <<clock, sessions, overlays, log>>

\* POST /control/sessions/{id}/overlays looks the session up first ...
AttachOverlay(w, s, o) ==
  /\ s \in Registered
  /\ \E changes \in ChangeSets, ttl \in Ttls : NewOverlay(w, s, o, changes, ttl)

\* ... and respond(), on a session-scope allow, does not.
ApproveForSession(w, s, o) ==
  /\ s \in Registered \cup Unregistered
  /\ NewOverlay(w, s, o, ApprovalSet, 0)

\* self._overlays[oid] = overlay
StoreOverlay(w) ==
  /\ jobs[w].pc = "store"
  /\ overlays' = Append(overlays, jobs[w].overlay)
  /\ jobs' = [jobs EXCEPT ![w].pc = "index"]
  /\ UNCHANGED <<clock, sessions, log>>

\* Mutated: put first.
IndexOverlayFirst(w) ==
  /\ jobs[w].pc = "index"
  /\ LET s == jobs[w].session
         o == jobs[w].overlay.id
     IN  /\ s \in Registered
         /\ sessions' = [sessions EXCEPT ![s].overlays = <<o>> \o @]
         /\ WillLog(w, s, [type |-> "overlay_attached", id |-> o])
  /\ UNCHANGED <<clock, overlays, log>>

\* session_store.attach_overlay; an unknown session is a KeyError.
IndexOverlay(w) ==
  /\ jobs[w].pc = "index"
  /\ LET s == jobs[w].session
         o == jobs[w].overlay.id
     IN  \/ /\ s \in Registered
            /\ sessions' = [sessions EXCEPT ![s].overlays = Append(@, o)]
            /\ WillLog(w, s, [type |-> "overlay_attached", id |-> o])
         \/ /\ s \notin Registered
            /\ jobs' = [jobs EXCEPT ![w] = Idle]
            /\ UNCHANGED sessions
  /\ UNCHANGED <<clock, overlays, log>>

\* DELETE /control/sessions/{id}/overlays/{id} from the address of any session:
\* only that this session exists is looked at.
DetachOverlay(w, o) ==
  /\ jobs[w] = Idle
  /\ Registered # {}
  /\ \E i \in DOMAIN overlays :
       /\ overlays[i].id = o /\ ~overlays[i].detached
       /\ HasRoom(overlays[i].session)
       /\ overlays' = [overlays EXCEPT ![i].detached = TRUE]
       /\ jobs' = [jobs EXCEPT ![w] =
            [pc |-> "unindex", session |-> overlays[i].session, id |-> o]]
  /\ UNCHANGED <<clock, sessions, log>>

\* Mutated: an expired overlay is taken to be off the list already.
UnindexActive(w) ==
  /\ jobs[w].pc = "unindex"
  /\ LET s == jobs[w].session
         o == jobs[w].id
         expired == \E i \in DOMAIN overlays :
                      overlays[i].id = o /\ IsExpired(overlays[i])
     IN  /\ s \in Registered
         /\ sessions' = IF expired THEN sessions
                        ELSE [sessions EXCEPT ![s].overlays = Without(@, o)]
         /\ WillLog(w, s, [type |-> "overlay_detached", id |-> o])
  /\ UNCHANGED <<clock, overlays, log>>

\* session_store.detach_overlay; an unknown session is a KeyError.
Unindex(w) ==
  /\ jobs[w].pc = "unindex"
  /\ LET s == jobs[w].session
         o == jobs[w].id
     IN  \/ /\ s \in Registered
            /\ sessions' = [sessions EXCEPT ![s].overlays = Without(@, o)]
            /\ WillLog(w, s, [type |-> "overlay_detached", id |-> o])
         \/ /\ s \notin Registered
            /\ jobs' = [jobs EXCEPT ![w] = Idle]
            /\ UNCHANGED sessions
  /\ UNCHANGED <<clock, overlays, log>>

\* event_store.append, the last thing every handler here does.
AppendEvent(w) ==
  /\ jobs[w].pc = "log"
  /\ log' = [log EXCEPT ![jobs[w].session] = Append(@, jobs[w].event)]
  /\ jobs' = [jobs EXCEPT ![w] = Idle]
  /\ UNCHANGED <<clock, sessions, overlays>>

-----------------------------------------------------------------------------
Tick ==
  /\ clock < MaxClock
  /\ clock' = clock + 1
  /\ UNCHANGED <<sessions, overlays, log, jobs>>

Init ==
  /\ clock = 0
  /\ sessions = <<>>  \* the function with the empty domain
  /\ overlays = <<>>
  /\ log = [s \in Sessions |-> <<>>]
  /\ jobs = [w \in Workers |-> Idle]

SessionStep(w) ==
  \E s \in Sessions :
    \/ CloseSession(w, s)
    \/ \E mode \in Modes : CreateSession(w, s, mode) \/ SetMode(w, s, mode)

OverlayStep(w) ==
  \E o \in OverlayIds :
    \/ DetachOverlay(w, o)
    \/ \E s \in Sessions : AttachOverlay(w, s, o) \/ ApproveForSession(w, s, o)

Continue(w) == StoreOverlay(w) \/ IndexOverlay(w) \/ Unindex(w) \/ AppendEvent(w)

Next ==
  \/ \E w \in Workers : SessionStep(w) \/ OverlayStep(w) \/ Continue(w)
  \/ \E s \in Sessions : OpenStream(s)
  \/ Tick

Spec == Init /\ [][Next]_vars

-----------------------------------------------------------------------------
(***************************************************************************)
(* Properties.                                                             *)
(***************************************************************************)

Busy(s) == \E w \in Workers : jobs[w] # Idle /\ jobs[w].session = s

\* A session after one more event, and as all of its audit log tells it.
After(session, event) ==
  CASE event.type = "session_created"  -> NewSession(event.mode)
    [] event.type = "mode_changed"     -> [session EXCEPT !.mode = event.mode]
    [] event.type = "session_closed"   -> [session EXCEPT !.state = "closed"]
    [] event.type = "overlay_attached" -> [session EXCEPT !.overlays = Append(@, event.id)]
    [] event.type = "overlay_detached" -> [session EXCEPT !.overlays = Without(@, event.id)]

Replay(events) ==
  LET told[n \in 0 .. Len(events)] ==
        IF n = 0 THEN NewSession("background") ELSE After(told[n - 1], events[n])
  IN  told[Len(events)]

\* "The event log provides a complete, ordered history of what happened in a
\* session": from its log alone an auditor gets the session's mode, whether it
\* was closed and which overlays it has, when no handler is at work on it.
LogReplays ==
  \A s \in Registered : ~Busy(s) => Replay(log[s]) = sessions[s]

\* The ids of the overlays in effect on a session, the strongest last.
IdsInEffect(s) == [k \in DOMAIN ActiveOverlays(s) |-> overlays[ActiveOverlays(s)[k]].id]

\* The overlays that change the world of a session are those on its list, in
\* that order, but for the expired ones: the two records of an overlay agree.
\* Sessions approved before they are created are left out: attach() raises after
\* it stored the overlay, which is in effect without being on any list.
IndexAgrees ==
  \A s \in Registered \ Unregistered : ~Busy(s) =>
    LET list == sessions[s].overlays
        Expired(o) == \A i \in DOMAIN overlays : overlays[i].id = o => IsExpired(overlays[i])
    IN  IdsInEffect(s) = Part(list, {k \in DOMAIN list : ~Expired(list[k])})

\* The position attached last among some.
IsLast(i, positions) == i \in positions /\ \A j \in positions : j <= i

\* "Later entries take precedence", "reveal adds", "narrow always wins": a tool
\* is seen, and a limit holds, as the last overlay that speaks of it says, and
\* as the manifest says when none does.  No other session has a part in it.
LastWordWins ==
  \A s \in Registered :
    LET world == Resolve(s)
        Changed(i) == overlays[i].changes
        Tellers(tool) == {i \in InEffect(s) : tool \in Changed(i).hide \cup Changed(i).reveal}
        Setters(limit) ==
          {i \in InEffect(s) : limit \in DOMAIN Changed(i).widen \cup DOMAIN Changed(i).narrow}
        Level(i, limit) == IF limit \in DOMAIN Changed(i).narrow
                           THEN Changed(i).narrow[limit] ELSE Changed(i).widen[limit]
    IN  /\ \A tool \in Tools : tool \in world.tools <=>
             \/ \E i \in Tellers(tool) : IsLast(i, Tellers(tool)) /\ tool \in Changed(i).reveal
             \/ Tellers(tool) = {} /\ tool \in Base.tools
        /\ \A limit \in Limits, level \in Levels :
             (limit \in DOMAIN world.limits /\ world.limits[limit] = level) <=>
             \/ \E i \in Setters(limit) :
                  IsLast(i, Setters(limit)) /\ Level(i, limit) = level
             \/ /\ Setters(limit) = {}
                /\ limit \in DOMAIN Base.limits /\ Base.limits[limit] = level

Stack == INSTANCE OverlayStack WITH
  stack <- [s \in Sessions |-> IdsInEffect(s)], used <- KnownOverlays

\* Overlays work as a stack per session: a new one takes precedence over all
\* others, one that has ended never returns, and none ever changes sessions.
KeepsStack == Stack!Spec
=============================================================================
