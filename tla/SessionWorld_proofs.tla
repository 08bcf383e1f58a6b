-------------------------- MODULE SessionWorld_proofs --------------------------
(***************************************************************************)
(* Theorems about sessions, overlays and the event log, for every set of   *)
(* sessions, overlays, tools and limits.  OneWorker, where it is named,    *)
(* says that no handler starts before the last one is over, as the stores  *)
(* assume ("single-threaded async FastAPI context", session_store.py).     *)
(***************************************************************************)
EXTENDS SessionWorld, DataInduction

OneWorker == \A v, w \in Workers : v = w

-----------------------------------------------------------------------------
(***************************************************************************)
(* Replaying.                                                              *)
(***************************************************************************)

\* t tells a session from the first n events.
Tells(t, events, n) ==
  t = [k \in 0 .. n |-> IF k = 0 THEN NewSession("background") ELSE After(t[k - 1], events[k])]

\* Every log can be told ...
LEMMA LogsAreTold ==
  ASSUME NEW events, NEW n \in Nat
  PROVE  \E t : Tells(t, events, n)
<1> DEFINE G == {m \in Nat : \E t : Tells(t, events, m)}
<1>1. 0 \in G
  <2>1. Tells([k \in 0 .. 0 |-> NewSession("background")], events, 0)
    BY DEF Tells
  <2> QED
    BY <2>1
<1>2. ASSUME NEW m \in Nat, m \in G PROVE m + 1 \in G
  <2>1. PICK t : Tells(t, events, m)
    BY <1>2
  <2> DEFINE u == [k \in 0 .. m + 1 |-> IF k <= m THEN t[k] ELSE After(t[m], events[m + 1])]
  <2>2. \A k \in 0 .. m : t[k] = IF k = 0 THEN NewSession("background") ELSE After(t[k - 1], events[k])
    BY <2>1 DEF Tells
  <2>3. ASSUME NEW k \in 0 .. m + 1
        PROVE  u[k] = IF k = 0 THEN NewSession("background") ELSE After(u[k - 1], events[k])
    <3>1. CASE k = 0
      BY <2>2, <3>1
    <3>2. CASE k # 0 /\ k <= m
      BY <2>2, <3>2
    <3>3. CASE k = m + 1
      BY <3>3
    <3> QED
      BY <3>1, <3>2, <3>3
  <2>4. DOMAIN u = 0 .. m + 1 /\ u = [k \in DOMAIN u |-> u[k]]
    OBVIOUS
  <2> HIDE DEF u
  <2>5. Tells(u, events, m + 1)
    BY <2>3, <2>4 DEF Tells
  <2> QED
    BY <2>5
<1>3. Nat \subseteq G
  <2> HIDE DEF G
  <2> QED
    BY <1>1, <1>2, AllNaturals
<1> QED
  BY <1>3

\* ... in one way, as far as two logs agree.
LEMMA LogsAreToldAlike ==
  ASSUME NEW a, NEW b, NEW n \in Nat, NEW m \in Nat, n <= m,
         \A k \in 1 .. n : a[k] = b[k],
         NEW t, Tells(t, a, n), NEW u, Tells(u, b, m)
  PROVE  t[n] = u[n]
<1> DEFINE G == {k \in Nat : k <= n => t[k] = u[k]}
<1>1. /\ \A k \in 0 .. n : t[k] = IF k = 0 THEN NewSession("background") ELSE After(t[k - 1], a[k])
      /\ \A k \in 0 .. m : u[k] = IF k = 0 THEN NewSession("background") ELSE After(u[k - 1], b[k])
  BY DEF Tells
<1>2. 0 \in G
  BY <1>1
<1>3. ASSUME NEW k \in Nat, k \in G PROVE k + 1 \in G
  <2> SUFFICES ASSUME k + 1 <= n PROVE t[k + 1] = u[k + 1]
    OBVIOUS
  <2>1. k + 1 \in 1 .. n /\ k + 1 \in 0 .. n /\ k + 1 \in 0 .. m /\ (k + 1) - 1 = k /\ k + 1 # 0
    OBVIOUS
  <2>2. t[k + 1] = After(t[k], a[k + 1]) /\ u[k + 1] = After(u[k], b[k + 1])
    BY <1>1, <2>1
  <2>3. t[k] = u[k] /\ a[k + 1] = b[k + 1]
    BY <1>3, <2>1
  <2> QED
    BY <2>2, <2>3
<1>4. Nat \subseteq G
  <2> HIDE DEF G
  <2> QED
    BY <1>2, <1>3, AllNaturals
<1> QED
  BY <1>4

\* No event leaves a new session; one more event is one more step.
LEMMA ReplayFacts ==
  /\ Replay(<<>>) = NewSession("background")
  /\ \A S : \A events \in Seq(S), event \in S :
       Replay(Append(events, event)) = After(Replay(events), event)
<1> DEFINE Told(events) == CHOOSE t : Tells(t, events, Len(events))
<1>1. \A events : Replay(events) = Told(events)[Len(events)]
  BY DEF Replay, Tells
<1>2. \A events : Len(events) \in Nat => Tells(Told(events), events, Len(events))
  BY LogsAreTold
<1> HIDE DEF Told
<1>3. Replay(<<>>) = NewSession("background")
  <2>1. Len(<<>>) = 0
    OBVIOUS
  <2>2. Tells(Told(<<>>), <<>>, 0)
    BY <1>2, <2>1
  <2>3. Told(<<>>)[0] = NewSession("background")
    BY <2>2 DEF Tells
  <2> QED
    BY <1>1, <2>1, <2>3
<1>4. ASSUME NEW S, NEW events \in Seq(S), NEW event \in S
      PROVE  Replay(Append(events, event)) = After(Replay(events), event)
  <2> DEFINE more == Append(events, event)
             n == Len(events)
  <2>1. /\ n \in Nat /\ Len(more) = n + 1 /\ more[n + 1] = event
        /\ \A k \in 1 .. n : events[k] = more[k]
    BY AppendProperties, LenProperties
  <2>2. Tells(Told(events), events, n) /\ Tells(Told(more), more, n + 1)
    <3> HIDE DEF more
    <3>1. Len(more) \in Nat /\ Len(events) \in Nat
      BY <2>1
    <3> QED
      BY <1>2, <2>1, <3>1
  <2> HIDE DEF n, more
  <2>3. Told(events)[n] = Told(more)[n]
    BY <2>1, <2>2, LogsAreToldAlike
  <2>4. Told(more)[n + 1] = After(Told(more)[n], more[n + 1])
    <3>1. n + 1 \in 0 .. n + 1 /\ n + 1 # 0 /\ (n + 1) - 1 = n
      BY <2>1
    <3> QED
      BY <2>2, <3>1 DEF Tells
  <2>5. Replay(more) = Told(more)[n + 1] /\ Replay(events) = Told(events)[n]
    BY <1>1, <2>1 DEF n
  <2> QED
    BY <2>1, <2>3, <2>4, <2>5 DEF more
<1> QED
  BY <1>3, <1>4

-----------------------------------------------------------------------------
(***************************************************************************)
(* The invariant: what is in the stores, and what the log tells while a    *)
(* handler has yet to write its event.                                     *)
(***************************************************************************)
Overlays ==
  [id : OverlayIds, session : Sessions, changes : Changes, createdAt : Nat,
   expiresAt : Nat, detached : BOOLEAN]

Events ==
  [type : {"session_created", "mode_changed"}, mode : Modes]
    \cup [type : {"session_closed"}]
    \cup [type : {"overlay_attached", "overlay_detached"}, id : OverlayIds]

Jobs ==
  {Idle} \cup [pc : {"store", "index"}, session : Sessions, overlay : Overlays]
         \cup [pc : {"unindex"}, session : Sessions, id : OverlayIds]
         \cup [pc : {"log"}, session : Sessions, event : Events]

Stored ==
  /\ clock \in Nat
  /\ Registered \subseteq Sessions
  /\ overlays \in Seq(Overlays)
  /\ log \in [Sessions -> Seq(Events)]
  /\ jobs \in [Workers -> Jobs]

\* Only registered sessions have events, and the log is one event behind while
\* there is a handler that has yet to write it.
Logging(w, s) == jobs[w].pc = "log" /\ jobs[w].session = s

Followed ==
  /\ \A s \in Sessions \ Registered : log[s] = <<>> /\ \A w \in Workers : ~Logging(w, s)
  /\ \A s \in Registered :
       /\ (\A w \in Workers : ~Logging(w, s)) => Replay(log[s]) = sessions[s]
       /\ \A w \in Workers : Logging(w, s) =>
            After(Replay(log[s]), jobs[w].event) = sessions[s]

Audited == Stored /\ Followed

LEMMA StoredInit == Init => Stored
  BY EmptySeq DEF Init, Stored, Registered, Jobs

\* What the program counter says of a job.
LEMMA JobFacts ==
  ASSUME NEW job \in Jobs
  PROVE  /\ job.pc \in {"store", "index"} =>
              /\ job = [pc |-> job.pc, session |-> job.session, overlay |-> job.overlay]
              /\ job.session \in Sessions /\ job.overlay \in Overlays
         /\ job.pc = "unindex" => job.session \in Sessions /\ job.id \in OverlayIds
         /\ job.pc = "log" => job.session \in Sessions /\ job.event \in Events
         /\ job = Idle <=> job.pc = "idle"
  BY DEF Jobs, Idle

LEMMA StoredNext == Stored /\ [Next]_vars => Stored'
<1> SUFFICES ASSUME Stored, [Next]_vars PROVE Stored'
  OBVIOUS
<1> USE DEF Stored
<1>1. ASSUME NEW w \in Workers, NEW s \in Sessions, NEW event \in Events,
             WillLog(w, s, event), UNCHANGED <<clock, overlays, log>>,
             Registered' \subseteq Sessions
      PROVE  Stored'
  <2>1. [pc |-> "log", session |-> s, event |-> event] \in Jobs
    BY DEF Jobs
  <2> QED
    BY <1>1, <2>1 DEF WillLog
<1>2. ASSUME NEW s \in Sessions, NEW value, sessions' = Put(sessions, s, value)
      PROVE  Registered' \subseteq Sessions
  BY <1>2 DEF Put, Registered
<1>3. ASSUME NEW w \in Workers, NEW s \in Sessions, NEW mode \in Modes,
             CreateSession(w, s, mode) \/ SetMode(w, s, mode)
      PROVE  Stored'
  <2>1. /\ [type |-> "session_created", mode |-> mode] \in Events
        /\ [type |-> "mode_changed", mode |-> mode] \in Events
    BY DEF Events
  <2>2. CASE CreateSession(w, s, mode)
    BY <1>1, <1>2, <2>1, <2>2 DEF CreateSession
  <2>3. CASE SetMode(w, s, mode)
    <3>1. Registered' \subseteq Sessions
      BY <2>3 DEF SetMode, Registered
    <3> QED
      BY <1>1, <2>1, <2>3, <3>1 DEF SetMode
  <2> QED
    BY <1>3, <2>2, <2>3
<1>4. ASSUME NEW w \in Workers, NEW s \in Sessions, CloseSession(w, s) PROVE Stored'
  <2>1. [type |-> "session_closed"] \in Events
    BY DEF Events
  <2>2. Registered' \subseteq Sessions
    BY <1>4 DEF CloseSession, Registered
  <2> QED
    BY <1>1, <1>4, <2>1, <2>2 DEF CloseSession
<1>5. ASSUME NEW w \in Workers, NEW s \in Sessions, NEW o \in OverlayIds,
             AttachOverlay(w, s, o) \/ ApproveForSession(w, s, o)
      PROVE  Stored'
  <2>1. PICK changes \in Changes, ttl \in Nat : NewOverlay(w, s, o, changes, ttl)
    BY <1>5, WorldAssumption, NumbersAssumption DEF AttachOverlay, ApproveForSession
  <2> DEFINE overlay == [ id |-> o, session |-> s, changes |-> changes, createdAt |-> clock,
                          expiresAt |-> IF ttl > 0 THEN clock + ttl ELSE NoExpiry,
                          detached |-> FALSE ]
             job == [pc |-> "store", session |-> s, overlay |-> overlay]
  <2>2. overlay \in Overlays
    BY DEF Overlays, NoExpiry
  <2>3. jobs' = [jobs EXCEPT ![w] = job] /\ UNCHANGED <<clock, sessions, overlays, log>>
    BY <2>1 DEF NewOverlay
  <2> HIDE DEF overlay
  <2>4. job \in Jobs
    BY <2>2 DEF Jobs
  <2> HIDE DEF job
  <2> QED
    BY <2>3, <2>4 DEF Registered
<1>6. ASSUME NEW w \in Workers, NEW o \in OverlayIds, DetachOverlay(w, o) PROVE Stored'
  <2>1. PICK i \in DOMAIN overlays :
          /\ overlays[i].id = o
          /\ overlays' = [overlays EXCEPT ![i].detached = TRUE]
          /\ jobs' = [jobs EXCEPT ![w] = [pc |-> "unindex", session |-> overlays[i].session, id |-> o]]
    BY <1>6 DEF DetachOverlay
  <2>2. UNCHANGED <<clock, sessions, log>>
    BY <1>6 DEF DetachOverlay
  <2>3. overlays[i] \in Overlays
    BY ElementOfSeq
  <2>4. [pc |-> "unindex", session |-> overlays[i].session, id |-> o] \in Jobs
    BY <2>3 DEF Jobs, Overlays
  <2>5. [overlays[i] EXCEPT !.detached = TRUE] \in Overlays
    BY <2>3 DEF Overlays
  <2>6. overlays' \in Seq(Overlays)
    BY <2>1, <2>5, ExceptSeq
  <2> QED
    BY <2>1, <2>2, <2>4, <2>6 DEF Registered
<1>7. ASSUME NEW w \in Workers, StoreOverlay(w) PROVE Stored'
  <2>1. /\ jobs[w] = [pc |-> "store", session |-> jobs[w].session, overlay |-> jobs[w].overlay]
        /\ jobs[w].session \in Sessions /\ jobs[w].overlay \in Overlays
    BY <1>7, JobFacts DEF StoreOverlay
  <2>2. [jobs[w] EXCEPT !.pc = "index"] \in Jobs
    BY <2>1 DEF Jobs
  <2>3. overlays' \in Seq(Overlays)
    BY <1>7, <2>1, AppendProperties DEF StoreOverlay
  <2> QED
    BY <1>7, <2>2, <2>3 DEF StoreOverlay, Registered
<1>8. ASSUME NEW w \in Workers, IndexOverlay(w) \/ Unindex(w) PROVE Stored'
  <2> DEFINE s == jobs[w].session
  <2>1. /\ s \in Sessions
        /\ jobs[w].pc = "index" => jobs[w].overlay \in Overlays
        /\ jobs[w].pc = "unindex" => jobs[w].id \in OverlayIds
    BY <1>8, JobFacts DEF IndexOverlay, Unindex
  <2>2. Registered' \subseteq Sessions /\ UNCHANGED <<clock, overlays, log>>
    BY <1>8 DEF IndexOverlay, Unindex, Registered
  <2>3. CASE jobs' = [jobs EXCEPT ![w] = Idle]
    BY <2>2, <2>3 DEF Jobs
  <2>4. CASE jobs[w].pc = "index" /\ WillLog(w, s, [type |-> "overlay_attached", id |-> jobs[w].overlay.id])
    <3>1. [type |-> "overlay_attached", id |-> jobs[w].overlay.id] \in Events
      BY <2>1, <2>4 DEF Events, Overlays
    <3> QED
      BY <1>1, <2>1, <2>2, <2>4, <3>1
  <2>5. CASE jobs[w].pc = "unindex" /\ WillLog(w, s, [type |-> "overlay_detached", id |-> jobs[w].id])
    <3>1. [type |-> "overlay_detached", id |-> jobs[w].id] \in Events
      BY <2>1, <2>5 DEF Events
    <3> QED
      BY <1>1, <2>1, <2>2, <2>5, <3>1
  <2> QED
    BY <1>8, <2>3, <2>4, <2>5 DEF IndexOverlay, Unindex
<1>9. ASSUME NEW w \in Workers, AppendEvent(w) PROVE Stored'
  <2>1. jobs[w].session \in Sessions /\ jobs[w].event \in Events
    BY <1>9, JobFacts DEF AppendEvent
  <2>2. Append(log[jobs[w].session], jobs[w].event) \in Seq(Events)
    BY <2>1, AppendProperties
  <2>3. Idle \in Jobs
    BY DEF Jobs
  <2> QED
    BY <1>9, <2>2, <2>3 DEF AppendEvent, Registered
<1>10. ASSUME NEW s \in Sessions, OpenStream(s) PROVE Stored'
  BY <1>2, <1>10 DEF OpenStream
<1>11. CASE Tick \/ UNCHANGED vars
  BY <1>11 DEF Tick, vars, Registered
<1> QED
  BY <1>3, <1>4, <1>5, <1>6, <1>7, <1>8, <1>9, <1>10, <1>11
     DEF Next, SessionStep, OverlayStep, Continue

\* What After makes of the events that the handlers write.
LEMMA AfterFacts ==
  ASSUME NEW session, NEW mode, NEW o
  PROVE  /\ After(session, [type |-> "session_created", mode |-> mode]) = NewSession(mode)
         /\ After(session, [type |-> "mode_changed", mode |-> mode]) = [session EXCEPT !.mode = mode]
         /\ After(session, [type |-> "session_closed"]) = [session EXCEPT !.state = "closed"]
         /\ After(session, [type |-> "overlay_attached", id |-> o])
              = [session EXCEPT !.overlays = Append(@, o)]
         /\ After(session, [type |-> "overlay_detached", id |-> o])
              = [session EXCEPT !.overlays = Without(@, o)]
  BY DEF After

LEMMA FollowedInit == Init => Followed
  BY DEF Init, Followed, Registered, Logging, Idle

\* A handler changes a session and goes on to write what it did, while no other
\* handler is at work.
LEMMA ChangeFollowed ==
  ASSUME Audited, OneWorker, NEW w \in Workers, jobs[w].pc # "log",
         NEW s \in Sessions, NEW event, WillLog(w, s, event), log' = log,
         Registered' = Registered \cup {s},
         \A t \in Registered \ {s} : sessions'[t] = sessions[t],
         IF s \in Registered THEN sessions'[s] = After(sessions[s], event)
         ELSE \A session : sessions'[s] = After(session, event)
  PROVE  Followed'
<1>1. /\ jobs \in [Workers -> Jobs]
      /\ jobs' = [jobs EXCEPT ![w] = [pc |-> "log", session |-> s, event |-> event]]
  BY DEF Audited, Stored, WillLog
<1>2. \A v \in Workers : v = w
  BY DEF OneWorker
<1>3. /\ \A v \in Workers : \A t : ~Logging(v, t)
      /\ \A v \in Workers : \A t : Logging(v, t)' <=> t = s
      /\ jobs'[w].event = event
  BY <1>1, <1>2 DEF Logging
<1>4. ASSUME NEW t \in Registered'
      PROVE  /\ (\A v \in Workers : ~Logging(v, t)') => Replay(log'[t]) = sessions'[t]
             /\ \A v \in Workers : Logging(v, t)' =>
                  After(Replay(log'[t]), jobs'[v].event) = sessions'[t]
  <2>1. CASE t = s
    <3>1. s \in Registered => Replay(log[s]) = sessions[s]
      BY <1>3 DEF Audited, Followed
    <3>2. After(Replay(log[s]), event) = sessions'[s]
      BY <3>1
    <3> QED
      BY <1>2, <1>3, <2>1, <3>2
  <2>2. CASE t # s
    <3>1. t \in Registered /\ sessions'[t] = sessions[t]
      BY <2>2
    <3>2. Replay(log[t]) = sessions[t]
      BY <1>3, <3>1 DEF Audited, Followed
    <3> QED
      BY <1>3, <2>2, <3>1, <3>2
  <2> QED
    BY <2>1, <2>2
<1>5. ASSUME NEW t \in Sessions \ Registered'
      PROVE  log'[t] = <<>> /\ \A v \in Workers : ~Logging(v, t)'
  BY <1>3, <1>5 DEF Audited, Followed
<1> QED
  BY <1>4, <1>5 DEF Followed, Logging

\* A step that writes to no session and to no log.
LEMMA OtherFollowed ==
  ASSUME Audited, UNCHANGED <<sessions, log>>,
         \A w \in Workers : (jobs[w].pc # "log" /\ jobs'[w].pc # "log") \/ jobs'[w] = jobs[w]
  PROVE  Followed'
<1>1. \A w \in Workers : \A s : Logging(w, s)' <=> Logging(w, s)
  BY DEF Logging
<1>2. \A w \in Workers : \A s : Logging(w, s) => jobs'[w].event = jobs[w].event
  BY DEF Logging
<1> QED
  BY <1>1, <1>2 DEF Audited, Followed, Registered, Logging

LEMMA FollowedNext == Audited /\ OneWorker /\ [Next]_vars => Followed'
<1> SUFFICES ASSUME Audited, OneWorker, [Next]_vars PROVE Followed'
  OBVIOUS
<1>0. /\ jobs \in [Workers -> Jobs] /\ log \in [Sessions -> Seq(Events)]
      /\ Registered \subseteq Sessions
  BY DEF Audited, Stored
<1>1. ASSUME NEW w \in Workers, NEW s \in Sessions, NEW mode \in Modes,
             CreateSession(w, s, mode)
      PROVE  Followed'
  <2>1. /\ jobs[w].pc # "log" /\ s \notin Registered
        /\ sessions' = Put(sessions, s, NewSession(mode)) /\ log' = log
        /\ WillLog(w, s, [type |-> "session_created", mode |-> mode])
    BY <1>1 DEF CreateSession, Idle
  <2>2. /\ Registered' = Registered \cup {s}
        /\ \A t \in Registered \ {s} : sessions'[t] = sessions[t]
        /\ sessions'[s] = NewSession(mode)
    BY <2>1 DEF Put, Registered
  <2>3. \A session : sessions'[s] = After(session, [type |-> "session_created", mode |-> mode])
    BY <2>2, AfterFacts
  <2> QED
    BY <2>1, <2>2, <2>3, ChangeFollowed
<1>2. ASSUME NEW w \in Workers, NEW s \in Sessions, NEW event, NEW session,
             jobs[w].pc # "log", s \in Registered, log' = log,
             sessions' = [sessions EXCEPT ![s] = session],
             session = After(sessions[s], event), WillLog(w, s, event)
      PROVE  Followed'
  <2>1. /\ Registered' = Registered \cup {s}
        /\ \A t \in Registered \ {s} : sessions'[t] = sessions[t]
        /\ sessions'[s] = After(sessions[s], event)
    BY <1>2 DEF Registered
  <2> QED
    BY <1>2, <2>1, ChangeFollowed
<1>3. ASSUME NEW w \in Workers, NEW s \in Sessions, NEW mode \in Modes, SetMode(w, s, mode)
      PROVE  Followed'
  <2>1. /\ jobs[w].pc # "log" /\ s \in Registered /\ log' = log
        /\ sessions' = [sessions EXCEPT ![s] = [sessions[s] EXCEPT !.mode = mode]]
        /\ WillLog(w, s, [type |-> "mode_changed", mode |-> mode])
    BY <1>3 DEF SetMode, Idle
  <2> QED
    BY <1>2, <2>1, AfterFacts
<1>4. ASSUME NEW w \in Workers, NEW s \in Sessions, CloseSession(w, s)
      PROVE  Followed'
  <2>1. /\ jobs[w].pc # "log" /\ s \in Registered /\ log' = log
        /\ sessions' = [sessions EXCEPT ![s] = [sessions[s] EXCEPT !.state = "closed"]]
        /\ WillLog(w, s, [type |-> "session_closed"])
    BY <1>4 DEF CloseSession, Idle
  <2> QED
    BY <1>2, <2>1, AfterFacts
<1>5. ASSUME NEW w \in Workers, IndexOverlay(w) PROVE Followed'
  <2> DEFINE s == jobs[w].session
             o == jobs[w].overlay.id
  <2>1. jobs[w].pc = "index" /\ s \in Sessions /\ log' = log
    BY <1>0, <1>5, JobFacts DEF IndexOverlay
  <2>2. CASE /\ s \in Registered
             /\ sessions' = [sessions EXCEPT ![s].overlays = Append(@, o)]
             /\ WillLog(w, s, [type |-> "overlay_attached", id |-> o])
    <3>1. sessions' = [sessions EXCEPT ![s] = [sessions[s] EXCEPT !.overlays = Append(@, o)]]
      BY <2>2
    <3>2. [sessions[s] EXCEPT !.overlays = Append(@, o)]
            = After(sessions[s], [type |-> "overlay_attached", id |-> o])
      BY AfterFacts
    <3> HIDE DEF s, o
    <3> QED
      BY <1>2, <2>1, <2>2, <3>1, <3>2
  <2>3. CASE sessions' = sessions /\ jobs' = [jobs EXCEPT ![w] = Idle]
    <3>1. \A v \in Workers : (jobs[v].pc # "log" /\ jobs'[v].pc # "log") \/ jobs'[v] = jobs[v]
      BY <1>0, <2>1, <2>3 DEF Idle
    <3> QED
      BY <2>1, <2>3, <3>1, OtherFollowed
  <2> QED
    BY <1>5, <2>2, <2>3 DEF IndexOverlay
<1>6. ASSUME NEW w \in Workers, Unindex(w) PROVE Followed'
  <2> DEFINE s == jobs[w].session
             o == jobs[w].id
  <2>1. jobs[w].pc = "unindex" /\ s \in Sessions /\ log' = log
    BY <1>0, <1>6, JobFacts DEF Unindex
  <2>2. CASE /\ s \in Registered
             /\ sessions' = [sessions EXCEPT ![s].overlays = Without(@, o)]
             /\ WillLog(w, s, [type |-> "overlay_detached", id |-> o])
    <3>1. sessions' = [sessions EXCEPT ![s] = [sessions[s] EXCEPT !.overlays = Without(@, o)]]
      BY <2>2
    <3>2. [sessions[s] EXCEPT !.overlays = Without(@, o)]
            = After(sessions[s], [type |-> "overlay_detached", id |-> o])
      BY AfterFacts
    <3> HIDE DEF s, o
    <3> QED
      BY <1>2, <2>1, <2>2, <3>1, <3>2
  <2>3. CASE sessions' = sessions /\ jobs' = [jobs EXCEPT ![w] = Idle]
    <3>1. \A v \in Workers : (jobs[v].pc # "log" /\ jobs'[v].pc # "log") \/ jobs'[v] = jobs[v]
      BY <1>0, <2>1, <2>3 DEF Idle
    <3> QED
      BY <2>1, <2>3, <3>1, OtherFollowed
  <2> QED
    BY <1>6, <2>2, <2>3 DEF Unindex
<1>7. ASSUME NEW w \in Workers, NEW o \in OverlayIds,
             \/ DetachOverlay(w, o) \/ StoreOverlay(w)
             \/ \E s \in Sessions : AttachOverlay(w, s, o) \/ ApproveForSession(w, s, o)
      PROVE  Followed'
  <2>1. /\ UNCHANGED <<sessions, log>>
        /\ \A v \in Workers : (jobs[v].pc # "log" /\ jobs'[v].pc # "log") \/ jobs'[v] = jobs[v]
    <3>1. CASE DetachOverlay(w, o)
      BY <1>0, <3>1 DEF DetachOverlay, Idle
    <3>2. CASE StoreOverlay(w)
      <4>1. jobs'[w].pc = "index" /\ \A v \in Workers \ {w} : jobs'[v] = jobs[v]
        <5>1. jobs[w].pc = "store" /\ jobs[w] \in Jobs
          BY <1>0, <3>2 DEF StoreOverlay
        <5>2. jobs[w] = [pc |-> jobs[w].pc, session |-> jobs[w].session, overlay |-> jobs[w].overlay]
          BY <5>1, JobFacts
        <5>3. [jobs[w] EXCEPT !.pc = "index"].pc = "index"
          BY <5>2
        <5> QED
          BY <1>0, <3>2, <5>3 DEF StoreOverlay
      <4> QED
        BY <3>2, <4>1 DEF StoreOverlay
    <3>3. CASE \E s \in Sessions : AttachOverlay(w, s, o) \/ ApproveForSession(w, s, o)
      BY <1>0, <3>3 DEF AttachOverlay, ApproveForSession, NewOverlay, Idle
    <3> QED
      BY <1>7, <3>1, <3>2, <3>3
  <2> QED
    BY <2>1, OtherFollowed
<1>8. ASSUME NEW w \in Workers, StoreOverlay(w) PROVE Followed'
  <2>1. jobs[w].overlay.id \in OverlayIds
    BY <1>0, <1>8, JobFacts DEF StoreOverlay, Overlays
  <2> QED
    BY <1>7, <1>8, <2>1
<1>9. ASSUME NEW w \in Workers, AppendEvent(w) PROVE Followed'
  <2> DEFINE s == jobs[w].session
             event == jobs[w].event
  <2>1. /\ jobs[w].pc = "log" /\ s \in Sessions /\ event \in Events
        /\ log' = [log EXCEPT ![s] = Append(log[s], event)]
        /\ jobs' = [jobs EXCEPT ![w] = Idle] /\ sessions' = sessions
    BY <1>0, <1>9, JobFacts DEF AppendEvent
  <2>2. Logging(w, s)
    BY <2>1 DEF Logging
  <2>3. s \in Registered /\ After(Replay(log[s]), event) = sessions[s]
    BY <2>1, <2>2 DEF Audited, Followed
  <2>4. Replay(log'[s]) = sessions[s]
    <3>1. log[s] \in Seq(Events) /\ log'[s] = Append(log[s], event)
      BY <1>0, <2>1
    <3> HIDE DEF s, event
    <3> QED
      BY <2>1, <2>3, <3>1, ReplayFacts
  <2>5. \A v \in Workers : v = w
    BY DEF OneWorker
  <2>6. /\ \A v \in Workers : \A t : ~Logging(v, t)'
        /\ \A v \in Workers : \A t : Logging(v, t) => t = s
    BY <1>0, <2>1, <2>5 DEF Logging, Idle
  <2>7. \A t \in Sessions : t # s => log'[t] = log[t]
    BY <1>0, <2>1
  <2> HIDE DEF s, event
  <2>8. ASSUME NEW t \in Registered PROVE Replay(log'[t]) = sessions[t]
    <3>1. CASE t = s
      BY <2>4, <3>1
    <3>2. CASE t # s
      BY <1>0, <2>6, <2>7, <3>2 DEF Audited, Followed
    <3> QED
      BY <3>1, <3>2
  <2>9. \A t \in Sessions \ Registered : log'[t] = <<>>
    BY <2>3, <2>7 DEF Audited, Followed
  <2> QED
    BY <2>1, <2>6, <2>8, <2>9 DEF Followed, Registered, Logging
<1>10. ASSUME NEW s \in Sessions, OpenStream(s) PROVE Followed'
  <2>1. /\ s \notin Registered /\ sessions' = Put(sessions, s, NewSession("background"))
        /\ UNCHANGED <<log, jobs>>
    BY <1>10 DEF OpenStream
  <2>2. /\ Registered' = Registered \cup {s}
        /\ \A t \in Registered : sessions'[t] = sessions[t]
        /\ sessions'[s] = NewSession("background")
    BY <2>1 DEF Put, Registered
  <2>3. log[s] = <<>> /\ \A w \in Workers : ~Logging(w, s)
    BY <2>1 DEF Audited, Followed
  <2>4. Replay(log[s]) = sessions'[s]
    BY <2>2, <2>3, ReplayFacts
  <2>5. \A w \in Workers : \A t : Logging(w, t)' <=> Logging(w, t)
    BY <2>1 DEF Logging
  <2> QED
    BY <2>1, <2>2, <2>3, <2>4, <2>5 DEF Audited, Followed, Logging
<1>11. CASE Tick \/ UNCHANGED vars
  BY <1>11, OtherFollowed DEF Tick, vars
<1> QED
  BY <1>1, <1>3, <1>4, <1>5, <1>6, <1>7, <1>8, <1>9, <1>10, <1>11
     DEF Next, SessionStep, OverlayStep, Continue

LEMMA FollowedSuffices == Audited => LogReplays
<1> SUFFICES ASSUME Audited, NEW s \in Registered, ~Busy(s)
             PROVE  Replay(log[s]) = sessions[s]
  BY DEF LogReplays
<1>1. \A w \in Workers : ~Logging(w, s)
  BY DEF Busy, Logging, Idle
<1> QED
  BY <1>1 DEF Audited, Followed

\* From the log alone: whatever handlers ran and however many overlays came and
\* went, as long as no two of them were at work at the same time, replaying its
\* log gives the session.
THEOREM LogsTellSessions ==
  ASSUME OneWorker
  PROVE  Spec => []LogReplays
<1>1. Init => Audited
  BY StoredInit, FollowedInit DEF Audited
<1>2. Audited /\ [Next]_vars => Audited'
  BY StoredNext, FollowedNext DEF Audited
<1> QED
  BY <1>1, <1>2, FollowedSuffices, PTL DEF Spec

-----------------------------------------------------------------------------
(***************************************************************************)
(* The two records of an overlay, while one handler runs at a time: its    *)
(* own, and the list of its session.  The list is behind while a handler   *)
(* is between its two writes.                                              *)
(***************************************************************************)

\* The ids of all overlays, and the positions of those attached to a session.
Ids == [i \in DOMAIN overlays |-> overlays[i].id]
Attached(s) == {i \in DOMAIN overlays : overlays[i].session = s /\ ~overlays[i].detached}

Attaching(i) == \E w \in Workers : jobs[w].pc = "index" /\ jobs[w].overlay.id = overlays[i].id
Detaching(i) == \E w \in Workers : jobs[w].pc = "unindex" /\ jobs[w].id = overlays[i].id

\* The positions whose ids are on the list of a session.
OnList(s) ==
  {i \in DOMAIN overlays :
     overlays[i].session = s
       /\ IF overlays[i].detached THEN Detaching(i) ELSE ~Attaching(i)}

\* An id is used once, and time passes between attachments if it passes at all.
InSequence ==
  \A i, j \in DOMAIN overlays :
    /\ overlays[i].id = overlays[j].id => i = j
    /\ i <= j => overlays[i].createdAt <= overlays[j].createdAt
    /\ overlays[i].createdAt <= clock

Reached == Registered \cup Unregistered

\* What a handler knows of the overlay it is at work on.
Underway ==
  \A w \in Workers :
    /\ jobs[w].pc \in {"store", "index"} =>
         /\ jobs[w].overlay.session = jobs[w].session /\ jobs[w].session \in Reached
         /\ ~jobs[w].overlay.detached
    /\ jobs[w].pc = "store" =>
         /\ jobs[w].overlay.id \notin KnownOverlays /\ jobs[w].overlay.createdAt <= clock
         /\ \A i \in DOMAIN overlays : overlays[i].createdAt <= jobs[w].overlay.createdAt
    /\ jobs[w].pc = "index" =>
         Len(overlays) # 0 /\ overlays[Len(overlays)] = jobs[w].overlay
    /\ jobs[w].pc = "unindex" =>
         \E i \in DOMAIN overlays :
           overlays[i].id = jobs[w].id /\ overlays[i].session = jobs[w].session
             /\ overlays[i].detached

Listed ==
  /\ \A i \in DOMAIN overlays : overlays[i].session \in Reached
  /\ \A s \in Registered : "overlays" \in DOMAIN sessions[s]
  /\ \A s \in Registered \ Unregistered : sessions[s].overlays = Part(Ids, OnList(s))

Kept == Stored /\ InSequence /\ Underway /\ Listed

LEMMA KeptInit == Init => Kept
<1> SUFFICES ASSUME Init PROVE Kept
  OBVIOUS
<1>1. DOMAIN overlays = {} /\ Registered = {} /\ \A w \in Workers : jobs[w].pc = "idle"
  BY DEF Init, Registered, Idle
<1>2. QED  BY <1>1, StoredInit DEF Kept, InSequence, Underway, Listed

LEMMA OverlayFacts ==
  ASSUME Kept
  PROVE  /\ Len(overlays) \in Nat /\ DOMAIN overlays = 1 .. Len(overlays)
         /\ \A i \in DOMAIN overlays : overlays[i] \in Overlays /\ overlays[i].createdAt \in Nat
                                      /\ overlays[i].detached \in BOOLEAN
         /\ clock \in Nat
<1>1. overlays \in Seq(Overlays) /\ clock \in Nat
  BY DEF Kept, Stored
<1>2. \A i \in DOMAIN overlays : overlays[i] \in Overlays
  BY <1>1, ElementOfSeq
<1>3. QED  BY <1>1, <1>2, LenProperties DEF Overlays

\* Between the writes of a handler, which overlays are on the lists.
LEMMA Between ==
  ASSUME Kept, OneWorker
  PROVE  /\ (\A w \in Workers : jobs[w].pc \notin {"index", "unindex"}) =>
              \A s : OnList(s) = Attached(s)
         /\ \A w \in Workers : jobs[w].pc = "index" =>
              \A s : OnList(s) = Attached(s) \ {Len(overlays)}
         /\ \A w \in Workers : \A i \in DOMAIN overlays :
              jobs[w].pc = "unindex" /\ overlays[i].id = jobs[w].id /\ overlays[i].detached =>
                \A s : OnList(s) = Attached(s) \cup {j \in {i} : overlays[i].session = s}
<1>1. ASSUME \A w \in Workers : jobs[w].pc \notin {"index", "unindex"}, NEW s
      PROVE  OnList(s) = Attached(s)
  BY <1>1 DEF OnList, Attached, Attaching, Detaching
<1>2. ASSUME NEW w \in Workers, jobs[w].pc = "index", NEW s
      PROVE  OnList(s) = Attached(s) \ {Len(overlays)}
  <2>1. Len(overlays) \in DOMAIN overlays /\ overlays[Len(overlays)] = jobs[w].overlay
    BY <1>2, OverlayFacts DEF Kept, Underway
  <2>2. \A v \in Workers : v = w
    BY DEF OneWorker
  <2>3. \A i \in DOMAIN overlays : ~Detaching(i) /\ (Attaching(i) <=> i = Len(overlays))
    BY <1>2, <2>1, <2>2 DEF Attaching, Detaching, Kept, InSequence
  <2>4. QED  BY <2>3 DEF OnList, Attached
<1>3. ASSUME NEW w \in Workers, NEW i \in DOMAIN overlays, jobs[w].pc = "unindex",
             overlays[i].id = jobs[w].id, overlays[i].detached, NEW s
      PROVE  OnList(s) = Attached(s) \cup {j \in {i} : overlays[i].session = s}
  <2>1. \A v \in Workers : v = w
    BY DEF OneWorker
  <2>2. \A j \in DOMAIN overlays : ~Attaching(j) /\ (Detaching(j) <=> j = i)
    BY <1>3, <2>1 DEF Attaching, Detaching, Kept, InSequence
  <2>3. QED  BY <1>3, <2>2 DEF OnList, Attached
<1>4. QED  BY <1>1, <1>2, <1>3

\* Of a session that no handler is at, all that is attached is on the list.
LEMMA ListOfOthers ==
  ASSUME Kept, OneWorker, NEW s,
         \A w \in Workers : jobs[w].pc \in {"index", "unindex"} => jobs[w].session # s
  PROVE  OnList(s) = Attached(s)
<1>1. ASSUME NEW w \in Workers, jobs[w].pc = "index" PROVE OnList(s) = Attached(s)
  <2>1. Len(overlays) \notin Attached(s)
    BY <1>1 DEF Kept, Underway, Attached
  <2>2. OnList(s) = Attached(s) \ {Len(overlays)}
    BY <1>1, Between
  <2>3. QED  BY <2>1, <2>2
<1>2. ASSUME NEW w \in Workers, jobs[w].pc = "unindex" PROVE OnList(s) = Attached(s)
  <2>1. PICK i \in DOMAIN overlays :
          overlays[i].id = jobs[w].id /\ overlays[i].session = jobs[w].session
            /\ overlays[i].detached
    BY <1>2 DEF Kept, Underway
  <2>2. OnList(s) = Attached(s) \cup {j \in {i} : overlays[i].session = s}
    BY <1>2, <2>1, Between
  <2>3. overlays[i].session # s
    BY <1>2, <2>1
  <2>4. QED  BY <2>2, <2>3
<1>3. QED  BY <1>1, <1>2, Between

\* A step of no overlay: the others, the clock and the writes to sessions.
LEMMA AsideKeeps ==
  ASSUME Kept, Stored', clock <= clock', overlays' = overlays,
         \A w \in Workers : \/ jobs'[w] = jobs[w]
                            \/ jobs[w].pc \in {"idle", "log"} /\ jobs'[w].pc \in {"idle", "log"},
         Registered \subseteq Registered',
         \A s \in Registered' : "overlays" \in DOMAIN sessions'[s],
         \A s \in Registered : sessions'[s].overlays = sessions[s].overlays,
         \A s \in Registered' \ Registered : sessions'[s].overlays = <<>>
  PROVE  Kept'
<1>1. InSequence'
  <2>1. clock \in Nat /\ clock' \in Nat /\ \A i \in DOMAIN overlays : overlays[i].createdAt \in Nat
    BY OverlayFacts DEF Stored
  <2>2. \A i \in DOMAIN overlays : overlays[i].createdAt <= clock'
    BY <2>1 DEF Kept, InSequence
  <2>3. QED  BY <2>2 DEF Kept, InSequence
<1>2. Underway'
  <2> SUFFICES ASSUME NEW w \in Workers
               PROVE  /\ jobs'[w].pc \in {"store", "index"} =>
                           /\ jobs'[w].overlay.session = jobs'[w].session
                           /\ jobs'[w].session \in Reached'
                           /\ ~jobs'[w].overlay.detached
                      /\ jobs'[w].pc = "store" =>
                           /\ jobs'[w].overlay.id \notin KnownOverlays'
                           /\ jobs'[w].overlay.createdAt <= clock'
                           /\ \A i \in DOMAIN overlays' :
                                overlays'[i].createdAt <= jobs'[w].overlay.createdAt
                      /\ jobs'[w].pc = "index" =>
                           Len(overlays') # 0 /\ overlays'[Len(overlays')] = jobs'[w].overlay
                      /\ jobs'[w].pc = "unindex" =>
                           \E i \in DOMAIN overlays' :
                             overlays'[i].id = jobs'[w].id /\ overlays'[i].session = jobs'[w].session
                               /\ overlays'[i].detached
    BY DEF Underway
  <2>1. CASE jobs'[w].pc \in {"idle", "log"}
    BY <2>1
  <2>2. CASE jobs'[w] = jobs[w]
    <3>1. Reached \subseteq Reached' /\ KnownOverlays' = KnownOverlays
      BY DEF Reached, KnownOverlays
    <3>2. jobs[w].pc = "store" => jobs[w].overlay.createdAt <= clock'
      <4>1. jobs[w].pc = "store" => jobs[w].overlay.createdAt \in Nat
        BY JobFacts DEF Kept, Stored, Overlays
      <4>2. clock \in Nat /\ clock' \in Nat
        BY DEF Kept, Stored
      <4>3. QED  BY <4>1, <4>2 DEF Kept, Underway
    <3>3. QED  BY <2>2, <3>1, <3>2 DEF Kept, Underway
  <2>3. QED  BY <2>1, <2>2
<1>3. \A s : OnList(s)' = OnList(s)
  <2>1. \A i : (Attaching(i)' <=> Attaching(i)) /\ (Detaching(i)' <=> Detaching(i))
    BY DEF Attaching, Detaching
  <2>2. QED  BY <2>1 DEF OnList
<1>4. Ids' = Ids
  BY DEF Ids
<1>5. Listed'
  <2>1. \A i \in DOMAIN overlays' : overlays'[i].session \in Reached'
    BY DEF Kept, Listed, Reached
  <2>2. ASSUME NEW s \in Registered' \ Unregistered
        PROVE  sessions'[s].overlays = Part(Ids, OnList(s))
    <3>1. CASE s \in Registered
      BY <3>1 DEF Kept, Listed
    <3>2. CASE s \notin Registered
      <4>1. OnList(s) = {}
        BY <3>2 DEF Kept, Listed, Reached, OnList
      <4>2. QED  BY <3>2, <4>1, PartOfNothing
    <3>3. QED  BY <3>1, <3>2
  <2>3. QED  BY <1>3, <1>4, <2>1, <2>2 DEF Listed
<1>6. QED  BY <1>1, <1>2, <1>5 DEF Kept

\* A write to the list of no session but the one that the handler is at.
LEMMA SettleKeeps ==
  ASSUME Kept, OneWorker, Stored', NEW w \in Workers, jobs[w].pc \in {"index", "unindex"},
         jobs'[w].pc \in {"idle", "log"}, clock' = clock, overlays' = overlays,
         Registered' = Registered,
         \A s \in Registered : "overlays" \in DOMAIN sessions'[s],
         \A s \in Registered \ {jobs[w].session} : sessions'[s].overlays = sessions[s].overlays,
         jobs[w].session \in Registered \ Unregistered =>
           sessions'[jobs[w].session].overlays = Part(Ids, Attached(jobs[w].session))
  PROVE  Kept'
<1>1. \A v \in Workers : jobs'[v].pc \in {"idle", "log"}
  BY DEF OneWorker
<1>2. InSequence' /\ Underway'
  BY <1>1 DEF Kept, InSequence, Underway
<1>3. \A s : OnList(s)' = Attached(s)
  BY <1>1 DEF OnList, Attached, Attaching, Detaching
<1>4. Ids' = Ids
  BY DEF Ids
<1>5. ASSUME NEW s, s # jobs[w].session PROVE OnList(s) = Attached(s)
  <2>1. \A v \in Workers : jobs[v].session # s
    BY <1>5 DEF OneWorker
  <2>2. QED  BY <2>1, ListOfOthers
<1>6. Listed'
  <2>1. ASSUME NEW s \in Registered \ Unregistered
        PROVE  sessions'[s].overlays = Part(Ids, Attached(s))
    <3>1. CASE s = jobs[w].session
      BY <3>1
    <3>2. CASE s # jobs[w].session
      BY <1>5, <3>2 DEF Kept, Listed
    <3>3. QED  BY <3>1, <3>2
  <2>2. QED  BY <1>3, <1>4, <2>1 DEF Kept, Listed, Reached
<1>7. QED  BY <1>2, <1>6 DEF Kept

LEMMA NewOverlayKeeps ==
  ASSUME Kept, OneWorker, Stored', NEW w \in Workers, NEW s \in Reached, NEW o,
         NEW changes, NEW ttl, NewOverlay(w, s, o, changes, ttl)
  PROVE  Kept'
<1> DEFINE overlay == [ id |-> o, session |-> s, changes |-> changes, createdAt |-> clock,
                        expiresAt |-> IF ttl > 0 THEN clock + ttl ELSE NoExpiry,
                        detached |-> FALSE ]
<1>1. /\ jobs[w] = Idle /\ o \notin KnownOverlays
      /\ jobs' = [jobs EXCEPT ![w] = [pc |-> "store", session |-> s, overlay |-> overlay]]
      /\ UNCHANGED <<clock, sessions, overlays, log>>
  BY DEF NewOverlay
<1>2. overlay.id = o /\ overlay.session = s /\ overlay.createdAt = clock /\ ~overlay.detached
  OBVIOUS
<1> HIDE DEF overlay
<1>3. /\ jobs'[w].pc = "store" /\ jobs'[w].session = s /\ jobs'[w].overlay = overlay
      /\ jobs[w].pc = "idle" /\ \A v \in Workers : v = w
  BY <1>1 DEF Kept, Stored, OneWorker, Idle
<1>4. clock \in Nat /\ \A i \in DOMAIN overlays : overlays[i].createdAt <= clock
  BY OverlayFacts DEF Kept, InSequence
<1>5. Underway'
  BY <1>1, <1>2, <1>3, <1>4 DEF Underway, KnownOverlays, Reached, Registered
<1>6. \A t : OnList(t)' = OnList(t)
  BY <1>1, <1>3 DEF OnList, Attaching, Detaching
<1>7. InSequence' /\ Ids' = Ids
  BY <1>1 DEF Kept, InSequence, Ids
<1>8. QED  BY <1>1, <1>5, <1>6, <1>7 DEF Kept, Listed, Reached, Registered

LEMMA StoreOverlayKeeps ==
  ASSUME Kept, OneWorker, Stored', NEW w \in Workers, StoreOverlay(w)
  PROVE  Kept'
<1> DEFINE overlay == jobs[w].overlay
<1>1. /\ jobs[w].pc = "store" /\ overlays' = Append(overlays, overlay)
      /\ jobs' = [jobs EXCEPT ![w].pc = "index"] /\ UNCHANGED <<clock, sessions, log>>
  BY DEF StoreOverlay
<1>2. /\ jobs'[w].pc = "index" /\ jobs'[w].session = jobs[w].session
      /\ jobs'[w].overlay = overlay /\ overlay \in Overlays
  <2>1. jobs \in [Workers -> Jobs] /\ jobs[w] \in Jobs
    BY DEF Kept, Stored
  <2>2. /\ jobs[w] = [pc |-> jobs[w].pc, session |-> jobs[w].session, overlay |-> overlay]
        /\ overlay \in Overlays
    BY <1>1, <2>1, JobFacts
  <2>3. jobs'[w] = [jobs[w] EXCEPT !.pc = "index"]
    BY <1>1, <2>1
  <2>4. QED  BY <2>2, <2>3
<1>3. /\ overlay.session = jobs[w].session /\ overlay.session \in Reached /\ ~overlay.detached
      /\ overlay.id \notin KnownOverlays /\ overlay.createdAt <= clock
      /\ \A i \in DOMAIN overlays : overlays[i].createdAt <= overlay.createdAt
  BY <1>1 DEF Kept, Underway
<1>4. PICK L \in Nat : L = Len(overlays) /\ DOMAIN overlays = 1 .. L /\ overlays \in Seq(Overlays)
  BY OverlayFacts DEF Kept, Stored
<1> HIDE DEF overlay
<1>5. /\ DOMAIN overlays' = 1 .. L + 1 /\ Len(overlays') = L + 1
      /\ overlays'[L + 1] = overlay
      /\ \A i \in 1 .. L : overlays'[i] = overlays[i]
  BY <1>1, <1>2, <1>4, AppendProperties
<1>6. \A i \in 1 .. L + 1 : i \in 1 .. L \/ i = L + 1
  BY <1>4
<1>7. \A v \in Workers : v = w
  BY DEF OneWorker
<1>8. InSequence'
  <2>1. ASSUME NEW i \in 1 .. L + 1, NEW j \in 1 .. L + 1
        PROVE  /\ overlays'[i].id = overlays'[j].id => i = j
               /\ i <= j => overlays'[i].createdAt <= overlays'[j].createdAt
               /\ overlays'[i].createdAt <= clock
    <3>0. overlay.createdAt \in Nat
      BY <1>2 DEF Overlays
    <3>1. CASE i \in 1 .. L /\ j \in 1 .. L
      BY <1>4, <1>5, <3>1 DEF Kept, InSequence
    <3>2. CASE i \in 1 .. L /\ j = L + 1
      BY <1>3, <1>4, <1>5, <3>2 DEF Kept, InSequence, KnownOverlays
    <3>3. CASE i = L + 1 /\ j \in 1 .. L
      <4>1. overlays'[i].id # overlays'[j].id /\ ~(i <= j)
        BY <1>3, <1>4, <1>5, <3>3 DEF KnownOverlays
      <4>2. QED  BY <1>3, <1>5, <3>3, <4>1
    <3>4. CASE i = L + 1 /\ j = L + 1
      BY <1>3, <1>5, <3>0, <3>4
    <3>5. QED  BY <1>6, <3>1, <3>2, <3>3, <3>4
  <2>2. QED  BY <1>1, <1>5, <2>1 DEF InSequence
<1>9. Underway'
  <2>1. L + 1 # 0
    BY <1>4
  <2>2. QED
    BY <1>1, <1>2, <1>3, <1>5, <1>7, <2>1 DEF Underway, Reached, Registered
<1>10. ASSUME NEW s PROVE OnList(s)' = Attached(s) /\ OnList(s) = Attached(s)
  <2>1. \A v \in Workers : jobs[v].pc \notin {"index", "unindex"}
    BY <1>1, <1>7
  <2>2. OnList(s) = Attached(s)
    BY <2>1, Between
  <2>3. ASSUME NEW i \in 1 .. L
        PROVE  i \in OnList(s)' <=> i \in Attached(s)
    <3>1. ~Detaching(i)' /\ ~Attaching(i)'
      <4>1. overlays[i].id # overlay.id
        BY <1>3, <1>4 DEF KnownOverlays
      <4>2. QED  BY <1>2, <1>5, <1>7, <4>1 DEF Attaching, Detaching
    <3>2. i \in 1 .. L + 1
      BY <1>4
    <3>3. QED  BY <1>4, <1>5, <3>1, <3>2 DEF OnList, Attached
  <2>4. L + 1 \notin OnList(s)' /\ L + 1 \notin Attached(s)
    <3>1. Attaching(L + 1)' /\ ~overlays'[L + 1].detached
      BY <1>2, <1>3, <1>5 DEF Attaching
    <3>2. L + 1 \notin 1 .. L
      BY <1>4
    <3>3. QED  BY <1>4, <3>1, <3>2 DEF OnList, Attached
  <2>5. OnList(s)' \subseteq 1 .. L + 1 /\ Attached(s) \subseteq 1 .. L
    BY <1>4, <1>5 DEF OnList, Attached
  <2>6. QED  BY <1>6, <2>2, <2>3, <2>4, <2>5
<1>11. \A s : Part(Ids', Attached(s)) = Part(Ids, Attached(s))
  <2> TAKE s
  <2>1. Attached(s) \in SUBSET (1 .. L) /\ \A i \in 1 .. L : i \in 1 .. L + 1
    BY <1>4 DEF Attached
  <2>2. \A i \in Attached(s) : Ids'[i] = Ids[i]
    BY <1>4, <1>5, <2>1 DEF Ids
  <2>3. QED  BY <1>4, <2>1, <2>2, PartAgrees
<1>12. Listed'
  <2>1. \A i \in 1 .. L + 1 : overlays'[i].session \in Reached
    BY <1>3, <1>4, <1>5, <1>6 DEF Kept, Listed
  <2>2. QED  BY <1>1, <1>5, <1>10, <1>11, <2>1 DEF Kept, Listed, Reached, Registered
<1>13. QED  BY <1>8, <1>9, <1>12 DEF Kept

LEMMA IndexOverlayKeeps ==
  ASSUME Kept, OneWorker, Stored', NEW w \in Workers, IndexOverlay(w)
  PROVE  Kept'
<1> DEFINE s == jobs[w].session
           o == jobs[w].overlay.id
<1>1. jobs[w].pc = "index" /\ UNCHANGED <<clock, overlays, log>> /\ jobs \in [Workers -> Jobs]
  BY DEF IndexOverlay, Kept, Stored
<1>2. PICK L \in Nat : L = Len(overlays) /\ DOMAIN overlays = 1 .. L
  BY OverlayFacts
<1>3. L \in 1 .. L /\ overlays[L] = jobs[w].overlay /\ overlays[L].session = s
      /\ ~overlays[L].detached
  BY <1>1, <1>2 DEF Kept, Underway
<1>4. CASE /\ s \in Registered
           /\ sessions' = [sessions EXCEPT ![s].overlays = Append(@, o)]
           /\ WillLog(w, s, [type |-> "overlay_attached", id |-> o])
  <2>1. jobs'[w].pc = "log"
    BY <1>1, <1>4 DEF WillLog
  <2> HIDE DEF o
  <2>2. "overlays" \in DOMAIN sessions[s]
    BY <1>4 DEF Kept, Listed
  <2>3. /\ Registered' = Registered
        /\ \A t \in Registered \ {s} : sessions'[t] = sessions[t]
        /\ sessions'[s].overlays = Append(sessions[s].overlays, o)
        /\ DOMAIN sessions'[s] = DOMAIN sessions[s]
    BY <1>4, <2>2 DEF Registered
  <2>4. ASSUME s \notin Unregistered
        PROVE  sessions'[s].overlays = Part(Ids, Attached(s))
    <3> HIDE DEF s
    <3>1. sessions[s].overlays = Part(Ids, OnList(s)) /\ OnList(s) = Attached(s) \ {L}
      BY <1>1, <1>2, <1>4, <2>4, Between DEF Kept, Listed
    <3>2. Attached(s) = OnList(s) \cup {L}
      BY <1>2, <1>3, <3>1 DEF Attached
    <3>3. /\ OnList(s) \in SUBSET (1 .. L - 1) /\ L - 1 \in Nat /\ (L - 1) + 1 = L
      BY <1>2, <1>3, <3>1 DEF Attached
    <3>4. Part(Ids, OnList(s) \cup {(L - 1) + 1})
            = Append(Part(Ids, OnList(s)), Ids[(L - 1) + 1])
      BY <3>3, PartOfMore
    <3>5. Ids[L] = o
      BY <1>2, <1>3 DEF Ids, o
    <3>6. QED  BY <2>3, <3>1, <3>2, <3>3, <3>4, <3>5
  <2>5. /\ \A t \in Registered : "overlays" \in DOMAIN sessions'[t]
        /\ \A t \in Registered \ {s} : sessions'[t].overlays = sessions[t].overlays
    <3> HIDE DEF s
    <3>1. QED  BY <2>2, <2>3 DEF Kept, Listed
  <2>6. QED  BY <1>1, <2>1, <2>3, <2>4, <2>5, SettleKeeps
<1>5. CASE s \notin Registered /\ jobs' = [jobs EXCEPT ![w] = Idle] /\ sessions' = sessions
  <2>1. jobs'[w].pc = "idle" /\ Registered' = Registered
    BY <1>1, <1>5 DEF Idle, Registered
  <2>2. QED  BY <1>1, <1>5, <2>1, SettleKeeps DEF Kept, Listed
<1>6. QED  BY <1>4, <1>5 DEF IndexOverlay

LEMMA UnindexKeeps ==
  ASSUME Kept, OneWorker, Stored', NEW w \in Workers, Unindex(w)
  PROVE  Kept'
<1> DEFINE s == jobs[w].session
           o == jobs[w].id
<1>1. jobs[w].pc = "unindex" /\ UNCHANGED <<clock, overlays, log>> /\ jobs \in [Workers -> Jobs]
  BY DEF Unindex, Kept, Stored
<1>2. PICK L \in Nat : L = Len(overlays) /\ DOMAIN overlays = 1 .. L
  BY OverlayFacts
<1>3. PICK i \in DOMAIN overlays :
        overlays[i].id = o /\ overlays[i].session = s /\ overlays[i].detached
  BY <1>1 DEF Kept, Underway
<1>4. CASE /\ s \in Registered
           /\ sessions' = [sessions EXCEPT ![s].overlays = Without(@, o)]
           /\ WillLog(w, s, [type |-> "overlay_detached", id |-> o])
  <2>1. jobs'[w].pc = "log"
    BY <1>1, <1>4 DEF WillLog
  <2>2. "overlays" \in DOMAIN sessions[s]
    BY <1>4 DEF Kept, Listed
  <2>3. /\ Registered' = Registered
        /\ \A t \in Registered \ {s} : sessions'[t] = sessions[t]
        /\ sessions'[s].overlays = Without(sessions[s].overlays, o)
        /\ DOMAIN sessions'[s] = DOMAIN sessions[s]
    <3> HIDE DEF o
    <3>1. QED  BY <1>4, <2>2 DEF Registered
  <2>4. ASSUME s \notin Unregistered
        PROVE  sessions'[s].overlays = Part(Ids, Attached(s))
    <3>1. OnList(s) = Attached(s) \cup {j \in {i} : overlays[i].session = s}
      BY <1>1, <1>3, Between
    <3>2. sessions[s].overlays = Part(Ids, OnList(s))
      BY <1>4, <2>4 DEF Kept, Listed
    <3> HIDE DEF s, o
    <3>3. OnList(s) = Attached(s) \cup {i} /\ OnList(s) \in SUBSET (1 .. L)
      BY <1>2, <1>3, <3>1 DEF Attached
    <3>4. \A j : j \in Attached(s) <=> j \in OnList(s) /\ Ids[j] \notin {o}
      <4>1. \A j \in 1 .. L : Ids[j] = o <=> j = i
        BY <1>2, <1>3 DEF Kept, InSequence, Ids
      <4>2. i \notin Attached(s)
        BY <1>3 DEF Attached
      <4>3. QED  BY <3>3, <4>1, <4>2
    <3> DEFINE list == Part(Ids, OnList(s))
    <3>5. Part(list, Sparing(list, {o})) = Part(Ids, Attached(s))
      <4>1. \A S \in SUBSET (1 .. L) : \A ids, gone, T :
              (\A j : j \in T <=> j \in S /\ ids[j] \notin gone) =>
                Part(Part(ids, S), Sparing(Part(ids, S), gone)) = Part(ids, T)
        BY PartLess
      <4>2. QED  BY <3>3, <3>4, <4>1
    <3> HIDE DEF list
    <3>6. Sparing(list, {o}) = {k \in DOMAIN list : list[k] # o}
      BY DEF Sparing
    <3>7. Without(list, o) = Part(Ids, Attached(s))
      BY <3>5, <3>6 DEF Without
    <3>8. QED  BY <2>3, <3>2, <3>7 DEF list
  <2>5. /\ \A t \in Registered : "overlays" \in DOMAIN sessions'[t]
        /\ \A t \in Registered \ {s} : sessions'[t].overlays = sessions[t].overlays
    <3> HIDE DEF s
    <3>1. QED  BY <2>2, <2>3 DEF Kept, Listed
  <2>6. QED  BY <1>1, <2>1, <2>3, <2>4, <2>5, SettleKeeps
<1>5. CASE s \notin Registered /\ jobs' = [jobs EXCEPT ![w] = Idle] /\ sessions' = sessions
  <2>1. jobs'[w].pc = "idle" /\ Registered' = Registered
    BY <1>1, <1>5 DEF Idle, Registered
  <2>2. QED  BY <1>1, <1>5, <2>1, SettleKeeps DEF Kept, Listed
<1>6. QED  BY <1>4, <1>5 DEF Unindex

LEMMA DetachOverlayKeeps ==
  ASSUME Kept, OneWorker, Stored', NEW w \in Workers, NEW o, DetachOverlay(w, o)
  PROVE  Kept'
<1>1. PICK i \in DOMAIN overlays :
        /\ overlays[i].id = o /\ ~overlays[i].detached
        /\ overlays' = [overlays EXCEPT ![i].detached = TRUE]
        /\ jobs' = [jobs EXCEPT ![w] =
             [pc |-> "unindex", session |-> overlays[i].session, id |-> o]]
  BY DEF DetachOverlay
<1>2. jobs[w].pc = "idle" /\ UNCHANGED <<clock, sessions, log>> /\ \A v \in Workers : v = w
  BY DEF DetachOverlay, Idle, OneWorker
<1>3. /\ jobs'[w].pc = "unindex" /\ jobs'[w].session = overlays[i].session /\ jobs'[w].id = o
  BY <1>1 DEF Kept, Stored
<1>4. /\ DOMAIN overlays' = DOMAIN overlays
      /\ \A j \in DOMAIN overlays \ {i} : overlays'[j] = overlays[j]
      /\ overlays'[i].id = overlays[i].id /\ overlays'[i].session = overlays[i].session
      /\ overlays'[i].createdAt = overlays[i].createdAt /\ overlays'[i].detached
  <2>1. overlays[i] \in Overlays /\ DOMAIN overlays = 1 .. Len(overlays)
    BY OverlayFacts
  <2>2. overlays'[i] = [overlays[i] EXCEPT !.detached = TRUE]
    BY <1>1
  <2>3. QED  BY <1>1, <2>1, <2>2 DEF Overlays
<1>5. \A j \in DOMAIN overlays :
        /\ overlays'[j].id = overlays[j].id /\ overlays'[j].session = overlays[j].session
        /\ overlays'[j].createdAt = overlays[j].createdAt
  BY <1>4
<1>6. InSequence' /\ Ids' = Ids
  BY <1>2, <1>4, <1>5 DEF Kept, InSequence, Ids
<1>7. Underway'
  BY <1>1, <1>2, <1>3, <1>4 DEF Underway
<1>8. ASSUME NEW s PROVE OnList(s)' = OnList(s)
  <2>1. OnList(s) = Attached(s)
    BY <1>2, Between
  <2>2. ASSUME NEW j \in DOMAIN overlays
        PROVE  ~Attaching(j)' /\ (Detaching(j)' <=> j = i)
    BY <1>1, <1>2, <1>3, <1>5 DEF Attaching, Detaching, Kept, InSequence
  <2>3. ASSUME NEW j \in DOMAIN overlays
        PROVE  j \in OnList(s)' <=> j \in Attached(s)
    BY <1>1, <1>4, <2>2 DEF OnList, Attached
  <2>4. OnList(s)' \subseteq DOMAIN overlays /\ Attached(s) \subseteq DOMAIN overlays
    BY <1>4 DEF OnList, Attached
  <2>5. QED  BY <2>1, <2>3, <2>4
<1>9. Listed'
  BY <1>2, <1>4, <1>5, <1>6, <1>8 DEF Kept, Listed, Reached, Registered
<1>10. QED  BY <1>6, <1>7, <1>9 DEF Kept

LEMMA KeptNext == Kept /\ OneWorker /\ [Next]_vars => Kept'
<1> SUFFICES ASSUME Kept, OneWorker, [Next]_vars PROVE Kept'
  OBVIOUS
<1>1. Stored' /\ jobs \in [Workers -> Jobs] /\ clock \in Nat
      /\ \A s \in Registered : "overlays" \in DOMAIN sessions[s]
  BY StoredNext DEF Kept, Stored, Listed
<1>2. ASSUME NEW w \in Workers, NEW s \in Sessions, NEW event, WillLog(w, s, event),
             jobs[w] = Idle, UNCHANGED <<clock, overlays, log>>,
             Registered \subseteq Registered',
             \A t \in Registered' : "overlays" \in DOMAIN sessions'[t],
             \A t \in Registered : sessions'[t].overlays = sessions[t].overlays,
             \A t \in Registered' \ Registered : sessions'[t].overlays = <<>>
      PROVE  Kept'
  <2>1. \A v \in Workers : \/ jobs'[v] = jobs[v]
                           \/ jobs[v].pc \in {"idle", "log"} /\ jobs'[v].pc \in {"idle", "log"}
    BY <1>1, <1>2 DEF WillLog, Idle
  <2>2. QED  BY <1>1, <1>2, <2>1, AsideKeeps
<1>3. ASSUME NEW s, s \notin Registered, NEW mode, sessions' = Put(sessions, s, NewSession(mode))
      PROVE  /\ Registered \subseteq Registered'
             /\ \A t \in Registered' : "overlays" \in DOMAIN sessions'[t]
             /\ \A t \in Registered : sessions'[t].overlays = sessions[t].overlays
             /\ \A t \in Registered' \ Registered : sessions'[t].overlays = <<>>
  <2>1. "overlays" \in DOMAIN NewSession(mode) /\ NewSession(mode).overlays = <<>>
    BY DEF NewSession
  <2>2. QED  BY <1>1, <1>3, <2>1 DEF Put, Registered
<1>4. ASSUME NEW w \in Workers, NEW s \in Sessions, NEW mode \in Modes, CreateSession(w, s, mode)
      PROVE  Kept'
  BY <1>2, <1>3, <1>4 DEF CreateSession
<1>5. ASSUME NEW w \in Workers, NEW s \in Sessions, NEW mode \in Modes, SetMode(w, s, mode)
      PROVE  Kept'
  <2>1. /\ Registered' = Registered
        /\ \A t \in Registered : "overlays" \in DOMAIN sessions'[t]
                                 /\ sessions'[t].overlays = sessions[t].overlays
    BY <1>1, <1>5 DEF SetMode, Registered
  <2>2. QED  BY <1>2, <1>5, <2>1 DEF SetMode
<1>6. ASSUME NEW w \in Workers, NEW s \in Sessions, CloseSession(w, s)
      PROVE  Kept'
  <2>1. /\ Registered' = Registered
        /\ \A t \in Registered : "overlays" \in DOMAIN sessions'[t]
                                 /\ sessions'[t].overlays = sessions[t].overlays
    BY <1>1, <1>6 DEF CloseSession, Registered
  <2>2. QED  BY <1>2, <1>6, <2>1 DEF CloseSession
<1>7. ASSUME NEW w \in Workers, NEW s \in Sessions, NEW o,
             AttachOverlay(w, s, o) \/ ApproveForSession(w, s, o)
      PROVE  Kept'
  <2>1. s \in Reached /\ \E changes, ttl : NewOverlay(w, s, o, changes, ttl)
    BY <1>7 DEF AttachOverlay, ApproveForSession, Reached
  <2>2. QED  BY <1>1, <2>1, NewOverlayKeeps
<1>8. ASSUME NEW w \in Workers, AppendEvent(w) PROVE Kept'
  <2>1. /\ UNCHANGED <<clock, sessions, overlays>>
        /\ \A v \in Workers : \/ jobs'[v] = jobs[v]
                              \/ jobs[v].pc \in {"idle", "log"} /\ jobs'[v].pc \in {"idle", "log"}
    BY <1>1, <1>8 DEF AppendEvent, Idle
  <2>2. QED  BY <1>1, <2>1, AsideKeeps DEF Registered
<1>9. ASSUME NEW s \in Sessions, OpenStream(s) PROVE Kept'
  <2>1. s \notin Registered /\ sessions' = Put(sessions, s, NewSession("background"))
        /\ UNCHANGED <<clock, overlays, log, jobs>>
    BY <1>9 DEF OpenStream
  <2>2. QED  BY <1>1, <1>3, <2>1, AsideKeeps
<1>10. CASE Tick \/ UNCHANGED vars
  <2>1. clock <= clock' /\ UNCHANGED <<sessions, overlays, jobs>>
    BY <1>1, <1>10 DEF Tick, vars
  <2>2. QED  BY <1>1, <2>1, AsideKeeps DEF Registered
<1>11. QED
  BY <1>1, <1>4, <1>5, <1>6, <1>7, <1>8, <1>9, <1>10,
     StoreOverlayKeeps, IndexOverlayKeeps, UnindexKeeps, DetachOverlayKeeps
  DEF Next, SessionStep, OverlayStep, Continue

\* The code's order by time is the order of the positions.
LEMMA InEffectInOrder ==
  Kept => \A s : /\ InEffect(s) \in SUBSET (1 .. Len(overlays))
                 /\ ActiveOverlays(s) = InOrder(InEffect(s))
                 /\ IdsInEffect(s) = Part(Ids, InEffect(s))
<1> SUFFICES ASSUME Kept, NEW s
             PROVE  /\ InEffect(s) \in SUBSET (1 .. Len(overlays))
                    /\ ActiveOverlays(s) = InOrder(InEffect(s))
                    /\ IdsInEffect(s) = Part(Ids, InEffect(s))
  OBVIOUS
<1> DEFINE S == InEffect(s)
           active == ActiveOverlays(s)
           order == InOrder(S)
           C == Cardinality(S)
<1>1. PICK L \in Nat : L = Len(overlays) /\ DOMAIN overlays = 1 .. L
  BY OverlayFacts
<1>2. S \in SUBSET (1 .. L)
  BY <1>1 DEF InEffect
<1>3. ASSUME NEW i \in S
      PROVE  {j \in S : NoLater(j, i)} = UpTo(S, i)
  <2>1. ASSUME NEW j \in S PROVE NoLater(j, i) <=> j <= i
    <3>1. i \in DOMAIN overlays /\ j \in DOMAIN overlays /\ i \in Nat /\ j \in Nat
      BY <1>1, <1>2
    <3>2. overlays[i].createdAt \in Nat /\ overlays[j].createdAt \in Nat
      BY <3>1, OverlayFacts
    <3>3. /\ i <= j => overlays[i].createdAt <= overlays[j].createdAt
          /\ j <= i => overlays[j].createdAt <= overlays[i].createdAt
      BY <3>1 DEF Kept, InSequence
    <3>4. QED  BY <3>1, <3>2, <3>3 DEF NoLater
  <2>2. QED  BY <2>1 DEF UpTo
<1>4. active = [n \in 1 .. C |-> CHOOSE i \in S : Cardinality({j \in S : NoLater(j, i)}) = n]
  BY DEF ActiveOverlays
<1>5. order = [n \in 1 .. C |-> CHOOSE i \in S : Cardinality(UpTo(S, i)) = n]
  BY DEF InOrder, UpTo
<1> HIDE DEF S, active, order
<1>6. ASSUME NEW n \in 1 .. C
      PROVE  active[n] \in S /\ Cardinality(UpTo(S, active[n])) = n
  <2>1. PICK i \in S : Cardinality(UpTo(S, i)) = n
    BY <1>2, EveryPlaceIsTaken
  <2>2. active[n] = CHOOSE k \in S : Cardinality({j \in S : NoLater(j, k)}) = n
    BY <1>4
  <2>3. Cardinality({j \in S : NoLater(j, i)}) = n
    BY <1>3, <2>1
  <2>4. active[n] \in S /\ Cardinality({j \in S : NoLater(j, active[n])}) = n
    BY <2>2, <2>3
  <2>5. QED  BY <1>3, <2>4
<1>7. ASSUME NEW n \in 1 .. C
      PROVE  order[n] \in S /\ Cardinality(UpTo(S, order[n])) = n
  <2>1. PICK i \in S : Cardinality(UpTo(S, i)) = n
    BY <1>2, EveryPlaceIsTaken
  <2>2. order[n] = CHOOSE k \in S : Cardinality(UpTo(S, k)) = n
    BY <1>5
  <2>3. QED  BY <2>1, <2>2
<1>8. ASSUME NEW n \in 1 .. C
      PROVE  active[n] = order[n]
  <2>0. \A i \in S : i \in Nat
    BY <1>2
  <2>1. active[n] \in S /\ order[n] \in S /\ active[n] \in Nat /\ order[n] \in Nat
    BY <1>6, <1>7, <2>0
  <2>2. \A i, j \in S : i < j => Cardinality(UpTo(S, i)) < Cardinality(UpTo(S, j))
    BY <1>2, Ranks
  <2>3. ~(n < n)
    OBVIOUS
  <2>4. ~(active[n] < order[n]) /\ ~(order[n] < active[n])
    BY <1>6, <1>7, <2>1, <2>2, <2>3
  <2>5. QED  BY <2>1, <2>4
<1>9. active = [n \in 1 .. C |-> active[n]]
  <2> DEFINE chosen(n) == CHOOSE i \in S : Cardinality({j \in S : NoLater(j, i)}) = n
  <2>1. active = [n \in 1 .. C |-> chosen(n)]
    BY <1>4
  <2> HIDE DEF chosen
  <2>2. QED  BY <2>1
<1>10. order = [n \in 1 .. C |-> order[n]]
  <2> DEFINE chosen(n) == CHOOSE i \in S : Cardinality(UpTo(S, i)) = n
  <2>1. order = [n \in 1 .. C |-> chosen(n)]
    BY <1>5
  <2> HIDE DEF chosen
  <2>2. QED  BY <2>1
<1>11. active = order
  <2> HIDE DEF C
  <2>1. QED  BY <1>8, <1>9, <1>10
<1>12. IdsInEffect(s) = Part(Ids, S)
  <2>1. \A n \in 1 .. C : overlays[order[n]].id = Ids[order[n]]
    BY <1>1, <1>2, <1>7 DEF Ids
  <2>2. DOMAIN order = 1 .. C
    BY <1>10
  <2>3. IdsInEffect(s) = [n \in 1 .. C |-> overlays[order[n]].id]
    BY <1>11, <2>2 DEF IdsInEffect, active
  <2>4. Part(Ids, S) = [n \in 1 .. C |-> Ids[order[n]]]
    BY DEF Part, order
  <2>5. QED  BY <2>1, <2>3, <2>4
<1>13. QED  BY <1>1, <1>2, <1>11, <1>12 DEF S, active, order

LEMMA KeptSuffices ==
  ASSUME OneWorker
  PROVE  Kept => IndexAgrees
<1> SUFFICES ASSUME Kept, NEW s \in Registered \ Unregistered, ~Busy(s)
             PROVE  LET list == sessions[s].overlays
                        Expired(o) == \A i \in DOMAIN overlays :
                                        overlays[i].id = o => IsExpired(overlays[i])
                    IN  IdsInEffect(s) = Part(list, {k \in DOMAIN list : ~Expired(list[k])})
  BY DEF IndexAgrees
<1> DEFINE list == sessions[s].overlays
           Expired(o) == \A i \in DOMAIN overlays : overlays[i].id = o => IsExpired(overlays[i])
           S == Attached(s)
           gone == {overlays[i].id : i \in {j \in DOMAIN overlays : IsExpired(overlays[j])}}
<1>1. PICK L \in Nat : L = Len(overlays) /\ DOMAIN overlays = 1 .. L
  BY OverlayFacts
<1>2. list = Part(Ids, S)
  <2>1. \A w \in Workers : jobs[w].pc \in {"index", "unindex"} => jobs[w].session # s
    BY DEF Busy, Idle
  <2>2. OnList(s) = S
    BY <2>1, ListOfOthers
  <2>3. QED  BY <2>2 DEF Kept, Listed
<1>3. S \in SUBSET (1 .. L)
  BY <1>1 DEF Attached
<1>4. ASSUME NEW i \in S
      PROVE  /\ Ids[i] = overlays[i].id
             /\ Ids[i] \in gone <=> IsExpired(overlays[i])
             /\ Expired(Ids[i]) <=> IsExpired(overlays[i])
  <2>1. i \in DOMAIN overlays /\ Ids[i] = overlays[i].id
    BY DEF Attached, Ids
  <2>2. \A j \in DOMAIN overlays : overlays[j].id = Ids[i] => j = i
    BY <2>1 DEF Kept, InSequence
  <2> HIDE DEF S
  <2>3. QED  BY <2>1, <2>2
<1>5. \A i : i \in InEffect(s) <=> i \in S /\ Ids[i] \notin gone
  <2>1. \A i : i \in InEffect(s) <=> i \in S /\ ~IsExpired(overlays[i])
    BY DEF InEffect, IsActive, Attached
  <2> HIDE DEF S, gone
  <2>2. QED  BY <1>4, <2>1
<1> HIDE DEF gone, Expired, S
<1>6. Part(Part(Ids, S), Sparing(Part(Ids, S), gone)) = Part(Ids, InEffect(s))
  BY <1>3, <1>5, PartLess
<1>7. ASSUME NEW k \in DOMAIN list
      PROVE  list[k] \notin gone <=> ~Expired(list[k])
  <2>1. \E i \in S : list[k] = Ids[i]
    <3>1. \A n \in 1 .. Cardinality(S) : InOrder(S)[n] \in S
      BY <1>3, OrderLists DEF Lists
    <3>2. /\ DOMAIN Part(Ids, S) = 1 .. Cardinality(S)
          /\ \A n \in 1 .. Cardinality(S) : Part(Ids, S)[n] = Ids[InOrder(S)[n]]
      BY <1>3, PartIsList
    <3>3. QED  BY <1>2, <3>1, <3>2
  <2>2. QED  BY <1>4, <2>1
<1>8. Sparing(list, gone) = {k \in DOMAIN list : ~Expired(list[k])}
  <2> HIDE DEF list
  <2>1. QED  BY <1>7 DEF Sparing
<1>9. IdsInEffect(s) = Part(list, {k \in DOMAIN list : ~Expired(list[k])})
  BY <1>2, <1>6, <1>8, InEffectInOrder
<1>10. QED  BY <1>9 DEF Expired

\* Whatever handlers ran, one at a time, and whatever expired meanwhile: the
\* overlays in effect on a session are those on its list, in its order, but for
\* the expired ones (OverlayService.attach and detach against
\* SessionStore.attach_overlay and detach_overlay).
THEOREM ListsAgree ==
  ASSUME OneWorker
  PROVE  Spec => []IndexAgrees
<1>1. Kept /\ [Next]_vars => Kept'
  BY KeptNext
<1>2. Kept => IndexAgrees
  BY KeptSuffices
<1>3. QED  BY <1>1, <1>2, KeptInit, PTL DEF Spec

-----------------------------------------------------------------------------
(***************************************************************************)
(* The stack of overlays.                                                  *)
(***************************************************************************)
LEMMA StackParts == \A list, positions : Stack!Part(list, positions) = Part(list, positions)
  BY Zenon DEF Part, InOrder, Stack!Part, Stack!InOrder, Cardinality, Stack!Cardinality

LEMMA NextInOrder ==
  Kept' => \A s : /\ InEffect(s)' \in SUBSET (1 .. Len(overlays'))
                  /\ IdsInEffect(s)' = Part(Ids', InEffect(s)')
<1>1. (\A s : /\ InEffect(s) \in SUBSET (1 .. Len(overlays))
              /\ ActiveOverlays(s) = InOrder(InEffect(s))
              /\ IdsInEffect(s) = Part(Ids, InEffect(s)))' <=>
      \A s : /\ InEffect(s)' \in SUBSET (1 .. Len(overlays'))
             /\ ActiveOverlays(s)' = InOrder(InEffect(s)')
             /\ IdsInEffect(s)' = Part(Ids', InEffect(s)')
  OBVIOUS
<1>2. Kept' => (\A s : /\ InEffect(s) \in SUBSET (1 .. Len(overlays))
                       /\ ActiveOverlays(s) = InOrder(InEffect(s))
                       /\ IdsInEffect(s) = Part(Ids, InEffect(s)))'
  BY InEffectInOrder, PTL
<1>3. QED  BY <1>1, <1>2

\* Overlays end and everything else stays.
LEMMA EndsSome ==
  ASSUME Kept, Kept', NEW ended \in SUBSET OverlayIds, DOMAIN overlays' = DOMAIN overlays,
         \A i \in DOMAIN overlays : overlays'[i].id = overlays[i].id,
         \A s : \A i \in DOMAIN overlays :
           i \in InEffect(s)' <=> i \in InEffect(s) /\ overlays[i].id \notin ended
  PROVE  Stack!End(ended)
<1>1. PICK L \in Nat : L = Len(overlays) /\ DOMAIN overlays = 1 .. L
  BY OverlayFacts
<1>2. Ids' = Ids /\ KnownOverlays' = KnownOverlays
  BY DEF Ids, KnownOverlays
<1>3. ASSUME NEW s
      PROVE  IdsInEffect(s)' = Part(IdsInEffect(s), {k \in DOMAIN IdsInEffect(s) :
                                                       IdsInEffect(s)[k] \notin ended})
  <2>1. InEffect(s) \in SUBSET (1 .. L) /\ IdsInEffect(s) = Part(Ids, InEffect(s))
    BY <1>1, InEffectInOrder
  <2>2. IdsInEffect(s)' = Part(Ids, InEffect(s)') /\ InEffect(s)' \in SUBSET (1 .. L)
    <3>1. InEffect(s)' \subseteq DOMAIN overlays'
      BY DEF InEffect
    <3>2. IdsInEffect(s)' = Part(Ids', InEffect(s)')
      BY NextInOrder
    <3>3. QED  BY <1>1, <1>2, <3>1, <3>2
  <2>3. \A i : i \in InEffect(s)' <=> i \in InEffect(s) /\ Ids[i] \notin ended
    BY <1>1, <2>1, <2>2 DEF Ids
  <2>5. Part(Part(Ids, InEffect(s)), Sparing(Part(Ids, InEffect(s)), ended))
          = Part(Ids, InEffect(s)')
    <3>1. \A S \in SUBSET (1 .. L) : \A ids, gone, T :
            (\A j : j \in T <=> j \in S /\ ids[j] \notin gone) =>
              Part(Part(ids, S), Sparing(Part(ids, S), gone)) = Part(ids, T)
      BY PartLess
    <3>2. QED  BY <2>1, <2>3, <3>1
  <2>6. QED  BY <2>1, <2>2, <2>5 DEF Sparing
<1> DEFINE stack == [s \in Sessions |-> IdsInEffect(s)]
<1>4. stack' = [s \in Sessions |->
                  Stack!Part(stack[s], {k \in DOMAIN stack[s] : stack[s][k] \notin ended})]
  BY <1>3, StackParts
<1>5. QED  BY <1>2, <1>4 DEF Stack!End

\* What neither writes an overlay nor moves the clock.
LEMMA StackStays ==
  ASSUME UNCHANGED <<clock, overlays>>
  PROVE  UNCHANGED Stack!stackVars
<1>1. \A s : IdsInEffect(s)' = IdsInEffect(s)
  BY DEF IdsInEffect, ActiveOverlays, InEffect, NoLater, IsActive, IsExpired
<1>2. KnownOverlays' = KnownOverlays
  BY DEF KnownOverlays
<1>3. QED  BY <1>1, <1>2 DEF Stack!stackVars

LEMMA StoreStacks ==
  ASSUME Kept, Kept', NEW w \in Workers, StoreOverlay(w)
  PROVE  Stack!Next
<1> DEFINE overlay == jobs[w].overlay
<1>1. /\ jobs[w].pc = "store" /\ overlays' = Append(overlays, overlay) /\ clock' = clock
  BY DEF StoreOverlay
<1>2. overlay \in Overlays /\ overlay.id \notin KnownOverlays /\ ~overlay.detached
  BY <1>1, JobFacts DEF Kept, Stored, Underway
<1> HIDE DEF overlay
<1>3. PICK o \in OverlayIds, s \in Sessions : o = overlay.id /\ s = overlay.session
  BY <1>2 DEF Overlays
<1>4. PICK L \in Nat : L = Len(overlays) /\ DOMAIN overlays = 1 .. L /\ overlays \in Seq(Overlays)
  BY OverlayFacts DEF Kept, Stored
<1>5. /\ DOMAIN overlays' = 1 .. L + 1 /\ overlays'[L + 1] = overlay
      /\ \A i \in 1 .. L : overlays'[i] = overlays[i]
  BY <1>1, <1>2, <1>4, AppendProperties
<1>6. /\ \A i \in 1 .. L + 1 : i \in 1 .. L \/ i = L + 1
      /\ \A i \in 1 .. L : i \in 1 .. L + 1
      /\ L + 1 \in 1 .. L + 1 /\ L + 1 \notin 1 .. L
  BY <1>4
<1>7. KnownOverlays' = KnownOverlays \cup {o} /\ o \notin KnownOverlays
  BY <1>2, <1>3, <1>4, <1>5, <1>6 DEF KnownOverlays
<1>8. \A x : IsActive(x)' <=> IsActive(x)
  BY <1>1 DEF IsActive, IsExpired
<1>9. \A t : \A i \in 1 .. L : i \in InEffect(t)' <=> i \in InEffect(t)
  BY <1>4, <1>5, <1>6, <1>8 DEF InEffect
<1>10. \A t : L + 1 \in InEffect(t)' <=> t = s /\ IsActive(overlay)
  BY <1>3, <1>5, <1>6, <1>8 DEF InEffect
<1>11. \A t : InEffect(t) \in SUBSET (1 .. L) /\ InEffect(t)' \subseteq 1 .. L + 1
  BY <1>4, <1>5 DEF InEffect
<1>12. ASSUME NEW t PROVE Part(Ids', InEffect(t)) = IdsInEffect(t)
  <2>1. \A i \in InEffect(t) : Ids'[i] = Ids[i]
    BY <1>4, <1>5, <1>6, <1>11 DEF Ids
  <2>2. \A S \in SUBSET (1 .. L) : \A a, b :
          (\A i \in S : a[i] = b[i]) => Part(a, S) = Part(b, S)
    BY PartAgrees
  <2>3. Part(Ids', InEffect(t)) = Part(Ids, InEffect(t))
    BY <1>11, <2>1, <2>2
  <2>4. QED  BY <2>3, InEffectInOrder
<1>13. ASSUME NEW t, L + 1 \notin InEffect(t)'
       PROVE  IdsInEffect(t)' = IdsInEffect(t)
  <2>1. InEffect(t)' = InEffect(t)
    BY <1>6, <1>9, <1>11, <1>13
  <2>2. QED  BY <1>12, <2>1, NextInOrder
<1> DEFINE stack == [t \in Sessions |-> IdsInEffect(t)]
<1>14. CASE ~IsActive(overlay)
  <2>1. stack' = stack
    BY <1>10, <1>13, <1>14
  <2>2. Stack!Miss(o)
    BY <1>7, <2>1 DEF Stack!Miss
  <2>3. QED  BY <2>2 DEF Stack!Next
<1>15. CASE IsActive(overlay)
  <2>1. InEffect(s)' = InEffect(s) \cup {L + 1}
    BY <1>6, <1>9, <1>10, <1>11, <1>15
  <2>2. Part(Ids', InEffect(s) \cup {L + 1}) = Append(Part(Ids', InEffect(s)), Ids'[L + 1])
    <3>1. \A S \in SUBSET (1 .. L) : \A list :
            Part(list, S \cup {L + 1}) = Append(Part(list, S), list[L + 1])
      BY PartOfMore
    <3>2. QED  BY <1>11, <3>1
  <2>3. Ids'[L + 1] = o
    BY <1>3, <1>5, <1>6 DEF Ids
  <2>4. IdsInEffect(s)' = Append(IdsInEffect(s), o)
    BY <1>12, <2>1, <2>2, <2>3, NextInOrder
  <2>5. \A t : t # s => IdsInEffect(t)' = IdsInEffect(t)
    BY <1>10, <1>13
  <2>6. stack' = [stack EXCEPT ![s] = Append(@, o)]
    BY <2>4, <2>5
  <2>7. Stack!Attach(s, o)
    BY <1>7, <2>6 DEF Stack!Attach
  <2>8. QED  BY <2>7 DEF Stack!Next
<1>16. QED  BY <1>14, <1>15

LEMMA DetachStacks ==
  ASSUME Kept, Kept', NEW w \in Workers, NEW o \in OverlayIds, DetachOverlay(w, o)
  PROVE  Stack!Next
<1>1. PICK i \in DOMAIN overlays :
        overlays[i].id = o /\ overlays' = [overlays EXCEPT ![i].detached = TRUE]
  BY DEF DetachOverlay
<1>2. /\ DOMAIN overlays' = DOMAIN overlays
      /\ \A j \in DOMAIN overlays \ {i} : overlays'[j] = overlays[j]
      /\ overlays'[i].id = overlays[i].id /\ overlays'[i].detached
  <2>1. overlays[i] \in Overlays /\ DOMAIN overlays = 1 .. Len(overlays)
    BY OverlayFacts
  <2>2. overlays'[i] = [overlays[i] EXCEPT !.detached = TRUE]
    BY <1>1
  <2>3. QED  BY <1>1, <2>1, <2>2 DEF Overlays
<1>3. \A x : IsActive(x)' <=> IsActive(x)
  BY DEF DetachOverlay, IsActive, IsExpired
<1>4. ASSUME NEW s, NEW j \in DOMAIN overlays
      PROVE  j \in InEffect(s)' <=> j \in InEffect(s) /\ overlays[j].id \notin {o}
  <2>1. overlays[j].id = o <=> j = i
    BY <1>1 DEF Kept, InSequence
  <2>2. CASE j = i
    BY <1>2, <2>1, <2>2 DEF InEffect, IsActive
  <2>3. CASE j # i
    BY <1>2, <1>3, <2>1, <2>3 DEF InEffect
  <2>4. QED  BY <2>2, <2>3
<1>5. \A j \in DOMAIN overlays : overlays'[j].id = overlays[j].id
  BY <1>2
<1>6. {o} \in SUBSET OverlayIds
  OBVIOUS
<1>7. Stack!End({o})
  BY <1>2, <1>4, <1>5, <1>6, EndsSome
<1>8. QED  BY <1>6, <1>7 DEF Stack!Next

LEMMA TickStacks ==
  ASSUME Kept, Kept', Tick
  PROVE  Stack!Next
<1> DEFINE ended == {overlays[i].id : i \in {j \in DOMAIN overlays : IsExpired(overlays[j])'}}
<1>1. overlays' = overlays /\ clock' = clock + 1
  BY DEF Tick
<1>2. ASSUME NEW i \in DOMAIN overlays
      PROVE  /\ overlays[i].id \in OverlayIds
             /\ IsExpired(overlays[i]) => IsExpired(overlays[i])'
             /\ overlays[i].id \in ended <=> IsExpired(overlays[i])'
  <2>1. clock \in Nat /\ overlays[i].expiresAt \in Nat /\ overlays[i].id \in OverlayIds
    BY OverlayFacts DEF Overlays
  <2>2. IsExpired(overlays[i]) => IsExpired(overlays[i])'
    BY <1>1, <2>1 DEF IsExpired
  <2>3. \A j \in DOMAIN overlays : overlays[i].id = overlays[j].id => i = j
    BY DEF Kept, InSequence
  <2>4. QED  BY <2>1, <2>2, <2>3
<1>3. ended \in SUBSET OverlayIds
  BY <1>2
<1>4. ASSUME NEW s, NEW i \in DOMAIN overlays
      PROVE  i \in InEffect(s)' <=> i \in InEffect(s) /\ overlays[i].id \notin ended
  <2> HIDE DEF ended
  <2>1. QED  BY <1>1, <1>2 DEF InEffect, IsActive
<1> HIDE DEF ended
<1>5. Stack!End(ended)
  BY <1>1, <1>3, <1>4, EndsSome
<1>6. QED  BY <1>3, <1>5 DEF Stack!Next

\* Every handler and every tick is a step of the stack of overlays: one is put
\* on top of its session's, some leave, the others keep their order and none
\* comes back (get_active_overlays, which sorts by created_at, and the handlers
\* of OverlayService that write to what it reads).
THEOREM StacksAreKept ==
  ASSUME OneWorker
  PROVE  Spec => KeepsStack
<1>1. Init => Stack!Init
  <2> SUFFICES ASSUME Init PROVE Stack!Init
    OBVIOUS
  <2>1. Kept /\ DOMAIN overlays = {}
    BY KeptInit DEF Init
  <2>2. \A s : InEffect(s) = {}
    BY <2>1 DEF InEffect
  <2>3. \A s : IdsInEffect(s) = <<>>
    BY <2>1, <2>2, InEffectInOrder, PartOfNothing
  <2>4. KnownOverlays = {}
    BY <2>1 DEF KnownOverlays
  <2>5. QED  BY <2>3, <2>4 DEF Stack!Init
<1>2. Kept /\ Kept' /\ [Next]_vars => [Stack!Next]_(Stack!stackVars)
  <2> SUFFICES ASSUME Kept, Kept', [Next]_vars PROVE [Stack!Next]_(Stack!stackVars)
    OBVIOUS
  <2>1. ASSUME NEW w \in Workers, NEW s \in Sessions, NEW mode \in Modes,
               CreateSession(w, s, mode) \/ SetMode(w, s, mode) \/ CloseSession(w, s)
        PROVE  UNCHANGED <<clock, overlays>>
    BY <2>1 DEF CreateSession, SetMode, CloseSession
  <2>2. ASSUME NEW w \in Workers, NEW s \in Sessions, NEW o \in OverlayIds,
               AttachOverlay(w, s, o) \/ ApproveForSession(w, s, o)
        PROVE  UNCHANGED <<clock, overlays>>
    BY <2>2 DEF AttachOverlay, ApproveForSession, NewOverlay
  <2>3. ASSUME NEW w \in Workers, IndexOverlay(w) \/ Unindex(w) \/ AppendEvent(w)
        PROVE  UNCHANGED <<clock, overlays>>
    BY <2>3 DEF IndexOverlay, Unindex, AppendEvent
  <2>4. ASSUME NEW s \in Sessions, OpenStream(s) PROVE UNCHANGED <<clock, overlays>>
    BY <2>4 DEF OpenStream
  <2>5. ASSUME UNCHANGED vars PROVE UNCHANGED <<clock, overlays>>
    BY <2>5 DEF vars
  <2>6. ASSUME NEW w \in Workers, SessionStep(w) PROVE UNCHANGED <<clock, overlays>>
    BY <2>1, <2>6 DEF SessionStep, Modes
  <2>7. QED
    BY <2>2, <2>3, <2>4, <2>5, <2>6, StackStays, StoreStacks, DetachStacks, TickStacks
    DEF Next, OverlayStep, Continue
<1>3. Kept /\ [Next]_vars => Kept'
  BY KeptNext
<1>4. QED  BY <1>1, <1>2, <1>3, KeptInit, PTL DEF Spec, KeepsStack, Stack!Spec

-----------------------------------------------------------------------------
(***************************************************************************)
(* The world that a session sees.                                          *)
(***************************************************************************)

\* w resolves the first n overlays of an order, one after the other.
Resolves(w, order, n) ==
  w = [k \in 0 .. n |->
         IF k = 0 THEN Base ELSE ApplyOverlay(w[k - 1], overlays[order[k]].changes)]

LEMMA WorldsResolve ==
  ASSUME NEW order, NEW n \in Nat
  PROVE  \E w : Resolves(w, order, n)
<1> DEFINE G == {m \in Nat : \E w : Resolves(w, order, m)}
           then(world, k) == ApplyOverlay(world, overlays[order[k]].changes)
<1>1. 0 \in G
  <2>1. Resolves([k \in 0 .. 0 |-> Base], order, 0)
    BY DEF Resolves
  <2>2. QED  BY <2>1
<1>2. ASSUME NEW m \in Nat, m \in G PROVE m + 1 \in G
  <2>1. PICK w : Resolves(w, order, m)
    BY <1>2
  <2> DEFINE u == [k \in 0 .. m + 1 |-> IF k <= m THEN w[k] ELSE then(w[m], m + 1)]
  <2>2. \A k \in 0 .. m : w[k] = IF k = 0 THEN Base ELSE then(w[k - 1], k)
    BY <2>1 DEF Resolves
  <2> HIDE DEF then
  <2>3. ASSUME NEW k \in 0 .. m + 1
        PROVE  u[k] = IF k = 0 THEN Base ELSE then(u[k - 1], k)
    <3>1. CASE k = 0
      BY <2>2, <3>1
    <3>2. CASE k # 0 /\ k <= m
      BY <2>2, <3>2
    <3>3. CASE k = m + 1
      BY <3>3
    <3>4. QED  BY <3>1, <3>2, <3>3
  <2>4. DOMAIN u = 0 .. m + 1 /\ u = [k \in DOMAIN u |-> u[k]]
    OBVIOUS
  <2> HIDE DEF u
  <2>5. Resolves(u, order, m + 1)
    BY <2>3, <2>4 DEF Resolves, then
  <2>6. QED  BY <2>5
<1>3. Nat \subseteq G
  <2> HIDE DEF G
  <2>1. QED  BY <1>1, <1>2, AllNaturals
<1>4. QED  BY <1>3

Holds(world, limit, level) == limit \in DOMAIN world.limits /\ world.limits[limit] = level

\* The last pair that names a key gives its value.
LEMMA MergeAt ==
  ASSUME NEW old, NEW new, NEW key
  PROVE  /\ key \in DOMAIN Merge(old, new) <=> key \in DOMAIN old \/ key \in DOMAIN new
         /\ key \in DOMAIN new => Merge(old, new)[key] = new[key]
         /\ key \in DOMAIN old /\ key \notin DOMAIN new => Merge(old, new)[key] = old[key]
  BY DEF Merge

\* What one overlay does to a tool ...
LEMMA ToolTold ==
  ASSUME NEW world, NEW changes, NEW tool
  PROVE  /\ tool \in changes.hide \cup changes.reveal =>
              (tool \in ApplyOverlay(world, changes).tools <=> tool \in changes.reveal)
         /\ tool \notin changes.hide \cup changes.reveal =>
              (tool \in ApplyOverlay(world, changes).tools <=> tool \in world.tools)
<1>1. ApplyOverlay(world, changes).tools = (world.tools \ changes.hide) \cup changes.reveal
  BY DEF ApplyOverlay
<1>2. QED  BY <1>1

\* ... and to a limit.
LEMMA LimitTold ==
  ASSUME NEW world, NEW changes, NEW limit, NEW level
  PROVE  /\ limit \in DOMAIN changes.widen \cup DOMAIN changes.narrow =>
              (Holds(ApplyOverlay(world, changes), limit, level) <=>
                 (IF limit \in DOMAIN changes.narrow
                  THEN changes.narrow[limit] ELSE changes.widen[limit]) = level)
         /\ limit \notin DOMAIN changes.widen \cup DOMAIN changes.narrow =>
              (Holds(ApplyOverlay(world, changes), limit, level) <=>
                 Holds(world, limit, level))
<1> DEFINE old == world.limits
           widen == changes.widen
           narrow == changes.narrow
           wide == Merge(old, widen)
           all == Merge(wide, narrow)
<1>1. ApplyOverlay(world, changes).limits = all
  BY DEF ApplyOverlay
<1>2. Holds(ApplyOverlay(world, changes), limit, level) <=>
        limit \in DOMAIN all /\ all[limit] = level
  BY <1>1 DEF Holds
<1>3. Holds(world, limit, level) <=> limit \in DOMAIN old /\ old[limit] = level
  BY DEF Holds
<1> HIDE DEF old, widen, narrow
<1>4. /\ limit \in DOMAIN wide <=> limit \in DOMAIN old \/ limit \in DOMAIN widen
      /\ limit \in DOMAIN widen => wide[limit] = widen[limit]
      /\ limit \in DOMAIN old /\ limit \notin DOMAIN widen => wide[limit] = old[limit]
  BY MergeAt
<1> HIDE DEF wide
<1>5. /\ limit \in DOMAIN all <=> limit \in DOMAIN wide \/ limit \in DOMAIN narrow
      /\ limit \in DOMAIN narrow => all[limit] = narrow[limit]
      /\ limit \in DOMAIN wide /\ limit \notin DOMAIN narrow => all[limit] = wide[limit]
  BY MergeAt
<1> HIDE DEF all
<1>6. /\ limit \in DOMAIN widen \cup DOMAIN narrow =>
           (limit \in DOMAIN all /\ all[limit] = level <=>
              (IF limit \in DOMAIN narrow THEN narrow[limit] ELSE widen[limit]) = level)
      /\ limit \notin DOMAIN widen \cup DOMAIN narrow =>
           (limit \in DOMAIN all /\ all[limit] = level <=>
              limit \in DOMAIN old /\ old[limit] = level)
  BY <1>4, <1>5
<1>7. QED  BY <1>2, <1>3, <1>6 DEF widen, narrow

LEMMA LastWordHolds == Kept => LastWordWins
<1> SUFFICES ASSUME Kept, NEW s \in Registered
             PROVE
    LET world == Resolve(s)
        Changed(i) == overlays[i].changes
        Tellers(tool) == {i \in InEffect(s) : tool \in Changed(i).hide \cup Changed(i).reveal}
        Setters(limit) ==
          {i \in InEffect(s) : limit \in DOMAIN Changed(i).widen \cup DOMAIN Changed(i).narrow}
        Level(i, limit) == IF limit \in DOMAIN Changed(i).narrow
                           THEN Changed(i).narrow[limit] ELSE Changed(i).widen[limit]
    IN  /\ \A tool \in Tools : tool \in world.tools <=>
             \/ \E i \in Tellers(tool) : IsLast(i, Tellers(tool)) /\ tool \in Changed(i).reveal
             \/ Tellers(tool) = {} /\ tool \in Base.tools
        /\ \A limit \in Limits, level \in Levels :
             (limit \in DOMAIN world.limits /\ world.limits[limit] = level) <=>
             \/ \E i \in Setters(limit) :
                  IsLast(i, Setters(limit)) /\ Level(i, limit) = level
             \/ /\ Setters(limit) = {}
                /\ limit \in DOMAIN Base.limits /\ Base.limits[limit] = level
  BY DEF LastWordWins
<1> DEFINE Changed(i) == overlays[i].changes
           Tellers(tool) == {i \in InEffect(s) : tool \in Changed(i).hide \cup Changed(i).reveal}
           Setters(limit) ==
             {i \in InEffect(s) : limit \in DOMAIN Changed(i).widen \cup DOMAIN Changed(i).narrow}
           Level(i, limit) == IF limit \in DOMAIN Changed(i).narrow
                              THEN Changed(i).narrow[limit] ELSE Changed(i).widen[limit]
           S == InEffect(s)
           order == ActiveOverlays(s)
           C == Cardinality(S)
<1>1. PICK L \in Nat : S \in SUBSET (1 .. L)
  BY OverlayFacts, InEffectInOrder
<1>2. order = InOrder(S)
  BY InEffectInOrder
<1>3. /\ C \in Nat /\ DOMAIN order = 1 .. C /\ Len(order) = C
      /\ \A n \in 1 .. C : order[n] \in S
  <2>1. Cardinality(S) \in Nat /\ Lists(InOrder(S), Cardinality(S), S)
    BY <1>1, OrderLists
  <2> HIDE DEF S, order
  <2>2. order \in [1 .. C -> S]
    BY <1>2, <2>1 DEF Lists
  <2>3. order = [n \in 1 .. C |-> order[n]]
    BY <2>2
  <2>4. QED  BY <2>1, <2>2, <2>3, LengthOf
<1> DEFINE w == CHOOSE u : Resolves(u, order, C)
<1>4. Resolves(w, order, C)
  BY <1>3, WorldsResolve
<1>5. Resolve(s) = w[C]
  BY <1>3, Zenon DEF Resolve, Resolves
<1> HIDE DEF w, C, order, S
<1>6. /\ w[0] = Base
      /\ \A n \in 1 .. C : n - 1 \in 0 .. C /\ w[n] = ApplyOverlay(w[n - 1], Changed(order[n]))
  <2>1. \A n \in 0 .. C : w[n] = IF n = 0 THEN Base
                                 ELSE ApplyOverlay(w[n - 1], Changed(order[n]))
    BY <1>4 DEF Resolves
  <2>2. 0 \in 0 .. C /\ \A n \in 1 .. C : n \in 0 .. C /\ n # 0 /\ n - 1 \in 0 .. C
    BY <1>3
  <2>3. QED  BY <2>1, <2>2
<1>7. C \in 0 .. C /\ 0 \in 0 .. C /\ \A n \in 1 .. C : n \in 0 .. C
  BY <1>3
<1>8. \A P, Y, H :
        P \subseteq S /\ Y \subseteq P /\ StepsDecide(S, P, Y, H) =>
          (C \in H <=> (\E i \in Y : \A j \in P : j <= i) \/ (P = {} /\ 0 \in H))
  <2>1. \A T \in SUBSET (1 .. L) : \A P, Y, H :
          P \subseteq T /\ Y \subseteq P /\ StepsDecide(T, P, Y, H) =>
            (Cardinality(T) \in H <=>
               (\E i \in Y : \A j \in P : j <= i) \/ (P = {} /\ 0 \in H))
    BY <1>1, LastInOrder
  <2>2. QED  BY <1>1, <2>1 DEF C
<1>9. ASSUME NEW tool \in Tools
      PROVE  tool \in Resolve(s).tools <=>
               \/ \E i \in Tellers(tool) : IsLast(i, Tellers(tool)) /\ tool \in Changed(i).reveal
               \/ Tellers(tool) = {} /\ tool \in Base.tools
  <2> DEFINE P == Tellers(tool)
             Y == {i \in P : tool \in Changed(i).reveal}
             H == {n \in 0 .. C : tool \in w[n].tools}
  <2>1. ASSUME NEW n \in 1 .. C
        PROVE  /\ order[n] \in P => (n \in H <=> order[n] \in Y)
               /\ order[n] \notin P => (n \in H <=> n - 1 \in H)
    <3> DEFINE changes == Changed(order[n])
    <3>1. /\ n \in H <=> tool \in ApplyOverlay(w[n - 1], changes).tools
          /\ n - 1 \in H <=> tool \in w[n - 1].tools
      BY <1>6, <1>7
    <3>2. order[n] \in P <=> tool \in changes.hide \cup changes.reveal
      BY <1>3 DEF S
    <3>3. order[n] \in P => (order[n] \in Y <=> tool \in changes.reveal)
      OBVIOUS
    <3> HIDE DEF changes
    <3>4. \A world :
            /\ tool \in changes.hide \cup changes.reveal =>
                 (tool \in ApplyOverlay(world, changes).tools <=> tool \in changes.reveal)
            /\ tool \notin changes.hide \cup changes.reveal =>
                 (tool \in ApplyOverlay(world, changes).tools <=> tool \in world.tools)
      BY ToolTold
    <3> HIDE DEF H, P, Y
    <3>5. QED  BY <3>1, <3>2, <3>3, <3>4
  <2>2. P \in SUBSET S /\ Y \in SUBSET P
    BY DEF S
  <2>3. C \in H <=> tool \in Resolve(s).tools
    BY <1>5, <1>7
  <2>4. 0 \in H <=> tool \in Base.tools
    BY <1>6, <1>7
  <2>5. (\E i \in Y : \A j \in P : j <= i) <=>
          \E i \in P : IsLast(i, P) /\ tool \in Changed(i).reveal
    BY DEF IsLast
  <2> HIDE DEF P, Y, H
  <2>6. C \in H <=> (\E i \in Y : \A j \in P : j <= i) \/ (P = {} /\ 0 \in H)
    <3>1. \A n \in 1 .. C : /\ order[n] \in P => (n \in H <=> order[n] \in Y)
                            /\ order[n] \notin P => (n \in H <=> n - 1 \in H)
      BY <2>1
    <3>2. StepsDecide(S, P, Y, H)
      BY <1>2, <3>1 DEF StepsDecide, C
    <3>3. QED  BY <1>8, <2>2, <3>2
  <2>7. QED  BY <2>3, <2>4, <2>5, <2>6 DEF P
<1>10. ASSUME NEW limit \in Limits, NEW level \in Levels
      PROVE  Holds(Resolve(s), limit, level) <=>
               \/ \E i \in Setters(limit) : IsLast(i, Setters(limit)) /\ Level(i, limit) = level
               \/ Setters(limit) = {} /\ Holds(Base, limit, level)
  <2> DEFINE P == Setters(limit)
             Y == {i \in P : Level(i, limit) = level}
             H == {n \in 0 .. C : Holds(w[n], limit, level)}
  <2>1. ASSUME NEW n \in 1 .. C
        PROVE  /\ order[n] \in P => (n \in H <=> order[n] \in Y)
               /\ order[n] \notin P => (n \in H <=> n - 1 \in H)
    <3> DEFINE changes == Changed(order[n])
    <3>1. /\ n \in H <=> Holds(ApplyOverlay(w[n - 1], changes), limit, level)
          /\ n - 1 \in H <=> Holds(w[n - 1], limit, level)
      BY <1>6, <1>7
    <3>2. order[n] \in P <=> limit \in DOMAIN changes.widen \cup DOMAIN changes.narrow
      BY <1>3 DEF S
    <3>3. order[n] \in P =>
            (order[n] \in Y <=> (IF limit \in DOMAIN changes.narrow
                                 THEN changes.narrow[limit] ELSE changes.widen[limit]) = level)
      OBVIOUS
    <3> HIDE DEF changes
    <3>4. \A world :
            /\ limit \in DOMAIN changes.widen \cup DOMAIN changes.narrow =>
                 (Holds(ApplyOverlay(world, changes), limit, level) <=>
                    (IF limit \in DOMAIN changes.narrow
                     THEN changes.narrow[limit] ELSE changes.widen[limit]) = level)
            /\ limit \notin DOMAIN changes.widen \cup DOMAIN changes.narrow =>
                 (Holds(ApplyOverlay(world, changes), limit, level) <=>
                    Holds(world, limit, level))
      BY LimitTold
    <3> HIDE DEF H, P, Y
    <3>5. QED  BY <3>1, <3>2, <3>3, <3>4
  <2>2. P \in SUBSET S /\ Y \in SUBSET P
    BY DEF S
  <2>3. C \in H <=> Holds(Resolve(s), limit, level)
    BY <1>5, <1>7
  <2>4. 0 \in H <=> Holds(Base, limit, level)
    BY <1>6, <1>7
  <2>5. (\E i \in Y : \A j \in P : j <= i) <=>
          \E i \in P : IsLast(i, P) /\ Level(i, limit) = level
    BY DEF IsLast
  <2> HIDE DEF P, Y, H, Level
  <2>6. C \in H <=> (\E i \in Y : \A j \in P : j <= i) \/ (P = {} /\ 0 \in H)
    <3>1. \A n \in 1 .. C : /\ order[n] \in P => (n \in H <=> order[n] \in Y)
                            /\ order[n] \notin P => (n \in H <=> n - 1 \in H)
      BY <2>1
    <3>2. StepsDecide(S, P, Y, H)
      BY <1>2, <3>1 DEF StepsDecide, C
    <3>3. QED  BY <1>8, <2>2, <3>2
  <2>7. QED  BY <2>3, <2>4, <2>5, <2>6 DEF P
<1>11. QED  BY <1>9, <1>10 DEF Holds

\* Whatever was attached, ended and in whatever order, one handler at a time: a
\* tool is seen and a limit holds on a session as the overlay attached last
\* among those in effect that speak of it says, and as the manifest says when
\* none does (WorldStateResolver.resolve and _apply_overlay).
THEOREM LastWordsWin ==
  ASSUME OneWorker
  PROVE  Spec => []LastWordWins
<1>1. Kept /\ [Next]_vars => Kept'
  BY KeptNext
<1>2. QED  BY <1>1, LastWordHolds, KeptInit, PTL DEF Spec
=============================================================================
