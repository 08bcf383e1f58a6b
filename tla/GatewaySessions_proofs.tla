------------------------ MODULE GatewaySessions_proofs ------------------------
(***************************************************************************)
(* What is proved about the MCP gateway, for any tools, worlds, sessions,  *)
(* profiles and linking policies.                                          *)
(***************************************************************************)
EXTENDS GatewaySessions, TLAPS

LevelNames == {"clean", "elevated", "high"}
Signal == [level : LevelNames, count : Nat, verdict : {"allow", "ask", "deny"}]
Tally == [calls : Nat, refused : Nat]

\* Grants are only ever made for named sessions.
GrantsAreNamed == granted \subseteq Sessions \X Tools

\* A client the tracker has not seen counts as one with fresh signals: so the
\* count is explained for every client, seen or not.
Explained(s) ==
  /\ SignalsOf(s) \in Signal
  /\ SignalsOf(s).count =
       tally[s].calls + (IF s = Anonymous THEN 0 ELSE tally[s].refused)

SignalsExplained ==
  /\ tally \in [Clients -> Tally]
  /\ DOMAIN signals \subseteq Clients
  /\ \A s \in Clients : Explained(s)

\* As long as every write was done, the files say what the memory says.
FilesAgree ==
  /\ disk = [manifests |-> disk.manifests, index |-> disk.index, policy |-> disk.policy]
  /\ ~torn => disk.index = entries /\ disk.policy = rules

-----------------------------------------------------------------------------
(* Operators *)

\* A level has one place on the scale.
LEMMA LevelsAreOrdered == \A level \in LevelNames : TaintIndex(level) \in Int
<1> SUFFICES ASSUME NEW level \in LevelNames
             PROVE  TaintIndex(level) \in Int
  OBVIOUS
<1>1. DOMAIN Levels = 1 .. 3
  BY DEF Levels
<1>2. \E i \in 1 .. 3 : Levels[i] = level
  BY DEF Levels, LevelNames
<1>3. TaintIndex(level) \in 1 .. 3
  BY <1>1, <1>2 DEF TaintIndex
<1> QED
  BY <1>3

LEMMA LevelsAreNames == \A i \in DOMAIN Levels : Levels[i] \in LevelNames
  BY DEF Levels, LevelNames

\* What enforcement lets through is declared, has an adapter, and is allowed or
\* asked about by the policy engine; what it allows outright also meets the
\* world's constraints (ToolCallEnforcer.enforce).
LEMMA EnforcementPermits ==
  ASSUME NEW w, NEW tool \in Tools, NEW args, NEW rule, rule = Enforce(w, tool, args)
  PROVE  /\ rule \in {"allow", "ask"} => /\ tool \in Render(w)
                                         /\ PolicyVerdict[tool] = rule
         /\ rule = "allow" => Allows(w, tool, args)
  BY PolicyAssumption DEF Enforce, Render

LEMMA FreshIsSignal == FreshSignals \in Signal /\ FreshSignals.count = 0
  BY DEF FreshSignals, Signal, LevelNames

LEMMA RecordedIsSignal ==
  ASSUME NEW signal \in Signal, NEW verdict \in {"allow", "ask", "deny"}
  PROVE  /\ Recorded(signal, verdict) \in Signal
         /\ Recorded(signal, verdict).count = signal.count + 1
         /\ Recorded(signal, verdict).level = signal.level
  BY DEF Recorded, Signal

\* The tracker has s now as it was put, and every other client as it was.
LEMMA SignalsPut ==
  ASSUME NEW s, NEW signal, signals' = Put(signals, s, signal)
  PROVE  /\ DOMAIN signals' = DOMAIN signals \cup {s}
         /\ SignalsOf(s)' = signal
         /\ \A t : t # s => SignalsOf(t)' = SignalsOf(t)
<1>1. DOMAIN signals' = DOMAIN signals \cup {s}
  BY DEF Put
<1>2. s \in DOMAIN signals' /\ signals'[s] = signal
  BY DEF Put
<1>3. \A t : t # s => (t \in DOMAIN signals' <=> t \in DOMAIN signals)
  BY <1>1
<1>4. \A t \in DOMAIN signals : t # s => signals'[t] = signals[t]
  BY DEF Put
<1> QED
  BY <1>1, <1>2, <1>3, <1>4 DEF SignalsOf, FreshSignals

-----------------------------------------------------------------------------
(* Dispatch *)

LEMMA GrantsNext == GrantsAreNamed /\ [Next]_gatewayVars => GrantsAreNamed'
<1> SUFFICES ASSUME GrantsAreNamed, [Next]_gatewayVars
             PROVE  GrantsAreNamed'
  OBVIOUS
<1>1. ASSUME NEW s \in Sessions, NEW tool \in Tools, Grant(s, tool)
      PROVE  GrantsAreNamed'
  BY <1>1 DEF Grant, GrantsAreNamed
<1>2. CASE Restart
  BY <1>2 DEF Restart, GrantsAreNamed
<1>3. CASE UNCHANGED granted
  BY <1>3 DEF GrantsAreNamed
<1> QED
  BY <1>1, <1>2, <1>3 DEF Next, gatewayVars, EditManifest, ReloadManifest, SaveManifest,
     BindSession, AssignProfile, UnbindSession, StartRemoval, FinishRemoval, EscalateTaint,
     RestoreProfile, CreateProfile, PostLinkingPolicy, ToolsCall

LEMMA DispatchNext ==
  GrantsAreNamed /\ DispatchedIsPermitted /\ [Next]_gatewayVars => DispatchedIsPermitted'
<1> SUFFICES ASSUME GrantsAreNamed, DispatchedIsPermitted, [Next]_gatewayVars
             PROVE  DispatchedIsPermitted'
  OBVIOUS
<1>1. ASSUME NEW s \in Clients, NEW tool \in Tools, NEW args \in Arguments,
             ToolsCall(s, tool, args)
      PROVE  DispatchedIsPermitted'
  <2>1. PICK w : w = Resolve(s, CallContext(s))
    OBVIOUS
  <2>2. PICK rule : rule = Enforce(w, tool, args)
    OBVIOUS
  <2>3. dispatched' =
          IF rule = "allow" \/ (rule = "ask" /\ <<s, tool>> \in granted)
          THEN [session |-> s, tool |-> tool, args |-> args, world |-> w,
                asked |-> rule = "ask"]
          ELSE dispatched
    BY <1>1, <2>1, <2>2 DEF ToolsCall
  <2>4. /\ rule \in {"allow", "ask"} => tool \in Render(w) /\ PolicyVerdict[tool] = rule
        /\ rule = "allow" => Allows(w, tool, args)
    BY <2>2, EnforcementPermits
  <2>5. CASE rule = "allow"
    <3>1. /\ dispatched'.tool = tool /\ dispatched'.args = args
          /\ dispatched'.world = w /\ dispatched'.asked = FALSE
      BY <2>3, <2>5
    <3> QED
      BY <2>4, <2>5, <3>1 DEF DispatchedIsPermitted, Render, Allows
  <2>6. CASE rule = "ask" /\ <<s, tool>> \in granted
    <3>1. /\ dispatched'.tool = tool /\ dispatched'.session = s
          /\ dispatched'.world = w /\ dispatched'.asked = TRUE
      BY <2>3, <2>6
    <3>2. s # Anonymous
      BY <2>6, AnonymousAssumption DEF GrantsAreNamed
    <3> QED
      BY <2>4, <2>6, <3>1, <3>2 DEF DispatchedIsPermitted, Render
  <2>7. CASE ~(rule = "allow" \/ (rule = "ask" /\ <<s, tool>> \in granted))
    BY <2>3, <2>7 DEF DispatchedIsPermitted, Render, Allows
  <2> QED
    BY <2>5, <2>6, <2>7
<1>2. CASE UNCHANGED dispatched
  BY <1>2 DEF DispatchedIsPermitted, Render, Allows
<1> QED
  BY <1>1, <1>2 DEF Next, gatewayVars, EditManifest, ReloadManifest, SaveManifest,
     BindSession, AssignProfile, UnbindSession, StartRemoval, FinishRemoval, EscalateTaint,
     RestoreProfile, CreateProfile, PostLinkingPolicy, Grant, Restart

\* Whatever worlds, rules and signals: no tool reaches its adapter that the
\* session's world of that moment does not declare and permit, and none that the
\* policy engine asks about without an operator's allow for a named session.
THEOREM DispatchIsPermitted == Spec => []DispatchedIsPermitted
<1>1. Init => GrantsAreNamed /\ DispatchedIsPermitted
  BY DEF Init, GrantsAreNamed, DispatchedIsPermitted
<1>2. /\ GrantsAreNamed /\ DispatchedIsPermitted
      /\ [Next]_gatewayVars
      => (GrantsAreNamed /\ DispatchedIsPermitted)'
  BY GrantsNext, DispatchNext
<1> QED
  BY <1>1, <1>2, PTL DEF Spec

-----------------------------------------------------------------------------
(* Signals *)

\* A step that says nothing of s leaves s explained.
LEMMA ExplainedKept ==
  ASSUME NEW s, Explained(s), SignalsOf(s)' = SignalsOf(s), tally'[s] = tally[s]
  PROVE  Explained(s)'
  BY DEF Explained

LEMMA ExplainedInit == Init => SignalsExplained
<1> SUFFICES ASSUME Init
             PROVE  SignalsExplained
  OBVIOUS
<1>1. tally \in [Clients -> Tally]
  BY DEF Init, NoTally, Tally
<1>2. DOMAIN signals = {}
  BY DEF Init
<1>3. ASSUME NEW s \in Clients
      PROVE  Explained(s)
  <2>1. SignalsOf(s) = FreshSignals
    BY <1>2 DEF SignalsOf
  <2>2. tally[s].calls = 0 /\ tally[s].refused = 0
    BY DEF Init, NoTally
  <2> QED
    BY <2>1, <2>2, FreshIsSignal DEF Explained
<1> QED
  BY <1>1, <1>2, <1>3 DEF SignalsExplained

\* A change of s that leaves its count alone.
LEMMA LevelSet ==
  ASSUME SignalsExplained, NEW s \in Clients, NEW level \in LevelNames,
         signals' = Put(signals, s, [SignalsOf(s) EXCEPT !.level = level]), tally' = tally
  PROVE  SignalsExplained'
<1> DEFINE signal == [SignalsOf(s) EXCEPT !.level = level]
<1>1. Explained(s)
  BY DEF SignalsExplained
<1>2. signal \in Signal /\ signal.count = SignalsOf(s).count
  <2> HIDE DEF Explained
  <2>1. SignalsOf(s) \in Signal
    BY <1>1 DEF Explained
  <2>2. PICK old : old = SignalsOf(s)
    OBVIOUS
  <2>3. [old EXCEPT !.level = level] \in Signal /\ [old EXCEPT !.level = level].count = old.count
    BY <2>1, <2>2 DEF Signal
  <2> QED
    BY <2>2, <2>3
<1> HIDE DEF signal
<1>3. /\ DOMAIN signals' = DOMAIN signals \cup {s}
      /\ SignalsOf(s)' = signal
      /\ \A t : t # s => SignalsOf(t)' = SignalsOf(t)
  BY SignalsPut DEF signal
<1>4. Explained(s)'
  BY <1>1, <1>2, <1>3 DEF Explained
<1>5. \A t \in Clients : t # s => Explained(t)'
  BY <1>3, ExplainedKept DEF SignalsExplained
<1> QED
  BY <1>3, <1>4, <1>5 DEF SignalsExplained

LEMMA CallCounted ==
  ASSUME SignalsExplained, NEW s \in Clients, NEW verdict \in {"allow", "ask", "deny"},
         signals' = Put(signals, s, AfterDecision(s, verdict)), tally' = Counted(s, verdict)
  PROVE  SignalsExplained'
<1> DEFINE signal == AfterDecision(s, verdict)
<1> DEFINE counts == [calls |-> tally[s].calls + 1,
                      refused |-> IF verdict = "allow" THEN tally[s].refused
                                  ELSE tally[s].refused + 1]
<1>1. Explained(s) /\ tally[s] \in Tally
  BY DEF SignalsExplained
<1>2. /\ CallContext(s) \in Signal
      /\ CallContext(s).count = SignalsOf(s).count + 1
  BY <1>1, RecordedIsSignal DEF Explained, CallContext
<1>3. /\ signal \in Signal
      /\ signal.count = IF s # Anonymous /\ verdict # "allow" THEN SignalsOf(s).count + 2
                        ELSE SignalsOf(s).count + 1
  <2>1. CASE s # Anonymous /\ verdict # "allow"
    <3>1. signal = Recorded(CallContext(s), verdict)
      BY <2>1 DEF AfterDecision
    <3>2. signal \in Signal /\ signal.count = CallContext(s).count + 1
      BY <1>2, <3>1, RecordedIsSignal
    <3>3. SignalsOf(s).count \in Nat
      BY <1>1 DEF Explained, Signal
    <3> HIDE DEF signal
    <3> QED
      BY <1>2, <2>1, <3>2, <3>3
  <2>2. CASE ~(s # Anonymous /\ verdict # "allow")
    BY <1>2, <2>2 DEF AfterDecision
  <2> QED
    BY <2>1, <2>2
<1>4. tally' = [tally EXCEPT ![s] = counts] /\ counts \in Tally
  BY <1>1 DEF Counted, Tally, SignalsExplained
<1> HIDE DEF signal
<1>5. /\ DOMAIN signals' = DOMAIN signals \cup {s}
      /\ SignalsOf(s)' = signal
      /\ \A t : t # s => SignalsOf(t)' = SignalsOf(t)
  BY SignalsPut DEF signal
<1>6. tally' \in [Clients -> Tally] /\ tally'[s] = counts
  <2> HIDE DEF counts
  <2> QED
    BY <1>4 DEF SignalsExplained
<1>7. \A t \in Clients : t # s => tally'[t] = tally[t]
  <2> HIDE DEF counts
  <2> QED
    BY <1>4 DEF SignalsExplained
<1>8. Explained(s)'
  <2>1. tally[s].calls \in Nat /\ tally[s].refused \in Nat
    BY <1>1 DEF Tally
  <2>2. /\ tally'[s].calls = tally[s].calls + 1
        /\ tally'[s].refused = IF verdict = "allow" THEN tally[s].refused
                               ELSE tally[s].refused + 1
    BY <1>6
  <2>3. SignalsOf(s).count =
          tally[s].calls + (IF s = Anonymous THEN 0 ELSE tally[s].refused)
    BY <1>1 DEF Explained
  <2>4. signal.count = tally'[s].calls + (IF s = Anonymous THEN 0 ELSE tally'[s].refused)
    BY <1>3, <2>1, <2>2, <2>3
  <2> QED
    BY <1>3, <1>5, <2>4 DEF Explained
<1>9. \A t \in Clients : t # s => Explained(t)'
  BY <1>5, <1>7, ExplainedKept DEF SignalsExplained
<1> QED
  BY <1>5, <1>6, <1>8, <1>9 DEF SignalsExplained

LEMMA ExplainedNext == SignalsExplained /\ [Next]_gatewayVars => SignalsExplained'
<1> SUFFICES ASSUME SignalsExplained, [Next]_gatewayVars
             PROVE  SignalsExplained'
  OBVIOUS
<1>1. ASSUME NEW s \in Sessions, NEW i \in DOMAIN Levels, EscalateTaint(s, Levels[i])
      PROVE  SignalsExplained'
  <2>1. SignalsOf(s).level \in LevelNames
    BY DEF SignalsExplained, Explained, Signal, Clients
  <2>2. PICK level \in LevelNames :
          signals' = Put(signals, s, [SignalsOf(s) EXCEPT !.level = level])
    BY <1>1, <2>1, LevelsAreNames DEF EscalateTaint
  <2> QED
    BY <1>1, <2>2, LevelSet DEF EscalateTaint, Clients
<1>2. ASSUME NEW s \in Sessions, RestoreProfile(s)
      PROVE  SignalsExplained'
  <2>1. signals' = Put(signals, s, [SignalsOf(s) EXCEPT !.level = "clean"])
    BY <1>2 DEF RestoreProfile, SignalsOf
  <2> QED
    BY <1>2, <2>1, LevelSet DEF RestoreProfile, Clients, LevelNames
<1>3. ASSUME NEW s \in Clients, NEW tool \in Tools, NEW args \in Arguments,
             ToolsCall(s, tool, args)
      PROVE  SignalsExplained'
  <2>1. PICK verdict \in {"allow", "ask", "deny"} :
          /\ signals' = Put(signals, s, AfterDecision(s, verdict))
          /\ tally' = Counted(s, verdict)
    BY <1>3 DEF ToolsCall, VerdictOf
  <2> QED
    BY <2>1, CallCounted
<1>4. CASE Restart
  <2>1. tally' = NoTally /\ DOMAIN signals' = {}
    BY <1>4 DEF Restart
  <2>2. tally' \in [Clients -> Tally]
    BY <2>1 DEF NoTally, Tally
  <2>3. ASSUME NEW s \in Clients
        PROVE  Explained(s)'
    <3>1. SignalsOf(s)' = FreshSignals
      BY <2>1 DEF SignalsOf, FreshSignals
    <3>2. tally'[s].calls = 0 /\ tally'[s].refused = 0
      BY <2>1 DEF NoTally
    <3> QED
      BY <3>1, <3>2, FreshIsSignal DEF Explained
  <2> QED
    BY <2>1, <2>2, <2>3 DEF SignalsExplained
<1>5. CASE UNCHANGED <<signals, tally>>
  BY <1>5 DEF SignalsExplained, Explained, SignalsOf
<1> QED
  BY <1>1, <1>2, <1>3, <1>4, <1>5 DEF Next, gatewayVars, EditManifest, ReloadManifest,
     SaveManifest, BindSession, AssignProfile, UnbindSession, StartRemoval, FinishRemoval,
     CreateProfile, PostLinkingPolicy, Grant

\* The counts that linking rules go by are the calls since the start, one each
\* and one more for each that was refused or held in a named session.
THEOREM CountsAreExplained == Spec => []CountsExplained
<1>1. SignalsExplained => CountsExplained
  <2> SUFFICES ASSUME SignalsExplained, NEW s \in DOMAIN signals
               PROVE  signals[s].count =
                        tally[s].calls + (IF s = Anonymous THEN 0 ELSE tally[s].refused)
    BY DEF CountsExplained
  <2> QED
    BY DEF SignalsExplained, Explained, SignalsOf
<1> QED
  BY <1>1, ExplainedInit, ExplainedNext, PTL DEF Spec

\* Between two starts a session's taint sinks only when an operator restores
\* its profile, whatever rules, bindings and calls do.
THEOREM TaintOnlyGrows == Spec => TaintHolds
<1>1. ASSUME SignalsExplained, [Next]_gatewayVars, NEW t \in DOMAIN signals
      PROVE  \/ TaintIndex(signals[t].level) <= TaintIndex(SignalsOf(t)'.level)
             \/ RestoreProfile(t)
             \/ Restart
  <2>1. /\ SignalsOf(t) = signals[t]
        /\ SignalsOf(t).level \in LevelNames
    BY <1>1 DEF SignalsExplained, Explained, SignalsOf, Signal
  <2>2. TaintIndex(SignalsOf(t).level) \in Int
    BY <2>1, LevelsAreOrdered
  <2>3. CASE SignalsOf(t)' = SignalsOf(t)
    BY <2>1, <2>2, <2>3
  <2>4. ASSUME NEW s \in Sessions, NEW i \in DOMAIN Levels, EscalateTaint(s, Levels[i])
        PROVE  TaintIndex(SignalsOf(t).level) <= TaintIndex(SignalsOf(t)'.level)
    <3>1. CASE t = s
      <4>1. PICK level : level = IF TaintIndex(Levels[i]) > TaintIndex(SignalsOf(s).level)
                                 THEN Levels[i] ELSE SignalsOf(s).level
        OBVIOUS
      <4>2. SignalsOf(s)' = [SignalsOf(s) EXCEPT !.level = level]
        BY <2>4, <4>1, SignalsPut DEF EscalateTaint
      <4>3. SignalsOf(s)'.level = level
        <5>1. PICK old : old = SignalsOf(s) /\ old \in Signal
          BY <1>1, <2>4 DEF SignalsExplained, Explained, Clients
        <5>2. [old EXCEPT !.level = level].level = level
          BY <5>1 DEF Signal
        <5> QED
          BY <4>2, <5>1, <5>2
      <4>4. TaintIndex(Levels[i]) \in Int
        BY <2>4, LevelsAreNames, LevelsAreOrdered
      <4>5. TaintIndex(SignalsOf(t).level) <= TaintIndex(level)
        BY <2>2, <3>1, <4>1, <4>4
      <4> QED
        BY <3>1, <4>3, <4>5
    <3>2. CASE t # s
      <4>1. SignalsOf(t)' = SignalsOf(t)
        BY <2>4, <3>2, SignalsPut DEF EscalateTaint
      <4> QED
        BY <2>2, <4>1
    <3> QED
      BY <3>1, <3>2
  <2>5. ASSUME NEW s \in Sessions, RestoreProfile(s), t # s
        PROVE  SignalsOf(t)' = SignalsOf(t)
    BY <2>5, SignalsPut DEF RestoreProfile
  <2>6. ASSUME NEW s \in Clients, NEW tool \in Tools, NEW args \in Arguments,
               ToolsCall(s, tool, args)
        PROVE  TaintIndex(SignalsOf(t).level) <= TaintIndex(SignalsOf(t)'.level)
    <3>1. PICK verdict \in {"allow", "ask", "deny"} :
            signals' = Put(signals, s, AfterDecision(s, verdict))
      BY <2>6 DEF ToolsCall, VerdictOf
    <3>2. CASE t = s
      <4>1. SignalsOf(s) \in Signal
        BY <1>1, <2>6 DEF SignalsExplained, Explained
      <4>2. CallContext(s) \in Signal /\ CallContext(s).level = SignalsOf(s).level
        BY <4>1, RecordedIsSignal DEF CallContext
      <4>3. AfterDecision(s, verdict).level = SignalsOf(s).level
        <5>1. Recorded(CallContext(s), verdict).level = CallContext(s).level
          BY <4>2, RecordedIsSignal
        <5> QED
          BY <4>2, <5>1 DEF AfterDecision
      <4>4. SignalsOf(s)' = AfterDecision(s, verdict)
        BY <3>1, SignalsPut
      <4> QED
        BY <2>2, <3>2, <4>3, <4>4
    <3>3. CASE t # s
      <4>1. SignalsOf(t)' = SignalsOf(t)
        BY <3>1, <3>3, SignalsPut
      <4> QED
        BY <2>2, <4>1
    <3> QED
      BY <3>2, <3>3
  <2>7. CASE UNCHANGED signals
    BY <2>3, <2>7 DEF SignalsOf, FreshSignals
  <2> QED
    BY <1>1, <2>1, <2>3, <2>4, <2>5, <2>6, <2>7 DEF Next, gatewayVars, EditManifest,
       ReloadManifest, SaveManifest, BindSession, AssignProfile, UnbindSession, StartRemoval,
       FinishRemoval, CreateProfile, PostLinkingPolicy, Grant
<1>2. SignalsExplained /\ [Next]_gatewayVars =>
        [\A s \in DOMAIN signals :
           TaintIndex(signals[s].level) <= TaintIndex(SignalsOf(s)'.level)
             \/ RestoreProfile(s) \/ Restart]_gatewayVars
  BY <1>1
<1> QED
  BY <1>2, ExplainedInit, ExplainedNext, PTL DEF Spec, TaintHolds

-----------------------------------------------------------------------------
(* Rules and profiles *)

Followable == FilesAgree /\ RulesNameProfiles

LEMMA FollowableNext == Followable /\ [Next]_gatewayVars => Followable'
<1> SUFFICES ASSUME Followable, [Next]_gatewayVars
             PROVE  Followable'
  OBVIOUS
<1> USE DEF Followable, FilesAgree, RulesNameProfiles
<1>1. ASSUME NEW f \in Files, NEW content, EditManifest(f, content)
      PROVE  Followable'
  BY <1>1 DEF EditManifest
<1>2. ASSUME NEW content, SaveManifest(content)
      PROVE  Followable'
  BY <1>2 DEF SaveManifest
<1>3. ASSUME NEW p \in Profiles, NEW f \in Files, NEW content, NEW write \in Writes,
             CreateProfile(p, f, content, write)
      PROVE  Followable'
  <2>1. /\ disk' = [disk EXCEPT !.manifests[f] = content, !.index = Index(write, entries')]
        /\ entries' = Put(entries, p, f)
        /\ rules' = rules
        /\ torn' = (torn \/ write # "done")
    BY <1>3 DEF CreateProfile
  <2>2. disk' = [manifests |-> disk'.manifests, index |-> disk'.index, policy |-> disk'.policy]
    BY <2>1
  <2>3. ~torn' => disk'.index = entries' /\ disk'.policy = rules'
    BY <2>1 DEF Index, Rewritten
  <2>4. DOMAIN entries \subseteq DOMAIN entries'
    BY <2>1 DEF Put
  <2>5. ~torn' => ~torn
    BY <2>1
  <2> QED
    BY <2>1, <2>2, <2>3, <2>4, <2>5
<1>4. ASSUME NEW list \in RuleLists, NEW write \in Writes, PostLinkingPolicy(list, write)
      PROVE  Followable'
  BY <1>4 DEF PostLinkingPolicy, Rewritten
<1>5. CASE Restart
  BY <1>5 DEF Restart
<1>6. CASE UNCHANGED <<disk, entries, rules, torn>>
  BY <1>6
<1> QED
  BY <1>1, <1>2, <1>3, <1>4, <1>5, <1>6 DEF Next, gatewayVars, ReloadManifest, BindSession,
     AssignProfile, UnbindSession, StartRemoval, FinishRemoval, EscalateTaint, RestoreProfile,
     ToolsCall, Grant

\* As long as no write of the catalog or the linking policy failed, every rule
\* in force, also one read at a start, names a profile that is in the catalog.
THEOREM RulesCanBeFollowed == Spec => []RulesNameProfiles
<1>1. Init => Followable
  BY DEF Init, Followable, FilesAgree, RulesNameProfiles
<1>2. Followable => RulesNameProfiles
  BY DEF Followable
<1> QED
  BY <1>1, <1>2, FollowableNext, PTL DEF Spec
=============================================================================
