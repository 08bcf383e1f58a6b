--------------------------- MODULE GatewaySessions ---------------------------
(***************************************************************************)
(* Sessions of the MCP gateway: which world a session's calls are decided  *)
(* in, how its signals change, the profile catalog and the linking policy  *)
(* that the UI edits, and a restart.  Handlers of the event loop run       *)
(* without a pause; the one that takes a profile from a session runs in    *)
(* the thread pool and can be interrupted between check and deletion.      *)
(***************************************************************************)
EXTENDS GatewayEnforcement

CONSTANTS
  Sessions,
  Anonymous,     \* the session id of calls that name none
  ManifestContents,  \* worlds that a manifest may describe
  Files,         \* paths of manifests
  DefaultFile,   \* manifest_path of the gateway
  RuleLists,     \* linking policies an operator may post
  MaxCount       \* bound on the tool_call_count of a session

ASSUME ContentsAssumption == ManifestContents \subseteq Worlds
ASSUME FilesAssumption == DefaultFile \in Files
ASSUME CountAssumption == MaxCount \in Nat
ASSUME AnonymousAssumption == Anonymous \notin Sessions

VARIABLES
  disk,       \* the files: manifests, profile index, linking policy
  manifest,   \* the loaded default
  bound,      \* sessions with a manifest of their own
  entries,    \* the catalog in memory: profile -> file
  rules,      \* the linking policy in force
  signals,    \* the tracker: signals of the sessions seen so far
  removing,   \* sessions whose profile a pool thread is taking away
  granted,    \* calls that an operator explicitly allowed
  torn,       \* history variable: some write of the index or the policy failed
  tally,      \* history variable: per session its calls, and those not allowed
  dispatched  \* history variable: the latest call that reached an adapter

gatewayVars == <<disk, manifest, bound, entries, rules, signals, removing,
                 granted, torn, tally, dispatched>>

Missing == [missing |-> TRUE]
Clients == Sessions \cup {Anonymous}

\* A finite function with one more value.
Put(f, key, value) == [k \in DOMAIN f \cup {key} |-> IF k = key THEN value ELSE f[k]]
Without(f, key) == [k \in DOMAIN f \ {key} |-> f[k]]

FreshSignals == [level |-> "clean", count |-> 0, verdict |-> "allow"]

NoTally == [s \in Clients |-> [calls |-> 0, refused |-> 0]]

Init ==
  /\ manifest \in ManifestContents
  /\ disk = [manifests |-> [f \in Files |-> IF f = DefaultFile THEN manifest ELSE Missing],
             index |-> [p \in {} |-> DefaultFile], policy |-> <<>>]
  /\ bound = [s \in {} |-> manifest]
  /\ entries = [p \in {} |-> DefaultFile]
  /\ rules = <<>>
  /\ signals = [s \in {} |-> FreshSignals]
  /\ removing = {}
  /\ granted = {}
  /\ torn = FALSE
  /\ tally = NoTally
  /\ dispatched = Missing

Readable(f) == disk.manifests[f] # Missing

-----------------------------------------------------------------------------
(* Worlds *)

\* A manifest is edited, or deleted, outside the gateway.
EditManifest(f, content) ==
  /\ disk' = [disk EXCEPT !.manifests[f] = content]
  /\ UNCHANGED <<manifest, bound, entries, rules, signals, removing, granted,
                 torn, tally, dispatched>>

\* A manifest that cannot be read leaves the old one in force.
ReloadManifest ==
  /\ Readable(DefaultFile)
  /\ manifest' = disk.manifests[DefaultFile]
  /\ UNCHANGED <<disk, bound, entries, rules, signals, removing, granted,
                 torn, tally, dispatched>>

SaveManifest(content) ==
  /\ disk' = [disk EXCEPT !.manifests[DefaultFile] = content]
  /\ manifest' = content
  /\ UNCHANGED <<bound, entries, rules, signals, removing, granted, torn,
                 tally, dispatched>>

\* bind_session names a path, the UI a profile of the catalog.
BindSession(s, f) ==
  /\ Readable(f)
  /\ bound' = Put(bound, s, disk.manifests[f])
  /\ UNCHANGED <<disk, manifest, entries, rules, signals, removing, granted,
                 torn, tally, dispatched>>

AssignProfile(s, p) ==
  /\ p \in DOMAIN entries
  /\ BindSession(s, entries[p])

UnbindSession(s) ==
  /\ bound' = Without(bound, s)
  /\ UNCHANGED <<disk, manifest, entries, rules, signals, removing, granted,
                 torn, tally, dispatched>>

\* unregister_session in a pool thread: check, then delete.  By then it may be
\* gone, and the deletion raises, or bound again.
StartRemoval(s) ==
  /\ s \in DOMAIN bound
  /\ s \notin removing
  /\ removing' = removing \cup {s}
  /\ UNCHANGED <<disk, manifest, bound, entries, rules, signals, granted,
                 torn, tally, dispatched>>

FinishRemoval(s) ==
  /\ s \in removing
  /\ removing' = removing \ {s}
  /\ bound' = Without(bound, s)
  /\ UNCHANGED <<disk, manifest, entries, rules, signals, granted, torn,
                 tally, dispatched>>

\* Explicit binding, then the linking rules, then the default.  A rule's
\* profile is read from its file now; what cannot be read is passed over.
Linked(context) == Evaluate(rules, context)

Resolve(s, context) ==
  LET profile == Linked(context)
  IN IF s \in DOMAIN bound THEN bound[s]
     ELSE IF profile \in DOMAIN entries /\ Readable(entries[profile])
     THEN disk.manifests[entries[profile]]
     ELSE manifest

-----------------------------------------------------------------------------
(* Catalog and linking policy *)

\* A file is rewritten in place: a write that fails leaves the old text or none.
Writes == {"done", "refused", "cut"}

Rewritten(old, new, empty, write) ==
  IF write = "done" THEN new ELSE IF write = "cut" THEN empty ELSE old

Index(write, new) == Rewritten(disk.index, new, [p \in {} |-> DefaultFile], write)

\* Mutated: the index is not written.
CreateProfileUnsaved(p, f, content, write) ==
  /\ p \notin DOMAIN entries
  /\ f # DefaultFile
  /\ entries' = Put(entries, p, f)
  /\ disk' = [disk EXCEPT !.manifests[f] = content]
  /\ torn' = (torn \/ write # "done")
  /\ UNCHANGED <<manifest, bound, rules, signals, removing, granted, tally, dispatched>>

\* The manifest's file is written first, then the entry is there, then the
\* index is written.  A file of another profile is overwritten.
CreateProfile(p, f, content, write) ==
  /\ p \notin DOMAIN entries
  /\ f # DefaultFile
  /\ entries' = Put(entries, p, f)
  /\ disk' = [disk EXCEPT !.manifests[f] = content, !.index = Index(write, entries')]
  /\ torn' = (torn \/ write # "done")
  /\ UNCHANGED <<manifest, bound, rules, signals, removing, granted, tally, dispatched>>

\* A list is refused as a whole if it names a profile that is not there.
PostLinkingPolicy(list, write) ==
  /\ \A i \in DOMAIN list : list[i].profile \in DOMAIN entries
  /\ rules' = list
  /\ disk' = [disk EXCEPT !.policy = Rewritten(@, list, <<>>, write)]
  /\ torn' = (torn \/ write # "done")
  /\ UNCHANGED <<manifest, bound, entries, signals, removing, granted, tally, dispatched>>

-----------------------------------------------------------------------------
(* Signals *)

SignalsOf(s) == IF s \in DOMAIN signals THEN signals[s] ELSE FreshSignals

\* Mutated: the level is set, whatever it was.
SetTaint(s, level) ==
  /\ signals' = Put(signals, s, [SignalsOf(s) EXCEPT !.level = level])
  /\ UNCHANGED <<disk, manifest, bound, entries, rules, removing, granted, torn,
                 tally, dispatched>>

EscalateTaint(s, level) ==
  /\ signals' = Put(signals, s,
       [SignalsOf(s) EXCEPT !.level = IF TaintIndex(level) > TaintIndex(@) THEN level ELSE @])
  /\ UNCHANGED <<disk, manifest, bound, entries, rules, removing, granted, torn,
                 tally, dispatched>>

\* Taint is cleared; an explicit binding stays.
RestoreProfile(s) ==
  /\ s \in DOMAIN signals
  /\ signals' = Put(signals, s, [signals[s] EXCEPT !.level = "clean"])
  /\ UNCHANGED <<disk, manifest, bound, entries, rules, removing, granted, torn,
                 tally, dispatched>>

Recorded(signal, verdict) ==
  [level |-> signal.level, count |-> signal.count + 1, verdict |-> verdict]

\* resolve_manifest_for_call notes the call as allowed before it asks the rules.
\* (The step that notes a switch of profile is never taken: nobody passes the
\* catalog that it needs.)
CallContext(s) == Recorded(SignalsOf(s), "allow")

\* A decision other than allow is noted as a second call, for named sessions.
\* Mutated: for calls without a session, too.
AfterAnyDecision(s, verdict) ==
  IF verdict # "allow" THEN Recorded(CallContext(s), verdict) ELSE CallContext(s)

AfterDecision(s, verdict) ==
  IF s # Anonymous /\ verdict # "allow" THEN Recorded(CallContext(s), verdict)
  ELSE CallContext(s)

Counted(s, verdict) ==
  [tally EXCEPT ![s] =
     [calls |-> @.calls + 1,
      refused |-> IF verdict = "allow" THEN @.refused ELSE @.refused + 1]]

\* tools/call, decided in the world that the signals lead to.  A call that has
\* to be asked for is dispatched if an operator explicitly allowed it.
ToolsCall(s, tool, args) ==
  LET world == Resolve(s, CallContext(s))
      rule == Enforce(world, tool, args)
  IN /\ SignalsOf(s).count < MaxCount
     /\ signals' = Put(signals, s, AfterDecision(s, VerdictOf(rule)))
     /\ tally' = Counted(s, VerdictOf(rule))
     /\ dispatched' =
          IF rule = "allow" \/ (rule = "ask" /\ <<s, tool>> \in granted)
          THEN [session |-> s, tool |-> tool, args |-> args, world |-> world,
                asked |-> rule = "ask"]
          ELSE dispatched
     /\ UNCHANGED <<disk, manifest, bound, entries, rules, removing, granted, torn>>

\* An operator allows what was asked for; has_explicit_allow of the approval
\* service then says yes.
Grant(s, tool) ==
  /\ PolicyVerdict[tool] = "ask"
  /\ granted' = granted \cup {<<s, tool>>}
  /\ UNCHANGED <<disk, manifest, bound, entries, rules, signals, removing, torn,
                 tally, dispatched>>

-----------------------------------------------------------------------------
(* Everything in memory goes; without its manifest a gateway does not start. *)

Restart ==
  /\ Readable(DefaultFile)
  /\ manifest' = disk.manifests[DefaultFile]
  /\ bound' = [s \in {} |-> manifest]
  /\ entries' = disk.index
  /\ rules' = disk.policy
  /\ signals' = [s \in {} |-> FreshSignals]
  /\ removing' = {}
  /\ granted' = {}
  /\ tally' = NoTally
  /\ UNCHANGED <<disk, torn, dispatched>>

Next ==
  \/ \E f \in Files, content \in ManifestContents \cup {Missing} : EditManifest(f, content)
  \/ ReloadManifest
  \/ \E content \in ManifestContents : SaveManifest(content)
  \/ \E s \in Sessions :
       \/ \E f \in Files : BindSession(s, f)
       \/ \E p \in Profiles : AssignProfile(s, p)
       \/ UnbindSession(s)
       \/ StartRemoval(s)
       \/ FinishRemoval(s)
       \/ \E i \in DOMAIN Levels : EscalateTaint(s, Levels[i])
       \/ RestoreProfile(s)
       \/ \E tool \in Tools : Grant(s, tool)
  \/ \E p \in Profiles, f \in Files, content \in ManifestContents, write \in Writes :
       CreateProfile(p, f, content, write)
  \/ \E list \in RuleLists, write \in Writes : PostLinkingPolicy(list, write)
  \/ \E s \in Clients, tool \in Tools, args \in Arguments : ToolsCall(s, tool, args)
  \/ Restart

Spec == Init /\ [][Next]_gatewayVars

-----------------------------------------------------------------------------
(* Properties *)

\* The number that rules on the volume of calls go by is explained by the calls
\* made since the start: one each, and one more for each that was refused or
\* held in a named session; all calls without a session count together.
CountsExplained ==
  \A s \in DOMAIN signals :
    signals[s].count =
      tally[s].calls + (IF s = Anonymous THEN 0 ELSE tally[s].refused)

\* "Taint is monotonic": whatever handlers do, between two starts it sinks only
\* when an operator restores the profile.
TaintHolds ==
  [][\A s \in DOMAIN signals :
       TaintIndex(signals[s].level) <= TaintIndex(SignalsOf(s)'.level)
         \/ RestoreProfile(s) \/ Restart]_gatewayVars

\* A rule in force leads somewhere: as long as no write failed, the profiles it
\* names are in the catalog, after a restart too, so that no session falls back
\* on the default world because of a rule that cannot be followed.
RulesNameProfiles ==
  ~torn => \A i \in DOMAIN rules : rules[i].profile \in DOMAIN entries

\* What reached an adapter was permitted, in this order: declared in the world
\* that the session had then, and either allowed by the policy engine and
\* within the world's constraints, or one that asks, allowed by an operator for
\* a named session.
DispatchedIsPermitted ==
  dispatched # Missing =>
    /\ dispatched.tool \in Render(dispatched.world)
    /\ PolicyVerdict[dispatched.tool] # "deny"
    /\ PolicyVerdict[dispatched.tool] = "ask" =>
         dispatched.asked /\ dispatched.session # Anonymous
    /\ dispatched.asked \/ Allows(dispatched.world, dispatched.tool, dispatched.args)
=============================================================================
