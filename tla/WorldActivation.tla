--------------------------- MODULE WorldActivation ----------------------------
(***************************************************************************)
(* The worlds of the program layer: a directory of manifests, a pointer to *)
(* the active one, the history of activations that rollback reads, and the *)
(* operator's event log.  Commands are processes; a command writes the     *)
(* pointer, then the history, then the log, and may end in between.        *)
(***************************************************************************)
EXTENDS Integers, Sequences, FiniteSets, SequencesExt

CONSTANTS
  Manifests,        \* contents a manifest may have: [id, version, allowed]
  Operators,        \* processes that run a world command
  MaxActivations    \* bound on the activations

ASSUME ManifestsAssumption == \A w \in Manifests : w.version \in Nat \ {0}
ASSUME ActivationsAssumption == MaxActivations \in Nat

VARIABLES
  library,      \* the manifests in the directory
  active,       \* the pointer: a key, or NoWorld
  history,      \* the activation records
  events,       \* the operator events, in no order
  command,      \* per process: the command it runs
  activations,  \* history variable: number of activations so far
  written,      \* history variable: activations that wrote the pointer
  pointed,      \* history variable: the activation that wrote it last, or 0
  before,       \* history variable: the pointer before that
  lost          \* history variable: activations whose process ended early

files == <<library, active, history, events>>
worldVars == <<library, active, history, events, command,
               activations, written, pointed, before, lost>>

NoWorld == [id |-> "none", version |-> 0]
Key(w) == [id |-> w.id, version |-> w.version]
Keys == {Key(w) : w \in Manifests}

Job(stage, operator, rollback, target) ==
  [stage |-> stage, operator |-> operator, rollback |-> rollback, number |-> 0,
   target |-> target, previous |-> NoWorld]

Idle == Job("idle", FALSE, FALSE, NoWorld)

\* A line of the history of activations.
ActivationRecord(job) ==
  [number |-> job.number, world |-> job.target, previous |-> job.previous,
   rollback |-> job.rollback]

\* Queries are logged like activations, with no activation number.
OperatorEvent(action, number, target, losing) ==
  [action |-> action, number |-> number, target |-> target, losing |-> losing]

WorldInit ==
  /\ library \in {l \in SUBSET Manifests : \A v, w \in l : Key(v) = Key(w) => v = w}
  /\ active = NoWorld
  /\ history = <<>>
  /\ events = {}
  /\ command = [p \in Operators |-> Idle]
  /\ activations = 0
  /\ written = {}
  /\ pointed = 0
  /\ before = NoWorld
  /\ lost = {}

Exists(key) == \E w \in library : Key(w) = key

World(key) == CHOOSE w \in library : Key(w) = key

\* get_active(): a pointer to a manifest that is gone reads as no world.
ActiveWorld == IF Exists(active) THEN active ELSE NoWorld

-----------------------------------------------------------------------------
(* The directory is edited by hand. *)

EditManifest(w) ==
  /\ library' = {v \in library : Key(v) # Key(w)} \cup {w}
  /\ UNCHANGED <<active, history, events, command, activations, written, pointed,
                 before, lost>>

RemoveManifest(w) ==
  /\ w \in library
  /\ library' = library \ {w}
  /\ UNCHANGED <<active, history, events, command, activations, written, pointed,
                 before, lost>>

-----------------------------------------------------------------------------
(* Commands *)

Start(p, job) ==
  /\ command[p] = Idle
  /\ command' = [command EXCEPT ![p] = job]
  /\ UNCHANGED <<files, activations, written, pointed, before, lost>>

\* "awc world activate": neither history nor log.
PointAt(p, key) ==
  /\ Exists(key)
  /\ Start(p, Job("pointer", FALSE, FALSE, key))

\* "awc operator worlds activate", with a version or for the latest one.
ActivateWorld(p, key) ==
  /\ Start(p, Job("previous", TRUE, FALSE, key))

\* "awc operator worlds rollback"
RollbackWorld(p) ==
  /\ history # <<>>
  /\ Start(p, Job("history", TRUE, TRUE, NoWorld))

\* Rollback goes where the latest record came from.
ReadHistory(p) ==
  /\ command[p].stage = "history"
  /\ command' = [command EXCEPT ![p] =
       IF Last(history).previous = NoWorld THEN Idle
       ELSE [@ EXCEPT !.stage = "previous", !.target = Last(history).previous]]
  /\ UNCHANGED <<files, activations, written, pointed, before, lost>>

ReadPrevious(p) ==
  /\ command[p].stage = "previous"
  /\ command' = [command EXCEPT ![p] =
       IF ~Exists(@.target) THEN Idle
       ELSE [@ EXCEPT !.stage = "pointer", !.previous = ActiveWorld]]
  /\ UNCHANGED <<files, activations, written, pointed, before, lost>>

\* set_active() looks the world up once more, then replaces the pointer file.
WritePointer(p) ==
  /\ command[p].stage = "pointer"
  /\ Exists(command[p].target)
  /\ activations < MaxActivations
  /\ activations' = activations + 1
  /\ active' = command[p].target
  /\ before' = active
  /\ IF command[p].operator
     THEN /\ pointed' = activations'
          /\ written' = written \cup {activations'}
          /\ command' = [command EXCEPT ![p] = [@ EXCEPT !.stage = "record",
                                                        !.number = activations']]
     ELSE /\ pointed' = 0
          /\ command' = [command EXCEPT ![p] = Idle]
          /\ UNCHANGED written
  /\ UNCHANGED <<library, history, events, lost>>

TargetGone(p) ==
  /\ command[p].stage = "pointer"
  /\ ~Exists(command[p].target)
  /\ command' = [command EXCEPT ![p] = Idle]
  /\ UNCHANGED <<files, activations, written, pointed, before, lost>>

\* Mutated: a rollback goes on to the log without a record.
AppendHistoryForward(p) ==
  /\ command[p].stage = "record"
  /\ history' = IF command[p].rollback THEN history
                ELSE Append(history, ActivationRecord(command[p]))
  /\ command' = [command EXCEPT ![p].stage = "event"]
  /\ UNCHANGED <<library, active, events, activations, written, pointed, before, lost>>

\* Mutated: the record's previous world is read when the record is written.
AppendHistoryLate(p) ==
  /\ command[p].stage = "record"
  /\ history' = Append(history,
       ActivationRecord([command[p] EXCEPT !.previous = ActiveWorld]))
  /\ command' = [command EXCEPT ![p].stage = "event"]
  /\ UNCHANGED <<library, active, events, activations, written, pointed, before, lost>>

AppendHistory(p) ==
  /\ command[p].stage = "record"
  /\ history' = Append(history, ActivationRecord(command[p]))
  /\ command' = [command EXCEPT ![p].stage = "event"]
  /\ UNCHANGED <<library, active, events, activations, written, pointed, before, lost>>

LogEvent(p) ==
  /\ command[p].stage = "event"
  /\ events' = events \cup
       {OperatorEvent(IF command[p].rollback THEN "rollback_world" ELSE "activate_world",
                      command[p].number, command[p].target, 0)}
  /\ command' = [command EXCEPT ![p] = Idle]
  /\ UNCHANGED <<library, active, history, activations, written, pointed, before, lost>>

\* "awc world deactivate"
ClearActive(p) ==
  /\ command[p] = Idle
  /\ active # NoWorld
  /\ active' = NoWorld
  /\ pointed' = 0
  /\ before' = active
  /\ UNCHANGED <<library, history, events, command, activations, written, lost>>

\* The process ends, or the file it would append to cannot be written.
Crash(p) ==
  /\ command[p] # Idle
  /\ lost' = lost \cup ({command[p].number} \ {0})
  /\ command' = [command EXCEPT ![p] = Idle]
  /\ UNCHANGED <<files, activations, written, pointed, before>>

WorldNext ==
  \/ \E w \in Manifests : EditManifest(w) \/ RemoveManifest(w)
  \/ \E p \in Operators :
       \/ ClearActive(p)
       \/ \E key \in Keys : PointAt(p, key) \/ ActivateWorld(p, key)
       \/ RollbackWorld(p)
       \/ ReadHistory(p)
       \/ ReadPrevious(p)
       \/ WritePointer(p)
       \/ TargetGone(p)
       \/ AppendHistory(p)
       \/ LogEvent(p)
       \/ Crash(p)

WorldSpec == WorldInit /\ [][WorldNext]_worldVars

-----------------------------------------------------------------------------
(* Properties *)

Recorded == {history[i].number : i \in DOMAIN history}
Logged == {e.number : e \in events} \ {0}
UnderWay == {command[p].number : p \in Operators}

\* Pointer, history and log are written in this order, and every activation
\* that wrote the pointer gets into the next two unless its process ended
\* early: the log never tells of an activation that rollback does not know.
NothingUnaudited ==
  /\ Logged \subseteq Recorded
  /\ Recorded \subseteq written
  /\ written \subseteq Recorded \cup UnderWay \cup lost
  /\ Recorded \subseteq Logged \cup UnderWay \cup lost

\* As long as the latest record is about the write that made the active world
\* active, rollback can only go to the world that was active before it.  With
\* one operator at a time.
RecordsTrail ==
  history # <<>> /\ Last(history).number = pointed =>
    /\ Last(history).world = active
    /\ Last(history).previous \in {before, NoWorld}

\* "Restore the world that was active immediately before the current one."
RollbackRestores ==
  [][\A p \in Operators :
       WritePointer(p) /\ command[p].rollback /\ active # NoWorld
         => active' = before]_worldVars
=============================================================================
