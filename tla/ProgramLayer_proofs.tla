------------------------- MODULE ProgramLayer_proofs --------------------------
(***************************************************************************)
(* Proofs about the program layer.                                         *)
(*                                                                         *)
(* Worlds, for any manifests and operators: what the log tells of, the     *)
(* history has; what the history has, the pointer had; and nothing that    *)
(* got as far as one of them is missing from the next unless its process   *)
(* is still at it or ended early.  The invariant says where each number is *)
(* at each stage of its command.                                           *)
(*                                                                         *)
(* Programs, for any drafts and reviewers: every file, and every program   *)
(* in the hands of a process, has the steps of its draft or what           *)
(* minimizing them gives, with the diff that belongs to them, and is       *)
(* runnable if it is accepted.  From that, a preview foretells the replay. *)
(***************************************************************************)
EXTENDS ProgramLayer, DataInduction

Worlds == Keys \cup {NoWorld}

Stages == {"idle", "history", "previous", "pointer", "record", "event"}
Jobs ==
  [ stage : Stages, operator : BOOLEAN, rollback : BOOLEAN, number : Nat,
    target : Worlds, previous : Worlds ]

Records == [number : Nat, world : Worlds, previous : Worlds, rollback : BOOLEAN]

WorldTypeOK ==
  /\ active \in Worlds
  /\ history \in Seq(Records)
  /\ command \in [Operators -> Jobs]
  /\ activations \in Nat
  /\ \A n \in written : n \in Nat \ {0} /\ n <= activations

\* A command has a number exactly from its write to its last append.
NumbersFollowStages ==
  \A p \in Operators :
    /\ command[p].stage \notin {"record", "event"} => command[p].number = 0
    /\ command[p].stage = "history" => history # <<>>
    /\ command[p].stage = "record" => command[p].number \in written
    /\ command[p].stage = "event" => command[p].number \in Recorded

AuditInv == WorldTypeOK /\ NumbersFollowStages /\ NothingUnaudited

-----------------------------------------------------------------------------

LEMMA Restaged ==
  ASSUME NEW job \in Jobs, NEW stage \in Stages, NEW new,
         new = [job EXCEPT !.stage = stage]
  PROVE  new \in Jobs /\ new.stage = stage /\ new.number = job.number
  BY DEF Jobs

LEMMA NewJob ==
  ASSUME NEW stage \in Stages, NEW operator \in BOOLEAN, NEW rollback \in BOOLEAN,
         NEW target \in Worlds
  PROVE  /\ Job(stage, operator, rollback, target) \in Jobs
         /\ Job(stage, operator, rollback, target).stage = stage
         /\ Job(stage, operator, rollback, target).number = 0
  BY DEF Job, Jobs, Worlds

LEMMA IdleJob == Idle \in Jobs /\ Idle.stage = "idle" /\ Idle.number = 0
  BY DEF Idle, Job, Jobs, Stages, Worlds

\* The numbers under way when only p's command changes.
LEMMA UnderWayBut ==
  ASSUME NEW p \in Operators, \A q \in Operators \ {p} : command'[q] = command[q]
  PROVE  /\ UnderWay \subseteq UnderWay' \cup {command[p].number}
         /\ command'[p].number \in UnderWay'
<1>1. ASSUME NEW q \in Operators, q # p  PROVE command[q].number \in UnderWay'
  <2>1. command'[q].number \in UnderWay'
    BY DEF UnderWay
  <2>2. QED  BY <1>1, <2>1
<1>2. QED  BY <1>1 DEF UnderWay

\* A step that gives p a job without a number and leaves the files alone that
\* the audit is about.  It may end a command only before it has a number.
Quiet(p, job) ==
  /\ command' = [command EXCEPT ![p] = job]
  /\ job \in Jobs /\ job.number = 0 /\ job.stage \notin {"record", "event"}
  /\ job.stage = "history" => history # <<>>
  /\ command[p].stage \notin {"record", "event"}
  /\ UNCHANGED <<active, history, events, activations, written, lost>>

LEMMA QuietKeeps ==
  ASSUME AuditInv, NEW p \in Operators, NEW job, Quiet(p, job)
  PROVE  AuditInv'
<1>1. /\ command' \in [Operators -> Jobs]
      /\ command'[p] = job
      /\ \A q \in Operators \ {p} : command'[q] = command[q]
  BY DEF AuditInv, WorldTypeOK, Quiet
<1>2. /\ history' = history /\ events' = events /\ written' = written /\ lost' = lost
      /\ active' = active /\ activations' = activations
  BY DEF Quiet
<1>3. WorldTypeOK'
  BY <1>1, <1>2 DEF AuditInv, WorldTypeOK
<1>4. Recorded' = Recorded /\ Logged' = Logged
  BY <1>2 DEF Recorded, Logged
<1>5. NumbersFollowStages'
  BY <1>1, <1>2, <1>4 DEF AuditInv, NumbersFollowStages, Quiet
<1>6. UnderWay \subseteq UnderWay' \cup {0}
  <2>1. command[p].number = 0
    BY DEF AuditInv, NumbersFollowStages, Quiet
  <2>2. QED  BY <1>1, <2>1, UnderWayBut
<1>7. 0 \notin written /\ 0 \notin Recorded
  BY DEF AuditInv, WorldTypeOK, NothingUnaudited
<1>8. NothingUnaudited'
  BY <1>2, <1>4, <1>6, <1>7 DEF AuditInv, NothingUnaudited
<1>9. QED  BY <1>3, <1>5, <1>8 DEF AuditInv

-----------------------------------------------------------------------------
(* The steps before the pointer is written are quiet. *)

LEMMA KeysAreWorlds ==
  /\ Keys \subseteq Worlds /\ NoWorld \in Worlds
  /\ AuditInv => ActiveWorld \in Worlds
  BY DEF Worlds, ActiveWorld, AuditInv, WorldTypeOK

LEMMA StartQuiet ==
  ASSUME AuditInv, NEW p \in Operators, NEW job \in Jobs, Start(p, job),
         job.number = 0, job.stage \notin {"record", "event"},
         job.stage = "history" => history # <<>>
  PROVE  AuditInv'
<1>1. command[p].stage \notin {"record", "event"}
  BY DEF Start, Idle, Job
<1>2. Quiet(p, job)
  BY <1>1 DEF Start, Quiet, files
<1>3. QED  BY <1>2, QuietKeeps

LEMMA CommandStarts ==
  ASSUME AuditInv, NEW p \in Operators,
         (\E key \in Keys : PointAt(p, key) \/ ActivateWorld(p, key)) \/ RollbackWorld(p)
  PROVE  AuditInv'
<1>1. \E stage \in {"pointer", "previous", "history"},
         operator \in BOOLEAN, rollback \in BOOLEAN, target \in Worlds :
        /\ Start(p, Job(stage, operator, rollback, target))
        /\ stage = "history" => history # <<>>
  BY KeysAreWorlds DEF PointAt, ActivateWorld, RollbackWorld
<1>2. PICK stage \in {"pointer", "previous", "history"},
           operator \in BOOLEAN, rollback \in BOOLEAN, target \in Worlds :
        /\ Start(p, Job(stage, operator, rollback, target))
        /\ stage = "history" => history # <<>>
  BY <1>1
<1>3. /\ Job(stage, operator, rollback, target) \in Jobs
      /\ Job(stage, operator, rollback, target).stage = stage
      /\ Job(stage, operator, rollback, target).number = 0
  BY NewJob DEF Stages
<1>4. QED  BY <1>2, <1>3, StartQuiet

LEMMA ReadHistoryQuiet ==
  ASSUME AuditInv, NEW p \in Operators, ReadHistory(p)
  PROVE  AuditInv'
<1> PICK old, job :
      /\ old = command[p]
      /\ job = IF Last(history).previous = NoWorld THEN Idle
               ELSE [old EXCEPT !.stage = "previous", !.target = Last(history).previous]
  OBVIOUS
<1>1. old \in Jobs /\ old.number = 0 /\ old.stage = "history"
  BY DEF AuditInv, WorldTypeOK, NumbersFollowStages, ReadHistory
<1>2. Last(history).previous \in Worlds
  <2>1. history \in Seq(Records) /\ history # <<>>
    BY DEF AuditInv, WorldTypeOK, NumbersFollowStages, ReadHistory
  <2>2. Last(history) \in Records
    BY <2>1 DEF Last
  <2>3. QED  BY <2>2 DEF Records
<1>3. job \in Jobs /\ job.number = 0 /\ job.stage \notin {"record", "event", "history"}
  <2>1. CASE Last(history).previous = NoWorld
    BY <2>1, IdleJob
  <2>2. CASE Last(history).previous # NoWorld
    <3>1. PICK target \in Worlds : job = [old EXCEPT !.stage = "previous", !.target = target]
      BY <1>2, <2>2
    <3>2. "previous" \in Stages
      BY DEF Stages
    <3>3. job \in Jobs /\ job.stage = "previous" /\ job.number = old.number
      BY <1>1, <3>1, <3>2 DEF Jobs
    <3>4. QED  BY <1>1, <3>3
  <2>3. QED  BY <2>1, <2>2
<1>4. Quiet(p, job)
  BY <1>1, <1>3 DEF ReadHistory, Quiet, files
<1>5. QED  BY <1>4, QuietKeeps

LEMMA ReadPreviousQuiet ==
  ASSUME AuditInv, NEW p \in Operators, ReadPrevious(p)
  PROVE  AuditInv'
<1> PICK old, job :
      /\ old = command[p]
      /\ job = IF ~Exists(old.target) THEN Idle
               ELSE [old EXCEPT !.stage = "pointer", !.previous = ActiveWorld]
  OBVIOUS
<1>1. old \in Jobs /\ old.number = 0 /\ old.stage = "previous"
  BY DEF AuditInv, WorldTypeOK, NumbersFollowStages, ReadPrevious
<1>2. job \in Jobs /\ job.number = 0 /\ job.stage \notin {"record", "event", "history"}
  <2>1. CASE ~Exists(old.target)
    BY <2>1, IdleJob
  <2>2. CASE Exists(old.target)
    <3>1. PICK previous \in Worlds :
            job = [old EXCEPT !.stage = "pointer", !.previous = previous]
      BY <2>2, KeysAreWorlds
    <3>2. "pointer" \in Stages
      BY DEF Stages
    <3>3. job \in Jobs /\ job.stage = "pointer" /\ job.number = old.number
      BY <1>1, <3>1, <3>2 DEF Jobs
    <3>4. QED  BY <1>1, <3>3
  <2>3. QED  BY <2>1, <2>2
<1>3. Quiet(p, job)
  BY <1>1, <1>2 DEF ReadPrevious, Quiet, files
<1>4. QED  BY <1>3, QuietKeeps

LEMMA TargetGoneQuiet ==
  ASSUME AuditInv, NEW p \in Operators, TargetGone(p)
  PROVE  AuditInv'
<1>1. Quiet(p, Idle)
  BY IdleJob DEF TargetGone, Quiet, files
<1>2. QED  BY <1>1, QuietKeeps

-----------------------------------------------------------------------------
(* The three writes of a command, and the end of its process. *)

LEMMA WritePointerSafe ==
  ASSUME AuditInv, NEW p \in Operators, WritePointer(p)
  PROVE  AuditInv'
<1> PICK n, old : n = activations + 1 /\ old = command[p]
  OBVIOUS
<1> PICK job : job = IF old.operator THEN [old EXCEPT !.stage = "record", !.number = n] ELSE Idle
  OBVIOUS
<1>1. old \in Jobs /\ old.number = 0 /\ old.stage = "pointer" /\ activations \in Nat
  BY DEF AuditInv, WorldTypeOK, NumbersFollowStages, WritePointer
<1>2. /\ job \in Jobs
      /\ old.operator => job.stage = "record" /\ job.number = n
      /\ ~old.operator => job.stage = "idle" /\ job.number = 0
  <2>1. CASE old.operator
    <3>1. job = [old EXCEPT !.stage = "record", !.number = n]
      BY <2>1
    <3>2. n \in Nat /\ "record" \in Stages
      BY <1>1 DEF Stages
    <3>3. job \in Jobs /\ job.stage = "record" /\ job.number = n
      BY <1>1, <3>1, <3>2 DEF Jobs
    <3>4. QED  BY <2>1, <3>3
  <2>2. CASE ~old.operator
    BY <2>2, IdleJob
  <2>3. QED  BY <2>1, <2>2
<1>3. /\ activations' = n /\ active' = old.target
      /\ command' = [command EXCEPT ![p] = job]
      /\ written' = IF old.operator THEN written \cup {n} ELSE written
      /\ UNCHANGED <<history, events, lost>>
  BY DEF WritePointer
<1>4. /\ command' \in [Operators -> Jobs]
      /\ command'[p] = job
      /\ \A q \in Operators \ {p} : command'[q] = command[q]
  BY <1>2, <1>3 DEF AuditInv, WorldTypeOK
<1>5. WorldTypeOK'
  <2>1. active' \in Worlds /\ activations' \in Nat
    BY <1>1, <1>3 DEF Jobs
  <2>2. \A m \in written' : m \in Nat \ {0} /\ m <= activations'
    BY <1>1, <1>3 DEF AuditInv, WorldTypeOK
  <2>3. QED  BY <1>3, <1>4, <2>1, <2>2 DEF AuditInv, WorldTypeOK
<1>6. Recorded' = Recorded /\ Logged' = Logged
  BY <1>3 DEF Recorded, Logged
<1>7. NumbersFollowStages'
  <2>1. \/ command'[p].stage = "record" /\ command'[p].number \in written'
        \/ command'[p].stage = "idle" /\ command'[p].number = 0
    <3>1. CASE old.operator
      BY <1>2, <1>3, <1>4, <3>1
    <3>2. CASE ~old.operator
      BY <1>2, <1>4, <3>2
    <3>3. QED  BY <3>1, <3>2
  <2>2. written \subseteq written' /\ history' = history
    BY <1>3
  <2>3. QED  BY <1>4, <1>6, <2>1, <2>2 DEF AuditInv, NumbersFollowStages
<1>8. UnderWay \subseteq UnderWay' \cup {0} /\ (old.operator => n \in UnderWay')
  <2>1. UnderWay \subseteq UnderWay' \cup {command[p].number} /\ command'[p].number \in UnderWay'
    BY <1>4, UnderWayBut
  <2>2. QED  BY <1>1, <1>2, <1>4, <2>1
<1>9. 0 \notin written /\ 0 \notin Recorded
  BY DEF AuditInv, WorldTypeOK, NothingUnaudited
<1>10. NothingUnaudited'
  BY <1>3, <1>6, <1>8, <1>9 DEF AuditInv, NothingUnaudited
<1>11. QED  BY <1>5, <1>7, <1>10 DEF AuditInv

LEMMA AppendHistorySafe ==
  ASSUME AuditInv, NEW p \in Operators, AppendHistory(p)
  PROVE  AuditInv'
<1> PICK old, job, record :
      /\ old = command[p]
      /\ job = [old EXCEPT !.stage = "event"]
      /\ record = ActivationRecord(old)
  OBVIOUS
<1>1. old \in Jobs /\ old.stage = "record" /\ old.number \in written
  BY DEF AuditInv, WorldTypeOK, NumbersFollowStages, AppendHistory
<1>2. job \in Jobs /\ job.stage = "event" /\ job.number = old.number
  BY <1>1, Restaged DEF Stages
<1>3. record \in Records /\ record.number = old.number
  BY <1>1 DEF Jobs, Records, ActivationRecord
<1>4. /\ history' = Append(history, record)
      /\ command' = [command EXCEPT ![p] = job]
      /\ UNCHANGED <<active, events, activations, written, lost>>
  BY DEF AppendHistory
<1>5. /\ command' \in [Operators -> Jobs]
      /\ command'[p] = job
      /\ \A q \in Operators \ {p} : command'[q] = command[q]
  BY <1>2, <1>4 DEF AuditInv, WorldTypeOK
<1>6. WorldTypeOK'
  BY <1>3, <1>4, <1>5 DEF AuditInv, WorldTypeOK
<1>7. Recorded' = Recorded \cup {old.number}
  <2>1. history \in Seq(Records)
    BY DEF AuditInv, WorldTypeOK
  <2>2. /\ DOMAIN history' = DOMAIN history \cup {Len(history) + 1}
        /\ \A i \in DOMAIN history : history'[i] = history[i]
        /\ history'[Len(history) + 1] = record
    BY <1>3, <1>4, <2>1
  <2>3. QED  BY <1>3, <2>2 DEF Recorded
<1>8. Logged' = Logged /\ written' = written /\ lost' = lost
  BY <1>4 DEF Logged
<1>9. NumbersFollowStages'
  <2>1. history' # <<>>
    BY <1>3, <1>4 DEF AuditInv, WorldTypeOK
  <2>2. command'[p].stage = "event" /\ command'[p].number \in Recorded'
    BY <1>2, <1>5, <1>7
  <2>3. written' = written /\ Recorded \subseteq Recorded'
    BY <1>4, <1>7
  <2>4. QED  BY <1>5, <2>1, <2>2, <2>3 DEF AuditInv, NumbersFollowStages
<1>10. UnderWay \subseteq UnderWay' /\ old.number \in UnderWay'
  <2>1. UnderWay \subseteq UnderWay' \cup {command[p].number} /\ command'[p].number \in UnderWay'
    BY <1>5, UnderWayBut
  <2>2. QED  BY <1>2, <1>5, <2>1
<1>11. NothingUnaudited'
  BY <1>1, <1>7, <1>8, <1>10 DEF AuditInv, NothingUnaudited
<1>12. QED  BY <1>6, <1>9, <1>11 DEF AuditInv

LEMMA LogEventSafe ==
  ASSUME AuditInv, NEW p \in Operators, LogEvent(p)
  PROVE  AuditInv'
<1> PICK old : old = command[p]
  OBVIOUS
<1>1. old.stage = "event" /\ old.number \in Recorded
  BY DEF AuditInv, NumbersFollowStages, LogEvent
<1>2. PICK event : event.number = old.number /\ events' = events \cup {event}
  BY DEF LogEvent, OperatorEvent
<1>3. /\ command' = [command EXCEPT ![p] = Idle]
      /\ UNCHANGED <<active, history, activations, written, lost>>
  BY DEF LogEvent
<1>4. /\ command' \in [Operators -> Jobs]
      /\ command'[p] = Idle
      /\ \A q \in Operators \ {p} : command'[q] = command[q]
  BY <1>3, IdleJob DEF AuditInv, WorldTypeOK
<1>5. WorldTypeOK'
  BY <1>3, <1>4 DEF AuditInv, WorldTypeOK
<1>6. Recorded' = Recorded /\ written' = written /\ lost' = lost
  BY <1>3 DEF Recorded
<1>7. Logged' = Logged \cup ({old.number} \ {0})
  BY <1>2 DEF Logged
<1>8. NumbersFollowStages'
  BY <1>3, <1>4, <1>6, IdleJob DEF AuditInv, NumbersFollowStages
<1>9. UnderWay \subseteq UnderWay' \cup {old.number}
  BY <1>4, UnderWayBut
<1>10. 0 \notin written /\ 0 \notin Recorded
  BY DEF AuditInv, WorldTypeOK, NothingUnaudited
<1>11. NothingUnaudited'
  BY <1>1, <1>6, <1>7, <1>9, <1>10 DEF AuditInv, NothingUnaudited
<1>12. QED  BY <1>5, <1>8, <1>11 DEF AuditInv

LEMMA CrashSafe ==
  ASSUME AuditInv, NEW p \in Operators, Crash(p)
  PROVE  AuditInv'
<1> PICK old : old = command[p]
  OBVIOUS
<1>1. /\ command' = [command EXCEPT ![p] = Idle]
      /\ lost' = lost \cup ({old.number} \ {0})
      /\ UNCHANGED <<active, history, events, activations, written>>
  BY DEF Crash, files
<1>2. /\ command' \in [Operators -> Jobs]
      /\ command'[p] = Idle
      /\ \A q \in Operators \ {p} : command'[q] = command[q]
  BY <1>1, IdleJob DEF AuditInv, WorldTypeOK
<1>3. WorldTypeOK'
  BY <1>1, <1>2 DEF AuditInv, WorldTypeOK
<1>4. Recorded' = Recorded /\ Logged' = Logged /\ written' = written
  BY <1>1 DEF Recorded, Logged
<1>5. NumbersFollowStages'
  BY <1>1, <1>2, <1>4, IdleJob DEF AuditInv, NumbersFollowStages
<1>6. UnderWay \subseteq UnderWay' \cup {old.number}
  BY <1>2, UnderWayBut
<1>7. 0 \notin written /\ 0 \notin Recorded
  BY DEF AuditInv, WorldTypeOK, NothingUnaudited
<1>8. NothingUnaudited'
  BY <1>1, <1>4, <1>6, <1>7 DEF AuditInv, NothingUnaudited
<1>9. QED  BY <1>3, <1>5, <1>8 DEF AuditInv

\* Editing the directory, clearing the pointer, or nothing at all.
LEMMA AuditUntouched ==
  ASSUME AuditInv, active' \in Worlds,
         UNCHANGED <<history, events, command, activations, written, lost>>
  PROVE  AuditInv'
<1>1. WorldTypeOK'
  BY DEF AuditInv, WorldTypeOK
<1>2. Recorded' = Recorded /\ Logged' = Logged /\ UnderWay' = UnderWay
  BY DEF Recorded, Logged, UnderWay
<1>3. NumbersFollowStages' /\ NothingUnaudited'
  BY <1>2 DEF AuditInv, NumbersFollowStages, NothingUnaudited
<1>4. QED  BY <1>1, <1>3 DEF AuditInv

LEMMA AuditSteps ==
  ASSUME AuditInv, [WorldNext]_worldVars
  PROVE  AuditInv'
<1>1. ASSUME NEW w \in Manifests, EditManifest(w) \/ RemoveManifest(w)  PROVE AuditInv'
  <2>1. active' \in Worlds
    BY <1>1 DEF EditManifest, RemoveManifest, AuditInv, WorldTypeOK
  <2>2. QED  BY <1>1, <2>1, AuditUntouched DEF EditManifest, RemoveManifest
<1>2. ASSUME NEW p \in Operators, ClearActive(p)  PROVE AuditInv'
  BY <1>2, AuditUntouched, KeysAreWorlds DEF ClearActive
<1>3. ASSUME NEW p \in Operators,
             (\E key \in Keys : PointAt(p, key) \/ ActivateWorld(p, key)) \/ RollbackWorld(p)
      PROVE  AuditInv'
  BY <1>3, CommandStarts
<1>4. ASSUME NEW p \in Operators, ReadHistory(p)  PROVE AuditInv'
  BY <1>4, ReadHistoryQuiet
<1>5. ASSUME NEW p \in Operators, ReadPrevious(p)  PROVE AuditInv'
  BY <1>5, ReadPreviousQuiet
<1>6. ASSUME NEW p \in Operators, WritePointer(p)  PROVE AuditInv'
  BY <1>6, WritePointerSafe
<1>7. ASSUME NEW p \in Operators, TargetGone(p)  PROVE AuditInv'
  BY <1>7, TargetGoneQuiet
<1>8. ASSUME NEW p \in Operators, AppendHistory(p)  PROVE AuditInv'
  BY <1>8, AppendHistorySafe
<1>9. ASSUME NEW p \in Operators, LogEvent(p)  PROVE AuditInv'
  BY <1>9, LogEventSafe
<1>10. ASSUME NEW p \in Operators, Crash(p)  PROVE AuditInv'
  BY <1>10, CrashSafe
<1>11. ASSUME UNCHANGED worldVars  PROVE AuditInv'
  <2>1. active' \in Worlds
    BY <1>11 DEF worldVars, files, AuditInv, WorldTypeOK
  <2>2. QED  BY <1>11, <2>1, AuditUntouched DEF worldVars, files
<1>12. QED
  BY <1>1, <1>2, <1>3, <1>4, <1>5, <1>6, <1>7, <1>8, <1>9, <1>10, <1>11 DEF WorldNext

LEMMA AuditStarts == WorldInit => AuditInv
<1> SUFFICES ASSUME WorldInit  PROVE AuditInv
  OBVIOUS
<1>1. \A p \in Operators : command[p] = Idle
  BY DEF WorldInit
<1>2. WorldTypeOK
  BY IdleJob DEF WorldInit, WorldTypeOK, Worlds
<1>3. NumbersFollowStages
  BY <1>1, IdleJob DEF NumbersFollowStages
<1>4. NothingUnaudited
  BY DEF WorldInit, NothingUnaudited, Recorded, Logged
<1>5. QED  BY <1>2, <1>3, <1>4 DEF AuditInv

(***************************************************************************)
(* The log tells of no activation that the history lacks, the history of   *)
(* none that did not write the pointer, and an activation that is missing  *)
(* from the next file is under way or its process ended early, whatever    *)
(* commands interleave (operator_service: pointer, then history, then      *)
(* event).                                                                 *)
(***************************************************************************)
THEOREM ActivationsAreAudited == WorldSpec => []NothingUnaudited
<1>1. AuditInv /\ [WorldNext]_worldVars => AuditInv'
  BY AuditSteps
<1>2. AuditInv => NothingUnaudited
  BY DEF AuditInv
<1>3. QED  BY AuditStarts, <1>1, <1>2, PTL DEF WorldSpec

-----------------------------------------------------------------------------
(***************************************************************************)
(* With one operator at a time, what it has read is still so when it       *)
(* writes: the world it found active is the one its write replaces.        *)
(***************************************************************************)
Trail(job) ==
  /\ job.stage = "pointer" /\ job.operator => job.previous \in {active, NoWorld}
  /\ job.stage = "record" =>
       /\ job.number = pointed
       /\ job.target = active
       /\ job.previous \in {before, NoWorld}

TrailInv ==
  /\ AuditInv
  /\ \A p \in Operators : Trail(command[p])
  /\ RecordsTrail

\* The latest record has a number, and none above activations.
LEMMA LatestRecord ==
  ASSUME AuditInv, history # <<>>
  PROVE  Last(history).number \in Nat \ {0} /\ Last(history).number <= activations
<1>1. history \in Seq(Records)
  BY DEF AuditInv, WorldTypeOK
<1>2. Len(history) \in DOMAIN history
  BY <1>1
<1>3. Last(history).number \in Recorded
  BY <1>2 DEF Recorded, Last
<1>4. QED  BY <1>3 DEF AuditInv, NothingUnaudited, WorldTypeOK

\* A step that leaves the pointer and the history alone, and gives nobody a job
\* that has found a world.
LEMMA TrailUntouched ==
  ASSUME TrailInv, AuditInv', UNCHANGED <<active, history, pointed, before>>,
         \A p \in Operators :
           \/ command'[p] = command[p]
           \/ command'[p].stage \notin {"pointer", "record"}
           \/ command'[p].stage = "pointer" /\ ~command'[p].operator
  PROVE  TrailInv'
<1>1. \A p \in Operators : Trail(command[p])'
  BY DEF TrailInv, Trail
<1>2. RecordsTrail'
  BY DEF TrailInv, RecordsTrail
<1>3. QED  BY <1>1, <1>2 DEF TrailInv

LEMMA TrailReadPrevious ==
  ASSUME NEW p, Operators = {p}, TrailInv, AuditInv', ReadPrevious(p)
  PROVE  TrailInv'
<1>1. UNCHANGED <<active, history, pointed, before>>
  BY DEF ReadPrevious, files
<1>2. \/ command'[p] = Idle
      \/ command'[p].stage = "pointer" /\ command'[p].previous = ActiveWorld
  BY DEF ReadPrevious, TrailInv, AuditInv, WorldTypeOK, Jobs
<1>3. ActiveWorld \in {active, NoWorld}
  BY DEF ActiveWorld
<1>4. Trail(command[p])'
  BY <1>1, <1>2, <1>3, IdleJob DEF Trail
<1>5. RecordsTrail'
  BY <1>1 DEF TrailInv, RecordsTrail
<1>6. QED  BY <1>4, <1>5 DEF TrailInv

LEMMA TrailWritePointer ==
  ASSUME NEW p, Operators = {p}, TrailInv, AuditInv', WritePointer(p)
  PROVE  TrailInv'
<1> PICK old, n : old = command[p] /\ n = activations + 1
  OBVIOUS
<1>1. /\ old \in Jobs /\ old.stage = "pointer" /\ activations \in Nat
      /\ old.operator => old.previous \in {active, NoWorld}
  BY DEF WritePointer, TrailInv, AuditInv, WorldTypeOK, Trail
<1>2. /\ active' = old.target /\ before' = active /\ history' = history
      /\ pointed' = IF old.operator THEN n ELSE 0
  BY DEF WritePointer
<1>3. \/ ~old.operator /\ command'[p] = Idle
      \/ /\ old.operator
         /\ command'[p].stage = "record" /\ command'[p].number = n
         /\ command'[p].target = old.target /\ command'[p].previous = old.previous
  <2> PICK job : job = [old EXCEPT !.stage = "record", !.number = n]
    OBVIOUS
  <2>1. /\ job.stage = "record" /\ job.number = n
        /\ job.target = old.target /\ job.previous = old.previous
    BY <1>1 DEF Jobs
  <2>2. command'[p] = IF old.operator THEN job ELSE Idle
    BY DEF WritePointer, TrailInv, AuditInv, WorldTypeOK
  <2>3. QED  BY <1>1, <2>1, <2>2 DEF Jobs
<1>4. Trail(command[p])'
  BY <1>1, <1>2, <1>3, IdleJob DEF Trail
<1>5. RecordsTrail'
  <2>1. history # <<>> => Last(history).number # pointed'
    BY <1>1, <1>2, LatestRecord DEF TrailInv
  <2>2. QED  BY <1>2, <2>1 DEF RecordsTrail
<1>6. QED  BY <1>4, <1>5 DEF TrailInv

LEMMA TrailAppendHistory ==
  ASSUME NEW p, Operators = {p}, TrailInv, AuditInv', AppendHistory(p)
  PROVE  TrailInv'
<1> PICK old, record : old = command[p] /\ record = ActivationRecord(old)
  OBVIOUS
<1>1. /\ old \in Jobs /\ old.stage = "record"
      /\ old.target = active /\ old.previous \in {before, NoWorld}
  BY DEF AppendHistory, TrailInv, AuditInv, WorldTypeOK, Trail
<1>2. /\ history' = Append(history, record)
      /\ UNCHANGED <<active, pointed, before>>
      /\ command'[p].stage = "event"
  BY <1>1 DEF AppendHistory, TrailInv, AuditInv, WorldTypeOK, Jobs
<1>3. record.world = old.target /\ record.previous = old.previous
  BY DEF ActivationRecord
<1>4. Last(history') = record
  <2>1. history \in Seq(Records) /\ record \in Records
    BY <1>1 DEF TrailInv, AuditInv, WorldTypeOK, Jobs, Records, ActivationRecord
  <2>2. QED  BY <1>2, <2>1 DEF Last
<1>5. Trail(command[p])'
  BY <1>2 DEF Trail
<1>6. RecordsTrail'
  BY <1>1, <1>2, <1>3, <1>4 DEF RecordsTrail
<1>7. QED  BY <1>5, <1>6 DEF TrailInv

LEMMA TrailClearActive ==
  ASSUME NEW p, Operators = {p}, TrailInv, AuditInv', ClearActive(p)
  PROVE  TrailInv'
<1>1. pointed' = 0 /\ history' = history /\ command' = command /\ command[p] = Idle
  BY DEF ClearActive
<1>2. Trail(command[p])'
  BY <1>1, IdleJob DEF Trail
<1>3. RecordsTrail'
  BY <1>1, LatestRecord DEF RecordsTrail, TrailInv
<1>4. QED  BY <1>2, <1>3 DEF TrailInv

LEMMA TrailSteps ==
  ASSUME NEW p, Operators = {p}, TrailInv, [WorldNext]_worldVars
  PROVE  TrailInv'
<1>1. AuditInv'
  BY AuditSteps DEF TrailInv
<1>2. ASSUME NEW w \in Manifests, EditManifest(w) \/ RemoveManifest(w)  PROVE TrailInv'
  BY <1>1, <1>2, TrailUntouched DEF EditManifest, RemoveManifest
<1>3. CASE ClearActive(p)
  BY <1>1, <1>3, TrailClearActive
<1>4. ASSUME NEW key \in Keys, PointAt(p, key) \/ ActivateWorld(p, key)  PROVE TrailInv'
  <2>1. /\ UNCHANGED <<active, history, pointed, before>>
        /\ \/ command'[p] = Job("pointer", FALSE, FALSE, key)
           \/ command'[p] = Job("previous", TRUE, FALSE, key)
    BY <1>4 DEF PointAt, ActivateWorld, Start, files, TrailInv, AuditInv, WorldTypeOK
  <2>2. \/ command'[p].stage = "pointer" /\ ~command'[p].operator
        \/ command'[p].stage = "previous"
    BY <2>1 DEF Job
  <2>3. QED  BY <1>1, <2>1, <2>2, TrailUntouched
<1>5. CASE RollbackWorld(p)
  <2>1. /\ UNCHANGED <<active, history, pointed, before>>
        /\ command'[p] = Job("history", TRUE, TRUE, NoWorld)
    BY <1>5 DEF RollbackWorld, Start, files, TrailInv, AuditInv, WorldTypeOK
  <2>2. command'[p].stage = "history"
    BY <2>1 DEF Job
  <2>3. QED  BY <1>1, <2>1, <2>2, TrailUntouched
<1>6. CASE ReadHistory(p)
  <2>1. /\ UNCHANGED <<active, history, pointed, before>>
        /\ command'[p] = Idle \/ command'[p].stage = "previous"
    BY <1>6 DEF ReadHistory, files, TrailInv, AuditInv, WorldTypeOK, Jobs
  <2>2. command'[p].stage \notin {"pointer", "record"}
    BY <2>1, IdleJob
  <2>3. QED  BY <1>1, <2>1, <2>2, TrailUntouched
<1>7. CASE ReadPrevious(p)
  BY <1>1, <1>7, TrailReadPrevious
<1>8. CASE WritePointer(p)
  BY <1>1, <1>8, TrailWritePointer
<1>9. CASE AppendHistory(p)
  BY <1>1, <1>9, TrailAppendHistory
<1>10. CASE TargetGone(p) \/ LogEvent(p) \/ Crash(p)
  <2>1. UNCHANGED <<active, history, pointed, before>> /\ command'[p] = Idle
    BY <1>10 DEF TargetGone, LogEvent, Crash, files, TrailInv, AuditInv, WorldTypeOK
  <2>2. command'[p].stage \notin {"pointer", "record"}
    BY <2>1, IdleJob
  <2>3. QED  BY <1>1, <2>1, <2>2, TrailUntouched
<1>11. CASE UNCHANGED worldVars
  BY <1>1, <1>11, TrailUntouched DEF worldVars, files
<1>12. QED
  BY <1>2, <1>3, <1>4, <1>5, <1>6, <1>7, <1>8, <1>9, <1>10, <1>11 DEF WorldNext

LEMMA TrailStarts == WorldInit => TrailInv
<1> SUFFICES ASSUME WorldInit  PROVE TrailInv
  OBVIOUS
<1>1. \A q \in Operators : command[q] = Idle
  BY DEF WorldInit
<1>2. \A q \in Operators : Trail(command[q])
  BY <1>1, IdleJob DEF Trail
<1>3. RecordsTrail
  BY DEF WorldInit, RecordsTrail
<1>4. QED  BY <1>2, <1>3, AuditStarts DEF TrailInv

(***************************************************************************)
(* With one operator at a time a record of the history that is about the   *)
(* active world names the world that was active before it, so a rollback   *)
(* that follows it goes there, whatever manifests are edited or removed    *)
(* and wherever the process ends (operator_service.activate_world and      *)
(* rollback_world, WorldRegistry.set_active).                              *)
(***************************************************************************)
THEOREM RecordsNameThePrevious ==
  ASSUME NEW CONSTANT p, Operators = {p}
  PROVE  WorldSpec => []RecordsTrail
<1>1. TrailInv /\ [WorldNext]_worldVars => TrailInv'
  BY TrailSteps
<1>2. WorldInit => TrailInv
  BY TrailStarts
<1>3. TrailInv => RecordsTrail
  BY DEF TrailInv
<1>4. QED  BY <1>1, <1>2, <1>3, PTL DEF WorldSpec

-----------------------------------------------------------------------------
(***************************************************************************)
(* Minimization.                                                           *)
(***************************************************************************)

LEMMA DraftFacts ==
  ASSUME NEW d \in Drafts
  PROVE  /\ Len(d) \in Nat \ {0} /\ DOMAIN d = 1 .. Len(d)
         /\ \A i \in 1 .. Len(d) : IsCandidate(d[i])
         /\ Kept(d) \in SUBSET (1 .. Len(d))
<1>1. /\ Len(d) \in Nat \ {0}
      /\ d = [i \in 1 .. Len(d) |-> d[i]]
      /\ \A i \in 1 .. Len(d) : IsCandidate(d[i])
  BY DraftsAssumption
<1>2. DOMAIN d = 1 .. Len(d)
  BY <1>1
<1>3. QED  BY <1>1, <1>2 DEF Kept

LEMMA MinimizeFacts ==
  ASSUME NEW d \in Drafts
  PROVE  /\ Cardinality(Kept(d)) \in Nat
         /\ DOMAIN Minimize(d).steps = 1 .. Cardinality(Kept(d))
         /\ Len(Minimize(d).steps) = Cardinality(Kept(d))
         /\ \A n \in 1 .. Cardinality(Kept(d)) :
              /\ InOrder(Kept(d))[n] \in Kept(d)
              /\ Minimize(d).steps[n] = ReduceStep(d[InOrder(Kept(d))[n]])
         /\ Minimize(d).diff.removed = DOMAIN d \ Kept(d)
         /\ Minimize(d).diff.params = UNION {ParamChanges(d, i) : i \in Kept(d)}
<1> DEFINE K == InOrder(Kept(d))
           s == [n \in DOMAIN K |-> ReduceStep(d[K[n]])]
<1>1. /\ Cardinality(Kept(d)) \in Nat /\ DOMAIN K = 1 .. Cardinality(Kept(d))
      /\ \A n \in DOMAIN K : K[n] \in Kept(d)
  <2>1. Len(d) \in Nat /\ Kept(d) \in SUBSET (1 .. Len(d))
    BY DraftFacts
  <2>2. QED  BY <2>1, OrderKeeps
<1>2. /\ Minimize(d).steps = s
      /\ Minimize(d).diff.removed = DOMAIN d \ Kept(d)
      /\ Minimize(d).diff.params = UNION {ParamChanges(d, i) : i \in Kept(d)}
  BY DEF Minimize
<1> HIDE DEF K
<1>3. /\ DOMAIN s = 1 .. Cardinality(Kept(d))
      /\ \A n \in 1 .. Cardinality(Kept(d)) : s[n] = ReduceStep(d[K[n]])
      /\ s = [n \in 1 .. Cardinality(Kept(d)) |-> s[n]]
  BY <1>1
<1> HIDE DEF s
<1>4. Len(s) = Cardinality(Kept(d))
  BY <1>1, <1>3, LengthOf
<1>5. QED  BY <1>1, <1>2, <1>3, <1>4 DEF K

LEMMA ReducedStep ==
  ASSUME NEW step, IsCandidate(step)
  PROVE  /\ ReduceStep(step).tool = step.tool
         /\ ReduceStep(step).params = ReduceParams(step.params)
<1>1. step = CandidateStep(step.tool, step.params, step.caps)
  BY DEF IsCandidate
<1>2. QED  BY <1>1 DEF ReduceStep, CandidateStep

\* The changes at an index are those of the step at that index, and no others.
LEMMA ChangesAt ==
  ASSUME NEW d \in Drafts, NEW i \in Kept(d)
  PROVE  {c \in UNION {ParamChanges(d, j) : j \in Kept(d)} : c.index = i} = ParamChanges(d, i)
<1>1. ASSUME NEW j \in Kept(d), NEW c \in ParamChanges(d, j)
      PROVE  c.index = j
  BY <1>1 DEF ParamChanges
<1>2. QED  BY <1>1

\* Undoing the changes of a step gives its parameters.
LEMMA UndoesStep ==
  ASSUME NEW d \in Drafts, NEW i \in 1 .. Len(d)
  PROVE  LET changes == ParamChanges(d, i)
             now == ReduceParams(d[i].params)
         IN  [k \in DOMAIN now \cup {c.field : c \in changes} |->
                IF \E c \in changes : c.field = k
                THEN (CHOOSE c \in changes : c.field = k).before
                ELSE now[k]] = d[i].params
<1> DEFINE changes == ParamChanges(d, i)
           params == d[i].params
           now == ReduceParams(params)
           Changed(k) == Dropped(params[k]) \/ StripsQuery(k, params[k])
<1>1. params = [k \in DOMAIN params |-> params[k]]
  BY DraftFacts DEF IsCandidate
<1>2. /\ DOMAIN now = {k \in DOMAIN params : ~Dropped(params[k])}
      /\ \A k \in DOMAIN now : ~StripsQuery(k, params[k]) => now[k] = params[k]
  BY DEF ReduceParams
<1>3. /\ \A c \in changes : c.field \in DOMAIN params /\ Changed(c.field)
                              /\ c.before = params[c.field]
      /\ \A k \in DOMAIN params : Changed(k) => \E c \in changes : c.field = k
  <2> DEFINE change(k) == [index |-> i, field |-> k, before |-> params[k],
                           after |-> IF Dropped(params[k]) THEN Null ELSE now[k]]
  <2>1. changes = {change(k) : k \in {k \in DOMAIN params : Changed(k)}}
    BY DEF ParamChanges
  <2>2. \A k : change(k).field = k /\ change(k).before = params[k]
    OBVIOUS
  <2> HIDE DEF change, changes, params, Changed
  <2>3. QED  BY <2>1, <2>2
<1> HIDE DEF changes, now, params
<1>4. DOMAIN now \cup {c.field : c \in changes} = DOMAIN params
  <2>1. \A k \in DOMAIN params : ~Changed(k) => k \in DOMAIN now
    BY <1>2
  <2>2. \A k \in DOMAIN params : Changed(k) => k \in {c.field : c \in changes}
    BY <1>3
  <2>3. DOMAIN now \subseteq DOMAIN params /\ {c.field : c \in changes} \subseteq DOMAIN params
    BY <1>2, <1>3
  <2> HIDE DEF Changed
  <2>4. QED  BY <2>1, <2>2, <2>3
<1>5. ASSUME NEW k \in DOMAIN params
      PROVE  (IF \E c \in changes : c.field = k
              THEN (CHOOSE c \in changes : c.field = k).before
              ELSE now[k]) = params[k]
  <2>1. CASE \E c \in changes : c.field = k
    <3>1. PICK c \in changes : c = CHOOSE e \in changes : e.field = k
      BY <2>1
    <3>2. c.field = k
      BY <2>1, <3>1
    <3>3. QED  BY <1>3, <2>1, <3>1, <3>2
  <2>2. CASE ~\E c \in changes : c.field = k
    <3>1. ~Changed(k)
      BY <1>3, <2>2
    <3>2. QED  BY <1>2, <2>2, <3>1
  <2>3. QED  BY <2>1, <2>2
<1>6. [k \in DOMAIN now \cup {c.field : c \in changes} |->
         IF \E c \in changes : c.field = k
         THEN (CHOOSE c \in changes : c.field = k).before
         ELSE now[k]] = params
  BY <1>1, <1>4, <1>5
<1>7. QED  BY <1>6 DEF changes, now, params

\* The steps of a program are its draft's, or what minimizing that gives.
Versions(program) ==
  /\ program.original \in Drafts
  /\ \/ program.minimized = program.original /\ program.diff = EmptyDiff
     \/ /\ program.minimized = Minimize(program.original).steps
        /\ program.diff = Minimize(program.original).diff

LEMMA MinimizedExplained ==
  ASSUME NEW program, program.original \in Drafts,
         program.minimized = Minimize(program.original).steps,
         program.diff = Minimize(program.original).diff
  PROVE  Explains(program)
<1> DEFINE d == program.original
<1>1. /\ d \in Drafts /\ DOMAIN d = 1 .. Len(d) /\ Kept(d) \subseteq DOMAIN d
      /\ \A i \in 1 .. Len(d) : IsCandidate(d[i])
  BY DraftFacts
<1>2. /\ program.diff.removed = DOMAIN d \ Kept(d)
      /\ program.diff.params = UNION {ParamChanges(d, i) : i \in Kept(d)}
      /\ Len(program.minimized) = Cardinality(Kept(d))
      /\ DOMAIN program.minimized = 1 .. Cardinality(Kept(d))
      /\ \A n \in 1 .. Cardinality(Kept(d)) :
              /\ InOrder(Kept(d))[n] \in Kept(d)
              /\ program.minimized[n] = ReduceStep(d[InOrder(Kept(d))[n]])
  BY <1>1, MinimizeFacts
<1>3. DOMAIN d \ program.diff.removed = Kept(d)
  BY <1>1, <1>2
<1>4. ASSUME NEW n \in DOMAIN program.minimized
      PROVE  Signature(d[Origin(program, n)])
               = <<program.minimized[n].tool, Undone(program, n)>>
  <2> DEFINE i == InOrder(Kept(d))[n]
  <2>1. Origin(program, n) = i
    BY <1>3 DEF Origin
  <2>2. i \in Kept(d) /\ i \in 1 .. Len(d) /\ program.minimized[n] = ReduceStep(d[i])
    BY <1>1, <1>2
  <2> HIDE DEF i
  <2>3. /\ program.minimized[n].tool = d[i].tool
        /\ program.minimized[n].params = ReduceParams(d[i].params)
    BY <1>1, <2>2, ReducedStep
  <2>4. {c \in program.diff.params : c.index = i} = ParamChanges(d, i)
    BY <1>1, <1>2, <2>2, ChangesAt
  <2>5. Undone(program, n) = d[i].params
    BY <1>1, <2>1, <2>2, <2>3, <2>4, UndoesStep DEF Undone
  <2>6. QED  BY <2>1, <2>3, <2>5 DEF Signature
<1>5. ASSUME NEW i \in program.diff.removed
      PROVE  Signature(d[i]) = Signature(d[i - 1])
  BY <1>2 DEF Kept, IsDuplicate
<1>6. QED  BY <1>2, <1>3, <1>4, <1>5 DEF Explains

LEMMA OriginalExplained ==
  ASSUME NEW program, program.original \in Drafts,
         program.minimized = program.original, program.diff = EmptyDiff
  PROVE  Explains(program)
<1> DEFINE d == program.original
<1>1. /\ Len(d) \in Nat /\ DOMAIN d = 1 .. Len(d)
      /\ \A i \in 1 .. Len(d) : IsCandidate(d[i])
  BY DraftFacts
<1>2. program.diff.removed = {} /\ program.diff.params = {}
  BY DEF EmptyDiff
<1>3. DOMAIN d \ program.diff.removed = 1 .. Len(d)
  BY <1>1, <1>2
<1>4. /\ Len(d) = Cardinality(1 .. Len(d))
      /\ [n \in 1 .. Len(d) |-> n] = InOrder(1 .. Len(d))
  <2> DEFINE f == [n \in 1 .. Len(d) |-> n]
  <2>1. Lists(f, Len(d), 1 .. Len(d))
    BY DEF Lists
  <2> HIDE DEF f
  <2>2. QED  BY <1>1, <2>1, OrderIsUnique DEF f
<1>5. ASSUME NEW n \in DOMAIN program.minimized
      PROVE  Signature(d[Origin(program, n)])
               = <<program.minimized[n].tool, Undone(program, n)>>
  <2>1. Origin(program, n) = n
    BY <1>1, <1>3, <1>4 DEF Origin
  <2>2. d[n].params = [k \in DOMAIN d[n].params |-> d[n].params[k]]
    BY <1>1 DEF IsCandidate
  <2>3. {c \in program.diff.params : c.index = n} = {}
    BY <1>2
  <2>4. Undone(program, n) = [k \in DOMAIN d[n].params |-> d[n].params[k]]
    BY <2>1, <2>3 DEF Undone
  <2>5. QED  BY <2>1, <2>2, <2>4 DEF Signature
<1>6. QED  BY <1>2, <1>3, <1>4, <1>5 DEF Explains

LEMMA VersionsExplained ==
  ASSUME NEW program, Versions(program)
  PROVE  Explains(program)
  BY MinimizedExplained, OriginalExplained DEF Versions

\* Minimizing what is runnable leaves it runnable: it needs no other tools and
\* has no more steps.
LEMMA MinimizedRunnable ==
  ASSUME NEW program, Versions(program), Runnable(program)
  PROVE  /\ Compatible(Minimize(program.original).steps, AcceptActions)
         /\ ~TooLong(Minimize(program.original).steps)
<1> DEFINE d == program.original
           m == Minimize(d).steps
<1>1. CASE program.minimized = m
  BY <1>1 DEF Runnable
<1>2. CASE program.minimized = d
  <2>1. /\ d \in Drafts /\ Len(d) \in Nat /\ DOMAIN d = 1 .. Len(d)
        /\ \A i \in 1 .. Len(d) : IsCandidate(d[i])
        /\ Kept(d) \in SUBSET (1 .. Len(d))
    BY DraftFacts DEF Versions
  <2>2. /\ DOMAIN m = 1 .. Cardinality(Kept(d)) /\ Len(m) = Cardinality(Kept(d))
        /\ \A n \in 1 .. Cardinality(Kept(d)) :
              /\ InOrder(Kept(d))[n] \in Kept(d)
              /\ m[n] = ReduceStep(d[InOrder(Kept(d))[n]])
    BY <2>1, MinimizeFacts
  <2>3. \A i \in 1 .. Len(d) : d[i].tool \in AcceptActions
    BY <1>2, <2>1 DEF Runnable, Compatible, Violations
  <2>4. ASSUME NEW n \in DOMAIN m
        PROVE  m[n].tool \in AcceptActions
    <3>1. PICK i \in 1 .. Len(d) : m[n] = ReduceStep(d[i])
      BY <2>1, <2>2
    <3>2. QED  BY <2>1, <2>3, <3>1, ReducedStep
  <2>5. Cardinality(Kept(d)) <= Len(d) /\ Cardinality(Kept(d)) \in Nat
    <3>1. IsFiniteSet(1 .. Len(d)) /\ Cardinality(1 .. Len(d)) = Len(d)
      BY <2>1, FS_Interval
    <3>2. QED  BY <2>1, <3>1, FS_Subset, FS_CardinalityType
  <2>6. ~(Len(d) > MaxSteps) /\ MaxSteps \in Nat
    BY <1>2, LimitsAssumption DEF Runnable, TooLong
  <2>7. QED  BY <2>1, <2>2, <2>4, <2>5, <2>6 DEF Compatible, Violations, TooLong
<1>3. QED  BY <1>1, <1>2 DEF Versions

-----------------------------------------------------------------------------
(***************************************************************************)
(* The review.  A file is sound, and so is what a process has in its hands *)
(* and may save at any later time over whatever the file has become.       *)
(***************************************************************************)

Sound(program) ==
  /\ program = ReviewedProgram(program.status, program.original, program.minimized,
                               program.diff)
  /\ Versions(program)
  /\ program.status = "accepted" => Runnable(program)

ReviewInv ==
  /\ \A id \in DOMAIN programs : Sound(programs[id])
  /\ review = [p \in Reviewers |-> review[p]]
  /\ \A p \in Reviewers : review[p].busy => Sound(review[p].updated)

LEMMA StoreKeeps ==
  ASSUME ReviewInv, NEW id, NEW program, Sound(program), Store(id, program)
  PROVE  \A i \in DOMAIN programs' : Sound(programs'[i])
  BY DEF ReviewInv, Store

LEMMA LoadKeeps ==
  ASSUME ReviewInv, NEW p \in Reviewers, NEW id, NEW updated, Sound(updated),
         Load(p, id, updated)
  PROVE  ReviewInv'
<1> DEFINE loaded == [busy |-> TRUE, id |-> id, updated |-> updated]
<1>1. review' = [review EXCEPT ![p] = loaded] /\ programs' = programs
  BY DEF Load
<1>2. loaded.updated = updated
  OBVIOUS
<1> HIDE DEF loaded
<1>3. review' = [q \in Reviewers |-> IF q = p THEN loaded ELSE review[q]]
  BY <1>1 DEF ReviewInv
<1>4. QED  BY <1>1, <1>2, <1>3 DEF ReviewInv

LEMMA NothingLoaded == NoReview.busy = FALSE
  BY DEF NoReview

\* The command is over; the file may be another one than before.
LEMMA EndKeeps ==
  ASSUME ReviewInv, NEW p \in Reviewers, review' = [review EXCEPT ![p] = NoReview],
         \A id \in DOMAIN programs' : Sound(programs'[id])
  PROVE  ReviewInv'
<1>1. review' = [q \in Reviewers |-> IF q = p THEN NoReview ELSE review[q]]
  BY DEF ReviewInv
<1>2. QED  BY <1>1, NothingLoaded DEF ReviewInv

LEMMA ProposeKeeps ==
  ASSUME ReviewInv, NEW id \in ProgramIds, NEW steps \in Drafts, ProposeProgram(id, steps)
  PROVE  ReviewInv'
<1> DEFINE program == ReviewedProgram("proposed", steps, steps, EmptyDiff)
<1>1. /\ program = ReviewedProgram(program.status, program.original, program.minimized,
                                   program.diff)
      /\ program.original = steps /\ program.minimized = steps /\ program.diff = EmptyDiff
      /\ program.status = "proposed"
  BY DEF ReviewedProgram
<1>2. Store(id, program) /\ review' = review
  BY DEF ProposeProgram
<1> HIDE DEF program
<1>3. Sound(program)
  BY <1>1 DEF Sound, Versions
<1>4. \A i \in DOMAIN programs' : Sound(programs'[i])
  BY <1>2, <1>3, StoreKeeps
<1>5. QED  BY <1>2, <1>4 DEF ReviewInv

LEMMA Reminimized ==
  ASSUME NEW program, NEW steps, NEW changes,
         program = ReviewedProgram(program.status, program.original, program.minimized,
                                   program.diff)
  PROVE  [program EXCEPT !.minimized = steps, !.diff = changes]
           = ReviewedProgram(program.status, program.original, steps, changes)
<1> DEFINE half == [program EXCEPT !.minimized = steps]
<1>1. half = ReviewedProgram(program.status, program.original, steps, program.diff)
  BY DEF ReviewedProgram
<1> HIDE DEF half
<1>2. [half EXCEPT !.diff = changes]
        = ReviewedProgram(program.status, program.original, steps, changes)
  BY <1>1 DEF ReviewedProgram
<1>3. QED  BY <1>2 DEF half

LEMMA MinimizeKeeps ==
  ASSUME ReviewInv, NEW p \in Reviewers, NEW id, MinimizeProgram(p, id)
  PROVE  ReviewInv'
<1> DEFINE old == programs[id]
           m == Minimize(old.original)
           new == [old EXCEPT !.minimized = m.steps, !.diff = m.diff]
<1>1. Sound(old) /\ Load(p, id, new)
  BY DEF ReviewInv, MinimizeProgram
<1> HIDE DEF old, m
<1>2. new = ReviewedProgram(old.status, old.original, m.steps, m.diff)
  <2>1. old = ReviewedProgram(old.status, old.original, old.minimized, old.diff)
    BY <1>1 DEF Sound
  <2>2. QED  BY <2>1, Reminimized
<1> HIDE DEF new
<1>3. /\ new.status = old.status /\ new.original = old.original
      /\ new.minimized = m.steps /\ new.diff = m.diff
  BY <1>2 DEF ReviewedProgram
<1>4. Versions(new)
  BY <1>1, <1>3 DEF Sound, Versions, m
<1>5. ASSUME new.status = "accepted"
      PROVE  Runnable(new)
  <2>1. Runnable(old) /\ Versions(old)
    BY <1>1, <1>3, <1>5 DEF Sound
  <2>2. QED  BY <1>3, <2>1, MinimizedRunnable DEF Runnable, m
<1>6. Sound(new)
  BY <1>2, <1>3, <1>4, <1>5 DEF Sound
<1>7. QED  BY <1>1, <1>6, LoadKeeps

\* A transition changes the status alone.
LEMMA TransitionKeeps ==
  ASSUME ReviewInv, NEW p \in Reviewers, NEW id, NEW status, MayBecome(id, status),
         status = "accepted" => Runnable(programs[id]),
         Load(p, id, [programs[id] EXCEPT !.status = status])
  PROVE  ReviewInv'
<1> DEFINE old == programs[id]
           new == [old EXCEPT !.status = status]
<1>1. Sound(old)
  BY DEF ReviewInv, MayBecome
<1>2. status = "accepted" => Runnable(old)
  OBVIOUS
<1>3. Load(p, id, new)
  OBVIOUS
<1> HIDE DEF old
<1>4. new = ReviewedProgram(status, old.original, old.minimized, old.diff)
  BY <1>1 DEF Sound, ReviewedProgram
<1> HIDE DEF new
<1>5. /\ new.status = status /\ new.original = old.original
      /\ new.minimized = old.minimized /\ new.diff = old.diff
  BY <1>4 DEF ReviewedProgram
<1>6. Sound(new)
  BY <1>1, <1>2, <1>4, <1>5 DEF Sound, Versions, Runnable
<1>7. QED  BY <1>3, <1>6, LoadKeeps

LEMMA ReviewSteps ==
  ASSUME ReviewInv, [ReviewNext]_reviewVars
  PROVE  ReviewInv'
<1>1. CASE \E id \in ProgramIds, steps \in Drafts : ProposeProgram(id, steps)
  BY <1>1, ProposeKeeps
<1>2. ASSUME NEW p \in Reviewers, NEW id \in ProgramIds,
             \/ MinimizeProgram(p, id) \/ ReviewProgram(p, id)
             \/ AcceptProgram(p, id) \/ RejectProgram(p, id)
      PROVE  ReviewInv'
  <2>1. CASE MinimizeProgram(p, id)
    BY <2>1, MinimizeKeeps
  <2>2. CASE ReviewProgram(p, id)
    BY <2>2, TransitionKeeps DEF ReviewProgram
  <2>3. CASE AcceptProgram(p, id)
    BY <2>3, TransitionKeeps DEF AcceptProgram, Runnable
  <2>4. CASE RejectProgram(p, id)
    BY <2>4, TransitionKeeps DEF RejectProgram
  <2>5. QED  BY <1>2, <2>1, <2>2, <2>3, <2>4
<1>3. ASSUME NEW p \in Reviewers, SaveProgram(p)
      PROVE  ReviewInv'
  <2>1. Sound(review[p].updated)
    BY <1>3 DEF SaveProgram, ReviewInv
  <2>2. Store(review[p].id, review[p].updated) /\ review' = [review EXCEPT ![p] = NoReview]
    BY <1>3 DEF SaveProgram
  <2>3. \A id \in DOMAIN programs' : Sound(programs'[id])
    BY <2>1, <2>2, StoreKeeps
  <2>4. QED  BY <2>2, <2>3, EndKeeps
<1>4. ASSUME NEW p \in Reviewers, AbandonReview(p)
      PROVE  ReviewInv'
  <2>1. programs' = programs /\ review' = [review EXCEPT ![p] = NoReview]
    BY <1>4 DEF AbandonReview
  <2>2. QED  BY <2>1, EndKeeps DEF ReviewInv
<1>5. CASE UNCHANGED reviewVars
  BY <1>5 DEF reviewVars, ReviewInv
<1>6. QED  BY <1>1, <1>2, <1>3, <1>4, <1>5 DEF ReviewNext

LEMMA ReviewStarts == ReviewInit => ReviewInv
<1> SUFFICES ASSUME ReviewInit PROVE ReviewInv
  OBVIOUS
<1>1. DOMAIN programs = {} /\ review = [p \in Reviewers |-> NoReview]
  BY DEF ReviewInit
<1>2. QED  BY <1>1, NothingLoaded DEF ReviewInv

\* A step of the layer is one of the review or leaves the review alone, and so
\* for the worlds.
LEMMA LayerSteps ==
  ASSUME [Next]_layerVars
  PROVE  [ReviewNext]_reviewVars
<1>1. CASE ReviewNext
  BY <1>1
<1>2. CASE WorldNext /\ UNCHANGED <<programs, review, lastRun>>
  BY <1>2 DEF reviewVars
<1>3. ASSUME NEW action, NEW key, NEW losing, LogQuery(action, key, losing)
      PROVE  UNCHANGED reviewVars
  BY <1>3 DEF LogQuery, reviewVars
<1>4. ASSUME NEW s, RunScenario(s)
      PROVE  UNCHANGED reviewVars
  BY <1>4 DEF RunScenario, reviewVars
<1>5. CASE UNCHANGED layerVars
  BY <1>5 DEF layerVars, reviewVars
<1>6. QED
  BY <1>1, <1>2, <1>3, <1>4, <1>5 DEF Next, PreviewActivationImpact, GetProgramCompatibility

LEMMA ReviewHolds == Spec => []ReviewInv
<1>1. Init => ReviewInv
  BY ReviewStarts DEF Init
<1>2. ReviewInv /\ [Next]_layerVars => ReviewInv'
  BY LayerSteps, ReviewSteps
<1>3. QED  BY <1>1, <1>2, PTL DEF Spec

(***************************************************************************)
(* However minimizing, reviewing, accepting and saving interleave, and     *)
(* whatever drafts there are: undoing the diff of a file gives its         *)
(* original steps (minimizer.minimize, review_lifecycle.minimize_program). *)
(***************************************************************************)
THEOREM DiffsExplain == Spec => []DiffExplains
<1>1. ReviewInv => DiffExplains
  BY VersionsExplained DEF ReviewInv, Sound, DiffExplains
<1>2. QED  BY <1>1, ReviewHolds, PTL

(***************************************************************************)
(* And an accepted program is one that validation lets through, also after *)
(* it was minimized again or an older load of it was saved                 *)
(* (review_lifecycle.accept_program).                                      *)
(***************************************************************************)
THEOREM AcceptedRun == Spec => []AcceptedIsRunnable
<1>1. ReviewInv => AcceptedIsRunnable
  BY DEF ReviewInv, Sound, AcceptedIsRunnable
<1>2. QED  BY <1>1, ReviewHolds, PTL

-----------------------------------------------------------------------------
(***************************************************************************)
(* Preview and replay.                                                     *)
(***************************************************************************)

\* A step that runs is never put down to a capability of its world.
LEMMA KindsOfSteps ==
  ASSUME NEW step, NEW allowed, NEW input, NEW slow
  PROVE  StepKind(step, allowed, input, slow) # "world"
<1>1. CompileKind(step) # "world"
  BY DEF CompileKind
<1>2. ExecuteKind(step, input, slow) # "world"
  BY DEF ExecuteKind
<1>3. QED  BY <1>1, <1>2 DEF StepKind

LEMMA RunBlamesNoWorld ==
  ASSUME NEW steps, NEW allowed, NEW input, NEW slow,
         NEW n \in DOMAIN RunProgram(steps, allowed, input, slow).steps
  PROVE  RuleKind(RunProgram(steps, allowed, input, slow).steps[n].kind) # "capability"
<1> DEFINE kind == [i \in DOMAIN steps |-> StepKind(steps[i], allowed, input, i \in slow)]
           failed == {i \in DOMAIN steps : kind[i] # "ok"}
           stop == IF failed = {} THEN Len(steps) + 1 ELSE Earliest(failed)
           traces == [i \in DOMAIN steps |->
                        IF i < stop THEN StepTrace(i, steps[i], "allow", "ok")
                        ELSE IF i = stop THEN StepTrace(i, steps[i], "deny", kind[i])
                        ELSE StepTrace(i, steps[i], "skip", "skip")]
<1>1. RunProgram(steps, allowed, input, slow).steps = traces
  BY Zenon DEF RunProgram
<1>2. \A i \in DOMAIN steps : kind[i] # "world"
  BY KindsOfSteps
<1> HIDE DEF kind, stop
<1>3. n \in DOMAIN steps /\ traces[n].kind # "world"
  BY <1>1, <1>2 DEF StepTrace
<1> HIDE DEF traces
<1>4. QED  BY <1>1, <1>3 DEF RuleKind

\* A compatible program may fail, but not for its world.
LEMMA CompatibleNotDenied ==
  ASSUME NEW id, NEW w, NEW input, NEW slow, Compatible(programs[id].minimized, w.allowed)
  PROVE  ~Denied(id, w, input, slow)
<1> DEFINE trace == Replay(programs[id].minimized, w.allowed, input, slow)
<1>1. CASE TooLong(programs[id].minimized)
  <2>1. trace.steps = <<>>
    BY <1>1, Zenon DEF Replay
  <2>2. DOMAIN trace.steps = {}
    BY <2>1
  <2>3. QED  BY <2>2 DEF Denied
<1>2. CASE ~TooLong(programs[id].minimized)
  <2>1. trace = RunProgram(programs[id].minimized, w.allowed, input, slow)
    BY <1>2, Zenon DEF Replay
  <2>2. QED  BY <2>1, RunBlamesNoWorld DEF Denied
<1>3. QED  BY <1>1, <1>2

LEMMA ViolatingReplay ==
  ASSUME NEW steps, NEW allowed, NEW input, NEW slow,
         Len(steps) \in Nat, DOMAIN steps = 1 .. Len(steps),
         ~Compatible(steps, allowed), ~TooLong(steps)
  PROVE  LET trace == Replay(steps, allowed, input, slow)
         IN  /\ ~trace.raised /\ ~trace.ok
             /\ DOMAIN trace.steps # {}
             /\ \A n \in DOMAIN trace.steps : trace.steps[n].verdict = "deny"
             /\ \A n \in DOMAIN trace.steps : trace.steps[n].kind = "world"
<1> DEFINE bad == InOrder(Violations(steps, allowed))
           trace == Replay(steps, allowed, input, slow)
           traces == [n \in DOMAIN bad |-> StepTrace(bad[n], steps[bad[n]], "deny", "world")]
<1>1. trace = [ok |-> FALSE, raised |-> FALSE, aborted |-> bad[1], steps |-> traces]
  BY Zenon DEF Replay
<1>2. trace.raised = FALSE /\ trace.ok = FALSE /\ trace.steps = traces
  <2> HIDE DEF trace, traces, bad
  <2>1. QED  BY <1>1
<1>3. Violations(steps, allowed) \in SUBSET (1 .. Len(steps)) /\ Violations(steps, allowed) # {}
  BY DEF Compatible, Violations
<1>4. DOMAIN bad # {}
  BY <1>3, OrderKeeps
<1> HIDE DEF bad, trace
<1>5. /\ DOMAIN traces = DOMAIN bad
      /\ \A n \in DOMAIN traces : traces[n].verdict = "deny" /\ traces[n].kind = "world"
  BY DEF StepTrace
<1> HIDE DEF traces
<1>6. QED  BY <1>2, <1>4, <1>5 DEF trace

LEMMA ViolatingDenied ==
  ASSUME NEW id, NEW w, NEW input, NEW slow,
         Len(programs[id].minimized) \in Nat,
         DOMAIN programs[id].minimized = 1 .. Len(programs[id].minimized),
         ~Compatible(programs[id].minimized, w.allowed), ~TooLong(programs[id].minimized)
  PROVE  Denied(id, w, input, slow)
<1> DEFINE trace == Replay(programs[id].minimized, w.allowed, input, slow)
<1>1. /\ ~trace.ok /\ DOMAIN trace.steps # {}
      /\ \A n \in DOMAIN trace.steps : trace.steps[n].verdict = "deny"
      /\ \A n \in DOMAIN trace.steps : trace.steps[n].kind = "world"
  BY ViolatingReplay
<1> HIDE DEF trace
<1>2. FinalVerdict(trace) = "deny"
  BY <1>1 DEF FinalVerdict
<1>3. \E n \in DOMAIN trace.steps : RuleKind(trace.steps[n].kind) = "capability"
  BY <1>1 DEF RuleKind
<1>4. QED  BY <1>2, <1>3 DEF Denied, trace

LEMMA MinimizedIsAList ==
  ASSUME ReviewInv, NEW id \in DOMAIN programs
  PROVE  /\ Len(programs[id].minimized) \in Nat
         /\ DOMAIN programs[id].minimized = 1 .. Len(programs[id].minimized)
<1>1. Versions(programs[id])
  BY DEF ReviewInv, Sound
<1>2. QED  BY <1>1, DraftFacts, MinimizeFacts DEF Versions

\* No two manifests of the directory have the same key.
KeysAreUnique == \A v, w \in library : Key(v) = Key(w) => v = w

LEMMA KeysStayUnique ==
  ASSUME KeysAreUnique, [WorldNext]_worldVars
  PROVE  KeysAreUnique'
<1>1. ASSUME NEW w \in Manifests, EditManifest(w)
      PROVE  KeysAreUnique'
  <2>1. library' = {v \in library : Key(v) # Key(w)} \cup {w}
    BY <1>1 DEF EditManifest
  <2>2. QED  BY <2>1 DEF KeysAreUnique, Key
<1>2. ASSUME NEW w \in Manifests, RemoveManifest(w)
      PROVE  KeysAreUnique'
  BY <1>2 DEF RemoveManifest, KeysAreUnique, Key
<1>3. CASE UNCHANGED library
  BY <1>3 DEF KeysAreUnique, Key
<1>4. ASSUME NEW p \in Operators,
             \/ ClearActive(p) \/ RollbackWorld(p) \/ ReadHistory(p) \/ ReadPrevious(p)
             \/ WritePointer(p) \/ TargetGone(p) \/ AppendHistory(p) \/ LogEvent(p) \/ Crash(p)
      PROVE  UNCHANGED library
  BY <1>4 DEF ClearActive, RollbackWorld, ReadHistory, ReadPrevious, WritePointer, TargetGone,
              AppendHistory, LogEvent, Crash, Start, files
<1>5. ASSUME NEW p \in Operators, NEW key \in Keys, PointAt(p, key) \/ ActivateWorld(p, key)
      PROVE  UNCHANGED library
  BY <1>5 DEF PointAt, ActivateWorld, Start, files
<1>6. CASE UNCHANGED worldVars
  BY <1>3, <1>6 DEF worldVars
<1>7. QED  BY <1>1, <1>2, <1>3, <1>4, <1>5, <1>6 DEF WorldNext

LEMMA LayerKeepsKeys ==
  ASSUME KeysAreUnique, [Next]_layerVars
  PROVE  KeysAreUnique'
<1>1. CASE [WorldNext]_worldVars
  BY <1>1, KeysStayUnique
<1>2. CASE UNCHANGED library
  BY <1>2 DEF KeysAreUnique, Key
<1>3. ASSUME NEW action, NEW key, NEW losing, LogQuery(action, key, losing)
      PROVE  UNCHANGED library
  BY <1>3 DEF LogQuery
<1>4. ASSUME NEW s, RunScenario(s)
      PROVE  UNCHANGED library
  BY <1>4 DEF RunScenario, worldVars
<1>5. QED
  BY <1>1, <1>2, <1>3, <1>4 DEF Next, PreviewActivationImpact, GetProgramCompatibility,
     layerVars, worldVars

LEMMA WorldOfKey ==
  ASSUME KeysAreUnique, NEW w \in library
  PROVE  World(Key(w)) = w
  BY DEF World, KeysAreUnique

\* Denied exactly if incompatible, for every program that is not too long.
LEMMA ForetoldByPreview ==
  ASSUME ReviewInv, NEW id \in DOMAIN programs, ~TooLong(programs[id].minimized),
         NEW w, NEW input, NEW slow
  PROVE  Denied(id, w, input, slow) <=> ~Compatible(programs[id].minimized, w.allowed)
  BY CompatibleNotDenied, ViolatingDenied, MinimizedIsAList

LEMMA ForetoldReplays ==
  ASSUME ReviewInv, NEW id \in DOMAIN programs, NEW w, NEW input, NEW slow,
         ~Replay(programs[id].minimized, w.allowed, input, slow).raised
  PROVE  LET steps == programs[id].minimized
             trace == Replay(steps, w.allowed, input, slow)
         IN  /\ Compatible(steps, w.allowed) <=> ~Denied(id, w, input, slow)
             /\ ~Compatible(steps, w.allowed) =>
                  \A n \in DOMAIN trace.steps : trace.steps[n].verdict = "deny"
<1> DEFINE steps == programs[id].minimized
           trace == Replay(steps, w.allowed, input, slow)
<1>1. ~TooLong(steps)
  <2> SUFFICES ASSUME TooLong(steps) PROVE FALSE
    OBVIOUS
  <2>1. trace = [ok |-> FALSE, raised |-> TRUE, aborted |-> 0, steps |-> <<>>]
    BY Zenon DEF Replay
  <2> HIDE DEF trace
  <2>2. trace.raised = TRUE
    BY <2>1
  <2>3. QED  BY <2>2 DEF trace
<1>2. Compatible(steps, w.allowed) <=> ~Denied(id, w, input, slow)
  BY <1>1, ForetoldByPreview
<1>3. ASSUME ~Compatible(steps, w.allowed)
      PROVE  \A n \in DOMAIN trace.steps : trace.steps[n].verdict = "deny"
  <2>1. Len(steps) \in Nat /\ DOMAIN steps = 1 .. Len(steps)
    BY MinimizedIsAList
  <2>2. QED  BY <1>1, <1>3, <2>1, ViolatingReplay
<1>4. QED  BY <1>2, <1>3

LEMMA ImpactIsForetold ==
  ASSUME ReviewInv, KeysAreUnique, NEW w \in library, ActiveWorld # NoWorld
  PROVE  {id \in BecomingIncompatible(Key(w)) : ~TooLong(programs[id].minimized)}
           = {id \in UnderReview : /\ ~TooLong(programs[id].minimized)
                                   /\ ~Denied(id, World(ActiveWorld), TRUE, {})
                                   /\ Denied(id, w, TRUE, {})}
<1>1. World(Key(w)) = w
  BY WorldOfKey
<1>2. UnderReview \subseteq DOMAIN programs
  BY DEF UnderReview
<1>3. ASSUME NEW id \in UnderReview, ~TooLong(programs[id].minimized)
      PROVE  id \in BecomingIncompatible(Key(w))
               <=> ~Denied(id, World(ActiveWorld), TRUE, {}) /\ Denied(id, w, TRUE, {})
  <2>1. /\ Denied(id, World(ActiveWorld), TRUE, {})
             <=> ~Compatible(programs[id].minimized, World(ActiveWorld).allowed)
        /\ Denied(id, w, TRUE, {}) <=> ~Compatible(programs[id].minimized, w.allowed)
    BY <1>2, <1>3, ForetoldByPreview
  <2>2. QED  BY <1>1, <2>1 DEF BecomingIncompatible
<1>4. BecomingIncompatible(Key(w)) \subseteq UnderReview
  BY DEF BecomingIncompatible
<1>5. QED  BY <1>3, <1>4

(***************************************************************************)
(* For any drafts, manifests and operators: a preview that finds a program *)
(* compatible or not foretells whether its replay is denied for a missing  *)
(* capability, whatever the input and the timing, and the report before an *)
(* activation counts just the programs whose replay turns from possible to *)
(* denied (compatibility.check_compatibility, replay_engine.replay,        *)
(* world_operator_service.preview_activation_impact).                      *)
(***************************************************************************)
THEOREM PreviewsForetell == Spec => []PreviewForetellsReplay
<1>1. Init => KeysAreUnique
  BY DEF Init, WorldInit, KeysAreUnique
<1>2. KeysAreUnique /\ [Next]_layerVars => KeysAreUnique'
  BY LayerKeepsKeys
<1>3. ReviewInv /\ KeysAreUnique => PreviewForetellsReplay
  <2> SUFFICES ASSUME ReviewInv, KeysAreUnique PROVE PreviewForetellsReplay
    OBVIOUS
  <2>1. ASSUME NEW id \in DOMAIN programs, NEW w \in library, NEW input \in BOOLEAN,
               NEW slow \in Slowness(id)
        PROVE  LET steps == programs[id].minimized
                   trace == Replay(steps, w.allowed, input, slow)
               IN  ~trace.raised =>
                     /\ Compatible(steps, w.allowed) <=> ~Denied(id, w, input, slow)
                     /\ ~Compatible(steps, w.allowed) =>
                          \A n \in DOMAIN trace.steps : trace.steps[n].verdict = "deny"
    BY ForetoldReplays, Zenon
  <2>2. ASSUME NEW w \in library, ActiveWorld # NoWorld
        PROVE  {id \in BecomingIncompatible(Key(w)) : ~TooLong(programs[id].minimized)}
                 = {id \in UnderReview : /\ ~TooLong(programs[id].minimized)
                                         /\ ~Denied(id, World(ActiveWorld), TRUE, {})
                                         /\ Denied(id, w, TRUE, {})}
    BY <2>2, ImpactIsForetold
  <2>3. QED  BY <2>1, <2>2, Zenon DEF PreviewForetellsReplay
<1>4. QED  BY <1>1, <1>2, <1>3, ReviewHolds, PTL DEF Spec

-----------------------------------------------------------------------------
(***************************************************************************)
(* What holds of the worlds alone holds of them in the layer: its queries  *)
(* are logged without a number, and a scenario leaves the worlds alone.    *)
(***************************************************************************)

LEMMA QueriesHaveNoNumber ==
  ASSUME NEW action, NEW key, NEW losing, LogQuery(action, key, losing)
  PROVE  /\ Logged' = Logged
         /\ UNCHANGED <<library, active, history, command, activations, written, pointed,
                        before, lost>>
<1>1. events' = events \cup {OperatorEvent(action, 0, key, losing)}
  BY DEF LogQuery
<1>2. OperatorEvent(action, 0, key, losing).number = 0
  BY DEF OperatorEvent
<1>3. Logged' = Logged
  BY <1>1, <1>2 DEF Logged
<1>4. QED  BY <1>3 DEF LogQuery

LEMMA AuditOfLayer ==
  ASSUME AuditInv, [Next]_layerVars
  PROVE  AuditInv'
<1>1. CASE [WorldNext]_worldVars
  BY <1>1, AuditSteps
<1>2. ASSUME NEW action, NEW key, NEW losing, LogQuery(action, key, losing)
      PROVE  AuditInv'
  <2>1. Logged' = Logged /\ Recorded' = Recorded /\ UnderWay' = UnderWay
    BY <1>2, QueriesHaveNoNumber DEF Recorded, UnderWay
  <2>2. UNCHANGED <<active, history, command, activations, written, lost>>
    BY <1>2, QueriesHaveNoNumber
  <2>3. WorldTypeOK'
    BY <2>2 DEF AuditInv, WorldTypeOK
  <2>4. NumbersFollowStages' /\ NothingUnaudited'
    BY <2>1, <2>2 DEF AuditInv, NumbersFollowStages, NothingUnaudited
  <2>5. QED  BY <2>3, <2>4 DEF AuditInv
<1>3. QED
  BY <1>1, <1>2 DEF Next, PreviewActivationImpact, GetProgramCompatibility, RunScenario, layerVars

LEMMA TrailOfLayer ==
  ASSUME NEW p, Operators = {p}, TrailInv, [Next]_layerVars
  PROVE  TrailInv'
<1>1. CASE [WorldNext]_worldVars
  BY <1>1, TrailSteps
<1>2. ASSUME NEW action, NEW key, NEW losing, LogQuery(action, key, losing)
      PROVE  TrailInv'
  <2>1. AuditInv'
    BY <1>2, AuditOfLayer DEF TrailInv, Next, GetProgramCompatibility, PreviewActivationImpact
  <2>2. UNCHANGED <<active, history, command, pointed, before>>
    BY <1>2, QueriesHaveNoNumber
  <2>3. QED  BY <2>1, <2>2, TrailUntouched
<1>3. QED
  BY <1>1, <1>2 DEF Next, PreviewActivationImpact, GetProgramCompatibility, RunScenario, layerVars

(***************************************************************************)
(* The audit of activations is as complete with queries and scenarios in   *)
(* between (operator_event_log.log).                                       *)
(***************************************************************************)
THEOREM LayerIsAudited == Spec => []NothingUnaudited
<1>1. Init => AuditInv
  BY AuditStarts DEF Init
<1>2. AuditInv /\ [Next]_layerVars => AuditInv'
  BY AuditOfLayer
<1>3. AuditInv => NothingUnaudited
  BY DEF AuditInv
<1>4. QED  BY <1>1, <1>2, <1>3, PTL DEF Spec

(***************************************************************************)
(* And with one operator at a time a record about the active world names   *)
(* the one before it, whatever queries and scenarios come between          *)
(* (operator_service.activate_world and rollback_world).                   *)
(***************************************************************************)
THEOREM LayerRecordsThePrevious ==
  ASSUME NEW CONSTANT p, Operators = {p}
  PROVE  Spec => []RecordsTrail
<1>1. Init => TrailInv
  BY TrailStarts DEF Init
<1>2. TrailInv /\ [Next]_layerVars => TrailInv'
  BY TrailOfLayer
<1>3. TrailInv => RecordsTrail
  BY DEF TrailInv
<1>4. QED  BY <1>1, <1>2, <1>3, PTL DEF Spec
=============================================================================
