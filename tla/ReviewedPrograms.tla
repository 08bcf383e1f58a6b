--------------------------- MODULE ReviewedPrograms ---------------------------
(***************************************************************************)
(* The review lifecycle of programs: proposed, reviewed, then accepted or  *)
(* rejected, and minimized at any time.  Each command is a process of its  *)
(* own that loads the program's file, checks, and saves the whole file     *)
(* again; a save is atomic (a temporary file is renamed), load and save    *)
(* together are not.                                                       *)
(***************************************************************************)
EXTENDS ProgramSteps

CONSTANTS
  ProgramIds,
  Drafts,         \* the step sequences that traces give
  Reviewers,      \* processes that run a command on a program
  AcceptActions   \* allowed_actions of accept_program

\* A step is a CandidateStep, its parameters a dict.
IsCandidate(step) ==
  /\ step = CandidateStep(step.tool, step.params, step.caps)
  /\ step.params = [k \in DOMAIN step.params |-> step.params[k]]

\* A draft is a list of steps, and not empty.
ASSUME DraftsAssumption ==
  \A d \in Drafts :
    /\ Len(d) \in Nat \ {0}
    /\ d = [i \in 1 .. Len(d) |-> d[i]]
    /\ \A i \in 1 .. Len(d) : IsCandidate(d[i])

VARIABLES
  programs,   \* the files of the ProgramStore
  review      \* per process: the program it has loaded and changed

reviewVars == <<programs, review>>

AllowedTransitions ==
  {<<"proposed", "reviewed">>, <<"reviewed", "accepted">>, <<"reviewed", "rejected">>}

NoReview == [busy |-> FALSE]

ReviewedProgram(status, original, minimized, diff) ==
  [status |-> status, original |-> original, minimized |-> minimized, diff |-> diff]

ReviewInit ==
  /\ programs = [id \in {} |-> NoReview]
  /\ review = [p \in Reviewers |-> NoReview]

Store(id, program) ==
  programs' = [i \in DOMAIN programs \cup {id} |-> IF i = id THEN program ELSE programs[i]]

\* Nothing is read: a program under an id that is in use is replaced.
ProposeProgram(id, steps) ==
  /\ Store(id, ReviewedProgram("proposed", steps, steps, EmptyDiff))
  /\ UNCHANGED review

\* The process has read the file, and checked and changed what it read.
Load(p, id, updated) ==
  /\ ~review[p].busy
  /\ review' = [review EXCEPT ![p] = [busy |-> TRUE, id |-> id, updated |-> updated]]
  /\ UNCHANGED programs

\* Mutated: minimize what is minimized already, and replace its diff.
MinimizeAgain(p, id) ==
  /\ id \in DOMAIN programs
  /\ LET m == Minimize(programs[id].minimized)
     IN Load(p, id, [programs[id] EXCEPT !.minimized = m.steps, !.diff = m.diff])

MinimizeProgram(p, id) ==
  /\ id \in DOMAIN programs
  /\ LET m == Minimize(programs[id].original)
     IN Load(p, id, [programs[id] EXCEPT !.minimized = m.steps, !.diff = m.diff])

MayBecome(id, status) ==
  id \in DOMAIN programs /\ <<programs[id].status, status>> \in AllowedTransitions

ReviewProgram(p, id) ==
  /\ MayBecome(id, "reviewed")
  /\ Load(p, id, [programs[id] EXCEPT !.status = "reviewed"])

\* Mutated: a program too long for the runner is accepted.
AcceptAnyLength(p, id) ==
  /\ MayBecome(id, "accepted")
  /\ Compatible(programs[id].minimized, AcceptActions)
  /\ Load(p, id, [programs[id] EXCEPT !.status = "accepted"])

AcceptProgram(p, id) ==
  /\ MayBecome(id, "accepted")
  /\ ~TooLong(programs[id].minimized)
  /\ Compatible(programs[id].minimized, AcceptActions)
  /\ Load(p, id, [programs[id] EXCEPT !.status = "accepted"])

RejectProgram(p, id) ==
  /\ MayBecome(id, "rejected")
  /\ Load(p, id, [programs[id] EXCEPT !.status = "rejected"])

SaveProgram(p) ==
  /\ review[p].busy
  /\ Store(review[p].id, review[p].updated)
  /\ review' = [review EXCEPT ![p] = NoReview]

\* The process ends before the rename; what it wrote is no file of the store.
AbandonReview(p) ==
  /\ review[p].busy
  /\ review' = [review EXCEPT ![p] = NoReview]
  /\ UNCHANGED programs

ReviewNext ==
  \/ \E id \in ProgramIds, steps \in Drafts : ProposeProgram(id, steps)
  \/ \E p \in Reviewers :
       \/ \E id \in ProgramIds :
            \/ MinimizeProgram(p, id)
            \/ ReviewProgram(p, id)
            \/ AcceptProgram(p, id)
            \/ RejectProgram(p, id)
       \/ SaveProgram(p)
       \/ AbandonReview(p)

-----------------------------------------------------------------------------
(* Properties *)

\* The original step that the n-th minimized step was.
Origin(program, n) ==
  InOrder(DOMAIN program.original \ program.diff.removed)[n]

\* A kept step's parameters before minimization: what it has now, with the
\* recorded changes undone.
Undone(program, n) ==
  LET changes == {c \in program.diff.params : c.index = Origin(program, n)}
      now == program.minimized[n].params
  IN [k \in DOMAIN now \cup {c.field : c \in changes} |->
        IF \E c \in changes : c.field = k
        THEN (CHOOSE c \in changes : c.field = k).before
        ELSE now[k]]

\* Undoing the diff gives the original steps, and a removed step repeats the
\* one before it.
Explains(program) ==
  LET origins == DOMAIN program.original \ program.diff.removed
  IN /\ Cardinality(origins) = Len(program.minimized)
     /\ \A n \in DOMAIN program.minimized :
          Signature(program.original[Origin(program, n)])
            = <<program.minimized[n].tool, Undone(program, n)>>
     /\ \A i \in program.diff.removed :
          Signature(program.original[i]) = Signature(program.original[i - 1])

\* A diff explains its program ("every transformation is recorded in
\* ProgramDiff").  However commands interleave, no file mixes the diff of one
\* minimization with the steps of another.
DiffExplains == \A id \in DOMAIN programs : Explains(programs[id])

Runnable(program) ==
  Compatible(program.minimized, AcceptActions) /\ ~TooLong(program.minimized)

\* An accepted program passes validation as it stands, not as it stood when it
\* was accepted: minimizing it later, or saving an older load of it, leaves no
\* accepted program whose replay is refused before its first step.
AcceptedIsRunnable ==
  \A id \in DOMAIN programs : programs[id].status = "accepted" => Runnable(programs[id])
=============================================================================
