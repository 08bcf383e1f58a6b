----------------------------- MODULE ProgramSandbox -----------------------------
(***************************************************************************)
(* Requests of plan_type "program" at the tool gateway: the plan built     *)
(* from a request, the checks of ProgramExecutor, and the sandbox that     *)
(* runs the program in a thread of its own while the caller waits for so   *)
(* long and no longer.  The executor keeps nothing between two calls, so   *)
(* several callers and the threads they gave up on may be there at once    *)
(* (the gateway itself is one caller: its handlers take turns).            *)
(*                                                                         *)
(* A program is [constructs |-> what its text holds, body |-> what it      *)
(* does, one statement after the other]: "raise", "spin" (a loop that      *)
(* never ends, but lets other threads have the interpreter in turn),       *)
(* "hold" (one inside a builtin, which never gives the interpreter back:   *)
(* sum(iter(int, 1)) is made of safe builtins) or a value that it emits.   *)
(***************************************************************************)
EXTENDS Naturals, Sequences

CONSTANTS
  NoSource,      \* no program text, no workflow, no result
  PlanRequests,  \* requests: [source, workflow, text]; text: some argument is a string
  MaxPlans       \* bound: requests served

\* The body of a program is a sequence of statements.
ASSUME BodiesAssumption ==
  \A request \in PlanRequests : request.source # NoSource =>
    LET body == request.source.body IN body \in Seq({body[i] : i \in DOMAIN body})

VARIABLE runs    \* one record for every request, in the order of arrival

Statements == {"raise", "spin", "hold"}

\* A thread has the interpreter for good: no other thread does anything.
Held == \E r \in DOMAIN runs : runs[r].worker = "holding"

-----------------------------------------------------------------------------
(* From a request to a plan. *)

Source(constructs, body) == [constructs |-> constructs, body |-> body]

SupportedWorkflows == {"count_lines", "count_words", "normalize_text", "word_frequency"}

\* The program that DeterministicTaskCompiler generates: it takes its input
\* apart, which raises where no argument of the call is a string, and emits once.
GenerateProgram(workflow, text) ==
  Source({}, IF text THEN <<workflow>> ELSE <<"raise">>)

\* The caller's own text goes before a workflow.
PlanSource(request) ==
  CASE request.source # NoSource -> request.source
    [] request.source = NoSource /\ request.workflow \in SupportedWorkflows ->
         GenerateProgram(request.workflow, request.text)
    [] OTHER -> NoSource

ForbiddenConstructs ==
  {"syntax error", "import", "import from", "global", "nonlocal", "forbidden call",
   "forbidden attribute"}

PassesValidation(program) == program.constructs \cap ForbiddenConstructs = {}

-----------------------------------------------------------------------------
(* One run. *)

Answer(ok, result, error) == [ok |-> ok, result |-> result, error |-> error]
NoAnswer == Answer(FALSE, NoSource, "")

Run(program, worker, caller, answer) ==
  [program |-> program, worker |-> worker, at |-> 1, holder |-> NoSource, raised |-> FALSE,
   caller |-> caller, answer |-> answer]

\* What the caller has of a request before any thread is started.
Dispatched(request) ==
  LET program == PlanSource(request)
  IN CASE program = NoSource ->
            Run(NoSource, "none", "answered", Answer(FALSE, NoSource, "validation"))
       [] program # NoSource /\ ~PassesValidation(program) ->
            Run(program, "none", "answered", Answer(FALSE, NoSource, "security"))
       [] OTHER -> Run(program, "running", "waiting", NoAnswer)

\* The thread has come to an end: what it left decides the answer.
Collected(run) ==
  IF run.raised THEN Answer(FALSE, NoSource, "runtime") ELSE Answer(TRUE, run.holder, "")

SandboxInit == runs = <<>>

DispatchProgram ==
  /\ ~Held
  /\ Len(runs) < MaxPlans
  /\ \E request \in PlanRequests : runs' = Append(runs, Dispatched(request))

\* The thread does its next statement.  Only the last value emitted is kept.
WorkerStep(r) ==
  LET run == runs[r]
      done == run.at > Len(run.program.body)
      statement == run.program.body[run.at]
  IN /\ ~Held
     /\ run.worker = "running"
     /\ \/ /\ done
           /\ runs' = [runs EXCEPT ![r].worker = "ended"]
        \/ /\ ~done /\ statement = "raise"
           /\ runs' = [runs EXCEPT ![r].worker = "ended", ![r].raised = TRUE]
        \/ /\ ~done /\ statement = "hold"
           /\ runs' = [runs EXCEPT ![r].worker = "holding"]
        \/ /\ ~done /\ statement \notin Statements
           /\ runs' = [runs EXCEPT ![r].at = @ + 1, ![r].holder = statement]

\* worker.join returns: the thread has ended or the time is over.  Without a
\* limit only the first could be.
WaitForever(r) ==
  /\ runs[r].caller = "waiting" /\ runs[r].worker = "ended"
  /\ runs' = [runs EXCEPT ![r].caller = "checking"]

WaitEnds(r) ==
  /\ runs[r].caller = "waiting"
  /\ runs' = [runs EXCEPT ![r].caller = "checking"]

\* A mutant: what the holder has is taken whether the thread lives or not.
CollectUnchecked(r) ==
  /\ runs[r].caller = "checking"
  /\ runs' = [runs EXCEPT ![r].caller = "answered", ![r].answer = Collected(runs[r])]

\* A thread that lives is given up on, and goes on as long as the process does.
Collect(r) ==
  /\ runs[r].caller = "checking"
  /\ runs' = [runs EXCEPT ![r].caller = "answered",
       ![r].answer = IF runs[r].worker = "running" THEN Answer(FALSE, NoSource, "timeout")
                                                   ELSE Collected(runs[r])]

AnswerCaller(r) == ~Held /\ r \in DOMAIN runs /\ (WaitEnds(r) \/ Collect(r))

SandboxNext ==
  \/ DispatchProgram
  \/ \E r \in DOMAIN runs : WorkerStep(r)
  \/ \E r \in DOMAIN runs : AnswerCaller(r)

SandboxSpec == SandboxInit /\ [][SandboxNext]_runs

\* The operating system ends every wait, and whoever can have the interpreter has
\* it in the end; what a program does, it may do as slowly as it likes.
SandboxFairness == \A r \in 1 .. MaxPlans : WF_runs(AnswerCaller(r))

-----------------------------------------------------------------------------
(* What has to hold. *)

\* A caller gets the whole of what its own program did, or an error: a result is
\* the last value of a program that came to its end, never what a thread had
\* emitted when the caller gave up on it, nor what a thread that was given up on
\* emitted since; and a program that was refused was never started
\* (SandboxRuntime.run, ProgramExecutor.execute).
AnswersAreWhole ==
  \A r \in DOMAIN runs :
    LET run == runs[r]
        body == run.program.body
    IN run.caller = "answered" =>
         /\ run.answer.ok =>
              /\ \A i \in DOMAIN body : body[i] \notin Statements
              /\ run.answer.result = IF body = <<>> THEN NoSource ELSE body[Len(body)]
         /\ run.answer.error \in {"security", "validation"} => run.worker = "none"
         /\ run.answer.error = "runtime" => \E i \in DOMAIN body : body[i] = "raise"

\* Every caller is answered, also one whose program never ends
\* (worker.join(timeout)), unless some thread, maybe one that was given up on
\* long ago, comes to keep the interpreter: then no time-out helps anybody.
CallersAreAnswered ==
  \A r \in 1 .. MaxPlans :
    (r \in DOMAIN runs) ~>
      (Held \/ (r \in DOMAIN runs /\ runs[r].caller = "answered"))
=============================================================================
