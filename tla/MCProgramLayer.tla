---------------------------- MODULE MCProgramLayer ----------------------------
(***************************************************************************)
(* A small instance of ProgramLayer for TLC.                               *)
(***************************************************************************)
EXTENDS ProgramLayer, MCWorldActivation

CONSTANTS host, p1

MCTools == {count, freq, send}
MCWorkflows == {count, freq}

Plain(tool, params) == CandidateStep(tool, params, <<>>)

\* A repeated step makes the first draft too long until it is minimized; the
\* second needs a tool beyond the workflows and carries a broad capability; the
\* third has a parameter that does not compile and one that raises.
MCDrafts ==
  { <<Plain(count, [input |-> Text, url |-> Url(host, TRUE)]),
      Plain(count, [input |-> Text, url |-> Url(host, TRUE)]),
      Plain(freq, [top_n |-> Number(2)])>>,
    <<CandidateStep(send, [url |-> Url(host, TRUE), note |-> Empty],
                    <<[tool |-> send, reach |-> "any"]>>),
      Plain(freq, [timeout_seconds |-> Number(1)])>>,
    <<Plain(count, [note |-> Null, timeout_seconds |-> Number(1)]),
      Plain(freq, [top_n |-> Number(0)])>> }

MCScenarios ==
  {[program |-> p1, input |-> TRUE,
    worlds |-> {[id |-> bal, version |-> 1], [id |-> strict, version |-> 1]}]}

MCProgramIds == {p1}

\* Bounds the interleavings of commands that share no file.  A review goes on
\* while no world is active and nothing was queried; where there is a program,
\* worlds are activated without a record, so that histories and programs do
\* not multiply; with a history, no manifest is narrowed and nothing is queried.
Reviewing == \E p \in Reviewers : review[p].busy
Activating == \E p \in Operators : command[p] # Idle
Recording == history # <<>> \/ \E p \in Operators : command[p].operator
Queried == \E e \in events : e.number = 0
Ran == \E s \in Scenarios : lastRun[s] # "none"

OneKindAtATime ==
  /\ Cardinality({e \in events : e.number = 0}) <= 1
  /\ Reviewing => activations = 0 /\ active = NoWorld /\ ~Activating /\ ~Queried /\ ~Ran
  /\ DOMAIN programs # {} => ~Recording /\ activations <= 1
  /\ Recording => \A w \in library : w.allowed # {count}
  /\ Queried => ~Activating /\ ~Recording /\ ~Ran
  /\ Ran => ~Activating

\* Two worlds part in a step exactly if one of them alone refuses it
\* (replay and comparison of scenarios).
ASSUME DivergencesAreViolations ==
  \A steps \in MCDrafts, a, b \in SUBSET MCTools :
    Divergences(steps, a, b) = (Violations(steps, a) \cup Violations(steps, b))
                                 \ (Violations(steps, a) \cap Violations(steps, b))
=============================================================================
