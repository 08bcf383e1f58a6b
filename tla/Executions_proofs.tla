------------------------- MODULE Executions_proofs ---------------------------
(***************************************************************************)
(* Proofs about what runs apart from the one who asks for it.              *)
(*                                                                         *)
(* The runtime kernel: what a value's taint says is what its lineage says, *)
(* every answer tells what the worker did, and callers that overlap spend  *)
(* no more than an allowance over the budget.  These follow from one       *)
(* invariant, which says what is known of a call while its caller waits    *)
(* for it: its number is its own and new to whatever the stage has not     *)
(* reached yet, and the checks that formed it still hold because a runtime *)
(* that is built never changes.                                            *)
(*                                                                         *)
(* The sandbox: an answer is the whole result of a program or an error.    *)
(* The browser extension: what holds of the storage holds of every copy in *)
(* a handler's hands, so that it may be put back.  The scenario benchmark: *)
(* what is told of a run is true of it.  Last, a process that hosts one of *)
(* them behaves as it does alone.                                          *)
(***************************************************************************)
EXTENDS Executions, DataInduction, SequenceTheorems

Stages == {"formed", "ran", "rejected", "charge"}
Fields == {"stage", "number", "action", "via", "taint", "lineage", "estimate"}

Numbered(n) == n \in Nat /\ n <= made

\* The taint of anything with a lineage.
Inherits(taint, lineage) ==
  /\ \A n \in lineage : Numbered(n)
  /\ taint = "tainted" <=> lineage \cap dirty # {}

Unanswered(n) == \A a \in answers : a.number # n

\* What is known of a call that its caller waits for.
CallSound(call) ==
  /\ Fields \subseteq DOMAIN call
  /\ call.stage \in Stages
  /\ runtime.built
  /\ Numbered(call.number)
  /\ Inherits(call.taint, call.lineage)
  /\ call.stage # "charge" =>
       /\ call.action \in ActionSpace(runtime.policy)
       /\ ~TaintRuleFor(runtime.policy, call.taint, TypeOf(call.action))
       /\ Unanswered(call.number)
  /\ call.stage \in {"formed", "rejected"} => call.number \notin executed
  /\ call.stage = "ran" => call.number \in executed

CallsSound ==
  /\ DOMAIN calls = Callers
  /\ \A c \in Callers : calls[c] = IdleCall \/ CallSound(calls[c])

\* Two callers never wait for the same call.
Apart ==
  \A c, d \in Callers :
    calls[c] # IdleCall /\ calls[d] # IdleCall /\ calls[c].number = calls[d].number => c = d

OutputsSound == \A v \in outputs : Inherits(v.taint, v.lineage)

AnswerSound(a) ==
  /\ Numbered(a.number)
  /\ a.status = "ok" => a.number \in executed \/ runtime.simulated
  /\ a.status \in Denials => a.number \notin executed
  /\ \A b \in answers : a.number = b.number => a = b

AnswersSound == \A a \in answers : AnswerSound(a)

RuntimeSound ==
  /\ ~runtime.built => answers = {} /\ executed = {} /\ made = 0
  /\ runtime.built /\ runtime.simulated => executed = {}
  /\ runtime.built /\ ~runtime.simulated => ActionSpace(runtime.policy) = WorkerRegistry

CountSound ==
  /\ made \in Nat
  /\ \A n \in dirty : Numbered(n)
  /\ \A n \in executed : Numbered(n)

KernelInv ==
  CallsSound /\ Apart /\ OutputsSound /\ AnswersSound /\ RuntimeSound /\ CountSound

-----------------------------------------------------------------------------
(* Once a runtime is built the steps share most of their effect.  A step   *)
(* of caller c concerns one number: that of the call it waits for, or the  *)
(* next one.                                                               *)

Number(c) == IF calls[c] = IdleCall THEN made + 1 ELSE calls[c].number

\* What grows in a step of c grows by that number, or does not grow.
Grows(c) ==
  /\ runtime' = runtime
  /\ made \in Nat /\ made' \in Nat /\ made <= made'
  /\ dirty \subseteq dirty' /\ \A m \in dirty' \ dirty : m = made + 1
  /\ executed \subseteq executed' /\ executed' \ executed \subseteq {Number(c)}
  /\ answers \subseteq answers' /\ \A a \in answers' \ answers : a.number = Number(c)

\* And what it adds is as it should be.
Adds(c) ==
  /\ runtime.built
  /\ Number(c) \in Nat /\ Number(c) <= made'
  /\ dirty' # dirty => made' = made + 1
  /\ executed' # executed => Unanswered(Number(c)) /\ ~runtime.simulated
  /\ answers' # answers =>
       /\ Unanswered(Number(c))
       /\ \A a, b \in answers' \ answers : a = b
       /\ \A a \in answers' \ answers :
            /\ a.status = "ok" => Number(c) \in executed' \/ runtime.simulated
            /\ a.status \in Denials => Number(c) \notin executed'
  /\ \A v \in outputs' \ outputs : Inherits(v.taint, v.lineage)'

Moves(c) ==
  /\ DOMAIN calls' = Callers
  /\ \A d \in Callers \ {c} : calls'[d] = calls[d]
  /\ \/ calls'[c] = IdleCall
     \/ CallSound(calls[c])' /\ calls'[c].number = Number(c)

\* What has a lineage keeps the taint that its lineage says.
LEMMA InheritsStays ==
  ASSUME NEW c, NEW taint, NEW lineage, Grows(c), Inherits(taint, lineage)
  PROVE  Inherits(taint, lineage)'
<1>1. \A m \in lineage : m \in Nat /\ m <= made /\ m <= made'
  BY DEF Grows, Inherits, Numbered
<1>2. lineage \cap dirty' = lineage \cap dirty
  BY <1>1 DEF Grows
<1>3. QED  BY <1>1, <1>2 DEF Inherits, Numbered

\* A call that the step does not concern stays sound.
LEMMA CallStays ==
  ASSUME NEW c, NEW call, Grows(c), CallSound(call), call.number # Number(c)
  PROVE  CallSound(call)'
<1>1. Inherits(call.taint, call.lineage)'
  BY InheritsStays DEF CallSound
<1>2. Numbered(call.number)'
  BY DEF CallSound, Grows, Numbered
<1>3. ASSUME Unanswered(call.number) PROVE Unanswered(call.number)'
  BY <1>3 DEF Grows, Unanswered
<1>4. call.number \in executed' <=> call.number \in executed
  BY DEF Grows
<1>5. TypeOf(call.action)' = TypeOf(call.action)
  BY DEF Grows, TypeOf
<1>6. runtime' = runtime
  BY DEF Grows
<1>7. QED  BY <1>1, <1>2, <1>3, <1>4, <1>5, <1>6 DEF CallSound

\* An answer that was given before the step stays sound.
LEMMA AnswerStays ==
  ASSUME NEW c, NEW a, Grows(c), Adds(c), a \in answers, AnswerSound(a)
  PROVE  AnswerSound(a)'
<1>1. Numbered(a.number)'
  BY DEF AnswerSound, Numbered, Grows
<1>2. a.number \in executed' => a.number \in executed
  BY DEF Grows, Adds, Unanswered
<1>3. ASSUME NEW b \in answers', a.number = b.number  PROVE a = b
  <2>1. CASE b \in answers
    BY <1>3, <2>1 DEF AnswerSound
  <2>2. CASE b \notin answers
    BY <1>3, <2>2 DEF Grows, Adds, Unanswered
  <2>3. QED  BY <2>1, <2>2
<1>4. QED  BY <1>1, <1>2, <1>3 DEF AnswerSound, Grows

\* An answer that the step gives is sound.
LEMMA AnswerAdded ==
  ASSUME NEW c, NEW a, Grows(c), Adds(c), a \in answers', a \notin answers
  PROVE  AnswerSound(a)'
<1>1. a.number = Number(c)
  BY DEF Grows
<1>2. Numbered(a.number)'
  BY <1>1 DEF Numbered, Adds
<1>3. ASSUME NEW b \in answers', a.number = b.number  PROVE a = b
  BY <1>1, <1>3 DEF Adds, Unanswered, Grows
<1>4. QED  BY <1>1, <1>2, <1>3 DEF AnswerSound, Adds, Grows

\* A step of c that grows, adds and moves as it should keeps the invariant.
LEMMA StepKeeps ==
  ASSUME NEW c \in Callers, KernelInv, Grows(c), Adds(c), Moves(c)
  PROVE  KernelInv'
<1>1. ASSUME NEW d \in Callers, d # c, calls[d] # IdleCall
      PROVE  CallSound(calls[d]) /\ calls[d].number # Number(c)
  <2>1. CallSound(calls[d])
    BY <1>1 DEF KernelInv, CallsSound
  <2>2. calls[d].number \in Nat /\ calls[d].number <= made /\ made \in Nat
    BY <2>1 DEF CallSound, Numbered, Grows
  <2>3. QED  BY <1>1, <2>1, <2>2 DEF KernelInv, Apart, Number
<1>2. CallsSound'
  <2>1. ASSUME NEW d \in Callers, d # c  PROVE calls'[d] = IdleCall \/ CallSound(calls[d])'
    <3>1. CASE calls[d] = IdleCall
      BY <2>1, <3>1 DEF Moves
    <3>2. CASE calls[d] # IdleCall
      <4>1. PICK call : call = calls[d]
        OBVIOUS
      <4>2. CallSound(call)'
        BY <1>1, <2>1, <3>2, <4>1, CallStays
      <4>3. calls'[d] = call
        BY <2>1, <4>1 DEF Moves
      <4>4. QED  BY <4>2, <4>3 DEF CallSound
    <3>3. QED  BY <3>1, <3>2
  <2>2. QED  BY <2>1 DEF CallsSound, Moves
<1>3. Apart'
  <2>1. ASSUME NEW d \in Callers, d # c, calls'[d] # IdleCall, calls'[c] # IdleCall
        PROVE  calls'[d].number # calls'[c].number
    BY <1>1, <2>1 DEF Moves
  <2>2. ASSUME NEW d \in Callers, NEW e \in Callers, d # c, e # c,
               calls'[d] # IdleCall, calls'[e] # IdleCall, calls'[d].number = calls'[e].number
        PROVE  d = e
    BY <2>2 DEF Moves, KernelInv, Apart
  <2>3. QED  BY <2>1, <2>2 DEF Apart
<1>4. OutputsSound'
  <2>1. SUFFICES ASSUME NEW v \in outputs'  PROVE Inherits(v.taint, v.lineage)'
    BY DEF OutputsSound
  <2>2. CASE v \in outputs
    BY <2>2, InheritsStays DEF KernelInv, OutputsSound
  <2>3. CASE v \notin outputs
    BY <2>3 DEF Adds
  <2>4. QED  BY <2>2, <2>3
<1>5. AnswersSound'
  BY AnswerStays, AnswerAdded DEF KernelInv, AnswersSound
<1>6. RuntimeSound'
  BY DEF KernelInv, RuntimeSound, Adds, Grows
<1>7. CountSound'
  <2>1. \A n \in dirty' : n \in Nat /\ n <= made'
    BY DEF KernelInv, CountSound, Numbered, Grows, Adds
  <2>2. \A n \in executed' : n \in Nat /\ n <= made'
    BY DEF KernelInv, CountSound, Numbered, Grows, Adds
  <2>3. QED  BY <2>1, <2>2 DEF CountSound, Numbered, Grows
<1>8. QED  BY <1>2, <1>3, <1>4, <1>5, <1>6, <1>7 DEF KernelInv

-----------------------------------------------------------------------------
(* Forming an intent. *)

LEMMA FreshNumber ==
  ASSUME KernelInv
  PROVE  /\ Unanswered(made + 1)
         /\ made + 1 \notin executed \cup dirty
         /\ made \in Nat
<1>1. made \in Nat
  BY DEF KernelInv, CountSound
<1>2. \A n : Numbered(n) => n # made + 1
  BY <1>1 DEF Numbered
<1>3. QED  BY <1>1, <1>2 DEF KernelInv, CountSound, AnswersSound, AnswerSound, Unanswered

LEMMA RefusalChecks ==
  ASSUME NEW request, NEW taint, NEW estimate, Refusal(request, taint, estimate) = "none"
  PROVE  /\ request.action \in ActionSpace(runtime.policy)
         /\ ~TaintRuleFor(runtime.policy, taint, TypeOf(request.action))
  BY DEF Refusal

\* A call formed from a lineage that its taint follows, or from none at all.
LEMMA FormSafe ==
  ASSUME NEW c \in Callers, KernelInv, NEW request, NEW via, NEW taint, NEW lineage,
         NEW estimate, Form(c, request, via, taint, lineage, estimate),
         lineage = {} \/ Inherits(taint, lineage)
  PROVE  KernelInv'
<1> PICK n : n = made + 1
  OBVIOUS
<1>1. /\ runtime.built /\ calls[c] = IdleCall /\ made' = n
      /\ UNCHANGED <<runtime, outputs, spent, observed, executed>>
      /\ dirty' = IF lineage = {} /\ taint = "tainted" THEN dirty \cup {n} ELSE dirty
  BY DEF Form
<1>2. Number(c) = n
  BY <1>1 DEF Number
<1>3. Unanswered(n) /\ n \notin executed \cup dirty /\ made \in Nat
  BY FreshNumber
<1>4. Inherits(taint, lineage \cup {n})'
  <2>1. \A m \in lineage : m \in Nat /\ m <= made
    BY DEF Inherits, Numbered
  <2>2. n \in dirty' <=> lineage = {} /\ taint = "tainted"
    BY <1>1, <1>3
  <2>3. lineage \cap dirty' = lineage \cap dirty
    BY <1>1, <1>3, <2>1
  <2>4. taint = "tainted" <=> (lineage \cup {n}) \cap dirty' # {}
    BY <2>2, <2>3 DEF Inherits
  <2>5. \A m \in lineage \cup {n} : m \in Nat /\ m <= made'
    BY <1>1, <1>3, <2>1
  <2>6. QED  BY <2>4, <2>5 DEF Inherits, Numbered
<1>5. ASSUME answers' = answers  PROVE Grows(c) /\ Adds(c)
  BY <1>1, <1>2, <1>3, <1>5 DEF Grows, Adds
<1>6. CASE Refusal(request, taint, estimate) = "none"
  <2> PICK call : call = Waiting("formed", n, request, via, taint, lineage \cup {n}, estimate)
    OBVIOUS
  <2>1. calls' = [calls EXCEPT ![c] = call] /\ answers' = answers
    BY <1>6 DEF Form
  <2>2. DOMAIN calls = Callers
    BY DEF KernelInv, CallsSound
  <2>3. /\ Fields \subseteq DOMAIN call
        /\ call.stage = "formed" /\ call.number = n /\ call.action = request.action
        /\ call.taint = taint /\ call.lineage = lineage \cup {n}
    BY DEF Waiting, Fields
  <2>4. calls'[c] = call
    BY <2>1, <2>2
  <2>5. /\ request.action \in ActionSpace(runtime.policy)
        /\ ~TaintRuleFor(runtime.policy, taint, TypeOf(request.action))
    BY <1>6, RefusalChecks
  <2>6. CallSound(call)'
    <3>1. /\ Unanswered(call.number)' /\ Numbered(call.number)'
          /\ call.number \notin executed'
      <4>1. answers' = answers /\ executed' = executed /\ made' = n /\ n \in Nat
        BY <1>1, <1>3, <2>1
      <4>2. Unanswered(n)' /\ Numbered(n)' /\ n \notin executed'
        BY <1>3, <4>1 DEF Unanswered, Numbered
      <4>3. call.number = n
        BY <2>3
      <4>4. QED  BY <4>2, <4>3
    <3>2. /\ call.action \in ActionSpace(runtime'.policy)
          /\ ~TaintRuleFor(runtime'.policy, call.taint, TypeOf(call.action)')
      BY <1>1, <2>3, <2>5 DEF TypeOf
    <3>3. Inherits(call.taint, call.lineage)'
      BY <1>4, <2>3
    <3>4. QED  BY <1>1, <2>3, <3>1, <3>2, <3>3 DEF CallSound, Stages
  <2>7. CallSound(calls[c])'
    BY <2>4, <2>6 DEF CallSound
  <2>8. Moves(c)
    BY <1>2, <2>1, <2>2, <2>3, <2>4, <2>7 DEF Moves
  <2>9. QED  BY <1>5, <2>1, <2>8, StepKeeps
<1>7. CASE Refusal(request, taint, estimate) # "none"
  <2>1. Refusal(request, taint, estimate) # "ok"
    BY DEF Refusal
  <2>2. PICK status : /\ answers' = answers \cup {[number |-> n, status |-> status]}
                      /\ status # "ok"
    BY <1>7, <2>1 DEF Form
  <2>3. calls' = calls
    BY <1>7 DEF Form
  <2>4. Grows(c)
    BY <1>1, <1>2, <1>3, <2>2 DEF Grows
  <2>5. Adds(c)
    BY <1>1, <1>2, <1>3, <2>2 DEF Adds
  <2>6. Moves(c)
    BY <1>1, <2>3 DEF Moves, KernelInv, CallsSound
  <2>7. QED  BY <2>4, <2>5, <2>6, StepKeeps
<1>8. QED  BY <1>6, <1>7

\* The taint of values joined follows their lineages joined.
LEMMA JoinInherits ==
  ASSUME NEW values, values \subseteq outputs, OutputsSound
  PROVE  Inherits(FromOutputs(values), UNION {v.lineage : v \in values})
<1>1. \A v \in values : Inherits(v.taint, v.lineage)
  BY DEF OutputsSound
<1>2. FromOutputs(values) = "tainted" <=> \E v \in values : v.taint = "tainted"
  BY DEF FromOutputs, Join
<1>3. QED  BY <1>1, <1>2 DEF Inherits

LEMMA BuildFromOutputsSafe ==
  ASSUME NEW c \in Callers, KernelInv, NEW request, NEW values \in SUBSET outputs,
         BuildFromOutputs(c, request, values)
  PROVE  KernelInv'
<1>1. PICK taint, lineage, estimate :
        /\ Form(c, request, "pipeline", taint, lineage, estimate)
        /\ Inherits(taint, lineage)
  BY JoinInherits DEF BuildFromOutputs, KernelInv
<1>2. QED  BY <1>1, FormSafe

LEMMA HandleSafe ==
  ASSUME NEW c \in Callers, KernelInv, NEW request, Handle(c, request)
  PROVE  KernelInv'
<1>1. CASE request.tool \in DOMAIN ToolMap
  BY <1>1, FormSafe DEF Handle
<1>2. CASE request.tool \notin DOMAIN ToolMap
  <2> PICK n : n = made + 1
    OBVIOUS
  <2>1. /\ runtime.built /\ calls[c] = IdleCall /\ made' = n
        /\ answers' = answers \cup {[number |-> n, status |-> "non_existent_action"]}
        /\ UNCHANGED <<runtime, calls, outputs, spent, observed, executed, dirty>>
    BY <1>2 DEF Handle
  <2>2. Number(c) = n
    BY <2>1 DEF Number
  <2>3. Unanswered(n) /\ n \notin executed /\ made \in Nat
    BY FreshNumber
  <2>4. Grows(c)
    BY <2>1, <2>2, <2>3 DEF Grows
  <2>5. Adds(c)
    BY <2>1, <2>2, <2>3 DEF Adds
  <2>6. Moves(c)
    BY <2>1 DEF Moves, KernelInv, CallsSound
  <2>7. QED  BY <2>4, <2>5, <2>6, StepKeeps
<1>3. QED  BY <1>1, <1>2

-----------------------------------------------------------------------------
(* Executing it. *)

\* What is known when c waits for a call.
LEMMA Waits ==
  ASSUME NEW c \in Callers, KernelInv, calls[c] # IdleCall
  PROVE  /\ CallSound(calls[c])
         /\ Number(c) = calls[c].number
         /\ Number(c) \in Nat /\ Number(c) <= made /\ made \in Nat
         /\ runtime.built
         /\ DOMAIN calls = Callers
<1>1. CallSound(calls[c])
  BY DEF KernelInv, CallsSound
<1>2. QED  BY <1>1 DEF KernelInv, CallsSound, CountSound, CallSound, Numbered, Number

LEMMA NotIdle ==
  ASSUME NEW c \in Callers, calls[c].stage \in Stages
  PROVE  calls[c] # IdleCall
  BY DEF IdleCall, Stages

\* A call that only changes its stage.
LEMMA RestagedFields ==
  ASSUME NEW call, NEW stage, Fields \subseteq DOMAIN call, NEW new,
         new = [call EXCEPT !.stage = stage]
  PROVE  /\ Fields \subseteq DOMAIN new
         /\ new.stage = stage /\ new.number = call.number /\ new.action = call.action
         /\ new.taint = call.taint /\ new.lineage = call.lineage
         /\ new.estimate = call.estimate
  BY DEF Fields

LEMMA AdvanceSafe ==
  ASSUME NEW c \in Callers, KernelInv, NEW stage, Advance(c, stage),
         calls[c].stage = "formed", ~runtime.simulated,
         \/ stage = "ran" /\ executed' = executed \cup {calls[c].number}
         \/ stage = "rejected" /\ executed' = executed
  PROVE  KernelInv'
<1> PICK call, new : call = calls[c] /\ new = [call EXCEPT !.stage = stage]
  OBVIOUS
<1>1. calls[c] # IdleCall
  BY NotIdle DEF Stages
<1>2. /\ CallSound(call) /\ Number(c) = call.number /\ DOMAIN calls = Callers
      /\ Number(c) \in Nat /\ Number(c) <= made /\ made \in Nat /\ runtime.built
  BY <1>1, Waits
<1>3. /\ calls' = [calls EXCEPT ![c] = new]
      /\ UNCHANGED <<runtime, made, outputs, spent, observed, answers, dirty>>
  BY DEF Advance
<1>4. /\ Fields \subseteq DOMAIN new
      /\ new.stage = stage /\ new.number = call.number /\ new.action = call.action
      /\ new.taint = call.taint /\ new.lineage = call.lineage
  BY <1>2, RestagedFields DEF CallSound
<1>5. Unanswered(call.number) /\ call.number \notin executed
  BY <1>2 DEF CallSound
<1>6. Grows(c)
  BY <1>2, <1>3 DEF Grows
<1>7. Adds(c)
  BY <1>2, <1>3, <1>5 DEF Adds
<1>8. CallSound(new)'
  <2>1. Inherits(call.taint, call.lineage)'
    BY <1>2, <1>6, InheritsStays DEF CallSound
  <2>2. Inherits(new.taint, new.lineage)'
    BY <1>4, <2>1
  <2>3. Numbered(new.number)'
    BY <1>2, <1>3, <1>4 DEF Numbered
  <2>4. /\ new.action \in ActionSpace(runtime'.policy)
        /\ ~TaintRuleFor(runtime'.policy, new.taint, TypeOf(new.action)')
        /\ Unanswered(new.number)'
    BY <1>2, <1>3, <1>4 DEF CallSound, TypeOf, Unanswered
  <2>5. /\ stage = "rejected" => new.number \notin executed'
        /\ stage = "ran" => new.number \in executed'
    BY <1>4, <1>5
  <2>6. QED  BY <1>2, <1>3, <1>4, <2>2, <2>3, <2>4, <2>5 DEF CallSound, Stages
<1>9. calls'[c] = new
  BY <1>2, <1>3
<1>10. CallSound(calls[c])'
  BY <1>8, <1>9 DEF CallSound
<1>11. Moves(c)
  BY <1>2, <1>3, <1>4, <1>9, <1>10 DEF Moves
<1>12. QED  BY <1>6, <1>7, <1>11, StepKeeps

LEMMA ReturnSafe ==
  ASSUME NEW c \in Callers, KernelInv, Return(c),
         \/ calls[c].stage = "ran"
         \/ calls[c].stage = "formed" /\ runtime.simulated
  PROVE  KernelInv'
<1> PICK call, new : call = calls[c] /\ new = [call EXCEPT !.stage = "charge"]
  OBVIOUS
<1>1. calls[c] # IdleCall
  BY NotIdle DEF Stages
<1>2. /\ CallSound(call) /\ Number(c) = call.number /\ DOMAIN calls = Callers
      /\ Number(c) \in Nat /\ Number(c) <= made /\ made \in Nat /\ runtime.built
  BY <1>1, Waits
<1>3. /\ answers' = answers \cup {[number |-> call.number, status |-> "ok"]}
      /\ calls' = [calls EXCEPT ![c] = IdleCall] \/ calls' = [calls EXCEPT ![c] = new]
      /\ UNCHANGED <<runtime, made, spent, observed, executed, dirty>>
  BY DEF Return
<1>4. \A v \in outputs' \ outputs : v.taint = call.taint /\ v.lineage = call.lineage
  BY DEF Return
<1>5. Unanswered(call.number) /\ (call.number \in executed \/ runtime.simulated)
  BY <1>2 DEF CallSound
<1>6. Grows(c)
  BY <1>2, <1>3 DEF Grows
<1>7. Inherits(call.taint, call.lineage)'
  BY <1>2, <1>6, InheritsStays DEF CallSound
<1>8. Adds(c)
  <2>1. \A v \in outputs' \ outputs : Inherits(v.taint, v.lineage)'
    BY <1>4, <1>7
  <2>2. "ok" \notin Denials
    BY DEF Denials
  <2>3. QED  BY <1>2, <1>3, <1>5, <2>1, <2>2 DEF Adds
<1>9. CASE calls' = [calls EXCEPT ![c] = IdleCall]
  <2>1. Moves(c)
    BY <1>2, <1>9 DEF Moves
  <2>2. QED  BY <1>6, <1>8, <2>1, StepKeeps
<1>10. CASE calls' = [calls EXCEPT ![c] = new]
  <2>1. /\ Fields \subseteq DOMAIN new
        /\ new.stage = "charge" /\ new.number = call.number
        /\ new.taint = call.taint /\ new.lineage = call.lineage
    BY <1>2, RestagedFields DEF CallSound
  <2>2. Inherits(new.taint, new.lineage)' /\ Numbered(new.number)'
    BY <1>2, <1>3, <1>7, <2>1 DEF Numbered
  <2>3. CallSound(new)'
    BY <1>2, <1>3, <2>1, <2>2 DEF CallSound, Stages
  <2>4. calls'[c] = new
    BY <1>2, <1>10
  <2>5. CallSound(calls[c])'
    BY <2>3, <2>4 DEF CallSound
  <2>6. Moves(c)
    BY <1>2, <1>10, <2>1, <2>4, <2>5 DEF Moves
  <2>7. QED  BY <1>6, <1>8, <2>6, StepKeeps
<1>11. QED  BY <1>3, <1>9, <1>10

LEMMA RaiseSafe ==
  ASSUME NEW c \in Callers, KernelInv, Raise(c)
  PROVE  KernelInv'
<1> PICK call : call = calls[c]
  OBVIOUS
<1>1. calls[c] # IdleCall
  BY NotIdle DEF Stages, Raise
<1>2. /\ CallSound(call) /\ Number(c) = call.number /\ DOMAIN calls = Callers
      /\ Number(c) \in Nat /\ Number(c) <= made /\ made \in Nat /\ runtime.built
  BY <1>1, Waits
<1>3. /\ answers' = answers \cup {[number |-> call.number, status |-> "raised"]}
      /\ calls' = [calls EXCEPT ![c] = IdleCall]
      /\ UNCHANGED <<runtime, made, outputs, spent, observed, executed, dirty>>
      /\ call.stage \in {"formed", "ran", "rejected"}
  BY DEF Raise
<1>4. Unanswered(call.number)
  BY <1>2, <1>3 DEF CallSound
<1>5. Grows(c)
  BY <1>2, <1>3 DEF Grows
<1>6. Adds(c)
  <2>1. "raised" \notin Denials
    BY DEF Denials
  <2>2. QED  BY <1>2, <1>3, <1>4, <2>1 DEF Adds
<1>7. Moves(c)
  BY <1>2, <1>3 DEF Moves
<1>8. QED  BY <1>5, <1>6, <1>7, StepKeeps

LEMMA RecordActualCostSafe ==
  ASSUME NEW c \in Callers, KernelInv, RecordActualCost(c)
  PROVE  KernelInv'
<1>1. calls[c] # IdleCall
  BY NotIdle DEF Stages, RecordActualCost
<1>2. /\ DOMAIN calls = Callers
      /\ Number(c) \in Nat /\ Number(c) <= made /\ made \in Nat /\ runtime.built
  BY <1>1, Waits
<1>3. /\ calls' = [calls EXCEPT ![c] = IdleCall]
      /\ UNCHANGED <<runtime, made, outputs, executed, answers, dirty>>
  BY DEF RecordActualCost
<1>4. Grows(c)
  BY <1>2, <1>3 DEF Grows
<1>5. Adds(c)
  BY <1>2, <1>3 DEF Adds
<1>6. Moves(c)
  BY <1>2, <1>3 DEF Moves
<1>7. QED  BY <1>4, <1>5, <1>6, StepKeeps

-----------------------------------------------------------------------------
(* Building a runtime: nothing has been called yet. *)

LEMMA StartSafe ==
  ASSUME NEW manifest, NEW simulated \in BOOLEAN, KernelInv, Start(manifest, simulated),
         simulated \/ ActionSpace(manifest) = WorkerRegistry
  PROVE  KernelInv'
<1>1. /\ ~runtime.built
      /\ runtime' = [built |-> TRUE, policy |-> manifest, simulated |-> simulated]
      /\ UNCHANGED <<calls, made, outputs, spent, observed, executed, answers, dirty>>
  BY DEF Start
<1>2. \A c \in Callers : calls[c] = IdleCall
  BY <1>1 DEF KernelInv, CallsSound, CallSound
<1>3. answers = {} /\ executed = {} /\ made = 0
  BY <1>1 DEF KernelInv, RuntimeSound
<1>4. CallsSound' /\ Apart'
  BY <1>1, <1>2 DEF KernelInv, CallsSound, Apart
<1>5. OutputsSound'
  BY <1>1 DEF KernelInv, OutputsSound, Inherits, Numbered
<1>6. AnswersSound' /\ CountSound'
  BY <1>1, <1>3 DEF KernelInv, AnswersSound, CountSound, Numbered
<1>7. RuntimeSound'
  BY <1>1, <1>3 DEF RuntimeSound
<1>8. QED  BY <1>4, <1>5, <1>6, <1>7 DEF KernelInv

LEMMA StutterSafe ==
  ASSUME KernelInv, UNCHANGED kernelVars
  PROVE  KernelInv'
<1>1. /\ runtime' = runtime /\ calls' = calls /\ made' = made /\ outputs' = outputs
      /\ executed' = executed /\ answers' = answers /\ dirty' = dirty
  BY DEF kernelVars
<1>2. CallsSound'
  BY <1>1 DEF KernelInv, CallsSound, CallSound, Inherits, Numbered, Unanswered, TypeOf
<1>3. Apart' /\ OutputsSound'
  BY <1>1 DEF KernelInv, Apart, OutputsSound, Inherits, Numbered
<1>4. AnswersSound' /\ RuntimeSound' /\ CountSound'
  BY <1>1 DEF KernelInv, AnswersSound, AnswerSound, RuntimeSound, CountSound, Numbered
<1>5. QED  BY <1>2, <1>3, <1>4 DEF KernelInv

LEMMA NextSafe ==
  ASSUME KernelInv, [Next]_kernelVars
  PROVE  KernelInv'
<1>1. ASSUME NEW m \in WorldManifests, BuildRuntime(m)  PROVE KernelInv'
  BY <1>1, StartSafe DEF BuildRuntime
<1>2. ASSUME NEW m \in WorldManifests, BuildSimulationRuntime(m)  PROVE KernelInv'
  BY <1>2, StartSafe DEF BuildSimulationRuntime
<1>3. ASSUME NEW c \in Callers, NEW request \in Requests, Handle(c, request)
      PROVE  KernelInv'
  BY <1>3, HandleSafe
<1>4. ASSUME NEW c \in Callers, NEW request \in Requests, NEW taint \in TaintStates,
             BuildFresh(c, request, taint)
      PROVE  KernelInv'
  BY <1>4, FormSafe DEF BuildFresh
<1>5. ASSUME NEW c \in Callers, NEW request \in Requests, NEW values \in SUBSET outputs,
             BuildFromOutputs(c, request, values)
      PROVE  KernelInv'
  <2>1. PICK taken : taken = values
    OBVIOUS
  <2>2. QED  BY <1>5, <2>1, BuildFromOutputsSafe
<1>6. ASSUME NEW c \in Callers, RunHandler(c)  PROVE KernelInv'
  BY <1>6, AdvanceSafe DEF RunHandler
<1>7. ASSUME NEW c \in Callers, RejectAction(c)  PROVE KernelInv'
  BY <1>7, AdvanceSafe DEF RejectAction
<1>8. ASSUME NEW c \in Callers, Execute(c)  PROVE KernelInv'
  BY <1>8, ReturnSafe DEF Execute
<1>9. ASSUME NEW c \in Callers, Simulate(c)  PROVE KernelInv'
  BY <1>9, ReturnSafe DEF Simulate
<1>10. ASSUME NEW c \in Callers, Raise(c)  PROVE KernelInv'
  BY <1>10, RaiseSafe
<1>11. ASSUME NEW c \in Callers, RecordActualCost(c)  PROVE KernelInv'
  BY <1>11, RecordActualCostSafe
<1>12. CASE UNCHANGED kernelVars
  BY <1>12, StutterSafe
<1>13. QED
  BY <1>1, <1>2, <1>3, <1>4, <1>5, <1>6, <1>7, <1>8, <1>9, <1>10, <1>11, <1>12 DEF Next

LEMMA InitSafe ==
  Init => KernelInv
<1> SUFFICES ASSUME Init  PROVE KernelInv
  OBVIOUS
<1>1. CallsSound /\ Apart
  BY DEF Init, CallsSound, Apart
<1>2. OutputsSound /\ AnswersSound /\ CountSound
  BY DEF Init, OutputsSound, AnswersSound, CountSound
<1>3. RuntimeSound
  BY DEF Init, RuntimeSound, NoRuntime
<1>4. QED  BY <1>1, <1>2, <1>3 DEF KernelInv

LEMMA KernelInvariant == Spec => []KernelInv
<1>1. KernelInv /\ [Next]_kernelVars => KernelInv'
  BY NextSafe
<1>2. QED  BY InitSafe, <1>1, PTL DEF Spec

-----------------------------------------------------------------------------
(***************************************************************************)
(* Taint follows the data: however values were joined on the way, a value  *)
(* is tainted exactly if it descends from a call that began tainted, and   *)
(* no intent that a taint rule should have stopped waits for the worker    *)
(* (TaintContext.from_outputs, IRBuilder.build, Executor.execute).         *)
(***************************************************************************)
THEOREM TaintIsInherited == Spec => []TaintFollowsLineage
<1>1. KernelInv => TaintFollowsLineage
  <2> SUFFICES ASSUME KernelInv  PROVE TaintFollowsLineage
    OBVIOUS
  <2>1. \A v \in outputs : v.taint = "tainted" <=> v.lineage \cap dirty # {}
    BY DEF KernelInv, OutputsSound, Inherits
  <2>2. ASSUME NEW c \in Callers, calls[c].stage \in {"formed", "ran"},
               calls[c].lineage \cap dirty # {}
        PROVE  ~TaintRuleFor(runtime.policy, "tainted", TypeOf(calls[c].action))
    <3>1. calls[c] # IdleCall
      BY <2>2, NotIdle DEF Stages
    <3>2. CallSound(calls[c])
      BY <3>1, Waits
    <3>3. QED  BY <2>2, <3>2 DEF CallSound, Inherits
  <2>3. QED  BY <2>1, <2>2 DEF TaintFollowsLineage
<1>2. QED  BY KernelInvariant, <1>1, PTL

(***************************************************************************)
(* Every answer tells what the worker did: a result comes from a handler   *)
(* that ran or from a simulation, which runs nothing; a refused call ran   *)
(* nowhere; a call has one answer; and the worker knows each action it is  *)
(* handed (build_runtime's check of the registry, Executor, worker.main).  *)
(***************************************************************************)
THEOREM AnswersTellTheTruth == Spec => []AnswersMatchEffects
<1>1. KernelInv => AnswersMatchEffects
  <2> SUFFICES ASSUME KernelInv  PROVE AnswersMatchEffects
    OBVIOUS
  <2>1. WorkerKnowsEveryAction
    <3> SUFFICES ASSUME NEW c \in Callers, calls[c].stage \in {"formed", "rejected"},
                        ~runtime.simulated
                 PROVE  calls[c].action \in WorkerRegistry
      BY DEF WorkerKnowsEveryAction
    <3>1. calls[c] # IdleCall
      BY NotIdle DEF Stages
    <3>2. CallSound(calls[c])
      BY <3>1, Waits
    <3>3. QED  BY <3>2 DEF CallSound, KernelInv, RuntimeSound
  <2>2. ASSUME NEW a \in answers  PROVE AnswerSound(a)
    BY DEF KernelInv, AnswersSound
  <2>3. runtime.built /\ runtime.simulated => executed = {}
    BY DEF KernelInv, RuntimeSound
  <2>4. QED  BY <2>1, <2>2, <2>3 DEF AnswersMatchEffects, AnswerSound
<1>2. QED  BY KernelInvariant, <1>1, PTL
-----------------------------------------------------------------------------
(***************************************************************************)
(* The budget.  A call with an estimate is pending until it is charged or  *)
(* given up.  What the session may have spent is less by one request's     *)
(* limit for each pending call, but for one of them, the last one formed,  *)
(* whose estimate was held against what the session had left.              *)
(***************************************************************************)

Pending == {c \in Callers : calls[c] # IdleCall /\ calls[c].estimate # NoEstimate}

\* What may be spent while k calls are pending.
Allowance(k) == Budget.session + (Cardinality(Callers) - 1 - k) * Budget.request

\* The estimate of the call that c waits for.
Estimated(c) == calls[c].estimate.total

WithinAllowance ==
  LET k == Cardinality(Pending)
  IN \/ spent <= Allowance(k)
     \/ \E c \in Pending : spent + Estimated(c) <= Allowance(k - 1)

BudgetInv ==
  /\ spent \in Nat
  /\ \A c \in Pending : Estimated(c) \in 0 .. Budget.request
  /\ \A c \in Callers : calls[c].stage = "charge" => c \in Pending
  /\ WithinAllowance

-----------------------------------------------------------------------------
(* Numbers. *)

LEMMA AllowanceSteps ==
  ASSUME NEW k \in Nat
  PROVE  /\ Allowance(k) \in Int /\ Allowance(k - 1) \in Int
         /\ Allowance(k - 1) = Allowance(k) + Budget.request
         /\ Allowance(k) <= Allowance(0)
         /\ k < Cardinality(Callers) => Budget.session <= Allowance(k)
<1> DEFINE n == Cardinality(Callers)
           r == Budget.request
<1>1. n \in Nat /\ r \in Nat /\ Budget.session \in Nat
  BY CallersAssumption, BudgetAssumption, FS_CardinalityType
<1> HIDE DEF n, r
<1>2. (n - 1 - (k - 1)) * r = (n - 1 - k) * r + r
  <2>1. n - 1 - (k - 1) = (n - 1 - k) + 1
    BY <1>1
  <2>2. \A a \in Int : (a + 1) * r = a * r + r
    BY <1>1
  <2>3. QED  BY <1>1, <2>1, <2>2
<1>3. (n - 1 - k) * r <= (n - 1 - 0) * r
  <2>1. \A a, b \in Int : a <= b => a * r <= b * r
    BY <1>1
  <2>2. QED  BY <1>1, <2>1
<1>4. k < n => 0 <= (n - 1 - k) * r
  <2>1. \A a \in Nat : 0 <= a * r
    BY <1>1
  <2>2. k < n => n - 1 - k \in Nat
    BY <1>1
  <2>3. QED  BY <2>1, <2>2
<1>5. (n - 1 - k) * r \in Int /\ (n - 1 - (k - 1)) * r \in Int
  BY <1>1
<1>6. QED  BY <1>1, <1>2, <1>3, <1>4, <1>5 DEF Allowance, n, r

LEMMA PendingCounts ==
  /\ IsFiniteSet(Pending)
  /\ Cardinality(Pending) \in Nat
  /\ \A c \in Pending : Cardinality(Pending \ {c}) = Cardinality(Pending) - 1
  /\ \A c \in Callers \ Pending :
       /\ Cardinality(Pending \cup {c}) = Cardinality(Pending) + 1
       /\ Cardinality(Pending) < Cardinality(Callers)
<1>1. Pending \in SUBSET Callers
  BY DEF Pending
<1>2. IsFiniteSet(Pending) /\ Cardinality(Pending) \in Nat
  BY <1>1, CallersAssumption, FS_Subset, FS_CardinalityType
<1>3. ASSUME NEW c \in Callers \ Pending  PROVE Cardinality(Pending) < Cardinality(Callers)
  <2>1. Pending \cup {c} \in SUBSET Callers /\ Cardinality(Pending \cup {c}) = Cardinality(Pending) + 1
    BY <1>1, <1>2, FS_AddElement
  <2>2. Cardinality(Pending \cup {c}) <= Cardinality(Callers) /\ Cardinality(Callers) \in Nat
    BY <2>1, CallersAssumption, FS_Subset, FS_CardinalityType
  <2>3. QED  BY <1>2, <2>1, <2>2
<1>4. QED  BY <1>2, <1>3, FS_AddElement, FS_RemoveElement

\* The least of a set of integers that has one is least, and in the set.
LEMMA LeastIsLeast ==
  ASSUME NEW S, \E x \in S : \A y \in S : x <= y
  PROVE  LeastOf(S) \in S /\ \A y \in S : LeastOf(S) <= y
  BY DEF LeastOf

\* The limit of a request is at most the budget of a request, and an estimate
\* within the limit fits into what the session has left.
LEMMA LimitBinds ==
  ASSUME NEW role, NEW source, NEW x \in Nat, spent \in Nat,
         x <= BindingLimit(Budget, spent, NoOverride, RoleBudgets, role, source)
  PROVE  x <= Budget.request /\ x <= Budget.session - spent
<1> DEFINE S == {Budget.request} \cup {b.request : b \in {b \in RoleBudgets : Matching(b, role, source)}}
           limit == RequestLimit(Budget, NoOverride, RoleBudgets, role, source)
<1>1. limit = LeastOf(S)
  BY DEF RequestLimit, NoOverride
<1>2. S \in SUBSET Nat /\ S # {} /\ Budget.request \in S
  BY BudgetAssumption, RoleBudgetsAssumption
<1>3. limit \in Nat /\ limit <= Budget.request
  <2> HIDE DEF S, limit
  <2>1. \E m \in S : \A y \in S : m <= y
    BY <1>2, Least
  <2>2. QED  BY <1>1, <1>2, <2>1, LeastIsLeast
<1> DEFINE T == {limit, Budget.session - spent}
<1>4. LeastOf(T) \in T /\ LeastOf(T) <= limit /\ LeastOf(T) <= Budget.session - spent
  <2> HIDE DEF limit
  <2>1. \E m \in T : \A y \in T : m <= y
    BY <1>3, BudgetAssumption
  <2>2. QED  BY <2>1, LeastIsLeast
<1>5. x <= LeastOf(T)
  BY DEF BindingLimit
<1> HIDE DEF limit
<1>6. QED  BY <1>3, <1>4, <1>5, BudgetAssumption

\* An estimate is a natural number.
LEMMA EstimateIsNatural ==
  ASSUME NEW request \in Requests
  PROVE  EstimateOf(request).total \in Nat
<1> DEFINE llm == request.llm
           price == Pricing[llm.model]
<1>1. llm.tokens \in Nat /\ llm.cap \in Nat /\ MultiplierNum \in Nat /\ ToolCost(llm.tool) \in Nat
  BY RequestsAssumption, MultiplierAssumption, ToolCostsAssumption DEF ToolCost
<1>2. CASE request.llm = NoCall \/ ~Known(llm.model)
  BY <1>2 DEF EstimateOf, EstimateLlmCost, NoEstimate
<1>3. CASE request.llm # NoCall /\ Known(llm.model)
  <2>1. price.input \in Nat /\ price.output \in Nat
    BY <1>3, PricingAssumption DEF Known
  <2>2. \A a, b \in Nat : a * b \in Nat
    OBVIOUS
  <2>3. llm.tokens * price.input \in Nat /\ llm.cap * price.output \in Nat
    BY <1>1, <2>1, <2>2
  <2>4. (llm.tokens * price.input + llm.cap * price.output + ToolCost(llm.tool))
          * MultiplierNum \in Nat
    <3>1. llm.tokens * price.input + llm.cap * price.output + ToolCost(llm.tool) \in Nat
      BY <1>1, <2>3
    <3>2. QED  BY <1>1, <2>2, <3>1
  <2>5. EstimateOf(request).total =
          (llm.tokens * price.input + llm.cap * price.output + ToolCost(llm.tool))
            * MultiplierNum
    BY <1>3 DEF EstimateOf, EstimateLlmCost
  <2>6. QED  BY <2>4, <2>5
<1>4. QED  BY <1>2, <1>3

-----------------------------------------------------------------------------
(* Steps. *)

\* Nothing about pending calls changes.
LEMMA BudgetStays ==
  ASSUME BudgetInv, spent' = spent, Pending' = Pending,
         \A c \in Pending : calls'[c].estimate = calls[c].estimate,
         \A c \in Callers : calls'[c].stage = "charge" => c \in Pending
  PROVE  BudgetInv'
<1>1. \A c \in Pending : Estimated(c)' = Estimated(c)
  BY DEF Estimated
<1>2. WithinAllowance'
  BY <1>1 DEF BudgetInv, WithinAllowance, Allowance
<1>3. QED  BY <1>1, <1>2 DEF BudgetInv

\* The call of c ends and costs no more than its estimate.
LEMMA BudgetDone ==
  ASSUME BudgetInv, NEW c \in Callers, DOMAIN calls = Callers,
         calls' = [calls EXCEPT ![c] = IdleCall],
         NEW cost \in Nat, spent' = spent + cost,
         IF c \in Pending THEN cost <= Estimated(c) ELSE cost = 0
  PROVE  BudgetInv'
<1>1. calls'[c] = IdleCall /\ \A d \in Callers \ {c} : calls'[d] = calls[d]
  OBVIOUS
<1>2. Pending' = Pending \ {c}
  BY <1>1 DEF Pending
<1>3. \A d \in Pending' : Estimated(d)' = Estimated(d)
  BY <1>1, <1>2 DEF Estimated, Pending
<1>4. \A d \in Callers : calls'[d].stage = "charge" => d \in Pending'
  BY <1>1, <1>2 DEF BudgetInv, IdleCall
<1>5. CASE c \notin Pending
  <2>1. Pending' = Pending /\ spent' = spent
    BY <1>2, <1>5 DEF BudgetInv
  <2>2. \A d \in Pending : calls'[d].estimate = calls[d].estimate
    BY <1>1, <1>5 DEF Pending
  <2>3. QED  BY <1>4, <2>1, <2>2, BudgetStays
<1>6. CASE c \in Pending
  <2> DEFINE k == Cardinality(Pending)
  <2>1. k \in Nat /\ k >= 1 /\ Cardinality(Pending') = k - 1 /\ k - 1 \in Nat
    <3>1. Cardinality(Pending \ {c}) \in Nat
      BY PendingCounts, FS_RemoveElement, FS_CardinalityType
    <3>2. QED  BY <1>2, <1>6, <3>1, PendingCounts
  <2>2. /\ Allowance(k) \in Int /\ Allowance(k - 1) \in Int /\ Allowance((k - 1) - 1) \in Int
        /\ Allowance(k - 1) = Allowance(k) + Budget.request
        /\ Allowance((k - 1) - 1) = Allowance(k - 1) + Budget.request
    BY <2>1, AllowanceSteps
  <2>3. /\ \A d \in Pending : Estimated(d) \in Nat /\ Estimated(d) <= Budget.request
        /\ Budget.request \in Nat /\ spent \in Nat
    BY BudgetAssumption DEF BudgetInv
  <2> HIDE DEF k
  <2>4. \/ spent + cost <= Allowance(k - 1)
        \/ \E d \in Pending \ {c} : spent + cost + Estimated(d) <= Allowance((k - 1) - 1)
    <3>1. CASE spent <= Allowance(k)
      BY <1>6, <2>2, <2>3, <3>1
    <3>2. ASSUME NEW d \in Pending, spent + Estimated(d) <= Allowance(k - 1), d # c
          PROVE  spent + cost + Estimated(d) <= Allowance((k - 1) - 1)
      BY <1>6, <2>2, <2>3, <3>2
    <3>3. CASE spent + Estimated(c) <= Allowance(k - 1)
      BY <1>6, <2>2, <2>3, <3>3
    <3>4. QED  BY <3>1, <3>2, <3>3 DEF BudgetInv, WithinAllowance, k
  <2>5. WithinAllowance'
    <3>1. CASE spent + cost <= Allowance(k - 1)
      BY <2>1, <3>1 DEF WithinAllowance, Allowance
    <3>2. ASSUME NEW d \in Pending \ {c}, spent + cost + Estimated(d) <= Allowance((k - 1) - 1)
          PROVE  WithinAllowance'
      <4>1. d \in Pending' /\ Estimated(d)' = Estimated(d)
        BY <1>2, <1>3
      <4>2. QED  BY <2>1, <3>2, <4>1 DEF WithinAllowance, Allowance
    <3>3. QED  BY <2>4, <3>1, <3>2
  <2>6. spent' \in Nat /\ \A d \in Pending' : Estimated(d)' \in 0 .. Budget.request
    BY <1>2, <1>3, <2>3
  <2>7. QED  BY <1>4, <2>5, <2>6 DEF BudgetInv
<1>7. QED  BY <1>5, <1>6

LEMMA FormBudgeted ==
  ASSUME NEW c \in Callers, KernelInv, BudgetInv, NEW request, NEW via, NEW taint,
         NEW lineage, NEW estimate, Form(c, request, via, taint, lineage, estimate),
         estimate.total \in Nat
  PROVE  BudgetInv'
<1>1. calls[c] = IdleCall /\ spent' = spent /\ DOMAIN calls = Callers
  BY DEF Form, KernelInv, CallsSound
<1>2. c \notin Pending
  BY <1>1 DEF Pending
<1>3. CASE Refusal(request, taint, estimate) # "none"
  <2>1. calls' = calls
    BY <1>3 DEF Form
  <2>2. QED  BY <1>1, <2>1, BudgetStays DEF Pending, BudgetInv
<1>4. CASE Refusal(request, taint, estimate) = "none"
  <2> PICK call : call = Waiting("formed", made + 1, request, via, taint,
                                 lineage \cup {made + 1}, estimate)
    OBVIOUS
  <2>1. calls' = [calls EXCEPT ![c] = call]
    BY <1>4 DEF Form
  <2>2. call.stage = "formed" /\ call.estimate = estimate /\ call # IdleCall
    <3>1. call.stage = "formed" /\ call.estimate = estimate
      BY DEF Waiting
    <3>2. QED  BY <3>1 DEF IdleCall
  <2>3. calls'[c] = call /\ \A d \in Callers \ {c} : calls'[d] = calls[d]
    BY <1>1, <2>1
  <2>4. CASE estimate = NoEstimate
    <3>1. Pending' = Pending
      BY <1>2, <2>2, <2>3, <2>4 DEF Pending
    <3>2. \A d \in Pending : calls'[d].estimate = calls[d].estimate
      BY <1>2, <2>3 DEF Pending
    <3>3. \A d \in Callers : calls'[d].stage = "charge" => d \in Pending
      BY <2>2, <2>3 DEF BudgetInv
    <3>4. QED  BY <1>1, <3>1, <3>2, <3>3, BudgetStays
  <2>5. CASE estimate # NoEstimate
    <3>1. Pending' = Pending \cup {c}
      BY <2>2, <2>3, <2>5 DEF Pending
    <3>2. \A d \in Pending : Estimated(d)' = Estimated(d)
      BY <1>2, <2>3 DEF Pending, Estimated
    <3>3. Estimated(c)' = estimate.total
      BY <2>2, <2>3 DEF Estimated
    <3>4. estimate.total <= Budget.request /\ estimate.total <= Budget.session - spent
      <4>1. Within(estimate, BindingLimit(Budget, spent, NoOverride, RoleBudgets,
                                          request.role, request.source))
        BY <1>4, <2>5 DEF Refusal
      <4>2. QED  BY <4>1, LimitBinds DEF Within, BudgetInv
    <3> DEFINE k == Cardinality(Pending)
    <3>5. /\ k \in Nat /\ Cardinality(Pending') = k + 1 /\ (k + 1) - 1 = k
          /\ k < Cardinality(Callers)
      BY <1>2, <3>1, PendingCounts
    <3>6. Allowance(k) \in Int /\ Budget.session <= Allowance(k)
      BY <3>5, AllowanceSteps
    <3> HIDE DEF k
    <3>7. spent + estimate.total <= Allowance(k)
      BY <3>4, <3>6, BudgetAssumption DEF BudgetInv
    <3>8. WithinAllowance'
      <4>1. c \in Pending' /\ spent' + Estimated(c)' <= Allowance(Cardinality(Pending') - 1)
        BY <1>1, <3>1, <3>3, <3>5, <3>7
      <4>2. QED  BY <4>1 DEF WithinAllowance, Allowance
    <3>9. \A d \in Pending' : Estimated(d)' \in 0 .. Budget.request
      BY <3>1, <3>2, <3>3, <3>4, BudgetAssumption DEF BudgetInv
    <3>10. \A d \in Callers : calls'[d].stage = "charge" => d \in Pending'
      BY <2>2, <2>3, <3>1 DEF BudgetInv
    <3>11. QED  BY <1>1, <3>8, <3>9, <3>10 DEF BudgetInv
  <2>6. QED  BY <2>4, <2>5
<1>5. QED  BY <1>3, <1>4

\* A call changes its stage, to be charged only if it has an estimate.
LEMMA BudgetRestaged ==
  ASSUME NEW c \in Callers, KernelInv, BudgetInv, calls[c] # IdleCall, NEW stage \in Stages,
         calls' = [calls EXCEPT ![c] = [calls[c] EXCEPT !.stage = stage]], spent' = spent,
         stage = "charge" => calls[c].estimate # NoEstimate
  PROVE  BudgetInv'
<1> PICK call, new : call = calls[c] /\ new = [call EXCEPT !.stage = stage]
  OBVIOUS
<1>1. DOMAIN calls = Callers /\ Fields \subseteq DOMAIN call
  BY Waits DEF CallSound
<1>2. new.stage = stage /\ new.estimate = call.estimate
  BY <1>1, RestagedFields
<1>3. new # IdleCall
  BY <1>2 DEF IdleCall, Stages
<1>4. calls'[c] = new /\ \A d \in Callers \ {c} : calls'[d] = calls[d]
  BY <1>1
<1>5. Pending' = Pending
  BY <1>2, <1>3, <1>4 DEF Pending
<1>6. \A d \in Pending : calls'[d].estimate = calls[d].estimate
  BY <1>2, <1>4 DEF Pending
<1>7. \A d \in Callers : calls'[d].stage = "charge" => d \in Pending
  BY <1>2, <1>4 DEF BudgetInv, Pending
<1>8. QED  BY <1>5, <1>6, <1>7, BudgetStays

LEMMA GivenUp ==
  ASSUME NEW c \in Callers, KernelInv, BudgetInv,
         calls' = [calls EXCEPT ![c] = IdleCall], spent' = spent
  PROVE  BudgetInv'
<1>1. DOMAIN calls = Callers /\ spent' = spent + 0
  BY DEF KernelInv, CallsSound, BudgetInv
<1>2. c \in Pending => 0 <= Estimated(c)
  BY DEF BudgetInv
<1>3. QED  BY <1>1, <1>2, BudgetDone

LEMMA ReturnBudgeted ==
  ASSUME NEW c \in Callers, KernelInv, BudgetInv, calls[c].stage \in {"formed", "ran"}, Return(c)
  PROVE  BudgetInv'
<1>1. calls[c] # IdleCall
  BY NotIdle DEF Stages
<1>2. CASE calls[c].estimate = NoEstimate
  BY <1>2, GivenUp DEF Return
<1>3. CASE calls[c].estimate # NoEstimate
  BY <1>1, <1>3, BudgetRestaged DEF Return, Stages
<1>4. QED  BY <1>2, <1>3

LEMMA ChargeBudgeted ==
  ASSUME NEW c \in Callers, KernelInv, BudgetInv, RecordActualCost(c)
  PROVE  BudgetInv'
<1>1. c \in Pending /\ Estimated(c) \in Nat
  BY DEF RecordActualCost, BudgetInv
<1>2. PICK cost \in {Estimated(c) \div 2, Estimated(c)} : spent' = spent + cost
  BY DEF RecordActualCost, Estimated
<1>3. cost \in Nat /\ cost <= Estimated(c)
  BY <1>1, <1>2
<1>4. calls' = [calls EXCEPT ![c] = IdleCall] /\ DOMAIN calls = Callers
  BY DEF RecordActualCost, KernelInv, CallsSound
<1>5. QED  BY <1>1, <1>2, <1>3, <1>4, BudgetDone

LEMMA BudgetStep ==
  ASSUME KernelInv, BudgetInv, [Next]_kernelVars
  PROVE  BudgetInv'
<1>1. ASSUME calls' = calls, spent' = spent  PROVE BudgetInv'
  BY <1>1, BudgetStays DEF Pending, BudgetInv
<1>2. ASSUME NEW m \in WorldManifests, BuildRuntime(m) \/ BuildSimulationRuntime(m)
      PROVE  BudgetInv'
  BY <1>1, <1>2 DEF BuildRuntime, BuildSimulationRuntime, Start
<1>3. NoEstimate.total \in Nat
  BY DEF NoEstimate
<1>4. ASSUME NEW c \in Callers, NEW request \in Requests, Handle(c, request)
      PROVE  BudgetInv'
  <2>1. CASE request.tool \in DOMAIN ToolMap
    BY <1>3, <1>4, <2>1, FormBudgeted DEF Handle
  <2>2. CASE request.tool \notin DOMAIN ToolMap
    BY <1>1, <1>4, <2>2 DEF Handle
  <2>3. QED  BY <2>1, <2>2
<1>5. ASSUME NEW c \in Callers, NEW request \in Requests, NEW taint \in TaintStates,
             BuildFresh(c, request, taint)
      PROVE  BudgetInv'
  BY <1>5, EstimateIsNatural, FormBudgeted DEF BuildFresh
<1>6. ASSUME NEW c \in Callers, NEW request \in Requests, NEW values \in SUBSET outputs,
             BuildFromOutputs(c, request, values)
      PROVE  BudgetInv'
  <2>1. PICK taint, lineage : Form(c, request, "pipeline", taint, lineage, EstimateOf(request))
    BY <1>6 DEF BuildFromOutputs
  <2>2. QED  BY <2>1, EstimateIsNatural, FormBudgeted
<1>7. ASSUME NEW c \in Callers, RunHandler(c) \/ RejectAction(c)
      PROVE  BudgetInv'
  <2>1. calls[c] # IdleCall
    BY <1>7, NotIdle DEF RunHandler, RejectAction, Stages
  <2>2. PICK stage \in {"ran", "rejected"} :
          /\ calls' = [calls EXCEPT ![c] = [calls[c] EXCEPT !.stage = stage]]
          /\ spent' = spent
    BY <1>7 DEF RunHandler, RejectAction, Advance
  <2>3. QED  BY <2>1, <2>2, BudgetRestaged DEF Stages
<1>8. ASSUME NEW c \in Callers, Execute(c) \/ Simulate(c)
      PROVE  BudgetInv'
  BY <1>8, ReturnBudgeted DEF Execute, Simulate
<1>9. ASSUME NEW c \in Callers, Raise(c)  PROVE BudgetInv'
  BY <1>9, GivenUp DEF Raise
<1>10. ASSUME NEW c \in Callers, RecordActualCost(c)  PROVE BudgetInv'
  BY <1>10, ChargeBudgeted
<1>11. CASE UNCHANGED kernelVars
  BY <1>1, <1>11 DEF kernelVars
<1>12. QED
  BY <1>2, <1>4, <1>5, <1>6, <1>7, <1>8, <1>9, <1>10, <1>11 DEF Next

(***************************************************************************)
(* Callers that run together overshoot the budget of the session by no     *)
(* more than one request's limit for each of them but one, whatever the    *)
(* prices, the roles and the order of estimates, answers and charges       *)
(* (EconomicPolicyEngine.evaluate_budget, record_actual_cost).             *)
(***************************************************************************)
THEOREM OvershootIsBounded == Spec => []OvershootBounded
<1>1. Init => BudgetInv
  <2> SUFFICES ASSUME Init  PROVE BudgetInv
    OBVIOUS
  <2>1. Pending = {}
    BY DEF Init, Pending
  <2>2. \A c \in Callers : calls[c].stage # "charge"
    BY DEF Init, IdleCall
  <2>3. WithinAllowance
    <3>1. Cardinality({}) = 0 /\ 0 < Cardinality(Callers)
      BY CallersAssumption, FS_EmptySet, FS_CardinalityType
    <3>2. Allowance(0) \in Int /\ Budget.session <= Allowance(0)
      BY <3>1, AllowanceSteps
    <3>3. 0 <= Allowance(0)
      BY <3>2, BudgetAssumption
    <3>4. QED  BY <2>1, <3>1, <3>3 DEF Init, WithinAllowance
  <2>4. QED  BY <2>1, <2>2, <2>3 DEF BudgetInv, Init
<1>2. KernelInv /\ BudgetInv /\ [Next]_kernelVars => BudgetInv'
  BY BudgetStep
<1>3. BudgetInv => OvershootBounded
  <2> SUFFICES ASSUME BudgetInv  PROVE OvershootBounded
    OBVIOUS
  <2> DEFINE k == Cardinality(Pending)
  <2>1. /\ k \in Nat /\ Allowance(k) \in Int /\ Allowance(k - 1) \in Int
        /\ Allowance(k) <= Allowance(0)
    BY PendingCounts, AllowanceSteps
  <2>2. ASSUME NEW c \in Pending, spent + Estimated(c) <= Allowance(k - 1)
        PROVE  spent <= Allowance(0)
    <3>1. k - 1 \in Nat
      <4>1. k # 0
        BY PendingCounts, FS_EmptySet
      <4>2. QED  BY <2>1, <4>1
    <3>2. Allowance(k - 1) <= Allowance(0) /\ Allowance(0) \in Int
      BY <3>1, AllowanceSteps
    <3>3. Estimated(c) \in Nat /\ spent \in Nat
      BY BudgetAssumption DEF BudgetInv
    <3> HIDE DEF k
    <3>4. QED  BY <2>1, <2>2, <3>2, <3>3
  <2>3. spent <= Allowance(0)
    <3>1. Allowance(0) \in Int /\ spent \in Nat
      BY AllowanceSteps DEF BudgetInv
    <3>2. CASE spent <= Allowance(k)
      <4> HIDE DEF k
      <4>1. QED  BY <2>1, <3>1, <3>2
    <3>3. QED  BY <2>2, <3>2 DEF BudgetInv, WithinAllowance
  <2>4. Allowance(0) = Budget.session + (Cardinality(Callers) - 1) * Budget.request
    <3>1. Cardinality(Callers) \in Nat
      BY CallersAssumption, FS_CardinalityType
    <3>2. Cardinality(Callers) - 1 - 0 = Cardinality(Callers) - 1
      BY <3>1
    <3>3. QED  BY <3>2 DEF Allowance
  <2>5. QED  BY <2>3, <2>4 DEF OvershootBounded
<1>4. QED  BY KernelInvariant, <1>1, <1>2, <1>3, PTL DEF Spec
-----------------------------------------------------------------------------
(***************************************************************************)
(* The sandbox of the tool gateway.  Of every run it is known how far its  *)
(* thread has come and what it has emitted last; what was answered stays   *)
(* true of the program, whatever a thread does that was given up on.       *)
(***************************************************************************)

IsSequence(s) == s \in Seq({s[i] : i \in DOMAIN s})

\* What AnswersAreWhole says of one run.
IsWhole(run) ==
  LET body == run.program.body
  IN /\ run.answer.ok =>
          /\ \A i \in DOMAIN body : body[i] \notin Statements
          /\ run.answer.result = IF body = <<>> THEN NoSource ELSE body[Len(body)]
     /\ run.answer.error \in {"security", "validation"} => run.worker = "none"
     /\ run.answer.error = "runtime" => \E i \in DOMAIN body : body[i] = "raise"

\* How far the thread has come.
Progress(run) ==
  LET body == run.program.body
  IN /\ IsSequence(body)
     /\ run.at \in 1 .. Len(body) + 1
     /\ \A i \in 1 .. run.at - 1 : body[i] \notin Statements
     /\ run.holder = IF run.at = 1 THEN NoSource ELSE body[run.at - 1]
     /\ run.raised => run.worker = "ended" /\ \E i \in DOMAIN body : body[i] = "raise"
     /\ run.worker = "ended" /\ ~run.raised => run.at = Len(body) + 1

RunProgress(run) ==
  /\ {"program", "worker", "at", "holder", "raised", "caller", "answer"} \subseteq DOMAIN run
  /\ run.worker \in {"none", "running", "holding", "ended"}
  /\ run.worker = "none" => run.caller = "answered"
  /\ run.worker # "none" => Progress(run)
  /\ run.caller = "answered" => IsWhole(run)

SandboxInv == IsSequence(runs) /\ \A r \in DOMAIN runs : RunProgress(runs[r])

LEMMA AppendIs ==
  ASSUME NEW s, IsSequence(s), NEW e
  PROVE  /\ IsSequence(Append(s, e))
         /\ \A i \in DOMAIN Append(s, e) :
              (i \in DOMAIN s /\ Append(s, e)[i] = s[i]) \/ Append(s, e)[i] = e
<1> DEFINE S == {s[i] : i \in DOMAIN s}
           T == S \cup {e}
           t == Append(s, e)
<1>1. s \in Seq(T)
  <2>1. s \in Seq(S)
    BY DEF IsSequence
  <2>2. QED  BY <2>1, SeqMonotonic
<1> HIDE DEF T
<1>2. e \in T
  BY DEF T
<1>3. /\ t \in Seq(T) /\ Len(t) = Len(s) + 1 /\ t[Len(s) + 1] = e
      /\ \A i \in 1 .. Len(s) : t[i] = s[i]
  BY <1>1, <1>2, AppendProperties
<1> HIDE DEF t
<1>4. t \in Seq({t[i] : i \in DOMAIN t})
  <2>1. Len(t) \in Nat /\ DOMAIN t = 1 .. Len(t)
    BY <1>3
  <2>2. \A i \in 1 .. Len(t) : t[i] \in {t[k] : k \in DOMAIN t}
    BY <2>1
  <2>3. t = [i \in 1 .. Len(t) |-> t[i]]
    BY <1>3
  <2>4. QED  BY <2>1, <2>2, <2>3, IsASeq
<1>5. \A i \in DOMAIN t : (i \in DOMAIN s /\ t[i] = s[i]) \/ t[i] = e
  BY <1>1, <1>3
<1>6. QED  BY <1>4, <1>5 DEF IsSequence, t

LEMMA ExceptIs ==
  ASSUME NEW s, IsSequence(s), NEW r \in DOMAIN s, NEW e
  PROVE  IsSequence([s EXCEPT ![r] = e])
<1> DEFINE t == [s EXCEPT ![r] = e]
<1>1. s \in Seq({s[i] : i \in DOMAIN s}) /\ DOMAIN t = DOMAIN s
  BY DEF IsSequence
<1>2. Len(s) \in Nat /\ DOMAIN s = 1 .. Len(s)
  BY <1>1
<1>3. t = [i \in 1 .. Len(s) |-> t[i]]
  BY <1>1, <1>2
<1> HIDE DEF t
<1>4. \A i \in 1 .. Len(s) : t[i] \in {t[k] : k \in DOMAIN t}
  BY <1>1, <1>2
<1>5. t \in [1 .. Len(s) -> {t[k] : k \in DOMAIN t}]
  BY <1>3, <1>4
<1>6. t \in Seq({t[k] : k \in DOMAIN t})
  BY <1>2, <1>5, SeqDef
<1>7. QED  BY <1>6 DEF IsSequence, t

LEMMA AnswerIs ==
  ASSUME NEW ok, NEW result, NEW error
  PROVE  Answer(ok, result, error).result = result /\ Answer(ok, result, error).error = error
  BY DEF Answer

LEMMA DispatchedIs ==
  ASSUME NEW request \in PlanRequests
  PROVE  RunProgress(Dispatched(request))
<1> DEFINE program == PlanSource(request)
           run == Dispatched(request)
<1>1. CASE program = NoSource
  BY <1>1 DEF Dispatched, RunProgress, IsWhole, Run, Answer
<1>2. CASE program # NoSource /\ ~PassesValidation(program)
  BY <1>2 DEF Dispatched, RunProgress, IsWhole, Run, Answer
<1>3. CASE program # NoSource /\ PassesValidation(program)
  <2>1. run = Run(program, "running", "waiting", NoAnswer)
    BY <1>3 DEF Dispatched
  <2>2. IsSequence(program.body)
    <3>1. CASE request.source # NoSource
      BY <3>1, BodiesAssumption DEF PlanSource, IsSequence
    <3>2. CASE request.source = NoSource
      <4>1. program = GenerateProgram(request.workflow, request.text)
        BY <1>3, <3>2 DEF PlanSource
      <4>2. \E v : program.body = <<v>>
        BY <4>1 DEF GenerateProgram, Source
      <4>3. QED  BY <4>2 DEF IsSequence
    <3>3. QED  BY <3>1, <3>2
  <2> HIDE DEF program, run
  <2>3. Len(program.body) \in Nat
    BY <2>2, LenProperties DEF IsSequence
  <2>4. Progress(run)
    BY <2>1, <2>2, <2>3 DEF Progress, Run
  <2>5. RunProgress(run)
    BY <2>1, <2>4 DEF RunProgress, Run
  <2>6. QED  BY <2>5 DEF run
<1>4. PassesValidation(program) \in BOOLEAN
  BY DEF PassesValidation
<1> HIDE DEF program
<1>5. QED  BY <1>1, <1>2, <1>3, <1>4

\* One run goes on, the others stay as they are.
LEMMA RunSafe ==
  ASSUME SandboxInv, NEW r \in DOMAIN runs, NEW new, RunProgress(new),
         runs' = [runs EXCEPT ![r] = new]
  PROVE  SandboxInv'
<1>1. IsSequence(runs')
  BY ExceptIs DEF SandboxInv
<1>2. QED  BY <1>1 DEF SandboxInv

LEMMA WorkerSafe ==
  ASSUME SandboxInv, NEW r \in DOMAIN runs, WorkerStep(r)
  PROVE  SandboxInv'
<1> DEFINE run == runs[r]
           body == run.program.body
<1>1. RunProgress(run) /\ run.worker = "running" /\ Progress(run)
  BY DEF SandboxInv, WorkerStep, RunProgress
<1>2. /\ IsSequence(body) /\ Len(body) \in Nat /\ DOMAIN body = 1 .. Len(body)
      /\ run.at \in 1 .. Len(body) + 1
  BY <1>1, LenProperties DEF Progress, IsSequence
<1>3. CASE /\ run.at > Len(body)
           /\ runs' = [runs EXCEPT ![r].worker = "ended"]
  <2> DEFINE new == [run EXCEPT !.worker = "ended"]
  <2>1. /\ new.worker = "ended" /\ new.program = run.program /\ new.at = run.at
        /\ new.holder = run.holder /\ new.raised = run.raised /\ new.caller = run.caller
        /\ new.answer = run.answer /\ DOMAIN new = DOMAIN run
    BY <1>1 DEF RunProgress
  <2>2. runs' = [runs EXCEPT ![r] = new]
    BY <1>3
  <2> HIDE DEF new
  <2>3. Progress(new)
    BY <1>1, <1>2, <1>3, <2>1 DEF Progress
  <2>4. RunProgress(new)
    BY <1>1, <2>1, <2>3 DEF RunProgress, IsWhole
  <2>5. QED  BY <2>2, <2>4, RunSafe
<1>4. CASE /\ ~(run.at > Len(body)) /\ body[run.at] = "raise"
           /\ runs' = [runs EXCEPT ![r].worker = "ended", ![r].raised = TRUE]
  <2> DEFINE new == [run EXCEPT !.worker = "ended", !.raised = TRUE]
  <2>1. /\ new.worker = "ended" /\ new.program = run.program /\ new.at = run.at
        /\ new.holder = run.holder /\ new.raised = TRUE /\ new.caller = run.caller
        /\ new.answer = run.answer /\ DOMAIN new = DOMAIN run
    BY <1>1 DEF RunProgress
  <2>2. runs' = [runs EXCEPT ![r] = new]
    BY <1>4
  <2>3. run.at \in DOMAIN body
    BY <1>2, <1>4
  <2> HIDE DEF new
  <2>4. Progress(new)
    BY <1>1, <1>2, <1>4, <2>1, <2>3 DEF Progress
  <2>5. RunProgress(new)
    BY <1>1, <2>1, <2>4 DEF RunProgress, IsWhole
  <2>6. QED  BY <2>2, <2>5, RunSafe
<1>5. CASE /\ ~(run.at > Len(body)) /\ body[run.at] \notin Statements
           /\ runs' = [runs EXCEPT ![r].at = @ + 1, ![r].holder = body[run.at]]
  <2> DEFINE new == [run EXCEPT !.at = @ + 1, !.holder = body[run.at]]
  <2>1. /\ new.worker = run.worker /\ new.program = run.program /\ new.at = run.at + 1
        /\ new.holder = body[run.at] /\ new.raised = run.raised /\ new.caller = run.caller
        /\ new.answer = run.answer /\ DOMAIN new = DOMAIN run
    BY <1>1 DEF RunProgress
  <2>2. runs' = [runs EXCEPT ![r] = new]
    BY <1>5
  <2> HIDE DEF new
  <2>3. /\ run.at \in 1 .. Len(body) /\ run.at + 1 \in 1 .. Len(body) + 1
        /\ run.at + 1 # 1 /\ (run.at + 1) - 1 = run.at
    BY <1>2, <1>5
  <2>4. \A i \in 1 .. run.at : body[i] \notin Statements
    <3>1. \A i \in 1 .. run.at : i = run.at \/ i \in 1 .. run.at - 1
      BY <2>3
    <3>2. QED  BY <1>1, <1>5, <3>1 DEF Progress
  <2>5. ~run.raised /\ new.worker = "running"
    BY <1>1, <2>1 DEF Progress
  <2>6. Progress(new)
    BY <1>2, <2>1, <2>3, <2>4, <2>5 DEF Progress
  <2>7. RunProgress(new)
    BY <1>1, <2>1, <2>6 DEF RunProgress, IsWhole
  <2>8. QED  BY <2>2, <2>7, RunSafe
<1>6. CASE runs' = [runs EXCEPT ![r].worker = "holding"]
  <2> DEFINE new == [run EXCEPT !.worker = "holding"]
  <2>1. /\ new.worker = "holding" /\ new.program = run.program /\ new.at = run.at
        /\ new.holder = run.holder /\ new.raised = run.raised /\ new.caller = run.caller
        /\ new.answer = run.answer /\ DOMAIN new = DOMAIN run
    BY <1>1 DEF RunProgress
  <2>2. runs' = [runs EXCEPT ![r] = new]
    BY <1>6
  <2> HIDE DEF new
  <2>3. ~run.raised
    BY <1>1 DEF Progress
  <2>4. Progress(new)
    BY <1>1, <2>1, <2>3 DEF Progress
  <2>5. RunProgress(new)
    BY <1>1, <2>1, <2>4 DEF RunProgress, IsWhole
  <2>6. QED  BY <2>2, <2>5, RunSafe
<1>7. QED  BY <1>3, <1>4, <1>5, <1>6 DEF WorkerStep

LEMMA CallerSafe ==
  ASSUME SandboxInv, NEW r, AnswerCaller(r)
  PROVE  SandboxInv'
<1> DEFINE run == runs[r]
           body == run.program.body
<1>1. r \in DOMAIN runs /\ RunProgress(run) /\ run.worker # "holding"
  BY DEF SandboxInv, AnswerCaller, Held
<1>2. CASE WaitEnds(r)
  <2> DEFINE new == [run EXCEPT !.caller = "checking"]
  <2>1. runs' = [runs EXCEPT ![r] = new] /\ run.caller = "waiting"
    BY <1>2 DEF WaitEnds
  <2>2. /\ new.worker = run.worker /\ new.program = run.program /\ new.at = run.at
        /\ new.holder = run.holder /\ new.raised = run.raised /\ new.caller = "checking"
        /\ new.answer = run.answer /\ DOMAIN new = DOMAIN run
    BY <1>1 DEF RunProgress
  <2> HIDE DEF new
  <2>3. RunProgress(new)
    BY <1>1, <2>1, <2>2 DEF RunProgress, Progress
  <2>4. QED  BY <1>1, <2>1, <2>3, RunSafe
<1>3. CASE Collect(r)
  <2> DEFINE answer == IF run.worker = "running" THEN Answer(FALSE, NoSource, "timeout")
                       ELSE Collected(run)
             new == [run EXCEPT !.caller = "answered", !.answer = answer]
  <2>1. runs' = [runs EXCEPT ![r] = new] /\ run.caller = "checking"
    BY <1>3 DEF Collect
  <2>2. run.worker # "none" /\ Progress(run)
    BY <1>1, <2>1 DEF RunProgress
  <2>3. \/ answer = Answer(FALSE, NoSource, "timeout")
        \/ run.worker = "ended" /\ run.raised /\ answer = Answer(FALSE, NoSource, "runtime")
        \/ /\ run.worker = "ended" /\ ~run.raised
           /\ answer.result = run.holder /\ answer.error = ""
    <3> DEFINE last == Answer(TRUE, run.holder, "")
    <3>1. last.result = run.holder /\ last.error = ""
      BY Zenon, AnswerIs
    <3> HIDE DEF last
    <3>2. run.worker = "ended" /\ ~run.raised => answer = last
      BY DEF Collected, last
    <3>3. QED  BY <1>1, <2>2, <3>1, <3>2 DEF RunProgress, Collected
  <2> HIDE DEF answer
  <2>4. /\ new.worker = run.worker /\ new.program = run.program /\ new.at = run.at
        /\ new.holder = run.holder /\ new.raised = run.raised /\ new.caller = "answered"
        /\ new.answer = answer /\ DOMAIN new = DOMAIN run
    BY <1>1 DEF RunProgress
  <2> HIDE DEF new
  <2>5. Progress(new)
    BY <2>2, <2>4 DEF Progress
  <2>6. ASSUME run.worker = "ended", ~run.raised
        PROVE  /\ \A i \in DOMAIN body : body[i] \notin Statements
               /\ run.holder = IF body = <<>> THEN NoSource ELSE body[Len(body)]
    <3>1. /\ Len(body) \in Nat /\ DOMAIN body = 1 .. Len(body) /\ run.at = Len(body) + 1
          /\ body = <<>> <=> Len(body) = 0
      BY <2>2, <2>6, LenProperties, EmptySeq DEF Progress, IsSequence
    <3>2. QED  BY <2>2, <3>1 DEF Progress
  <2>7. IsWhole(new)
    <3>1. CASE answer = Answer(FALSE, NoSource, "timeout")
      BY <2>4, <3>1 DEF IsWhole, Answer
    <3>2. CASE run.raised /\ answer = Answer(FALSE, NoSource, "runtime")
      BY <2>2, <2>4, <3>2 DEF IsWhole, Answer, Progress
    <3>3. CASE /\ run.worker = "ended" /\ ~run.raised
               /\ answer.result = run.holder /\ answer.error = ""
      <4>1. new.answer.result = run.holder /\ new.answer.error = ""
        BY <2>4, <3>3
      <4>2. /\ \A i \in DOMAIN body : body[i] \notin Statements
            /\ run.holder = IF body = <<>> THEN NoSource ELSE body[Len(body)]
        BY <2>6, <3>3
      <4>3. new.program.body = body
        BY <2>4
      <4> HIDE DEF run, body
      <4>4. QED  BY <4>1, <4>2, <4>3 DEF IsWhole
    <3>4. QED  BY <2>3, <3>1, <3>2, <3>3
  <2>8. RunProgress(new)
    BY <1>1, <2>2, <2>4, <2>5, <2>7 DEF RunProgress
  <2>9. QED  BY <1>1, <2>1, <2>8, RunSafe
<1>4. QED  BY <1>2, <1>3 DEF AnswerCaller

(***************************************************************************)
(* A caller gets the whole of what its own program did, or an error, for   *)
(* any programs and any number of callers: never what a thread had emitted *)
(* when the caller gave up on it, nor what it emitted since; and a program *)
(* that was refused was never started (SandboxRuntime.run,                 *)
(* ProgramExecutor.execute).                                               *)
(***************************************************************************)
THEOREM ResultsAreWhole == SandboxSpec => []AnswersAreWhole
<1>1. SandboxInit => SandboxInv
  BY DEF SandboxInit, SandboxInv, IsSequence
<1>2. SandboxInv /\ [SandboxNext]_runs => SandboxInv'
  <2> SUFFICES ASSUME SandboxInv, [SandboxNext]_runs  PROVE SandboxInv'
    OBVIOUS
  <2>1. ASSUME NEW request \in PlanRequests, runs' = Append(runs, Dispatched(request))
        PROVE  SandboxInv'
    <3> DEFINE new == Dispatched(request)
    <3>1. RunProgress(new)
      BY DispatchedIs
    <3> HIDE DEF new
    <3>2. runs' = Append(runs, new)
      BY <2>1 DEF new
    <3>3. QED  BY <3>1, <3>2, AppendIs DEF SandboxInv
  <2>2. CASE UNCHANGED runs
    BY <2>2 DEF SandboxInv
  <2>3. QED
    BY <2>1, <2>2, WorkerSafe, CallerSafe DEF SandboxNext, DispatchProgram
<1>3. SandboxInv => AnswersAreWhole
  BY DEF SandboxInv, RunProgress, IsWhole, AnswersAreWhole
<1>4. QED  BY <1>1, <1>2, <1>3, PTL DEF SandboxSpec

-----------------------------------------------------------------------------
(***************************************************************************)
(* The background page of the browser extension.  What the properties say  *)
(* of the storage is true of every copy in a handler's hands as well, so   *)
(* that it does not matter which copy is put back last.  All a copy can    *)
(* name are messages that were answered, and a handler adds its own number *)
(* only.                                                                   *)
(***************************************************************************)

Answered(ms) == {n \in DOMAIN ms : ms[n].stage = "answered"}

\* The world behind a version.
WorldOf(version, book) ==
  IF version = 0 THEN NoWorld
  ELSE ThroughStorage(CompileManifest(ParseManifest(book[version])))

\* A decision is that of the world it names.
Named(t, book) ==
  LET ruling == EvaluatePolicy(WorldOf(t.version, book), Ingest([hidden |-> t.hidden]), t.intent)
  IN /\ t.version = 0 \/ t.version \in DOMAIN book
     /\ IF t.simulated THEN ruling.decision = "allow" /\ t.decision = "simulate"
        ELSE t.decision = ruling.decision

TraceSound(tr, known, book) ==
  \A t \in tr :
    /\ t.run \in known
    /\ t.approval \in known \cup {0}
    /\ t.approval = 0 => Named(t, book)

ResolvedBy(tr, id) == {t \in tr : t.approval = id}

RequestSound(r, tr, known) ==
  /\ "status" \in DOMAIN r
  /\ r.id \in known
  /\ \E t \in tr : t.run = r.id /\ t.decision = "ask"
  /\ \/ r.status = "pending" /\ ResolvedBy(tr, r.id) = {}
     \/ r.status = "approved" /\ \E t : ResolvedBy(tr, r.id) = {t} /\ t.decision = "allow"
     \/ r.status = "denied" /\ \E t : ResolvedBy(tr, r.id) = {t} /\ t.decision = "deny"

QueueSound(queue, tr, known) == \A i \in DOMAIN queue : RequestSound(queue[i], tr, known)

EntrySound(e, tr) ==
  /\ e.mode = "governed" =>
       \E t \in tr : /\ t.run = e.run /\ t.approval = e.approval /\ t.decision = "allow"
                     /\ t.simulated => e.approval # 0
  /\ e.mode # "governed" => e.approval = 0

MemorySound(memory, tr) ==
  \A i, j \in DOMAIN memory :
    /\ EntrySound(memory[i], tr)
    /\ memory[i].approval # 0 /\ memory[i].approval = memory[j].approval => i = j

ActiveSound(s, book) ==
  /\ s.active.version_id = 0 \/ s.active.version_id \in DOMAIN book
  /\ s.active.compiled = WorldOf(s.active.version_id, book)
  /\ s.history # <<>> => s.active.version_id = s.history[1].version_id

StateFields == {"mode", "simulation", "memory", "trace", "queue", "active", "history", "erased"}

ListsSound(s) ==
  /\ StateFields \subseteq DOMAIN s
  /\ IsSequence(s.memory) /\ IsSequence(s.trace) /\ IsSequence(s.queue)
  /\ IsSequence(s.history) /\ IsSequence(s.erased)

StateSound(s, known, book) ==
  /\ ListsSound(s)
  /\ ActiveSound(s, book)
  /\ TraceSound(Traced(s), known, book)
  /\ QueueSound(s.queue, Traced(s), known)
  /\ MemorySound(s.memory, Traced(s))

Kinds == {"onInstalled", "SET_MODE", "SET_SIMULATION_MODE", "CLEAR_TRACE", "APPLY_MANIFEST",
          "ROLLBACK_WORLD", "RESOLVE_APPROVAL", "RUN_ACTION"}

MessageSound(m, known, book) ==
  /\ {"kind", "arg", "id", "stage", "copy", "page"} \subseteq DOMAIN m
  /\ m.stage \in {"received", "read", "seen", "answered", "dropped"}
  /\ m.stage \in {"received", "read", "seen"} =>
       m.kind \in Kinds /\ (m.kind = "RESOLVE_APPROVAL" => m.arg \in {"approved", "denied"})
  /\ m.stage \in {"read", "seen"} => StateSound(m.copy, known, book)

BrowserInv ==
  /\ IsSequence(messages)
  /\ DOMAIN authored \subseteq Answered(messages)
  /\ \A n \in DOMAIN messages : MessageSound(messages[n], Answered(messages), authored)
  /\ StateSound(store, Answered(messages), authored)

\* What is known grows: numbers, and the manifests behind the versions.
Numbers(known) == known \subseteq Nat \ {0}

Extends(book, other) ==
  DOMAIN book \subseteq DOMAIN other /\ \A v \in DOMAIN book : other[v] = book[v]

-----------------------------------------------------------------------------
(* Lists. *)

LEMMA SequenceIs ==
  ASSUME NEW s, IsSequence(s)
  PROVE  Len(s) \in Nat /\ DOMAIN s = 1 .. Len(s) /\ s \in Seq(ToSet(s))
  BY LenProperties DEF IsSequence, ToSet

LEMMA MakesSequence ==
  ASSUME NEW S, NEW s \in Seq(S)
  PROVE  IsSequence(s)
<1>1. Len(s) \in Nat /\ DOMAIN s = 1 .. Len(s) /\ s = [i \in 1 .. Len(s) |-> s[i]]
  BY LenProperties
<1>2. s \in [1 .. Len(s) -> {s[i] : i \in DOMAIN s}]
  BY <1>1
<1>3. QED  BY <1>1, <1>2, SeqDef DEF IsSequence

LEMMA JoinIs ==
  ASSUME NEW s, IsSequence(s), NEW u, IsSequence(u)
  PROVE  /\ IsSequence(s \o u) /\ ToSet(s \o u) = ToSet(s) \cup ToSet(u)
         /\ Len(s \o u) = Len(s) + Len(u)
         /\ \A i \in 1 .. Len(s) : (s \o u)[i] = s[i]
         /\ \A i \in 1 .. Len(u) : (s \o u)[Len(s) + i] = u[i]
<1> DEFINE T == ToSet(s) \cup ToSet(u)
           j == s \o u
<1>1. s \in Seq(T) /\ u \in Seq(T) /\ Len(s) \in Nat /\ Len(u) \in Nat
      /\ DOMAIN s = 1 .. Len(s) /\ DOMAIN u = 1 .. Len(u)
  <2>1. s \in Seq(ToSet(s)) /\ u \in Seq(ToSet(u))
    BY SequenceIs
  <2>2. QED  BY <2>1, SequenceIs, SeqMonotonic
<1> HIDE DEF T
<1>2. /\ j \in Seq(T) /\ Len(j) = Len(s) + Len(u)
      /\ \A i \in 1 .. Len(s) : j[i] = s[i]
      /\ \A i \in 1 .. Len(j) : i > Len(s) => j[i] = u[i - Len(s)]
  BY <1>1, ConcatProperties
<1>3. DOMAIN j = 1 .. Len(j)
  BY <1>2, LenProperties
<1> HIDE DEF j
<1>4. \A i \in 1 .. Len(u) : j[Len(s) + i] = u[i]
  <2> TAKE i \in 1 .. Len(u)
  <2>1. Len(s) + i \in 1 .. Len(j) /\ Len(s) + i > Len(s) /\ (Len(s) + i) - Len(s) = i
    BY <1>1, <1>2
  <2>2. QED  BY <1>2, <2>1
<1>5. ToSet(j) = ToSet(s) \cup ToSet(u)
  <2>1. ASSUME NEW i \in DOMAIN j  PROVE j[i] \in ToSet(s) \cup ToSet(u)
    <3>1. CASE i \in 1 .. Len(s)
      BY <1>1, <1>2, <3>1 DEF ToSet
    <3>2. CASE i \notin 1 .. Len(s)
      <4>1. i > Len(s) /\ i - Len(s) \in DOMAIN u
        BY <1>1, <1>2, <1>3, <3>2
      <4>2. QED  BY <1>2, <1>3, <4>1 DEF ToSet
    <3>3. QED  BY <3>1, <3>2
  <2>2. ASSUME NEW i \in DOMAIN s  PROVE s[i] \in ToSet(j)
    BY <1>1, <1>2, <1>3 DEF ToSet
  <2>3. ASSUME NEW i \in DOMAIN u  PROVE u[i] \in ToSet(j)
    <3>1. Len(s) + i \in DOMAIN j
      BY <1>1, <1>2, <1>3
    <3>2. QED  BY <1>1, <1>4, <3>1 DEF ToSet
  <2>4. QED  BY <2>1, <2>2, <2>3 DEF ToSet
<1>6. QED  BY <1>2, <1>4, <1>5, MakesSequence DEF j

LEMMA UnshiftIs ==
  ASSUME NEW list, IsSequence(list), NEW e
  PROVE  /\ IsSequence(Unshift(list, e)) /\ ToSet(Unshift(list, e)) = ToSet(list) \cup {e}
         /\ Len(Unshift(list, e)) = Len(list) + 1
         /\ Unshift(list, e)[1] = e
         /\ \A i \in DOMAIN Unshift(list, e) :
              i = 1 \/ (i - 1 \in DOMAIN list /\ Unshift(list, e)[i] = list[i - 1])
<1> DEFINE u == Unshift(list, e)
           one == <<e>>
<1>1. one \in Seq({e}) /\ Len(one) = 1 /\ one[1] = e /\ ToSet(one) = {e}
  BY DEF ToSet
<1>2. IsSequence(one)
  BY <1>1, MakesSequence
<1>3. u = one \o list
  BY DEF Unshift
<1> HIDE DEF one, u
<1>4. Len(list) \in Nat /\ DOMAIN list = 1 .. Len(list)
  BY SequenceIs
<1>5. /\ IsSequence(u) /\ ToSet(u) = ToSet(list) \cup {e} /\ Len(u) = 1 + Len(list)
      /\ u[1] = e /\ \A i \in 1 .. Len(list) : u[1 + i] = list[i]
  <2>1. /\ IsSequence(one \o list) /\ ToSet(one \o list) = ToSet(one) \cup ToSet(list)
        /\ Len(one \o list) = Len(one) + Len(list)
        /\ \A i \in 1 .. Len(one) : (one \o list)[i] = one[i]
        /\ \A i \in 1 .. Len(list) : (one \o list)[Len(one) + i] = list[i]
    BY <1>2, JoinIs
  <2>2. QED  BY <1>1, <1>3, <2>1
<1>6. DOMAIN u = 1 .. Len(list) + 1
  BY <1>4, <1>5, SequenceIs
<1>7. ASSUME NEW i \in DOMAIN u, i # 1
      PROVE  i - 1 \in DOMAIN list /\ u[i] = list[i - 1]
  <2>1. i - 1 \in 1 .. Len(list) /\ 1 + (i - 1) = i
    BY <1>4, <1>6, <1>7
  <2>2. QED  BY <1>4, <1>5, <2>1
<1>8. QED  BY <1>4, <1>5, <1>7 DEF u

-----------------------------------------------------------------------------
(* One state, and what is added to it. *)

\* More may be known.
LEMMA Widened ==
  ASSUME NEW s, NEW known, NEW more, NEW book, NEW other,
         StateSound(s, known, book), known \subseteq more, Extends(book, other),
         Numbers(more), DOMAIN book \subseteq known
  PROVE  StateSound(s, more, other)
<1>1. \A v \in DOMAIN book \cup {0} : WorldOf(v, other) = WorldOf(v, book)
  BY DEF WorldOf, Extends
<1>2. ActiveSound(s, other)
  BY <1>1 DEF StateSound, ActiveSound, Extends
<1>3. \A t : Named(t, book) => Named(t, other)
  BY <1>1 DEF Named, Extends
<1>4. TraceSound(Traced(s), more, other)
  BY <1>3 DEF StateSound, TraceSound
<1>5. QueueSound(s.queue, Traced(s), more)
  BY DEF StateSound, QueueSound, RequestSound
<1>6. QED  BY <1>2, <1>4, <1>5 DEF StateSound

\* An entry of the trace leaves alone the requests it does not resolve.
LEMMA RequestStays ==
  ASSUME NEW r, NEW tr, NEW known, NEW more, RequestSound(r, tr, known), known \subseteq more,
         NEW t, t.approval # r.id
  PROVE  RequestSound(r, tr \cup {t}, more)
<1>1. ResolvedBy(tr \cup {t}, r.id) = ResolvedBy(tr, r.id)
  BY DEF ResolvedBy
<1>2. QED  BY <1>1 DEF RequestSound

LEMMA RequestResolved ==
  ASSUME NEW r, NEW tr, NEW known, NEW more, RequestSound(r, tr, known), known \subseteq more,
         ResolvedBy(tr, r.id) = {}, NEW t, t.approval = r.id, NEW status,
         \/ status = "approved" /\ t.decision = "allow"
         \/ status = "denied" /\ t.decision = "deny"
  PROVE  RequestSound([r EXCEPT !.status = status], tr \cup {t}, more)
<1> DEFINE new == [r EXCEPT !.status = status]
<1>1. "status" \in DOMAIN new /\ new.id = r.id /\ new.status = status
  BY DEF RequestSound
<1>2. ResolvedBy(tr \cup {t}, r.id) = {t}
  BY DEF ResolvedBy
<1>3. r.id \in more /\ \E a \in tr \cup {t} : a.run = r.id /\ a.decision = "ask"
  BY DEF RequestSound
<1> HIDE DEF new
<1>4. RequestSound(new, tr \cup {t}, more)
  BY <1>1, <1>2, <1>3 DEF RequestSound
<1>5. QED  BY <1>4 DEF new

LEMMA MemoryStays ==
  ASSUME NEW memory, NEW tr, NEW more, MemorySound(memory, tr), tr \subseteq more
  PROVE  MemorySound(memory, more)
  BY DEF MemorySound, EntrySound

LEMMA MemoryAdds ==
  ASSUME NEW memory, NEW tr, MemorySound(memory, tr), IsSequence(memory),
         NEW e, EntrySound(e, tr),
         \A i \in DOMAIN memory : e.approval # 0 => memory[i].approval # e.approval
  PROVE  MemorySound(Unshift(memory, e), tr)
<1> DEFINE new == Unshift(memory, e)
<1>1. /\ new[1] = e
      /\ \A i \in DOMAIN new : i = 1 \/ (i - 1 \in DOMAIN memory /\ new[i] = memory[i - 1])
      /\ IsSequence(new)
  BY UnshiftIs
<1> HIDE DEF new
<1>2. DOMAIN new \subseteq Nat
  BY <1>1, SequenceIs
<1>3. SUFFICES ASSUME NEW i \in DOMAIN new, NEW j \in DOMAIN new
      PROVE  /\ EntrySound(new[i], tr)
             /\ new[i].approval # 0 /\ new[i].approval = new[j].approval => i = j
  BY DEF MemorySound, new
<1>4. EntrySound(new[i], tr)
  BY <1>1 DEF MemorySound
<1>5. ASSUME new[i].approval # 0, new[i].approval = new[j].approval  PROVE i = j
  <2>1. CASE i = 1 /\ j = 1
    BY <2>1
  <2>2. CASE i = 1 /\ j # 1
    BY <1>1, <1>5, <2>2
  <2>3. CASE i # 1 /\ j = 1
    BY <1>1, <1>5, <2>3
  <2>4. CASE i # 1 /\ j # 1
    <3>1. i - 1 = j - 1
      BY <1>1, <1>5, <2>4 DEF MemorySound
    <3>2. QED  BY <1>2, <3>1
  <2>5. QED  BY <2>1, <2>2, <2>3, <2>4
<1>6. QED  BY <1>4, <1>5

LEMMA AddsMemory ==
  ASSUME NEW s, NEW known, NEW book, StateSound(s, known, book), NEW e, EntrySound(e, Traced(s)),
         \A i \in DOMAIN s.memory : e.approval # 0 => s.memory[i].approval # e.approval
  PROVE  StateSound([s EXCEPT !.memory = Unshift(@, e)], known, book)
<1> DEFINE m == Unshift(s.memory, e)
           new == [s EXCEPT !.memory = m]
<1>1. IsSequence(m) /\ MemorySound(m, Traced(s))
  BY UnshiftIs, MemoryAdds DEF StateSound, ListsSound
<1> HIDE DEF m
<1>2. /\ DOMAIN new = DOMAIN s /\ new.memory = m /\ new.trace = s.trace /\ new.queue = s.queue
      /\ new.active = s.active /\ new.history = s.history /\ new.erased = s.erased
  BY DEF StateSound, ListsSound, StateFields
<1> HIDE DEF new
<1>3. Traced(new) = Traced(s)
  BY <1>2 DEF Traced
<1>4. StateSound(new, known, book)
  BY <1>1, <1>2, <1>3 DEF StateSound, ListsSound, ActiveSound
<1>5. QED  BY <1>4 DEF new, m

LEMMA AddsRequest ==
  ASSUME NEW s, NEW known, NEW book, StateSound(s, known, book),
         NEW r, RequestSound(r, Traced(s), known)
  PROVE  StateSound([s EXCEPT !.queue = Append(@, r)], known, book)
<1> DEFINE q == Append(s.queue, r)
           new == [s EXCEPT !.queue = q]
<1>1. IsSequence(q) /\ QueueSound(q, Traced(s), known)
  BY AppendIs DEF StateSound, ListsSound, QueueSound
<1> HIDE DEF q
<1>2. /\ DOMAIN new = DOMAIN s /\ new.memory = s.memory /\ new.trace = s.trace /\ new.queue = q
      /\ new.active = s.active /\ new.history = s.history /\ new.erased = s.erased
  BY DEF StateSound, ListsSound, StateFields
<1> HIDE DEF new
<1>3. Traced(new) = Traced(s)
  BY <1>2 DEF Traced
<1>4. StateSound(new, known, book)
  BY <1>1, <1>2, <1>3 DEF StateSound, ListsSound, ActiveSound
<1>5. QED  BY <1>4 DEF new, q

\* A decision is traced under a number nobody knows yet.
LEMMA AddsTrace ==
  ASSUME NEW s, NEW known, NEW book, StateSound(s, known, book), NEW n, Numbers(known \cup {n}),
         NEW t, t.run = n, t.approval = 0, Named(t, book)
  PROVE  /\ StateSound([s EXCEPT !.trace = Unshift(@, t)], known \cup {n}, book)
         /\ Traced([s EXCEPT !.trace = Unshift(@, t)]) = Traced(s) \cup {t}
<1> DEFINE u == Unshift(s.trace, t)
           new == [s EXCEPT !.trace = u]
           more == known \cup {n}
<1>1. IsSequence(u) /\ ToSet(u) = ToSet(s.trace) \cup {t}
  BY UnshiftIs DEF StateSound, ListsSound
<1> HIDE DEF u
<1>2. /\ DOMAIN new = DOMAIN s /\ new.memory = s.memory /\ new.trace = u
      /\ new.queue = s.queue /\ new.active = s.active /\ new.history = s.history
      /\ new.erased = s.erased
  BY DEF StateSound, ListsSound, StateFields
<1> HIDE DEF new
<1>3. Traced(new) = Traced(s) \cup {t}
  BY <1>1, <1>2 DEF Traced
<1>4. TraceSound(Traced(new), more, book)
  BY <1>3 DEF StateSound, TraceSound
<1>5. QueueSound(new.queue, Traced(new), more)
  <2>1. ASSUME NEW i \in DOMAIN s.queue  PROVE RequestSound(s.queue[i], Traced(s) \cup {t}, more)
    <3>1. RequestSound(s.queue[i], Traced(s), known)
      BY DEF StateSound, QueueSound
    <3>2. s.queue[i].id # 0
      BY <3>1 DEF RequestSound, Numbers
    <3>3. known \subseteq more
      OBVIOUS
    <3> HIDE DEF more
    <3>4. QED  BY <3>1, <3>2, <3>3, RequestStays
  <2>2. QED  BY <1>2, <1>3, <2>1 DEF QueueSound
<1>6. MemorySound(new.memory, Traced(new))
  BY <1>2, <1>3, MemoryStays DEF StateSound
<1> HIDE DEF more
<1>7. StateSound(new, more, book)
  BY <1>1, <1>2, <1>4, <1>5, <1>6 DEF StateSound, ListsSound, ActiveSound
<1>8. QED  BY <1>3, <1>7 DEF new, more, u

\* Nothing in the trace resolves a pending request.
LEMMA PendingIs ==
  ASSUME NEW s, NEW known, NEW book, StateSound(s, known, book), NEW n, Numbers(known \cup {n}),
         NEW r \in PendingOnly(s.queue)
  PROVE  /\ RequestSound(r, Traced(s), known) /\ r.id \in known /\ r.id # 0
         /\ ResolvedBy(Traced(s), r.id) = {}
<1>1. RequestSound(r, Traced(s), known) /\ r.status = "pending"
  BY DEF PendingOnly, ToSet, StateSound, QueueSound
<1>2. QED  BY <1>1 DEF RequestSound, Numbers

\* A request is resolved, and the trace says so.
LEMMA Resolves ==
  ASSUME NEW s, NEW known, NEW book, StateSound(s, known, book), NEW n, Numbers(known \cup {n}),
         NEW r \in PendingOnly(s.queue), NEW t, t.run = n, t.approval = r.id, NEW status,
         \/ status = "approved" /\ t.decision = "allow"
         \/ status = "denied" /\ t.decision = "deny",
         NEW new, new = [s EXCEPT !.queue = ResolveRequest(@, r.id, status),
                                  !.trace = Unshift(@, t)]
  PROVE  StateSound(new, known \cup {n}, book)
<1> DEFINE u == Unshift(s.trace, t)
           q == ResolveRequest(s.queue, r.id, status)
           more == known \cup {n}
<1>1. IsSequence(u) /\ ToSet(u) = ToSet(s.trace) \cup {t}
  BY UnshiftIs DEF StateSound, ListsSound
<1>2. /\ DOMAIN new = DOMAIN s /\ new.memory = s.memory /\ new.trace = u
      /\ new.queue = q /\ new.active = s.active /\ new.history = s.history
      /\ new.erased = s.erased
  BY DEF StateSound, ListsSound, StateFields
<1> HIDE DEF u
<1>3. Traced(new) = Traced(s) \cup {t}
  BY <1>1, <1>2 DEF Traced
<1>4. r.id \in known /\ r.id # 0 /\ ResolvedBy(Traced(s), r.id) = {}
  BY PendingIs
<1>5. TraceSound(Traced(new), more, book)
  BY <1>3, <1>4 DEF StateSound, TraceSound
<1>6. /\ DOMAIN q = DOMAIN s.queue
      /\ \A i \in DOMAIN s.queue :
           q[i] = IF s.queue[i].id = r.id THEN [s.queue[i] EXCEPT !.status = status] ELSE s.queue[i]
  BY DEF ResolveRequest
<1>7. IsSequence(q)
  <2>1. Len(s.queue) \in Nat /\ DOMAIN s.queue = 1 .. Len(s.queue)
    BY SequenceIs DEF StateSound, ListsSound
  <2>2. q = [i \in 1 .. Len(s.queue) |-> q[i]]
    BY <2>1 DEF ResolveRequest
  <2> HIDE DEF q
  <2>3. q \in [1 .. Len(s.queue) -> ToSet(q)]
    BY <1>6, <2>1, <2>2 DEF ToSet
  <2>4. q \in Seq(ToSet(q))
    BY <2>1, <2>3, SeqDef
  <2>5. QED  BY <2>4, MakesSequence
<1> HIDE DEF q
<1>8. QueueSound(q, Traced(s) \cup {t}, more)
  <2>1. SUFFICES ASSUME NEW i \in DOMAIN s.queue
                 PROVE  RequestSound(q[i], Traced(s) \cup {t}, more)
    BY <1>6 DEF QueueSound
  <2>2. RequestSound(s.queue[i], Traced(s), known) /\ known \subseteq more
    BY DEF StateSound, QueueSound
  <2> HIDE DEF more
  <2>3. CASE s.queue[i].id = r.id
    <3>1. RequestSound([s.queue[i] EXCEPT !.status = status], Traced(s) \cup {t}, more)
      BY <1>4, <2>2, <2>3, RequestResolved
    <3>2. QED  BY <1>6, <2>3, <3>1
  <2>4. CASE s.queue[i].id # r.id
    <3>1. RequestSound(s.queue[i], Traced(s) \cup {t}, more)
      BY <2>2, <2>4, RequestStays
    <3>2. QED  BY <1>6, <2>4, <3>1
  <2>5. QED  BY <2>3, <2>4
<1>9. MemorySound(new.memory, Traced(new))
  BY <1>2, <1>3, MemoryStays DEF StateSound
<1> HIDE DEF more
<1>10. StateSound(new, more, book)
  BY <1>1, <1>2, <1>3, <1>5, <1>7, <1>8, <1>9 DEF StateSound, ListsSound, ActiveSound
<1>11. QED  BY <1>10 DEF more

-----------------------------------------------------------------------------
(* What the messages do to a copy.  n is the number of the message, which the copy *)
(* does not know.                                                                  *)

\* The copy, what it knows and the number that is new to it.
Fresh(s, known, book, n) ==
  /\ StateSound(s, known, book)
  /\ Numbers(known \cup {n}) /\ n \notin known
  /\ DOMAIN book \subseteq known

\* What is put back is as sound, and its world is still the one of the copy.
PutSound(new, s, known, book, n) ==
  StateSound(new, known \cup {n}, book) /\ new.active = s.active

LEMMA EntryIs ==
  ASSUME NEW run, NEW intent, NEW decision, NEW simulated, NEW approval, NEW version, NEW hidden,
         NEW t, t = TraceEntry(run, intent, decision, simulated, approval, version, hidden)
  PROVE  /\ t.run = run /\ t.intent = intent /\ t.decision = decision
         /\ t.simulated = simulated /\ t.approval = approval /\ t.version = version
         /\ t.hidden = hidden
  BY DEF TraceEntry

\* The numbers that are known include the new one: a state that is sound stays so.
LEMMA StillSound ==
  ASSUME NEW s, NEW known, NEW book, NEW n, Fresh(s, known, book, n)
  PROVE  StateSound(s, known \cup {n}, book)
<1>1. Extends(book, book)
  BY DEF Extends
<1>2. QED  BY <1>1, Widened DEF Fresh

LEMMA SetsSound ==
  ASSUME NEW s, NEW known, NEW book, NEW n, Fresh(s, known, book, n), NEW v
  PROVE  /\ PutSound([s EXCEPT !.mode = v], s, known, book, n)
         /\ PutSound([s EXCEPT !.simulation = v], s, known, book, n)
<1>1. ASSUME NEW new, new = [s EXCEPT !.mode = v] \/ new = [s EXCEPT !.simulation = v]
      PROVE  PutSound(new, s, known, book, n)
  <2>1. StateSound(s, known \cup {n}, book)
    BY StillSound
  <2>2. /\ DOMAIN new = DOMAIN s /\ new.memory = s.memory /\ new.trace = s.trace
        /\ new.queue = s.queue /\ new.active = s.active /\ new.history = s.history
        /\ new.erased = s.erased
    BY <1>1, <2>1 DEF StateSound, ListsSound, StateFields
  <2>3. Traced(new) = Traced(s)
    BY <2>2 DEF Traced
  <2>4. QED  BY <2>1, <2>2, <2>3 DEF PutSound, StateSound, ListsSound, ActiveSound
<1>2. QED  BY <1>1

LEMMA ClearSound ==
  ASSUME NEW s, NEW known, NEW book, NEW n, Fresh(s, known, book, n)
  PROVE  PutSound([s EXCEPT !.trace = <<>>, !.erased = @ \o s.trace], s, known, book, n)
<1> DEFINE all == s.erased \o s.trace
           new == [s EXCEPT !.trace = <<>>, !.erased = all]
<1>1. StateSound(s, known \cup {n}, book)
  BY StillSound
<1>2. IsSequence(all) /\ ToSet(all) = ToSet(s.erased) \cup ToSet(s.trace)
  BY <1>1, JoinIs DEF StateSound, ListsSound
<1>3. IsSequence(<<>>) /\ ToSet(<<>>) = {}
  BY DEF IsSequence, ToSet
<1> HIDE DEF all
<1>4. /\ DOMAIN new = DOMAIN s /\ new.memory = s.memory /\ new.trace = <<>>
      /\ new.queue = s.queue /\ new.active = s.active /\ new.history = s.history
      /\ new.erased = all
  BY <1>1 DEF StateSound, ListsSound, StateFields
<1> HIDE DEF new
<1>5. Traced(new) = Traced(s)
  BY <1>2, <1>3, <1>4 DEF Traced
<1>6. PutSound(new, s, known, book, n)
  BY <1>1, <1>2, <1>3, <1>4, <1>5 DEF PutSound, StateSound, ListsSound, ActiveSound
<1>7. QED  BY <1>6 DEF new, all

LEMMA NaiveSound ==
  ASSUME NEW s, NEW known, NEW book, NEW n, Fresh(s, known, book, n), NEW intent
  PROVE  PutSound(RunNaive(s, n, intent), s, known, book, n)
<1>1. StateSound(s, known \cup {n}, book)
  BY StillSound
<1>2. CASE intent = "save_memory"
  <2> DEFINE e == MemoryEntry(n, "naive", NoApproval)
             new == [s EXCEPT !.memory = Unshift(@, e)]
  <2>1. e.mode = "naive" /\ e.approval = 0
    BY DEF MemoryEntry, NoApproval
  <2>2. RunNaive(s, n, intent) = new
    BY <1>2 DEF RunNaive
  <2> HIDE DEF e
  <2>3. EntrySound(e, Traced(s))
    BY <2>1 DEF EntrySound
  <2>4. StateSound(new, known \cup {n}, book)
    BY <1>1, <2>1, <2>3, AddsMemory
  <2>5. new.active = s.active
    BY <1>1 DEF StateSound, ListsSound, StateFields
  <2>6. QED  BY <2>2, <2>4, <2>5 DEF PutSound
<1>3. CASE intent # "save_memory"
  BY <1>1, <1>3 DEF RunNaive, PutSound
<1>4. QED  BY <1>2, <1>3

LEMMA GovernedSound ==
  ASSUME NEW s, NEW known, NEW book, NEW n, Fresh(s, known, book, n), NEW intent, NEW page
  PROVE  PutSound(RunGoverned(s, n, intent, page), s, known, book, n)
<1> DEFINE ruling == EvaluatePolicy(s.active.compiled, Ingest(page), intent)
           decision == ApplySimulationGuard(ruling.decision, s.simulation)
           t == TraceEntry(n, intent, decision, decision # ruling.decision, NoApproval,
                           s.active.version_id, page.hidden)
           traced == [s EXCEPT !.trace = Unshift(@, t)]
           more == known \cup {n}
           request == [id |-> n, intent |-> intent, url |-> page.url, hidden |-> page.hidden,
                       status |-> "pending"]
           e == MemoryEntry(n, "governed", NoApproval)
           asked == [traced EXCEPT !.queue = Append(@, request)]
           saved == [traced EXCEPT !.memory = Unshift(@, e)]
<1>1. /\ t.run = n /\ t.intent = intent /\ t.decision = decision
      /\ t.simulated = (decision # ruling.decision) /\ t.approval = 0
      /\ t.version = s.active.version_id /\ t.hidden = page.hidden
  BY EntryIs DEF NoApproval
<1>2. \/ RunGoverned(s, n, intent, page) = traced
      \/ decision = "ask" /\ RunGoverned(s, n, intent, page) = asked
      \/ decision = "allow" /\ RunGoverned(s, n, intent, page) = saved
  BY DEF RunGoverned
<1>3. IF decision # ruling.decision THEN ruling.decision = "allow" /\ decision = "simulate"
      ELSE decision = ruling.decision
  BY DEF ApplySimulationGuard
<1>4. /\ ActiveSound(s, book) /\ StateFields \subseteq DOMAIN s
      /\ StateSound(s, known, book) /\ Numbers(more)
  BY DEF Fresh, StateSound, ListsSound
<1>5. Ingest([hidden |-> t.hidden]) = Ingest(page)
  BY <1>1 DEF Ingest
<1>6. ruling = EvaluatePolicy(WorldOf(t.version, book), Ingest([hidden |-> t.hidden]), t.intent)
  BY <1>1, <1>4, <1>5 DEF ActiveSound
<1>7. t.version = 0 \/ t.version \in DOMAIN book
  BY <1>1, <1>4 DEF ActiveSound
<1> HIDE DEF ruling, decision, t
<1>8. Named(t, book)
  BY <1>1, <1>3, <1>6, <1>7 DEF Named
<1>9. StateSound(traced, more, book) /\ Traced(traced) = Traced(s) \cup {t}
  <2>1. t.run = n /\ t.approval = 0
    BY <1>1
  <2>2. QED  BY <1>4, <1>8, <2>1, AddsTrace
<1>10. traced.active = s.active /\ StateFields \subseteq DOMAIN traced
  BY <1>4 DEF StateFields
<1> HIDE DEF traced
<1>11. ASSUME decision = "ask"  PROVE PutSound(asked, s, known, book, n)
  <2>1. request.id = n /\ request.status = "pending" /\ "status" \in DOMAIN request
    OBVIOUS
  <2> HIDE DEF request
  <2>2. n \notin known /\ n # 0
    BY DEF Fresh, Numbers
  <2>3. ResolvedBy(Traced(s) \cup {t}, n) = {}
    BY <1>1, <1>4, <2>2 DEF ResolvedBy, StateSound, TraceSound
  <2>4. RequestSound(request, Traced(traced), more)
    BY <1>1, <1>9, <1>11, <2>1, <2>3 DEF RequestSound
  <2>5. StateSound(asked, more, book)
    BY <1>9, <2>4, AddsRequest
  <2>6. asked.active = s.active
    BY <1>10 DEF StateFields
  <2>7. QED  BY <2>5, <2>6 DEF PutSound
<1>12. ASSUME decision = "allow"  PROVE PutSound(saved, s, known, book, n)
  <2>1. e.mode = "governed" /\ e.approval = 0 /\ e.run = n
    BY DEF MemoryEntry, NoApproval
  <2> HIDE DEF e
  <2>2. ~t.simulated
    BY <1>1, <1>3, <1>12
  <2>3. EntrySound(e, Traced(traced))
    BY <1>1, <1>9, <1>12, <2>1, <2>2 DEF EntrySound
  <2>4. StateSound(saved, more, book)
    BY <1>9, <2>1, <2>3, AddsMemory
  <2>5. saved.active = s.active
    BY <1>10 DEF StateFields
  <2>6. QED  BY <2>4, <2>5 DEF PutSound
<1>13. PutSound(traced, s, known, book, n)
  BY <1>9, <1>10 DEF PutSound
<1> HIDE DEF asked, saved
<1>14. QED  BY <1>2, <1>11, <1>12, <1>13

LEMMA DenySound ==
  ASSUME NEW s, NEW known, NEW book, NEW n, Fresh(s, known, book, n),
         NEW r \in PendingOnly(s.queue)
  PROVE  PutSound(DenyRequest(s, n, r), s, known, book, n)
<1> DEFINE t == TraceEntry(n, r.intent, "deny", FALSE, r.id, 0, r.hidden)
           new == DenyRequest(s, n, r)
<1>1. t.run = n /\ t.approval = r.id /\ t.decision = "deny"
  BY DEF TraceEntry
<1>2. new = [s EXCEPT !.queue = ResolveRequest(@, r.id, "denied"), !.trace = Unshift(@, t)]
  BY DEF DenyRequest
<1>3. StateSound(s, known, book) /\ Numbers(known \cup {n})
  BY DEF Fresh
<1>4. new.active = s.active
  BY <1>2, <1>3 DEF StateSound, ListsSound, StateFields
<1> HIDE DEF t, new
<1>5. StateSound(new, known \cup {n}, book)
  BY <1>1, <1>2, <1>3, Resolves
<1>6. QED  BY <1>4, <1>5 DEF PutSound, new

LEMMA ApproveSound ==
  ASSUME NEW s, NEW known, NEW book, NEW n, Fresh(s, known, book, n),
         NEW r \in PendingOnly(s.queue), NEW page
  PROVE  PutSound(ApproveRequest(s, n, r, page), s, known, book, n)
<1> DEFINE t == TraceEntry(n, r.intent, "allow", s.simulation, r.id, s.active.version_id,
                           page.hidden)
           traced == [s EXCEPT !.queue = ResolveRequest(@, r.id, "approved"),
                               !.trace = Unshift(@, t)]
           e == MemoryEntry(n, "governed", r.id)
           saved == [traced EXCEPT !.memory = Unshift(@, e)]
           new == ApproveRequest(s, n, r, page)
<1>1. t.run = n /\ t.approval = r.id /\ t.decision = "allow"
  BY EntryIs
<1>2. new = traced \/ new = saved
  BY DEF ApproveRequest
<1>3. StateSound(s, known, book) /\ Numbers(known \cup {n})
  BY DEF Fresh
<1>4. traced.active = s.active /\ StateFields \subseteq DOMAIN traced
  BY <1>3 DEF StateSound, ListsSound, StateFields
<1>5. e.mode = "governed" /\ e.approval = r.id /\ e.run = n
  BY DEF MemoryEntry
<1> HIDE DEF t, e, new
<1>6. /\ StateSound(traced, known \cup {n}, book)
      /\ Traced(traced) = Traced(s) \cup {t} /\ traced.memory = s.memory
      /\ r.id # 0 /\ ResolvedBy(Traced(s), r.id) = {}
  <2>1. traced = [s EXCEPT !.queue = ResolveRequest(@, r.id, "approved"), !.trace = Unshift(@, t)]
    BY DEF traced
  <2> HIDE DEF traced
  <2>2. StateSound(traced, known \cup {n}, book)
    BY <1>1, <1>3, <2>1, Resolves
  <2>3. Traced(traced) = Traced(s) \cup {t} /\ traced.memory = s.memory
    <3>1. IsSequence(s.trace) /\ StateFields \subseteq DOMAIN s
      BY <1>3 DEF StateSound, ListsSound
    <3>2. /\ traced.trace = Unshift(s.trace, t) /\ traced.erased = s.erased
          /\ traced.memory = s.memory
      BY <2>1, <3>1 DEF StateFields
    <3>3. ToSet(Unshift(s.trace, t)) = ToSet(s.trace) \cup {t}
      BY <3>1, UnshiftIs
    <3>4. QED  BY <3>2, <3>3 DEF Traced
  <2>4. r.id # 0 /\ ResolvedBy(Traced(s), r.id) = {}
    BY <1>3, PendingIs
  <2>5. QED  BY <2>2, <2>3, <2>4
<1> HIDE DEF traced
<1>7. EntrySound(e, Traced(traced))
  BY <1>1, <1>5, <1>6 DEF EntrySound
<1>8. \A i \in DOMAIN traced.memory : traced.memory[i].approval # e.approval
  <2>1. SUFFICES ASSUME NEW i \in DOMAIN s.memory, s.memory[i].approval = r.id  PROVE FALSE
    BY <1>5, <1>6
  <2>2. EntrySound(s.memory[i], Traced(s))
    BY <1>3 DEF StateSound, MemorySound
  <2>3. PICK a \in Traced(s) : a.approval = r.id
    BY <1>6, <2>1, <2>2 DEF EntrySound
  <2>4. QED  BY <1>6, <2>3 DEF ResolvedBy
<1>9. StateSound(saved, known \cup {n}, book)
  BY <1>6, <1>7, <1>8, AddsMemory
<1>10. saved.active = s.active
  BY <1>4 DEF StateFields
<1>11. PutSound(saved, s, known, book, n) /\ PutSound(traced, s, known, book, n)
  BY <1>4, <1>6, <1>9, <1>10 DEF PutSound
<1> HIDE DEF saved
<1>12. QED  BY <1>2, <1>11 DEF new

\* The manifests behind the versions, with another one.
WithVersion(book, n, manifest) ==
  [v \in DOMAIN book \cup {n} |-> IF v = n THEN manifest ELSE book[v]]

LEMMA WithVersionIs ==
  ASSUME NEW book, NEW n, n \notin DOMAIN book, NEW manifest
  PROVE  /\ DOMAIN WithVersion(book, n, manifest) = DOMAIN book \cup {n}
         /\ WithVersion(book, n, manifest)[n] = manifest
         /\ Extends(book, WithVersion(book, n, manifest))
  BY DEF WithVersion, Extends

\* A world that is applied is the newest of the history.
LEMMA AppliedSound ==
  ASSUME NEW s, NEW known, NEW book, NEW n, Fresh(s, known, book, n), NEW manifest,
         NEW new \in ApplyNewWorld(s, n, manifest)
  PROVE  /\ StateSound(new, known \cup {n}, WithVersion(book, n, manifest))
         /\ new.active.version_id = n /\ new.active.source = manifest
<1> DEFINE other == WithVersion(book, n, manifest)
           record == [version_id |-> n, source |-> manifest]
           history == Unshift(s.history, record)
           kept == Min({Len(history), HistoryCap})
           cut == SubSeq(history, 1, kept)
           active == [version_id |-> n, source |-> manifest,
                      compiled |-> ThroughStorage(CompileManifest(ParseManifest(manifest)))]
<1>1. new = [s EXCEPT !.active = active, !.history = cut]
  BY DEF ApplyNewWorld
<1>2. /\ StateSound(s, known, book) /\ Numbers(known \cup {n}) /\ n # 0
      /\ DOMAIN book \subseteq known /\ n \notin DOMAIN book
  BY DEF Fresh, Numbers
<1>3. Extends(book, other) /\ DOMAIN other = DOMAIN book \cup {n} /\ other[n] = manifest
  <2>1. n \notin DOMAIN book
    BY <1>2
  <2>2. other = [v \in DOMAIN book \cup {n} |-> IF v = n THEN manifest ELSE book[v]]
    BY DEF WithVersion
  <2> HIDE DEF other
  <2>3. QED  BY <2>1, <2>2 DEF Extends
<1> HIDE DEF other
<1>4. StateSound(s, known \cup {n}, other)
  BY <1>2, <1>3, Widened
<1>5. IsSequence(history) /\ history[1] = record /\ Len(history) \in Nat \ {0}
  <2>1. IsSequence(s.history)
    BY <1>2 DEF StateSound, ListsSound
  <2>2. Len(s.history) \in Nat
    BY <2>1, SequenceIs
  <2>3. QED  BY <2>1, <2>2, UnshiftIs
<1> HIDE DEF history
<1>6. kept \in Nat /\ kept <= Len(history)
  <2>1. CASE Len(history) <= HistoryCap
    <3>1. \A x \in {Len(history), HistoryCap} : Len(history) <= x
      BY <1>5, <2>1
    <3>2. QED  BY <1>5, <3>1, LeastIsLeast, HistoryAssumption DEF Min
  <2>2. CASE ~(Len(history) <= HistoryCap)
    <3>1. \A x \in {Len(history), HistoryCap} : HistoryCap <= x
      BY <1>5, <2>2, HistoryAssumption
    <3>2. QED  BY <1>5, <2>2, <3>1, LeastIsLeast, HistoryAssumption DEF Min
  <2>3. QED  BY <2>1, <2>2
<1> HIDE DEF kept
<1>7. IsSequence(cut) /\ (cut # <<>> => cut[1] = record)
  <2>1. history \in Seq(ToSet(history))
    BY <1>5, SequenceIs
  <2>2. /\ cut \in Seq(ToSet(history))
        /\ Len(cut) = kept
        /\ \A i \in 1 .. kept : cut[i] = history[i]
    BY <1>5, <1>6, <2>1, SubSeqProperties
  <2>3. cut # <<>> => kept >= 1
    BY <1>6, <2>2, EmptySeq
  <2> HIDE DEF cut
  <2>4. cut # <<>> => cut[1] = history[1]
    BY <1>6, <2>2, <2>3
  <2>5. IsSequence(cut)
    BY <2>2, MakesSequence
  <2>6. QED  BY <1>5, <2>4, <2>5
<1>8. record.version_id = n
  OBVIOUS
<1>9. active.version_id = n /\ active.source = manifest /\ active.compiled = WorldOf(n, other)
  BY <1>2, <1>3 DEF WorldOf
<1> HIDE DEF cut, active, record
<1>10. /\ DOMAIN new = DOMAIN s /\ new.memory = s.memory /\ new.trace = s.trace
       /\ new.queue = s.queue /\ new.active = active /\ new.history = cut
       /\ new.erased = s.erased
  BY <1>1, <1>2 DEF StateSound, ListsSound, StateFields
<1>11. Traced(new) = Traced(s)
  BY <1>10 DEF Traced
<1>12. ActiveSound(new, other)
  BY <1>3, <1>7, <1>8, <1>9, <1>10 DEF ActiveSound
<1>13. QED
  BY <1>4, <1>7, <1>9, <1>10, <1>11, <1>12 DEF StateSound, ListsSound, other

-----------------------------------------------------------------------------
(* The handlers. *)

LEMMA PutBackIs ==
  ASSUME NEW known, NEW book, NEW n, MessageSound(messages[n], known, book),
         messages[n].stage \in {"read", "seen"}, Fresh(messages[n].copy, known, book, n),
         NEW state \in PutBack(n)
  PROVE  \/ PutSound(state, messages[n].copy, known, book, n)
         \/ \E manifest : state \in ApplyNewWorld(messages[n].copy, n, manifest)
<1> DEFINE m == messages[n]
           s == m.copy
<1>1. m.kind \in Kinds /\ (m.kind = "RESOLVE_APPROVAL" => m.arg \in {"approved", "denied"})
  BY DEF MessageSound
<1>2. Fresh(s, known, book, n) /\ state \in PutBack(n)
  OBVIOUS
<1>3. CASE m.kind = "onInstalled"
  <2>1. state \in ApplyNewWorld(s, n, BalancedWorld)
    BY <1>3 DEF PutBack
  <2>2. QED  BY <2>1
<1>4. CASE m.kind = "APPLY_MANIFEST"
  <2>1. state \in ApplyNewWorld(s, n, m.arg)
    BY <1>4 DEF PutBack
  <2>2. QED  BY <2>1
<1>5. CASE m.kind = "ROLLBACK_WORLD"
  <2>1. \E v \in ToSet(s.history) : state \in ApplyNewWorld(s, n, v.source)
    BY <1>5 DEF PutBack
  <2>2. QED  BY <2>1
<1>6. CASE m.kind = "SET_MODE"
  <2>1. state = [s EXCEPT !.mode = m.arg]
    BY <1>6 DEF PutBack
  <2> HIDE DEF s, m
  <2>2. QED  BY <1>2, <2>1, SetsSound DEF s, m
<1>7. CASE m.kind = "SET_SIMULATION_MODE"
  <2>1. state = [s EXCEPT !.simulation = m.arg]
    BY <1>7 DEF PutBack
  <2>2. QED  BY <1>2, <2>1, SetsSound
<1>8. CASE m.kind = "CLEAR_TRACE"
  <2>1. state = [s EXCEPT !.trace = <<>>, !.erased = @ \o s.trace]
    BY <1>8 DEF PutBack
  <2>2. QED  BY <1>2, <2>1, ClearSound
<1>9. CASE m.kind = "RESOLVE_APPROVAL" /\ m.arg = "denied"
  <2>1. PICK r \in Requested(m) : state = DenyRequest(s, n, r)
    BY <1>9 DEF PutBack
  <2>2. r \in PendingOnly(s.queue)
    BY DEF Requested
  <2>3. QED  BY <1>2, <2>1, <2>2, DenySound
<1>10. CASE m.kind = "RESOLVE_APPROVAL" /\ m.arg = "approved"
  <2>1. PICK r \in Requested(m) : state = ResolveApproval(s, n, r, m.page)
    BY <1>10 DEF PutBack
  <2>2. r \in PendingOnly(s.queue)
    BY DEF Requested
  <2>3. state = DenyRequest(s, n, r) \/ state = ApproveRequest(s, n, r, m.page)
    BY <2>1 DEF ResolveApproval
  <2>4. QED  BY <1>2, <2>2, <2>3, DenySound, ApproveSound
<1>11. CASE m.kind = "RUN_ACTION"
  <2>1. state = RunAction(s, n, m.arg, m.page)
    BY <1>11 DEF PutBack
  <2>2. state = RunNaive(s, n, m.arg) \/ state = RunGoverned(s, n, m.arg, m.page)
    BY <2>1 DEF RunAction
  <2>3. QED  BY <1>2, <2>2, NaiveSound, GovernedSound
<1>12. QED
  BY <1>1, <1>3, <1>4, <1>5, <1>6, <1>7, <1>8, <1>9, <1>10, <1>11 DEF Kinds

\* The manifests behind the versions once the state is put back.
AuthoredBy(state, n) ==
  IF state.active.version_id = n THEN WithVersion(authored, n, state.active.source) ELSE authored

LEMMA PutIsSound ==
  ASSUME NEW known, NEW n, MessageSound(messages[n], known, authored),
         messages[n].stage \in {"read", "seen"}, Fresh(messages[n].copy, known, authored, n),
         NEW state \in PutBack(n)
  PROVE  /\ StateSound(state, known \cup {n}, AuthoredBy(state, n))
         /\ Extends(authored, AuthoredBy(state, n))
         /\ DOMAIN AuthoredBy(state, n) \subseteq known \cup {n}
<1> DEFINE s == messages[n].copy
           book == AuthoredBy(state, n)
<1>1. StateSound(s, known, authored) /\ DOMAIN authored \subseteq known /\ n \notin known /\ n # 0
  BY DEF Fresh, Numbers
<1>2. CASE PutSound(state, s, known, authored, n)
  <2>1. s.active.version_id = 0 \/ s.active.version_id \in DOMAIN authored
    BY <1>1 DEF StateSound, ActiveSound
  <2>2. state.active.version_id # n
    BY <1>1, <1>2, <2>1 DEF PutSound
  <2>3. book = authored
    BY <2>2 DEF AuthoredBy
  <2>4. Extends(authored, authored)
    BY DEF Extends
  <2>5. QED  BY <1>1, <1>2, <2>3, <2>4 DEF PutSound
<1>3. ASSUME NEW manifest, state \in ApplyNewWorld(s, n, manifest)
      PROVE  /\ StateSound(state, known \cup {n}, book)
             /\ Extends(authored, book) /\ DOMAIN book \subseteq known \cup {n}
  <2>1. Fresh(s, known, authored, n)
    OBVIOUS
  <2> HIDE DEF s
  <2>2. /\ StateSound(state, known \cup {n}, WithVersion(authored, n, manifest))
        /\ state.active.version_id = n /\ state.active.source = manifest
    BY <1>3, <2>1, AppliedSound
  <2>3. book = WithVersion(authored, n, manifest)
    BY <2>2 DEF AuthoredBy
  <2>4. Extends(authored, book) /\ DOMAIN book = DOMAIN authored \cup {n}
    <3> HIDE DEF book
    <3>1. n \notin DOMAIN authored
      BY <1>1
    <3>2. QED  BY <2>3, <3>1, WithVersionIs
  <2> HIDE DEF book
  <2>5. QED  BY <1>1, <2>2, <2>3, <2>4
<1>4. QED  BY <1>2, <1>3, PutBackIs

\* A handler that has answered is known by its number.
LEMMA AnsweredSafe ==
  ASSUME BrowserInv, NEW n \in DOMAIN messages, messages[n].stage \in {"received", "read", "seen"},
         messages' = [messages EXCEPT ![n] = Ended("answered")],
         Extends(authored, authored'), DOMAIN authored' \subseteq Answered(messages) \cup {n},
         StateSound(store', Answered(messages) \cup {n}, authored')
  PROVE  BrowserInv'
<1> DEFINE known == Answered(messages)
           more == known \cup {n}
           ended == Ended("answered")
<1>1. /\ {"kind", "arg", "id", "stage", "copy", "page"} \subseteq DOMAIN ended
      /\ ended.stage = "answered"
  BY DEF Ended, Message
<1> HIDE DEF ended
<1>2. messages' = [messages EXCEPT ![n] = ended] /\ IsSequence(messages)
  BY DEF ended, BrowserInv
<1>3. IsSequence([messages EXCEPT ![n] = ended])
  BY <1>2, ExceptIs
<1>4. Answered(messages') = more
  BY <1>1, <1>2 DEF Answered
<1>5. Numbers(more)
  BY <1>2, SequenceIs DEF Answered, Numbers
<1>6. DOMAIN authored \subseteq known
  BY DEF BrowserInv
<1> HIDE DEF known
<1>7. ASSUME NEW k \in DOMAIN messages'  PROVE MessageSound(messages'[k], more, authored')
  <2>1. CASE k = n
    BY <1>1, <1>2, <2>1 DEF MessageSound
  <2>2. CASE k # n
    <3>1. MessageSound(messages[k], known, authored) /\ messages'[k] = messages[k]
      BY <1>2, <1>7, <2>2 DEF BrowserInv, known
    <3>2. ASSUME StateSound(messages[k].copy, known, authored)
          PROVE  StateSound(messages[k].copy, more, authored')
      BY <1>5, <1>6, <3>2, Widened
    <3> HIDE DEF more
    <3>3. QED  BY <3>1, <3>2 DEF MessageSound
  <2>3. QED  BY <2>1, <2>2
<1>8. DOMAIN authored' \subseteq more /\ StateSound(store', more, authored')
  BY DEF known
<1> HIDE DEF more
<1>9. IsSequence(messages')
  BY <1>2, <1>3
<1>10. QED  BY <1>4, <1>7, <1>8, <1>9 DEF BrowserInv

LEMMA RespondSafe ==
  ASSUME BrowserInv, NEW n \in DOMAIN messages, Respond(n)
  PROVE  BrowserInv'
<1> DEFINE known == Answered(messages)
<1>1. /\ messages[n].stage \in {"read", "seen"}
      /\ messages' = [messages EXCEPT ![n] = Ended("answered")]
  BY DEF Respond, WriteAndAnswer
<1>2. MessageSound(messages[n], known, authored) /\ StateSound(messages[n].copy, known, authored)
  BY <1>1 DEF BrowserInv, MessageSound
<1>3. Numbers(known \cup {n}) /\ n \notin known /\ DOMAIN authored \subseteq known
  <2>1. DOMAIN messages \subseteq Nat \ {0}
    BY SequenceIs DEF BrowserInv
  <2>2. QED  BY <1>1, <2>1 DEF Answered, Numbers, BrowserInv
<1> HIDE DEF known
<1>4. Fresh(messages[n].copy, known, authored, n)
  BY <1>2, <1>3 DEF Fresh
<1>5. CASE UNCHANGED <<store, authored>>
  <2>1. StateSound(store, known, authored)
    BY DEF BrowserInv, known
  <2>2. Fresh(store, known, authored, n)
    BY <1>3, <2>1 DEF Fresh
  <2>3. StateSound(store, known \cup {n}, authored)
    BY <2>2, StillSound
  <2>4. Extends(authored, authored') /\ DOMAIN authored' \subseteq known \cup {n}
    BY <1>3, <1>5 DEF Extends
  <2>5. QED  BY <1>1, <1>5, <2>3, <2>4, AnsweredSafe DEF known
<1>6. ASSUME NEW state \in PutBack(n), store' = state, authored' = AuthoredBy(state, n)
      PROVE  BrowserInv'
  <2>1. /\ StateSound(state, known \cup {n}, AuthoredBy(state, n))
        /\ Extends(authored, AuthoredBy(state, n))
        /\ DOMAIN AuthoredBy(state, n) \subseteq known \cup {n}
    BY <1>1, <1>2, <1>4, PutIsSound
  <2>2. /\ StateSound(store', known \cup {n}, authored')
        /\ Extends(authored, authored') /\ DOMAIN authored' \subseteq known \cup {n}
    BY <1>6, <2>1
  <2>3. QED  BY <1>1, <2>2, AnsweredSafe DEF known
<1>7. QED  BY <1>5, <1>6 DEF Respond, WriteAndAnswer, AuthoredBy, WithVersion

\* The messages go on, no one is answered and nothing is written.
LEMMA MessagesSafe ==
  ASSUME BrowserInv, UNCHANGED <<store, authored>>, IsSequence(messages'),
         Answered(messages') = Answered(messages),
         \A k \in DOMAIN messages' : MessageSound(messages'[k], Answered(messages), authored)
  PROVE  BrowserInv'
<1> DEFINE known == Answered(messages)
<1>1. /\ store' = store /\ authored' = authored /\ Answered(messages') = known
      /\ DOMAIN authored \subseteq known /\ StateSound(store, known, authored)
      /\ \A k \in DOMAIN messages' : MessageSound(messages'[k], known, authored)
  BY DEF BrowserInv
<1> HIDE DEF known
<1>2. QED  BY <1>1 DEF BrowserInv

LEMMA ReceiveSafe ==
  ASSUME BrowserInv, NEW kind \in Kinds, NEW arg, NEW id, Receive(kind, arg, id),
         kind = "RESOLVE_APPROVAL" => arg \in {"approved", "denied"}
  PROVE  BrowserInv'
<1> DEFINE m == Message(kind, arg, id)
           known == Answered(messages)
<1>1. messages' = Append(messages, m) /\ UNCHANGED <<store, authored>>
  BY DEF Receive
<1>2. /\ {"kind", "arg", "id", "stage", "copy", "page"} \subseteq DOMAIN m
      /\ m.stage = "received" /\ m.kind = kind /\ m.arg = arg
  BY DEF Message
<1> HIDE DEF m
<1>3. MessageSound(m, known, authored)
  BY <1>2 DEF MessageSound
<1>4. IsSequence(messages) /\ Len(messages) \in Nat /\ DOMAIN messages = 1 .. Len(messages)
  BY SequenceIs DEF BrowserInv
<1>5. /\ IsSequence(messages')
      /\ DOMAIN messages' = 1 .. Len(messages) + 1 /\ messages'[Len(messages) + 1] = m
      /\ \A k \in 1 .. Len(messages) : messages'[k] = messages[k]
  <2>1. messages \in Seq(ToSet(messages) \cup {m})
    BY <1>4, SequenceIs, SeqMonotonic
  <2>2. IsSequence(messages')
    BY <1>1, <1>4, AppendIs
  <2>3. QED  BY <1>1, <2>1, <2>2, AppendProperties, LenProperties
<1>6. Answered(messages') = known
  BY <1>2, <1>4, <1>5 DEF Answered
<1>7. ASSUME NEW k \in DOMAIN messages'  PROVE MessageSound(messages'[k], known, authored)
  <2>1. CASE k = Len(messages) + 1
    BY <1>3, <1>5, <2>1
  <2>2. CASE k # Len(messages) + 1
    <3>1. k \in DOMAIN messages /\ messages'[k] = messages[k]
      BY <1>4, <1>5, <1>7, <2>2
    <3>2. QED  BY <3>1 DEF BrowserInv
  <2>3. QED  BY <2>1, <2>2
<1>8. QED  BY <1>1, <1>5, <1>6, <1>7, MessagesSafe

LEMMA SendSafe ==
  ASSUME BrowserInv, Send
  PROVE  BrowserInv'
<1>1. \E kind \in Kinds : \E arg, id :
        Receive(kind, arg, id) /\ (kind = "RESOLVE_APPROVAL" => arg \in {"approved", "denied"})
  BY DEF Send, Kinds
<1>2. QED  BY <1>1, ReceiveSafe

\* One message goes on.
LEMMA MessageSafe ==
  ASSUME BrowserInv, NEW n \in DOMAIN messages, UNCHANGED <<store, authored>>,
         NEW m, messages' = [messages EXCEPT ![n] = m],
         m.stage # "answered", messages[n].stage # "answered",
         MessageSound(m, Answered(messages), authored)
  PROVE  BrowserInv'
<1>1. IsSequence(messages')
  BY ExceptIs DEF BrowserInv
<1>2. Answered(messages') = Answered(messages)
  BY DEF Answered
<1>3. \A k \in DOMAIN messages' : MessageSound(messages'[k], Answered(messages), authored)
  BY DEF BrowserInv
<1>4. QED  BY <1>1, <1>2, <1>3, MessagesSafe

LEMMA ReadStateSafe ==
  ASSUME BrowserInv, NEW n \in DOMAIN messages, ReadState(n)
  PROVE  BrowserInv'
<1> DEFINE m == [messages[n] EXCEPT !.stage = "read", !.copy = store]
           known == Answered(messages)
<1>1. /\ messages[n].stage = "received" /\ MessageSound(messages[n], known, authored)
      /\ StateSound(store, known, authored)
  BY DEF ReadState, BrowserInv
<1>2. messages' = [messages EXCEPT ![n] = m] /\ UNCHANGED <<store, authored>>
  BY DEF ReadState
<1>3. /\ DOMAIN m = DOMAIN messages[n] /\ m.stage = "read" /\ m.copy = store
      /\ m.kind = messages[n].kind /\ m.arg = messages[n].arg
  BY <1>1 DEF MessageSound
<1> HIDE DEF m, known
<1>4. MessageSound(m, known, authored)
  BY <1>1, <1>3 DEF MessageSound
<1>5. QED  BY <1>1, <1>2, <1>3, <1>4, MessageSafe DEF known

LEMMA SeePageSafe ==
  ASSUME BrowserInv, NEW n \in DOMAIN messages, SeePage(n)
  PROVE  BrowserInv'
<1>1. PICK page : messages' = [messages EXCEPT ![n].stage = "seen", ![n].page = page]
  BY DEF SeePage
<1> DEFINE m == [messages[n] EXCEPT !.stage = "seen", !.page = page]
           known == Answered(messages)
<1>2. messages[n].stage = "read" /\ MessageSound(messages[n], known, authored)
  BY DEF SeePage, BrowserInv
<1>3. messages' = [messages EXCEPT ![n] = m] /\ UNCHANGED <<store, authored>>
  BY <1>1 DEF SeePage
<1>4. /\ DOMAIN m = DOMAIN messages[n] /\ m.stage = "seen" /\ m.copy = messages[n].copy
      /\ m.kind = messages[n].kind /\ m.arg = messages[n].arg
  BY <1>2 DEF MessageSound
<1> HIDE DEF m, known
<1>5. MessageSound(m, known, authored)
  BY <1>2, <1>4 DEF MessageSound
<1>6. QED  BY <1>2, <1>3, <1>4, <1>5, MessageSafe DEF known

\* The handlers that are stopped are not answered.
LEMMA StopSafe ==
  ASSUME BrowserInv, StopWorker
  PROVE  BrowserInv'
<1> DEFINE ended == Ended("dropped")
           known == Answered(messages)
<1>1. /\ messages' = [n \in DOMAIN messages |-> IF AtWork(n) THEN ended ELSE messages[n]]
      /\ UNCHANGED <<store, authored>>
  BY DEF StopWorker
<1>2. /\ {"kind", "arg", "id", "stage", "copy", "page"} \subseteq DOMAIN ended
      /\ ended.stage = "dropped"
  BY DEF Ended, Message
<1> HIDE DEF ended
<1>3. MessageSound(ended, known, authored)
  BY <1>2 DEF MessageSound
<1>4. Answered(messages') = known
  BY <1>1, <1>2 DEF Answered, AtWork
<1>5. \A k \in DOMAIN messages' : MessageSound(messages'[k], known, authored)
  BY <1>1, <1>3 DEF BrowserInv
<1>6. IsSequence(messages')
  <2>1. Len(messages) \in Nat /\ DOMAIN messages = 1 .. Len(messages)
    BY SequenceIs DEF BrowserInv
  <2>2. DOMAIN messages' = 1 .. Len(messages) /\ messages' = [k \in 1 .. Len(messages) |-> messages'[k]]
    BY <1>1, <2>1
  <2>3. messages' \in [1 .. Len(messages) -> ToSet(messages')]
    BY <2>2 DEF ToSet
  <2>4. messages' \in Seq(ToSet(messages'))
    BY <2>1, <2>3, SeqDef
  <2>5. QED  BY <2>4, MakesSequence
<1>7. QED  BY <1>1, <1>4, <1>5, <1>6, MessagesSafe

LEMMA BrowserStep ==
  ASSUME BrowserInv, [BrowserNext]_browserVars
  PROVE  BrowserInv'
<1>1. ASSUME NEW n \in DOMAIN messages, HandlerStep(n)  PROVE BrowserInv'
  BY <1>1, ReadStateSafe, SeePageSafe, RespondSafe DEF HandlerStep
<1>2. ASSUME UNCHANGED <<store, messages, authored>>  PROVE BrowserInv'
  BY <1>2 DEF BrowserInv
<1>3. ASSUME NEW m, ValidateDraft(m)  PROVE BrowserInv'
  BY <1>2, <1>3 DEF ValidateDraft
<1>4. CASE SyncPanel
  BY <1>2, <1>4 DEF SyncPanel
<1>5. CASE UNCHANGED browserVars
  BY <1>2, <1>5 DEF browserVars
<1>6. QED  BY <1>1, <1>3, <1>4, <1>5, SendSafe, StopSafe DEF BrowserNext

LEMMA BrowserInvariant == BrowserSpec => []BrowserInv
<1>1. BrowserInit => BrowserInv
  <2> SUFFICES ASSUME BrowserInit  PROVE BrowserInv
    OBVIOUS
  <2>1. IsSequence(<<>>) /\ ToSet(<<>>) = {}
    BY DEF IsSequence, ToSet
  <2>2. /\ StateFields \subseteq DOMAIN store
        /\ store.memory = <<>> /\ store.trace = <<>> /\ store.queue = <<>>
        /\ store.history = <<>> /\ store.erased = <<>> /\ store.active = NoVersion
    BY DEF BrowserInit, DefaultState, StateFields
  <2>3. Traced(store) = {} /\ ListsSound(store)
    BY <2>1, <2>2 DEF Traced, ListsSound
  <2>4. ActiveSound(store, authored)
    BY <2>2 DEF ActiveSound, NoVersion, WorldOf
  <2>5. /\ TraceSound({}, {}, authored) /\ QueueSound(<<>>, {}, {}) /\ MemorySound(<<>>, {})
    BY DEF TraceSound, QueueSound, MemorySound
  <2>6. Answered(messages) = {} /\ messages = <<>> /\ DOMAIN authored = {}
    BY DEF BrowserInit, Answered
  <2>7. StateSound(store, {}, authored)
    BY <2>2, <2>3, <2>4, <2>5 DEF StateSound
  <2>8. QED  BY <2>1, <2>6, <2>7 DEF BrowserInv
<1>2. QED  BY <1>1, BrowserStep, PTL DEF BrowserSpec

(***************************************************************************)
(* However many handlers overlap, whatever they undo of each other and     *)
(* wherever the browser stops them, the state in the storage tells one     *)
(* story: approvals were asked for and have one resolution, as the queue   *)
(* says, and the governed agent remembers what it was allowed              *)
(* (background.ts: getState, setState and what is between them).           *)
(***************************************************************************)
THEOREM HandlersKeepOneStory == BrowserSpec => []StoreTellsOneStory
<1>1. BrowserInv => StoreTellsOneStory
  <2> SUFFICES ASSUME BrowserInv  PROVE StoreTellsOneStory
    OBVIOUS
  <2> DEFINE known == Answered(messages)
  <2>1. StateSound(store, known, authored)
    BY DEF BrowserInv
  <2> HIDE DEF known
  <2>2. store.history # <<>> => store.active.version_id = store.history[1].version_id
    BY <2>1 DEF StateSound, ActiveSound
  <2>3. ASSUME NEW request \in ToSet(store.queue)
        PROVE  /\ \E t \in Traced(store) : t.run = request.id /\ t.decision = "ask"
               /\ Cardinality(Resolutions(store, request.id)) <= 1
               /\ {t.decision : t \in Resolutions(store, request.id)} =
                    CASE request.status = "pending" -> {}
                      [] request.status = "approved" -> {"allow"}
                      [] request.status = "denied" -> {"deny"}
    <3> DEFINE res == Resolutions(store, request.id)
    <3>1. RequestSound(request, Traced(store), known)
      BY <2>1 DEF ToSet, StateSound, QueueSound
    <3>2. res = ResolvedBy(Traced(store), request.id)
      BY DEF Resolutions, ResolvedBy
    <3> HIDE DEF res
    <3>3. \/ request.status = "pending" /\ res = {}
          \/ request.status = "approved" /\ \E t : res = {t} /\ t.decision = "allow"
          \/ request.status = "denied" /\ \E t : res = {t} /\ t.decision = "deny"
      BY <3>1, <3>2 DEF RequestSound
    <3>4. res = {} \/ \E t : res = {t}
      BY <3>3
    <3>5. Cardinality(res) <= 1
      BY <3>4, FS_EmptySet, FS_Singleton
    <3>6. {t.decision : t \in res} =
            CASE request.status = "pending" -> {}
              [] request.status = "approved" -> {"allow"}
              [] request.status = "denied" -> {"deny"}
      <4>1. CASE request.status = "pending" /\ res = {}
        BY <4>1
      <4>2. ASSUME NEW t, request.status = "approved", res = {t}, t.decision = "allow"
            PROVE  {a.decision : a \in res} = {"allow"}
        BY <4>2
      <4>3. ASSUME NEW t, request.status = "denied", res = {t}, t.decision = "deny"
            PROVE  {a.decision : a \in res} = {"deny"}
        BY <4>3
      <4>4. QED  BY <3>3, <4>1, <4>2, <4>3
    <3>7. \E t \in Traced(store) : t.run = request.id /\ t.decision = "ask"
      BY <3>1 DEF RequestSound
    <3>8. QED  BY <3>5, <3>6, <3>7 DEF res
  <2>4. ASSUME NEW i \in DOMAIN store.memory, NEW j \in DOMAIN store.memory
        PROVE  LET e == store.memory[i]
               IN /\ e.mode = "governed" =>
                       \E t \in Traced(store) : /\ t.run = e.run /\ t.approval = e.approval
                                                /\ t.decision = "allow"
                                                /\ t.simulated => e.approval # NoApproval
                  /\ e.approval # NoApproval /\ e.approval = store.memory[j].approval => i = j
    BY <2>1 DEF StateSound, MemorySound, EntrySound, NoApproval
  <2>5. QED  BY <2>2, <2>3, <2>4 DEF StoreTellsOneStory
<1>2. QED  BY <1>1, BrowserInvariant, PTL

(***************************************************************************)
(* Every decision in the trace can be made again from the version it       *)
(* names, also where handlers overlap (worldTrace, evaluatePolicy).        *)
(***************************************************************************)
THEOREM DecisionsAreReproducible == BrowserSpec => []DecisionsNameTheirWorld
<1>1. BrowserInv => DecisionsNameTheirWorld
  <2> SUFFICES ASSUME BrowserInv, NEW t \in Traced(store), t.approval = NoApproval
               PROVE  Named(t, authored)
    BY DEF DecisionsNameTheirWorld, Named, WorldOf
  <2> DEFINE known == Answered(messages)
  <2>1. StateSound(store, known, authored)
    BY DEF BrowserInv
  <2> HIDE DEF known
  <2>2. QED  BY <2>1 DEF StateSound, TraceSound, NoApproval
<1>2. QED  BY <1>1, BrowserInvariant, PTL

-----------------------------------------------------------------------------
(***************************************************************************)
(* The scenario benchmark.  A run is told from its thread by where the     *)
(* thread is: what has been assigned so far, and that a run reported done  *)
(* has come to its end, where nothing about it changes any more.           *)
(***************************************************************************)

\* All records that a script can make.
Judgements == {Evaluate(id, policy) : id \in DOMAIN Fixtures, policy \in Policies}

Stations ==
  {"launch", "judging", "traced", "exited", "output", "exit", "given up", "end"}

Cached(cache) == \A m \in DOMAIN cache : cache[m] \in Policies

JudgedBy(records, cache) ==
  \A i \in DOMAIN records :
    records[i].manifest \in DOMAIN cache /\ records[i].by = cache[records[i].manifest]

AllMatch(records) == \A i \in DOMAIN records : Matches(records[i])

\* An exit code says what the records say.
ExitSound(code, records) == code # None /\ (code = "0" => AllMatch(records))

ThreadSound(w) ==
  /\ {"pc", "class", "todo", "cache", "records", "stamp", "exit"} \subseteq DOMAIN w
  /\ w.pc \in Stations
  /\ w.todo \subseteq DOMAIN Listing
  /\ Cached(w.cache)
  /\ w.records \in Seq(Judgements)
  /\ JudgedBy(w.records, w.cache)
  /\ w.pc \in {"exited", "output", "exit"} => ExitSound(w.exit, w.records)

RunSound(b, w) ==
  /\ ThreadSound(w)
  /\ {"status", "output", "exit"} \subseteq DOMAIN b
  /\ w.pc \notin {"given up", "end"} => b.status = "running"
  /\ w.pc = "given up" => b.status # "done"
  /\ w.pc \in {"output", "exit"} => b.output = "printed"
  /\ w.pc = "exit" => b.exit = w.exit
  /\ b.status = "done" =>
       w.pc = "end" /\ b.output = "printed" /\ b.exit = w.exit /\ ExitSound(w.exit, w.records)

RunsSound ==
  /\ DOMAIN benchmarkRuns = DOMAIN work
  /\ \A r \in DOMAIN work : RunSound(benchmarkRuns[r], work[r])

Alike(records) ==
  \A i, j \in DOMAIN records :
    records[i].manifest = records[j].manifest => records[i].by = records[j].by

TracesSound == \A second \in DOMAIN traces : traces[second] \in Seq(Judgements) /\ Alike(traces[second])

ReplaySound ==
  replay.pc = "replaying" =>
    /\ {"pc", "todo", "begun", "index", "own", "runner"} \subseteq DOMAIN replay
    /\ replay.todo \in Seq(Judgements)
    /\ Cached(replay.own) /\ Cached(replay.runner)

Finished(r) == r \in DOMAIN work /\ benchmarkRuns[r].status = "done"

PollSound ==
  poll = Idle \/
    /\ poll.pc \in {"status", "output"}
    /\ poll.status = "done" => Finished(poll.run)
    /\ poll.status = "done" /\ poll.pc = "output" => poll.output = "printed"

ToldSound ==
  \A answer \in told : answer.status = "done" =>
    /\ Finished(answer.run)
    /\ answer.output = "printed"
    /\ answer.exit = work[answer.run].exit

ScenarioInv ==
  /\ policyFile \in [Manifests -> Policies]
  /\ RunsSound
  /\ TracesSound
  /\ ReplaySound
  /\ DriftMeansEdit
  /\ PollSound
  /\ ToldSound

-----------------------------------------------------------------------------
(* Judging. *)

LEMMA PutIs ==
  ASSUME NEW dict, NEW key, NEW value
  PROVE  /\ DOMAIN Put(dict, key, value) = DOMAIN dict \cup {key}
         /\ Put(dict, key, value)[key] = value
         /\ \A k \in DOMAIN dict : k # key => Put(dict, key, value)[k] = dict[k]
  BY DEF Put

LEMMA LoadKeeps ==
  ASSUME NEW cache, Cached(cache), NEW m \in Manifests, policyFile \in [Manifests -> Policies]
  PROVE  /\ Cached(Load(cache, m)) /\ m \in DOMAIN Load(cache, m)
         /\ \A k \in DOMAIN cache : k \in DOMAIN Load(cache, m) /\ Load(cache, m)[k] = cache[k]
<1>1. CASE m \in DOMAIN cache
  BY <1>1 DEF Load, Cached
<1>2. CASE m \notin DOMAIN cache
  <2> DEFINE kept == Put(cache, m, policyFile[m])
  <2>1. /\ DOMAIN kept = DOMAIN cache \cup {m} /\ kept[m] = policyFile[m]
        /\ \A k \in DOMAIN cache : k # m => kept[k] = cache[k]
    BY DEF Put
  <2>2. Load(cache, m) = kept
    BY <1>2 DEF Load
  <2> HIDE DEF kept
  <2>3. QED  BY <1>2, <2>1, <2>2 DEF Cached
<1>3. QED  BY <1>1, <1>2

LEMMA EvaluateIs ==
  ASSUME NEW id \in DOMAIN Fixtures, NEW policy \in Policies
  PROVE  /\ Evaluate(id, policy) \in Judgements
         /\ Evaluate(id, policy).scenario = id
         /\ Evaluate(id, policy).manifest = Fixtures[id].manifest
         /\ Evaluate(id, policy).by = policy
         /\ Fixtures[id].manifest \in Manifests
  BY DEF Evaluate, Judgements, Manifests

-----------------------------------------------------------------------------
(* The thread of a run. *)

\* A step of one thread, which has not come to its end.
LEMMA ThreadSafe ==
  ASSUME ScenarioInv, NEW r \in DOMAIN work, work[r].pc # "end",
         DOMAIN work' = DOMAIN work, DOMAIN benchmarkRuns' = DOMAIN benchmarkRuns,
         \A q \in DOMAIN work \ {r} : work'[q] = work[q] /\ benchmarkRuns'[q] = benchmarkRuns[q],
         RunSound(benchmarkRuns'[r], work'[r]), TracesSound', UNCHANGED Others
  PROVE  ScenarioInv'
<1>1. UNCHANGED <<policyFile, replay, compared, poll, told>>
  BY DEF Others, files
<1>2. RunsSound'
  BY DEF ScenarioInv, RunsSound
<1>3. ASSUME NEW q, Finished(q)
      PROVE  Finished(q)' /\ q \in DOMAIN work /\ work'[q] = work[q]
  <2>1. q \in DOMAIN work /\ q # r
    BY <1>3 DEF Finished, ScenarioInv, RunsSound, RunSound
  <2>2. QED  BY <1>3, <2>1 DEF Finished
<1>4. PollSound'
  BY <1>1, <1>3 DEF ScenarioInv, PollSound
<1>5. ToldSound'
  BY <1>1, <1>3 DEF ScenarioInv, ToldSound
<1>6. QED  BY <1>1, <1>2, <1>4, <1>5 DEF ScenarioInv, ReplaySound, DriftMeansEdit

\* Where the thread of r is, and what is known there.
LEMMA AtWhere ==
  ASSUME ScenarioInv, NEW r, NEW pc, At(r, pc)
  PROVE  /\ r \in DOMAIN work /\ work[r].pc = pc
         /\ RunSound(benchmarkRuns[r], work[r])
         /\ DOMAIN benchmarkRuns = DOMAIN work
  BY DEF At, ScenarioInv, RunsSound

\* The thread goes on and changes nothing else about itself.
LEMMA GoesOn ==
  ASSUME NEW w, ThreadSound(w), NEW pc \in Stations, NEW new, new = [w EXCEPT !.pc = pc],
         pc \in {"exited", "output", "exit"} => ExitSound(w.exit, w.records)
  PROVE  /\ ThreadSound(new) /\ new.pc = pc
         /\ new.exit = w.exit /\ new.records = w.records
  BY DEF ThreadSound

LEMMA LoadScenariosSafe ==
  ASSUME ScenarioInv, NEW r, LoadScenarios(r)
  PROVE  ScenarioInv'
<1> DEFINE w == work[r]
           todo == Selected(w.class)
           new == [w EXCEPT !.todo = todo, !.pc = IF todo = {} THEN "exited" ELSE "judging",
                            !.exit = IF todo = {} THEN "1" ELSE None]
<1>1. /\ r \in DOMAIN work /\ w.pc = "launch" /\ RunSound(benchmarkRuns[r], w)
      /\ DOMAIN benchmarkRuns = DOMAIN work
  BY AtWhere DEF LoadScenarios
<1>2. work' = [work EXCEPT ![r] = new] /\ UNCHANGED <<benchmarkRuns, traces, reports, Others>>
  BY DEF LoadScenarios
<1>3. todo \subseteq DOMAIN Listing
  BY DEF Selected
<1>4. ThreadSound(new) /\ new.pc \notin {"output", "exit", "given up", "end"}
  <2> HIDE DEF todo
  <2>1. QED  BY <1>1, <1>3 DEF RunSound, ThreadSound, Stations, ExitSound, None
<1>5. RunSound(benchmarkRuns[r], new)
  <2> HIDE DEF new
  <2>1. QED  BY <1>1, <1>4 DEF RunSound
<1>6. TracesSound'
  BY <1>2 DEF ScenarioInv, TracesSound
<1> HIDE DEF new
<1>7. QED  BY <1>1, <1>2, <1>5, <1>6, ThreadSafe

LEMMA JudgeNextSafe ==
  ASSUME ScenarioInv, NEW r, JudgeNext(r)
  PROVE  ScenarioInv'
<1> DEFINE w == work[r]
<1>1. /\ r \in DOMAIN work /\ w.pc = "judging" /\ RunSound(benchmarkRuns[r], w)
      /\ DOMAIN benchmarkRuns = DOMAIN work
  BY AtWhere DEF JudgeNext
<1>2. PICK i \in w.todo :
        LET id == Listing[i]
            cache == Load(w.cache, Fixtures[id].manifest)
            record == Evaluate(id, cache[Fixtures[id].manifest])
        IN  work' = [work EXCEPT ![r].todo = @ \ {i}, ![r].cache = cache,
                                 ![r].records = Append(@, record)]
  BY DEF JudgeNext
<1> DEFINE id == Listing[i]
           m == Fixtures[id].manifest
           cache == Load(w.cache, m)
           record == Evaluate(id, cache[m])
           new == [w EXCEPT !.todo = @ \ {i}, !.cache = cache, !.records = Append(@, record)]
<1>3. work' = [work EXCEPT ![r] = new] /\ UNCHANGED <<benchmarkRuns, traces, reports, Others>>
  BY <1>2 DEF JudgeNext
<1>4. id \in DOMAIN Fixtures /\ m \in Manifests
  <2>1. i \in DOMAIN Listing
    BY <1>1 DEF RunSound, ThreadSound
  <2>2. QED  BY <2>1, ListingAssumption DEF Manifests
<1>5. /\ Cached(cache) /\ m \in DOMAIN cache
      /\ \A k \in DOMAIN w.cache : k \in DOMAIN cache /\ cache[k] = w.cache[k]
  BY <1>1, <1>4, LoadKeeps DEF RunSound, ThreadSound, ScenarioInv
<1>6. record \in Judgements /\ record.manifest = m /\ record.by = cache[m]
  <2>1. cache[m] \in Policies
    BY <1>5 DEF Cached
  <2>2. QED  BY <1>4, <2>1, EvaluateIs
<1> HIDE DEF id, m, cache, record
<1>7. /\ Append(w.records, record) \in Seq(Judgements)
      /\ JudgedBy(Append(w.records, record), cache)
  <2>1. w.records \in Seq(Judgements) /\ JudgedBy(w.records, w.cache)
    BY <1>1 DEF RunSound, ThreadSound
  <2>2. \A n \in DOMAIN Append(w.records, record) :
           \/ n \in DOMAIN w.records /\ Append(w.records, record)[n] = w.records[n]
           \/ Append(w.records, record)[n] = record
    BY <2>1, <1>6, AppendProperties
  <2>3. Append(w.records, record) \in Seq(Judgements)
    BY <2>1, <1>6
  <2>4. QED  BY <1>5, <1>6, <2>1, <2>2, <2>3 DEF JudgedBy
<1>8. ThreadSound(new) /\ new.pc = "judging"
  BY <1>1, <1>5, <1>7 DEF RunSound, ThreadSound
<1> HIDE DEF new
<1>9. RunSound(benchmarkRuns[r], new)
  BY <1>1, <1>8 DEF RunSound
<1>10. TracesSound'
  BY <1>3 DEF ScenarioInv, TracesSound
<1>11. QED  BY <1>1, <1>3, <1>9, <1>10, ThreadSafe

LEMMA WriteTraceSafe ==
  ASSUME ScenarioInv, NEW r, WriteTrace(r)
  PROVE  ScenarioInv'
<1> DEFINE w == work[r]
           new == [w EXCEPT !.pc = "traced", !.stamp = clock]
<1>1. /\ r \in DOMAIN work /\ w.pc = "judging" /\ RunSound(benchmarkRuns[r], w)
      /\ DOMAIN benchmarkRuns = DOMAIN work
  BY AtWhere DEF WriteTrace
<1>2. /\ work' = [work EXCEPT ![r] = new] /\ UNCHANGED <<benchmarkRuns, Others>>
      /\ traces' = Put(traces, clock, w.records)
  BY DEF WriteTrace
<1>3. ThreadSound(new) /\ new.pc = "traced"
  BY <1>1 DEF RunSound, ThreadSound, Stations
<1> HIDE DEF new
<1>4. RunSound(benchmarkRuns[r], new)
  BY <1>1, <1>3 DEF RunSound
<1>5. TracesSound'
  <2>1. w.records \in Seq(Judgements) /\ Alike(w.records)
    BY <1>1 DEF RunSound, ThreadSound, JudgedBy, Alike
  <2>2. \A second \in DOMAIN traces' :
          \/ traces'[second] = w.records
          \/ second \in DOMAIN traces /\ traces'[second] = traces[second]
    BY <1>2 DEF Put
  <2>3. QED  BY <2>1, <2>2 DEF ScenarioInv, TracesSound
<1>6. QED  BY <1>1, <1>2, <1>4, <1>5, ThreadSafe

LEMMA WriteReportSafe ==
  ASSUME ScenarioInv, NEW r, WriteReport(r)
  PROVE  ScenarioInv'
<1> DEFINE w == work[r]
           code == IF \A i \in DOMAIN w.records : Matches(w.records[i]) THEN "0" ELSE "1"
           new == [w EXCEPT !.pc = "exited", !.exit = code]
<1>1. /\ r \in DOMAIN work /\ w.pc = "traced" /\ RunSound(benchmarkRuns[r], w)
      /\ DOMAIN benchmarkRuns = DOMAIN work
  BY AtWhere DEF WriteReport
<1>2. work' = [work EXCEPT ![r] = new] /\ UNCHANGED <<benchmarkRuns, traces, Others>>
  BY DEF WriteReport
<1>3. ExitSound(code, w.records)
  BY DEF ExitSound, AllMatch, None
<1> HIDE DEF code
<1>4. ThreadSound(new) /\ new.pc = "exited"
  BY <1>1, <1>3 DEF RunSound, ThreadSound, Stations
<1> HIDE DEF new
<1>5. RunSound(benchmarkRuns[r], new)
  BY <1>1, <1>4 DEF RunSound
<1>6. TracesSound'
  BY <1>2 DEF ScenarioInv, TracesSound
<1>7. QED  BY <1>1, <1>2, <1>5, <1>6, ThreadSafe

\* The assignments of the thread: it goes from one station to the next, and
\* what the handler can read of the run is as the station says.
LEMMA AssignSafe ==
  ASSUME ScenarioInv, NEW r, NEW from \in Stations \ {"end"}, At(r, from), NEW to \in Stations,
         work' = [work EXCEPT ![r].pc = to],
         NEW b, benchmarkRuns' = [benchmarkRuns EXCEPT ![r] = b],
         {"status", "output", "exit"} \subseteq DOMAIN b,
         UNCHANGED <<traces, reports, Others>>,
         to \in {"exited", "output", "exit"} => ExitSound(work[r].exit, work[r].records),
         to \notin {"given up", "end"} => b.status = "running",
         to = "given up" => b.status # "done",
         to \in {"output", "exit"} => b.output = "printed",
         to = "exit" => b.exit = work[r].exit,
         b.status = "done" =>
           /\ to = "end" /\ b.output = "printed" /\ b.exit = work[r].exit
           /\ ExitSound(work[r].exit, work[r].records)
  PROVE  ScenarioInv'
<1> DEFINE w == work[r]
           new == [w EXCEPT !.pc = to]
<1>1. /\ r \in DOMAIN work /\ w.pc = from /\ RunSound(benchmarkRuns[r], w)
      /\ DOMAIN benchmarkRuns = DOMAIN work
  BY AtWhere
<1>2. work' = [work EXCEPT ![r] = new]
  OBVIOUS
<1>3. ThreadSound(new) /\ new.pc = to /\ new.exit = w.exit /\ new.records = w.records
  <2>1. ThreadSound(w) /\ (to \in {"exited", "output", "exit"} => ExitSound(w.exit, w.records))
    BY <1>1 DEF RunSound
  <2> HIDE DEF w
  <2>2. QED  BY <2>1 DEF ThreadSound
<1> HIDE DEF new
<1>4. RunSound(b, new)
  BY <1>3 DEF RunSound
<1>5. TracesSound'
  BY DEF ScenarioInv, TracesSound
<1>6. QED  BY <1>1, <1>2, <1>4, <1>5, ThreadSafe

LEMMA KeepOutputSafe ==
  ASSUME ScenarioInv, NEW r, KeepOutput(r)
  PROVE  ScenarioInv'
<1> DEFINE b == [benchmarkRuns[r] EXCEPT !.output = "printed"]
<1>1. At(r, "exited") /\ work' = [work EXCEPT ![r].pc = "output"]
      /\ benchmarkRuns' = [benchmarkRuns EXCEPT ![r] = b] /\ UNCHANGED <<traces, reports, Others>>
  BY DEF KeepOutput
<1>2. RunSound(benchmarkRuns[r], work[r]) /\ work[r].pc = "exited"
  BY <1>1, AtWhere
<1>3. /\ {"status", "output", "exit"} \subseteq DOMAIN b
      /\ b.status = "running" /\ b.output = "printed"
  BY <1>2 DEF RunSound
<1>4. ExitSound(work[r].exit, work[r].records)
  BY <1>2 DEF RunSound, ThreadSound
<1> HIDE DEF b
<1>5. QED  BY <1>1, <1>3, <1>4, AssignSafe DEF Stations

LEMMA KeepExitSafe ==
  ASSUME ScenarioInv, NEW r, KeepExit(r)
  PROVE  ScenarioInv'
<1> DEFINE b == [benchmarkRuns[r] EXCEPT !.exit = work[r].exit]
<1>1. At(r, "output") /\ work' = [work EXCEPT ![r].pc = "exit"]
      /\ benchmarkRuns' = [benchmarkRuns EXCEPT ![r] = b] /\ UNCHANGED <<traces, reports, Others>>
  BY DEF KeepExit
<1>2. RunSound(benchmarkRuns[r], work[r]) /\ work[r].pc = "output"
  BY <1>1, AtWhere
<1>3. /\ {"status", "output", "exit"} \subseteq DOMAIN b
      /\ b.status = "running" /\ b.output = "printed" /\ b.exit = work[r].exit
  BY <1>2 DEF RunSound
<1>4. ExitSound(work[r].exit, work[r].records)
  BY <1>2 DEF RunSound, ThreadSound
<1> HIDE DEF b
<1>5. QED  BY <1>1, <1>3, <1>4, AssignSafe DEF Stations

LEMMA KeepDoneSafe ==
  ASSUME ScenarioInv, NEW r, KeepDone(r)
  PROVE  ScenarioInv'
<1> DEFINE b == [benchmarkRuns[r] EXCEPT !.status = "done"]
<1>1. At(r, "exit") /\ work' = [work EXCEPT ![r].pc = "end"]
      /\ benchmarkRuns' = [benchmarkRuns EXCEPT ![r] = b] /\ UNCHANGED <<traces, reports, Others>>
  BY DEF KeepDone
<1>2. RunSound(benchmarkRuns[r], work[r]) /\ work[r].pc = "exit"
  BY <1>1, AtWhere
<1>3. /\ {"status", "output", "exit"} \subseteq DOMAIN b
      /\ b.status = "done" /\ b.output = "printed" /\ b.exit = work[r].exit
  BY <1>2 DEF RunSound
<1>4. ExitSound(work[r].exit, work[r].records)
  BY <1>2 DEF RunSound, ThreadSound
<1> HIDE DEF b
<1>5. QED  BY <1>1, <1>3, <1>4, AssignSafe DEF Stations

LEMMA GiveUpSafe ==
  ASSUME ScenarioInv, NEW r, GiveUp(r)
  PROVE  ScenarioInv'
<1>1. PICK from \in {"launch", "judging", "traced"}, status \in {"timeout", "error"} :
        At(r, from) /\ benchmarkRuns' = [benchmarkRuns EXCEPT ![r].status = status]
  BY DEF GiveUp
<1> DEFINE b == [benchmarkRuns[r] EXCEPT !.status = status]
<1>2. /\ work' = [work EXCEPT ![r].pc = "given up"] /\ UNCHANGED <<traces, reports, Others>>
      /\ benchmarkRuns' = [benchmarkRuns EXCEPT ![r] = b]
  BY <1>1 DEF GiveUp
<1>3. RunSound(benchmarkRuns[r], work[r])
  BY <1>1, AtWhere
<1>4. {"status", "output", "exit"} \subseteq DOMAIN b /\ b.status = status
  BY <1>3 DEF RunSound
<1> HIDE DEF b
<1>5. QED  BY <1>1, <1>2, <1>4, AssignSafe DEF Stations

LEMMA KeepReasonSafe ==
  ASSUME ScenarioInv, NEW r, KeepReason(r)
  PROVE  ScenarioInv'
<1> DEFINE b == [benchmarkRuns[r] EXCEPT !.output = "reason"]
<1>1. At(r, "given up") /\ work' = [work EXCEPT ![r].pc = "end"]
      /\ benchmarkRuns' = [benchmarkRuns EXCEPT ![r] = b] /\ UNCHANGED <<traces, reports, Others>>
  BY DEF KeepReason
<1>2. RunSound(benchmarkRuns[r], work[r]) /\ work[r].pc = "given up"
  BY <1>1, AtWhere
<1>3. {"status", "output", "exit"} \subseteq DOMAIN b /\ b.status # "done"
  BY <1>2 DEF RunSound
<1> HIDE DEF b
<1>4. QED  BY <1>1, <1>3, AssignSafe DEF Stations

\* A run begins under a new id.
LEMMA StartRunSafe ==
  ASSUME ScenarioInv, NEW r, NEW class, StartRun(r, class)
  PROVE  ScenarioInv'
<1> DEFINE b == [status |-> "running", output |-> None, exit |-> None]
           w == [pc |-> "launch", class |-> class, todo |-> {}, cache |-> <<>>,
                 records |-> <<>>, stamp |-> 0, exit |-> None]
<1>1. /\ r \notin DOMAIN benchmarkRuns
      /\ benchmarkRuns' = Put(benchmarkRuns, r, b) /\ work' = Put(work, r, w)
      /\ UNCHANGED <<policyFile, traces, replay, compared, poll, told>>
  BY DEF StartRun, files
<1>2. RunSound(b, w)
  <2>1. Cached(<<>>) /\ JudgedBy(<<>>, <<>>) /\ <<>> \in Seq(Judgements)
    BY DEF Cached, JudgedBy
  <2>2. ThreadSound(w)
    BY <2>1 DEF ThreadSound, Stations
  <2>3. QED  BY <2>2 DEF RunSound
<1> HIDE DEF b, w
<1>3. DOMAIN benchmarkRuns = DOMAIN work /\ r \notin DOMAIN work
  BY <1>1 DEF ScenarioInv, RunsSound
<1>4. /\ DOMAIN work' = DOMAIN work \cup {r} /\ DOMAIN benchmarkRuns' = DOMAIN work \cup {r}
      /\ work'[r] = w /\ benchmarkRuns'[r] = b
      /\ \A q \in DOMAIN work : work'[q] = work[q] /\ benchmarkRuns'[q] = benchmarkRuns[q]
  BY <1>1, <1>3 DEF Put
<1>5. RunsSound'
  BY <1>2, <1>4 DEF ScenarioInv, RunsSound
<1>6. \A q : Finished(q) => Finished(q)' /\ q \in DOMAIN work /\ work'[q] = work[q]
  BY <1>4 DEF Finished
<1>7. PollSound' /\ ToldSound'
  BY <1>1, <1>6 DEF ScenarioInv, PollSound, ToldSound
<1>8. QED  BY <1>1, <1>5, <1>7 DEF ScenarioInv, TracesSound, ReplaySound, DriftMeansEdit

-----------------------------------------------------------------------------
(* The status handler. *)

\* The handler changes nothing but itself.
LEMMA HandlerSafe ==
  ASSUME ScenarioInv, UNCHANGED <<files, benchmarkRuns, work, traces, replay, compared>>,
         PollSound', ToldSound'
  PROVE  ScenarioInv'
<1>1. /\ policyFile' = policyFile /\ benchmarkRuns' = benchmarkRuns /\ work' = work
      /\ traces' = traces /\ replay' = replay /\ compared' = compared
  BY DEF files
<1>2. RunsSound' /\ TracesSound'
  BY <1>1 DEF ScenarioInv, RunsSound, TracesSound
<1>3. ReplaySound' /\ DriftMeansEdit'
  BY <1>1 DEF ScenarioInv, ReplaySound, DriftMeansEdit
<1>4. QED  BY <1>1, <1>2, <1>3 DEF ScenarioInv

LEMMA ReadStatusSafe ==
  ASSUME ScenarioInv, NEW r, ReadStatus(r)
  PROVE  ScenarioInv'
<1>1. /\ r \in DOMAIN work
      /\ poll' = [pc |-> "status", run |-> r, status |-> benchmarkRuns[r].status]
      /\ UNCHANGED <<files, benchmarkRuns, work, traces, replay, compared>> /\ told' = told
  BY DEF ReadStatus, ScenarioInv, RunsSound
<1>2. PollSound'
  BY <1>1 DEF PollSound, Finished
<1>3. ToldSound'
  BY <1>1 DEF ScenarioInv, ToldSound, Finished
<1>4. QED  BY <1>1, <1>2, <1>3, HandlerSafe

\* What can be read of a run that is done.
LEMMA DoneReads ==
  ASSUME ScenarioInv, NEW r, Finished(r)
  PROVE  benchmarkRuns[r].output = "printed" /\ benchmarkRuns[r].exit = work[r].exit
  BY DEF ScenarioInv, RunsSound, RunSound, Finished

LEMMA ReadOutputSafe ==
  ASSUME ScenarioInv, ReadOutput
  PROVE  ScenarioInv'
<1>1. /\ poll.pc = "status"
      /\ poll' = [pc |-> "output", run |-> poll.run, status |-> poll.status,
                  output |-> benchmarkRuns[poll.run].output]
      /\ UNCHANGED <<files, benchmarkRuns, work, traces, replay, compared>> /\ told' = told
  BY DEF ReadOutput
<1>2. poll.status = "done" => Finished(poll.run)
  BY <1>1 DEF ScenarioInv, PollSound, Idle
<1>3. poll.status = "done" => benchmarkRuns[poll.run].output = "printed"
  BY <1>2, DoneReads
<1>4. PollSound'
  BY <1>1, <1>2, <1>3 DEF PollSound, Finished
<1>5. ToldSound'
  BY <1>1 DEF ScenarioInv, ToldSound, Finished
<1>6. QED  BY <1>1, <1>4, <1>5, HandlerSafe

LEMMA ReadExitSafe ==
  ASSUME ScenarioInv, ReadExit
  PROVE  ScenarioInv'
<1> DEFINE answer == [run |-> poll.run, status |-> poll.status, output |-> poll.output,
                      exit |-> benchmarkRuns[poll.run].exit]
<1>1. /\ poll.pc = "output" /\ poll' = Idle /\ told' = told \cup {answer}
      /\ UNCHANGED <<files, benchmarkRuns, work, traces, replay, compared>>
  BY DEF ReadExit
<1>2. poll.status = "done" => Finished(poll.run) /\ poll.output = "printed"
  BY <1>1 DEF ScenarioInv, PollSound, Idle
<1>3. poll.status = "done" => benchmarkRuns[poll.run].exit = work[poll.run].exit
  BY <1>2, DoneReads
<1>4. answer.status = "done" =>
        /\ Finished(answer.run) /\ answer.output = "printed"
        /\ answer.exit = work[answer.run].exit
  BY <1>2, <1>3
<1> HIDE DEF answer
<1>5. ToldSound'
  BY <1>1, <1>4 DEF ScenarioInv, ToldSound, Finished
<1>6. PollSound'
  BY <1>1 DEF PollSound
<1>7. QED  BY <1>1, <1>5, <1>6, HandlerSafe

-----------------------------------------------------------------------------
(* The replay. *)

\* The replay changes nothing but itself and what it has found.
LEMMA ReplaySafe ==
  ASSUME ScenarioInv, UNCHANGED <<files, benchmarkRuns, work, traces, poll, told>>,
         ReplaySound', DriftMeansEdit'
  PROVE  ScenarioInv'
<1>1. /\ policyFile' = policyFile /\ benchmarkRuns' = benchmarkRuns /\ work' = work
      /\ traces' = traces /\ poll' = poll /\ told' = told
  BY DEF files
<1>2. RunsSound' /\ TracesSound'
  BY <1>1 DEF ScenarioInv, RunsSound, TracesSound
<1>3. PollSound' /\ ToldSound'
  BY <1>1 DEF ScenarioInv, PollSound, ToldSound, Finished
<1>4. QED  BY <1>1, <1>2, <1>3 DEF ScenarioInv

LEMMA StartReplaySafe ==
  ASSUME ScenarioInv, NEW second, StartReplay(second)
  PROVE  ScenarioInv'
<1>1. /\ second \in DOMAIN traces /\ compared' = compared
      /\ replay' = [pc |-> "replaying", todo |-> traces[second], begun |-> FALSE,
                    index |-> {}, own |-> <<>>, runner |-> <<>>]
      /\ UNCHANGED <<files, benchmarkRuns, work, traces, poll, told>>
  BY DEF StartReplay
<1>2. traces[second] \in Seq(Judgements) /\ Cached(<<>>)
  BY <1>1 DEF ScenarioInv, TracesSound, Cached
<1>3. ReplaySound'
  BY <1>1, <1>2 DEF ReplaySound
<1>4. QED  BY <1>1, <1>3, ReplaySafe DEF ScenarioInv, DriftMeansEdit

\* Judged by the policy that judged it before, a record has the same outcome.
LEMMA SameAgain ==
  ASSUME NEW record \in Judgements, NEW policy, record.by = policy
  PROVE  Evaluate(record.scenario, policy).outcome = record.outcome
<1>1. PICK id \in DOMAIN Fixtures, by \in Policies : record = Evaluate(id, by)
  BY DEF Judgements
<1>2. record.scenario = id /\ record.by = by
  BY <1>1, EvaluateIs
<1>3. QED  BY <1>1, <1>2

LEMMA ReplayNextSafe ==
  ASSUME ScenarioInv, ReplayNext
  PROVE  ScenarioInv'
<1> DEFINE record == Head(replay.todo)
           index == IF replay.begun THEN replay.index ELSE present
           indexed == record.scenario \in index
           own == Load(replay.own, record.manifest)
           runner == IF indexed THEN Load(replay.runner, record.manifest) ELSE replay.runner
           outcome == Replayed(record, indexed, own, runner)
           found == [record |-> record, outcome |-> outcome, gone |-> ~indexed,
                     by |-> IF indexed THEN runner[record.manifest] ELSE own[record.manifest],
                     deterministic |-> outcome = record.outcome /\ outcome # "error"]
<1>1. /\ replay.pc = "replaying" /\ replay.todo # <<>>
      /\ replay' = [replay EXCEPT !.todo = Tail(@), !.begun = TRUE,
                                  !.index = index, !.own = own, !.runner = runner]
      /\ compared' = compared \cup {found}
      /\ UNCHANGED <<files, benchmarkRuns, work, traces, poll, told>>
  BY DEF ReplayNext
<1>2. /\ {"pc", "todo", "begun", "index", "own", "runner"} \subseteq DOMAIN replay
      /\ replay.todo \in Seq(Judgements) /\ Cached(replay.own) /\ Cached(replay.runner)
  BY <1>1 DEF ScenarioInv, ReplaySound
<1>3. record \in Judgements /\ Tail(replay.todo) \in Seq(Judgements)
  BY <1>1, <1>2, HeadTailProperties
<1>4. record.manifest \in Manifests
  <2>1. PICK id \in DOMAIN Fixtures, policy \in Policies : record = Evaluate(id, policy)
    BY <1>3 DEF Judgements
  <2> HIDE DEF record
  <2>2. QED  BY <2>1, EvaluateIs
<1>5. Cached(own) /\ Cached(runner)
  BY <1>2, <1>4, LoadKeeps DEF ScenarioInv
<1>6. ReplaySound'
  <2> HIDE DEF index, own, runner
  <2>1. QED  BY <1>1, <1>2, <1>3, <1>5 DEF ReplaySound
<1>7. ASSUME ~found.deterministic, ~found.gone, found.by = record.by
      PROVE  record.outcome = "error"
  <2>1. indexed /\ runner[record.manifest] = record.by
    BY <1>7
  <2>2. outcome = record.outcome
    BY <1>3, <2>1, SameAgain DEF Replayed
  <2>3. QED  BY <1>7, <2>2
<1>8. found.record = record
  OBVIOUS
<1> HIDE DEF found
<1>9. DriftMeansEdit'
  BY <1>1, <1>7, <1>8 DEF ScenarioInv, DriftMeansEdit
<1>10. QED  BY <1>1, <1>6, <1>9, ReplaySafe

LEMMA EndReplaySafe ==
  ASSUME ScenarioInv, EndReplay
  PROVE  ScenarioInv'
<1>1. /\ replay' = Idle /\ compared' = compared
      /\ UNCHANGED <<files, benchmarkRuns, work, traces, poll, told>>
  BY DEF EndReplay
<1>2. ReplaySound'
  BY <1>1 DEF ReplaySound, Idle
<1>3. QED  BY <1>1, <1>2, ReplaySafe DEF ScenarioInv, DriftMeansEdit

-----------------------------------------------------------------------------
(* Everything else leaves runs, traces and replays alone. *)

LEMMA WorldSafe ==
  ASSUME ScenarioInv, policyFile' \in [Manifests -> Policies],
         UNCHANGED <<benchmarkRuns, work, traces, replay, compared, poll, told>>
  PROVE  ScenarioInv'
<1>1. RunsSound' /\ TracesSound'
  BY DEF ScenarioInv, RunsSound, TracesSound
<1>2. ReplaySound' /\ DriftMeansEdit'
  BY DEF ScenarioInv, ReplaySound, DriftMeansEdit
<1>3. PollSound' /\ ToldSound'
  BY DEF ScenarioInv, PollSound, ToldSound, Finished
<1>4. QED  BY <1>1, <1>2, <1>3 DEF ScenarioInv

LEMMA ScenarioStep ==
  ASSUME ScenarioInv, [ScenarioNext]_scenarioVars
  PROVE  ScenarioInv'
<1>1. ASSUME NEW r \in RunIds, RunStep(r)  PROVE ScenarioInv'
  BY <1>1, LoadScenariosSafe, JudgeNextSafe, WriteTraceSafe, WriteReportSafe, KeepOutputSafe,
     KeepExitSafe, KeepDoneSafe, GiveUpSafe, KeepReasonSafe DEF RunStep
<1>2. policyFile \in [Manifests -> Policies]
  BY DEF ScenarioInv
<1>3. ASSUME NEW m \in Manifests, NEW policy \in Policies, EditPolicy(m, policy)
      PROVE  ScenarioInv'
  BY <1>2, <1>3, WorldSafe DEF EditPolicy
<1>4. ASSUME NEW id, RemoveFixture(id)  PROVE ScenarioInv'
  BY <1>2, <1>4, WorldSafe DEF RemoveFixture
<1>5. CASE Tick
  BY <1>2, <1>5, WorldSafe DEF Tick, files
<1>6. CASE UNCHANGED scenarioVars
  BY <1>2, <1>6, WorldSafe DEF scenarioVars, files
<1>7. QED
  BY <1>1, <1>3, <1>4, <1>5, <1>6, StartRunSafe, ReadStatusSafe, ReadOutputSafe, ReadExitSafe,
     StartReplaySafe, ReplayNextSafe, EndReplaySafe DEF ScenarioNext

(***************************************************************************)
(* What the benchmark tells about a run is true of it, for any scenarios,  *)
(* engine and number of runs: whoever reads "done" reads the output and    *)
(* the exit code with it, however the status handler and the thread        *)
(* interleave; the records of one trace were judged alike; and a replay    *)
(* that finds drift has met an edit (api_benchmarks_run_status,            *)
(* load_policy, _replay_record).                                           *)
(***************************************************************************)
THEOREM BenchmarksAreTrue == ScenarioSpec => []BenchmarksTellTheTruth
<1>1. ScenarioInit => ScenarioInv
  <2> SUFFICES ASSUME ScenarioInit  PROVE ScenarioInv
    OBVIOUS
  <2>1. RunsSound /\ TracesSound
    BY DEF ScenarioInit, RunsSound, TracesSound
  <2>2. ReplaySound /\ PollSound
    BY DEF ScenarioInit, ReplaySound, PollSound, Idle
  <2>3. QED  BY <2>1, <2>2 DEF ScenarioInit, ScenarioInv, DriftMeansEdit, ToldSound
<1>2. ScenarioInv /\ [ScenarioNext]_scenarioVars => ScenarioInv'
  BY ScenarioStep
<1>3. ScenarioInv => BenchmarksTellTheTruth
  <2> SUFFICES ASSUME ScenarioInv  PROVE BenchmarksTellTheTruth
    OBVIOUS
  <2>1. ASSUME NEW answer \in told, answer.status = "done"
        PROVE  /\ answer.output = "printed"
               /\ ExitSound(answer.exit, work[answer.run].records)
    <3>1. /\ Finished(answer.run) /\ answer.output = "printed"
          /\ answer.exit = work[answer.run].exit
      BY <2>1 DEF ScenarioInv, ToldSound
    <3>2. ExitSound(work[answer.run].exit, work[answer.run].records)
      BY <3>1 DEF Finished, ScenarioInv, RunsSound, RunSound
    <3>3. QED  BY <3>1, <3>2
  <2>2. DoneIsWhole
    BY <2>1 DEF DoneIsWhole, ExitSound, AllMatch
  <2>3. JudgedAlike
    BY DEF ScenarioInv, TracesSound, Alike, JudgedAlike
  <2>4. QED  BY <2>2, <2>3 DEF ScenarioInv, BenchmarksTellTheTruth
<1>4. QED  BY <1>1, <1>2, <1>3, PTL DEF ScenarioSpec

-----------------------------------------------------------------------------
(***************************************************************************)
(* They share no state: in the composition each of them does only what it  *)
(* does alone.                                                             *)
(***************************************************************************)
LEMMA HostsKeepApart == ExecutionsSpec => Spec /\ SandboxSpec /\ BrowserSpec /\ ScenarioSpec
<1>1. ExecutionsInit => Init /\ SandboxInit /\ BrowserInit /\ ScenarioInit
  BY DEF ExecutionsInit
<1>2. [ExecutionsNext]_executionVars =>
        /\ [Next]_kernelVars /\ [SandboxNext]_runs
        /\ [BrowserNext]_browserVars /\ [ScenarioNext]_scenarioVars
  BY DEF ExecutionsNext, executionVars
<1>3. QED  BY <1>1, <1>2, PTL DEF ExecutionsSpec, Spec, SandboxSpec, BrowserSpec, ScenarioSpec

(***************************************************************************)
(* The theorems above hold of a process that runs any one of the hosts:    *)
(* the worker's taint, answers and budget, the sandbox's results, the      *)
(* story in the browser's storage and what is told of a benchmark run, as  *)
(* checked on the composition.                                             *)
(***************************************************************************)
THEOREM HostsKeepTheirPromises ==
  ExecutionsSpec =>
    [](/\ TaintFollowsLineage /\ AnswersMatchEffects /\ OvershootBounded
       /\ AnswersAreWhole
       /\ StoreTellsOneStory /\ DecisionsNameTheirWorld
       /\ BenchmarksTellTheTruth)
  BY HostsKeepApart, TaintIsInherited, AnswersTellTheTruth, OvershootIsBounded,
     ResultsAreWhole, HandlersKeepOneStory, DecisionsAreReproducible, BenchmarksAreTrue, PTL
=============================================================================
