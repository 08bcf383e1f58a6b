--------------------------- MODULE ActAuthorization ---------------------------
(***************************************************************************)
(* What an approval promises: somebody decides once about one action of    *)
(* one session, and that action runs only while some approval for it       *)
(* stands at "allow".  An allow is never taken back, a deny is overruled   *)
(* only where taking it down was interrupted; the one thing that ends a    *)
(* decision is the lapse of the approval.                                  *)
(***************************************************************************)
EXTENDS Naturals

CONSTANTS
  ApprovalIds,
  Actions        \* an action of a session: the exact call and who makes it

VARIABLES
  about,       \* the action each known approval is for
  decision,    \* per known approval: open, allow, deny or lapsed
  ran,         \* how often each action ran
  interrupted  \* approvals whose decision was not taken down to the end

authVars == <<about, decision, ran, interrupted>>

Known == DOMAIN about

Init ==
  /\ about = <<>>
  /\ decision = <<>>
  /\ ran = [a \in Actions |-> 0]
  /\ interrupted = {}

Ask(id, a) ==
  /\ id \notin Known
  /\ about' = [k \in Known \cup {id} |-> IF k = id THEN a ELSE about[k]]
  /\ decision' = [k \in Known \cup {id} |->
                    IF k = id THEN "open" ELSE decision[k]]
  /\ UNCHANGED <<ran, interrupted>>

Decide(id, verdict) ==
  /\ decision[id] = "open"
  /\ decision' = [decision EXCEPT ![id] = verdict]
  /\ UNCHANGED <<about, ran, interrupted>>

\* Taking the decision down fails on the way; what it says so far stands.
Interrupt(id) ==
  /\ interrupted' = interrupted \cup {id}
  /\ UNCHANGED <<about, decision, ran>>

Overrule(id) ==
  /\ id \in interrupted
  /\ decision[id] = "deny"
  /\ decision' = [decision EXCEPT ![id] = "allow"]
  /\ UNCHANGED <<about, ran, interrupted>>

\* The clock may end any number of approvals at once.
Lapse(ids) ==
  /\ decision' = [id \in Known |-> IF id \in ids THEN "lapsed" ELSE decision[id]]
  /\ UNCHANGED <<about, ran, interrupted>>

Run(a) ==
  /\ \E id \in Known : about[id] = a /\ decision[id] = "allow"
  /\ ran' = [ran EXCEPT ![a] = @ + 1]
  /\ UNCHANGED <<about, decision, interrupted>>

Next ==
  \/ \E id \in ApprovalIds, a \in Actions : Ask(id, a)
  \/ \E id \in Known, verdict \in {"allow", "deny"} : Decide(id, verdict)
  \/ \E id \in Known : Interrupt(id) \/ Overrule(id)
  \/ \E ids \in SUBSET Known : Lapse(ids)
  \/ \E a \in Actions : Run(a)

Spec == Init /\ [][Next]_authVars
=============================================================================
