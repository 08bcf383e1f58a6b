---------------------------- MODULE ApprovedOnce ----------------------------
(***************************************************************************)
(* What the gateway's approval workflow promises of a held request: it     *)
(* runs at most once, and never after its reviewer was told "rejected".    *)
(***************************************************************************)
EXTENDS Naturals

CONSTANT ApprovalIds

VARIABLES
  asked,    \* ids under which a request was held for review
  ran,      \* how often the request held under an id was run
  refused   \* ids whose reviewer was told that the request will not run

onceVars == <<asked, ran, refused>>

Init ==
  /\ asked = {}
  /\ ran = [id \in ApprovalIds |-> 0]
  /\ refused = {}

Ask(id) ==
  /\ id \notin asked
  /\ asked' = asked \cup {id}
  /\ UNCHANGED <<ran, refused>>

Run(id) ==
  /\ id \in asked \ refused
  /\ ran[id] = 0
  /\ ran' = [ran EXCEPT ![id] = 1]
  /\ UNCHANGED <<asked, refused>>

Refuse(id) ==
  /\ id \in asked \ refused
  /\ ran[id] = 0
  /\ refused' = refused \cup {id}
  /\ UNCHANGED <<asked, ran>>

Next == \E id \in ApprovalIds : Ask(id) \/ Run(id) \/ Refuse(id)

Spec == Init /\ [][Next]_onceVars
=============================================================================
