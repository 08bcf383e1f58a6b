-------------------------- MODULE MCExecutionRouter --------------------------
(* Small instances of the gateway's router for TLC. *)
EXTENDS ExecutionRouter, TLC

CONSTANTS send, scan, mail, p1, p2, a1, a2

MCToolOf == [request \in Requests |-> mail]

\* Approval ids are interchangeable.
MCSymmetry == Permutations(ApprovalIds)

MCPlanOf == (send :> "program") @@ (scan :> "direct")

\* One request is held for review; the policies disagree about the other.
MCRules == (p1 :> ((send :> "ask") @@ (scan :> "allow")))
        @@ (p2 :> ((send :> "ask") @@ (scan :> "deny")))

MCFirewall == [request \in Requests |-> "allow"]

\* Both requests are held, whatever the policy.
MCAskAll == [request \in Requests |-> "ask"]
=============================================================================
