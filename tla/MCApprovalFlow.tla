---------------------------- MODULE MCApprovalFlow ----------------------------
(* Small instances of the approval workflow for TLC. *)
EXTENDS ApprovalFlow, TLC

CONSTANTS s1, s2, c1, c2, t1, a1, a2, o1, o2, w1, w2

MCToolOf == [c \in Calls |-> t1]

V(scope, verdict) == [scope |-> scope, verdict |-> verdict]

\* Bodies of respond: one scope, all three, and a session-scope allow (whose
\* overlay needs a registered session) before and after the one_off verdict.
MCBodies ==
  { <<V("one_off", "deny")>>,
    <<V("session", "allow"), V("one_off", "allow")>>,
    <<V("one_off", "allow"), V("session", "allow")>>,
    <<V("one_off", "deny"), V("session", "allow")>>,
    <<V("session", "deny"), V("one_off", "allow"), V("world", "deny")>> }

\* Bodies of overlapping responses: an allow of one scope each, so that either
\* can come first and take the announcement.
MCOverlappingBodies ==
  { <<V("one_off", "allow")>>, <<V("session", "allow")>> }
=============================================================================
