------------------------- MODULE ControlPlaneDomain -------------------------
(***************************************************************************)
(* The value objects of the approval workflow (control_plane/domain.py):   *)
(* what an ActionApproval records, and when one counts as expired or as an *)
(* explicit permission.                                                    *)
(*                                                                         *)
(* A call stands for its fingerprint: the digest of tool name and          *)
(* arguments is taken to be free of collisions, so two calls have one      *)
(* fingerprint exactly when they are the same call.                        *)
(***************************************************************************)
EXTENDS Naturals, Sequences, FiniteSets

CONSTANTS
  Sessions,      \* session ids: streams, registered ids, ids sent in a header
  Calls,         \* pairs of a tool and its exact arguments
  Tools,         \* tool names
  ToolOf,        \* the tool a call names
  ApprovalIds,   \* the uuids of approvals
  OverlayIds,    \* the uuids of overlays
  Ttl            \* life of an approval in clock ticks; 0 is "no expiry"

ASSUME ToolOfAssumption == ToolOf \in [Calls -> Tools]
ASSUME TtlAssumption == Ttl \in Nat

NoExpiry == 0

Scopes == {"one_off", "session", "world"}
Verdicts == {"allow", "deny"}
ScopedVerdict == [scope : Scopes, verdict : Verdicts]

Statuses ==
  {"pending", "allowed", "denied", "expired", "partially_resolved", "resolved"}

ActionApproval ==
  [ session   : Sessions,
    call      : Calls,
    status    : Statuses,
    expiresAt : Nat,
    verdicts  : Seq(ScopedVerdict) ]

\* d[key] = value on a Python dict: DOMAIN is the set of its keys.
Put(dict, key, value) ==
  [k \in DOMAIN dict \cup {key} |-> IF k = key THEN value ELSE dict[k]]

(***************************************************************************)
(* Readings of an approval record.  now is the wall clock.                 *)
(***************************************************************************)
IsExpired(approval, now) ==
  approval.expiresAt # NoExpiry /\ now > approval.expiresAt

\* Mutated: only the scopes that allowed count as answered.
AllowedScopes(verdicts) ==
  {verdicts[i].scope : i \in {j \in DOMAIN verdicts :
                               verdicts[j].verdict = "allow"}}

RecordedScopes(verdicts) == {verdicts[i].scope : i \in DOMAIN verdicts}

HasVerdict(approval, scope, verdict) ==
  \E i \in DOMAIN approval.verdicts :
     approval.verdicts[i] = [scope |-> scope, verdict |-> verdict]

\* The api's _has_allow_verdict: an allow of any scope.
HasAllowVerdict(approval) ==
  \E i \in DOMAIN approval.verdicts : approval.verdicts[i].verdict = "allow"

\* Mutated: has_explicit_allow honours every scope.
AllowedByAnyScope(approval) ==
  approval.status = "allowed" \/ HasAllowVerdict(approval)

\* What has_explicit_allow looks for in one record, the clock aside.
ExplicitlyAllowed(approval) ==
  approval.status = "allowed" \/ HasVerdict(approval, "one_off", "allow")

=============================================================================
