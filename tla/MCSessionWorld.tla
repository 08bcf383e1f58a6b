--------------------------- MODULE MCSessionWorld ---------------------------
(***************************************************************************)
(* Instances of SessionWorld for TLC: two tools of which the manifest      *)
(* shows one, and one limit that it sets to 1.                             *)
(***************************************************************************)
EXTENDS SessionWorld, TLC

CONSTANTS s1, s2, shown, extra, quota

MCTools == {shown, extra}
MCLimits == {quota}
MCLevels == 1..3

NoLimits == [limit \in {} |-> 1]
MCBase == [tools |-> {shown}, limits |-> [limit \in {quota} |-> 1]]

Reveal(tools) ==
  [hide |-> {}, reveal |-> tools, widen |-> NoLimits, narrow |-> NoLimits]

\* One change that hides and reveals the same tool, sets and resets the limit;
\* one that hides the other tool and only widens.
MCChangeSets ==
  { [ hide |-> {extra}, reveal |-> {extra},
      widen |-> [limit \in {quota} |-> 3], narrow |-> [limit \in {quota} |-> 2] ],
    [ hide |-> MCTools, reveal |-> {},
      widen |-> [limit \in {quota} |-> 3], narrow |-> NoLimits ] }

MCApprovalSet == Reveal({extra})

\* A full history for one session, a short one for the other.
MCMaxLog == s1 :> 3 @@ s2 :> 2

MCSymmetry == Permutations(OverlayIds)
=============================================================================
