----------------------------- MODULE OverlayStack -----------------------------
(***************************************************************************)
(* What the overlays of the control plane promise: each session has a      *)
(* stack of them.  An overlay is put on top of the stack of one session,   *)
(* leaves it once (detached or expired) and never comes back; the others   *)
(* keep their order, which decides who takes precedence.                   *)
(***************************************************************************)
EXTENDS Sequences, Naturals, Positions

CONSTANTS Sessions, OverlayIds

VARIABLES
  stack,  \* per session its overlays in effect, the strongest last
  used    \* ids of all overlays there ever were

stackVars == <<stack, used>>

Init ==
  /\ stack = [s \in Sessions |-> <<>>]
  /\ used = {}

Attach(s, o) ==
  /\ o \notin used
  /\ used' = used \cup {o}
  /\ stack' = [stack EXCEPT ![s] = Append(@, o)]

\* An overlay so short-lived that it ends before it takes effect.
Miss(o) ==
  /\ o \notin used
  /\ used' = used \cup {o}
  /\ UNCHANGED stack

\* The clock may end any number of overlays at once.
End(ended) ==
  /\ stack' = [s \in Sessions |->
                 Part(stack[s], {k \in DOMAIN stack[s] : stack[s][k] \notin ended})]
  /\ UNCHANGED used

Next ==
  \/ \E o \in OverlayIds : Miss(o) \/ \E s \in Sessions : Attach(s, o)
  \/ \E ended \in SUBSET OverlayIds : End(ended)

Spec == Init /\ [][Next]_stackVars
=============================================================================
