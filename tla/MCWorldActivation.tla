-------------------------- MODULE MCWorldActivation --------------------------
(***************************************************************************)
(* A small instance of WorldActivation for TLC: two worlds, one of which   *)
(* has a narrower content that an edit may give it.                        *)
(***************************************************************************)
EXTENDS WorldActivation

CONSTANTS count, freq, send, bal, strict

MCManifests ==
  {[id |-> bal, version |-> 1, allowed |-> {count, freq, send}],
   [id |-> strict, version |-> 1, allowed |-> {count, freq}],
   [id |-> strict, version |-> 1, allowed |-> {count}]}
=============================================================================
