------------------------------- MODULE Positions -------------------------------
(***************************************************************************)
(* Positions in a list, in their order, and what a list keeps of itself:   *)
(* what Python writes as a comprehension over a list, without recursion.   *)
(***************************************************************************)
EXTENDS Naturals, Sequences, FiniteSets

\* A set of positions in increasing order.
InOrder(S) ==
  [n \in 1 .. Cardinality(S) |->
     CHOOSE i \in S : Cardinality({j \in S : j <= i}) = n]

\* The elements of a list at some of its positions, in the order of the list.
Part(list, positions) ==
  [n \in 1 .. Cardinality(positions) |-> list[InOrder(positions)[n]]]
=============================================================================
