-------------------------------- MODULE Orders --------------------------------
(* Sorting, by what it results in.                                            *)
EXTENDS Naturals, FiniteSets

(* A finite set as a list, in a strict total order of it.                     *)
InOrder(S, Before(_, _)) ==
  [i \in 1..Cardinality(S) |-> CHOOSE x \in S : Cardinality({y \in S : Before(y, x)}) = i - 1]

Rising(S) == InOrder(S, LAMBDA i, j : i < j)
=============================================================================
