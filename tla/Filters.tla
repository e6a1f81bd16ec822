------------------------------- MODULE Filters -------------------------------
(* What is left of a sequence when some of its elements are dropped.        *)
EXTENDS Integers, FiniteSets

\* The numbers of a finite set, in order.
InOrder(S) ==
  [k \in 1 .. Cardinality(S) |-> CHOOSE n \in S : Cardinality({m \in S : m <= n}) = k]

\* What a sequence holds at the places of S.
At(seq, S) == [k \in 1 .. Cardinality(S) |-> seq[InOrder(S)[k]]]
=============================================================================
