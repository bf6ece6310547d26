-------------------------------- MODULE InOrder --------------------------------
(***************************************************************************)
(* What a loop keeps of a sequence: the members at some of its positions,  *)
(* in their order.                                                         *)
(***************************************************************************)
EXTENDS Integers, FiniteSets

\* How many members of S come up to k.
Rank(S, k) == Cardinality({l \in S : l <= k})

\* The members of a finite set of integers, in ascending order.
Ascending(S) == [n \in 1..Cardinality(S) |-> CHOOSE k \in S : Rank(S, k) = n]

\* The members of s at the positions K.
Picked(s, K) == [n \in 1..Cardinality(K) |-> s[Ascending(K)[n]]]

=============================================================================
