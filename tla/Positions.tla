----------------------------- MODULE Positions -----------------------------
(***************************************************************************)
(* What a loop that appends makes of a sequence: the elements at some of   *)
(* its positions, in their order.  Said without recursion, so that the     *)
(* modules that use it can be reasoned about.                              *)
(***************************************************************************)
EXTENDS Naturals, Sequences, FiniteSets

\* The numbers of a finite set in ascending order.
Ordered(S) == [k \in 1..Cardinality(S) |-> CHOOSE x \in S : Cardinality({y \in S : y < x}) = k - 1]

Picked(s, positions) ==
    LET at == Ordered(positions) IN [k \in 1..Cardinality(positions) |-> s[at[k]]]
============================================================================
