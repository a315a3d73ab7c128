------------------------------ MODULE Sorting -------------------------------
(* sorted() of a finite set of numbers.                                    *)
EXTENDS Integers, FiniteSets

Below(S, x) == {y \in S : y < x}

(* The k-th element has k - 1 smaller ones.                                *)
Ascending(S) ==
  [k \in 1 .. Cardinality(S) |-> CHOOSE x \in S : Cardinality(Below(S, x)) = k - 1]
=============================================================================
