----------------------------- MODULE Subsequences -----------------------------
(***************************************************************************)
(* What a comprehension with a condition leaves of a list: the elements at *)
(* the places I, in their order.  SelectSeq says the same by a recursion   *)
(* that nothing can be proved about.                                       *)
(***************************************************************************)
EXTENDS Integers, Sequences, FiniteSets

\* How many of the places come no later than i.
Rank(I, i) == Cardinality({j \in I : j <= i})

Subsequence(s, I) ==
    [k \in 1..Cardinality(I) |-> s[CHOOSE i \in I : Rank(I, i) = k]]

\* A list without the occurrences of a value.
Without(s, x) == Subsequence(s, {i \in 1..Len(s) : s[i] # x})
=============================================================================
