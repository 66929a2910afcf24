---------------------------- MODULE Subsequences ----------------------------
(* What is left of a sequence at some of its positions, in their order. *)
EXTENDS Integers, Sequences, FiniteSets

\* How many positions of I come up to i.
Rank(I, i) == Cardinality({j \in I : j <= i})

\* The elements of s at the positions in I, which SelectSeq finds by a test.
Selected(s, I) == [k \in 1..Cardinality(I) |-> s[CHOOSE i \in I : Rank(I, i) = k]]
=============================================================================
