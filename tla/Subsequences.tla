---------------------------- MODULE Subsequences ----------------------------
(***************************************************************************)
(* The elements of a sequence at some of its places, in their order.  It   *)
(* is what SelectSeq selects, defined without recursion.                   *)
(***************************************************************************)
EXTENDS Naturals, Sequences, FiniteSets

Upto(I, i) == {j \in I : j <= i}

\* The place of i among the places I.
Rank(I, i) == Cardinality(Upto(I, i))

\* The k-th of the places I.
Nth(I, k) == CHOOSE i \in I : Rank(I, i) = k

Subsequence(s, I) == [k \in 1 .. Cardinality(I) |-> s[Nth(I, k)]]

=============================================================================
