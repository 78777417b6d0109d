----------------------------- MODULE Subsequence -----------------------------
(* Selecting from a list by position, which is what a Go loop that appends *)
(* the elements it wants to keep does.  The definitions are in closed form *)
(* so that they can be reasoned about.                                     *)
EXTENDS Naturals, Sequences, FiniteSets

\* The elements of a set of naturals up to i, and its n-th element.
upTo(set, i) == {j \in set : j <= i}

nth(set, n) == CHOOSE i \in set : Cardinality(upTo(set, i)) = n

\* The elements of s at the given places, in their order.
subsequence(s, places) == [n \in 1..Cardinality(places) |-> s[nth(places, n)]]
=============================================================================
