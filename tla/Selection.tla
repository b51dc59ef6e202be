------------------------------- MODULE Selection -------------------------------
(* What a query or a filter leaves of an ordered list, the numbers of a set in  *)
(* order, and the total of a set's sizes.  Written by counting, with no         *)
(* recursion, so that their laws can be proved (Selection_proofs).              *)
EXTENDS Naturals, Sequences, FiniteSets

\* The n-th smallest number of a finite set P.
Below(P, x) == {y \in P : y < x}
Nth(P, n) == CHOOSE x \in P : Cardinality(Below(P, x)) = n - 1

\* The numbers of a finite set, the largest first.
Descending(P) == [n \in 1..Cardinality(P) |-> Nth(P, Cardinality(P) + 1 - n)]

\* The elements of s that are in K, in the order of s.
PlacesIn(s, K) == {i \in 1..Len(s) : s[i] \in K}
Selected(s, K) == [n \in 1..Cardinality(PlacesIn(s, K)) |-> s[Nth(PlacesIn(s, K), n)]]

\* The sum of w[x] over the x of S: the units of each, counted.
UnitsOf(w, S) == UNION {{x} \X (1..w[x]) : x \in S}
TotalOf(w, S) == Cardinality(UnitsOf(w, S))
=============================================================================
