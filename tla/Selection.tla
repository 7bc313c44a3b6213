------------------------------ MODULE Selection ------------------------------
(* What "filter" makes of a list: the entries at some places, in their order. *)
EXTENDS Naturals, Sequences, FiniteSets

\* The k of the set that i - 1 others are below.
Nth(places, i) == CHOOSE k \in places : Cardinality({j \in places : j <= k}) = i
Selected(s, places) == [i \in 1..Cardinality(places) |-> s[Nth(places, i)]]
=============================================================================
