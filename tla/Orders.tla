------------------------------- MODULE Orders -------------------------------
(***************************************************************************)
(* A finite set listed in an order: what is left of a list that Python     *)
(* code sorts, or takes as it comes, and then rids of its repetitions.     *)
(***************************************************************************)
EXTENDS Naturals, FiniteSets

\* The elements of S in the strict order R, the n-th being the one that n - 1
\* others precede.
Ranked(S, R) ==
  [n \in 1..Cardinality(S) |->
     CHOOSE s \in S : Cardinality({t \in S : <<t, s>> \in R}) = n - 1]
=============================================================================
