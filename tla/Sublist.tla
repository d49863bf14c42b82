------------------------------- MODULE Sublist -------------------------------
(***************************************************************************)
(* Parts of a sequence, kept in their order.                               *)
(***************************************************************************)
EXTENDS Integers, FiniteSets

(* The n-th smallest number of S *)
Nth(S, n) == CHOOSE c \in S : Cardinality({x \in S : x <= c}) = n

(* What a sequence has at the given places *)
At(s, places) == [n \in 1..Cardinality(places) |-> s[Nth(places, n)]]
=============================================================================
