------------------------------- MODULE Ordered -------------------------------
(***************************************************************************)
(* Selections from a sequence by place, in the order of the places.        *)
(***************************************************************************)
EXTENDS Naturals, FiniteSets

(* How many numbers of S come before n. *)
Before(S, n) == Cardinality({m \in S : m < n})

(* The numbers of a finite set, in ascending order. *)
InOrder(S) == [i \in 1 .. Cardinality(S) |-> CHOOSE n \in S : Before(S, n) = i - 1]

(* What a list has at the given places, in the order of the list. *)
Filtered(list, places) == [i \in 1 .. Cardinality(places) |-> list[InOrder(places)[i]]]
=============================================================================
