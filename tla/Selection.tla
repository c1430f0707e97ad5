------------------------------- MODULE Selection -------------------------------
(***************************************************************************)
(* The loops of the code that keep some elements of a slice, by the places *)
(* that are kept: SelectSeq without its recursion, so that what is kept    *)
(* and in which order can be proved.                                       *)
(***************************************************************************)
EXTENDS Naturals, FiniteSets

\* The numbers of a finite set from the least to the greatest.
InOrder(places) ==
  [n \in 1..Cardinality(places) |->
     CHOOSE i \in places : Cardinality({j \in places : j <= i}) = n]

\* What s has in these places.
Selected(s, places) ==
  [n \in 1..Cardinality(places) |-> s[InOrder(places)[n]]]
=============================================================================
