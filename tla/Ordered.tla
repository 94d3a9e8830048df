-------------------------------- MODULE Ordered --------------------------------
(***************************************************************************)
(* The loop that several components have: it goes through a list and       *)
(* appends an entry for some of its places.                                *)
(***************************************************************************)
EXTENDS Naturals, Sequences, FiniteSets, SequencesExt

\* The numbers of a set in their order.
InOrder(I, n) ==
  FoldLeft(LAMBDA found, i : IF i \in I THEN Append(found, i) ELSE found, <<>>, [i \in 1 .. n |-> i])
=============================================================================
