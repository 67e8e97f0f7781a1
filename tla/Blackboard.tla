---------------------------- MODULE Blackboard ----------------------------
(***************************************************************************)
(* What the teams of a run share about its items: an item is known by its  *)
(* position, and the history team takes positions out of the middle.       *)
(***************************************************************************)
EXTENDS Naturals, Sequences, FiniteSets

\* The positions outside `gone`, in order, as the one increasing numbering.
Kept(items, gone) ==
    LET left == DOMAIN items \ gone IN
    {f \in [1..Cardinality(left) -> left] :
       \A i, j \in DOMAIN f : i < j => f[i] < f[j]}

\* The items at the positions a numbering keeps.
Picked(items, kept) == [i \in DOMAIN kept |-> items[kept[i]]]
=============================================================================
