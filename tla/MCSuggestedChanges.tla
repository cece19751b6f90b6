------------------------- MODULE MCSuggestedChanges -------------------------
(* SuggestedChanges for TLC: recommendations that compete for one item.      *)
EXTENDS SuggestedChanges

CONSTANT x1

\* All impacts are on one item, so that their recommendations compete for it.
OneItem == [i \in Impacts |-> x1]

=============================================================================
