------------------------- MODULE MCTripRepository -------------------------
(***************************************************************************)
(* Two stops, two days over three dates, three items: a trip with          *)
(* everything in it, one half planned, and one just created.               *)
(***************************************************************************)
EXTENDS TripRepository

CONSTANTS rome, oslo, d1, d2, i1, i2, i3

Dated == [d \in Days |-> IF d = d1 THEN 1 ELSE 2]
Full == [x \in Rows |->
  CASE x = rome -> At("stops", 0) [] x = oslo -> At("stops", 1)
    [] x = d1 -> At("days", 0) [] x = d2 -> At("days", 1)
    [] x = i1 -> At(d1, 0) [] x = i2 -> At(d1, 1) [] x = i3 -> At(d1, 2)]
Half == [Full EXCEPT ![oslo] = At("unsaved", 0), ![i2] = At("unsaved", 0), ![i3] = At(d2, 0)]
Empty == [x \in Rows |-> At("unsaved", 0)]
MCStarts == {[place |-> p, date |-> Dated, text |-> [i \in Items |-> CHOOSE c \in Texts : TRUE]] : p \in {Full, Half, Empty}}
=============================================================================
