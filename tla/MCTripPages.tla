---------------------------- MODULE MCTripPages ----------------------------
(***************************************************************************)
(* The workspace opens a trip with two items on one day, and another day   *)
(* or a date for one; the planner by hand a trip of two stops and one day, *)
(* or none; the other planner none.                                        *)
(***************************************************************************)
EXTENDS TripPages

CONSTANTS plain, rome, oslo, d1, d2, i1, i2, i3

Start(pos) ==
  [place |-> pos, date |-> [d \in Days |-> IF d = d1 THEN 1 ELSE 2], text |-> [i \in Items |-> plain]]
Planned == [x \in Rows |->
  CASE x = rome -> At("stops", 0) [] x = oslo -> At("stops", 1) [] x = d1 -> At("days", 0)
    [] OTHER -> At("unsaved", 0)]
Scheduled == [x \in Rows |->
  CASE x = d1 -> At("days", 0) [] x = i1 -> At(d1, 0) [] x = i2 -> At(d1, 1)
    [] OTHER -> At("unsaved", 0)]
TwoDays == [Scheduled EXCEPT ![d2] = At("days", 1)]
MCStarts == {Start(Planned), Start(Scheduled), Start(TwoDays)}
MCRanges == {[from |-> 1, to |-> n] : n \in Dates}

MCInit == PagesInit /\ (exists =>
  IF open = "workspace" THEN place \in {Scheduled, TwoDays} /\ range = [from |-> 1, to |-> 2]
  ELSE place = Planned /\ range = [from |-> 1, to |-> 1])
MCSpec ==
  /\ MCInit /\ [][PagesNext]_tab
  /\ PageFairness /\ GuidedFairness /\ NaturalFairness
=============================================================================
