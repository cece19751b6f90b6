------------------------- MODULE MCLiveConditions -------------------------
(* Two dates at one place, one at another; both items at one date, at two  *)
(* dates or places, or one of them nowhere; weather severe everywhere or   *)
(* on one date, and uncertain.                                             *)
EXTENDS LiveConditions
MCSlots == {<<1, 1>>, <<1, 2>>, <<2, 1>>}
MCPlans == {<<<<1, 1>>, s>> : s \in MCSlots} \union {<<<<1, 2>>, <<>>>>}
MCWeathers ==
  {[severe |-> s, sure |-> TRUE] : s \in {MCSlots, {<<1, 1>>}}} \union {[severe |-> MCSlots, sure |-> FALSE]}
=============================================================================
