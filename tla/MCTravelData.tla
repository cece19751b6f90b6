---------------------------- MODULE MCTravelData ----------------------------
(* The coordinator with two fallbacks, one of which does not cover the input. *)
EXTENDS TravelData

MCFallbacks == <<"second", "third">>
MCUncovered == {<<"second", "here">>}
MCFallbackOn == {"unavailable", "circuit_open", "unsupported"}
=============================================================================
