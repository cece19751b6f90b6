----------------------- MODULE MCItineraryGeneration -----------------------
(***************************************************************************)
(* ItineraryGeneration for TLC.  The configurations choose how many runs   *)
(* the trip has and how often the traveller and the infrastructure         *)
(* interfere: Generation.cfg has two rival runs and no faults,             *)
(* GenerationOverlap.cfg one run with overlapping executions.              *)
(***************************************************************************)
EXTENDS ItineraryGeneration, TLC

=============================================================================
