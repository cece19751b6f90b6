-------------------------- MODULE MCAccountDeletion --------------------------
(* AccountDeletion and AccountExport for TLC: two calls, one request in      *)
(* flight, and a job.  The bound of the model: exports are asked for in      *)
(* behaviours without jobs and after the fault.                              *)
EXTENDS AccountExport

MCNext ==
  /\ ExportNext
  /\ export' # export => faults = MaxFaults /\ \A j \in Jobs : job[j].owner = "none"

MCSpec == ExportInit /\ [][MCNext]_allVars /\ \A c \in Calls : WF_vars(Advance(c))

=============================================================================
