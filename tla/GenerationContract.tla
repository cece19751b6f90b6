-------------------------- MODULE GenerationContract --------------------------
(***************************************************************************)
(* What itinerary generation promises a traveller, whatever the queue, the *)
(* workers and the provider do: a request is answered by at most one       *)
(* publication, and a draft replaces the itinerary only if the trip is     *)
(* still the one the request was made for.  No revision number, job or     *)
(* status appears here.                                                    *)
(***************************************************************************)
EXTENDS Naturals

CONSTANT Requests

VARIABLES
  alive,     \* the trip exists
  content,   \* version of the trip the traveller sees
  phase,     \* of each request: "none", "open", "published" or "void"
  basis      \* version each request was made for

cvars == <<alive, content, phase, basis>>

CInit ==
  /\ alive = TRUE /\ content = 0
  /\ phase = [r \in Requests |-> "none"]
  /\ basis = [r \in Requests |-> 0]

Edit ==
  /\ alive
  /\ content' = content + 1
  /\ UNCHANGED <<alive, phase, basis>>

Delete ==
  /\ alive /\ alive' = FALSE
  /\ phase' = [r \in Requests |-> IF phase[r] = "none" THEN "none" ELSE "void"]
  /\ UNCHANGED <<content, basis>>

Request(r) ==
  /\ alive /\ phase[r] = "none"
  /\ phase' = [phase EXCEPT ![r] = "open"]
  /\ basis' = [basis EXCEPT ![r] = content]
  /\ UNCHANGED <<alive, content>>

Answer(r) ==
  /\ alive /\ phase[r] = "open" /\ basis[r] = content
  /\ phase' = [phase EXCEPT ![r] = "published"]
  /\ content' = content + 1
  /\ UNCHANGED <<alive, basis>>

CNext == Edit \/ Delete \/ \E r \in Requests : Request(r) \/ Answer(r)

CSpec == CInit /\ [][CNext]_cvars

=============================================================================
