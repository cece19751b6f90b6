----------------------------- MODULE TripPages -----------------------------
(***************************************************************************)
(* A browser tab on one trip: the planner of apps/web/app/plan, by hand or *)
(* from a sentence, or the workspace of apps/web/app/trips.  The pages     *)
(* share nothing but the trip that the API keeps (TripRepository); what    *)
(* the workspace owes, ViewIsSaved and AppliedAsSeen, and the planner from *)
(* a sentence, QueuedAsReviewed, is stated in their modules.               *)
(***************************************************************************)
EXTENDS ItineraryWorkspace, GuidedPlanner, NaturalPlanner

VARIABLE open   \* the page in the tab

natural == <<run, asked>>
tab == <<saved, open, page, guided, natural>>

\* No trip yet.
Unmade ==
  /\ exists = FALSE /\ revision = 1 /\ audited = {} /\ clashed = FALSE
  /\ \E s \in Starts : date = s.date /\ text = s.text
  /\ \E n \in Dates : range = [from |-> n, to |-> n]
  /\ place = [x \in Rows |-> At("unsaved", 0)]

Closed == [phase |-> "left", step |-> "details", url |-> FALSE]
Open(p) == CASE
    p = "workspace" -> Init /\ PageOpens /\ GuidedOpens(Closed)
  [] p = "guided" -> (Init \/ Unmade) /\ PageOpens /\ GuidedOpens([Closed EXCEPT !.phase = "loading", !.url = exists])
  [] p = "natural" -> Unmade /\ PageOpens /\ GuidedOpens(Closed)

PagesInit == \E p \in {"workspace", "guided", "natural"} : open = p /\ Open(p) /\ NaturalInit

WorkspaceStep == open = "workspace" /\ PageNext /\ UNCHANGED <<open, guided, natural>>
GuidedStep == open = "guided" /\ GuidedNext /\ UNCHANGED <<open, page, natural>>
NaturalStep == open = "natural" /\ NaturalNext /\ UNCHANGED <<open, page, guided>>
PagesNext == WorkspaceStep \/ GuidedStep \/ NaturalStep

PagesSpec ==
  /\ PagesInit /\ [][PagesNext]_tab
  /\ PageFairness /\ GuidedFairness /\ NaturalFairness

---------------------------------------------------------------------------
\* GuidedPlanner: what the page announces as saved is saved as planned, the
\* page knows the trip at every revision it holds, and a save that nobody
\* crosses asks for nothing the API refuses.
PlanIsSaved == open = "guided" => SavedAsPlanned /\ PageKnowsTrip /\ CallsFit

\* Nothing waits for ever: a change in the workspace, a load, review or save of
\* the planner by hand, a generation followed by the other.
Waiting == Changing \/ Saving \/ Following
PagesSettle == Waiting ~> ~Waiting
=============================================================================
