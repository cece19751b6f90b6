--------------------------- MODULE GuidedPlanner ---------------------------
(***************************************************************************)
(* The page that plans a trip by hand (apps/web/components/                *)
(* guided-trip-planner.tsx).  Its user chooses dates and stops, reviews    *)
(* them and saves; saving is a sequence of requests, each with the         *)
(* revision the last answer gave: the trip, the stops to drop, the stops   *)
(* to move or add, the missing days.  The page may be left or reloaded     *)
(* between any two; requests and answers get lost; others edit the trip.   *)
(***************************************************************************)
EXTENDS TripRepository, SequencesExt

CONSTANTS
  None,        \* no saved row
  Ranges,      \* the dates entered
  MaxStops,    \* stops the page admits (10)
  MaxTries     \* bound on the saves tried in a row (after a success the page is as
               \* if loaded) and the changes others make beside them

ASSUME FormAssumption == Ranges \subseteq [from : Dates, to : Dates] /\ None \notin Stops

VARIABLES
  guide,    \* [phase, step, url]: what is rendered, and whether the URL names the trip
  plan,     \* the form: its dates and the stops chosen, each with the row it is saved in
  link,     \* what the page knows of the saved trip: revision, stops in order, dates with a day
  work,     \* the review or save under way
  told,     \* the outcome announced: "none", "saved" or "opened"
  crossed,  \* the form changed while their details were fetched for the review
  saves, others

guided == <<guide, plan, link, work, told, crossed, saves, others>>

NoWork == [kind |-> "none"]
NoLink == [id |-> FALSE, rev |-> 0, known |-> <<>>, days |-> {}]
NoPlan == [from |-> 1, to |-> 0, chosen |-> <<>>]   \* no dates entered

SavedDates == {date[d] : d \in Under(place, "days")}
SavedStops == List("stops")
Link == [id |-> TRUE, rev |-> revision, known |-> SavedStops, days |-> SavedDates]

Phase(p) == guide' = [guide EXCEPT !.phase = p]

---------------------------------------------------------------------------
\* load: the saved trip when the URL names one, else an empty form.
PlanLoaded ==
  /\ guide.phase = "loading" /\ (guide.url => exists)
  /\ IF guide.url
     THEN /\ link' = Link
          /\ plan' = [from |-> range.from, to |-> range.to,
                      chosen |-> [i \in DOMAIN SavedStops |-> [stop |-> SavedStops[i], row |-> SavedStops[i]]]]
     ELSE UNCHANGED <<link, plan>>
  /\ Phase("ready") /\ told' = "none" /\ crossed' = FALSE
  /\ UNCHANGED <<saved, work, saves, others>>

PlanUnavailable ==
  /\ guide.phase = "loading"
  /\ Phase("unavailable")
  /\ UNCHANGED <<saved, plan, link, work, told, crossed, saves, others>>

TryAgain ==
  /\ guide.phase = "unavailable"
  /\ Phase("loading")
  /\ UNCHANGED <<saved, plan, link, work, told, crossed, saves, others>>

\* The browser reloads the page in the middle of a save, or the page is opened
\* again; the URL names the trip once a save is through, and from the dashboard.
Revisit == \E url \in BOOLEAN :
  /\ work.kind = "save" \/ guide.phase = "left"
  /\ url => exists
  /\ guide' = [phase |-> "loading", step |-> "details", url |-> url]
  /\ plan' = NoPlan /\ link' = NoLink /\ work' = NoWork /\ told' = "none" /\ crossed' = FALSE
  /\ UNCHANGED <<saved, saves, others>>

---------------------------------------------------------------------------
\* The form stays open to changes while a review awaits its answers (bound:
\* to one).
Edit(form) ==
  /\ guide.phase \in {"ready", "reviewing"} /\ guide.step = "details"
  /\ saves < MaxTries /\ ~(guide.phase = "reviewing" /\ crossed)
  /\ form # plan /\ plan' = form /\ told' = "none"
  /\ crossed' = (crossed \/ guide.phase = "reviewing")
  /\ UNCHANGED <<saved, guide, link, work, saves, others>>

Update == \E r \in Ranges : Edit([plan EXCEPT !.from = r.from, !.to = r.to])

AddDestination == \E x \in Stops :
  /\ \A e \in ToSet(plan.chosen) : e.stop # x
  /\ Len(plan.chosen) < MaxStops
  /\ Edit([plan EXCEPT !.chosen = Append(@, [stop |-> x, row |-> None])])

MoveDestination == \E i \in 1 .. Len(plan.chosen) - 1 :
  Edit([plan EXCEPT !.chosen = [@ EXCEPT ![i] = plan.chosen[i + 1], ![i + 1] = plan.chosen[i]]])

RemoveDestination == \E i \in DOMAIN plan.chosen :
  Edit([plan EXCEPT !.chosen = RemoveAt(@, i)])

Valid == plan.from <= plan.to /\ plan.chosen # <<>>

\* review: the details of every stop, asked for together.
Review ==
  /\ guide.phase = "ready" /\ guide.step = "details" /\ Valid /\ saves < MaxTries
  /\ Phase("reviewing")
  /\ work' = [kind |-> "review", asked |-> plan.chosen]
  /\ UNCHANGED <<saved, plan, link, told, crossed, saves, others>>

\* The details go to the stops by their position.
Reviewed ==
  /\ work.kind = "review"
  /\ plan' = [plan EXCEPT !.chosen = [i \in DOMAIN @ |->
       IF i \in DOMAIN work.asked THEN [@[i] EXCEPT !.stop = work.asked[i].stop] ELSE @[i]]]
  /\ guide' = [guide EXCEPT !.phase = "ready", !.step = "review"]
  /\ work' = NoWork
  /\ UNCHANGED <<saved, link, told, crossed, saves, others>>

ReviewFails ==
  /\ work.kind = "review"
  /\ Phase("ready") /\ work' = NoWork
  /\ UNCHANGED <<saved, plan, link, told, crossed, saves, others>>

\* Back to the form, by its button or because a time zone is missing.
BackToDetails ==
  /\ guide.phase = "ready" /\ guide.step = "review"
  /\ guide' = [guide EXCEPT !.step = "details"]
  /\ UNCHANGED <<saved, plan, link, work, told, crossed, saves, others>>

---------------------------------------------------------------------------
\* persist: the save works on the stops and days the page knew when it began.
Persist(opens) ==
  /\ guide.phase = "ready" /\ guide.step = "review" /\ Valid /\ saves + others < MaxTries
  /\ Phase("saving") /\ saves' = saves + 1 /\ told' = "none"
  /\ work' = [kind |-> "save", open |-> opens, trip |-> FALSE,
              list |-> plan.chosen, known |-> link.known, days |-> link.days]
  /\ UNCHANGED <<saved, plan, link, crossed, others>>

First(S) == CHOOSE n \in S : \A m \in S : n <= m
KeptRows(w) == {e.row : e \in ToSet(w.list)}

\* Mutant: a stop that is already saved counts as in place.
MisplacedUnsaved(w) == {i \in DOMAIN w.list : w.list[i].row = None}
Misplaced(w) == {i \in DOMAIN w.list : ~(i \in DOMAIN w.known /\ w.known[i] = w.list[i].row)}

\* syncDestinations and the loop over the days: the next request of a save.
NextCall(w) ==
  LET drop == {i \in DOMAIN w.known : w.known[i] \notin KeptRows(w)}
      days == {n \in plan.from .. plan.to : n \notin w.days}
      i == First(Misplaced(w))
  IN IF ~w.trip THEN [op |-> "trip"]
     ELSE IF drop # {} THEN [op |-> "drop", row |-> w.known[CHOOSE k \in drop : \A m \in drop : m <= k]]
     ELSE IF Misplaced(w) # {}
     THEN IF w.list[i].row = None
          THEN [op |-> "add", row |-> w.list[i].stop, at |-> i] ELSE [op |-> "move", row |-> w.list[i].row, at |-> i]
     ELSE IF w.open /\ days # {} THEN [op |-> "day", date |-> First(days)]
     ELSE [op |-> "done"]

\* A day is named by its date.
CreateDayFor(rev, n, k) == \E d \in Days : date[d] = n /\ CreateDay(rev, d, n, k)

Request(c) ==
  \/ c.op = "trip" /\ IF link.id THEN UpdateTrip(link.rev, plan.from, plan.to) ELSE CreateTrip(plan.from, plan.to)
  \/ c.op = "drop" /\ DeleteDestination(link.rev, c.row)
  \/ c.op = "add" /\ CreateDestination(link.rev, c.row, c.at - 1)
  \/ c.op = "move" /\ UpdateDestination(link.rev, c.row, c.row, c.at - 1)
  \/ c.op = "day" /\ CreateDayFor(link.rev, c.date, c.date - plan.from)

\* What the save and the page make of an answer; a row is in a list once.
Taking(s, x) == RemoveAt(s, CHOOSE j \in DOMAIN s : s[j] = x)
After(w, c) ==
  LET known == IF c.op = "drop" THEN Taking(w.known, c.row)
               ELSE IF c.op = "add" THEN InsertAt(w.known, c.at, c.row)
               ELSE IF c.op = "move" THEN InsertAt(Taking(w.known, c.row), c.at, c.row) ELSE w.known
  IN [w EXCEPT !.trip = TRUE, !.known = known,
        !.days = IF c.op = "day" THEN @ \union {c.date} ELSE @,
        !.list = IF c.op = "add" THEN [@ EXCEPT ![c.at] = [stop |-> w.list[c.at].stop, row |-> c.row]] ELSE @]

SaveAnswered ==
  LET c == NextCall(work) IN
  /\ work.kind = "save" /\ Request(c)
  /\ work' = After(work, c)
  /\ plan' = [plan EXCEPT !.chosen = work'.list]
  /\ link' = IF c.op = "trip" THEN Link' ELSE
       [id |-> TRUE, rev |-> revision', known |-> work'.known, days |-> IF c.op = "day" THEN work'.days ELSE link.days]
  /\ UNCHANGED <<guide, told, crossed, saves, others>>

SaveEnds == work' = NoWork /\ Phase("ready")

\* The API refuses, or the request or its answer is lost.
SaveFails ==
  /\ work.kind = "save" /\ SaveEnds
  /\ UNCHANGED <<saved, plan, link, told, crossed, saves, others>>
AnswerLost ==
  /\ work.kind = "save" /\ Request(NextCall(work)) /\ SaveEnds
  /\ UNCHANGED <<plan, link, told, crossed, saves, others>>

\* A draft stays on the page, under the URL of the trip; a trip that got its
\* days opens in the workspace.
Finish ==
  /\ work.kind = "save" /\ NextCall(work).op = "done"
  /\ told' = IF work.open THEN "opened" ELSE "saved"
  /\ work' = NoWork
  /\ guide' = [guide EXCEPT !.url = TRUE,
       !.phase = IF work.open THEN "left" ELSE IF guide.url THEN "ready" ELSE "loading"]
  /\ saves' = MaxTries
  /\ UNCHANGED <<saved, plan, link, crossed, others>>

---------------------------------------------------------------------------
\* Another tab or client: stops, a new day, other dates, the end of the trip.
\* What happens before a save makes the page as stale as what happens in it.
OthersEdit ==
  /\ work.kind = "save" /\ saves + others < MaxTries /\ others' = others + 1
  /\ \/ StopRoutes \/ TripRoutes
     \/ \E n \in Dates, k \in 0 .. Cardinality(Days) : CreateDayFor(revision, n, k)
  /\ UNCHANGED <<guide, plan, link, work, told, crossed, saves>>

GuidedOpens(g) ==
  /\ guide = g /\ plan = NoPlan /\ link = NoLink /\ work = NoWork /\ told = "none"
  /\ crossed = FALSE /\ saves = 0 /\ others = 0

Forms == Update \/ AddDestination \/ MoveDestination \/ RemoveDestination
Ends == PlanUnavailable \/ ReviewFails \/ SaveFails
GuidedNext ==
  \/ TryAgain \/ Revisit \/ Forms \/ Review \/ BackToDetails \/ (\E opens \in BOOLEAN : Persist(opens))
  \/ PlanLoaded \/ Reviewed \/ SaveAnswered \/ AnswerLost \/ Finish \/ Ends \/ OthersEdit

\* A fetch ends, at worst without an answer.
GuidedFairness == WF_<<saved, guided>>(Ends)

---------------------------------------------------------------------------
\* When the page says that a plan is saved, or opens it, and nobody changed
\* the trip since, the trip has its dates, its stops in their order and, when
\* opened, a day for every date: whatever an earlier save that failed half-way
\* left behind.  A stop that moved during a review may have taken another's
\* place (see crossed); its row still stands where the page shows it.
SavedAsPlanned == told # "none" /\ exists /\ link.rev = revision =>
  /\ range = [from |-> plan.from, to |-> plan.to]
  /\ SavedStops = [i \in DOMAIN plan.chosen |-> IF crossed THEN plan.chosen[i].row ELSE plan.chosen[i].stop]
  /\ told = "opened" => SavedDates = plan.from .. plan.to

\* A page at the trip's revision knows the trip's stops and days, in the
\* middle of a save and after any failure.
PageKnowsTrip == link.id /\ exists /\ link.rev = revision =>
  link.known = SavedStops /\ link.days = SavedDates

\* A save at the trip's revision asks for nothing the API refuses: no position
\* past the end, no stop twice, no second day for a date.
CallsFit == work.kind = "save" /\ work.trip /\ exists /\ link.rev = revision /\ ~crossed =>
  LET c == NextCall(work) IN
  /\ c.op \in {"drop", "move"} <=> c.op # "done" /\ "row" \in DOMAIN c /\ place[c.row].in = "stops"
  /\ c.op = "move" => c.at <= Total("stops")
  /\ c.op = "add" => c.at <= Total("stops") + 1
  /\ c.op = "day" => c.date \notin SavedDates /\ c.date - plan.from <= Total("days")

\* Loading, reviewing and saving end.
Saving == guide.phase \in {"loading", "reviewing", "saving"}
=============================================================================
