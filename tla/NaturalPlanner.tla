-------------------------- MODULE NaturalPlanner --------------------------
(***************************************************************************)
(* The page that plans a trip from a sentence (apps/web/components/        *)
(* trip-planner.tsx).  The sentence is interpreted once; its user corrects *)
(* what came out of it; one button then makes the trip, adds its stops one *)
(* by one and queues a generation, which the page follows by polling until *)
(* it ends.  Runs are what ItineraryGeneration promises of them.           *)
(***************************************************************************)
EXTENDS TripRepository, Sequences

CONSTANTS
  Unmatched,   \* no candidate chosen for a destination of the sentence
  MaxRuns,     \* bound on the generations queued
  MaxDraft     \* bound on the revisions at which others change the draft

ASSUME CalendarAssumption == 1 \in Dates   \* the first date of every sentence

VARIABLES
  run,      \* the latest run of the trip: its status and the revision it was made for
  ask,      \* the page: phase, dates, a place for every destination, what it knows of the trip
  queued    \* generations queued so far

asked == <<ask, queued>>
written == <<saved, run, asked>>

NoRun == [status |-> "none", rev |-> 0]
ActiveRun == {"queued", "running"}
Sentence(places, from, to) ==
  [phase |-> "prompt", places |-> places, from |-> from, to |-> to,
   id |-> FALSE, rev |-> 0, added |-> 0, gen |-> FALSE]
NoSentence == Sentence(<<>>, 1, 0)

To(p) == ask' = [ask EXCEPT !.phase = p]

---------------------------------------------------------------------------
\* extract: the destinations and dates found, or some of them.
Extract == ask.phase = "prompt" /\ To("extracting") /\ UNCHANGED <<saved, run, queued>>

Extracted == \E n \in 1 .. 2, a \in Stops, b \in Stops \union {Unmatched}, to \in Dates \union {0} :
  /\ ask.phase = "extracting"
  /\ ask' = [Sentence(SubSeq(<<a, b>>, 1, n), 1, to) EXCEPT !.phase = "review"]
  /\ UNCHANGED <<saved, run, queued>>

ExtractFails == ask.phase = "extracting" /\ To("prompt") /\ UNCHANGED <<saved, run, queued>>

Correct ==
  /\ ask.phase = "review"
  /\ \/ \E i \in DOMAIN ask.places, x \in Stops : ask' = [ask EXCEPT !.places = [@ EXCEPT ![i] = x]]
     \/ \E to \in Dates : ask' = [ask EXCEPT !.to = to]
  /\ UNCHANGED <<saved, run, queued>>

\* validateReview
ReviewIsValid ==
  /\ ask.from <= ask.to
  /\ \A i, j \in DOMAIN ask.places : ask.places[i] # Unmatched /\ (ask.places[i] = ask.places[j] => i = j)

BeginGeneration ==
  /\ ask.phase = "review" /\ ReviewIsValid /\ queued < MaxRuns
  /\ To("saving") /\ UNCHANGED <<saved, run, queued>>

---------------------------------------------------------------------------
\* createRun and the job behind it: for the revision its caller read, while no
\* other run is active.
QueueRun(expected) ==
  /\ Locked(expected) /\ Total("stops") > 0 /\ run.status \notin ActiveRun
  /\ Bump([pos |-> place, clear |-> TRUE])
  /\ run' = [status |-> "queued", rev |-> revision']
  /\ queued' = queued + 1
  /\ UNCHANGED <<exists, range, date, text, audited>>

\* beginGeneration: each request with the revision of the last answer.  A
\* retry only queues.
Made == ask.id
AllAdded == ask.added = Len(ask.places)

Call ==
  \/ ~Made /\ CreateTrip(ask.from, ask.to) /\ UNCHANGED queued /\ run' = NoRun
  \/ Made /\ ~AllAdded /\ CreateDestination(ask.rev, ask.places[ask.added + 1], ask.added) /\ UNCHANGED <<run, queued>>
  \/ Made /\ AllAdded /\ QueueRun(ask.rev)

Answered ==
  /\ ask.phase = "saving" /\ Call
  /\ ask' = [ask EXCEPT !.id = TRUE, !.rev = revision',
       !.added = IF Made /\ ~AllAdded THEN @ + 1 ELSE @,
       !.gen = @ \/ queued' # queued,
       !.phase = IF queued' # queued THEN "generating" ELSE "saving"]

\* The API refuses, or the request or its answer is lost: the draft stays as
\* far as it got.
CallFails ==
  /\ ask.phase = "saving" /\ (Call \/ UNCHANGED <<saved, run, queued>>)
  /\ To("failed")

ReturnToPlanner == ask.phase = "failed" /\ ~ask.id /\ To("review") /\ UNCHANGED <<saved, run, queued>>

\* Mutant: a retry is offered for every saved trip.
RetryOfSaved == ask.phase \in {"failed", "cancelled"} /\ ask.id /\ queued < MaxRuns
                  /\ ask' = [ask EXCEPT !.phase = "saving", !.added = Len(ask.places)] /\ UNCHANGED <<saved, run, queued>>
Retry ==
  /\ ask.phase \in {"failed", "cancelled"} /\ ask.id /\ ask.gen /\ queued < MaxRuns
  /\ To("saving") /\ UNCHANGED <<saved, run, queued>>

---------------------------------------------------------------------------
\* The worker: a run starts, publishes when the trip is as it was queued, or
\* fails.  Cancelling spares only a published run.
RunStarts == run.status = "queued" /\ run' = [run EXCEPT !.status = "running"] /\ UNCHANGED <<saved, asked>>

RunEnds ==
  /\ run.status = "running"
  /\ \/ /\ exists /\ run.rev = revision
        /\ run' = [run EXCEPT !.status = "succeeded"]
        /\ Bump([pos |-> place, clear |-> TRUE]) /\ UNCHANGED <<exists, range, date, text, audited>>
     \/ run' = [run EXCEPT !.status = "failed"] /\ UNCHANGED saved
  /\ UNCHANGED asked

CancelRun ==
  run' = IF run.status \in {"none", "succeeded"} THEN run ELSE [run EXCEPT !.status = "cancelled"]

Cancel ==
  /\ ask.phase = "generating" /\ CancelRun /\ To("cancelled")
  /\ UNCHANGED <<saved, queued>>

CancelFails ==
  /\ ask.phase = "generating" /\ CancelRun /\ UNCHANGED <<saved, asked>>

\* The poll that finds the run ended; while it is open the page polls again,
\* and of a trip that was deleted it never hears again.
\* Mutant: a run that another tab cancelled is polled for ever.
PollUnlessCancelled ==
  /\ ask.phase = "generating" /\ run.status \in {"succeeded", "failed"}
  /\ To(IF run.status = "succeeded" THEN "left" ELSE run.status) /\ UNCHANGED <<saved, run, queued>>
PollEnds ==
  /\ ask.phase = "generating" /\ run.status \in {"succeeded", "failed", "cancelled"}
  /\ To(IF run.status = "succeeded" THEN "left" ELSE run.status)
  /\ UNCHANGED <<saved, run, queued>>

PollFails == ask.phase = "generating" /\ To("failed") /\ UNCHANGED <<saved, run, queued>>

---------------------------------------------------------------------------
\* Another tab: the draft from the dashboard is changed, deleted, generated or
\* its run cancelled.
Meanwhile ==
  /\ exists /\ ask.phase \in {"saving", "generating", "failed", "cancelled"}
  /\ \/ /\ revision < MaxDraft /\ UNCHANGED <<run, queued>>
        /\ \E x \in Stops : DeleteDestination(revision, x) \/ CreateDestination(revision, x, 0)
     \/ DeleteTrip(revision) /\ run' = NoRun /\ UNCHANGED queued
     \/ queued < MaxRuns /\ QueueRun(revision)
     \/ run.status \in ActiveRun /\ CancelRun /\ UNCHANGED <<saved, queued>>
  /\ UNCHANGED ask

NaturalInit == run = NoRun /\ ask = NoSentence /\ queued = 0

Requests == Extract \/ Correct \/ BeginGeneration \/ Answered \/ Retry \/ Cancel \/ CancelFails \/ Meanwhile
Replies == Extracted \/ ExtractFails \/ CallFails \/ ReturnToPlanner
NaturalNext == Requests \/ Replies \/ RunStarts \/ RunEnds \/ PollEnds \/ PollFails

\* A worker takes up and ends every run; the page's timer fires.
NaturalFairness == WF_written(RunStarts) /\ WF_written(RunEnds) /\ WF_written(PollEnds)

---------------------------------------------------------------------------
\* A generation that the page queues, first or by a retry, covers the trip as
\* its user reviewed it: every destination in its order, and the dates.
QueuedAsReviewed == [][ask.phase = "saving" /\ ask'.phase = "generating" =>
  /\ range = [from |-> ask.from, to |-> ask.to]
  /\ List("stops") = ask.places]_written

\* The page does not follow the run of a trip for ever: it opens the trip, or
\* tells of the end, whoever brought it about.
Following == ask.phase = "generating" /\ exists
=============================================================================
