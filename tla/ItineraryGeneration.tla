------------------------- MODULE ItineraryGeneration -------------------------
(***************************************************************************)
(* Durable itinerary generation for one trip, end to end:                  *)
(*  - the API reserves a generation run and enqueues its job               *)
(*    (packages/jobs/src/itinerary-generation.ts), or cancels it;          *)
(*  - pg-boss delivers the job and redelivers it after a failure, a        *)
(*    timeout or a lost worker (external);                                 *)
(*  - PgBossJobRuntime.executeJob keeps the application_jobs row;          *)
(*  - ItineraryGenerationService drives begin, retrieval, the bounded      *)
(*    repair loop and the publication (packages/ai/src);                   *)
(*  - the traveller edits or deletes the trip meanwhile.                   *)
(* One execution <<r, a>> is the a-th delivery of the job of run r.  A     *)
(* timed-out execution keeps running beside its successor, because         *)
(* nothing stops a JavaScript handler; it only sees its signal aborted.    *)
(***************************************************************************)
EXTENDS Integers, FiniteSets

CONSTANTS Runs,          \* ids of generation runs, and of their jobs
          MaxAttempts,   \* policy.maxAttempts: deliveries of one job
          MaxRepairs,    \* maxRepairAttempts of every run
          MaxMoves,      \* bound: edits, deletions and cancellations by the traveller
          MaxFaults      \* bound: crashes, aborts and failed calls

ASSUME AttemptsAssumption == MaxAttempts \in Nat \ {0}
ASSUME RepairsAssumption == MaxRepairs \in 0..3
ASSUME BoundsAssumption == MaxMoves \in Nat /\ MaxFaults \in Nat

VARIABLES
  trip,    \* the trips row; content is the version of what the user sees
  run,     \* the itinerary_generation_runs rows; basis, a history variable, is
           \* the version of the trip the request was made for
  rows,    \* the itinerary_generation_attempts rows of each run
  job,     \* the application_jobs rows
  queue,   \* external: the pg-boss job of each run
  exec,    \* the handler executions, one per delivery
  api,     \* what an API request is doing about each run
  moves,   \* such moves so far
  faults   \* faults so far

vars == <<trip, run, rows, job, queue, exec, api, moves, faults>>

Attempts == 1..MaxAttempts
Execs == Runs \X Attempts

\* The statuses setStage may leave, and those the partial unique index counts.
InFlight == {"retrieving", "generating", "validating", "repairing", "persisting"}
ActiveStatus == InFlight \union {"queued"}
RunStatus == ActiveStatus \union {"absent", "succeeded", "failed", "cancelled", "deleted"}
JobStatus == {"absent", "queued", "running", "retrying", "succeeded", "cancelled",
              "dead_lettered"}
QueueState == {"absent", "created", "active", "retry", "completed", "failed", "cancelled"}
TripState == {"idle", "queued", "generating", "ready", "failed"}
Verdicts == {"none", "accepted", "rejected", "retryable", "permanent", "cancelled", "thrown"}
Phases == {"idle", "claim", "start", "begin", "retrieve", "stage", "gateway", "record",
           "persisting", "persist", "fail", "report", "return", "done", "crashed"}
ApiSteps == {"idle", "enqueue", "compensate", "cancelQueue", "cancelRow", "cancelRun"}

TripRow == [exists: BOOLEAN, revision: Nat, state: TripState, content: Nat]
RunRow == [status: RunStatus, revision: Nat, repairs: Nat, basis: Nat]
JobRow == [status: JobStatus, attempt: 0..MaxAttempts]
QueueJob == [state: QueueState, attempt: 0..MaxAttempts]
AttemptRow == [number: Nat, kind: {"initial", "repair"}, verdict: Verdicts]
Execution == [phase: Phases, aborted: BOOLEAN, offset: Nat, calls: Nat, repairs: Nat,
              snapshot: Nat, verdict: Verdicts]

TypeOK ==
  /\ trip \in TripRow
  /\ run \in [Runs -> RunRow]
  /\ rows \in [Runs -> SUBSET AttemptRow]
  /\ \A r \in Runs : IsFiniteSet(rows[r])
  /\ job \in [Runs -> JobRow]
  /\ queue \in [Runs -> QueueJob]
  /\ exec \in [Execs -> Execution]
  /\ api \in [Runs -> ApiSteps]
  /\ moves \in Nat /\ faults \in Nat

Idle == [phase |-> "idle", aborted |-> FALSE, offset |-> 0, calls |-> 0, repairs |-> 0,
         snapshot |-> 0, verdict |-> "none"]

Init ==
  /\ trip = [exists |-> TRUE, revision |-> 1, state |-> "idle", content |-> 0]
  /\ run = [r \in Runs |-> [status |-> "absent", revision |-> 0, repairs |-> 0, basis |-> 0]]
  /\ rows = [r \in Runs |-> {}]
  /\ job = [r \in Runs |-> [status |-> "absent", attempt |-> 0]]
  /\ queue = [r \in Runs |-> [state |-> "absent", attempt |-> 0]]
  /\ exec = [e \in Execs |-> Idle]
  /\ api = [r \in Runs |-> "idle"]
  /\ moves = 0 /\ faults = 0

Active(r) == run[r].status \in ActiveStatus
Exists(r) == run[r].status \notin {"absent", "deleted"}
Terminal(r) == run[r].status \in {"succeeded", "failed", "cancelled"}

Fault == faults < MaxFaults /\ faults' = faults + 1

-----------------------------------------------------------------------------
(* Writes of the run store, shared by the worker and the API.              *)

\* The trip state that finishFailure writes beside a run status.
TripStateOf(status) ==
  CASE status = "cancelled" -> "idle"
    [] status = "failed" -> "failed"
    [] status = "queued" -> "queued"

\* The partial unique index: at most one active run for the trip.
IndexAllows(r, status) ==
  status \in ActiveStatus => \A s \in Runs \ {r} : ~Active(s)

\* Mutant: a failure relabels the trip at whatever revision it is.
FinishFailureAnyRevision(r, status) ==
  IF run[r].status \in {"absent", "deleted", "succeeded"}
  THEN UNCHANGED <<trip, run>>
  ELSE /\ IndexAllows(r, status)
       /\ run' = [run EXCEPT ![r].status = status]
       /\ trip' = [trip EXCEPT !.state = TripStateOf(status)]

\* finishFailure: nothing for a missing or succeeded run, otherwise the run is
\* overwritten, and the trip too while it is still at the run's revision.
FinishFailure(r, status) ==
  IF run[r].status \in {"absent", "deleted", "succeeded"}
  THEN UNCHANGED <<trip, run>>
  ELSE /\ IndexAllows(r, status)
       /\ run' = [run EXCEPT ![r].status = status]
       /\ trip' = IF trip.revision = run[r].revision
                  THEN [trip EXCEPT !.state = TripStateOf(status)] ELSE trip

\* The same update refused by the index (23505): the transaction rolls back.
FinishFailureRefused(r, status) ==
  /\ Exists(r) /\ run[r].status # "succeeded"
  /\ ~IndexAllows(r, status)
  /\ UNCHANGED <<trip, run>>

\* setStage: a silent no-op unless the run is in flight.
SetStage(r, stage) ==
  run' = IF run[r].status \in InFlight THEN [run EXCEPT ![r].status = stage] ELSE run

-----------------------------------------------------------------------------
(* The traveller and the API.                                              *)

Move == moves < MaxMoves /\ moves' = moves + 1

\* Any itinerary or trip mutation: every one of them raises the revision.
UserEdit ==
  /\ trip.exists /\ Move
  /\ trip' = [trip EXCEPT !.revision = @ + 1, !.content = @ + 1]
  /\ UNCHANGED <<run, rows, job, queue, exec, api, faults>>

\* Deleting the trip cascades to its runs and attempts, never to its jobs.
DeleteTrip ==
  /\ trip.exists /\ Move
  /\ trip' = [trip EXCEPT !.exists = FALSE]
  /\ run' = [r \in Runs |-> IF Exists(r) THEN [run[r] EXCEPT !.status = "deleted"] ELSE run[r]]
  /\ rows' = [r \in Runs |-> {}]
  /\ UNCHANGED <<job, queue, exec, api, faults>>

\* createRun, with the revision the client has just read.
RequestGeneration(r) ==
  /\ trip.exists /\ run[r].status = "absent"
  /\ IndexAllows(r, "queued")
  /\ trip' = [trip EXCEPT !.state = "queued", !.revision = @ + 1]
  /\ run' = [run EXCEPT ![r] = [status |-> "queued", revision |-> trip.revision + 1,
                                repairs |-> 0, basis |-> trip.content]]
  /\ api' = [api EXCEPT ![r] = "enqueue"]
  /\ UNCHANGED <<rows, job, queue, exec, moves, faults>>

\* runtime.enqueue: the job row and the queue job in one transaction.
Enqueue(r) ==
  /\ api[r] = "enqueue"
  /\ job' = [job EXCEPT ![r].status = "queued"]
  /\ queue' = [queue EXCEPT ![r].state = "created"]
  /\ api' = [api EXCEPT ![r] = "idle"]
  /\ UNCHANGED <<trip, run, rows, exec, moves, faults>>

EnqueueFails(r) ==
  /\ api[r] = "enqueue" /\ Fault
  /\ api' = [api EXCEPT ![r] = "compensate"]
  /\ UNCHANGED <<trip, run, rows, job, queue, exec, moves>>

Compensate(r) ==
  /\ api[r] = "compensate"
  /\ FinishFailure(r, "failed")
  /\ api' = [api EXCEPT ![r] = "idle"]
  /\ UNCHANGED <<rows, job, queue, exec, moves, faults>>

\* PgBossJobRuntime.cancel reads the row, cancels the queue job, then writes
\* the row; cancelGeneration then writes the run.  Four separate awaits.
CancelRequest(r) ==
  /\ api[r] = "idle" /\ job[r].status \in {"queued", "running", "retrying"}
  /\ Move
  /\ api' = [api EXCEPT ![r] = "cancelQueue"]
  /\ UNCHANGED <<trip, run, rows, job, queue, exec, faults>>

CancelQueue(r) ==
  /\ api[r] = "cancelQueue"
  /\ queue' = IF queue[r].state \in {"created", "retry", "active"}
              THEN [queue EXCEPT ![r].state = "cancelled"] ELSE queue
  /\ api' = [api EXCEPT ![r] = "cancelRow"]
  /\ UNCHANGED <<trip, run, rows, job, exec, moves, faults>>

CancelRow(r) ==
  /\ api[r] = "cancelRow"
  /\ job' = [job EXCEPT ![r].status = "cancelled"]
  /\ api' = [api EXCEPT ![r] = "cancelRun"]
  /\ UNCHANGED <<trip, run, rows, queue, exec, moves, faults>>

CancelRun(r) ==
  /\ api[r] = "cancelRun"
  /\ FinishFailure(r, "cancelled")
  /\ api' = [api EXCEPT ![r] = "idle"]
  /\ UNCHANGED <<rows, job, queue, exec, moves, faults>>

\* The API process stops, or its request fails, between two of those awaits.
ApiCrash(r) ==
  /\ api[r] # "idle" /\ Fault
  /\ api' = [api EXCEPT ![r] = "idle"]
  /\ UNCHANGED <<trip, run, rows, job, queue, exec, moves>>

-----------------------------------------------------------------------------
(* External: pg-boss.                                                      *)

\* What the queue does with a delivery that failed or was lost.
Requeued(q) ==
  [q EXCEPT !.state = IF q.attempt < MaxAttempts THEN "retry" ELSE "failed"]

Holds(e) == queue[e[1]].state = "active" /\ queue[e[1]].attempt = e[2]
Running(e) == exec[e].phase \notin {"idle", "done", "crashed"}

Deliver(r) ==
  LET a == queue[r].attempt + 1 IN
  /\ queue[r].state \in {"created", "retry"} /\ a \in Attempts
  /\ queue' = [queue EXCEPT ![r] = [state |-> "active", attempt |-> a]]
  /\ exec' = [exec EXCEPT ![<<r, a>>].phase = "claim"]
  /\ UNCHANGED <<trip, run, rows, job, api, moves, faults>>

\* The handler outlives expireInSeconds: its signal is aborted and the queue
\* job is failed, whatever the handler does afterwards.
TimeOut(e) ==
  /\ Running(e) /\ ~exec[e].aborted /\ Fault
  /\ exec' = [exec EXCEPT ![e].aborted = TRUE]
  /\ queue' = IF Holds(e) THEN [queue EXCEPT ![e[1]] = Requeued(@)] ELSE queue
  /\ UNCHANGED <<trip, run, rows, job, api, moves>>

WorkerCrash(e) ==
  /\ Running(e) /\ Fault
  /\ exec' = [exec EXCEPT ![e] = [Idle EXCEPT !.phase = "crashed"]]
  /\ UNCHANGED <<trip, run, rows, job, queue, api, moves>>

\* The lease of a lost execution runs out.
Expire(e) ==
  /\ exec[e].phase = "crashed" /\ Holds(e)
  /\ queue' = [queue EXCEPT ![e[1]] = Requeued(@)]
  /\ UNCHANGED <<trip, run, rows, job, exec, api, moves, faults>>

-----------------------------------------------------------------------------
(* PgBossJobRuntime.executeJob and the job handler.                        *)

Goto(e, phase) == exec' = [exec EXCEPT ![e].phase = phase]
GotoWith(e, phase, verdict) ==
  exec' = [exec EXCEPT ![e] = [@ EXCEPT !.phase = phase, !.verdict = verdict]]
\* The service has returned or thrown: its local variables are gone.
Finish(e, phase, verdict) ==
  exec' = [exec EXCEPT ![e] = [Idle EXCEPT !.phase = phase, !.aborted = exec[e].aborted,
                                           !.verdict = verdict]]

\* The row becomes running whatever it was.
Claim(e) ==
  /\ exec[e].phase = "claim"
  /\ job' = [job EXCEPT ![e[1]] = [status |-> "running", attempt |-> e[2]]]
  /\ Goto(e, "start")
  /\ UNCHANGED <<trip, run, rows, queue, api, moves, faults>>

\* The handler looks at its signal before it calls the service.
StartHandler(e) ==
  /\ exec[e].phase = "start"
  /\ IF exec[e].aborted THEN Finish(e, "report", "cancelled") ELSE Goto(e, "begin")
  /\ UNCHANGED <<trip, run, rows, job, queue, api, moves, faults>>

\* The row status of an execution that ended with a verdict.  An aborted signal
\* wins over any of them, and only a retryable or unexpected error is retried.
RowStatus(e) ==
  LET v == exec[e].verdict IN
  IF exec[e].aborted THEN "cancelled"
  ELSE IF v = "accepted" THEN "succeeded"
  ELSE IF v \in {"retryable", "thrown"} /\ e[2] < MaxAttempts THEN "retrying"
  ELSE "dead_lettered"

\* The row is written first and whatever it was ...
Report(e) ==
  /\ exec[e].phase = "report"
  /\ job' = [job EXCEPT ![e[1]].status = RowStatus(e)]
  /\ Goto(e, "return")
  /\ UNCHANGED <<trip, run, rows, queue, api, moves, faults>>

\* ... and pg-boss hears of it afterwards, if it still waits for this delivery.
Return(e) ==
  /\ exec[e].phase = "return"
  /\ queue' = IF ~Holds(e) THEN queue
              ELSE [queue EXCEPT ![e[1]] =
                      CASE RowStatus(e) \in {"succeeded", "cancelled"} -> [@ EXCEPT !.state = "completed"]
                        [] RowStatus(e) = "retrying" -> Requeued(@)
                        [] OTHER -> [@ EXCEPT !.state = "failed"]]
  /\ Finish(e, "done", "none")
  /\ UNCHANGED <<trip, run, rows, job, api, moves, faults>>

-----------------------------------------------------------------------------
(* ItineraryGenerationService.generate, the engine and the store.          *)

\* begin refuses a finished or deleted run ...
BeginRefused(e) ==
  /\ exec[e].phase = "begin" /\ ~Active(e[1])
  /\ Finish(e, "report", "thrown")
  /\ UNCHANGED <<trip, run, rows, job, queue, api, moves, faults>>

\* ... fails a run whose trip has moved on, and the trip with it ...
BeginStale(e) ==
  LET r == e[1] IN
  /\ exec[e].phase = "begin" /\ Active(r) /\ trip.revision # run[r].revision
  /\ run' = [run EXCEPT ![r].status = "failed"]
  /\ trip' = [trip EXCEPT !.state = "failed"]
  /\ Finish(e, "report", "thrown")
  /\ UNCHANGED <<rows, job, queue, api, moves, faults>>

RepairRows(r) == {row \in rows[r] : row.kind = "repair"}

AttemptOffset(r) == Cardinality(rows[r])

\* ... or takes its snapshot of the trip and of the attempts made so far.
Begin(e) ==
  LET r == e[1] IN
  /\ exec[e].phase = "begin" /\ Active(r) /\ trip.revision = run[r].revision
  /\ run' = [run EXCEPT ![r].status = "retrieving"]
  /\ trip' = [trip EXCEPT !.state = "generating"]
  /\ exec' = [exec EXCEPT ![e] = [@ EXCEPT !.phase = "retrieve",
                                           !.offset = AttemptOffset(r),
                                           !.repairs = Cardinality(RepairRows(r)),
                                           !.snapshot = trip.content]]
  /\ UNCHANGED <<rows, job, queue, api, moves, faults>>

\* Grounding was found, and recordGrounding noted it on the run.
Retrieve(e) ==
  /\ exec[e].phase = "retrieve"
  /\ Goto(e, "stage")
  /\ UNCHANGED <<trip, run, rows, job, queue, api, moves, faults>>

\* No evidence at all: a permanent failure.
RetrieveEmpty(e) ==
  /\ exec[e].phase = "retrieve"
  /\ Finish(e, "fail", "permanent")
  /\ UNCHANGED <<trip, run, rows, job, queue, api, moves, faults>>

\* The retriever threw: the run is finished, then the error is thrown again.
RetrieveFails(e) ==
  /\ exec[e].phase = "retrieve" /\ Fault
  /\ Finish(e, "fail", "thrown")
  /\ UNCHANGED <<trip, run, rows, job, queue, api, moves>>

\* The next call is the first candidate, or a repair of the previous one.
Kind(e) == IF exec[e].calls = 0 THEN "initial" ELSE "repair"

\* repairs += 1, where begin filled repairs from an unmapped count(*): node-postgres
\* returns a bigint as text, so the addition appends the digit 1.
NextRepair(n) == 10 * n + 1

Called(e) ==
  [exec[e] EXCEPT !.phase = "gateway",
                  !.repairs = IF Kind(e) = "repair" THEN NextRepair(@) ELSE @]

Stage(e) ==
  /\ exec[e].phase = "stage"
  /\ SetStage(e[1], IF Kind(e) = "initial" THEN "generating" ELSE "repairing")
  /\ exec' = [exec EXCEPT ![e] = Called(e)]
  /\ UNCHANGED <<trip, rows, job, queue, api, moves, faults>>

\* A candidate comes back and is validated.
GatewayAnswers(e) ==
  /\ exec[e].phase = "gateway" /\ ~exec[e].aborted
  /\ SetStage(e[1], "validating")
  /\ \E verdict \in {"accepted", "rejected"} : GotoWith(e, "record", verdict)
  /\ UNCHANGED <<trip, rows, job, queue, api, moves, faults>>

\* A provider error; a signal aborted by the runtime makes it "cancelled".
GatewayFails(e) ==
  /\ exec[e].phase = "gateway"
  /\ \E verdict \in IF exec[e].aborted THEN {"cancelled"} ELSE {"retryable", "permanent"} :
       GotoWith(e, "record", verdict)
  /\ UNCHANGED <<trip, run, rows, job, queue, api, moves, faults>>

Larger(m, n) == IF m >= n THEN m ELSE n

\* What the engine does once an attempt is recorded.
AfterAttempt(x) ==
  CASE x.verdict = "accepted" -> [x EXCEPT !.phase = "persisting"]
    [] x.verdict = "rejected" /\ x.repairs < MaxRepairs -> [x EXCEPT !.phase = "stage"]
    [] x.verdict = "rejected" /\ x.repairs >= MaxRepairs ->
         [Idle EXCEPT !.phase = "fail", !.aborted = x.aborted, !.verdict = "permanent"]
    [] OTHER -> [Idle EXCEPT !.phase = "fail", !.aborted = x.aborted, !.verdict = x.verdict]

Counted(x) == [x EXCEPT !.calls = @ + 1]

\* recordAttempt: the row is skipped if its number is taken, and the repair
\* counter of the run may only grow.
RecordAttempt(e) ==
  LET r == e[1]
      number == exec[e].offset + exec[e].calls + 1
      row == [number |-> number, kind |-> Kind(e), verdict |-> exec[e].verdict]
  IN
  /\ exec[e].phase = "record" /\ Exists(r)
  /\ Kind(e) = "repair" => exec[e].repairs <= MaxRepairs
  /\ rows' = IF \E old \in rows[r] : old.number = number THEN rows
             ELSE [rows EXCEPT ![r] = @ \union {row}]
  /\ run' = IF Kind(e) = "repair"
            THEN [run EXCEPT ![r].repairs = Larger(@, exec[e].repairs)] ELSE run
  /\ exec' = [exec EXCEPT ![e] = AfterAttempt(Counted(exec[e]))]
  /\ UNCHANGED <<trip, job, queue, api, moves, faults>>

\* The run is gone, or the repair bounds check refuses the counter.
RecordAttemptRefused(e) ==
  /\ exec[e].phase = "record"
  /\ ~Exists(e[1]) \/ (Kind(e) = "repair" /\ exec[e].repairs > MaxRepairs)
  /\ Finish(e, "report", "thrown")
  /\ UNCHANGED <<trip, run, rows, job, queue, api, moves, faults>>

SetPersisting(e) ==
  /\ exec[e].phase = "persisting"
  /\ SetStage(e[1], "persisting")
  /\ Goto(e, "persist")
  /\ UNCHANGED <<trip, rows, job, queue, api, moves, faults>>

\* Mutant: the revision is not compared again at publication.
MayPublishAnyRevision(e) ==
  /\ run[e[1]].status = "persisting"
  /\ exec[e].repairs <= MaxRepairs

\* The conditions under which persistSuccess replaces the itinerary; the last
\* is the repair bounds check of the table.
MayPublish(e) ==
  /\ run[e[1]].status = "persisting"
  /\ trip.revision = run[e[1]].revision
  /\ exec[e].repairs <= MaxRepairs

Publish(e) ==
  LET r == e[1] IN
  /\ exec[e].phase = "persist" /\ MayPublish(e)
  /\ run' = [run EXCEPT ![r] = [@ EXCEPT !.status = "succeeded", !.repairs = exec[e].repairs]]
  /\ trip' = [trip EXCEPT !.state = "ready", !.revision = @ + 1, !.content = @ + 1]
  /\ Finish(e, "report", exec[e].verdict)
  /\ UNCHANGED <<rows, job, queue, api, moves, faults>>

\* Mutant: persistSuccess returns quietly for every finished run.
AlreadyFinished(e) ==
  /\ exec[e].phase = "persist" /\ Terminal(e[1])
  /\ Finish(e, "report", exec[e].verdict)
  /\ UNCHANGED <<trip, run, rows, job, queue, api, moves, faults>>

\* Another execution has published this run: persistSuccess returns quietly.
AlreadyPublished(e) ==
  /\ exec[e].phase = "persist" /\ run[e[1]].status = "succeeded"
  /\ Finish(e, "report", exec[e].verdict)
  /\ UNCHANGED <<trip, run, rows, job, queue, api, moves, faults>>

PublishRefused(e) ==
  /\ exec[e].phase = "persist" /\ run[e[1]].status # "succeeded" /\ ~MayPublish(e)
  /\ Finish(e, "report", "thrown")
  /\ UNCHANGED <<trip, run, rows, job, queue, api, moves, faults>>

\* Mutant: the last attempt leaves the run queued for a next one.
FailureStatusOffByOne(e) ==
  LET v == exec[e].verdict IN
  IF v = "cancelled" \/ (v = "thrown" /\ exec[e].aborted) THEN "cancelled"
  ELSE IF v = "retryable" /\ e[2] <= MaxAttempts THEN "queued"
  ELSE "failed"

\* The run status a failed execution asks for.
FailureStatus(e) ==
  LET v == exec[e].verdict IN
  IF v = "cancelled" \/ (v = "thrown" /\ exec[e].aborted) THEN "cancelled"
  ELSE IF v = "retryable" /\ e[2] < MaxAttempts THEN "queued"
  ELSE "failed"

FailRun(e) ==
  /\ exec[e].phase = "fail"
  /\ \/ FinishFailure(e[1], FailureStatus(e)) /\ Finish(e, "report", exec[e].verdict)
     \/ FinishFailureRefused(e[1], FailureStatus(e)) /\ Finish(e, "report", "thrown")
  /\ UNCHANGED <<rows, job, queue, api, moves, faults>>

\* A store call fails, or a place of the draft was retired before publication:
\* the service has no handler, so the error reaches executeJob as it is.
StoreFails(e) ==
  /\ exec[e].phase \in {"begin", "stage", "record", "persisting", "persist", "fail"}
  /\ Fault
  /\ Finish(e, "report", "thrown")
  /\ UNCHANGED <<trip, run, rows, job, queue, api, moves>>

-----------------------------------------------------------------------------

\* Everything the worker does of its own accord.
Work(e) ==
  \/ Claim(e) \/ StartHandler(e)
  \/ BeginRefused(e) \/ BeginStale(e) \/ Begin(e)
  \/ Retrieve(e) \/ RetrieveEmpty(e)
  \/ Stage(e) \/ GatewayAnswers(e) \/ GatewayFails(e)
  \/ RecordAttempt(e) \/ RecordAttemptRefused(e)
  \/ SetPersisting(e) \/ Publish(e) \/ AlreadyPublished(e) \/ PublishRefused(e)
  \/ FailRun(e) \/ Report(e) \/ Return(e)

Disturb(e) == TimeOut(e) \/ WorkerCrash(e) \/ RetrieveFails(e) \/ StoreFails(e)

Serve(r) ==
  \/ Enqueue(r) \/ Compensate(r)
  \/ CancelQueue(r) \/ CancelRow(r) \/ CancelRun(r)

Next ==
  \/ UserEdit \/ DeleteTrip
  \/ \E r \in Runs :
       \/ RequestGeneration(r) \/ CancelRequest(r) \/ EnqueueFails(r) \/ ApiCrash(r)
       \/ Serve(r) \/ Deliver(r)
  \/ \E e \in Execs : Work(e) \/ Expire(e) \/ Disturb(e)

Spec == Init /\ [][Next]_vars

\* Worker processes poll and run, pg-boss maintenance runs, and an API request
\* that has been accepted is carried through unless its process stops.
Fairness ==
  /\ \A r \in Runs : WF_vars(Serve(r)) /\ WF_vars(Deliver(r))
  /\ \A e \in Execs : WF_vars(Work(e)) /\ WF_vars(Expire(e))

FairSpec == Spec /\ Fairness

-----------------------------------------------------------------------------

\* A draft is made from the trip that begin read.  It replaces the itinerary
\* only if nothing the traveller sees has changed since (persistSuccess).
NoLostEdit ==
  [][\A e \in Execs : Publish(e) => exec[e].snapshot = trip.content]_vars

\* finishFailure, begin and setStage of a late or repeated execution never undo
\* a publication: a succeeded run stays so as long as its trip exists.
SucceededIsFinal ==
  [][\A r \in Runs : run[r].status = "succeeded" => run'[r].status \in {"succeeded", "deleted"}]_vars

\* While a run is active at the revision of the trip, the trip says so: another
\* run's late failure or stale start never relabels the trip under it.
ActiveRunDrivesTrip ==
  \A r \in Runs : Active(r) /\ trip.revision = run[r].revision =>
    trip.state = IF run[r].status = "queued" THEN "queued" ELSE "generating"

\* executeJob reports success only for a run whose draft was published, by this
\* execution or by an overlapping one.
JobSuccessMeansPublication ==
  \A r \in Runs : job[r].status = "succeeded" => run[r].status \in {"succeeded", "deleted"}

\* What the traveller can tell of a run.
PhaseOf(status) ==
  CASE status = "absent" -> "none"
    [] status = "succeeded" -> "published"
    [] status = "deleted" -> "void"
    [] OTHER -> "open"

\* Generation implements its contract: one publication for one request, and
\* only for the trip the request was made for.
Contract == INSTANCE GenerationContract WITH
  Requests <- Runs,
  alive <- trip.exists,
  content <- trip.content,
  phase <- [r \in Runs |-> PhaseOf(run[r].status)],
  basis <- [r \in Runs |-> run[r].basis]
ImplementsContract == Contract!CSpec

\* The last delivery counts its repairs beyond their bound: at a second repair the
\* text "1" becomes "11", the table refuses the attempt, and nobody finishes the run.
Miscounted(r) == exec[<<r, MaxAttempts>>].repairs > MaxRepairs

\* Without faults, and as long as nobody edits, cancels or deletes, every
\* request reaches a terminal run, succeeded or failed, unless the repairs of
\* its last delivery are miscounted: that run stays active for ever.
RunSettles ==
  \A r \in Runs :
    run[r].status = "queued" ~> Terminal(r) \/ moves + faults > 0 \/ Miscounted(r)

=============================================================================
