---------------------- MODULE ItineraryGenerationProofs ----------------------
(***************************************************************************)
(* The safety properties of ItineraryGeneration for any number of runs,    *)
(* attempts, repairs, moves and faults; and, of the catalog that grounds a *)
(* generation (GroundedWork), what holds for any records, catalogs,        *)
(* ingestions and decisions.                                               *)
(***************************************************************************)
EXTENDS ItineraryGeneration, GroundedWork, FiniteSetTheorems, NaturalsInduction,
        WellFoundedInduction, TLAPS

\* No run is ahead of the trip, and no two runs reserved the same revision.
RevisionsReserved ==
  /\ \A r \in Runs : run[r].revision <= trip.revision
  /\ \A r, s \in Runs : r # s /\ run[r].status # "absent" /\ run[s].status # "absent" =>
       run[r].revision # run[s].revision

\* At the revision a run reserved, the trip is the one its request was made for.
BasisCurrent ==
  \A r \in Runs : run[r].status # "absent" /\ run[r].revision = trip.revision =>
    run[r].basis = trip.content

OneActive == \A r, s \in Runs : Active(r) /\ Active(s) => r = s

DeadTripHasNoRuns == ~trip.exists => \A r \in Runs : ~Exists(r)

\* Nothing is known of a run before its request.
NothingBeforeRequest ==
  \A r \in Runs : run[r].status = "absent" =>
    /\ api[r] = "idle" /\ job[r].status = "absent" /\ queue[r].state = "absent"
    /\ \A a \in Attempts : exec[<<r, a>>].phase = "idle"

Working == {"retrieve", "stage", "gateway", "record", "persisting", "persist"}

\* At the revision a run reserved, the trip is the one its executions have read.
SnapshotCurrent ==
  \A e \in Execs : exec[e].phase \in Working /\ run[e[1]].revision = trip.revision =>
    exec[e].snapshot = trip.content

\* Only a publication lets an execution report success.
AcceptedIsPublished ==
  \A e \in Execs :
    /\ exec[e].phase = "fail" =>
         exec[e].verdict \in {"retryable", "permanent", "cancelled", "thrown"}
    /\ exec[e].phase = "record" =>
         exec[e].verdict \in {"accepted", "rejected", "retryable", "permanent", "cancelled"}
    /\ exec[e].phase = "report" /\ exec[e].verdict = "accepted" =>
         run[e[1]].status \in {"succeeded", "deleted"}

LedgerInv ==
  /\ RevisionsReserved
  /\ BasisCurrent
  /\ OneActive
  /\ DeadTripHasNoRuns
  /\ ActiveRunDrivesTrip

ExecInv ==
  /\ NothingBeforeRequest
  /\ SnapshotCurrent
  /\ AcceptedIsPublished
  /\ JobSuccessMeansPublication

\* The inductive invariant.
IInv == TypeOK /\ LedgerInv /\ ExecInv

-----------------------------------------------------------------------------
(* Type correctness.                                                       *)

LEMMA InitTypeOK == Init => TypeOK
BY AttemptsAssumption, FS_EmptySet
DEF Init, TypeOK, Idle, Execution, TripRow, RunRow, JobRow, QueueJob, TripState, RunStatus,
    ActiveStatus, JobStatus, QueueState, Verdicts, Phases, ApiSteps

\* The parts of an execution's name.
LEMMA ExecParts ==
  ASSUME NEW e \in Execs PROVE e[1] \in Runs /\ e[2] \in Attempts
BY DEF Execs

\* Updates of the trip row keep its type.
LEMMA TripFields ==
  ASSUME TypeOK
  PROVE  /\ trip.revision \in Nat /\ trip.content \in Nat /\ trip.revision + 1 \in Nat
         /\ \A s \in TripState : [trip EXCEPT !.state = s] \in TripRow
         /\ \A s \in TripState : [trip EXCEPT !.state = s, !.revision = @ + 1] \in TripRow
         /\ \A s \in TripState :
              [trip EXCEPT !.state = s, !.revision = @ + 1, !.content = @ + 1] \in TripRow
         /\ [trip EXCEPT !.revision = @ + 1, !.content = @ + 1] \in TripRow
<1>1. \A s \in TripState, n, c \in Nat :
        /\ [trip EXCEPT !.state = s] \in TripRow
        /\ [trip EXCEPT !.state = s, !.revision = n] \in TripRow
        /\ [trip EXCEPT !.state = s, !.revision = n, !.content = c] \in TripRow
        /\ [trip EXCEPT !.revision = n, !.content = c] \in TripRow
  BY DEF TypeOK, TripRow
<1>2. /\ trip.revision \in Nat /\ trip.content \in Nat
      /\ trip.revision + 1 \in Nat /\ trip.content + 1 \in Nat
  BY DEF TypeOK, TripRow
<1>3. "idle" \in TripState
  BY DEF TripState
<1> QED BY <1>1, <1>2, <1>3

LEMMA GotoTyped ==
  ASSUME TypeOK, NEW e \in Execs, NEW phase \in Phases, Goto(e, phase)
  PROVE  exec' \in [Execs -> Execution]
BY DEF TypeOK, Goto, Execution

LEMMA GotoWithTyped ==
  ASSUME TypeOK, NEW e \in Execs, NEW phase \in Phases, NEW v \in Verdicts, GotoWith(e, phase, v)
  PROVE  exec' \in [Execs -> Execution]
BY DEF TypeOK, GotoWith, Execution

LEMMA FinishTyped ==
  ASSUME TypeOK, NEW e \in Execs, NEW phase \in Phases, NEW v \in Verdicts, Finish(e, phase, v)
  PROVE  exec' \in [Execs -> Execution]
BY DEF TypeOK, Finish, Idle, Execution

LEMMA SetStageTyped ==
  ASSUME TypeOK, NEW r \in Runs, NEW stage \in InFlight, SetStage(r, stage)
  PROVE  run' \in [Runs -> RunRow]
BY DEF TypeOK, SetStage, RunRow, RunStatus, ActiveStatus

LEMMA FinishFailureTyped ==
  ASSUME TypeOK, NEW r \in Runs, NEW status \in {"cancelled", "failed", "queued"},
         FinishFailure(r, status)
  PROVE  run' \in [Runs -> RunRow] /\ trip' \in TripRow
<1>1. status \in RunStatus /\ TripStateOf(status) \in TripState
  BY DEF RunStatus, ActiveStatus, TripStateOf, TripState
<1> QED BY <1>1 DEF TypeOK, FinishFailure, RunRow, TripRow

LEMMA RequeuedTyped ==
  ASSUME NEW q \in QueueJob PROVE Requeued(q) \in QueueJob
BY DEF QueueJob, QueueState, Requeued

LEMMA VerdictTyped ==
  ASSUME TypeOK, NEW e \in Execs PROVE exec[e] \in Execution /\ exec[e].verdict \in Verdicts
BY DEF TypeOK, Execution

LEMMA MoveTyped == TypeOK /\ Move => moves' \in Nat
BY DEF TypeOK, Move

LEMMA FaultTyped == TypeOK /\ Fault => faults' \in Nat
BY DEF TypeOK, Fault

LEMMA NextTypeOK == TypeOK /\ [Next]_vars => TypeOK'
<1> SUFFICES ASSUME TypeOK, [Next]_vars PROVE TypeOK'
  OBVIOUS
<1>1. CASE UserEdit
  <2>1. [trip EXCEPT !.revision = @ + 1, !.content = @ + 1] \in TripRow
    BY TripFields
  <2> QED BY <1>1, <2>1, MoveTyped DEF UserEdit, TypeOK
<1>2. CASE DeleteTrip
  <2>1. trip' \in TripRow
    BY <1>2 DEF DeleteTrip, TypeOK, TripRow
  <2>2. ASSUME NEW r \in Runs PROVE [run[r] EXCEPT !.status = "deleted"] \in RunRow
    BY DEF TypeOK, RunRow, RunStatus
  <2>3. run' \in [Runs -> RunRow]
    <3>1. \A r \in Runs : run[r] \in RunRow
      BY DEF TypeOK
    <3> QED BY <1>2, <2>2, <3>1 DEF DeleteTrip
  <2>4. rows' \in [Runs -> SUBSET AttemptRow] /\ \A r \in Runs : IsFiniteSet(rows'[r])
    BY <1>2, FS_EmptySet DEF DeleteTrip
  <2>5. moves' \in Nat
    BY <1>2, MoveTyped DEF DeleteTrip
  <2> QED BY <1>2, <2>1, <2>3, <2>4, <2>5 DEF DeleteTrip, TypeOK
<1>3. ASSUME NEW r \in Runs,
             RequestGeneration(r) \/ CancelRequest(r) \/ EnqueueFails(r) \/ ApiCrash(r)
               \/ Serve(r) \/ Deliver(r)
      PROVE TypeOK'
  <2>1. CASE RequestGeneration(r)
    <3>1. trip' \in TripRow
      BY <2>1, TripFields DEF RequestGeneration, TripState
    <3>2. [status |-> "queued", revision |-> trip.revision + 1, repairs |-> 0,
           basis |-> trip.content] \in RunRow
      <4>1. trip.revision + 1 \in Nat /\ trip.content \in Nat /\ 0 \in Nat
        BY TripFields
      <4>2. "queued" \in RunStatus
        BY DEF RunStatus, ActiveStatus
      <4> QED BY <4>1, <4>2 DEF RunRow
    <3>3. run' \in [Runs -> RunRow]
      BY <2>1, <3>2 DEF RequestGeneration, TypeOK
    <3> QED BY <2>1, <3>1, <3>3 DEF RequestGeneration, TypeOK, ApiSteps
  <2>2. CASE CancelRequest(r)
    BY <2>2, MoveTyped DEF CancelRequest, TypeOK, ApiSteps
  <2>3. CASE EnqueueFails(r)
    BY <2>3, FaultTyped DEF EnqueueFails, TypeOK, ApiSteps
  <2>4. CASE ApiCrash(r)
    BY <2>4, FaultTyped DEF ApiCrash, TypeOK, ApiSteps
  <2>5. CASE Enqueue(r)
    BY <2>5 DEF Enqueue, TypeOK, JobRow, JobStatus, QueueJob, QueueState, ApiSteps
  <2>6. CASE Compensate(r)
    BY <2>6, FinishFailureTyped DEF Compensate, TypeOK, ApiSteps
  <2>7. CASE CancelQueue(r)
    BY <2>7 DEF CancelQueue, TypeOK, QueueJob, QueueState, ApiSteps
  <2>8. CASE CancelRow(r)
    BY <2>8 DEF CancelRow, TypeOK, JobRow, JobStatus, ApiSteps
  <2>9. CASE CancelRun(r)
    BY <2>9, FinishFailureTyped DEF CancelRun, TypeOK, ApiSteps
  <2>10. CASE Deliver(r)
    <3> DEFINE a == queue[r].attempt + 1
    <3>1. a \in Attempts /\ <<r, a>> \in Execs /\ a \in 0..MaxAttempts
      BY <2>10, AttemptsAssumption DEF Deliver, Attempts, Execs
    <3>2. queue' \in [Runs -> QueueJob]
      BY <2>10, <3>1 DEF Deliver, TypeOK, QueueJob, QueueState
    <3>3. exec' \in [Execs -> Execution]
      <4>1. exec[<<r, a>>] \in Execution
        BY <3>1 DEF TypeOK
      <4>2. [exec[<<r, a>>] EXCEPT !.phase = "claim"] \in Execution
        BY <4>1 DEF Execution, Phases
      <4>3. exec' = [exec EXCEPT ![<<r, a>>] = [exec[<<r, a>>] EXCEPT !.phase = "claim"]]
        BY <2>10 DEF Deliver
      <4>4. exec \in [Execs -> Execution]
        BY DEF TypeOK
      <4> QED BY <3>1, <4>2, <4>3, <4>4
    <3> QED BY <2>10, <3>2, <3>3 DEF Deliver, TypeOK
  <2> QED BY <1>3, <2>1, <2>2, <2>3, <2>4, <2>5, <2>6, <2>7, <2>8, <2>9, <2>10 DEF Serve
<1>4. ASSUME NEW e \in Execs, Work(e) \/ Expire(e) \/ Disturb(e)
      PROVE TypeOK'
  <2> DEFINE r == e[1]
  <2>a. r \in Runs /\ e[2] \in Attempts
    BY ExecParts
  <2>b. exec[e] \in Execution /\ exec[e].verdict \in Verdicts
    BY VerdictTyped
  <2>c. /\ "report" \in Phases /\ "fail" \in Phases /\ "record" \in Phases /\ "done" \in Phases
        /\ "none" \in Verdicts /\ "thrown" \in Verdicts /\ "permanent" \in Verdicts
        /\ "cancelled" \in Verdicts /\ "retryable" \in Verdicts
        /\ "accepted" \in Verdicts /\ "rejected" \in Verdicts
        /\ "start" \in Phases /\ "begin" \in Phases /\ "stage" \in Phases
        /\ "persist" \in Phases /\ "return" \in Phases
    BY DEF Phases, Verdicts
  <2>1. CASE Claim(e)
    BY <2>1, <2>a, <2>c, GotoTyped, AttemptsAssumption DEF Claim, TypeOK, JobRow, JobStatus, Attempts
  <2>2. CASE StartHandler(e)
    BY <2>2, <2>c, GotoTyped, FinishTyped DEF StartHandler, TypeOK
  <2>3. CASE BeginRefused(e)
    BY <2>3, <2>c, FinishTyped DEF BeginRefused, TypeOK
  <2>4. CASE BeginStale(e)
    BY <2>4, <2>a, <2>c, FinishTyped DEF BeginStale, TypeOK, RunRow, RunStatus, TripRow, TripState
  <2>5. CASE Begin(e)
    <3>1. Cardinality(rows[r]) \in Nat /\ Cardinality(RepairRows(r)) \in Nat
      BY <2>a, FS_CardinalityType, FS_Subset DEF TypeOK, RepairRows
    <3>2. exec' \in [Execs -> Execution]
      <4>1. \A m, n, c \in Nat : [exec[e] EXCEPT !.phase = "retrieve", !.offset = m, !.repairs = n,
                                             !.snapshot = c] \in Execution
        BY <2>b DEF Execution, Phases
      <4>2. [exec[e] EXCEPT !.phase = "retrieve", !.offset = Cardinality(rows[r]),
                            !.repairs = Cardinality(RepairRows(r)),
                            !.snapshot = trip.content] \in Execution
        BY <3>1, <4>1, TripFields
      <4> QED BY <2>5, <4>2 DEF Begin, AttemptOffset, TypeOK
    <3>3. run' \in [Runs -> RunRow] /\ trip' \in TripRow
      <4>1. trip' \in TripRow
        BY <2>5, TripFields DEF Begin, TripState
      <4>2. run' \in [Runs -> RunRow]
        BY <2>5, <2>a DEF Begin, TypeOK, RunRow, RunStatus, ActiveStatus, InFlight
      <4> QED BY <4>1, <4>2
    <3> QED BY <2>5, <3>2, <3>3 DEF Begin, TypeOK
  <2>6. CASE Retrieve(e)
    BY <2>6, <2>c, GotoTyped DEF Retrieve, TypeOK
  <2>7. CASE RetrieveEmpty(e)
    BY <2>7, <2>c, FinishTyped DEF RetrieveEmpty, TypeOK
  <2>8. CASE Stage(e)
    <3>1. run' \in [Runs -> RunRow]
      BY <2>8, <2>a, SetStageTyped DEF Stage, InFlight
    <3>2. exec' \in [Execs -> Execution]
      <4>1. \A n \in Nat : [exec[e] EXCEPT !.phase = "gateway", !.repairs = n] \in Execution
        BY <2>b DEF Execution, Phases
      <4>2. (IF Kind(e) = "repair" THEN NextRepair(exec[e].repairs) ELSE exec[e].repairs) \in Nat
        BY <2>b DEF Execution, NextRepair
      <4>3. Called(e) \in Execution
        BY <4>1, <4>2 DEF Called
      <4> QED BY <2>8, <4>3 DEF Stage, TypeOK
    <3> QED BY <2>8, <3>1, <3>2 DEF Stage, TypeOK
  <2>9. CASE GatewayAnswers(e)
    <3>1. run' \in [Runs -> RunRow]
      BY <2>9, <2>a, SetStageTyped DEF GatewayAnswers, InFlight
    <3>2. exec' \in [Execs -> Execution]
      BY <2>9, <2>c, GotoWithTyped DEF GatewayAnswers
    <3> QED BY <2>9, <3>1, <3>2 DEF GatewayAnswers, TypeOK
  <2>10. CASE GatewayFails(e)
    BY <2>10, <2>c, GotoWithTyped DEF GatewayFails, TypeOK
  <2>11. CASE RecordAttempt(e)
    <3> DEFINE row == [number |-> exec[e].offset + exec[e].calls + 1, kind |-> Kind(e),
                       verdict |-> exec[e].verdict]
               next == Counted(exec[e])
    <3>1. row \in AttemptRow
      BY <2>b DEF AttemptRow, Execution, Kind
    <3>2. rows' \in [Runs -> SUBSET AttemptRow] /\ \A s \in Runs : IsFiniteSet(rows'[s])
      <4> HIDE DEF row
      <4>1. rows' = rows \/ rows' = [rows EXCEPT ![r] = @ \union {row}]
        BY <2>11 DEF RecordAttempt, row
      <4>2. IsFiniteSet(rows[r] \union {row})
        BY <2>a, FS_AddElement DEF TypeOK
      <4>3. rows' \in [Runs -> SUBSET AttemptRow]
        BY <2>a, <3>1, <4>1 DEF TypeOK
      <4>4. ASSUME NEW s \in Runs PROVE IsFiniteSet(rows'[s])
        <5>1. rows'[s] = rows[s] \/ (s = r /\ rows'[s] = rows[r] \union {row})
          BY <2>a, <4>1 DEF TypeOK
        <5> QED BY <4>2, <5>1 DEF TypeOK
      <4> QED BY <4>3, <4>4
    <3>3. run' \in [Runs -> RunRow]
      <4>1. Larger(run[r].repairs, exec[e].repairs) \in Nat
        BY <2>a, <2>b DEF TypeOK, RunRow, Execution, Larger
      <4> QED BY <2>11, <2>a, <4>1 DEF RecordAttempt, TypeOK, RunRow
    <3>4. next \in Execution
      BY <2>b DEF Execution, Counted
    <3>5. AfterAttempt(next) \in Execution
      BY <3>4 DEF AfterAttempt, Execution, Idle, Phases, Verdicts
    <3>6. exec' \in [Execs -> Execution]
      <4> HIDE DEF next
      <4>1. exec' = [exec EXCEPT ![e] = AfterAttempt(next)]
        BY <2>11 DEF RecordAttempt, next
      <4> QED BY <3>5, <4>1 DEF TypeOK
    <3> QED BY <2>11, <3>2, <3>3, <3>6 DEF RecordAttempt, TypeOK
  <2>12. CASE RecordAttemptRefused(e)
    BY <2>12, <2>c, FinishTyped DEF RecordAttemptRefused, TypeOK
  <2>13. CASE SetPersisting(e)
    BY <2>13, <2>a, <2>c, GotoTyped, SetStageTyped DEF SetPersisting, TypeOK, InFlight
  <2>14. CASE Publish(e)
    <3>1. run' \in [Runs -> RunRow] /\ trip' \in TripRow
      <4>1. trip' \in TripRow
        BY <2>14, TripFields DEF Publish, TripState
      <4>2. [run[r] EXCEPT !.status = "succeeded", !.repairs = exec[e].repairs] \in RunRow
        <5>1. \A n \in Nat : [run[r] EXCEPT !.status = "succeeded", !.repairs = n] \in RunRow
          BY <2>a DEF TypeOK, RunRow, RunStatus
        <5> QED BY <2>b, <5>1 DEF Execution
      <4> QED BY <2>14, <4>1, <4>2 DEF Publish, TypeOK
    <3>2. exec' \in [Execs -> Execution]
      BY <2>14, <2>b, <2>c, FinishTyped DEF Publish
    <3> QED BY <2>14, <3>1, <3>2 DEF Publish, TypeOK
  <2>15. CASE AlreadyPublished(e)
    BY <2>15, <2>b, <2>c, FinishTyped DEF AlreadyPublished, TypeOK
  <2>16. CASE PublishRefused(e)
    BY <2>16, <2>c, FinishTyped DEF PublishRefused, TypeOK
  <2>17. CASE FailRun(e)
    <3>1. FailureStatus(e) \in {"cancelled", "failed", "queued"}
      BY DEF FailureStatus
    <3>2. run' \in [Runs -> RunRow] /\ trip' \in TripRow
      BY <2>17, <2>a, <3>1, FinishFailureTyped DEF FailRun, FinishFailureRefused, TypeOK
    <3>3. exec' \in [Execs -> Execution]
      BY <2>17, <2>b, <2>c, FinishTyped DEF FailRun
    <3> QED BY <2>17, <3>2, <3>3 DEF FailRun, TypeOK
  <2>18. CASE Report(e)
    <3>1. RowStatus(e) \in JobStatus
      BY DEF RowStatus, JobStatus
    <3>2. job' \in [Runs -> JobRow]
      BY <2>18, <2>a, <3>1 DEF Report, TypeOK, JobRow
    <3> QED BY <2>18, <2>c, <3>2, GotoTyped DEF Report, TypeOK
  <2>19. CASE Return(e)
    <3>1. queue' \in [Runs -> QueueJob]
      BY <2>19, <2>a, RequeuedTyped DEF Return, TypeOK, QueueJob, QueueState
    <3>2. exec' \in [Execs -> Execution]
      BY <2>19, <2>c, FinishTyped DEF Return
    <3> QED BY <2>19, <3>1, <3>2 DEF Return, TypeOK
  <2>20. CASE Expire(e)
    BY <2>20, <2>a, RequeuedTyped DEF Expire, TypeOK
  <2>21. CASE TimeOut(e)
    BY <2>21, <2>a, RequeuedTyped, FaultTyped DEF TimeOut, TypeOK, Execution
  <2>22. CASE WorkerCrash(e)
    BY <2>22, FaultTyped DEF WorkerCrash, TypeOK, Execution, Idle, Phases, Verdicts
  <2>23. CASE RetrieveFails(e)
    BY <2>23, <2>c, FinishTyped, FaultTyped DEF RetrieveFails, TypeOK
  <2>24. CASE StoreFails(e)
    BY <2>24, <2>c, FinishTyped, FaultTyped DEF StoreFails, TypeOK
  <2> QED BY <1>4, <2>1, <2>2, <2>3, <2>4, <2>5, <2>6, <2>7, <2>8, <2>9, <2>10, <2>11, <2>12, <2>13, <2>14, <2>15, <2>16, <2>17, <2>18, <2>19, <2>20, <2>21, <2>22, <2>23, <2>24 DEF Work, Disturb
<1>5. CASE UNCHANGED vars
  BY <1>5 DEF vars, TypeOK
<1> QED BY <1>1, <1>2, <1>3, <1>4, <1>5 DEF Next

\* Every row, record and execution keeps its type.
THEOREM TypeCorrect == Spec => []TypeOK
BY InitTypeOK, NextTypeOK, PTL DEF Spec

-----------------------------------------------------------------------------
(* The trip and its runs.                                                  *)

\* What most steps do to the runs: at most a change of stage.
SameRuns ==
  \A s \in Runs :
    /\ run'[s].revision = run[s].revision /\ run'[s].basis = run[s].basis
    /\ \/ run'[s].status = run[s].status
       \/ run[s].status \in InFlight /\ run'[s].status \in InFlight

\* What every step but a request, an edit, a deletion and a publication keeps.
RunsKept ==
  \A s \in Runs :
    /\ run'[s].revision = run[s].revision /\ run'[s].basis = run[s].basis
    /\ run'[s].status = "absent" <=> run[s].status = "absent"
    /\ run[s].status \in {"succeeded", "deleted"} => run'[s].status \in {"succeeded", "deleted"}

TripKept ==
  trip'.exists = trip.exists /\ trip'.revision = trip.revision /\ trip'.content = trip.content

LEMMA SameRunsAreKept == SameRuns => RunsKept
BY DEF SameRuns, RunsKept, InFlight

LEMMA FrameKeepsLedger ==
  ASSUME LedgerInv, SameRuns, trip' = trip
  PROVE  LedgerInv'
BY DEF LedgerInv, SameRuns, RevisionsReserved, BasisCurrent, OneActive, DeadTripHasNoRuns,
       ActiveRunDrivesTrip, Active, Exists, ActiveStatus, InFlight

LEMMA SetStageIsSame ==
  ASSUME TypeOK, NEW r \in Runs, NEW stage \in InFlight, SetStage(r, stage)
  PROVE  SameRuns
BY DEF TypeOK, RunRow, SetStage, SameRuns

LEMMA FinishFailureKeeps ==
  ASSUME TypeOK, LedgerInv, NEW r \in Runs, NEW status \in {"cancelled", "failed", "queued"},
         FinishFailure(r, status)
  PROVE  LedgerInv' /\ RunsKept /\ TripKept
<1>1. CASE UNCHANGED <<trip, run>>
  BY <1>1, FrameKeepsLedger DEF SameRuns, RunsKept, TripKept
<1>2. CASE ~ UNCHANGED <<trip, run>>
  <2>1. /\ Exists(r) /\ run[r].status # "succeeded"
        /\ IndexAllows(r, status)
        /\ run' = [run EXCEPT ![r].status = status]
        /\ trip' = IF trip.revision = run[r].revision
                   THEN [trip EXCEPT !.state = TripStateOf(status)] ELSE trip
    BY <1>2 DEF FinishFailure, Exists
  <2>2. /\ TripKept
        /\ trip'.state = IF trip.revision = run[r].revision THEN TripStateOf(status)
                         ELSE trip.state
    BY <2>1 DEF TypeOK, TripRow, TripKept
  <2>3. \A s \in Runs :
          /\ run'[s].revision = run[s].revision /\ run'[s].basis = run[s].basis
          /\ run'[s].status = IF s = r THEN status ELSE run[s].status
    BY <2>1 DEF TypeOK, RunRow
  <2>4. RunsKept
    BY <2>1, <2>3 DEF RunsKept, Exists
  <2>5. RevisionsReserved' /\ BasisCurrent' /\ DeadTripHasNoRuns'
    BY <2>1, <2>2, <2>3, <2>4
    DEF LedgerInv, RevisionsReserved, BasisCurrent, DeadTripHasNoRuns, RunsKept, TripKept, Exists
  <2>6. OneActive'
    BY <2>1, <2>3 DEF LedgerInv, OneActive, IndexAllows, Active, ActiveStatus, InFlight
  <2>7. ActiveRunDrivesTrip'
    <3> SUFFICES ASSUME NEW s \in Runs, Active(s)', trip'.revision = run'[s].revision
                 PROVE  trip'.state = IF run'[s].status = "queued" THEN "queued" ELSE "generating"
      BY DEF ActiveRunDrivesTrip
    <3>1. CASE s = r
      BY <2>2, <2>3, <3>1 DEF Active, ActiveStatus, InFlight, TripStateOf, TripKept
    <3>2. CASE s # r
      <4>1. Active(s) /\ run[s].status # "absent" /\ trip.revision = run[s].revision
        BY <2>2, <2>3, <3>2 DEF Active, TripKept, ActiveStatus, InFlight
      <4>2. trip.revision # run[r].revision
        BY <2>1, <3>2, <4>1 DEF LedgerInv, RevisionsReserved, Exists
      <4> QED BY <2>2, <2>3, <3>2, <4>1, <4>2 DEF LedgerInv, ActiveRunDrivesTrip
    <3> QED BY <3>1, <3>2
  <2> QED BY <2>2, <2>4, <2>5, <2>6, <2>7 DEF LedgerInv
<1> QED BY <1>1, <1>2

\* A step that moves one active run to another status of the ledger, and the
\* trip state with it: begin, at the revision of the run or behind it.
LEMMA BeginKeeps ==
  ASSUME TypeOK, LedgerInv, NEW e \in Execs, Begin(e) \/ BeginStale(e)
  PROVE  LedgerInv' /\ RunsKept /\ TripKept
<1> DEFINE r == e[1]
<1>1. r \in Runs /\ Active(r)
  BY ExecParts DEF Begin, BeginStale
<1>2. PICK status \in {"retrieving", "failed"} :
        /\ run' = [run EXCEPT ![r].status = status]
        /\ status = "retrieving" => trip.revision = run[r].revision
        /\ trip' = [trip EXCEPT !.state = IF status = "failed" THEN "failed" ELSE "generating"]
  BY DEF Begin, BeginStale
<1>3. /\ TripKept
      /\ trip'.state = IF status = "failed" THEN "failed" ELSE "generating"
  BY <1>2 DEF TypeOK, TripRow, TripKept
<1>4. \A s \in Runs :
        /\ run'[s].revision = run[s].revision /\ run'[s].basis = run[s].basis
        /\ run'[s].status = IF s = r THEN status ELSE run[s].status
  BY <1>1, <1>2 DEF TypeOK, RunRow
<1>5. RunsKept
  BY <1>1, <1>4 DEF RunsKept, Active, ActiveStatus, InFlight
<1>6. RevisionsReserved' /\ BasisCurrent' /\ DeadTripHasNoRuns'
  BY <1>1, <1>3, <1>4, <1>5
  DEF LedgerInv, RevisionsReserved, BasisCurrent, DeadTripHasNoRuns, RunsKept, TripKept, Exists,
      Active, ActiveStatus, InFlight
<1>7. OneActive'
  BY <1>1, <1>4 DEF LedgerInv, OneActive, Active, ActiveStatus, InFlight
<1>8. ActiveRunDrivesTrip'
  <2> SUFFICES ASSUME NEW s \in Runs, Active(s)', trip'.revision = run'[s].revision
               PROVE  trip'.state = IF run'[s].status = "queued" THEN "queued" ELSE "generating"
    BY DEF ActiveRunDrivesTrip
  <2>1. s = r
    BY <1>1, <1>4 DEF LedgerInv, OneActive, Active
  <2> QED BY <1>3, <1>4, <2>1 DEF Active, ActiveStatus, InFlight
<1> QED BY <1>3, <1>5, <1>6, <1>7, <1>8 DEF LedgerInv

LEMMA RecordAttemptIsSame ==
  ASSUME TypeOK, NEW e \in Execs, RecordAttempt(e)
  PROVE  SameRuns
BY ExecParts DEF TypeOK, RunRow, RecordAttempt, SameRuns

\* A publication, an edit and a request move the trip past every reservation.
LEMMA PublishKeepsLedger ==
  ASSUME TypeOK, LedgerInv, NEW e \in Execs, Publish(e)
  PROVE  LedgerInv' /\ RunsKept /\ trip'.exists = trip.exists
         /\ trip'.revision = trip.revision + 1
<1> DEFINE r == e[1]
<1>1. r \in Runs /\ run[r].status = "persisting"
  BY ExecParts DEF Publish, MayPublish
<1>2. trip'.exists = trip.exists /\ trip'.revision = trip.revision + 1
  BY DEF Publish, TypeOK, TripRow
<1>3. \A s \in Runs :
        /\ run'[s].revision = run[s].revision /\ run'[s].basis = run[s].basis
        /\ run'[s].status = IF s = r THEN "succeeded" ELSE run[s].status
  BY <1>1 DEF Publish, TypeOK, RunRow
<1>4. \A s \in Runs : run'[s].revision \in Nat /\ run[s].revision <= trip.revision
  BY <1>3 DEF LedgerInv, RevisionsReserved, TypeOK, RunRow
<1>5. trip.revision \in Nat
  BY TripFields
<1>6. \A s \in Runs : run'[s].revision < trip'.revision
  BY <1>2, <1>3, <1>4, <1>5
<1>7. RunsKept
  BY <1>1, <1>3 DEF RunsKept
<1>8. RevisionsReserved' /\ BasisCurrent' /\ ActiveRunDrivesTrip'
  BY <1>1, <1>2, <1>3, <1>4, <1>5, <1>6
  DEF LedgerInv, RevisionsReserved, BasisCurrent, ActiveRunDrivesTrip
<1>9. DeadTripHasNoRuns' /\ OneActive'
  BY <1>1, <1>2, <1>3
  DEF LedgerInv, DeadTripHasNoRuns, OneActive, Active, Exists, ActiveStatus, InFlight
<1> QED BY <1>2, <1>7, <1>8, <1>9 DEF LedgerInv

LEMMA UserEditKeepsLedger ==
  ASSUME TypeOK, LedgerInv, UserEdit
  PROVE  LedgerInv' /\ RunsKept /\ trip'.revision = trip.revision + 1
<1>1. trip'.exists = trip.exists /\ trip'.revision = trip.revision + 1 /\ run' = run
  BY DEF UserEdit, TypeOK, TripRow
<1>2. trip.revision \in Nat /\ \A s \in Runs : run[s].revision \in Nat
  BY TripFields DEF TypeOK, RunRow
<1>3. \A s \in Runs : run'[s].revision < trip'.revision
  BY <1>1, <1>2 DEF LedgerInv, RevisionsReserved
<1>4. RevisionsReserved' /\ BasisCurrent' /\ ActiveRunDrivesTrip'
  BY <1>1, <1>2, <1>3 DEF LedgerInv, RevisionsReserved, BasisCurrent, ActiveRunDrivesTrip
<1>5. DeadTripHasNoRuns' /\ OneActive' /\ RunsKept
  BY <1>1 DEF LedgerInv, DeadTripHasNoRuns, OneActive, Active, Exists, RunsKept
<1> QED BY <1>1, <1>4, <1>5 DEF LedgerInv

LEMMA DeleteTripKeepsLedger ==
  ASSUME TypeOK, LedgerInv, DeleteTrip
  PROVE  LedgerInv' /\ RunsKept /\ trip'.revision = trip.revision /\ trip'.content = trip.content
<1>1. trip'.revision = trip.revision /\ trip'.content = trip.content
  BY DEF DeleteTrip, TypeOK, TripRow
<1>2. \A s \in Runs :
        /\ run'[s].revision = run[s].revision /\ run'[s].basis = run[s].basis
        /\ run'[s].status = IF run[s].status = "absent" THEN "absent" ELSE "deleted"
  BY DEF DeleteTrip, TypeOK, RunRow, Exists
<1> QED BY <1>1, <1>2
    DEF LedgerInv, RevisionsReserved, BasisCurrent, DeadTripHasNoRuns, OneActive,
        ActiveRunDrivesTrip, Active, Exists, ActiveStatus, InFlight, RunsKept

LEMMA RequestKeepsLedger ==
  ASSUME TypeOK, LedgerInv, NEW r \in Runs, RequestGeneration(r)
  PROVE  /\ LedgerInv' /\ trip'.revision = trip.revision + 1
         /\ \A s \in Runs \ {r} : run'[s] = run[s]
         /\ run'[r].status = "queued" /\ run'[r].revision = trip'.revision
<1>1. /\ trip'.exists = trip.exists /\ trip.exists /\ trip'.content = trip.content
      /\ trip'.revision = trip.revision + 1 /\ trip'.state = "queued"
  BY DEF RequestGeneration, TypeOK, TripRow
<1>2. /\ \A s \in Runs \ {r} : run'[s] = run[s]
      /\ run'[r].status = "queued" /\ run'[r].revision = trip'.revision
      /\ run'[r].basis = trip.content
  BY <1>1 DEF RequestGeneration, TypeOK
<1>3. trip.revision \in Nat /\ \A s \in Runs : run[s].revision \in Nat
  BY TripFields DEF TypeOK, RunRow
<1>4. \A s \in Runs \ {r} : run'[s].revision < trip'.revision
  BY <1>1, <1>2, <1>3 DEF LedgerInv, RevisionsReserved
<1>5. RevisionsReserved' /\ BasisCurrent' /\ ActiveRunDrivesTrip'
  BY <1>1, <1>2, <1>3, <1>4 DEF LedgerInv, RevisionsReserved, BasisCurrent, ActiveRunDrivesTrip
<1>6. DeadTripHasNoRuns' /\ OneActive'
  BY <1>1, <1>2
  DEF LedgerInv, DeadTripHasNoRuns, OneActive, RequestGeneration, IndexAllows, Active, ActiveStatus
<1> QED BY <1>1, <1>2, <1>5, <1>6 DEF LedgerInv

-----------------------------------------------------------------------------
(* The executions and the jobs.                                            *)

FailVerdicts == {"retryable", "permanent", "cancelled", "thrown"}
RecordVerdicts == {"accepted", "rejected", "retryable", "permanent", "cancelled"}
Gone == {"succeeded", "deleted"}

Others(e) == \A f \in Execs \ {e} : exec'[f] = exec[f]

\* What a step of execution e does to it ...
WorkStep(e) ==
  /\ exec[e].phase # "idle" /\ Others(e)
  /\ exec'[e].phase \in Working =>
       \/ exec[e].phase \in Working /\ exec'[e].snapshot = exec[e].snapshot
       \/ exec'[e].snapshot = trip.content
  /\ exec'[e].phase = "fail" => exec'[e].verdict \in FailVerdicts
  /\ exec'[e].phase = "record" => exec'[e].verdict \in RecordVerdicts
  /\ exec'[e].phase = "report" /\ exec'[e].verdict = "accepted" => run'[e[1]].status \in Gone

\* ... and to its job.
JobStep(e) ==
  /\ api' = api
  /\ \A s \in Runs \ {e[1]} : job'[s] = job[s] /\ queue'[s] = queue[s]
  /\ job'[e[1]].status = "succeeded" =>
       job[e[1]].status = "succeeded" \/ run'[e[1]].status \in Gone

\* The trip is where the runs left it, or past every reservation.
TripStep ==
  \/ trip'.revision = trip.revision /\ trip'.content = trip.content
  \/ \A s \in Runs : run'[s].revision < trip'.revision

LEMMA WorkKeepsExecInv ==
  ASSUME TypeOK, TypeOK', ExecInv, RunsKept, TripStep,
         NEW e \in Execs, WorkStep(e), JobStep(e)
  PROVE  ExecInv'
<1>1. e[1] \in Runs /\ e[2] \in Attempts /\ e = <<e[1], e[2]>>
  BY DEF Execs
<1>2. run[e[1]].status # "absent"
  BY <1>1 DEF ExecInv, NothingBeforeRequest, WorkStep
<1>3. NothingBeforeRequest'
  <2> SUFFICES ASSUME NEW s \in Runs, run'[s].status = "absent"
               PROVE  /\ api'[s] = "idle" /\ job'[s].status = "absent" /\ queue'[s].state = "absent"
                      /\ \A a \in Attempts : exec'[<<s, a>>].phase = "idle"
    BY DEF NothingBeforeRequest
  <2>1. run[s].status = "absent" /\ s # e[1]
    BY <1>2 DEF RunsKept
  <2>2. \A a \in Attempts : <<s, a>> \in Execs \ {e}
    BY <1>1, <2>1 DEF Execs
  <2> QED BY <2>1, <2>2 DEF ExecInv, NothingBeforeRequest, WorkStep, Others, JobStep
<1>4. SnapshotCurrent'
  <2> SUFFICES ASSUME NEW f \in Execs, exec'[f].phase \in Working,
                      run'[f[1]].revision = trip'.revision
               PROVE  exec'[f].snapshot = trip'.content
    BY DEF SnapshotCurrent
  <2>1. f[1] \in Runs
    BY ExecParts
  <2>2. trip'.revision = trip.revision /\ trip'.content = trip.content
        /\ run[f[1]].revision = trip.revision
    <3>1. trip'.revision \in Nat /\ run'[f[1]].revision \in Nat
      BY <2>1 DEF TypeOK, TripRow, RunRow
    <3> QED BY <2>1, <3>1 DEF TripStep, RunsKept
  <2>3. CASE f = e
    BY <2>2, <2>3 DEF ExecInv, SnapshotCurrent, WorkStep
  <2>4. CASE f # e
    BY <2>2, <2>4 DEF ExecInv, SnapshotCurrent, WorkStep, Others
  <2> QED BY <2>3, <2>4
<1>5. AcceptedIsPublished'
  <2> SUFFICES ASSUME NEW f \in Execs
               PROVE  /\ exec'[f].phase = "fail" => exec'[f].verdict \in FailVerdicts
                      /\ exec'[f].phase = "record" => exec'[f].verdict \in RecordVerdicts
                      /\ exec'[f].phase = "report" /\ exec'[f].verdict = "accepted" =>
                           run'[f[1]].status \in Gone
    BY DEF AcceptedIsPublished, FailVerdicts, RecordVerdicts, Gone
  <2>1. CASE f = e
    BY <2>1 DEF WorkStep
  <2>2. CASE f # e
    <3>1. exec'[f] = exec[f] /\ f[1] \in Runs
      BY <2>2, ExecParts DEF WorkStep, Others
    <3> QED BY <3>1 DEF ExecInv, AcceptedIsPublished, FailVerdicts, RecordVerdicts, Gone, RunsKept
  <2> QED BY <2>1, <2>2
<1>6. JobSuccessMeansPublication'
  <2> SUFFICES ASSUME NEW s \in Runs, job'[s].status = "succeeded"
               PROVE  run'[s].status \in Gone
    BY DEF JobSuccessMeansPublication, Gone
  <2>1. job[s].status = "succeeded" \/ run'[s].status \in Gone
    BY DEF JobStep
  <2> QED BY <2>1 DEF ExecInv, JobSuccessMeansPublication, RunsKept, Gone
<1> QED BY <1>3, <1>4, <1>5, <1>6 DEF ExecInv

LEMMA GotoIs ==
  ASSUME TypeOK, NEW e \in Execs, NEW phase, Goto(e, phase)
  PROVE  /\ Others(e) /\ exec'[e].phase = phase
         /\ exec'[e].verdict = exec[e].verdict /\ exec'[e].snapshot = exec[e].snapshot
BY DEF TypeOK, Execution, Goto, Others

LEMMA GotoWithIs ==
  ASSUME TypeOK, NEW e \in Execs, NEW phase, NEW v, GotoWith(e, phase, v)
  PROVE  /\ Others(e) /\ exec'[e].phase = phase
         /\ exec'[e].verdict = v /\ exec'[e].snapshot = exec[e].snapshot
BY DEF TypeOK, Execution, GotoWith, Others

LEMMA FinishIs ==
  ASSUME TypeOK, NEW e \in Execs, NEW phase, NEW v, Finish(e, phase, v)
  PROVE  Others(e) /\ exec'[e].phase = phase /\ exec'[e].verdict = v
BY DEF TypeOK, Execution, Finish, Idle, Others

LEMMA NoChangeIsSame == TypeOK /\ run' = run => SameRuns
BY DEF SameRuns

\* A step of execution e that leaves the trip alone and the runs in their stages.
LEMMA QuietStep ==
  ASSUME TypeOK, TypeOK', IInv, SameRuns, trip' = trip,
         NEW e \in Execs, WorkStep(e), JobStep(e)
  PROVE  IInv'
BY FrameKeepsLedger, SameRunsAreKept, WorkKeepsExecInv DEF IInv, TripStep

LEMMA JobUntouched ==
  ASSUME NEW e \in Execs, UNCHANGED <<api, job, queue>>
  PROVE  JobStep(e)
BY DEF JobStep

-----------------------------------------------------------------------------
(* The inductive invariant.                                                *)

LEMMA InitIInv == Init => IInv
<1> SUFFICES ASSUME Init PROVE IInv
  OBVIOUS
<1>1. TypeOK
  BY InitTypeOK
<1>2. /\ trip = [exists |-> TRUE, revision |-> 1, state |-> "idle", content |-> 0]
      /\ \A r \in Runs : /\ run[r] = [status |-> "absent", revision |-> 0, repairs |-> 0, basis |-> 0]
                         /\ job[r].status = "absent" /\ queue[r].state = "absent"
                         /\ api[r] = "idle"
      /\ \A e \in Execs : exec[e].phase = "idle"
  BY DEF Init, Idle
<1>3. LedgerInv
  BY <1>2 DEF LedgerInv, RevisionsReserved, BasisCurrent, OneActive, DeadTripHasNoRuns,
              ActiveRunDrivesTrip, Active, Exists, ActiveStatus, InFlight
<1>4. ExecInv
  BY <1>2 DEF ExecInv, NothingBeforeRequest, SnapshotCurrent, AcceptedIsPublished,
              JobSuccessMeansPublication, Working, Execs
<1> QED BY <1>1, <1>3, <1>4 DEF IInv

\* Work that touches nothing but the execution and, perhaps, its run's stage.
LEMMA QuietWorkKeepsIInv ==
  ASSUME IInv, TypeOK', NEW e \in Execs,
         \/ StartHandler(e) \/ BeginRefused(e) \/ Retrieve(e) \/ RetrieveEmpty(e)
         \/ RetrieveFails(e) \/ StoreFails(e) \/ Stage(e) \/ GatewayAnswers(e) \/ GatewayFails(e)
         \/ RecordAttempt(e) \/ RecordAttemptRefused(e) \/ SetPersisting(e)
         \/ AlreadyPublished(e) \/ PublishRefused(e)
  PROVE  IInv'
<1> USE DEF IInv
<1>a. e[1] \in Runs
  BY ExecParts
<1>b. TypeOK
  OBVIOUS
<1>1. CASE StartHandler(e)
  <2>1. exec[e].phase = "start" /\ UNCHANGED <<trip, run, rows, job, queue, api>>
    BY <1>1 DEF StartHandler
  <2>2. WorkStep(e)
    BY <1>1, <1>b, <2>1, FinishIs, GotoIs DEF StartHandler, WorkStep, Working
  <2> QED BY <1>b, <2>1, <2>2, QuietStep, NoChangeIsSame, JobUntouched
<1>2. CASE BeginRefused(e) \/ RecordAttemptRefused(e) \/ PublishRefused(e) \/ StoreFails(e)
  <2>1. exec[e].phase # "idle" /\ UNCHANGED <<trip, run, rows, job, queue, api>>
        /\ Finish(e, "report", "thrown")
    BY <1>2 DEF BeginRefused, RecordAttemptRefused, PublishRefused, StoreFails
  <2>2. WorkStep(e)
    BY <1>b, <2>1, FinishIs DEF WorkStep, Working
  <2> QED BY <1>b, <2>1, <2>2, QuietStep, NoChangeIsSame, JobUntouched
<1>3. CASE Retrieve(e)
  <2>1. exec[e].phase = "retrieve" /\ UNCHANGED <<trip, run, rows, job, queue, api>>
    BY <1>3 DEF Retrieve
  <2>2. WorkStep(e)
    BY <1>3, <1>b, <2>1, GotoIs DEF Retrieve, WorkStep, Working
  <2> QED BY <1>b, <2>1, <2>2, QuietStep, NoChangeIsSame, JobUntouched
<1>4. CASE RetrieveEmpty(e) \/ RetrieveFails(e)
  <2>1. exec[e].phase = "retrieve" /\ UNCHANGED <<trip, run, rows, job, queue, api>>
    BY <1>4 DEF RetrieveEmpty, RetrieveFails
  <2>2. WorkStep(e)
    BY <1>4, <1>b, <2>1, FinishIs DEF RetrieveEmpty, RetrieveFails, WorkStep, Working, FailVerdicts
  <2> QED BY <1>b, <2>1, <2>2, QuietStep, NoChangeIsSame, JobUntouched
<1>5. CASE Stage(e)
  <2>1. exec[e].phase = "stage" /\ UNCHANGED <<trip, rows, job, queue, api>>
    BY <1>5 DEF Stage
  <2>2. SameRuns
    BY <1>5, <1>a, <1>b, SetStageIsSame DEF Stage, InFlight
  <2>3. Others(e) /\ exec'[e].phase = "gateway" /\ exec'[e].snapshot = exec[e].snapshot
    <3>1. exec'[e] = Called(e) /\ Others(e)
      BY <1>5, <1>b DEF Stage, TypeOK, Others
    <3>2. \A n : LET x == [exec[e] EXCEPT !.phase = "gateway", !.repairs = n]
                 IN x.phase = "gateway" /\ x.snapshot = exec[e].snapshot
      BY <1>b DEF TypeOK, Execution
    <3> QED BY <3>1, <3>2 DEF Called
  <2>4. WorkStep(e)
    BY <2>1, <2>3 DEF WorkStep, Working
  <2> QED BY <1>b, <2>1, <2>2, <2>4, QuietStep, JobUntouched
<1>6. CASE GatewayAnswers(e)
  <2>1. exec[e].phase = "gateway" /\ UNCHANGED <<trip, rows, job, queue, api>>
    BY <1>6 DEF GatewayAnswers
  <2>2. SameRuns
    BY <1>6, <1>a, <1>b, SetStageIsSame DEF GatewayAnswers, InFlight
  <2>3. WorkStep(e)
    BY <1>6, <1>b, <2>1, GotoWithIs DEF GatewayAnswers, WorkStep, Working, RecordVerdicts
  <2> QED BY <1>b, <2>1, <2>2, <2>3, QuietStep, JobUntouched
<1>7. CASE GatewayFails(e)
  <2>1. exec[e].phase = "gateway" /\ UNCHANGED <<trip, run, rows, job, queue, api>>
    BY <1>7 DEF GatewayFails
  <2>2. WorkStep(e)
    BY <1>7, <1>b, <2>1, GotoWithIs DEF GatewayFails, WorkStep, Working, RecordVerdicts
  <2> QED BY <1>b, <2>1, <2>2, QuietStep, NoChangeIsSame, JobUntouched
<1>8. CASE RecordAttempt(e)
  <2>1. exec[e].phase = "record" /\ UNCHANGED <<trip, job, queue, api>>
    BY <1>8 DEF RecordAttempt
  <2>2. SameRuns
    BY <1>8, <1>b, RecordAttemptIsSame
  <2>3. WorkStep(e)
    <3> DEFINE x == Counted(exec[e])
    <3>1. x \in [phase : Phases, aborted : BOOLEAN, offset : Nat, calls : Nat, repairs : Nat,
                 snapshot : Nat, verdict : Verdicts]
          /\ x.verdict = exec[e].verdict /\ x.snapshot = exec[e].snapshot
      BY <1>b DEF TypeOK, Execution, Counted
    <3>2. exec'[e] = AfterAttempt(x) /\ Others(e)
      BY <1>8, <1>b DEF RecordAttempt, TypeOK, Others
    <3>3. x.verdict \in RecordVerdicts
      BY <2>1, <3>1 DEF ExecInv, AcceptedIsPublished, RecordVerdicts
    <3> HIDE DEF x
    <3>4. /\ AfterAttempt(x).phase \in {"persisting", "stage", "fail"}
          /\ AfterAttempt(x).phase # "fail" => AfterAttempt(x).snapshot = x.snapshot
          /\ AfterAttempt(x).phase = "fail" => AfterAttempt(x).verdict \in FailVerdicts
      <4>1. CASE x.verdict = "accepted"
        BY <3>1, <4>1 DEF AfterAttempt
      <4>2. CASE x.verdict = "rejected"
        <5>1. x.repairs \in Nat /\ MaxRepairs \in Nat
          BY <3>1, RepairsAssumption
        <5>2. CASE x.repairs < MaxRepairs
          <6>1. ~ (x.repairs >= MaxRepairs)
            BY <5>1, <5>2
          <6>2. AfterAttempt(x) = [x EXCEPT !.phase = "stage"]
            BY <4>2, <5>2, <6>1 DEF AfterAttempt
          <6> QED BY <3>1, <6>2
        <5>3. CASE x.repairs >= MaxRepairs
          <6>1. ~ (x.repairs < MaxRepairs)
            BY <5>1, <5>3
          <6> QED BY <3>1, <4>2, <5>3, <6>1 DEF AfterAttempt, Idle, FailVerdicts
        <5> QED BY <5>1, <5>2, <5>3
      <4>3. CASE x.verdict \in {"retryable", "permanent", "cancelled"}
        BY <3>1, <4>3 DEF AfterAttempt, Idle, FailVerdicts
      <4> QED BY <3>3, <4>1, <4>2, <4>3 DEF RecordVerdicts
    <3> QED BY <2>1, <3>1, <3>2, <3>4 DEF WorkStep, Working
  <2> QED BY <1>b, <2>1, <2>2, <2>3, QuietStep, JobUntouched
<1>9. CASE SetPersisting(e)
  <2>1. exec[e].phase = "persisting" /\ UNCHANGED <<trip, rows, job, queue, api>>
    BY <1>9 DEF SetPersisting
  <2>2. SameRuns
    BY <1>9, <1>a, <1>b, SetStageIsSame DEF SetPersisting, InFlight
  <2>3. WorkStep(e)
    BY <1>9, <1>b, <2>1, GotoIs DEF SetPersisting, WorkStep, Working
  <2> QED BY <1>b, <2>1, <2>2, <2>3, QuietStep, JobUntouched
<1>10. CASE AlreadyPublished(e)
  <2>1. exec[e].phase = "persist" /\ run[e[1]].status = "succeeded"
        /\ UNCHANGED <<trip, run, rows, job, queue, api>>
    BY <1>10 DEF AlreadyPublished
  <2>2. WorkStep(e)
    BY <1>10, <1>b, <2>1, FinishIs DEF AlreadyPublished, WorkStep, Working, Gone
  <2> QED BY <1>b, <2>1, <2>2, QuietStep, NoChangeIsSame, JobUntouched
<1> QED BY <1>1, <1>2, <1>3, <1>4, <1>5, <1>6, <1>7, <1>8, <1>9, <1>10

LEMMA RequeuedIsKnown ==
  ASSUME NEW q PROVE Requeued(q) = [q EXCEPT !.state = Requeued(q).state]
BY DEF Requeued

\* What the runtime and pg-boss do to one delivered execution and its job.
LEMMA RuntimeKeepsIInv ==
  ASSUME IInv, TypeOK', NEW e \in Execs,
         Claim(e) \/ Report(e) \/ Return(e) \/ TimeOut(e) \/ WorkerCrash(e)
  PROVE  IInv'
<1> USE DEF IInv
<1>a. e[1] \in Runs
  BY ExecParts
<1>b. TypeOK
  OBVIOUS
<1>1. CASE Claim(e)
  <2>1. exec[e].phase = "claim" /\ UNCHANGED <<trip, run, rows, queue, api>>
    BY <1>1 DEF Claim
  <2>2. WorkStep(e)
    BY <1>1, <1>b, <2>1, GotoIs DEF Claim, WorkStep, Working
  <2>3. JobStep(e)
    BY <1>1, <1>a, <1>b DEF Claim, TypeOK, JobStep
  <2> QED BY <1>b, <2>1, <2>2, <2>3, QuietStep, NoChangeIsSame
<1>2. CASE Report(e)
  <2>1. exec[e].phase = "report" /\ UNCHANGED <<trip, run, rows, queue, api>>
    BY <1>2 DEF Report
  <2>2. WorkStep(e)
    BY <1>2, <1>b, <2>1, GotoIs DEF Report, WorkStep, Working
  <2>3. RowStatus(e) = "succeeded" => exec[e].verdict = "accepted"
    BY DEF RowStatus
  <2>4. \A s \in Runs : job'[s] = IF s = e[1] THEN [job[s] EXCEPT !.status = RowStatus(e)] ELSE job[s]
    BY <1>2, <1>a, <1>b DEF Report, TypeOK
  <2>5. job'[e[1]].status = RowStatus(e)
    BY <2>4, <1>a, <1>b DEF TypeOK, JobRow
  <2>6. RowStatus(e) = "succeeded" => run'[e[1]].status \in Gone
    BY <2>1, <2>3 DEF ExecInv, AcceptedIsPublished, Gone
  <2>7. JobStep(e)
    BY <2>1, <2>4, <2>5, <2>6 DEF JobStep
  <2> QED BY <1>b, <2>1, <2>2, <2>7, QuietStep, NoChangeIsSame
<1>3. CASE Return(e)
  <2>1. exec[e].phase = "return" /\ UNCHANGED <<trip, run, rows, job, api>>
    BY <1>3 DEF Return
  <2>2. WorkStep(e)
    BY <1>3, <1>b, <2>1, FinishIs DEF Return, WorkStep, Working
  <2>3. JobStep(e)
    BY <1>3, <1>b, <2>1 DEF Return, TypeOK, JobStep
  <2> QED BY <1>b, <2>1, <2>2, <2>3, QuietStep, NoChangeIsSame
<1>4. CASE TimeOut(e)
  <2>1. exec[e].phase \notin {"idle", "done", "crashed"} /\ UNCHANGED <<trip, run, rows, job, api>>
    BY <1>4 DEF TimeOut, Running
  <2>2. /\ Others(e) /\ exec'[e].phase = exec[e].phase
        /\ exec'[e].verdict = exec[e].verdict /\ exec'[e].snapshot = exec[e].snapshot
    BY <1>4, <1>b DEF TimeOut, TypeOK, Execution, Others
  <2>3. WorkStep(e)
    BY <2>1, <2>2 DEF WorkStep, ExecInv, AcceptedIsPublished, FailVerdicts, RecordVerdicts, Gone
  <2>4. JobStep(e)
    BY <1>4, <1>b, <2>1 DEF TimeOut, TypeOK, JobStep
  <2> QED BY <1>b, <2>1, <2>3, <2>4, QuietStep, NoChangeIsSame
<1>5. CASE WorkerCrash(e)
  <2>1. exec[e].phase \notin {"idle", "done", "crashed"}
        /\ UNCHANGED <<trip, run, rows, job, queue, api>>
    BY <1>5 DEF WorkerCrash, Running
  <2>2. Others(e) /\ exec'[e].phase = "crashed"
    BY <1>5, <1>b DEF WorkerCrash, TypeOK, Idle, Others
  <2>3. WorkStep(e)
    BY <2>1, <2>2 DEF WorkStep, Working
  <2> QED BY <1>b, <2>1, <2>3, QuietStep, NoChangeIsSame, JobUntouched
<1> QED BY <1>1, <1>2, <1>3, <1>4, <1>5

\* The steps of an execution that write the run and the trip.
LEMMA StoreWorkKeepsIInv ==
  ASSUME IInv, TypeOK', NEW e \in Execs,
         Begin(e) \/ BeginStale(e) \/ Publish(e) \/ FailRun(e)
  PROVE  IInv'
<1> USE DEF IInv
<1>a. e[1] \in Runs
  BY ExecParts
<1>b. TypeOK
  OBVIOUS
<1>1. CASE Begin(e) \/ BeginStale(e)
  <2>1. LedgerInv' /\ RunsKept /\ TripKept
    BY <1>1, <1>b, BeginKeeps
  <2>2. exec[e].phase = "begin" /\ UNCHANGED <<job, queue, api>>
    BY <1>1 DEF Begin, BeginStale
  <2>3. WorkStep(e)
    <3>1. CASE BeginStale(e)
      BY <1>b, <2>2, <3>1, FinishIs DEF BeginStale, WorkStep, Working
    <3>2. CASE Begin(e)
      <4>1. \A m, n : LET x == [exec[e] EXCEPT !.phase = "retrieve", !.offset = m, !.repairs = n,
                                               !.snapshot = trip.content]
                      IN x.phase = "retrieve" /\ x.snapshot = trip.content
        BY <1>b DEF TypeOK, Execution
      <4>2. Others(e) /\ exec'[e].phase = "retrieve" /\ exec'[e].snapshot = trip.content
        BY <1>b, <3>2, <4>1 DEF Begin, TypeOK, Others
      <4> QED BY <2>2, <4>2 DEF WorkStep, Working
    <3> QED BY <1>1, <3>1, <3>2
  <2> QED BY <1>b, <2>1, <2>2, <2>3, WorkKeepsExecInv, JobUntouched DEF TripStep, TripKept
<1>2. CASE Publish(e)
  <2>1. LedgerInv' /\ RunsKept /\ trip'.revision = trip.revision + 1
    BY <1>2, <1>b, PublishKeepsLedger
  <2>2. exec[e].phase = "persist" /\ UNCHANGED <<job, queue, api>>
    BY <1>2 DEF Publish
  <2>3. WorkStep(e)
    <3>1. run'[e[1]].status = "succeeded"
      BY <1>a, <1>b, <1>2 DEF Publish, TypeOK, RunRow
    <3> QED BY <1>b, <1>2, <2>2, <3>1, FinishIs DEF Publish, WorkStep, Working, Gone
  <2>4. TripStep
    <3>1. \A s \in Runs : run[s].revision <= trip.revision /\ run[s].revision \in Nat
      BY <1>b DEF LedgerInv, RevisionsReserved, TypeOK, RunRow
    <3>2. \A s \in Runs : run'[s].revision = run[s].revision
      BY <2>1 DEF RunsKept
    <3>3. trip.revision \in Nat /\ trip'.revision = trip.revision + 1
      BY <1>b, <2>1, TripFields
    <3>4. \A s \in Runs : run'[s].revision < trip'.revision
      BY <3>1, <3>2, <3>3
    <3> QED BY <3>4 DEF TripStep
  <2> QED BY <1>b, <2>1, <2>2, <2>3, <2>4, WorkKeepsExecInv, JobUntouched
<1>3. CASE FailRun(e)
  <2>1. FailureStatus(e) \in {"cancelled", "failed", "queued"}
    BY DEF FailureStatus
  <2>2. exec[e].phase = "fail" /\ UNCHANGED <<job, queue, api>>
    BY <1>3 DEF FailRun
  <2>3. LedgerInv' /\ RunsKept /\ TripKept
    <3>1. CASE FinishFailure(e[1], FailureStatus(e))
      BY <1>a, <1>b, <2>1, <3>1, FinishFailureKeeps
    <3>2. CASE UNCHANGED <<trip, run>>
      BY <1>b, <3>2, FrameKeepsLedger, NoChangeIsSame, SameRunsAreKept DEF TripKept
    <3> QED BY <1>3, <3>1, <3>2 DEF FailRun, FinishFailureRefused
  <2>4. WorkStep(e)
    <3>1. exec[e].verdict \in FailVerdicts
      BY <2>2 DEF ExecInv, AcceptedIsPublished, FailVerdicts
    <3>2. exec'[e].phase = "report" /\ exec'[e].verdict \in FailVerdicts /\ Others(e)
      BY <1>b, <1>3, <3>1, FinishIs DEF FailRun, FailVerdicts
    <3> QED BY <2>2, <3>2 DEF WorkStep, Working, FailVerdicts
  <2> QED BY <1>b, <2>2, <2>3, <2>4, WorkKeepsExecInv, JobUntouched DEF TripStep, TripKept
<1> QED BY <1>1, <1>2, <1>3

\* An API request or the queue: the executions stay where they are.
LEMMA ApiKeepsExecInv ==
  ASSUME TypeOK, TypeOK', ExecInv, RunsKept, TripStep, UNCHANGED exec,
         NEW r \in Runs, run[r].status # "absent",
         \A s \in Runs \ {r} : job'[s] = job[s] /\ queue'[s] = queue[s] /\ api'[s] = api[s],
         job'[r].status = "succeeded" => job[r].status = "succeeded"
  PROVE  ExecInv'
<1>1. NothingBeforeRequest'
  <2> SUFFICES ASSUME NEW s \in Runs, run'[s].status = "absent"
               PROVE  /\ api'[s] = "idle" /\ job'[s].status = "absent" /\ queue'[s].state = "absent"
                      /\ \A a \in Attempts : exec'[<<s, a>>].phase = "idle"
    BY DEF NothingBeforeRequest
  <2>1. run[s].status = "absent" /\ s # r
    BY DEF RunsKept
  <2> QED BY <2>1 DEF ExecInv, NothingBeforeRequest
<1>2. SnapshotCurrent'
  <2> SUFFICES ASSUME NEW f \in Execs, exec'[f].phase \in Working,
                      run'[f[1]].revision = trip'.revision
               PROVE  exec'[f].snapshot = trip'.content
    BY DEF SnapshotCurrent
  <2>1. f[1] \in Runs
    BY ExecParts
  <2>2. trip'.revision = trip.revision /\ trip'.content = trip.content
        /\ run[f[1]].revision = trip.revision
    <3>1. trip'.revision \in Nat /\ run'[f[1]].revision \in Nat
      BY <2>1 DEF TypeOK, TripRow, RunRow
    <3> QED BY <2>1, <3>1 DEF TripStep, RunsKept
  <2> QED BY <2>2 DEF ExecInv, SnapshotCurrent
<1>3. AcceptedIsPublished'
  BY ExecParts DEF ExecInv, AcceptedIsPublished, RunsKept
<1>4. JobSuccessMeansPublication'
  BY DEF ExecInv, JobSuccessMeansPublication, RunsKept
<1> QED BY <1>1, <1>2, <1>3, <1>4 DEF ExecInv

LEMMA ApiKeepsIInv ==
  ASSUME IInv, TypeOK', NEW r \in Runs,
         Serve(r) \/ CancelRequest(r) \/ EnqueueFails(r) \/ ApiCrash(r)
  PROVE  IInv'
<1> USE DEF IInv
<1>b. TypeOK
  OBVIOUS
<1>1. run[r].status # "absent"
  BY DEF Serve, Enqueue, Compensate, CancelQueue, CancelRow, CancelRun, CancelRequest,
         EnqueueFails, ApiCrash, ExecInv, NothingBeforeRequest
<1>2. UNCHANGED exec
  BY DEF Serve, Enqueue, Compensate, CancelQueue, CancelRow, CancelRun, CancelRequest,
         EnqueueFails, ApiCrash
<1>3. /\ \A s \in Runs \ {r} : job'[s] = job[s] /\ queue'[s] = queue[s] /\ api'[s] = api[s]
      /\ job'[r].status = "succeeded" => job[r].status = "succeeded"
  BY <1>b DEF Serve, Enqueue, Compensate, CancelQueue, CancelRow, CancelRun, CancelRequest,
         EnqueueFails, ApiCrash, TypeOK, JobRow
<1>4. LedgerInv' /\ RunsKept /\ TripKept
  <2>1. CASE UNCHANGED <<trip, run>>
    BY <1>b, <2>1, FrameKeepsLedger, NoChangeIsSame, SameRunsAreKept DEF TripKept
  <2>2. CASE FinishFailure(r, "failed") \/ FinishFailure(r, "cancelled")
    BY <1>b, <2>2, FinishFailureKeeps
  <2> QED BY <2>1, <2>2 DEF Serve, Enqueue, Compensate, CancelQueue, CancelRow, CancelRun,
             CancelRequest, EnqueueFails, ApiCrash
<1> QED BY <1>b, <1>1, <1>2, <1>3, <1>4, ApiKeepsExecInv DEF TripStep, TripKept

\* pg-boss hands out a job, or gives a lost one back to the queue.
LEMMA DeliverKeepsIInv ==
  ASSUME IInv, TypeOK', NEW r \in Runs, Deliver(r)
  PROVE  IInv'
<1> USE DEF IInv
<1>b. TypeOK
  OBVIOUS
<1> DEFINE a == queue[r].attempt + 1
           e == <<r, a>>
<1>1. /\ e \in Execs /\ run[r].status # "absent"
      /\ queue' = [queue EXCEPT ![r] = [state |-> "active", attempt |-> a]]
      /\ exec' = [exec EXCEPT ![e].phase = "claim"]
      /\ UNCHANGED <<trip, run, rows, job, api>>
  BY DEF Deliver, Execs, ExecInv, NothingBeforeRequest
<1> HIDE DEF a
<1>2. /\ \A f \in Execs \ {e} : exec'[f] = exec[f]
      /\ exec'[e].phase = "claim"
      /\ \A s \in Runs \ {r} : queue'[s] = queue[s]
  BY <1>1, <1>b DEF TypeOK, Execution
<1>3. \A f \in Execs : exec'[f].phase # "claim" => exec'[f] = exec[f]
  BY <1>2
<1>4. LedgerInv'
  BY <1>1, <1>b, FrameKeepsLedger, NoChangeIsSame
<1>5. SnapshotCurrent' /\ AcceptedIsPublished'
  BY <1>1, <1>3 DEF ExecInv, SnapshotCurrent, AcceptedIsPublished, Working
<1>6. JobSuccessMeansPublication'
  BY <1>1 DEF ExecInv, JobSuccessMeansPublication
<1>7. NothingBeforeRequest'
  <2> SUFFICES ASSUME NEW s \in Runs, run[s].status = "absent"
               PROVE  /\ api'[s] = "idle" /\ job'[s].status = "absent" /\ queue'[s].state = "absent"
                      /\ \A b \in Attempts : exec'[<<s, b>>].phase = "idle"
    BY <1>1 DEF NothingBeforeRequest
  <2>1. s # r /\ \A b \in Attempts : <<s, b>> \in Execs \ {e}
    BY <1>1 DEF Execs
  <2> QED BY <1>1, <1>2, <2>1 DEF ExecInv, NothingBeforeRequest
<1> QED BY <1>4, <1>5, <1>6, <1>7 DEF ExecInv

LEMMA ExpireKeepsIInv ==
  ASSUME IInv, TypeOK', NEW e \in Execs, Expire(e)
  PROVE  IInv'
<1> USE DEF IInv
<1>b. TypeOK
  OBVIOUS
<1>1. /\ UNCHANGED <<trip, run, job, exec, api>> /\ e[1] \in Runs
      /\ \A s \in Runs \ {e[1]} : queue'[s] = queue[s]
      /\ run[e[1]].status # "absent"
  BY ExecParts DEF Expire, TypeOK, Holds, ExecInv, NothingBeforeRequest
<1>2. LedgerInv' /\ RunsKept
  BY <1>1, <1>b, FrameKeepsLedger, NoChangeIsSame, SameRunsAreKept
<1> QED BY <1>1, <1>2, <1>b, ApiKeepsExecInv DEF TripStep

LEMMA TravellerKeepsIInv ==
  ASSUME IInv, TypeOK', UserEdit \/ DeleteTrip
  PROVE  IInv'
<1> USE DEF IInv
<1>b. TypeOK
  OBVIOUS
<1>1. LedgerInv' /\ RunsKept /\ UNCHANGED <<job, queue, exec, api>>
  BY <1>b, UserEditKeepsLedger, DeleteTripKeepsLedger DEF UserEdit, DeleteTrip
<1>2. TripStep
  <2>1. CASE UserEdit
    <3>1. /\ trip'.revision = trip.revision + 1 /\ trip.revision \in Nat /\ run' = run
          /\ \A s \in Runs : run[s].revision <= trip.revision /\ run[s].revision \in Nat
      BY <2>1, <1>b, UserEditKeepsLedger, TripFields
      DEF UserEdit, LedgerInv, RevisionsReserved, TypeOK, RunRow
    <3>2. \A s \in Runs : run'[s].revision < trip'.revision
      BY <3>1
    <3> QED BY <3>2 DEF TripStep
  <2>2. CASE DeleteTrip
    BY <2>2, <1>b, DeleteTripKeepsLedger DEF TripStep
  <2> QED BY <2>1, <2>2
<1>3. NothingBeforeRequest' /\ AcceptedIsPublished' /\ JobSuccessMeansPublication'
  BY <1>1, ExecParts
  DEF RunsKept, ExecInv, NothingBeforeRequest, AcceptedIsPublished, JobSuccessMeansPublication
<1>4. SnapshotCurrent'
  <2> SUFFICES ASSUME NEW f \in Execs, exec'[f].phase \in Working,
                      run'[f[1]].revision = trip'.revision
               PROVE  exec'[f].snapshot = trip'.content
    BY DEF SnapshotCurrent
  <2>1. f[1] \in Runs
    BY ExecParts
  <2>2. trip'.revision = trip.revision /\ trip'.content = trip.content
        /\ run[f[1]].revision = trip.revision
    <3>1. trip'.revision \in Nat /\ run'[f[1]].revision \in Nat
      BY <2>1 DEF TypeOK, TripRow, RunRow
    <3> QED BY <1>1, <1>2, <2>1, <3>1 DEF TripStep, RunsKept
  <2> QED BY <1>1, <2>2 DEF ExecInv, SnapshotCurrent
<1> QED BY <1>1, <1>3, <1>4 DEF ExecInv

LEMMA RequestKeepsIInv ==
  ASSUME IInv, TypeOK', NEW r \in Runs, RequestGeneration(r)
  PROVE  IInv'
<1> USE DEF IInv
<1>b. TypeOK
  OBVIOUS
<1>1. /\ LedgerInv' /\ trip'.revision = trip.revision + 1
      /\ \A s \in Runs \ {r} : run'[s] = run[s]
      /\ run'[r].status = "queued" /\ run'[r].revision = trip'.revision
  BY <1>b, RequestKeepsLedger
<1>2. /\ run[r].status = "absent" /\ UNCHANGED <<job, queue, exec>>
      /\ \A s \in Runs \ {r} : api'[s] = api[s]
  BY <1>b DEF RequestGeneration, TypeOK
<1>3. \A s \in Runs \ {r} : run'[s].revision # trip'.revision
  <2>1. \A s \in Runs : run[s].revision <= trip.revision /\ run[s].revision \in Nat
    BY <1>b DEF LedgerInv, RevisionsReserved, TypeOK, RunRow
  <2>2. trip.revision \in Nat
    BY <1>b, TripFields
  <2> QED BY <1>1, <2>1, <2>2
<1>4. \A f \in Execs : f[1] = r => exec[f].phase = "idle"
  <2> SUFFICES ASSUME NEW f \in Execs, f[1] = r PROVE exec[f].phase = "idle"
    OBVIOUS
  <2>1. f = <<r, f[2]>> /\ f[2] \in Attempts
    BY DEF Execs
  <2> QED BY <1>2, <2>1 DEF ExecInv, NothingBeforeRequest
<1>5. NothingBeforeRequest' /\ JobSuccessMeansPublication'
  BY <1>1, <1>2 DEF ExecInv, NothingBeforeRequest, JobSuccessMeansPublication
<1>6. SnapshotCurrent'
  BY <1>1, <1>2, <1>3, <1>4, ExecParts DEF SnapshotCurrent, Working
<1>7. AcceptedIsPublished'
  BY <1>1, <1>2, <1>4, ExecParts DEF ExecInv, AcceptedIsPublished
<1> QED BY <1>1, <1>5, <1>6, <1>7 DEF ExecInv

LEMMA NextIInv == IInv /\ [Next]_vars => IInv'
<1> SUFFICES ASSUME IInv, [Next]_vars PROVE IInv'
  OBVIOUS
<1>1. TypeOK /\ TypeOK'
  BY NextTypeOK DEF IInv
<1>2. CASE UserEdit \/ DeleteTrip
  BY <1>1, <1>2, TravellerKeepsIInv
<1>3. ASSUME NEW r \in Runs,
             \/ RequestGeneration(r) \/ CancelRequest(r) \/ EnqueueFails(r) \/ ApiCrash(r)
             \/ Serve(r) \/ Deliver(r)
      PROVE  IInv'
  BY <1>1, <1>3, RequestKeepsIInv, ApiKeepsIInv, DeliverKeepsIInv
<1>4. ASSUME NEW e \in Execs, Work(e) \/ Expire(e) \/ Disturb(e)
      PROVE  IInv'
  BY <1>1, <1>4, QuietWorkKeepsIInv, RuntimeKeepsIInv, StoreWorkKeepsIInv, ExpireKeepsIInv
  DEF Work, Disturb
<1>5. CASE UNCHANGED vars
  <2>1. LedgerInv'
    BY <1>1, <1>5, FrameKeepsLedger, NoChangeIsSame DEF IInv, vars
  <2>2. ExecInv'
    BY <1>5 DEF vars, IInv, ExecInv, NothingBeforeRequest, SnapshotCurrent, AcceptedIsPublished,
                JobSuccessMeansPublication
  <2> QED BY <1>1, <2>1, <2>2 DEF IInv
<1> QED BY <1>2, <1>3, <1>4, <1>5 DEF Next

\* The inductive invariant holds of every run of the system.
THEOREM Inductive == Spec => []IInv
<1> QED BY InitIInv, NextIInv, PTL DEF Spec

-----------------------------------------------------------------------------
(* The properties.                                                         *)

\* A run that is active at the revision of the trip is the one the trip shows.
THEOREM ActiveRunDrivesTripHolds == Spec => []ActiveRunDrivesTrip
<1>1. IInv => ActiveRunDrivesTrip
  BY DEF IInv, LedgerInv
<1> QED BY <1>1, Inductive, PTL

\* A job is reported successful only for a published run.
THEOREM JobSuccessMeansPublicationHolds == Spec => []JobSuccessMeansPublication
<1>1. IInv => JobSuccessMeansPublication
  BY DEF IInv, ExecInv
<1> QED BY <1>1, Inductive, PTL

\* A draft never replaces edits made since the worker read the trip.
THEOREM NoLostEditHolds == Spec => NoLostEdit
<1>1. IInv /\ [Next]_vars => [\A e \in Execs : Publish(e) => exec[e].snapshot = trip.content]_vars
  BY DEF IInv, ExecInv, SnapshotCurrent, Publish, MayPublish, Working
<1> QED BY <1>1, Inductive, PTL DEF Spec, NoLostEdit

\* What the traveller sees of the trip and of its runs stays as it is.
PhasesSame ==
  \A s \in Runs : /\ PhaseOf(run'[s].status) = PhaseOf(run[s].status)
                  /\ run'[s].basis = run[s].basis

LEMMA SameRunsSamePhases == SameRuns => PhasesSame
BY DEF SameRuns, PhasesSame, PhaseOf, InFlight

LEMMA FinishFailureSamePhases ==
  ASSUME TypeOK, NEW r \in Runs, NEW status \in {"cancelled", "failed", "queued"},
         FinishFailure(r, status)
  PROVE  PhasesSame
<1>1. CASE run[r].status \in {"absent", "deleted", "succeeded"}
  BY <1>1 DEF FinishFailure, PhasesSame
<1>2. CASE run[r].status \notin {"absent", "deleted", "succeeded"}
  <2>1. \A s \in Runs : /\ run'[s].basis = run[s].basis
                        /\ run'[s].status = IF s = r THEN status ELSE run[s].status
    BY <1>2 DEF FinishFailure, TypeOK, RunRow
  <2> QED BY <1>2, <2>1 DEF PhasesSame, PhaseOf
<1> QED BY <1>1, <1>2

LEMMA BeginSamePhases ==
  ASSUME TypeOK, NEW e \in Execs, Begin(e) \/ BeginStale(e)
  PROVE  PhasesSame
<1>1. PICK status \in {"retrieving", "failed"} : run' = [run EXCEPT ![e[1]].status = status]
  BY DEF Begin, BeginStale
<1>2. e[1] \in Runs /\ Active(e[1])
  BY ExecParts DEF Begin, BeginStale
<1>3. \A s \in Runs : /\ run'[s].basis = run[s].basis
                      /\ run'[s].status = IF s = e[1] THEN status ELSE run[s].status
  BY <1>1, <1>2 DEF TypeOK, RunRow
<1> QED BY <1>2, <1>3 DEF PhasesSame, PhaseOf, Active, ActiveStatus, InFlight

Visible == UserEdit \/ DeleteTrip \/ (\E r \in Runs : RequestGeneration(r)) \/ (\E e \in Execs : Publish(e))

\* Every other step leaves what the traveller sees alone.
LEMMA OnlyFourStepsShow ==
  ASSUME IInv, [Next]_vars
  PROVE  Visible \/ (PhasesSame /\ TripKept)
<1>a. TypeOK /\ LedgerInv
  BY DEF IInv
<1>1. ASSUME NEW r \in Runs,
             \/ CancelRequest(r) \/ EnqueueFails(r) \/ ApiCrash(r)
             \/ Serve(r) \/ Deliver(r)
      PROVE  PhasesSame /\ TripKept
  <2>1. CASE FinishFailure(r, "failed") \/ FinishFailure(r, "cancelled")
    BY <1>a, <2>1, FinishFailureKeeps, FinishFailureSamePhases
  <2>2. CASE UNCHANGED <<trip, run>>
    BY <2>2 DEF PhasesSame, TripKept
  <2> QED BY <1>1, <2>1, <2>2 DEF CancelRequest, EnqueueFails, ApiCrash, Serve, Deliver, Enqueue,
                                  Compensate, CancelQueue, CancelRow, CancelRun
<1>2. ASSUME NEW e \in Execs, Work(e) \/ Expire(e) \/ Disturb(e), ~ Publish(e)
      PROVE  PhasesSame /\ TripKept
  <2>a. e[1] \in Runs
    BY ExecParts
  <2>1. CASE Begin(e) \/ BeginStale(e)
    BY <1>a, <2>1, BeginKeeps, BeginSamePhases
  <2>2. CASE FailRun(e)
    <3>1. FailureStatus(e) \in {"cancelled", "failed", "queued"}
      BY DEF FailureStatus
    <3>2. CASE FinishFailure(e[1], FailureStatus(e))
      BY <1>a, <2>a, <3>1, <3>2, FinishFailureKeeps, FinishFailureSamePhases
    <3>3. CASE UNCHANGED <<trip, run>>
      BY <3>3 DEF PhasesSame, TripKept
    <3> QED BY <2>2, <3>2, <3>3 DEF FailRun, FinishFailureRefused
  <2>3. CASE Stage(e) \/ GatewayAnswers(e) \/ SetPersisting(e) \/ RecordAttempt(e)
    <3>1. SameRuns
      BY <1>a, <2>a, <2>3, SetStageIsSame, RecordAttemptIsSame
      DEF Stage, GatewayAnswers, SetPersisting, InFlight
    <3>2. trip' = trip
      BY <2>3 DEF Stage, GatewayAnswers, SetPersisting, RecordAttempt
    <3> QED BY <3>1, <3>2, SameRunsSamePhases DEF TripKept
  <2>4. CASE UNCHANGED <<trip, run>>
    BY <2>4 DEF PhasesSame, TripKept
  <2> QED BY <1>2, <2>1, <2>2, <2>3, <2>4
      DEF Work, Disturb, Expire, Claim, StartHandler, BeginRefused, Retrieve, RetrieveEmpty,
          GatewayFails, RecordAttemptRefused, AlreadyPublished, PublishRefused, Report, Return,
          TimeOut, WorkerCrash, RetrieveFails, StoreFails
<1>3. CASE UNCHANGED vars
  BY <1>3 DEF vars, PhasesSame, TripKept
<1> QED BY <1>1, <1>2, <1>3 DEF Next, Visible

\* Each visible step on the runs.
LEMMA VisibleSteps ==
  ASSUME TypeOK
  PROVE  /\ \A r \in Runs : RequestGeneration(r) =>
              /\ run[r].status = "absent"
              /\ \A s \in Runs : run'[s].status = IF s = r THEN "queued" ELSE run[s].status
              /\ \A s \in Runs : run'[s].basis = IF s = r THEN trip.content ELSE run[s].basis
         /\ \A e \in Execs : Publish(e) =>
              /\ run[e[1]].status = "persisting"
              /\ \A s \in Runs : run'[s].status = IF s = e[1] THEN "succeeded" ELSE run[s].status
              /\ \A s \in Runs : run'[s].basis = run[s].basis
         /\ DeleteTrip => \A s \in Runs :
              /\ run'[s].status = IF run[s].status = "absent" THEN "absent" ELSE "deleted"
              /\ run'[s].basis = run[s].basis
<1>1. ASSUME NEW r \in Runs, RequestGeneration(r)
      PROVE  /\ run[r].status = "absent"
             /\ \A s \in Runs : run'[s].status = IF s = r THEN "queued" ELSE run[s].status
             /\ \A s \in Runs : run'[s].basis = IF s = r THEN trip.content ELSE run[s].basis
  BY <1>1 DEF RequestGeneration, TypeOK
<1>2. ASSUME NEW e \in Execs, Publish(e)
      PROVE  /\ run[e[1]].status = "persisting"
             /\ \A s \in Runs : run'[s].status = IF s = e[1] THEN "succeeded" ELSE run[s].status
             /\ \A s \in Runs : run'[s].basis = run[s].basis
  BY <1>2, ExecParts DEF Publish, MayPublish, TypeOK, RunRow
<1>3. ASSUME DeleteTrip
      PROVE  \A s \in Runs :
              /\ run'[s].status = IF run[s].status = "absent" THEN "absent" ELSE "deleted"
              /\ run'[s].basis = run[s].basis
  BY <1>3 DEF DeleteTrip, Exists, TypeOK, RunRow
<1> QED BY <1>1, <1>2, <1>3

\* No late failure, stale start or repeated delivery undoes a publication.
THEOREM SucceededIsFinalHolds == Spec => SucceededIsFinal
<1>1. IInv /\ [Next]_vars =>
        [\A r \in Runs : run[r].status = "succeeded" =>
           run'[r].status \in {"succeeded", "deleted"}]_vars
  <2> SUFFICES ASSUME IInv, [Next]_vars, NEW r \in Runs, run[r].status = "succeeded"
               PROVE  run'[r].status \in {"succeeded", "deleted"}
    OBVIOUS
  <2>1. TypeOK
    BY DEF IInv
  <2>2. CASE PhasesSame
    BY <2>2 DEF PhasesSame, PhaseOf
  <2>3. CASE Visible
    BY <2>1, <2>3, VisibleSteps DEF Visible, UserEdit
  <2> QED BY <2>2, <2>3, OnlyFourStepsShow
<1> QED BY <1>1, Inductive, PTL DEF Spec, SucceededIsFinal

\* Whatever is redelivered, overtaken, crashed or cancelled, a request is
\* answered by at most one publication, on the trip it was made for.
THEOREM ImplementsContractHolds == Spec => ImplementsContract
<1>1. Init => Contract!CInit
  BY DEF Init, Contract!CInit, PhaseOf
<1>2. IInv /\ [Next]_vars => [Contract!CNext]_(Contract!cvars)
  <2> SUFFICES ASSUME IInv, [Next]_vars
               PROVE  Contract!CNext \/ UNCHANGED Contract!cvars
    OBVIOUS
  <2>a. TypeOK
    BY DEF IInv
  <2>1. CASE PhasesSame /\ TripKept
    BY <2>1 DEF Contract!cvars, PhasesSame, TripKept
  <2>2. CASE UserEdit
    <3>1. trip.exists /\ trip'.exists = trip.exists /\ trip'.content = trip.content + 1
          /\ run' = run
      BY <2>a, <2>2 DEF UserEdit, TypeOK, TripRow
    <3> QED BY <3>1 DEF Contract!CNext, Contract!Edit
  <2>3. CASE DeleteTrip
    <3>1. trip.exists /\ ~trip'.exists /\ trip'.content = trip.content
      BY <2>a, <2>3 DEF DeleteTrip, TypeOK, TripRow
    <3>2. \A s \in Runs :
            /\ run'[s].basis = run[s].basis
            /\ PhaseOf(run'[s].status) = IF PhaseOf(run[s].status) = "none" THEN "none" ELSE "void"
      BY <2>a, <2>3, VisibleSteps DEF PhaseOf
    <3>3. trip'.exists = FALSE
      BY <2>3, <2>a DEF DeleteTrip, TypeOK, TripRow
    <3>4. Contract!Delete
      BY <3>1, <3>2, <3>3 DEF Contract!Delete
    <3> QED BY <3>4 DEF Contract!CNext
  <2>4. ASSUME NEW r \in Runs, RequestGeneration(r) PROVE Contract!CNext
    <3>1. trip.exists /\ trip'.exists = trip.exists /\ trip'.content = trip.content
      BY <2>a, <2>4 DEF RequestGeneration, TypeOK, TripRow
    <3>2. /\ PhaseOf(run[r].status) = "none"
          /\ \A s \in Runs : /\ PhaseOf(run'[s].status) =
                                  IF s = r THEN "open" ELSE PhaseOf(run[s].status)
                             /\ run'[s].basis = IF s = r THEN trip.content ELSE run[s].basis
      BY <2>a, <2>4, VisibleSteps DEF PhaseOf
    <3>3. Contract!Request(r)
      BY <3>1, <3>2 DEF Contract!Request
    <3> QED BY <3>3 DEF Contract!CNext
  <2>5. ASSUME NEW e \in Execs, Publish(e) PROVE Contract!CNext
    <3> DEFINE r == e[1]
    <3>1. r \in Runs /\ trip'.exists = trip.exists /\ trip'.content = trip.content + 1
      BY <2>a, <2>5, ExecParts DEF Publish, TypeOK, TripRow
    <3>2. /\ PhaseOf(run[r].status) = "open"
          /\ \A s \in Runs : /\ PhaseOf(run'[s].status) =
                                  IF s = r THEN "published" ELSE PhaseOf(run[s].status)
                             /\ run'[s].basis = run[s].basis
      BY <2>a, <2>5, <3>1, VisibleSteps DEF PhaseOf
    <3>3. run[r].basis = trip.content /\ trip.exists
      BY <2>5, <3>1 DEF IInv, LedgerInv, BasisCurrent, DeadTripHasNoRuns, Exists, Publish, MayPublish,
                   TypeOK, TripRow
    <3>4. Contract!Answer(r)
      BY <3>1, <3>2, <3>3 DEF Contract!Answer
    <3> QED BY <3>1, <3>4 DEF Contract!CNext
  <2> QED BY <2>1, <2>2, <2>3, <2>4, <2>5, OnlyFourStepsShow DEF Visible
<1> QED BY <1>1, <1>2, Inductive, PTL DEF Spec, ImplementsContract, Contract!CSpec

-----------------------------------------------------------------------------
(* The catalog that grounds a generation.                                  *)

\* A nonempty set of numbers has a least one.
LEMMA LeastNumber ==
  ASSUME NEW T, T \subseteq Nat, T # {}
  PROVE  \E n \in T : \A m \in T : n <= m
  <1>1. IsWellFoundedOn(OpToRel(<, Nat), Nat)
    BY NatLessThanWellFounded
  <1>2. PICK n \in T : \A m \in T : ~(<<m, n>> \in OpToRel(<, Nat))
    BY <1>1, WFMin
  <1>3. \A m \in T : ~(m < n)
    BY <1>2 DEF OpToRel
  <1> QED
    BY <1>3

\* Induction over the numbers up to a bound, as a property of sets.
LEMMA BoundedInduction ==
  ASSUME NEW N \in Nat, NEW S, 0 \in S,
         \A n \in 0 .. N : n < N /\ n \in S => n + 1 \in S
  PROVE  0 .. N \subseteq S
  <1> SUFFICES ASSUME ~(0 .. N \subseteq S) PROVE FALSE
    OBVIOUS
  <1>1. PICK n \in (0 .. N) \ S : \A m \in (0 .. N) \ S : n <= m
    <2> DEFINE T == (0 .. N) \ S
    <2>1. T \subseteq Nat /\ T # {}
      OBVIOUS
    <2>2. \E n \in T : \A m \in T : n <= m
      BY ONLY <2>1, LeastNumber
    <2> QED
      BY <2>2
  <1>2. n \in Nat /\ n # 0 /\ n <= N /\ n \notin S
    BY <1>1
  <1>3. n - 1 \in 0 .. N /\ n - 1 < N /\ n - 1 + 1 = n
    BY <1>2
  <1>4. n - 1 \in S
    BY <1>1, <1>2, <1>3
  <1>5. n - 1 + 1 \in S
    BY <1>3, <1>4
  <1> QED
    BY <1>2, <1>3, <1>5

\* What the steps F do from x on, N times.
Iterates(f, x, F, N) == f = [n \in 0 .. N |-> IF n = 0 THEN x ELSE F[n][f[n - 1]]]

\* The values are of the type of the steps.
LEMMA IteratesTyped ==
  ASSUME NEW X, NEW x \in X, NEW N \in Nat, NEW F \in [Nat -> [X -> X]],
         NEW f, Iterates(f, x, F, N)
  PROVE  /\ f \in [0 .. N -> X]
         /\ f[0] = x
         /\ \A n \in 1 .. N : f[n] = F[n][f[n - 1]]
  <1>1. /\ DOMAIN f = 0 .. N
        /\ f[0] = x
        /\ \A n \in 1 .. N : f[n] = F[n][f[n - 1]]
        /\ f = [n \in 0 .. N |-> f[n]]
    BY DEF Iterates
  <1> DEFINE S == {n \in 0 .. N : f[n] \in X}
  <1>2. 0 \in S
    BY <1>1
  <1>3. ASSUME NEW n \in 0 .. N, n < N, n \in S
        PROVE  n + 1 \in S
    <2>1. n + 1 \in 1 .. N /\ n + 1 - 1 = n /\ n + 1 \in 0 .. N
      BY <1>3
    <2>4. PICK m : m = n + 1
      OBVIOUS
    <2>6. m \in 1 .. N /\ m - 1 = n
      BY <2>1, <2>4
    <2>5. f[m] = F[m][f[m - 1]]
      BY <1>1, <2>6
    <2>2. f[n + 1] = F[n + 1][f[n]]
      BY <2>4, <2>5, <2>6
    <2>3. F[n + 1][f[n]] \in X
      BY <1>3, <2>1
    <2> QED
      BY <2>1, <2>2, <2>3
  <1>4. \A n \in 0 .. N : n < N /\ n \in S => n + 1 \in S
    BY <1>3
  <1>5. 0 .. N \subseteq S
    <2> HIDE DEF S
    <2> QED BY ONLY <1>2, <1>4, N \in Nat, BoundedInduction
  <1> QED
    BY <1>1, <1>5

\* A function defined by recursion over so many steps exists,
LEMMA IteratesExist ==
  ASSUME NEW X, NEW x \in X, NEW N \in Nat, NEW F \in [Nat -> [X -> X]]
  PROVE  \E f : Iterates(f, x, F, N)
  <1> DEFINE Upto(m) == \E f \in [0 .. m -> X] :
                          f = [n \in 0 .. m |-> IF n = 0 THEN x ELSE F[n][f[n - 1]]]
             S == {m \in 0 .. N : Upto(m)}
  <1>1. 0 \in S
    <2> DEFINE f == [n \in 0 .. 0 |-> x]
    <2>1. f \in [0 .. 0 -> X]
      OBVIOUS
    <2>2. f = [n \in 0 .. 0 |-> IF n = 0 THEN x ELSE F[n][f[n - 1]]]
      OBVIOUS
    <2>3. Upto(0)
      BY <2>1, <2>2
    <2> QED
      BY <2>3
  <1>2. ASSUME NEW m \in 0 .. N, m < N, m \in S
        PROVE  m + 1 \in S
    <2>1. PICK f \in [0 .. m -> X] :
            f = [n \in 0 .. m |-> IF n = 0 THEN x ELSE F[n][f[n - 1]]]
      BY <1>2
    <2> DEFINE g == [n \in 0 .. m + 1 |-> IF n = m + 1 THEN F[m + 1][f[m]] ELSE f[n]]
    <2>2. m \in Nat /\ m + 1 \in 1 .. N /\ m + 1 \in 0 .. N /\ m + 1 - 1 = m /\ m \in 0 .. m
      BY <1>2
    <2>3. F[m + 1][f[m]] \in X
      BY <2>1, <2>2
    <2>4. g \in [0 .. m + 1 -> X]
      BY <2>2, <2>3
    <2>5. ASSUME NEW n \in 0 .. m + 1
          PROVE  g[n] = IF n = 0 THEN x ELSE F[n][g[n - 1]]
      <3>1. CASE n = m + 1
        <4>1. n # 0 /\ n - 1 = m /\ m # m + 1 /\ m \in 0 .. m + 1
          BY <2>2, <3>1
        <4>2. g[m] = f[m]
          BY <4>1
        <4>3. g[n] = F[m + 1][f[m]]
          BY <3>1
        <4> QED
          BY <3>1, <4>1, <4>2, <4>3
      <3>2. CASE n # m + 1 /\ n # 0
        <4>1. n \in 0 .. m /\ n - 1 \in 0 .. m /\ n - 1 # m + 1 /\ n - 1 \in 0 .. m + 1
          BY <2>2, <3>2
        <4>2. g[n] = f[n] /\ g[n - 1] = f[n - 1]
          BY <3>2, <4>1
        <4>3. f[n] = F[n][f[n - 1]]
          BY <2>1, <3>2, <4>1
        <4> QED
          BY <3>2, <4>2, <4>3
      <3>3. CASE n # m + 1 /\ n = 0
        <4>1. g[n] = f[0] /\ 0 \in 0 .. m
          BY <2>2, <3>3
        <4>2. f[0] = x
          BY <2>1, <4>1
        <4> QED
          BY <3>3, <4>1, <4>2
      <3> QED
        BY <3>1, <3>2, <3>3
    <2>6. g = [n \in 0 .. m + 1 |-> IF n = 0 THEN x ELSE F[n][g[n - 1]]]
      BY <2>5
    <2>7. Upto(m + 1)
      <3> HIDE DEF g
      <3> QED BY <2>4, <2>6
    <2> QED
      BY <2>2, <2>7
  <1>3. \A m \in 0 .. N : m < N /\ m \in S => m + 1 \in S
    BY <1>2
  <1>4. 0 .. N \subseteq S
    <2> HIDE DEF S
    <2> QED BY ONLY <1>1, <1>3, N \in Nat, BoundedInduction
  <1>5. Upto(N)
    <2>1. N \in 0 .. N
      OBVIOUS
    <2>2. N \in S
      BY <1>4, <2>1
    <2> QED
      BY <2>2
  <1> QED
    BY <1>5 DEF Iterates

\* and there is one for each number of steps only.
LEMMA IteratesAgree ==
  ASSUME NEW X, NEW x \in X, NEW N \in Nat, NEW M \in Nat, N <= M,
         NEW F \in [Nat -> [X -> X]],
         NEW f, Iterates(f, x, F, N), NEW g, Iterates(g, x, F, M)
  PROVE  \A n \in 0 .. N : f[n] = g[n]
  <1>1. f[0] = x /\ \A n \in 1 .. N : f[n] = F[n][f[n - 1]]
    BY IteratesTyped
  <1>2. g[0] = x /\ \A n \in 1 .. M : g[n] = F[n][g[n - 1]]
    BY IteratesTyped
  <1> DEFINE S == {n \in 0 .. N : f[n] = g[n]}
  <1>3. 0 \in S
    BY <1>1, <1>2
  <1>4. ASSUME NEW n \in 0 .. N, n < N, n \in S
        PROVE  n + 1 \in S
    <2>1. n + 1 \in 1 .. N /\ n + 1 \in 1 .. M /\ n + 1 - 1 = n /\ n + 1 \in 0 .. N
      BY <1>4
    <2>2. f[n + 1] = F[n + 1][f[n + 1 - 1]] /\ g[n + 1] = F[n + 1][g[n + 1 - 1]]
      BY <1>1, <1>2, <2>1
    <2>3. f[n] = g[n]
      BY <1>4
    <2> QED
      BY <2>1, <2>2, <2>3
  <1>5. \A n \in 0 .. N : n < N /\ n \in S => n + 1 \in S
    BY <1>4
  <1>6. 0 .. N \subseteq S
    <2> HIDE DEF S
    <2> QED BY ONLY <1>3, <1>5, N \in Nat, BoundedInduction
  <1> QED
    BY <1>6

\* A function defined by recursion over all numbers exists, and has the type of
\* its steps.
Unfolds(f, x, F) == f = [n \in Nat |-> IF n = 0 THEN x ELSE F[n][f[n - 1]]]

LEMMA UnfoldsExist ==
  ASSUME NEW X, NEW x \in X, NEW F \in [Nat -> [X -> X]]
  PROVE  \E f : Unfolds(f, x, F)
  <1> DEFINE g == [n \in Nat |-> CHOOSE h : Iterates(h, x, F, n)]
             f == [n \in Nat |-> g[n][n]]
  <1>1. ASSUME NEW n \in Nat
        PROVE  Iterates(g[n], x, F, n)
    <2>1. \E h : Iterates(h, x, F, n)
      BY IteratesExist
    <2> QED
      BY <2>1
  <1>2. f[0] = x
    <2>1. g[0][0] = x
      <3> HIDE DEF g
      <3> QED BY <1>1, IteratesTyped
    <2> QED
      BY <2>1
  <1>3. ASSUME NEW n \in Nat, n # 0
        PROVE  f[n] = F[n][f[n - 1]]
    <2>1. n - 1 \in Nat /\ n - 1 <= n /\ n \in 1 .. n /\ n - 1 \in 0 .. n - 1
      BY <1>3
    <2>2. Iterates(g[n], x, F, n) /\ Iterates(g[n - 1], x, F, n - 1)
      BY <1>1, <2>1
    <2> HIDE DEF g
    <2>3. g[n][n] = F[n][g[n][n - 1]]
      BY <2>1, <2>2, IteratesTyped
    <2>4. \A m \in 0 .. n - 1 : g[n - 1][m] = g[n][m]
      BY <2>1, <2>2, IteratesAgree
    <2>5. g[n - 1][n - 1] = g[n][n - 1]
      BY <2>1, <2>4
    <2> QED
      BY <2>1, <2>3, <2>5
  <1>4. f = [n \in Nat |-> IF n = 0 THEN x ELSE F[n][f[n - 1]]]
    <2>1. f = [n \in Nat |-> f[n]]
      OBVIOUS
    <2> HIDE DEF f
    <2>2. \A n \in Nat : f[n] = IF n = 0 THEN x ELSE F[n][f[n - 1]]
      BY <1>2, <1>3
    <2> QED
      BY <2>1, <2>2
  <1> HIDE DEF f
  <1> QED
    BY <1>4 DEF Unfolds

LEMMA UnfoldsTyped ==
  ASSUME NEW X, NEW x \in X, NEW F \in [Nat -> [X -> X]],
         NEW f, Unfolds(f, x, F)
  PROVE  /\ f \in [Nat -> X]
         /\ f[0] = x
         /\ \A n \in Nat : f[n + 1] = F[n + 1][f[n]]
  <1>1. /\ f[0] = x
        /\ f = [n \in Nat |-> f[n]]
        /\ \A n \in Nat : n # 0 => f[n] = F[n][f[n - 1]]
    BY DEF Unfolds
  <1>2. ASSUME NEW n \in Nat
        PROVE  f[n + 1] = F[n + 1][f[n]]
    <2>1. PICK m \in Nat : m = n + 1
      OBVIOUS
    <2>2. m # 0 /\ m - 1 = n
      BY <2>1
    <2>3. f[m] = F[m][f[m - 1]]
      BY <1>1, <2>2
    <2> QED
      BY <2>1, <2>2, <2>3
  <1>3. ASSUME NEW N \in Nat
        PROVE  f[N] \in X
    <2> DEFINE S == {n \in 0 .. N : f[n] \in X}
    <2>1. 0 \in S
      BY <1>1
    <2>2. ASSUME NEW n \in 0 .. N, n < N, n \in S
          PROVE  n + 1 \in S
      <3>1. n \in Nat /\ n + 1 \in 0 .. N /\ n + 1 \in Nat
        BY <2>2
      <3>2. F[n + 1][f[n]] \in X
        BY <2>2, <3>1
      <3> QED
        BY <1>2, <3>1, <3>2
    <2>3. \A n \in 0 .. N : n < N /\ n \in S => n + 1 \in S
      BY <2>2
    <2>4. 0 .. N \subseteq S
      <3> HIDE DEF S
      <3> QED BY ONLY <2>1, <2>3, N \in Nat, BoundedInduction
    <2> QED
      BY <2>4
  <1> QED
    BY <1>1, <1>2, <1>3

-----------------------------------------------------------------------------
(* Chains of parents.                                                      *)

Nodes == Keys \cup {Top}
IsParents(p) == \A k \in Keys : p[k].parent \in Nodes

LEMMA AboveIsNode ==
  ASSUME NEW p, IsParents(p), NEW k \in Nodes
  PROVE  Above(p, k) \in Nodes
  BY DEF IsParents, Nodes, Above

\* A chain begins at its record, each further step is to the parent, and it
\* stays among the records.
LEMMA ClimbSteps ==
  ASSUME NEW p, IsParents(p), NEW k \in Nodes
  PROVE  /\ Climb(p, k, 0) = k
         /\ \A n \in Nat : Climb(p, k, n) \in Nodes
         /\ \A n \in Nat : Climb(p, k, n + 1) = Above(p, Climb(p, k, n))
  <1> DEFINE F == [n \in Nat |-> [x \in Nodes |-> Above(p, x)]]
             at == CHOOSE f : f = [m \in Nat |-> IF m = 0 THEN k ELSE Above(p, f[m - 1])]
  <1>1. F \in [Nat -> [Nodes -> Nodes]]
    BY AboveIsNode
  <1>2. PICK f : Unfolds(f, k, F)
    BY <1>1, UnfoldsExist
  <1>3. f \in [Nat -> Nodes]
    BY <1>1, <1>2, UnfoldsTyped
  <1>4. f = [m \in Nat |-> IF m = 0 THEN k ELSE Above(p, f[m - 1])]
    <2>1. \A m \in Nat : m # 0 => F[m][f[m - 1]] = Above(p, f[m - 1])
      <3> SUFFICES ASSUME NEW m \in Nat, m # 0 PROVE F[m][f[m - 1]] = Above(p, f[m - 1])
        OBVIOUS
      <3>1. m - 1 \in Nat
        OBVIOUS
      <3>2. f[m - 1] \in Nodes
        BY <1>3, <3>1
      <3> QED
        BY <3>2
    <2> HIDE DEF F
    <2> QED
      BY <1>2, <2>1 DEF Unfolds
  <1>5. at = [m \in Nat |-> IF m = 0 THEN k ELSE Above(p, at[m - 1])]
    BY <1>4
  <1>6. \A n \in Nat : Climb(p, k, n) = at[n]
    BY DEF Climb
  <1> HIDE DEF at
  <1>7. at[0] = k
    BY <1>5
  <1>8. \A n \in Nat : at[n + 1] = Above(p, at[n])
    <2> SUFFICES ASSUME NEW n \in Nat PROVE at[n + 1] = Above(p, at[n])
      OBVIOUS
    <2>1. PICK m \in Nat : m = n + 1
      OBVIOUS
    <2>2. m # 0 /\ m - 1 = n
      BY <2>1
    <2>3. at[m] = Above(p, at[m - 1])
      BY <1>5, <2>2
    <2> QED
      BY <2>1, <2>2, <2>3
  <1>9. ASSUME NEW N \in Nat
        PROVE  at[N] \in Nodes
    <2> DEFINE S == {n \in 0 .. N : at[n] \in Nodes}
    <2>1. 0 \in S
      BY <1>7
    <2>2. \A n \in 0 .. N : n < N /\ n \in S => n + 1 \in S
      <3> SUFFICES ASSUME NEW n \in 0 .. N, n < N, n \in S PROVE n + 1 \in S
        OBVIOUS
      <3>1. n \in Nat /\ n + 1 \in 0 .. N
        OBVIOUS
      <3>2. at[n + 1] \in Nodes
        BY <1>8, <3>1, AboveIsNode
      <3> QED
        BY <3>1, <3>2
    <2>3. 0 .. N \subseteq S
      <3> HIDE DEF S
      <3> QED BY ONLY <2>1, <2>2, N \in Nat, BoundedInduction
    <2> QED
      BY <2>3
  <1> QED
    BY <1>6, <1>7, <1>8, <1>9

\* Once at the top, a chain stays there.
LEMMA ClimbStays ==
  ASSUME NEW p, IsParents(p), NEW k \in Nodes, NEW n \in Nat, NEW N \in Nat, n <= N,
         Climb(p, k, n) = Top
  PROVE  Climb(p, k, N) = Top
  <1> DEFINE S == {m \in 0 .. N : n <= m => Climb(p, k, m) = Top}
  <1>1. 0 \in S
    BY n <= 0 => n = 0
  <1>2. \A m \in 0 .. N : m < N /\ m \in S => m + 1 \in S
    <2> SUFFICES ASSUME NEW m \in 0 .. N, m < N, m \in S PROVE m + 1 \in S
      OBVIOUS
    <2>1. m \in Nat /\ m + 1 \in 0 .. N
      OBVIOUS
    <2>2. CASE n <= m
      <3>1. Climb(p, k, m) = Top
        BY <2>2
      <3>2. Climb(p, k, m + 1) = Above(p, Climb(p, k, m))
        BY <2>1, ClimbSteps
      <3> QED
        BY <2>1, <3>1, <3>2 DEF Above
    <2>3. CASE ~(n <= m) /\ n = m + 1
      BY <2>1, <2>3
    <2>4. CASE ~(n <= m) /\ n # m + 1
      <3>1. ~(n <= m + 1)
        BY <2>1, <2>4
      <3> QED
        BY <2>1, <3>1
    <2> QED
      BY <2>2, <2>3, <2>4
  <1>3. 0 .. N \subseteq S
    <2> HIDE DEF S
    <2> QED BY ONLY <1>1, <1>2, N \in Nat, BoundedInduction
  <1>4. N \in 0 .. N
    OBVIOUS
  <1> QED
    BY <1>3, <1>4

\* A chain goes on as that of any node it reaches.
LEMMA ClimbOn ==
  ASSUME NEW p, IsParents(p), NEW k \in Nodes, NEW n \in Nat, NEW N \in Nat
  PROVE  Climb(p, k, n + N) = Climb(p, Climb(p, k, n), N)
  <1> DEFINE j == Climb(p, k, n)
             S == {m \in 0 .. N : Climb(p, k, n + m) = Climb(p, j, m)}
  <1>0. j \in Nodes
    BY ClimbSteps
  <1>1. 0 \in S
    <2>1. n + 0 = n
      OBVIOUS
    <2>2. Climb(p, j, 0) = j
      BY <1>0, ClimbSteps
    <2> QED
      BY <2>1, <2>2
  <1>2. \A m \in 0 .. N : m < N /\ m \in S => m + 1 \in S
    <2> SUFFICES ASSUME NEW m \in 0 .. N, m < N, m \in S PROVE m + 1 \in S
      OBVIOUS
    <2>1. m \in Nat /\ m + 1 \in 0 .. N
      OBVIOUS
    <2>2. PICK a \in Nat : a = n + m
      BY <2>1
    <2>3. Climb(p, k, a) = Climb(p, j, m)
      BY <2>2
    <2> HIDE DEF j
    <2>4. Climb(p, k, a + 1) = Above(p, Climb(p, k, a))
      BY <2>2, ClimbSteps
    <2>5. Climb(p, j, m + 1) = Above(p, Climb(p, j, m))
      BY <1>0, <2>1, ClimbSteps
    <2>6. n + (m + 1) = a + 1
      BY <2>1, <2>2
    <2>7. Climb(p, k, n + (m + 1)) = Climb(p, j, m + 1)
      BY <2>3, <2>4, <2>5, <2>6
    <2> QED
      BY <2>1, <2>7
  <1>3. 0 .. N \subseteq S
    <2> HIDE DEF S
    <2> QED BY ONLY <1>1, <1>2, N \in Nat, BoundedInduction
  <1>4. N \in 0 .. N
    OBVIOUS
  <1> QED
    BY <1>3, <1>4

LEMMA ClimbParent ==
  ASSUME NEW p, IsParents(p), NEW k \in Keys, NEW n \in Nat
  PROVE  /\ p[k].parent \in Nodes
         /\ Climb(p, k, 1) = p[k].parent
         /\ Climb(p, k, n + 1) = Climb(p, p[k].parent, n)
  <1>0. k \in Nodes /\ k # Top /\ p[k].parent \in Nodes
    BY CatalogAssumption DEF Nodes, Keys, Top, IsParents
  <1>1. Climb(p, k, 0) = k
    BY <1>0, ClimbSteps
  <1>2. Climb(p, k, 0 + 1) = Above(p, Climb(p, k, 0))
    BY <1>0, ClimbSteps
  <1>3. Climb(p, k, 1) = p[k].parent
    BY <1>0, <1>1, <1>2 DEF Above
  <1>4. Climb(p, k, 1 + n) = Climb(p, Climb(p, k, 1), n)
    BY <1>0, ClimbOn
  <1>5. 1 + n = n + 1
    OBVIOUS
  <1> QED
    BY <1>0, <1>3, <1>4, <1>5

\* A chain does not come back to a record before it ends at the top or meets a
\* record looked for, so that it takes no more steps than there are records.
LEMMA ChainsMeetSoon ==
  ASSUME NEW p, IsParents(p), NEW k \in Nodes, NEW ends, Top \in ends,
         NEW n \in Nat, Climb(p, k, n) \in ends
  PROVE  \E m \in 0 .. NumKeys : Climb(p, k, m) \in ends
  <1>0. NumKeys \in Nat
    BY CatalogAssumption
  <1> DEFINE T == {m \in Nat : Climb(p, k, m) \in ends}
  <1>1. PICK e \in T : \A m \in T : e <= m
    <2>1. T \subseteq Nat /\ T # {}
      OBVIOUS
    <2> HIDE DEF T
    <2> QED BY ONLY <2>1, LeastNumber
  <1>2. e \in Nat /\ Climb(p, k, e) \in ends
    BY <1>1
  <1>3. CASE e <= NumKeys
    BY <1>0, <1>2, <1>3
  <1>4. CASE ~(e <= NumKeys)
    <2> DEFINE at == [m \in 1 .. e |-> Climb(p, k, m - 1)]
    <2>1. at \in [1 .. e -> Keys]
      <3> SUFFICES ASSUME NEW m \in 1 .. e PROVE Climb(p, k, m - 1) \in Keys
        OBVIOUS
      <3>1. PICK l \in Nat : l = m - 1
        BY <1>2
      <3>2. l \notin T
        BY <1>1, <1>2, <3>1
      <3>3. Climb(p, k, l) # Top /\ Climb(p, k, l) \in Nodes
        BY <3>2, ClimbSteps
      <3> QED
        BY <3>1, <3>3 DEF Nodes
    <2>2. IsFiniteSet(1 .. e) /\ Cardinality(1 .. e) = e
      <3>1. e >= 1
        BY <1>0, <1>2, <1>4
      <3> QED
        BY <1>2, <3>1, FS_Interval
    <2>3. IsFiniteSet(Keys) /\ Cardinality(Keys) = NumKeys
      <3>1. NumKeys >= 1
        BY CatalogAssumption
      <3> QED
        BY <1>0, <3>1, FS_Interval DEF Keys
    <2>4. Cardinality(Keys) < Cardinality(1 .. e)
      BY <1>0, <1>2, <1>4, <2>2, <2>3
    <2>5. PICK a \in 1 .. e, b \in 1 .. e : a # b /\ at[a] = at[b]
      <3> HIDE DEF at
      <3> QED BY ONLY <2>1, <2>2, <2>3, <2>4, FS_PigeonHole
    <2>6. \E x, y \in 0 .. e - 1 : x < y /\ Climb(p, k, x) = Climb(p, k, y)
      <3>1. Climb(p, k, a - 1) = Climb(p, k, b - 1)
        BY <2>5
      <3>2. a - 1 \in 0 .. e - 1 /\ b - 1 \in 0 .. e - 1 /\ (a - 1 < b - 1 \/ b - 1 < a - 1)
        BY <1>2, <2>5
      <3> QED
        BY <3>1, <3>2
    <2>7. PICK x \in 0 .. e - 1, y \in 0 .. e - 1 : x < y /\ Climb(p, k, x) = Climb(p, k, y)
      BY <2>6
    <2>8. PICK z \in Nat : z = e - y
      BY <1>2, <2>7
    <2>9. x \in Nat /\ y \in Nat /\ y + z = e /\ x + z < e /\ x + z \in Nat
      BY <1>2, <2>7, <2>8
    <2>10. Climb(p, k, x + z) = Climb(p, k, y + z)
      <3>1. Climb(p, k, x + z) = Climb(p, Climb(p, k, x), z)
        BY <2>9, ClimbOn
      <3>2. Climb(p, k, y + z) = Climb(p, Climb(p, k, y), z)
        BY <2>9, ClimbOn
      <3> QED
        BY <2>7, <3>1, <3>2
    <2>11. x + z \in T
      BY <1>2, <2>9, <2>10
    <2> QED
      BY <1>1, <1>2, <2>9, <2>11
  <1> QED
    BY <1>3, <1>4

LEMMA ChainsAreShort ==
  ASSUME NEW p, IsParents(p), NEW k \in Nodes, NEW n \in Nat, Climb(p, k, n) = Top
  PROVE  Climb(p, k, NumKeys) = Top
  <1>1. \E m \in 0 .. NumKeys : Climb(p, k, m) \in {Top}
    <2>1. Top \in {Top} /\ Climb(p, k, n) \in {Top}
      OBVIOUS
    <2> QED BY ONLY <2>1, IsParents(p), k \in Nodes, n \in Nat, ChainsMeetSoon
  <1>2. PICK m \in 0 .. NumKeys : Climb(p, k, m) = Top
    BY <1>1
  <1>3. m \in Nat /\ NumKeys \in Nat /\ m <= NumKeys
    BY CatalogAssumption
  <1> QED
    BY <1>2, <1>3, ClimbStays

-----------------------------------------------------------------------------
(* The passes of an ingestion.                                             *)

Faultless(c, k) == c[k].kind = "place" /\ c[k].known

\* The state of a run of passes, and the records it has placed.
Passes ==
  [pending : SUBSET Keys, at : [Keys -> Nodes], identity : [Keys -> Nodes],
   place : [Keys -> PlaceRows], content : [Keys -> ContentRows], refused : BOOLEAN]

In(s) == {k \in Keys : s.at[k] # None}

\* Only the record of key p has written the place p.
Alone(s, p) == s.at[p] = p /\ \A k \in Keys \ {p} : s.at[k] # p

\* The rows so far: identities lead to places, a place that no record has written
\* is as before, one that its own record alone has written hangs under the place
\* of that record's parent, and a content row is as before or waits for a review.
RowsSoFar(c, s) ==
  /\ \A k \in Keys : s.identity[k] # None => s.place[s.identity[k]].known
  /\ \A k \in In(s) : s.identity[k] # None
  /\ \A p \in Keys : (\A k \in Keys : s.at[k] # p) => s.place[p] = place[p]
  /\ \A p \in Keys : Alone(s, p) =>
       s.place[p].parent = IF c[p].parent = Top THEN Top ELSE s.at[c[p].parent]
  /\ \A p \in Keys : \/ s.content[p] = content[p]
                     \/ ~content[p].reviewed /\ s.content[p].quality = "in_review"

\* What is placed at any moment of a pass is faultless and hangs under what is
\* placed; what is faultless and not yet placed still waits.
PassStates(c) ==
  {s \in Passes :
     /\ s.pending \cap In(s) = {}
     /\ \A k \in In(s) : /\ Faultless(c, k)
                         /\ c[k].parent \in In(s) \cup {Top}
                         /\ \E n \in Nat : Climb(c, k, n) = Top
     /\ \A k \in Keys : Faultless(c, k) => k \in s.pending \cup In(s)
     /\ \A k \in s.pending : c[k].kind = "place"
     /\ RowsSoFar(c, s)}

LEMMA CatalogParents ==
  ASSUME NEW c \in [Keys -> Records]
  PROVE  IsParents(c)
  BY DEF IsParents, Records, Nodes

\* The rows one record writes.
LEMMA WriteRows ==
  ASSUME NEW c \in [Keys -> Records], NEW s \in PassStates(c), NEW k \in s.pending,
         ~Waits(c, s, k), c[k].known, ingests + 1 \in Texts
  PROVE  /\ Write(c, s, k) \in Passes
         /\ Write(c, s, k).pending = s.pending \ {k}
         /\ In(Write(c, s, k)) = In(s) \cup {k}
         /\ RowsSoFar(c, Write(c, s, k))
  <1> DEFINE id == PlaceOf(s, k)
             parent == IF c[k].parent = Top THEN Top ELSE s.at[c[k].parent]
             t == Write(c, s, k)
  <1>1. s \in Passes /\ RowsSoFar(c, s) /\ k \in Keys /\ k \notin In(s)
        /\ \A j \in In(s) : c[j].parent \in In(s) \cup {Top}
    BY DEF PassStates, Passes
  <1>2. /\ s.at \in [Keys -> Nodes] /\ s.identity \in [Keys -> Nodes]
        /\ s.place \in [Keys -> PlaceRows] /\ s.content \in [Keys -> ContentRows]
        /\ s.pending \subseteq Keys /\ s.refused \in BOOLEAN
    BY <1>1 DEF Passes
  <1>3. id \in Keys /\ None \notin Keys /\ None = Top /\ s.at[k] = None
    BY <1>1, <1>2, CatalogAssumption DEF PlaceOf, Nodes, None, Top, Keys, In
  <1>4. c[k].parent \in Nodes /\ c[k].active \in BOOLEAN /\ c[k].names \subseteq Keys
    BY <1>1 DEF Records, Nodes
  <1>5. parent \in Nodes
    BY <1>2, <1>4 DEF Nodes
  <1> DEFINE r == [known |-> TRUE, parent |-> parent, active |-> c[k].active]
             new == Refreshed(s.content[id], ingests + 1)
  <1>6. r \in PlaceRows /\ r.known /\ r.parent = parent
    BY <1>4, <1>5 DEF PlaceRows, Nodes
  <1>7. new \in ContentRows
    BY <1>2, <1>3 DEF Refreshed, ContentRows
  <1>8. t = [pending |-> s.pending \ {k}, at |-> [s.at EXCEPT ![k] = id],
             identity |-> [j \in Keys |-> IF j = k \/ j \in c[k].names THEN id ELSE s.identity[j]],
             place |-> [s.place EXCEPT ![id] = r],
             content |-> [s.content EXCEPT ![id] = new],
             refused |-> s.refused \/ parent = id]
    BY <1>2, <1>3 DEF Write
  <1> HIDE DEF t, r, new
  <1>9. /\ t.pending = s.pending \ {k} /\ t.at = [s.at EXCEPT ![k] = id]
        /\ t.identity = [j \in Keys |->
                           IF j = k \/ j \in c[k].names THEN id ELSE s.identity[j]]
        /\ t.place = [s.place EXCEPT ![id] = r]
        /\ t.content = [s.content EXCEPT ![id] = new]
    BY <1>8
  <1>10. /\ t.at[k] = id /\ \A j \in Keys \ {k} : t.at[j] = s.at[j]
         /\ \A j \in Keys : t.identity[j] = id \/ t.identity[j] = s.identity[j]
         /\ t.identity[k] = id
         /\ t.place[id] = r /\ \A p \in Keys \ {id} : t.place[p] = s.place[p]
         /\ t.content[id] = new /\ \A p \in Keys \ {id} : t.content[p] = s.content[p]
    <2> HIDE DEF id, parent
    <2> QED BY <1>1, <1>2, <1>3, <1>9
  <1>11. t \in Passes
    <2>1. /\ s.pending \ {k} \in SUBSET Keys /\ [s.at EXCEPT ![k] = id] \in [Keys -> Nodes]
          /\ [j \in Keys |-> IF j = k \/ j \in c[k].names THEN id ELSE s.identity[j]]
               \in [Keys -> Nodes]
          /\ [s.place EXCEPT ![id] = r] \in [Keys -> PlaceRows]
          /\ [s.content EXCEPT ![id] = new] \in [Keys -> ContentRows]
          /\ (s.refused \/ parent = id) \in BOOLEAN
      <3> HIDE DEF id, parent
      <3> QED BY <1>2, <1>3, <1>6, <1>7 DEF Nodes
    <2> HIDE DEF id, parent
    <2> QED BY <1>8, <2>1 DEF Passes
  <1> HIDE DEF id
  <1>12. In(t) = In(s) \cup {k}
    BY <1>1, <1>3, <1>10 DEF In
  <1>13. \A j \in Keys : t.identity[j] # None => t.place[t.identity[j]].known
    <2> SUFFICES ASSUME NEW j \in Keys, t.identity[j] # None
                 PROVE  t.place[t.identity[j]].known
      OBVIOUS
    <2>1. CASE t.identity[j] = id
      BY <1>6, <1>10, <2>1
    <2>2. CASE t.identity[j] # id
      <3>1. t.identity[j] = s.identity[j] /\ s.identity[j] \in Keys
        BY <1>2, <1>3, <1>10, <2>2 DEF Nodes
      <3>2. s.place[s.identity[j]].known
        BY <1>1, <3>1 DEF RowsSoFar
      <3> QED
        BY <1>10, <2>2, <3>1, <3>2
    <2> QED
      BY <2>1, <2>2
  <1>14. \A j \in In(t) : t.identity[j] # None
    <2>1. \A j \in In(s) : s.identity[j] # None /\ j \in Keys
      BY <1>1 DEF RowsSoFar, In
    <2> QED
      BY <1>1, <1>3, <1>10, <1>12, <2>1
  <1>15. ASSUME NEW p \in Keys, \A j \in Keys : t.at[j] # p
         PROVE  t.place[p] = place[p]
    <2>1. p # id /\ \A j \in Keys : s.at[j] # p
      BY <1>1, <1>3, <1>10, <1>15
    <2> QED
      BY <1>1, <1>10, <2>1 DEF RowsSoFar
  <1>16. ASSUME NEW p \in Keys, Alone(t, p)
         PROVE  t.place[p].parent = IF c[p].parent = Top THEN Top ELSE t.at[c[p].parent]
    <2>1. CASE p = id
      <3>1. p = k
        BY <1>1, <1>10, <1>16, <2>1 DEF Alone
      <3>2. c[k].parent # Top => c[k].parent \in Keys \ {k}
        BY <1>3, <1>4 DEF Waits, Nodes
      <3> QED
        BY <1>6, <1>10, <2>1, <3>1, <3>2
    <2>2. CASE p # id
      <3>1. p # k
        BY <1>10, <1>16, <2>2 DEF Alone
      <3>2. Alone(s, p)
        BY <1>1, <1>3, <1>10, <1>16, <3>1 DEF Alone
      <3>3. p \in In(s)
        BY <1>3, <3>2 DEF Alone, In
      <3>4. c[p].parent # Top => c[p].parent \in Keys \ {k}
        BY <1>1, <3>3 DEF In
      <3>5. s.place[p].parent = IF c[p].parent = Top THEN Top ELSE s.at[c[p].parent]
        BY <1>1, <3>2 DEF RowsSoFar
      <3> QED
        BY <1>10, <2>2, <3>4, <3>5
    <2> QED
      BY <2>1, <2>2
  <1>17. ASSUME NEW p \in Keys
         PROVE  \/ t.content[p] = content[p]
                \/ ~content[p].reviewed /\ t.content[p].quality = "in_review"
    <2>1. \/ s.content[p] = content[p]
          \/ ~content[p].reviewed /\ s.content[p].quality = "in_review"
      BY <1>1 DEF RowsSoFar
    <2>2. CASE p = id
      <3>1. \/ new = s.content[p]
            \/ ~s.content[p].reviewed /\ new.quality = "in_review"
        BY <2>2 DEF new, Refreshed
      <3> QED
        BY <1>10, <2>1, <2>2, <3>1
    <2>3. CASE p # id
      BY <1>10, <2>1, <2>3
    <2> QED
      BY <2>2, <2>3
  <1>18. RowsSoFar(c, t)
    BY <1>13, <1>14, <1>15, <1>16, <1>17 DEF RowsSoFar
  <1> QED
    BY <1>9, <1>11, <1>12, <1>18 DEF t

\* One record is placed when its turn comes and its parent is there.
LEMMA PlaceOneSound ==
  ASSUME NEW c \in [Keys -> Records], NEW s \in PassStates(c), NEW k, ingests + 1 \in Texts
  PROVE  /\ PlaceOne(c, s, k) \in PassStates(c)
         /\ In(s) \subseteq In(PlaceOne(c, s, k))
         /\ k \in Keys /\ Faultless(c, k) /\ c[k].parent \in In(s) \cup {Top} =>
              k \in In(PlaceOne(c, s, k))
  <1>0. s \in Passes /\ s.pending \subseteq Keys /\ None = Top
    BY DEF PassStates, Passes, None, Top
  <1>1. CASE k \notin s.pending
    <2>1. PlaceOne(c, s, k) = s
      BY <1>1 DEF PlaceOne
    <2>2. k \in Keys /\ Faultless(c, k) => k \in In(s)
      BY <1>1 DEF PassStates
    <2> QED
      BY <2>1, <2>2
  <1>2. CASE k \in s.pending /\ Waits(c, s, k)
    <2>1. PlaceOne(c, s, k) = s
      BY <1>2 DEF PlaceOne
    <2>2. c[k].parent \notin In(s) \cup {Top}
      BY <1>2 DEF Waits, In
    <2> QED
      BY <2>1, <2>2
  <1>3. CASE k \in s.pending /\ ~Waits(c, s, k) /\ ~c[k].known
    <2>1. PICK t : t = [s EXCEPT !.pending = s.pending \ {k}]
      OBVIOUS
    <2>2. PlaceOne(c, s, k) = t
      BY <1>3, <2>1 DEF PlaceOne
    <2>3. /\ t \in Passes /\ t.pending = s.pending \ {k} /\ t.at = s.at
          /\ t.identity = s.identity /\ t.place = s.place /\ t.content = s.content
      BY <1>0, <2>1 DEF Passes
    <2>4. In(t) = In(s) /\ (RowsSoFar(c, s) => RowsSoFar(c, t))
      BY <2>3 DEF In, RowsSoFar, Alone
    <2>5. \A j \in Keys : Faultless(c, j) => j \in t.pending \cup In(t)
      BY <1>3, <2>3, <2>4 DEF PassStates, Faultless
    <2>6. t \in PassStates(c)
      BY <2>3, <2>4, <2>5 DEF PassStates
    <2> QED
      BY <1>3, <2>2, <2>4, <2>6 DEF Faultless
  <1>4. CASE k \in s.pending /\ ~Waits(c, s, k) /\ c[k].known
    <2>1. PICK t : t = Write(c, s, k)
      OBVIOUS
    <2>2. PlaceOne(c, s, k) = t
      BY <1>4, <2>1 DEF PlaceOne
    <2>3. t \in Passes /\ t.pending = s.pending \ {k} /\ In(t) = In(s) \cup {k}
          /\ RowsSoFar(c, t)
      BY <1>4, <2>1, WriteRows
    <2>4. k \in Keys /\ Faultless(c, k)
      BY <1>0, <1>4 DEF PassStates, Faultless
    <2>5. c[k].parent \in In(s) \cup {Top}
      <3>1. c[k].parent \in Nodes
        BY <2>4 DEF Records, Nodes
      <3> QED
        BY <1>4, <3>1 DEF Waits, In, Nodes
    <2>6. \E n \in Nat : Climb(c, k, n) = Top
      <3>1. PICK m \in Nat : Climb(c, c[k].parent, m) = Top
        <4>1. CASE c[k].parent = Top
          <5>1. Climb(c, Top, 0) = Top
            BY CatalogParents, ClimbSteps DEF Nodes
          <5> QED
            BY <4>1, <5>1
        <4>2. CASE c[k].parent \in In(s)
          BY <4>2 DEF PassStates
        <4> QED
          BY <2>5, <4>1, <4>2
      <3>2. Climb(c, k, m + 1) = Top
        BY <2>4, <3>1, CatalogParents, ClimbParent
      <3> QED
        BY <3>2
    <2>7. ASSUME NEW j \in In(t)
          PROVE  /\ Faultless(c, j)
                 /\ c[j].parent \in In(t) \cup {Top}
                 /\ \E n \in Nat : Climb(c, j, n) = Top
      <3>1. CASE j \in In(s)
        BY <2>3, <3>1 DEF PassStates
      <3>2. CASE j = k
        BY <2>3, <2>4, <2>5, <2>6, <3>2
      <3> QED
        BY <2>3, <3>1, <3>2
    <2>8. \A j \in Keys : Faultless(c, j) => j \in t.pending \cup In(t)
      BY <2>3 DEF PassStates
    <2>9. (\A j \in t.pending : c[j].kind = "place") /\ t.pending \cap In(t) = {}
      BY <2>3 DEF PassStates
    <2>10. t \in PassStates(c)
      BY <2>3, <2>7, <2>8, <2>9 DEF PassStates
    <2> QED
      BY <2>2, <2>3, <2>10
  <1> QED
    BY <1>1, <1>2, <1>3, <1>4

\* A pass keeps what is placed, and places every faultless record whose parent
\* is there when it begins.
LEMMA PassSound ==
  ASSUME NEW c \in [Keys -> Records], NEW s \in PassStates(c), ingests + 1 \in Texts
  PROVE  /\ Pass(c, s) \in PassStates(c)
         /\ In(s) \subseteq In(Pass(c, s))
         /\ \A k \in Keys : Faultless(c, k) /\ c[k].parent \in In(s) \cup {Top} =>
              k \in In(Pass(c, s))
  <1> DEFINE F == [n \in Nat |-> [x \in PassStates(c) |-> PlaceOne(c, x, NumKeys + 1 - n)]]
             after == CHOOSE f : f = [n \in Nat |->
                        IF n = 0 THEN s ELSE PlaceOne(c, f[n - 1], NumKeys + 1 - n)]
  <1>0. NumKeys \in Nat
    BY CatalogAssumption
  <1>1. F \in [Nat -> [PassStates(c) -> PassStates(c)]]
    BY PlaceOneSound
  <1>2. PICK f : Unfolds(f, s, F)
    BY <1>1, UnfoldsExist
  <1>3. f \in [Nat -> PassStates(c)]
    BY <1>1, <1>2, UnfoldsTyped
  <1>4. f = [n \in Nat |-> IF n = 0 THEN s ELSE PlaceOne(c, f[n - 1], NumKeys + 1 - n)]
    <2>1. \A m \in Nat : m # 0 => F[m][f[m - 1]] = PlaceOne(c, f[m - 1], NumKeys + 1 - m)
      <3> SUFFICES ASSUME NEW m \in Nat, m # 0
                   PROVE  F[m][f[m - 1]] = PlaceOne(c, f[m - 1], NumKeys + 1 - m)
        OBVIOUS
      <3>1. m - 1 \in Nat
        OBVIOUS
      <3>2. f[m - 1] \in PassStates(c)
        BY <1>3, <3>1
      <3> QED
        BY <3>2
    <2> HIDE DEF F
    <2> QED
      BY <1>2, <2>1 DEF Unfolds
  <1>5. after = [n \in Nat |-> IF n = 0 THEN s ELSE PlaceOne(c, after[n - 1], NumKeys + 1 - n)]
    BY <1>4
  <1>6. Pass(c, s) = after[NumKeys]
    BY DEF Pass
  <1> HIDE DEF after
  <1>7. after[0] = s
    BY <1>5
  <1>8. \A n \in Nat : after[n + 1] = PlaceOne(c, after[n], NumKeys - n)
    <2> SUFFICES ASSUME NEW n \in Nat PROVE after[n + 1] = PlaceOne(c, after[n], NumKeys - n)
      OBVIOUS
    <2>1. PICK m \in Nat : m = n + 1
      OBVIOUS
    <2>2. m # 0 /\ m - 1 = n /\ NumKeys + 1 - m = NumKeys - n
      BY <1>0, <2>1
    <2>3. after[m] = PlaceOne(c, after[m - 1], NumKeys + 1 - m)
      BY <1>5, <2>2
    <2> QED
      BY <2>1, <2>2, <2>3
  \* After n steps: the states are sound, nothing placed is lost, and the last n
  \* records have had their turn.
  <1> DEFINE Turned(k) == Faultless(c, k) /\ c[k].parent \in In(s) \cup {Top}
             S == {n \in 0 .. NumKeys :
                     /\ after[n] \in PassStates(c)
                     /\ In(s) \subseteq In(after[n])
                     /\ \A k \in Keys : k > NumKeys - n /\ Turned(k) => k \in In(after[n])}
  <1>9. 0 \in S
    <2>1. \A k \in Keys : ~(k > NumKeys - 0)
      BY <1>0 DEF Keys
    <2> QED
      BY <1>0, <1>7, <2>1
  <1>10. \A n \in 0 .. NumKeys : n < NumKeys /\ n \in S => n + 1 \in S
    <2> SUFFICES ASSUME NEW n \in 0 .. NumKeys, n < NumKeys, n \in S PROVE n + 1 \in S
      OBVIOUS
    <2>1. n \in Nat /\ n + 1 \in 0 .. NumKeys
      BY <1>0
    <2>2. after[n + 1] = PlaceOne(c, after[n], NumKeys - n)
      BY <1>8, <2>1
    <2>3. /\ after[n + 1] \in PassStates(c)
          /\ In(after[n]) \subseteq In(after[n + 1])
          /\ NumKeys - n \in Keys /\ Faultless(c, NumKeys - n)
               /\ c[NumKeys - n].parent \in In(after[n]) \cup {Top} =>
             NumKeys - n \in In(after[n + 1])
      <3>1. after[n] \in PassStates(c)
        OBVIOUS
      <3> QED BY ONLY <2>2, <3>1, c \in [Keys -> Records], ingests + 1 \in Texts, PlaceOneSound
    <2>4. ASSUME NEW k \in Keys, k > NumKeys - (n + 1), Turned(k)
          PROVE  k \in In(after[n + 1])
      <3>1. k \in Nat
        BY DEF Keys
      <3>2. CASE k > NumKeys - n
        BY <2>3, <2>4, <3>2
      <3>3. CASE ~(k > NumKeys - n)
        <4>1. k = NumKeys - n
          BY <1>0, <2>1, <2>4, <3>1, <3>3
        <4> QED
          BY <2>3, <2>4, <4>1
      <3> QED
        BY <3>2, <3>3
    <2>5. In(s) \subseteq In(after[n + 1])
      BY <2>3
    <2> HIDE DEF Turned
    <2> QED
      BY <2>1, <2>3, <2>4, <2>5
  <1>11. 0 .. NumKeys \subseteq S
    <2> HIDE DEF S
    <2> QED BY ONLY <1>9, <1>10, <1>0, BoundedInduction
  <1>12. NumKeys \in S
    <2>1. NumKeys \in 0 .. NumKeys
      BY <1>0
    <2> HIDE DEF S
    <2> QED BY <1>11, <2>1
  <1>13. \A k \in Keys : k > NumKeys - NumKeys
    BY <1>0 DEF Keys
  <1> QED
    BY <1>6, <1>12, <1>13

\* What is placed is sound,
LEMMA PlacedAreSound ==
  ASSUME NEW c \in [Keys -> Records], NEW s \in PassStates(c)
  PROVE  In(s) \subseteq Sound(c)
  <1> SUFFICES ASSUME NEW k \in In(s) PROVE k \in Sound(c)
    OBVIOUS
  <1>0. IsParents(c) /\ k \in Keys /\ k \in Nodes /\ NumKeys \in Nat
    BY CatalogParents, CatalogAssumption DEF In, Nodes
  <1>1. Climb(c, k, NumKeys) = Top
    <2>1. PICK n \in Nat : Climb(c, k, n) = Top
      BY DEF PassStates
    <2> QED
      BY <1>0, <2>1, ChainsAreShort
  <1> DEFINE S == {n \in 0 .. NumKeys : Climb(c, k, n) \in In(s) \cup {Top}}
  <1>2. 0 \in S
    BY <1>0, ClimbSteps
  <1>3. \A n \in 0 .. NumKeys : n < NumKeys /\ n \in S => n + 1 \in S
    <2> SUFFICES ASSUME NEW n \in 0 .. NumKeys, n < NumKeys, n \in S PROVE n + 1 \in S
      OBVIOUS
    <2>1. n \in Nat /\ n + 1 \in 0 .. NumKeys
      BY <1>0
    <2>2. Climb(c, k, n + 1) = Above(c, Climb(c, k, n))
      BY <1>0, <2>1, ClimbSteps
    <2>3. \A j \in In(s) : c[j].parent \in In(s) \cup {Top}
      BY DEF PassStates
    <2> QED
      BY <2>1, <2>2, <2>3 DEF Above
  <1>4. 0 .. NumKeys \subseteq S
    <2> HIDE DEF S
    <2> QED BY ONLY <1>2, <1>3, <1>0, BoundedInduction
  <1>5. \A n \in 0 .. NumKeys :
          LET p == Climb(c, k, n) IN p = Top \/ (c[p].kind = "place" /\ c[p].known)
    BY <1>4 DEF PassStates, Faultless
  <1> QED
    BY <1>0, <1>1, <1>5 DEF Sound

\* the records above a sound one are sound,
LEMMA SoundAbove ==
  ASSUME NEW c \in [Keys -> Records], NEW k \in Sound(c)
  PROVE  /\ k \in Keys /\ Faultless(c, k)
         /\ c[k].parent \in Sound(c) \cup {Top}
  <1>0. IsParents(c) /\ k \in Keys /\ k \in Nodes /\ NumKeys \in Nat /\ k # Top
    BY CatalogParents, CatalogAssumption DEF Sound, Nodes, Keys, Top
  <1> DEFINE Good(p) == p = Top \/ (c[p].kind = "place" /\ c[p].known)
  <1>1. Climb(c, k, NumKeys) = Top /\ \A n \in 0 .. NumKeys : Good(Climb(c, k, n))
    BY DEF Sound
  <1>2. Faultless(c, k)
    <2>1. Climb(c, k, 0) = k
      BY <1>0, ClimbSteps
    <2>2. 0 \in 0 .. NumKeys
      BY <1>0
    <2>3. Good(k)
      BY <1>1, <2>1, <2>2
    <2> QED
      BY <1>0, <2>3 DEF Faultless
  <1>3. ASSUME c[k].parent # Top
        PROVE  c[k].parent \in Sound(c)
    <2> DEFINE p == c[k].parent
    <2>1. p \in Keys /\ p \in Nodes
      BY <1>0, <1>3 DEF IsParents, Nodes
    <2>2. \A n \in Nat : Climb(c, k, n + 1) = Climb(c, p, n)
      BY <1>0, ClimbParent
    <2> HIDE DEF p
    <2>3. Climb(c, k, NumKeys + 1) = Top
      BY <1>0, <1>1, ClimbStays
    <2>4. Climb(c, p, NumKeys) = Top
      BY <1>0, <2>2, <2>3
    <2>5. ASSUME NEW n \in 0 .. NumKeys
          PROVE  Good(Climb(c, p, n))
      <3>1. CASE n = NumKeys
        BY <2>4, <3>1
      <3>2. CASE n # NumKeys
        <4>1. n \in Nat /\ n + 1 \in 0 .. NumKeys
          BY <1>0, <3>2
        <4>2. Good(Climb(c, k, n + 1))
          BY <1>1, <4>1
        <4> QED
          BY <2>2, <4>1, <4>2
      <3> QED
        BY <3>1, <3>2
    <2>6. p \in Sound(c)
      BY <2>1, <2>4, <2>5 DEF Sound
    <2> QED
      BY <2>6 DEF p
  <1> QED
    BY <1>0, <1>2, <1>3

\* The identities lead to places.
IdentitiesLead == \A k \in Keys : identity[k] # None => place[identity[k]].known

\* and the passes reach every sound record: the deeper it is, the later.
LEMMA PlacedIsSound ==
  ASSUME CatalogTypeOK, IdentitiesLead, ingests + 1 \in Texts, NEW c \in [Keys -> Records]
  PROVE  Placed(c) \in PassStates(c) /\ In(Placed(c)) = Sound(c)
  <1> DEFINE F == [n \in Nat |-> [x \in PassStates(c) |-> Pass(c, x)]]
             passed == CHOOSE f : f = [n \in Nat |->
                         IF n = 0 THEN Unplaced(c) ELSE Pass(c, f[n - 1])]
  <1>0. NumKeys \in Nat /\ IsParents(c)
    BY CatalogAssumption, CatalogParents
  <1>1. F \in [Nat -> [PassStates(c) -> PassStates(c)]]
    BY PassSound
  <1>2. Unplaced(c) \in PassStates(c)
    <2>1. PICK s : s = Unplaced(c)
      OBVIOUS
    <2>2. /\ s = [pending |-> {k \in Keys : c[k].kind = "place"}, at |-> [k \in Keys |-> None],
                  identity |-> identity, place |-> place, content |-> content,
                  refused |-> FALSE]
          /\ s.pending = {k \in Keys : c[k].kind = "place"} /\ s.at = [k \in Keys |-> None]
          /\ s.identity = identity /\ s.place = place /\ s.content = content
      BY <2>1 DEF Unplaced
    <2>3. [k \in Keys |-> None] \in [Keys -> Nodes]
          /\ {k \in Keys : c[k].kind = "place"} \in SUBSET Keys
      BY DEF Nodes, None, Top
    <2>4. identity \in [Keys -> Nodes] /\ place \in [Keys -> PlaceRows]
          /\ content \in [Keys -> ContentRows]
      BY DEF CatalogTypeOK, Nodes, None, Top
    <2>5. s \in Passes
      BY ONLY <2>2, <2>3, <2>4 DEF Passes
    <2>6. In(s) = {} /\ None \notin Keys /\ \A k \in Keys : s.at[k] = None
      BY <2>2, CatalogAssumption DEF In, None, Keys
    <2>7. RowsSoFar(c, s)
      BY <2>2, <2>6 DEF RowsSoFar, Alone, IdentitiesLead
    <2>8. s \in PassStates(c)
      BY <2>2, <2>5, <2>6, <2>7 DEF PassStates, Faultless
    <2> QED
      BY <2>1, <2>8
  <1>3. PICK f : Unfolds(f, Unplaced(c), F)
    BY <1>1, <1>2, UnfoldsExist
  <1>4. f \in [Nat -> PassStates(c)]
    BY <1>1, <1>2, <1>3, UnfoldsTyped
  <1>5. f = [n \in Nat |-> IF n = 0 THEN Unplaced(c) ELSE Pass(c, f[n - 1])]
    <2>1. \A m \in Nat : m # 0 => F[m][f[m - 1]] = Pass(c, f[m - 1])
      <3> SUFFICES ASSUME NEW m \in Nat, m # 0 PROVE F[m][f[m - 1]] = Pass(c, f[m - 1])
        OBVIOUS
      <3>1. m - 1 \in Nat
        OBVIOUS
      <3>2. f[m - 1] \in PassStates(c)
        BY <1>4, <3>1
      <3> QED
        BY <3>2
    <2> HIDE DEF F
    <2> QED
      BY <1>3, <2>1 DEF Unfolds
  <1>6. passed = [n \in Nat |-> IF n = 0 THEN Unplaced(c) ELSE Pass(c, passed[n - 1])]
    BY <1>5
  <1>7. Placed(c) = passed[NumKeys]
    BY DEF Placed
  <1> HIDE DEF passed
  <1>8. passed[0] = Unplaced(c)
    BY <1>6
  <1>9. \A n \in Nat : passed[n + 1] = Pass(c, passed[n])
    <2> SUFFICES ASSUME NEW n \in Nat PROVE passed[n + 1] = Pass(c, passed[n])
      OBVIOUS
    <2>1. PICK m \in Nat : m = n + 1
      OBVIOUS
    <2>2. m # 0 /\ m - 1 = n
      BY <2>1
    <2>3. passed[m] = Pass(c, passed[m - 1])
      BY <1>6, <2>2
    <2> QED
      BY <2>1, <2>2, <2>3
  <1> DEFINE Reached(n) == \A k \in Sound(c) : Climb(c, k, n) = Top => k \in In(passed[n])
             S == {n \in 0 .. NumKeys : passed[n] \in PassStates(c) /\ Reached(n)}
  <1>10. 0 \in S
    <2>1. \A k \in Sound(c) : Climb(c, k, 0) # Top
      <3> SUFFICES ASSUME NEW k \in Sound(c) PROVE Climb(c, k, 0) # Top
        OBVIOUS
      <3>1. k \in Nodes /\ k # Top
        BY CatalogAssumption DEF Sound, Nodes, Keys, Top
      <3> QED
        BY <1>0, <3>1, ClimbSteps
    <2> QED
      BY <1>0, <1>2, <1>8, <2>1
  <1>11. \A n \in 0 .. NumKeys : n < NumKeys /\ n \in S => n + 1 \in S
    <2> SUFFICES ASSUME NEW n \in 0 .. NumKeys, n < NumKeys, n \in S PROVE n + 1 \in S
      OBVIOUS
    <2>1. n \in Nat /\ n + 1 \in 0 .. NumKeys
      BY <1>0
    <2>2. passed[n] \in PassStates(c) /\ passed[n + 1] = Pass(c, passed[n])
      BY <1>9, <2>1
    <2>3. /\ passed[n + 1] \in PassStates(c)
          /\ \A k \in Keys : Faultless(c, k) /\ c[k].parent \in In(passed[n]) \cup {Top} =>
               k \in In(passed[n + 1])
      BY ONLY <2>2, c \in [Keys -> Records], ingests + 1 \in Texts, PassSound
    <2>4. ASSUME NEW k \in Sound(c), Climb(c, k, n + 1) = Top
          PROVE  k \in In(passed[n + 1])
      <3>1. k \in Keys /\ Faultless(c, k) /\ c[k].parent \in Sound(c) \cup {Top}
        BY SoundAbove
      <3>2. Climb(c, c[k].parent, n) = Top
        BY <1>0, <2>1, <2>4, <3>1, ClimbParent
      <3>3. c[k].parent \in In(passed[n]) \cup {Top}
        BY <3>1, <3>2
      <3> QED
        BY <2>3, <3>1, <3>3
    <2> QED
      BY <2>1, <2>3, <2>4
  <1>12. 0 .. NumKeys \subseteq S
    <2> HIDE DEF S
    <2> QED BY ONLY <1>10, <1>11, <1>0, BoundedInduction
  <1>13. passed[NumKeys] \in PassStates(c) /\ Reached(NumKeys)
    <2>1. NumKeys \in 0 .. NumKeys
      BY <1>0
    <2> QED
      BY <1>12, <2>1
  <1>14. Sound(c) \subseteq In(Placed(c))
    BY <1>7, <1>13 DEF Sound
  <1>15. In(Placed(c)) \subseteq Sound(c)
    BY <1>7, <1>13, PlacedAreSound
  <1> QED
    BY <1>7, <1>13, <1>14, <1>15

-----------------------------------------------------------------------------
(* The catalog.                                                            *)

CatalogIInv == CatalogIsSound /\ ApprovalIsForItsText /\ IdentitiesLead

\* An ingestion keeps the places rooted: the place of a record it places hangs
\* under that of the record's parent, if no other record wrote it, and what it
\* leaves climbs as before until it meets such a place, a mixed one or the top.
LEMMA IngestRooted ==
  ASSUME CatalogTypeOK, HierarchyIsRooted, NEW c \in [Keys -> Records],
         NEW s \in PassStates(c), NEW ends,
         ends = mixed \cup {Top} \cup {p \in Keys : \E k \in Keys \ {p} : s.at[k] = p}
  PROVE  \A p \in Keys : \E n \in 0 .. NumKeys : Climb(s.place, p, n) \in ends
  <1> DEFINE q == s.place
  <1>0. NumKeys \in Nat /\ IsParents(c) /\ IsParents(place)
    BY CatalogAssumption, CatalogParents DEF CatalogTypeOK, IsParents, PlaceRows, Nodes
  <1>1. s \in Passes /\ RowsSoFar(c, s) /\ s.at \in [Keys -> Nodes] /\ None = Top
        /\ None \notin Keys /\ Top \in ends /\ mixed \subseteq ends
    BY CatalogAssumption DEF PassStates, Passes, None, Top, Keys
  <1>2. IsParents(q)
    BY <1>1 DEF Passes, IsParents, PlaceRows, Nodes
  <1>3. \A k \in In(s) : /\ k \in Keys /\ s.at[k] \in Keys
                         /\ c[k].parent \in In(s) \cup {Top}
                         /\ \E n \in Nat : Climb(c, k, n) = Top
    BY <1>1 DEF PassStates, In, Nodes
  <1>4. \A p \in Keys : (\A k \in In(s) : s.at[k] # p) => q[p] = place[p]
    BY <1>1 DEF RowsSoFar, In
  <1>5. ASSUME NEW k \in In(s), s.at[k] \notin ends
        PROVE  /\ s.at[k] = k
               /\ q[k].parent = IF c[k].parent = Top THEN Top ELSE s.at[c[k].parent]
    <2>1. s.at[k] = k
      BY <1>3, <1>5
    <2>2. Alone(s, k)
      BY <1>3, <1>5, <2>1 DEF Alone
    <2> QED
      BY <1>1, <1>3, <2>1, <2>2 DEF RowsSoFar
  <1> DEFINE Ends(p) == \E m \in Nat : Climb(q, p, m) \in ends
  <1>6. \A p \in ends : p \in Nodes => Ends(p)
    <2> SUFFICES ASSUME NEW p \in ends, p \in Nodes PROVE Ends(p)
      OBVIOUS
    <2>1. Climb(q, p, 0) = p /\ 0 \in Nat
      BY <1>2, ClimbSteps
    <2> QED
      BY <2>1
  <1>7. \A p \in Keys : Ends(q[p].parent) => Ends(p)
    <2> SUFFICES ASSUME NEW p \in Keys, NEW m \in Nat, Climb(q, q[p].parent, m) \in ends
                 PROVE  Ends(p)
      OBVIOUS
    <2>1. Climb(q, p, m + 1) \in ends
      BY <1>2, ClimbParent
    <2>2. m + 1 \in Nat
      OBVIOUS
    <2> QED
      BY <2>1, <2>2
  <1> HIDE DEF q, Ends
  <1>8. Top \in Nodes /\ Ends(Top)
    BY <1>1, <1>6 DEF Nodes
  \* By induction over the length of the chain in the catalog,
  <1>9. ASSUME NEW N \in Nat
        PROVE  \A k \in In(s) : Climb(c, k, N) = Top => Ends(s.at[k])
    <2> DEFINE S == {n \in 0 .. N : \A k \in In(s) : Climb(c, k, n) = Top => Ends(s.at[k])}
    <2>1. 0 \in S
      <3>1. \A k \in In(s) : Climb(c, k, 0) # Top
        <4> SUFFICES ASSUME NEW k \in In(s) PROVE Climb(c, k, 0) # Top
          OBVIOUS
        <4>1. k \in Nodes /\ k # Top
          BY <1>1, <1>3 DEF Nodes
        <4> QED
          BY <1>0, <4>1, ClimbSteps
      <3> QED
        BY <3>1
    <2>2. \A n \in 0 .. N : n < N /\ n \in S => n + 1 \in S
      <3> SUFFICES ASSUME NEW n \in 0 .. N, n < N, n \in S PROVE n + 1 \in S
        OBVIOUS
      <3>1. n \in Nat /\ n + 1 \in 0 .. N
        OBVIOUS
      <3>2. ASSUME NEW k \in In(s), Climb(c, k, n + 1) = Top
            PROVE  Ends(s.at[k])
        <4>1. CASE s.at[k] \in ends
          BY <1>3, <1>6, <4>1 DEF Nodes
        <4>2. CASE s.at[k] \notin ends
          <5>1. /\ k \in Keys /\ c[k].parent \in In(s) \cup {Top} /\ s.at[k] = k
                /\ q[k].parent = IF c[k].parent = Top THEN Top ELSE s.at[c[k].parent]
            BY <1>3, <1>5, <4>2
          <5>2. Climb(c, c[k].parent, n) = Top
            BY <1>0, <3>1, <3>2, <5>1, ClimbParent
          <5>3. c[k].parent # Top => Ends(s.at[c[k].parent])
            BY <5>1, <5>2
          <5>4. Ends(q[k].parent)
            BY <1>8, <5>1, <5>3
          <5> QED
            BY <1>7, <5>1, <5>4
        <4> QED
          BY <4>1, <4>2
      <3> QED
        BY <3>1, <3>2
    <2>3. 0 .. N \subseteq S
      <3> HIDE DEF S
      <3> QED BY ONLY <2>1, <2>2, N \in Nat, BoundedInduction
    <2>4. N \in 0 .. N
      OBVIOUS
    <2> QED
      BY <2>3, <2>4
  <1>10. \A k \in In(s) : Ends(s.at[k])
    BY <1>3, <1>9
  \* and then over the length of the chain before the ingestion.
  <1>11. ASSUME NEW N \in Nat
         PROVE  \A p \in Keys : Climb(place, p, N) \in mixed \cup {Top} => Ends(p)
    <2> DEFINE S == {n \in 0 .. N :
                       \A p \in Keys : Climb(place, p, n) \in mixed \cup {Top} => Ends(p)}
    <2>1. 0 \in S
      <3>1. \A p \in Keys : Climb(place, p, 0) = p /\ p \in Nodes /\ p # Top
        BY <1>0, <1>1, ClimbSteps DEF Nodes
      <3>2. \A p \in Keys : p \in mixed => Ends(p)
        BY <1>1, <1>6 DEF Nodes
      <3> QED
        BY <3>1, <3>2
    <2>2. \A n \in 0 .. N : n < N /\ n \in S => n + 1 \in S
      <3> SUFFICES ASSUME NEW n \in 0 .. N, n < N, n \in S PROVE n + 1 \in S
        OBVIOUS
      <3>1. n \in Nat /\ n + 1 \in 0 .. N
        OBVIOUS
      <3>2. ASSUME NEW p \in Keys, Climb(place, p, n + 1) \in mixed \cup {Top}
            PROVE  Ends(p)
        <4>1. CASE \E k \in In(s) : s.at[k] = p
          BY <1>10, <4>1
        <4>2. CASE ~\E k \in In(s) : s.at[k] = p
          <5>1. q[p].parent = place[p].parent /\ place[p].parent \in Keys \cup {Top}
            BY <1>0, <1>4, <4>2 DEF IsParents, Nodes
          <5>2. Climb(place, place[p].parent, n) \in mixed \cup {Top}
            BY <1>0, <3>1, <3>2, ClimbParent
          <5>3. place[p].parent # Top => Ends(place[p].parent)
            BY <5>1, <5>2
          <5>4. Ends(q[p].parent)
            BY <1>8, <5>1, <5>3
          <5> QED
            BY <1>7, <5>4
        <4> QED
          BY <4>1, <4>2
      <3> QED
        BY <3>1, <3>2
    <2>3. 0 .. N \subseteq S
      <3> HIDE DEF S
      <3> QED BY ONLY <2>1, <2>2, N \in Nat, BoundedInduction
    <2>4. N \in 0 .. N
      OBVIOUS
    <2> QED
      BY <2>3, <2>4
  <1> QED
    <2> SUFFICES ASSUME NEW p \in Keys
                 PROVE  \E n \in 0 .. NumKeys : Climb(s.place, p, n) \in ends
      OBVIOUS
    <2>1. PICK n \in 0 .. NumKeys : Climb(place, p, n) \in mixed \cup {Top}
      BY DEF HierarchyIsRooted
    <2>2. n \in Nat
      BY <1>0
    <2>3. Ends(p)
      BY <1>11, <2>1, <2>2
    <2>4. PICK m \in Nat : Climb(q, p, m) \in ends
      BY <2>3 DEF Ends
    <2>5. p \in Nodes
      BY DEF Nodes
    <2>6. \E l \in 0 .. NumKeys : Climb(q, p, l) \in ends
      BY ONLY <1>1, <1>2, <2>4, <2>5, ChainsMeetSoon
    <2> QED
      BY <2>6 DEF q

LEMMA CatalogInitSound ==
  CatalogInit => CatalogIInv
  <1> SUFFICES ASSUME CatalogInit PROVE CatalogIInv
    OBVIOUS
  <1>0. NumKeys \in Nat \ {0} /\ MaxIngests \in Nat /\ MaxEdits \in Nat
    BY CatalogAssumption
  <1>1. CatalogTypeOK
    BY <1>0 DEF CatalogInit, CatalogTypeOK, PlaceRows, ContentRows, QuarantineStates, NoPlace,
      NoContent, Texts, Top
  <1>2. HierarchyIsRooted
    <2> SUFFICES ASSUME NEW k \in Keys
                 PROVE  \E n \in 0 .. NumKeys : Climb(place, k, n) \in mixed \cup {Top}
      BY DEF HierarchyIsRooted
    <2>1. place[k].parent = Top /\ IsParents(place) /\ k \in Nodes
      BY DEF CatalogInit, NoPlace, IsParents, Nodes
    <2>2. Climb(place, k, 1) = Top
      BY <2>1, ClimbParent
    <2>3. 1 \in 0 .. NumKeys
      BY <1>0
    <2> QED
      BY <2>2, <2>3
  <1>3. RejectionsAreTold /\ ApprovalIsForItsText /\ IdentitiesLead
    BY DEF CatalogInit, RejectionsAreTold, ApprovalIsForItsText, IdentitiesLead, NoContent
  <1> QED
    BY <1>1, <1>2, <1>3 DEF CatalogIInv, CatalogIsSound

\* An ingestion places the records that are sound and tells of the others; no
\* approval is left on a text it wrote.
LEMMA IngestSound ==
  ASSUME CatalogIInv, NEW c \in [Keys -> Records], Ingest(c)
  PROVE  CatalogIInv'
  <1>0. NumKeys \in Nat \ {0} /\ MaxIngests \in Nat /\ MaxEdits \in Nat
    BY CatalogAssumption
  <1>1. CatalogTypeOK /\ HierarchyIsRooted /\ RejectionsAreTold /\ ApprovalIsForItsText
        /\ IdentitiesLead
    BY DEF CatalogIInv, CatalogIsSound
  <1>2. PICK s : s = Placed(c)
    OBVIOUS
  <1>3. /\ identity' = s.identity /\ place' = s.place /\ content' = s.content
        /\ quarantine' = [k \in Keys |-> Quarantined(c, In(s), k)]
        /\ mixed' = mixed \cup {p \in Keys : \E k \in Keys \ {p} : s.at[k] = p}
        /\ sound' = Sound(c)
        /\ listed' = {k \in Keys : c[k].kind # "absent"}
        /\ edits' = edits /\ approvals' = approvals
        /\ ingests' = ingests + 1 /\ ingests < MaxIngests
    BY <1>2 DEF Ingest, In
  <1>4. ingests' \in 0 .. MaxIngests /\ ingests + 1 \in Texts
    BY <1>0, <1>1, <1>3 DEF CatalogTypeOK, Texts
  <1>5. s \in PassStates(c) /\ In(s) = Sound(c)
    BY <1>1, <1>2, <1>4, PlacedIsSound
  <1>6. /\ s.identity \in [Keys -> Nodes] /\ s.place \in [Keys -> PlaceRows]
        /\ s.content \in [Keys -> ContentRows] /\ RowsSoFar(c, s)
    BY <1>5 DEF PassStates, Passes
  <1>7. quarantine' \in [Keys -> QuarantineStates]
    BY <1>1, <1>3 DEF CatalogTypeOK, QuarantineStates, Quarantined
  <1>8. CatalogTypeOK'
    <2>1. sound' \subseteq Keys /\ listed' \subseteq Keys /\ mixed' \subseteq Keys
      BY <1>1, <1>3 DEF Sound, CatalogTypeOK
    <2>2. identity' \in [Keys -> Keys \cup {None}]
      BY <1>3, <1>6 DEF Nodes, None, Top
    <2> QED
      BY <1>1, <1>3, <1>4, <1>6, <1>7, <2>1, <2>2 DEF CatalogTypeOK
  <1>9. HierarchyIsRooted'
    <2>1. PICK ends : ends = mixed \cup {Top}
                               \cup {p \in Keys : \E k \in Keys \ {p} : s.at[k] = p}
      OBVIOUS
    <2>2. \A p \in Keys : \E n \in 0 .. NumKeys : Climb(s.place, p, n) \in ends
      BY ONLY <1>1, <1>5, <2>1, c \in [Keys -> Records], IngestRooted
    <2>3. ends = mixed' \cup {Top}
      BY <1>3, <2>1
    <2>4. \A p \in Keys : \E n \in 0 .. NumKeys : Climb(place', p, n) \in mixed' \cup {Top}
      BY ONLY <1>3, <2>2, <2>3
    <2> QED
      BY <2>4 DEF HierarchyIsRooted
  <1>10. RejectionsAreTold'
    <2> SUFFICES ASSUME NEW k \in listed'
                 PROVE  /\ (k \in sound') = (quarantine'[k] # "pending")
                        /\ k \in sound' => identity'[k] # None /\ place'[identity'[k]].known
      BY DEF RejectionsAreTold
    <2>1. k \in Keys /\ c[k].kind # "absent" /\ (k \in sound' <=> k \in In(s))
      BY <1>3, <1>5
    <2>2. quarantine'[k] = Quarantined(c, In(s), k)
      BY <1>3, <2>1
    <2>3. CASE k \in In(s)
      <3>1. quarantine'[k] # "pending"
        BY <2>1, <2>2, <2>3 DEF Quarantined
      <3>2. identity'[k] # None /\ place'[identity'[k]].known
        BY <1>3, <1>6, <2>1, <2>3 DEF RowsSoFar
      <3> QED
        BY <2>1, <2>3, <3>1, <3>2
    <2>4. CASE k \notin In(s)
      <3>1. quarantine'[k] = "pending"
        BY <2>1, <2>2, <2>4 DEF Quarantined
      <3> QED
        BY <2>1, <2>4, <3>1
    <2> QED
      BY <2>3, <2>4
  <1>11. ApprovalIsForItsText'
    <2> SUFFICES ASSUME NEW k \in Keys, content'[k].quality = "approved"
                 PROVE  content'[k].text \in approvals'[k]
      BY DEF ApprovalIsForItsText
    <2>1. content'[k] = content[k]
      BY <1>3, <1>6 DEF RowsSoFar
    <2> QED
      BY <1>1, <1>3, <2>1 DEF ApprovalIsForItsText
  <1>12. IdentitiesLead'
    BY <1>3, <1>6 DEF RowsSoFar, IdentitiesLead
  <1> QED
    BY <1>8, <1>9, <1>10, <1>11, <1>12 DEF CatalogIInv, CatalogIsSound

\* A decision approves the text it is made on.
LEMMA DecideSound ==
  ASSUME CatalogIInv, NEW k \in Keys, NEW quality \in {"approved", "rejected"},
         NEW reviewed \in BOOLEAN, Decide(k, quality, reviewed)
  PROVE  CatalogIInv'
  <1>0. MaxEdits \in Nat
    BY CatalogAssumption
  <1>1. /\ edits < MaxEdits /\ edits' = edits + 1
        /\ content' = [content EXCEPT ![k].quality = quality, ![k].reviewed = reviewed]
        /\ approvals' = IF quality = "approved"
                        THEN [approvals EXCEPT ![k] = @ \cup {content[k].text}] ELSE approvals
        /\ identity' = identity /\ mixed' = mixed
        /\ place' = place /\ quarantine' = quarantine /\ ingests' = ingests
        /\ sound' = sound /\ listed' = listed
    BY DEF Decide
  <1>2. CatalogTypeOK /\ HierarchyIsRooted /\ RejectionsAreTold /\ ApprovalIsForItsText
        /\ IdentitiesLead
    BY DEF CatalogIInv, CatalogIsSound
  <1>3. /\ content'[k].text = content[k].text /\ content'[k].quality = quality
        /\ \A j \in Keys \ {k} : content'[j] = content[j]
        /\ content' \in [Keys -> ContentRows]
    BY <1>1, <1>2 DEF CatalogTypeOK, ContentRows
  <1>4. /\ approvals' \in [Keys -> SUBSET Texts]
        /\ \A j \in Keys : approvals[j] \subseteq approvals'[j]
        /\ quality = "approved" => content[k].text \in approvals'[k]
    BY <1>1, <1>2 DEF CatalogTypeOK, ContentRows
  <1>5. CatalogTypeOK'
    BY <1>0, <1>1, <1>2, <1>3, <1>4 DEF CatalogTypeOK
  <1>6. HierarchyIsRooted' /\ RejectionsAreTold' /\ IdentitiesLead'
    BY <1>1, <1>2 DEF HierarchyIsRooted, RejectionsAreTold, IdentitiesLead
  <1>7. ApprovalIsForItsText'
    <2> SUFFICES ASSUME NEW j \in Keys, content'[j].quality = "approved"
                 PROVE  content'[j].text \in approvals'[j]
      BY DEF ApprovalIsForItsText
    <2>1. CASE j = k
      BY <1>3, <1>4, <2>1
    <2>2. CASE j # k
      BY <1>2, <1>3, <1>4, <2>2 DEF ApprovalIsForItsText
    <2> QED
      BY <2>1, <2>2
  <1> QED
    BY <1>5, <1>6, <1>7 DEF CatalogIInv, CatalogIsSound

LEMMA CatalogStep ==
  ASSUME CatalogIInv, CatalogNext
  PROVE  CatalogIInv'
  <1>1. CASE \E c \in Catalogs : Ingest(c)
    BY <1>1, CatalogAssumption, IngestSound
  <1>2. CASE \E k \in Keys : Approve(k) \/ Withdraw(k)
    <2>1. PICK k \in Keys : Approve(k) \/ Withdraw(k)
      BY <1>2
    <2>2. CASE Approve(k)
      BY <2>2, DecideSound DEF Approve
    <2>3. CASE Withdraw(k)
      <3>1. content[k].reviewed \in BOOLEAN
        BY DEF CatalogIInv, CatalogIsSound, CatalogTypeOK, ContentRows
      <3> QED
        BY <2>3, <3>1, DecideSound DEF Withdraw
    <2> QED
      BY <2>1, <2>2, <2>3
  <1> QED
    BY <1>1, <1>2 DEF CatalogNext

LEMMA CatalogStutter ==
  ASSUME CatalogIInv, UNCHANGED catalogVars
  PROVE  CatalogIInv'
  BY DEF CatalogIInv, CatalogIsSound, catalogVars, CatalogTypeOK, HierarchyIsRooted,
    RejectionsAreTold, ApprovalIsForItsText, IdentitiesLead

\* A step of the readers or of a draft leaves the catalog alone.
LEMMA OtherStepsSpareCatalog ==
  ASSUME [Reading \/ Drafting]_all
  PROVE  CatalogNext \/ UNCHANGED catalogVars
  <1>1. CASE Reading
    BY <1>1 DEF Reading, AnswersNext, Ask, ReadPlace, ReadScope, ReadRows, Answer, Fail, Leave
  <1>2. CASE Drafting
    BY <1>2 DEF Drafting, answersVars
  <1>3. CASE UNCHANGED all
    BY <1>3 DEF all, answersVars
  <1> QED
    BY <1>1, <1>2, <1>3

\* Whatever catalogs follow each other, the places are a forest but for rings
\* through a place that records of two keys wrote, what a catalog got wrong is
\* told and nothing else, and an approved row holds an approved text.
THEOREM CatalogInductive ==
  WorkSpec => []CatalogIInv
  <1>1. WorkInit => CatalogIInv
    BY CatalogInitSound DEF WorkInit, AnswersInit
  <1>2. CatalogIInv /\ [Reading \/ Drafting]_all => CatalogIInv'
    BY OtherStepsSpareCatalog, CatalogStep, CatalogStutter
  <1> QED
    BY <1>1, <1>2, PTL DEF WorkSpec

THEOREM CatalogIsSoundHolds ==
  WorkSpec => []CatalogIsSound
  <1>1. CatalogIInv => CatalogIsSound
    BY DEF CatalogIInv
  <1> QED
    BY <1>1, CatalogInductive, PTL

THEOREM ApprovalIsForItsTextHolds ==
  WorkSpec => []ApprovalIsForItsText
  <1>1. CatalogIInv => ApprovalIsForItsText
    BY DEF CatalogIInv
  <1> QED
    BY <1>1, CatalogInductive, PTL

\* Of any step of the system an ingestion leaves the rows alone that an editor
\* has reviewed, of whatever quality they are.
THEOREM ReviewedRowsStayHolds ==
  WorkSpec => ReviewedRowsStay
  <1>1. ASSUME CatalogIInv, CatalogNext, NEW k \in Keys, ingests' # ingests, content[k].reviewed
        PROVE  content'[k] = content[k]
    <2>1. PICK c \in Catalogs : Ingest(c)
      BY <1>1 DEF CatalogNext, Approve, Withdraw, Decide
    <2>2. c \in [Keys -> Records]
      BY CatalogAssumption
    <2>3. CatalogTypeOK /\ IdentitiesLead
      BY <1>1 DEF CatalogIInv, CatalogIsSound
    <2>4. ingests + 1 \in Texts
      BY <2>1, <2>3, CatalogAssumption DEF Ingest, CatalogTypeOK, Texts
    <2>5. RowsSoFar(c, Placed(c)) /\ content' = Placed(c).content
      BY <2>1, <2>2, <2>3, <2>4, PlacedIsSound DEF PassStates, Ingest
    <2> QED
      BY <1>1, <2>5 DEF RowsSoFar
  <1>2. CatalogIInv /\ [Reading \/ Drafting]_all =>
          [\A k \in Keys : ingests' # ingests /\ content[k].reviewed
                             => content'[k] = content[k]]_catalogVars
    BY <1>1, OtherStepsSpareCatalog
  <1> QED
    BY <1>2, CatalogInductive, PTL DEF WorkSpec, ReviewedRowsStay

-----------------------------------------------------------------------------
(* The check of a draft.                                                   *)

\* The requests that may be given.
BriefOk(b) ==
  /\ b.from \in Nat /\ b.to \in Nat /\ b.transfers \in Nat /\ b.longest \in Nat
  /\ b.needs \in BOOLEAN /\ b.budget \in Nat \cup {Null} /\ b.unit \in Nat \ {0}

\* What the check of a draft may find.
Codes == {"unsupported_source", "model_blocking_warning", "duplicate_candidate_id", "duplicate_day",
          "outside_date_window", "invalid_timezone", "excessive_transfer", "impossible_timing",
          "unsupported_place", "duplicate_place", "closed_availability", "accessibility_conflict",
          "unknown_availability", "accessibility_unknown", "budget_conflict", "currency_conflict",
          "budget_unknown"}
IssuesFound == [code : Codes, about : SUBSET STRING]

\* What the check carries along a draft.
Scans == [ids : SUBSET STRING, dates : SUBSET Nat, seen : SUBSET [place : STRING, id : STRING],
          last : {i \in Drafts!Items : Drafts!Timed(i)} \cup {Null},
          total : Int, unpriced : BOOLEAN, issues : SUBSET IssuesFound]

Clear(issues) == Drafts!Blocking(issues) = {}
SeenPlaces(s) == {v.place : v \in s.seen}

ByAvailability == {"availability", "operating_status"}
ByAccess == {"accessibility", "wheelchair_accessible"}

\* What a rule finds.
LEMMA WhenIs ==
  ASSUME NEW condition \in BOOLEAN, NEW code \in Codes, NEW about \in SUBSET STRING
  PROVE  /\ condition => Drafts!Of(code, about) \in Drafts!When(condition, code, about)
         /\ Clear(Drafts!When(condition, code, about)) <=> (condition => code \in Drafts!Warnings)
         /\ Drafts!When(condition, code, about) \subseteq IssuesFound
  <1>1. CASE condition
    <2>1. Drafts!When(condition, code, about) = {Drafts!Of(code, about)}
      BY <1>1 DEF Drafts!When
    <2>2. Drafts!Of(code, about) \in IssuesFound /\ Drafts!Of(code, about).code = code
      BY DEF Drafts!Of, IssuesFound
    <2> QED
      BY <1>1, <2>1, <2>2 DEF Clear, Drafts!Blocking
  <1>2. CASE ~condition
    <2>1. Drafts!When(condition, code, about) = {}
      BY <1>2 DEF Drafts!When
    <2> QED
      BY <1>2, <2>1 DEF Clear, Drafts!Blocking
  <1> QED
    BY <1>1, <1>2

LEMMA ClearBoth ==
  ASSUME NEW A, NEW B
  PROVE  Clear(A \cup B) <=> Clear(A) /\ Clear(B)
  BY DEF Clear, Drafts!Blocking

\* The constants of the drafts.
LEMMA DraftTypes ==
  /\ MaxRepairAttempts \in Nat /\ MaxWarnings \in Nat
  /\ Null \notin Nat /\ Null \notin STRING /\ Null \notin Drafts!Costs /\ Null \notin Drafts!Items
  /\ \A b \in Briefs : BriefOk(b)
  /\ \A c \in Replies : /\ c.days \in Seq(Drafts!Days) /\ c.blocked \in BOOLEAN
  BY DraftAssumption DEF Drafts!DraftConstants, BriefOk

\* An item may be on its own.
TimesFit(i) ==
  /\ (i.from = Null) = (i.to = Null)
  /\ Drafts!Timed(i) => i.from < i.to /\ (i.lasts # Null => i.to - i.from - i.lasts \in -5 .. 5)
PlaceFits(b, i) ==
  i.place # Null =>
    /\ i.place \in Drafts!Known(b)
    /\ Drafts!Visits(i) => /\ "closed" \notin Drafts!Said(b, i.place, ByAvailability)
                           /\ b.needs => "no" \notin Drafts!Said(b, i.place, ByAccess)
CostFits(i) == i.cost # Null => i.cost.ours /\ ~Drafts!Reversed(i.cost)
RideFits(b, i) == i.type = "transport" /\ i.lasts # Null => i.lasts <= b.longest
ItemFits(b, i) == TimesFit(i) /\ PlaceFits(b, i) /\ CostFits(i) /\ RideFits(b, i)

\* The place an item stands for when the next are compared.
Taken(i) == IF i.place = Null \/ Drafts!Stays(i) THEN {} ELSE {i.place}

Untold(i) == i.cost = Null /\ i.type \notin {"break", "transport"}

\* What is not known of the place of an item is told.
TellsOf(b, i, issues) ==
  Drafts!Visits(i) /\ i.place # Null =>
    /\ {"open", "closed"} \cap Drafts!Said(b, i.place, ByAvailability) = {} =>
         Drafts!Of("unknown_availability", {i.id}) \in issues
    /\ b.needs /\ {"yes", "no"} \cap Drafts!Said(b, i.place, ByAccess) = {} =>
         Drafts!Of("accessibility_unknown", {i.id}) \in issues

LEMMA TimingIs ==
  ASSUME NEW s \in Scans, NEW i \in Drafts!Items
  PROVE  /\ Drafts!Timing(s, i) \subseteq IssuesFound
         /\ Clear(Drafts!Timing(s, i)) <=>
              /\ TimesFit(i)
              /\ Drafts!Timed(i) /\ s.last # Null => s.last.to <= i.from
  <1> DEFINE code == "impossible_timing"
             prior == IF s.last = Null THEN {} ELSE {s.last.id}
             c1 == (i.from = Null) # (i.to = Null)
             c2 == Drafts!Timed(i) /\ i.to <= i.from
             c3 == Drafts!Timed(i) /\ s.last # Null /\ i.from < s.last.to
             c4 == Drafts!Timed(i) /\ i.lasts # Null /\ i.to - i.from - i.lasts \notin -5 .. 5
             W1 == Drafts!When(c1, code, {i.id})
             W2 == Drafts!When(c2, code, {i.id})
             W3 == Drafts!When(c3, code, prior \union {i.id})
             W4 == Drafts!When(c4, code, {i.id})
  <1>1. Drafts!Timing(s, i) = W1 \cup W2 \cup W3 \cup W4
    BY DEF Drafts!Timing
  <1>2. i.id \in STRING /\ prior \subseteq STRING /\ code \in Codes /\ code \notin Drafts!Warnings
    <2>1. i.id \in STRING /\ (s.last # Null => s.last.id \in STRING)
      BY DEF Scans, Drafts!Items
    <2> QED
      BY <2>1 DEF Codes, Drafts!Warnings
  <1>3. c1 \in BOOLEAN /\ c2 \in BOOLEAN /\ c3 \in BOOLEAN /\ c4 \in BOOLEAN
    BY DEF Drafts!Timed
  <1> HIDE DEF prior, code, c1, c2, c3, c4
  <1>4. /\ W1 \subseteq IssuesFound /\ W2 \subseteq IssuesFound
        /\ W3 \subseteq IssuesFound /\ W4 \subseteq IssuesFound
        /\ (Clear(W1) <=> ~c1) /\ (Clear(W2) <=> ~c2) /\ (Clear(W3) <=> ~c3) /\ (Clear(W4) <=> ~c4)
    BY <1>2, <1>3, WhenIs
  <1> HIDE DEF W1, W2, W3, W4
  <1>5. Clear(Drafts!Timing(s, i)) <=> ~c1 /\ ~c2 /\ ~c3 /\ ~c4
    BY <1>1, <1>4, ClearBoth
  <1>6. ~c1 /\ ~c2 /\ ~c3 /\ ~c4
          <=> TimesFit(i) /\ (Drafts!Timed(i) /\ s.last # Null => s.last.to <= i.from)
    <2>1. Drafts!Timed(i) => i.from \in Nat /\ i.to \in Nat
      BY DEF Drafts!Timed, Drafts!Items
    <2>2. s.last # Null => s.last.to \in Nat
      BY DEF Drafts!Timed, Drafts!Items, Scans
    <2>3. CASE ~Drafts!Timed(i)
      BY <2>3 DEF TimesFit, c1, c2, c3, c4
    <2>4. CASE Drafts!Timed(i)
      <3>1. c2 <=> ~(i.from < i.to)
        BY <2>1, <2>4 DEF c2
      <3>2. c3 <=> ~(s.last # Null => s.last.to <= i.from)
        BY <2>1, <2>2, <2>4 DEF c3
      <3>3. c4 <=> ~(i.lasts # Null => i.to - i.from - i.lasts \in -5 .. 5)
        BY <2>4 DEF c4
      <3>4. c1 <=> ~((i.from = Null) = (i.to = Null))
        BY DEF c1
      <3> QED
        BY <2>4, <3>1, <3>2, <3>3, <3>4 DEF TimesFit
    <2> QED
      BY <2>3, <2>4
  <1>7. Drafts!Timing(s, i) \subseteq IssuesFound
    BY <1>1, <1>4
  <1> QED
    BY <1>5, <1>6, <1>7

LEMMA PlacingIs ==
  ASSUME NEW b, BriefOk(b), NEW s \in Scans, NEW i \in Drafts!Items
  PROVE  /\ Drafts!Placing(b, s, i) \subseteq IssuesFound
         /\ Clear(Drafts!Placing(b, s, i)) <=>
              PlaceFits(b, i) /\ Taken(i) \cap SeenPlaces(s) = {}
         /\ TellsOf(b, i, Drafts!Placing(b, s, i))
  <1>1. CASE i.place = Null
    <2>1. Drafts!Placing(b, s, i) = {}
      BY <1>1 DEF Drafts!Placing
    <2> QED
      BY <1>1, <2>1 DEF PlaceFits, Taken, TellsOf, Clear, Drafts!Blocking
  <1>2. CASE i.place # Null
    <2> DEFINE before == {v \in s.seen : v.place = i.place}
               open == Drafts!AvailabilityFor(b, i.place)
               access == Drafts!AccessibilityFor(b, i.place)
               who == {i.id} \union {v.id : v \in before}
               c1 == i.place \notin Drafts!Known(b)
               c2 == ~Drafts!Stays(i) /\ before # {}
               c3 == Drafts!Visits(i) /\ open = "closed"
               c4 == Drafts!Visits(i) /\ open = "unknown"
               c5 == Drafts!Visits(i) /\ b.needs /\ access = "inaccessible"
               c6 == Drafts!Visits(i) /\ b.needs /\ access = "unknown"
               W1 == Drafts!When(c1, "unsupported_place", {i.id})
               W2 == Drafts!When(c2, "duplicate_place", who)
               W3 == Drafts!When(c3, "closed_availability", {i.id})
               W4 == Drafts!When(c4, "unknown_availability", {i.id})
               W5 == Drafts!When(c5, "accessibility_conflict", {i.id})
               W6 == Drafts!When(c6, "accessibility_unknown", {i.id})
    <2>1. Drafts!Placing(b, s, i) = W1 \cup W2 \cup W3 \cup W4 \cup W5 \cup W6
      BY <1>2 DEF Drafts!Placing
    <2>2. {i.id} \in SUBSET STRING /\ who \in SUBSET STRING
      BY DEF Scans, Drafts!Items
    <2>3. /\ c1 \in BOOLEAN /\ c2 \in BOOLEAN /\ c3 \in BOOLEAN
          /\ c4 \in BOOLEAN /\ c5 \in BOOLEAN /\ c6 \in BOOLEAN
      BY DEF Drafts!Visits, Drafts!Stays, BriefOk
    <2>4. c2 <=> ~(Taken(i) \cap SeenPlaces(s) = {})
      BY <1>2 DEF Taken, SeenPlaces
    <2>5. /\ open = "closed" <=> "closed" \in Drafts!Said(b, i.place, ByAvailability)
          /\ open = "unknown" <=>
               {"open", "closed"} \cap Drafts!Said(b, i.place, ByAvailability) = {}
      BY DEF Drafts!AvailabilityFor, ByAvailability
    <2>6. /\ access = "inaccessible" <=> "no" \in Drafts!Said(b, i.place, ByAccess)
          /\ access = "unknown" <=> {"yes", "no"} \cap Drafts!Said(b, i.place, ByAccess) = {}
      BY DEF Drafts!AccessibilityFor, ByAccess
    <2>7. ~c1 /\ ~c3 /\ ~c5 <=> PlaceFits(b, i)
      BY <1>2, <2>5, <2>6 DEF PlaceFits
    <2>8. /\ Drafts!Visits(i)
             /\ {"open", "closed"} \cap Drafts!Said(b, i.place, ByAvailability) = {} => c4
          /\ Drafts!Visits(i) /\ b.needs
             /\ {"yes", "no"} \cap Drafts!Said(b, i.place, ByAccess) = {} => c6
      BY <2>5, <2>6
    <2> HIDE DEF who, c1, c2, c3, c4, c5, c6
    <2>9. W1 \subseteq IssuesFound /\ (Clear(W1) <=> ~c1)
      BY <2>2, <2>3, WhenIs DEF Codes, Drafts!Warnings
    <2>10. W2 \subseteq IssuesFound /\ (Clear(W2) <=> ~c2)
      BY <2>2, <2>3, WhenIs DEF Codes, Drafts!Warnings
    <2>11. W3 \subseteq IssuesFound /\ (Clear(W3) <=> ~c3)
      BY <2>2, <2>3, WhenIs DEF Codes, Drafts!Warnings
    <2>12. /\ W4 \subseteq IssuesFound /\ Clear(W4)
           /\ c4 => Drafts!Of("unknown_availability", {i.id}) \in W4
      BY <2>2, <2>3, WhenIs DEF Codes, Drafts!Warnings
    <2>13. W5 \subseteq IssuesFound /\ (Clear(W5) <=> ~c5)
      BY <2>2, <2>3, WhenIs DEF Codes, Drafts!Warnings
    <2>14. /\ W6 \subseteq IssuesFound /\ Clear(W6)
           /\ c6 => Drafts!Of("accessibility_unknown", {i.id}) \in W6
      BY <2>2, <2>3, WhenIs DEF Codes, Drafts!Warnings
    <2> HIDE DEF W1, W2, W3, W4, W5, W6
    <2>15. Clear(Drafts!Placing(b, s, i)) <=> ~c1 /\ ~c2 /\ ~c3 /\ ~c5
      BY <2>1, <2>9, <2>10, <2>11, <2>12, <2>13, <2>14 DEF Clear, Drafts!Blocking
    <2>16. TellsOf(b, i, Drafts!Placing(b, s, i))
      BY <2>1, <2>8, <2>12, <2>14 DEF TellsOf
    <2>17. Drafts!Placing(b, s, i) \subseteq IssuesFound
      BY <2>1, <2>9, <2>10, <2>11, <2>12, <2>13, <2>14
    <2> QED
      BY <2>4, <2>7, <2>15, <2>16, <2>17
  <1> QED
    BY <1>1, <1>2

LEMMA CostingIs ==
  ASSUME NEW i \in Drafts!Items
  PROVE  /\ Drafts!Costing(i) \subseteq IssuesFound
         /\ Clear(Drafts!Costing(i)) <=> CostFits(i)
  <1>1. CASE i.cost = Null
    BY <1>1 DEF Drafts!Costing, CostFits, Clear, Drafts!Blocking
  <1>2. CASE i.cost # Null
    <2> DEFINE c1 == Drafts!Reversed(i.cost)
               c2 == ~Drafts!Reversed(i.cost) /\ ~i.cost.ours
               W1 == Drafts!When(c1, "budget_conflict", {i.id})
               W2 == Drafts!When(c2, "currency_conflict", {i.id})
    <2>1. Drafts!Costing(i) = W1 \cup W2
      BY <1>2 DEF Drafts!Costing
    <2>2. {i.id} \in SUBSET STRING
      BY DEF Drafts!Items
    <2>3. c1 \in BOOLEAN /\ c2 \in BOOLEAN
      BY DEF Drafts!Reversed
    <2>4. i.cost.ours \in BOOLEAN
      BY <1>2 DEF Drafts!Items, Drafts!Costs
    <2>5. ~c1 /\ ~c2 <=> CostFits(i)
      BY <1>2, <2>4 DEF CostFits
    <2> HIDE DEF c1, c2
    <2>6. W1 \subseteq IssuesFound /\ (Clear(W1) <=> ~c1)
      BY <2>2, <2>3, WhenIs DEF Codes, Drafts!Warnings
    <2>7. W2 \subseteq IssuesFound /\ (Clear(W2) <=> ~c2)
      BY <2>2, <2>3, WhenIs DEF Codes, Drafts!Warnings
    <2> HIDE DEF W1, W2
    <2> QED
      BY <2>1, <2>5, <2>6, <2>7, ClearBoth
  <1> QED
    BY <1>1, <1>2
\* An item that comes after others of its day fits with what was met before it.
FitsAfter(b, i, ids, places) ==
  ItemFits(b, i) /\ i.id \notin ids /\ Taken(i) \cap places = {}

\* What an item costs as far as the check adds it up.
Charge(b, i) ==
  IF i.cost # Null /\ ~Drafts!Reversed(i.cost) /\ i.cost.ours
  THEN Drafts!Minor(b, Drafts!Top(i.cost)) ELSE 0

LEMMA MinorIsInt ==
  ASSUME NEW b, BriefOk(b), NEW n \in Nat
  PROVE  Drafts!Minor(b, n) \in Int
  <1>1. b.unit \in Nat \ {0}
    BY DEF BriefOk
  <1>2. b.unit \div 2 \in Int
    BY <1>1
  <1>3. n + b.unit \div 2 \in Int
    BY <1>2
  <1> QED
    BY <1>1, <1>3 DEF Drafts!Minor

LEMMA ChargeIs ==
  ASSUME NEW b, BriefOk(b), NEW i \in Drafts!Items
  PROVE  /\ Charge(b, i) \in Int /\ Drafts!Price(b, i) \in Int
         /\ CostFits(i) => Charge(b, i) = Drafts!Price(b, i)
  <1>1. i.cost # Null => Drafts!Top(i.cost) \in Nat
    BY DEF Drafts!Top, Drafts!Items, Drafts!Costs
  <1>2. i.cost # Null => Drafts!Minor(b, Drafts!Top(i.cost)) \in Int
    BY <1>1, MinorIsInt
  <1> QED
    BY <1>2 DEF Charge, Drafts!Price, CostFits

LEMMA CheckItemIs ==
  ASSUME NEW b, BriefOk(b), NEW s \in Scans, NEW i \in Drafts!Items,
         NEW t, t = Drafts!CheckItem(b, s, i)
  PROVE  /\ t \in Scans
         /\ t.ids = s.ids \cup {i.id} /\ t.dates = s.dates
         /\ SeenPlaces(t) = SeenPlaces(s) \cup Taken(i)
         /\ t.last = IF Drafts!Timed(i) THEN i ELSE s.last
         /\ t.total = s.total + Charge(b, i)
         /\ t.unpriced <=> s.unpriced \/ Untold(i)
         /\ s.issues \subseteq t.issues
         /\ TellsOf(b, i, t.issues)
         /\ Clear(t.issues) <=>
              /\ Clear(s.issues) /\ FitsAfter(b, i, s.ids, SeenPlaces(s))
              /\ Drafts!Timed(i) /\ s.last # Null => s.last.to <= i.from
  <1> DEFINE c1 == i.id \in s.ids
             c2 == i.type = "transport" /\ i.lasts # Null /\ i.lasts > b.longest
             W1 == Drafts!When(c1, "duplicate_candidate_id", {i.id})
             W2 == Drafts!When(c2, "excessive_transfer", {i.id})
             ti == Drafts!Timing(s, i)
             pl == Drafts!Placing(b, s, i)
             co == Drafts!Costing(i)
  <1>1. /\ s = [ids |-> s.ids, dates |-> s.dates, seen |-> s.seen, last |-> s.last,
                total |-> s.total, unpriced |-> s.unpriced, issues |-> s.issues]
        /\ s.ids \subseteq STRING /\ s.dates \subseteq Nat
        /\ s.seen \subseteq [place : STRING, id : STRING]
        /\ s.last \in {j \in Drafts!Items : Drafts!Timed(j)} \cup {Null}
        /\ s.total \in Int /\ s.unpriced \in BOOLEAN /\ s.issues \subseteq IssuesFound
    BY DEF Scans
  <1>2. t = [s EXCEPT
     !.ids = @ \union {i.id},
     !.last = IF Drafts!Timed(i) THEN i ELSE @,
     !.seen = IF i.place = Null \/ Drafts!Stays(i) \/ \E v \in @ : v.place = i.place
              THEN @ ELSE @ \union {[place |-> i.place, id |-> i.id]},
     !.total = IF i.cost # Null /\ ~Drafts!Reversed(i.cost) /\ i.cost.ours
               THEN @ + Drafts!Minor(b, Drafts!Top(i.cost)) ELSE @,
     !.unpriced = @ \/ (i.cost = Null /\ i.type \notin {"break", "transport"}),
     !.issues = @ \union ti \union pl \union co \union (UNION {W1, W2})]
    BY DEF Drafts!CheckItem
  <1> HIDE DEF ti, pl, co, W1, W2
  <1>3. /\ t.ids = s.ids \cup {i.id} /\ t.dates = s.dates
        /\ t.last = IF Drafts!Timed(i) THEN i ELSE s.last
        /\ t.seen = IF i.place = Null \/ Drafts!Stays(i) \/ \E v \in s.seen : v.place = i.place
                    THEN s.seen ELSE s.seen \union {[place |-> i.place, id |-> i.id]}
        /\ t.unpriced = (s.unpriced \/ (i.cost = Null /\ i.type \notin {"break", "transport"}))
        /\ t.total = IF i.cost # Null /\ ~Drafts!Reversed(i.cost) /\ i.cost.ours
                     THEN s.total + Drafts!Minor(b, Drafts!Top(i.cost)) ELSE s.total
        /\ t.issues = s.issues \cup ti \cup pl \cup co \cup W1 \cup W2
        /\ t = [ids |-> t.ids, dates |-> t.dates, seen |-> t.seen, last |-> t.last,
                total |-> t.total, unpriced |-> t.unpriced, issues |-> t.issues]
    <2>1. PICK r1, r2, r3, r4, r5, r6, r7 :
            s = [ids |-> r1, dates |-> r2, seen |-> r3, last |-> r4,
                 total |-> r5, unpriced |-> r6, issues |-> r7]
      BY <1>1
    <2>2. t = [ids |-> r1 \cup {i.id}, dates |-> r2,
               seen |-> IF i.place = Null \/ Drafts!Stays(i) \/ \E v \in r3 : v.place = i.place
                        THEN r3 ELSE r3 \union {[place |-> i.place, id |-> i.id]},
               last |-> IF Drafts!Timed(i) THEN i ELSE r4,
               total |-> IF i.cost # Null /\ ~Drafts!Reversed(i.cost) /\ i.cost.ours
                         THEN r5 + Drafts!Minor(b, Drafts!Top(i.cost)) ELSE r5,
               unpriced |-> (r6 \/ (i.cost = Null /\ i.type \notin {"break", "transport"})),
               issues |-> r7 \union ti \union pl \union co \union (UNION {W1, W2})]
      BY <1>2, <2>1
    <2>3. UNION {W1, W2} = W1 \cup W2
      OBVIOUS
    <2>4. /\ s.ids = r1 /\ s.dates = r2 /\ s.seen = r3 /\ s.last = r4
          /\ s.total = r5 /\ s.issues = r7
      BY ONLY <2>1
    <2>5. s.unpriced = r6
      BY ONLY <2>1
    <2>6. t.unpriced = (s.unpriced \/ (i.cost = Null /\ i.type \notin {"break", "transport"}))
      BY ONLY <2>2, <2>5
    <2>7. t.issues = s.issues \cup ti \cup pl \cup co \cup W1 \cup W2
      BY ONLY <2>2, <2>3, <2>4
    <2>8. /\ t.ids = s.ids \cup {i.id} /\ t.dates = s.dates
          /\ t.last = IF Drafts!Timed(i) THEN i ELSE s.last
      BY ONLY <2>2, <2>4
    <2>9. t.seen = IF i.place = Null \/ Drafts!Stays(i) \/ \E v \in s.seen : v.place = i.place
                   THEN s.seen ELSE s.seen \union {[place |-> i.place, id |-> i.id]}
      BY ONLY <2>2, <2>4
    <2>10. t.total = IF i.cost # Null /\ ~Drafts!Reversed(i.cost) /\ i.cost.ours
                     THEN s.total + Drafts!Minor(b, Drafts!Top(i.cost)) ELSE s.total
      BY ONLY <2>2, <2>4
    <2>11. t = [ids |-> t.ids, dates |-> t.dates, seen |-> t.seen, last |-> t.last,
                total |-> t.total, unpriced |-> t.unpriced, issues |-> t.issues]
      BY ONLY <2>2
    <2> QED
      BY <2>6, <2>7, <2>8, <2>9, <2>10, <2>11
  <1>4. i.id \in STRING /\ {i.id} \in SUBSET STRING /\ (i.place # Null => i.place \in STRING)
    BY DEF Drafts!Items
  <1>5. t.total = s.total + Charge(b, i) /\ t.total \in Int
    BY <1>1, <1>3, ChargeIs DEF Charge
  <1>6. t.unpriced <=> s.unpriced \/ Untold(i)
    BY <1>3 DEF Untold
  <1>7. t.seen \subseteq [place : STRING, id : STRING]
    BY <1>1, <1>3, <1>4
  <1>8. SeenPlaces(t) = SeenPlaces(s) \cup Taken(i)
    <2>1. CASE i.place = Null \/ Drafts!Stays(i)
      BY <1>3, <2>1 DEF SeenPlaces, Taken
    <2>2. CASE ~(i.place = Null \/ Drafts!Stays(i)) /\ \E v \in s.seen : v.place = i.place
      BY <1>3, <2>2 DEF SeenPlaces, Taken
    <2>3. CASE ~(i.place = Null \/ Drafts!Stays(i)) /\ ~\E v \in s.seen : v.place = i.place
      <3>1. t.seen = s.seen \cup {[place |-> i.place, id |-> i.id]}
        BY <1>3, <2>3
      <3>2. Taken(i) = {i.place}
        BY <2>3 DEF Taken
      <3>3. PICK p : p = [place |-> i.place, id |-> i.id]
        OBVIOUS
      <3>4. t.seen = s.seen \cup {p} /\ p.place = i.place
        BY <3>1, <3>3
      <3> QED
        BY ONLY <3>2, <3>4 DEF SeenPlaces
    <2> QED
      BY <2>1, <2>2, <2>3
  <1>9. /\ W1 \subseteq IssuesFound /\ (Clear(W1) <=> i.id \notin s.ids)
    <2>1. c1 \in BOOLEAN
      OBVIOUS
    <2>2. c1 <=> i.id \in s.ids
      OBVIOUS
    <2> HIDE DEF c1
    <2> QED
      BY <1>4, <2>1, <2>2, WhenIs DEF Codes, Drafts!Warnings, W1
  <1>10. /\ W2 \subseteq IssuesFound /\ (Clear(W2) <=> RideFits(b, i))
    <2>1. c2 \in BOOLEAN /\ (c2 <=> ~RideFits(b, i))
      BY DEF RideFits, Drafts!Items, BriefOk
    <2> HIDE DEF c2
    <2> QED
      BY <1>4, <2>1, WhenIs DEF Codes, Drafts!Warnings, W2
  <1>11. /\ ti \subseteq IssuesFound
         /\ Clear(ti) <=> TimesFit(i) /\ (Drafts!Timed(i) /\ s.last # Null => s.last.to <= i.from)
    BY TimingIs DEF ti
  <1>12. /\ pl \subseteq IssuesFound /\ TellsOf(b, i, pl)
         /\ Clear(pl) <=> PlaceFits(b, i) /\ Taken(i) \cap SeenPlaces(s) = {}
    BY PlacingIs DEF pl
  <1>13. co \subseteq IssuesFound /\ (Clear(co) <=> CostFits(i))
    BY CostingIs DEF co
  <1>14. t.issues \subseteq IssuesFound
    BY <1>1, <1>3, <1>9, <1>10, <1>11, <1>12, <1>13
  <1>15. t.last \in {j \in Drafts!Items : Drafts!Timed(j)} \cup {Null}
    BY <1>1, <1>3
  <1>16. t.ids \subseteq STRING /\ t.dates \subseteq Nat /\ t.unpriced \in BOOLEAN
    BY <1>1, <1>3, <1>4
  <1>17. t \in Scans
    BY <1>3, <1>5, <1>7, <1>14, <1>15, <1>16 DEF Scans
  <1>18. TellsOf(b, i, t.issues)
    BY <1>3, <1>12 DEF TellsOf
  <1>19. Clear(t.issues) <=> Clear(s.issues) /\ Clear(ti) /\ Clear(pl) /\ Clear(co)
                             /\ Clear(W1) /\ Clear(W2)
    BY <1>3 DEF Clear, Drafts!Blocking
  <1>20. Clear(t.issues) <=>
           /\ Clear(s.issues) /\ FitsAfter(b, i, s.ids, SeenPlaces(s))
           /\ Drafts!Timed(i) /\ s.last # Null => s.last.to <= i.from
    BY <1>9, <1>10, <1>11, <1>12, <1>13, <1>19 DEF FitsAfter, ItemFits
  <1> QED
    BY <1>3, <1>5, <1>6, <1>8, <1>17, <1>18, <1>20
\* The check of the items of a day takes them one after another,
LEMMA ItemsScan ==
  ASSUME NEW b, BriefOk(b), NEW s \in Scans, NEW items \in Seq(Drafts!Items)
  PROVE  \E after \in [0 .. Len(items) -> Scans] :
           /\ after[0] = s /\ after[Len(items)] = Drafts!CheckItems(b, s, items)
           /\ \A n \in 1 .. Len(items) : after[n] = Drafts!CheckItem(b, after[n - 1], items[n])
  <1> DEFINE N == Len(items)
             F == [n \in Nat |-> [x \in Scans |->
                     IF n \in 1 .. N THEN Drafts!CheckItem(b, x, items[n]) ELSE x]]
             after == CHOOSE f : f = [n \in 0 .. N |->
                        IF n = 0 THEN s ELSE Drafts!CheckItem(b, f[n - 1], items[n])]
  <1>1. N \in Nat /\ \A n \in 1 .. N : items[n] \in Drafts!Items
    OBVIOUS
  <1>2. F \in [Nat -> [Scans -> Scans]]
    <2> SUFFICES ASSUME NEW n \in Nat, NEW x \in Scans
                 PROVE  (IF n \in 1 .. N THEN Drafts!CheckItem(b, x, items[n]) ELSE x) \in Scans
      OBVIOUS
    <2>1. n \in 1 .. N => Drafts!CheckItem(b, x, items[n]) \in Scans
      BY <1>1, CheckItemIs
    <2> QED
      BY <2>1
  <1>3. \A n \in 1 .. N, x \in Scans : F[n][x] = Drafts!CheckItem(b, x, items[n])
    BY <1>1
  <1> HIDE DEF F
  <1>4. PICK f : Iterates(f, s, F, N)
    BY <1>1, <1>2, IteratesExist
  <1>5. f \in [0 .. N -> Scans] /\ f[0] = s /\ \A n \in 1 .. N : f[n] = F[n][f[n - 1]]
    BY <1>1, <1>2, <1>4, IteratesTyped
  <1>6. \A n \in 1 .. N : f[n - 1] \in Scans
    <2> SUFFICES ASSUME NEW n \in 1 .. N PROVE f[n - 1] \in Scans
      OBVIOUS
    <2>1. n - 1 \in 0 .. N
      BY <1>1
    <2> QED
      BY <1>5, <2>1
  <1>7. \A n \in 1 .. N : f[n] = Drafts!CheckItem(b, f[n - 1], items[n])
    BY <1>3, <1>5, <1>6
  <1>8. f = [n \in 0 .. N |-> IF n = 0 THEN s ELSE Drafts!CheckItem(b, f[n - 1], items[n])]
    <2>1. \A n \in 0 .. N : f[n] = IF n = 0 THEN s ELSE Drafts!CheckItem(b, f[n - 1], items[n])
      BY <1>1, <1>5, <1>7
    <2> QED
      BY <1>5, <2>1
  <1>9. after = [n \in 0 .. N |-> IF n = 0 THEN s ELSE Drafts!CheckItem(b, after[n - 1], items[n])]
    BY <1>8
  <1>10. Drafts!CheckItems(b, s, items) = after[N]
    BY DEF Drafts!CheckItems
  <1> HIDE DEF after
  <1>11. after = f
    <2> DEFINE S == {n \in 0 .. N : after[n] = f[n]}
    <2>1. 0 \in S
      BY <1>1, <1>5, <1>9
    <2>2. ASSUME NEW n \in 0 .. N, n < N, n \in S PROVE n + 1 \in S
      <3>1. PICK m : m = n + 1
        OBVIOUS
      <3>2. m \in 1 .. N /\ m \in 0 .. N /\ m # 0 /\ m - 1 = n
        BY <1>1, <2>2, <3>1
      <3>3. after[m] = Drafts!CheckItem(b, after[m - 1], items[m])
        BY <1>9, <3>2
      <3>4. f[m] = Drafts!CheckItem(b, f[m - 1], items[m])
        BY <1>7, <3>2
      <3> QED
        BY <2>2, <3>1, <3>2, <3>3, <3>4
    <2>3. 0 .. N \subseteq S
      <3>1. \A n \in 0 .. N : n < N /\ n \in S => n + 1 \in S
        BY <2>2
      <3> HIDE DEF S
      <3> QED
        BY ONLY <2>1, <3>1, <1>1, BoundedInduction
    <2>4. after = [n \in 0 .. N |-> after[n]] /\ f = [n \in 0 .. N |-> f[n]]
      BY <1>5, <1>9
    <2> QED
      BY <2>3, <2>4
  <1>12. N \in 0 .. N
    BY <1>1
  <1> QED
    BY <1>5, <1>7, <1>10, <1>11

Sums == Int

\* and so does the sum of what they cost.
LEMMA DaySpentScan ==
  ASSUME NEW b, BriefOk(b), NEW items \in Seq(Drafts!Items)
  PROVE  \E sum \in [0 .. Len(items) -> Int] :
           /\ sum[0] = 0 /\ sum[Len(items)] = Drafts!DaySpent(b, items)
           /\ \A n \in 1 .. Len(items) : sum[n] = sum[n - 1] + Drafts!Price(b, items[n])
  <1> DEFINE N == Len(items)
             F == [n \in Nat |-> [x \in Sums |->
                     IF n \in 1 .. N THEN x + Drafts!Price(b, items[n]) ELSE x]]
             sum == CHOOSE f : f = [n \in 0 .. N |->
                        IF n = 0 THEN 0 ELSE f[n - 1] + Drafts!Price(b, items[n])]
  <1>1. N \in Nat /\ \A n \in 1 .. N : items[n] \in Drafts!Items
    OBVIOUS
  <1>2. F \in [Nat -> [Sums -> Sums]]
    <2> SUFFICES ASSUME NEW n \in Nat, NEW x \in Sums
                 PROVE  (IF n \in 1 .. N THEN x + Drafts!Price(b, items[n]) ELSE x) \in Sums
      OBVIOUS
    <2>1. n \in 1 .. N => Drafts!Price(b, items[n]) \in Int
      BY <1>1, ChargeIs
    <2> QED
      BY <2>1 DEF Sums
  <1>3. \A n \in 1 .. N, x \in Int : F[n][x] = x + Drafts!Price(b, items[n])
    BY <1>1 DEF Sums
  <1> HIDE DEF F
  <1>4. 0 \in Sums
    BY DEF Sums
  <1>5. PICK f : Iterates(f, 0, F, N)
    BY <1>1, <1>2, <1>4, IteratesExist
  <1>6. f \in [0 .. N -> Sums] /\ f[0] = 0 /\ \A n \in 1 .. N : f[n] = F[n][f[n - 1]]
    <2>1. PICK S, M, G, x : S = Sums /\ M = N /\ G = F /\ x = 0
      OBVIOUS
    <2>2. M \in Nat /\ G \in [Nat -> [S -> S]] /\ x \in S /\ Iterates(f, x, G, M)
      BY ONLY <1>1, <1>2, <1>4, <1>5, <2>1
    <2>3. f \in [0 .. M -> S]
      BY ONLY <2>2, IteratesTyped
    <2>4. f[0] = x
      BY ONLY <2>2, IteratesTyped
    <2>5. \A n \in 1 .. M : f[n] = G[n][f[n - 1]]
      BY ONLY <2>2, IteratesTyped
    <2>6. f \in [0 .. N -> Sums]
      BY ONLY <2>1, <2>3
    <2>7. f[0] = 0
      BY ONLY <2>1, <2>4
    <2>8. \A n \in 1 .. N : f[n] = F[n][f[n - 1]]
      BY ONLY <2>1, <2>5, Zenon
    <2> QED
      BY ONLY <2>6, <2>7, <2>8
  <1>7. f \in [0 .. N -> Int] /\ f[0] = 0 /\ \A n \in 1 .. N : f[n] = F[n][f[n - 1]]
    BY <1>6 DEF Sums
  <1>8. \A n \in 1 .. N : f[n - 1] \in Int
    <2> SUFFICES ASSUME NEW n \in 1 .. N PROVE f[n - 1] \in Int
      OBVIOUS
    <2>1. n - 1 \in 0 .. N
      BY <1>1
    <2> QED
      BY <1>7, <2>1
  <1>9. \A n \in 1 .. N : f[n] = f[n - 1] + Drafts!Price(b, items[n])
    BY <1>3, <1>7, <1>8
  <1>10. f = [n \in 0 .. N |-> IF n = 0 THEN 0 ELSE f[n - 1] + Drafts!Price(b, items[n])]
    <2>1. \A n \in 0 .. N : f[n] = IF n = 0 THEN 0 ELSE f[n - 1] + Drafts!Price(b, items[n])
      BY <1>1, <1>7, <1>9
    <2> QED
      BY <1>7, <2>1
  <1>11. sum = [n \in 0 .. N |-> IF n = 0 THEN 0 ELSE sum[n - 1] + Drafts!Price(b, items[n])]
    BY <1>10
  <1>12. Drafts!DaySpent(b, items) = sum[N]
    BY DEF Drafts!DaySpent
  <1> HIDE DEF sum
  <1>13. sum = f
    <2> DEFINE S == {n \in 0 .. N : sum[n] = f[n]}
    <2>1. 0 \in S
      BY <1>1, <1>7, <1>11
    <2>2. ASSUME NEW n \in 0 .. N, n < N, n \in S PROVE n + 1 \in S
      <3>1. PICK m : m = n + 1
        OBVIOUS
      <3>2. m \in 1 .. N /\ m \in 0 .. N /\ m # 0 /\ m - 1 = n
        BY <1>1, <2>2, <3>1
      <3>3. sum[m] = sum[m - 1] + Drafts!Price(b, items[m])
        BY <1>11, <3>2
      <3>4. f[m] = f[m - 1] + Drafts!Price(b, items[m])
        BY <1>9, <3>2
      <3> QED
        BY <2>2, <3>1, <3>2, <3>3, <3>4
    <2>3. 0 .. N \subseteq S
      <3>1. \A n \in 0 .. N : n < N /\ n \in S => n + 1 \in S
        BY <2>2
      <3> HIDE DEF S
      <3> QED
        BY ONLY <2>1, <3>1, <1>1, BoundedInduction
    <2>4. sum = [n \in 0 .. N |-> sum[n]] /\ f = [n \in 0 .. N |-> f[n]]
      BY <1>7, <1>11
    <2> QED
      BY <2>3, <2>4
  <1> QED
    BY <1>7, <1>9, <1>12, <1>13
\* What the first n items of a list leave to the ones behind them.
ItemIds(items, n) == {items[m].id : m \in 1 .. n}
TakenPlaces(items, n) == UNION {Taken(items[m]) : m \in 1 .. n}

\* The n-th begins when all before it have ended.
InTurn(items, n) ==
  \A l \in 1 .. n - 1 :
    Drafts!Timed(items[l]) /\ Drafts!Timed(items[n]) => items[l].to <= items[n].from

ItemsFit(b, items, n, ids, places) ==
  \A m \in 1 .. n :
    /\ FitsAfter(b, items[m], ids \cup ItemIds(items, m - 1), places \cup TakenPlaces(items, m - 1))
    /\ InTurn(items, m)

LEMMA PrefixIs ==
  ASSUME NEW items, NEW n \in Nat
  PROVE  /\ ItemIds(items, 0) = {} /\ TakenPlaces(items, 0) = {}
         /\ ItemIds(items, n + 1) = ItemIds(items, n) \cup {items[n + 1].id}
         /\ TakenPlaces(items, n + 1) = TakenPlaces(items, n) \cup Taken(items[n + 1])
  <1>1. 1 .. n + 1 = (1 .. n) \cup {n + 1} /\ 1 .. 0 = {}
    OBVIOUS
  <1>2. ItemIds(items, 0) = {} /\ TakenPlaces(items, 0) = {}
    BY <1>1 DEF ItemIds, TakenPlaces
  <1>3. ItemIds(items, n + 1) = ItemIds(items, n) \cup {items[n + 1].id}
    BY ONLY <1>1 DEF ItemIds
  <1>4. TakenPlaces(items, n + 1) = TakenPlaces(items, n) \cup Taken(items[n + 1])
    BY ONLY <1>1 DEF TakenPlaces
  <1> QED
    BY <1>2, <1>3, <1>4

\* The last item with times is the last to end, if the items are in turn.
LastTimed(items, n, last) ==
  \/ last = Null /\ \A m \in 1 .. n : ~Drafts!Timed(items[m])
  \/ \E p \in 1 .. n : /\ Drafts!Timed(items[p]) /\ last = items[p]
                       /\ \A m \in p + 1 .. n : ~Drafts!Timed(items[m])

LEMMA LastEndsLast ==
  ASSUME NEW items \in Seq(Drafts!Items), NEW n \in 0 .. Len(items) - 1,
         NEW last, LastTimed(items, n, last),
         \A m \in 1 .. n : TimesFit(items[m]) /\ InTurn(items, m)
  PROVE  InTurn(items, n + 1) <=>
           (Drafts!Timed(items[n + 1]) /\ last # Null => last.to <= items[n + 1].from)
  <1>1. /\ n \in Nat /\ n + 1 \in 1 .. Len(items) /\ n + 1 - 1 = n
        /\ \A m \in 1 .. n + 1 : items[m] \in Drafts!Items
    OBVIOUS
  <1>2. \A m \in 1 .. n + 1 : Drafts!Timed(items[m]) =>
          items[m].from \in Nat /\ items[m].to \in Nat
    BY <1>1 DEF Drafts!Timed, Drafts!Items
  <1>3. CASE ~Drafts!Timed(items[n + 1])
    BY <1>1, <1>3 DEF InTurn
  <1>4. CASE Drafts!Timed(items[n + 1]) /\ last = Null
    <2>1. \A m \in 1 .. n : ~Drafts!Timed(items[m])
      <3>1. \A p \in 1 .. n : items[p] # Null
        BY <1>1, DraftTypes
      <3> QED
        BY <1>4, <3>1 DEF LastTimed
    <2> QED
      BY <1>1, <1>4, <2>1 DEF InTurn
  <1>5. CASE Drafts!Timed(items[n + 1]) /\ last # Null
    <2>1. PICK p \in 1 .. n : /\ Drafts!Timed(items[p]) /\ last = items[p]
                              /\ \A m \in p + 1 .. n : ~Drafts!Timed(items[m])
      BY <1>5 DEF LastTimed
    <2>2. InTurn(items, n + 1) => last.to <= items[n + 1].from
      BY <1>1, <1>5, <2>1 DEF InTurn
    <2>3. ASSUME last.to <= items[n + 1].from, NEW l \in 1 .. n, Drafts!Timed(items[l])
          PROVE  items[l].to <= items[n + 1].from
      <3>1. CASE l = p
        BY <2>1, <2>3, <3>1
      <3>2. CASE l < p
        <4>1. items[l].to <= items[p].from
          <5>1. InTurn(items, p) /\ l \in 1 .. p - 1
            BY <2>1, <3>2
          <5> QED
            BY <2>1, <2>3, <5>1 DEF InTurn
        <4>2. items[p].from < items[p].to
          BY <2>1 DEF TimesFit
        <4>3. /\ items[l].to \in Nat /\ items[p].from \in Nat /\ items[p].to \in Nat
              /\ items[n + 1].from \in Nat
          BY <1>1, <1>2, <1>5, <2>1, <2>3
        <4> QED
          BY <2>1, <2>3, <4>1, <4>2, <4>3
      <3>3. CASE p < l
        <4>1. l \in p + 1 .. n
          BY <3>3
        <4> QED
          BY <2>1, <2>3, <4>1
      <3> QED
        BY <1>1, <3>1, <3>2, <3>3
    <2>4. last.to <= items[n + 1].from => InTurn(items, n + 1)
      BY <1>1, <2>3 DEF InTurn
    <2> QED
      BY <1>5, <2>2, <2>4
  <1> QED
    BY <1>3, <1>4, <1>5

LEMMA LastTimedStep ==
  ASSUME NEW items, NEW n \in Nat, NEW last, LastTimed(items, n, last)
  PROVE  LastTimed(items, n + 1, IF Drafts!Timed(items[n + 1]) THEN items[n + 1] ELSE last)
  <1>1. 1 .. n + 1 = (1 .. n) \cup {n + 1} /\ n + 1 \in 1 .. n + 1
    OBVIOUS
  <1>2. CASE Drafts!Timed(items[n + 1])
    <2>1. \A m \in n + 1 + 1 .. n + 1 : FALSE
      OBVIOUS
    <2> QED
      BY <1>1, <1>2, <2>1 DEF LastTimed
  <1>3. CASE ~Drafts!Timed(items[n + 1])
    <2>1. CASE last = Null /\ \A m \in 1 .. n : ~Drafts!Timed(items[m])
      BY <1>1, <1>3, <2>1 DEF LastTimed
    <2>2. ASSUME NEW p \in 1 .. n, Drafts!Timed(items[p]), last = items[p],
                 \A m \in p + 1 .. n : ~Drafts!Timed(items[m])
          PROVE  LastTimed(items, n + 1, last)
      <3>1. \A m \in p + 1 .. n + 1 : m \in p + 1 .. n \/ m = n + 1
        OBVIOUS
      <3>2. \A m \in p + 1 .. n + 1 : ~Drafts!Timed(items[m])
        BY <1>3, <2>2, <3>1
      <3>3. p \in 1 .. n + 1
        OBVIOUS
      <3> QED
        BY <2>2, <3>2, <3>3 DEF LastTimed
    <2> QED
      BY <1>3, <2>1, <2>2 DEF LastTimed
  <1> QED
    BY <1>2, <1>3
\* What the check of the items of a day leaves.
LEMMA ItemsAre ==
  ASSUME NEW b, BriefOk(b), NEW s \in Scans, s.last = Null, NEW items \in Seq(Drafts!Items),
         NEW t, t = Drafts!CheckItems(b, s, items), NEW N, N = Len(items)
  PROVE  /\ t \in Scans
         /\ t.ids = s.ids \cup ItemIds(items, N) /\ t.dates = s.dates
         /\ SeenPlaces(t) = SeenPlaces(s) \cup TakenPlaces(items, N)
         /\ (\A m \in 1 .. N : CostFits(items[m])) => t.total = s.total + Drafts!DaySpent(b, items)
         /\ t.unpriced <=> s.unpriced \/ \E m \in 1 .. N : Untold(items[m])
         /\ s.issues \subseteq t.issues
         /\ \A m \in 1 .. N : TellsOf(b, items[m], t.issues)
         /\ Clear(t.issues) <=> Clear(s.issues) /\ ItemsFit(b, items, N, s.ids, SeenPlaces(s))
  <1>1. N \in Nat /\ \A n \in 1 .. N : items[n] \in Drafts!Items
    OBVIOUS
  <1>2. PICK after \in [0 .. N -> Scans] :
           /\ after[0] = s /\ after[N] = t
           /\ \A n \in 1 .. N : after[n] = Drafts!CheckItem(b, after[n - 1], items[n])
    <2>1. \E after \in [0 .. Len(items) -> Scans] :
             /\ after[0] = s /\ after[Len(items)] = Drafts!CheckItems(b, s, items)
             /\ \A n \in 1 .. Len(items) :
                   after[n] = Drafts!CheckItem(b, after[n - 1], items[n])
      BY ONLY BriefOk(b), s \in Scans, items \in Seq(Drafts!Items), ItemsScan
    <2> QED
      BY ONLY <2>1, t = Drafts!CheckItems(b, s, items), N = Len(items)
  <1>3. PICK sum \in [0 .. N -> Int] :
           /\ sum[0] = 0 /\ sum[N] = Drafts!DaySpent(b, items)
           /\ \A n \in 1 .. N : sum[n] = sum[n - 1] + Drafts!Price(b, items[n])
    BY DaySpentScan
  <1> DEFINE Sets(n) == /\ after[n].ids = s.ids \cup ItemIds(items, n) /\ after[n].dates = s.dates
                        /\ SeenPlaces(after[n]) = SeenPlaces(s) \cup TakenPlaces(items, n)
                        /\ LastTimed(items, n, after[n].last)
             Costs(n) == /\ (\A m \in 1 .. n : CostFits(items[m]))
                              => after[n].total = s.total + sum[n]
                         /\ after[n].unpriced <=> s.unpriced \/ \E m \in 1 .. n : Untold(items[m])
             Tells(n) == /\ s.issues \subseteq after[n].issues
                         /\ \A m \in 1 .. n : TellsOf(b, items[m], after[n].issues)
             Fits(n) == Clear(after[n].issues) <=>
                          Clear(s.issues) /\ ItemsFit(b, items, n, s.ids, SeenPlaces(s))
             S == {n \in 0 .. N : Sets(n) /\ Costs(n) /\ Tells(n) /\ Fits(n)}
  <1>4. 0 \in S
    <2>1. 1 .. 0 = {}
      OBVIOUS
    <2>2. Sets(0)
      BY <1>2, <2>1, PrefixIs DEF LastTimed
    <2>3. Costs(0)
      <3>1. s.total \in Int
        BY DEF Scans
      <3> QED
        BY <1>2, <1>3, <2>1, <3>1
    <2>4. Tells(0) /\ Fits(0)
      BY <1>2, <2>1 DEF ItemsFit
    <2> QED
      BY <1>1, <2>2, <2>3, <2>4
  <1>5. ASSUME NEW n \in 0 .. N, n < N, n \in S PROVE n + 1 \in S
    <2>1. PICK k : k = n + 1
      OBVIOUS
    <2>2. /\ n \in Nat /\ k \in 1 .. N /\ k \in 0 .. N /\ k - 1 = n /\ k \in Nat
          /\ 1 .. k = (1 .. n) \cup {k} /\ n \in 0 .. N - 1
      BY <1>1, <1>5, <2>1
    <2>3. Sets(n) /\ Costs(n) /\ Tells(n) /\ Fits(n)
      BY <1>5
    <2>4. after[n] \in Scans /\ after[k] \in Scans /\ items[k] \in Drafts!Items
      BY <1>1, <1>2, <2>2
    <2>5. after[k] = Drafts!CheckItem(b, after[n], items[k])
      BY <1>2, <2>2
    <2> DEFINE x == after[n]
               y == after[k]
               i == items[k]
    <2>6. /\ y.ids = x.ids \cup {i.id} /\ y.dates = x.dates
          /\ SeenPlaces(y) = SeenPlaces(x) \cup Taken(i)
          /\ y.last = IF Drafts!Timed(i) THEN i ELSE x.last
          /\ y.total = x.total + Charge(b, i)
          /\ y.unpriced <=> x.unpriced \/ Untold(i)
          /\ x.issues \subseteq y.issues
          /\ TellsOf(b, i, y.issues)
          /\ Clear(y.issues) <=>
              /\ Clear(x.issues) /\ FitsAfter(b, i, x.ids, SeenPlaces(x))
              /\ Drafts!Timed(i) /\ x.last # Null => x.last.to <= i.from
      <3>1. x \in Scans /\ y = Drafts!CheckItem(b, x, i) /\ i \in Drafts!Items
        BY <2>4, <2>5
      <3> HIDE DEF x, y, i
      <3> QED
        BY ONLY <3>1, BriefOk(b), CheckItemIs
    <2>7. /\ ItemIds(items, k) = ItemIds(items, n) \cup {i.id}
          /\ TakenPlaces(items, k) = TakenPlaces(items, n) \cup Taken(i)
      BY <2>1, <2>2, PrefixIs
    <2>8. LastTimed(items, k, y.last)
      BY <2>1, <2>2, <2>3, <2>6, LastTimedStep
    <2>9. Sets(k)
      BY <2>3, <2>6, <2>7, <2>8
    <2>10. Costs(k)
      <3>1. y.unpriced <=> s.unpriced \/ \E m \in 1 .. k : Untold(items[m])
        BY <2>2, <2>3, <2>6
      <3>2. ASSUME \A m \in 1 .. k : CostFits(items[m])
            PROVE  y.total = s.total + sum[k]
        <4>1. x.total = s.total + sum[n] /\ CostFits(i)
          BY <2>2, <2>3, <3>2
        <4>2. Charge(b, i) = Drafts!Price(b, i) /\ Drafts!Price(b, i) \in Int
          BY <2>4, <4>1, ChargeIs
        <4>3. sum[k] = sum[n] + Drafts!Price(b, i) /\ sum[n] \in Int
          BY <1>3, <2>2
        <4>4. s.total \in Int
          BY DEF Scans
        <4> QED
          BY <2>6, <4>1, <4>2, <4>3, <4>4
      <3> QED
        BY <3>1, <3>2
    <2>11. Tells(k)
      <3>1. ASSUME NEW m \in 1 .. k PROVE TellsOf(b, items[m], y.issues)
        <4>1. CASE m \in 1 .. n
          BY <2>3, <2>6, <4>1 DEF TellsOf
        <4>2. CASE m = k
          BY <2>6, <4>2
        <4> QED
          BY <2>2, <4>1, <4>2
      <3> QED
        BY <2>3, <2>6, <3>1
    <2>12. Fits(k)
      <3> DEFINE turn == Drafts!Timed(i) /\ x.last # Null => x.last.to <= i.from
      <3>1. ItemsFit(b, items, n, s.ids, SeenPlaces(s)) => (InTurn(items, k) <=> turn)
        <4>1. ASSUME ItemsFit(b, items, n, s.ids, SeenPlaces(s))
              PROVE  \A m \in 1 .. n : TimesFit(items[m]) /\ InTurn(items, m)
          BY <4>1 DEF ItemsFit, FitsAfter, ItemFits
        <4>2. LastTimed(items, n, x.last)
          BY <2>3
        <4> HIDE DEF x
        <4> QED
          BY <2>1, <2>2, <4>1, <4>2, LastEndsLast
      <3>2. ItemsFit(b, items, k, s.ids, SeenPlaces(s)) <=>
              /\ ItemsFit(b, items, n, s.ids, SeenPlaces(s))
              /\ FitsAfter(b, i, s.ids \cup ItemIds(items, n),
                 SeenPlaces(s) \cup TakenPlaces(items, n))
              /\ InTurn(items, k)
        BY <2>2 DEF ItemsFit
      <3>3. /\ x.ids = s.ids \cup ItemIds(items, n)
            /\ SeenPlaces(x) = SeenPlaces(s) \cup TakenPlaces(items, n)
        BY <2>3
      <3> HIDE DEF turn
      <3>4. Clear(y.issues) <=> Clear(x.issues) /\ FitsAfter(b, i, x.ids, SeenPlaces(x)) /\ turn
        BY <2>6 DEF turn
      <3>5. Clear(x.issues) <=> Clear(s.issues) /\ ItemsFit(b, items, n, s.ids, SeenPlaces(s))
        BY <2>3
      <3> HIDE DEF x, y, i
      <3>6. Clear(y.issues) <=> Clear(s.issues) /\ ItemsFit(b, items, k, s.ids, SeenPlaces(s))
        BY ONLY <3>1, <3>2, <3>3, <3>4, <3>5
      <3> QED
        BY <3>6 DEF y
    <2> HIDE DEF Sets, Costs, Tells, Fits
    <2> QED
      BY <2>1, <2>2, <2>9, <2>10, <2>11, <2>12
  <1>6. 0 .. N \subseteq S
    <2>1. \A n \in 0 .. N : n < N /\ n \in S => n + 1 \in S
      BY <1>5
    <2> HIDE DEF S
    <2> QED
      BY ONLY <1>1, <1>4, <2>1, BoundedInduction
  <1>7. N \in 0 .. N
    BY <1>1
  <1>8. Sets(N) /\ Costs(N) /\ Tells(N) /\ Fits(N)
    BY <1>6, <1>7
  <1>9. t \in Scans
    BY <1>2, <1>7
  <1> QED
    BY <1>2, <1>3, <1>8, <1>9
\* A day fits with what was met before it.
DayIds(d) == {d.id} \cup ItemIds(d.items, Len(d.items))
DayPlaces(d) == TakenPlaces(d.items, Len(d.items))
DayFits(b, d, ids, dates, places) ==
  /\ d.id \notin ids /\ d.date \notin dates
  /\ d.date \in b.from .. b.to /\ d.zone /\ Cardinality(Drafts!Rides(d)) <= b.transfers
  /\ ItemsFit(b, d.items, Len(d.items), ids \cup {d.id}, places)

Day(d) == 1 .. Len(d.items)

LEMMA DraftsCardinality ==
  ASSUME NEW S
  PROVE  Drafts!Cardinality(S) = Cardinality(S)
  BY DEF Drafts!Cardinality, Cardinality

LEMMA CheckDayIs ==
  ASSUME NEW b, BriefOk(b), NEW s \in Scans, NEW d \in Drafts!Days,
         NEW t, t = Drafts!CheckDay(b, s, d)
  PROVE  /\ t \in Scans
         /\ t.ids = s.ids \cup DayIds(d) /\ t.dates = s.dates \cup {d.date}
         /\ SeenPlaces(t) = SeenPlaces(s) \cup DayPlaces(d)
         /\ (\A m \in Day(d) : CostFits(d.items[m])) =>
              t.total = s.total + Drafts!DaySpent(b, d.items)
         /\ t.unpriced <=> s.unpriced \/ \E m \in Day(d) : Untold(d.items[m])
         /\ s.issues \subseteq t.issues
         /\ \A m \in Day(d) : TellsOf(b, d.items[m], t.issues)
         /\ Clear(t.issues) <=> Clear(s.issues) /\ DayFits(b, d, s.ids, s.dates, SeenPlaces(s))
  <1> DEFINE rides == Drafts!Rides(d)
             names == {d.items[n].id : n \in rides}
             c1 == d.id \in s.ids
             c2 == d.date \in s.dates
             c3 == d.date \notin b.from .. b.to
             c4 == ~d.zone
             c5 == Drafts!Cardinality(rides) > b.transfers
             W1 == Drafts!When(c1, "duplicate_candidate_id", {d.id})
             W2 == Drafts!When(c2, "duplicate_day", {d.id})
             W3 == Drafts!When(c3, "outside_date_window", {d.id})
             W4 == Drafts!When(c4, "invalid_timezone", {d.id})
             W5 == Drafts!When(c5, "excessive_transfer", names)
             begun == [s EXCEPT !.ids = @ \union {d.id}, !.dates = @ \union {d.date}, !.last = Null,
                                !.issues = @ \union (UNION {W1, W2, W3, W4, W5})]
  <1>1. t = Drafts!CheckItems(b, begun, d.items)
    BY DEF Drafts!CheckDay
  <1>2. /\ d.id \in STRING /\ d.date \in Nat /\ d.zone \in BOOLEAN /\ d.items \in Seq(Drafts!Items)
    BY DEF Drafts!Days
  <1>3. rides \subseteq 1 .. Len(d.items) /\ names \subseteq STRING /\ Cardinality(rides) \in Nat
    <2>1. rides \subseteq 1 .. Len(d.items)
      BY <1>2 DEF Drafts!Rides
    <2>2. \A n \in 1 .. Len(d.items) : d.items[n].id \in STRING
      <3>1. \A n \in 1 .. Len(d.items) : d.items[n] \in Drafts!Items
        BY <1>2
      <3> QED
        BY <3>1 DEF Drafts!Items
    <2>3. IsFiniteSet(1 .. Len(d.items))
      BY <1>2, FS_Interval
    <2>4. IsFiniteSet(rides)
      BY <2>1, <2>3, FS_Subset
    <2> QED
      BY <2>1, <2>2, <2>4, FS_CardinalityType
  <1>4. {d.id} \in SUBSET STRING /\ names \in SUBSET STRING
    BY <1>2, <1>3
  <1>5. W1 \subseteq IssuesFound /\ (Clear(W1) <=> d.id \notin s.ids)
    <2>1. c1 \in BOOLEAN /\ (c1 <=> d.id \in s.ids)
      OBVIOUS
    <2> HIDE DEF c1
    <2> QED
      BY <1>4, <2>1, WhenIs DEF Codes, Drafts!Warnings
  <1>6. W2 \subseteq IssuesFound /\ (Clear(W2) <=> d.date \notin s.dates)
    <2>1. c2 \in BOOLEAN /\ (c2 <=> d.date \in s.dates)
      OBVIOUS
    <2> HIDE DEF c2
    <2> QED
      BY <1>4, <2>1, WhenIs DEF Codes, Drafts!Warnings
  <1>7. W3 \subseteq IssuesFound /\ (Clear(W3) <=> d.date \in b.from .. b.to)
    <2>1. c3 \in BOOLEAN /\ (c3 <=> d.date \notin b.from .. b.to)
      OBVIOUS
    <2> HIDE DEF c3
    <2> QED
      BY <1>4, <2>1, WhenIs DEF Codes, Drafts!Warnings
  <1>8. W4 \subseteq IssuesFound /\ (Clear(W4) <=> d.zone)
    <2>1. c4 \in BOOLEAN /\ (c4 <=> ~d.zone)
      BY <1>2
    <2> HIDE DEF c4
    <2> QED
      BY <1>2, <1>4, <2>1, WhenIs DEF Codes, Drafts!Warnings
  <1>9. W5 \subseteq IssuesFound /\ (Clear(W5) <=> Cardinality(rides) <= b.transfers)
    <2>1. c5 \in BOOLEAN /\ (c5 <=> ~(Cardinality(rides) <= b.transfers))
      BY <1>3, DraftsCardinality DEF BriefOk
    <2> HIDE DEF c5, names
    <2> QED
      BY <1>4, <2>1, WhenIs DEF Codes, Drafts!Warnings
  <1> HIDE DEF W1, W2, W3, W4, W5
  <1>10. /\ begun \in Scans /\ begun.last = Null
         /\ begun.ids = s.ids \cup {d.id} /\ begun.dates = s.dates \cup {d.date}
         /\ begun.seen = s.seen /\ begun.total = s.total /\ begun.unpriced = s.unpriced
         /\ begun.issues = s.issues \cup W1 \cup W2 \cup W3 \cup W4 \cup W5
    <2>1. PICK r1, r2, r3, r4, r5, r6, r7 :
            s = [ids |-> r1, dates |-> r2, seen |-> r3, last |-> r4,
                 total |-> r5, unpriced |-> r6, issues |-> r7]
      BY DEF Scans
    <2>2. /\ s.ids = r1 /\ s.dates = r2 /\ s.seen = r3 /\ s.total = r5 /\ s.issues = r7
          /\ s.unpriced = r6
      BY ONLY <2>1
    <2>3. PICK u : u = UNION {W1, W2, W3, W4, W5}
      OBVIOUS
    <2>4. PICK v, w : v = {d.id} /\ w = {d.date}
      OBVIOUS
    <2>5. begun = [s EXCEPT !.ids = @ \union v, !.dates = @ \union w, !.last = Null,
                            !.issues = @ \union u]
      BY <2>3, <2>4
    <2>6. begun = [ids |-> r1 \cup {d.id}, dates |-> r2 \cup {d.date}, seen |-> r3,
                   last |-> Null, total |-> r5, unpriced |-> r6,
                   issues |-> r7 \cup UNION {W1, W2, W3, W4, W5}]
      <3> HIDE DEF begun
      <3>1. begun = [ids |-> r1 \cup v, dates |-> r2 \cup w, seen |-> r3,
                     last |-> Null, total |-> r5, unpriced |-> r6, issues |-> r7 \cup u]
        BY ONLY <2>1, <2>5
      <3> QED
        BY <2>3, <2>4, <3>1
    <2>7. begun = [ids |-> s.ids \cup {d.id}, dates |-> s.dates \cup {d.date}, seen |-> s.seen,
                   last |-> Null, total |-> s.total, unpriced |-> s.unpriced,
                   issues |-> s.issues \cup UNION {W1, W2, W3, W4, W5}]
      BY <2>2, <2>6
    <2>8. UNION {W1, W2, W3, W4, W5} = W1 \cup W2 \cup W3 \cup W4 \cup W5
      OBVIOUS
    <2>9. /\ s.ids \subseteq STRING /\ s.dates \subseteq Nat
          /\ s.seen \subseteq [place : STRING, id : STRING]
          /\ s.total \in Int /\ s.unpriced \in BOOLEAN /\ s.issues \subseteq IssuesFound
      BY DEF Scans
    <2> HIDE DEF begun
    <2>10. begun \in Scans
      BY <1>2, <1>5, <1>6, <1>7, <1>8, <1>9, <2>7, <2>8, <2>9 DEF Scans
    <2> QED
      BY <2>7, <2>8, <2>10
  <1>11. SeenPlaces(begun) = SeenPlaces(s)
    BY <1>10 DEF SeenPlaces
  <1>12. Clear(begun.issues) <=>
           /\ Clear(s.issues) /\ d.id \notin s.ids /\ d.date \notin s.dates
           /\ d.date \in b.from .. b.to /\ d.zone /\ Cardinality(rides) <= b.transfers
    <2>1. Clear(begun.issues) <=> Clear(s.issues) /\ Clear(W1) /\ Clear(W2) /\ Clear(W3)
                                  /\ Clear(W4) /\ Clear(W5)
      BY <1>10 DEF Clear, Drafts!Blocking
    <2> QED
      BY <1>5, <1>6, <1>7, <1>8, <1>9, <2>1
  <1> HIDE DEF begun, rides
  <1> DEFINE N == Len(d.items)
             seen == SeenPlaces(begun)
  <1>13. /\ t \in Scans
         /\ t.ids = begun.ids \cup ItemIds(d.items, N) /\ t.dates = begun.dates
         /\ SeenPlaces(t) = seen \cup TakenPlaces(d.items, N)
         /\ (\A m \in 1 .. N : CostFits(d.items[m])) =>
              t.total = begun.total + Drafts!DaySpent(b, d.items)
         /\ t.unpriced <=> begun.unpriced \/ \E m \in 1 .. N : Untold(d.items[m])
         /\ begun.issues \subseteq t.issues
         /\ \A m \in 1 .. N : TellsOf(b, d.items[m], t.issues)
         /\ Clear(t.issues) <=> Clear(begun.issues) /\ ItemsFit(b, d.items, N, begun.ids, seen)
    <2>1. PICK items : items = d.items
      OBVIOUS
    <2>2. /\ begun \in Scans /\ begun.last = Null /\ items \in Seq(Drafts!Items)
          /\ t = Drafts!CheckItems(b, begun, items) /\ N = Len(items)
      BY <1>1, <1>2, <1>10, <2>1
    <2> HIDE DEF N
    <2>3. /\ t \in Scans
          /\ t.ids = begun.ids \cup ItemIds(items, N) /\ t.dates = begun.dates
          /\ SeenPlaces(t) = SeenPlaces(begun) \cup TakenPlaces(items, N)
          /\ (\A m \in 1 .. N : CostFits(items[m]))
             => t.total = begun.total + Drafts!DaySpent(b, items)
          /\ t.unpriced <=> begun.unpriced \/ \E m \in 1 .. N : Untold(items[m])
          /\ begun.issues \subseteq t.issues
          /\ \A m \in 1 .. N : TellsOf(b, items[m], t.issues)
          /\ Clear(t.issues) <=> Clear(begun.issues)
             /\ ItemsFit(b, items, N, begun.ids, SeenPlaces(begun))
      BY ONLY <2>2, BriefOk(b), ItemsAre
    <2> QED
      BY <2>1, <2>3
  <1>14. /\ t.ids = s.ids \cup DayIds(d) /\ t.dates = s.dates \cup {d.date}
         /\ SeenPlaces(t) = SeenPlaces(s) \cup DayPlaces(d)
         /\ s.issues \subseteq t.issues
    BY <1>10, <1>11, <1>13 DEF DayIds, DayPlaces
  <1>15. Clear(t.issues) <=> Clear(s.issues) /\ DayFits(b, d, s.ids, s.dates, SeenPlaces(s))
    BY ONLY <1>10, <1>11, <1>12, <1>13 DEF DayFits, rides
  <1> QED
    BY <1>10, <1>13, <1>14, <1>15 DEF Day
-----------------------------------------------------------------------------
(* The days of a draft.                                                    *)

LEMMA DaySpentIs ==
  ASSUME NEW b, BriefOk(b), NEW d \in Drafts!Days
  PROVE  Drafts!DaySpent(b, d.items) \in Int
  <1>1. d.items \in Seq(Drafts!Items) /\ Len(d.items) \in 0 .. Len(d.items)
    BY DEF Drafts!Days
  <1> QED
    BY <1>1, DaySpentScan

\* The check of a draft takes its days one after another,
LEMMA DaysScan ==
  ASSUME NEW b, BriefOk(b), NEW s \in Scans, NEW days \in Seq(Drafts!Days)
  PROVE  \E after \in [0 .. Len(days) -> Scans] :
           /\ after[0] = s /\ after[Len(days)] = Drafts!CheckDays(b, s, days)
           /\ \A n \in 1 .. Len(days) : after[n] = Drafts!CheckDay(b, after[n - 1], days[n])
  <1> DEFINE N == Len(days)
             F == [n \in Nat |-> [x \in Scans |->
                     IF n \in 1 .. N THEN Drafts!CheckDay(b, x, days[n]) ELSE x]]
             after == CHOOSE f : f = [n \in 0 .. N |->
                        IF n = 0 THEN s ELSE Drafts!CheckDay(b, f[n - 1], days[n])]
  <1>1. N \in Nat /\ \A n \in 1 .. N : days[n] \in Drafts!Days
    OBVIOUS
  <1>2. F \in [Nat -> [Scans -> Scans]]
    <2> SUFFICES ASSUME NEW n \in Nat, NEW x \in Scans
                 PROVE  (IF n \in 1 .. N THEN Drafts!CheckDay(b, x, days[n]) ELSE x) \in Scans
      OBVIOUS
    <2>1. n \in 1 .. N => Drafts!CheckDay(b, x, days[n]) \in Scans
      BY <1>1, CheckDayIs
    <2> QED
      BY <2>1
  <1>3. \A n \in 1 .. N, x \in Scans : F[n][x] = Drafts!CheckDay(b, x, days[n])
    BY <1>1
  <1> HIDE DEF F
  <1>4. PICK f : Iterates(f, s, F, N)
    BY <1>1, <1>2, IteratesExist
  <1>5. f \in [0 .. N -> Scans] /\ f[0] = s /\ \A n \in 1 .. N : f[n] = F[n][f[n - 1]]
    BY <1>1, <1>2, <1>4, IteratesTyped
  <1>6. \A n \in 1 .. N : f[n - 1] \in Scans
    <2> SUFFICES ASSUME NEW n \in 1 .. N PROVE f[n - 1] \in Scans
      OBVIOUS
    <2>1. n - 1 \in 0 .. N
      BY <1>1
    <2> QED
      BY <1>5, <2>1
  <1>7. \A n \in 1 .. N : f[n] = Drafts!CheckDay(b, f[n - 1], days[n])
    BY <1>3, <1>5, <1>6
  <1>8. f = [n \in 0 .. N |-> IF n = 0 THEN s ELSE Drafts!CheckDay(b, f[n - 1], days[n])]
    <2>1. \A n \in 0 .. N : f[n] = IF n = 0 THEN s ELSE Drafts!CheckDay(b, f[n - 1], days[n])
      BY <1>1, <1>5, <1>7
    <2> QED
      BY <1>5, <2>1
  <1>9. after = [n \in 0 .. N |-> IF n = 0 THEN s ELSE Drafts!CheckDay(b, after[n - 1], days[n])]
    BY <1>8
  <1>10. Drafts!CheckDays(b, s, days) = after[N]
    BY DEF Drafts!CheckDays
  <1> HIDE DEF after
  <1>11. after = f
    <2> DEFINE S == {n \in 0 .. N : after[n] = f[n]}
    <2>1. 0 \in S
      BY <1>1, <1>5, <1>9
    <2>2. ASSUME NEW n \in 0 .. N, n < N, n \in S PROVE n + 1 \in S
      <3>1. PICK m : m = n + 1
        OBVIOUS
      <3>2. m \in 1 .. N /\ m \in 0 .. N /\ m # 0 /\ m - 1 = n
        BY <1>1, <2>2, <3>1
      <3>3. after[m] = Drafts!CheckDay(b, after[m - 1], days[m])
        BY <1>9, <3>2
      <3>4. f[m] = Drafts!CheckDay(b, f[m - 1], days[m])
        BY <1>7, <3>2
      <3> QED
        BY <2>2, <3>1, <3>2, <3>3, <3>4
    <2>3. 0 .. N \subseteq S
      <3>1. \A n \in 0 .. N : n < N /\ n \in S => n + 1 \in S
        BY <2>2
      <3> HIDE DEF S
      <3> QED
        BY ONLY <2>1, <3>1, <1>1, BoundedInduction
    <2>4. after = [n \in 0 .. N |-> after[n]] /\ f = [n \in 0 .. N |-> f[n]]
      BY <1>5, <1>9
    <2> QED
      BY <2>3, <2>4
  <1>12. N \in 0 .. N
    BY <1>1
  <1> QED
    BY <1>5, <1>7, <1>10, <1>11

\* and so does the sum of what they cost.
LEMMA SpentScan ==
  ASSUME NEW b, BriefOk(b), NEW days \in Seq(Drafts!Days)
  PROVE  \E sum \in [0 .. Len(days) -> Int] :
           /\ sum[0] = 0 /\ sum[Len(days)] = Drafts!Spent(b, days)
           /\ \A n \in 1 .. Len(days) : sum[n] = sum[n - 1] + Drafts!DaySpent(b, days[n].items)
  <1> DEFINE N == Len(days)
             F == [n \in Nat |-> [x \in Sums |->
                     IF n \in 1 .. N THEN x + Drafts!DaySpent(b, days[n].items) ELSE x]]
             sum == CHOOSE f : f = [n \in 0 .. N |->
                        IF n = 0 THEN 0 ELSE f[n - 1] + Drafts!DaySpent(b, days[n].items)]
  <1>1. N \in Nat /\ \A n \in 1 .. N : days[n] \in Drafts!Days
    OBVIOUS
  <1>2. F \in [Nat -> [Sums -> Sums]]
    <2> SUFFICES ASSUME NEW n \in Nat, NEW x \in Sums
                 PROVE  (IF n \in 1 .. N THEN x + Drafts!DaySpent(b, days[n].items) ELSE x) \in Sums
      OBVIOUS
    <2>1. n \in 1 .. N => Drafts!DaySpent(b, days[n].items) \in Int
      BY <1>1, DaySpentIs
    <2> QED
      BY <2>1 DEF Sums
  <1>3. \A n \in 1 .. N, x \in Int : F[n][x] = x + Drafts!DaySpent(b, days[n].items)
    BY <1>1 DEF Sums
  <1> HIDE DEF F
  <1>4. 0 \in Sums
    BY DEF Sums
  <1>5. PICK f : Iterates(f, 0, F, N)
    BY <1>1, <1>2, <1>4, IteratesExist
  <1>6. f \in [0 .. N -> Sums] /\ f[0] = 0 /\ \A n \in 1 .. N : f[n] = F[n][f[n - 1]]
    <2>1. PICK S, M, G, x : S = Sums /\ M = N /\ G = F /\ x = 0
      OBVIOUS
    <2>2. M \in Nat /\ G \in [Nat -> [S -> S]] /\ x \in S /\ Iterates(f, x, G, M)
      BY ONLY <1>1, <1>2, <1>4, <1>5, <2>1
    <2>3. f \in [0 .. M -> S]
      BY ONLY <2>2, IteratesTyped
    <2>4. f[0] = x
      BY ONLY <2>2, IteratesTyped
    <2>5. \A n \in 1 .. M : f[n] = G[n][f[n - 1]]
      BY ONLY <2>2, IteratesTyped
    <2>6. f \in [0 .. N -> Sums]
      BY ONLY <2>1, <2>3
    <2>7. f[0] = 0
      BY ONLY <2>1, <2>4
    <2>8. \A n \in 1 .. N : f[n] = F[n][f[n - 1]]
      BY ONLY <2>1, <2>5, Zenon
    <2> QED
      BY ONLY <2>6, <2>7, <2>8
  <1>7. f \in [0 .. N -> Int] /\ f[0] = 0 /\ \A n \in 1 .. N : f[n] = F[n][f[n - 1]]
    BY <1>6 DEF Sums
  <1>8. \A n \in 1 .. N : f[n - 1] \in Int
    <2> SUFFICES ASSUME NEW n \in 1 .. N PROVE f[n - 1] \in Int
      OBVIOUS
    <2>1. n - 1 \in 0 .. N
      BY <1>1
    <2> QED
      BY <1>7, <2>1
  <1>9. \A n \in 1 .. N : f[n] = f[n - 1] + Drafts!DaySpent(b, days[n].items)
    BY <1>3, <1>7, <1>8
  <1>10. f = [n \in 0 .. N |-> IF n = 0 THEN 0 ELSE f[n - 1] + Drafts!DaySpent(b, days[n].items)]
    <2>1. \A n \in 0 .. N : f[n] = IF n = 0 THEN 0 ELSE f[n - 1] + Drafts!DaySpent(b, days[n].items)
      BY <1>1, <1>7, <1>9
    <2> QED
      BY <1>7, <2>1
  <1>11. sum = [n \in 0 .. N |-> IF n = 0 THEN 0
                                 ELSE sum[n - 1] + Drafts!DaySpent(b, days[n].items)]
    BY <1>10
  <1>12. Drafts!Spent(b, days) = sum[N]
    BY DEF Drafts!Spent
  <1> HIDE DEF sum
  <1>13. sum = f
    <2> DEFINE S == {n \in 0 .. N : sum[n] = f[n]}
    <2>1. 0 \in S
      BY <1>1, <1>7, <1>11
    <2>2. ASSUME NEW n \in 0 .. N, n < N, n \in S PROVE n + 1 \in S
      <3>1. PICK m : m = n + 1
        OBVIOUS
      <3>2. m \in 1 .. N /\ m \in 0 .. N /\ m # 0 /\ m - 1 = n
        BY <1>1, <2>2, <3>1
      <3>3. sum[m] = sum[m - 1] + Drafts!DaySpent(b, days[m].items)
        BY <1>11, <3>2
      <3>4. f[m] = f[m - 1] + Drafts!DaySpent(b, days[m].items)
        BY <1>9, <3>2
      <3> QED
        BY <2>2, <3>1, <3>2, <3>3, <3>4
    <2>3. 0 .. N \subseteq S
      <3>1. \A n \in 0 .. N : n < N /\ n \in S => n + 1 \in S
        BY <2>2
      <3> HIDE DEF S
      <3> QED
        BY ONLY <2>1, <3>1, <1>1, BoundedInduction
    <2>4. sum = [n \in 0 .. N |-> sum[n]] /\ f = [n \in 0 .. N |-> f[n]]
      BY <1>7, <1>11
    <2> QED
      BY <2>3, <2>4
  <1> QED
    BY <1>7, <1>9, <1>12, <1>13

\* What the first n days leave to those behind them.
IdsOf(days, n) == UNION {DayIds(days[m]) : m \in 1 .. n}
DatesOf(days, n) == {days[m].date : m \in 1 .. n}
PlacesOf(days, n) == UNION {DayPlaces(days[m]) : m \in 1 .. n}

DaysFit(b, days, n) ==
  \A m \in 1 .. n :
    DayFits(b, days[m], IdsOf(days, m - 1), DatesOf(days, m - 1), PlacesOf(days, m - 1))

LEMMA PrefixOfDaysIs ==
  ASSUME NEW days, NEW n \in Nat
  PROVE  /\ IdsOf(days, 0) = {} /\ DatesOf(days, 0) = {} /\ PlacesOf(days, 0) = {}
         /\ IdsOf(days, n + 1) = IdsOf(days, n) \cup DayIds(days[n + 1])
         /\ DatesOf(days, n + 1) = DatesOf(days, n) \cup {days[n + 1].date}
         /\ PlacesOf(days, n + 1) = PlacesOf(days, n) \cup DayPlaces(days[n + 1])
  <1>1. 1 .. n + 1 = (1 .. n) \cup {n + 1} /\ 1 .. 0 = {}
    OBVIOUS
  <1>2. IdsOf(days, 0) = {} /\ DatesOf(days, 0) = {} /\ PlacesOf(days, 0) = {}
    BY <1>1 DEF IdsOf, DatesOf, PlacesOf
  <1>3. IdsOf(days, n + 1) = IdsOf(days, n) \cup DayIds(days[n + 1])
    BY ONLY <1>1 DEF IdsOf
  <1>4. DatesOf(days, n + 1) = DatesOf(days, n) \cup {days[n + 1].date}
    BY ONLY <1>1 DEF DatesOf
  <1>5. PlacesOf(days, n + 1) = PlacesOf(days, n) \cup DayPlaces(days[n + 1])
    BY ONLY <1>1 DEF PlacesOf
  <1> QED
    BY <1>2, <1>3, <1>4, <1>5

\* What the check of the days leaves.
LEMMA DaysAre ==
  ASSUME NEW b, BriefOk(b), NEW s \in Scans,
         s.ids = {}, s.dates = {}, s.seen = {}, s.total = 0, ~s.unpriced,
         NEW days \in Seq(Drafts!Days),
         NEW t, t = Drafts!CheckDays(b, s, days), NEW N, N = Len(days)
  PROVE  /\ t \in Scans
         /\ (\A m \in 1 .. N : \A n \in Day(days[m]) : CostFits(days[m].items[n]))
              => t.total = Drafts!Spent(b, days)
         /\ t.unpriced <=> \E m \in 1 .. N : \E n \in Day(days[m]) : Untold(days[m].items[n])
         /\ \A m \in 1 .. N : \A n \in Day(days[m]) : TellsOf(b, days[m].items[n], t.issues)
         /\ Clear(t.issues) <=> Clear(s.issues) /\ DaysFit(b, days, N)
  <1>1. N \in Nat /\ \A n \in 1 .. N : days[n] \in Drafts!Days
    OBVIOUS
  <1>2. PICK after \in [0 .. N -> Scans] :
           /\ after[0] = s /\ after[N] = t
           /\ \A n \in 1 .. N : after[n] = Drafts!CheckDay(b, after[n - 1], days[n])
    BY DaysScan
  <1>3. PICK sum \in [0 .. N -> Int] :
           /\ sum[0] = 0 /\ sum[N] = Drafts!Spent(b, days)
           /\ \A n \in 1 .. N : sum[n] = sum[n - 1] + Drafts!DaySpent(b, days[n].items)
    BY ONLY BriefOk(b), days \in Seq(Drafts!Days), N = Len(days), SpentScan
  <1> DEFINE Sets(n) == /\ after[n].ids = IdsOf(days, n) /\ after[n].dates = DatesOf(days, n)
                        /\ SeenPlaces(after[n]) = PlacesOf(days, n)
             Priced(n) == (\A m \in 1 .. n : \A l \in Day(days[m]) : CostFits(days[m].items[l]))
                            => after[n].total = sum[n]
             Unpriced(n) == after[n].unpriced <=>
                              \E m \in 1 .. n : \E l \in Day(days[m]) : Untold(days[m].items[l])
             Tells(n) == \A m \in 1 .. n : \A l \in Day(days[m]) :
                           TellsOf(b, days[m].items[l], after[n].issues)
             Fits(n) == Clear(after[n].issues) <=> Clear(s.issues) /\ DaysFit(b, days, n)
             S == {n \in 0 .. N : Sets(n) /\ Priced(n) /\ Unpriced(n) /\ Tells(n) /\ Fits(n)}
  <1>4. 0 \in S
    <2>1. 1 .. 0 = {} /\ 0 \in 0 .. N
      BY <1>1
    <2>2. Sets(0)
      BY <1>2, PrefixOfDaysIs DEF SeenPlaces
    <2>3. Priced(0) /\ Unpriced(0)
      BY <1>2, <1>3, <2>1
    <2>4. Tells(0) /\ Fits(0)
      BY <1>2, <2>1 DEF DaysFit
    <2> QED
      BY <2>1, <2>2, <2>3, <2>4
  <1>5. ASSUME NEW n \in 0 .. N, n < N, n \in S PROVE n + 1 \in S
    <2>1. PICK k : k = n + 1
      OBVIOUS
    <2>2. /\ n \in Nat /\ k \in 1 .. N /\ k \in 0 .. N /\ k - 1 = n /\ k \in Nat
          /\ 1 .. k = (1 .. n) \cup {k}
      BY <1>1, <1>5, <2>1
    <2>3. Sets(n) /\ Priced(n) /\ Unpriced(n) /\ Tells(n) /\ Fits(n)
      BY <1>5
    <2> DEFINE x == after[n]
               y == after[k]
               d == days[k]
    <2>4. x \in Scans /\ y \in Scans /\ d \in Drafts!Days /\ y = Drafts!CheckDay(b, x, d)
      BY <1>1, <1>2, <2>2
    <2>5. /\ y.ids = x.ids \cup DayIds(d) /\ y.dates = x.dates \cup {d.date}
          /\ SeenPlaces(y) = SeenPlaces(x) \cup DayPlaces(d)
          /\ (\A m \in Day(d) : CostFits(d.items[m]))
             => y.total = x.total + Drafts!DaySpent(b, d.items)
          /\ y.unpriced <=> x.unpriced \/ \E m \in Day(d) : Untold(d.items[m])
          /\ x.issues \subseteq y.issues
          /\ \A m \in Day(d) : TellsOf(b, d.items[m], y.issues)
          /\ Clear(y.issues) <=> Clear(x.issues) /\ DayFits(b, d, x.ids, x.dates, SeenPlaces(x))
      <3>1. PICK u, v, w : u = x /\ v = y /\ w = d
        OBVIOUS
      <3>2. u \in Scans /\ w \in Drafts!Days /\ v = Drafts!CheckDay(b, u, w)
        BY ONLY <2>4, <3>1
      <3>3. /\ v.ids = u.ids \cup DayIds(w) /\ v.dates = u.dates \cup {w.date}
            /\ SeenPlaces(v) = SeenPlaces(u) \cup DayPlaces(w)
            /\ (\A m \in Day(w) : CostFits(w.items[m])) =>
                 v.total = u.total + Drafts!DaySpent(b, w.items)
            /\ u.issues \subseteq v.issues
        BY ONLY <3>2, BriefOk(b), CheckDayIs
      <3>4. /\ v.unpriced <=> u.unpriced \/ \E m \in Day(w) : Untold(w.items[m])
            /\ \A m \in Day(w) : TellsOf(b, w.items[m], v.issues)
            /\ Clear(v.issues) <=> Clear(u.issues) /\ DayFits(b, w, u.ids, u.dates, SeenPlaces(u))
        BY ONLY <3>2, BriefOk(b), CheckDayIs
      <3> QED
        BY ONLY <3>1, <3>3, <3>4
    <2>6. /\ IdsOf(days, k) = IdsOf(days, n) \cup DayIds(d)
          /\ DatesOf(days, k) = DatesOf(days, n) \cup {d.date}
          /\ PlacesOf(days, k) = PlacesOf(days, n) \cup DayPlaces(d)
      <3>1. /\ IdsOf(days, n + 1) = IdsOf(days, n) \cup DayIds(days[n + 1])
            /\ DatesOf(days, n + 1) = DatesOf(days, n) \cup {days[n + 1].date}
            /\ PlacesOf(days, n + 1) = PlacesOf(days, n) \cup DayPlaces(days[n + 1])
        BY ONLY <2>2, PrefixOfDaysIs
      <3> QED
        BY ONLY <2>1, <3>1
    <2>7. Sets(k)
      BY <2>3, <2>5, <2>6
    <2>8. Priced(k)
      <3> SUFFICES ASSUME \A m \in 1 .. k : \A l \in Day(days[m]) : CostFits(days[m].items[l])
                   PROVE  y.total = sum[k]
        OBVIOUS
      <3>1. x.total = sum[n]
        BY <2>2, <2>3
      <3>2. y.total = x.total + Drafts!DaySpent(b, d.items)
        BY <2>2, <2>5
      <3>3. sum[k] = sum[n] + Drafts!DaySpent(b, d.items)
        BY <1>3, <2>2
      <3> QED
        BY <3>1, <3>2, <3>3
    <2>9. Unpriced(k)
      BY <2>2, <2>3, <2>5
    <2>10. Tells(k)
      <3> SUFFICES ASSUME NEW m \in 1 .. k, NEW l \in Day(days[m])
                   PROVE  TellsOf(b, days[m].items[l], y.issues)
        OBVIOUS
      <3>1. CASE m \in 1 .. n
        BY <2>3, <2>5, <3>1 DEF TellsOf
      <3>2. CASE m = k
        BY <2>5, <3>2
      <3> QED
        BY <2>2, <3>1, <3>2
    <2>11. Fits(k)
      <3>1. DaysFit(b, days, k) <=>
              /\ DaysFit(b, days, n)
              /\ DayFits(b, d, IdsOf(days, n), DatesOf(days, n), PlacesOf(days, n))
        BY <2>2 DEF DaysFit
      <3> QED
        BY <2>3, <2>5, <3>1
    <2> HIDE DEF Sets, Priced, Unpriced, Tells, Fits
    <2> QED
      BY <2>1, <2>2, <2>7, <2>8, <2>9, <2>10, <2>11
  <1>6. 0 .. N \subseteq S
    <2>1. \A n \in 0 .. N : n < N /\ n \in S => n + 1 \in S
      BY <1>5
    <2> HIDE DEF S
    <2> QED
      BY ONLY <1>1, <1>4, <2>1, BoundedInduction
  <1>7. N \in 0 .. N
    BY <1>1
  <1>8. Sets(N) /\ Priced(N) /\ Unpriced(N) /\ Tells(N) /\ Fits(N)
    BY <1>6, <1>7
  <1>9. t \in Scans
    BY <1>2, <1>7
  <1> QED
    BY <1>2, <1>3, <1>8, <1>9
-----------------------------------------------------------------------------
(* A draft passes the check exactly if it can be travelled.                *)

DraftOk(c) == c.blocked \in BOOLEAN /\ c.days \in Seq(Drafts!Days)

LEMMA ValidateIs ==
  ASSUME NEW b, BriefOk(b), NEW c, DraftOk(c), NEW v, v = Drafts!Validate(b, c)
  PROVE  /\ v \subseteq IssuesFound
         /\ Clear(v) <=>
              /\ c.sources \subseteq b.sources /\ ~c.blocked
              /\ DaysFit(b, c.days, Len(c.days))
              /\ b.budget # Null => Drafts!Spent(b, c.days) <= b.budget
         /\ \A m \in 1 .. Len(c.days) : \A n \in Day(c.days[m]) :
              TellsOf(b, c.days[m].items[n], v)
         /\ b.budget # Null /\ (\E m \in 1 .. Len(c.days) : \E n \in Day(c.days[m]) :
              Untold(c.days[m].items[n])) => Drafts!Of("budget_unknown", {}) \in v
  <1> DEFINE c1 == ~(c.sources \subseteq b.sources)
             c2 == c.blocked
             W1 == Drafts!When(c1, "unsupported_source", {})
             W2 == Drafts!When(c2, "model_blocking_warning", {})
             start == [ids |-> {}, dates |-> {}, seen |-> {}, last |-> Null, total |-> 0,
                       unpriced |-> FALSE, issues |-> UNION {W1, W2}]
             end == Drafts!CheckDays(b, start, c.days)
             c3 == b.budget # Null /\ end.total > b.budget
             c4 == b.budget # Null /\ end.unpriced
             W3 == Drafts!When(c3, "budget_conflict", {})
             W4 == Drafts!When(c4, "budget_unknown", {})
             N == Len(c.days)
  <1>1. v = end.issues \cup (UNION {W3, W4})
    BY DEF Drafts!Validate
  <1>2. W1 \subseteq IssuesFound /\ (Clear(W1) <=> c.sources \subseteq b.sources)
    <2>1. c1 \in BOOLEAN /\ (c1 <=> ~(c.sources \subseteq b.sources))
      OBVIOUS
    <2> HIDE DEF c1
    <2> QED
      BY <2>1, WhenIs DEF Codes, Drafts!Warnings
  <1>3. W2 \subseteq IssuesFound /\ (Clear(W2) <=> ~c.blocked)
    <2>1. c2 \in BOOLEAN /\ (c2 <=> c.blocked)
      BY DEF DraftOk
    <2> HIDE DEF c2
    <2> QED
      BY <2>1, WhenIs DEF Codes, Drafts!Warnings
  <1> HIDE DEF W1, W2
  <1>4. /\ start \in Scans /\ start.ids = {} /\ start.dates = {} /\ start.seen = {}
        /\ start.total = 0 /\ ~start.unpriced /\ start.issues = W1 \cup W2
    BY <1>2, <1>3 DEF Scans
  <1>5. Clear(start.issues) <=> c.sources \subseteq b.sources /\ ~c.blocked
    BY <1>2, <1>3, <1>4, ClearBoth
  <1> HIDE DEF start
  <1>6. /\ end \in Scans
        /\ (\A m \in 1 .. N : \A n \in Day(c.days[m]) : CostFits(c.days[m].items[n]))
             => end.total = Drafts!Spent(b, c.days)
        /\ end.unpriced <=> \E m \in 1 .. N : \E n \in Day(c.days[m]) : Untold(c.days[m].items[n])
        /\ \A m \in 1 .. N : \A n \in Day(c.days[m]) : TellsOf(b, c.days[m].items[n], end.issues)
        /\ Clear(end.issues) <=> Clear(start.issues) /\ DaysFit(b, c.days, N)
    <2>1. PICK days, e, M : days = c.days /\ e = end /\ M = N
      OBVIOUS
    <2>2. days \in Seq(Drafts!Days) /\ e = Drafts!CheckDays(b, start, days) /\ M = Len(days)
      BY <2>1 DEF DraftOk
    <2>3. PICK s : /\ s = start /\ s \in Scans /\ s.ids = {} /\ s.dates = {} /\ s.seen = {}
                   /\ s.total = 0 /\ ~s.unpriced /\ e = Drafts!CheckDays(b, s, days)
      BY <1>4, <2>2
    <2>4. /\ e \in Scans
          /\ (\A m \in 1 .. M : \A n \in Day(days[m]) : CostFits(days[m].items[n]))
               => e.total = Drafts!Spent(b, days)
      BY ONLY <2>2, <2>3, BriefOk(b), DaysAre
    <2>5. /\ e.unpriced <=> \E m \in 1 .. M : \E n \in Day(days[m]) : Untold(days[m].items[n])
          /\ \A m \in 1 .. M : \A n \in Day(days[m]) : TellsOf(b, days[m].items[n], e.issues)
          /\ Clear(e.issues) <=> Clear(s.issues) /\ DaysFit(b, days, M)
      BY ONLY <2>2, <2>3, BriefOk(b), DaysAre
    <2> QED
      BY <2>1, <2>3, <2>4, <2>5
  <1>7. end.total \in Int /\ end.unpriced \in BOOLEAN
    BY <1>6 DEF Scans
  <1> HIDE DEF end
  <1>8. W3 \subseteq IssuesFound /\ (Clear(W3) <=> (b.budget # Null => end.total <= b.budget))
    <2>1. c3 \in BOOLEAN /\ (c3 <=> ~(b.budget # Null => end.total <= b.budget))
      BY <1>7 DEF BriefOk
    <2> HIDE DEF c3
    <2> QED
      BY <2>1, WhenIs DEF Codes, Drafts!Warnings
  <1>9. /\ W4 \subseteq IssuesFound /\ Clear(W4)
        /\ b.budget # Null /\ end.unpriced => Drafts!Of("budget_unknown", {}) \in W4
    <2>1. c4 \in BOOLEAN /\ (c4 <=> b.budget # Null /\ end.unpriced)
      BY <1>7
    <2> HIDE DEF c4
    <2> QED
      BY <2>1, WhenIs DEF Codes, Drafts!Warnings
  <1> HIDE DEF W3, W4
  <1>10. v = end.issues \cup W3 \cup W4
    BY <1>1
  <1>11. DaysFit(b, c.days, N) =>
           \A m \in 1 .. N : \A n \in Day(c.days[m]) : CostFits(c.days[m].items[n])
    BY DEF DaysFit, DayFits, ItemsFit, FitsAfter, ItemFits, Day
  <1>12. Clear(v) <=>
           /\ c.sources \subseteq b.sources /\ ~c.blocked
           /\ DaysFit(b, c.days, N)
           /\ b.budget # Null => Drafts!Spent(b, c.days) <= b.budget
    <2>1. Clear(v) <=> Clear(end.issues) /\ Clear(W3) /\ Clear(W4)
      <3>1. PICK x, y : x = end.issues \cup W3 /\ y = end.issues
        OBVIOUS
      <3>2. Clear(x \cup W4) <=> Clear(x) /\ Clear(W4)
        BY ONLY ClearBoth
      <3>3. Clear(y \cup W3) <=> Clear(y) /\ Clear(W3)
        BY ONLY ClearBoth
      <3> QED
        BY <1>10, <3>1, <3>2, <3>3
    <2>2. DaysFit(b, c.days, N) => end.total = Drafts!Spent(b, c.days)
      BY <1>6, <1>11
    <2> QED
      BY <1>5, <1>6, <1>8, <1>9, <2>1, <2>2
  <1>13. \A m \in 1 .. N : \A n \in Day(c.days[m]) : TellsOf(b, c.days[m].items[n], v)
    BY <1>6, <1>10 DEF TellsOf
  <1>14. b.budget # Null /\ (\E m \in 1 .. N : \E n \in Day(c.days[m]) : Untold(c.days[m].items[n]))
           => Drafts!Of("budget_unknown", {}) \in v
    BY <1>6, <1>9, <1>10
  <1>15. v \subseteq IssuesFound
    BY <1>6, <1>8, <1>9, <1>10 DEF Scans
  <1> QED
    BY <1>12, <1>13, <1>14, <1>15
\* The places of a draft's items, in the order of the check.
Earlier(v, w) == v[1] < w[1] \/ (v[1] = w[1] /\ v[2] < w[2])
Spots(c) == {w \in (1 .. Len(c.days)) \X Nat : w[2] \in Day(c.days[w[1]])}

LEMMA SpotsAre ==
  ASSUME NEW c, DraftOk(c)
  PROVE  /\ Drafts!Where(c) = Spots(c)
         /\ \A w \in Spots(c) : /\ w[1] \in 1 .. Len(c.days) /\ w[2] \in Day(c.days[w[1]])
                                /\ w = <<w[1], w[2]>> /\ Drafts!At(c, w) \in Drafts!Items
                                /\ Drafts!At(c, w) = c.days[w[1]].items[w[2]]
         /\ Drafts!ItemsOf(c) = {Drafts!At(c, w) : w \in Spots(c)}
         /\ DOMAIN c.days = 1 .. Len(c.days)
         /\ \A k \in 1 .. Len(c.days) : \A n \in Day(c.days[k]) :
              <<k, n>> \in Spots(c) /\ Drafts!At(c, <<k, n>>) = c.days[k].items[n]
  <1>1. /\ DOMAIN c.days = 1 .. Len(c.days) /\ Len(c.days) \in Nat
        /\ \A k \in 1 .. Len(c.days) : c.days[k] \in Drafts!Days
    BY DEF DraftOk
  <1>2. \A k \in 1 .. Len(c.days) : /\ c.days[k].items \in Seq(Drafts!Items)
                                    /\ DOMAIN c.days[k].items = Day(c.days[k])
                                    /\ Day(c.days[k]) \subseteq Nat
                                    /\ \A n \in Day(c.days[k]) : c.days[k].items[n] \in Drafts!Items
    <2> SUFFICES ASSUME NEW k \in 1 .. Len(c.days)
                 PROVE  /\ c.days[k].items \in Seq(Drafts!Items)
                        /\ DOMAIN c.days[k].items = Day(c.days[k])
                        /\ Day(c.days[k]) \subseteq Nat
                        /\ \A n \in Day(c.days[k]) : c.days[k].items[n] \in Drafts!Items
      OBVIOUS
    <2>1. c.days[k].items \in Seq(Drafts!Items)
      BY <1>1 DEF Drafts!Days
    <2> QED
      BY <2>1 DEF Day
  <1>3. Drafts!Where(c) = Spots(c)
    <2>1. Drafts!Where(c) = UNION {{<<k, n>> : n \in Day(c.days[k])} : k \in 1 .. Len(c.days)}
      BY <1>1, <1>2 DEF Drafts!Where
    <2>2. ASSUME NEW w \in Spots(c) PROVE w \in Drafts!Where(c)
      BY <2>1, <2>2 DEF Spots
    <2>3. ASSUME NEW w \in Drafts!Where(c) PROVE w \in Spots(c)
      BY <1>2, <2>1, <2>3 DEF Spots
    <2> QED
      BY <2>2, <2>3
  <1>4. \A w \in Spots(c) : /\ w[1] \in 1 .. Len(c.days) /\ w[2] \in Day(c.days[w[1]])
                            /\ w = <<w[1], w[2]>> /\ Drafts!At(c, w) \in Drafts!Items
                            /\ Drafts!At(c, w) = c.days[w[1]].items[w[2]]
    BY <1>2 DEF Spots, Drafts!At
  <1>5. \A k \in 1 .. Len(c.days) : \A n \in Day(c.days[k]) :
          <<k, n>> \in Spots(c) /\ Drafts!At(c, <<k, n>>) = c.days[k].items[n]
    BY <1>2 DEF Spots, Drafts!At
  <1>6. Drafts!ItemsOf(c) = {Drafts!At(c, w) : w \in Spots(c)}
    <2>1. \A k \in 1 .. Len(c.days) :
            Drafts!ToSet(c.days[k].items) = {c.days[k].items[n] : n \in Day(c.days[k])}
      BY <1>2 DEF Drafts!ToSet
    <2>2. Drafts!ItemsOf(c) = UNION {Drafts!ToSet(c.days[k].items) : k \in 1 .. Len(c.days)}
      BY <1>1 DEF Drafts!ItemsOf
    <2>3. ASSUME NEW i \in Drafts!ItemsOf(c) PROVE i \in {Drafts!At(c, w) : w \in Spots(c)}
      <3>1. PICK k \in 1 .. Len(c.days) : i \in Drafts!ToSet(c.days[k].items)
        BY <2>2, <2>3
      <3>2. PICK n \in Day(c.days[k]) : i = c.days[k].items[n]
        BY <2>1, <3>1
      <3> QED
        BY <1>5, <3>2
    <2>4. ASSUME NEW w \in Spots(c) PROVE Drafts!At(c, w) \in Drafts!ItemsOf(c)
      <3>1. Drafts!At(c, w) \in Drafts!ToSet(c.days[w[1]].items)
        BY <1>4, <2>1
      <3> QED
        BY <1>4, <2>2, <3>1
    <2> QED
      BY <2>3, <2>4
  <1> QED
    BY <1>1, <1>3, <1>4, <1>5, <1>6

LEMMA SpotsInOrder ==
  ASSUME NEW c, DraftOk(c), NEW v \in Spots(c), NEW w \in Spots(c)
  PROVE  /\ v = w \/ Earlier(v, w) \/ Earlier(w, v)
         /\ Earlier(v, w) => v # w
  <1>1. /\ v[1] \in Nat /\ w[1] \in Nat /\ v[2] \in Nat /\ w[2] \in Nat
        /\ v = <<v[1], v[2]>> /\ w = <<w[1], w[2]>>
    BY DEF Spots
  <1> QED
    BY <1>1 DEF Earlier

\* What was met before an item.
LEMMA MetBefore ==
  ASSUME NEW c, DraftOk(c), NEW w \in Spots(c), NEW x
  PROVE  /\ x \in IdsOf(c.days, w[1] - 1) \cup {c.days[w[1]].id}
                    \cup ItemIds(c.days[w[1]].items, w[2] - 1)
              <=> \/ \E j \in 1 .. w[1] : x = c.days[j].id
                  \/ \E v \in Spots(c) : Earlier(v, w) /\ x = Drafts!At(c, v).id
         /\ x \in PlacesOf(c.days, w[1] - 1) \cup TakenPlaces(c.days[w[1]].items, w[2] - 1)
              <=> \E v \in Spots(c) : Earlier(v, w) /\ x \in Taken(Drafts!At(c, v))
  <1> DEFINE k == w[1]
             n == w[2]
             items == c.days[k].items
  <1>1. /\ k \in 1 .. Len(c.days) /\ n \in Day(c.days[k]) /\ k \in Nat /\ n \in Nat
        /\ Day(c.days[k]) = 1 .. Len(items)
    BY SpotsAre DEF Spots, Day
  <1>2. \A m \in 1 .. n - 1 : /\ <<k, m>> \in Spots(c) /\ Earlier(<<k, m>>, w)
                              /\ Drafts!At(c, <<k, m>>) = items[m]
    <2> SUFFICES ASSUME NEW m \in 1 .. n - 1
                 PROVE  /\ <<k, m>> \in Spots(c) /\ Earlier(<<k, m>>, w)
                        /\ Drafts!At(c, <<k, m>>) = items[m]
      OBVIOUS
    <2>1. m \in Day(c.days[k])
      BY <1>1
    <2> QED
      BY <1>1, <2>1, SpotsAre DEF Earlier
  <1>3. \A j \in 1 .. k - 1 : \A m \in Day(c.days[j]) :
          /\ <<j, m>> \in Spots(c) /\ Earlier(<<j, m>>, w)
          /\ Drafts!At(c, <<j, m>>) = c.days[j].items[m]
    <2> SUFFICES ASSUME NEW j \in 1 .. k - 1, NEW m \in Day(c.days[j])
                 PROVE  /\ <<j, m>> \in Spots(c) /\ Earlier(<<j, m>>, w)
                        /\ Drafts!At(c, <<j, m>>) = c.days[j].items[m]
      OBVIOUS
    <2>1. j \in 1 .. Len(c.days) /\ j < k
      BY <1>1
    <2> QED
      BY <2>1, SpotsAre DEF Earlier
  <1>4. ASSUME NEW v \in Spots(c), Earlier(v, w)
        PROVE  \/ v[1] \in 1 .. k - 1 /\ v[2] \in Day(c.days[v[1]])
               \/ v[1] = k /\ v[2] \in 1 .. n - 1
    <2>1. /\ v[1] \in 1 .. Len(c.days) /\ v[2] \in Day(c.days[v[1]])
          /\ v[1] \in Nat /\ v[2] \in Nat
      BY SpotsAre DEF Spots
    <2>2. v[2] >= 1
      BY <2>1 DEF Day
    <2> QED
      BY <1>1, <1>4, <2>1, <2>2 DEF Earlier
  <1>5. \A v \in Spots(c) : Drafts!At(c, v) = c.days[v[1]].items[v[2]]
    BY SpotsAre
  <1> HIDE DEF k, n, items
  <1>6. x \in IdsOf(c.days, k - 1) <=>
          \/ \E j \in 1 .. k - 1 : x = c.days[j].id
          \/ \E j \in 1 .. k - 1 : \E m \in Day(c.days[j]) : x = c.days[j].items[m].id
    BY DEF IdsOf, DayIds, ItemIds, Day
  <1>7. x \in ItemIds(items, n - 1) <=> \E m \in 1 .. n - 1 : x = items[m].id
    BY DEF ItemIds
  <1>8. x \in PlacesOf(c.days, k - 1) <=>
          \E j \in 1 .. k - 1 : \E m \in Day(c.days[j]) : x \in Taken(c.days[j].items[m])
    BY DEF PlacesOf, DayPlaces, TakenPlaces, Day
  <1>9. x \in TakenPlaces(items, n - 1) <=> \E m \in 1 .. n - 1 : x \in Taken(items[m])
    BY DEF TakenPlaces
  <1>10. 1 .. k = (1 .. k - 1) \cup {k}
    BY <1>1
  <1>11. (\E v \in Spots(c) : Earlier(v, w) /\ x = Drafts!At(c, v).id) <=>
           \/ \E j \in 1 .. k - 1 : \E m \in Day(c.days[j]) : x = c.days[j].items[m].id
           \/ \E m \in 1 .. n - 1 : x = items[m].id
    <2>1. ASSUME NEW v \in Spots(c), Earlier(v, w), x = Drafts!At(c, v).id
          PROVE  \/ \E j \in 1 .. k - 1 : \E m \in Day(c.days[j]) : x = c.days[j].items[m].id
                 \/ \E m \in 1 .. n - 1 : x = items[m].id
      BY <1>4, <1>5, <2>1 DEF items
    <2>2. ASSUME NEW j \in 1 .. k - 1, NEW m \in Day(c.days[j]), x = c.days[j].items[m].id
          PROVE  \E v \in Spots(c) : Earlier(v, w) /\ x = Drafts!At(c, v).id
      BY <1>3, <2>2
    <2>3. ASSUME NEW m \in 1 .. n - 1, x = items[m].id
          PROVE  \E v \in Spots(c) : Earlier(v, w) /\ x = Drafts!At(c, v).id
      BY <1>2, <2>3
    <2> QED
      BY <2>1, <2>2, <2>3
  <1>12. (\E v \in Spots(c) : Earlier(v, w) /\ x \in Taken(Drafts!At(c, v))) <=>
           \/ \E j \in 1 .. k - 1 : \E m \in Day(c.days[j]) : x \in Taken(c.days[j].items[m])
           \/ \E m \in 1 .. n - 1 : x \in Taken(items[m])
    <2>1. ASSUME NEW v \in Spots(c), Earlier(v, w), x \in Taken(Drafts!At(c, v))
          PROVE  \/ \E j \in 1 .. k - 1 : \E m \in Day(c.days[j]) : x \in Taken(c.days[j].items[m])
                 \/ \E m \in 1 .. n - 1 : x \in Taken(items[m])
      BY <1>4, <1>5, <2>1 DEF items
    <2>2. ASSUME NEW j \in 1 .. k - 1, NEW m \in Day(c.days[j]), x \in Taken(c.days[j].items[m])
          PROVE  \E v \in Spots(c) : Earlier(v, w) /\ x \in Taken(Drafts!At(c, v))
      BY <1>3, <2>2
    <2>3. ASSUME NEW m \in 1 .. n - 1, x \in Taken(items[m])
          PROVE  \E v \in Spots(c) : Earlier(v, w) /\ x \in Taken(Drafts!At(c, v))
      BY <1>2, <2>3
    <2> QED
      BY <2>1, <2>2, <2>3
  <1>13. x \in IdsOf(c.days, k - 1) \cup {c.days[k].id} \cup ItemIds(items, n - 1)
              <=> \/ \E j \in 1 .. k : x = c.days[j].id
                  \/ \E v \in Spots(c) : Earlier(v, w) /\ x = Drafts!At(c, v).id
    BY <1>6, <1>7, <1>10, <1>11
  <1>14. x \in PlacesOf(c.days, k - 1) \cup TakenPlaces(items, n - 1)
              <=> \E v \in Spots(c) : Earlier(v, w) /\ x \in Taken(Drafts!At(c, v))
    BY <1>8, <1>9, <1>12
  <1> QED
    BY <1>13, <1>14 DEF k, n, items
\* What was met before a day.
IsBeforeDay(c, k, x) == \/ \E j \in 1 .. k - 1 : x = c.days[j].id
                        \/ \E v \in Spots(c) : v[1] < k /\ x = Drafts!At(c, v).id

LEMMA MetBeforeDay ==
  ASSUME NEW c, DraftOk(c), NEW k \in 1 .. Len(c.days), NEW x
  PROVE  x \in IdsOf(c.days, k - 1) <=> IsBeforeDay(c, k, x)
  <1>1. x \in IdsOf(c.days, k - 1) <=>
          \/ \E j \in 1 .. k - 1 : x = c.days[j].id
          \/ \E j \in 1 .. k - 1 : \E m \in Day(c.days[j]) : x = c.days[j].items[m].id
    BY DEF IdsOf, DayIds, ItemIds, Day
  <1>2. ASSUME NEW v \in Spots(c), v[1] < k, x = Drafts!At(c, v).id
        PROVE  \E j \in 1 .. k - 1 : \E m \in Day(c.days[j]) : x = c.days[j].items[m].id
    <2>1. /\ v[1] \in 1 .. Len(c.days) /\ v[2] \in Day(c.days[v[1]])
          /\ Drafts!At(c, v) = c.days[v[1]].items[v[2]]
      BY SpotsAre
    <2>2. v[1] \in 1 .. k - 1
      BY <1>2, <2>1
    <2> QED
      BY <1>2, <2>1, <2>2
  <1>3. ASSUME NEW j \in 1 .. k - 1, NEW m \in Day(c.days[j]), x = c.days[j].items[m].id
        PROVE  \E v \in Spots(c) : v[1] < k /\ x = Drafts!At(c, v).id
    <2>1. j \in 1 .. Len(c.days) /\ j < k
      OBVIOUS
    <2>2. <<j, m>> \in Spots(c) /\ Drafts!At(c, <<j, m>>) = c.days[j].items[m]
      BY <2>1, SpotsAre
    <2>3. <<j, m>>[1] = j
      OBVIOUS
    <2> QED
      BY <1>3, <2>1, <2>2, <2>3
  <1> QED
    BY <1>1, <1>2, <1>3 DEF IsBeforeDay

\* The days fit if each day does on its own, and each item with those before it.
DayAlone(b, c, k) ==
  /\ c.days[k].id \notin IdsOf(c.days, k - 1) /\ c.days[k].date \notin DatesOf(c.days, k - 1)
  /\ c.days[k].date \in b.from .. b.to /\ c.days[k].zone
  /\ Cardinality(Drafts!Rides(c.days[k])) <= b.transfers

NewId(c, w) ==
  /\ \A j \in 1 .. w[1] : Drafts!At(c, w).id # c.days[j].id
  /\ \A v \in Spots(c) : Earlier(v, w) => Drafts!At(c, v).id # Drafts!At(c, w).id
NewPlace(c, w) ==
  \A v \in Spots(c) : Earlier(v, w) => Taken(Drafts!At(c, v)) \cap Taken(Drafts!At(c, w)) = {}

LEMMA DaysFitIs ==
  ASSUME NEW b, NEW c, DraftOk(c)
  PROVE  DaysFit(b, c.days, Len(c.days)) <=>
           /\ \A k \in 1 .. Len(c.days) : DayAlone(b, c, k)
           /\ \A w \in Spots(c) : /\ ItemFits(b, Drafts!At(c, w)) /\ NewId(c, w) /\ NewPlace(c, w)
                                  /\ InTurn(c.days[w[1]].items, w[2])
  <1> DEFINE Fits(k, n) ==
        /\ FitsAfter(b, c.days[k].items[n],
             IdsOf(c.days, k - 1) \cup {c.days[k].id} \cup ItemIds(c.days[k].items, n - 1),
             PlacesOf(c.days, k - 1) \cup TakenPlaces(c.days[k].items, n - 1))
        /\ InTurn(c.days[k].items, n)
  <1>1. DaysFit(b, c.days, Len(c.days)) <=>
          /\ \A k \in 1 .. Len(c.days) : DayAlone(b, c, k)
          /\ \A k \in 1 .. Len(c.days) : \A n \in Day(c.days[k]) : Fits(k, n)
    BY DEF DaysFit, DayFits, ItemsFit, DayAlone, Day
  <1>2. (\A k \in 1 .. Len(c.days) : \A n \in Day(c.days[k]) : Fits(k, n)) <=>
          \A w \in Spots(c) : Fits(w[1], w[2])
    <2> HIDE DEF Fits
    <2>1. \A k \in 1 .. Len(c.days) : \A n \in Day(c.days[k]) :
            <<k, n>> \in Spots(c) /\ <<k, n>>[1] = k /\ <<k, n>>[2] = n
      BY SpotsAre
    <2>2. \A w \in Spots(c) : w[1] \in 1 .. Len(c.days) /\ w[2] \in Day(c.days[w[1]])
      BY SpotsAre
    <2> QED
      BY <2>1, <2>2
  <1>3. ASSUME NEW w \in Spots(c)
        PROVE  Fits(w[1], w[2]) <=>
                 /\ ItemFits(b, Drafts!At(c, w)) /\ NewId(c, w) /\ NewPlace(c, w)
                 /\ InTurn(c.days[w[1]].items, w[2])
    <2> DEFINE i == Drafts!At(c, w)
               ids == IdsOf(c.days, w[1] - 1) \cup {c.days[w[1]].id}
                        \cup ItemIds(c.days[w[1]].items, w[2] - 1)
               places == PlacesOf(c.days, w[1] - 1) \cup TakenPlaces(c.days[w[1]].items, w[2] - 1)
    <2>1. i = c.days[w[1]].items[w[2]]
      BY SpotsAre
    <2>2. i.id \notin ids <=> NewId(c, w)
      <3>1. i.id \in ids <=> \/ \E j \in 1 .. w[1] : i.id = c.days[j].id
                             \/ \E v \in Spots(c) : Earlier(v, w) /\ i.id = Drafts!At(c, v).id
        <4>1. PICK x : x = i.id
          OBVIOUS
        <4>2. x \in ids <=> \/ \E j \in 1 .. w[1] : x = c.days[j].id
                            \/ \E v \in Spots(c) : Earlier(v, w) /\ x = Drafts!At(c, v).id
          BY ONLY DraftOk(c), w \in Spots(c), MetBefore
        <4> HIDE DEF ids, i
        <4> QED
          BY <4>1, <4>2
      <3> HIDE DEF ids
      <3> QED
        BY <3>1 DEF NewId
    <2>3. Taken(i) \cap places = {} <=> NewPlace(c, w)
      <3>1. \A x : x \in places <=> \E v \in Spots(c) : Earlier(v, w)
            /\ x \in Taken(Drafts!At(c, v))
        BY ONLY DraftOk(c), w \in Spots(c), MetBefore
      <3> HIDE DEF places
      <3> QED
        BY <3>1 DEF NewPlace
    <2>4. Fits(w[1], w[2]) <=>
            /\ ItemFits(b, i) /\ i.id \notin ids /\ Taken(i) \cap places = {}
            /\ InTurn(c.days[w[1]].items, w[2])
      BY <2>1 DEF FitsAfter
    <2> HIDE DEF Fits, ids, places
    <2> QED
      BY <2>2, <2>3, <2>4
  <1> HIDE DEF Fits
  <1> QED
    BY <1>1, <1>2, <1>3

\* All identifiers are new where they are met exactly if they are distinct,
LEMMA IdsDistinct ==
  ASSUME NEW c, DraftOk(c)
  PROVE  (/\ \A k \in 1 .. Len(c.days) : c.days[k].id \notin IdsOf(c.days, k - 1)
          /\ \A w \in Spots(c) : NewId(c, w))
         <=>
         /\ \A j, k \in 1 .. Len(c.days) : c.days[j].id = c.days[k].id => j = k
         /\ \A v, w \in Spots(c) : Drafts!At(c, v).id = Drafts!At(c, w).id => v = w
         /\ \A k \in 1 .. Len(c.days), w \in Spots(c) : c.days[k].id # Drafts!At(c, w).id
  <1>1. \A k \in 1 .. Len(c.days) :
          c.days[k].id \notin IdsOf(c.days, k - 1) <=>
            /\ \A j \in 1 .. k - 1 : c.days[k].id # c.days[j].id
            /\ \A v \in Spots(c) : v[1] < k => c.days[k].id # Drafts!At(c, v).id
    <2> SUFFICES ASSUME NEW k \in 1 .. Len(c.days)
                 PROVE  c.days[k].id \notin IdsOf(c.days, k - 1) <=>
                          /\ \A j \in 1 .. k - 1 : c.days[k].id # c.days[j].id
                          /\ \A v \in Spots(c) : v[1] < k => c.days[k].id # Drafts!At(c, v).id
      OBVIOUS
    <2>1. \A x : x \in IdsOf(c.days, k - 1) <=>
                   \/ \E j \in 1 .. k - 1 : x = c.days[j].id
                   \/ \E v \in Spots(c) : v[1] < k /\ x = Drafts!At(c, v).id
      <3> TAKE x
      <3>1. x \in IdsOf(c.days, k - 1) <=> IsBeforeDay(c, k, x)
        BY MetBeforeDay
      <3> QED
        BY <3>1 DEF IsBeforeDay
    <2> QED
      BY <2>1
  <1> DEFINE Met == \A k \in 1 .. Len(c.days) : c.days[k].id \notin IdsOf(c.days, k - 1)
             New == \A w \in Spots(c) : NewId(c, w)
             DaysDiffer == \A j, k \in 1 .. Len(c.days) : c.days[j].id = c.days[k].id => j = k
             ItemsDiffer == \A v, w \in Spots(c) : Drafts!At(c, v).id = Drafts!At(c, w).id => v = w
             Apart == \A k \in 1 .. Len(c.days), w \in Spots(c) : c.days[k].id # Drafts!At(c, w).id
  <1>2. \A w \in Spots(c) : w[1] \in 1 .. Len(c.days) /\ w[1] \in Nat
    BY SpotsAre DEF Spots
  <1>3. ASSUME Met, New PROVE DaysDiffer
    <2> SUFFICES ASSUME NEW j \in 1 .. Len(c.days), NEW k \in 1 .. Len(c.days), j < k
                 PROVE  c.days[j].id # c.days[k].id
      OBVIOUS
    <2>1. j \in 1 .. k - 1
      OBVIOUS
    <2> QED
      BY <1>1, <1>3, <2>1
  <1>4. ASSUME Met, New PROVE ItemsDiffer
    <2> SUFFICES ASSUME NEW v \in Spots(c), NEW w \in Spots(c), v # w
                 PROVE  Drafts!At(c, v).id # Drafts!At(c, w).id
      OBVIOUS
    <2>1. Earlier(v, w) \/ Earlier(w, v)
      BY SpotsInOrder
    <2> QED
      BY <1>4, <2>1 DEF NewId
  <1>5. ASSUME Met, New PROVE Apart
    <2> SUFFICES ASSUME NEW k \in 1 .. Len(c.days), NEW w \in Spots(c)
                 PROVE  c.days[k].id # Drafts!At(c, w).id
      OBVIOUS
    <2>1. CASE w[1] < k
      BY <1>1, <1>5, <2>1
    <2>2. CASE ~(w[1] < k)
      <3>1. k \in 1 .. w[1]
        BY <1>2, <2>2
      <3> QED
        BY <1>5, <3>1 DEF NewId
    <2> QED
      BY <2>1, <2>2
  <1>6. ASSUME DaysDiffer, ItemsDiffer, Apart PROVE Met
    <2>1. ASSUME NEW k \in 1 .. Len(c.days), NEW j \in 1 .. k - 1 PROVE c.days[k].id # c.days[j].id
      <3>1. j \in 1 .. Len(c.days) /\ j # k
        OBVIOUS
      <3> QED
        BY <1>6, <3>1
    <2> QED
      BY <1>1, <1>6, <2>1
  <1>7. ASSUME DaysDiffer, ItemsDiffer, Apart PROVE New
    <2> SUFFICES ASSUME NEW w \in Spots(c) PROVE NewId(c, w)
      OBVIOUS
    <2>1. \A j \in 1 .. w[1] : j \in 1 .. Len(c.days)
      BY <1>2
    <2>2. \A v \in Spots(c) : Earlier(v, w) => v # w
      BY SpotsInOrder
    <2> QED
      BY <1>7, <2>1, <2>2 DEF NewId
  <1> HIDE DEF Met, New, DaysDiffer, ItemsDiffer, Apart
  <1>8. Met /\ New <=> DaysDiffer /\ ItemsDiffer /\ Apart
    BY <1>3, <1>4, <1>5, <1>6, <1>7
  <1> QED
    BY <1>8 DEF Met, New, DaysDiffer, ItemsDiffer, Apart

\* and so are dates and the places that are visited.
LEMMA DatesDistinct ==
  ASSUME NEW c, DraftOk(c)
  PROVE  (\A k \in 1 .. Len(c.days) : c.days[k].date \notin DatesOf(c.days, k - 1))
         <=> \A j, k \in 1 .. Len(c.days) : c.days[j].date = c.days[k].date => j = k
  <1>1. ASSUME \A k \in 1 .. Len(c.days) : c.days[k].date \notin DatesOf(c.days, k - 1),
               NEW j \in 1 .. Len(c.days), NEW k \in 1 .. Len(c.days), j < k
        PROVE  c.days[j].date # c.days[k].date
    <2>1. j \in 1 .. k - 1
      BY <1>1
    <2> QED
      BY <1>1, <2>1 DEF DatesOf
  <1>2. ASSUME \A j, k \in 1 .. Len(c.days) : c.days[j].date = c.days[k].date => j = k,
               NEW k \in 1 .. Len(c.days)
        PROVE  c.days[k].date \notin DatesOf(c.days, k - 1)
    <2>1. \A j \in 1 .. k - 1 : j \in 1 .. Len(c.days) /\ j # k
      OBVIOUS
    <2> QED
      BY <1>2, <2>1 DEF DatesOf
  <1>3. ASSUME \A k \in 1 .. Len(c.days) : c.days[k].date \notin DatesOf(c.days, k - 1),
               NEW j \in 1 .. Len(c.days), NEW k \in 1 .. Len(c.days),
               c.days[j].date = c.days[k].date
        PROVE  j = k
    <2>1. j < k \/ k < j \/ j = k
      OBVIOUS
    <2> QED
      BY <1>1, <1>3, <2>1
  <1> QED
    BY <1>2, <1>3

LEMMA PlacesDistinct ==
  ASSUME NEW c, DraftOk(c)
  PROVE  (\A w \in Spots(c) : NewPlace(c, w))
         <=> \A v, w \in Spots(c) :
               /\ ~Drafts!Stays(Drafts!At(c, v)) /\ ~Drafts!Stays(Drafts!At(c, w))
               /\ Drafts!At(c, v).place = Drafts!At(c, w).place
               => v = w \/ Drafts!At(c, v).place = Null
  <1>1. \A v, w \in Spots(c) :
          Taken(Drafts!At(c, v)) \cap Taken(Drafts!At(c, w)) # {} <=>
            /\ ~Drafts!Stays(Drafts!At(c, v)) /\ ~Drafts!Stays(Drafts!At(c, w))
            /\ Drafts!At(c, v).place = Drafts!At(c, w).place
            /\ Drafts!At(c, v).place # Null
    BY DEF Taken
  <1>2. \A v, w \in Spots(c) : (v = w \/ Earlier(v, w) \/ Earlier(w, v)) /\ (Earlier(v, w) => v # w)
    BY SpotsInOrder
  <1>3. (\A w \in Spots(c) : NewPlace(c, w)) <=>
          \A v, w \in Spots(c) : v # w => Taken(Drafts!At(c, v)) \cap Taken(Drafts!At(c, w)) = {}
    <2>1. ASSUME \A w \in Spots(c) : NewPlace(c, w), NEW v \in Spots(c), NEW w \in Spots(c), v # w
          PROVE  Taken(Drafts!At(c, v)) \cap Taken(Drafts!At(c, w)) = {}
      <3>1. CASE Earlier(v, w)
        BY <2>1, <3>1 DEF NewPlace
      <3>2. CASE Earlier(w, v)
        <4>1. Taken(Drafts!At(c, w)) \cap Taken(Drafts!At(c, v)) = {}
          BY <2>1, <3>2 DEF NewPlace
        <4> QED
          BY <4>1
      <3> QED
        BY <1>2, <2>1, <3>1, <3>2
    <2>2. ASSUME \A v, w \in Spots(c) : v # w =>
                   Taken(Drafts!At(c, v)) \cap Taken(Drafts!At(c, w)) = {},
                 NEW w \in Spots(c)
          PROVE  NewPlace(c, w)
      BY <1>2, <2>2 DEF NewPlace
    <2> QED
      BY <2>1, <2>2
  <1> QED
    BY <1>1, <1>3
-----------------------------------------------------------------------------
(* The two descriptions of a draft agree.                                  *)

LEMMA InTimeIs ==
  ASSUME NEW c, DraftOk(c)
  PROVE  Drafts!InTime(c) <=> \A w \in Spots(c) : /\ TimesFit(Drafts!At(c, w))
                                                  /\ InTurn(c.days[w[1]].items, w[2])
  <1> DEFINE Turns == \A v, w \in Spots(c) :
        v[1] = w[1] /\ v[2] < w[2] /\ Drafts!Timed(Drafts!At(c, v)) /\ Drafts!Timed(Drafts!At(c, w))
          => Drafts!At(c, v).to <= Drafts!At(c, w).from
  <1>1. Drafts!InTime(c) <=> (\A w \in Spots(c) : TimesFit(Drafts!At(c, w))) /\ Turns
    <2>1. Drafts!Where(c) = Spots(c) /\ Drafts!ItemsOf(c) = {Drafts!At(c, w) : w \in Spots(c)}
      BY SpotsAre
    <2>2. Drafts!InTime(c) <=> (\A i \in Drafts!ItemsOf(c) : TimesFit(i)) /\ Turns
      BY ONLY <2>1 DEF Drafts!InTime, TimesFit
    <2> HIDE DEF Turns
    <2> QED
      BY <2>1, <2>2
  <1>2. ASSUME Turns, NEW w \in Spots(c) PROVE InTurn(c.days[w[1]].items, w[2])
    <2> SUFFICES ASSUME NEW l \in 1 .. w[2] - 1
                 PROVE  LET items == c.days[w[1]].items IN
                        Drafts!Timed(items[l]) /\ Drafts!Timed(items[w[2]])
                          => items[l].to <= items[w[2]].from
      BY DEF InTurn
    <2>1. w[1] \in 1 .. Len(c.days) /\ w[2] \in Day(c.days[w[1]])
          /\ Drafts!At(c, w) = c.days[w[1]].items[w[2]]
      BY SpotsAre
    <2>2. l \in Day(c.days[w[1]]) /\ l < w[2]
      <3>1. PICK top : top = Len(c.days[w[1]].items)
        OBVIOUS
      <3>2. c.days[w[1]].items \in Seq(Drafts!Items)
        <4>1. c.days[w[1]] \in Drafts!Days
          BY <2>1 DEF DraftOk
        <4> QED
          BY <4>1 DEF Drafts!Days
      <3>3. top \in Nat /\ w[2] \in 1 .. top
        BY <2>1, <3>1, <3>2 DEF Day
      <3>4. l \in 1 .. top /\ l < w[2]
        BY <3>3
      <3> QED
        BY <3>1, <3>4 DEF Day
    <2>3. PICK v : v = <<w[1], l>>
      OBVIOUS
    <2>4. v[1] = w[1] /\ v[2] = l
      BY <2>3
    <2>5. v \in Spots(c) /\ Drafts!At(c, v) = c.days[w[1]].items[l]
      BY <2>1, <2>2, <2>3, SpotsAre
    <2> QED
      BY <1>2, <2>1, <2>2, <2>4, <2>5
  <1>3. ASSUME \A w \in Spots(c) : InTurn(c.days[w[1]].items, w[2]),
               NEW v \in Spots(c), NEW w \in Spots(c), v[1] = w[1], v[2] < w[2],
               Drafts!Timed(Drafts!At(c, v)), Drafts!Timed(Drafts!At(c, w))
        PROVE  Drafts!At(c, v).to <= Drafts!At(c, w).from
    <2>1. /\ v[2] \in Nat \ {0} /\ w[2] \in Nat
          /\ Drafts!At(c, v) = c.days[w[1]].items[v[2]]
          /\ Drafts!At(c, w) = c.days[w[1]].items[w[2]]
      <3>1. v[2] \in 1 .. Len(c.days[v[1]].items)
        BY SpotsAre DEF Day
      <3> QED
        BY <1>3, <3>1, SpotsAre DEF Spots
    <2>2. v[2] \in 1 .. w[2] - 1
      BY <1>3, <2>1
    <2> QED
      BY <1>3, <2>1, <2>2 DEF InTurn
  <1>4. Turns <=> \A w \in Spots(c) : InTurn(c.days[w[1]].items, w[2])
    BY <1>2, <1>3
  <1> HIDE DEF Turns
  <1> QED
    BY <1>1, <1>4

LEMMA GroundedIs ==
  ASSUME NEW b, NEW c, DraftOk(c)
  PROVE  Drafts!Grounded(b, c) <=> /\ c.sources \subseteq b.sources
                                   /\ \A w \in Spots(c) : PlaceFits(b, Drafts!At(c, w))
  <1>1. Drafts!ItemsOf(c) = {Drafts!At(c, w) : w \in Spots(c)}
    BY SpotsAre
  <1>2. Drafts!Places(c) \subseteq Drafts!Known(b) <=>
          \A i \in Drafts!ItemsOf(c) : i.place # Null => i.place \in Drafts!Known(b)
    BY DEF Drafts!Places
  <1>3. Drafts!Grounded(b, c) <=> /\ c.sources \subseteq b.sources
                                  /\ \A i \in Drafts!ItemsOf(c) : PlaceFits(b, i)
    BY <1>2 DEF Drafts!Grounded, PlaceFits, ByAvailability, ByAccess
  <1> QED
    BY <1>1, <1>3

LEMMA AdmittedIs ==
  ASSUME NEW b, NEW c, DraftOk(c)
  PROVE  Drafts!Admitted(b, c) <=>
           /\ ~c.blocked
           /\ \A k \in 1 .. Len(c.days) : /\ c.days[k].date \in b.from .. b.to /\ c.days[k].zone
                                          /\ Cardinality(Drafts!Rides(c.days[k])) <= b.transfers
           /\ \A w \in Spots(c) : CostFits(Drafts!At(c, w)) /\ RideFits(b, Drafts!At(c, w))
           /\ b.budget # Null => Drafts!Spent(b, c.days) <= b.budget
  <1>1. Drafts!ItemsOf(c) = {Drafts!At(c, w) : w \in Spots(c)} /\ DOMAIN c.days = 1 .. Len(c.days)
    BY SpotsAre
  <1>2. \A k \in 1 .. Len(c.days) :
          Drafts!Cardinality(Drafts!Rides(c.days[k])) = Cardinality(Drafts!Rides(c.days[k]))
    BY DraftsCardinality
  <1>3. Drafts!Admitted(b, c) <=>
           /\ ~c.blocked
           /\ \A k \in 1 .. Len(c.days) :
                /\ c.days[k].date \in b.from .. b.to /\ c.days[k].zone
                /\ Drafts!Cardinality(Drafts!Rides(c.days[k])) <= b.transfers
           /\ \A i \in Drafts!ItemsOf(c) : CostFits(i) /\ RideFits(b, i)
           /\ b.budget # Null => Drafts!Spent(b, c.days) <= b.budget
    BY <1>1 DEF Drafts!Admitted, CostFits, RideFits
  <1> QED
    BY <1>1, <1>2, <1>3

LEMMA DistinctIs ==
  ASSUME NEW c, DraftOk(c)
  PROVE  Drafts!Distinct(c) <=>
           /\ \A k \in 1 .. Len(c.days) : /\ c.days[k].id \notin IdsOf(c.days, k - 1)
                                          /\ c.days[k].date \notin DatesOf(c.days, k - 1)
           /\ \A w \in Spots(c) : NewId(c, w) /\ NewPlace(c, w)
  <1> DEFINE DaysDiffer == \A j, k \in 1 .. Len(c.days) : c.days[j].id = c.days[k].id => j = k
             DatesDiffer == \A j, k \in 1 .. Len(c.days) : c.days[j].date = c.days[k].date => j = k
             ItemsDiffer == \A v, w \in Spots(c) : Drafts!At(c, v).id = Drafts!At(c, w).id => v = w
             Apart == \A k \in 1 .. Len(c.days), w \in Spots(c) : c.days[k].id # Drafts!At(c, w).id
             PlacesDiffer == \A v, w \in Spots(c) :
               /\ ~Drafts!Stays(Drafts!At(c, v)) /\ ~Drafts!Stays(Drafts!At(c, w))
               /\ Drafts!At(c, v).place = Drafts!At(c, w).place
               => v = w \/ Drafts!At(c, v).place = Null
  <1>1. /\ Drafts!ItemsOf(c) = {Drafts!At(c, w) : w \in Spots(c)}
        /\ DOMAIN c.days = 1 .. Len(c.days)
        /\ Drafts!Where(c) = Spots(c)
    BY SpotsAre
  <1>2. {c.days[k].id : k \in DOMAIN c.days} \cap {i.id : i \in Drafts!ItemsOf(c)} = {} <=> Apart
    BY <1>1
  <1>3. (\A j, k \in DOMAIN c.days :
           c.days[j].id = c.days[k].id \/ c.days[j].date = c.days[k].date => j = k)
          <=> DaysDiffer /\ DatesDiffer
    BY <1>1
  <1>4. Drafts!Distinct(c) <=> DaysDiffer /\ DatesDiffer /\ ItemsDiffer /\ Apart /\ PlacesDiffer
    <2>1. PICK where : where = Drafts!Where(c)
      OBVIOUS
    <2>2. Drafts!Distinct(c) <=>
            /\ \A j, k \in DOMAIN c.days :
                 c.days[j].id = c.days[k].id \/ c.days[j].date = c.days[k].date => j = k
            /\ \A v, w \in where : Drafts!At(c, v).id = Drafts!At(c, w).id => v = w
            /\ {c.days[k].id : k \in DOMAIN c.days} \cap {i.id : i \in Drafts!ItemsOf(c)} = {}
            /\ \A v, w \in where :
                 /\ ~Drafts!Stays(Drafts!At(c, v)) /\ ~Drafts!Stays(Drafts!At(c, w))
                 /\ Drafts!At(c, v).place = Drafts!At(c, w).place
                 => v = w \/ Drafts!At(c, v).place = Null
      BY ONLY <2>1 DEF Drafts!Distinct
    <2>3. where = Spots(c)
      BY <1>1, <2>1
    <2> HIDE DEF DaysDiffer, DatesDiffer, Apart
    <2> QED
      BY <1>2, <1>3, <2>2, <2>3
  <1>5. (\A k \in 1 .. Len(c.days) : c.days[k].id \notin IdsOf(c.days, k - 1))
          /\ (\A w \in Spots(c) : NewId(c, w)) <=> DaysDiffer /\ ItemsDiffer /\ Apart
    BY IdsDistinct
  <1>6. (\A k \in 1 .. Len(c.days) : c.days[k].date \notin DatesOf(c.days, k - 1)) <=> DatesDiffer
    BY DatesDistinct
  <1>7. (\A w \in Spots(c) : NewPlace(c, w)) <=> PlacesDiffer
    BY PlacesDistinct
  <1> HIDE DEF DaysDiffer, DatesDiffer, ItemsDiffer, Apart, PlacesDiffer
  <1> QED
    BY <1>4, <1>5, <1>6, <1>7

\* The check of a draft finds nothing that blocks it exactly if it is feasible.
LEMMA CheckIsFeasibility ==
  ASSUME NEW b, BriefOk(b), NEW c, DraftOk(c)
  PROVE  Clear(Drafts!Validate(b, c)) <=> Drafts!Feasible(b, c)
  <1> DEFINE Fit == \A k \in 1 .. Len(c.days) : DayAlone(b, c, k)
             Fits == \A w \in Spots(c) :
                       /\ ItemFits(b, Drafts!At(c, w)) /\ NewId(c, w) /\ NewPlace(c, w)
                       /\ InTurn(c.days[w[1]].items, w[2])
             Paid == b.budget # Null => Drafts!Spent(b, c.days) <= b.budget
             Sourced == c.sources \subseteq b.sources /\ ~c.blocked
  <1>1. Clear(Drafts!Validate(b, c)) <=> Sourced /\ DaysFit(b, c.days, Len(c.days)) /\ Paid
    BY ValidateIs
  <1>2. DaysFit(b, c.days, Len(c.days)) <=> Fit /\ Fits
    BY DaysFitIs
  <1>3. Drafts!Feasible(b, c) <=>
          /\ Sourced /\ Paid
          /\ \A k \in 1 .. Len(c.days) :
               /\ c.days[k].id \notin IdsOf(c.days, k - 1)
               /\ c.days[k].date \notin DatesOf(c.days, k - 1)
               /\ c.days[k].date \in b.from .. b.to /\ c.days[k].zone
               /\ Cardinality(Drafts!Rides(c.days[k])) <= b.transfers
          /\ \A w \in Spots(c) :
               /\ NewId(c, w) /\ NewPlace(c, w) /\ InTurn(c.days[w[1]].items, w[2])
               /\ TimesFit(Drafts!At(c, w)) /\ PlaceFits(b, Drafts!At(c, w))
               /\ CostFits(Drafts!At(c, w)) /\ RideFits(b, Drafts!At(c, w))
    BY DistinctIs, InTimeIs, GroundedIs, AdmittedIs DEF Drafts!Feasible
  <1>4. Drafts!Feasible(b, c) <=> Sourced /\ Paid /\ Fit /\ Fits
    BY <1>3 DEF DayAlone, ItemFits
  <1> HIDE DEF Fit, Fits, Paid, Sourced
  <1> QED
    BY <1>1, <1>2, <1>4
\* What is not known of a draft without blocking issues is told with it.
LEMMA UnknownsOfDraft ==
  ASSUME NEW b, BriefOk(b), NEW c, DraftOk(c), NEW v, v = Drafts!Validate(b, c), Clear(v),
         NEW g, g = Drafts!Told(c, v)
  PROVE  /\ c.warned \subseteq g
         /\ \A i \in Drafts!ItemsOf(c) : Drafts!Visits(i) /\ i.place # Null =>
              /\ "open" \notin Drafts!Said(b, i.place, ByAvailability)
                   => Drafts!Of("unknown_availability", {i.id}) \in g
              /\ b.needs /\ "yes" \notin Drafts!Said(b, i.place, ByAccess)
                   => Drafts!Of("accessibility_unknown", {i.id}) \in g
         /\ b.budget # Null /\ (\E i \in Drafts!ItemsOf(c) : Untold(i))
              => Drafts!Of("budget_unknown", {}) \in g
  <1>1. /\ \A m \in 1 .. Len(c.days) : \A n \in Day(c.days[m]) : TellsOf(b, c.days[m].items[n], v)
        /\ b.budget # Null /\ (\E m \in 1 .. Len(c.days) : \E n \in Day(c.days[m]) :
             Untold(c.days[m].items[n])) => Drafts!Of("budget_unknown", {}) \in v
    BY ValidateIs
  <1>2. /\ Drafts!ItemsOf(c) = {Drafts!At(c, w) : w \in Spots(c)}
        /\ \A w \in Spots(c) : /\ w[1] \in 1 .. Len(c.days) /\ w[2] \in Day(c.days[w[1]])
                               /\ Drafts!At(c, w) = c.days[w[1]].items[w[2]]
    BY SpotsAre
  <1>3. \A i \in Drafts!ItemsOf(c) : TellsOf(b, i, v)
    BY <1>1, <1>2
  <1>4. \A i \in Drafts!ItemsOf(c) : PlaceFits(b, i)
    <2>1. Drafts!Grounded(b, c)
      BY CheckIsFeasibility DEF Drafts!Feasible
    <2> QED
      BY <1>2, <2>1, GroundedIs
  <1>5. \A code, about : code \in Drafts!Warnings /\ Drafts!Of(code, about) \in v
        => Drafts!Of(code, about) \in g
    BY DEF Drafts!Told, Drafts!Of
  <1>6. c.warned \subseteq g
    BY DEF Drafts!Told
  <1>7. ASSUME NEW i \in Drafts!ItemsOf(c), Drafts!Visits(i), i.place # Null
        PROVE  /\ "open" \notin Drafts!Said(b, i.place, ByAvailability)
                    => Drafts!Of("unknown_availability", {i.id}) \in g
               /\ b.needs /\ "yes" \notin Drafts!Said(b, i.place, ByAccess)
                    => Drafts!Of("accessibility_unknown", {i.id}) \in g
    <2>1. PICK open, access : /\ open = Drafts!Said(b, i.place, ByAvailability)
                              /\ access = Drafts!Said(b, i.place, ByAccess)
      OBVIOUS
    <2>2. "closed" \notin open /\ (b.needs => "no" \notin access)
      BY <1>4, <1>7, <2>1 DEF PlaceFits
    <2>3. /\ {"open", "closed"} \cap open = {} => Drafts!Of("unknown_availability", {i.id}) \in v
          /\ b.needs /\ {"yes", "no"} \cap access = {}
             => Drafts!Of("accessibility_unknown", {i.id}) \in v
      BY <1>3, <1>7, <2>1 DEF TellsOf
    <2>4. "unknown_availability" \in Drafts!Warnings /\ "accessibility_unknown" \in Drafts!Warnings
      BY DEF Drafts!Warnings
    <2> QED
      BY <1>5, <2>1, <2>2, <2>3, <2>4
  <1>8. ASSUME b.budget # Null, NEW i \in Drafts!ItemsOf(c), Untold(i)
        PROVE  Drafts!Of("budget_unknown", {}) \in g
    <2>1. Drafts!Of("budget_unknown", {}) \in v
      BY <1>1, <1>2, <1>8
    <2> QED
      BY <1>5, <2>1 DEF Drafts!Warnings
  <1> QED
    BY <1>6, <1>7, <1>8

-----------------------------------------------------------------------------
(* The engine keeps the verdict it reached.                                *)

DraftTypeOK ==
  draft \in [pc : {"idle", "asking", "judged", "done", "thrown", "failed"},
             brief : Briefs \cup {Drafts!NoBrief}, reply : Replies \cup {Drafts!NoReply},
             issues : SUBSET IssuesFound, repairs : 0 .. MaxRepairAttempts, retry : BOOLEAN,
             given : SUBSET (IssuesFound \cup UNION {c.warned : c \in Replies})]

\* What was found is found in the draft at hand, against the request it is for.
DraftIInv ==
  /\ DraftTypeOK
  /\ draft.pc \in {"asking", "judged", "done"} => draft.brief \in Briefs
  /\ draft.pc \in {"judged", "done"} =>
       draft.reply \in Replies /\ draft.issues = Drafts!Validate(draft.brief, draft.reply)
  /\ draft.pc = "done" => /\ Clear(draft.issues)
                          /\ draft.given = Drafts!Told(draft.reply, draft.issues)

LEMMA DraftInitSound ==
  ASSUME draft = Drafts!Idle
  PROVE  DraftIInv
  BY DraftTypes DEF DraftIInv, DraftTypeOK, Drafts!Idle

LEMMA DraftStepSound ==
  ASSUME DraftIInv, Drafts!DraftNext
  PROVE  DraftIInv'
  <1> USE DEF DraftIInv, DraftTypeOK
  <1>1. CASE Drafts!Begin
    BY <1>1 DEF Drafts!Begin, Drafts!Idle
  <1>2. CASE Drafts!Answer
    <2>1. PICK c \in Replies :
            /\ draft.pc = "asking"
            /\ draft' = [draft EXCEPT !.pc = "judged", !.reply = c,
                           !.issues = Drafts!Validate(draft.brief, c)]
      BY <1>2 DEF Drafts!Answer
    <2>2. Drafts!Validate(draft.brief, c) \subseteq IssuesFound
      BY <2>1, DraftTypes, ValidateIs DEF DraftOk
    <2> QED
      BY <2>1, <2>2
  <1>3. ASSUME NEW retry \in BOOLEAN, Drafts!Fails(retry) PROVE DraftIInv'
    BY <1>3 DEF Drafts!Fails
  <1>4. CASE Drafts!InvalidOutput \/ Drafts!ProviderFails \/ Drafts!Timeout \/ Drafts!Cancelled
             \/ Drafts!GiveUp
    BY <1>3, <1>4 DEF Drafts!InvalidOutput, Drafts!ProviderFails, Drafts!Timeout,
      Drafts!Cancelled, Drafts!GiveUp
  <1>5. CASE Drafts!Repair
    <2>1. draft.repairs + 1 \in 0 .. MaxRepairAttempts
      <3>1. draft.repairs \in 0 .. MaxRepairAttempts /\ draft.repairs < MaxRepairAttempts
        BY <1>5 DEF Drafts!Repair
      <3>2. MaxRepairAttempts \in Nat
        BY DraftTypes
      <3> QED
        BY ONLY <3>1, <3>2
    <2>2. PICK n \in 0 .. MaxRepairAttempts : n = draft.repairs + 1
      BY <2>1
    <2>3. draft' = [draft EXCEPT !.pc = "asking", !.repairs = n, !.reply = Drafts!NoReply,
                      !.issues = {}] /\ draft.pc = "judged"
      BY <1>5, <2>2 DEF Drafts!Repair
    <2> QED
      BY <2>3
  <1>6. CASE Drafts!Deliver
    <2>1. PICK g : g = Drafts!Told(draft.reply, draft.issues)
      OBVIOUS
    <2>2. /\ draft.pc = "judged" /\ Clear(draft.issues)
          /\ \E p \in {"done", "thrown"} : draft' = [draft EXCEPT !.pc = p, !.given = g]
      BY <1>6, <2>1 DEF Drafts!Deliver, Clear
    <2>3. g \subseteq IssuesFound \cup UNION {c.warned : c \in Replies}
      BY <2>1, <2>2 DEF Drafts!Told
    <2> QED
      BY <2>1, <2>2, <2>3
  <1> QED
    BY <1>1, <1>2, <1>4, <1>5, <1>6 DEF Drafts!DraftNext

\* A read of the catalog leaves a draft alone.
LEMMA OtherStepsSpareDraft ==
  ASSUME [Reading \/ Drafting]_all
  PROVE  Drafts!DraftNext \/ UNCHANGED draft
  BY DEF Reading, Drafting, all

\* Whatever the model answers and however often it is asked again, an answer is
\* judged by the check of just that answer, and what is given on is that verdict.
THEOREM DraftsInductive ==
  WorkSpec => []DraftIInv
  <1>1. WorkInit => DraftIInv
    BY DraftInitSound DEF WorkInit
  <1>2. DraftIInv /\ [Reading \/ Drafting]_all => DraftIInv'
    <2>1. DraftIInv /\ UNCHANGED draft => DraftIInv'
      BY DEF DraftIInv, DraftTypeOK
    <2> QED
      BY <2>1, OtherStepsSpareDraft, DraftStepSound
  <1> QED
    BY <1>1, <1>2, PTL DEF WorkSpec

\* A draft of any length passes the check exactly if it can be travelled, and
\* what is not known of one that is given on is told with it.
THEOREM DraftsAreSoundHolds ==
  WorkSpec => []DraftsAreSound
  <1>1. DraftIInv => Drafts!VerdictIsFeasibility
    <2> SUFFICES ASSUME DraftIInv, draft.pc = "judged"
                 PROVE  Drafts!Blocking(draft.issues) = {}
                          <=> Drafts!Feasible(draft.brief, draft.reply)
      BY DEF Drafts!VerdictIsFeasibility
    <2>1. PICK b \in Briefs, c \in Replies :
            b = draft.brief /\ c = draft.reply /\ draft.issues = Drafts!Validate(b, c)
      BY DEF DraftIInv
    <2>2. BriefOk(b) /\ DraftOk(c)
      BY DraftTypes DEF DraftOk
    <2>3. Clear(Drafts!Validate(b, c)) <=> Drafts!Feasible(b, c)
      BY <2>2, CheckIsFeasibility
    <2> QED
      BY <2>1, <2>3 DEF Clear
  <1>2. DraftIInv => Drafts!UnknownsAreTold
    <2> SUFFICES ASSUME DraftIInv, draft.pc = "done"
                 PROVE  Drafts!UnknownsAreTold
      BY DEF Drafts!UnknownsAreTold
    <2>1. PICK b, c, v, g :
            /\ b = draft.brief /\ c = draft.reply /\ v = draft.issues /\ g = draft.given
            /\ b \in Briefs /\ c \in Replies
            /\ v = Drafts!Validate(b, c) /\ Clear(v) /\ g = Drafts!Told(c, v)
      BY DEF DraftIInv
    <2>2. BriefOk(b) /\ DraftOk(c)
      BY <2>1, DraftTypes DEF DraftOk
    <2>3. /\ c.warned \subseteq g
          /\ \A i \in Drafts!ItemsOf(c) : Drafts!Visits(i) /\ i.place # Null =>
               /\ "open" \notin Drafts!Said(b, i.place, ByAvailability)
                    => Drafts!Of("unknown_availability", {i.id}) \in g
               /\ b.needs /\ "yes" \notin Drafts!Said(b, i.place, ByAccess)
                    => Drafts!Of("accessibility_unknown", {i.id}) \in g
          /\ b.budget # Null /\ (\E i \in Drafts!ItemsOf(c) : Untold(i))
               => Drafts!Of("budget_unknown", {}) \in g
      BY <2>1, <2>2, UnknownsOfDraft
    <2> QED
      BY <2>1, <2>3 DEF Drafts!UnknownsAreTold, ByAvailability, ByAccess, Untold
  <1>3. DraftIInv => DraftsAreSound
    BY <1>1, <1>2 DEF DraftsAreSound
  <1> QED
    BY <1>3, DraftsInductive, PTL

-----------------------------------------------------------------------------
(* The ranking of evidence.                                                *)

\* Candidates that may be ranked: each has an id of its own.
CandidatesOk(S) ==
  /\ IsFiniteSet(S) /\ IsFiniteSet(UNION {c.sources : c \in S})
  /\ \A c \in S : /\ c.id \in Int /\ c.authority \in DOMAIN AuthorityScore
                  /\ c.freshness \in {"fresh", "stale", "expired"}
                  /\ c.confidence \in Nat /\ c.relevance \in Nat
  /\ \A c, d \in S : c.id = d.id => c = d

LEMMA ScoresAreNumbers ==
  ASSUME NEW S, CandidatesOk(S), NEW c \in S
  PROVE  RankScore(c) \in Int /\ AuthorityOrder[c.authority] \in Int
  <1>1. AuthorityScore[c.authority] \in Int /\ AuthorityOrder[c.authority] \in Int
    BY DEF CandidatesOk, AuthorityScore, AuthorityOrder
  <1>2. FreshnessScore[c.freshness] \in Int
    BY DEF CandidatesOk, FreshnessScore
  <1>3. \A n \in Int : Rounded(n) \in Int
    BY DEF Rounded
  <1>4. PICK x \in Int : x = (44 * c.relevance + 9 * c.confidence) \div 10
    BY DEF CandidatesOk
  <1>5. RankScore(c) \in
          {1000, Rounded(x) + AuthorityScore[c.authority] + FreshnessScore[c.freshness]}
    BY <1>4 DEF RankScore
  <1> QED
    BY <1>1, <1>2, <1>3, <1>5

\* The first of the four differences that is not zero decides.
LEMMA FirstDecides ==
  ASSUME NEW n1 \in Int, NEW n2 \in Int, NEW n3 \in Int, NEW n4 \in Int,
         NEW ranks, ranks = <<n1, n2, n3, n4>>
  PROVE  (\E i \in 1 .. 4 : ranks[i] < 0 /\ \A j \in 1 .. i - 1 : ranks[j] = 0)
         <=> \/ n1 < 0 \/ (n1 = 0 /\ n2 < 0) \/ (n1 = 0 /\ n2 = 0 /\ n3 < 0)
             \/ (n1 = 0 /\ n2 = 0 /\ n3 = 0 /\ n4 < 0)
  <1>1. ranks[1] = n1 /\ ranks[2] = n2 /\ ranks[3] = n3 /\ ranks[4] = n4
    OBVIOUS
  <1>2. 1 .. 4 = {1, 2, 3, 4} /\ 1 .. 1 - 1 = {} /\ 1 .. 2 - 1 = {1} /\ 1 .. 3 - 1 = {1, 2}
        /\ 1 .. 4 - 1 = {1, 2, 3}
    OBVIOUS
  <1> DEFINE First(i) == ranks[i] < 0 /\ \A j \in 1 .. i - 1 : ranks[j] = 0
  <1>3. (First(1) <=> n1 < 0) /\ (First(2) <=> n1 = 0 /\ n2 < 0)
    BY <1>1, <1>2
  <1>4. First(3) <=> n1 = 0 /\ n2 = 0 /\ n3 < 0
    BY <1>1, <1>2
  <1>5. First(4) <=> n1 = 0 /\ n2 = 0 /\ n3 = 0 /\ n4 < 0
    BY <1>1, <1>2
  <1>6. (\E i \in 1 .. 4 : First(i)) <=> First(1) \/ First(2) \/ First(3) \/ First(4)
    <2> HIDE DEF First
    <2> QED
      BY <1>2
  <1> QED
    BY <1>3, <1>4, <1>5, <1>6

LEMMA BeforeIs ==
  ASSUME NEW S, CandidatesOk(S), NEW a \in S, NEW b \in S,
         NEW p, p = RankScore(a), NEW q, q = RankScore(b),
         NEW x, x = AuthorityOrder[a.authority], NEW y, y = AuthorityOrder[b.authority]
  PROVE  Before(a, b) <=> \/ q < p \/ (q = p /\ x < y)
                          \/ (q = p /\ x = y /\ b.confidence < a.confidence)
                          \/ (q = p /\ x = y /\ b.confidence = a.confidence /\ a.id < b.id)
  <1>1. p \in Int /\ q \in Int /\ x \in Int /\ y \in Int
    BY ScoresAreNumbers
  <1>2. a.confidence \in Int /\ b.confidence \in Int /\ a.id \in Int /\ b.id \in Int
    BY DEF CandidatesOk
  <1>3. PICK n1 \in Int, n2 \in Int, n3 \in Int, n4 \in Int :
          n1 = q - p /\ n2 = x - y /\ n3 = b.confidence - a.confidence /\ n4 = a.id - b.id
    <2>1. q - p \in Int /\ x - y \in Int /\ b.confidence - a.confidence \in Int
          /\ a.id - b.id \in Int
      BY ONLY <1>1, <1>2
    <2> QED
      BY ONLY <2>1
  <1>4. PICK ranks : ranks = <<n1, n2, n3, n4>>
    OBVIOUS
  <1>5. Before(a, b) <=> \E i \in 1 .. 4 : ranks[i] < 0 /\ \A j \in 1 .. i - 1 : ranks[j] = 0
    BY <1>3, <1>4 DEF Before
  <1>6. Before(a, b) <=> \/ n1 < 0 \/ (n1 = 0 /\ n2 < 0) \/ (n1 = 0 /\ n2 = 0 /\ n3 < 0)
                         \/ (n1 = 0 /\ n2 = 0 /\ n3 = 0 /\ n4 < 0)
    BY <1>4, <1>5, FirstDecides
  <1> QED
    BY <1>1, <1>2, <1>3, <1>6

\* The ranking compares any two, and in one way.
LEMMA BeforeOrders ==
  ASSUME NEW S, CandidatesOk(S)
  PROVE  /\ \A a \in S : ~Before(a, a)
         /\ \A a, b \in S : a = b \/ Before(a, b) \/ Before(b, a)
         /\ \A a, b, c \in S : Before(a, b) /\ Before(b, c) => Before(a, c)
  <1> DEFINE Score == [c \in S |-> RankScore(c)]
             Order == [c \in S |-> AuthorityOrder[c.authority]]
  <1>1. Score \in [S -> Int] /\ Order \in [S -> Int]
    BY ScoresAreNumbers
  <1>2. \A a, b \in S :
          Before(a, b) <=> \/ Score[b] < Score[a] \/ (Score[b] = Score[a] /\ Order[a] < Order[b])
                           \/ (/\ Score[b] = Score[a] /\ Order[a] = Order[b]
                               /\ b.confidence < a.confidence)
                           \/ (/\ Score[b] = Score[a] /\ Order[a] = Order[b]
                               /\ b.confidence = a.confidence /\ a.id < b.id)
    BY BeforeIs
  <1>3. \A c \in S : c.confidence \in Int /\ c.id \in Int
    BY DEF CandidatesOk
  <1>4. \A a, b \in S : a.id = b.id => a = b
    BY DEF CandidatesOk
  <1> HIDE DEF Score, Order
  <1>5. \A a \in S : ~Before(a, a)
    BY <1>1, <1>2, <1>3
  <1>6. \A a, b \in S : a = b \/ Before(a, b) \/ Before(b, a)
    BY <1>1, <1>2, <1>3, <1>4
  <1>7. ASSUME NEW a \in S, NEW b \in S, NEW c \in S, Before(a, b), Before(b, c)
        PROVE  Before(a, c)
    BY <1>1, <1>2, <1>3, <1>7
  <1> QED
    BY <1>5, <1>6, <1>7

\* Every candidate has a rank of its own, so that a ranking lists them all.
LEMMA RankedIs ==
  ASSUME NEW S, CandidatesOk(S), NEW ranked, ranked = Ranked(S)
  PROVE  /\ ranked \in Seq(S) /\ Len(ranked) = Cardinality(S)
         /\ DOMAIN ranked = 1 .. Len(ranked)
         /\ \A c \in S : \E i \in 1 .. Len(ranked) : ranked[i] = c
  <1> DEFINE Ahead(c) == {d \in S : Before(d, c)}
             N == Cardinality(S)
             rank == [c \in S |-> Cardinality(Ahead(c)) + 1]
  <1>1. IsFiniteSet(S) /\ N \in Nat /\ IsFiniteSet(1 .. N) /\ Cardinality(1 .. N) = N
    <2>1. IsFiniteSet(S) /\ N \in Nat
      BY FS_CardinalityType DEF CandidatesOk
    <2> HIDE DEF N
    <2> QED
      BY <2>1, FS_Interval
  <1>2. ASSUME NEW c \in S
        PROVE  IsFiniteSet(Ahead(c)) /\ Cardinality(Ahead(c)) \in 0 .. N - 1
    <2>1. Ahead(c) \in SUBSET S /\ Ahead(c) # S
      BY BeforeOrders
    <2> HIDE DEF Ahead
    <2>2. IsFiniteSet(Ahead(c)) /\ Cardinality(Ahead(c)) <= N /\ Cardinality(Ahead(c)) # N
      BY <1>1, <2>1, FS_Subset
    <2>3. Cardinality(Ahead(c)) \in Nat
      BY <2>2, FS_CardinalityType
    <2> HIDE DEF N
    <2> QED
      BY <1>1, <2>2, <2>3
  <1>3. ASSUME NEW c \in S, NEW d \in S, Before(c, d)
        PROVE  rank[c] < rank[d]
    <2>1. Ahead(c) \in SUBSET Ahead(d) /\ Ahead(c) # Ahead(d)
      BY <1>3, BeforeOrders
    <2> HIDE DEF Ahead
    <2>2. /\ Cardinality(Ahead(c)) <= Cardinality(Ahead(d))
          /\ Cardinality(Ahead(c)) # Cardinality(Ahead(d))
      BY <1>2, <2>1, FS_Subset
    <2> HIDE DEF N
    <2> QED
      BY <1>1, <1>2, <2>2
  <1>4. rank \in [S -> 1 .. N]
    <2> HIDE DEF Ahead, N
    <2> QED
      BY <1>1, <1>2
  <1>5. rank \in Injection(S, 1 .. N)
    <2>1. ASSUME NEW c \in S, NEW d \in S, rank[c] = rank[d] PROVE c = d
      <3>1. rank[c] \in Int /\ rank[d] \in Int
        BY <1>4
      <3> HIDE DEF rank
      <3> QED
        BY <1>3, <2>1, <3>1, BeforeOrders
    <2> HIDE DEF rank, N
    <2> QED
      BY <1>4, <2>1 DEF Injection, IsInjective
  <1>6. rank \in Surjection(S, 1 .. N)
    <2> HIDE DEF rank, N
    <2>1. N = Cardinality(S)
      BY DEF N
    <2> QED
      BY <1>1, <1>5, <2>1, FS_Injection
  <1>7. ASSUME NEW i \in 1 .. N
        PROVE  ranked[i] \in S /\ rank[ranked[i]] = i
    <2>1. PICK c \in S : rank[c] = i
      BY <1>6 DEF Surjection
    <2>2. Cardinality(Ahead(c)) = i - 1
      <3> HIDE DEF Ahead, N
      <3> QED
        BY <1>1, <1>2, <2>1
    <2>3. ranked[i] = CHOOSE d \in S : Cardinality(Ahead(d)) = i - 1
      BY DEF Ranked
    <2> HIDE DEF Ahead
    <2>4. ranked[i] \in S /\ Cardinality(Ahead(ranked[i])) = i - 1
      BY <2>2, <2>3
    <2> HIDE DEF N
    <2> QED
      BY <1>1, <2>4
  <1>8. ranked \in Seq(S) /\ Len(ranked) = N /\ DOMAIN ranked = 1 .. N
    <2>1. ranked = [i \in 1 .. N |-> CHOOSE c \in S : Cardinality(Ahead(c)) = i - 1]
      BY DEF Ranked
    <2> HIDE DEF Ahead
    <2> HIDE DEF N
    <2>2. DOMAIN ranked = 1 .. N /\ ranked = [i \in 1 .. N |-> ranked[i]]
      BY <2>1
    <2>3. ranked \in [1 .. N -> S]
      BY <1>7, <2>2
    <2> QED
      BY <1>1, <2>2, <2>3
  <1>9. ASSUME NEW c \in S PROVE \E i \in 1 .. N : ranked[i] = c
    <2>1. rank[c] \in 1 .. N
      BY <1>4
    <2>2. ranked[rank[c]] \in S /\ rank[ranked[rank[c]]] = rank[c]
      BY <1>7, <2>1
    <2> HIDE DEF rank, N
    <2> QED
      BY <1>5, <2>1, <2>2 DEF Injection, IsInjective
  <1> QED
    BY <1>8, <1>9

-----------------------------------------------------------------------------
(* The selection of evidence.                                              *)

UsableOf(S) == {c \in S : Usable(c)}
Selections(S) == [items : Seq(UsableOf(S)), truncated : BOOLEAN]
Includes(items, c) == \E i \in 1 .. Len(items) : items[i] = c
Extends(a, b) == Len(a) <= Len(b) /\ \A i \in 1 .. Len(a) : b[i] = a[i]

\* No more items are allowed, or not the sources of this one.
NoRoom(items, c, budget) ==
  \/ Len(items) >= budget.items
  \/ Cardinality(SourcesOf(items) \cup c.sources) > budget.sources

\* A candidate is known by its id.
LEMMA HasIs ==
  ASSUME NEW S, CandidatesOk(S), NEW items \in Seq(UsableOf(S)), NEW c \in S
  PROVE  Has(items, c) <=> Includes(items, c)
  <1>1. \A i \in 1 .. Len(items) : items[i] \in S
    BY DEF UsableOf
  <1>2. \A i \in 1 .. Len(items) : items[i].id = c.id <=> items[i] = c
    BY <1>1 DEF CandidatesOk
  <1> QED
    BY <1>2 DEF Has, Includes

\* The sources of a longer selection are more.
LEMMA SourcesGrow ==
  ASSUME NEW S, CandidatesOk(S), NEW a \in Seq(UsableOf(S)), NEW b \in Seq(UsableOf(S)),
         Extends(a, b), NEW c \in S
  PROVE  /\ Cardinality(SourcesOf(a) \cup c.sources) \in Nat
         /\ Cardinality(SourcesOf(b) \cup c.sources) \in Nat
         /\ Cardinality(SourcesOf(a) \cup c.sources) <= Cardinality(SourcesOf(b) \cup c.sources)
  <1> DEFINE All == UNION {x.sources : x \in S}
             A == SourcesOf(a) \cup c.sources
             B == SourcesOf(b) \cup c.sources
  <1>1. \A i \in 1 .. Len(b) : b[i] \in S
    BY DEF UsableOf
  <1>2. B \subseteq All
    BY <1>1 DEF SourcesOf
  <1>3. A \subseteq B
    <2>1. \A i \in 1 .. Len(a) : i \in 1 .. Len(b) /\ b[i] = a[i]
      BY DEF Extends
    <2> QED
      BY <2>1 DEF SourcesOf
  <1>4. IsFiniteSet(All)
    BY DEF CandidatesOk
  <1> HIDE DEF All, A, B
  <1>5. IsFiniteSet(A) /\ IsFiniteSet(B) /\ Cardinality(A) <= Cardinality(B)
    BY <1>2, <1>3, <1>4, FS_Subset
  <1>6. Cardinality(A) \in Nat /\ Cardinality(B) \in Nat
    BY <1>5, FS_CardinalityType
  <1> QED
    BY <1>5, <1>6 DEF A, B

\* A candidate that is tried is in the selection then, or there is no room.
LEMMA TrySelectIs ==
  ASSUME NEW S, CandidatesOk(S), NEW s \in Selections(S), NEW c \in S,
         NEW budget \in [items : Nat, sources : Nat, tokens : Nat],
         NEW t, t = TrySelect(s, c, budget)
  PROVE  /\ t \in Selections(S)
         /\ t.items = s.items \/ (t.items = Append(s.items, c) /\ Len(s.items) < budget.items)
         /\ Extends(s.items, t.items)
         /\ Usable(c) /\ ~t.truncated => Includes(t.items, c)
         /\ Usable(c) => Includes(t.items, c) \/ (t.items = s.items /\ NoRoom(s.items, c, budget))
  <1>1. PICK items, truncated :
          /\ s = [items |-> items, truncated |-> truncated]
          /\ items \in Seq(UsableOf(S)) /\ truncated \in BOOLEAN
    BY DEF Selections
  <1>2. PICK N : N = Len(items) /\ N \in Nat
    BY <1>1
  <1>3. Has(s.items, c) <=> Includes(s.items, c)
    BY <1>1, HasIs
  <1>4. Extends(items, items)
    BY <1>2 DEF Extends
  <1>5. CASE Has(s.items, c) \/ ~Usable(c)
    <2>1. t = s
      BY <1>5 DEF TrySelect
    <2> QED
      BY <1>1, <1>3, <1>4, <1>5, <2>1
  <1>6. CASE /\ ~Has(s.items, c) /\ Usable(c) /\ Len(s.items) < budget.items
             /\ Cardinality(SourcesOf(s.items) \cup c.sources) <= budget.sources
    <2>1. t = [s EXCEPT !.items = Append(@, c)]
      BY <1>6 DEF TrySelect
    <2>2. PICK longer : longer = Append(items, c)
      OBVIOUS
    <2>3. t = [items |-> longer, truncated |-> truncated]
      BY ONLY <1>1, <2>1, <2>2
    <2>4. c \in UsableOf(S)
      BY <1>6 DEF UsableOf
    <2>5. /\ longer \in Seq(UsableOf(S)) /\ Len(longer) = N + 1 /\ longer[N + 1] = c
          /\ \A i \in 1 .. N : longer[i] = items[i]
      BY <1>1, <1>2, <2>2, <2>4
    <2>6. Includes(longer, c) /\ Extends(items, longer)
      BY <1>2, <2>5 DEF Includes, Extends
    <2>7. t \in Selections(S)
      BY ONLY <1>1, <2>3, <2>5 DEF Selections
    <2>8. t.items = longer /\ s.items = items
      BY ONLY <1>1, <2>3
    <2> QED
      BY <1>6, <2>2, <2>6, <2>7, <2>8
  <1>7. CASE /\ ~(Has(s.items, c) \/ ~Usable(c))
             /\ ~(/\ ~Has(s.items, c) /\ Usable(c) /\ Len(s.items) < budget.items
                  /\ Cardinality(SourcesOf(s.items) \cup c.sources) <= budget.sources)
    <2>1. t = [s EXCEPT !.truncated = TRUE]
      BY <1>7 DEF TrySelect
    <2>2. t = [items |-> items, truncated |-> TRUE]
      BY <1>1, <2>1
    <2>3. Cardinality(SourcesOf(items) \cup c.sources) \in Nat
      BY <1>1, <1>4, SourcesGrow
    <2>4. NoRoom(items, c, budget)
      BY <1>1, <1>2, <1>7, <2>3 DEF NoRoom
    <2>5. t \in Selections(S)
      BY ONLY <1>1, <2>2 DEF Selections
    <2>6. t.items = items /\ s.items = items /\ t.truncated
      BY ONLY <1>1, <2>2
    <2> QED
      BY <1>4, <2>4, <2>5, <2>6
  <1> QED
    BY <1>5, <1>6, <1>7

LEMMA ExtendsTransitive ==
  ASSUME NEW X, NEW a \in Seq(X), NEW b \in Seq(X), NEW d \in Seq(X), Extends(a, b), Extends(b, d)
  PROVE  Extends(a, d)
  <1>1. Len(a) \in Nat /\ Len(b) \in Nat /\ Len(d) \in Nat
    OBVIOUS
  <1> QED
    BY <1>1 DEF Extends

\* There is no more room later.
LEMMA NoRoomStays ==
  ASSUME NEW S, CandidatesOk(S), NEW a \in Seq(UsableOf(S)), NEW b \in Seq(UsableOf(S)),
         Extends(a, b), NEW c \in S, NEW budget \in [items : Nat, sources : Nat, tokens : Nat],
         Includes(a, c) \/ NoRoom(a, c, budget)
  PROVE  Includes(b, c) \/ NoRoom(b, c, budget)
  <1>1. /\ Len(a) \in Nat /\ Len(b) \in Nat /\ Len(a) <= Len(b)
        /\ budget.items \in Nat /\ budget.sources \in Nat
    BY DEF Extends
  <1>2. Includes(a, c) => Includes(b, c)
    BY <1>1 DEF Extends, Includes
  <1>3. NoRoom(a, c, budget) => NoRoom(b, c, budget)
    <2>1. PICK m \in Nat, n \in Nat : /\ m = Cardinality(SourcesOf(a) \cup c.sources)
                                      /\ n = Cardinality(SourcesOf(b) \cup c.sources) /\ m <= n
      BY SourcesGrow
    <2> QED
      BY <1>1, <2>1 DEF NoRoom
  <1> QED
    BY <1>2, <1>3

-----------------------------------------------------------------------------
(* The loops of the selection.                                             *)

Start == [items |-> <<>>, truncated |-> FALSE]

\* The same items, or one of C after them.
Grown(a, b, C) == b = a \/ \E c \in C : b = Append(a, c)

\* The best of a kind is one of the candidates, and usable.
LEMMA BestIsUsable ==
  ASSUME NEW S, NEW ranked \in Seq(S), NEW kind
  PROVE  /\ BestOf(ranked, kind) \subseteq {c \in UsableOf(S) : c.kind = kind}
         /\ \A a, b \in BestOf(ranked, kind) : a = b
  <1> DEFINE First(m) == /\ m \in OfKind(ranked, kind) /\ Usable(ranked[m])
                         /\ \A l \in OfKind(ranked, kind) : l < m => ~Usable(ranked[l])
  <1>1. BestOf(ranked, kind) = {ranked[n] : n \in {m \in OfKind(ranked, kind) : First(m)}}
    BY DEF BestOf
  <1>2. \A m \in OfKind(ranked, kind) : m \in Nat /\ ranked[m] \in S /\ ranked[m].kind = kind
    BY DEF OfKind
  <1>3. \A m, n \in OfKind(ranked, kind) : First(m) /\ First(n) => m = n
    <2> SUFFICES ASSUME NEW m \in OfKind(ranked, kind), NEW n \in OfKind(ranked, kind),
                        First(m), First(n)
                 PROVE  m = n
      OBVIOUS
    <2>1. ~(m < n) /\ ~(n < m)
      OBVIOUS
    <2> QED
      BY <1>2, <2>1
  <1>4. \A m : First(m) => Usable(ranked[m])
    OBVIOUS
  <1> HIDE DEF First
  <1> QED
    BY <1>1, <1>2, <1>3, <1>4 DEF UsableOf

LEMMA TryBestIs ==
  ASSUME NEW S, CandidatesOk(S), NEW ranked \in Seq(S), NEW s \in Selections(S), NEW kind,
         NEW budget \in [items : Nat, sources : Nat, tokens : Nat],
         NEW t, t = TryBest(s, ranked, kind, budget)
  PROVE  /\ t \in Selections(S) /\ Extends(s.items, t.items)
         /\ Grown(s.items, t.items, BestOf(ranked, kind))
         /\ \A c \in BestOf(ranked, kind) : Includes(t.items, c) \/ NoRoom(t.items, c, budget)
  <1>1. CASE BestOf(ranked, kind) = {}
    <2>1. t = s
      BY <1>1 DEF TryBest
    <2>2. Extends(s.items, s.items)
      <3>1. PICK items : items = s.items /\ items \in Seq(UsableOf(S))
        BY DEF Selections
      <3>2. Extends(items, items)
        BY <3>1 DEF Extends
      <3> QED
        BY <3>1, <3>2
    <2> QED
      BY <1>1, <2>1, <2>2 DEF Grown
  <1>2. CASE BestOf(ranked, kind) # {}
    <2>1. PICK c \in BestOf(ranked, kind) : t = TrySelect(s, c, budget)
      BY <1>2 DEF TryBest
    <2>2. c \in S /\ Usable(c) /\ \A d \in BestOf(ranked, kind) : d = c
      BY <2>1, BestIsUsable DEF UsableOf
    <2>3. /\ t \in Selections(S) /\ Extends(s.items, t.items)
          /\ t.items = s.items \/ t.items = Append(s.items, c)
      BY <2>1, <2>2, TrySelectIs
    <2>4. Includes(t.items, c) \/ (t.items = s.items /\ NoRoom(s.items, c, budget))
      BY <2>1, <2>2, TrySelectIs
    <2>5. Grown(s.items, t.items, BestOf(ranked, kind))
      BY <2>1, <2>3 DEF Grown
    <2> QED
      BY <2>1, <2>2, <2>3, <2>4, <2>5
  <1> QED
    BY <1>1, <1>2

\* The required kinds get the first places, one after another,
LEMMA RequiredScan ==
  ASSUME NEW S, CandidatesOk(S), NEW ranked \in Seq(S), NEW kinds \in Seq(Kinds),
         NEW budget \in [items : Nat, sources : Nat, tokens : Nat]
  PROVE  \E after \in [0 .. Len(kinds) -> Selections(S)] :
           /\ after[0] = Start /\ after[Len(kinds)] = Required(ranked, kinds, budget)
           /\ \A n \in 1 .. Len(kinds) : after[n] = TryBest(after[n - 1], ranked, kinds[n], budget)
  <1> DEFINE N == Len(kinds)
             F == [n \in Nat |-> [x \in Selections(S) |->
                     IF n \in 1 .. N THEN TryBest(x, ranked, kinds[n], budget) ELSE x]]
             after == CHOOSE f : f = [n \in 0 .. N |->
                        IF n = 0 THEN Start ELSE TryBest(f[n - 1], ranked, kinds[n], budget)]
  <1>1. N \in Nat /\ N \in 0 .. N
    BY Len(kinds) \in Nat
  <1>2. \A n \in 1 .. N, x \in Selections(S) :
          TryBest(x, ranked, kinds[n], budget) \in Selections(S)
    BY TryBestIs
  <1>3. F \in [Nat -> [Selections(S) -> Selections(S)]]
    BY <1>1, <1>2
  <1>4. \A n \in 1 .. N, x \in Selections(S) : F[n][x] = TryBest(x, ranked, kinds[n], budget)
    BY <1>1
  <1> HIDE DEF F
  <1>5. PICK x0 \in Selections(S) : x0 = Start
    <2>1. <<>> \in Seq(UsableOf(S))
      OBVIOUS
    <2> QED
      BY <2>1 DEF Start, Selections
  <1>6. PICK X, M, G : X = Selections(S) /\ M = N /\ G = F
    OBVIOUS
  <1>7. PICK f : /\ f \in [0 .. N -> Selections(S)] /\ f[0] = x0
                 /\ \A n \in 1 .. N : f[n] = F[n][f[n - 1]]
    <2>1. x0 \in X /\ M \in Nat /\ G \in [Nat -> [X -> X]]
      BY <1>1, <1>3, <1>6
    <2>2. PICK h : Iterates(h, x0, G, M)
      BY ONLY <2>1, IteratesExist
    <2>3. h \in [0 .. M -> X]
      BY ONLY <2>1, <2>2, IteratesTyped
    <2>4. h[0] = x0
      BY <2>1, <2>2 DEF Iterates
    <2>5. \A n \in 1 .. M : h[n] = G[n][h[n - 1]]
      BY <2>1, <2>2 DEF Iterates
    <2> QED
      BY <1>6, <2>3, <2>4, <2>5
  <1>8. f = [n \in 0 .. N |-> IF n = 0 THEN Start ELSE TryBest(f[n - 1], ranked, kinds[n], budget)]
    <2>1. \A n \in 1 .. N : n - 1 \in 0 .. N
      BY <1>1
    <2>2. \A n \in 1 .. N : f[n] = TryBest(f[n - 1], ranked, kinds[n], budget)
      BY <1>4, <1>7, <2>1
    <2>3. \A n \in 0 .. N :
            f[n] = IF n = 0 THEN Start ELSE TryBest(f[n - 1], ranked, kinds[n], budget)
      BY <1>1, <1>5, <1>7, <2>2
    <2> QED
      BY <1>7, <2>3
  <1>9. after = [n \in 0 .. N |->
                   IF n = 0 THEN Start ELSE TryBest(after[n - 1], ranked, kinds[n], budget)]
    BY <1>8
  <1>10. Required(ranked, kinds, budget) = after[N]
    BY DEF Required, Start
  <1> HIDE DEF after
  <1>11. /\ after[0] = x0
         /\ \A n \in 1 .. N : after[n] = TryBest(after[n - 1], ranked, kinds[n], budget)
    BY <1>1, <1>5, <1>9
  <1>12. after \in [0 .. N -> Selections(S)]
    <2> DEFINE Typed == {n \in 0 .. N : after[n] \in Selections(S)}
    <2>1. 0 \in Typed
      BY <1>1, <1>5, <1>11
    <2>2. ASSUME NEW n \in 0 .. N, n < N, n \in Typed PROVE n + 1 \in Typed
      <3>1. PICK m : m = n + 1
        OBVIOUS
      <3>2. m \in 1 .. N /\ m \in 0 .. N /\ m - 1 = n
        BY <1>1, <2>2, <3>1
      <3>3. after[m] \in Selections(S)
        BY <1>2, <1>11, <2>2, <3>2
      <3> QED
        BY <3>1, <3>2, <3>3
    <2>3. 0 .. N \subseteq Typed
      <3>1. \A n \in 0 .. N : n < N /\ n \in Typed => n + 1 \in Typed
        BY <2>2
      <3> HIDE DEF Typed
      <3> QED
        BY ONLY <2>1, <3>1, <1>1, BoundedInduction
    <2> QED
      BY <1>9, <2>3
  <1>13. after[Len(kinds)] = Required(ranked, kinds, budget)
    BY <1>10
  <1> HIDE DEF N
  <1> QED
    BY <1>5, <1>11, <1>12, <1>13 DEF N

LEMMA TryNextIs ==
  ASSUME NEW S, CandidatesOk(S), NEW ranked \in Seq(S), NEW s \in Selections(S),
         NEW n \in 1 .. Len(ranked),
         NEW budget \in [items : Nat, sources : Nat, tokens : Nat],
         NEW t, t = TryNext(s, ranked, n, budget)
  PROVE  /\ t \in Selections(S) /\ Extends(s.items, t.items)
         /\ Len(s.items) >= budget.items => t.items = s.items
         /\ ~t.truncated => \/ \A m \in 1 .. Len(ranked) : Includes(t.items, ranked[m])
                            \/ ~s.truncated /\ (Usable(ranked[n]) => Includes(t.items, ranked[n]))
  <1>1. PICK items, truncated :
          /\ s = [items |-> items, truncated |-> truncated]
          /\ items \in Seq(UsableOf(S)) /\ truncated \in BOOLEAN
    BY DEF Selections
  <1>2. \A m \in 1 .. Len(ranked) : ranked[m] \in S
    OBVIOUS
  <1>3. CASE Len(s.items) >= budget.items
    <2>1. PICK left \in BOOLEAN : left <=> \E i \in 1 .. Len(ranked) : ~Has(items, ranked[i])
      OBVIOUS
    <2>2. t = [items |-> items, truncated |-> left]
      BY <1>1, <1>3, <2>1 DEF TryNext
    <2>3. ~left => \A m \in 1 .. Len(ranked) : Includes(items, ranked[m])
      BY <1>1, <1>2, <2>1, HasIs
    <2>4. Extends(items, items)
      BY <1>1 DEF Extends
    <2> QED
      BY <1>1, <2>2, <2>3, <2>4 DEF Selections
  <1>4. CASE ~(Len(s.items) >= budget.items)
    <2>1. t = TrySelect(s, ranked[n], budget) /\ ranked[n] \in S
      BY <1>2, <1>4 DEF TryNext
    <2>2. /\ t \in Selections(S) /\ Extends(s.items, t.items)
          /\ Usable(ranked[n]) /\ ~t.truncated => Includes(t.items, ranked[n])
      BY <2>1, TrySelectIs
    <2>3. s.truncated => t.truncated
      BY <1>1, <2>1 DEF TrySelect
    <2> QED
      BY <1>4, <2>2, <2>3
  <1> QED
    BY <1>3, <1>4

\* and the rest is tried in the order of rank.
LEMMA FillScan ==
  ASSUME NEW S, CandidatesOk(S), NEW ranked \in Seq(S), NEW s \in Selections(S),
         NEW budget \in [items : Nat, sources : Nat, tokens : Nat]
  PROVE  \E after \in [0 .. Len(ranked) -> Selections(S)] :
           /\ after[0] = s /\ after[Len(ranked)] = Fill(s, ranked, budget)
           /\ \A n \in 1 .. Len(ranked) : after[n] = TryNext(after[n - 1], ranked, n, budget)
  <1> DEFINE N == Len(ranked)
             F == [n \in Nat |-> [x \in Selections(S) |->
                     IF n \in 1 .. N THEN TryNext(x, ranked, n, budget) ELSE x]]
             after == CHOOSE f : f = [n \in 0 .. N |->
                        IF n = 0 THEN s ELSE TryNext(f[n - 1], ranked, n, budget)]
  <1>1. N \in Nat /\ N \in 0 .. N
    BY Len(ranked) \in Nat
  <1>2. \A n \in 1 .. N, x \in Selections(S) : TryNext(x, ranked, n, budget) \in Selections(S)
    BY TryNextIs
  <1>3. F \in [Nat -> [Selections(S) -> Selections(S)]]
    BY <1>1, <1>2
  <1>4. \A n \in 1 .. N, x \in Selections(S) : F[n][x] = TryNext(x, ranked, n, budget)
    BY <1>1
  <1> HIDE DEF F
  <1>5. PICK x0 \in Selections(S) : x0 = s
    OBVIOUS
  <1>6. PICK X, M, G : X = Selections(S) /\ M = N /\ G = F
    OBVIOUS
  <1>7. PICK f : /\ f \in [0 .. N -> Selections(S)] /\ f[0] = x0
                 /\ \A n \in 1 .. N : f[n] = F[n][f[n - 1]]
    <2>1. x0 \in X /\ M \in Nat /\ G \in [Nat -> [X -> X]]
      BY <1>1, <1>3, <1>6
    <2>2. PICK h : Iterates(h, x0, G, M)
      BY ONLY <2>1, IteratesExist
    <2>3. h \in [0 .. M -> X]
      BY ONLY <2>1, <2>2, IteratesTyped
    <2>4. h[0] = x0
      BY <2>1, <2>2 DEF Iterates
    <2>5. \A n \in 1 .. M : h[n] = G[n][h[n - 1]]
      BY <2>1, <2>2 DEF Iterates
    <2> QED
      BY <1>6, <2>3, <2>4, <2>5
  <1>8. f = [n \in 0 .. N |-> IF n = 0 THEN s ELSE TryNext(f[n - 1], ranked, n, budget)]
    <2>1. \A n \in 1 .. N : n - 1 \in 0 .. N
      BY <1>1
    <2>2. \A n \in 1 .. N : f[n] = TryNext(f[n - 1], ranked, n, budget)
      BY <1>4, <1>7, <2>1
    <2>3. \A n \in 0 .. N : f[n] = IF n = 0 THEN s ELSE TryNext(f[n - 1], ranked, n, budget)
      BY <1>1, <1>5, <1>7, <2>2
    <2> QED
      BY <1>7, <2>3
  <1>9. after = [n \in 0 .. N |-> IF n = 0 THEN s ELSE TryNext(after[n - 1], ranked, n, budget)]
    BY <1>8
  <1>10. Fill(s, ranked, budget) = after[N]
    BY DEF Fill
  <1> HIDE DEF after
  <1>11. after[0] = x0 /\ \A n \in 1 .. N : after[n] = TryNext(after[n - 1], ranked, n, budget)
    BY <1>1, <1>5, <1>9
  <1>12. after \in [0 .. N -> Selections(S)]
    <2> DEFINE Typed == {n \in 0 .. N : after[n] \in Selections(S)}
    <2>1. 0 \in Typed
      BY <1>1, <1>5, <1>11
    <2>2. ASSUME NEW n \in 0 .. N, n < N, n \in Typed PROVE n + 1 \in Typed
      <3>1. PICK m : m = n + 1
        OBVIOUS
      <3>2. m \in 1 .. N /\ m \in 0 .. N /\ m - 1 = n
        BY <1>1, <2>2, <3>1
      <3>3. after[m] \in Selections(S)
        BY <1>2, <1>11, <2>2, <3>2
      <3> QED
        BY <3>1, <3>2, <3>3
    <2>3. 0 .. N \subseteq Typed
      <3>1. \A n \in 0 .. N : n < N /\ n \in Typed => n + 1 \in Typed
        BY <2>2
      <3> HIDE DEF Typed
      <3> QED
        BY ONLY <2>1, <3>1, <1>1, BoundedInduction
    <2> QED
      BY <1>9, <2>3
  <1>13. after[Len(ranked)] = Fill(s, ranked, budget)
    BY <1>10
  <1> HIDE DEF N
  <1> QED
    BY <1>5, <1>11, <1>12, <1>13 DEF N

-----------------------------------------------------------------------------
(* What is selected.                                                       *)

\* A longer selection holds what the shorter one does.
LEMMA InclusionStays ==
  ASSUME NEW X, NEW a \in Seq(X), NEW b \in Seq(X), Extends(a, b), NEW c, Includes(a, c)
  PROVE  Includes(b, c)
  <1>1. Len(a) \in Nat /\ Len(b) \in Nat
    OBVIOUS
  <1> QED
    BY <1>1 DEF Includes, Extends

\* The first places hold the best of required kinds, as many as there was room
\* for.
LEMMA RequiredIs ==
  ASSUME NEW S, CandidatesOk(S), NEW ranked \in Seq(S), NEW kinds \in Seq(Kinds),
         NEW budget \in [items : Nat, sources : Nat, tokens : Nat],
         NEW q, q = Required(ranked, kinds, budget)
  PROVE  /\ q \in Selections(S)
         /\ \A i \in 1 .. Len(q.items) : \E j \in 1 .. Len(kinds) :
              q.items[i] \in BestOf(ranked, kinds[j])
         /\ \A j \in 1 .. Len(kinds) : \A c \in BestOf(ranked, kinds[j]) :
              Includes(q.items, c) \/ NoRoom(q.items, c, budget)
  <1> DEFINE N == Len(kinds)
             Best(j) == BestOf(ranked, kinds[j])
             OnlyBest(items) == \A i \in 1 .. Len(items) : \E j \in 1 .. N : items[i] \in Best(j)
             Tried(items, n) == \A j \in 1 .. n : \A c \in Best(j) :
                                  Includes(items, c) \/ NoRoom(items, c, budget)
  <1>1. PICK after \in [0 .. N -> Selections(S)] :
          /\ after[0] = Start /\ after[N] = q
          /\ \A n \in 1 .. N : after[n] = TryBest(after[n - 1], ranked, kinds[n], budget)
    BY RequiredScan
  <1>2. N \in Nat /\ N \in 0 .. N
    BY Len(kinds) \in Nat
  <1>3. \A j \in 1 .. N : Best(j) \subseteq S
    BY BestIsUsable DEF UsableOf
  <1> HIDE DEF N
  <1> DEFINE Good == {n \in 0 .. N : OnlyBest(after[n].items) /\ Tried(after[n].items, n)}
  <1>4. 0 \in Good
    <2>1. after[0].items = <<>> /\ Len(<<>>) = 0 /\ 0 \in 0 .. N
      BY <1>1, <1>2 DEF Start
    <2> QED
      BY <2>1
  <1>5. ASSUME NEW n \in 0 .. N, n < N, n \in Good
        PROVE  n + 1 \in Good
    <2>1. PICK m : m = n + 1 /\ m \in 1 .. N /\ m \in 0 .. N /\ m - 1 = n
      <3>1. n + 1 \in 1 .. N /\ n + 1 \in 0 .. N /\ n + 1 - 1 = n
        BY ONLY <1>2, n < N, n \in 0 .. N
      <3> QED
        BY ONLY <3>1
    <2>2. PICK s, t, kind : /\ s = after[n] /\ t = after[m] /\ kind = kinds[m]
                            /\ s \in Selections(S) /\ t = TryBest(s, ranked, kind, budget)
      BY <1>1, <2>1
    <2>3. /\ t \in Selections(S) /\ Extends(s.items, t.items)
          /\ Grown(s.items, t.items, BestOf(ranked, kind))
          /\ \A c \in BestOf(ranked, kind) : Includes(t.items, c) \/ NoRoom(t.items, c, budget)
      <3>1. t \in Selections(S) /\ Extends(s.items, t.items)
        BY <2>2, TryBestIs
      <3>2. Grown(s.items, t.items, BestOf(ranked, kind))
        BY <2>2, TryBestIs
      <3>3. \A c \in BestOf(ranked, kind) : Includes(t.items, c) \/ NoRoom(t.items, c, budget)
        BY <2>2, TryBestIs
      <3> QED
        BY <3>1, <3>2, <3>3
    <2>4. PICK a \in Seq(UsableOf(S)), b \in Seq(UsableOf(S)) : a = s.items /\ b = t.items
      BY <2>2, <2>3 DEF Selections
    <2>5. OnlyBest(a) /\ Tried(a, n)
      BY <1>5, <2>2, <2>4
    <2>6. OnlyBest(b)
      <3>1. CASE b = a
        BY <2>5, <3>1
      <3>2. ASSUME NEW c \in BestOf(ranked, kind), b = Append(a, c)
            PROVE  OnlyBest(b)
        <4>1. c \in Best(m)
          BY <2>2
        <4>2. \A i \in 1 .. Len(b) : i \in 1 .. Len(a) \/ i = Len(a) + 1
          BY <3>2
        <4>3. (\A i \in 1 .. Len(a) : b[i] = a[i]) /\ b[Len(a) + 1] = c
          BY <3>2
        <4> HIDE DEF Best
        <4> QED
          BY <2>1, <2>5, <4>1, <4>2, <4>3
      <3> QED
        BY <2>3, <2>4, <3>1, <3>2 DEF Grown
    <2>7. \A j \in 1 .. n : \A c \in Best(j) : Includes(b, c) \/ NoRoom(b, c, budget)
      <3> SUFFICES ASSUME NEW j \in 1 .. n, NEW c \in Best(j)
                   PROVE  Includes(b, c) \/ NoRoom(b, c, budget)
        OBVIOUS
      <3>1. c \in S
        BY <1>2, <1>3, <2>1
      <3>2. Includes(a, c) \/ NoRoom(a, c, budget)
        BY <2>5
      <3>3. Extends(a, b)
        BY <2>3, <2>4
      <3> QED
        BY ONLY <2>4, <3>1, <3>2, <3>3, NoRoomStays, CandidatesOk(S),
                budget \in [items : Nat, sources : Nat, tokens : Nat]
    <2>8. \A c \in Best(m) : Includes(b, c) \/ NoRoom(b, c, budget)
      BY <2>2, <2>3, <2>4
    <2>9. Tried(b, m)
      <3>1. \A j \in 1 .. m : j \in 1 .. n \/ j = m
        BY <2>1
      <3> HIDE DEF Best
      <3> QED
        BY <2>7, <2>8, <3>1
    <2> HIDE DEF OnlyBest, Tried
    <2> QED
      BY <2>1, <2>2, <2>4, <2>6, <2>9
  <1>6. 0 .. N \subseteq Good
    <2>1. \A n \in 0 .. N : n < N /\ n \in Good => n + 1 \in Good
      BY <1>5
    <2> HIDE DEF Good
    <2> QED
      BY ONLY <1>2, <1>4, <2>1, BoundedInduction
  <1>7. OnlyBest(q.items) /\ Tried(q.items, N) /\ q \in Selections(S)
    <2> HIDE DEF OnlyBest, Tried
    <2> QED
      BY <1>1, <1>2, <1>6
  <1> QED
    BY <1>7 DEF N

\* Filling keeps the first places; unless it truncates, all that is usable is
\* held then.
LEMMA FillIs ==
  ASSUME NEW S, CandidatesOk(S), NEW ranked \in Seq(S), NEW s \in Selections(S),
         NEW budget \in [items : Nat, sources : Nat, tokens : Nat],
         NEW t, t = Fill(s, ranked, budget)
  PROVE  /\ t \in Selections(S) /\ Extends(s.items, t.items)
         /\ Len(s.items) >= budget.items => t.items = s.items
         /\ ~t.truncated => \A m \in 1 .. Len(ranked) :
                              Usable(ranked[m]) => Includes(t.items, ranked[m])
  <1> DEFINE N == Len(ranked)
             Kept(u) == /\ Extends(s.items, u.items)
                        /\ Len(s.items) >= budget.items => u.items = s.items
             Given(u, n) == ~u.truncated => \A m \in 1 .. n :
                              Usable(ranked[m]) => Includes(u.items, ranked[m])
  <1>1. PICK after \in [0 .. N -> Selections(S)] :
          /\ after[0] = s /\ after[N] = t
          /\ \A n \in 1 .. N : after[n] = TryNext(after[n - 1], ranked, n, budget)
    BY FillScan
  <1>2. N \in Nat /\ N \in 0 .. N
    BY Len(ranked) \in Nat
  <1>3. PICK a \in Seq(UsableOf(S)) : a = s.items
    BY DEF Selections
  <1> DEFINE Good == {n \in 0 .. N : Kept(after[n]) /\ Given(after[n], n)}
  <1>4. 0 \in Good
    <2>1. Extends(a, a) /\ 0 \in 0 .. N
      BY <1>2 DEF Extends
    <2> QED
      BY <1>1, <1>3, <2>1
  <1>5. ASSUME NEW n \in 0 .. N, n < N, n \in Good
        PROVE  n + 1 \in Good
    <2>1. PICK m : m = n + 1 /\ m \in 1 .. N /\ m \in 0 .. N /\ m - 1 = n
      <3>1. n + 1 \in 1 .. N /\ n + 1 \in 0 .. N /\ n + 1 - 1 = n
        BY ONLY <1>2, n < N, n \in 0 .. N
      <3> QED
        BY ONLY <3>1
    <2>2. PICK u, v : /\ u = after[n] /\ v = after[m] /\ u \in Selections(S)
                      /\ v = TryNext(u, ranked, m, budget)
      BY <1>1, <2>1
    <2>3. /\ v \in Selections(S) /\ Extends(u.items, v.items)
          /\ Len(u.items) >= budget.items => v.items = u.items
          /\ ~v.truncated => \/ \A k \in 1 .. Len(ranked) : Includes(v.items, ranked[k])
                             \/ ~u.truncated /\ (Usable(ranked[m]) => Includes(v.items, ranked[m]))
      <3>1. m \in 1 .. Len(ranked)
        BY <2>1
      <3> QED
        BY ONLY <2>2, <3>1, TryNextIs, CandidatesOk(S), ranked \in Seq(S),
                budget \in [items : Nat, sources : Nat, tokens : Nat]
    <2>4. PICK b \in Seq(UsableOf(S)), d \in Seq(UsableOf(S)) : b = u.items /\ d = v.items
      BY <2>2, <2>3 DEF Selections
    <2>5. Kept(u) /\ Given(u, n)
      BY <1>5, <2>2
    <2>6. Extends(a, d)
      <3>1. Extends(a, b) /\ Extends(b, d)
        BY <1>3, <2>3, <2>4, <2>5
      <3> QED
        BY ONLY <1>3, <2>4, <3>1, ExtendsTransitive
    <2>7. Len(a) >= budget.items => d = a
      BY <1>3, <2>3, <2>4, <2>5
    <2>8. ASSUME ~v.truncated, NEW k \in 1 .. m, Usable(ranked[k])
          PROVE  Includes(d, ranked[k])
      <3>1. k \in 1 .. N
        BY <1>2, <2>1
      <3>2. CASE \A i \in 1 .. N : Includes(d, ranked[i])
        BY <3>1, <3>2
      <3>3. CASE ~u.truncated /\ (Usable(ranked[m]) => Includes(d, ranked[m]))
        <4>1. CASE k = m
          BY <2>8, <3>3, <4>1
        <4>2. CASE k # m
          <5>1. k \in 1 .. n
            BY <2>1, <4>2
          <5>2. Includes(b, ranked[k])
            BY <2>4, <2>5, <2>8, <3>3, <5>1
          <5>3. Extends(b, d)
            BY <2>3, <2>4
          <5> QED
            BY ONLY <2>4, <5>2, <5>3, InclusionStays
        <4> QED
          BY <4>1, <4>2
      <3> QED
        BY <2>3, <2>4, <2>8, <3>2, <3>3
    <2>9. Kept(v) /\ Given(v, m)
      BY <1>3, <2>4, <2>6, <2>7, <2>8
    <2> HIDE DEF Kept, Given
    <2> QED
      BY <2>1, <2>2, <2>9
  <1>6. 0 .. N \subseteq Good
    <2>1. \A n \in 0 .. N : n < N /\ n \in Good => n + 1 \in Good
      BY <1>5
    <2> HIDE DEF Good, N
    <2> QED
      BY ONLY <1>2, <1>4, <2>1, BoundedInduction
  <1>7. Kept(t) /\ Given(t, N) /\ t \in Selections(S)
    <2> HIDE DEF Kept, Given
    <2> QED
      BY <1>1, <1>2, <1>6
  <1> QED
    BY <1>7

\* The cut keeps the first of the items.
LEMMA CutIs ==
  ASSUME NEW X, NEW items \in Seq(X), NEW gaps, NEW budget
  PROVE  \E n \in 0 .. Len(items) : Cut(items, gaps, budget) = SubSeq(items, 1, n)
  <1> DEFINE fits == Fitting(items, gaps, budget)
             N == Len(items)
             Spare == {N - m : m \in fits}
             n == IF fits = {} THEN 0 ELSE CHOOSE m \in fits : \A k \in fits : k <= m
  <1>1. N \in Nat /\ fits \subseteq 0 .. N
    BY DEF Fitting
  <1>2. n \in 0 .. N
    <2>1. CASE fits = {}
      BY <1>1, <2>1
    <2>2. CASE fits # {}
      <3> HIDE DEF fits, N
      <3>1. Spare \subseteq Nat /\ Spare # {}
        BY <1>1, <2>2
      <3> HIDE DEF Spare
      <3>2. PICK x \in Spare : \A y \in Spare : x <= y
        BY <3>1, LeastNumber
      <3>3. PICK m \in fits : x = N - m
        BY <3>2 DEF Spare
      <3>4. \A k \in fits : N - k \in Spare
        BY DEF Spare
      <3>5. \A k \in fits : k <= m
        BY <1>1, <3>2, <3>3, <3>4
      <3> QED
        BY <1>1, <2>2, <3>5
    <2> QED
      BY <2>1, <2>2
  <1>3. Cut(items, gaps, budget) = SubSeq(items, 1, n)
    BY DEF Cut
  <1> HIDE DEF n
  <1> QED
    BY <1>2, <1>3

-----------------------------------------------------------------------------
(* The context a prompt is given.                                          *)

\* Items that do not conflict say one thing.
LEMMA OneStatement ==
  ASSUME NEW X, NEW items \in Seq(X), ~Conflicting(items),
         \A i \in 1 .. Len(items) : items[i].value # 0
  PROVE  \A i, j \in 1 .. Len(items) : items[i].value = items[j].value
  <1> DEFINE I == 1 .. Len(items)
             W == {items[i].value : i \in I}
             f == [i \in I |-> items[i].value]
  <1>1. IsFiniteSet(I)
    <2>1. Len(items) \in Int /\ 1 \in Int
      OBVIOUS
    <2> QED
      BY <2>1, FS_Interval
  <1>2. f \in Surjection(I, W)
    BY DEF Surjection
  <1>3. IsFiniteSet(W)
    <2> HIDE DEF f, I, W
    <2> QED
      BY <1>1, <1>2, FS_Surjection
  <1>4. W \ {0} = W /\ ~(Cardinality(W \ {0}) > 1)
    BY DEF Conflicting
  <1>5. \A i \in I : items[i].value \in W
    OBVIOUS
  <1> HIDE DEF W
  <1>6. W = {} \/ \E v : W = {v}
    <2>1. Cardinality(W) \in Nat /\ ~(Cardinality(W) > 1)
      BY <1>3, <1>4, FS_CardinalityType
    <2>2. Cardinality(W) = 0 \/ Cardinality(W) = 1
      BY <2>1
    <2> QED
      BY <1>3, <2>2, FS_EmptySet, FS_Singleton
  <1> QED
    BY <1>5, <1>6

\* Only the best of required kinds.
BestOnly(items, ranked, kinds) ==
  \A k \in 1 .. Len(items) : \E j \in 1 .. Len(kinds) : items[k] \in BestOf(ranked, kinds[j])

\* The places of the required kinds in a context: the best of a kind is in it,
\* or its sources are not allowed, or all that is in it is the best of a kind.
Accounted(items, ranked, kinds, best, budget) ==
  \/ Includes(items, best)
  \/ Cardinality(SourcesOf(items) \cup best.sources) > budget.sources
  \/ BestOnly(items, ranked, kinds)

\* The gaps of a kind are none only if its best is fresh.
LEMMA NoGapIsFresh ==
  ASSUME NEW S, CandidatesOk(S), NEW ranked \in Seq(S), NEW kind, KindGaps(ranked, kind) = {}
  PROVE  \E c \in BestOf(ranked, kind) : c.freshness = "fresh"
  <1>1. BestOf(ranked, kind) # {}
    BY DEF KindGaps
  <1>2. PICK c \in BestOf(ranked, kind) : TRUE
    BY <1>1
  <1>3. OfKind(ranked, kind) # {}
    BY <1>1 DEF BestOf
  <1>4. \A d \in BestOf(ranked, kind) : d.freshness # "stale"
    BY <1>1, <1>3 DEF KindGaps
  <1>5. c \in S /\ Usable(c)
    BY BestIsUsable DEF UsableOf
  <1> QED
    BY <1>4, <1>5 DEF CandidatesOk, Usable

\* What a context is: usable evidence, which leaves the best of a required kind
\* out for its sources alone or for others like it; and one that calls itself
\* complete has it all, fresh for every required kind, and without a conflict.
LEMMA ContextIs ==
  ASSUME NEW S, CandidatesOk(S), NEW reported, NEW kinds \in Seq(Kinds),
         NEW budget \in [items : Nat, sources : Nat, tokens : Nat],
         NEW ranked, ranked = Ranked(S), NEW x, x = Context(S, reported, kinds, budget)
  PROVE  /\ x.items \in Seq(UsableOf(S))
         /\ x.status = "complete" =>
              /\ \A i \in 1 .. Len(kinds) :
                   \E c \in BestOf(ranked, kinds[i]) : c.freshness = "fresh"
              /\ \A c \in UsableOf(S) : Includes(x.items, c)
              /\ ~Conflicting(x.items)
         /\ \A i \in 1 .. Len(kinds) : \A best \in BestOf(ranked, kinds[i]) :
              Accounted(x.items, ranked, kinds, best, budget)
  <1>1. /\ ranked \in Seq(S) /\ DOMAIN ranked = 1 .. Len(ranked)
        /\ \A c \in S : \E i \in 1 .. Len(ranked) : ranked[i] = c
    BY RankedIs
  <1> DEFINE q == Required(ranked, kinds, budget)
             full == Fill(q, ranked, budget)
             gaps == reported \cup UNION {KindGaps(ranked, kinds[i]) : i \in 1 .. Len(kinds)}
             items == Cut(full.items, gaps, budget)
             truncated == \/ full.truncated
                          \/ Len(items) < Len(full.items)
                          \/ Cost(items, gaps) > budget.tokens
             told == IF truncated THEN gaps \cup {[reason |-> "budget_exhausted", kind |-> "any"]}
                     ELSE gaps
             missing == \E i \in 1 .. Len(kinds) : \A j \in 1 .. Len(items) :
                          items[j].kind # kinds[i]
             status == CASE items = <<>> -> "empty"
                         [] items # <<>> /\ (told # {} \/ Conflicting(items) \/ missing) ->
                              "partial"
                         [] OTHER -> "complete"
  <1>2. x = [items |-> items, gaps |-> told, truncated |-> truncated,
             conflict |-> Conflicting(items), status |-> status]
    BY DEF Context
  <1>3. q = Required(ranked, kinds, budget) /\ full = Fill(q, ranked, budget)
    OBVIOUS
  <1>4. gaps = reported \cup UNION {KindGaps(ranked, kinds[i]) : i \in 1 .. Len(kinds)}
    OBVIOUS
  <1> HIDE DEF q, full, gaps
  <1>5. items = Cut(full.items, gaps, budget)
    OBVIOUS
  <1> HIDE DEF items, missing
  <1>6. truncated <=> \/ full.truncated
                      \/ Len(items) < Len(full.items)
                      \/ Cost(items, gaps) > budget.tokens
    OBVIOUS
  <1> HIDE DEF truncated
  <1>7. told = IF truncated THEN gaps \cup {[reason |-> "budget_exhausted", kind |-> "any"]}
               ELSE gaps
    OBVIOUS
  <1> HIDE DEF told
  <1>8. /\ x.items = items
        /\ x.status = "complete" => told = {} /\ ~Conflicting(items)
    <2>1. status = "complete" => told = {} /\ ~Conflicting(items)
      OBVIOUS
    <2> HIDE DEF status
    <2>2. x.items = items /\ x.status = status
      BY ONLY <1>2
    <2> QED
      BY <2>1, <2>2
  <1> HIDE DEF status
  <1>9. /\ q \in Selections(S)
        /\ \A i \in 1 .. Len(q.items) : \E j \in 1 .. Len(kinds) :
             q.items[i] \in BestOf(ranked, kinds[j])
        /\ \A j \in 1 .. Len(kinds) : \A c \in BestOf(ranked, kinds[j]) :
             Includes(q.items, c) \/ NoRoom(q.items, c, budget)
    <2>1. q \in Selections(S)
      BY <1>1, <1>3, RequiredIs
    <2>2. \A i \in 1 .. Len(q.items) : \E j \in 1 .. Len(kinds) :
             q.items[i] \in BestOf(ranked, kinds[j])
      BY <1>1, <1>3, RequiredIs
    <2>3. \A j \in 1 .. Len(kinds) : \A c \in BestOf(ranked, kinds[j]) :
             Includes(q.items, c) \/ NoRoom(q.items, c, budget)
      BY <1>1, <1>3, RequiredIs
    <2> QED
      BY <2>1, <2>2, <2>3
  <1>10. full \in Selections(S) /\ Extends(q.items, full.items)
    BY <1>1, <1>3, <1>9, FillIs
  <1>11. Len(q.items) >= budget.items => full.items = q.items
    BY <1>1, <1>3, <1>9, FillIs
  <1>12. ~full.truncated => \A m \in 1 .. Len(ranked) :
                              Usable(ranked[m]) => Includes(full.items, ranked[m])
    BY <1>1, <1>3, <1>9, FillIs
  <1>13. PICK a \in Seq(UsableOf(S)), b \in Seq(UsableOf(S)) : a = q.items /\ b = full.items
    BY <1>9, <1>10 DEF Selections
  <1>14. PICK n \in 0 .. Len(b) : items = SubSeq(b, 1, n)
    BY <1>5, <1>13, CutIs
  <1>15. items \in Seq(UsableOf(S)) /\ Len(items) = n /\ (n = Len(b) => items = b)
    BY <1>14
  <1>16. ASSUME NEW i \in 1 .. Len(kinds), NEW best \in BestOf(ranked, kinds[i])
         PROVE  Accounted(items, ranked, kinds, best, budget)
    <2>1. best \in S /\ (Includes(a, best) \/ NoRoom(a, best, budget))
      BY <1>1, <1>9, <1>13, BestIsUsable DEF UsableOf
    <2>2. Extends(a, b) /\ (Len(a) >= budget.items => b = a)
      BY <1>10, <1>11, <1>13
    <2>3. BestOnly(a, ranked, kinds)
      BY <1>9, <1>13 DEF BestOnly
    <2>4. /\ Len(a) \in Nat /\ Len(b) \in Nat /\ n \in Nat /\ n <= Len(b) /\ Len(a) <= Len(b)
          /\ budget.sources \in Nat /\ budget.items \in Nat
      BY <2>2 DEF Extends
    <2>5. \A k \in 1 .. n : items[k] = b[k]
      BY <1>14, <2>4
    <2>6. CASE n <= Len(a)
      <3>1. \A k \in 1 .. n : k \in 1 .. Len(a) /\ items[k] = a[k]
        BY <2>2, <2>4, <2>5, <2>6 DEF Extends
      <3> QED
        BY <1>15, <2>3, <3>1 DEF Accounted, BestOnly
    <2>7. CASE ~(n <= Len(a))
      <3>1. Extends(a, items)
        <4>1. Len(a) <= Len(items)
          BY ONLY <1>15, <2>4, <2>7
        <4>2. \A k \in 1 .. Len(a) : k \in 1 .. n
          BY ONLY <2>4, <2>7
        <4>3. \A k \in 1 .. Len(a) : items[k] = a[k]
          BY <2>2, <2>5, <4>2 DEF Extends
        <4> QED
          BY <4>1, <4>3 DEF Extends
      <3>2. ~(Len(a) >= budget.items)
        BY <2>2, <2>4, <2>7
      <3>3. CASE Includes(a, best)
        <4>1. Includes(items, best)
          BY ONLY <1>15, <3>1, <3>3, InclusionStays, a \in Seq(UsableOf(S))
        <4> QED
          BY <4>1 DEF Accounted
      <3>4. CASE ~Includes(a, best)
        <4>1. Cardinality(SourcesOf(a) \cup best.sources) > budget.sources
          BY <2>1, <3>2, <3>4 DEF NoRoom
        <4>2. /\ Cardinality(SourcesOf(a) \cup best.sources) \in Nat
              /\ Cardinality(SourcesOf(items) \cup best.sources) \in Nat
              /\ Cardinality(SourcesOf(a) \cup best.sources)
                   <= Cardinality(SourcesOf(items) \cup best.sources)
          BY ONLY <1>15, <2>1, <3>1, SourcesGrow, CandidatesOk(S), a \in Seq(UsableOf(S))
        <4>3. Cardinality(SourcesOf(items) \cup best.sources) > budget.sources
          BY ONLY <2>4, <4>1, <4>2
        <4> QED
          BY <4>3 DEF Accounted
      <3> QED
        BY <3>3, <3>4
    <2> QED
      BY <2>6, <2>7
  <1>17. ASSUME x.status = "complete"
         PROVE  /\ \A i \in 1 .. Len(kinds) :
                     \E c \in BestOf(ranked, kinds[i]) : c.freshness = "fresh"
                /\ \A c \in UsableOf(S) : Includes(items, c)
                /\ ~Conflicting(items)
    <2>1. told = {} /\ ~Conflicting(items)
      BY <1>8, <1>17
    <2>2. ~truncated /\ gaps = {}
      BY <1>7, <2>1
    <2>3. ASSUME NEW i \in 1 .. Len(kinds)
          PROVE  \E c \in BestOf(ranked, kinds[i]) : c.freshness = "fresh"
      <3>1. KindGaps(ranked, kinds[i]) = {}
        BY <1>4, <2>2
      <3> QED
        BY ONLY <1>1, <3>1, NoGapIsFresh, CandidatesOk(S)
    <2>4. ~full.truncated /\ items = b
      BY <1>6, <1>13, <1>15, <2>2
    <2>5. ASSUME NEW c \in UsableOf(S)
          PROVE  Includes(items, c)
      <3>1. PICK m \in 1 .. Len(ranked) : ranked[m] = c
        BY <1>1 DEF UsableOf
      <3> QED
        BY <1>12, <1>13, <2>4, <3>1 DEF UsableOf
    <2> QED
      BY <2>1, <2>3, <2>5
  <1> QED
    BY <1>8, <1>15, <1>16, <1>17

-----------------------------------------------------------------------------
(* The reads before a context.                                             *)

Levels == [all : SUBSET Keys, frontier : SUBSET Keys]

LEMMA DeeperIs ==
  ASSUME NEW s \in Levels, NEW maxPlaces
  PROVE  Deeper(s, maxPlaces) \in Levels
  <1>1. PICK found : found = Bounded(Children(s.frontier), maxPlaces - Cardinality(s.all)) \ s.all
    OBVIOUS
  <1>2. found \subseteq Keys
    BY <1>1 DEF Bounded, Children
  <1>3. PICK found2 : found2 = s.all \cup found
    OBVIOUS
  <1>4. Deeper(s, maxPlaces) = [all |-> found2, frontier |-> found]
    BY <1>1, <1>3 DEF Deeper
  <1>5. found2 \subseteq Keys
    BY <1>2, <1>3 DEF Levels
  <1> QED
    BY <1>2, <1>4, <1>5 DEF Levels

\* A query covers places, however deep it goes.
LEMMA ScopeIs ==
  ASSUME NEW roots, roots \subseteq Keys, NEW maxDepth \in Nat, NEW maxPlaces
  PROVE  Scope(roots, maxDepth, maxPlaces) \subseteq Keys
  <1> DEFINE start == Bounded({k \in roots : place[k].active}, maxPlaces)
             F == [d \in Nat |-> [s \in Levels |-> Deeper(s, maxPlaces)]]
             level == CHOOSE f : f = [d \in 0 .. maxDepth |->
                        IF d = 0 THEN [all |-> start, frontier |-> start]
                        ELSE Deeper(f[d - 1], maxPlaces)]
  <1>1. PICK s0 \in Levels : s0 = [all |-> start, frontier |-> start]
    <2>1. start \subseteq Keys
      BY DEF Bounded
    <2> HIDE DEF start
    <2> QED
      BY <2>1 DEF Levels
  <1>2. PICK G, X : G = F /\ X = Levels
    OBVIOUS
  <1>3. G \in [Nat -> [X -> X]]
    BY <1>2, DeeperIs
  <1>4. PICK h : Iterates(h, s0, G, maxDepth)
    <2>1. s0 \in X /\ maxDepth \in Nat
      BY <1>2
    <2> QED
      BY ONLY <1>3, <2>1, IteratesExist
  <1>5. /\ h \in [0 .. maxDepth -> Levels] /\ h[0] = s0
        /\ \A d \in 1 .. maxDepth : h[d] = G[d][h[d - 1]]
    <2>1. s0 \in X /\ maxDepth \in Nat
      BY <1>2
    <2>2. h \in [0 .. maxDepth -> X]
      BY ONLY <1>3, <1>4, <2>1, IteratesTyped
    <2>3. h[0] = s0
      BY ONLY <1>3, <1>4, <2>1, IteratesTyped
    <2>4. \A d \in 1 .. maxDepth : h[d] = G[d][h[d - 1]]
      BY <1>4 DEF Iterates
    <2> QED
      BY <1>2, <2>2, <2>3, <2>4
  <1>6. \A d \in 1 .. maxDepth : h[d] = Deeper(h[d - 1], maxPlaces)
    <2>1. \A d \in 1 .. maxDepth : d \in Nat /\ d - 1 \in 0 .. maxDepth
      OBVIOUS
    <2>2. \A d \in 1 .. maxDepth : h[d - 1] \in Levels
      BY <1>5, <2>1
    <2>3. \A d \in Nat, s \in Levels : G[d][s] = Deeper(s, maxPlaces)
      BY <1>2
    <2> QED
      BY <1>5, <2>1, <2>2, <2>3
  <1>7. h = [d \in 0 .. maxDepth |-> IF d = 0 THEN [all |-> start, frontier |-> start]
                                     ELSE Deeper(h[d - 1], maxPlaces)]
    <2>1. \A d \in 0 .. maxDepth : h[d] = IF d = 0 THEN s0 ELSE Deeper(h[d - 1], maxPlaces)
      BY <1>5, <1>6
    <2> QED
      BY <1>1, <1>5, <2>1
  <1>8. level = [d \in 0 .. maxDepth |-> IF d = 0 THEN [all |-> start, frontier |-> start]
                                         ELSE Deeper(level[d - 1], maxPlaces)]
    BY <1>7
  <1>9. Scope(roots, maxDepth, maxPlaces) = level[maxDepth].all
    BY DEF Scope
  <1> HIDE DEF level, F
  <1> DEFINE Typed == {d \in 0 .. maxDepth : level[d] \in Levels}
  <1>10. 0 \in Typed
    BY <1>1, <1>8
  <1>11. ASSUME NEW d \in 0 .. maxDepth, d < maxDepth, d \in Typed PROVE d + 1 \in Typed
    <2>1. PICK m : m = d + 1
      OBVIOUS
    <2>2. m \in 1 .. maxDepth /\ m \in 0 .. maxDepth /\ m - 1 = d /\ m # 0
      BY <1>11, <2>1
    <2>3. level[m] = Deeper(level[d], maxPlaces)
      BY <1>8, <2>2
    <2>4. level[m] \in Levels
      BY <1>11, <2>3, DeeperIs
    <2> QED
      BY <2>1, <2>2, <2>4
  <1>12. 0 .. maxDepth \subseteq Typed
    <2>1. \A d \in 0 .. maxDepth : d < maxDepth /\ d \in Typed => d + 1 \in Typed
      BY <1>11
    <2> HIDE DEF Typed
    <2> QED
      BY ONLY <1>10, <2>1, maxDepth \in Nat, BoundedInduction
  <1>13. maxDepth \in 0 .. maxDepth
    OBVIOUS
  <1>14. level[maxDepth] \in Levels
    BY <1>12, <1>13
  <1> QED
    BY <1>9, <1>14 DEF Levels

\* Rows of approved content: one for a place.
RowsOk(found) ==
  /\ \A r \in found : r.id \in Keys /\ r.text \in Texts \ {0} /\ r.reviewed \in BOOLEAN
  /\ \A r, s \in found : r.id = s.id => r = s

LEMMA CandidateIs ==
  ASSUME RowsOk(ask.rows), ask.now \in Int, NEW r \in ask.rows, NEW c, c = Candidate(r)
  PROVE  /\ c.id = r.id /\ c.value = r.text /\ c.value # 0
         /\ c.freshness = FreshnessAt(r.text, ask.now)
         /\ c.freshness \in {"fresh", "stale", "expired"}
         /\ c.authority \in DOMAIN AuthorityScore
         /\ c.confidence \in Nat /\ c.relevance \in Nat /\ IsFiniteSet(c.sources)
  <1>1. r.id \in Keys /\ r.text # 0
    BY DEF RowsOk
  <1>2. PICK k, a, f, p, v, s : /\ k = KindOf[r.id] /\ a = AuthorityOf[r.id]
                                /\ f = FreshnessAt(r.text, ask.now)
                                /\ p = (IF r.reviewed THEN 900 ELSE 750)
                                /\ v = RelevanceOf[r.id] /\ s = SourcesFor[r.id]
    OBVIOUS
  <1>3. c = [id |-> r.id, kind |-> k, authority |-> a, freshness |-> f, confidence |-> p,
             relevance |-> v, sources |-> s, value |-> r.text]
    BY <1>2 DEF Candidate
  <1>4. /\ c.id = r.id /\ c.value = r.text /\ c.authority = a /\ c.freshness = f
        /\ c.confidence = p /\ c.relevance = v /\ c.sources = s
    BY ONLY <1>3
  <1>5. f \in {"fresh", "stale", "expired"}
    BY <1>2 DEF FreshnessAt
  <1>6. p \in Nat /\ v \in Nat /\ a \in DOMAIN AuthorityScore /\ IsFiniteSet(s)
    BY <1>1, <1>2, AnswersAssumption
  <1> QED
    BY <1>1, <1>2, <1>4, <1>5, <1>6

\* Of such rows the candidates can be ranked.
LEMMA CandidatesAreOk ==
  ASSUME RowsOk(ask.rows), ask.now \in Int
  PROVE  CandidatesOk(Candidates)
  <1> DEFINE S == Candidates
             ids == [c \in S |-> c.id]
             T == {c.sources : c \in S}
             sources == [c \in S |-> c.sources]
  <1>1. \A c \in S : \E r \in ask.rows : c = Candidate(r)
    BY DEF Candidates
  <1>2. \A c \in S : /\ c.id \in Keys /\ c.authority \in DOMAIN AuthorityScore
                     /\ c.freshness \in {"fresh", "stale", "expired"}
                     /\ c.confidence \in Nat /\ c.relevance \in Nat /\ IsFiniteSet(c.sources)
    BY <1>1, CandidateIs DEF RowsOk
  <1>3. ASSUME NEW c \in S, NEW d \in S, c.id = d.id PROVE c = d
    <2>1. PICK r \in ask.rows, s \in ask.rows : c = Candidate(r) /\ d = Candidate(s)
      BY <1>1
    <2>2. c.id = r.id /\ d.id = s.id
      BY <2>1, CandidateIs
    <2>3. r = s
      BY <1>3, <2>2 DEF RowsOk
    <2> QED
      BY <2>1, <2>3
  <1> HIDE DEF S
  <1>4. IsFiniteSet(Keys) /\ Keys \subseteq Int
    <2>1. NumKeys \in Int /\ 1 \in Int
      BY CatalogAssumption
    <2> QED
      BY <2>1, FS_Interval DEF Keys
  <1>5. ids \in Injection(S, Keys)
    BY <1>2, <1>3 DEF Injection, IsInjective
  <1>6. IsFiniteSet(S)
    <2> HIDE DEF ids
    <2> QED
      BY <1>4, <1>5, FS_Injection
  <1>7. sources \in Surjection(S, T)
    BY DEF Surjection
  <1>8. IsFiniteSet(T) /\ \A t \in T : IsFiniteSet(t)
    <2>1. \A t \in T : IsFiniteSet(t)
      BY <1>2
    <2> HIDE DEF sources, T
    <2> QED
      BY <1>6, <1>7, <2>1, FS_Surjection
  <1>9. IsFiniteSet(UNION T)
    <2> HIDE DEF T
    <2> QED
      BY <1>8, FS_UNION
  <1>10. CandidatesOk(S)
    BY <1>2, <1>3, <1>4, <1>6, <1>9 DEF CandidatesOk
  <1> QED
    BY <1>10 DEF S

-----------------------------------------------------------------------------
(* Reads while the catalog changes.                                        *)

RequestOk(r) ==
  /\ r.page \in BOOLEAN /\ r.root \in Keys /\ r.kinds \in Seq(Kinds)
  /\ r.budget \in [items : Nat, sources : Nat, tokens : Nat]

\* What a failed source is told as, and what none is.
Reported == {{}, {[reason |-> "source_unavailable", kind |-> "any"]}}

PageContext == [NoContext EXCEPT !.items = Ranked(UsableOf(Candidates))]

\* The rows of a read were approved with their texts, whatever was decided
\* since; an answer is made of just these rows.
ReadIInv ==
  /\ ask = [pc |-> ask.pc, of |-> ask.of, now |-> ask.now, scope |-> ask.scope, rows |-> ask.rows]
  /\ RequestOk(ask.of) /\ ask.now \in Nat
  /\ ask.scope \subseteq Keys
  /\ RowsOk(ask.rows) /\ \A r \in ask.rows : r.text \in approvals[r.id]
  /\ Done /\ ask.of.page => context = PageContext
  /\ Done /\ ~ask.of.page => \E reported \in Reported :
       context = Context(Candidates, reported, ask.of.kinds, ask.of.budget)

\* The same rows at the same time are the same candidates.
LEMMA SameCandidates ==
  ASSUME ask'.rows = ask.rows, ask'.now = ask.now
  PROVE  Candidates' = Candidates
  <1>1. \A r : Candidate(r)' = Candidate(r)
    BY DEF Candidate, FreshnessAt, ExpiresAt, StaleAt
  <1> QED
    BY <1>1 DEF Candidates

\* An editor's approval stays on record.
LEMMA ApprovalsStay ==
  ASSUME CatalogIInv, CatalogNext \/ UNCHANGED catalogVars, NEW k \in Keys
  PROVE  approvals[k] \subseteq approvals'[k]
  <1>1. approvals \in [Keys -> SUBSET Texts]
    BY DEF CatalogIInv, CatalogIsSound, CatalogTypeOK
  <1>2. CASE UNCHANGED catalogVars
    BY <1>2 DEF catalogVars
  <1>3. CASE \E c \in Catalogs : Ingest(c)
    BY <1>3 DEF Ingest
  <1>4. ASSUME NEW j \in Keys, Approve(j) \/ Withdraw(j)
        PROVE  approvals[k] \subseteq approvals'[k]
    <2>1. \/ approvals' = [approvals EXCEPT ![j] = @ \cup {content[j].text}]
          \/ approvals' = approvals
      BY <1>4 DEF Approve, Withdraw, Decide
    <2> QED
      BY <1>1, <2>1
  <1> QED
    BY <1>2, <1>3, <1>4 DEF CatalogNext

LEMMA NoRequestOk ==
  RequestOk(NoRequest)
  <1>1. PICK budget : budget = [items |-> 0, sources |-> 0, tokens |-> 0]
    OBVIOUS
  <1>2. budget \in [items : Nat, sources : Nat, tokens : Nat]
    BY <1>1
  <1>3. NoRequest = [page |-> FALSE, root |-> 1, kinds |-> <<>>, budget |-> budget]
    BY <1>1 DEF NoRequest
  <1>4. /\ NoRequest.page = FALSE /\ NoRequest.root = 1 /\ NoRequest.kinds = <<>>
        /\ NoRequest.budget = budget
    BY ONLY <1>3
  <1>5. 1 \in Keys
    BY CatalogAssumption DEF Keys
  <1>6. <<>> \in Seq(Kinds)
    OBVIOUS
  <1>7. PICK r : r = NoRequest
    OBVIOUS
  <1>8. /\ r.page \in BOOLEAN /\ r.root \in Keys /\ r.kinds \in Seq(Kinds)
        /\ r.budget \in [items : Nat, sources : Nat, tokens : Nat]
    BY ONLY <1>2, <1>4, <1>5, <1>6, <1>7
  <1> QED
    BY <1>7, <1>8 DEF RequestOk

LEMMA NoReadOk ==
  ASSUME ask = NoRead
  PROVE  ReadIInv
  <1>1. /\ ask.pc = "idle" /\ ask.of = NoRequest /\ ask.now = 0 /\ ask.scope = {} /\ ask.rows = {}
        /\ ask = [pc |-> ask.pc, of |-> ask.of, now |-> ask.now, scope |-> ask.scope,
                  rows |-> ask.rows]
    BY DEF NoRead
  <1>2. ~Done
    BY <1>1 DEF Done
  <1> QED
    BY <1>1, <1>2, NoRequestOk DEF ReadIInv, RowsOk

LEMMA LeaveSound ==
  ASSUME Leave
  PROVE  ReadIInv'
  <1>1. /\ ask'.pc = "idle" /\ ask'.of = NoRequest /\ ask'.now = 0 /\ ask'.scope = {}
        /\ ask'.rows = {}
        /\ ask' = [pc |-> ask'.pc, of |-> ask'.of, now |-> ask'.now, scope |-> ask'.scope,
                   rows |-> ask'.rows]
    BY DEF Leave, NoRead
  <1>2. ~Done'
    BY <1>1 DEF Done
  <1> QED
    BY <1>1, <1>2, NoRequestOk DEF ReadIInv, RowsOk

\* A change of the catalog leaves the rows of a read approved.
LEMMA CatalogSparesRead ==
  ASSUME CatalogIInv, ReadIInv, CatalogNext \/ UNCHANGED catalogVars, UNCHANGED <<ask, context>>
  PROVE  ReadIInv'
  <1>1. Candidates' = Candidates
    BY SameCandidates
  <1>2. \A r \in ask.rows : r.text \in approvals'[r.id]
    BY ApprovalsStay DEF ReadIInv, RowsOk
  <1> QED
    BY <1>1, <1>2 DEF ReadIInv, PageContext, Done

LEMMA AskSound ==
  ASSUME CatalogIInv, ReadIInv, NEW r \in Requests, NEW now \in ingests .. ingests + FreshFor,
         Ask(r, now)
  PROVE  ReadIInv'
  <1>1. RequestOk(r)
    BY AnswersAssumption DEF RequestOk
  <1>2. now \in Nat
    BY CatalogAssumption DEF CatalogIInv, CatalogIsSound, CatalogTypeOK
  <1>3. PICK p \in {"place", "scope"} :
          ask' = [pc |-> p, of |-> r, now |-> now, scope |-> {}, rows |-> {}]
    BY DEF Ask
  <1>4. /\ ask'.pc = p /\ ask'.of = r /\ ask'.now = now /\ ask'.scope = {} /\ ask'.rows = {}
        /\ ask' = [pc |-> ask'.pc, of |-> ask'.of, now |-> ask'.now, scope |-> ask'.scope,
                   rows |-> ask'.rows]
    BY ONLY <1>3
  <1>5. ~Done'
    BY <1>3, <1>4 DEF Done
  <1> QED
    BY <1>1, <1>2, <1>4, <1>5 DEF ReadIInv, RowsOk

LEMMA ReadPlaceSound ==
  ASSUME ReadIInv, ReadPlace
  PROVE  ReadIInv'
  <1>1. PICK p \in {"scope", "idle"} : ask' = [ask EXCEPT !.pc = p]
    BY DEF ReadPlace
  <1>2. /\ ask'.pc = p /\ ask'.of = ask.of /\ ask'.now = ask.now /\ ask'.scope = ask.scope
        /\ ask'.rows = ask.rows
        /\ ask' = [pc |-> ask'.pc, of |-> ask'.of, now |-> ask'.now, scope |-> ask'.scope,
                   rows |-> ask'.rows]
    BY <1>1 DEF ReadIInv
  <1>3. ~Done'
    BY <1>1, <1>2 DEF Done
  <1>4. approvals' = approvals
    BY DEF ReadPlace, catalogVars
  <1> QED
    BY <1>2, <1>3, <1>4 DEF ReadIInv, RowsOk

LEMMA ReadScopeSound ==
  ASSUME ReadIInv, ReadScope
  PROVE  ReadIInv'
  <1>1. PICK s : s = Scope({ask.of.root}, IF ask.of.page THEN 0 ELSE MaxDepth, MaxPlaces)
    OBVIOUS
  <1>2. s \subseteq Keys
    <2>1. {ask.of.root} \subseteq Keys /\ 0 \in Nat /\ MaxDepth \in Nat
      BY AnswersAssumption DEF ReadIInv, RequestOk
    <2>2. PICK d \in Nat : d = IF ask.of.page THEN 0 ELSE MaxDepth
      BY <2>1
    <2> QED
      BY <1>1, <2>1, <2>2, ScopeIs
  <1>3. ask' = [ask EXCEPT !.pc = "rows", !.scope = s]
    BY <1>1 DEF ReadScope
  <1>4. /\ ask'.pc = "rows" /\ ask'.of = ask.of /\ ask'.now = ask.now /\ ask'.scope = s
        /\ ask'.rows = ask.rows
        /\ ask' = [pc |-> ask'.pc, of |-> ask'.of, now |-> ask'.now, scope |-> ask'.scope,
                   rows |-> ask'.rows]
    BY <1>3 DEF ReadIInv
  <1>5. ~Done'
    BY <1>4 DEF Done
  <1>6. approvals' = approvals
    BY DEF ReadScope, catalogVars
  <1> QED
    BY <1>2, <1>4, <1>5, <1>6 DEF ReadIInv, RowsOk

LEMMA ReadRowsSound ==
  ASSUME CatalogIInv, ReadIInv, ReadRows
  PROVE  ReadIInv'
  <1>1. PICK ks : ks = ApprovedIn(ask.scope, MaxRecords)
    OBVIOUS
  <1>2. \A k \in ks : k \in Keys /\ content[k].text # 0 /\ content[k].quality = "approved"
    BY <1>1 DEF ApprovedIn, Bounded, ReadIInv
  <1>3. \A k \in Keys : content[k].text \in Texts /\ content[k].reviewed \in BOOLEAN
    BY DEF CatalogIInv, CatalogIsSound, CatalogTypeOK, ContentRows
  <1>4. \A k \in ks : content[k].text \in approvals[k]
    BY <1>2 DEF CatalogIInv, ApprovalIsForItsText
  <1>5. PICK found :
          found = {[id |-> k, text |-> content[k].text, reviewed |-> content[k].reviewed] :
                     k \in ks}
    OBVIOUS
  <1>6. \A r \in found : \E k \in ks :
          /\ r = [id |-> k, text |-> content[k].text, reviewed |-> content[k].reviewed]
          /\ r.id = k /\ r.text = content[k].text /\ r.reviewed = content[k].reviewed
    BY <1>5
  <1>7. RowsOk(found)
    <2>1. \A r, s \in found : r.id = s.id => r = s
      BY <1>6
    <2>2. \A r \in found : r.id \in Keys /\ r.text \in Texts \ {0} /\ r.reviewed \in BOOLEAN
      BY <1>2, <1>3, <1>6
    <2> QED
      BY <2>1, <2>2 DEF RowsOk
  <1>8. \A r \in found : r.text \in approvals[r.id]
    BY <1>4, <1>6
  <1>9. ask' = [ask EXCEPT !.pc = "sources", !.rows = found]
    BY <1>1, <1>5 DEF ReadRows
  <1>10. /\ ask'.pc = "sources" /\ ask'.of = ask.of /\ ask'.now = ask.now /\ ask'.scope = ask.scope
         /\ ask'.rows = found
         /\ ask' = [pc |-> ask'.pc, of |-> ask'.of, now |-> ask'.now, scope |-> ask'.scope,
                    rows |-> ask'.rows]
    BY <1>9 DEF ReadIInv
  <1>11. ~Done'
    BY <1>10 DEF Done
  <1>12. approvals' = approvals
    BY DEF ReadRows, catalogVars
  <1> QED
    BY <1>7, <1>8, <1>10, <1>11, <1>12 DEF ReadIInv

LEMMA AnswerSound ==
  ASSUME ReadIInv, Answer
  PROVE  ReadIInv'
  <1>1. ask' = [ask EXCEPT !.pc = "done"]
    BY DEF Answer
  <1>2. /\ ask'.pc = "done" /\ ask'.of = ask.of /\ ask'.now = ask.now /\ ask'.scope = ask.scope
        /\ ask'.rows = ask.rows
        /\ ask' = [pc |-> ask'.pc, of |-> ask'.of, now |-> ask'.now, scope |-> ask'.scope,
                   rows |-> ask'.rows]
    BY <1>1 DEF ReadIInv
  <1>3. Candidates' = Candidates
    BY <1>2, SameCandidates
  <1>4. ask.of.page => context' = PageContext
    BY DEF Answer, PageContext, UsableOf
  <1>5. ~ask.of.page => context' = Context(Candidates, {}, ask.of.kinds, ask.of.budget)
    BY DEF Answer
  <1>6. PageContext' = PageContext
    BY <1>3 DEF PageContext
  <1>7. approvals' = approvals
    BY DEF Answer, catalogVars
  <1>8. {} \in Reported
    BY DEF Reported
  <1>9. ~ask'.of.page => \E reported \in Reported :
          context' = Context(Candidates', reported, ask'.of.kinds, ask'.of.budget)
    BY <1>2, <1>3, <1>5, <1>8
  <1>10. RowsOk(ask'.rows) /\ \A r \in ask'.rows : r.text \in approvals'[r.id]
    BY <1>2, <1>7 DEF ReadIInv
  <1> QED
    BY <1>2, <1>4, <1>6, <1>9, <1>10 DEF ReadIInv

LEMMA FailSound ==
  ASSUME ReadIInv, Fail
  PROVE  ReadIInv'
  <1>1. PICK p : p = IF ask.of.page THEN "idle" ELSE "done"
    OBVIOUS
  <1>2. ask' = [ask EXCEPT !.pc = p, !.rows = {}]
    BY <1>1 DEF Fail
  <1>3. /\ ask'.pc = p /\ ask'.of = ask.of /\ ask'.now = ask.now /\ ask'.scope = ask.scope
        /\ ask'.rows = {}
        /\ ask' = [pc |-> ask'.pc, of |-> ask'.of, now |-> ask'.now, scope |-> ask'.scope,
                   rows |-> ask'.rows]
    BY <1>2 DEF ReadIInv
  <1>4. Candidates' = {}
    BY <1>3 DEF Candidates
  <1>5. Done' => ~ask.of.page
    BY <1>1, <1>3 DEF Done
  <1>6. PICK told \in Reported : told = {[reason |-> "source_unavailable", kind |-> "any"]}
    BY DEF Reported
  <1>7. ~ask.of.page => context' = Context({}, told, ask.of.kinds, ask.of.budget)
    BY <1>6 DEF Fail
  <1>8. ~ask'.of.page => \E reported \in Reported :
          context' = Context(Candidates', reported, ask'.of.kinds, ask'.of.budget)
    BY <1>3, <1>4, <1>6, <1>7
  <1>9. RowsOk(ask'.rows)
    BY <1>3 DEF RowsOk
  <1>10. RequestOk(ask'.of) /\ ask'.now \in Nat /\ ask'.scope \subseteq Keys
    BY <1>3 DEF ReadIInv
  <1> QED
    BY <1>3, <1>5, <1>8, <1>9, <1>10 DEF ReadIInv

LEMMA ReadStep ==
  ASSUME CatalogIInv, ReadIInv, [Reading \/ Drafting]_all
  PROVE  ReadIInv'
  <1>1. CASE Reading
    <2>1. CASE CatalogNext /\ UNCHANGED readVars
      BY <2>1, CatalogSparesRead DEF readVars
    <2>2. ASSUME NEW r \in Requests, NEW now \in ingests .. ingests + FreshFor, Ask(r, now)
          PROVE  ReadIInv'
      BY <2>2, AskSound
    <2>3. CASE Leave
      BY <2>3, LeaveSound
    <2> QED
      BY <1>1, <2>1, <2>2, <2>3, ReadPlaceSound, ReadScopeSound, ReadRowsSound, AnswerSound,
         FailSound
         DEF Reading, AnswersNext
  <1>2. CASE Drafting
    BY <1>2, CatalogSparesRead DEF Drafting, answersVars, readVars
  <1>3. CASE UNCHANGED all
    BY <1>3, CatalogSparesRead DEF all, answersVars, readVars
  <1> QED
    BY <1>1, <1>2, <1>3

\* Whatever is ingested and decided between the queries of a read, its rows were
\* approved with their texts and its answer is the one of these rows.
THEOREM ReadsInductive ==
  WorkSpec => []ReadIInv
  <1>1. WorkInit => ReadIInv
    BY NoReadOk DEF WorkInit, AnswersInit
  <1>2. CatalogIInv /\ ReadIInv /\ [Reading \/ Drafting]_all => ReadIInv'
    BY ReadStep
  <1> QED
    BY <1>1, <1>2, CatalogInductive, PTL DEF WorkSpec

\* What a page shows or a prompt is given is of the candidates, and usable.
LEMMA GivenIsUsable ==
  ASSUME ReadIInv, Done
  PROVE  CandidatesOk(Candidates) /\ context.items \in Seq(UsableOf(Candidates))
  <1>1. CandidatesOk(Candidates)
    BY CandidatesAreOk DEF ReadIInv
  <1>2. CASE ask.of.page
    <2>1. PICK S, U : S = Candidates /\ U = UsableOf(S)
      OBVIOUS
    <2>2. U \subseteq S
      BY <2>1 DEF UsableOf
    <2>3. CandidatesOk(U)
      <3>1. IsFiniteSet(U)
        BY <1>1, <2>1, <2>2, FS_Subset DEF CandidatesOk
      <3>2. PICK A, B : A = UNION {c.sources : c \in U} /\ B = UNION {c.sources : c \in S}
        OBVIOUS
      <3>3. A \subseteq B
        BY <2>2, <3>2
      <3>4. IsFiniteSet(A)
        BY <1>1, <2>1, <3>2, <3>3, FS_Subset DEF CandidatesOk
      <3> QED
        BY <1>1, <2>1, <2>2, <3>1, <3>2, <3>4 DEF CandidatesOk
    <2>4. PICK ranked : ranked = Ranked(U)
      OBVIOUS
    <2>5. ranked \in Seq(U)
      BY <2>3, <2>4, RankedIs
    <2>6. context = [NoContext EXCEPT !.items = ranked]
      BY <1>2, <2>1, <2>4 DEF ReadIInv, PageContext
    <2>7. context.items = ranked
      BY ONLY <2>6 DEF NoContext
    <2> QED
      BY <1>1, <2>1, <2>5, <2>7
  <1>3. CASE ~ask.of.page
    <2>1. PICK reported : context = Context(Candidates, reported, ask.of.kinds, ask.of.budget)
      BY <1>3 DEF ReadIInv
    <2>2. PICK kinds, budget, ranked :
            kinds = ask.of.kinds /\ budget = ask.of.budget /\ ranked = Ranked(Candidates)
      OBVIOUS
    <2>3. kinds \in Seq(Kinds) /\ budget \in [items : Nat, sources : Nat, tokens : Nat]
      BY <2>2 DEF ReadIInv, RequestOk
    <2> QED
      BY <1>1, <2>1, <2>2, <2>3, ContextIs
  <1> QED
    BY <1>2, <1>3

\* It was approved with just its text, and has not expired.
LEMMA GivenWasApproved ==
  ASSUME ReadIInv, Done, NEW c \in Shown
  PROVE  c.value \in approvals[c.id] /\ FreshnessAt(c.value, ask.now) # "expired" /\ c.value # 0
  <1>1. PICK i \in 1 .. Len(context.items) : c = context.items[i]
    BY DEF Shown
  <1>2. c \in UsableOf(Candidates)
    BY <1>1, GivenIsUsable
  <1>3. PICK r \in ask.rows : c = Candidate(r)
    BY <1>2 DEF UsableOf, Candidates
  <1>4. /\ c.id = r.id /\ c.value = r.text /\ c.value # 0
        /\ c.freshness = FreshnessAt(r.text, ask.now)
    BY <1>3, CandidateIs DEF ReadIInv
  <1>5. r.text \in approvals[r.id]
    BY DEF ReadIInv
  <1>6. c.freshness # "expired"
    BY <1>2 DEF UsableOf, Usable
  <1> QED
    BY <1>4, <1>5, <1>6

\* A retrieval is of its candidates; a page has another status.
LEMMA RetrievalIs ==
  ASSUME ReadIInv, Done, ~ask.of.page \/ context.status = "complete"
  PROVE  /\ ~ask.of.page
         /\ context.status = "complete" =>
              /\ \A i \in 1 .. Len(ask.of.kinds) :
                   \E c \in BestOf(Ranked(Candidates), ask.of.kinds[i]) : c.freshness = "fresh"
              /\ \A c \in UsableOf(Candidates) : Includes(context.items, c)
              /\ ~Conflicting(context.items)
         /\ \A i \in 1 .. Len(ask.of.kinds) :
              \A best \in BestOf(Ranked(Candidates), ask.of.kinds[i]) :
                Accounted(context.items, Ranked(Candidates), ask.of.kinds, best, ask.of.budget)
  <1>1. ~ask.of.page
    <2>1. ASSUME ask.of.page PROVE context.status = "none"
      <3>1. PICK ranked : context = [NoContext EXCEPT !.items = ranked]
        BY <2>1 DEF ReadIInv, PageContext
      <3> QED
        BY ONLY <3>1 DEF NoContext
    <2> QED
      BY <2>1
  <1>2. CandidatesOk(Candidates)
    BY CandidatesAreOk DEF ReadIInv
  <1>3. PICK reported : context = Context(Candidates, reported, ask.of.kinds, ask.of.budget)
    BY <1>1 DEF ReadIInv
  <1>4. PICK kinds, budget, ranked, S, x :
          /\ kinds = ask.of.kinds /\ budget = ask.of.budget /\ S = Candidates /\ ranked = Ranked(S)
          /\ x = context
    OBVIOUS
  <1>5. /\ kinds \in Seq(Kinds) /\ budget \in [items : Nat, sources : Nat, tokens : Nat]
        /\ CandidatesOk(S) /\ x = Context(S, reported, kinds, budget) /\ ranked = Ranked(S)
    BY <1>2, <1>3, <1>4 DEF ReadIInv, RequestOk
  <1>6. x.status = "complete" =>
          \A i \in 1 .. Len(kinds) : \E c \in BestOf(ranked, kinds[i]) : c.freshness = "fresh"
    BY ONLY <1>5, ContextIs
  <1>7. x.status = "complete" => \A c \in UsableOf(S) : Includes(x.items, c)
    BY ONLY <1>5, ContextIs
  <1>8. x.status = "complete" => ~Conflicting(x.items)
    BY ONLY <1>5, ContextIs
  <1>9. \A i \in 1 .. Len(kinds) : \A best \in BestOf(ranked, kinds[i]) :
          Accounted(x.items, ranked, kinds, best, budget)
    BY ONLY <1>5, ContextIs
  <1> QED
    BY <1>1, <1>4, <1>6, <1>7, <1>8, <1>9

LEMMA CompleteContext ==
  ASSUME ReadIInv, Done, context.status = "complete"
  PROVE  CompleteIsComplete
  <1> DEFINE items == context.items
             kinds == ask.of.kinds
             ranked == Ranked(Candidates)
             U == UsableOf(Candidates)
  <1>1. CandidatesOk(Candidates) /\ items \in Seq(U)
    BY GivenIsUsable
  <1>2. /\ \A i \in 1 .. Len(kinds) : \E c \in BestOf(ranked, kinds[i]) : c.freshness = "fresh"
        /\ \A c \in U : Includes(items, c)
        /\ ~Conflicting(items)
    BY RetrievalIs
  <1>3. ranked \in Seq(Candidates)
    BY <1>1, RankedIs
  <1>4. \A i \in 1 .. Len(items) : items[i] \in Shown
    BY DEF Shown
  <1>5. U = Shown
    BY <1>1, <1>2 DEF Shown, Includes
  <1>6. \A i \in 1 .. Len(kinds) : \E c \in Shown : c.kind = kinds[i] /\ c.freshness = "fresh"
    BY <1>2, <1>3, <1>5, BestIsUsable
  <1>7. \A c, d \in Shown : c.value = d.value
    <2>1. \A i \in 1 .. Len(items) : items[i].value # 0
      BY <1>4, GivenWasApproved
    <2>2. \A i, j \in 1 .. Len(items) : items[i].value = items[j].value
      BY <1>1, <1>2, <2>1, OneStatement
    <2> QED
      BY <2>2 DEF Shown
  <1>8. {c \in Candidates : Usable(c)} = Shown
    BY <1>5 DEF UsableOf
  <1> QED
    BY <1>6, <1>7, <1>8 DEF CompleteIsComplete

LEMMA RequiredContext ==
  ASSUME ReadIInv
  PROVE  RequiredKindsComeFirst
  <1> SUFFICES ASSUME Done, ~ask.of.page, NEW i \in 1 .. Len(ask.of.kinds),
                      NEW best \in BestOf(Ranked(Candidates), ask.of.kinds[i]),
                      \A c \in Shown : c.kind # ask.of.kinds[i]
               PROVE  \/ Cardinality(SourcesOf(context.items) \cup best.sources)
                           > ask.of.budget.sources
                      \/ \A c \in Shown : \E j \in 1 .. Len(ask.of.kinds) :
                           c \in BestOf(Ranked(Candidates), ask.of.kinds[j])
    BY DEF RequiredKindsComeFirst
  <1>1. Accounted(context.items, Ranked(Candidates), ask.of.kinds, best, ask.of.budget)
    BY RetrievalIs
  <1>2. Ranked(Candidates) \in Seq(Candidates)
    BY GivenIsUsable, RankedIs
  <1>3. best.kind = ask.of.kinds[i]
    BY <1>2, BestIsUsable
  <1>4. ~Includes(context.items, best)
    BY <1>3 DEF Includes, Shown
  <1> QED
    BY <1>1, <1>4 DEF Accounted, BestOnly, Shown

\* Of any catalog and any history of its reviews, what a page shows or a prompt
\* is given was approved with just that text; a context that calls itself
\* complete is; and required kinds are not crowded out.
THEOREM EvidenceIsSoundHolds ==
  WorkSpec => []EvidenceIsSound
  <1>1. ReadIInv => OnlyApprovedIsGiven
    BY GivenWasApproved DEF OnlyApprovedIsGiven
  <1>2. ReadIInv => CompleteIsComplete
    <2>1. CASE ~(Done /\ context.status = "complete")
      BY <2>1 DEF CompleteIsComplete
    <2>2. CASE Done /\ context.status = "complete"
      BY <2>2, CompleteContext
    <2> QED
      BY <2>1, <2>2
  <1>3. ReadIInv => RequiredKindsComeFirst
    BY RequiredContext
  <1>4. ReadIInv => EvidenceIsSound
    BY <1>1, <1>2, <1>3 DEF EvidenceIsSound
  <1> QED
    BY <1>4, ReadsInductive, PTL

=============================================================================
