--------------------------- MODULE AccountDeletion ---------------------------
(***************************************************************************)
(* Deleting an account: AccountLifecycleService.confirmDeletion drives     *)
(* four steps recorded on a receipt, over the receipt and the tombstone    *)
(* (packages/db), PgBossJobRuntime.cancelByRequester and the identity      *)
(* provider.  A call may fail or stop between any two awaits and may be    *)
(* repeated, even while another call is running; requests of the same      *)
(* account admitted before the tombstone, and job handlers, still run.     *)
(* The users row stands for everything that is deleted with it.            *)
(***************************************************************************)
EXTENDS Naturals

CONSTANTS Calls,      \* POST /me/deletion calls
          Requests,   \* other authenticated requests of the account
          Jobs,       \* its rows in application_jobs
          MaxFaults   \* bound: failed steps, failed writes and lost processes

ASSUME FaultsAssumption == MaxFaults \in Nat

VARIABLES
  account,    \* the users row exists
  identity,   \* external: the identity exists at the provider
  sessions,   \* external: the identity has sessions that can be refreshed
  tombstone,  \* the subject has a tombstone, and so a receipt
  receipt,    \* the receipt of the tombstone
  job,        \* the application_jobs rows
  queued,     \* external: the jobs pg-boss still has
  handler,    \* the worker's handler of each job
  call,       \* the calls of confirmDeletion
  request,    \* the other requests
  effects,    \* history: the steps whose operation was carried out at least once
  faults

vars == <<account, identity, sessions, tombstone, receipt, job, queued, handler, call,
          request, effects, faults>>

Steps == {"sessionRevocation", "jobCancellation", "liveDataDeletion", "authIdentityDeletion"}
StepStates == {"pending", "succeeded", "failed"}
Checklist == [Steps -> StepStates]
Receipt == [steps: Checklist, status: {"pending", "completed", "failed"}, completedAt: BOOLEAN]
JobRow == [owner: {"none", "user", "receipt"},
           status: {"queued", "running", "succeeded", "cancelled"}, result: BOOLEAN]
CallPhases == {"idle", "begin", "create", "check", "dequeue", "scrub", "mark", "confirm", "done"}
Call == [phase: CallPhases, step: Steps, outcome: {"succeeded", "failed"}, seen: Checklist,
         batch: SUBSET Jobs]

TypeOK ==
  /\ account \in BOOLEAN /\ identity \in BOOLEAN /\ sessions \in BOOLEAN
  /\ tombstone \in BOOLEAN
  /\ receipt \in Receipt
  /\ job \in [Jobs -> JobRow]
  /\ queued \in SUBSET Jobs
  /\ handler \in [Jobs -> {"none", "fetched", "running", "done"}]
  /\ call \in [Calls -> Call]
  /\ request \in [Requests -> {"idle", "provision", "reserve", "enqueue", "done"}]
  /\ effects \in SUBSET Steps
  /\ faults \in Nat

Fresh == [s \in Steps |-> "pending"]
NoJob == [owner |-> "none", status |-> "queued", result |-> FALSE]
QueuedJob == [owner |-> "user", status |-> "queued", result |-> FALSE]

\* An account that exists, with any of its jobs waiting.
Init ==
  /\ account = TRUE /\ identity = TRUE /\ sessions = TRUE /\ tombstone = FALSE
  /\ receipt = [steps |-> Fresh, status |-> "pending", completedAt |-> FALSE]
  /\ queued \in SUBSET Jobs
  /\ job = [j \in Jobs |-> IF j \in queued THEN QueuedJob ELSE NoJob]
  /\ handler = [j \in Jobs |-> "none"]
  /\ call = [c \in Calls |-> [phase |-> "idle", step |-> "sessionRevocation",
                              outcome |-> "succeeded", seen |-> Fresh, batch |-> {}]]
  /\ request = [q \in Requests |-> "idle"]
  /\ effects = {}
  /\ faults = 0

Fault == faults < MaxFaults /\ faults' = faults + 1
At(c, phase) == call[c].phase = phase
Goto(c, phase) == call' = [call EXCEPT ![c].phase = phase]

-----------------------------------------------------------------------------
(* The receipt.                                                            *)

\* Mutant: a checklist without failures counts as complete.
NothingFailed(steps) == \A s \in Steps : steps[s] # "failed"

\* markDeletionStep sets the status from the whole checklist.
Completed(steps) == \A s \in Steps : steps[s] = "succeeded"

Marked(steps) ==
  [steps |-> steps,
   status |-> IF Completed(steps) THEN "completed"
              ELSE IF \E s \in Steps : steps[s] = "failed" THEN "failed" ELSE "pending",
   completedAt |-> Completed(steps)]

\* The call takes the receipt it was given and starts with the first step,
\* unless the receipt is complete.
Take(x, r) ==
  IF r.status = "completed" THEN [x EXCEPT !.phase = "done"]
  ELSE [x EXCEPT !.phase = "check", !.step = "sessionRevocation", !.seen = r.steps]

Start(c) ==
  /\ At(c, "idle")
  /\ Goto(c, "begin")
  /\ UNCHANGED <<account, identity, sessions, tombstone, receipt, job, queued, handler, request,
                 effects, faults>>

\* beginDeletion looks for a tombstone first, outside of any transaction ...
Begin(c) ==
  /\ At(c, "begin")
  /\ call' = [call EXCEPT ![c] = IF tombstone THEN Take(@, receipt) ELSE [@ EXCEPT !.phase = "create"]]
  /\ UNCHANGED <<account, identity, sessions, tombstone, receipt, job, queued, handler, request,
                 effects, faults>>

\* ... and in its transaction provisions the account, locks its row, and finds
\* the receipt of a concurrent call or writes its own.
Create(c) ==
  LET fresh == Marked(Fresh)
      found == IF tombstone THEN receipt ELSE fresh
  IN
  /\ At(c, "create")
  /\ account' = TRUE
  /\ tombstone' = TRUE
  /\ receipt' = found
  /\ call' = [call EXCEPT ![c] = Take(@, found)]
  /\ UNCHANGED <<identity, sessions, job, queued, handler, request, effects, faults>>

-----------------------------------------------------------------------------
(* The steps of confirmDeletion.                                           *)

Following(step) ==
  CASE step = "sessionRevocation" -> "jobCancellation"
    [] step = "jobCancellation" -> "liveDataDeletion"
    [] OTHER -> "authIdentityDeletion"

\* The next step, or the end of the list.
Proceed(x) ==
  IF x.step = "authIdentityDeletion" THEN [x EXCEPT !.phase = "confirm"]
  ELSE [x EXCEPT !.phase = "check", !.step = Following(x.step)]

\* The call is about to run this step, or one of its later awaits.
Due(c, phase, step) ==
  /\ At(c, phase) /\ call[c].step = step
  /\ call[c].seen[step] # "succeeded"

\* Mutant: a step that failed before is taken for done.
SkipAttempted(c) ==
  /\ At(c, "check") /\ call[c].seen[call[c].step] # "pending"
  /\ call' = [call EXCEPT ![c] = Proceed(@)]
  /\ UNCHANGED <<account, identity, sessions, tombstone, receipt, job, queued, handler, request,
                 effects, faults>>

Skip(c) ==
  /\ At(c, "check") /\ call[c].seen[call[c].step] = "succeeded"
  /\ call' = [call EXCEPT ![c] = Proceed(@)]
  /\ UNCHANGED <<account, identity, sessions, tombstone, receipt, job, queued, handler, request,
                 effects, faults>>

\* The operation of the step has answered.
Answered(c, outcome) ==
  call' = [call EXCEPT ![c] = [@ EXCEPT !.phase = "mark", !.outcome = outcome]]

RevokeSessions(c) ==
  /\ Due(c, "check", "sessionRevocation")
  /\ sessions' = FALSE
  /\ effects' = effects \union {"sessionRevocation"}
  /\ Answered(c, "succeeded")
  /\ UNCHANGED <<account, identity, tombstone, receipt, job, queued, handler, request, faults>>

\* cancelByRequester reads the rows of the user, takes their jobs from the
\* queue one by one, and rewrites the rows it has read.
ReadJobs(c) ==
  /\ Due(c, "check", "jobCancellation")
  /\ call' = [call EXCEPT ![c] = [@ EXCEPT !.phase = "dequeue",
                                           !.batch = {j \in Jobs : job[j].owner = "user"}]]
  /\ UNCHANGED <<account, identity, sessions, tombstone, receipt, job, queued, handler, request,
                 effects, faults>>

DequeueJobs(c) ==
  /\ At(c, "dequeue")
  /\ queued' = queued \ call[c].batch
  /\ Goto(c, "scrub")
  /\ UNCHANGED <<account, identity, sessions, tombstone, receipt, job, handler, request, effects,
                 faults>>

Scrubbed(row) ==
  [owner |-> "receipt", result |-> FALSE,
   status |-> IF row.status \in {"queued", "running"} THEN "cancelled" ELSE row.status]

ScrubJobs(c) ==
  /\ At(c, "scrub")
  /\ job' = [j \in Jobs |-> IF j \in call[c].batch THEN Scrubbed(job[j]) ELSE job[j]]
  /\ effects' = effects \union {"jobCancellation"}
  /\ Answered(c, "succeeded")
  /\ UNCHANGED <<account, identity, sessions, tombstone, receipt, queued, handler, request, faults>>

\* The users row and all that cascades from it; the receipt becomes pending.
Purge(c) ==
  /\ Due(c, "check", "liveDataDeletion")
  /\ account => ~receipt.completedAt
  /\ account' = FALSE
  /\ receipt' = IF account THEN [receipt EXCEPT !.status = "pending"] ELSE receipt
  /\ effects' = effects \union {"liveDataDeletion"}
  /\ Answered(c, "succeeded")
  /\ UNCHANGED <<identity, sessions, tombstone, job, queued, handler, request, faults>>

\* A completed receipt cannot become pending (completion check): rolled back.
PurgeRefused(c) ==
  /\ Due(c, "check", "liveDataDeletion")
  /\ account /\ receipt.completedAt
  /\ Answered(c, "failed")
  /\ UNCHANGED <<account, identity, sessions, tombstone, receipt, job, queued, handler, request,
                 effects, faults>>

DeleteIdentity(c) ==
  /\ Due(c, "check", "authIdentityDeletion")
  /\ identity' = FALSE /\ sessions' = FALSE
  /\ effects' = effects \union {"authIdentityDeletion"}
  /\ Answered(c, "succeeded")
  /\ UNCHANGED <<account, tombstone, receipt, job, queued, handler, request, faults>>

\* The operation throws, before or after it was carried out.
OperationFails(c) ==
  /\ Fault
  /\ \/ At(c, "check") /\ call[c].seen[call[c].step] # "succeeded"
     \/ call[c].phase \in {"dequeue", "scrub"}
     \/ At(c, "mark") /\ call[c].outcome = "succeeded"
  /\ Answered(c, "failed")
  /\ UNCHANGED <<account, identity, sessions, tombstone, receipt, job, queued, handler, request,
                 effects>>

\* Mutant: the call goes on whatever became of the step.
Stubborn(x) == Proceed(x)

\* A failed revocation does not stop the call, any other failure does.
AfterMark(x) ==
  IF x.outcome = "failed" /\ x.step \in {"jobCancellation", "liveDataDeletion"}
  THEN [x EXCEPT !.phase = "done"] ELSE Proceed(x)

Mark(c) ==
  LET steps == [receipt.steps EXCEPT ![call[c].step] = call[c].outcome] IN
  /\ At(c, "mark")
  /\ receipt' = Marked(steps)
  /\ call' = [call EXCEPT ![c] = AfterMark([@ EXCEPT !.seen = steps])]
  /\ UNCHANGED <<account, identity, sessions, tombstone, job, queued, handler, request, effects,
                 faults>>

\* An identity that is gone has no sessions either.
Confirm(c) ==
  LET seen == call[c].seen IN
  /\ At(c, "confirm")
  /\ receipt' = IF seen["authIdentityDeletion"] = "succeeded" /\ seen["sessionRevocation"] # "succeeded"
                THEN Marked([receipt.steps EXCEPT !["sessionRevocation"] = "succeeded"])
                ELSE receipt
  /\ Goto(c, "done")
  /\ UNCHANGED <<account, identity, sessions, tombstone, job, queued, handler, request, effects,
                 faults>>

\* The process stops, or a write of the receipt fails: the call has no handler
\* for that, not even where the step itself has succeeded.
Interrupt(c) ==
  /\ call[c].phase \notin {"idle", "done"} /\ Fault
  /\ Goto(c, "done")
  /\ UNCHANGED <<account, identity, sessions, tombstone, receipt, job, queued, handler, request,
                 effects>>

-----------------------------------------------------------------------------
(* The other requests of the account, and its jobs.                        *)

\* requireAuthentication lets a request in that sees no tombstone: one that
\* provisions the account (a profile, an export), or one that asks for a job.
Admit(q) ==
  /\ request[q] = "idle" /\ ~tombstone
  /\ \E work \in {"provision", "reserve"} : request' = [request EXCEPT ![q] = work]
  /\ UNCHANGED <<account, identity, sessions, tombstone, receipt, job, queued, handler, call,
                 effects, faults>>

Provision(q) ==
  /\ request[q] = "provision"
  /\ account' = TRUE
  /\ request' = [request EXCEPT ![q] = "done"]
  /\ UNCHANGED <<identity, sessions, tombstone, receipt, job, queued, handler, call, effects, faults>>

\* createRun needs a trip of the account ...
Reserve(q) ==
  /\ request[q] = "reserve"
  /\ request' = [request EXCEPT ![q] = IF account THEN "enqueue" ELSE "done"]
  /\ UNCHANGED <<account, identity, sessions, tombstone, receipt, job, queued, handler, call,
                 effects, faults>>

\* ... and the job is enqueued afterwards.
Enqueue(q) ==
  /\ request[q] = "enqueue"
  /\ \E j \in Jobs :
       /\ job[j].owner = "none"
       /\ job' = [job EXCEPT ![j] = QueuedJob]
       /\ queued' = queued \union {j}
  /\ request' = [request EXCEPT ![q] = "done"]
  /\ UNCHANGED <<account, identity, sessions, tombstone, receipt, handler, call, effects, faults>>

\* External: the tombstone does not keep the user from signing in again.
SignIn ==
  /\ identity /\ ~sessions
  /\ sessions' = TRUE
  /\ UNCHANGED <<account, identity, tombstone, receipt, job, queued, handler, call, request,
                 effects, faults>>

\* External: a worker takes the job; nothing takes it away from the worker.
Fetch(j) ==
  /\ j \in queued /\ handler[j] = "none"
  /\ handler' = [handler EXCEPT ![j] = "fetched"]
  /\ UNCHANGED <<account, identity, sessions, tombstone, receipt, job, queued, call, request,
                 effects, faults>>

\* executeJob writes the row whatever it has become.
RunJob(j) ==
  /\ handler[j] = "fetched"
  /\ handler' = [handler EXCEPT ![j] = "running"]
  /\ job' = [job EXCEPT ![j].status = "running"]
  /\ UNCHANGED <<account, identity, sessions, tombstone, receipt, queued, call, request, effects,
                 faults>>

FinishJob(j) ==
  /\ handler[j] = "running"
  /\ handler' = [handler EXCEPT ![j] = "done"]
  /\ job' = [job EXCEPT ![j].status = "succeeded", ![j].result = TRUE]
  /\ queued' = queued \ {j}
  /\ UNCHANGED <<account, identity, sessions, tombstone, receipt, call, request, effects, faults>>

-----------------------------------------------------------------------------

Advance(c) ==
  \/ Begin(c) \/ Create(c) \/ Skip(c)
  \/ RevokeSessions(c) \/ ReadJobs(c) \/ DequeueJobs(c) \/ ScrubJobs(c)
  \/ Purge(c) \/ PurgeRefused(c) \/ DeleteIdentity(c)
  \/ Mark(c) \/ Confirm(c)

Serve(q) == Admit(q) \/ Provision(q) \/ Reserve(q) \/ Enqueue(q)

Next ==
  \/ \E c \in Calls : Start(c) \/ Advance(c) \/ OperationFails(c) \/ Interrupt(c)
  \/ \E q \in Requests : Serve(q)
  \/ SignIn
  \/ \E j \in Jobs : Fetch(j) \/ RunJob(j) \/ FinishJob(j)

Spec == Init /\ [][Next]_vars

\* A call that was accepted is carried on by its process.
FairSpec == Spec /\ \A c \in Calls : WF_vars(Advance(c))

-----------------------------------------------------------------------------

\* A completed receipt is backed by the world: every operation was carried out,
\* the identity is gone and no session of it is left, however often the user has
\* signed in since the revocation (markDeletionStep counts steps that other
\* calls, overlapping, failed or interrupted, have recorded).
CompletedIsEarned ==
  receipt.status = "completed" =>
    /\ {"jobCancellation", "liveDataDeletion", "authIdentityDeletion"} \subseteq effects
    /\ ~identity /\ ~sessions

\* The identity goes last: while there is data left to delete the user can
\* still sign in and repeat the call (the early returns of confirmDeletion).
IdentityGoesLast ==
  ~identity => {"jobCancellation", "liveDataDeletion"} \subseteq effects

\* A call that has the account to itself and meets no further fault completes the
\* deletion, whatever failed or stopped in the calls before it.
RetryCompletes ==
  \A c \in Calls :
    At(c, "begin") /\ (\A d \in Calls \ {c} : At(d, "done")) /\ faults = MaxFaults ~>
      receipt.status = "completed"

=============================================================================
