------------------------------ MODULE JobRuntime ------------------------------
(***************************************************************************)
(* The background jobs of packages/jobs/src/pg-boss.ts: the                *)
(* application_jobs row that users and operators see, beside the pg-boss   *)
(* job that workers run.  One transaction creates both; afterwards every   *)
(* writer touches them one at a time: a worker that executes the job, an   *)
(* API call that cancels it, the deletion of an account that scrubs its    *)
(* jobs, an operator who redrives or discards a dead letter, and a worker  *)
(* process that shuts down, crashes or restarts.                           *)
(***************************************************************************)
EXTENDS Integers

CONSTANTS Jobs,         \* job ids, and the executions' queue jobs
          Keys,         \* idempotency keys, each deterministic in its producer
          AccountKeys,  \* those of requests of the account; the others are the system's
          Unique,       \* a key that contains the id of its own job and belongs to no
                        \* other: that of a replacement, or of a scrubbed row
          None,         \* no job
          Calls,        \* calls to cancel, cancelByRequester, redrive and discard
          MaxAttempts,  \* policy.maxAttempts
          MaxFaults     \* bound: crashes, timeouts, failed writes and shutdowns

ASSUME AttemptsAssumption == MaxAttempts \in Nat \ {0}
ASSUME FaultsAssumption == MaxFaults \in Nat
ASSUME KeysAssumption == AccountKeys \subseteq Keys
ASSUME NamesAssumption == Unique \notin Keys /\ None \notin Jobs

VARIABLES
  row,     \* the application_jobs rows
  queue,   \* external: the pg-boss job of each row
  exec,    \* executeJob, one per delivery
  call,    \* the calls
  audit,   \* the job_operator_actions rows
  worker,  \* the worker process
  faults   \* faults so far

vars == <<row, queue, exec, call, audit, worker, faults>>

Attempts == 1..MaxAttempts
Execs == Jobs \X Attempts

OpenStatus == {"queued", "running", "retrying"}
Statuses == OpenStatus \union {"absent", "succeeded", "cancelled", "dead_lettered", "discarded"}
OpenQueue == {"created", "active", "retry"}
QueueStates == OpenQueue \union {"absent", "completed", "failed", "cancelled", "deleted"}

\* about: whose data the payload names; error: the row has a code and a summary.
Row == [status: Statuses, attempt: Nat, key: Keys \union {Unique},
        requester: {"user", "operator", "system"}, about: {"account", "system"},
        payload: BOOLEAN, error: BOOLEAN]
QueueJob == [state: QueueStates, attempt: 0..MaxAttempts]

\* An execution waits for its first write, runs the handler, then returns what it
\* has written to pg-boss.  A lost one has not written its outcome, an unheard one
\* has and pg-boss never learns it.
Phases == {"idle", "claim", "run", "return", "done", "lost", "unheard"}
Verdicts == {"none", "succeeded", "cancelled", "retrying", "dead_lettered"}
Execution == [phase: Phases, aborted: BOOLEAN, verdict: Verdicts]

Ops == {"idle", "dequeue", "mark", "remove", "scrub", "scrubbed", "enqueue", "record",
        "discard", "done"}
\* found: the rows cancelByRequester selected; todo: those still in the queue;
\* job: the row the call is about, or the replacement it has enqueued.
Call == [op: Ops, job: Jobs \union {None}, found: SUBSET Jobs, todo: SUBSET Jobs, payload: BOOLEAN,
         about: {"account", "system"}]
Action == [action: {"redrive", "discard"}, job: Jobs, replacement: Jobs]

TypeOK ==
  /\ row \in [Jobs -> Row]
  /\ queue \in [Jobs -> QueueJob]
  /\ exec \in [Execs -> Execution]
  /\ call \in [Calls -> Call]
  /\ audit \in SUBSET Action
  /\ worker \in {"up", "stopping", "down"}
  /\ faults \in 0..MaxFaults

NoRow == [status |-> "absent", attempt |-> 0, key |-> Unique, requester |-> "system",
          about |-> "system", payload |-> FALSE, error |-> FALSE]
Unstarted == [phase |-> "idle", aborted |-> FALSE, verdict |-> "none"]
NoCall == [op |-> "idle", job |-> None, found |-> {}, todo |-> {}, payload |-> FALSE,
              about |-> "system"]

Init ==
  /\ row = [j \in Jobs |-> NoRow]
  /\ queue = [j \in Jobs |-> [state |-> "absent", attempt |-> 0]]
  /\ exec = [e \in Execs |-> Unstarted]
  /\ call = [c \in Calls |-> NoCall]
  /\ audit = {}
  /\ worker = "up"
  /\ faults = 0

Fault == faults < MaxFaults /\ faults' = faults + 1
Open(j) == row[j].status \in OpenStatus

-----------------------------------------------------------------------------
(* enqueue: the row and the queue job in one transaction.                  *)

\* crypto.randomUUID(): which unused id it is makes no difference.
Fresh(j) == row[j].status = "absent" /\ j = CHOOSE i \in Jobs : row[i].status = "absent"

\* Mutant: the row is inserted and the queue job is never sent.
ReserveOnly(j, key, requester, about) ==
  /\ Fresh(j)
  /\ \A i \in Jobs : key \in Keys => row[i].key # key
  /\ row' = [row EXCEPT ![j] = [NoRow EXCEPT !.status = "queued", !.key = key,
               !.requester = requester, !.about = about, !.payload = TRUE]]
  /\ queue' = queue

\* A key that is taken returns the existing row, or is refused where type or
\* subject differ; neither changes anything.
Reserve(j, key, requester, about) ==
  /\ Fresh(j)
  /\ \A i \in Jobs : key \in Keys => row[i].key # key
  /\ row' = [row EXCEPT ![j] = [NoRow EXCEPT !.status = "queued", !.key = key,
               !.requester = requester, !.about = about, !.payload = TRUE]]
  /\ queue' = [queue EXCEPT ![j].state = "created"]

\* A producer: a request of the account, or a schedule.
Enqueue(j, key) ==
  /\ IF key \in AccountKeys THEN Reserve(j, key, "user", "account")
     ELSE Reserve(j, key, "system", "system")
  /\ UNCHANGED <<exec, call, audit, worker, faults>>

-----------------------------------------------------------------------------
(* External: pg-boss delivers, expires and gives up jobs.                  *)

Requeued(q) ==
  [q EXCEPT !.state = IF q.attempt < MaxAttempts THEN "retry" ELSE "failed"]

\* pg-boss still waits for this delivery.
Holds(e) == queue[e[1]].state = "active" /\ queue[e[1]].attempt = e[2]
Running(e) == exec[e].phase \in {"claim", "run", "return"}

Deliver(j) ==
  LET a == queue[j].attempt + 1 IN
  /\ worker = "up"
  /\ queue[j].state \in {"created", "retry"} /\ a \in Attempts
  /\ queue' = [queue EXCEPT ![j] = [state |-> "active", attempt |-> a]]
  /\ exec' = [exec EXCEPT ![<<j, a>>].phase = "claim"]
  /\ UNCHANGED <<row, call, audit, worker, faults>>

\* The handler outlives expireInSeconds: its signal is aborted, its job is taken
\* back, and it runs on.
TimeOut(e) ==
  /\ Running(e) /\ ~exec[e].aborted /\ Fault
  /\ exec' = [exec EXCEPT ![e].aborted = TRUE]
  /\ queue' = IF Holds(e) THEN [queue EXCEPT ![e[1]] = Requeued(@)] ELSE queue
  /\ UNCHANGED <<row, call, audit, worker>>

\* The lease of a delivery that will never return runs out.
Expire(e) ==
  /\ exec[e].phase \in {"lost", "unheard"} /\ Holds(e)
  /\ queue' = [queue EXCEPT ![e[1]] = Requeued(@)]
  /\ UNCHANGED <<row, exec, call, audit, worker, faults>>

-----------------------------------------------------------------------------
(* executeJob.                                                             *)

\* The row becomes running whatever it was.
Claim(e) ==
  /\ exec[e].phase = "claim"
  /\ row' = [row EXCEPT ![e[1]].status = "running", ![e[1]].attempt = e[2]]
  /\ exec' = [exec EXCEPT ![e].phase = "run"]
  /\ UNCHANGED <<queue, call, audit, worker, faults>>

\* The status of a handler that ended: an aborted signal wins, then its result,
\* then what the policy allows its error.
Outcome(e, ending) ==
  IF exec[e].aborted THEN "cancelled"
  ELSE IF ending = "succeeded" THEN "succeeded"
  ELSE IF ending = "transient" /\ e[2] < MaxAttempts THEN "retrying"
  ELSE "dead_lettered"

\* The handler returns, or throws a permanent, a transient or an unknown error;
\* the row is written whatever it has become meanwhile ...
Conclude(e) ==
  /\ exec[e].phase = "run"
  /\ \E ending \in {"succeeded", "transient", "permanent"} :
       LET status == Outcome(e, ending) IN
       /\ row' = [row EXCEPT ![e[1]].status = status, ![e[1]].error = status # "succeeded"]
       /\ exec' = [exec EXCEPT ![e].phase = "return", ![e].verdict = status]
  /\ UNCHANGED <<queue, call, audit, worker, faults>>

\* Mutant: a retry is not reported as a failure, so pg-boss waits on.
AnsweredNot(q, verdict) ==
  CASE verdict \in {"succeeded", "cancelled"} -> [q EXCEPT !.state = "completed"]
    [] verdict = "retrying" -> q
    [] OTHER -> [q EXCEPT !.state = "failed"]

\* What pg-boss does with the JobResult of a delivery it waits for.
Answered(q, verdict) ==
  CASE verdict \in {"succeeded", "cancelled"} -> [q EXCEPT !.state = "completed"]
    [] verdict = "retrying" -> Requeued(q)
    [] OTHER -> [q EXCEPT !.state = "failed"]

\* ... and pg-boss hears of it.
Return(e) ==
  /\ exec[e].phase = "return"
  /\ queue' = IF Holds(e) THEN [queue EXCEPT ![e[1]] = Answered(@, exec[e].verdict)] ELSE queue
  /\ exec' = [exec EXCEPT ![e].phase = "done", ![e].verdict = "none"]
  /\ UNCHANGED <<row, call, audit, worker, faults>>

\* What becomes of an execution that stops where it is.
Lost(x) ==
  IF x.phase = "return" THEN [x EXCEPT !.phase = "unheard"] ELSE [x EXCEPT !.phase = "lost"]

\* A write of executeJob fails: the promise rejects and pg-boss fails the job.
WriteFails(e) ==
  /\ exec[e].phase \in {"claim", "run"} /\ Fault
  /\ exec' = [exec EXCEPT ![e].phase = "lost"]
  /\ queue' = IF Holds(e) THEN [queue EXCEPT ![e[1]] = Requeued(@)] ELSE queue
  /\ UNCHANGED <<row, call, audit, worker>>

\* The row says succeeded, and reading it back fails: the error is handled like
\* one of the handler.
RereadFails(e) ==
  LET status == Outcome(e, "transient") IN
  /\ exec[e].phase = "return" /\ exec[e].verdict = "succeeded" /\ Fault
  /\ row' = [row EXCEPT ![e[1]].status = status, ![e[1]].error = TRUE]
  /\ exec' = [exec EXCEPT ![e].verdict = status]
  /\ UNCHANGED <<queue, call, audit, worker>>

-----------------------------------------------------------------------------
(* The worker process.                                                     *)

\* shutdown: no more jobs are fetched ...
Shutdown ==
  /\ worker = "up" /\ Fault
  /\ worker' = "stopping"
  /\ UNCHANGED <<row, queue, exec, call, audit>>

\* ... and the process ends when the running executions have returned,
Exit ==
  /\ worker = "stopping" /\ \A e \in Execs : ~Running(e)
  /\ worker' = "down"
  /\ UNCHANGED <<row, queue, exec, call, audit, faults>>

\* or with them: after 30 seconds, or because it crashed.
Die ==
  /\ worker # "down" /\ Fault
  /\ worker' = "down"
  /\ exec' = [e \in Execs |-> IF Running(e) THEN Lost(exec[e]) ELSE exec[e]]
  /\ UNCHANGED <<row, queue, call, audit>>

Start ==
  /\ worker = "down"
  /\ worker' = "up"
  /\ UNCHANGED <<row, queue, exec, call, audit, faults>>

-----------------------------------------------------------------------------
(* cancel: it reads the row, cancels the queue job, then writes the row.   *)

Begin(c, op, j) ==
  /\ call[c].op = "idle"
  /\ call' = [call EXCEPT ![c].op = op, ![c].job = j]
Continue(c, op) == call' = [call EXCEPT ![c].op = op]
End(c, op) == call' = [call EXCEPT ![c] = [NoCall EXCEPT !.op = op]]

Cancel(c, j) ==
  /\ Open(j)
  /\ Begin(c, "dequeue", j)
  /\ UNCHANGED <<row, queue, exec, audit, worker, faults>>

CancelledQueue(q) == IF q.state \in OpenQueue THEN [q EXCEPT !.state = "cancelled"] ELSE q

CancelDequeue(c) ==
  /\ call[c].op = "dequeue"
  /\ queue' = [queue EXCEPT ![call[c].job] = CancelledQueue(@)]
  /\ Continue(c, "mark")
  /\ UNCHANGED <<row, exec, audit, worker, faults>>

CancelMark(c) ==
  /\ call[c].op = "mark"
  /\ row' = [row EXCEPT ![call[c].job].status = "cancelled"]
  /\ End(c, "done")
  /\ UNCHANGED <<queue, exec, audit, worker, faults>>

-----------------------------------------------------------------------------
(* cancelByRequester, for the account that is being deleted.               *)

Scrub(c) ==
  LET found == {j \in Jobs : row[j].status # "absent" /\ row[j].requester = "user"} IN
  /\ call[c].op = "idle"
  /\ call' = [call EXCEPT ![c].op = IF found = {} THEN "scrubbed" ELSE "remove",
                          ![c].found = found, ![c].todo = found]
  /\ UNCHANGED <<row, queue, exec, audit, worker, faults>>

\* One row after the other: its queue job is cancelled and deleted.
ScrubRemove(c, j) ==
  /\ call[c].op = "remove" /\ j \in call[c].todo
  /\ queue' = [queue EXCEPT ![j].state = "deleted"]
  /\ call' = [call EXCEPT ![c].todo = @ \ {j}]
  /\ UNCHANGED <<row, exec, audit, worker, faults>>

Scrubbed(r) ==
  [r EXCEPT !.status = IF @ \in OpenStatus THEN "cancelled" ELSE @, !.key = Unique,
            !.requester = "system", !.about = "system", !.payload = FALSE, !.error = FALSE]

\* Then one statement rewrites the rows that were selected.
ScrubRows(c) ==
  /\ call[c].op = "remove" /\ call[c].todo = {}
  /\ row' = [j \in Jobs |-> IF j \in call[c].found THEN Scrubbed(row[j]) ELSE row[j]]
  /\ End(c, "scrubbed")
  /\ UNCHANGED <<queue, exec, audit, worker, faults>>

-----------------------------------------------------------------------------
(* redrive and discard, by an operator.                                    *)

Redrive(c, j) ==
  /\ row[j].status = "dead_lettered" /\ call[c].op = "idle"
  /\ call' = [call EXCEPT ![c].op = "enqueue", ![c].job = j, ![c].payload = row[j].payload,
                          ![c].about = row[j].about]
  /\ UNCHANGED <<row, queue, exec, audit, worker, faults>>

\* The replacement carries what was read; an empty payload is refused.
RedriveEnqueue(c, i) ==
  /\ call[c].op = "enqueue" /\ call[c].payload
  /\ Reserve(i, Unique, "operator", call[c].about)
  /\ call' = [call EXCEPT ![c].op = "record", ![c].found = {i}, ![c].about = "system",
                          ![c].payload = FALSE]
  /\ UNCHANGED <<exec, audit, worker, faults>>

RedriveRefused(c) ==
  /\ call[c].op = "enqueue" /\ ~call[c].payload
  /\ End(c, "done")
  /\ UNCHANGED <<row, queue, exec, audit, worker, faults>>

RedriveRecord(c) ==
  /\ call[c].op = "record"
  /\ audit' = audit \union {[action |-> "redrive", job |-> call[c].job, replacement |-> i] :
                            i \in call[c].found}
  /\ End(c, "done")
  /\ UNCHANGED <<row, queue, exec, worker, faults>>

Discard(c, j) ==
  /\ row[j].status = "dead_lettered"
  /\ Begin(c, "discard", j)
  /\ UNCHANGED <<row, queue, exec, audit, worker, faults>>

\* The status that was read is not looked at again.
DiscardMark(c) ==
  LET j == call[c].job IN
  /\ call[c].op = "discard"
  /\ row' = [row EXCEPT ![j].status = "discarded"]
  /\ audit' = audit \union {[action |-> "discard", job |-> j, replacement |-> j]}
  /\ End(c, "done")
  /\ UNCHANGED <<queue, exec, worker, faults>>

\* The process of a call stops, or its next statement fails.
CallFails(c) ==
  /\ call[c].op \notin {"idle", "done", "scrubbed"} /\ Fault
  /\ End(c, "done")
  /\ UNCHANGED <<row, queue, exec, audit, worker>>

-----------------------------------------------------------------------------
Work(e) == Claim(e) \/ Conclude(e) \/ Return(e)
Serve(c) ==
  \/ CancelDequeue(c) \/ CancelMark(c)
  \/ \E j \in Jobs : ScrubRemove(c, j)
  \/ ScrubRows(c)
  \/ \E i \in Jobs : RedriveEnqueue(c, i)
  \/ RedriveRefused(c) \/ RedriveRecord(c) \/ DiscardMark(c)

Next ==
  \/ \E j \in Jobs, k \in Keys : Enqueue(j, k)
  \/ \E j \in Jobs : Deliver(j)
  \/ \E e \in Execs : Work(e) \/ TimeOut(e) \/ Expire(e) \/ WriteFails(e) \/ RereadFails(e)
  \/ Shutdown \/ Exit \/ Die \/ Start
  \/ \E c \in Calls, j \in Jobs : Cancel(c, j) \/ Redrive(c, j) \/ Discard(c, j)
  \/ \E c \in Calls : Scrub(c) \/ Serve(c) \/ CallFails(c)

Spec == Init /\ [][Next]_vars

\* Workers poll and return, leases expire, the platform restarts the process, and
\* an accepted call is carried on.  (None of them goes on for ever, so none is
\* starved by the others.)
Goes ==
  \/ \E j \in Jobs : Deliver(j)
  \/ \E e \in Execs : Work(e) \/ Expire(e)
  \/ Exit \/ Start \/ \E c \in Calls : Serve(c)
FairSpec == Spec /\ WF_vars(Goes)

-----------------------------------------------------------------------------
(* Properties.                                                             *)

\* The queue job of j was taken away by a cancellation or by the deletion.
TakenAway(j) == queue[j].state \in {"cancelled", "deleted"}
\* An execution of j was lost: it has not written its outcome.
SomeLost(j) == \E a \in Attempts : exec[<<j, a>>].phase = "lost"
\* An execution of j was disturbed in a way the row does not show.
Disturbed(j) == \E a \in Attempts : exec[<<j, a>>].aborted \/ exec[<<j, a>>].phase = "unheard"
InHand(j) == \E a \in Attempts : Running(<<j, a>>)

\* No job is forgotten: a row that promises work has a queue job that will be
\* delivered or an execution, unless a call has taken the job away, or an execution
\* was lost before it wrote its outcome.
OpenRowsAreWorkedOn ==
  \A j \in Jobs : Open(j) =>
    queue[j].state \in OpenQueue \/ InHand(j) \/ TakenAway(j) \/ SomeLost(j)

\* What the operator sees as over is over: a settled row has no delivery to come
\* but one whose outcome pg-boss has not heard, or an execution timed out.
SettledRowsRest ==
  \A j \in Jobs : (~Open(j) /\ queue[j].state \in OpenQueue) => InHand(j) \/ Disturbed(j)

\* While nothing fails, two open jobs never work under one idempotency key, and a
\* job nobody redrove comes from a producer: redriven work is on record.
RedrivesAreRecorded ==
  \A j \in Jobs : (faults = 0 /\ row[j].requester = "operator") =>
    \/ \E x \in audit : x.action = "redrive" /\ x.replacement = j
    \/ \E c \in Calls : call[c].op = "record" /\ call[c].found = {j}

\* A graceful exit leaves no row running, except for executions lost before it.
ShutdownLeavesNothingRunning ==
  worker = "down" => \A j \in Jobs : row[j].status = "running" => SomeLost(j)

\* A producer that repeats a request never starts a second job for it.
OneJobPerKey ==
  \A i, j \in Jobs : (i # j /\ row[i].key = row[j].key) => row[i].key = Unique

\* The rows the operator sees, the queue and the audit agree, in all these ways.
RowsAreSound ==
  /\ TypeOK
  /\ OpenRowsAreWorkedOn
  /\ SettledRowsRest
  /\ RedrivesAreRecorded
  /\ ShutdownLeavesNothingRunning
  /\ OneJobPerKey

\* Every job settles, or was taken away, or its last delivery was lost.
JobsSettle ==
  \A j \in Jobs :
    Open(j) ~> (~Open(j) \/ TakenAway(j) \/ (queue[j].state \notin OpenQueue /\ SomeLost(j)))
=============================================================================
